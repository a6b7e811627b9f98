---------------------------- MODULE HubSessions ----------------------------
(***************************************************************************)
(* A user's JupyterHub session between four actors: the session tools of   *)
(* the agentic interface (tools/session.py), the user's browser, the gate  *)
(* that admits GPU sessions by what Prometheus shows                       *)
(* (gpu-availability.py), and the culler of idle GPU sessions              *)
(* (cull-gpu-sessions.py).                                                 *)
(*                                                                         *)
(* A tick is the time Prometheus takes to see a pod come or go.  A session *)
(* has a GPU or none: "cpu" is the default profile.  The Hub and           *)
(* Prometheus are external.                                                *)
(***************************************************************************)
EXTENDS Integers, FiniteSets

CONSTANTS
  Users,      \* one server each
  Callers,    \* the users whose agent calls the tools
  Gpus,       \* GPUs of the facility
  TTL,        \* GRANT_TTL in ticks
  Timeout,    \* --timeout of the culler, in ticks
  Polls,      \* status checks of one wait
  None,
  MaxCalls,   \* bound: calls of the tools
  MaxTrouble  \* bound: what browsers ask, and calls of the Hub, of Prometheus and
              \* spawns that fail

ASSUME UsersAssumption == Callers \subseteq Users /\ IsFiniteSet(Users) /\ None \notin Users
\* A grant outlasts the tick Prometheus takes and one more, that of a slow query.
ASSUME TimesAssumption == TTL \in Nat /\ TTL > 1 /\ Timeout \in Nat \ {0} /\ Polls \in Nat \ {0}
ASSUME BoundsAssumption == {Gpus, MaxCalls, MaxTrouble} \subseteq Nat

VARIABLES
  server,   \* the Hub: user -> its server, and how it was admitted
  gate,     \* the hook, while it waits for Prometheus: user -> what it was told
  grants,   \* _recent_grants: user -> the age of its reservation, TTL when it has none
  prom,     \* Prometheus: the users whose GPU pods it shows
  culler,   \* cull_once: the servers left to look at, and the one to stop
  call,     \* user -> the tool call of its agent
  spent

vars == <<server, gate, grants, prom, culler, call, spent>>

Options == {"gpu", "cpu"}
States  == {"none", "asked", "spawn", "ready", "stop"}
NoServer == [st |-> "none", opts |-> "cpu", idle |-> 0, known |-> TRUE]
NoCall   == [pc |-> "idle", op |-> "none", opts |-> "cpu", noted |-> FALSE, stopped |-> FALSE,
             polls |-> 0, absent |-> 0, told |-> "none",
             \* history: the options of the session that ran at first, whether another actor
             \* or a lost answer came in between, and whether there was ever no server
             first |-> "any", others |-> FALSE, gap |-> FALSE]

Init ==
  /\ server = [u \in Users |-> NoServer]
  /\ gate = [u \in Users |-> None]
  /\ grants = [u \in Users |-> TTL]
  /\ prom = {}
  /\ culler = [pc |-> "sleep", todo |-> {}, stop |-> None]
  /\ call = [u \in Callers |-> NoCall]
  /\ spent = [calls |-> 0, trouble |-> 0]

Fault == spent.trouble < MaxTrouble /\ spent' = [spent EXCEPT !.trouble = @ + 1]

\* A pod holds its GPU from its creation until it is gone.
Holders == {u \in Users : server[u].opts = "gpu" /\ server[u].st \in {"spawn", "ready", "stop"}}
Busy(u) == u \in Callers /\ call[u].pc # "idle"

\* The Hub and the browser are seen by the call that runs meanwhile.
Seen(u, s, other) == call' =
  [c \in Callers |-> IF c # u \/ ~Busy(u) THEN call[c]
     ELSE [call[c] EXCEPT !.others = @ \/ other, !.gap = @ \/ s.st = "none"]]

-----------------------------------------------------------------------------
(* The Hub: what it answers, and what its server does next. *)

\* POST /users/{name}/server.
SpawnAnswer(u) == CASE server[u].st = "none" -> "accepted"
                    [] server[u].st \in {"asked", "spawn"} -> "accepted"
                    [] server[u].st = "ready" -> "running"
                    [] OTHER -> "stopping"
Spawned(u, o) == IF server[u].st = "none" THEN [NoServer EXCEPT !.st = "asked", !.opts = o]
                 ELSE server[u]

\* DELETE /users/{name}/server: 400 where nothing can be stopped.
StopAnswers(u) == CASE server[u].st = "ready" -> {"stopped", "stopping"}
                    [] server[u].st = "stop" -> {"stopping"}
                    [] OTHER -> {"norun"}
Stopped(u, answer) == CASE answer = "stopped" -> NoServer
                        [] answer = "stopping" -> [server[u] EXCEPT !.st = "stop"]
                        [] OTHER -> server[u]

\* release_gpu_grants_on_stop: what is gone holds nothing.
Released(u, s) == IF s.st = "none" THEN [grants EXCEPT ![u] = TTL] ELSE grants

Becomes(u, s) == server' = [server EXCEPT ![u] = s] /\ grants' = Released(u, s)

HubStops(u) ==
  /\ server[u].st = "stop"
  /\ Becomes(u, NoServer) /\ Seen(u, NoServer, FALSE)
  /\ UNCHANGED <<gate, prom, culler, spent>>

HubReady(u) ==
  /\ server[u].st = "spawn"
  /\ Becomes(u, [server[u] EXCEPT !.st = "ready"]) /\ Seen(u, server[u], FALSE)
  /\ UNCHANGED <<gate, prom, culler, spent>>

HubSpawnFails(u) ==
  /\ server[u].st = "spawn" /\ Fault
  /\ Becomes(u, NoServer) /\ Seen(u, NoServer, FALSE)
  /\ UNCHANGED <<gate, prom, culler>>

Activity(u) ==
  /\ server[u].st = "ready" /\ server[u].idle > 0
  /\ Becomes(u, [server[u] EXCEPT !.idle = 0])
  /\ UNCHANGED <<gate, prom, culler, call, spent>>

\* The user, in the browser, starts or stops the session.
Browser(u) ==
  /\ Fault
  /\ \/ \E o \in Options : /\ SpawnAnswer(u) = "accepted"
                           /\ Becomes(u, Spawned(u, o)) /\ Seen(u, Spawned(u, o), TRUE)
     \/ \E a \in StopAnswers(u) : Becomes(u, Stopped(u, a)) /\ Seen(u, Stopped(u, a), TRUE)
  /\ UNCHANGED <<gate, prom, culler>>

-----------------------------------------------------------------------------
(* refuse_gpu_spawn_if_unavailable, the hook of a spawn. *)

GateNoGpu(u) ==
  /\ server[u].st = "asked" /\ server[u].opts = "cpu"
  /\ Becomes(u, [server[u] EXCEPT !.st = "spawn"])
  /\ UNCHANGED <<gate, prom, culler, call, spent>>

Observed == IF Gpus > Cardinality(prom) THEN Gpus - Cardinality(prom) ELSE 0

\* observed_free_gpus, past the cache: a query that fails leaves availability unknown.
ObservedFree(known) == [free |-> IF known THEN Observed ELSE 0, slow |-> FALSE, known |-> known]

\* The spawner's earlier reservation goes; get_free_gpus is awaited.
GateAsks(u) ==
  /\ server[u].st = "asked" /\ server[u].opts = "gpu" /\ gate[u] = None
  /\ grants' = [grants EXCEPT ![u] = TTL]
  /\ \E known \in BOOLEAN : /\ gate' = [gate EXCEPT ![u] = ObservedFree(known)]
                             /\ IF known THEN UNCHANGED spent ELSE Fault
  /\ UNCHANGED <<server, prom, culler, call>>

\* Mutant: only what Prometheus shows counts.
GrantsInFlightNone(v) == {}

\* _grants_in_flight: reservations expire.
GrantsInFlight(v) == {w \in Users \ {v} : grants[w] < TTL}

Free(u) == gate[u].free > Cardinality(GrantsInFlight(u))

\* Unknown availability admits, and reserves nothing.
GateAdmits(u) ==
  /\ gate[u] # None /\ (gate[u].known => Free(u))
  /\ gate' = [gate EXCEPT ![u] = None]
  /\ server' = [server EXCEPT ![u].st = "spawn", ![u].known = gate[u].known]
  /\ grants' = IF gate[u].known THEN [grants EXCEPT ![u] = 0] ELSE grants
  /\ UNCHANGED <<prom, culler, call, spent>>

\* GPUsUnavailableError: the spawn has failed.
GateRefuses(u) ==
  /\ gate[u] # None /\ gate[u].known /\ ~Free(u)
  /\ gate' = [gate EXCEPT ![u] = None]
  /\ Becomes(u, NoServer) /\ Seen(u, NoServer, FALSE)
  /\ UNCHANGED <<prom, culler, spent>>

-----------------------------------------------------------------------------
(* cull_once *)

CullLists ==
  /\ culler.pc = "sleep"
  /\ culler' = [culler EXCEPT !.pc = "pass", !.todo = {u \in Holders : server[u].st # "spawn"}]
  /\ UNCHANGED <<server, gate, grants, prom, call, spent>>

\* cull_server looks: pending servers and those in use are left.
Idle(u) == server[u].st = "ready" /\ server[u].idle >= Timeout

\* Mutant: a server the Hub cannot answer for ends the passes.
CullLooksLast(u) ==
  /\ culler.pc = "pass" /\ u \in culler.todo /\ culler.stop = None
  /\ \/ culler' = [culler EXCEPT !.todo = @ \ {u}, !.stop = IF Idle(u) THEN u ELSE None]
        /\ UNCHANGED spent
     \/ culler' = [culler EXCEPT !.pc = "dead"] /\ Fault
  /\ UNCHANGED <<server, gate, grants, prom, call>>

CullLooks(u) ==
  /\ culler.pc = "pass" /\ u \in culler.todo /\ culler.stop = None
  /\ \/ culler' = [culler EXCEPT !.todo = @ \ {u}, !.stop = IF Idle(u) THEN u ELSE None]
        /\ UNCHANGED spent
     \/ culler' = [culler EXCEPT !.todo = @ \ {u}] /\ Fault
  /\ UNCHANGED <<server, gate, grants, prom, call>>

CullStops ==
  /\ culler.stop # None
  /\ culler' = [culler EXCEPT !.stop = None]
  /\ LET u == culler.stop
     IN \/ /\ \E a \in StopAnswers(u) : Becomes(u, Stopped(u, a)) /\ Seen(u, Stopped(u, a), TRUE)
           /\ UNCHANGED spent
        \/ Fault /\ UNCHANGED <<server, grants, call>>
  /\ UNCHANGED <<gate, prom>>

CullSleeps ==
  /\ culler.pc = "pass" /\ culler.todo = {} /\ culler.stop = None
  /\ culler' = [culler EXCEPT !.pc = "sleep"]
  /\ UNCHANGED <<server, gate, grants, prom, call, spent>>

-----------------------------------------------------------------------------
(* The tools.  A call of the Hub is answered; or it fails, "down" where the Hub was  *)
(* not reached, "lost" where it acted and the answer did not arrive, "auth" where    *)
(* the token is refused.                                                             *)

Outcomes == {"ok", "down", "lost", "auth"}
Reached(outcome) == IF outcome = "ok" THEN UNCHANGED spent ELSE Fault
Tells(u, c, told) == call' = [call EXCEPT ![u] = [c EXCEPT !.pc = "idle", !.told = told]]
Goes(u, c, pc)    == call' = [call EXCEPT ![u] = [c EXCEPT !.pc = pc]]

Calls(u, op, pc, o) ==
  /\ call[u].pc = "idle" /\ spent.calls < MaxCalls
  /\ spent' = [spent EXCEPT !.calls = @ + 1]
  /\ call' = [call EXCEPT ![u] = [NoCall EXCEPT !.op = op, !.pc = pc, !.opts = o,
                !.first = IF server[u].st = "ready" /\ o = "keep" THEN server[u].opts ELSE "any",
                !.gap = server[u].st = "none"]]
  /\ UNCHANGED <<server, gate, grants, prom, culler>>

StartCalled(u)   == Calls(u, "start", "choose", "cpu")
StopCalled(u)    == Calls(u, "stop", "stop", "cpu")
StatusCalled(u)  == Calls(u, "status", "look", "cpu")
WaitCalled(u)    == Calls(u, "wait", "poll", "cpu")
RestartCalled(u) == \E o \in Options \cup {"keep"} : Calls(u, "restart", "read", o)

\* _servers: what the Hub lists for a user.
Listed(u) == CASE server[u].st = "none" -> "nosession" [] server[u].st = "ready" -> "running"
               [] server[u].st = "stop" -> "stopping"  [] OTHER -> "pending"

GetStatus(u, outcome) ==
  /\ call[u].pc = "look" /\ Reached(outcome)
  /\ Tells(u, call[u], IF outcome = "ok" THEN Listed(u) ELSE "failed")
  /\ UNCHANGED <<server, gate, grants, prom, culler>>

\* _named_profile: one that is not known, or a list that cannot be read, ends the call,
\* before a restart stops anything.
NamedProfile(u) ==
  /\ call[u].pc \in {"choose", "named"}
  /\ \/ call[u].pc = "named" /\ Goes(u, call[u], "stop")
     \/ Tells(u, call[u], "failed")
  /\ UNCHANGED <<server, gate, grants, prom, culler, spent>>

\* start_af_session asks for the profile and its options, which takes its time, and ends
\* with instructions where the client cannot ask.
Choose(u) ==
  /\ call[u].pc = "choose"
  /\ \/ \E o \in Options : Goes(u, [call[u] EXCEPT !.opts = o], "spawn")
     \/ Tells(u, call[u], "choices")
  /\ UNCHANGED <<server, gate, grants, prom, culler, spent>>

WithOptions(u, prior) == [call[u] EXCEPT !.opts = IF @ = "keep" THEN prior ELSE @]

\* restart_af_session reads the options to use again, unless it is given others.
ReadOptions(u, outcome) ==
  /\ call[u].pc = "read" /\ Reached(outcome)
  /\ LET next == IF call[u].opts = "keep" THEN "stop" ELSE "named"
     IN CASE outcome = "ok" -> Goes(u, WithOptions(u, server[u].opts), next)
          [] outcome = "down" -> Goes(u, [WithOptions(u, "cpu") EXCEPT !.noted = TRUE], next)
          [] outcome = "auth" -> Tells(u, call[u], "failed")
  /\ UNCHANGED <<server, gate, grants, prom, culler>>

\* _stop, and what the tool does with its answer.
DeleteServer(u, outcome) ==
  /\ call[u].pc = "stop" /\ Reached(outcome)
  /\ \E a \in StopAnswers(u) :
       LET s == IF outcome \in {"ok", "lost"} THEN Stopped(u, a) ELSE server[u]
           c == [call[u] EXCEPT !.stopped = outcome = "ok" /\ a # "norun",
                                !.gap = @ \/ s.st = "none", !.others = @ \/ outcome = "lost"]
       IN /\ Becomes(u, s)
          /\ IF outcome # "ok" THEN Tells(u, c, "failed")
             ELSE IF c.op = "stop" THEN Tells(u, c, IF a = "norun" THEN "norun" ELSE "stopping")
             ELSE Goes(u, c, IF a = "stopping" THEN "await" ELSE "spawn")
  /\ UNCHANGED <<gate, prom, culler>>

\* Mutant: a failure after the stop says nothing of it.
AwaitStopFailed(u, outcome) ==
  /\ call[u].pc = "await" /\ Reached(outcome)
  /\ LET c == [call[u] EXCEPT !.polls = @ + 1]
     IN IF outcome = "auth" THEN Tells(u, c, "failed")
        ELSE IF (outcome = "ok" /\ server[u].st # "stop") \/ c.polls = Polls
        THEN Goes(u, c, "spawn") ELSE Goes(u, c, "await")
  /\ UNCHANGED <<server, gate, grants, prom, culler>>

\* What a failure after the stop says: that the session was stopped.
Unfinished == "stopped"

\* _await_stop: bounded; a Hub that is down says nothing about the stop.
AwaitStop(u, outcome) ==
  /\ call[u].pc = "await" /\ Reached(outcome)
  /\ LET c == [call[u] EXCEPT !.polls = @ + 1]
     IN IF outcome = "auth" THEN Tells(u, c, Unfinished)
        ELSE IF (outcome = "ok" /\ server[u].st # "stop") \/ c.polls = Polls
        THEN Goes(u, c, "spawn") ELSE Goes(u, c, "await")
  /\ UNCHANGED <<server, gate, grants, prom, culler>>

\* What the tool says when the Hub answers the spawn.
SpawnTold(c, answer) ==
  IF c.op = "start"
  THEN CASE answer = "accepted" -> "starting" [] answer = "running" -> "running" [] OTHER -> "failed"
  ELSE IF answer = "accepted" THEN "restarting" ELSE Unfinished

\* _spawn.
PostServer(u, outcome) ==
  /\ call[u].pc = "spawn" /\ Reached(outcome)
  /\ LET s == IF outcome \in {"ok", "lost"} THEN Spawned(u, call[u].opts) ELSE server[u]
         c == [call[u] EXCEPT !.others = @ \/ outcome = "lost"]
     IN /\ Becomes(u, s)
        /\ Tells(u, c, IF outcome = "ok" THEN SpawnTold(c, SpawnAnswer(u))
                       ELSE IF c.op = "start" THEN "failed" ELSE Unfinished)
  /\ UNCHANGED <<gate, prom, culler>>

\* wait_for_session counts looks at which no server was listed; one listed starts anew.
AbsentPolls(u, outcome) ==
  IF outcome = "down" THEN call[u].absent
  ELSE IF server[u].st = "none" THEN call[u].absent + 1 ELSE 0

\* _classify_poll: what one look found.
Poll(u, outcome) == IF outcome = "ok" THEN Listed(u) ELSE outcome

PollServer(u, outcome) ==
  /\ call[u].pc = "poll" /\ Reached(outcome)
  /\ LET c == [call[u] EXCEPT !.polls = @ + 1, !.absent = AbsentPolls(u, outcome)]
         seen == Poll(u, outcome)
     IN \/ seen \in {"auth", "stopping"} /\ Tells(u, c, "failed")
        \/ seen = "running" /\ Tells(u, c, "ready")
        \/ seen = "nosession" /\ c.absent >= 2 /\ Tells(u, c, "nosession")
        \/ /\ seen \in {"down", "pending"} \/ (seen = "nosession" /\ c.absent < 2)
           /\ IF c.polls = Polls THEN Tells(u, c, "timeout") ELSE Goes(u, c, "poll")
  /\ UNCHANGED <<server, gate, grants, prom, culler>>

-----------------------------------------------------------------------------

\* A query that is awaited straddles one tick at most; a pass of the culler none.
Tick ==
  /\ culler.pc # "pass" /\ \A u \in Users : gate[u] # None => ~gate[u].slow
  /\ prom' = Holders
  /\ gate' = [u \in Users |-> IF gate[u] = None THEN None ELSE [gate[u] EXCEPT !.slow = TRUE]]
  /\ grants' = [u \in Users |-> IF grants[u] < TTL THEN grants[u] + 1 ELSE TTL]
  /\ server' = [u \in Users |-> IF server[u].st = "ready" /\ server[u].idle < Timeout
                                THEN [server[u] EXCEPT !.idle = @ + 1] ELSE server[u]]
  /\ UNCHANGED <<culler, call, spent>>

ToolStep(u) == Choose(u) \/ NamedProfile(u) \/ \E outcome \in Outcomes :
  \/ outcome # "lost" /\ (ReadOptions(u, outcome) \/ AwaitStop(u, outcome) \/ PollServer(u, outcome)
                        \/ GetStatus(u, outcome))
  \/ DeleteServer(u, outcome) \/ PostServer(u, outcome)
Gate(u) == GateNoGpu(u) \/ GateAsks(u) \/ GateAdmits(u) \/ GateRefuses(u)
Cull == CullLists \/ (\E u \in Users : CullLooks(u)) \/ CullStops \/ CullSleeps

Next ==
  \/ \E u \in Users : \/ HubStops(u) \/ HubReady(u) \/ HubSpawnFails(u) \/ Activity(u)
                      \/ Browser(u) \/ Gate(u)
  \/ \E u \in Callers : \/ StartCalled(u) \/ StopCalled(u) \/ StatusCalled(u)
                        \/ WaitCalled(u) \/ RestartCalled(u) \/ ToolStep(u)
  \/ Cull \/ Tick

Spec == Init /\ [][Next]_vars

\* The Hub, the hook and the culler go on, and time passes.
FairSpec ==
  /\ Spec /\ WF_vars(Cull) /\ SF_vars(Tick)
  /\ \A u \in Users : WF_vars(HubStops(u)) /\ WF_vars(HubReady(u)) /\ WF_vars(Gate(u))
  /\ \A u \in Callers : WF_vars(ToolStep(u))

-----------------------------------------------------------------------------
(* Properties. *)

Known == \A u \in Holders : server[u].known

\* The sessions the gate admitted by what it knew never hold more GPUs than there are,
\* although Prometheus shows a pod late, two hooks wait at once and reservations expire.
NoOvercommit == Known => Cardinality(Holders) <= Gpus

\* A GPU session nobody uses is stopped in the end, whatever other servers answer.
IdleGpuCulled ==
  \A u \in Users : (u \in Holders /\ server[u].st = "ready" /\ server[u].idle = Timeout)
                     ~> (server[u].st # "ready" \/ server[u].idle = 0)

\* What a tool says at the end of a call is so, whatever the Hub, the browser and the
\* culler did meanwhile and whichever of its requests failed.  A wait says that there is
\* no session only if there was none at some time of the wait.  A restart that only says
\* it failed stopped nothing that it knows of.  A restart of a session that ran, and that
\* gives no note, starts it with the options it had if nobody else touched it.
ToldTrue ==
  [][ \A u \in Callers : call[u].pc # "idle" /\ call'[u].pc = "idle" =>
        LET c == call'[u]
        IN /\ c.told = "nosession" => c.gap
           /\ c.op = "restart" /\ c.told = "failed" => ~c.stopped
           /\ c.told = "restarting" /\ ~c.noted /\ ~c.others
                => c.first \in {"any", server'[u].opts} ]_vars
====

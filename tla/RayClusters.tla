----------------------------- MODULE RayClusters -----------------------------
(***************************************************************************)
(* Users' own Ray clusters at Purdue (apps/ray-train/gateway.py).          *)
(*                                                                         *)
(* A user has one RayCluster, found by its name.  Ray Client streams       *)
(* (Gateway.relay) and calls of the dashboard (own_cluster) start it,      *)
(* replace it when they ask for another shape, and stop it; admit, under   *)
(* the lock `admitting`, gives it its GPUs; and the reaper removes it once *)
(* idle, or when its workers do not all start.  What the gateway knows of  *)
(* a cluster is in memory and lost with it, and every await of one         *)
(* coroutine lets another run, so an action is what one does between two.  *)
(*                                                                         *)
(* KubeRay, Prometheus and what a user's Ray program does are external.    *)
(* Time is counted in ticks: an age grows with Tick up to the timeout that *)
(* it is compared with.                                                    *)
(***************************************************************************)
EXTENDS Integers, Sequences, FiniteSets

CONSTANTS
  Users,      \* each has one cluster, of their name
  Clients,    \* Ray Clients, or callers of own_cluster: one call at a time
  Owners,     \* whose they may be: functions from Clients to Users
  Flavors,    \* GPU resources, the first to be given first: a sequence
  Budget,     \* of each, the GPUs all clusters may hold together
  Asks,       \* client -> the shapes it asks for
  Answers,    \* what Prometheus may say is free
  Kinds,      \* client -> the calls it makes: "relay", "start", "ask", "stop", "force"
  None,       \* no cluster, no shape, no age
  Idle, Start, Grant, GoneFor, Provision,  \* *_TIMEOUT_S, GRANT_S, GONE_S
  MaxCalls,   \* bound: calls of all clients, and what they send
  MaxFaults   \* bound: calls to Kubernetes or a head that fail, restarts

Resources == {Flavors[i] : i \in 1..Len(Flavors)}
Silent    == [known |-> FALSE]
NoGpus    == [r \in Resources |-> 0]

\* What `caller` lets through: requested_memory leaves the flavors from some
\* one on, requested_per_worker and requested_workers bound the numbers.
ShapeOK(s) ==
  /\ s.from \in 1..Len(Flavors)
  /\ s.per \in Nat \ {0}
  /\ s.workers \in Nat \ {0}
  /\ s.least \in {1, s.workers}

\* The shapes calls ask for; GPUs of each resource, a RayCluster as Kubernetes has it, and a grant.
Shapes     == UNION {Asks[c] : c \in Clients}
Gpus       == [Resources -> Nat]
RayCluster == [uid : Nat, shape : Shapes, gpus : Gpus, leaving : BOOLEAN, head : BOOLEAN,
               full : BOOLEAN, busy : BOOLEAN, age : Nat]
Granted    == [gpus : Gpus, age : Nat]

ASSUME OwnersAssumption == Owners \subseteq [Clients -> Users]
ASSUME NamesAssumption == IsFiniteSet(Users) /\ Flavors \in Seq(Resources)
ASSUME NoneAssumption ==
  /\ None \notin Nat /\ None \notin Clients /\ None \notin Users /\ None \notin Shapes
  /\ None \notin Gpus /\ None \notin RayCluster /\ None \notin Granted
ASSUME AnswersAssumption == \A free \in Answers :
  {free.unheld, free.preemptible} \subseteq [Resources -> Int]
ASSUME BudgetAssumption == Budget \in [Resources -> Nat]
ASSUME TimesAssumption ==
  /\ {Idle, Start, Grant, GoneFor, Provision} \subseteq Nat \ {0}
  /\ MaxCalls \in Nat /\ MaxFaults \in Nat

VARIABLES
  owner,     \* whose each client is; never changes
  rc,        \* Kubernetes: user -> their RayCluster, or None
  made,      \* RayClusters made so far: the next one's uid
  started,   \* user -> the shape their cluster was last found in, or None
  lastUsed,  \* user -> the age of their last use of it, or None
  clients,   \* user -> the clients their cluster serves
  gone,      \* client -> the age of its cluster's removal, or None
  grants,    \* user -> the GPUs admitted with and the age of it, or None
  call,      \* client -> its call: where it is, and what it read
  lock,      \* the client whose call is in admit, or None
  reaper,    \* reap_idle: where it is, and its listing
  session,   \* client -> the uid of the cluster its Ray session is on
  calls, faults, \* counted against MaxCalls and MaxFaults
  hist       \* what happened so far, for the properties alone

gateway == <<started, lastUsed, clients, gone, grants>>
vars == <<owner, rc, made, gateway, call, lock, reaper, session, calls,
          faults, hist>>

-----------------------------------------------------------------------------
(* Helpers. *)

Min2(a, b) == IF a < b THEN a ELSE b
Max2(a, b) == IF a > b THEN a ELSE b
Older(a, limit) == IF a = None THEN None ELSE Min2(a + 1, limit)

Live(c) == c # None /\ ~c.leaving
\* Mutant: any cluster that stays up will do.
RunsAny(c, shape) == Live(c)

Runs(c, shape) == Live(c) /\ c.shape = shape

\* RayClusterProvisioned is False, and has been for PROVISION_TIMEOUT_S.
Unprovisioned(c) == Live(c) /\ ~c.full /\ c.age >= Provision

Held(cs, r) == LET got[S \in SUBSET Users] ==
                     IF S = {} THEN 0
                     ELSE LET u == CHOOSE x \in S : TRUE
                          IN (IF cs[u] = None THEN 0 ELSE cs[u][r])
                             + got[S \ {u}]
               IN got[Users]

NoCall == [pc |-> "idle", kind |-> "none", shape |-> None, seen |-> None,
           mix |-> NoGpus, others |-> None, granted |-> None, age |-> 0,
           raced |-> FALSE]
Asleep == [pc |-> "asleep", todo |-> {}, late |-> {}, at |-> None]

Init ==
  /\ owner \in Owners
  /\ rc = [u \in Users |-> None]
  /\ made = 0
  /\ started = [u \in Users |-> None]
  /\ lastUsed = [u \in Users |-> None]
  /\ clients = [u \in Users |-> {}]
  /\ gone = [c \in Clients |-> None]
  /\ grants = [u \in Users |-> None]
  /\ call = [c \in Clients |-> NoCall]
  /\ lock = None
  /\ reaper = Asleep
  /\ session = [c \in Clients |-> None]
  /\ calls = 0
  /\ faults = 0
  /\ hist = [asked    |-> [u \in Users |-> None],
             lost     |-> [c \in Clients |-> None],
             mixed    |-> {},
             answered |-> FALSE,
             hidden   |-> FALSE,
             lapsed   |-> FALSE]

At(c, pc)   == call[c].pc = pc
Goes(c, pc) == call' = [call EXCEPT ![c].pc = pc, ![c].age = 0]
Ends(c)     == call' = [call EXCEPT ![c] = NoCall]
Fault       == faults < MaxFaults /\ faults' = faults + 1

-----------------------------------------------------------------------------
(* Gateway.delete: Kubernetes marks the cluster of that name, and its answer *)
(* lets delete() forget it and break its streams; its pods, and then the     *)
(* RayCluster, go later (foreground).                                        *)

Leaves(u) == rc' = [rc EXCEPT ![u] = IF @ = None THEN None
                                     ELSE [@ EXCEPT !.leaving = TRUE]]

\* head_status: the head of that name answers, also one of a cluster that leaves.
HeadAnswers(u) == rc[u] # None /\ rc[u].head

\* Mutant: delete() tells no client.
ForgetShape(u) ==
  /\ started' = [started EXCEPT ![u] = None]
  /\ clients' = [clients EXCEPT ![u] = {}]
  /\ UNCHANGED gone

\* The clients u's cluster serves are told of its removal for GONE_S.
Forget(u) ==
  /\ started' = [started EXCEPT ![u] = None]
  /\ gone' = [c \in Clients |-> IF c \in clients[u] THEN 0 ELSE gone[c]]
  /\ clients' = [clients EXCEPT ![u] = {}]

\* The other calls on u's cluster once its channel is closed: streams end, and
\* the rest go on past a removal they were not told of.
Closed(u) == [c \in Clients |->
  IF owner[c] # u \/ At(c, "idle") THEN call[c]
  ELSE IF At(c, "relayed") THEN NoCall
  ELSE [call[c] EXCEPT !.raced = TRUE]]

\* For the properties: u's clients whose session the removal ended.
Losing(u) == [hist EXCEPT !.lost = [c \in Clients |->
  IF /\ owner[c] = u /\ session[c] # None /\ @[c] = None
     /\ ~(Live(rc[u]) /\ rc[u].uid = session[c])
  THEN 0 ELSE @[c]]]

-----------------------------------------------------------------------------
(* A call begins: the checks of relay, cluster_for and own_cluster. *)

\* For the properties: the cluster a call waited for was removed, or replaced
\* with another shape, by the time its head answered.
Found(u, shape) == [hist EXCEPT !.mixed =
  IF started[u] = shape \/ Runs(rc[u], shape) THEN @ ELSE @ \cup {u}]

\* relay joins the stream to the head of that name.
Attach(c, u, shape) ==
  /\ clients' = [clients EXCEPT ![u] = @ \cup {c}]
  /\ gone' = [gone EXCEPT ![c] = None]
  /\ session' = [session EXCEPT ![c] = IF rc[u] = None THEN @ ELSE rc[u].uid]
  /\ call' = [call EXCEPT ![c] = [NoCall EXCEPT !.pc = "relayed", !.kind = "relay",
                                                !.shape = shape]]
  /\ hist' = [Found(u, shape) EXCEPT !.asked[u] = 0, !.lost[c] = None]

\* cluster_for returns: the call is served.
Serve(c, kind, shape) ==
  /\ lastUsed' = [lastUsed EXCEPT ![owner[c]] = 0]
  /\ IF kind = "relay" THEN Attach(c, owner[c], shape)
     ELSE /\ Ends(c)
          /\ hist' = [Found(owner[c], shape) EXCEPT !.asked[owner[c]] = 0]
          /\ UNCHANGED <<clients, gone, session>>

Counted == calls < MaxCalls /\ calls' = calls + 1

\* Ray Client reconnecting: its session went with the cluster.
Told(c) ==
  /\ At(c, "idle") /\ Counted
  /\ "relay" \in Kinds[c] /\ gone[c] # None
  /\ UNCHANGED <<owner, rc, made, gateway, call, lock, reaper, session, faults,
                 hist>>

ServeStarted(c, kind, shape) ==
  /\ At(c, "idle") /\ Counted
  /\ kind = "relay" => gone[c] = None
  /\ started[owner[c]] = shape
  /\ Serve(c, kind, shape)
  /\ UNCHANGED <<owner, rc, made, started, grants, lock, reaper, faults>>

\* `running`: a call about jobs keeps the cluster and starts none; one its head
\* does not answer drops what `started` says (head_silent).
Ask(c) ==
  /\ At(c, "idle") /\ Counted
  /\ "ask" \in Kinds[c]
  /\ LET u == owner[c]
     IN /\ started[u] # None \/ Live(rc[u])
        /\ lastUsed' = [lastUsed EXCEPT ![u] = 0]
        /\ hist' = [hist EXCEPT !.asked[u] = 0]
        /\ started' = [started EXCEPT ![u] =
             IF HeadAnswers(u) THEN @ ELSE None]
  /\ UNCHANGED <<owner, rc, made, clients, gone, grants, call, lock, reaper,
                 session, faults>>

\* caller: the shapes c's calls ask for, of which it refuses those it has no room for ever.
Callable(c) == {s \in Asks[c] : ShapeOK(s)}

\* start_cluster, or a stop, from its reading of the cluster on.
Begin(c, kind, shape) ==
  /\ At(c, "idle") /\ Counted
  /\ kind = "relay" => gone[c] = None
  /\ kind \in {"relay", "start"} => started[owner[c]] # shape
  /\ call' = [call EXCEPT ![c] = [NoCall EXCEPT !.pc = "get", !.kind = kind,
                                                !.shape = shape]]
  /\ UNCHANGED <<owner, rc, made, gateway, lock, reaper, session, faults, hist>>

-----------------------------------------------------------------------------
(* start_cluster and own_cluster, one await at a time. *)

Starting(c) == call[c].kind \in {"relay", "start"}

GetCluster(c) ==
  /\ At(c, "get") /\ Starting(c)
  /\ LET u == owner[c]
         next == IF Runs(rc[u], call[c].shape) THEN "head"
                 ELSE IF Live(rc[u]) THEN "busy" ELSE "admit"
     IN /\ lastUsed' = [lastUsed EXCEPT ![u] = 0]
        /\ hist' = [hist EXCEPT !.asked[u] = 0]
        /\ call' = [call EXCEPT ![c].pc = next, ![c].seen =
             IF next = "head" \/ rc[u] = None THEN None
             ELSE [gpus |-> rc[u].gpus, leaving |-> rc[u].leaving]]
  /\ UNCHANGED <<owner, rc, made, started, clients, gone, grants, lock, reaper,
                 session, calls, faults>>

\* A stop of no cluster is refused; `force` skips the question to the head.
GetToStop(c) ==
  /\ At(c, "get") /\ ~Starting(c)
  /\ IF ~Live(rc[owner[c]]) THEN Ends(c)
     ELSE Goes(c, IF call[c].kind = "force" THEN "delete" ELSE "busy")
  /\ UNCHANGED <<owner, rc, made, gateway, lock, reaper, session, calls,
                 faults, hist>>

\* busy(): the head says whether tasks or jobs run; a ready one that does not
\* answer counts as busy.
HeadSays(u, b) ==
  \/ b = (Live(rc[u]) /\ HeadAnswers(u) /\ rc[u].busy) /\ UNCHANGED faults
  \/ HeadAnswers(u) /\ b /\ Fault

AskBusy(c) ==
  /\ At(c, "busy")
  /\ \E b \in BOOLEAN :
       /\ HeadSays(owner[c], b)
       /\ IF b THEN Ends(c)                      \* FAILED_PRECONDITION
          ELSE Goes(c, IF Starting(c) THEN "admit" ELSE "delete")
  /\ UNCHANGED <<owner, rc, made, gateway, lock, reaper, session, calls, hist>>

\* admit takes the lock, drops the grants that lapsed and lists the clusters.
Counts(g) == g # None /\ g.age < Grant

AdmitList(c) ==
  /\ At(c, "admit") /\ lock = None
  /\ lock' = c
  /\ LET kept == [v \in Users |-> IF Counts(grants[v]) THEN grants[v] ELSE None]
         held(f) == [v \in Users |-> IF f[v] = None \/ v = owner[c] THEN None
                                     ELSE f[v].gpus]
     IN /\ grants' = kept
        /\ call' = [call EXCEPT ![c].pc = "admitting", ![c].others = held(rc),
                                ![c].granted = held(kept)]
  /\ UNCHANGED <<owner, rc, made, started, lastUsed, clients, gone, reaper,
                 session, calls, faults, hist>>

\* The GPUs of `r` a new cluster may take: without Prometheus what the budget
\* leaves, where a grant stands for a cluster not listed yet.
Replaced(k, r) == IF Live(k.seen) THEN k.seen.gpus[r] ELSE 0
\* Mutant: a cluster counts only once Kubernetes lists it.
AvailableListed(k, r, free) ==
  IF free = Silent THEN Budget[r] - Held(k.others, r)
  ELSE free.unheld[r] + Replaced(k, r) - Held(k.granted, r)

Available(k, r, free) ==
  IF free = Silent
  THEN Budget[r] - Held([u \in Users |-> IF k.others[u] # None
                                         THEN k.others[u] ELSE k.granted[u]], r)
  ELSE free.unheld[r] + Replaced(k, r) - Held(k.granted, r)

\* free_gpus: of each resource the GPUs no pod holds, and those of preemptible pods, as
\* Prometheus last saw them; Silent if it does not say.
FreeGpus == Answers \cup {Silent}

\* The workers given of each flavor the shape allows, in their order.
Given(k, free) ==
  LET upTo[i \in 0..Len(Flavors)] ==
        IF i < k.shape.from THEN 0
        ELSE upTo[i - 1] + Max2(Min2(
               Available(k, Flavors[i], free) \div k.shape.per,
               k.shape.workers - upTo[i - 1]), 0)
  IN [i \in 1..Len(Flavors) |-> upTo[i] - upTo[i - 1]]

\* The flavors of which a preemptible worker would give way.
Evicting(k, free) ==
  IF free = Silent \/ k.shape.per # 1 THEN {}
  ELSE {i \in k.shape.from..Len(Flavors) :
          free.unheld[Flavors[i]] + free.preemptible[Flavors[i]]
            - Replaced(k, Flavors[i]) - Held(k.granted, Flavors[i]) > 0}

Mix(k, free) ==
  LET given == Given(k, free)
      evicting == Evicting(k, free)
  IN IF evicting # {} /\ \A i \in DOMAIN given : given[i] = 0
     THEN [i \in DOMAIN given |->
             IF i \in evicting /\ \A j \in evicting : i <= j THEN 1 ELSE 0]
     ELSE given

Workers(mix) == LET upTo[i \in 0..Len(Flavors)] ==
                      IF i = 0 THEN 0 ELSE upTo[i - 1] + mix[i]
                IN upTo[Len(Flavors)]

\* For the properties: what the listing counts for some cluster is less than its
\* successor was admitted with.
Hides(k) == \E v \in Users, r \in Resources :
  k.others[v] # None /\ k.granted[v] # None /\ k.granted[v][r] > k.others[v][r]

AdmitDecide(c, free) ==
  /\ At(c, "admitting")
  /\ lock' = None
  /\ LET k == call[c]
         mix == Mix(k, free)
         gpus == [r \in Resources |->
                    k.shape.per * mix[CHOOSE i \in 1..Len(Flavors) : Flavors[i] = r]]
         next == IF Live(k.seen) THEN "delete"
                 ELSE IF k.seen # None THEN "leaving" ELSE "create"
         admitted == k.shape.least <= Workers(mix)
     IN /\ IF ~admitted
           THEN Ends(c) /\ UNCHANGED grants       \* RESOURCE_EXHAUSTED
           ELSE /\ grants' = [grants EXCEPT ![owner[c]] = [gpus |-> gpus, age |-> 0]]
                /\ call' = [call EXCEPT ![c] = [k EXCEPT !.pc = next, !.mix = gpus,
                           !.seen = None, !.others = None, !.granted = None]]
        /\ hist' = [hist EXCEPT !.answered = @ \/ free # Silent,
                                !.hidden = @ \/ (admitted /\ Hides(k))]
  /\ UNCHANGED <<owner, rc, made, started, lastUsed, clients, gone, reaper,
                 session, calls, faults>>

Delete(c) ==
  /\ At(c, "delete")
  /\ Leaves(owner[c])
  /\ Goes(c, "deleted")
  /\ UNCHANGED <<owner, made, gateway, lock, reaper, session, calls, faults,
                 hist>>

\* A replacement goes on; a stop also ends the idle clock.
Deleted(c) ==
  /\ At(c, "deleted")
  /\ LET u == owner[c]
     IN /\ Forget(u)
        /\ hist' = Losing(u)
        /\ call' = [Closed(u) EXCEPT ![c] =
             IF Starting(c) THEN [@ EXCEPT !.pc = "leaving"] ELSE NoCall]
        /\ lastUsed' = [lastUsed EXCEPT ![u] =
                          IF call[c].kind \in {"stop", "force"} THEN None ELSE @]
  /\ UNCHANGED <<owner, rc, made, grants, lock, reaper, session, calls, faults>>

\* wait_until_gone.
Left(c) ==
  /\ At(c, "leaving") /\ rc[owner[c]] = None
  /\ Goes(c, "create")
  /\ UNCHANGED <<owner, rc, made, gateway, lock, reaper, session, calls,
                 faults, hist>>

\* build_cluster: in the shape asked for, with the workers admitted; no pod is up yet.
Built(k) ==
  [uid |-> made + 1, shape |-> k.shape, gpus |-> k.mix, leaving |-> FALSE,
   head |-> FALSE, full |-> FALSE, busy |-> FALSE, age |-> 0]

\* For the properties: the grant of u still stands for what a call creates.
Covers(g, mix) == Counts(g) /\ \A r \in Resources : mix[r] <= g.gpus[r]

\* 201, or 409: another call was first, perhaps with another shape (ABORTED).
Create(c) ==
  /\ At(c, "create")
  /\ LET u == owner[c]
     IN IF rc[u] = None
        THEN /\ rc' = [rc EXCEPT ![u] = Built(call[c])]
             /\ made' = made + 1
             /\ call' = [call EXCEPT ![c].pc = "head", ![c].mix = NoGpus]
             /\ hist' = [hist EXCEPT !.lapsed = @ \/ ~Covers(grants[u], call[c].mix)]
        ELSE /\ IF Runs(rc[u], call[c].shape) THEN Goes(c, "head") ELSE Ends(c)
             /\ UNCHANGED <<rc, made, hist>>
  /\ UNCHANGED <<owner, gateway, lock, reaper, session, calls, faults>>

CreateFails(c) ==
  /\ At(c, "create")
  /\ Fault
  /\ grants' = [grants EXCEPT ![owner[c]] = None]
  /\ Ends(c)
  /\ UNCHANGED <<owner, rc, made, started, lastUsed, clients, gone, lock,
                 reaper, session, calls, hist>>

\* Mutant: only the start of a call keeps its cluster.
HeadUpUnmarked(c) ==
  /\ At(c, "head")
  /\ HeadAnswers(owner[c])
  /\ started' = [started EXCEPT ![owner[c]] = call[c].shape]
  /\ call[c].kind = "relay"
  /\ Attach(c, owner[c], call[c].shape)
  /\ UNCHANGED <<owner, rc, made, lastUsed, grants, lock, reaper, calls, faults>>

\* head_up: the head of that name answers with its token; cluster_for returns.
HeadUp(c) ==
  /\ At(c, "head")
  /\ HeadAnswers(owner[c])
  /\ started' = [started EXCEPT ![owner[c]] = call[c].shape]
  /\ Serve(c, call[c].kind, call[c].shape)
  /\ UNCHANGED <<owner, rc, made, grants, lock, reaper, calls, faults>>

\* A head that answers without the token too (OPEN_HEAD) is removed.
HeadOpen(c) ==
  /\ At(c, "head")
  /\ HeadAnswers(owner[c])
  /\ Fault
  /\ call' = [call EXCEPT ![c].pc = "delete", ![c].kind = "open"]
  /\ UNCHANGED <<owner, rc, made, gateway, lock, reaper, session, calls, hist>>

\* Kubernetes does not answer, or the wait for it takes START_TIMEOUT_S.
Refuse(c) ==
  /\ \/ At(c, "leaving") /\ call[c].age >= Start /\ UNCHANGED faults
     \/ At(c, "head") /\ call[c].age >= Start /\ UNCHANGED faults
     \/ call[c].pc \in {"get", "admitting", "delete", "leaving", "head"} /\ Fault
  /\ lock' = IF lock = c THEN None ELSE lock
  /\ Ends(c)
  /\ UNCHANGED <<owner, rc, made, gateway, reaper, session, calls, hist>>

-----------------------------------------------------------------------------
(* A stream that is relayed. *)

\* tracked: what the notebook sends keeps its cluster, and may run a task.
Send(c) ==
  /\ At(c, "relayed") /\ Counted
  /\ LET u == owner[c]
     IN /\ HeadAnswers(u)
        /\ lastUsed' = [lastUsed EXCEPT ![u] = 0]
        /\ hist' = [hist EXCEPT !.asked[u] = 0]
        /\ \E b \in BOOLEAN : rc' = [rc EXCEPT ![u].busy = @ \/ b]
  /\ UNCHANGED <<owner, made, started, clients, gone, grants, call, lock,
                 reaper, session, faults>>

\* The stream ends: the notebook left, or the head is not there (UNAVAILABLE).
StreamEnds(c) ==
  /\ At(c, "relayed")
  /\ LET u == owner[c]
     IN started' = [started EXCEPT ![u] =
          IF HeadAnswers(u) THEN @ ELSE None]
  /\ Ends(c)
  /\ UNCHANGED <<owner, rc, made, lastUsed, clients, gone, grants, lock, reaper,
                 session, calls, faults, hist>>

-----------------------------------------------------------------------------
(* reap_idle. *)

\* It works through a listing: the clusters in it, and those whose workers had
\* not all started in time when it was made.
ReapList ==
  /\ reaper = Asleep
  /\ \E u \in Users : rc[u] # None
  /\ reaper' = [todo |-> {u \in Users : rc[u] # None},
                late |-> {u \in Users : Unprovisioned(rc[u])},
                at   |-> None, pc |-> "next"]
  /\ UNCHANGED <<owner, rc, made, gateway, call, lock, session, calls, faults,
                 hist>>

\* The pass past u, over when nothing is left of it.
Passed(u) == IF reaper.todo \ {u} = {} THEN Asleep
             ELSE [reaper EXCEPT !.todo = @ \ {u}, !.late = @ \ {u},
                                 !.at = None, !.pc = "next"]

ReapLate(u) ==
  /\ reaper.pc = "next" /\ u \in reaper.late
  /\ reaper' = [reaper EXCEPT !.at = u, !.pc = "late"]
  /\ UNCHANGED <<owner, rc, made, gateway, call, lock, session, calls, faults,
                 hist>>

\* A cluster first seen here (the gateway restarted) starts its idle clock.
ReapAsk(u) ==
  /\ reaper.pc = "next" /\ u \in reaper.todo \ reaper.late
  /\ \E b \in BOOLEAN :
       /\ HeadSays(u, b)
       /\ lastUsed' = [lastUsed EXCEPT ![u] = IF b \/ @ = None THEN 0 ELSE @]
       /\ reaper' = IF ~b /\ lastUsed[u] = Idle
                    THEN [reaper EXCEPT !.at = u, !.pc = "idle"] ELSE Passed(u)
  /\ UNCHANGED <<owner, rc, made, started, clients, gone, grants, call, lock,
                 session, calls, hist>>

ReapDelete ==
  /\ reaper.pc \in {"late", "idle"}
  /\ \/ /\ Leaves(reaper.at)
        /\ reaper' = [reaper EXCEPT !.pc = "deleted"]
        /\ UNCHANGED faults
     \/ /\ Fault
        /\ reaper' = Passed(reaper.at)
        /\ UNCHANGED rc
  /\ UNCHANGED <<owner, made, gateway, call, lock, session, calls, hist>>

ReapDeleted ==
  /\ reaper.pc = "deleted"
  /\ Forget(reaper.at)
  /\ hist' = Losing(reaper.at)
  /\ call' = Closed(reaper.at)
  /\ lastUsed' = [lastUsed EXCEPT ![reaper.at] = None]
  /\ reaper' = Passed(reaper.at)
  /\ UNCHANGED <<owner, rc, made, grants, lock, session, calls, faults>>

-----------------------------------------------------------------------------
(* What is not the gateway: KubeRay, the users' tasks, time, a restart. *)

\* Pods take longer to start or to go than Kubernetes to answer a deletion.
Answered(u) ==
  /\ \A c \in Clients : owner[c] = u => ~At(c, "deleted")
  /\ reaper.pc = "deleted" => reaper.at # u

PodsStart(u) ==
  /\ Answered(u)
  /\ Live(rc[u])
  /\ \/ ~rc[u].head /\ rc' = [rc EXCEPT ![u].head = TRUE]
     \/ rc[u].head /\ ~rc[u].full /\ rc' = [rc EXCEPT ![u].full = TRUE]
  /\ UNCHANGED <<owner, made, gateway, call, lock, reaper, session, calls,
                 faults, hist>>

TasksEnd(u) ==
  /\ rc[u] # None /\ rc[u].busy
  /\ rc' = [rc EXCEPT ![u].busy = FALSE]
  /\ UNCHANGED <<owner, made, gateway, call, lock, reaper, session, calls,
                 faults, hist>>

PodsLeave(u) ==
  /\ Answered(u)
  /\ rc[u] # None /\ rc[u].leaving
  /\ rc' = [rc EXCEPT ![u] = None]
  /\ UNCHANGED <<owner, made, gateway, call, lock, reaper, session, calls,
                 faults, hist>>

\* An age stops where no comparison tells it from a greater one.  Only
\* waiting for a cluster, with its own deadline, takes a tick or more: the other
\* awaits are single calls, which time out within seconds.
Tick ==
  /\ \A c \in Clients :
       call[c].pc \in {"idle", "leaving", "head", "relayed"} /\ call[c].age < Start
  /\ reaper.pc = "asleep"
  /\ rc' = [u \in Users |-> IF rc[u] = None THEN None
              ELSE [rc[u] EXCEPT !.age = Min2(@ + 1, Provision)]]
  /\ lastUsed' = [u \in Users |-> Older(lastUsed[u], Idle)]
  /\ gone' = [c \in Clients |->
                IF gone[c] = None \/ gone[c] + 1 >= GoneFor THEN None
                ELSE gone[c] + 1]
  /\ grants' = [u \in Users |-> IF grants[u] = None THEN None
                  ELSE [grants[u] EXCEPT !.age = Min2(@ + 1, Grant)]]
  /\ call' = [c \in Clients |-> IF call[c].pc \in {"leaving", "head"}
                THEN [call[c] EXCEPT !.age = @ + 1] ELSE call[c]]
  /\ hist' = [hist EXCEPT
                !.asked = [u \in Users |-> Older(@[u], Idle)],
                !.lost = [c \in Clients |-> Older(@[c], GoneFor)]]
  /\ UNCHANGED <<owner, made, started, clients, lock, reaper, session, calls,
                 faults>>

\* All the gateway knew is lost, its calls and its streams with it.
Restart ==
  /\ Fault
  /\ started' = [u \in Users |-> None]
  /\ lastUsed' = [u \in Users |-> None]
  /\ clients' = [u \in Users |-> {}]
  /\ gone' = [c \in Clients |-> None]
  /\ grants' = [u \in Users |-> None]
  /\ call' = [c \in Clients |-> NoCall]
  /\ lock' = None
  /\ reaper' = Asleep
  /\ session' = [c \in Clients |-> None]
  /\ hist' = [hist EXCEPT !.lost = [c \in Clients |-> None]]
  /\ UNCHANGED <<owner, rc, made, calls>>

CallStep(c) ==
  \/ GetCluster(c) \/ GetToStop(c) \/ AskBusy(c) \/ AdmitList(c)
  \/ \E free \in FreeGpus : AdmitDecide(c, free)
  \/ Delete(c) \/ Deleted(c) \/ Left(c) \/ Create(c) \/ CreateFails(c)
  \/ HeadUp(c) \/ HeadOpen(c) \/ Refuse(c)

Reap ==
  \/ ReapList \/ (\E u \in Users : ReapLate(u) \/ ReapAsk(u))
  \/ ReapDelete \/ ReapDeleted

Next ==
  \/ \E c \in Clients :
       \/ Told(c)
       \/ \E kind \in Kinds[c] \cap {"relay", "start"}, s \in Callable(c) :
            ServeStarted(c, kind, s) \/ Begin(c, kind, s)
       \/ \E kind \in Kinds[c] \cap {"stop", "force"} : Begin(c, kind, None)
       \/ Ask(c)
       \/ CallStep(c) \/ Send(c) \/ StreamEnds(c)
  \/ Reap
  \/ \E u \in Users : PodsStart(u) \/ TasksEnd(u) \/ PodsLeave(u)
  \/ Tick \/ Restart

Spec == Init /\ [][Next]_vars

-----------------------------------------------------------------------------
(* Properties. *)

\* The clusters together hold no more GPUs of a resource than its budget.
WithinBudget ==
  \A r \in Resources :
    Held([u \in Users |-> IF rc[u] = None THEN None ELSE rc[u].gpus], r) <= Budget[r]

\* While Prometheus is silent, the clusters stay within the budget, whatever calls
\* run between an admission and the creation it was for; unless one was created
\* when its grant no longer stood for it (it waited for its predecessor too long,
\* or another call of its user took the grant over), or one was admitted while the
\* listing still showed, for a larger cluster, the one it replaces.  (In these cases
\* clusters do pass what config.yaml calls "the most of them all clusters hold".)
BudgetKept == hist.answered \/ hist.lapsed \/ hist.hidden \/ WithinBudget

\* reap_idle gives up a cluster as idle only if its owner has not asked for it
\* or sent it anything for IDLE_TIMEOUT_S, however long its start took.
IdleMeansUnused ==
  [][ reaper.pc # "idle" /\ reaper'.pc = "idle"
        => hist.asked[reaper'.at] \in {None, Idle} ]_vars

\* A client whose session the gateway removed is not joined to a later cluster
\* within GONE_S of it, unless its call was already past the check (relay), or
\* `started` once outlived the cluster it was about (hist.mixed): a stream joined on
\* its word waits for a cluster that its deletion is still to forget.
NoSilentMove ==
  [][ \A c \in Clients :
        call[c].pc # "relayed" /\ call'[c].pc = "relayed" /\ session[c] # None
          /\ session'[c] # session[c]
        => \/ call[c].raced \/ owner[c] \in hist.mixed
           \/ hist.lost[c] \in {None, GoneFor} ]_vars

\* A stream is joined to a cluster of the shape it asked for if that is up:
\* what `started` says is true, unless the head that answered a call that waited
\* for it was by then another cluster's, or one's that leaves.
ShapeServed ==
  [][ \A c \in Clients :
        call[c].pc # "relayed" /\ call'[c].pc = "relayed"
          /\ Live(rc[owner[c]]) /\ owner[c] \notin hist'.mixed
        => rc[owner[c]].shape = call'[c].shape ]_vars
=============================================================================

---------------------------- MODULE DaskClusters ----------------------------
(***************************************************************************)
(* The Dask clusters of one account of the facility's Dask Gateway, and    *)
(* its two clients in this repository: the MCP tools an agent calls for a  *)
(* user (docker/agentic-interface/tools/dask.py) and af_dask.client, which *)
(* an analysis's scripts call for a workload account                       *)
(* (workflows/agentic-analysis/af_dask.py).  The cap on an account's       *)
(* clusters is the repository's (apps/dask-gateway/values.yaml); the rest  *)
(* of the gateway is external.                                             *)
(*                                                                         *)
(* A request is one step of the gateway, save a creation, which looks      *)
(* before it creates, and goes on when its caller waits no more.  An       *)
(* answer may be lost.                                                     *)
(***************************************************************************)
EXTENDS Integers, FiniteSets

CONSTANTS
  Tools,        \* the tool calls of a user's agents at work at a time
  Scripts,      \* the scripts of a workload account at work at a time
  Project,      \* caller -> the environment a script runs in
  Counts,       \* the worker counts asked for
  MaxWorkers,   \* the gateway's limit
  MaxClusters,  \* bound: clusters ever
  MaxPolls,     \* bound: polls until SCHEDULER_READY_TIMEOUT
  MaxCalls,     \* bound: calls of each caller
  MaxTrouble    \* bound: answers lost, requests that fail, clusters that end

ASSUME BoundsAssumption ==
  {MaxWorkers, MaxClusters, MaxPolls, MaxCalls, MaxTrouble} \subseteq Nat
ASSUME CountsAssumption == Counts \subseteq Nat

Callers == Tools \cup Scripts

VARIABLES
  kind,     \* whose account it is: a user's, whose agent calls the tools, or the scripts'
  cluster,  \* the gateway's clusters, by the order of their names
  call,     \* caller -> its call
  flock,    \* project -> the script that holds its af_dask.lock
  spent

vars == <<kind, cluster, call, flock, spent>>

Ids == 1..MaxClusters
Active == {"pending", "running"}
NoCluster == [is |-> "none", project |-> "none", left |-> FALSE, target |-> 0]

\* A call: what it asks and where it is; what it told; what it really did to the gateway,
\* made and took; and whether it did not wait for the gateway's answer, or lost it.
NoCall == [pc |-> "off", n |-> 0, name |-> 0, new |-> FALSE, polls |-> 0, told |-> "nothing",
           made |-> 0, took |-> -1, lost |-> FALSE, calls |-> 0]

Init ==
  /\ kind \in {"user", "account"}
  /\ cluster = [c \in Ids |-> NoCluster]
  /\ call = [a \in Callers |-> NoCall]
  /\ flock = [p \in {Project[a] : a \in Callers} |-> {}]
  /\ spent = 0

Trouble == spent < MaxTrouble /\ spent' = spent + 1
At(a, pc) == call[a].pc = pc
Moves(a, pc) == call' = [call EXCEPT ![a].pc = pc]
Listed == {c \in Ids : cluster[c].is \in Active}
Busy == {c \in Ids : cluster[c].is \in Active \cup {"stopping"}}

\* The call returns, or raises, and what its caller is told.
Tells(a, what) == call' = [call EXCEPT ![a].pc = "off", ![a].told = what]
\* The call begins; what the last one was is forgotten.
Called(a) == [NoCall EXCEPT !.calls = call[a].calls + 1]
Idle(a) == At(a, "off") /\ call[a].calls < MaxCalls

-----------------------------------------------------------------------------
(* The gateway. *)

Up(c) ==
  /\ cluster[c].is = "pending"
  /\ cluster' = [cluster EXCEPT ![c].is = "running"]
  /\ UNCHANGED <<kind, call, flock, spent>>

\* It fails, is idle for an hour, or is stopped by another client of the user.
Ends(c) ==
  /\ c \in Listed /\ Trouble
  /\ cluster' = [cluster EXCEPT ![c].is = "stopping"]
  /\ UNCHANGED <<kind, call, flock>>

Gone(c) ==
  /\ cluster[c].is = "stopping"
  /\ cluster' = [cluster EXCEPT ![c].is = "gone"]
  /\ UNCHANGED <<kind, call, flock, spent>>

\* _kube_start_cluster_limited: the look, and what a refusal means to the caller.
Cap(a) ==
  /\ At(a, "cap")
  /\ IF Busy = {} THEN Moves(a, "make") /\ UNCHANGED flock
     ELSE /\ Tells(a, IF call[a].lost THEN "failed" ELSE "refused")
          /\ flock' = [p \in DOMAIN flock |-> flock[p] \ {a}]
  /\ UNCHANGED <<kind, cluster, spent>>

NextId == 1 + Cardinality({c \in Ids : cluster[c].is # "none"})

\* The creation, as the gateway does it, its caller still waiting or not.
Made(a, c) == cluster' = [cluster EXCEPT ![c] = [is |-> "pending", target |-> 0,
                                                 project |-> Project[a], left |-> call[a].lost]]

\* The caller waits no more for its creation: a timeout, a lost connection or its end.
Leaves(a) ==
  /\ call[a].pc \in {"cap", "make"} /\ ~call[a].lost /\ Trouble
  /\ call' = [call EXCEPT ![a].lost = TRUE]
  /\ flock' = [p \in DOMAIN flock |-> flock[p] \ {a}]
  /\ UNCHANGED <<kind, cluster>>

-----------------------------------------------------------------------------
(* The tools. *)

\* The call ends before any request.
NoRequest(a) == call' = [call EXCEPT ![a] = [Called(a) EXCEPT !.told = "choices"]]

\* _build_cluster_options: the choices make the body of a request, or contradict each other.
BuildOptions(a, n) ==
  \/ call' = [call EXCEPT ![a] = [Called(a) EXCEPT !.pc = "cap", !.n = n, !.new = TRUE]]
  \/ NoRequest(a)

\* _resolve_env, _resolve_size, _resolve_count: a choice that is not given is asked for, one
\* after the other; one that is not made ends the call.
Resolved(a) == (\E n \in Counts : BuildOptions(a, n)) \/ NoRequest(a)

\* create_dask_cluster, up to its request.
Choose(a) ==
  /\ kind = "user" /\ a \in Tools /\ Idle(a)
  /\ Resolved(a)
  /\ UNCHANGED <<kind, cluster, flock, spent>>

\* Its answer: it names the cluster, and without workers to start with the call is over; it
\* names none; or nobody waits for it, the tool having said that the gateway is unreachable.
Create(a) ==
  /\ kind = "user" /\ At(a, "make") /\ NextId \in Ids
  /\ Made(a, NextId)
  /\ \/ /\ ~call[a].lost
        /\ call' = [call EXCEPT ![a].pc = IF call[a].n > 0 THEN "poll" ELSE "off",
                                ![a].told = IF call[a].n > 0 THEN @ ELSE "empty",
                                ![a].name = NextId, ![a].made = NextId]
        /\ UNCHANGED spent
     \/ /\ ~call[a].lost /\ Trouble
        /\ call' = [call EXCEPT ![a].pc = "off", ![a].told = "unsure", ![a].made = NextId]
     \/ /\ call[a].lost /\ UNCHANGED spent
        /\ call' = [call EXCEPT ![a].pc = "off", ![a].told = "failed", ![a].made = NextId]
  /\ UNCHANGED <<kind, flock>>

\* scale_dask_cluster.
ScaleCalled(a) ==
  /\ kind = "user" /\ a \in Tools /\ Idle(a)
  /\ \E n \in Counts, c \in Ids :
       /\ cluster[c].is # "none"
       /\ call' = [call EXCEPT ![a] = [Called(a) EXCEPT !.pc = "poll", !.n = n, !.name = c]]
  /\ UNCHANGED <<kind, cluster, flock, spent>>

\* A creation that went wrong later still tells of the cluster, by its name.
GivesUp(a) == Tells(a, IF call[a].new THEN "workerless" ELSE "failed")

\* _await_scheduler: RUNNING, never to be, or not yet.
Poll(a) ==
  /\ At(a, "poll")
  /\ LET is == cluster[call[a].name].is
     IN CASE is = "running" -> Moves(a, "scale")
          [] is \in {"stopping", "gone"} -> GivesUp(a)
          [] is = "pending" /\ call[a].polls < MaxPolls -> call' = [call EXCEPT ![a].polls = @ + 1]
          [] OTHER -> Tells(a, "unsent")
  /\ UNCHANGED <<kind, cluster, flock, spent>>

\* Mutant: a 200 is taken for the count asked for.
ScaleAnswerAny(a) == "scaling"

\* _scale: over the limit the gateway scales to the limit, and says so.
ScaleAnswer(a) == IF call[a].n <= MaxWorkers THEN "scaling" ELSE "clamped"

Taken(n) == IF n <= MaxWorkers THEN n ELSE MaxWorkers

\* The gateway takes workers only for a RUNNING cluster.
Scale(a) ==
  /\ At(a, "scale")
  /\ IF cluster[call[a].name].is = "running"
     THEN /\ cluster' = [cluster EXCEPT ![call[a].name].target = Taken(call[a].n)]
          /\ \/ /\ call' = [call EXCEPT ![a].pc = "off", ![a].told = ScaleAnswer(a),
                                        ![a].took = Taken(call[a].n)]
                /\ UNCHANGED spent
             \/ /\ Trouble   \* the answer is lost
                /\ call' = [call EXCEPT ![a].pc = "off", ![a].took = Taken(call[a].n), ![a].lost = TRUE,
                                        ![a].told = IF call[a].new THEN "workerless" ELSE "failed"]
     ELSE GivesUp(a) /\ UNCHANGED <<cluster, spent>>
  /\ UNCHANGED <<kind, flock>>

\* stop_dask_cluster.
Stop(a) ==
  /\ kind = "user" /\ a \in Tools /\ Idle(a)
  /\ \E c \in Ids, lost \in BOOLEAN :
       /\ cluster[c].is # "none"
       /\ IF lost THEN Trouble ELSE UNCHANGED spent
       /\ cluster' = [cluster EXCEPT ![c].is = IF @ \in Active THEN "stopping" ELSE @]
       /\ call' = [call EXCEPT ![a] = [Called(a) EXCEPT !.name = c, !.lost = lost,
            !.told = IF lost THEN "failed"
                     ELSE IF cluster[c].is = "gone" THEN "missing" ELSE "stopped"]]
  /\ UNCHANGED <<kind, flock>>

\* A tool that reads answers at once, or fails: a gateway or a Prometheus that fails is never
\* taken for a user without clusters, or a cluster without workers.
Reads(a, told) ==
  /\ kind = "user" /\ a \in Tools /\ Idle(a)
  /\ \/ call' = [call EXCEPT ![a] = told] /\ UNCHANGED spent
     \/ Trouble /\ call' = [call EXCEPT ![a] = [Called(a) EXCEPT !.told = "failed"]]
  /\ UNCHANGED <<kind, cluster, flock>>

\* list_dask_clusters.
List(a) == Reads(a, [Called(a) EXCEPT !.took = Cardinality(Listed),
                                      !.told = IF Listed = {} THEN "none" ELSE "listed"])

\* _cluster_record: a name the gateway knows no more is not found.
Record(a, c, what) == [Called(a) EXCEPT !.name = c, !.told = IF cluster[c].is = "gone" THEN "missing" ELSE what]
Known == {c \in Ids : cluster[c].is # "none"}

\* get_dask_cluster_info.
Info(a) == \E c \in Known : Reads(a, Record(a, c, "record"))

\* get_dask_worker_count: without metrics, which a scheduler that starts has not, no count.
WorkerCount(a) ==
  \E c \in Known, what \in {"workers", "nodata"} :
    /\ what = "workers" => cluster[c].is # "pending"
    /\ Reads(a, Record(a, c, what))

\* get_dask_cluster_usage: of the pods that run.
Usage(a) ==
  \E c \in Known, what \in {"usage", "nodata"} :
    /\ what = "usage" => cluster[c].target > 0
    /\ Reads(a, Record(a, c, what))

\* _gateway: a request that does not reach the gateway, or that it fails on.
RequestFails(a) ==
  /\ kind = "user" /\ call[a].pc \in {"cap", "poll", "scale"} /\ ~call[a].lost /\ Trouble
  /\ IF At(a, "cap") THEN Tells(a, "failed") ELSE GivesUp(a)
  /\ UNCHANGED <<kind, cluster, flock>>

-----------------------------------------------------------------------------
(* af_dask.client. *)

Unlocked(a) == [flock EXCEPT ![Project[a]] = @ \ {a}]

Client(a) ==
  /\ kind = "account" /\ a \in Scripts /\ Idle(a)
  /\ call' = [call EXCEPT ![a] = [Called(a) EXCEPT !.pc = "lock"]]
  /\ UNCHANGED <<kind, cluster, flock, spent>>

\* Mutant: no lock.
LockNone(a) ==
  /\ At(a, "lock")
  /\ flock' = [flock EXCEPT ![Project[a]] = @ \cup {a}]
  /\ Moves(a, "look")
  /\ UNCHANGED <<kind, cluster, spent>>

\* One script of an environment looks for a cluster, and creates it, at a time.
Lock(a) ==
  /\ At(a, "lock") /\ flock[Project[a]] = {}
  /\ flock' = [flock EXCEPT ![Project[a]] = {a}]
  /\ Moves(a, "look")
  /\ UNCHANGED <<kind, cluster, spent>>

\* _running: the project's cluster; another's is one too many; none is to be created.
Running(a) ==
  /\ At(a, "look")
  /\ LET own == {c \in Listed : cluster[c].project = Project[a]}
     IN \/ /\ \E c \in own : call' = [call EXCEPT ![a].pc = "connect", ![a].name = c]
           /\ UNCHANGED flock
        \/ own = {} /\ Listed # {} /\ Tells(a, "busy") /\ flock' = Unlocked(a)
        \/ Listed = {} /\ Moves(a, "cap") /\ UNCHANGED flock
  /\ UNCHANGED <<kind, cluster, spent>>

\* gateway.new_cluster: the request is answered, or nobody waits for its answer.
NewCluster(a) ==
  /\ kind = "account" /\ At(a, "make") /\ NextId \in Ids
  /\ Made(a, NextId)
  /\ IF call[a].lost THEN Tells(a, "failed")
     ELSE call' = [call EXCEPT ![a].pc = "connect", ![a].name = NextId]
  /\ UNCHANGED <<kind, flock, spent>>

\* Connected, once the cluster runs: the lock goes, and the cluster adapts.
Connect(a) ==
  /\ At(a, "connect")
  /\ LET c == call[a].name
     IN \/ /\ cluster[c].is = "running" /\ Tells(a, "client")
           /\ cluster' = [cluster EXCEPT ![c].target = MaxWorkers]
        \/ cluster[c].is \in {"stopping", "gone"} /\ Tells(a, "failed") /\ UNCHANGED cluster
  /\ flock' = Unlocked(a)
  /\ UNCHANGED <<kind, spent>>

\* The script ends, by an error or a kill: its flock goes with it.
ScriptFails(a) ==
  /\ kind = "account" /\ call[a].pc \in {"lock", "look", "connect"} /\ Trouble
  /\ Tells(a, "failed") /\ flock' = Unlocked(a)
  /\ UNCHANGED <<kind, cluster>>

-----------------------------------------------------------------------------

Goes(a) == \/ Cap(a) \/ Leaves(a) \/ Create(a) \/ Poll(a) \/ Scale(a) \/ RequestFails(a)
           \/ Lock(a) \/ Running(a) \/ NewCluster(a) \/ Connect(a)

Asks(a) == Choose(a) \/ ScaleCalled(a) \/ Stop(a) \/ List(a) \/ Info(a) \/ WorkerCount(a)
           \/ Usage(a) \/ Client(a)

Next == \/ \E a \in Callers : Asks(a) \/ Goes(a) \/ ScriptFails(a)
        \/ \E c \in Ids : Up(c) \/ Ends(c) \/ Gone(c)

Spec == Init /\ [][Next]_vars

-----------------------------------------------------------------------------
(* Properties. *)

\* The scripts of one environment share a cluster: however they start at once, or end in the
\* middle, no second one is created for it while the first runs, unless a script ended while
\* the gateway was creating one for it (af_dask.client, under its lock).
OneEach ==
  kind = "account" =>
    \A c, d \in {c \in Listed : ~cluster[c].left} : cluster[c].project = cluster[d].project => c = d

\* What a tool tells the agent is what it did.  A cluster that was created is told by its
\* name, or that there may be one, or the gateway did not answer; a worker count is told as
\* the gateway took it, and told as not taken only if it was not, unless the answer was lost;
\* and a cluster that is told to be stopped, missing or none does not run.
ToldTrue ==
  \A a \in Callers :
    LET t == call[a] IN
      (kind = "user" /\ At(a, "off")) =>
        /\ t.told \in {"choices", "refused"} => t.made = 0
        /\ (t.made # 0 /\ ~t.lost) =>
             \/ t.name = t.made /\ t.told \in {"empty", "workerless", "unsent", "scaling", "clamped"}
             \/ t.told = "unsure"
        /\ t.told = "scaling" => t.took = t.n
        /\ t.told = "clamped" => t.took < t.n
        /\ (t.told \in {"empty", "unsent", "workerless"} /\ ~t.lost) => t.took = -1
        /\ t.told \in {"stopped", "missing"} => cluster[t.name].is \in {"stopping", "gone"}
====

---------------------------- MODULE NodeMonitor ----------------------------
(***************************************************************************)
(* Node health monitoring (docker/af-node-monitor).  On a node a probe pod *)
(* per mount runs job_runner.py under a deadline, cycle after cycle        *)
(* (probe_agent.py), and serves the last verdict; the exporter             *)
(* (node_healthcheck.py) pulls the verdicts, pass after pass, and          *)
(* publishes gauges.                                                       *)
(*                                                                         *)
(* One node is modelled.  A tick is PROBE_INTERVAL_S: between two ticks    *)
(* every running probe ends a cycle and the exporter a pass.  Kubernetes   *)
(* and the storage are external.                                           *)
(***************************************************************************)
EXTENDS Integers, FiniteSets

CONSTANTS
  Mounts,      \* MOUNTS
  Fio,         \* those whose probe has ENABLE_FIO
  None,        \* no result, no series, no listing
  Stale,       \* RESULT_STALE_WINDOW_S in ticks
  MaxChanges,  \* bound: changes of the storage, the pods and the node
  MaxFaults    \* bound: cycles, listings and pulls that fail

ASSUME MountsAssumption == Fio \subseteq Mounts /\ None \notin Mounts
ASSUME WindowAssumption == Stale \in Nat \ {0} /\ MaxChanges \in Nat /\ MaxFaults \in Nat

VARIABLES
  mount,     \* the storage: mount -> "good" or "dead"
  pod,       \* Kubernetes: mount -> its probe pod is "up" or "stuck" on its volume
  node,      \* Kubernetes: the node's pool, "none" once it left, and readiness
  probe,     \* probe_agent: mount -> result.json, the Ready marker, whether a cycle ran
  exporter,  \* node_healthcheck: its caches, and what its pass has listed
  gauge,     \* the series: pool, mount -> what is published, or None
  hist,      \* history: mount -> ticks since a check of it last succeeded, and
             \* whether one failed since the exporter last pulled a success
  events

monitorVars == <<mount, pod, node, probe, exporter, gauge, hist, events>>

Pools == {"prod", "dev"}
Old   == Stale + 2      \* ages beyond the window are not told apart
Future == -1            \* stamped by a clock ahead of the exporter's

\* result.json: when, whether it succeeded, and the last rate; `due`, that fio is.
Result == [age : Future..Old, ok : BOOLEAN, rate : {"none", "zero", "real"}]
Verdict(ok, rate) == [age |-> 0, ok |-> ok, rate |-> rate]
Rate(r) == IF r = None THEN "none" ELSE r.rate
set_ready(r, ready) == [r EXCEPT !.ready = ready]
Fresh == [result |-> None, ready |-> FALSE, due |-> FALSE, ran |-> FALSE]

MonitorInit ==
  /\ mount = [m \in Mounts |-> "good"]
  /\ pod = [m \in Mounts |-> "up"]
  /\ node = [pool |-> "prod", ready |-> TRUE]
  /\ probe = [m \in Mounts |-> Fresh]
  /\ exporter = [pc |-> "sleep", node |-> None, pods |-> None, ran |-> FALSE,
                 results |-> [m \in Mounts |-> None]]
  /\ gauge = [p \in Pools |-> [m \in Mounts |-> None]]
  /\ hist = [m \in Mounts |-> [good |-> Old, bad |-> FALSE]]
  /\ events = [changes |-> 0, faults |-> 0]

Change == events.changes < MaxChanges /\ events' = [events EXCEPT !.changes = @ + 1]
Fault  == events.faults < MaxFaults /\ events' = [events EXCEPT !.faults = @ + 1]
outside == <<mount, pod, node>>

-----------------------------------------------------------------------------
(* probe_agent: one cycle. *)

\* _run_bounded: a check of the mount ends well, or in an error or at its timeout.
Answers(m) == mount[m] = "good"

\* run_attempt: a child checks the mount, and the cycle ends with it.  A cycle is one
\* step: one that a restart cuts short has left nothing but its heartbeat.
Cycle(m) == pod[m] = "up" /\ ~probe[m].ran

\* cycle() ends: Ready says that there is a verdict, good or bad, of this container.
Published(m, r, due) == probe' = [probe EXCEPT ![m] =
  [ran |-> TRUE, result |-> r, ready |-> TRUE, due |-> due]]
Checked(m, ok) == hist' = [hist EXCEPT ![m] = IF ok THEN [@ EXCEPT !.good = 0]
                                              ELSE [@ EXCEPT !.bad = TRUE]]

\* job_runner on storage that answers, while fio is not due: the last rate stands.
CheckPasses(m) ==
  /\ Cycle(m) /\ Answers(m) /\ ~probe[m].due
  /\ \E skew \in BOOLEAN :
       /\ IF skew THEN Change ELSE UNCHANGED events
       /\ LET r == Verdict(TRUE, Rate(probe[m].result))
          IN Published(m, IF skew THEN [r EXCEPT !.age = Future] ELSE r, FALSE)
  /\ Checked(m, TRUE)
  /\ UNCHANGED <<outside, exporter, gauge>>

\* main, once fio ran: the check is as good as fio was, and the rate is the new one.
Measured(ok) == Verdict(ok, IF ok THEN "real" ELSE "zero")

\* _check_throughput: a failed run is a failed check, of rate zero, and is still due.
FioRuns(m, ok) ==
  /\ Cycle(m) /\ Answers(m) /\ probe[m].due
  /\ Published(m, Measured(ok), ~ok)
  /\ IF ok THEN UNCHANGED events ELSE Fault
  /\ Checked(m, ok)
  /\ UNCHANGED <<outside, exporter, gauge>>

\* Mutant: a check that hangs leaves the last verdict.
timeout_resultLast(m) == probe[m].result

\* The supervisor's verdict at the deadline, and the child's own: the last rate stays.
timeout_result(m) == Verdict(FALSE, Rate(probe[m].result))

\* A verdict of storage that does not answer; the time of fio carries over too.
Unanswered(m) ==
  /\ Cycle(m) /\ ~Answers(m)
  /\ Published(m, timeout_result(m), probe[m].due)
  /\ Checked(m, FALSE)
  /\ UNCHANGED <<outside, exporter, gauge, events>>

\* job_runner's own verdict: a check of it failed, or ran into its timeout.
CheckFails(m) == Unanswered(m)

\* The child hangs with the storage: run_attempt kills it at the deadline, leaves it if it
\* survives that, and gives the verdict itself.
DeadlinePasses(m) == Unanswered(m)

\* The check breaks, or its result cannot be written: no verdict, not Ready.
CheckBreaks(m) ==
  /\ Cycle(m) /\ Fault
  /\ probe' = [probe EXCEPT ![m] = [set_ready(@, FALSE) EXCEPT !.ran = TRUE]]
  /\ UNCHANGED <<outside, exporter, gauge, hist>>

FioDue(m) ==
  /\ m \in Fio /\ ~probe[m].due
  /\ probe' = [probe EXCEPT ![m].due = TRUE]
  /\ UNCHANGED <<outside, exporter, gauge, hist, events>>

\* start(): the verdict of an earlier container is served, its Ready marker is not.
Started(r) == set_ready([Fresh EXCEPT !.result = r.result, !.due = r.due], FALSE)

\* do_GET: a probe that has a verdict serves it, Ready or not.
Serves(m) == pod[m] = "up" /\ probe[m].result # None

Restart(m) ==
  /\ pod[m] = "up" /\ Change
  /\ probe' = [probe EXCEPT ![m] = Started(@)]
  /\ UNCHANGED <<outside, exporter, gauge, hist>>

-----------------------------------------------------------------------------
(* node_healthcheck: one pass. *)

PodReady(m) == pod[m] = "up" /\ probe[m].ready

\* _mount_setup_failed: the pod waits for its volume, beyond the grace.
SetupFailed(m) == pod[m] = "stuck"

\* _list_probe_pods: a pod stuck on its volume has no address.
Pods == [m \in Mounts |-> [ready |-> PodReady(m), stuck |-> SetupFailed(m) /\ ~PodReady(m)]]

\* _probe_pods: a refused list falls back to the last one, while that is young.
PodsSeen == {Pods, exporter.pods, None}

\* The node cache is refreshed, or still good.
NodesSeen == {node, exporter.node} \ {None}

Cleared == [m \in Mounts |-> None]

\* _refresh_node_caches: a node's series go from the pool it is not in.
Moved(new) == [p \in Pools |-> IF p = new.pool THEN gauge[p] ELSE Cleared]

ExporterLists ==
  /\ exporter.pc = "sleep"
  /\ \E new \in NodesSeen, pods \in PodsSeen :
       /\ IF pods = Pods THEN UNCHANGED events ELSE Fault
       /\ exporter' = [exporter EXCEPT !.pc = "pull", !.node = new, !.pods = pods]
       /\ gauge' = IF new = exporter.node THEN gauge ELSE Moved(new)
  /\ UNCHANGED <<outside, probe, hist>>

Series(up, valid, fresh, rate) == [up |-> up, valid |-> valid, fresh |-> fresh, rate |-> rate]
Sentinels(up, fresh) == Series(up, FALSE, fresh, "zero")

\* Mutant: a success is good however old.
TooOldNever(r) == r.age = Future

\* A stamp from the future, or a success beyond the window, says nothing.
TooOld(r) == r.age = Future \/ (r.age > Stale /\ r.ok)

\* Mutant: no result is a bad one.
ShownRed(m, up, stuck, working, r) ==
  IF r = None \/ TooOld(r) THEN Sentinels(up, TRUE)
  ELSE Series(up, r.ok, TRUE, IF r.ok THEN r.rate ELSE "zero")

\* What a mount's series show, given what the pass pulled.
Shown(m, up, stuck, working, r) ==
  IF stuck /\ working THEN Sentinels(up, TRUE)
  ELSE IF r = None \/ TooOld(r) THEN Sentinels(up, FALSE)
  ELSE Series(up, r.ok, TRUE, IF r.ok THEN r.rate ELSE "zero")

\* _result_cache: a missed pull keeps the last verdict.
Kept(m, got) == IF m \in got THEN probe[m].result ELSE exporter.results[m]

\* update_metrics: pull what answers, keep the last result of what does not.
ExporterPublishes ==
  /\ exporter.pc = "pull"
  /\ LET pods  == exporter.pods
         able  == {m \in Mounts : pods # None /\ exporter.node.ready
                                    /\ ~pods[m].stuck /\ Serves(m)}
     IN \E got \in SUBSET able :
          LET results == [m \in Mounts |-> Kept(m, got)]
              working == \E m \in got : pods[m].ready
              up(m) == IF pods = None THEN None ELSE pods[m].ready /\ m \in got
          IN /\ IF got = able THEN UNCHANGED events ELSE Fault
             /\ exporter' = [exporter EXCEPT !.pc = "sleep", !.ran = TRUE, !.results = results]
             /\ hist' = [m \in Mounts |-> IF m \in got /\ results[m].ok
                                           THEN [hist[m] EXCEPT !.bad = FALSE] ELSE hist[m]]
             /\ gauge' = [gauge EXCEPT ![exporter.node.pool] =
                  [m \in Mounts |-> IF ~exporter.node.ready THEN None
                     ELSE Shown(m, up(m), pods # None /\ pods[m].stuck, working, results[m])]]
  /\ UNCHANGED <<outside, probe>>

-----------------------------------------------------------------------------
(* Storage, Kubernetes and time. *)

MountChanges(m) ==
  /\ Change
  /\ mount' = [mount EXCEPT ![m] = IF @ = "good" THEN "dead" ELSE "good"]
  /\ UNCHANGED <<pod, node, probe, exporter, gauge, hist>>

\* A new pod, with a directory of its own, waits for a volume that does not mount.
PodSticks(m) ==
  /\ pod[m] = "up" /\ Change
  /\ pod' = [pod EXCEPT ![m] = "stuck"] /\ mount' = [mount EXCEPT ![m] = "dead"]
  /\ probe' = [probe EXCEPT ![m] = [Fresh EXCEPT !.ran = TRUE]]
  /\ Checked(m, FALSE)
  /\ UNCHANGED <<node, exporter, gauge>>

PodMounts(m) ==
  /\ pod[m] = "stuck"
  /\ pod' = [pod EXCEPT ![m] = "up"] /\ mount' = [mount EXCEPT ![m] = "good"]
  /\ probe' = [probe EXCEPT ![m] = Fresh]
  /\ UNCHANGED <<node, exporter, gauge, hist, events>>

NodeChanges ==
  /\ Change
  /\ \/ node' = [node EXCEPT !.ready = ~@]
     \/ \E p \in Pools \ {node.pool} : node' = [node EXCEPT !.pool = p]
  /\ UNCHANGED <<mount, pod, probe, exporter, gauge, hist>>

Older(r) == IF r # None /\ r.age \in 0..Stale THEN [r EXCEPT !.age = @ + 1] ELSE r

Tick ==
  /\ exporter.ran /\ exporter.pc = "sleep"
  /\ \A m \in Mounts : probe[m].ran
  /\ probe' = [m \in Mounts |-> [probe[m] EXCEPT !.ran = pod[m] = "stuck",
                                                 !.result = Older(@)]]
  /\ exporter' = [exporter EXCEPT !.ran = FALSE,
                    !.results = [m \in Mounts |-> Older(@[m])]]
  /\ hist' = [m \in Mounts |-> [hist[m] EXCEPT !.good = IF @ < Old THEN @ + 1 ELSE Old]]
  /\ UNCHANGED <<outside, gauge, events>>

ProbeStep(m) == \/ CheckPasses(m) \/ CheckFails(m) \/ DeadlinePasses(m) \/ CheckBreaks(m)
                \/ \E ok \in BOOLEAN : FioRuns(m, ok)
Export == ExporterLists \/ ExporterPublishes

MonitorNext ==
  \/ \E m \in Mounts : \/ ProbeStep(m) \/ FioDue(m) \/ Restart(m)
                       \/ MountChanges(m) \/ PodSticks(m) \/ PodMounts(m)
  \/ Export \/ NodeChanges \/ Tick

MonitorSpec == MonitorInit /\ [][MonitorNext]_monitorVars

\* Cycles and passes follow one another, time passes, and the node cache is renewed.
FairSpec == /\ MonitorSpec /\ WF_monitorVars(Export) /\ SF_monitorVars(Tick)
            /\ \A m \in Mounts : WF_monitorVars(ProbeStep(m))
            /\ SF_monitorVars(ExporterLists /\ exporter'.node = node)

-----------------------------------------------------------------------------
(* Properties. *)

ShownBad(m) == \E p \in Pools : LET g == gauge[p][m]
                                IN g # None /\ g.fresh /\ ~g.valid

\* Green is true: a mount shown good, in whatever pool, passed a check within the
\* window, or a tick more, and the rate shown with it was measured, whatever restarts,
\* moves of the node, missed pulls, refused lists and broken checks there were.
GreenIsTrue ==
  \A m \in Mounts, p \in Pools : LET g == gauge[p][m] IN
    g # None /\ g.fresh /\ g.valid => hist[m].good <= Stale + 1 /\ g.rate # "zero"

\* Red is a verdict: a mount shown bad failed a check, or could not be mounted, since
\* the last success the exporter saw; no probe that breaks turns a mount red.
RedIsAVerdict == \A m \in Mounts : ShownBad(m) => hist[m].bad

\* A mount that stays dead is shown bad in the end, not merely unknown: a hanging
\* check is a verdict.
DeadIsSeen ==
  \A m \in Mounts :
    mount[m] = "dead" ~> (mount[m] = "good" \/ ShownBad(m) \/ ~node.ready)
====

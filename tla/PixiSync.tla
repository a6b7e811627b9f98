------------------------------ MODULE PixiSync ------------------------------
(***************************************************************************)
(* pixi-global-sync (apps/af-utils/pixi-global-sync/sync-global-env.py):   *)
(* the daemon that keeps the shared environment /work/pixi/global at the   *)
(* repository's manifests.  One daemon works at a time, by a lock on the   *)
(* share that another takes over once its heartbeat is frozen.             *)
(*                                                                         *)
(* A daemon is a pod's: killed at any step it is started again, and one    *)
(* that a lost node still runs works beside its replacement.  pixi, the    *)
(* share, the admins and Kubernetes are external.  Time is abstract: a     *)
(* heartbeat can freeze for LOCK_FROZEN_SECONDS exactly where the code     *)
(* writes none for so long.                                                *)
(***************************************************************************)
EXTENDS Integers, FiniteSets

CONSTANTS
  Daemons,
  MaxRev,      \* bound: revisions of the manifests
  MaxTrouble,  \* bound: daemons killed or stopped, commands that fail, what admins do
  Attempts,    \* pixi_install: attempts
  RetryWait,   \* attempt -> seconds until the next
  LockFrozen   \* LOCK_FROZEN_SECONDS

ASSUME BoundsAssumption == {MaxTrouble, Attempts, LockFrozen} \subseteq Nat
\* The ConfigMap always has a revision.
ASSUME RevAssumption == MaxRev \in Nat \ {0}
ASSUME WaitAssumption == RetryWait \in [1..(Attempts - 1) -> Nat]

VARIABLES
  proc,     \* daemon -> the process
  lock,     \* the lock directory is there
  seen,     \* daemon -> whether, waiting, it has seen the heartbeat as it is: no, seen, frozen
  desired,  \* the ConfigMap's revision
  live,     \* the manifests of /work/pixi/global: their revision, 0 for other contents
  env,      \* the installed prefix: revision, and in which state it is
  paused,   \* .sync-pause is there
  hist,     \* history: touched (by others since the sync began), lapsed (the lock may have passed from
            \* a daemon that works, or to two), hidden (a pause that a daemon did not see)
  spent

vars == <<proc, lock, seen, desired, live, env, paused, hist, spent>>

Revs == 1..MaxRev
NotRun == [pc |-> "off", want |-> 0, inst |-> 0, insync |-> FALSE, healthy |-> TRUE,
           cool |-> FALSE, attempt |-> 0, second |-> FALSE, stop |-> FALSE]

Init ==
  /\ proc = [d \in Daemons |-> NotRun]
  /\ lock = FALSE
  /\ seen = [d \in Daemons |-> "no"]
  /\ desired = 1
  /\ live = [toml |-> 0, lock |-> 0]
  /\ env = [rev |-> 0, is |-> "none"]
  /\ paused = FALSE
  /\ hist = [touched |-> FALSE, lapsed |-> FALSE, hidden |-> FALSE]
  /\ spent = 0

Trouble == spent < MaxTrouble /\ spent' = spent + 1
At(d, pc) == proc[d].pc = pc
Moves(d, pc) == proc' = [proc EXCEPT ![d].pc = pc]
Works(d) == proc[d].pc \notin {"off", "lock", "take"}

-----------------------------------------------------------------------------
(* The lock. *)

Start(d) ==
  /\ At(d, "off")
  /\ proc' = [proc EXCEPT ![d] = [NotRun EXCEPT !.pc = "lock"]]
  /\ UNCHANGED <<lock, seen, desired, live, env, paused, hist, spent>>

Unseen == [d \in Daemons |-> "no"]

\* Mutant: the observer does not tell a new heartbeat from the one it saw.
BeatsSame(d) == UNCHANGED seen

\* write_heartbeat; it fails, which is logged, when the lock directory is gone.
Beats(d) == seen' = IF lock THEN Unseen ELSE seen

\* acquire_lock: the mkdir, and the first heartbeat.
Acquire(d) ==
  /\ At(d, "lock") /\ ~lock
  /\ lock' = TRUE /\ seen' = Unseen
  /\ Moves(d, "loop")
  /\ UNCHANGED <<desired, live, env, paused, hist, spent>>

\* FrozenHeartbeatObserver: a heartbeat that it has not seen yet is not frozen.
Observe(d) ==
  /\ At(d, "lock") /\ lock /\ seen[d] = "no"
  /\ seen' = [seen EXCEPT ![d] = "seen"]
  /\ UNCHANGED <<proc, lock, desired, live, env, paused, hist, spent>>

\* Where a daemon writes no heartbeat for longer than LOCK_FROZEN_SECONDS: between two
\* attempts to install, and while it removes a prefix of many files from the share.
Quiet(d) == \/ ~Works(d)
            \/ At(d, "wipe")
            \/ At(d, "retry") /\ RetryWait[proc[d].attempt] > LockFrozen

\* LOCK_FROZEN_SECONDS pass without a heartbeat.
Freeze(d) ==
  /\ At(d, "lock") /\ lock /\ seen[d] = "seen"
  /\ \A e \in Daemons : Quiet(e)
  /\ seen' = [seen EXCEPT ![d] = "frozen"]
  /\ hist' = [hist EXCEPT !.lapsed = @ \/ \E e \in Daemons : proc[e].pc \in {"wipe", "retry"}]
  /\ UNCHANGED <<proc, lock, desired, live, env, paused, spent>>

\* The heartbeat it reads is still the one it saw: it takes the holder for dead.
Decide(d) ==
  /\ At(d, "lock") /\ lock /\ seen[d] = "frozen"
  /\ Moves(d, "take")
  /\ hist' = [hist EXCEPT !.lapsed = @ \/ \E e \in Daemons : At(e, "take")]
  /\ UNCHANGED <<lock, seen, desired, live, env, paused, spent>>

\* Its own heartbeat; a lock directory gone meanwhile ends the process.
TakeOver(d) ==
  /\ At(d, "take")
  /\ proc' = [proc EXCEPT ![d] = IF lock THEN [@ EXCEPT !.pc = "loop"] ELSE NotRun]
  /\ Beats(d)
  /\ UNCHANGED <<lock, desired, live, env, paused, hist, spent>>

\* run_with_heartbeat: the thread beside a long command.
Beat(d) ==
  /\ proc[d].pc \in {"install", "check", "verify"} /\ seen # Unseen
  /\ Beats(d)
  /\ UNCHANGED <<proc, lock, desired, live, env, paused, hist, spent>>

-----------------------------------------------------------------------------
(* main: one cycle. *)

\* Mutant: the manifests tell whether the environment is in sync.
InSyncBytes(d) == live = [toml |-> desired, lock |-> desired]

\* is_in_sync, and what this daemon installed.
InSync(d) == /\ live = [toml |-> desired, lock |-> desired]
             /\ proc[d].inst = desired

\* Stopping, or its own code changed: the lock is removed, whosever it is by now.
Leave(d) ==
  /\ At(d, "loop")
  /\ IF proc[d].stop THEN UNCHANGED spent ELSE Trouble
  /\ proc' = [proc EXCEPT ![d] = NotRun]
  /\ lock' = FALSE /\ UNCHANGED seen
  /\ UNCHANGED <<desired, live, env, paused, hist>>

\* reconcile, while .sync-pause is there; the metric paused says so beside in_sync.
Pauses(d) ==
  /\ At(d, "loop") /\ ~proc[d].stop /\ paused
  /\ Beats(d)
  /\ proc' = [proc EXCEPT ![d].pc = "idle", ![d].inst = 0, ![d].insync = FALSE]
  /\ UNCHANGED <<lock, desired, live, env, paused, hist, spent>>

\* Nothing to do.
Settled(d) == InSync(d) /\ proc[d].healthy

\* The state in which a sync begins: nothing is installed any more.
Begun(d) == [proc[d] EXCEPT !.pc = "toml", !.want = desired, !.inst = 0, !.second = FALSE,
                            !.attempt = 1]

\* reconcile: nothing to do, cooling down after a failure, or a sync begins.
Reconcile(d) ==
  /\ At(d, "loop") /\ ~proc[d].stop /\ ~paused
  /\ Beats(d)
  /\ LET p == [proc[d] EXCEPT !.insync = InSync(d), !.want = desired]
     IN IF Settled(d) \/ p.cool
        THEN proc' = [proc EXCEPT ![d] = [p EXCEPT !.pc = "idle"]] /\ UNCHANGED hist
        ELSE /\ proc' = [proc EXCEPT ![d] = [Begun(d) EXCEPT !.insync = p.insync]]
             /\ hist' = [hist EXCEPT !.touched = FALSE]
  /\ UNCHANGED <<lock, desired, live, env, paused, spent>>

\* FAIL_COOLDOWN is over.
Cools(d) ==
  /\ proc[d].cool
  /\ proc' = [proc EXCEPT ![d].cool = FALSE]
  /\ UNCHANGED <<lock, seen, desired, live, env, paused, hist, spent>>

Sleeps(d) ==
  /\ At(d, "idle")
  /\ Moves(d, "loop")
  /\ UNCHANGED <<lock, seen, desired, live, env, paused, hist, spent>>

-----------------------------------------------------------------------------
(* A sync. *)

\* It failed, or the daemon is stopping: the manifests stay, the next try waits.
Failed(d) == [proc[d] EXCEPT !.pc = "idle", !.cool = TRUE]

\* stage_manifests, one file after the other.
StageToml(d) ==
  /\ At(d, "toml")
  /\ live' = [live EXCEPT !.toml = proc[d].want]
  /\ Moves(d, "manifest")
  /\ UNCHANGED <<lock, seen, desired, env, paused, hist, spent>>

StageLock(d) ==
  /\ At(d, "manifest")
  /\ live' = [live EXCEPT !.lock = proc[d].want]
  /\ Moves(d, IF proc[d].healthy THEN "install" ELSE "wipe")
  /\ UNCHANGED <<lock, seen, desired, env, paused, hist, spent>>

\* Mutant: the prefix of another environment is removed.
WipeOther(d) ==
  /\ At(d, "wipe")
  /\ Moves(d, "install")
  /\ UNCHANGED <<lock, seen, desired, live, env, paused, hist, spent>>

\* wipe_env_prefix.
Wipe(d) ==
  /\ At(d, "wipe")
  /\ env' = [rev |-> 0, is |-> "none"]
  /\ Moves(d, "install")
  /\ UNCHANGED <<lock, seen, desired, live, paused, hist, spent>>

\* Only one daemon has its hands on the environment.
Alone(d) == \A e \in Daemons \ {d} : proc[e].pc \notin {"wipe", "install"}

\* What an install may leave that does not succeed.
Torn == {env, [rev |-> 0, is |-> "hollow"], [rev |-> 0, is |-> "broken"]}

\* pixi install --locked; a prefix that only looks whole stays as it is.  Hollow
\* dist-infos stay too: purge_incomplete_dist_infos removes them.
Installed(d) ==
  IF live.toml # live.lock \/ env.is = "broken" \/ ~Alone(d)
  THEN [rev |-> 0, is |-> "broken"]
  ELSE [rev |-> live.lock, is |-> IF live.lock = 0 THEN "edited" ELSE "whole"]

\* pixi_install, and the purge after it.
Install(d) ==
  /\ At(d, "install") /\ ~proc[d].stop
  /\ env' = Installed(d)
  /\ Moves(d, "check")
  /\ UNCHANGED <<lock, seen, desired, live, paused, hist, spent>>

\* The command fails, to be tried again, or runs out of time; or the daemon is stopping,
\* and terminates it.
InstallFails(d) ==
  /\ At(d, "install")
  /\ \/ /\ ~proc[d].stop /\ Trouble
        /\ \E again \in {proc[d].attempt < Attempts, FALSE} :
             proc' = [proc EXCEPT ![d] = IF again THEN [@ EXCEPT !.pc = "retry"] ELSE Failed(d)]
     \/ proc[d].stop /\ proc' = [proc EXCEPT ![d] = Failed(d)] /\ UNCHANGED spent
  /\ env' \in Torn
  /\ UNCHANGED <<lock, seen, desired, live, paused, hist>>

Retry(d) ==
  /\ At(d, "retry")
  /\ proc' = [proc EXCEPT ![d] = IF @.stop THEN Failed(d)
                                 ELSE [@ EXCEPT !.pc = "install", !.attempt = proc[d].attempt + 1]]
  /\ UNCHANGED <<lock, seen, desired, live, env, paused, hist, spent>>

\* validate_env: every declared dependency imports.
Valid == env.is \in {"whole", "edited"}

\* The check passes, or it fails: once more from an empty prefix, then the environment
\* is known to be broken.
Validate(d) ==
  /\ At(d, "check")
  /\ \E ok \in {Valid, FALSE} :
       /\ IF Valid /\ ~ok /\ ~proc[d].stop THEN Trouble ELSE UNCHANGED spent
       /\ proc' = [proc EXCEPT ![d] =
            CASE @.stop -> Failed(d)
              [] ~@.stop /\ ok -> [@ EXCEPT !.pc = "idle", !.inst = proc[d].want, !.insync = TRUE,
                                            !.healthy = TRUE]
              [] ~@.stop /\ ~ok /\ ~@.second -> [@ EXCEPT !.pc = "wipe", !.second = TRUE,
                                                          !.attempt = 1]
              [] OTHER -> [Failed(d) EXCEPT !.healthy = FALSE]]
  /\ UNCHANGED <<lock, seen, desired, live, env, paused, hist>>

\* deep_verify: an environment that fails is synced at once, whatever is cooling down.
Verify(d) ==
  /\ At(d, "idle") /\ ~paused
  /\ Moves(d, "verify")
  /\ UNCHANGED <<lock, seen, desired, live, env, paused, hist, spent>>

Verified(d) ==
  /\ At(d, "verify")
  /\ \E ok \in {Valid, FALSE} :
       /\ IF Valid /\ ~ok /\ ~proc[d].stop THEN Trouble ELSE UNCHANGED spent
       /\ LET p == [proc[d] EXCEPT !.pc = "loop", !.healthy = ok]
          IN proc' = [proc EXCEPT ![d] =
               CASE @.stop -> [@ EXCEPT !.pc = "loop"]
                 [] ~@.stop /\ ok -> p
                 [] ~@.stop /\ ~ok /\ paused -> [p EXCEPT !.inst = 0, !.insync = FALSE]
                 [] OTHER -> [Begun(d) EXCEPT !.healthy = FALSE, !.insync = InSync(d)]]
  /\ hist' = [hist EXCEPT !.touched = @ /\ proc'[d].pc # "toml"]
  /\ UNCHANGED <<lock, seen, desired, live, env, paused>>

\* A check that runs out of time says nothing of the environment.
CheckTimesOut(d) ==
  /\ proc[d].pc \in {"check", "verify"} /\ ~proc[d].stop /\ Trouble
  /\ proc' = [proc EXCEPT ![d] = IF @.pc = "check" THEN Failed(d) ELSE [@ EXCEPT !.pc = "loop"]]
  /\ UNCHANGED <<lock, seen, desired, live, env, paused, hist>>

-----------------------------------------------------------------------------
(* What happens to a daemon, and what others do. *)

\* SIGTERM: STOP is set, and the command at work terminated.
Terminate(d) ==
  /\ Works(d) /\ ~proc[d].stop /\ Trouble
  /\ proc' = [proc EXCEPT ![d].stop = TRUE]
  /\ UNCHANGED <<lock, seen, desired, live, env, paused, hist>>

\* SIGKILL, at any step: the lock stays.
Kill(d) ==
  /\ ~At(d, "off") /\ Trouble
  /\ proc' = [proc EXCEPT ![d] = NotRun] /\ seen' = [seen EXCEPT ![d] = "no"]
  /\ env' \in IF proc[d].pc \in {"install", "wipe"} THEN Torn ELSE {env}
  /\ UNCHANGED <<lock, desired, live, paused, hist>>

Push ==
  /\ desired < MaxRev
  /\ desired' = desired + 1
  /\ UNCHANGED <<proc, lock, seen, live, env, paused, hist, spent>>

\* An admin edits the manifests, works on the environment, or a file of it is damaged.
Touch ==
  /\ Trouble
  /\ \/ live' = [live EXCEPT !.lock = 0] /\ UNCHANGED env
     \/ paused /\ env' = [rev |-> 0, is |-> "edited"] /\ UNCHANGED live
     \/ env' = [rev |-> 0, is |-> "broken"] /\ UNCHANGED live
  /\ hist' = [hist EXCEPT !.touched = TRUE]
  /\ UNCHANGED <<proc, lock, seen, desired, paused>>

Pause ==
  /\ ~paused /\ Trouble
  /\ paused' = TRUE
  /\ UNCHANGED <<proc, lock, seen, desired, live, env, hist>>

\* An admin removes it; a daemon may not have seen it.
Resume ==
  /\ paused
  /\ paused' = FALSE
  /\ hist' = [hist EXCEPT !.hidden = @ \/ \E d \in Daemons : Works(d) /\ (proc[d].inst # 0 \/ At(d, "check"))]
  /\ UNCHANGED <<proc, lock, seen, desired, live, env, spent>>

-----------------------------------------------------------------------------

Cycle(d) == \/ Leave(d) \/ Pauses(d) \/ Reconcile(d) \/ Sleeps(d) \/ StageToml(d) \/ StageLock(d)
            \/ Wipe(d) \/ Install(d) \/ InstallFails(d) \/ Retry(d) \/ Validate(d) \/ Verified(d)
            \/ CheckTimesOut(d)

Step(d) == Start(d) \/ Acquire(d) \/ Observe(d) \/ Freeze(d) \/ Decide(d) \/ TakeOver(d) \/ Cycle(d) \/ Cools(d)

Next == \/ \E d \in Daemons : Step(d) \/ Verify(d) \/ Beat(d) \/ Terminate(d) \/ Kill(d)
        \/ Push \/ Touch \/ Pause \/ Resume

Spec == Init /\ [][Next]_vars

\* Kubernetes starts a daemon again; a daemon goes on, waits out its cooldown, and
\* verifies every VERIFY_SECONDS.
FairSpec ==
  /\ Spec
  /\ \A d \in Daemons : /\ WF_vars(Start(d)) /\ WF_vars(Acquire(d)) /\ WF_vars(Observe(d))
                        /\ WF_vars(Freeze(d)) /\ WF_vars(Decide(d)) /\ WF_vars(TakeOver(d))
                        /\ WF_vars(Cycle(d)) /\ WF_vars(Cools(d))
                        /\ SF_vars(Verify(d))

-----------------------------------------------------------------------------
(* Properties. *)

\* The daemons keep their promise (PixiPromise): what the metrics in_sync and env_healthy
\* say together is so, although installs fail halfway, daemons are killed at every step
\* and manifests change while one is installed.
Promise == INSTANCE PixiPromise WITH
  Nothing <- 0,
  whole <- IF env.is = "whole" THEN env.rev ELSE 0,
  claimed <- {proc[d].want : d \in {e \in Daemons : proc[e].insync /\ proc[e].healthy}},
  disturbed <- hist.touched \/ hist.lapsed
KeepsPromise == Promise!Spec

\* Two daemons work at once only after the lock lapsed: one fell so silent, in a wipe or
\* between two attempts, that the other could take it for dead, or two that waited took a
\* dead one's lock over in the same moment.
OneBuilder ==
  \A d, e \in Daemons : (d # e /\ Works(d) /\ Works(e)) => hist.lapsed

\* In the end the environment is the repository's, whatever was killed, failed, damaged
\* or edited, unless it is left paused, a pause came and went unseen, or the lock lapsed
\* and left two daemons at work.
Converges ==
  <>[](paused \/ hist.hidden \/ hist.lapsed \/ env = [rev |-> desired, is |-> "whole"])
====

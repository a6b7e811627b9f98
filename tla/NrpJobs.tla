------------------------------- MODULE NrpJobs -------------------------------
(***************************************************************************)
(* Ray jobs on NRP Nautilus (apps/ray-train/gateway.py and nrp_jobs.py).   *)
(*                                                                         *)
(* A job's progress is kept in its RayJob's annotations on NRP, its code,  *)
(* inputs and outputs under one S3 prefix, and two Kubernetes Jobs at      *)
(* Purdue, <name>-in and <name>-out, copy its data there and back.  Three  *)
(* kinds of coroutine of the gateway read and patch these objects: a       *)
(* submission (one at a time per user), a call about a job (stop, delete)  *)
(* and the reaper's pass over a listing.  Each works on the RayJob as it   *)
(* read it, and every await is a point where another may run, so an        *)
(* action here is what one coroutine does between two calls to a service.  *)
(*                                                                         *)
(* KubeRay, the stage Jobs and Ray's client are external: modelled from    *)
(* how the gateway uses them.                                              *)
(***************************************************************************)
EXTENDS Naturals, FiniteSets

CONSTANTS
  Jobs,         \* RayJob names; new_submission makes each one once
  Users,        \* one submission at a time each (Gateway.submitting)
  Callers,      \* concurrent calls about jobs: stop and delete
  Reaper,       \* reap_nrp
  None,         \* no job
  Data,         \* what submissions name: sets of "inputs" and "output"
  MaxFailures,  \* bound: calls that fail, and restarts of the gateway
  MaxAsks       \* bound: package checks that keep a waiting name fresh

Threads == Users \cup Callers \cup {Reaper}

ASSUME ThreadsDistinct ==
  /\ Users \cap Callers = {}
  /\ Reaper \notin Users \cup Callers
  /\ None \notin Jobs
ASSUME DataAssumption == Data \subseteq SUBSET {"inputs", "output"}
ASSUME BoundsAssumption == MaxFailures \in Nat /\ MaxAsks \in Nat

VARIABLES
  rayjob,    \* NRP: RayJob name -> its record, or NoRecord
  copyIn,    \* Purdue: the Job <name>-in
  copyOut,   \* Purdue: the Job <name>-out
  prefix,    \* S3: what is under the job's prefix
  age,       \* S3: START_TIMEOUT_S since its newest object was written, to 2
  back,      \* jobs whose outputs were copied back to AF storage
  waiting,   \* nrp_waiting: user -> the job their uploads are for
  since,     \* ... and for how many START_TIMEOUT_S, to 2
  cleaned,   \* nrp_cleaned
  pc,        \* where each coroutine is between two calls to a service
  job,       \* ... the job it works on
  read,      \* ... its RayJob as the coroutine read it
  why,       \* ... and what it stops the job for
  todo,      \* the reaper's listing: what is left of it to advance,
  seen,      \* ... the RayJobs in it,
  taken,     \* ... the names whose code stays,
  old,       \* ... and the prefixes 2 * START_TIMEOUT_S older than the pass
  asks,      \* package checks so far
  failures,  \* failures so far
  used       \* names already made

stores   == <<rayjob, copyIn, copyOut, prefix, age, back>>
names    == <<waiting, since>>
calls    == <<pc, job, read, why>>
listing  == <<todo, seen, taken, old>>
counters == <<asks, failures, used>>
vars     == <<stores, names, cleaned, calls, listing, counters>>

-----------------------------------------------------------------------------
(* The objects. *)

Stages   == {"inputs", "running", "outputs", "done"}
Reasons  == {"user", "inputs", "not_started", "idle"}
Phases   == {"new", "running", "suspended", "ended"}
Outputs  == {"", "true", "failed"}
CopyJobs == {"none", "suspended", "running", "succeeded", "failed"}

\* The annotations and spec fields the gateway writes, and as `phase` what
\* KubeRay says of the job: "new" is jobDeploymentStatus none or Initializing,
\* "running" a job with a startTime, "ended" one of jobStatus SUCCEEDED,
\* FAILED or STOPPED (job_ended).  `since` is "long" once JOB_RECORD_S has
\* passed since SINCE_ANNOTATION.
Record == [stage   : Stages,
           since   : {"recent", "long"},
           stopped : Reasons \cup {"no"},
           output  : Outputs,
           suspend : BOOLEAN,
           inputs  : BOOLEAN,
           code    : BOOLEAN,
           phase   : Phases]
NoRecord == [stage |-> "none"]

Listed(j) == rayjob[j] # NoRecord

Ended(r) == r.phase = "ended"

\* What a patch leaves of a RayJob: set_stage and resume_nrp also write since.
Staged(r, stage, stopped, output, suspend) ==
  [stage |-> stage, since |-> "recent", stopped |-> stopped, output |-> output,
   suspend |-> suspend, inputs |-> r.inputs, code |-> r.code, phase |-> r.phase]

Suspended(r)     == [r EXCEPT !.suspend = TRUE]
WithOutput(r, o) == [r EXCEPT !.output = o]
WithSince(r, n)  == [r EXCEPT !.since = n]
WithPhase(r, p)  == [r EXCEPT !.phase = p]

PCs == {"idle", "posting", "post_in", "post_out", "advance", "suspending",
        "stopping", "resuming", "outputs", "finishing", "done", "del_rayjob",
        "del_jobs", "del_prefix", "looping", "sweeping"}

TypeOK ==
  /\ rayjob \in [Jobs -> Record \cup {NoRecord}]
  /\ copyIn \in [Jobs -> CopyJobs]
  /\ copyOut \in [Jobs -> CopyJobs]
  /\ prefix \in [Jobs -> SUBSET {"code", "inputs", "output"}]
  /\ age \in [Jobs -> 0..2]
  /\ back \subseteq Jobs
  /\ waiting \in [Users -> Jobs \cup {None}]
  /\ since \in [Users -> 0..2]
  /\ cleaned \subseteq Jobs
  /\ pc \in [Threads -> PCs]
  /\ job \in [Threads -> Jobs \cup {None}]
  /\ read \in [Threads -> Record \cup {NoRecord}]
  /\ why \in [Threads -> Reasons \cup {"no"}]
  /\ todo \subseteq Jobs
  /\ seen \in [Jobs -> Record \cup {NoRecord}]
  /\ taken \subseteq Jobs
  /\ old \subseteq Jobs
  /\ asks \in 0..MaxAsks
  /\ failures \in 0..MaxFailures
  /\ used \subseteq Jobs

Init ==
  /\ rayjob = [j \in Jobs |-> NoRecord]
  /\ copyIn = [j \in Jobs |-> "none"]
  /\ copyOut = [j \in Jobs |-> "none"]
  /\ prefix = [j \in Jobs |-> {}]
  /\ age = [j \in Jobs |-> 0]
  /\ back = {}
  /\ waiting = [u \in Users |-> None]
  /\ since = [u \in Users |-> 0]
  /\ cleaned = {}
  /\ pc = [t \in Threads |-> "idle"]
  /\ job = [t \in Threads |-> None]
  /\ read = [t \in Threads |-> NoRecord]
  /\ why = [t \in Threads |-> "no"]
  /\ todo = {}
  /\ seen = [j \in Jobs |-> NoRecord]
  /\ taken = {}
  /\ old = {}
  /\ asks = 0
  /\ failures = 0
  /\ used = {}

-----------------------------------------------------------------------------
(* Steps of a coroutine. *)

At(t, p) == pc[t] = p

\* It goes on to p, on job j as read in r.
Enter(t, p, j, r, w) ==
  /\ pc' = [pc EXCEPT ![t] = p]
  /\ job' = [job EXCEPT ![t] = j]
  /\ read' = [read EXCEPT ![t] = r]
  /\ why' = [why EXCEPT ![t] = w]
Go(t, p) == Enter(t, p, job[t], read[t], why[t])
Return(t) == Enter(t, IF t = Reaper THEN "looping" ELSE "idle", None, NoRecord, "no")

\* A pass over its listing ends.
DropListing ==
  /\ todo' = {}
  /\ seen' = [j \in Jobs |-> NoRecord]
  /\ taken' = {}
  /\ old' = {}

\* The call a coroutine makes next fails, or the answer of its last is lost: the
\* exception ends the handler, or for the reaper its work on that job or its pass.
Fails(t) ==
  /\ ~At(t, "idle")
  /\ ~At(t, "looping")
  /\ failures < MaxFailures
  /\ failures' = failures + 1
  /\ IF At(t, "sweeping")
       THEN Enter(t, "idle", None, NoRecord, "no") /\ DropListing
       ELSE Return(t) /\ UNCHANGED listing
  /\ UNCHANGED <<stores, names, cleaned, asks, used>>

\* The gateway exits, on SIGTERM or a change of its code, and starts again:
\* main cancels serve, and what only its memory held is gone.
Restart ==
  /\ failures < MaxFailures
  /\ failures' = failures + 1
  /\ waiting' = [u \in Users |-> None]
  /\ since' = [u \in Users |-> 0]
  /\ cleaned' = {}
  /\ pc' = [t \in Threads |-> "idle"]
  /\ job' = [t \in Threads |-> None]
  /\ read' = [t \in Threads |-> NoRecord]
  /\ why' = [t \in Threads |-> "no"]
  /\ DropListing
  /\ UNCHANGED <<stores, asks, used>>

\* nrp_patch: a merge patch of the RayJob as it is now; a RayJob that is gone
\* answers 404, which ends the coroutine.
Patch(j, new) ==
  /\ Listed(j)
  /\ rayjob' = [rayjob EXCEPT ![j] = new]
PatchRefused(t) ==
  /\ ~Listed(job[t])
  /\ Return(t)
  /\ UNCHANGED rayjob

\* An object under the job's prefix: its newest, so the prefix is not old to a
\* pass that began before.
Put(j, part) ==
  /\ prefix' = [prefix EXCEPT ![j] = @ \cup {part}]
  /\ age' = [age EXCEPT ![j] = 0]
  /\ old' = old \ {j}

-----------------------------------------------------------------------------
(* nrp_submission and start_nrp_job. *)

Fresh(u) == waiting[u] # None /\ since[u] <= 1

\* The name uploads and the submission go to, made if none waits.
NameOf(u) == IF Fresh(u) THEN {waiting[u]} ELSE Jobs \ used

\* A package check or an upload keeps the name waiting from now.
Await(u, j) ==
  /\ j \in NameOf(u)
  /\ waiting' = [waiting EXCEPT ![u] = j]
  /\ since' = [since EXCEPT ![u] = 0]
  /\ used' = used \cup {j}

CheckPackage(u) ==
  /\ At(u, "idle")
  /\ asks < MaxAsks
  /\ asks' = asks + 1
  /\ \E j \in Jobs : Await(u, j)
  /\ UNCHANGED <<stores, cleaned, calls, listing, failures>>

\* A client uploads what the check before it did not find.
Upload(u) ==
  /\ At(u, "idle")
  /\ \E j \in Jobs : "code" \notin prefix[j] /\ Await(u, j) /\ Put(j, "code")
  /\ UNCHANGED <<rayjob, copyIn, copyOut, back, cleaned, calls, todo, seen,
                 taken, asks, failures>>

\* The submission takes its uploads' name, or a new one, and nothing waits for
\* that name from here on.
Submit(u) ==
  /\ At(u, "idle")
  /\ \E j \in Jobs :
       /\ j \in NameOf(u)
       /\ used' = used \cup {j}
       /\ Enter(u, "posting", j, NoRecord, "no")
  /\ waiting' = [waiting EXCEPT ![u] = None]
  /\ since' = [since EXCEPT ![u] = 0]
  /\ UNCHANGED <<stores, cleaned, listing, asks, failures>>

\* The RayJob, created suspended if it waits for inputs.  A duplicate ID, no
\* room on NRP or a refusal of its API ends the submission instead: Fails.
NewRecord(d, files) ==
  [stage   |-> IF "inputs" \in d THEN "inputs" ELSE "running",
   since   |-> "recent",
   stopped |-> "no",
   output  |-> IF "output" \in d THEN "true" ELSE "",
   suspend |-> "inputs" \in d,
   inputs  |-> "inputs" \in d,
   code    |-> "code" \in files,
   phase   |-> "new"]

Create(u) ==
  /\ At(u, "posting")
  /\ ~Listed(job[u])                   \* new_submission: a name is made once
  /\ \E d \in Data :
       LET r == NewRecord(d, prefix[job[u]])
           next == IF r.inputs THEN "post_in"
                   ELSE IF r.output = "true" THEN "post_out" ELSE "advance"
       IN /\ rayjob' = [rayjob EXCEPT ![job[u]] = r]
          /\ Enter(u, next, job[u], r, "no")
  /\ UNCHANGED <<copyIn, copyOut, prefix, age, back, names, cleaned, listing,
                 counters>>

\* The Job that copies the inputs, and the suspended one that will copy the
\* outputs; one that Kubernetes refuses stops the RayJob just created.
JobRefused(u) ==
  /\ failures < MaxFailures
  /\ failures' = failures + 1
  /\ Enter(u, "suspending", job[u], read[u], "inputs")

CreateCopyIn(u) ==
  /\ At(u, "post_in")
  /\ \/ /\ copyIn' = [copyIn EXCEPT ![job[u]] = "running"]
        /\ Go(u, IF read[u].output = "true" THEN "post_out" ELSE "advance")
        /\ UNCHANGED failures
     \/ JobRefused(u) /\ UNCHANGED copyIn
  /\ UNCHANGED <<rayjob, copyOut, prefix, age, back, names, cleaned, listing,
                 asks, used>>

CreateCopyOut(u) ==
  /\ At(u, "post_out")
  /\ \/ /\ copyOut' = [copyOut EXCEPT ![job[u]] = "suspended"]
        /\ Go(u, "advance")
        /\ UNCHANGED failures
     \/ JobRefused(u) /\ UNCHANGED copyOut
  /\ UNCHANGED <<rayjob, copyIn, prefix, age, back, names, cleaned, listing,
                 asks, used>>

-----------------------------------------------------------------------------
(* advance_nrp, of a submission's RayJob as created, or of one the reaper    *)
(* listed, by the stage it was read at.                                      *)

InputsLost(s) == s \in {"failed", "none"}
\* Mutant: a copy that is under way is enough.
InputsComing(s) == s \in {"succeeded", "running"}
InputsThere(s) == s = "succeeded"

\* stage "inputs": the copy's state decides, once stage_state has answered.
AdvanceInputs(t) ==
  LET s == copyIn[job[t]]
  IN /\ At(t, "advance")
     /\ read[t].stage = "inputs"
     /\ \/ InputsLost(s) /\ Enter(t, "suspending", job[t], read[t], "inputs")
        \/ InputsThere(s) /\ Go(t, "resuming")
        \/ ~InputsLost(s) /\ ~InputsThere(s) /\ Return(t)
     /\ UNCHANGED <<stores, names, cleaned, listing, counters>>

\* resume_nrp: KubeRay may start the job's cluster.
Resume(t) ==
  LET r == rayjob[job[t]]
  IN /\ At(t, "resuming")
     /\ \/ /\ Patch(job[t], Staged(r, "running", r.stopped, r.output, FALSE))
           /\ Return(t)
        \/ PatchRefused(t)
     /\ UNCHANGED <<copyIn, copyOut, prefix, age, back, names, cleaned,
                    listing, counters>>

\* NRP_START_TIMEOUT_S and NRP_UTILIZATION_WINDOW_S are half an hour each: neither
\* has run out while the job's submission still makes calls.
Overdue(j) == \A u \in Users : job[u] # j

\* idle_utilization: NRP's Prometheus may show any use of a cluster that runs so long.
GpusIdle(j, r) == Overdue(j) /\ r.phase = "running"

\* stage "running": an ended job goes on to its outputs, one whose cluster did
\* not start in time or whose GPUs idle is stopped, and any other is left.
\* The coroutine's own copy keeps its `since`.
AdvanceRunning(t) ==
  LET r == rayjob[job[t]]
      after == IF read[t].output = "true" THEN "outputs" ELSE "done"
  IN /\ At(t, "advance")
     /\ read[t].stage = "running"
     /\ \/ /\ Ended(read[t])
           /\ \/ /\ Patch(job[t], Staged(r, after, r.stopped, r.output, r.suspend))
                 /\ Go(t, after)
              \/ PatchRefused(t)
        \/ /\ Overdue(job[t])
           /\ read[t].phase = "new"
           /\ Enter(t, "suspending", job[t], read[t], "not_started")
           /\ UNCHANGED rayjob
        \/ /\ GpusIdle(job[t], read[t])
           /\ Enter(t, "suspending", job[t], read[t], "idle")
           /\ UNCHANGED rayjob
        \/ ~Ended(read[t]) /\ Return(t) /\ UNCHANGED rayjob
     /\ UNCHANGED <<copyIn, copyOut, prefix, age, back, names, cleaned,
                    listing, counters>>

\* Mutant: only a job whose cluster runs is suspended.
SuspendedIfRunning(r) == r.phase = "running"
ToSuspend(r) == ~Ended(r)

\* stop_nrp, its first patch: a job that had not ended is suspended.
StopSuspend(t) ==
  /\ At(t, "suspending")
  /\ \/ /\ ToSuspend(read[t])
        /\ \/ /\ Patch(job[t], Suspended(rayjob[job[t]]))
              /\ Go(t, "stopping")
           \/ PatchRefused(t)
     \/ ~ToSuspend(read[t]) /\ Go(t, "stopping") /\ UNCHANGED rayjob
  /\ UNCHANGED <<copyIn, copyOut, prefix, age, back, names, cleaned, listing,
                 counters>>

\* stop_nrp, its second: the stage after, and why.  A job that never started,
\* as it was read, wrote nothing to copy back.
\* Mutant: a stage no pass knows.
StopAfterUnknown(r) == IF r.output = "true" THEN "outputs" ELSE "stopped"
StopAfter(r) == IF r.output = "true" /\ r.phase = "running" THEN "outputs" ELSE "done"

StopStage(t) ==
  LET r == rayjob[job[t]]
  IN /\ At(t, "stopping")
     /\ \/ /\ Patch(job[t], Staged(r, StopAfter(read[t]), why[t], r.output, r.suspend))
           /\ Return(t)
        \/ PatchRefused(t)
     /\ UNCHANGED <<copyIn, copyOut, prefix, age, back, names, cleaned,
                    listing, counters>>

\* Mutant: a copy back that failed, or is not there, is waited for.
OutputsBack(s) == s = "succeeded"
OutputsOver(s) == s \in {"succeeded", "failed", "none"}

\* stage "outputs": the copy back is let run, waited for, or found ended.
\* Nothing else lets it run, so asking for its state and patching it are one
\* step.  set_stage marks the coroutine's own copy before the RayJob.
AdvanceOutputs(t) ==
  LET s == copyOut[job[t]]
  IN /\ \/ At(t, "outputs")
        \/ At(t, "advance") /\ read[t].stage = "outputs"
     /\ \/ /\ s = "suspended"
           /\ copyOut' = [copyOut EXCEPT ![job[t]] = "running"]
           /\ Return(t)
        \/ s # "suspended" /\ ~OutputsOver(s) /\ Return(t) /\ UNCHANGED copyOut
        \/ /\ OutputsOver(s)
           /\ Enter(t, "finishing", job[t],
                    IF s = "succeeded" THEN read[t] ELSE WithOutput(read[t], "failed"),
                    why[t])
           /\ UNCHANGED copyOut
     /\ UNCHANGED <<rayjob, copyIn, prefix, age, back, names, cleaned,
                    listing, counters>>

\* ... and then its job is done, marked if its outputs did not come back.
Finish(t) ==
  LET r == rayjob[job[t]]
      output == IF read[t].output = "failed" THEN "failed" ELSE r.output
  IN /\ At(t, "finishing")
     /\ \/ /\ Patch(job[t], Staged(r, "done", r.stopped, output, r.suspend))
           /\ Enter(t, "done", job[t], WithSince(read[t], "recent"), why[t])
        \/ PatchRefused(t)
     /\ UNCHANGED <<copyIn, copyOut, prefix, age, back, names, cleaned,
                    listing, counters>>

\* Mutant: outputs that did not come back go as any others.
CleanedAnyway(j, r) == j \notin cleaned
ToClean(j, r) == j \notin cleaned /\ r.output # "failed"

\* stage "done": its prefix goes, once, unless its outputs only exist there,
\* and its record JOB_RECORD_S after `since`, which is still that of its
\* running when the same pass found it ended, without outputs to copy.
AdvanceDone(t) ==
  LET j == job[t]
      clean == ToClean(j, read[t])
  IN /\ \/ At(t, "done")
        \/ At(t, "advance") /\ read[t].stage = "done"
     /\ prefix' = IF clean THEN [prefix EXCEPT ![j] = {}] ELSE prefix
     /\ cleaned' = IF clean THEN cleaned \cup {j} ELSE cleaned
     /\ \/ read[t].since = "recent" /\ Return(t)
        \/ read[t].since = "long" /\ Go(t, "del_rayjob")
     /\ UNCHANGED <<rayjob, copyIn, copyOut, age, back, names, listing, counters>>

-----------------------------------------------------------------------------
(* delete_nrp: the RayJob, the Jobs, the prefix.  No answer is looked at. *)

DeleteRayJob(t) ==
  /\ At(t, "del_rayjob")
  /\ \/ rayjob' = [rayjob EXCEPT ![job[t]] = NoRecord] /\ UNCHANGED failures
     \/ /\ failures < MaxFailures
        /\ failures' = failures + 1
        /\ UNCHANGED rayjob
  /\ Go(t, "del_jobs")
  /\ UNCHANGED <<copyIn, copyOut, prefix, age, back, names, cleaned, listing,
                 asks, used>>

DeleteCopyJobs(t) ==
  /\ At(t, "del_jobs")
  /\ copyIn' = [copyIn EXCEPT ![job[t]] = "none"]
  /\ copyOut' = [copyOut EXCEPT ![job[t]] = "none"]
  /\ cleaned' = cleaned \ {job[t]}
  /\ Go(t, "del_prefix")
  /\ UNCHANGED <<rayjob, prefix, age, back, names, listing, counters>>

DeletePrefix(t) ==
  /\ At(t, "del_prefix")
  /\ prefix' = [prefix EXCEPT ![job[t]] = {}]
  /\ Return(t)
  /\ UNCHANGED <<rayjob, copyIn, copyOut, age, back, names, cleaned, listing,
                 counters>>

-----------------------------------------------------------------------------
(* nrp_recorded: a call about a job, on its RayJob as listed for the call:   *)
(* any other answers from what it read, or refuses.  Nothing is awaited      *)
(* between the listing and what the call does of it.                         *)

\* POST /stop of a job neither ended nor stopped.
CallStop(c) ==
  /\ At(c, "idle")
  /\ \E j \in Jobs : /\ Listed(j)
                     /\ ~Ended(rayjob[j])
                     /\ rayjob[j].stopped = "no"
                     /\ Enter(c, "suspending", j, rayjob[j], "user")
  /\ UNCHANGED <<stores, names, cleaned, listing, counters>>

\* DELETE of a job that is done.
CallDelete(c) ==
  /\ At(c, "idle")
  /\ \E j \in Jobs : /\ Listed(j)
                     /\ rayjob[j].stage = "done"
                     /\ Enter(c, "del_rayjob", j, rayjob[j], "no")
  /\ UNCHANGED <<stores, names, cleaned, listing, counters>>

-----------------------------------------------------------------------------
(* reap_nrp: one listing, every job of it advanced in turn, and the code no   *)
(* job took deleted.                                                         *)

ReapList ==
  /\ At(Reaper, "idle")
  /\ Go(Reaper, "looping")
  /\ todo' = {j \in Jobs : Listed(j)}
  /\ seen' = rayjob
  /\ taken' = {}
  /\ old' = {j \in Jobs : age[j] = 2}
  /\ UNCHANGED <<stores, names, cleaned, counters>>

ReapJob ==
  /\ At(Reaper, "looping")
  /\ \E j \in todo : /\ todo' = todo \ {j}
                     /\ Enter(Reaper, "advance", j, seen[j], "no")
  /\ UNCHANGED <<stores, names, cleaned, seen, taken, old, counters>>

\* Taken: the jobs of the listing, and the names that wait now, however long.
Awaited(j) == \E u \in Users : waiting[u] = j

ReapTaken ==
  /\ At(Reaper, "looping")
  /\ todo = {}
  /\ taken' = {j \in Jobs : seen[j] # NoRecord \/ Awaited(j)}
  /\ Go(Reaper, "sweeping")
  /\ UNCHANGED <<stores, names, cleaned, todo, seen, old, counters>>

\* Its newest object 2 * START_TIMEOUT_S older than the pass.
\* Mutant: however new it is.
UntakenNew(j) == j \notin taken /\ prefix[j] # {}
\* Mutant: only where code is left of it.
UntakenCode(j) == j \in old \ taken /\ "code" \in prefix[j]
Untaken(j) == j \in old \ taken /\ prefix[j] # {}

Sweep ==
  /\ At(Reaper, "sweeping")
  /\ \E j \in Jobs : Untaken(j) /\ prefix' = [prefix EXCEPT ![j] = {}]
  /\ UNCHANGED <<rayjob, copyIn, copyOut, age, back, names, cleaned, calls,
                 listing, counters>>

ReapEnds ==
  /\ At(Reaper, "sweeping")
  /\ \A j \in Jobs : ~Untaken(j)
  /\ Enter(Reaper, "idle", None, NoRecord, "no")
  /\ DropListing
  /\ UNCHANGED <<stores, names, cleaned, counters>>

-----------------------------------------------------------------------------
(* External: KubeRay, the job itself, the stage Jobs, and time. *)

SetPhase(j, p) ==
  /\ rayjob' = [rayjob EXCEPT ![j] = WithPhase(rayjob[j], p)]
  /\ UNCHANGED <<copyIn, copyOut, prefix, age, back, names, cleaned, calls,
                 listing, counters>>

\* The operator: a cluster for a job that is not suspended, none for one that is.
KubeRay(j) ==
  /\ Listed(j)
  /\ \/ rayjob[j].phase = "new" /\ ~rayjob[j].suspend /\ SetPhase(j, "running")
     \/ /\ rayjob[j].phase \in {"new", "running"}
        /\ rayjob[j].suspend
        /\ SetPhase(j, "suspended")
     \/ rayjob[j].phase = "suspended" /\ ~rayjob[j].suspend /\ SetPhase(j, "new")

\* The entrypoint exits, or fails.
JobEnds(j) == Listed(j) /\ rayjob[j].phase = "running" /\ SetPhase(j, "ended")

\* A running job writes to AF_OUTPUT.
WriteOutput(j) ==
  /\ Listed(j)
  /\ rayjob[j].phase = "running"
  /\ rayjob[j].output = "true"
  /\ "output" \notin prefix[j]
  /\ Put(j, "output")
  /\ UNCHANGED <<rayjob, copyIn, copyOut, back, names, cleaned, calls, todo,
                 seen, taken, counters>>

\* stage.py in.
CopyInEnds(j) ==
  /\ copyIn[j] = "running"
  /\ \/ copyIn' = [copyIn EXCEPT ![j] = "succeeded"] /\ Put(j, "inputs")
     \/ copyIn' = [copyIn EXCEPT ![j] = "failed"] /\ UNCHANGED <<prefix, age, old>>
  /\ UNCHANGED <<rayjob, copyOut, back, names, cleaned, calls, todo, seen,
                 taken, counters>>

\* stage.py out, which also succeeds where there is nothing to copy.
CopyOutEnds(j) ==
  /\ copyOut[j] = "running"
  /\ \/ /\ copyOut' = [copyOut EXCEPT ![j] = "succeeded"]
        /\ back' = IF "output" \in prefix[j] THEN back \cup {j} ELSE back
     \/ copyOut' = [copyOut EXCEPT ![j] = "failed"] /\ UNCHANGED back
  /\ UNCHANGED <<rayjob, copyIn, prefix, age, names, cleaned, calls, listing,
                 counters>>

\* JOB_RECORD_S pass: days, in which no call about the job lasts, KubeRay
\* suspends what it is told to and the reaper moves on a job that ended.
RecordAges(j) ==
  /\ Listed(j)
  /\ rayjob[j].suspend => rayjob[j].phase \in {"suspended", "ended"}
  /\ Ended(rayjob[j]) => rayjob[j].stage = "done"
  /\ rayjob[j].since = "recent"
  /\ j \notin todo
  /\ \A t \in Threads : job[t] # j
  /\ rayjob' = [rayjob EXCEPT ![j] = WithSince(rayjob[j], "long")]
  /\ UNCHANGED <<copyIn, copyOut, prefix, age, back, names, cleaned, calls,
                 listing, counters>>

\* START_TIMEOUT_S pass; ages count to 2, the most any test tells apart.  The
\* few calls of a submission, of API_TIMEOUT at most each, do not take as long.
Older(n) == IF n < 2 THEN n + 1 ELSE 2
Tick ==
  /\ \A u \in Users : At(u, "idle")
  /\ \/ \E j \in Jobs : prefix[j] # {} /\ age[j] < 2
     \/ \E u \in Users : waiting[u] # None /\ since[u] < 2
  /\ age' = [j \in Jobs |-> IF prefix[j] = {} THEN age[j] ELSE Older(age[j])]
  /\ since' = [u \in Users |-> IF waiting[u] = None THEN 0 ELSE Older(since[u])]
  /\ UNCHANGED <<rayjob, copyIn, copyOut, prefix, back, waiting, cleaned, calls,
                 listing, counters>>

-----------------------------------------------------------------------------

Submission(u) ==
  \/ CheckPackage(u) \/ Upload(u) \/ Submit(u) \/ Create(u)
  \/ CreateCopyIn(u) \/ CreateCopyOut(u)

Call(c) == CallStop(c) \/ CallDelete(c)

Reap == ReapList \/ ReapJob \/ ReapTaken \/ Sweep \/ ReapEnds

\* What any coroutine may be in the middle of.
Step(t) ==
  \/ AdvanceInputs(t) \/ Resume(t) \/ AdvanceRunning(t) \/ StopSuspend(t)
  \/ StopStage(t) \/ AdvanceOutputs(t) \/ Finish(t) \/ AdvanceDone(t)
  \/ DeleteRayJob(t) \/ DeleteCopyJobs(t) \/ DeletePrefix(t)

External(j) ==
  \/ KubeRay(j) \/ JobEnds(j) \/ WriteOutput(j) \/ CopyInEnds(j) \/ CopyOutEnds(j)
  \/ RecordAges(j)

Next ==
  \/ \E u \in Users : Submission(u)
  \/ \E c \in Callers : Call(c)
  \/ Reap
  \/ \E t \in Threads : Step(t)
  \/ \E t \in Threads : Fails(t)
  \/ Restart
  \/ \E j \in Jobs : External(j)
  \/ Tick

Spec == Init /\ [][Next]_vars

\* Every call to a service ends, within API_TIMEOUT or by failing, and
\* reap_forever passes again and again; KubeRay acts on what a RayJob says, a
\* stage Job ends (backoffLimit), and time passes.  Whether a user calls, or a
\* job ends by itself, is left open.
Fairness ==
  /\ \A u \in Users : WF_vars(Create(u) \/ CreateCopyIn(u) \/ CreateCopyOut(u))
  /\ WF_vars(Reap)
  /\ \A t \in Threads : WF_vars(Step(t))
  /\ \A j \in Jobs : /\ WF_vars(KubeRay(j))
                      /\ WF_vars(CopyInEnds(j))
                      /\ WF_vars(CopyOutEnds(j))
  /\ WF_vars(Tick)

FairSpec == Spec /\ Fairness

-----------------------------------------------------------------------------
(* Properties. *)

HasEnded(j) == rayjob[j].phase = "ended"

Deleting(j) == \E t \in Threads : job[t] = j /\ At(t, "del_prefix")

\* "Copying its outputs back failed: they stay on NRP until the job is deleted"
\* (OUTPUT_FAILED): once a job is marked so, nothing but delete_nrp of that job
\* removes its outputs, neither a pass on what it read before nor the sweep.
FailedOutputsStayStep ==
  \A j \in Jobs :
    (/\ Listed(j)
     /\ rayjob[j].output = "failed"
     /\ prefix[j] # {}
     /\ prefix'[j] = {}) => Deleting(j)
FailedOutputsStay == [][FailedOutputsStayStep]_vars

LetRun(j) == Listed(j) /\ ~rayjob[j].suspend

\* A job that names inputs is let run only once they are on S3, whoever resumes it
\* and whatever failed or restarted before (README: created suspended while
\* <RayJob>-in copies, and resumed).
InputsBeforeClusterStep ==
  \A j \in Jobs : LetRun(j)' /\ ~LetRun(j) /\ rayjob'[j].inputs
                  => copyIn[j] = "succeeded"
InputsBeforeCluster == [][InputsBeforeClusterStep]_vars

\* The code of a job that waits for its inputs or its cluster stays where Ray
\* fetches it from: neither the sweep nor the clean-up of a done job takes it.
CodeKept ==
  \A j \in Jobs :
    Listed(j) /\ rayjob[j].code /\ rayjob[j].stage \in {"inputs", "running"}
      => "code" \in prefix[j]

\* A stopped job is, and stays, suspended, unless it had ended by then.
StoppedIsSuspended ==
  \A j \in Jobs :
    Listed(j) /\ rayjob[j].stopped # "no"
      => rayjob[j].suspend \/ HasEnded(j)

\* A job that ended is done in the end, whatever calls failed on the way and
\* whether the gateway restarted.
EndedIsFinished ==
  \A j \in Jobs :
    (Listed(j) /\ HasEnded(j)) ~> (~Listed(j) \/ rayjob[j].stage = "done")

\* What a restart forgot, or a half-done delete left, does not stay on S3
\* forever: it is swept, unless a job took it or a name waits for it.
ForgottenIsSwept ==
  \A j \in Jobs : (prefix[j] # {}) ~> (Listed(j) \/ Awaited(j) \/ prefix[j] = {})
=============================================================================

------------------------------- MODULE RayJobs -------------------------------
(***************************************************************************)
(* One user's Ray jobs at Purdue (apps/ray-train/gateway.py).              *)
(*                                                                         *)
(* A submission and the packages it takes along reach a RayJob of its own, *)
(* which Gateway.submission makes at the first of them and remembers, in   *)
(* memory, as the one that waits; the submission patches its jobId and is  *)
(* relayed to its head.  From then on the reaper and KubeRay see it to its *)
(* end: the reaper frees the workers of an ended job once it kept the logs,*)
(* and removes a RayJob no job came to, or whose record is old.            *)
(*                                                                         *)
(* KubeRay and Ray are external.  Time is counted in ticks; only waiting   *)
(* for a head takes one or more.                                           *)
(***************************************************************************)
EXTENDS Naturals, FiniteSets

CONSTANTS
  Jobs,      \* RayJob names: job_name makes each one once
  Clients,   \* calls of the user's JobSubmissionClients, one at a time each
  Ids,       \* submission IDs
  IdsOf,     \* client -> those it submits jobs under
  ShapeOf,   \* client -> the shape its calls ask for
  None,      \* no job, no ID, no client
  Start,     \* START_TIMEOUT_S, and PROVISION_TIMEOUT_S, in ticks
  MaxAsks,   \* bound: calls
  MaxFaults  \* bound: calls to a service that fail, restarts

ASSUME JobsAssumption == None \notin Jobs \cup Ids \cup Clients
ASSUME IdsAssumption == IdsOf \in [Clients -> SUBSET Ids]
ASSUME BoundsAssumption == Start \in Nat \ {0} /\ MaxAsks \in Nat /\ MaxFaults \in Nat

VARIABLES
  rj,       \* Kubernetes and Ray: RayJob name -> what there is of it
  waiting,  \* Gateway.waiting: the RayJob that waits, its shape and age, or NoWait
  lock,     \* Gateway.submitting: the client whose call holds it, or None
  call,     \* client -> its call
  reaper,   \* reap_jobs: its listing, the names waited for, the job it frees
  asks, faults

vars == <<rj, waiting, lock, call, reaper, asks, faults>>

\* A RayJob: its state is "unused", "made" or "deleted", its cluster's "starting", "up" or
\* "gone"; `id` is spec.jobId, `status` status.jobStatus, `ray` what the head says of the
\* job, `old` that JOB_RECORD_S passed since its end or, if it has none, since it
\* was made; `late` that its jobId was set 2 * START_TIMEOUT_S after that.
Unused == [state |-> "unused", id |-> None, age |-> 0, cluster |-> "starting",
           full |-> FALSE, suspended |-> FALSE, logs |-> FALSE,
           status |-> "", ray |-> "no", old |-> FALSE, late |-> FALSE]
\* The RayJob goes, and its cluster with it.
Removed(r) == [Unused EXCEPT !.state = "deleted"]

\* What the reaper reads of one in its listing.
Seen(r) == [id |-> r.id # None, status |-> r.status, old |-> r.old]

NoWait == [name |-> None, shape |-> None, age |-> 0]
NoCall == [pc |-> "idle", op |-> "none", id |-> None, job |-> None, age |-> 0]
Asleep == [todo |-> {}, seen |-> [j \in Jobs |-> Seen(Unused)], waited |-> {},
           at |-> None]

Made(j) == rj[j].state = "made"
Live(j) == Made(j) /\ rj[j].cluster # "gone"
Up(j)   == Made(j) /\ rj[j].cluster = "up"

Init ==
  /\ rj = [j \in Jobs |-> Unused]
  /\ waiting = NoWait
  /\ lock = None
  /\ call = [c \in Clients |-> NoCall]
  /\ reaper = Asleep
  /\ asks = 0 /\ faults = 0

Fault      == faults < MaxFaults /\ faults' = faults + 1
At(c, pc)  == call[c].pc = pc
Goes(c, pc) == call' = [call EXCEPT ![c].pc = pc]
Works(c, pc, j) == call' = [call EXCEPT ![c].pc = pc, ![c].job = j, ![c].age = 0]
Returns(c) == call' = [call EXCEPT ![c] = NoCall]
Delete(j)  == rj' = [rj EXCEPT ![j] = IF Made(j) THEN Removed(@) ELSE @]
Patch(j, r) == rj' = [rj EXCEPT ![j] = IF Made(j) THEN r ELSE @]

-----------------------------------------------------------------------------
(* Gateway.submission and start_job. *)

\* An upload, or the submission of `id`, waits for the user's lock.
Ask(c, op, id) ==
  /\ At(c, "idle") /\ asks < MaxAsks /\ asks' = asks + 1
  /\ call' = [call EXCEPT ![c] = [NoCall EXCEPT !.pc = "lock", !.op = op, !.id = id]]
  /\ UNCHANGED <<rj, waiting, lock, reaper, faults>>

\* Mutant: only a job KubeRay follows counts.
DuplicateFollowed(id) == \E j \in Jobs : Made(j) /\ rj[j].id = id /\ rj[j].status # ""

\* submitted_before: a RayJob that waits for its job is none of the user's jobs.
Duplicate(id) == \E j \in Jobs : Made(j) /\ rj[j].id = id

\* The RayJob that waits is this call's if it is of its shape and not too old.
Fits(c, w) == w # NoWait /\ w.shape = ShapeOf[c] /\ w.age <= Start

\* An upload leaves the RayJob to the calls that follow and goes to its head; a
\* submission takes it and sets its jobId.
Takes(c, w) ==
  IF call[c].op = "upload"
  THEN /\ waiting' = w
       /\ lock' = None
       /\ Works(c, "upload", w.name)
  ELSE /\ waiting' = NoWait
       /\ lock' = c
       /\ Works(c, "patch", w.name)

Enter(c) ==
  /\ At(c, "lock") /\ lock = None
  /\ IF call[c].op = "submit" /\ Duplicate(call[c].id)
     THEN Returns(c) /\ UNCHANGED <<waiting, lock>>
     ELSE IF Fits(c, waiting) THEN Takes(c, waiting)
     ELSE waiting' = NoWait /\ lock' = c /\ Goes(c, "start")
  /\ UNCHANGED <<rj, reaper, asks, faults>>

\* admit lets it through (RayClusters) and the RayJob is made, under a new name.
StartJob(c, j) ==
  /\ At(c, "start") /\ rj[j].state = "unused"
  /\ rj' = [rj EXCEPT ![j] = [Unused EXCEPT !.state = "made"]]
  /\ Works(c, "head", j)
  /\ UNCHANGED <<waiting, lock, reaper, asks, faults>>

StartRefused(c) ==
  /\ At(c, "start")
  /\ Returns(c) /\ lock' = None
  /\ UNCHANGED <<rj, waiting, reaper, asks, faults>>

HeadUp(c) ==
  /\ At(c, "head") /\ Up(call[c].job)
  /\ Takes(c, [name |-> call[c].job, shape |-> ShapeOf[c], age |-> 0])
  /\ UNCHANGED <<rj, reaper, asks, faults>>

\* In time it did not, the token could not be made, or its head is open.
HeadFails(c) ==
  /\ At(c, "head")
  /\ \/ call[c].age >= Start /\ UNCHANGED faults
     \/ Fault
  /\ Delete(call[c].job)
  /\ Returns(c) /\ lock' = None
  /\ UNCHANGED <<waiting, reaper, asks>>

\* The jobId is set before Ray is asked: KubeRay follows the job it names.
PatchId(c) ==
  /\ At(c, "patch") /\ Made(call[c].job)
  /\ rj' = [rj EXCEPT ![call[c].job].id = call[c].id,
                      ![call[c].job].late = rj[call[c].job].age >= 2 * Start]
  /\ Goes(c, "post") /\ lock' = None
  /\ UNCHANGED <<waiting, reaper, asks, faults>>

\* Kubernetes refuses, or has no such RayJob; or the answer is lost, whether the
\* jobId was set or not.
PatchFails(c) ==
  /\ At(c, "patch")
  /\ \/ Made(call[c].job) /\ Fault
     \/ ~Made(call[c].job) /\ UNCHANGED faults
  /\ \/ Delete(call[c].job)
     \/ Patch(call[c].job, [rj[call[c].job] EXCEPT !.id = call[c].id])
     \/ UNCHANGED rj
  /\ Returns(c) /\ lock' = None
  /\ UNCHANGED <<waiting, reaper, asks>>

\* The relayed call: Ray runs the job, or the head does not answer.
Relay(c) ==
  /\ call[c].pc \in {"upload", "post"}
  /\ \/ /\ At(c, "post") /\ Up(call[c].job)
        /\ rj' = [rj EXCEPT ![call[c].job].ray = "running"]
        /\ UNCHANGED faults
     \/ At(c, "upload") /\ UNCHANGED <<rj, faults>>
     \/ At(c, "post") /\ ~Up(call[c].job) /\ UNCHANGED <<rj, faults>>
     \/ At(c, "post") /\ Fault /\ UNCHANGED rj
  /\ Returns(c)
  /\ UNCHANGED <<waiting, lock, reaper, asks>>

\* A call about a job: a stop reaches its head while that is up, and else, or to
\* delete an ended one, its record (recorded).
Stop(j) ==
  /\ asks < MaxAsks /\ asks' = asks + 1
  /\ Made(j) /\ rj[j].id # None
  /\ \/ Up(j) /\ rj[j].ray = "running"
        /\ rj' = [rj EXCEPT ![j].ray = "ended"]
     \/ ~Live(j) /\ rj[j].status # "ended" /\ Delete(j)
     \/ rj[j].status = "ended" /\ Delete(j)
  /\ UNCHANGED <<waiting, lock, call, reaper, faults>>

-----------------------------------------------------------------------------
(* reap_jobs. *)

\* The names a fresh upload waits for are noted with the listing.
ReapList ==
  /\ reaper = Asleep
  /\ \E j \in Jobs : Made(j)
  /\ reaper' = [todo |-> {j \in Jobs : Made(j)}, at |-> None,
                seen |-> [j \in Jobs |-> Seen(rj[j])],
                waited |-> IF waiting.age < Start THEN {waiting.name} ELSE {}]
  /\ UNCHANGED <<rj, waiting, lock, call, asks, faults>>

Passed(j) == IF reaper.todo = {j} THEN Asleep
             ELSE [reaper EXCEPT !.todo = @ \ {j}, !.at = None]

\* Mutant: a head has no time to take the job its RayJob names.
AbandonedAtOnce(j) ==
  LET seen == reaper.seen[j]
  IN \/ rj[j].age >= 2 * Start /\ ~seen.id /\ j \notin reaper.waited
     \/ seen.id /\ seen.status = "" /\ Up(j) /\ rj[j].ray = "no"

\* Removed without its job's end: no submission came, or its head has no such
\* job, 2 * START_TIMEOUT_S after it was made.
Abandoned(j) ==
  LET seen == reaper.seen[j]
  IN /\ rj[j].age >= 2 * Start
     /\ \/ ~seen.id /\ j \notin reaper.waited
        \/ seen.id /\ seen.status = "" /\ Up(j) /\ rj[j].ray = "no"

\* Its record is old: it ended, or has no cluster to end in.
Outlived(j) ==
  LET seen == reaper.seen[j]
  IN seen.old /\ seen.id
       /\ (seen.status = "ended" \/ (seen.status = "" /\ ~Live(j)))

\* The job ended, as KubeRay or its head says, and its cluster is there.
Freeable(j) ==
  LET seen == reaper.seen[j]
  IN seen.id /\ Up(j)
       /\ (seen.status = "ended" \/ (seen.status = "" /\ rj[j].ray = "ended"))

\* Its workers did not all start in time, though KubeRay follows its job.
Unprovisioned(j) ==
  LET seen == reaper.seen[j]
  IN seen.id /\ seen.status = "running" /\ Up(j) /\ ~rj[j].full
       /\ ~rj[j].suspended /\ rj[j].age >= Start

\* free_workers: keep_logs comes first.
ReapLogs(j) ==
  /\ reaper.at = None /\ j \in reaper.todo /\ Freeable(j)
  /\ \/ Patch(j, [rj[j] EXCEPT !.logs = TRUE]) /\ UNCHANGED faults
     \/ Fault /\ UNCHANGED rj
  /\ reaper' = [reaper EXCEPT !.at = j]
  /\ UNCHANGED <<waiting, lock, call, asks>>

\* Mutant: workers are freed only once KubeRay says the job ended.
ReapSuspendEnded ==
  /\ reaper.at # None
  /\ LET j == reaper.at
         freed == [rj[j] EXCEPT !.suspended = @ \/ reaper.seen[j].status = "ended"]
     IN Patch(j, freed)
  /\ reaper' = Passed(reaper.at)
  /\ UNCHANGED <<waiting, lock, call, asks, faults>>

ReapSuspend ==
  /\ reaper.at # None
  /\ LET j == reaper.at
     IN Patch(j, [rj[j] EXCEPT !.suspended = Up(j)])
  /\ reaper' = Passed(reaper.at)
  /\ UNCHANGED <<waiting, lock, call, asks, faults>>

ReapDelete(j) ==
  /\ reaper.at = None /\ j \in reaper.todo
  /\ Abandoned(j) \/ Outlived(j)
  /\ Delete(j)
  /\ reaper' = Passed(j)
  /\ UNCHANGED <<waiting, lock, call, asks, faults>>

\* stop_unprovisioned: stop the job, say why, keep its logs, remove its cluster.
ReapStop(j) ==
  /\ reaper.at = None /\ j \in reaper.todo /\ Unprovisioned(j)
  /\ Patch(j, [rj[j] EXCEPT !.ray = "ended", !.logs = TRUE, !.cluster = "gone"])
  /\ reaper' = Passed(j)
  /\ UNCHANGED <<waiting, lock, call, asks, faults>>

\* Nothing to do, or a service did not answer.
ReapPass(j) ==
  /\ reaper.at = None /\ j \in reaper.todo
  /\ \/ ~Abandoned(j) /\ ~Outlived(j) /\ ~Freeable(j) /\ ~Unprovisioned(j)
        /\ UNCHANGED faults
     \/ Fault
  /\ reaper' = Passed(j)
  /\ UNCHANGED <<rj, waiting, lock, call, asks>>

-----------------------------------------------------------------------------
(* KubeRay, Ray, time and a restart of the gateway. *)

Environment(j) ==
  /\ Made(j)
  /\ \/ /\ rj[j].cluster = "starting"
        /\ rj' = [rj EXCEPT ![j].cluster = "up"]
     \/ /\ Up(j) /\ ~rj[j].full /\ ~rj[j].suspended
        /\ rj' = [rj EXCEPT ![j].full = TRUE]
     \/ /\ rj[j].ray = "running" /\ rj[j].id # None /\ rj[j].status = ""
        /\ rj' = [rj EXCEPT ![j].status = "running"]
  /\ UNCHANGED <<waiting, lock, call, reaper, asks, faults>>

\* What KubeRay and a job do in the end.  KubeRay follows a job once every pod of
\* its cluster that is not suspended runs, fails one whose cluster is gone, and
\* removes the cluster of one that ended, long before JOB_RECORD_S has passed.
KubeRay(j) ==
  /\ Made(j)
  /\ \/ /\ rj[j].ray = "running"
        /\ rj' = [rj EXCEPT ![j].ray = "ended"]
     \/ /\ rj[j].ray = "ended" /\ rj[j].status # "ended"
        /\ rj[j].full \/ rj[j].suspended \/ rj[j].cluster = "gone"
        /\ rj' = [rj EXCEPT ![j].status = "ended"]
     \/ /\ rj[j].status = "ended" /\ rj[j].cluster # "gone"
        /\ rj' = [rj EXCEPT ![j].cluster = "gone", ![j].full = FALSE,
                            ![j].suspended = FALSE]
     \/ /\ rj[j].cluster = "gone" /\ rj[j].status # "running" /\ ~rj[j].old
        /\ rj' = [rj EXCEPT ![j].old = TRUE]
  /\ UNCHANGED <<waiting, lock, call, reaper, asks, faults>>

Tick ==
  /\ \A c \in Clients : /\ call[c].pc \in {"idle", "lock", "head"}
                         /\ call[c].age < Start
  /\ reaper = Asleep
  /\ rj' = [j \in Jobs |-> IF Made(j) /\ rj[j].age < 2 * Start
                           THEN [rj[j] EXCEPT !.age = @ + 1] ELSE rj[j]]
  /\ waiting' = IF waiting # NoWait /\ waiting.age <= Start
                THEN [waiting EXCEPT !.age = @ + 1] ELSE waiting
  /\ call' = [c \in Clients |-> IF At(c, "head")
                THEN [call[c] EXCEPT !.age = @ + 1] ELSE call[c]]
  /\ UNCHANGED <<lock, reaper, asks, faults>>

Restart ==
  /\ Fault
  /\ waiting' = NoWait /\ lock' = None
  /\ call' = [c \in Clients |-> NoCall]
  /\ reaper' = Asleep
  /\ UNCHANGED <<rj, asks>>

CallStep(c) ==
  \/ Enter(c) \/ (\E j \in Jobs : StartJob(c, j)) \/ StartRefused(c)
  \/ HeadUp(c) \/ HeadFails(c) \/ PatchId(c) \/ PatchFails(c) \/ Relay(c)

Reap ==
  \/ ReapList \/ ReapSuspend
  \/ \E j \in Jobs : ReapLogs(j) \/ ReapDelete(j) \/ ReapStop(j) \/ ReapPass(j)

Next ==
  \/ \E c \in Clients : \/ Ask(c, "upload", None)
                        \/ \E id \in IdsOf[c] : Ask(c, "submit", id)
                        \/ CallStep(c)
  \/ Reap
  \/ \E j \in Jobs : Stop(j) \/ Environment(j) \/ KubeRay(j)
  \/ Tick \/ Restart

Spec == Init /\ [][Next]_vars

\* Every await ends, the reaper passes again and again, time passes, and KubeRay
\* and the jobs do what they do in the end.  No head and no worker need start.
FairSpec ==
  /\ Spec
  /\ \A c \in Clients : WF_vars(CallStep(c))
  /\ WF_vars(Reap) /\ SF_vars(Tick)
  /\ WF_vars(\E j \in Jobs : KubeRay(j))

-----------------------------------------------------------------------------
(* Properties. *)

\* Whatever calls of the user run at once, no two RayJobs run a job of one
\* submission ID: submitted_before is asked under the lock jobId is set under.
NoDuplicate ==
  \A i, j \in Jobs : Made(i) /\ Made(j) /\ i # j /\ rj[i].id # None
    => rj[i].id # rj[j].id

\* A RayJob whose job runs on its head, or is being submitted to it, is not
\* removed, unless its jobId was set only as the reaper gives such RayJobs up.
RunningKept ==
  [][ \A j \in Jobs :
        /\ Up(j) /\ rj[j].id # None /\ rj'[j].state = "deleted"
        /\ rj[j].ray = "running" \/ \E c \in Clients : At(c, "post") /\ call[c].job = j
        => rj[j].late ]_vars

\* Once no more calls come every RayJob goes: one no job came to, one whose job
\* Ray never took, one that ended before its workers started, and any other.
AllGo == <>[](\A j \in Jobs : ~Made(j))
=============================================================================

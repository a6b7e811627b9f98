--------------------------- MODULE RayJobsProofs ---------------------------
(***************************************************************************)
(* Theorems about RayJobs, for any set of clients, RayJobs and submission  *)
(* IDs, any timeout and any number of calls and faults.                    *)
(***************************************************************************)
EXTENDS RayJobs, TLAPS

JobType == [state : {"unused", "made", "deleted"}, id : Ids \cup {None}, age : Nat,
            cluster : {"starting", "up", "gone"}, full : BOOLEAN, suspended : BOOLEAN,
            logs : BOOLEAN, status : {"", "running", "ended"}, ray : {"no", "running", "ended"},
            old : BOOLEAN, late : BOOLEAN]
SeenType == [id : BOOLEAN, status : {"", "running", "ended"}, old : BOOLEAN]
CallType == [pc : {"idle", "lock", "start", "head", "upload", "patch", "post"},
             op : {"none", "upload", "submit"}, id : Ids \cup {None}, job : Jobs \cup {None},
             age : Nat]
ReaperType == [todo : SUBSET Jobs, seen : [Jobs -> SeenType], waited : SUBSET (Jobs \cup {None}),
               at : Jobs \cup {None}]

WaitType == [name : Jobs \cup {None}, shape : {ShapeOf[c] : c \in Clients} \cup {None}, age : Nat]

TypeOK ==
  /\ rj \in [Jobs -> JobType]
  /\ waiting \in WaitType
  /\ lock \in Clients \cup {None}
  /\ call \in [Clients -> CallType]
  /\ reaper \in ReaperType

\* Where a call holds the user's lock.
Inside == {"start", "head", "patch"}
Locked ==
  /\ \A c \in Clients : call[c].pc \in Inside => lock = c
  /\ lock # None => waiting = NoWait

\* What a call asks for, and that only a submission sets a jobId.
Asked == \A c \in Clients :
  /\ call[c].pc # "idle" => \/ call[c].op = "upload"
                            \/ call[c].op = "submit" /\ call[c].id \in Ids
  /\ call[c].pc \in {"patch", "post"} => call[c].op = "submit"

\* A RayJob that is not there has no job, and KubeRay says no more of a job than Ray did.
Told == \A j \in Jobs :
  /\ ~Made(j) => rj[j].id = None /\ rj[j].ray = "no"
  /\ rj[j].ray # "no" => rj[j].id # None
  /\ rj[j].status # "" => rj[j].ray # "no"
  /\ rj[j].status = "ended" => rj[j].ray = "ended"

\* The RayJob that waits, or that a call prepares, has no jobId yet.
Unset ==
  /\ waiting # NoWait => /\ waiting.name \in Jobs
                         /\ rj[waiting.name].state # "unused" /\ rj[waiting.name].id = None
  /\ \A c \in Clients : call[c].pc \in {"head", "patch"} =>
       /\ call[c].job \in Jobs
       /\ rj[call[c].job].state # "unused" /\ rj[call[c].job].id = None

\* A submission under way, past submitted_before, is the first of its ID.
First == \A c \in Clients : call[c].pc \in Inside /\ call[c].op = "submit" =>
  \A j \in Jobs : rj[j].id # call[c].id

\* Between the patch of its jobId and Ray's answer nothing of the job is known yet, and no
\* time passes.
Posted == \A c \in Clients : call[c].pc = "post" =>
  /\ \A d \in Clients : call[d].pc = "post" /\ call[d].job = call[c].job => d = c
  /\ call[c].job \in Jobs /\ rj[call[c].job].state # "unused"
  /\ Made(call[c].job) =>
       /\ rj[call[c].job].id # None /\ rj[call[c].job].ray = "no"
       /\ rj[call[c].job].late <=> rj[call[c].job].age >= 2 * Start

\* Ray runs the job, or is about to be asked to.
Submitted(j) == rj[j].ray = "running" \/ \E c \in Clients : At(c, "post") /\ call[c].job = j

\* What the reaper listed: a job that was followed, or had ended, still is, and one that got its jobId since then,
\* when its RayJob was old enough to be given up, is marked late.
Listed == \A j \in reaper.todo : rj[j].state # "unused" /\ (Made(j) =>
  /\ reaper.seen[j].status = "ended" => rj[j].status = "ended"
  /\ reaper.seen[j].status # "" => rj[j].status # ""
  /\ ~reaper.seen[j].id /\ rj[j].id # None /\ Submitted(j) /\ rj[j].age >= 2 * Start
       => rj[j].late)

Inv == /\ TypeOK /\ Locked /\ Asked /\ Told /\ Unset /\ First /\ Posted /\ Listed
       /\ NoDuplicate

-----------------------------------------------------------------------------
(* Types. *)

\* A name that has no RayJob yet, or no more.
LEMMA UnusedType ==
  /\ Unused \in JobType /\ Unused.id = None /\ Unused.ray = "no" /\ Unused.status = ""
  /\ \A r : /\ Removed(r) \in JobType /\ Removed(r).state = "deleted" /\ Removed(r).id = None
           /\ Removed(r).ray = "no" /\ Removed(r).status = ""
BY DEF Unused, Removed, JobType

\* No call,
LEMMA NoCallType == NoCall \in CallType /\ NoCall.pc = "idle" /\ NoCall.op = "none"
BY DEF NoCall, CallType

\* ... no uploads that wait,
LEMMA NoWaitType == NoWait \in WaitType /\ NoWait.name = None
BY DEF NoWait, WaitType

\* ... what the reaper lists of a RayJob,
LEMMA SeenIs ==
  ASSUME NEW r \in JobType
  PROVE  Seen(r) \in SeenType /\ Seen(r).status = r.status /\ Seen(r).id = (r.id # None)
BY DEF Seen, SeenType, JobType

\* ... and the reaper between two passes.
LEMMA AsleepType == Asleep \in ReaperType /\ Asleep.todo = {}
BY UnusedType, SeenIs DEF Asleep, ReaperType

\* A pass goes on with the rest of its listing.
LEMMA PassedType ==
  ASSUME reaper \in ReaperType, NEW j \in Jobs
  PROVE  /\ Passed(j) \in ReaperType
         /\ \A k \in Passed(j).todo : k \in reaper.todo /\ Passed(j).seen[k] = reaper.seen[k]
<1>1. CASE reaper.todo = {j}  BY <1>1, AsleepType DEF Passed
<1>2. CASE reaper.todo # {j}
  <2>1. Passed(j) = [reaper EXCEPT !.todo = @ \ {j}, !.at = None]  BY <1>2 DEF Passed
  <2> QED BY <2>1 DEF ReaperType
<1> QED BY <1>1, <1>2

\* A call that goes on is still one, with its ID.
LEMMA GoesCall ==
  ASSUME TypeOK, NEW c \in Clients,
         NEW pc \in {"idle", "lock", "start", "head", "upload", "patch", "post"}, Goes(c, pc)
  PROVE  /\ call' \in [Clients -> CallType] /\ \A d \in Clients \ {c} : call'[d] = call[d]
         /\ call'[c].pc = pc /\ call'[c].op = call[c].op /\ call'[c].id = call[c].id
         /\ call'[c].job = call[c].job
BY DEF TypeOK, CallType, Goes

\* ... or goes on with another RayJob,
LEMMA WorksCall ==
  ASSUME TypeOK, NEW c \in Clients, NEW j \in Jobs \cup {None},
         NEW pc \in {"idle", "lock", "start", "head", "upload", "patch", "post"}, Works(c, pc, j)
  PROVE  /\ call' \in [Clients -> CallType] /\ \A d \in Clients \ {c} : call'[d] = call[d]
         /\ call'[c].pc = pc /\ call'[c].op = call[c].op /\ call'[c].id = call[c].id
         /\ call'[c].job = j
BY ZenonT(60) DEF TypeOK, CallType, Works

\* ... or is over.
LEMMA ReturnsCall ==
  ASSUME TypeOK, NEW c \in Clients, Returns(c)
  PROVE  /\ call' \in [Clients -> CallType] /\ \A d \in Clients \ {c} : call'[d] = call[d]
         /\ call'[c].pc = "idle"
BY NoCallType DEF TypeOK, Returns

-----------------------------------------------------------------------------
(* Steps that set no jobId. *)

\* What Ray and KubeRay may learn of a job, and a RayJob that goes.
Drifts(j) ==
  /\ rj'[j].state = rj[j].state /\ rj'[j].id = rj[j].id
  /\ rj'[j].age = rj[j].age /\ rj'[j].late = rj[j].late
  /\ \/ rj'[j].ray = rj[j].ray /\ rj'[j].status = rj[j].status
     \/ rj[j].ray # "no" /\ rj'[j].ray = "ended" /\ rj'[j].status = rj[j].status
     \/ rj[j].ray # "no" /\ rj'[j].ray = rj[j].ray /\ rj[j].status = "" /\ rj'[j].status = "running"
     \/ rj[j].ray = "ended" /\ rj'[j].ray = "ended" /\ rj'[j].status = "ended"
Vanishes(j) ==
  /\ Made(j) /\ rj'[j].state = "deleted" /\ rj'[j].id = None
  /\ rj'[j].ray = "no" /\ rj'[j].status = ""

Quiet ==
  /\ rj' \in [Jobs -> JobType] /\ \A j \in Jobs : Drifts(j) \/ Vanishes(j)
  /\ waiting' \in {waiting, NoWait}
  /\ call' \in [Clients -> CallType]
  /\ \A c \in Clients : call'[c] = call[c] \/ call'[c].pc \in {"idle", "lock", "upload"}
  /\ reaper' \in ReaperType
  /\ \A j \in reaper'.todo : j \in reaper.todo /\ reaper'.seen[j] = reaper.seen[j]

\* A step that submits nothing and after which RayJobs have drifted at most keeps the invariant.
LEMMA QuietKeeps ==
  ASSUME Inv, Quiet, Locked', Asked', lock' \in Clients \cup {None}
  PROVE  Inv'
<1> USE DEF Inv
<1>1. TypeOK'  BY NoWaitType DEF Quiet, TypeOK
<1>2. Told'
  <2> SUFFICES ASSUME NEW j \in Jobs
               PROVE  /\ ~Made(j)' => rj'[j].id = None /\ rj'[j].ray = "no"
                      /\ rj'[j].ray # "no" => rj'[j].id # None
                      /\ rj'[j].status # "" => rj'[j].ray # "no"
                      /\ rj'[j].status = "ended" => rj'[j].ray = "ended"
    BY DEF Told
  <2>1. CASE Drifts(j)  BY <2>1 DEF Told, Drifts, Made
  <2>2. CASE Vanishes(j)  BY <2>2 DEF Vanishes, Made
  <2> QED BY <2>1, <2>2 DEF Quiet
<1>3. Unset'
  <2>1. \A j \in Jobs : /\ rj[j].id = None => rj'[j].id = None
                        /\ rj[j].state # "unused" => rj'[j].state # "unused"
    BY DEF Quiet, Drifts, Vanishes, Made
  <2> QED BY <2>1 DEF Unset, Quiet
<1>4. First'
  <2>1. \A j \in Jobs : rj'[j].id \in {rj[j].id, None}
    BY DEF Quiet, Drifts, Vanishes
  <2>2. \A c \in Clients : call'[c].pc \in Inside => call'[c] = call[c]
    BY DEF Quiet, Inside
  <2>3. \A c \in Clients : call'[c].pc \in Inside /\ call'[c].op = "submit" => call'[c].id # None
    BY JobsAssumption DEF Asked, Inside
  <2> QED BY <2>1, <2>2, <2>3 DEF First
<1>5. Posted'
  <2>1. \A c \in Clients : call'[c].pc = "post" => call'[c] = call[c]
    BY DEF Quiet
  <2>a. \A c, d \in Clients :
          call'[c].pc = "post" /\ call'[d].pc = "post" /\ call'[d].job = call'[c].job => d = c
    BY <2>1 DEF Posted
  <2>2. \A j \in Jobs : rj[j].state # "unused" => rj'[j].state # "unused"
    BY DEF Quiet, Drifts, Vanishes, Made
  <2>3. \A j \in Jobs : rj'[j].state = "made" => Drifts(j) /\ rj[j].state = "made"
    BY DEF Quiet, Drifts, Vanishes
  <2> SUFFICES ASSUME NEW c \in Clients, call'[c].pc = "post"
               PROVE  /\ call'[c].job \in Jobs /\ rj'[call'[c].job].state # "unused"
                      /\ rj'[call'[c].job].state = "made" =>
                           /\ rj'[call'[c].job].id # None /\ rj'[call'[c].job].ray = "no"
                           /\ rj'[call'[c].job].late <=> rj'[call'[c].job].age >= 2 * Start
    BY <2>a DEF Posted, Made
  <2>4. call'[c] = call[c] /\ call[c].job \in Jobs /\ rj[call[c].job].state # "unused"
    BY <2>1 DEF Posted
  <2>5. ASSUME rj'[call[c].job].state = "made"
        PROVE  /\ rj'[call[c].job].id # None /\ rj'[call[c].job].ray = "no"
               /\ rj'[call[c].job].late <=> rj'[call[c].job].age >= 2 * Start
    <3>1. Drifts(call[c].job) /\ Made(call[c].job)  BY <2>3, <2>4, <2>5 DEF Made
    <3> QED BY <2>1, <3>1 DEF Posted, Drifts
  <2> QED BY <2>2, <2>4, <2>5
<1>6. Listed'
  <2>1. \A j \in Jobs : rj'[j].state = "made" => Drifts(j) /\ rj[j].state = "made"
    BY DEF Quiet, Drifts, Vanishes
  <2>2. \A j \in Jobs : rj'[j].state = "made" /\ Submitted(j)' => Submitted(j)
    BY <2>1 DEF Submitted, At, Drifts, Quiet
  <2>0. \A j \in reaper'.todo : rj'[j].state # "unused"
    BY ZenonT(60) DEF Quiet, Drifts, Vanishes, Listed, TypeOK, ReaperType
  <2> SUFFICES ASSUME NEW j \in reaper'.todo, rj'[j].state = "made"
               PROVE  /\ reaper'.seen[j].status = "ended" => rj'[j].status = "ended"
                      /\ reaper'.seen[j].status # "" => rj'[j].status # ""
                      /\ ~reaper'.seen[j].id /\ rj'[j].id # None /\ Submitted(j)'
                            /\ rj'[j].age >= 2 * Start
                           => rj'[j].late
    BY <2>0 DEF Listed, Made
  <2>3. j \in reaper.todo /\ reaper'.seen[j] = reaper.seen[j] /\ j \in Jobs
    BY DEF Quiet, TypeOK, ReaperType
  <2>4. Drifts(j) /\ Made(j)  BY <2>1, <2>3 DEF Made
  <2>5. Submitted(j)' => Submitted(j)  BY <2>2, <2>3
  <2>6. /\ reaper.seen[j].status = "ended" => rj[j].status = "ended"
        /\ reaper.seen[j].status # "" => rj[j].status # ""
        /\ ~reaper.seen[j].id /\ rj[j].id # None /\ Submitted(j) /\ rj[j].age >= 2 * Start
             => rj[j].late
    BY <2>3, <2>4 DEF Listed
  <2>7. /\ rj[j].status = "ended" => rj'[j].status = "ended"
        /\ rj[j].status # "" => rj'[j].status # ""
    BY <2>4 DEF Drifts
  <2> QED BY <2>3, <2>4, <2>5, <2>6, <2>7 DEF Drifts
<1>7. NoDuplicate'
  <2>1. \A j \in Jobs : rj'[j].state = "made" => Made(j) /\ rj'[j].id = rj[j].id
    BY DEF Quiet, Drifts, Vanishes, Made
  <2> QED BY <2>1 DEF NoDuplicate, Made
<1> QED BY <1>1, <1>2, <1>3, <1>4, <1>5, <1>6, <1>7

Drifting == rj' \in [Jobs -> JobType] /\ \A j \in Jobs : Drifts(j) \/ Vanishes(j)

\* RayJobs drift when nothing happens to them
LEMMA SameDrifts == ASSUME TypeOK, UNCHANGED rj PROVE Drifting
BY DEF Drifting, Drifts, TypeOK

\* ... and when one is deleted.
LEMMA DeleteDrifts == ASSUME TypeOK, NEW j \in Jobs, Delete(j) PROVE Drifting
BY UnusedType DEF Drifting, Drifts, Vanishes, Delete, TypeOK

\* One job's record is replaced by one that tells no less of it.
LEMMA PatchDrifts ==
  ASSUME TypeOK, NEW j \in Jobs, NEW r \in JobType,
         rj' = [rj EXCEPT ![j] = r], r.state = rj[j].state, r.id = rj[j].id, r.age = rj[j].age,
         r.late = rj[j].late,
         \/ r.ray = rj[j].ray /\ r.status = rj[j].status
         \/ rj[j].ray # "no" /\ r.ray = "ended" /\ r.status = rj[j].status
         \/ rj[j].ray # "no" /\ r.ray = rj[j].ray /\ rj[j].status = "" /\ r.status = "running"
         \/ rj[j].ray = "ended" /\ r.ray = "ended" /\ r.status = "ended"
  PROVE  Drifting
BY DEF Drifting, Drifts, TypeOK

\* KubeRay, Ray and the users' stops.
LEMMA OutsideDrifts ==
  ASSUME Inv, NEW j \in Jobs, Environment(j) \/ KubeRay(j) \/ Stop(j)
  PROVE  Drifting
<1>0. TypeOK /\ rj[j] \in JobType  BY DEF Inv, TypeOK
<1>1. CASE Environment(j)
  <2>1. CASE rj' = [rj EXCEPT ![j].cluster = "up"]
    <3>1. [rj[j] EXCEPT !.cluster = "up"] \in JobType  BY <1>0 DEF JobType
    <3> QED BY ZenonT(60), <1>0, <2>1, <3>1, PatchDrifts DEF JobType
  <2>2. CASE rj' = [rj EXCEPT ![j].full = TRUE]
    <3>1. [rj[j] EXCEPT !.full = TRUE] \in JobType  BY <1>0 DEF JobType
    <3> QED BY <1>0, <2>2, <3>1, PatchDrifts DEF JobType
  <2>3. CASE rj[j].ray = "running" /\ rj[j].status = "" /\ rj' = [rj EXCEPT ![j].status = "running"]
    <3>1. [rj[j] EXCEPT !.status = "running"] \in JobType  BY <1>0 DEF JobType
    <3> QED BY <1>0, <2>3, <3>1, PatchDrifts DEF JobType
  <2> QED BY <1>1, <2>1, <2>2, <2>3 DEF Environment
<1>2. CASE KubeRay(j)
  <2>1. CASE rj[j].ray = "running" /\ rj' = [rj EXCEPT ![j].ray = "ended"]
    <3>1. [rj[j] EXCEPT !.ray = "ended"] \in JobType  BY <1>0 DEF JobType
    <3> QED BY <1>0, <2>1, <3>1, PatchDrifts DEF JobType
  <2>2. CASE rj[j].ray = "ended" /\ rj' = [rj EXCEPT ![j].status = "ended"]
    <3>1. [rj[j] EXCEPT !.status = "ended"] \in JobType  BY <1>0 DEF JobType
    <3> QED BY <1>0, <2>2, <3>1, PatchDrifts DEF JobType
  <2>3. CASE rj' = [rj EXCEPT ![j].cluster = "gone", ![j].full = FALSE, ![j].suspended = FALSE]
    <3> DEFINE r == [rj[j] EXCEPT !.cluster = "gone", !.full = FALSE, !.suspended = FALSE]
    <3>1. /\ r \in JobType /\ r.state = rj[j].state /\ r.id = rj[j].id /\ r.age = rj[j].age
          /\ r.late = rj[j].late /\ r.ray = rj[j].ray /\ r.status = rj[j].status
      BY <1>0 DEF JobType
    <3>2. rj' = [rj EXCEPT ![j] = r]  BY <1>0, <2>3 DEF TypeOK
    <3> HIDE DEF r
    <3> QED BY <1>0, <3>1, <3>2, PatchDrifts
  <2>4. CASE rj' = [rj EXCEPT ![j].old = TRUE]
    <3>1. [rj[j] EXCEPT !.old = TRUE] \in JobType  BY <1>0 DEF JobType
    <3> QED BY <1>0, <2>4, <3>1, PatchDrifts DEF JobType
  <2> QED BY <1>2, <2>1, <2>2, <2>3, <2>4 DEF KubeRay
<1>3. CASE Stop(j)
  <2>1. CASE rj[j].ray = "running" /\ rj' = [rj EXCEPT ![j].ray = "ended"]
    <3>1. [rj[j] EXCEPT !.ray = "ended"] \in JobType  BY <1>0 DEF JobType
    <3> QED BY <1>0, <2>1, <3>1, PatchDrifts DEF JobType
  <2>2. CASE Delete(j)  BY <1>0, <2>2, DeleteDrifts
  <2> QED BY <1>3, <2>1, <2>2 DEF Stop
<1> QED BY <1>1, <1>2, <1>3

\* The reaper, past its listing.
LEMMA ReapDrifts ==
  ASSUME Inv, NEW j \in Jobs,
         \/ ReapLogs(j) \/ ReapDelete(j) \/ ReapStop(j) \/ ReapPass(j)
         \/ reaper.at = j /\ ReapSuspend
  PROVE  /\ Drifting /\ reaper' \in ReaperType
         /\ \A k \in reaper'.todo : k \in reaper.todo /\ reaper'.seen[k] = reaper.seen[k]
<1>0. TypeOK /\ rj[j] \in JobType /\ reaper \in ReaperType  BY DEF Inv, TypeOK
<1>r. /\ Passed(j) \in ReaperType
      /\ \A k \in Passed(j).todo : k \in reaper.todo /\ Passed(j).seen[k] = reaper.seen[k]
  BY <1>0, PassedType
<1>1. CASE ReapLogs(j)
  <2>1. reaper' = [reaper EXCEPT !.at = j]  BY <1>1 DEF ReapLogs
  <2>2. CASE UNCHANGED rj  BY <1>0, <2>1, <2>2, SameDrifts DEF ReaperType
  <2>3. CASE Patch(j, [rj[j] EXCEPT !.logs = TRUE])
    <3>1. [rj[j] EXCEPT !.logs = TRUE] \in JobType  BY <1>0 DEF JobType
    <3>2. CASE Made(j)
      <4>1. Drifting  BY <1>0, <2>3, <3>1, <3>2, PatchDrifts DEF JobType, Patch
      <4> QED BY <1>0, <2>1, <4>1 DEF ReaperType
    <3>3. CASE ~Made(j)
      <4>1. rj' = rj  BY <1>0, <2>3, <3>3 DEF Patch, TypeOK
      <4> QED BY <2>2, <4>1
    <3> QED BY <3>2, <3>3
  <2> QED BY <1>1, <2>2, <2>3 DEF ReapLogs
<1>2. CASE ReapDelete(j)
  BY <1>0, <1>2, <1>r, DeleteDrifts DEF ReapDelete
<1>3. CASE ReapStop(j)
  <2> DEFINE r == [rj[j] EXCEPT !.ray = "ended", !.logs = TRUE, !.cluster = "gone"]
  <2>1. /\ r \in JobType /\ r.state = rj[j].state /\ r.id = rj[j].id /\ r.age = rj[j].age
        /\ r.late = rj[j].late /\ r.ray = "ended" /\ r.status = rj[j].status
    BY <1>0 DEF JobType
  <2>2. Patch(j, r) /\ reaper' = Passed(j)  BY <1>3 DEF ReapStop
  <2>3. CASE Made(j)
    <3>1. j \in reaper.todo /\ reaper.seen[j].status = "running"
      BY <1>3 DEF ReapStop, Unprovisioned
    <3>2. rj[j].ray # "no"  BY <2>3, <3>1 DEF Inv, Listed, Told
    <3>3. rj' = [rj EXCEPT ![j] = r]  BY <2>2, <2>3 DEF Patch
    <3> HIDE DEF r
    <3> QED BY <1>0, <1>r, <2>1, <2>2, <3>2, <3>3, PatchDrifts
  <2>4. CASE ~Made(j)
    <3>1. rj' = rj  BY <1>0, <2>2, <2>4 DEF Patch, TypeOK
    <3> QED BY <1>0, <1>r, <2>2, <3>1, SameDrifts
  <2> QED BY <2>3, <2>4
<1>4. CASE ReapPass(j)
  BY <1>0, <1>4, <1>r, SameDrifts DEF ReapPass
<1>5. CASE reaper.at = j /\ ReapSuspend
  <2>1. Patch(j, [rj[j] EXCEPT !.suspended = Up(j)]) /\ reaper' = Passed(j)
    BY <1>5 DEF ReapSuspend
  <2>2. CASE Made(j)
    <3>1. [rj[j] EXCEPT !.suspended = Up(j)] \in JobType  BY <1>0 DEF JobType, Up, Made
    <3> QED BY <1>0, <1>r, <2>1, <2>2, <3>1, PatchDrifts DEF JobType, Patch
  <2>3. CASE ~Made(j)
    <3>1. rj' = rj  BY <1>0, <2>1, <2>3 DEF Patch, TypeOK
    <3> QED BY <1>0, <1>r, <2>1, <3>1, SameDrifts
  <2> QED BY <2>2, <2>3
<1> QED BY <1>1, <1>2, <1>3, <1>4, <1>5

-----------------------------------------------------------------------------
(* A call that takes the RayJob that waits, or that it started. *)

\* A call goes on, short of the submission itself.
LEMMA MovesKeeps ==
  ASSUME Inv, UNCHANGED <<rj, reaper>>, NEW c \in Clients, call' \in [Clients -> CallType],
         \A d \in Clients \ {c} : call'[d] = call[d], call'[c].pc # "post",
         waiting' \in WaitType, lock' \in Clients \cup {None}, Locked', Asked', Unset', First'
  PROVE  Inv'
<1> USE DEF Inv
<1>1. TypeOK'  BY DEF TypeOK
<1>2. Told' /\ NoDuplicate'  BY DEF Told, NoDuplicate, Made
<1>3. \A d \in Clients : call'[d].pc = "post" => call'[d] = call[d]  OBVIOUS
<1>4. Posted'
  <2>1. rj' = rj  OBVIOUS
  <2> HIDE DEF Inv
  <2>2. Posted  BY DEF Inv
  <2> QED BY <1>3, <2>1, <2>2 DEF Posted, Made
<1>5. Listed'
  <2>1. \A j \in Jobs : Submitted(j)' => Submitted(j)  BY <1>3 DEF Submitted, At
  <2>2. reaper.todo \subseteq Jobs  BY DEF TypeOK, ReaperType
  <2>3. rj' = rj /\ reaper' = reaper  OBVIOUS
  <2>4. Listed  OBVIOUS
  <2> HIDE DEF Inv
  <2> QED BY <2>1, <2>2, <2>3, <2>4 DEF Listed, Made
<1> QED BY <1>1, <1>2, <1>4, <1>5

\* A call takes a RayJob without an ID, under the lock if it submits.
LEMMA TakesKeeps ==
  ASSUME Inv, NEW c \in Clients, NEW w \in WaitType, w.name \in Jobs,
         rj[w.name].state # "unused", rj[w.name].id = None, UNCHANGED <<rj, reaper>>,
         call[c].pc # "idle", lock \in {None, c},
         call[c].op = "submit" => \A j \in Jobs : rj[j].id # call[c].id,
         Takes(c, w)
  PROVE  Inv'
<1>0. TypeOK /\ Locked /\ Asked /\ Unset /\ First  BY DEF Inv
<1>1. \A d \in Clients \ {c} : call[d].pc \notin Inside
  BY <1>0, JobsAssumption DEF Locked
<1>2. \/ call[c].op = "upload"
      \/ call[c].op = "submit" /\ call[c].id \in Ids
  BY <1>0 DEF Asked
<1>3. CASE call[c].op = "upload"
  <2>1. waiting' = w /\ lock' = None /\ Works(c, "upload", w.name)
    BY <1>3 DEF Takes
  <2>2. /\ call' \in [Clients -> CallType] /\ \A d \in Clients \ {c} : call'[d] = call[d]
        /\ call'[c].pc = "upload" /\ call'[c].op = call[c].op /\ call'[c].id = call[c].id
    BY <1>0, <2>1, WorksCall
  <2>3. Locked'  BY <1>1, <2>1, <2>2 DEF Locked, Inside
  <2>4. Asked'  BY <1>0, <1>3, <2>2 DEF Asked
  <2>5. Unset' /\ First'  BY <1>0, <2>1, <2>2 DEF Unset, First, Inside
  <2> QED BY <2>1, <2>2, <2>3, <2>4, <2>5, MovesKeeps
<1>4. CASE call[c].op = "submit"
  <2>1. waiting' = NoWait /\ lock' = c /\ Works(c, "patch", w.name)
    BY <1>4 DEF Takes
  <2>2. /\ call' \in [Clients -> CallType] /\ \A d \in Clients \ {c} : call'[d] = call[d]
        /\ call'[c].pc = "patch" /\ call'[c].op = call[c].op /\ call'[c].id = call[c].id
        /\ call'[c].job = w.name
    BY <1>0, <2>1, WorksCall
  <2>3. Locked'  BY <1>1, <2>1, <2>2 DEF Locked, Inside
  <2>4. Asked'  BY <1>0, <1>2, <1>4, <2>2 DEF Asked
  <2>5. Unset' /\ First'  BY <1>0, <1>4, <2>1, <2>2 DEF Unset, First, Inside
  <2> QED BY <2>1, <2>2, <2>3, <2>4, <2>5, MovesKeeps, NoWaitType
<1> QED BY <1>2, <1>3, <1>4

-----------------------------------------------------------------------------
(* The invariant. *)

\* The invariant holds at the start.
LEMMA InitInv == Init => Inv
<1> SUFFICES ASSUME Init PROVE Inv
  OBVIOUS
<1>1. TypeOK
  BY UnusedType, NoCallType, NoWaitType, AsleepType DEF Init, TypeOK
<1>2. /\ \A j \in Jobs : /\ rj[j].id = None /\ rj[j].ray = "no" /\ rj[j].status = ""
                         /\ rj[j].state = "unused"
      /\ \A c \in Clients : call[c].pc = "idle"
      /\ lock = None /\ waiting = NoWait /\ reaper.todo = {}
  BY UnusedType, NoCallType, AsleepType DEF Init, Unused
<1> QED
  BY <1>1, <1>2 DEF Inv, Locked, Asked, Told, Unset, First, Posted, Listed, NoDuplicate, Made, Inside

\* Every step keeps the invariant: one case per action.
LEMMA StepInv == Inv /\ [Next]_vars => Inv'
<1> SUFFICES ASSUME Inv, [Next]_vars PROVE Inv'
  OBVIOUS
<1>0. /\ TypeOK /\ Locked /\ Asked /\ Told /\ Unset /\ First /\ Posted /\ Listed /\ NoDuplicate
  BY DEF Inv
<1>t. /\ rj \in [Jobs -> JobType] /\ call \in [Clients -> CallType] /\ reaper \in ReaperType
      /\ waiting \in WaitType /\ lock \in Clients \cup {None}
  BY <1>0 DEF TypeOK
\* A call that returns, and lets its lock go if it holds it.
<1>q. ASSUME NEW c \in Clients, Returns(c), Drifting, UNCHANGED <<waiting, reaper>>,
             lock' = lock \/ (lock' = None /\ lock = c)
      PROVE  Inv'
  <2>1. /\ call' \in [Clients -> CallType] /\ \A d \in Clients \ {c} : call'[d] = call[d]
        /\ call'[c].pc = "idle"
    BY <1>0, <1>q, ReturnsCall
  <2>2. Quiet  BY <1>t, <1>q, <2>1 DEF Quiet, Drifting
  <2>3. Locked' /\ Asked'
    BY <1>0, <1>q, <2>1 DEF Locked, Asked, Inside
  <2>4. lock' \in Clients \cup {None}  BY <1>t, <1>q
  <2> QED BY <2>2, <2>3, <2>4, QuietKeeps
\* A step of the reaper, of KubeRay or of Ray.
<1>d. ASSUME Drifting, UNCHANGED <<waiting, lock, call>>, reaper' \in ReaperType,
             \A j \in reaper'.todo : j \in reaper.todo /\ reaper'.seen[j] = reaper.seen[j]
      PROVE  Inv'
  <2>1. Quiet  BY <1>t, <1>d DEF Quiet, Drifting
  <2>2. Locked' /\ Asked'  BY <1>0, <1>d DEF Locked, Asked
  <2> QED BY <1>t, <1>d, <2>1, <2>2, QuietKeeps
<1>1. ASSUME NEW c \in Clients, NEW op \in {"upload", "submit"}, NEW id \in Ids \cup {None},
             op = "submit" => id \in Ids, Ask(c, op, id)
      PROVE  Inv'
  <2>1. /\ call[c].pc = "idle" /\ UNCHANGED <<rj, waiting, lock, reaper, faults>>
        /\ call' = [call EXCEPT ![c] = [NoCall EXCEPT !.pc = "lock", !.op = op, !.id = id]]
    BY <1>1 DEF Ask, At
  <2> DEFINE new == [NoCall EXCEPT !.pc = "lock", !.op = op, !.id = id]
  <2>2. new \in CallType /\ new.pc = "lock" /\ new.op = op /\ new.id = id
    BY NoCallType DEF NoCall, CallType
  <2> HIDE DEF new
  <2>3. /\ call' \in [Clients -> CallType] /\ \A d \in Clients \ {c} : call'[d] = call[d]
        /\ call'[c] = new
    BY <1>t, <2>1, <2>2 DEF new
  <2>4. Quiet  BY <1>t, <1>0, <2>1, <2>2, <2>3, SameDrifts DEF Quiet, Drifting
  <2>5. Locked' /\ Asked'  BY <1>0, <1>1, <2>1, <2>2, <2>3 DEF Locked, Asked, Inside
  <2> QED BY <1>t, <2>1, <2>4, <2>5, QuietKeeps
<1>2. ASSUME NEW c \in Clients, Enter(c) PROVE Inv'
  <2>1. call[c].pc = "lock" /\ lock = None /\ UNCHANGED <<rj, reaper>>
    BY <1>2 DEF Enter, At
  <2>2. CASE call[c].op = "submit" /\ Duplicate(call[c].id)
    <3>1. Returns(c) /\ UNCHANGED <<waiting, lock>>  BY <1>2, <2>2 DEF Enter
    <3> QED BY <1>0, <1>q, <2>1, <3>1, SameDrifts
  <2>3. CASE ~(call[c].op = "submit" /\ Duplicate(call[c].id))
    <3>1. call[c].op = "submit" => \A j \in Jobs : rj[j].id # call[c].id
      <4>1. call[c].op = "submit" => call[c].id # None
        BY <1>0, <2>1, JobsAssumption DEF Asked
      <4> QED BY <1>0, <2>3, <4>1 DEF Duplicate, Told
    <3>2. CASE Fits(c, waiting)
      <4>1. Takes(c, waiting)  BY <1>2, <2>3, <3>2 DEF Enter
      <4>2. /\ waiting.name \in Jobs /\ rj[waiting.name].state # "unused"
            /\ rj[waiting.name].id = None
        BY <1>0, <3>2 DEF Fits, Unset
      <4> QED BY <1>t, <2>1, <3>1, <4>1, <4>2, TakesKeeps
    <3>3. CASE ~Fits(c, waiting)
      <4>1. waiting' = NoWait /\ lock' = c /\ Goes(c, "start")
        BY <1>2, <2>3, <3>3 DEF Enter
      <4>2. /\ call' \in [Clients -> CallType] /\ \A d \in Clients \ {c} : call'[d] = call[d]
            /\ call'[c].pc = "start" /\ call'[c].op = call[c].op /\ call'[c].id = call[c].id
        BY <1>0, <4>1, GoesCall
      <4>3. \A d \in Clients : call[d].pc \notin Inside
        BY <1>0, <2>1, JobsAssumption DEF Locked
      <4>4. Locked'  BY <4>1, <4>2, <4>3 DEF Locked, Inside
      <4>5. Asked'  BY <1>0, <2>1, <4>2 DEF Asked
      <4>6. Unset' /\ First'  BY <1>0, <2>1, <3>1, <4>1, <4>2, <4>3 DEF Unset, First, Inside
      <4> QED BY <2>1, <4>1, <4>2, <4>4, <4>5, <4>6, MovesKeeps, NoWaitType
    <3> QED BY <3>2, <3>3
  <2> QED BY <2>2, <2>3
<1>3. ASSUME NEW c \in Clients, NEW j \in Jobs, StartJob(c, j) PROVE Inv'
  <2>1. /\ call[c].pc = "start" /\ rj[j].state = "unused" /\ UNCHANGED <<waiting, lock, reaper>>
        /\ Works(c, "head", j) /\ rj' = [rj EXCEPT ![j] = [Unused EXCEPT !.state = "made"]]
    BY <1>3 DEF StartJob, At
  <2> DEFINE new == [Unused EXCEPT !.state = "made"]
  <2>2. /\ new \in JobType /\ new.state = "made" /\ new.id = None /\ new.ray = "no"
        /\ new.status = ""
    BY UnusedType DEF Unused, JobType
  <2> HIDE DEF new
  <2>3. /\ rj' \in [Jobs -> JobType] /\ \A k \in Jobs \ {j} : rj'[k] = rj[k]
        /\ rj'[j].state = "made" /\ rj'[j].id = None /\ rj'[j].ray = "no" /\ rj'[j].status = ""
    BY <1>t, <2>1, <2>2 DEF new
  <2>4. /\ call' \in [Clients -> CallType] /\ \A d \in Clients \ {c} : call'[d] = call[d]
        /\ call'[c].pc = "head" /\ call'[c].op = call[c].op /\ call'[c].id = call[c].id
        /\ call'[c].job = j
    BY <1>0, <2>1, WorksCall
  <2>5. rj[j].id = None /\ \A k \in Jobs : rj'[k].id = rj[k].id
    BY <1>0, <2>1, <2>3 DEF Told, Made
  <2>6. TypeOK'  BY <1>t, <2>1, <2>3, <2>4 DEF TypeOK
  <2>7. Locked' /\ Asked'  BY <1>0, <2>1, <2>4 DEF Locked, Asked, Inside
  <2>8. Told'  BY <1>0, <2>3 DEF Told, Made
  <2>u. \A k \in Jobs : rj[k].state # "unused" => rj'[k] = rj[k]  BY <2>1, <2>3
  <2>9. Unset'
    <3>1. waiting' = waiting  BY <2>1
    <3>2. waiting # NoWait => /\ waiting.name \in Jobs /\ rj'[waiting.name].state # "unused"
                              /\ rj'[waiting.name].id = None
      BY <1>0, <2>u DEF Unset
    <3>3. ASSUME NEW d \in Clients \ {c}, call[d].pc \in {"head", "patch"}
          PROVE  /\ call[d].job \in Jobs /\ rj'[call[d].job].state # "unused"
                 /\ rj'[call[d].job].id = None
      BY <1>0, <2>u, <3>3 DEF Unset
    <3>4. ASSUME NEW d \in Clients, call'[d].pc \in {"head", "patch"}
          PROVE  /\ call'[d].job \in Jobs /\ rj'[call'[d].job].state # "unused"
                 /\ rj'[call'[d].job].id = None
      BY ZenonT(60), <2>3, <2>4, <3>3, <3>4
    <3> QED BY <3>1, <3>2, <3>4 DEF Unset
  <2>10. First'  BY <1>0, <2>1, <2>4, <2>5 DEF First, Inside
  <2>11. \A d \in Clients : call'[d].pc = "post" => call'[d] = call[d] /\ call[d].job # j
    BY <1>0, <2>1, <2>4 DEF Posted
  <2>12. Posted'
    <3>1. ASSUME NEW d \in Clients, call'[d].pc = "post"
          PROVE  call'[d] = call[d] /\ call[d].job \in Jobs /\ rj'[call[d].job] = rj[call[d].job]
      BY <1>0, <2>u, <2>11, <3>1 DEF Posted
    <3> QED BY <1>0, <3>1 DEF Posted, Made
  <2>13. Listed'
    <3>0. \A k \in reaper.todo : k \in Jobs /\ k # j /\ rj'[k] = rj[k]
      BY ZenonT(60), <1>0, <1>t, <2>1, <2>3 DEF Listed, ReaperType
    <3> SUFFICES ASSUME NEW k \in reaper.todo, rj'[k].state = "made"
                 PROVE  /\ reaper.seen[k].status = "ended" => rj'[k].status = "ended"
                        /\ reaper.seen[k].status # "" => rj'[k].status # ""
                        /\ ~reaper.seen[k].id /\ rj'[k].id # None /\ Submitted(k)'
                             /\ rj'[k].age >= 2 * Start => rj'[k].late
      BY <1>0, <2>1, <3>0 DEF Listed, Made
    <3>2. Submitted(k)' => Submitted(k)  BY <2>4, <2>11, <3>0 DEF Submitted, At
    <3> QED BY <1>0, <3>0, <3>2 DEF Listed, Made
  <2>14. NoDuplicate'  BY ZenonT(60), <1>0, <2>3, <2>5 DEF NoDuplicate, Made
  <2> QED BY <2>6, <2>7, <2>8, <2>9, <2>10, <2>12, <2>13, <2>14 DEF Inv
<1>4. ASSUME NEW c \in Clients, StartRefused(c) PROVE Inv'
  <2>1. call[c].pc = "start" /\ UNCHANGED <<rj, waiting, reaper>> /\ Returns(c) /\ lock' = None
    BY <1>4 DEF StartRefused, At
  <2>2. lock = c  BY <1>0, <2>1 DEF Locked, Inside
  <2> QED BY <1>0, <1>q, <2>1, <2>2, SameDrifts
<1>5. ASSUME NEW c \in Clients, HeadUp(c) PROVE Inv'
  <2> DEFINE w == [name |-> call[c].job, shape |-> ShapeOf[c], age |-> 0]
  <2>1. call[c].pc = "head" /\ UNCHANGED <<rj, reaper>> /\ Takes(c, w)
    BY <1>5 DEF HeadUp, At
  <2>2. /\ lock = c /\ call[c].job \in Jobs /\ rj[call[c].job].state # "unused"
        /\ rj[call[c].job].id = None
        /\ call[c].op = "submit" => \A j \in Jobs : rj[j].id # call[c].id
    BY <1>0, <2>1 DEF Locked, Unset, First, Inside
  <2>3. w \in WaitType /\ w.name = call[c].job  BY <2>2 DEF WaitType
  <2> HIDE DEF w
  <2> QED BY <2>1, <2>2, <2>3, TakesKeeps
<1>6. ASSUME NEW c \in Clients, HeadFails(c) PROVE Inv'
  <2>1. /\ call[c].pc = "head" /\ UNCHANGED <<waiting, reaper>> /\ Returns(c) /\ lock' = None
        /\ Delete(call[c].job)
    BY <1>6 DEF HeadFails, At
  <2>2. lock = c /\ call[c].job \in Jobs  BY <1>0, <2>1 DEF Locked, Unset, Inside
  <2> QED BY <1>0, <1>q, <2>1, <2>2, DeleteDrifts
<1>7. ASSUME NEW c \in Clients, PatchId(c) PROVE Inv'
  <2> DEFINE k == call[c].job
             late == rj[k].age >= 2 * Start
             new == [rj[k] EXCEPT !.id = call[c].id, !.late = late]
  <2>1. /\ call[c].pc = "patch" /\ Made(k) /\ UNCHANGED <<waiting, reaper>>
        /\ Goes(c, "post") /\ lock' = None
        /\ rj' = [rj EXCEPT ![k].id = call[c].id, ![k].late = rj[k].age >= 2 * Start]
    BY <1>7 DEF PatchId, At
  <2>2. /\ k \in Jobs /\ rj[k].state # "unused" /\ rj[k].id = None /\ lock = c
        /\ call[c].op = "submit" /\ call[c].id \in Ids /\ call[c].id # None
        /\ \A j \in Jobs : rj[j].id # call[c].id
    BY <1>0, <2>1, JobsAssumption DEF Unset, Locked, First, Asked, Inside
  <2>3. rj[k] \in JobType  BY <1>t, <2>2
  <2>l. late \in BOOLEAN  OBVIOUS
  <2>4. /\ new \in JobType /\ new.state = rj[k].state /\ new.id = call[c].id
        /\ new.late = late /\ new.age = rj[k].age
        /\ new.ray = rj[k].ray /\ new.status = rj[k].status
    <3> HIDE DEF late
    <3> QED BY <2>2, <2>3, <2>l DEF JobType
  <2>5. rj' = [rj EXCEPT ![k] = new]  BY <1>t, <2>1, <2>2
  <2>c. /\ call' \in [Clients -> CallType] /\ \A d \in Clients \ {c} : call'[d] = call[d]
        /\ call'[c].pc = "post" /\ call'[c].op = call[c].op /\ call'[c].id = call[c].id
        /\ call'[c].job = k
    BY <1>0, <2>1, GoesCall
  <2> HIDE DEF new, k
  <2>6. /\ rj' \in [Jobs -> JobType] /\ \A j \in Jobs \ {k} : rj'[j] = rj[j]
        /\ rj'[k] = new
    BY <1>t, <2>2, <2>4, <2>5
  <2>7. \A d \in Clients \ {c} : call'[d].pc \notin Inside
    BY <1>0, <2>2, <2>c DEF Locked
  <2>8. rj[k].ray = "no" /\ rj[k].status = ""  BY <1>0, <2>2 DEF Told
  <2>9. TypeOK'  BY <1>t, <2>1, <2>6, <2>c DEF TypeOK
  <2>10. Locked'  BY <2>1, <2>7, <2>c DEF Locked, Inside
  <2>11. Asked'  BY <1>0, <2>2, <2>c DEF Asked
  <2>12. Told'  BY <1>0, <2>1, <2>2, <2>4, <2>6, <2>8 DEF Told, Made
  <2>13. waiting = NoWait /\ waiting' = NoWait
    BY <1>0, <2>1, <2>2, JobsAssumption DEF Locked
  <2>14. Unset' /\ First'  BY <2>7, <2>c, <2>13 DEF Unset, First, Inside
  <2>15. \A d \in Clients \ {c} : call[d].pc = "post" => call[d].job # k
    BY <1>0, <2>1, <2>2 DEF Posted
  <2>16. Posted'
    <3>1. /\ call'[c].job \in Jobs /\ rj'[call'[c].job].state # "unused"
          /\ rj'[call'[c].job].id # None /\ rj'[call'[c].job].ray = "no"
          /\ rj'[call'[c].job].late <=> rj'[call'[c].job].age >= 2 * Start
      BY <2>2, <2>4, <2>6, <2>8, <2>c
    <3>2. ASSUME NEW d \in Clients \ {c}, call'[d].pc = "post"
          PROVE  call'[d] = call[d] /\ call[d].job \in Jobs /\ rj'[call[d].job] = rj[call[d].job]
      BY <1>0, <2>6, <2>15, <2>c, <3>2 DEF Posted
    <3>3. \A e, d \in Clients :
            call'[e].pc = "post" /\ call'[d].pc = "post" /\ call'[d].job = call'[e].job => d = e
      BY <1>0, <2>15, <2>c DEF Posted
    <3> QED BY <1>0, <3>1, <3>2, <3>3 DEF Posted, Made
  <2>17. Listed'
    <3>0. reaper' = reaper /\ \A j \in reaper.todo : j \in Jobs  BY <1>t, <2>1 DEF ReaperType
    <3>1. ASSUME NEW j \in reaper.todo, j # k
          PROVE  rj'[j] = rj[j] /\ (Submitted(j)' => Submitted(j))
      BY <2>6, <2>c, <3>0, <3>1 DEF Submitted, At
    <3>2. \A j \in reaper.todo : j # k =>
             /\ rj'[j].state # "unused"
             /\ rj'[j].state = "made" =>
                  /\ reaper.seen[j].status = "ended" => rj'[j].status = "ended"
                  /\ reaper.seen[j].status # "" => rj'[j].status # ""
                  /\ ~reaper.seen[j].id /\ rj'[j].id # None /\ Submitted(j)'
                       /\ rj'[j].age >= 2 * Start => rj'[j].late
      BY <1>0, <3>1 DEF Listed, Made
    <3>3. k \in reaper.todo =>
             /\ rj'[k].state # "unused"
             /\ reaper.seen[k].status = "ended" => rj'[k].status = "ended"
             /\ reaper.seen[k].status # "" => rj'[k].status # ""
             /\ rj'[k].age >= 2 * Start => rj'[k].late
      BY <1>0, <2>1, <2>2, <2>4, <2>6 DEF Listed
    <3> QED BY <3>0, <3>2, <3>3 DEF Listed, Made
  <2>18. NoDuplicate'  BY <1>0, <2>2, <2>4, <2>6 DEF NoDuplicate, Made
  <2> QED BY <2>9, <2>10, <2>11, <2>12, <2>14, <2>16, <2>17, <2>18 DEF Inv
<1>8. ASSUME NEW c \in Clients, PatchFails(c) PROVE Inv'
  <2> DEFINE k == call[c].job
             new == [rj[k] EXCEPT !.id = call[c].id]
  <2>1. /\ call[c].pc = "patch" /\ UNCHANGED <<waiting, reaper>> /\ Returns(c) /\ lock' = None
        /\ Delete(k) \/ Patch(k, new) \/ UNCHANGED rj
    BY <1>8 DEF PatchFails, At
  <2>2. /\ k \in Jobs /\ rj[k].state # "unused" /\ rj[k].id = None /\ lock = c
        /\ call[c].id \in Ids /\ call[c].id # None
        /\ \A j \in Jobs : rj[j].id # call[c].id
    BY <1>0, <2>1, JobsAssumption DEF Unset, Locked, First, Asked, Inside
  <2>3. CASE Delete(k)  BY <1>0, <1>q, <2>1, <2>2, <2>3, DeleteDrifts
  <2>4. CASE UNCHANGED rj  BY <1>0, <1>q, <2>1, <2>2, <2>4, SameDrifts
  <2>5. CASE Patch(k, new) /\ ~Made(k)
    <3>1. rj' = rj  BY <1>t, <2>2, <2>5 DEF Patch
    <3> QED BY <2>4, <3>1
  <2>6. CASE Patch(k, new) /\ Made(k)
    <3>1. rj[k] \in JobType  BY <1>t, <2>2
    <3>2. /\ new \in JobType /\ new.state = rj[k].state /\ new.id = call[c].id
          /\ new.ray = rj[k].ray /\ new.status = rj[k].status
      BY <2>2, <3>1 DEF JobType
    <3>3. rj' = [rj EXCEPT ![k] = new]  BY <2>6 DEF Patch
    <3> HIDE DEF new, k
    <3>4. /\ rj' \in [Jobs -> JobType] /\ \A j \in Jobs \ {k} : rj'[j] = rj[j]
          /\ rj'[k] = new
      BY <1>t, <2>2, <3>2, <3>3
    <3>c. /\ call' \in [Clients -> CallType] /\ \A d \in Clients \ {c} : call'[d] = call[d]
          /\ call'[c].pc = "idle"
      BY <1>0, <2>1, ReturnsCall
    <3>5. \A d \in Clients : call'[d].pc \notin Inside
      BY <1>0, <2>2, <3>c DEF Locked, Inside
    <3>6. rj[k].ray = "no" /\ rj[k].status = ""  BY <1>0, <2>2 DEF Told
    <3>7. TypeOK'  BY <1>t, <2>1, <3>4, <3>c DEF TypeOK
    <3>8. Locked'  BY <2>1, <3>5 DEF Locked
    <3>9. Asked'  BY <1>0, <3>c DEF Asked
    <3>10. Told'  BY <1>0, <2>2, <2>6, <3>2, <3>4, <3>6 DEF Told, Made
    <3>11. waiting = NoWait /\ waiting' = NoWait
      BY <1>0, <2>1, <2>2, JobsAssumption DEF Locked
    <3>12. Unset' /\ First'  BY <3>5, <3>11 DEF Unset, First, Inside
    <3>13. ASSUME NEW d \in Clients, call'[d].pc = "post"
           PROVE  /\ d # c /\ call'[d] = call[d] /\ call[d].job \in Jobs /\ call[d].job # k
                  /\ rj'[call[d].job] = rj[call[d].job]
      BY <1>0, <2>2, <2>6, <3>4, <3>c, <3>13 DEF Posted
    <3>14. Posted'  BY <1>0, <3>13 DEF Posted, Made
    <3>15. Listed'
      <4>0. reaper' = reaper /\ \A j \in reaper.todo : j \in Jobs  BY <1>t, <2>1 DEF ReaperType
      <4>1. ASSUME NEW j \in reaper.todo, j # k
            PROVE  rj'[j] = rj[j] /\ (Submitted(j)' => Submitted(j))
        BY <3>4, <3>c, <4>0, <4>1 DEF Submitted, At
      <4>2. \A j \in reaper.todo : j # k =>
               /\ rj'[j].state # "unused"
               /\ rj'[j].state = "made" =>
                    /\ reaper.seen[j].status = "ended" => rj'[j].status = "ended"
                    /\ reaper.seen[j].status # "" => rj'[j].status # ""
                    /\ ~reaper.seen[j].id /\ rj'[j].id # None /\ Submitted(j)'
                         /\ rj'[j].age >= 2 * Start => rj'[j].late
        BY <1>0, <4>1 DEF Listed, Made
      <4>3. \A j \in reaper.todo : j = k => ~Submitted(j)'
        BY <3>2, <3>4, <3>6, <3>13 DEF Submitted, At
      <4>4. k \in reaper.todo =>
               /\ rj'[k].state # "unused"
               /\ reaper.seen[k].status = "ended" => rj'[k].status = "ended"
               /\ reaper.seen[k].status # "" => rj'[k].status # ""
        BY <1>0, <2>2, <2>6, <3>2, <3>4 DEF Listed
      <4> QED BY <4>0, <4>2, <4>3, <4>4 DEF Listed, Made
    <3>16. NoDuplicate'  BY <1>0, <2>2, <3>2, <3>4 DEF NoDuplicate, Made
    <3> QED BY <3>7, <3>8, <3>9, <3>10, <3>12, <3>14, <3>15, <3>16 DEF Inv
  <2> QED BY <2>1, <2>3, <2>4, <2>5, <2>6
<1>9. ASSUME NEW c \in Clients, Relay(c) PROVE Inv'
  <2> DEFINE k == call[c].job
             new == [rj[k] EXCEPT !.ray = "running"]
  <2>1. /\ Returns(c) /\ UNCHANGED <<waiting, lock, reaper>>
        /\ \/ call[c].pc = "post" /\ Up(k) /\ rj' = [rj EXCEPT ![k] = new]
           \/ UNCHANGED rj
    BY <1>9 DEF Relay, At
  <2>2. CASE UNCHANGED rj  BY <1>0, <1>q, <2>1, <2>2, SameDrifts
  <2>3. CASE call[c].pc = "post" /\ Up(k) /\ rj' = [rj EXCEPT ![k] = new]
    <3>1. /\ k \in Jobs /\ Made(k) /\ rj[k].id # None /\ rj[k].ray = "no"
          /\ rj[k].late <=> rj[k].age >= 2 * Start
      BY <1>0, <2>3 DEF Posted, Up
    <3>2. /\ new \in JobType /\ new.state = rj[k].state /\ new.id = rj[k].id
          /\ new.ray = "running" /\ new.status = rj[k].status /\ new.age = rj[k].age
          /\ new.late = rj[k].late
      <4>1. rj[k] \in JobType  BY <1>t, <3>1
      <4> QED BY <4>1 DEF JobType
    <3> HIDE DEF new, k
    <3>4. /\ rj' \in [Jobs -> JobType] /\ \A j \in Jobs \ {k} : rj'[j] = rj[j]
          /\ rj'[k] = new /\ \A j \in Jobs : rj'[j].id = rj[j].id /\ rj'[j].state = rj[j].state
      BY <1>t, <2>3, <3>1, <3>2
    <3>c. /\ call' \in [Clients -> CallType] /\ \A d \in Clients \ {c} : call'[d] = call[d]
          /\ call'[c].pc = "idle"
      BY <1>0, <2>1, ReturnsCall
    <3>5. TypeOK'  BY <1>t, <2>1, <3>4, <3>c DEF TypeOK
    <3>6. Locked' /\ Asked'  BY <1>0, <2>1, <3>c DEF Locked, Asked, Inside
    <3>s. rj[k].status = ""  BY <1>0, <3>1 DEF Told
    <3>7. Told'
      <4>1. /\ rj'[k].state = "made" /\ rj'[k].id # None /\ rj'[k].ray = "running"
            /\ rj'[k].status = ""
        BY <3>1, <3>2, <3>4, <3>s DEF Made
      <4> QED BY <1>0, <3>4, <4>1 DEF Told, Made
    <3>8. First'  BY <1>0, <3>4, <3>c DEF First, Inside
    <3>9. Unset'  BY <1>0, <2>1, <3>4, <3>c DEF Unset
    <3>13. ASSUME NEW d \in Clients, call'[d].pc = "post"
           PROVE  /\ d # c /\ call'[d] = call[d] /\ call[d].job \in Jobs /\ call[d].job # k
                  /\ rj'[call[d].job] = rj[call[d].job]
      <4>1. d # c /\ call'[d] = call[d] /\ call[d].job \in Jobs /\ call[d].job # k
        BY <1>0, <2>3, <3>c, <3>13 DEF Posted, k
      <4> QED BY <3>4, <4>1
    <3>14. Posted'  BY <1>0, <3>13 DEF Posted, Made
    <3>15. Listed'
      <4>0. reaper' = reaper /\ \A j \in reaper.todo : j \in Jobs  BY <1>t, <2>1 DEF ReaperType
      <4>1. ASSUME NEW j \in reaper.todo, j # k
            PROVE  rj'[j] = rj[j] /\ (Submitted(j)' => Submitted(j))
        BY <3>4, <3>c, <4>0, <4>1 DEF Submitted, At
      <4>2. \A j \in reaper.todo : j # k =>
               /\ rj'[j].state # "unused"
               /\ rj'[j].state = "made" =>
                    /\ reaper.seen[j].status = "ended" => rj'[j].status = "ended"
                    /\ reaper.seen[j].status # "" => rj'[j].status # ""
                    /\ ~reaper.seen[j].id /\ rj'[j].id # None /\ Submitted(j)'
                         /\ rj'[j].age >= 2 * Start => rj'[j].late
        BY <1>0, <4>1 DEF Listed, Made
      <4>4. k \in reaper.todo =>
               /\ rj'[k].state # "unused"
               /\ reaper.seen[k].status = "ended" => rj'[k].status = "ended"
               /\ reaper.seen[k].status # "" => rj'[k].status # ""
               /\ rj'[k].age >= 2 * Start => rj'[k].late
        BY <1>0, <3>1, <3>2, <3>4 DEF Listed
      <4> QED BY <4>0, <4>2, <4>4 DEF Listed, Made
    <3>16. NoDuplicate'  BY <1>0, <3>4 DEF NoDuplicate, Made
    <3> QED BY <3>5, <3>6, <3>7, <3>8, <3>9, <3>14, <3>15, <3>16 DEF Inv
  <2> QED BY <2>1, <2>2, <2>3
<1>10. ASSUME NEW j \in Jobs, Stop(j) \/ Environment(j) \/ KubeRay(j) PROVE Inv'
  <2>1. UNCHANGED <<waiting, lock, call, reaper>>  BY <1>10 DEF Stop, Environment, KubeRay
  <2> QED BY <1>0, <1>t, <1>10, <1>d, <2>1, OutsideDrifts
<1>11. ASSUME NEW j \in Jobs,
              \/ ReapLogs(j) \/ ReapDelete(j) \/ ReapStop(j) \/ ReapPass(j)
              \/ reaper.at = j /\ ReapSuspend
       PROVE  Inv'
  <2>1. UNCHANGED <<waiting, lock, call>>
    BY <1>11 DEF ReapLogs, ReapDelete, ReapStop, ReapPass, ReapSuspend
  <2> QED BY <1>11, <1>d, <2>1, ReapDrifts
<1>12. CASE ReapSuspend
  <2>1. reaper.at \in Jobs  BY <1>t, <1>12 DEF ReapSuspend, ReaperType
  <2> QED BY <1>11, <1>12, <2>1
<1>13. CASE ReapList
  <2> DEFINE seen == [j \in Jobs |-> Seen(rj[j])]
             waited == IF waiting.age < Start THEN {waiting.name} ELSE {}
  <2>1. /\ UNCHANGED <<rj, waiting, lock, call>>
        /\ reaper' = [todo |-> {j \in Jobs : Made(j)}, at |-> None, seen |-> seen,
                      waited |-> waited]
    BY <1>13 DEF ReapList
  <2>2. seen \in [Jobs -> SeenType] /\ waited \in SUBSET (Jobs \cup {None})
    BY <1>t, SeenIs DEF WaitType
  <2>3. \A j \in Jobs : seen[j].status = rj[j].status /\ (seen[j].id <=> rj[j].id # None)
    BY <1>t, SeenIs
  <2> HIDE DEF seen, waited
  <2>4. /\ reaper' \in ReaperType /\ reaper'.seen = seen
        /\ reaper'.todo = {j \in Jobs : Made(j)}
    BY <2>1, <2>2 DEF ReaperType
  <2>5. TypeOK'  BY <1>t, <2>1, <2>4 DEF TypeOK
  <2>6. Locked' /\ Asked' /\ Told' /\ Unset' /\ First'
    BY <1>0, <2>1 DEF Locked, Asked, Told, Unset, First, Made
  <2>7. Posted' /\ NoDuplicate'
    BY <1>0, <2>1 DEF Posted, NoDuplicate, Made
  <2>8. Listed'  BY <2>1, <2>3, <2>4 DEF Listed, Made
  <2> QED BY <2>5, <2>6, <2>7, <2>8 DEF Inv
<1>14. CASE Tick
  <2>1. /\ \A c \in Clients : call[c].pc \in {"idle", "lock", "head"}
        /\ reaper = Asleep /\ UNCHANGED <<lock, reaper>>
        /\ rj' = [j \in Jobs |-> IF Made(j) /\ rj[j].age < 2 * Start
                                 THEN [rj[j] EXCEPT !.age = @ + 1] ELSE rj[j]]
        /\ waiting' = IF waiting # NoWait /\ waiting.age <= Start
                      THEN [waiting EXCEPT !.age = @ + 1] ELSE waiting
        /\ call' = [c \in Clients |-> IF At(c, "head")
                      THEN [call[c] EXCEPT !.age = @ + 1] ELSE call[c]]
    BY <1>14 DEF Tick
  <2>2. ASSUME NEW j \in Jobs
        PROVE  /\ rj'[j] \in JobType /\ rj'[j].state = rj[j].state /\ rj'[j].id = rj[j].id
               /\ rj'[j].ray = rj[j].ray /\ rj'[j].status = rj[j].status
    <3>1. rj[j] \in JobType  BY <1>t
    <3>a. rj[j].age \in Nat  BY <3>1 DEF JobType
    <3>2. /\ [rj[j] EXCEPT !.age = @ + 1] \in JobType
          /\ [rj[j] EXCEPT !.age = @ + 1].state = rj[j].state
          /\ [rj[j] EXCEPT !.age = @ + 1].id = rj[j].id
          /\ [rj[j] EXCEPT !.age = @ + 1].ray = rj[j].ray
          /\ [rj[j] EXCEPT !.age = @ + 1].status = rj[j].status
      <4> DEFINE n == rj[j].age + 1
      <4>1. n \in Nat  BY <3>a
      <4>2. [rj[j] EXCEPT !.age = @ + 1] = [rj[j] EXCEPT !.age = n]  OBVIOUS
      <4> HIDE DEF n
      <4> QED BY <3>1, <4>1, <4>2 DEF JobType
    <3> QED BY <2>1, <3>1, <3>2
  <2>3. ASSUME NEW c \in Clients
        PROVE  /\ call'[c] \in CallType /\ call'[c].pc = call[c].pc /\ call'[c].op = call[c].op
               /\ call'[c].id = call[c].id /\ call'[c].job = call[c].job
    <3>1. call[c] \in CallType  BY <1>t
    <3>2. /\ [call[c] EXCEPT !.age = @ + 1] \in CallType
          /\ [call[c] EXCEPT !.age = @ + 1].pc = call[c].pc
          /\ [call[c] EXCEPT !.age = @ + 1].op = call[c].op
          /\ [call[c] EXCEPT !.age = @ + 1].id = call[c].id
          /\ [call[c] EXCEPT !.age = @ + 1].job = call[c].job
      BY <3>1 DEF CallType
    <3> QED BY <2>1, <3>1, <3>2
  <2>4. /\ waiting' \in WaitType /\ waiting'.name = waiting.name
        /\ waiting' # NoWait => waiting # NoWait
    BY <1>t, <2>1 DEF WaitType
  <2>5. rj' \in [Jobs -> JobType] /\ call' \in [Clients -> CallType]
    BY <2>1, <2>2, <2>3
  <2>6. TypeOK'  BY <1>t, <2>1, <2>4, <2>5 DEF TypeOK
  <2>7. Locked' /\ Asked'  BY <1>0, <2>1, <2>3, <2>4 DEF Locked, Asked
  <2>t. Told'
    <3> SUFFICES ASSUME NEW j \in Jobs
                 PROVE  /\ rj'[j].state # "made" => rj'[j].id = None /\ rj'[j].ray = "no"
                        /\ rj'[j].ray # "no" => rj'[j].id # None
                        /\ rj'[j].status # "" => rj'[j].ray # "no"
                        /\ rj'[j].status = "ended" => rj'[j].ray = "ended"
      BY DEF Told, Made
    <3>1. /\ rj'[j].state = rj[j].state /\ rj'[j].id = rj[j].id
          /\ rj'[j].ray = rj[j].ray /\ rj'[j].status = rj[j].status
      BY <2>2
    <3>2. /\ rj[j].state # "made" => rj[j].id = None /\ rj[j].ray = "no"
          /\ rj[j].ray # "no" => rj[j].id # None
          /\ rj[j].status # "" => rj[j].ray # "no"
          /\ rj[j].status = "ended" => rj[j].ray = "ended"
      BY <1>0 DEF Told, Made
    <3> QED BY <3>1, <3>2
  <2>8. NoDuplicate'  BY <1>0, <2>2 DEF NoDuplicate, Made
  <2>9. Unset'
    <3>1. waiting' # NoWait => /\ waiting'.name \in Jobs
                               /\ rj'[waiting'.name].state # "unused"
                               /\ rj'[waiting'.name].id = None
      BY <1>0, <2>2, <2>4 DEF Unset
    <3>2. \A c \in Clients : call'[c].pc \in {"head", "patch"} =>
            /\ call'[c].job \in Jobs
            /\ rj'[call'[c].job].state # "unused" /\ rj'[call'[c].job].id = None
      BY <1>0, <2>2, <2>3 DEF Unset
    <3> QED BY <3>1, <3>2 DEF Unset
  <2>10. First'  BY <1>0, <2>2, <2>3 DEF First
  <2>11. Posted'  BY <2>1, <2>3 DEF Posted
  <2>12. Listed'  BY <2>1, AsleepType DEF Listed
  <2> QED BY <2>6, <2>7, <2>t, <2>8, <2>9, <2>10, <2>11, <2>12 DEF Inv
<1>15. CASE Restart
  <2>1. /\ waiting' = NoWait /\ lock' = None /\ reaper' = Asleep /\ UNCHANGED rj
        /\ call' = [c \in Clients |-> NoCall]
    BY <1>15 DEF Restart
  <2>2. Quiet  BY <1>0, <2>1, SameDrifts, AsleepType, NoCallType DEF Quiet, Drifting
  <2>3. Locked' /\ Asked'  BY <2>1, NoCallType DEF Locked, Asked, Inside
  <2> QED BY <2>1, <2>2, <2>3, QuietKeeps
<1>16. CASE UNCHANGED vars
  BY <1>0, <1>t, <1>16, <1>d, SameDrifts DEF vars
<1>17. ASSUME NEW c \in Clients, NEW id \in IdsOf[c], Ask(c, "submit", id) PROVE Inv'
  BY <1>1, <1>17, IdsAssumption
<1>18. ASSUME NEW c \in Clients, Ask(c, "upload", None) PROVE Inv'
  BY <1>1, <1>18
<1> QED
  BY <1>2, <1>3, <1>4, <1>5, <1>6, <1>7, <1>8, <1>9, <1>10, <1>11, <1>12, <1>13, <1>14, <1>15, <1>16,
     <1>17, <1>18 DEF Next, CallStep, Reap

\* ... and so it always holds.
LEMMA InvHolds == Spec => []Inv
BY InitInv, StepInv, PTL DEF Spec

\* Whatever calls of the user run at once, are refused, fail half-way or are lost with a
\* restart, no two RayJobs carry one submission ID: submitted_before is asked, and the
\* jobId set, under one hold of Gateway.submitting.
THEOREM SubmittedOnce == Spec => []NoDuplicate
<1>1. Inv => NoDuplicate  BY DEF Inv
<1> QED BY <1>1, InvHolds, PTL

-----------------------------------------------------------------------------
(* What is removed. *)

\* A record that is deleted was made, and only one is.
LEMMA DeleteOne ==
  ASSUME TypeOK, NEW k \in Jobs, Delete(k), NEW j \in Jobs, Made(j), rj'[j].state = "deleted"
  PROVE  j = k
BY DEF Delete, TypeOK, Made

\* A RayJob with a job that goes was given up when its jobId was set.
LEMMA StepKeepsRunning ==
  ASSUME Inv, [Next]_vars, NEW j \in Jobs, Up(j), rj[j].id # None, rj'[j].state = "deleted",
         Submitted(j)
  PROVE  rj[j].late
<1>0. /\ TypeOK /\ Told /\ Unset /\ Posted /\ Listed /\ rj[j] \in JobType
      /\ rj \in [Jobs -> JobType] /\ Made(j)
  BY DEF Inv, TypeOK, Up
<1>1. rj' # rj  BY <1>0 DEF Made
<1>2. rj[j].status # "ended"
  <2>1. rj[j].ray # "ended"
    BY <1>0 DEF Submitted, At, Posted
  <2> QED BY <1>0, <2>1 DEF Told
\* The calls, the users' stops and the reaper are the only ones to delete a RayJob.
<1>3. \/ \E c \in Clients : HeadFails(c) \/ PatchFails(c)
      \/ \E k \in Jobs : (Stop(k) /\ Delete(k)) \/ ReapDelete(k)
  <2>1. ASSUME NEW c \in Clients, NEW k \in Jobs, StartJob(c, k) PROVE FALSE
    BY <1>0, <2>1 DEF StartJob, Made
  <2>2. ASSUME NEW k \in Jobs, NEW r, r.state = rj[k].state,
               rj' = [rj EXCEPT ![k] = r] \/ Patch(k, r)
        PROVE  FALSE
    BY <1>0, <2>2 DEF Patch, Made
  <2>3. ASSUME NEW c \in Clients, PatchId(c) \/ Relay(c) PROVE FALSE
    <3> DEFINE k == call[c].job
    <3>1. CASE PatchId(c)
      <4>1. rj' = [rj EXCEPT ![k].id = call[c].id, ![k].late = rj[k].age >= 2 * Start] /\ k \in Jobs
        BY <1>0, <3>1 DEF PatchId, Unset, At
      <4> DEFINE late == rj[k].age >= 2 * Start
                 r == [rj[k] EXCEPT !.id = call[c].id, !.late = late]
      <4>2. rj[k] \in JobType  BY <1>0, <4>1
      <4> HIDE DEF k
      <4>3. rj' = [rj EXCEPT ![k] = r]  BY <1>0, <4>1
      <4>4. r.state = rj[k].state
        <5> HIDE DEF late
        <5> QED BY <4>2 DEF JobType
      <4> HIDE DEF r
      <4> QED BY <2>2, <4>1, <4>3, <4>4
    <3>2. CASE Relay(c)
      <4>1. rj' = [rj EXCEPT ![k].ray = "running"] /\ k \in Jobs
        BY <1>0, <1>1, <3>2 DEF Relay, Posted, At
      <4>2. rj[k] \in JobType  BY <1>0, <4>1
      <4> DEFINE r == [rj[k] EXCEPT !.ray = "running"]
      <4>3. rj' = [rj EXCEPT ![k] = r] /\ r.state = rj[k].state  BY <4>1, <4>2 DEF JobType
      <4> HIDE DEF k, r
      <4> QED BY <2>2, <4>1, <4>3
    <3> QED BY <2>3, <3>1, <3>2
  <2>4. ASSUME NEW k \in Jobs, ReapLogs(k) \/ ReapStop(k) \/ (reaper.at = k /\ ReapSuspend)
        PROVE  FALSE
    <3>1. rj[k] \in JobType  BY <1>0
    <3>2. CASE ReapLogs(k)
      BY <1>1, <2>2, <3>1, <3>2 DEF ReapLogs, JobType
    <3>3. CASE ReapStop(k)
      BY <2>2, <3>1, <3>3 DEF ReapStop, JobType
    <3>4. CASE reaper.at = k /\ ReapSuspend
      BY <2>2, <3>1, <3>4 DEF ReapSuspend, JobType
    <3> QED BY <2>4, <3>2, <3>3, <3>4
  <2>5. ASSUME ReapSuspend PROVE FALSE
    <3>1. reaper.at \in Jobs  BY <1>0, <2>5 DEF ReapSuspend, TypeOK, ReaperType
    <3> QED BY <2>4, <2>5, <3>1
  <2>6. ASSUME NEW k \in Jobs, Environment(k) PROVE FALSE
    <3>1. rj[k] \in JobType  BY <1>0
    <3> QED BY <2>2, <2>6, <3>1 DEF Environment, JobType
  <2>7. ASSUME NEW k \in Jobs, KubeRay(k) PROVE FALSE
    <3>1. rj[k] \in JobType  BY <1>0
    <3>2. CASE rj' = [rj EXCEPT ![k].cluster = "gone", ![k].full = FALSE, ![k].suspended = FALSE]
      <4> DEFINE r == [rj[k] EXCEPT !.cluster = "gone", !.full = FALSE, !.suspended = FALSE]
      <4>1. rj' = [rj EXCEPT ![k] = r] /\ r.state = rj[k].state  BY <1>0, <3>1, <3>2 DEF JobType
      <4> HIDE DEF r
      <4> QED BY <2>2, <4>1
    <3> QED BY <2>2, <2>7, <3>1, <3>2 DEF KubeRay, JobType
  <2>8. ASSUME NEW k \in Jobs, Stop(k), ~Delete(k) PROVE FALSE
    <3>1. rj[k] \in JobType  BY <1>0
    <3> QED BY ZenonT(60), <1>0, <2>8, <3>1 DEF Stop, JobType, Made
  <2>9. ASSUME Tick PROVE FALSE
    <3>1. rj'[j] = rj[j] \/ rj'[j] = [rj[j] EXCEPT !.age = @ + 1]  BY <2>9 DEF Tick
    <3> QED BY <1>0, <3>1 DEF JobType, Made
  <2>10. ASSUME NEW c \in Clients,
                \/ Enter(c) \/ StartRefused(c) \/ HeadUp(c) \/ Ask(c, "upload", None)
                \/ \E id \in IdsOf[c] : Ask(c, "submit", id)
         PROVE  FALSE
    BY <1>1, <2>10 DEF Enter, StartRefused, HeadUp, Ask
  <2>11. ASSUME NEW k \in Jobs, ReapPass(k) PROVE FALSE
    BY <1>1, <2>11 DEF ReapPass
  <2>12. ASSUME ReapList \/ Restart \/ UNCHANGED vars PROVE FALSE
    BY <1>1, <2>12 DEF ReapList, Restart, vars
  <2> QED
    BY <2>1, <2>3, <2>4, <2>5, <2>6, <2>7, <2>8, <2>9, <2>10, <2>11, <2>12 DEF Next, CallStep, Reap
<1>4. ASSUME NEW c \in Clients, HeadFails(c) \/ PatchFails(c) PROVE FALSE
  <2>1. call[c].pc \in {"head", "patch"}  BY <1>4 DEF HeadFails, PatchFails, At
  <2>2. call[c].job \in Jobs /\ rj[call[c].job].id = None /\ j # call[c].job
    BY <1>0, <2>1 DEF Unset
  <2>3. rj'[j] = rj[j]
    BY <1>0, <1>4, <2>2 DEF HeadFails, PatchFails, Delete, Patch
  <2> QED BY <1>0, <2>3 DEF Made
<1>5. ASSUME NEW k \in Jobs, Stop(k), Delete(k) PROVE FALSE
  <2>1. k = j  BY <1>0, <1>5, DeleteOne
  <2>2. CASE rj' = [rj EXCEPT ![j].ray = "ended"]
    BY <1>0, <2>2 DEF Made, JobType
  <2> QED BY <1>2, <1>5, <2>1, <2>2 DEF Stop, Live, Up
<1>6. ASSUME NEW k \in Jobs, ReapDelete(k) PROVE rj[j].late
  <2>1. k = j  BY <1>0, <1>6, DeleteOne DEF ReapDelete
  <2>2. j \in reaper.todo /\ (Abandoned(j) \/ Outlived(j))  BY <1>6, <2>1 DEF ReapDelete
  <2>3. CASE Abandoned(j)
    <3>1. rj[j].age >= 2 * Start  BY <2>3 DEF Abandoned
    <3>2. CASE ~reaper.seen[j].id
      BY <1>0, <2>2, <3>1, <3>2 DEF Listed
    <3>3. CASE rj[j].ray = "no"
      BY <1>0, <3>1, <3>3 DEF Submitted, Posted, At
    <3> QED BY <2>3, <3>2, <3>3 DEF Abandoned
  <2>4. CASE Outlived(j)
    <3>1. Live(j)  BY DEF Live, Up
    <3>2. reaper.seen[j].status # "ended"  BY <1>0, <1>2, <2>2 DEF Listed
    <3> QED BY <2>4, <3>1, <3>2 DEF Outlived
  <2> QED BY <2>2, <2>3, <2>4
<1> QED BY <1>3, <1>4, <1>5, <1>6

\* No step of a call, of a stop, of the reaper working from an old listing, of KubeRay, of
\* time or of a restart removes a RayJob whose job runs on its head or is on its way there,
\* but for one whose jobId was set when the reaper already gave it up.
THEOREM RunningJobsKept == Spec => RunningKept
<1>1. Inv /\ [Next]_vars =>
        [\A j \in Jobs :
           /\ Up(j) /\ rj[j].id # None /\ rj'[j].state = "deleted"
           /\ rj[j].ray = "running" \/ \E c \in Clients : At(c, "post") /\ call[c].job = j
           => rj[j].late]_vars
  BY StepKeepsRunning DEF Submitted
<1> QED BY <1>1, InvHolds, PTL DEF Spec, RunningKept
=============================================================================

---------------------------- MODULE NrpJobsProofs ----------------------------
(***************************************************************************)
(* Theorems about NrpJobs, for any jobs, users, callers and bounds.        *)
(***************************************************************************)
EXTENDS NrpJobs, TLAPS

Names == Jobs \cup {None}
MaybeRecord == Record \cup {NoRecord}

\* Where a coroutine works on a job, and where on the RayJob as it read it.
OnJob  == PCs \ {"idle", "looping", "sweeping"}
OnRead == OnJob \ {"posting", "del_rayjob", "del_jobs", "del_prefix"}

CallsOK ==
  /\ pc \in [Threads -> PCs]
  /\ job \in [Threads -> Names]
  /\ read \in [Threads -> MaybeRecord]
  /\ why \in [Threads -> Reasons \cup {"no"}]
  /\ \A t \in Threads :
       /\ pc[t] \in OnJob => job[t] \in Jobs
       /\ pc[t] \in OnRead => read[t] \in Record

ListingOK ==
  /\ todo \subseteq Jobs
  /\ seen \in [Jobs -> MaybeRecord]
  /\ taken \subseteq Jobs
  /\ old \subseteq Jobs
  /\ \A j \in todo : seen[j] \in Record

StoresOK ==
  /\ rayjob \in [Jobs -> MaybeRecord]
  /\ copyIn \in [Jobs -> CopyJobs]
  /\ copyOut \in [Jobs -> CopyJobs]
  /\ prefix \in [Jobs -> SUBSET {"code", "inputs", "output"}]
  /\ age \in [Jobs -> 0..2]
  /\ back \subseteq Jobs

MemoryOK ==
  /\ waiting \in [Users -> Names]
  /\ since \in [Users -> 0..2]
  /\ cleaned \subseteq Jobs
  /\ asks \in 0..MaxAsks
  /\ failures \in 0..MaxFailures
  /\ used \subseteq Jobs

IndType == CallsOK /\ ListingOK /\ StoresOK /\ MemoryOK

\* A patched record is a record.
LEMMA StagedType ==
  ASSUME NEW r \in Record, NEW s \in Stages, NEW w \in Reasons \cup {"no"},
         NEW o \in Outputs, NEW b \in BOOLEAN
  PROVE  Staged(r, s, w, o, b) \in Record
BY DEF Staged, Record

\* What a submission creates is a record.
LEMMA NewRecordType ==
  ASSUME NEW d, NEW files
  PROVE  NewRecord(d, files) \in Record
BY DEF NewRecord, Record, Stages, Outputs, Phases

\* A field changed to a value of its type leaves a record, and every field has
\* its type.
LEMMA FieldType ==
  ASSUME NEW r \in Record
  PROVE  /\ Suspended(r) \in Record
         /\ \A p \in Phases : WithPhase(r, p) \in Record
         /\ \A o \in Outputs : WithOutput(r, o) \in Record
         /\ \A n \in {"recent", "long"} : WithSince(r, n) \in Record
         /\ r.output \in Outputs /\ r.stopped \in Reasons \cup {"no"}
         /\ r.suspend \in BOOLEAN
BY DEF Record, Suspended, WithPhase, WithOutput, WithSince

\* A coroutine that goes on keeps the types of what it works on.
LEMMA EnterType ==
  ASSUME CallsOK, NEW t \in Threads, NEW p \in PCs, NEW j \in Names,
         NEW r \in MaybeRecord, NEW w \in Reasons \cup {"no"},
         p \in OnJob => j \in Jobs, p \in OnRead => r \in Record,
         Enter(t, p, j, r, w)
  PROVE  CallsOK'
BY DEF CallsOK, Enter

\* ... and so does one that only goes on to its next call,
LEMMA GoType ==
  ASSUME CallsOK, NEW t \in Threads, NEW p \in PCs,
         p \in OnJob => job[t] \in Jobs, p \in OnRead => read[t] \in Record,
         Go(t, p)
  PROVE  CallsOK'
BY EnterType DEF CallsOK, Go

\* ... or that ends, or returns to its loop.
LEMMA ReturnType ==
  ASSUME CallsOK, NEW t \in Threads, Return(t)
  PROVE  CallsOK'
<1> DEFINE p == IF t = Reaper THEN "looping" ELSE "idle"
<1>1. p \in PCs /\ p \notin OnJob /\ p \notin OnRead
  BY DEF PCs, OnJob, OnRead
<1>2. None \in Names /\ NoRecord \in MaybeRecord
  BY DEF Names, MaybeRecord
<1>3. Enter(t, p, None, NoRecord, "no")
  BY DEF Return
<1> QED
  BY <1>1, <1>2, <1>3, EnterType

\* Sets of program points and of coroutines.
LEMMA PCFacts ==
  /\ \A p \in {"post_in", "post_out", "advance", "suspending", "stopping",
               "resuming", "outputs", "finishing", "done"} :
       p \in OnRead /\ p \in OnJob /\ p \in PCs
  /\ \A p \in {"posting", "del_rayjob", "del_jobs", "del_prefix"} :
       p \notin OnRead /\ p \in OnJob /\ p \in PCs
  /\ \A p \in {"idle", "looping", "sweeping"} :
       p \notin OnRead /\ p \notin OnJob /\ p \in PCs
  /\ None \in Names /\ Jobs \subseteq Names
  /\ NoRecord \in MaybeRecord /\ Record \subseteq MaybeRecord
  /\ Users \subseteq Threads /\ Callers \subseteq Threads /\ Reaper \in Threads
BY DEF PCs, OnJob, OnRead, Names, MaybeRecord, Threads

\* What a coroutine in the middle of its work has at hand.
LEMMA AtHand ==
  ASSUME CallsOK, NEW t \in Threads
  PROVE  /\ pc[t] \in OnRead => read[t] \in Record
         /\ pc[t] \in OnJob => job[t] \in Jobs
         /\ job[t] \in Names /\ read[t] \in MaybeRecord
         /\ why[t] \in Reasons \cup {"no"}
BY DEF CallsOK

\* A RayJob that is listed is a record.
LEMMA ListedRecord ==
  ASSUME StoresOK, NEW j \in Jobs, Listed(j)
  PROVE  rayjob[j] \in Record
BY DEF StoresOK, MaybeRecord, Listed

\* A coroutine on a RayJob it read goes on, with that job.
LEMMA WorkingType ==
  ASSUME CallsOK, NEW t \in Threads, pc[t] \in OnRead, NEW p \in OnJob,
         NEW r \in Record, NEW w \in Reasons \cup {"no"},
         Enter(t, p, job[t], r, w)
  PROVE  CallsOK'
<1>1. job[t] \in Jobs /\ p \in PCs
  BY AtHand DEF OnRead, OnJob
<1> QED
  BY <1>1, EnterType, PCFacts

\* ... and the same without a change of what it has at hand.
LEMMA WorkingGoType ==
  ASSUME CallsOK, NEW t \in Threads, pc[t] \in OnRead, NEW p \in OnJob, Go(t, p)
  PROVE  CallsOK'
BY WorkingType, AtHand DEF Go

\* nrp_patch leaves records where there were.
LEMMA PatchType ==
  ASSUME StoresOK, NEW j \in Jobs, NEW new \in Record, Patch(j, new)
  PROVE  rayjob' \in [Jobs -> MaybeRecord]
BY DEF Patch, StoresOK, MaybeRecord

\* The gateway starts with every part of the type invariant.
LEMMA InitType == Init => IndType
BY BoundsAssumption
DEF Init, IndType, CallsOK, ListingOK, StoresOK, MemoryOK, CopyJobs, PCs, OnJob,
    OnRead, Names, MaybeRecord

\* Every step keeps the type invariant.
LEMMA StepType == IndType /\ [Next]_vars => IndType'
<1> SUFFICES ASSUME IndType, [Next]_vars PROVE IndType'
  OBVIOUS
<1> USE ThreadsDistinct, BoundsAssumption, DataAssumption DEF IndType
<1>1. ASSUME NEW u \in Users, CheckPackage(u) PROVE IndType'
  <2>1. CallsOK'
    BY <1>1 DEF CheckPackage, calls, CallsOK, SetPhase
  <2>2. StoresOK'
    BY <1>1 DEF CheckPackage, stores, StoresOK
  <2>3. ListingOK'
    BY <1>1 DEF CheckPackage, ListingOK, listing
  <2>4. MemoryOK'
    BY <1>1 DEF CheckPackage, MemoryOK, Await, NameOf, Names
  <2>5. QED
    BY <2>1, <2>2, <2>3, <2>4
<1>2. ASSUME NEW u \in Users, Upload(u) PROVE IndType'
  <2>1. CallsOK'
    BY <1>2 DEF Upload, calls, CallsOK, SetPhase
  <2>2. StoresOK'
    BY <1>2, StagedType, FieldType, NewRecordType, PCFacts, AtHand, ListedRecord
    DEF Upload, StoresOK, At, Put
  <2>3. ListingOK'
    BY <1>2 DEF Upload, ListingOK, Put
  <2>4. MemoryOK'
    BY <1>2 DEF Upload, MemoryOK, Await, NameOf, Names
  <2>5. QED
    BY <2>1, <2>2, <2>3, <2>4
<1>3. ASSUME NEW u \in Users, Submit(u) PROVE IndType'
  <2>1. CallsOK'
    BY <1>3, EnterType, GoType, ReturnType, PCFacts, AtHand, FieldType, NewRecordType
    DEF Submit, At, JobRefused, Patch, PatchRefused, Reasons, Outputs, ListingOK
  <2>2. StoresOK'
    BY <1>3 DEF Submit, stores, StoresOK
  <2>3. ListingOK'
    BY <1>3 DEF Submit, ListingOK, listing
  <2>4. MemoryOK'
    BY <1>3 DEF Submit, MemoryOK, NameOf, Names
  <2>5. QED
    BY <2>1, <2>2, <2>3, <2>4
<1>4. ASSUME NEW u \in Users, Create(u) PROVE IndType'
  <2>a. u \in Threads /\ job[u] \in Jobs
    BY <1>4, PCFacts, AtHand DEF Create, At
  <2>b. PICK d \in Data :
          LET r == NewRecord(d, prefix[job[u]])
              next == IF r.inputs THEN "post_in"
                      ELSE IF r.output = "true" THEN "post_out" ELSE "advance"
          IN rayjob' = [rayjob EXCEPT ![job[u]] = r] /\ Enter(u, next, job[u], r, "no")
    BY <1>4 DEF Create
  <2> DEFINE r == NewRecord(d, prefix[job[u]])
  <2>c. r \in Record
    BY NewRecordType
  <2> HIDE DEF r
  <2>1. CallsOK'
    BY <2>a, <2>b, <2>c, EnterType, PCFacts DEF r
  <2>2. StoresOK'
    BY <1>4, <2>a, <2>b, <2>c, PCFacts DEF Create, StoresOK, r
  <2>3. ListingOK'
    BY <1>4 DEF Create, ListingOK, listing
  <2>4. MemoryOK'
    BY <1>4 DEF Create, MemoryOK, names, counters
  <2>5. QED
    BY <2>1, <2>2, <2>3, <2>4
<1>5. ASSUME NEW u \in Users, CreateCopyIn(u) PROVE IndType'
  <2>a. u \in Threads /\ pc[u] \in OnRead /\ job[u] \in Jobs
    BY <1>5, PCFacts, AtHand DEF CreateCopyIn, At
  <2>b. pc[u] \in OnRead => read[u] \in Record
    BY <2>a, AtHand
  <2>c0. ASSUME Go(u, IF read[u].output = "true" THEN "post_out" ELSE "advance")
         PROVE  CallsOK'
    BY <2>c0, <2>a, <2>b, PCFacts, WorkingGoType
  <2>c1. ASSUME JobRefused(u) PROVE CallsOK'
    BY <2>c1, <2>a, <2>b, PCFacts, WorkingType DEF JobRefused, Reasons
  <2>1. CallsOK'
    BY <1>5, <2>c0, <2>c1 DEF CreateCopyIn, PatchRefused
  <2>2. StoresOK'
    BY <1>5, StagedType, FieldType, NewRecordType, PCFacts, AtHand, ListedRecord
    DEF CreateCopyIn, StoresOK, At, CopyJobs
  <2>3. ListingOK'
    BY <1>5 DEF CreateCopyIn, ListingOK, listing
  <2>4. MemoryOK'
    BY <1>5 DEF CreateCopyIn, MemoryOK, JobRefused, names
  <2>5. QED
    BY <2>1, <2>2, <2>3, <2>4
<1>6. ASSUME NEW u \in Users, CreateCopyOut(u) PROVE IndType'
  <2>a. u \in Threads /\ pc[u] \in OnRead /\ job[u] \in Jobs
    BY <1>6, PCFacts, AtHand DEF CreateCopyOut, At
  <2>b. pc[u] \in OnRead => read[u] \in Record
    BY <2>a, AtHand
  <2>c0. ASSUME Go(u, "advance") PROVE CallsOK'
    BY <2>c0, <2>a, <2>b, PCFacts, WorkingGoType
  <2>c1. ASSUME JobRefused(u) PROVE CallsOK'
    BY <2>c1, <2>a, <2>b, PCFacts, WorkingType DEF JobRefused, Reasons
  <2>1. CallsOK'
    BY <1>6, <2>c0, <2>c1 DEF CreateCopyOut, PatchRefused
  <2>2. StoresOK'
    BY <1>6, StagedType, FieldType, NewRecordType, PCFacts, AtHand, ListedRecord
    DEF CreateCopyOut, StoresOK, At, CopyJobs
  <2>3. ListingOK'
    BY <1>6 DEF CreateCopyOut, ListingOK, listing
  <2>4. MemoryOK'
    BY <1>6 DEF CreateCopyOut, MemoryOK, JobRefused, names
  <2>5. QED
    BY <2>1, <2>2, <2>3, <2>4
<1>7. ASSUME NEW c \in Callers, CallStop(c) PROVE IndType'
  <2>1. CallsOK'
    BY <1>7, EnterType, PCFacts, ListedRecord DEF CallStop, Reasons
  <2>2. StoresOK'
    BY <1>7 DEF CallStop, stores, StoresOK
  <2>3. ListingOK'
    BY <1>7 DEF CallStop, ListingOK, listing
  <2>4. MemoryOK'
    BY <1>7 DEF CallStop, MemoryOK, names, counters
  <2>5. QED
    BY <2>1, <2>2, <2>3, <2>4
<1>8. ASSUME NEW c \in Callers, CallDelete(c) PROVE IndType'
  <2>1. CallsOK'
    BY <1>8, EnterType, PCFacts, ListedRecord DEF CallDelete, Reasons
  <2>2. StoresOK'
    BY <1>8 DEF CallDelete, stores, StoresOK
  <2>3. ListingOK'
    BY <1>8 DEF CallDelete, ListingOK, listing
  <2>4. MemoryOK'
    BY <1>8 DEF CallDelete, MemoryOK, names, counters
  <2>5. QED
    BY <2>1, <2>2, <2>3, <2>4
<1>9. ASSUME ReapList PROVE IndType'
  <2>1. CallsOK'
    BY <1>9, EnterType, GoType, ReturnType, PCFacts, AtHand, FieldType, NewRecordType
    DEF ReapList, At, JobRefused, Patch, PatchRefused, Reasons, Outputs, ListingOK
  <2>2. StoresOK'
    BY <1>9 DEF ReapList, stores, StoresOK
  <2>3. ListingOK'
    BY <1>9 DEF ReapList, ListingOK, StoresOK, MaybeRecord, Listed
  <2>4. MemoryOK'
    BY <1>9 DEF ReapList, MemoryOK, names, counters
  <2>5. QED
    BY <2>1, <2>2, <2>3, <2>4
<1>10. ASSUME ReapJob PROVE IndType'
  <2>1. CallsOK'
    BY <1>10, EnterType, GoType, ReturnType, PCFacts, AtHand, FieldType, NewRecordType
    DEF ReapJob, At, JobRefused, Patch, PatchRefused, Reasons, Outputs, ListingOK
  <2>2. StoresOK'
    BY <1>10 DEF ReapJob, stores, StoresOK
  <2>3. ListingOK'
    BY <1>10 DEF ReapJob, ListingOK
  <2>4. MemoryOK'
    BY <1>10 DEF ReapJob, MemoryOK, names, counters
  <2>5. QED
    BY <2>1, <2>2, <2>3, <2>4
<1>11. ASSUME ReapTaken PROVE IndType'
  <2>1. CallsOK'
    BY <1>11, EnterType, GoType, ReturnType, PCFacts, AtHand, FieldType, NewRecordType
    DEF ReapTaken, At, JobRefused, Patch, PatchRefused, Reasons, Outputs, ListingOK
  <2>2. StoresOK'
    BY <1>11 DEF ReapTaken, stores, StoresOK
  <2>3. ListingOK'
    BY <1>11 DEF ReapTaken, ListingOK
  <2>4. MemoryOK'
    BY <1>11 DEF ReapTaken, MemoryOK, names, counters
  <2>5. QED
    BY <2>1, <2>2, <2>3, <2>4
<1>12. ASSUME Sweep PROVE IndType'
  <2>1. CallsOK'
    BY <1>12 DEF Sweep, calls, CallsOK, SetPhase
  <2>2. StoresOK'
    BY <1>12, StagedType, FieldType, NewRecordType, PCFacts, AtHand, ListedRecord
    DEF Sweep, StoresOK, At
  <2>3. ListingOK'
    BY <1>12 DEF Sweep, ListingOK, listing
  <2>4. MemoryOK'
    BY <1>12 DEF Sweep, MemoryOK, names, counters
  <2>5. QED
    BY <2>1, <2>2, <2>3, <2>4
<1>13. ASSUME ReapEnds PROVE IndType'
  <2>1. CallsOK'
    BY <1>13, EnterType, GoType, ReturnType, PCFacts, AtHand, FieldType, NewRecordType
    DEF ReapEnds, At, JobRefused, Patch, PatchRefused, Reasons, Outputs, ListingOK
  <2>2. StoresOK'
    BY <1>13 DEF ReapEnds, stores, StoresOK
  <2>3. ListingOK'
    BY <1>13 DEF ReapEnds, ListingOK, DropListing, MaybeRecord
  <2>4. MemoryOK'
    BY <1>13 DEF ReapEnds, MemoryOK, names, counters
  <2>5. QED
    BY <2>1, <2>2, <2>3, <2>4
<1>14. ASSUME Restart PROVE IndType'
  <2>1. CallsOK'
    BY <1>14, PCFacts DEF Restart, CallsOK
  <2>2. StoresOK'
    BY <1>14 DEF Restart, stores, StoresOK
  <2>3. ListingOK'
    BY <1>14 DEF Restart, ListingOK, DropListing, MaybeRecord
  <2>4. MemoryOK'
    BY <1>14 DEF Restart, MemoryOK, Names
  <2>5. QED
    BY <2>1, <2>2, <2>3, <2>4
<1>15. ASSUME Tick PROVE IndType'
  <2>1. CallsOK'
    BY <1>15 DEF Tick, calls, CallsOK, SetPhase
  <2>2. StoresOK'
    BY <1>15, StagedType, FieldType, NewRecordType, PCFacts, AtHand, ListedRecord
    DEF Tick, StoresOK, At, Older
  <2>3. ListingOK'
    BY <1>15 DEF Tick, ListingOK, listing
  <2>4. MemoryOK'
    BY <1>15 DEF Tick, MemoryOK, Older, counters
  <2>5. QED
    BY <2>1, <2>2, <2>3, <2>4
<1>16. ASSUME NEW t \in Threads, AdvanceInputs(t) PROVE IndType'
  <2>a. t \in Threads /\ pc[t] \in OnRead /\ job[t] \in Jobs
    BY <1>16, PCFacts, AtHand DEF AdvanceInputs, At
  <2>b. pc[t] \in OnRead => read[t] \in Record
    BY <2>a, AtHand
  <2>c0. ASSUME Enter(t, "suspending", job[t], read[t], "inputs") PROVE CallsOK'
    BY <2>c0, <2>a, <2>b, PCFacts, WorkingType DEF Reasons
  <2>c1. ASSUME Go(t, "resuming") PROVE CallsOK'
    BY <2>c1, <2>a, <2>b, PCFacts, WorkingGoType
  <2>c2. ASSUME Return(t) PROVE CallsOK'
    BY <2>c2, <2>a, <2>b, PCFacts, ReturnType
  <2>1. CallsOK'
    BY <1>16, <2>c0, <2>c1, <2>c2 DEF AdvanceInputs, PatchRefused
  <2>2. StoresOK'
    BY <1>16 DEF AdvanceInputs, stores, StoresOK
  <2>3. ListingOK'
    BY <1>16 DEF AdvanceInputs, ListingOK, listing
  <2>4. MemoryOK'
    BY <1>16 DEF AdvanceInputs, MemoryOK, names, counters
  <2>5. QED
    BY <2>1, <2>2, <2>3, <2>4
<1>17. ASSUME NEW t \in Threads, Resume(t) PROVE IndType'
  <2>1. CallsOK'
    BY <1>17, EnterType, GoType, ReturnType, PCFacts, AtHand, FieldType, NewRecordType
    DEF Resume, At, JobRefused, Patch, PatchRefused, Reasons, Outputs, ListingOK
  <2> DEFINE r == rayjob[job[t]]
             new == Staged(r, "running", r.stopped, r.output, FALSE)
  <2>d. /\ t \in Threads /\ job[t] \in Jobs
        /\ read[t] \in Record /\ why[t] \in Reasons \cup {"no"}
    BY <1>17, PCFacts, AtHand DEF Resume, At
  <2>e. ASSUME Listed(job[t]) PROVE new \in Record
    <3>1. rayjob[job[t]] \in Record
      BY <2>d, <2>e, ListedRecord
    <3>2. "running" \in Stages /\ "done" \in Stages
      BY DEF Stages, StopAfter
    <3>3. /\ rayjob[job[t]].output \in Outputs
          /\ rayjob[job[t]].stopped \in Reasons \cup {"no"}
          /\ rayjob[job[t]].suspend \in BOOLEAN
      BY <3>1, FieldType
    <3> QED
      BY <2>d, <3>1, <3>2, <3>3, StagedType
  <2>f. Patch(job[t], new) \/ UNCHANGED rayjob
    BY <1>17 DEF Resume, PatchRefused
  <2> HIDE DEF new
  <2>g. rayjob' \in [Jobs -> MaybeRecord]
    BY <2>d, <2>e, <2>f, PatchType DEF StoresOK, Patch
  <2>2. StoresOK'
    BY <1>17, <2>g DEF Resume, StoresOK
  <2>3. ListingOK'
    BY <1>17 DEF Resume, ListingOK, listing
  <2>4. MemoryOK'
    BY <1>17 DEF Resume, MemoryOK, names, counters
  <2>5. QED
    BY <2>1, <2>2, <2>3, <2>4
<1>18. ASSUME NEW t \in Threads, AdvanceRunning(t) PROVE IndType'
  <2>a. t \in Threads /\ pc[t] \in OnRead /\ job[t] \in Jobs
    BY <1>18, PCFacts, AtHand DEF AdvanceRunning, At
  <2>b. pc[t] \in OnRead => read[t] \in Record
    BY <2>a, AtHand
  <2>c0. ASSUME Enter(t, "suspending", job[t], read[t], "not_started") PROVE CallsOK'
    BY <2>c0, <2>a, <2>b, PCFacts, WorkingType DEF Reasons
  <2>c1. ASSUME Enter(t, "suspending", job[t], read[t], "idle") PROVE CallsOK'
    BY <2>c1, <2>a, <2>b, PCFacts, WorkingType DEF Reasons
  <2>c2. ASSUME Go(t, IF read[t].output = "true" THEN "outputs" ELSE "done")
         PROVE  CallsOK'
    BY <2>c2, <2>a, <2>b, PCFacts, WorkingGoType
  <2>c3. ASSUME Return(t) PROVE CallsOK'
    BY <2>c3, <2>a, <2>b, PCFacts, ReturnType
  <2>1. CallsOK'
    BY <1>18, <2>c0, <2>c1, <2>c2, <2>c3 DEF AdvanceRunning, PatchRefused
  <2> DEFINE r == rayjob[job[t]]
             after == IF read[t].output = "true" THEN "outputs" ELSE "done"
             new == Staged(r, after, r.stopped, r.output, r.suspend)
  <2>d. /\ t \in Threads /\ job[t] \in Jobs
        /\ read[t] \in Record /\ why[t] \in Reasons \cup {"no"}
    BY <1>18, PCFacts, AtHand DEF AdvanceRunning, At
  <2>e. ASSUME Listed(job[t]) PROVE new \in Record
    <3>1. rayjob[job[t]] \in Record
      BY <2>d, <2>e, ListedRecord
    <3>2. (IF read[t].output = "true" THEN "outputs" ELSE "done") \in Stages
      BY DEF Stages, StopAfter
    <3>3. /\ rayjob[job[t]].output \in Outputs
          /\ rayjob[job[t]].stopped \in Reasons \cup {"no"}
          /\ rayjob[job[t]].suspend \in BOOLEAN
      BY <3>1, FieldType
    <3> QED
      BY <2>d, <3>1, <3>2, <3>3, StagedType
  <2>f. Patch(job[t], new) \/ UNCHANGED rayjob
    BY <1>18 DEF AdvanceRunning, PatchRefused
  <2> HIDE DEF new
  <2>g. rayjob' \in [Jobs -> MaybeRecord]
    BY <2>d, <2>e, <2>f, PatchType DEF StoresOK, Patch
  <2>2. StoresOK'
    BY <1>18, <2>g DEF AdvanceRunning, StoresOK
  <2>3. ListingOK'
    BY <1>18 DEF AdvanceRunning, ListingOK, listing
  <2>4. MemoryOK'
    BY <1>18 DEF AdvanceRunning, MemoryOK, names, counters
  <2>5. QED
    BY <2>1, <2>2, <2>3, <2>4
<1>19. ASSUME NEW t \in Threads, StopSuspend(t) PROVE IndType'
  <2>a. t \in Threads /\ pc[t] \in OnRead /\ job[t] \in Jobs
    BY <1>19, PCFacts, AtHand DEF StopSuspend, At
  <2>b. pc[t] \in OnRead => read[t] \in Record
    BY <2>a, AtHand
  <2>c0. ASSUME Go(t, "stopping") PROVE CallsOK'
    BY <2>c0, <2>a, <2>b, PCFacts, WorkingGoType
  <2>c1. ASSUME Return(t) PROVE CallsOK'
    BY <2>c1, <2>a, <2>b, PCFacts, ReturnType
  <2>1. CallsOK'
    BY <1>19, <2>c0, <2>c1 DEF StopSuspend, PatchRefused
  <2>2. StoresOK'
    BY <1>19, StagedType, FieldType, NewRecordType, PCFacts, AtHand, ListedRecord
    DEF StopSuspend, StoresOK, At, Patch, PatchRefused
  <2>3. ListingOK'
    BY <1>19 DEF StopSuspend, ListingOK, listing
  <2>4. MemoryOK'
    BY <1>19 DEF StopSuspend, MemoryOK, names, counters
  <2>5. QED
    BY <2>1, <2>2, <2>3, <2>4
<1>20. ASSUME NEW t \in Threads, StopStage(t) PROVE IndType'
  <2>1. CallsOK'
    BY <1>20, EnterType, GoType, ReturnType, PCFacts, AtHand, FieldType, NewRecordType
    DEF StopStage, At, JobRefused, Patch, PatchRefused, Reasons, Outputs, ListingOK
  <2> DEFINE r == rayjob[job[t]]
             new == Staged(r, StopAfter(read[t]), why[t], r.output, r.suspend)
  <2>d. /\ t \in Threads /\ job[t] \in Jobs
        /\ read[t] \in Record /\ why[t] \in Reasons \cup {"no"}
    BY <1>20, PCFacts, AtHand DEF StopStage, At
  <2>e. ASSUME Listed(job[t]) PROVE new \in Record
    <3>1. rayjob[job[t]] \in Record
      BY <2>d, <2>e, ListedRecord
    <3>2. StopAfter(read[t]) \in Stages
      BY DEF Stages, StopAfter
    <3>3. /\ rayjob[job[t]].output \in Outputs
          /\ rayjob[job[t]].stopped \in Reasons \cup {"no"}
          /\ rayjob[job[t]].suspend \in BOOLEAN
      BY <3>1, FieldType
    <3> QED
      BY <2>d, <3>1, <3>2, <3>3, StagedType
  <2>f. Patch(job[t], new) \/ UNCHANGED rayjob
    BY <1>20 DEF StopStage, PatchRefused
  <2> HIDE DEF new
  <2>g. rayjob' \in [Jobs -> MaybeRecord]
    BY <2>d, <2>e, <2>f, PatchType DEF StoresOK, Patch
  <2>2. StoresOK'
    BY <1>20, <2>g DEF StopStage, StoresOK
  <2>3. ListingOK'
    BY <1>20 DEF StopStage, ListingOK, listing
  <2>4. MemoryOK'
    BY <1>20 DEF StopStage, MemoryOK, names, counters
  <2>5. QED
    BY <2>1, <2>2, <2>3, <2>4
<1>21. ASSUME NEW t \in Threads, AdvanceOutputs(t) PROVE IndType'
  <2>a. t \in Threads /\ pc[t] \in OnRead /\ job[t] \in Jobs
    BY <1>21, PCFacts, AtHand DEF AdvanceOutputs, At
  <2>b. pc[t] \in OnRead => read[t] \in Record
    BY <2>a, AtHand
  <2>c0. ASSUME Enter(t, "finishing", job[t],
                      IF copyOut[job[t]] = "succeeded" THEN read[t]
                      ELSE WithOutput(read[t], "failed"), why[t])
         PROVE  CallsOK'
    <3>1. (IF copyOut[job[t]] = "succeeded" THEN read[t]
           ELSE WithOutput(read[t], "failed")) \in Record
      BY <2>a, <2>b, FieldType DEF Outputs
    <3> QED
      BY <2>c0, <2>a, <3>1, PCFacts, AtHand, WorkingType
  <2>c1. ASSUME Return(t) PROVE CallsOK'
    BY <2>c1, <2>a, <2>b, PCFacts, ReturnType
  <2>1. CallsOK'
    BY <1>21, <2>c0, <2>c1 DEF AdvanceOutputs, PatchRefused
  <2>2. StoresOK'
    BY <1>21, StagedType, FieldType, NewRecordType, PCFacts, AtHand, ListedRecord
    DEF AdvanceOutputs, StoresOK, At, CopyJobs
  <2>3. ListingOK'
    BY <1>21 DEF AdvanceOutputs, ListingOK, listing
  <2>4. MemoryOK'
    BY <1>21 DEF AdvanceOutputs, MemoryOK, names, counters
  <2>5. QED
    BY <2>1, <2>2, <2>3, <2>4
<1>22. ASSUME NEW t \in Threads, Finish(t) PROVE IndType'
  <2>a. t \in Threads /\ pc[t] \in OnRead /\ job[t] \in Jobs
    BY <1>22, PCFacts, AtHand DEF Finish, At
  <2>b. pc[t] \in OnRead => read[t] \in Record
    BY <2>a, AtHand
  <2>c0. ASSUME Enter(t, "done", job[t], WithSince(read[t], "recent"), why[t])
         PROVE  CallsOK'
    <3>1. (WithSince(read[t], "recent")) \in Record
      BY <2>a, <2>b, FieldType
    <3> QED
      BY <2>c0, <2>a, <3>1, PCFacts, AtHand, WorkingType
  <2>c1. ASSUME Return(t) PROVE CallsOK'
    BY <2>c1, <2>a, <2>b, PCFacts, ReturnType
  <2>1. CallsOK'
    BY <1>22, <2>c0, <2>c1 DEF Finish, PatchRefused
  <2> DEFINE r == rayjob[job[t]]
             output == IF read[t].output = "failed" THEN "failed" ELSE r.output
             new == Staged(r, "done", r.stopped, output, r.suspend)
  <2>d. /\ t \in Threads /\ job[t] \in Jobs
        /\ read[t] \in Record /\ why[t] \in Reasons \cup {"no"}
    BY <1>22, PCFacts, AtHand DEF Finish, At
  <2>e. ASSUME Listed(job[t]) PROVE new \in Record
    <3>1. rayjob[job[t]] \in Record
      BY <2>d, <2>e, ListedRecord
    <3>2. "running" \in Stages /\ "done" \in Stages
      BY DEF Stages, StopAfter
    <3>3. /\ rayjob[job[t]].output \in Outputs
          /\ rayjob[job[t]].stopped \in Reasons \cup {"no"}
          /\ rayjob[job[t]].suspend \in BOOLEAN
      BY <3>1, FieldType
    <3> DEFINE o == IF read[t].output = "failed" THEN "failed" ELSE rayjob[job[t]].output
    <3>4. o \in Outputs
      BY <3>3 DEF Outputs
    <3>5. new = Staged(rayjob[job[t]], "done", rayjob[job[t]].stopped, o,
                       rayjob[job[t]].suspend)
      OBVIOUS
    <3> HIDE DEF o, new
    <3> QED
      BY <3>1, <3>2, <3>3, <3>4, <3>5, StagedType
  <2>f. Patch(job[t], new) \/ UNCHANGED rayjob
    BY <1>22 DEF Finish, PatchRefused
  <2> HIDE DEF new
  <2>g. rayjob' \in [Jobs -> MaybeRecord]
    BY <2>d, <2>e, <2>f, PatchType DEF StoresOK, Patch
  <2>2. StoresOK'
    BY <1>22, <2>g DEF Finish, StoresOK
  <2>3. ListingOK'
    BY <1>22 DEF Finish, ListingOK, listing
  <2>4. MemoryOK'
    BY <1>22 DEF Finish, MemoryOK, names, counters
  <2>5. QED
    BY <2>1, <2>2, <2>3, <2>4
<1>23. ASSUME NEW t \in Threads, AdvanceDone(t) PROVE IndType'
  <2>a. t \in Threads /\ pc[t] \in OnRead /\ job[t] \in Jobs
    BY <1>23, PCFacts, AtHand DEF AdvanceDone, At
  <2>b. pc[t] \in OnRead => read[t] \in Record
    BY <2>a, AtHand
  <2>c0. ASSUME Go(t, "del_rayjob") PROVE CallsOK'
    BY <2>c0, <2>a, <2>b, PCFacts, WorkingGoType
  <2>c1. ASSUME Return(t) PROVE CallsOK'
    BY <2>c1, <2>a, <2>b, PCFacts, ReturnType
  <2>1. CallsOK'
    BY <1>23, <2>c0, <2>c1 DEF AdvanceDone, PatchRefused
  <2>2. StoresOK'
    BY <1>23, StagedType, FieldType, NewRecordType, PCFacts, AtHand, ListedRecord
    DEF AdvanceDone, StoresOK, At
  <2>3. ListingOK'
    BY <1>23 DEF AdvanceDone, ListingOK, listing
  <2>4. MemoryOK'
    BY <1>23, <2>a DEF AdvanceDone, MemoryOK, names, counters
  <2>5. QED
    BY <2>1, <2>2, <2>3, <2>4
<1>24. ASSUME NEW t \in Threads, DeleteRayJob(t) PROVE IndType'
  <2>a. t \in Threads /\ pc[t] \in OnJob /\ job[t] \in Jobs
    BY <1>24, PCFacts, AtHand DEF DeleteRayJob, At
  <2>b. pc[t] \in OnRead => read[t] \in Record
    BY <2>a, AtHand
  <2>c0. ASSUME Go(t, "del_jobs") PROVE CallsOK'
    BY <2>c0, <2>a, <2>b, PCFacts, GoType
  <2>1. CallsOK'
    BY <1>24, <2>c0 DEF DeleteRayJob, PatchRefused
  <2>2. StoresOK'
    BY <1>24, StagedType, FieldType, NewRecordType, PCFacts, AtHand, ListedRecord
    DEF DeleteRayJob, StoresOK, At
  <2>3. ListingOK'
    BY <1>24 DEF DeleteRayJob, ListingOK, listing
  <2>4. MemoryOK'
    BY <1>24 DEF DeleteRayJob, MemoryOK, names
  <2>5. QED
    BY <2>1, <2>2, <2>3, <2>4
<1>25. ASSUME NEW t \in Threads, DeleteCopyJobs(t) PROVE IndType'
  <2>a. t \in Threads /\ pc[t] \in OnJob /\ job[t] \in Jobs
    BY <1>25, PCFacts, AtHand DEF DeleteCopyJobs, At
  <2>b. pc[t] \in OnRead => read[t] \in Record
    BY <2>a, AtHand
  <2>c0. ASSUME Go(t, "del_prefix") PROVE CallsOK'
    BY <2>c0, <2>a, <2>b, PCFacts, GoType
  <2>1. CallsOK'
    BY <1>25, <2>c0 DEF DeleteCopyJobs, PatchRefused
  <2>2. StoresOK'
    BY <1>25, StagedType, FieldType, NewRecordType, PCFacts, AtHand, ListedRecord
    DEF DeleteCopyJobs, StoresOK, At, CopyJobs
  <2>3. ListingOK'
    BY <1>25 DEF DeleteCopyJobs, ListingOK, listing
  <2>4. MemoryOK'
    BY <1>25 DEF DeleteCopyJobs, MemoryOK, names, counters
  <2>5. QED
    BY <2>1, <2>2, <2>3, <2>4
<1>26. ASSUME NEW t \in Threads, DeletePrefix(t) PROVE IndType'
  <2>1. CallsOK'
    BY <1>26, EnterType, GoType, ReturnType, PCFacts, AtHand, FieldType, NewRecordType
    DEF DeletePrefix, At, JobRefused, Patch, PatchRefused, Reasons, Outputs, ListingOK
  <2>2. StoresOK'
    BY <1>26, StagedType, FieldType, NewRecordType, PCFacts, AtHand, ListedRecord
    DEF DeletePrefix, StoresOK, At
  <2>3. ListingOK'
    BY <1>26 DEF DeletePrefix, ListingOK, listing
  <2>4. MemoryOK'
    BY <1>26 DEF DeletePrefix, MemoryOK, names, counters
  <2>5. QED
    BY <2>1, <2>2, <2>3, <2>4
<1>27. ASSUME NEW t \in Threads, Fails(t) PROVE IndType'
  <2>1. CallsOK'
    BY <1>27, EnterType, GoType, ReturnType, PCFacts, AtHand, FieldType, NewRecordType
    DEF Fails, At, JobRefused, Patch, PatchRefused, Reasons, Outputs, ListingOK
  <2>2. StoresOK'
    BY <1>27 DEF Fails, stores, StoresOK
  <2>3. ListingOK'
    BY <1>27 DEF Fails, ListingOK, DropListing, MaybeRecord, listing
  <2>4. MemoryOK'
    BY <1>27 DEF Fails, MemoryOK, names
  <2>5. QED
    BY <2>1, <2>2, <2>3, <2>4
<1>28. ASSUME NEW j \in Jobs, KubeRay(j) PROVE IndType'
  <2>1. CallsOK'
    BY <1>28 DEF KubeRay, calls, CallsOK, SetPhase
  <2>2. StoresOK'
    BY <1>28, StagedType, FieldType, NewRecordType, PCFacts, AtHand, ListedRecord
    DEF KubeRay, StoresOK, At, SetPhase, Phases
  <2>3. ListingOK'
    BY <1>28 DEF KubeRay, ListingOK, SetPhase, listing
  <2>4. MemoryOK'
    BY <1>28 DEF KubeRay, MemoryOK, SetPhase, names, counters
  <2>5. QED
    BY <2>1, <2>2, <2>3, <2>4
<1>29. ASSUME NEW j \in Jobs, JobEnds(j) PROVE IndType'
  <2>1. CallsOK'
    BY <1>29 DEF JobEnds, calls, CallsOK, SetPhase
  <2>2. StoresOK'
    BY <1>29, StagedType, FieldType, NewRecordType, PCFacts, AtHand, ListedRecord
    DEF JobEnds, StoresOK, At, SetPhase, Phases
  <2>3. ListingOK'
    BY <1>29 DEF JobEnds, ListingOK, SetPhase, listing
  <2>4. MemoryOK'
    BY <1>29 DEF JobEnds, MemoryOK, SetPhase, names, counters
  <2>5. QED
    BY <2>1, <2>2, <2>3, <2>4
<1>30. ASSUME NEW j \in Jobs, WriteOutput(j) PROVE IndType'
  <2>1. CallsOK'
    BY <1>30 DEF WriteOutput, calls, CallsOK, SetPhase
  <2>2. StoresOK'
    BY <1>30, StagedType, FieldType, NewRecordType, PCFacts, AtHand, ListedRecord
    DEF WriteOutput, StoresOK, At, Put
  <2>3. ListingOK'
    BY <1>30 DEF WriteOutput, ListingOK, Put
  <2>4. MemoryOK'
    BY <1>30 DEF WriteOutput, MemoryOK, names, counters
  <2>5. QED
    BY <2>1, <2>2, <2>3, <2>4
<1>31. ASSUME NEW j \in Jobs, CopyInEnds(j) PROVE IndType'
  <2>1. CallsOK'
    BY <1>31 DEF CopyInEnds, calls, CallsOK, SetPhase
  <2>2. StoresOK'
    BY <1>31, StagedType, FieldType, NewRecordType, PCFacts, AtHand, ListedRecord
    DEF CopyInEnds, StoresOK, At, Put, CopyJobs
  <2>3. ListingOK'
    BY <1>31 DEF CopyInEnds, ListingOK, Put
  <2>4. MemoryOK'
    BY <1>31 DEF CopyInEnds, MemoryOK, names, counters
  <2>5. QED
    BY <2>1, <2>2, <2>3, <2>4
<1>32. ASSUME NEW j \in Jobs, CopyOutEnds(j) PROVE IndType'
  <2>1. CallsOK'
    BY <1>32 DEF CopyOutEnds, calls, CallsOK, SetPhase
  <2>2. StoresOK'
    BY <1>32, StagedType, FieldType, NewRecordType, PCFacts, AtHand, ListedRecord
    DEF CopyOutEnds, StoresOK, At, CopyJobs
  <2>3. ListingOK'
    BY <1>32 DEF CopyOutEnds, ListingOK, listing
  <2>4. MemoryOK'
    BY <1>32 DEF CopyOutEnds, MemoryOK, names, counters
  <2>5. QED
    BY <2>1, <2>2, <2>3, <2>4
<1>33. ASSUME NEW j \in Jobs, RecordAges(j) PROVE IndType'
  <2>1. CallsOK'
    BY <1>33 DEF RecordAges, calls, CallsOK, SetPhase
  <2>2. StoresOK'
    BY <1>33, StagedType, FieldType, NewRecordType, PCFacts, AtHand, ListedRecord
    DEF RecordAges, StoresOK, At
  <2>3. ListingOK'
    BY <1>33 DEF RecordAges, ListingOK, listing
  <2>4. MemoryOK'
    BY <1>33 DEF RecordAges, MemoryOK, names, counters
  <2>5. QED
    BY <2>1, <2>2, <2>3, <2>4
<1>34. CASE UNCHANGED vars
  BY <1>34
  DEF vars, stores, names, calls, listing, counters, CallsOK, ListingOK, StoresOK,
      MemoryOK
<1>35. QED
  BY <1>1, <1>2, <1>3, <1>4, <1>5, <1>6, <1>7, <1>8, <1>9, <1>10, <1>11, <1>12, <1>13,
     <1>14, <1>15, <1>16, <1>17, <1>18, <1>19, <1>20, <1>21, <1>22, <1>23, <1>24, <1>25,
     <1>26, <1>27, <1>28, <1>29, <1>30, <1>31, <1>32, <1>33, <1>34
  DEF Next, Submission, Call, Reap, Step, External

-----------------------------------------------------------------------------
(* Outputs that did not come back. *)

\* What each change of a record does to its output annotation: only a copy back
\* that failed sets it to "failed".
LEMMA RecordShapes ==
  /\ NoRecord \notin Record
  /\ \A r \in Record :
       /\ \A s, w, o, b : Staged(r, s, w, o, b).output = o
       /\ Suspended(r).output = r.output
       /\ WithOutput(r, "failed").output = "failed"
       /\ \A n : WithSince(r, n).output = r.output
       /\ \A p : WithPhase(r, p).output = r.output
  /\ \A d, files : /\ NewRecord(d, files).output # "failed"
                   /\ NewRecord(d, files).stage \in {"inputs", "running"}
                   /\ NewRecord(d, files).phase = "new"
<1>1. NoRecord \notin Record
  BY DEF NoRecord, Record, Stages
<1>2. ASSUME NEW r \in Record
      PROVE  /\ \A s, w, o, b : Staged(r, s, w, o, b).output = o
             /\ Suspended(r).output = r.output
             /\ WithOutput(r, "failed").output = "failed"
             /\ \A n : WithSince(r, n).output = r.output
             /\ \A p : WithPhase(r, p).output = r.output
  BY DEF Record, Staged, Suspended, WithOutput, WithSince, WithPhase
<1>3. ASSUME NEW d, NEW files
      PROVE  /\ NewRecord(d, files).output # "failed"
             /\ NewRecord(d, files).stage \in {"inputs", "running"}
             /\ NewRecord(d, files).phase = "new"
  BY DEF NewRecord
<1> QED
  BY <1>1, <1>2, <1>3

Others == Users \cup Callers

\* Only the reaper gets as far as a job's outputs: a submission advances its
\* RayJob as it created it, which has not ended.
OthersInv ==
  \A t \in Others :
    /\ pc[t] \notin {"outputs", "finishing", "done", "looping", "sweeping"}
    /\ pc[t] \in {"post_in", "post_out", "advance"}
         => read[t].stage \in {"inputs", "running"} /\ read[t].phase = "new"

\* The reaper works on jobs of its listing, and sweeps none of them.
PassInv ==
  /\ pc[Reaper] \in OnJob => seen[job[Reaper]] # NoRecord /\ job[Reaper] \notin todo
  /\ pc[Reaper] = "sweeping" => \A j \in Jobs : seen[j] # NoRecord => j \in taken

\* A job marked as failed is in the pass's listing, and the reaper knows it is
\* marked wherever it might clean it up.
FailedInv ==
  \A j \in Jobs :
    Listed(j) /\ rayjob[j].output = "failed" =>
      /\ pc[Reaper] # "idle" => seen[j] # NoRecord
      /\ j \in todo => seen[j].output = "failed"
      /\ (/\ job[Reaper] = j
          /\ pc[Reaper] \in {"advance", "outputs", "finishing", "done"})
           => read[Reaper].output = "failed"

IndFailed == IndType /\ OthersInv /\ PassInv /\ FailedInv

\* Nothing is listed at the start, so nothing is marked.
LEMMA InitFailed == Init => OthersInv /\ PassInv /\ FailedInv
BY ThreadsDistinct
DEF Init, OthersInv, PassInv, FailedInv, Others, Threads, OnJob, Listed

\* Every step keeps what is known of marked jobs.
LEMMA StepFailed == IndFailed /\ [Next]_vars => IndFailed'
<1> SUFFICES ASSUME IndFailed, [Next]_vars PROVE OthersInv' /\ PassInv' /\ FailedInv'
  BY StepType DEF IndFailed
<1>0. IndType'
  BY StepType DEF IndFailed
<1> USE ThreadsDistinct DEF IndFailed
<1>1. ASSUME NEW u \in Users, CheckPackage(u) PROVE OthersInv' /\ PassInv' /\ FailedInv'
  <2>1. OthersInv'
    BY <1>1 DEF CheckPackage, calls, OthersInv
  <2>2. PassInv'
    BY <1>1 DEF CheckPackage, calls, listing, PassInv
  <2>3. FailedInv'
    BY <1>1 DEF CheckPackage, calls, listing, stores, FailedInv, Listed
  <2>4. QED
    BY <2>1, <2>2, <2>3
<1>2. ASSUME NEW u \in Users, Upload(u) PROVE OthersInv' /\ PassInv' /\ FailedInv'
  <2>1. OthersInv'
    BY <1>2 DEF Upload, calls, OthersInv
  <2>2. PassInv'
    BY <1>2 DEF Upload, calls, PassInv
  <2>3. FailedInv'
    BY <1>2 DEF Upload, calls, FailedInv, Listed
  <2>4. QED
    BY <2>1, <2>2, <2>3
<1>3. ASSUME NEW u \in Users, Submit(u) PROVE OthersInv' /\ PassInv' /\ FailedInv'
  <2>1. OthersInv'
    BY <1>3 DEF Submit, At, Enter, OthersInv, Others, Threads, IndType, CallsOK
  <2>2. PassInv'
    BY <1>3, PCFacts DEF Submit, At, Enter, listing, PassInv, IndType, CallsOK
  <2>3. FailedInv'
    BY <1>3 DEF Submit, At, Enter, listing, stores, FailedInv, Listed, IndType, CallsOK
  <2>4. QED
    BY <2>1, <2>2, <2>3
<1>4. ASSUME NEW u \in Users, Create(u) PROVE OthersInv' /\ PassInv' /\ FailedInv'
  <2>1. OthersInv'
    BY <1>4, RecordShapes
    DEF Create, At, Enter, OthersInv, Others, Threads, IndType, CallsOK
  <2>2. PassInv'
    BY <1>4, PCFacts DEF Create, At, Enter, listing, PassInv, IndType, CallsOK
  <2>3. FailedInv'
    BY <1>4, RecordShapes, ListedRecord, PCFacts, AtHand
    DEF Create, At, Enter, listing, FailedInv, OthersInv, Others, Threads, Listed,
        IndType, CallsOK, StoresOK
  <2>4. QED
    BY <2>1, <2>2, <2>3
<1>5. ASSUME NEW u \in Users, CreateCopyIn(u) PROVE OthersInv' /\ PassInv' /\ FailedInv'
  <2>1. OthersInv'
    BY <1>5
    DEF CreateCopyIn, At, Go, JobRefused, Enter, OthersInv, Others, Threads, IndType,
        CallsOK
  <2>2. PassInv'
    BY <1>5, PCFacts
    DEF CreateCopyIn, At, Go, JobRefused, Enter, listing, PassInv, IndType, CallsOK
  <2>3. FailedInv'
    BY <1>5
    DEF CreateCopyIn, At, Go, JobRefused, Enter, listing, FailedInv, Listed, IndType,
        CallsOK, OthersInv, Others, Threads
  <2>4. QED
    BY <2>1, <2>2, <2>3
<1>6. ASSUME NEW u \in Users, CreateCopyOut(u)
      PROVE  OthersInv' /\ PassInv' /\ FailedInv'
  <2>1. OthersInv'
    BY <1>6
    DEF CreateCopyOut, At, Go, JobRefused, Enter, OthersInv, Others, Threads, IndType,
        CallsOK
  <2>2. PassInv'
    BY <1>6, PCFacts
    DEF CreateCopyOut, At, Go, JobRefused, Enter, listing, PassInv, IndType, CallsOK
  <2>3. FailedInv'
    BY <1>6
    DEF CreateCopyOut, At, Go, JobRefused, Enter, listing, FailedInv, Listed, IndType,
        CallsOK, OthersInv, Others, Threads
  <2>4. QED
    BY <2>1, <2>2, <2>3
<1>7. ASSUME NEW c \in Callers, CallStop(c) PROVE OthersInv' /\ PassInv' /\ FailedInv'
  <2>1. OthersInv'
    BY <1>7 DEF CallStop, At, Enter, OthersInv, Others, Threads, IndType, CallsOK
  <2>2. PassInv'
    BY <1>7, PCFacts DEF CallStop, At, Enter, listing, PassInv, IndType, CallsOK
  <2>3. FailedInv'
    BY <1>7 DEF CallStop, At, Enter, listing, stores, FailedInv, Listed, IndType, CallsOK
  <2>4. QED
    BY <2>1, <2>2, <2>3
<1>8. ASSUME NEW c \in Callers, CallDelete(c) PROVE OthersInv' /\ PassInv' /\ FailedInv'
  <2>1. OthersInv'
    BY <1>8 DEF CallDelete, At, Enter, OthersInv, Others, Threads, IndType, CallsOK
  <2>2. PassInv'
    BY <1>8, PCFacts DEF CallDelete, At, Enter, listing, PassInv, IndType, CallsOK
  <2>3. FailedInv'
    BY <1>8
    DEF CallDelete, At, Enter, listing, stores, FailedInv, Listed, IndType, CallsOK
  <2>4. QED
    BY <2>1, <2>2, <2>3
<1>9. ASSUME ReapList PROVE OthersInv' /\ PassInv' /\ FailedInv'
  <2>1. OthersInv'
    BY <1>9 DEF ReapList, At, Go, Enter, OthersInv, Others, Threads, IndType, CallsOK
  <2>2. PassInv'
    BY <1>9, PCFacts DEF ReapList, At, Go, Enter, PassInv, IndType, CallsOK
  <2>3. FailedInv'
    BY <1>9, RecordShapes
    DEF ReapList, At, Go, Enter, stores, FailedInv, Listed, IndType, CallsOK
  <2>4. QED
    BY <2>1, <2>2, <2>3
<1>10. ASSUME ReapJob PROVE OthersInv' /\ PassInv' /\ FailedInv'
  <2>1. OthersInv'
    BY <1>10 DEF ReapJob, At, Enter, OthersInv, Others, Threads, IndType, CallsOK
  <2>2. PassInv'
    BY <1>10, PCFacts, RecordShapes
    DEF ReapJob, At, Enter, PassInv, IndType, CallsOK, ListingOK
  <2>3. FailedInv'
    BY <1>10, RecordShapes
    DEF ReapJob, At, Enter, stores, FailedInv, Listed, IndType, CallsOK
  <2>4. QED
    BY <2>1, <2>2, <2>3
<1>11. ASSUME ReapTaken PROVE OthersInv' /\ PassInv' /\ FailedInv'
  <2>1. OthersInv'
    BY <1>11 DEF ReapTaken, At, Go, Enter, OthersInv, Others, Threads, IndType, CallsOK
  <2>2. PassInv'
    BY <1>11, PCFacts DEF ReapTaken, At, Go, Enter, PassInv, IndType, CallsOK
  <2>3. FailedInv'
    BY <1>11 DEF ReapTaken, At, Go, Enter, stores, FailedInv, Listed, IndType, CallsOK
  <2>4. QED
    BY <2>1, <2>2, <2>3
<1>12. ASSUME Sweep PROVE OthersInv' /\ PassInv' /\ FailedInv'
  <2>1. OthersInv'
    BY <1>12 DEF Sweep, calls, OthersInv
  <2>2. PassInv'
    BY <1>12 DEF Sweep, calls, listing, PassInv
  <2>3. FailedInv'
    BY <1>12 DEF Sweep, calls, listing, FailedInv, Listed
  <2>4. QED
    BY <2>1, <2>2, <2>3
<1>13. ASSUME ReapEnds PROVE OthersInv' /\ PassInv' /\ FailedInv'
  <2>1. OthersInv'
    BY <1>13 DEF ReapEnds, At, Enter, OthersInv, Others, Threads, IndType, CallsOK
  <2>2. PassInv'
    BY <1>13, PCFacts DEF ReapEnds, At, Enter, DropListing, PassInv, IndType, CallsOK
  <2>3. FailedInv'
    BY <1>13
    DEF ReapEnds, At, Enter, DropListing, stores, FailedInv, Listed, IndType, CallsOK,
        OthersInv, Others, Threads
  <2>4. QED
    BY <2>1, <2>2, <2>3
<1>14. ASSUME Restart PROVE OthersInv' /\ PassInv' /\ FailedInv'
  <2>1. OthersInv'
    BY <1>14 DEF Restart, At, OthersInv, Others, Threads, IndType, CallsOK
  <2>2. PassInv'
    BY <1>14, PCFacts DEF Restart, At, DropListing, PassInv, IndType, CallsOK
  <2>3. FailedInv'
    BY <1>14
    DEF Restart, At, DropListing, stores, FailedInv, Listed, IndType, CallsOK,
        OthersInv, Others, Threads
  <2>4. QED
    BY <2>1, <2>2, <2>3
<1>15. ASSUME Tick PROVE OthersInv' /\ PassInv' /\ FailedInv'
  <2>1. OthersInv'
    BY <1>15 DEF Tick, calls, OthersInv
  <2>2. PassInv'
    BY <1>15 DEF Tick, calls, listing, PassInv
  <2>3. FailedInv'
    BY <1>15 DEF Tick, calls, listing, FailedInv, Listed
  <2>4. QED
    BY <2>1, <2>2, <2>3
<1>16. ASSUME NEW t \in Threads, AdvanceInputs(t)
       PROVE  OthersInv' /\ PassInv' /\ FailedInv'
  <2>1. OthersInv'
    BY <1>16
    DEF AdvanceInputs, At, Go, Return, Enter, OthersInv, Others, Threads, IndType,
        CallsOK
  <2>2. PassInv'
    BY <1>16, PCFacts
    DEF AdvanceInputs, At, Go, Return, Enter, listing, PassInv, IndType, CallsOK
  <2>3. FailedInv'
    BY <1>16
    DEF AdvanceInputs, At, Go, Return, Enter, listing, stores, FailedInv, Listed,
        IndType, CallsOK, OthersInv, Others, Threads
  <2>4. QED
    BY <2>1, <2>2, <2>3
<1>17. ASSUME NEW t \in Threads, Resume(t) PROVE OthersInv' /\ PassInv' /\ FailedInv'
  <2>a. /\ t \in Threads /\ pc[t] = "resuming" /\ job[t] \in Jobs
        /\ Return(t) /\ UNCHANGED listing
        /\ \/ UNCHANGED rayjob
           \/ /\ Listed(job[t])
              /\ \E new : /\ rayjob' = [rayjob EXCEPT ![job[t]] = new]
                          /\ new.output = rayjob[job[t]].output
    <3>1. t \in Threads /\ pc[t] = "resuming" /\ job[t] \in Jobs
      BY <1>17, PCFacts, AtHand DEF Resume, At, IndType
    <3>2. CASE PatchRefused(t)
      BY <1>17, <3>1, <3>2 DEF Resume, PatchRefused
    <3>3. CASE ~PatchRefused(t)
      <4> DEFINE r == rayjob[job[t]]
                 new == Staged(r, "running", r.stopped, r.output, FALSE)
      <4>1. Patch(job[t], new) /\ Return(t)
        BY <1>17, <3>3 DEF Resume
      <4>2. r \in Record
        BY <3>1, <4>1, ListedRecord DEF Patch, IndType
      <4>3. new.output = r.output
        BY DEF Staged
      <4> HIDE DEF new
      <4> QED
        BY <1>17, <3>1, <4>1, <4>3 DEF Resume, Patch
    <3> QED
      BY <3>2, <3>3
  <2>1. OthersInv'
    BY <2>a DEF OthersInv, Return, Enter, IndType, CallsOK, Threads, Others
  <2>2. PassInv'
    BY <2>a DEF PassInv, Return, Enter, IndType, CallsOK, Threads, listing, OnJob
  <2>3. FailedInv'
    BY <2>a DEF FailedInv, Return, Enter, IndType, CallsOK, Threads, listing,
                StoresOK, Listed
  <2>4. QED
    BY <2>1, <2>2, <2>3
<1>18. ASSUME NEW t \in Threads, AdvanceRunning(t)
       PROVE  OthersInv' /\ PassInv' /\ FailedInv'
  <2>1. OthersInv'
    BY <1>18
    DEF AdvanceRunning, At, Ended, PatchRefused, Go, Return, Enter, OthersInv, Others,
        Threads, IndType, CallsOK
  <2>2. PassInv'
    BY <1>18, PCFacts
    DEF AdvanceRunning, At, Ended, PatchRefused, Go, Return, Enter, listing, PassInv,
        IndType, CallsOK
  <2>3. FailedInv'
    BY <1>18, RecordShapes, ListedRecord, PCFacts, AtHand
    DEF AdvanceRunning, At, Ended, PatchRefused, Go, Return, Enter, Patch, listing,
        FailedInv, OthersInv, Others, Threads, Listed, IndType, CallsOK, StoresOK
  <2>4. QED
    BY <2>1, <2>2, <2>3
<1>19. ASSUME NEW t \in Threads, StopSuspend(t)
       PROVE  OthersInv' /\ PassInv' /\ FailedInv'
  <2>1. OthersInv'
    BY <1>19
    DEF StopSuspend, At, PatchRefused, Go, Return, Enter, OthersInv, Others, Threads,
        IndType, CallsOK
  <2>2. PassInv'
    BY <1>19, PCFacts
    DEF StopSuspend, At, PatchRefused, Go, Return, Enter, listing, PassInv, IndType,
        CallsOK
  <2>3. FailedInv'
    BY <1>19, RecordShapes, ListedRecord, PCFacts, AtHand
    DEF StopSuspend, At, PatchRefused, Go, Return, Enter, Patch, listing, FailedInv,
        OthersInv, Others, Threads, Listed, IndType, CallsOK, StoresOK
  <2>4. QED
    BY <2>1, <2>2, <2>3
<1>20. ASSUME NEW t \in Threads, StopStage(t) PROVE OthersInv' /\ PassInv' /\ FailedInv'
  <2>1. OthersInv'
    BY <1>20
    DEF StopStage, At, PatchRefused, Return, Enter, OthersInv, Others, Threads, IndType,
        CallsOK
  <2>2. PassInv'
    BY <1>20, PCFacts
    DEF StopStage, At, PatchRefused, Return, Enter, listing, PassInv, IndType, CallsOK
  <2>3. FailedInv'
    BY <1>20, RecordShapes, ListedRecord, PCFacts, AtHand
    DEF StopStage, At, PatchRefused, Return, Enter, Patch, listing, FailedInv,
        OthersInv, Others, Threads, Listed, IndType, CallsOK, StoresOK
  <2>4. QED
    BY <2>1, <2>2, <2>3
<1>21. ASSUME NEW t \in Threads, AdvanceOutputs(t)
       PROVE  OthersInv' /\ PassInv' /\ FailedInv'
  <2>1. OthersInv'
    BY <1>21
    DEF AdvanceOutputs, At, Return, Enter, OthersInv, Others, Threads, IndType, CallsOK
  <2>2. PassInv'
    BY <1>21, PCFacts
    DEF AdvanceOutputs, At, Return, Enter, listing, PassInv, IndType, CallsOK
  <2>3. FailedInv'
    <3>1. t = Reaper
      BY <1>21 DEF AdvanceOutputs, At, OthersInv, Others, Threads
    <3>2. job[t] \in Jobs /\ read[t] \in Record
      BY <1>21, PCFacts, AtHand DEF AdvanceOutputs, At, IndType
    <3>3. WithOutput(read[t], "failed").output = "failed"
      BY <3>2, RecordShapes
    <3> QED
      BY <1>21, <3>1, <3>2, <3>3
      DEF AdvanceOutputs, FailedInv, At, Return, Enter, listing, IndType, CallsOK,
          Listed
  <2>4. QED
    BY <2>1, <2>2, <2>3
<1>22. ASSUME NEW t \in Threads, Finish(t) PROVE OthersInv' /\ PassInv' /\ FailedInv'
  <2>1. OthersInv'
    BY <1>22
    DEF Finish, At, PatchRefused, Return, Enter, OthersInv, Others, Threads, IndType,
        CallsOK
  <2>2. PassInv'
    BY <1>22, PCFacts
    DEF Finish, At, PatchRefused, Return, Enter, listing, PassInv, IndType, CallsOK
  <2>3. FailedInv'
    <3>1. t = Reaper
      BY <1>22 DEF Finish, At, OthersInv, Others, Threads
    <3>2. job[t] \in Jobs /\ read[t] \in Record
      BY <1>22, PCFacts, AtHand DEF Finish, At, IndType
    <3>3. CASE PatchRefused(t)
      BY <1>22, <3>1, <3>3
      DEF Finish, PatchRefused, FailedInv, At, Return, Enter, listing, IndType,
          CallsOK, Listed
    <3>4. CASE ~PatchRefused(t)
      <4> DEFINE r == rayjob[job[t]]
                 output == IF read[t].output = "failed" THEN "failed" ELSE r.output
                 new == Staged(r, "done", r.stopped, output, r.suspend)
      <4>1. /\ Patch(job[t], new)
            /\ Enter(t, "done", job[t], WithSince(read[t], "recent"), why[t])
        BY <1>22, <3>4 DEF Finish
      <4>2. r \in Record
        BY <3>2, <4>1, ListedRecord DEF Patch, IndType
      <4>3. new.output = output
        BY <4>2, RecordShapes
      <4>4. WithSince(read[t], "recent").output = read[t].output
        BY <3>2, RecordShapes
      <4>5. /\ pc[t] = "finishing"
            /\ seen[job[t]] # NoRecord
            /\ job[t] \notin todo
        BY <1>22, <3>1, PCFacts DEF Finish, At, PassInv
      <4> HIDE DEF new
      <4> QED
        BY <1>22, <3>1, <3>2, <4>1, <4>3, <4>4, <4>5
        DEF Finish, FailedInv, Patch, Enter, listing, IndType, CallsOK, Listed,
            StoresOK
    <3> QED
      BY <3>3, <3>4
  <2>4. QED
    BY <2>1, <2>2, <2>3
<1>23. ASSUME NEW t \in Threads, AdvanceDone(t)
       PROVE  OthersInv' /\ PassInv' /\ FailedInv'
  <2>1. OthersInv'
    BY <1>23
    DEF AdvanceDone, At, Go, Return, Enter, OthersInv, Others, Threads, IndType, CallsOK
  <2>2. PassInv'
    BY <1>23, PCFacts
    DEF AdvanceDone, At, Go, Return, Enter, listing, PassInv, IndType, CallsOK
  <2>3. FailedInv'
    BY <1>23
    DEF AdvanceDone, At, Go, Return, Enter, listing, FailedInv, Listed, IndType,
        CallsOK, OthersInv, Others, Threads
  <2>4. QED
    BY <2>1, <2>2, <2>3
<1>24. ASSUME NEW t \in Threads, DeleteRayJob(t)
       PROVE  OthersInv' /\ PassInv' /\ FailedInv'
  <2>1. OthersInv'
    BY <1>24 DEF DeleteRayJob, At, Go, Enter, OthersInv, Others, Threads, IndType, CallsOK
  <2>2. PassInv'
    BY <1>24, PCFacts DEF DeleteRayJob, At, Go, Enter, listing, PassInv, IndType, CallsOK
  <2>3. FailedInv'
    BY <1>24
    DEF DeleteRayJob, At, Go, Enter, listing, FailedInv, Listed, IndType, CallsOK,
        StoresOK
  <2>4. QED
    BY <2>1, <2>2, <2>3
<1>25. ASSUME NEW t \in Threads, DeleteCopyJobs(t)
       PROVE  OthersInv' /\ PassInv' /\ FailedInv'
  <2>1. OthersInv'
    BY <1>25
    DEF DeleteCopyJobs, At, Go, Enter, OthersInv, Others, Threads, IndType, CallsOK
  <2>2. PassInv'
    BY <1>25, PCFacts
    DEF DeleteCopyJobs, At, Go, Enter, listing, PassInv, IndType, CallsOK
  <2>3. FailedInv'
    BY <1>25
    DEF DeleteCopyJobs, At, Go, Enter, listing, FailedInv, Listed, IndType, CallsOK
  <2>4. QED
    BY <2>1, <2>2, <2>3
<1>26. ASSUME NEW t \in Threads, DeletePrefix(t)
       PROVE  OthersInv' /\ PassInv' /\ FailedInv'
  <2>1. OthersInv'
    BY <1>26
    DEF DeletePrefix, At, Return, Enter, OthersInv, Others, Threads, IndType, CallsOK
  <2>2. PassInv'
    BY <1>26, PCFacts
    DEF DeletePrefix, At, Return, Enter, listing, PassInv, IndType, CallsOK
  <2>3. FailedInv'
    BY <1>26
    DEF DeletePrefix, At, Return, Enter, listing, FailedInv, Listed, IndType, CallsOK
  <2>4. QED
    BY <2>1, <2>2, <2>3
<1>27. ASSUME NEW t \in Threads, Fails(t) PROVE OthersInv' /\ PassInv' /\ FailedInv'
  <2>1. OthersInv'
    BY <1>27 DEF Fails, At, Return, Enter, OthersInv, Others, Threads, IndType, CallsOK
  <2>2. PassInv'
    BY <1>27, PCFacts
    DEF Fails, At, Return, Enter, DropListing, listing, PassInv, IndType, CallsOK,
        OthersInv, Others, Threads
  <2>3. FailedInv'
    BY <1>27
    DEF Fails, At, Return, Enter, DropListing, listing, stores, FailedInv, Listed,
        IndType, CallsOK, OthersInv, Others, Threads
  <2>4. QED
    BY <2>1, <2>2, <2>3
<1>28. ASSUME NEW j \in Jobs, KubeRay(j) PROVE OthersInv' /\ PassInv' /\ FailedInv'
  <2>1. OthersInv'
    BY <1>28 DEF KubeRay, calls, SetPhase, OthersInv
  <2>2. PassInv'
    BY <1>28 DEF KubeRay, calls, SetPhase, listing, PassInv
  <2>3. FailedInv'
    BY <1>28, RecordShapes, ListedRecord
    DEF KubeRay, calls, SetPhase, listing, FailedInv, Listed, IndType, StoresOK
  <2>4. QED
    BY <2>1, <2>2, <2>3
<1>29. ASSUME NEW j \in Jobs, JobEnds(j) PROVE OthersInv' /\ PassInv' /\ FailedInv'
  <2>1. OthersInv'
    BY <1>29 DEF JobEnds, calls, SetPhase, OthersInv
  <2>2. PassInv'
    BY <1>29 DEF JobEnds, calls, SetPhase, listing, PassInv
  <2>3. FailedInv'
    BY <1>29, RecordShapes, ListedRecord
    DEF JobEnds, calls, SetPhase, listing, FailedInv, Listed, IndType, StoresOK
  <2>4. QED
    BY <2>1, <2>2, <2>3
<1>30. ASSUME NEW j \in Jobs, WriteOutput(j) PROVE OthersInv' /\ PassInv' /\ FailedInv'
  <2>1. OthersInv'
    BY <1>30 DEF WriteOutput, calls, OthersInv
  <2>2. PassInv'
    BY <1>30 DEF WriteOutput, calls, PassInv
  <2>3. FailedInv'
    BY <1>30 DEF WriteOutput, calls, FailedInv, Listed
  <2>4. QED
    BY <2>1, <2>2, <2>3
<1>31. ASSUME NEW j \in Jobs, CopyInEnds(j) PROVE OthersInv' /\ PassInv' /\ FailedInv'
  <2>1. OthersInv'
    BY <1>31 DEF CopyInEnds, calls, OthersInv
  <2>2. PassInv'
    BY <1>31 DEF CopyInEnds, calls, PassInv
  <2>3. FailedInv'
    BY <1>31 DEF CopyInEnds, calls, FailedInv, Listed
  <2>4. QED
    BY <2>1, <2>2, <2>3
<1>32. ASSUME NEW j \in Jobs, CopyOutEnds(j) PROVE OthersInv' /\ PassInv' /\ FailedInv'
  <2>1. OthersInv'
    BY <1>32 DEF CopyOutEnds, calls, OthersInv
  <2>2. PassInv'
    BY <1>32 DEF CopyOutEnds, calls, listing, PassInv
  <2>3. FailedInv'
    BY <1>32 DEF CopyOutEnds, calls, listing, FailedInv, Listed
  <2>4. QED
    BY <2>1, <2>2, <2>3
<1>33. ASSUME NEW j \in Jobs, RecordAges(j) PROVE OthersInv' /\ PassInv' /\ FailedInv'
  <2>1. OthersInv'
    BY <1>33 DEF RecordAges, calls, OthersInv
  <2>2. PassInv'
    BY <1>33 DEF RecordAges, calls, listing, PassInv
  <2>3. FailedInv'
    BY <1>33, RecordShapes, ListedRecord
    DEF RecordAges, calls, listing, FailedInv, Listed, IndType, StoresOK
  <2>4. QED
    BY <2>1, <2>2, <2>3
<1>34. CASE UNCHANGED vars
  BY <1>34 DEF vars, stores, calls, listing, OthersInv, PassInv, FailedInv, Listed
<1>35. QED
  BY <1>1, <1>2, <1>3, <1>4, <1>5, <1>6, <1>7, <1>8, <1>9, <1>10, <1>11, <1>12, <1>13,
     <1>14, <1>15, <1>16, <1>17, <1>18, <1>19, <1>20, <1>21, <1>22, <1>23, <1>24, <1>25,
     <1>26, <1>27, <1>28, <1>29, <1>30, <1>31, <1>32, <1>33, <1>34
  DEF Next, Submission, Call, Reap, Step, External

-----------------------------------------------------------------------------

\* The type invariant, as strengthened by what each program point has at hand.
LEMMA TypeInvariant == Spec => []IndType
BY InitType, StepType, PTL DEF Spec

\* What every coroutine knows of a marked job, always.
LEMMA FailedInvariant == Spec => []IndFailed
<1>1. Init => IndFailed
  BY InitType, InitFailed DEF IndFailed
<1> QED
  BY <1>1, StepFailed, PTL DEF Spec

\* Whatever coroutines, failures and restarts do, every object and every
\* coroutine's copy of it has its type: no stage but the four advance_nrp knows.
THEOREM TypeCorrect == Spec => []TypeOK
<1>1. IndType => TypeOK
  BY DEF IndType, CallsOK, ListingOK, StoresOK, MemoryOK, TypeOK, Names, MaybeRecord
<1> QED
  BY <1>1, TypeInvariant, PTL

\* A step that empties the prefix of a job marked as failed is delete_nrp's.
LEMMA StepKeepsFailed == IndFailed /\ [Next]_vars => [FailedOutputsStayStep]_vars
<1> SUFFICES ASSUME IndFailed, Next, NEW j \in Jobs, Listed(j),
                    rayjob[j].output = "failed", prefix[j] # {}, prefix'[j] = {}
             PROVE  Deleting(j)
  BY DEF FailedOutputsStayStep
<1>1. \A i \in Jobs : \A part : Put(i, part) => prefix'[j] # {}
  BY DEF Put, IndFailed, IndType, StoresOK
<1>2. \A t \in Threads : ~AdvanceDone(t)
  <2> SUFFICES ASSUME NEW t \in Threads, AdvanceDone(t) PROVE FALSE
    OBVIOUS
  <2>1. job[t] = j /\ read[t].output # "failed"
    BY DEF AdvanceDone, ToClean, IndFailed, IndType, StoresOK
  <2>2. t = Reaper
    BY DEF AdvanceDone, At, IndFailed, OthersInv, Others, Threads
  <2> QED
    BY <2>1, <2>2 DEF AdvanceDone, At, IndFailed, FailedInv
<1>3. ~Sweep
  BY DEF Sweep, At, Untaken, IndFailed, PassInv, FailedInv, IndType, StoresOK
<1>4. ASSUME NEW t \in Threads, DeletePrefix(t) PROVE Deleting(j)
  BY <1>4 DEF DeletePrefix, Deleting, At, IndFailed, IndType, StoresOK
<1> QED
  BY <1>1, <1>2, <1>3, <1>4
  DEF Next, Submission, Call, Reap, Step, External, CheckPackage, Upload, Submit,
      Create, CreateCopyIn, CreateCopyOut, CallStop, CallDelete, ReapList, ReapJob,
      ReapTaken, ReapEnds, Restart, Tick, AdvanceInputs, Resume, AdvanceRunning,
      StopSuspend, StopStage, AdvanceOutputs, Finish, DeleteRayJob, DeleteCopyJobs,
      Fails, KubeRay, JobEnds, SetPhase, WriteOutput, CopyInEnds, CopyOutEnds,
      RecordAges, stores

\* Outputs that could not be copied back stay on NRP until the job is deleted:
\* no pass on an older listing, no late call and no sweep takes them.
THEOREM FailedOutputsKept == Spec => FailedOutputsStay
BY FailedInvariant, StepKeepsFailed, PTL DEF Spec, FailedOutputsStay

-----------------------------------------------------------------------------
(* Names: one submission has a job's name, until its RayJob is there. *)

Works(t, j) == pc[t] \in OnJob /\ job[t] = j

\* No object of the job but what was uploaded.
Unborn(j) == ~Listed(j) /\ copyIn[j] = "none" /\ seen[j] = NoRecord

\* A name not made yet, or that uploads wait under, is nobody's job so far, and
\* no two users' uploads wait under one name.
NameInv ==
  /\ \A u \in Users : waiting[u] \in Jobs => waiting[u] \in used
  /\ \A u, v \in Users : waiting[u] \in Jobs /\ waiting[u] = waiting[v] => u = v
  /\ \A j \in Jobs : j \notin used \/ Awaited(j) =>
       Unborn(j) /\ \A t \in Threads : ~Works(t, j)

\* A submission alone works on its name until it created the RayJob, and
\* creates <name>-in once.
SubmitInv ==
  \A t \in Threads :
    /\ pc[t] = "posting" =>
         /\ job[t] \in used /\ ~Awaited(job[t]) /\ Unborn(job[t])
         /\ \A s \in Threads \ {t} : ~Works(s, job[t])
    /\ pc[t] = "post_in" =>
         /\ copyIn[job[t]] = "none"
         /\ \A s \in Threads \ {t} : ~(pc[s] = "post_in" /\ job[s] = job[t])

OrderInv == NameInv /\ SubmitInv
IndOrder == IndType /\ OrderInv

\* A step that makes no name, creates no RayJob and no copy of inputs keeps names
\* apart, if its coroutine t takes up no job that is not there.
LEMMA OrderKept ==
  ASSUME IndType, IndType', OrderInv, NEW t \in Threads,
         used' = used, waiting' = waiting,
         \A j \in Jobs : Listed(j)' => Listed(j),
         \A j \in Jobs : \/ copyIn'[j] = copyIn[j]
                         \/ copyIn[j] = "running"
                         \/ copyIn'[j] = "none",
         \A j \in Jobs : seen'[j] # NoRecord => seen[j] # NoRecord \/ Listed(j),
         \A s \in Threads \ {t} : pc'[s] = pc[s] /\ job'[s] = job[s],
         \/ pc'[t] = pc[t] /\ job'[t] = job[t]
         \/ /\ pc'[t] \in OnJob => \/ Works(t, job'[t])
                                   \/ Listed(job'[t])
                                   \/ seen[job'[t]] # NoRecord
            /\ pc'[t] \notin {"posting", "post_in"}
  PROVE  OrderInv'
<1> USE PCFacts
<1>1. NameInv'
  BY DEF OrderInv, NameInv, Awaited, Unborn, Works, Listed, IndType, CallsOK, StoresOK
<1>2. SubmitInv'
  BY DEF OrderInv, SubmitInv, NameInv, Awaited, Unborn, Works, Listed, IndType, CallsOK,
         StoresOK
<1> QED
  BY <1>1, <1>2 DEF OrderInv

\* No name is made at the start.
LEMMA InitOrder == Init => OrderInv
BY ThreadsDistinct
DEF Init, OrderInv, NameInv, SubmitInv, Awaited, Unborn, Works, Listed, OnJob, PCs,
    Threads

\* Every step keeps names apart.
LEMMA StepOrder == IndOrder /\ [Next]_vars => IndOrder'
<1> SUFFICES ASSUME IndOrder, [Next]_vars PROVE OrderInv'
  BY StepType DEF IndOrder
<1>0. IndType /\ OrderInv /\ IndType'
  BY StepType DEF IndOrder
<1> USE PCFacts, ThreadsDistinct
<1>1. ASSUME NEW u \in Users, NEW j \in Jobs, Await(u, j), At(u, "idle"),
             UNCHANGED <<rayjob, copyIn, seen, pc, job>>
      PROVE  OrderInv'
  <2>1. j \notin used \/ Awaited(j)
    BY <1>1 DEF Await, NameOf, Fresh, Awaited
  <2>2. Unborn(j) /\ \A t \in Threads : ~Works(t, j)
    BY <2>1, <1>0 DEF OrderInv, NameInv
  <2>3. \A v \in Users \ {u} : waiting[v] # j
    BY <1>0, <1>1 DEF OrderInv, NameInv, Await, NameOf, Fresh, IndType, MemoryOK
  <2>4. \A v \in Users : waiting'[v] = IF v = u THEN j ELSE waiting[v]
    BY <1>0, <1>1 DEF Await, IndType, MemoryOK
  <2>5. NameInv'
    BY <1>0, <1>1, <2>2, <2>3, <2>4
    DEF OrderInv, NameInv, Await, Awaited, Unborn, Works, Listed
  <2>6. SubmitInv'
    BY <1>0, <1>1, <2>2, <2>4
    DEF OrderInv, SubmitInv, Await, Awaited, Unborn, Works, Listed
  <2> QED
    BY <2>5, <2>6 DEF OrderInv
<1>2. ASSUME NEW u \in Users, CheckPackage(u) \/ Upload(u) PROVE OrderInv'
  BY <1>1, <1>2 DEF CheckPackage, Upload, stores, calls, listing
<1>3. ASSUME NEW u \in Users, Submit(u) PROVE OrderInv'
  <2>1. PICK j \in Jobs : /\ j \in NameOf(u)
                          /\ used' = used \cup {j}
                          /\ Enter(u, "posting", j, NoRecord, "no")
    BY <1>3 DEF Submit
  <2>2. j \notin used \/ Awaited(j)
    BY <2>1 DEF NameOf, Fresh, Awaited
  <2>3. Unborn(j) /\ \A t \in Threads : ~Works(t, j)
    BY <2>2, <1>0 DEF OrderInv, NameInv
  <2>4. \A v \in Users \ {u} : waiting[v] # j
    BY <1>0, <2>1 DEF OrderInv, NameInv, NameOf, Fresh, IndType, MemoryOK
  <2>5. \A v \in Users : waiting'[v] = IF v = u THEN None ELSE waiting[v]
    BY <1>0, <1>3 DEF Submit, IndType, MemoryOK
  <2>6. /\ pc'[u] = "posting" /\ job'[u] = j
        /\ \A t \in Threads \ {u} : pc'[t] = pc[t] /\ job'[t] = job[t]
    BY <1>0, <2>1 DEF Enter, IndType, CallsOK
  <2>7. UNCHANGED <<rayjob, copyIn, seen>>
    BY <1>3 DEF Submit, stores, listing
  <2>8. NameInv'
    BY <1>0, <2>1, <2>3, <2>4, <2>5, <2>6, <2>7
    DEF OrderInv, NameInv, Awaited, Unborn, Works, Listed
  <2>9. SubmitInv'
    <3>1. j \in used' /\ ~Awaited(j)' /\ Unborn(j)'
      BY <2>1, <2>3, <2>4, <2>5, <2>7 DEF Awaited, Unborn, Listed
    <3>2. \A t \in Threads \ {u} : pc[t] \in OnJob => job[t] # j
      BY <2>3 DEF Works
    <3>3. \A i \in Jobs : ~Awaited(i) => ~Awaited(i)'
      BY <2>5 DEF Awaited
    <3> QED
      BY <1>0, <2>1, <2>6, <2>7, <3>1, <3>2, <3>3, AtHand
      DEF OrderInv, SubmitInv, Unborn, Works, Listed, IndType
  <2> QED
    BY <2>8, <2>9 DEF OrderInv
<1>4. ASSUME NEW u \in Users, Create(u) PROVE OrderInv'
  <2>1. /\ pc[u] = "posting" /\ job[u] \in Jobs /\ job[u] \in used
        /\ ~Awaited(job[u]) /\ Unborn(job[u])
        /\ \A s \in Threads \ {u} : ~Works(s, job[u])
    BY <1>0, <1>4, AtHand DEF Create, At, OrderInv, SubmitInv, IndType
  <2>2. /\ pc'[u] \in {"post_in", "post_out", "advance"} /\ job'[u] = job[u]
        /\ \A t \in Threads \ {u} : pc'[t] = pc[t] /\ job'[t] = job[t]
    BY <1>0, <1>4 DEF Create, Enter, IndType, CallsOK
  <2>3. \A j \in Jobs \ {job[u]} : rayjob'[j] = rayjob[j]
    BY <1>0, <1>4 DEF Create, IndType, StoresOK
  <2>4. UNCHANGED <<copyIn, seen, waiting, used>>
    BY <1>4 DEF Create, names, listing, counters
  <2>5. \A t \in Threads \ {u} : pc[t] \in OnJob => job[t] \in Jobs \ {job[u]}
    BY <1>0, <2>1, AtHand DEF Works, IndType
  <2>6. NameInv'
    BY <1>0, <2>1, <2>2, <2>3, <2>4
    DEF OrderInv, NameInv, Awaited, Unborn, Works, Listed
  <2>7. SubmitInv'
    BY <1>0, <2>1, <2>2, <2>3, <2>4, <2>5
    DEF OrderInv, SubmitInv, Awaited, Unborn, Works, Listed
  <2> QED
    BY <2>6, <2>7 DEF OrderInv
<1>5. ASSUME NEW u \in Users, CreateCopyIn(u) PROVE OrderInv'
  <2>1. /\ pc[u] = "post_in" /\ job[u] \in Jobs /\ copyIn[job[u]] = "none"
        /\ \A s \in Threads \ {u} : ~(pc[s] = "post_in" /\ job[s] = job[u])
    BY <1>0, <1>5, AtHand DEF CreateCopyIn, At, OrderInv, SubmitInv, IndType
  <2>2. /\ pc'[u] \in {"post_out", "advance", "suspending"} /\ job'[u] = job[u]
        /\ \A t \in Threads \ {u} : pc'[t] = pc[t] /\ job'[t] = job[t]
    BY <1>0, <1>5 DEF CreateCopyIn, Go, JobRefused, Enter, IndType, CallsOK
  <2>3. \A j \in Jobs \ {job[u]} : copyIn'[j] = copyIn[j]
    BY <1>0, <1>5 DEF CreateCopyIn, IndType, StoresOK
  <2>4. UNCHANGED <<rayjob, seen, waiting, used>>
    BY <1>5 DEF CreateCopyIn, names, listing
  <2>5. ~Awaited(job[u]) /\ job[u] \in used
    BY <1>0, <2>1 DEF OrderInv, NameInv, Works
  <2>6. NameInv'
    BY <1>0, <2>1, <2>2, <2>3, <2>4, <2>5
    DEF OrderInv, NameInv, Awaited, Unborn, Works, Listed
  <2>7. SubmitInv'
    <3>1. \A t \in Threads : pc[t] = "posting" => job[t] # job[u]
      BY <1>0, <2>1 DEF OrderInv, SubmitInv, Works
    <3> QED
      BY <1>0, <2>1, <2>2, <2>3, <2>4, <3>1, AtHand
      DEF OrderInv, SubmitInv, Awaited, Unborn, Works, Listed, IndType
  <2> QED
    BY <2>6, <2>7 DEF OrderInv
<1>6. ASSUME NEW u \in Users, CreateCopyOut(u) PROVE OrderInv'
  BY <1>0, <1>6, OrderKept, AtHand
  DEF CreateCopyOut, At, Go, JobRefused, Enter, names, listing, Works, Listed,
      IndType, CallsOK, StoresOK
<1>7. ASSUME NEW c \in Callers, CallStop(c) PROVE OrderInv'
  BY <1>0, <1>7, OrderKept, AtHand
  DEF CallStop, At, Enter, stores, names, listing, counters, Works, Listed,
      IndType, CallsOK, StoresOK
<1>8. ASSUME NEW c \in Callers, CallDelete(c) PROVE OrderInv'
  BY <1>0, <1>8, OrderKept, AtHand
  DEF CallDelete, At, Enter, stores, names, listing, counters, Works, Listed,
      IndType, CallsOK, StoresOK
<1>9. ASSUME NEW t \in Threads, AdvanceInputs(t) PROVE OrderInv'
  BY <1>0, <1>9, OrderKept, AtHand
  DEF AdvanceInputs, At, Go, Return, Enter, stores, names, listing,
      counters, Works, Listed, IndType, CallsOK, StoresOK
<1>10. ASSUME NEW t \in Threads, Resume(t) PROVE OrderInv'
  <2>1. Return(t) /\ \A j \in Jobs : Listed(j)' => Listed(j)
    BY <1>0, <1>10 DEF Resume, Patch, PatchRefused, Listed, IndType, StoresOK
  <2>2. /\ pc'[t] \in {"idle", "looping"}
        /\ \A s \in Threads \ {t} : pc'[s] = pc[s] /\ job'[s] = job[s]
    BY <1>0, <2>1 DEF Return, Enter, IndType, CallsOK
  <2>3. UNCHANGED <<copyIn, seen, waiting, used>>
    BY <1>10 DEF Resume, names, listing, counters
  <2> QED
    BY <1>0, <2>1, <2>2, <2>3, OrderKept
<1>11. ASSUME NEW t \in Threads, AdvanceRunning(t) PROVE OrderInv'
  BY <1>0, <1>11, OrderKept, AtHand
  DEF AdvanceRunning, At, Go, Return, Enter, Patch, PatchRefused, names, listing,
      counters, Works, Listed, IndType, CallsOK, StoresOK
<1>12. ASSUME NEW t \in Threads, StopSuspend(t) PROVE OrderInv'
  BY <1>0, <1>12, OrderKept, AtHand
  DEF StopSuspend, At, Go, Return, Enter, Patch, PatchRefused, names, listing, counters,
      Works, Listed, IndType, CallsOK, StoresOK
<1>13. ASSUME NEW t \in Threads, StopStage(t) PROVE OrderInv'
  BY <1>0, <1>13, OrderKept, AtHand
  DEF StopStage, At, Return, Enter, Patch, PatchRefused, names, listing, counters,
      Works, Listed, IndType, CallsOK, StoresOK
<1>14. ASSUME NEW t \in Threads, AdvanceOutputs(t) PROVE OrderInv'
  BY <1>0, <1>14, OrderKept, AtHand
  DEF AdvanceOutputs, At, Return, Enter, names, listing, counters, Works, Listed,
      IndType, CallsOK, StoresOK
<1>15. ASSUME NEW t \in Threads, Finish(t) PROVE OrderInv'
  BY <1>0, <1>15, OrderKept, AtHand
  DEF Finish, At, Return, Enter, Patch, PatchRefused, names, listing, counters, Works,
      Listed, IndType, CallsOK, StoresOK
<1>16. ASSUME NEW t \in Threads, AdvanceDone(t) PROVE OrderInv'
  BY <1>0, <1>16, OrderKept, AtHand
  DEF AdvanceDone, At, Go, Return, Enter, names, listing, counters, Works, Listed,
      IndType, CallsOK, StoresOK
<1>17. ASSUME NEW t \in Threads, DeleteRayJob(t) PROVE OrderInv'
  <2>1. /\ pc[t] = "del_rayjob" /\ pc'[t] = "del_jobs" /\ job'[t] = job[t]
        /\ \A s \in Threads \ {t} : pc'[s] = pc[s] /\ job'[s] = job[s]
    BY <1>0, <1>17 DEF DeleteRayJob, At, Go, Enter, IndType, CallsOK
  <2>2. \A j \in Jobs : Listed(j)' => Listed(j)
    BY <1>0, <1>17 DEF DeleteRayJob, Listed, IndType, StoresOK
  <2>3. UNCHANGED <<copyIn, seen, waiting, used>>
    BY <1>17 DEF DeleteRayJob, names, listing
  <2> QED
    BY <1>0, <2>1, <2>2, <2>3, OrderKept DEF Works
<1>18. ASSUME NEW t \in Threads, DeleteCopyJobs(t) PROVE OrderInv'
  BY <1>0, <1>18, OrderKept, AtHand
  DEF DeleteCopyJobs, At, Go, Enter, names, listing, counters, Works,
      Listed, IndType, CallsOK, StoresOK
<1>19. ASSUME NEW t \in Threads, DeletePrefix(t) PROVE OrderInv'
  BY <1>0, <1>19, OrderKept, AtHand
  DEF DeletePrefix, At, Return, Enter, names, listing, counters, Works, Listed,
      IndType, CallsOK, StoresOK
<1>20. ASSUME NEW t \in Threads, Fails(t) PROVE OrderInv'
  BY <1>0, <1>20, OrderKept, AtHand
  DEF Fails, At, Return, Enter, DropListing, stores, names, listing, Works, Listed,
      IndType, CallsOK, StoresOK
<1>21. ASSUME ReapList PROVE OrderInv'
  BY <1>0, <1>21, OrderKept
  DEF ReapList, At, Go, Enter, stores, names, counters, Works, Listed,
      IndType, CallsOK, StoresOK
<1>22. ASSUME ReapJob PROVE OrderInv'
  <2>1. PICK j \in todo : Enter(Reaper, "advance", j, seen[j], "no")
    BY <1>22 DEF ReapJob
  <2>2. j \in Jobs /\ seen[j] # NoRecord
    BY <1>0, RecordShapes DEF IndType, ListingOK
  <2>3. /\ pc'[Reaper] = "advance" /\ job'[Reaper] = j
        /\ \A s \in Threads \ {Reaper} : pc'[s] = pc[s] /\ job'[s] = job[s]
    BY <1>0, <2>1 DEF Enter, IndType, CallsOK
  <2>4. UNCHANGED <<rayjob, copyIn, seen, waiting, used>>
    BY <1>22 DEF ReapJob, stores, names, counters
  <2> QED
    BY <1>0, <2>2, <2>3, <2>4, OrderKept DEF Listed
<1>23. ASSUME ReapTaken PROVE OrderInv'
  BY <1>0, <1>23, OrderKept
  DEF ReapTaken, At, Go, Enter, stores, names, counters, Works, Listed,
      IndType, CallsOK, StoresOK
<1>24. ASSUME Sweep PROVE OrderInv'
  BY <1>0, <1>24, OrderKept
  DEF Sweep, names, calls, listing, counters, Works, Listed,
      IndType, CallsOK, StoresOK
<1>25. ASSUME ReapEnds PROVE OrderInv'
  BY <1>0, <1>25, OrderKept
  DEF ReapEnds, At, Enter, DropListing, stores, names, counters, Works, Listed,
      IndType, CallsOK, StoresOK
<1>26. ASSUME Tick PROVE OrderInv'
  BY <1>0, <1>26, OrderKept
  DEF Tick, calls, listing, counters, Works, Listed,
      IndType, CallsOK, StoresOK
<1>27. ASSUME Restart PROVE OrderInv'
  BY <1>0, <1>27
  DEF Restart, DropListing, stores, OrderInv, NameInv, SubmitInv, Awaited, Unborn,
      Works, Listed, OnJob, PCs
<1>28. ASSUME NEW j \in Jobs, KubeRay(j) PROVE OrderInv'
  BY <1>0, <1>28, OrderKept
  DEF KubeRay, SetPhase, names, calls, listing, counters, Listed, IndType, CallsOK,
      StoresOK
<1>29. ASSUME NEW j \in Jobs, JobEnds(j) PROVE OrderInv'
  BY <1>0, <1>29, OrderKept
  DEF JobEnds, SetPhase, names, calls, listing, counters, Listed, IndType, CallsOK,
      StoresOK
<1>30. ASSUME NEW j \in Jobs, WriteOutput(j) PROVE OrderInv'
  BY <1>0, <1>30, OrderKept
  DEF WriteOutput, Put, names, calls, counters, Listed, IndType, CallsOK, StoresOK
<1>31. ASSUME NEW j \in Jobs, CopyInEnds(j) PROVE OrderInv'
  BY <1>0, <1>31, OrderKept
  DEF CopyInEnds, Put, names, calls, counters, Listed, IndType, CallsOK, StoresOK
<1>32. ASSUME NEW j \in Jobs, CopyOutEnds(j) PROVE OrderInv'
  BY <1>0, <1>32, OrderKept
  DEF CopyOutEnds, names, calls, listing, counters, Listed, IndType, CallsOK, StoresOK
<1>33. ASSUME NEW j \in Jobs, RecordAges(j) PROVE OrderInv'
  BY <1>0, <1>33, OrderKept
  DEF RecordAges, names, calls, listing, counters, Listed, IndType, CallsOK, StoresOK
<1>34. ASSUME UNCHANGED vars PROVE OrderInv'
  BY <1>0, <1>34, OrderKept DEF vars, stores, names, calls, listing, counters, Listed
<1> QED
  BY <1>2, <1>3, <1>4, <1>5, <1>6, <1>7, <1>8, <1>9, <1>10,
     <1>11, <1>12, <1>13, <1>14, <1>15, <1>16, <1>17, <1>18, <1>19,
     <1>20, <1>21, <1>22, <1>23, <1>24, <1>25, <1>26, <1>27, <1>28,
     <1>29, <1>30, <1>31, <1>32, <1>33, <1>34
  DEF Next, Submission, Call, Reap, Step, External

\* ... always.
LEMMA OrderInvariant == Spec => []IndOrder
<1>1. Init => IndOrder
  BY InitType, InitOrder DEF IndOrder
<1> QED
  BY <1>1, StepOrder, PTL DEF Spec

-----------------------------------------------------------------------------
(* A job's cluster waits for its inputs, where no DELETE of a RayJob fails:  *)
(* delete_nrp goes on after one that does, and then a pass may resume a job  *)
(* whose inputs it deletes.                                                  *)

RayJobDeleted ==
  \A t \in Threads :
    At(t, "del_rayjob") /\ pc'[t] = "del_jobs" => rayjob'[job[t]] = NoRecord
DeletesWork == [][RayJobDeleted]_vars

\* Whoever is about to resume a job finds its inputs copied, or the job gone,
\* since its copies go after its RayJob.
ResumeInv ==
  \A t \in Threads :
    /\ pc[t] = "resuming" => copyIn[job[t]] = "succeeded" \/ ~Listed(job[t])
    /\ pc[t] = "del_jobs" => ~Listed(job[t])

IndResume == IndOrder /\ ResumeInv

\* A step of coroutine t, or of none, that creates nothing, and deletes no copy of
\* a RayJob that is there, keeps what the others know of the jobs they resume.
LEMMA ResumeKept ==
  ASSUME IndType, ResumeInv, NEW t \in Threads,
         \A j \in Jobs : Listed(j)' => Listed(j),
         \A j \in Jobs : \/ copyIn'[j] = copyIn[j]
                         \/ copyIn[j] = "running"
                         \/ ~Listed(j)',
         \A s \in Threads \ {t} : pc'[s] = pc[s] /\ job'[s] = job[s],
         \/ pc'[t] = pc[t] /\ job'[t] = job[t]
         \/ /\ pc'[t] = "resuming" => copyIn'[job'[t]] = "succeeded"
            /\ pc'[t] = "del_jobs" => rayjob'[job'[t]] = NoRecord
  PROVE  ResumeInv'
BY PCFacts DEF ResumeInv, Listed, IndType, CallsOK

\* Every step keeps it, if the DELETEs of RayJobs do their work.
LEMMA StepResume == IndResume /\ [Next]_vars /\ [RayJobDeleted]_vars => IndResume'
<1> SUFFICES ASSUME IndResume, [Next]_vars, [RayJobDeleted]_vars PROVE ResumeInv'
  BY StepOrder DEF IndResume
<1>0. IndType /\ OrderInv /\ ResumeInv
  BY DEF IndResume, IndOrder
<1> USE PCFacts, ThreadsDistinct
<1>1. ASSUME NEW u \in Users, Create(u) PROVE ResumeInv'
  <2>1. /\ pc[u] = "posting" /\ job[u] \in Jobs
        /\ \A s \in Threads \ {u} : ~Works(s, job[u])
    BY <1>0, <1>1, AtHand DEF Create, At, OrderInv, SubmitInv, IndType
  <2>2. /\ pc'[u] \in {"post_in", "post_out", "advance"}
        /\ \A t \in Threads \ {u} : pc'[t] = pc[t] /\ job'[t] = job[t]
    BY <1>0, <1>1 DEF Create, Enter, IndType, CallsOK
  <2>3. copyIn' = copyIn /\ \A j \in Jobs \ {job[u]} : rayjob'[j] = rayjob[j]
    BY <1>0, <1>1 DEF Create, IndType, StoresOK
  <2>4. \A t \in Threads \ {u} : pc[t] \in OnJob => job[t] \in Jobs \ {job[u]}
    BY <1>0, <2>1, AtHand DEF Works, IndType
  <2> QED
    BY <1>0, <2>2, <2>3, <2>4 DEF ResumeInv, Listed
<1>2. ASSUME NEW u \in Users, CreateCopyIn(u) PROVE ResumeInv'
  <2>1. pc[u] = "post_in" /\ job[u] \in Jobs /\ copyIn[job[u]] = "none"
    BY <1>0, <1>2, AtHand DEF CreateCopyIn, At, OrderInv, SubmitInv, IndType
  <2>2. /\ pc'[u] \in {"post_out", "advance", "suspending"} /\ rayjob' = rayjob
        /\ \A t \in Threads \ {u} : pc'[t] = pc[t] /\ job'[t] = job[t]
    BY <1>0, <1>2 DEF CreateCopyIn, Go, JobRefused, Enter, IndType, CallsOK
  <2>3. \A j \in Jobs \ {job[u]} : copyIn'[j] = copyIn[j]
    BY <1>0, <1>2 DEF CreateCopyIn, IndType, StoresOK
  <2> QED
    BY <1>0, <2>1, <2>2, <2>3, AtHand DEF ResumeInv, Listed, IndType
<1>3. ASSUME NEW t \in Threads, DeleteRayJob(t) PROVE ResumeInv'
  <2>1. /\ pc[t] = "del_rayjob" /\ pc'[t] = "del_jobs" /\ job'[t] = job[t]
        /\ \A s \in Threads \ {t} : pc'[s] = pc[s] /\ job'[s] = job[s]
    BY <1>0, <1>3 DEF DeleteRayJob, At, Go, Enter, IndType, CallsOK
  <2>2. rayjob'[job[t]] = NoRecord
    BY <2>1 DEF RayJobDeleted, At, vars, calls
  <2>3. copyIn' = copyIn /\ \A j \in Jobs : Listed(j)' => Listed(j)
    BY <1>0, <1>3 DEF DeleteRayJob, Listed, IndType, StoresOK
  <2> QED
    BY <1>0, <2>1, <2>2, <2>3, ResumeKept
<1>4. ASSUME NEW t \in Threads, Resume(t) PROVE ResumeInv'
  <2>1. Return(t) /\ \A j \in Jobs : Listed(j)' => Listed(j)
    BY <1>0, <1>4 DEF Resume, Patch, PatchRefused, Listed, IndType, StoresOK
  <2>2. /\ pc'[t] \in {"idle", "looping"} /\ copyIn' = copyIn
        /\ \A s \in Threads \ {t} : pc'[s] = pc[s] /\ job'[s] = job[s]
    BY <1>0, <1>4, <2>1 DEF Resume, Return, Enter, IndType, CallsOK
  <2> QED
    BY <1>0, <2>1, <2>2, ResumeKept
<1>5. ASSUME Restart PROVE ResumeInv'
  BY <1>5 DEF Restart, ResumeInv
<1>6. ASSUME NEW u \in Users, CheckPackage(u) PROVE ResumeInv'
  BY <1>0, <1>6, ResumeKept, AtHand
  DEF CheckPackage, stores, calls, Listed, IndType, CallsOK, StoresOK
<1>7. ASSUME NEW u \in Users, Upload(u) PROVE ResumeInv'
  BY <1>0, <1>7, ResumeKept, AtHand
  DEF Upload, calls, Listed, IndType, CallsOK, StoresOK
<1>8. ASSUME NEW u \in Users, Submit(u) PROVE ResumeInv'
  BY <1>0, <1>8, ResumeKept, AtHand
  DEF Submit, Enter, stores, Listed, IndType, CallsOK, StoresOK
<1>9. ASSUME NEW u \in Users, CreateCopyOut(u) PROVE ResumeInv'
  BY <1>0, <1>9, ResumeKept, AtHand
  DEF CreateCopyOut, Go, JobRefused, Enter, Listed, IndType, CallsOK, StoresOK
<1>10. ASSUME NEW c \in Callers, CallStop(c) PROVE ResumeInv'
  BY <1>0, <1>10, ResumeKept, AtHand
  DEF CallStop, Enter, stores, Listed, IndType, CallsOK, StoresOK
<1>11. ASSUME NEW c \in Callers, CallDelete(c) PROVE ResumeInv'
  BY <1>0, <1>11, ResumeKept, AtHand
  DEF CallDelete, Enter, stores, Listed, IndType, CallsOK, StoresOK
<1>12. ASSUME NEW t \in Threads, AdvanceInputs(t) PROVE ResumeInv'
  BY <1>0, <1>12, ResumeKept, AtHand
  DEF AdvanceInputs, Go, Return, Enter, InputsThere, stores, Listed, IndType, CallsOK,
      StoresOK
<1>13. ASSUME NEW t \in Threads, AdvanceRunning(t) PROVE ResumeInv'
  BY <1>0, <1>13, ResumeKept, AtHand
  DEF AdvanceRunning, Go, Return, Enter, Patch, PatchRefused, Listed, IndType,
      CallsOK, StoresOK
<1>14. ASSUME NEW t \in Threads, StopSuspend(t) PROVE ResumeInv'
  BY <1>0, <1>14, ResumeKept, AtHand
  DEF StopSuspend, Go, Return, Enter, Patch, PatchRefused, Listed, IndType, CallsOK,
      StoresOK
<1>15. ASSUME NEW t \in Threads, StopStage(t) PROVE ResumeInv'
  BY <1>0, <1>15, ResumeKept, AtHand
  DEF StopStage, Return, Enter, Patch, PatchRefused, Listed, IndType, CallsOK,
      StoresOK
<1>16. ASSUME NEW t \in Threads, AdvanceOutputs(t) PROVE ResumeInv'
  BY <1>0, <1>16, ResumeKept, AtHand
  DEF AdvanceOutputs, Return, Enter, Listed, IndType, CallsOK, StoresOK
<1>17. ASSUME NEW t \in Threads, Finish(t) PROVE ResumeInv'
  BY <1>0, <1>17, ResumeKept, AtHand
  DEF Finish, Return, Enter, Patch, PatchRefused, Listed, IndType, CallsOK, StoresOK
<1>18. ASSUME NEW t \in Threads, AdvanceDone(t) PROVE ResumeInv'
  BY <1>0, <1>18, ResumeKept, AtHand
  DEF AdvanceDone, Go, Return, Enter, Listed, IndType, CallsOK, StoresOK
<1>19. ASSUME NEW t \in Threads, DeleteCopyJobs(t) PROVE ResumeInv'
  BY <1>0, <1>19, ResumeKept, AtHand
  DEF DeleteCopyJobs, At, Go, Enter, ResumeInv, Listed, IndType, CallsOK, StoresOK
<1>20. ASSUME NEW t \in Threads, DeletePrefix(t) PROVE ResumeInv'
  BY <1>0, <1>20, ResumeKept, AtHand
  DEF DeletePrefix, Return, Enter, Listed, IndType, CallsOK, StoresOK
<1>21. ASSUME NEW t \in Threads, Fails(t) PROVE ResumeInv'
  BY <1>0, <1>21, ResumeKept, AtHand
  DEF Fails, Return, Enter, stores, Listed, IndType, CallsOK, StoresOK
<1>22. ASSUME ReapList PROVE ResumeInv'
  BY <1>0, <1>22, ResumeKept, AtHand
  DEF ReapList, Go, Enter, stores, Listed, IndType, CallsOK, StoresOK
<1>23. ASSUME ReapJob PROVE ResumeInv'
  BY <1>0, <1>23, ResumeKept, AtHand
  DEF ReapJob, Enter, stores, Listed, IndType, CallsOK, StoresOK
<1>24. ASSUME ReapTaken PROVE ResumeInv'
  BY <1>0, <1>24, ResumeKept, AtHand
  DEF ReapTaken, Go, Enter, stores, Listed, IndType, CallsOK, StoresOK
<1>25. ASSUME Sweep PROVE ResumeInv'
  BY <1>0, <1>25, ResumeKept, AtHand
  DEF Sweep, calls, Listed, IndType, CallsOK, StoresOK
<1>26. ASSUME ReapEnds PROVE ResumeInv'
  BY <1>0, <1>26, ResumeKept, AtHand
  DEF ReapEnds, Enter, stores, Listed, IndType, CallsOK, StoresOK
<1>27. ASSUME Tick PROVE ResumeInv'
  BY <1>0, <1>27, ResumeKept, AtHand
  DEF Tick, calls, Listed, IndType, CallsOK, StoresOK
<1>28. ASSUME NEW j \in Jobs, KubeRay(j) PROVE ResumeInv'
  BY <1>0, <1>28, ResumeKept, AtHand
  DEF KubeRay, SetPhase, calls, Listed, IndType, CallsOK, StoresOK
<1>29. ASSUME NEW j \in Jobs, JobEnds(j) PROVE ResumeInv'
  BY <1>0, <1>29, ResumeKept, AtHand
  DEF JobEnds, SetPhase, calls, Listed, IndType, CallsOK, StoresOK
<1>30. ASSUME NEW j \in Jobs, WriteOutput(j) PROVE ResumeInv'
  BY <1>0, <1>30, ResumeKept, AtHand
  DEF WriteOutput, calls, Listed, IndType, CallsOK, StoresOK
<1>31. ASSUME NEW j \in Jobs, CopyInEnds(j) PROVE ResumeInv'
  BY <1>0, <1>31, ResumeKept, AtHand
  DEF CopyInEnds, calls, Listed, IndType, CallsOK, StoresOK
<1>32. ASSUME NEW j \in Jobs, CopyOutEnds(j) PROVE ResumeInv'
  BY <1>0, <1>32, ResumeKept, AtHand
  DEF CopyOutEnds, calls, Listed, IndType, CallsOK, StoresOK
<1>33. ASSUME NEW j \in Jobs, RecordAges(j) PROVE ResumeInv'
  BY <1>0, <1>33, ResumeKept, AtHand
  DEF RecordAges, calls, Listed, IndType, CallsOK, StoresOK
<1>34. ASSUME UNCHANGED vars PROVE ResumeInv'
  BY <1>0, <1>34, ResumeKept, AtHand
  DEF vars, stores, calls, Listed, IndType, CallsOK, StoresOK
<1> QED
  BY <1>1, <1>2, <1>3, <1>4, <1>5, <1>6, <1>7, <1>8, <1>9, <1>10,
     <1>11, <1>12, <1>13, <1>14, <1>15, <1>16, <1>17, <1>18, <1>19, <1>20,
     <1>21, <1>22, <1>23, <1>24, <1>25, <1>26, <1>27, <1>28, <1>29, <1>30,
     <1>31, <1>32, <1>33, <1>34
  DEF Next, Submission, Call, Reap, Step, External

\* A step that lets a job with inputs run is a resumption, which has them.
LEMMA StepRuns == IndResume /\ [Next]_vars => [InputsBeforeClusterStep]_vars
<1> SUFFICES ASSUME IndResume, Next, NEW j \in Jobs, LetRun(j)', ~LetRun(j),
                    rayjob'[j].inputs
             PROVE  copyIn[j] = "succeeded"
  BY DEF InputsBeforeClusterStep
<1>0. rayjob'[j] # rayjob[j]
  BY DEF LetRun, Listed
<1>1. ASSUME NEW t \in Threads, Resume(t) PROVE copyIn[j] = "succeeded"
  <2>1. job[t] = j /\ Listed(j) /\ pc[t] = "resuming"
    BY <1>0, <1>1
    DEF Resume, Patch, PatchRefused, At, IndResume, IndOrder, IndType, StoresOK
  <2> QED
    BY <2>1 DEF IndResume, ResumeInv
<1>2. ASSUME NEW u \in Users, Create(u) PROVE FALSE
  <2>1. PICK d \in Data : rayjob'[j] = NewRecord(d, prefix[job[u]])
    BY <1>0, <1>2 DEF Create, IndResume, IndOrder, IndType, StoresOK
  <2> DEFINE named == "inputs" \in d
             stage == IF named THEN "inputs" ELSE "running"
             output == IF "output" \in d THEN "true" ELSE ""
             code == "code" \in prefix[job[u]]
  <2>2. named \in BOOLEAN
    OBVIOUS
  <2>3. rayjob'[j] = [stage |-> stage, since |-> "recent", stopped |-> "no",
                      output |-> output, suspend |-> named, inputs |-> named,
                      code |-> code, phase |-> "new"]
    BY <2>1, Zenon DEF NewRecord
  <2> HIDE DEF named, stage, output, code
  <2>4. rayjob'[j].suspend = named /\ rayjob'[j].inputs = named
    BY <2>3
  <2> QED
    BY <2>2, <2>4 DEF LetRun
<1>3. ASSUME Listed(j), rayjob'[j].suspend = rayjob[j].suspend PROVE FALSE
  BY <1>3 DEF LetRun, Listed
<1>4. ASSUME Listed(j), rayjob'[j] = Suspended(rayjob[j]) PROVE FALSE
  BY <1>4, ListedRecord DEF LetRun, Suspended, Record, IndResume, IndOrder, IndType
<1>5. ASSUME NEW p, Listed(j), rayjob'[j] = WithPhase(rayjob[j], p) PROVE FALSE
  BY <1>3, <1>5, ListedRecord DEF WithPhase, Record, IndResume, IndOrder, IndType
<1>6. ASSUME NEW t \in Threads, AdvanceRunning(t) PROVE FALSE
  BY <1>0, <1>3, <1>6
  DEF AdvanceRunning, Patch, PatchRefused, Staged, IndResume, IndOrder, IndType, StoresOK
<1>7. ASSUME NEW t \in Threads, StopSuspend(t) PROVE FALSE
  BY <1>0, <1>4, <1>7
  DEF StopSuspend, Patch, PatchRefused, IndResume, IndOrder, IndType, StoresOK
<1>8. ASSUME NEW t \in Threads, StopStage(t) PROVE FALSE
  BY <1>0, <1>3, <1>8
  DEF StopStage, Patch, PatchRefused, Staged, IndResume, IndOrder, IndType, StoresOK
<1>9. ASSUME NEW t \in Threads, Finish(t) PROVE FALSE
  BY <1>0, <1>3, <1>9
  DEF Finish, Patch, PatchRefused, Staged, IndResume, IndOrder, IndType, StoresOK
<1>10. ASSUME NEW t \in Threads, DeleteRayJob(t) PROVE FALSE
  BY <1>0, <1>10 DEF DeleteRayJob, LetRun, Listed, IndResume, IndOrder, IndType, StoresOK
<1>11. ASSUME NEW i \in Jobs, KubeRay(i) \/ JobEnds(i) PROVE FALSE
  BY <1>0, <1>5, <1>11
  DEF KubeRay, JobEnds, SetPhase, Listed, IndResume, IndOrder, IndType, StoresOK
<1>12. ASSUME NEW i \in Jobs, RecordAges(i) PROVE FALSE
  <2>1. i = j /\ Listed(j) /\ rayjob'[j] = WithSince(rayjob[j], "long")
    BY <1>0, <1>12 DEF RecordAges, IndResume, IndOrder, IndType, StoresOK
  <2> QED
    BY <1>3, <2>1, ListedRecord DEF WithSince, Record, IndResume, IndOrder, IndType
<1> QED
  BY <1>0, <1>1, <1>2, <1>6, <1>7, <1>8, <1>9, <1>10, <1>11, <1>12
  DEF Next, Submission, Call, Reap, Step, External, CheckPackage, Upload, Submit,
      CreateCopyIn, CreateCopyOut, CallStop, CallDelete, ReapList, ReapJob, ReapTaken,
      Sweep, ReapEnds, Restart, Tick, AdvanceInputs, AdvanceOutputs, AdvanceDone,
      DeleteCopyJobs, DeletePrefix, Fails, WriteOutput, CopyInEnds, CopyOutEnds, stores

\* A job that names inputs is let run only once they are on S3, whoever resumes it
\* and whatever else failed or restarted, as long as every DELETE of a RayJob that
\* delete_nrp sends does its work: it does not look at the answer.
THEOREM InputsAwaited == Spec /\ DeletesWork => InputsBeforeCluster
<1>1. Init => IndResume
  BY InitType, InitOrder DEF IndResume, IndOrder, Init, ResumeInv
<1>2. Spec /\ DeletesWork => []IndResume
  BY <1>1, StepResume, PTL DEF Spec, DeletesWork
<1> QED
  BY <1>2, StepRuns, PTL DEF Spec, InputsBeforeCluster

-----------------------------------------------------------------------------
(* A stop stays a stop, where no job names inputs: with them a pass that read  *)
(* the job before the stop may resume it.                                      *)

InputsUnnamed == \A d \in Data : "inputs" \notin d

\* Nothing is at stage inputs, as anybody read it, so nothing is resumed.
NoInputsInv ==
  /\ InputsUnnamed
  /\ \A j \in Jobs : Listed(j) => rayjob[j].stage # "inputs"
  /\ \A j \in Jobs : seen[j] # NoRecord => seen[j].stage # "inputs"
  /\ \A t \in Threads : pc[t] \in OnRead => read[t].stage # "inputs"
  /\ \A t \in Threads : pc[t] # "resuming"

\* Whoever stops a job read it before it ended, and suspends it before it says
\* why.
StopInv ==
  \A t \in Threads :
    /\ pc[t] = "suspending" => ~Ended(read[t])
    /\ pc[t] = "stopping" => ~Listed(job[t]) \/ rayjob[job[t]].suspend

IndStop == IndOrder /\ IndFailed /\ NoInputsInv /\ StopInv /\ StoppedIsSuspended

\* What each change of a record leaves of a stop.
LEMMA StopShapes ==
  /\ \A r \in Record, b \in BOOLEAN :
       \A st, w, o : /\ Staged(r, st, w, o, b).suspend = b
                     /\ Staged(r, st, w, o, b).stage = st
                     /\ Staged(r, st, w, o, b).stopped = w
                     /\ Staged(r, st, w, o, b).phase = r.phase
  /\ \A r \in Record :
       /\ Suspended(r).suspend
       /\ Suspended(r).stage = r.stage /\ Suspended(r).phase = r.phase
       /\ Suspended(r).stopped = r.stopped
       /\ \A p : /\ WithPhase(r, p).suspend = r.suspend /\ WithPhase(r, p).phase = p
                 /\ WithPhase(r, p).stage = r.stage
                 /\ WithPhase(r, p).stopped = r.stopped
       /\ \A n : /\ WithSince(r, n).suspend = r.suspend
                 /\ WithSince(r, n).phase = r.phase /\ WithSince(r, n).stage = r.stage
                 /\ WithSince(r, n).stopped = r.stopped
       /\ \A o : WithOutput(r, o).stage = r.stage
  /\ \A d, files : /\ NewRecord(d, files).stopped = "no"
                   /\ "inputs" \notin d => NewRecord(d, files).stage = "running"
<1>1. ASSUME NEW r \in Record, NEW b \in BOOLEAN, NEW st, NEW w, NEW o
      PROVE  /\ Staged(r, st, w, o, b).suspend = b
             /\ Staged(r, st, w, o, b).stage = st
             /\ Staged(r, st, w, o, b).stopped = w
             /\ Staged(r, st, w, o, b).phase = r.phase
  BY DEF Staged
<1>2. ASSUME NEW r \in Record
      PROVE  /\ Suspended(r).suspend
             /\ Suspended(r).stage = r.stage /\ Suspended(r).phase = r.phase
             /\ Suspended(r).stopped = r.stopped
  BY DEF Suspended, Record
<1>3. ASSUME NEW r \in Record, NEW p
      PROVE  /\ WithPhase(r, p).suspend = r.suspend /\ WithPhase(r, p).phase = p
             /\ WithPhase(r, p).stage = r.stage
             /\ WithPhase(r, p).stopped = r.stopped
  BY DEF WithPhase, Record
<1>4. ASSUME NEW r \in Record, NEW n
      PROVE  /\ WithSince(r, n).suspend = r.suspend
             /\ WithSince(r, n).phase = r.phase /\ WithSince(r, n).stage = r.stage
             /\ WithSince(r, n).stopped = r.stopped
             /\ WithOutput(r, n).stage = r.stage
  BY DEF WithSince, WithOutput, Record
<1>5. ASSUME NEW d, NEW files
      PROVE  /\ NewRecord(d, files).stopped = "no"
             /\ "inputs" \notin d => NewRecord(d, files).stage = "running"
  BY DEF NewRecord
<1> QED
  BY <1>1, <1>2, <1>3, <1>4, <1>5

\* A job changes as a stop allows: it stays suspended and ended if it was, and is
\* marked as stopped only where it is suspended.
StopHeld(j) ==
  Listed(j)' =>
    /\ Listed(j)
    /\ rayjob'[j].stage # "inputs"
    /\ rayjob[j].suspend => rayjob'[j].suspend
    /\ rayjob[j].phase = "ended" => rayjob'[j].phase = "ended"
    /\ rayjob'[j].stopped # "no" => rayjob[j].stopped # "no" \/ rayjob'[j].suspend

\* A coroutine goes on to what is known at its next point.
StopKnown(t) ==
  /\ pc'[t] \in OnRead => read'[t].stage # "inputs"
  /\ pc'[t] # "resuming"
  /\ pc'[t] = "suspending" => read'[t].phase # "ended"
  /\ pc'[t] = "stopping" =>
       rayjob'[job'[t]] = NoRecord \/ rayjob'[job'[t]].suspend

\* A step of coroutine t that changes jobs so keeps stops.
LEMMA StopKept ==
  ASSUME IndStop, NEW t \in Threads,
         \A j \in Jobs : StopHeld(j),
         \A j \in Jobs : seen'[j] \in {NoRecord, seen[j], rayjob[j]},
         \A s \in Threads \ {t} :
           pc'[s] = pc[s] /\ job'[s] = job[s] /\ read'[s] = read[s],
         \/ pc'[t] = pc[t] /\ job'[t] = job[t] /\ read'[t] = read[t]
         \/ StopKnown(t)
  PROVE  NoInputsInv' /\ StopInv' /\ StoppedIsSuspended'
<1> USE PCFacts DEF IndStop
<1>1. NoInputsInv'
  BY DEF NoInputsInv, StopHeld, StopKnown, Listed, InputsUnnamed
<1>2. StopInv'
  BY AtHand DEF StopInv, StopHeld, StopKnown, Listed, Ended, IndOrder, IndType
<1>3. StoppedIsSuspended'
  BY DEF StoppedIsSuspended, HasEnded, StopHeld, Listed
<1> QED
  BY <1>1, <1>2, <1>3

\* A step that leaves the RayJobs alone, or deletes one, changes jobs so.
LEMMA HeldAlone ==
  ASSUME NoInputsInv, NEW j \in Jobs, rayjob'[j] \in {rayjob[j], NoRecord}
  PROVE  StopHeld(j)
BY DEF StopHeld, NoInputsInv, Listed

\* ... and so do a patch of the stage, KubeRay and time.
LEMMA HeldChanged ==
  ASSUME IndType, NoInputsInv, NEW j \in Jobs, Listed(j),
         \/ \E st \in Stages \ {"inputs"} : \E o :
              rayjob'[j] = Staged(rayjob[j], st, rayjob[j].stopped, o, rayjob[j].suspend)
         \/ \E p : rayjob[j].phase # "ended" /\ rayjob'[j] = WithPhase(rayjob[j], p)
         \/ rayjob'[j] = Suspended(rayjob[j])
         \/ rayjob'[j] = WithSince(rayjob[j], "long")
  PROVE  StopHeld(j)
<1>1. rayjob[j] \in Record /\ rayjob[j].suspend \in BOOLEAN /\ rayjob[j].stage # "inputs"
  BY ListedRecord, FieldType DEF IndType, NoInputsInv
<1> QED
  BY <1>1, StopShapes DEF StopHeld, Listed

\* ... and a stop of a job that is suspended.
LEMMA HeldStopped ==
  ASSUME IndType, NEW j \in Jobs, Listed(j), rayjob[j].suspend,
         NEW st \in Stages \ {"inputs"}, NEW w, NEW o,
         rayjob'[j] = Staged(rayjob[j], st, w, o, rayjob[j].suspend)
  PROVE  StopHeld(j)
<1>1. rayjob[j] \in Record /\ rayjob[j].suspend = TRUE
  BY ListedRecord, FieldType DEF IndType
<1>2. rayjob'[j] = Staged(rayjob[j], st, w, o, TRUE)
  BY <1>1, Zenon
<1>3. /\ rayjob'[j].suspend /\ rayjob'[j].stage = st
      /\ rayjob'[j].phase = rayjob[j].phase
  BY <1>2 DEF Staged
<1> QED
  BY <1>3 DEF StopHeld

\* Every step keeps stops.
LEMMA StepStop == IndStop /\ [Next]_vars => IndStop'
<1> DEFINE Goal == NoInputsInv' /\ StopInv' /\ StoppedIsSuspended'
<1> SUFFICES ASSUME IndStop, [Next]_vars PROVE Goal
  BY StepOrder, StepFailed DEF IndStop
<1>0. IndType /\ OrderInv /\ OthersInv /\ NoInputsInv /\ StopInv
  BY DEF IndStop, IndOrder, IndFailed
<1>1. \A t \in Threads : ~AdvanceInputs(t) /\ ~Resume(t)
  BY <1>0, PCFacts DEF AdvanceInputs, Resume, At, NoInputsInv
<1> USE PCFacts, ThreadsDistinct
<1>2. ASSUME NEW u \in Users, Create(u) PROVE Goal
  <2>1. PICK d \in Data :
          /\ rayjob' = [rayjob EXCEPT ![job[u]] = NewRecord(d, prefix[job[u]])]
          /\ \E p \in {"post_in", "post_out", "advance"} :
               Enter(u, p, job[u], NewRecord(d, prefix[job[u]]), "no")
    BY <1>2 DEF Create
  <2>2. /\ job[u] \in Jobs
        /\ \A s \in Threads \ {u} : ~Works(s, job[u])
    BY <1>0, <1>2, AtHand DEF Create, At, OrderInv, SubmitInv, IndType
  <2>3. /\ pc'[u] \in {"post_in", "post_out", "advance"}
        /\ read'[u] = rayjob'[job[u]] /\ seen' = seen
        /\ rayjob'[job[u]].stopped = "no" /\ rayjob'[job[u]].stage = "running"
    BY <1>0, <1>2, <2>1, <2>2, StopShapes
    DEF Create, Enter, listing, IndType, CallsOK, StoresOK, NoInputsInv, InputsUnnamed
  <2>4. \A t \in Threads \ {u} :
          /\ pc'[t] = pc[t] /\ job'[t] = job[t] /\ read'[t] = read[t]
          /\ pc[t] \in OnJob => job[t] \in Jobs \ {job[u]}
    BY <1>0, <2>1, <2>2, AtHand DEF Works, Enter, IndType, CallsOK
  <2>5. \A j \in Jobs \ {job[u]} : rayjob'[j] = rayjob[j]
    BY <1>0, <2>1 DEF IndType, StoresOK
  <2>6. NoInputsInv'
    BY <1>0, <2>3, <2>4, <2>5 DEF NoInputsInv, InputsUnnamed, Listed
  <2>7. StopInv'
    BY <1>0, <2>3, <2>4, <2>5 DEF StopInv, Ended, Listed
  <2>8. StoppedIsSuspended'
    BY <2>3, <2>5 DEF IndStop, StoppedIsSuspended, HasEnded, Listed
  <2> QED
    BY <2>6, <2>7, <2>8
<1>3. ASSUME NEW u \in Users, CheckPackage(u) PROVE Goal
  BY <1>0, <1>3, StopKept, HeldAlone, AtHand
  DEF CheckPackage, stores, calls, listing, StopKnown, IndType, CallsOK, StoresOK
<1>4. ASSUME NEW u \in Users, Upload(u) PROVE Goal
  BY <1>0, <1>4, StopKept, HeldAlone, AtHand
  DEF Upload, calls, StopKnown, IndType, CallsOK, StoresOK
<1>5. ASSUME NEW u \in Users, Submit(u) PROVE Goal
  BY <1>0, <1>5, StopKept, HeldAlone, AtHand
  DEF Submit, Enter, stores, listing, StopKnown, IndType, CallsOK, StoresOK
<1>6. ASSUME NEW u \in Users, CreateCopyIn(u) PROVE Goal
  BY <1>0, <1>6, StopKept, HeldAlone, AtHand
  DEF CreateCopyIn, At, Go, JobRefused, Enter, listing, NoInputsInv, OthersInv,
      Others, StopKnown, IndType, CallsOK, StoresOK
<1>7. ASSUME NEW u \in Users, CreateCopyOut(u) PROVE Goal
  BY <1>0, <1>7, StopKept, HeldAlone, AtHand
  DEF CreateCopyOut, At, Go, JobRefused, Enter, listing, NoInputsInv, OthersInv,
      Others, StopKnown, IndType, CallsOK, StoresOK
<1>8. ASSUME NEW c \in Callers, CallStop(c) PROVE Goal
  BY <1>0, <1>8, StopKept, HeldAlone, AtHand
  DEF CallStop, Enter, Ended, Listed, stores, listing, NoInputsInv, StopKnown,
      IndType, CallsOK, StoresOK
<1>9. ASSUME NEW c \in Callers, CallDelete(c) PROVE Goal
  BY <1>0, <1>9, StopKept, HeldAlone, AtHand
  DEF CallDelete, Enter, stores, listing, StopKnown, IndType, CallsOK, StoresOK
<1>10. ASSUME NEW t \in Threads, AdvanceOutputs(t) PROVE Goal
  BY <1>0, <1>10, StopKept, HeldAlone, AtHand, StopShapes
  DEF AdvanceOutputs, At, Return, Enter, listing, NoInputsInv, StopKnown, IndType,
      CallsOK, StoresOK
<1>11. ASSUME NEW t \in Threads, AdvanceDone(t) PROVE Goal
  BY <1>0, <1>11, StopKept, HeldAlone, AtHand
  DEF AdvanceDone, At, Go, Return, Enter, listing, StopKnown, IndType, CallsOK,
      StoresOK
<1>12. ASSUME NEW t \in Threads, DeleteRayJob(t) PROVE Goal
  BY <1>0, <1>12, StopKept, HeldAlone, AtHand
  DEF DeleteRayJob, Go, Enter, listing, StopKnown, IndType, CallsOK, StoresOK
<1>13. ASSUME NEW t \in Threads, DeleteCopyJobs(t) PROVE Goal
  BY <1>0, <1>13, StopKept, HeldAlone, AtHand
  DEF DeleteCopyJobs, Go, Enter, listing, StopKnown, IndType, CallsOK, StoresOK
<1>14. ASSUME NEW t \in Threads, DeletePrefix(t) PROVE Goal
  BY <1>0, <1>14, StopKept, HeldAlone, AtHand
  DEF DeletePrefix, Return, Enter, listing, StopKnown, IndType, CallsOK, StoresOK
<1>15. ASSUME NEW t \in Threads, Fails(t) PROVE Goal
  BY <1>0, <1>15, StopKept, HeldAlone, AtHand
  DEF Fails, Return, Enter, DropListing, stores, listing, StopKnown, IndType, CallsOK,
      StoresOK
<1>16. ASSUME ReapList PROVE Goal
  BY <1>0, <1>16, StopKept, HeldAlone, AtHand
  DEF ReapList, Go, Enter, stores, StopKnown, IndType, CallsOK, StoresOK
<1>17. ASSUME ReapTaken PROVE Goal
  BY <1>0, <1>17, StopKept, HeldAlone, AtHand
  DEF ReapTaken, Go, Enter, stores, StopKnown, IndType, CallsOK, StoresOK
<1>18. ASSUME Sweep PROVE Goal
  BY <1>0, <1>18, StopKept, HeldAlone, AtHand
  DEF Sweep, calls, listing, StopKnown, IndType, CallsOK, StoresOK
<1>19. ASSUME ReapEnds PROVE Goal
  BY <1>0, <1>19, StopKept, HeldAlone, AtHand
  DEF ReapEnds, Enter, DropListing, stores, StopKnown, IndType, CallsOK, StoresOK
<1>20. ASSUME Tick PROVE Goal
  BY <1>0, <1>20, StopKept, HeldAlone, AtHand
  DEF Tick, calls, listing, StopKnown, IndType, CallsOK, StoresOK
<1>21. ASSUME NEW j \in Jobs, WriteOutput(j) PROVE Goal
  BY <1>0, <1>21, StopKept, HeldAlone, AtHand
  DEF WriteOutput, calls, StopKnown, IndType, CallsOK, StoresOK
<1>22. ASSUME NEW j \in Jobs, CopyInEnds(j) PROVE Goal
  BY <1>0, <1>22, StopKept, HeldAlone, AtHand
  DEF CopyInEnds, calls, StopKnown, IndType, CallsOK, StoresOK
<1>23. ASSUME NEW j \in Jobs, CopyOutEnds(j) PROVE Goal
  BY <1>0, <1>23, StopKept, HeldAlone, AtHand
  DEF CopyOutEnds, calls, listing, StopKnown, IndType, CallsOK, StoresOK
<1>24. ASSUME UNCHANGED vars PROVE Goal
  BY <1>0, <1>24, StopKept, HeldAlone, AtHand
  DEF vars, stores, calls, listing, StopKnown, IndType, CallsOK, StoresOK
<1>25. ASSUME ReapJob PROVE Goal
  <2>1. PICK j \in todo : Enter(Reaper, "advance", j, seen[j], "no")
    BY <1>25 DEF ReapJob
  <2>2. j \in Jobs /\ seen[j] # NoRecord
    BY <1>0, RecordShapes DEF IndType, ListingOK
  <2>3. /\ StopKnown(Reaper)
        /\ \A s \in Threads \ {Reaper} :
             pc'[s] = pc[s] /\ job'[s] = job[s] /\ read'[s] = read[s]
    BY <1>0, <2>1, <2>2 DEF Enter, StopKnown, NoInputsInv, IndType, CallsOK
  <2>4. UNCHANGED <<rayjob, seen>>
    BY <1>25 DEF ReapJob, stores
  <2> QED
    BY <1>0, <2>3, <2>4, StopKept, HeldAlone
<1>26. ASSUME Restart PROVE Goal
  BY <1>0, <1>26
  DEF Restart, DropListing, stores, IndStop, NoInputsInv, InputsUnnamed, StopInv,
      StoppedIsSuspended, HasEnded, Listed
<1>27. ASSUME NEW t \in Threads, AdvanceRunning(t) PROVE Goal
  <2>1. job[t] \in Jobs /\ read[t] \in Record
    BY <1>0, <1>27, AtHand DEF AdvanceRunning, At, IndType
  <2>2. \A j \in Jobs : StopHeld(j)
    BY <1>0, <1>27, <2>1, HeldAlone, HeldChanged
    DEF AdvanceRunning, Patch, PatchRefused, Stages, IndType, StoresOK
  <2>3. /\ StopKnown(t)
        /\ \A s \in Threads \ {t} :
             pc'[s] = pc[s] /\ job'[s] = job[s] /\ read'[s] = read[s]
    BY <1>0, <1>27, <2>1
    DEF AdvanceRunning, At, Go, Return, Enter, PatchRefused, Overdue, GpusIdle, Ended,
        StopKnown, NoInputsInv, IndType, CallsOK
  <2>4. seen' = seen
    BY <1>27 DEF AdvanceRunning, listing
  <2> QED
    BY <1>0, <2>2, <2>3, <2>4, StopKept
<1>28. ASSUME NEW t \in Threads, StopSuspend(t) PROVE Goal
  <2>1. job[t] \in Jobs /\ read[t] \in Record
    BY <1>0, <1>28, AtHand DEF StopSuspend, At, IndType
  <2>2. \A j \in Jobs : StopHeld(j)
    BY <1>0, <1>28, <2>1, HeldAlone, HeldChanged
    DEF StopSuspend, Patch, PatchRefused, IndType, StoresOK
  <2>5. ToSuspend(read[t])
    BY <1>0, <1>28 DEF StopSuspend, At, StopInv, ToSuspend
  <2>6. rayjob[job[t]] \in Record => Suspended(rayjob[job[t]]).suspend
    BY StopShapes
  <2>3. /\ StopKnown(t)
        /\ \A s \in Threads \ {t} :
             pc'[s] = pc[s] /\ job'[s] = job[s] /\ read'[s] = read[s]
    BY <1>0, <1>28, <2>1, <2>5, <2>6, ListedRecord
    DEF StopSuspend, At, Go, Return, Enter, Patch, PatchRefused,
        StopKnown, NoInputsInv, IndType, CallsOK, StoresOK
  <2>4. seen' = seen
    BY <1>28 DEF StopSuspend, listing
  <2> QED
    BY <1>0, <2>2, <2>3, <2>4, StopKept
<1>29. ASSUME NEW t \in Threads, StopStage(t) PROVE Goal
  <2>1. job[t] \in Jobs /\ read[t] \in Record
    BY <1>0, <1>29, AtHand DEF StopStage, At, IndType
  <2>2. \A j \in Jobs : StopHeld(j)
    <3>1. CASE PatchRefused(t)
      BY <1>0, <3>1, HeldAlone DEF PatchRefused
    <3>2. ASSUME Listed(job[t]) PROVE
            /\ rayjob[job[t]] \in Record /\ rayjob[job[t]].suspend = TRUE
            /\ rayjob[job[t]].suspend \in BOOLEAN
      BY <1>0, <1>29, <2>1, <3>2, ListedRecord, FieldType
      DEF StopStage, At, StopInv, IndType
    <3>3. CASE Patch(job[t], Staged(rayjob[job[t]], StopAfter(read[t]), why[t],
                                    rayjob[job[t]].output, rayjob[job[t]].suspend))
      <4>1. /\ Listed(job[t])
            /\ rayjob'[job[t]] = Staged(rayjob[job[t]], StopAfter(read[t]), why[t],
                                        rayjob[job[t]].output, rayjob[job[t]].suspend)
            /\ \A j \in Jobs \ {job[t]} : rayjob'[j] = rayjob[j]
        BY <1>0, <2>1, <3>3 DEF Patch, IndType, StoresOK
      <4>2. StopAfter(read[t]) \in Stages \ {"inputs"}
        BY DEF StopAfter, Stages
      <4>3. rayjob[job[t]].suspend
        BY <4>1, <3>2
      <4>4. StopHeld(job[t])
        BY <1>0, <2>1, <4>1, <4>2, <4>3, HeldStopped
      <4> QED
        BY <1>0, <4>1, <4>4, HeldAlone
    <3> QED
      BY <1>29, <3>1, <3>3 DEF StopStage
  <2>3. /\ StopKnown(t)
        /\ \A s \in Threads \ {t} :
             pc'[s] = pc[s] /\ job'[s] = job[s] /\ read'[s] = read[s]
    BY <1>0, <1>29, <2>1
    DEF StopStage, Return, Enter, PatchRefused, StopKnown, IndType, CallsOK
  <2>4. seen' = seen
    BY <1>29 DEF StopStage, listing
  <2> QED
    BY <1>0, <2>2, <2>3, <2>4, StopKept
<1>30. ASSUME NEW t \in Threads, Finish(t) PROVE Goal
  <2>1. job[t] \in Jobs /\ read[t] \in Record
    BY <1>0, <1>30, AtHand DEF Finish, At, IndType
  <2>2. \A j \in Jobs : StopHeld(j)
    BY <1>0, <1>30, <2>1, HeldAlone, HeldChanged
    DEF Finish, Patch, PatchRefused, Stages, IndType, StoresOK
  <2>3. /\ StopKnown(t)
        /\ \A s \in Threads \ {t} :
             pc'[s] = pc[s] /\ job'[s] = job[s] /\ read'[s] = read[s]
    BY <1>0, <1>30, <2>1, StopShapes
    DEF Finish, At, Return, Enter, PatchRefused, StopKnown, NoInputsInv, IndType, CallsOK
  <2>4. seen' = seen
    BY <1>30 DEF Finish, listing
  <2> QED
    BY <1>0, <2>2, <2>3, <2>4, StopKept
<1>31. ASSUME NEW j \in Jobs, KubeRay(j) PROVE Goal
  <2>1. \A i \in Jobs : StopHeld(i)
    BY <1>0, <1>31, HeldAlone, HeldChanged DEF KubeRay, SetPhase, IndType, StoresOK
  <2> QED
    BY <1>31, <2>1, StopKept DEF KubeRay, SetPhase, calls, listing
<1>32. ASSUME NEW j \in Jobs, JobEnds(j) PROVE Goal
  <2>1. \A i \in Jobs : StopHeld(i)
    BY <1>0, <1>32, HeldAlone, HeldChanged DEF JobEnds, SetPhase, IndType, StoresOK
  <2> QED
    BY <1>32, <2>1, StopKept DEF JobEnds, SetPhase, calls, listing
<1>33. ASSUME NEW j \in Jobs, RecordAges(j) PROVE Goal
  <2>1. \A i \in Jobs : StopHeld(i)
    BY <1>0, <1>33, HeldAlone, HeldChanged DEF RecordAges, IndType, StoresOK
  <2> QED
    BY <1>33, <2>1, StopKept DEF RecordAges, calls, listing
<1> QED
  BY <1>1, <1>2, <1>3, <1>4, <1>5, <1>6, <1>7, <1>8, <1>9, <1>10,
     <1>11, <1>12, <1>13, <1>14, <1>15, <1>16, <1>17, <1>18, <1>19, <1>20,
     <1>21, <1>22, <1>23, <1>24, <1>25, <1>26, <1>27, <1>28, <1>29, <1>30,
     <1>31, <1>32, <1>33
  DEF Next, Submission, Call, Reap, Step, External

\* Where no job names inputs, a stopped job is suspended or had ended, whoever
\* stops it, whichever two stops, passes and deletes meet, and whatever failed or
\* restarted between the two patches of stop_nrp.
THEOREM StopsHold == Spec /\ InputsUnnamed => []StoppedIsSuspended
<1>1. Init /\ InputsUnnamed => IndStop
  BY InitType, InitFailed, InitOrder
  DEF IndStop, IndOrder, IndFailed, Init, NoInputsInv, StopInv, StoppedIsSuspended,
      Listed, OnRead, OnJob, PCs
<1>2. IndStop => StoppedIsSuspended
  BY DEF IndStop
<1> QED
  BY <1>1, <1>2, StepStop, PTL DEF Spec

-----------------------------------------------------------------------------
(* The code of a job stays, where no job names inputs, so that none is set    *)
(* back to running, and no package is asked for, which keeps a name waiting   *)
(* longer than its code.                                                      *)

Unasked == MaxAsks = 0

\* A RayJob that waits for its inputs or its cluster, or runs.
Early(r) == r.stage \in {"inputs", "running"}

\* A coroutine that takes its job for one past that.
Late(t) ==
  \/ pc[t] \in {"outputs", "finishing", "done", "del_rayjob", "del_jobs", "del_prefix"}
  \/ pc[t] = "advance" /\ ~Early(read[t])

\* Who took a job for one past running, and a pass that listed it so, is right.
LateInv ==
  /\ \A t \in Threads : Late(t) => ~Early(rayjob[job[t]])
  /\ \A j \in Jobs : seen[j] # NoRecord /\ ~Early(seen[j]) => ~Early(rayjob[j])

\* A name waits at least as long as its newest upload is old: one whose uploads
\* are old to a pass is given to no submission any more, and the code a
\* submission finds under its name is new to every pass before the RayJob is.
FreshInv ==
  /\ \A u \in Users : waiting[u] \in Jobs =>
       /\ age[waiting[u]] <= since[u]
       /\ waiting[u] \in old => since[u] = 2
  /\ \A u \in Users : pc[u] = "posting" /\ "code" \in prefix[job[u]] =>
       age[job[u]] <= 1 /\ job[u] \notin old
  /\ \A j \in Jobs : j \notin used => prefix[j] = {}

\* Code that a pass finds old is that of a job it listed.
CodeInv ==
  \A j \in Jobs : Early(rayjob[j]) /\ rayjob[j].code =>
    /\ "code" \in prefix[j]
    /\ j \in old => seen[j] # NoRecord

IndCode == IndStop /\ Unasked /\ LateInv /\ FreshInv /\ CodeInv

\* A RayJob is early only if it was, with the same code.
LateHeld(j) ==
  Early(rayjob'[j]) => Early(rayjob[j]) /\ rayjob'[j].code = rayjob[j].code

\* What each change of a record leaves of its stage and its code.
LEMMA CodeShapes ==
  /\ ~Early(NoRecord)
  /\ \A r \in Record :
       /\ \A st, w, o, b : /\ Staged(r, st, w, o, b).stage = st
                           /\ Staged(r, st, w, o, b).code = r.code
       /\ \A x : /\ WithPhase(r, x).stage = r.stage /\ WithPhase(r, x).code = r.code
                 /\ WithSince(r, x).stage = r.stage /\ WithSince(r, x).code = r.code
                 /\ WithOutput(r, x).stage = r.stage
       /\ Suspended(r).stage = r.stage /\ Suspended(r).code = r.code
<1>1. ~Early(NoRecord)  BY DEF Early, NoRecord
<1>2. ASSUME NEW r \in Record, NEW st, NEW w, NEW o, NEW b
      PROVE  Staged(r, st, w, o, b).stage = st /\ Staged(r, st, w, o, b).code = r.code
  BY DEF Staged
<1>3. ASSUME NEW r \in Record, NEW x
      PROVE  /\ WithPhase(r, x).stage = r.stage /\ WithPhase(r, x).code = r.code
             /\ WithSince(r, x).stage = r.stage /\ WithSince(r, x).code = r.code
             /\ WithOutput(r, x).stage = r.stage
  BY DEF WithPhase, WithSince, WithOutput, Record
<1>4. ASSUME NEW r \in Record
      PROVE  Suspended(r).stage = r.stage /\ Suspended(r).code = r.code
  BY DEF Suspended, Record
<1> QED BY <1>1, <1>2, <1>3, <1>4

\* A RayJob left alone, deleted or changed but in its stage, or set to a later
\* one, is early only if it was.
LEMMA LateAlone ==
  ASSUME NEW j \in Jobs, rayjob'[j] \in {rayjob[j], NoRecord}
  PROVE  LateHeld(j)
BY CodeShapes DEF LateHeld

\* ... patched or not.
LEMMA LateChanged ==
  ASSUME IndType, NEW j \in Jobs, Listed(j),
         \/ \E st \in {"outputs", "done"} : \E w, o, b :
              rayjob'[j] = Staged(rayjob[j], st, w, o, b)
         \/ \E p : rayjob'[j] = WithPhase(rayjob[j], p)
         \/ rayjob'[j] = Suspended(rayjob[j])
         \/ rayjob'[j] = WithSince(rayjob[j], "long")
  PROVE  LateHeld(j)
<1>1. rayjob[j] \in Record  BY ListedRecord DEF IndType
<1> QED BY <1>1, CodeShapes DEF LateHeld, Early

\* A step of coroutine t that makes no name, no RayJob, no upload and no listing,
\* and clears no prefix of an early job with code, keeps code where it is.
LEMMA CodeStays ==
  ASSUME IndCode, NEW t \in Threads,
         \A j \in Jobs : LateHeld(j),
         \A j \in Jobs : seen'[j] \in {NoRecord, seen[j]},
         \A j \in Jobs : j \in old' => j \in old /\ seen'[j] = seen[j],
         \A s \in Threads \ {t} :
           pc'[s] = pc[s] /\ job'[s] = job[s] /\ read'[s] = read[s],
         \/ pc'[t] = pc[t] /\ job'[t] = job[t] /\ read'[t] = read[t]
         \/ pc'[t] # "posting" /\ (Late(t)' => ~Early(rayjob'[job'[t]])),
         UNCHANGED <<waiting, since, used, age>>,
         \A j \in Jobs : \/ prefix'[j] = prefix[j]
                         \/ prefix'[j] = {} /\ ~(Early(rayjob[j]) /\ rayjob[j].code)
  PROVE  LateInv' /\ FreshInv' /\ CodeInv'
<1> USE PCFacts
<1>0. IndType  BY DEF IndCode, IndStop, IndOrder
<1>1. LateInv'
  <2>1. ASSUME NEW s \in Threads, Late(s)' PROVE ~Early(rayjob'[job'[s]])
    <3>1. CASE Late(s) /\ job'[s] = job[s]
      <4>1. job[s] \in Jobs  BY <1>0, <3>1, AtHand DEF Late, IndType
      <4>2. ~Early(rayjob[job[s]])  BY <3>1 DEF IndCode, LateInv
      <4> QED BY <3>1, <4>1, <4>2 DEF LateHeld
    <3>2. CASE ~(Late(s) /\ job'[s] = job[s])  BY <2>1, <3>2 DEF Late
    <3> QED BY <3>1, <3>2
  <2>2. ASSUME NEW j \in Jobs, seen'[j] # NoRecord, ~Early(seen'[j])
        PROVE  ~Early(rayjob'[j])
    BY <2>2 DEF IndCode, LateInv, LateHeld
  <2> QED BY <2>1, <2>2 DEF LateInv
<1>2. FreshInv'
  <2>1. \A u \in Users : waiting'[u] \in Jobs =>
          age'[waiting'[u]] <= since'[u] /\ (waiting'[u] \in old' => since'[u] = 2)
    BY DEF IndCode, FreshInv
  <2>2. ASSUME NEW u \in Users, pc'[u] = "posting", "code" \in prefix'[job'[u]]
        PROVE  age'[job'[u]] <= 1 /\ job'[u] \notin old'
    <3>1. pc[u] = "posting" /\ job'[u] = job[u]  BY <2>2
    <3>2. job[u] \in Jobs  BY <1>0, <3>1, AtHand DEF IndType
    <3>3. "code" \in prefix[job[u]]  BY <2>2, <3>1, <3>2
    <3> QED BY <3>1, <3>2, <3>3 DEF IndCode, FreshInv
  <2>3. \A j \in Jobs : j \notin used' => prefix'[j] = {}  BY DEF IndCode, FreshInv
  <2> QED BY <2>1, <2>2, <2>3 DEF FreshInv
<1>3. CodeInv'
  BY DEF IndCode, CodeInv, LateHeld
<1> QED BY <1>1, <1>2, <1>3

\* Code a submission uploads, inputs and outputs come to a prefix as new.
LEMMA CodePut ==
  ASSUME IndCode, NEW j \in Jobs, NEW part, Put(j, part),
         UNCHANGED <<rayjob, seen, pc, job, read>>,
         \/ j \in used /\ UNCHANGED <<waiting, since, used>>
         \/ \E u \in Users : Await(u, j)
  PROVE  LateInv' /\ FreshInv' /\ CodeInv'
<1> USE PCFacts
<1>0. IndType  BY DEF IndCode, IndStop, IndOrder
<1>1. /\ \A i \in Jobs : age'[i] = IF i = j THEN 0 ELSE age[i]
      /\ \A i \in Jobs : prefix'[i] = IF i = j THEN prefix[i] \cup {part} ELSE prefix[i]
      /\ old' = old \ {j}
  BY <1>0 DEF Put, IndType, StoresOK
<1>2. LateInv'  BY DEF IndCode, LateInv, Late
<1>3. /\ \A u \in Users : \/ waiting'[u] = waiting[u] /\ since'[u] = since[u]
                          \/ waiting'[u] = j /\ since'[u] = 0
      /\ used \subseteq used' /\ j \in used'
  BY <1>0 DEF Await, IndType, MemoryOK
<1>4. FreshInv'
  <2>1. ASSUME NEW u \in Users, waiting'[u] \in Jobs
        PROVE  age'[waiting'[u]] <= since'[u] /\ (waiting'[u] \in old' => since'[u] = 2)
    <3>1. since[u] \in 0..2 /\ since'[u] >= 0  BY <1>0, <1>3 DEF IndType, MemoryOK
    <3>2. CASE waiting'[u] = j  BY <1>1, <3>1, <3>2
    <3>3. CASE waiting'[u] # j  BY <1>1, <1>3, <2>1, <3>3 DEF IndCode, FreshInv
    <3> QED BY <3>2, <3>3
  <2>2. ASSUME NEW u \in Users, pc'[u] = "posting", "code" \in prefix'[job'[u]]
        PROVE  age'[job'[u]] <= 1 /\ job'[u] \notin old'
    <3>1. job'[u] = job[u] /\ pc[u] = "posting" /\ job[u] \in Jobs
      BY <1>0, <2>2, AtHand DEF IndType
    <3>2. CASE job[u] = j  BY <1>1, <3>1, <3>2
    <3>3. CASE job[u] # j  BY <1>1, <2>2, <3>1, <3>3 DEF IndCode, FreshInv
    <3> QED BY <3>2, <3>3
  <2>3. \A i \in Jobs : i \notin used' => prefix'[i] = {}
    BY <1>1, <1>3 DEF IndCode, FreshInv
  <2> QED BY <2>1, <2>2, <2>3 DEF FreshInv
<1>5. CodeInv'
  BY <1>1 DEF IndCode, CodeInv
<1> QED BY <1>2, <1>4, <1>5

\* Every step keeps the code of jobs that still need it.
LEMMA StepCode == IndCode /\ [Next]_vars => IndCode'
<1> DEFINE Goal == LateInv' /\ FreshInv' /\ CodeInv'
<1> SUFFICES ASSUME IndCode, [Next]_vars PROVE Goal
  BY StepStop DEF IndCode, Unasked
<1>0. /\ IndType /\ OrderInv /\ OthersInv /\ PassInv /\ NoInputsInv
      /\ LateInv /\ FreshInv /\ CodeInv
  BY DEF IndCode, IndStop, IndOrder, IndFailed
<1>1. \A t \in Threads : ~AdvanceInputs(t) /\ ~Resume(t)
  BY <1>0, PCFacts DEF AdvanceInputs, Resume, At, NoInputsInv
<1> USE PCFacts, ThreadsDistinct
<1>2. ASSUME NEW u \in Users, Create(u) PROVE Goal
  <2>1. PICK d \in Data :
          /\ rayjob' = [rayjob EXCEPT ![job[u]] = NewRecord(d, prefix[job[u]])]
          /\ \E p \in {"post_in", "post_out", "advance"} :
               Enter(u, p, job[u], NewRecord(d, prefix[job[u]]), "no")
    BY <1>2 DEF Create
  <2>2. /\ pc[u] = "posting" /\ job[u] \in Jobs /\ seen[job[u]] = NoRecord
        /\ \A s \in Threads \ {u} : ~Works(s, job[u])
    BY <1>0, <1>2, AtHand DEF Create, At, OrderInv, SubmitInv, Unborn, IndType
  <2>3. /\ pc'[u] \in {"post_in", "post_out", "advance"} /\ job'[u] = job[u]
        /\ read'[u] = rayjob'[job[u]]
        /\ rayjob'[job[u]] = NewRecord(d, prefix[job[u]])
    BY <1>0, <2>1, <2>2 DEF Enter, IndType, CallsOK, StoresOK
  <2>4. \A t \in Threads \ {u} :
          /\ pc'[t] = pc[t] /\ job'[t] = job[t] /\ read'[t] = read[t]
          /\ pc[t] \in OnJob => job[t] \in Jobs \ {job[u]}
    BY <1>0, <2>1, <2>2, AtHand DEF Works, Enter, IndType, CallsOK
  <2>5. \A j \in Jobs \ {job[u]} : rayjob'[j] = rayjob[j]
    BY <1>0, <2>1 DEF IndType, StoresOK
  <2>6. UNCHANGED <<prefix, age, waiting, since, seen, old, used>>
    BY <1>2 DEF Create, names, listing, counters
  <2>7. Early(rayjob'[job[u]]) /\ rayjob'[job[u]].code = ("code" \in prefix[job[u]])
    <3> DEFINE code == "code" \in prefix[job[u]]
               named == "inputs" \in d
               output == IF "output" \in d THEN "true" ELSE ""
    <3>1. rayjob'[job[u]] =
            [stage |-> IF named THEN "inputs" ELSE "running", since |-> "recent",
             stopped |-> "no", output |-> output, suspend |-> named, inputs |-> named,
             code |-> code, phase |-> "new"]
      BY <2>3, Zenon DEF NewRecord
    <3> HIDE DEF code, named, output
    <3>2. rayjob'[job[u]].code = code /\ rayjob'[job[u]].stage \in {"inputs", "running"}
      BY <3>1
    <3> QED BY <3>2 DEF code, Early
  <2>8. LateInv'
    <3>1. ASSUME NEW t \in Threads, Late(t)' PROVE ~Early(rayjob'[job'[t]])
      <4>1. t # u  BY <2>3, <2>7, <3>1 DEF Late
      <4>2. Late(t)  BY <2>4, <3>1, <4>1 DEF Late
      <4>3. job'[t] = job[t] /\ job[t] \in Jobs \ {job[u]}  BY <2>4, <4>1, <4>2 DEF Late
      <4> QED BY <1>0, <2>5, <4>2, <4>3 DEF LateInv
    <3>2. \A j \in Jobs : seen'[j] # NoRecord /\ ~Early(seen'[j]) => ~Early(rayjob'[j])
      BY <1>0, <2>2, <2>5, <2>6 DEF LateInv
    <3> QED BY <3>1, <3>2 DEF LateInv
  <2>9. FreshInv'
    <3>1. \A v \in Users : pc'[v] = "posting" => pc[v] = "posting" /\ job'[v] = job[v]
      BY <2>3, <2>4
    <3> QED BY <1>0, <2>6, <3>1 DEF FreshInv
  <2>10. CodeInv'
    <3>1. "code" \in prefix[job[u]] => job[u] \notin old  BY <1>0, <2>2 DEF FreshInv
    <3> QED BY <1>0, <2>5, <2>6, <2>7, <3>1 DEF CodeInv
  <2> QED BY <2>8, <2>9, <2>10
<1>3. ASSUME NEW u \in Users, CheckPackage(u) PROVE FALSE
  BY <1>0, <1>3 DEF CheckPackage, IndCode, Unasked, IndType, MemoryOK
<1>4. ASSUME NEW u \in Users, Upload(u) PROVE Goal
  BY <1>0, <1>4, CodePut DEF Upload, calls
<1>5. ASSUME NEW u \in Users, Submit(u) PROVE Goal
  <2>1. PICK j \in Jobs : j \in NameOf(u) /\ used' = used \cup {j}
                          /\ Enter(u, "posting", j, NoRecord, "no")
    BY <1>5 DEF Submit
  <2>2. /\ pc'[u] = "posting" /\ job'[u] = j
        /\ \A s \in Threads \ {u} :
             pc'[s] = pc[s] /\ job'[s] = job[s] /\ read'[s] = read[s]
    BY <1>0, <2>1 DEF Enter, IndType, CallsOK
  <2>3. \A v \in Users : \/ waiting'[v] = waiting[v] /\ since'[v] = since[v]
                         \/ waiting'[v] = None
    BY <1>0, <1>5 DEF Submit, IndType, MemoryOK
  <2>4. UNCHANGED <<rayjob, prefix, age, seen, old>>  BY <1>5 DEF Submit, stores, listing
  <2>5. "code" \in prefix[j] => age[j] <= 1 /\ j \notin old
    <3>1. CASE j \notin used  BY <1>0, <3>1 DEF FreshInv
    <3>2. CASE j = waiting[u] /\ since[u] <= 1
      <4>1. age[j] <= since[u] /\ (j \in old => since[u] = 2)  BY <1>0, <3>2 DEF FreshInv
      <4>2. age[j] \in 0..2 /\ since[u] \in 0..2
        BY <1>0 DEF IndType, StoresOK, MemoryOK
      <4> QED BY <3>2, <4>1, <4>2
    <3> QED BY <2>1, <3>1, <3>2 DEF NameOf, Fresh
  <2>6. LateInv'
    <3>1. \A t \in Threads : Late(t)' => Late(t) /\ job'[t] = job[t]
      BY <2>2 DEF Late
    <3> QED BY <1>0, <2>4, <3>1 DEF LateInv
  <2>7. FreshInv'  BY <1>0, <2>1, <2>2, <2>3, <2>4, <2>5 DEF FreshInv
  <2>8. CodeInv'  BY <1>0, <2>4 DEF CodeInv
  <2> QED BY <2>6, <2>7, <2>8
<1>6. ASSUME NEW u \in Users, CreateCopyIn(u) PROVE Goal
  BY <1>0, <1>6, CodeStays, LateAlone, AtHand
  DEF CreateCopyIn, At, Go, JobRefused, Enter, listing, names, NoInputsInv, OthersInv,
      Others, Late, Early, IndType, CallsOK, StoresOK
<1>7. ASSUME NEW u \in Users, CreateCopyOut(u) PROVE Goal
  BY <1>0, <1>7, CodeStays, LateAlone, AtHand
  DEF CreateCopyOut, At, Go, JobRefused, Enter, listing, names, NoInputsInv, OthersInv,
      Others, Late, Early, IndType, CallsOK, StoresOK
<1>8. ASSUME NEW c \in Callers, CallStop(c) PROVE Goal
  BY <1>0, <1>8, CodeStays, LateAlone, AtHand
  DEF CallStop, Enter, stores, names, counters, listing, Late, IndType, CallsOK, StoresOK
<1>9. ASSUME NEW c \in Callers, CallDelete(c) PROVE Goal
  BY <1>0, <1>9, CodeStays, LateAlone, AtHand
  DEF CallDelete, Enter, stores, names, counters, listing, Late, Early, IndType, CallsOK,
      StoresOK
<1>10. ASSUME NEW t \in Threads, AdvanceOutputs(t) PROVE Goal
  <2>1. Late(t) /\ job[t] \in Jobs
    BY <1>0, <1>10, AtHand DEF AdvanceOutputs, At, Late, Early, IndType
  <2>2. ~Early(rayjob[job[t]])  BY <1>0, <2>1 DEF LateInv
  <2> QED
    BY <1>0, <1>10, <2>2, CodeStays, LateAlone
    DEF AdvanceOutputs, Return, Enter, listing, names, counters, Late, IndType, CallsOK,
        StoresOK
<1>11. ASSUME NEW t \in Threads, AdvanceDone(t) PROVE Goal
  <2>1. Late(t) /\ job[t] \in Jobs
    BY <1>0, <1>11, AtHand DEF AdvanceDone, At, Late, Early, IndType
  <2>2. ~Early(rayjob[job[t]])  BY <1>0, <2>1 DEF LateInv
  <2>3. \A j \in Jobs : \/ prefix'[j] = prefix[j]
                        \/ prefix'[j] = {} /\ ~(Early(rayjob[j]) /\ rayjob[j].code)
    BY <1>0, <1>11, <2>2 DEF AdvanceDone, IndType, StoresOK
  <2> QED
    BY <1>0, <1>11, <2>2, <2>3, CodeStays, LateAlone
    DEF AdvanceDone, Go, Return, Enter, listing, names, counters, Late, IndType, CallsOK
<1>12. ASSUME NEW t \in Threads, DeleteRayJob(t) PROVE Goal
  <2>1. Late(t) /\ job[t] \in Jobs
    BY <1>0, <1>12, AtHand DEF DeleteRayJob, At, Late, IndType
  <2>2. ~Early(rayjob[job[t]])  BY <1>0, <2>1 DEF LateInv
  <2>3. \A j \in Jobs : rayjob'[j] \in {rayjob[j], NoRecord}
    BY <1>0, <1>12 DEF DeleteRayJob, IndType, StoresOK
  <2>4. ~Early(rayjob'[job[t]])  BY <2>1, <2>2, <2>3, CodeShapes
  <2> QED
    BY <1>0, <1>12, <2>3, <2>4, CodeStays, LateAlone
    DEF DeleteRayJob, Go, Enter, listing, names, IndType, CallsOK
<1>13. ASSUME NEW t \in Threads, DeleteCopyJobs(t) PROVE Goal
  <2>1. Late(t) /\ job[t] \in Jobs
    BY <1>0, <1>13, AtHand DEF DeleteCopyJobs, At, Late, IndType
  <2>2. ~Early(rayjob[job[t]])  BY <1>0, <2>1 DEF LateInv
  <2> QED
    BY <1>0, <1>13, <2>2, CodeStays, LateAlone
    DEF DeleteCopyJobs, Go, Enter, listing, names, counters, IndType, CallsOK
<1>14. ASSUME NEW t \in Threads, DeletePrefix(t) PROVE Goal
  <2>1. Late(t) /\ job[t] \in Jobs
    BY <1>0, <1>14, AtHand DEF DeletePrefix, At, Late, IndType
  <2>2. ~Early(rayjob[job[t]])  BY <1>0, <2>1 DEF LateInv
  <2>3. \A j \in Jobs : \/ prefix'[j] = prefix[j]
                        \/ prefix'[j] = {} /\ ~(Early(rayjob[j]) /\ rayjob[j].code)
    BY <1>0, <1>14, <2>2 DEF DeletePrefix, IndType, StoresOK
  <2> QED
    BY <1>0, <1>14, <2>3, CodeStays, LateAlone
    DEF DeletePrefix, Return, Enter, listing, names, counters, Late, IndType, CallsOK
<1>15. ASSUME NEW t \in Threads, Fails(t) PROVE Goal
  <2>1. /\ pc'[t] \in {"idle", "looping"}
        /\ \A s \in Threads \ {t} :
             pc'[s] = pc[s] /\ job'[s] = job[s] /\ read'[s] = read[s]
    BY <1>0, <1>15 DEF Fails, Return, Enter, IndType, CallsOK
  <2>2. /\ \A j \in Jobs : seen'[j] \in {NoRecord, seen[j]}
        /\ \A j \in Jobs : j \in old' => j \in old /\ seen'[j] = seen[j]
    BY <1>15 DEF Fails, DropListing, listing
  <2> QED
    BY <1>15, <2>1, <2>2, CodeStays, LateAlone DEF Fails, stores, names, Late
<1>16. ASSUME ReapList PROVE Goal
  <2>1. /\ \A t \in Threads : pc'[t] \in {"looping", pc[t]}
        /\ UNCHANGED <<job, read, rayjob, prefix, age, waiting, since, used>>
        /\ seen' = rayjob /\ old' = {j \in Jobs : age[j] = 2}
    <3>1. UNCHANGED <<rayjob, prefix, age, waiting, since, used>> /\ seen' = rayjob
      BY <1>16 DEF ReapList, stores, names, counters
    <3>2. /\ pc' = [pc EXCEPT ![Reaper] = "looping"]
          /\ job' = [job EXCEPT ![Reaper] = job[Reaper]]
          /\ read' = [read EXCEPT ![Reaper] = read[Reaper]]
      BY <1>16 DEF ReapList, Go, Enter
    <3> QED BY <1>0, <1>16, <3>1, <3>2 DEF ReapList, IndType, CallsOK
  <2>2. LateInv'
    <3>1. \A t \in Threads : Late(t)' => Late(t)  BY <2>1 DEF Late
    <3> QED BY <1>0, <2>1, <3>1 DEF LateInv
  <2>3. FreshInv'
    <3>1. \A j \in Jobs : age[j] \in 0..2  BY <1>0 DEF IndType, StoresOK
    <3>2. \A u \in Users : since[u] \in 0..2  BY <1>0 DEF IndType, MemoryOK
    <3>3. ASSUME NEW u \in Users, waiting'[u] \in Jobs
          PROVE  age'[waiting'[u]] <= since'[u] /\ (waiting'[u] \in old' => since'[u] = 2)
      <4>1. waiting[u] \in Jobs /\ age[waiting[u]] <= since[u]
        BY <1>0, <2>1, <3>3 DEF FreshInv
      <4> QED BY <2>1, <3>1, <3>2, <4>1
    <3>4. ASSUME NEW u \in Users, pc'[u] = "posting", "code" \in prefix'[job'[u]]
          PROVE  age'[job'[u]] <= 1 /\ job'[u] \notin old'
      <4>1. pc[u] = "posting" /\ "code" \in prefix[job[u]]  BY <2>1, <3>4
      <4>2. age[job[u]] <= 1  BY <1>0, <4>1 DEF FreshInv
      <4> QED BY <2>1, <4>2
    <3>5. \A j \in Jobs : j \notin used' => prefix'[j] = {}  BY <1>0, <2>1 DEF FreshInv
    <3> QED BY <3>3, <3>4, <3>5 DEF FreshInv
  <2>4. CodeInv'  BY <1>0, <2>1, CodeShapes DEF CodeInv
  <2> QED BY <2>2, <2>3, <2>4
<1>17. ASSUME ReapTaken PROVE Goal
  BY <1>0, <1>17, CodeStays, LateAlone
  DEF ReapTaken, Go, Enter, stores, names, counters, Late, IndType, CallsOK
<1>18. ASSUME Sweep PROVE Goal
  <2>1. PICK j \in Jobs : Untaken(j) /\ prefix' = [prefix EXCEPT ![j] = {}]
    BY <1>18 DEF Sweep
  <2>2. j \in old /\ j \notin taken /\ seen[j] = NoRecord
    BY <1>0, <1>18, <2>1 DEF Untaken, Sweep, At, PassInv
  <2>3. ~(Early(rayjob[j]) /\ rayjob[j].code)  BY <1>0, <2>2 DEF CodeInv
  <2>4. \A i \in Jobs : \/ prefix'[i] = prefix[i]
                        \/ prefix'[i] = {} /\ ~(Early(rayjob[i]) /\ rayjob[i].code)
    BY <1>0, <2>1, <2>3 DEF IndType, StoresOK
  <2> QED
    BY <1>18, <2>4, CodeStays, LateAlone DEF Sweep, calls, listing, names, counters
<1>19. ASSUME ReapEnds PROVE Goal
  BY <1>0, <1>19, CodeStays, LateAlone
  DEF ReapEnds, Enter, DropListing, stores, names, counters, Late, IndType, CallsOK
<1>20. ASSUME Tick PROVE Goal
  <2>1. /\ \A u \in Users : pc[u] = "idle" /\ pc'[u] = "idle"
        /\ UNCHANGED <<pc, job, read, rayjob, prefix, waiting, seen, old, used>>
    BY <1>20 DEF Tick, At, calls, listing, counters
  <2>2. \A j \in Jobs : age[j] \in 0..2  BY <1>0 DEF IndType, StoresOK
  <2>3. \A u \in Users : since[u] \in 0..2  BY <1>0 DEF IndType, MemoryOK
  <2>4. \A j \in Jobs : age'[j] \in {age[j], Older(age[j])}  BY <1>20 DEF Tick
  <2>5. \A u \in Users : waiting[u] \in Jobs => since'[u] = Older(since[u])
    BY <1>20 DEF Tick
  <2>6. \A m, n \in 0..2 : m <= n => m <= Older(n) /\ Older(m) <= Older(n)
    BY DEF Older
  <2>7. Older(2) = 2  BY DEF Older
  <2>8. FreshInv'
    <3>1. ASSUME NEW u \in Users, waiting'[u] \in Jobs
          PROVE  age'[waiting'[u]] <= since'[u] /\ (waiting'[u] \in old' => since'[u] = 2)
      <4>1. PICK j \in Jobs : j = waiting[u] /\ waiting'[u] = j  BY <2>1, <3>1
      <4>2. age[j] <= since[u] /\ (j \in old => since[u] = 2)  BY <1>0, <4>1 DEF FreshInv
      <4>3. since'[u] = Older(since[u])  BY <2>5, <4>1
      <4>4. age'[j] <= since'[u]  BY <2>2, <2>3, <2>4, <2>6, <4>2, <4>3
      <4> QED BY <2>1, <2>7, <4>1, <4>2, <4>3, <4>4
    <3> QED BY <1>0, <2>1, <3>1 DEF FreshInv
  <2>9. LateInv'  BY <1>0, <2>1 DEF LateInv, Late
  <2>10. CodeInv'  BY <1>0, <2>1 DEF CodeInv
  <2> QED BY <2>8, <2>9, <2>10
<1>21. ASSUME NEW j \in Jobs, WriteOutput(j) PROVE Goal
  <2>1. j \in used  BY <1>0, <1>21 DEF WriteOutput, OrderInv, NameInv, Unborn
  <2> QED BY <1>21, <2>1, CodePut DEF WriteOutput, names, calls, counters
<1>22. ASSUME NEW j \in Jobs, CopyInEnds(j) PROVE Goal
  <2>1. j \in used  BY <1>0, <1>22 DEF CopyInEnds, OrderInv, NameInv, Unborn
  <2>2. CASE Put(j, "inputs")
    BY <1>22, <2>1, <2>2, CodePut DEF CopyInEnds, names, calls, counters
  <2>3. CASE UNCHANGED <<prefix, age, old>>
    BY <1>22, <2>3, CodeStays, LateAlone DEF CopyInEnds, names, calls, counters
  <2> QED BY <1>22, <2>2, <2>3 DEF CopyInEnds
<1>23. ASSUME NEW j \in Jobs, CopyOutEnds(j) PROVE Goal
  BY <1>23, CodeStays, LateAlone DEF CopyOutEnds, names, calls, listing, counters
<1>24. ASSUME UNCHANGED vars PROVE Goal
  BY <1>24, CodeStays, LateAlone DEF vars, stores, names, calls, listing, counters
<1>25. ASSUME ReapJob PROVE Goal
  <2>1. PICK j \in todo : Enter(Reaper, "advance", j, seen[j], "no")
    BY <1>25 DEF ReapJob
  <2>2. j \in Jobs /\ seen[j] # NoRecord
    BY <1>0, RecordShapes DEF IndType, ListingOK
  <2>3. /\ pc'[Reaper] = "advance" /\ job'[Reaper] = j /\ read'[Reaper] = seen[j]
        /\ \A s \in Threads \ {Reaper} :
             pc'[s] = pc[s] /\ job'[s] = job[s] /\ read'[s] = read[s]
    BY <1>0, <2>1 DEF Enter, IndType, CallsOK
  <2>4. UNCHANGED <<rayjob, prefix, age, seen, old, waiting, since, used>>
    BY <1>25 DEF ReapJob, stores, names, counters
  <2>5. Late(Reaper)' => ~Early(rayjob'[job'[Reaper]])
    BY <1>0, <2>2, <2>3, <2>4 DEF Late, LateInv
  <2> QED BY <2>3, <2>4, <2>5, CodeStays, LateAlone
<1>26. ASSUME Restart PROVE Goal
  BY <1>0, <1>26, ThreadsDistinct
  DEF Restart, DropListing, stores, LateInv, Late, FreshInv, CodeInv
<1>27. ASSUME NEW t \in Threads, AdvanceRunning(t) PROVE Goal
  <2>1. job[t] \in Jobs /\ read[t] \in Record /\ Early(read[t])
    BY <1>0, <1>27, AtHand DEF AdvanceRunning, At, Early, IndType
  <2>2. \A s \in Threads \ {t} :
          pc'[s] = pc[s] /\ job'[s] = job[s] /\ read'[s] = read[s]
    BY <1>0, <1>27 DEF AdvanceRunning, Go, Return, Enter, PatchRefused, IndType, CallsOK
  <2>3. CASE rayjob' = rayjob /\ pc'[t] \in {"suspending", "idle", "looping"}
    BY <1>27, <2>2, <2>3, CodeStays, LateAlone
    DEF AdvanceRunning, names, listing, counters, Late
  <2>4. ASSUME NEW st \in {"outputs", "done"}, Go(t, st),
               Patch(job[t], Staged(rayjob[job[t]], st, rayjob[job[t]].stopped,
                                    rayjob[job[t]].output, rayjob[job[t]].suspend))
        PROVE  Goal
    <3>1. \A j \in Jobs : LateHeld(j)
      BY <1>0, <2>1, <2>4, LateAlone, LateChanged DEF Patch, IndType, StoresOK
    <3>2. rayjob[job[t]] \in Record
      BY <1>0, <2>1, <2>4, ListedRecord DEF Patch, IndType
    <3>3. rayjob'[job[t]].stage = st
      BY <1>0, <2>1, <2>4, <3>2, CodeShapes DEF Patch, IndType, StoresOK
    <3>4. pc'[t] # "posting" /\ job'[t] = job[t] /\ ~Early(rayjob'[job[t]])
      BY <1>0, <2>4, <3>3 DEF Go, Enter, Early, IndType, CallsOK
    <3> QED
      BY <1>27, <2>2, <3>1, <3>4, CodeStays DEF AdvanceRunning, names, listing, counters
  <2>5. CASE PatchRefused(t) \/ (rayjob' = rayjob /\ Return(t))
    <3>1. rayjob' = rayjob /\ pc'[t] \in {"idle", "looping"}
      BY <1>0, <2>5 DEF PatchRefused, Return, Enter, IndType, CallsOK
    <3> QED BY <2>3, <3>1
  <2>6. ASSUME NEW w, Enter(t, "suspending", job[t], read[t], w), rayjob' = rayjob PROVE Goal
    BY <1>0, <2>3, <2>6 DEF Enter, IndType, CallsOK
  <2> QED BY <1>27, <2>4, <2>5, <2>6 DEF AdvanceRunning
<1>28. ASSUME NEW t \in Threads, StopSuspend(t) PROVE Goal
  <2>1. job[t] \in Jobs  BY <1>0, <1>28, AtHand DEF StopSuspend, At, IndType
  <2>2. \A j \in Jobs : LateHeld(j)
    BY <1>0, <1>28, <2>1, LateAlone, LateChanged
    DEF StopSuspend, Patch, PatchRefused, IndType, StoresOK
  <2>3. /\ pc'[t] \in {"stopping", "idle", "looping"}
        /\ \A s \in Threads \ {t} :
             pc'[s] = pc[s] /\ job'[s] = job[s] /\ read'[s] = read[s]
    BY <1>0, <1>28 DEF StopSuspend, Go, Return, Enter, PatchRefused, IndType, CallsOK
  <2> QED
    BY <1>28, <2>2, <2>3, CodeStays DEF StopSuspend, names, listing, counters, Late
<1>29. ASSUME NEW t \in Threads, StopStage(t) PROVE Goal
  <2>1. job[t] \in Jobs  BY <1>0, <1>29, AtHand DEF StopStage, At, IndType
  <2>2. \A j \in Jobs : LateHeld(j)
    <3>1. StopAfter(read[t]) \in {"outputs", "done"}  BY DEF StopAfter
    <3> QED
      BY <1>0, <1>29, <2>1, <3>1, LateAlone, LateChanged
      DEF StopStage, Patch, PatchRefused, IndType, StoresOK
  <2>3. /\ pc'[t] \in {"idle", "looping"}
        /\ \A s \in Threads \ {t} :
             pc'[s] = pc[s] /\ job'[s] = job[s] /\ read'[s] = read[s]
    BY <1>0, <1>29 DEF StopStage, Return, Enter, PatchRefused, IndType, CallsOK
  <2> QED
    BY <1>29, <2>2, <2>3, CodeStays DEF StopStage, names, listing, counters, Late
<1>30. ASSUME NEW t \in Threads, Finish(t) PROVE Goal
  <2>1. Late(t) /\ job[t] \in Jobs
    BY <1>0, <1>30, AtHand DEF Finish, At, Late, IndType
  <2>2. \A j \in Jobs : LateHeld(j)
    BY <1>0, <1>30, <2>1, LateAlone, LateChanged
    DEF Finish, Patch, PatchRefused, IndType, StoresOK
  <2>3. ~Early(rayjob'[job[t]])  BY <1>0, <2>1, <2>2 DEF LateInv, LateHeld
  <2>4. /\ pc'[t] \in {"done", "idle", "looping"} /\ (pc'[t] = "done" => job'[t] = job[t])
        /\ \A s \in Threads \ {t} :
             pc'[s] = pc[s] /\ job'[s] = job[s] /\ read'[s] = read[s]
    BY <1>0, <1>30 DEF Finish, Return, Enter, PatchRefused, IndType, CallsOK
  <2> QED
    BY <1>30, <2>2, <2>3, <2>4, CodeStays DEF Finish, names, listing, counters, Late
<1>31. ASSUME NEW j \in Jobs, KubeRay(j) \/ JobEnds(j) PROVE Goal
  <2>1. \A i \in Jobs : LateHeld(i)
    BY <1>0, <1>31, LateAlone, LateChanged DEF KubeRay, JobEnds, SetPhase, IndType, StoresOK
  <2> QED
    BY <1>31, <2>1, CodeStays
    DEF KubeRay, JobEnds, SetPhase, names, calls, listing, counters
<1>32. ASSUME NEW j \in Jobs, RecordAges(j) PROVE Goal
  <2>1. \A i \in Jobs : LateHeld(i)
    BY <1>0, <1>32, LateAlone, LateChanged DEF RecordAges, IndType, StoresOK
  <2> QED
    BY <1>32, <2>1, CodeStays DEF RecordAges, names, calls, listing, counters
<1> QED
  BY <1>1, <1>2, <1>3, <1>4, <1>5, <1>6, <1>7, <1>8, <1>9, <1>10,
     <1>11, <1>12, <1>13, <1>14, <1>15, <1>16, <1>17, <1>18, <1>19, <1>20,
     <1>21, <1>22, <1>23, <1>24, <1>25, <1>26, <1>27, <1>28, <1>29, <1>30,
     <1>31, <1>32
  DEF Next, Submission, Call, Reap, Step, External

\* Where no job names inputs and no package is asked for, the code of a job that
\* waits for its cluster, or runs, is where Ray fetches it from, whatever passes,
\* stops, deletes, failures and restarts meet.
THEOREM CodeStaysThere == Spec /\ InputsUnnamed /\ Unasked => []CodeKept
<1>1. Init /\ InputsUnnamed /\ Unasked => IndCode
  <2> SUFFICES ASSUME Init, InputsUnnamed, Unasked PROVE IndCode  OBVIOUS
  <2>1. IndStop
    BY InitType, InitFailed, InitOrder
    DEF IndStop, IndOrder, IndFailed, Init, NoInputsInv, StopInv, StoppedIsSuspended,
        Listed, OnRead, OnJob, PCs
  <2>2. LateInv /\ FreshInv /\ CodeInv
    BY CodeShapes, ThreadsDistinct DEF Init, LateInv, Late, FreshInv, CodeInv, Threads
  <2> QED BY <2>1, <2>2 DEF IndCode
<1>2. IndCode => CodeKept
  BY DEF IndCode, CodeInv, CodeKept, Early
<1> QED
  BY <1>1, <1>2, StepCode, PTL DEF Spec
=============================================================================

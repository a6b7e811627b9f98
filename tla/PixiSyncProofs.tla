--------------------------- MODULE PixiSyncProofs ---------------------------
(***************************************************************************)
(* Theorems about PixiSync, for any number of daemons, revisions, attempts *)
(* and troubles and any timing of the retries: that two daemons work at    *)
(* once only after the lock lapsed, and that the daemons implement the     *)
(* promise of PixiPromise.                                                 *)
(***************************************************************************)
EXTENDS PixiSync, TLAPS

Out == {"off", "lock", "take"}
Syncing == {"toml", "manifest", "wipe", "install", "retry", "check"}

ProcType == [pc : Out \cup Syncing \cup {"loop", "idle", "verify"}, want : 0..MaxRev,
             inst : 0..MaxRev, insync : BOOLEAN, healthy : BOOLEAN, cool : BOOLEAN,
             attempt : Nat, second : BOOLEAN, stop : BOOLEAN]
LiveType == [toml : 0..MaxRev, lock : 0..MaxRev]
EnvType == [rev : 0..MaxRev, is : {"none", "whole", "edited", "hollow", "broken"}]
HistType == [touched : BOOLEAN, lapsed : BOOLEAN, hidden : BOOLEAN]

TypeOK ==
  /\ proc \in [Daemons -> ProcType]
  /\ lock \in BOOLEAN
  /\ seen \in [Daemons -> {"no", "seen", "frozen"}]
  /\ desired \in Revs
  /\ live \in LiveType /\ env \in EnvType
  /\ paused \in BOOLEAN
  /\ hist \in HistType

\* While the lock did not lapse: one daemon works, and holds the lock; a heartbeat taken for
\* frozen is a dead daemon's, and one daemon takes its lock over.
Guarded == ~hist.lapsed =>
  /\ \A d, e \in Daemons : Works(d) /\ Works(e) => d = e
  /\ \A d \in Daemons : Works(d) \/ At(d, "take") => lock
  /\ \A d, e \in Daemons : At(d, "take") /\ At(e, "take") => d = e
  /\ \A d, e \in Daemons : seen[e] = "frozen" \/ At(e, "take") => ~Works(d)

Inv == TypeOK /\ Guarded

\* What a daemon p knows, given the environment, the manifests and whether others disturbed
\* them: it claims nothing while it works on the environment; what it staged is there; what
\* it installed is whole; and what it says is in sync is, if it is whole, the revision.
Fine(p, e, l, disturbed) ==
  /\ p.pc \in Out => ~p.insync /\ p.inst = 0
  /\ p.insync \/ p.pc \in Syncing => p.want # 0
  /\ p.pc \in Syncing => ~(p.insync /\ p.healthy) /\ p.inst = 0
  /\ ~disturbed =>
       /\ p.pc \in Syncing \ {"toml"} => l.toml = p.want
       /\ p.pc \in Syncing \ {"toml", "manifest"} => l.lock = p.want
       /\ p.pc = "check" => e.is \in {"whole", "broken"} /\ (e.is = "whole" => e.rev = p.want)
       /\ p.inst # 0 => e.is = "whole" /\ e.rev = p.inst
       /\ p.insync /\ p.pc \notin {"toml", "manifest", "wipe"} =>
            e.is # "edited" /\ (e.is = "whole" => e.rev = p.want)

Disturbed == hist.touched \/ hist.lapsed
Honest == \A d \in Daemons : Fine(proc[d], env, live, Disturbed)

FullInv == Inv /\ Honest

-----------------------------------------------------------------------------
(* The promise, in the daemons' words. *)

Whole == IF env.is = "whole" THEN env.rev ELSE 0
Says(p) == p.insync /\ p.healthy
Claimed == {proc[d].want : d \in {e \in Daemons : proc[e].insync /\ proc[e].healthy}}

\* A step that the promise allows.
Kept ==
  \/ /\ Claimed' \subseteq Claimed \cup (IF Disturbed THEN Revs ELSE {Whole})
     /\ Whole' = Whole /\ Disturbed' = Disturbed
  \/ (Claimed = {} \/ Disturbed) /\ Claimed' \subseteq Claimed
  \/ Disturbed' /\ Claimed' \subseteq Claimed

\* What is whole is a revision, or none.
LEMMA WholeType == ASSUME env \in EnvType PROVE Whole \in Revs \cup {0}
BY RevAssumption DEF Whole, EnvType, Revs

\* What every step keeps of the promise makes it a step of PixiPromise, or none.
LEMMA KeptIsStep ==
  ASSUME TypeOK, TypeOK', Kept
  PROVE  [Promise!Next]_Promise!vars
<1>1. Whole' \in Revs \cup {0}  BY WholeType DEF TypeOK, Whole, EnvType, Revs
<1>2. Disturbed' \in BOOLEAN  BY DEF TypeOK, HistType, Disturbed
<1> QED
  BY <1>1, <1>2 DEF Kept, Whole, Claimed, Disturbed, Promise!Next, Promise!Claims, Promise!Works,
     Promise!Disturbs, Promise!vars

\* Claims that are only withdrawn.
LEMMA FewerClaims ==
  ASSUME \A e \in Daemons : Says(proc'[e]) => Says(proc[e]) /\ proc'[e].want = proc[e].want
  PROVE  Claimed' \subseteq Claimed
BY DEF Claimed, Says

-----------------------------------------------------------------------------
(* Types. *)

\* No revision is a revision number.
LEMMA Zero == 0 \in 0..MaxRev
BY RevAssumption

\* A daemon that is not run claims and works on nothing.
LEMMA NotRunType ==
  /\ NotRun \in ProcType /\ NotRun.pc = "off" /\ NotRun.want = 0 /\ NotRun.inst = 0
  /\ NotRun.insync = FALSE
BY RevAssumption DEF NotRun, ProcType, Out

\* A step of one daemon.
LEMMA OneMoves ==
  ASSUME TypeOK, NEW d \in Daemons, NEW p \in ProcType, proc' = [proc EXCEPT ![d] = p]
  PROVE  /\ proc' \in [Daemons -> ProcType] /\ proc'[d] = p
         /\ \A e \in Daemons \ {d} : proc'[e] = proc[e]
BY DEF TypeOK

\* A heartbeat unfreezes the lock for those who watch it.
LEMMA BeatsSeen ==
  ASSUME TypeOK, NEW d \in Daemons, Beats(d)
  PROVE  /\ seen' \in [Daemons -> {"no", "seen", "frozen"}]
         /\ \A e \in Daemons : seen'[e] = "frozen" => seen[e] = "frozen"
BY DEF TypeOK, Beats, Unseen

-----------------------------------------------------------------------------
(* Steps of one daemon that take no lock. *)

\* A step that lets nobody begin to work keeps the lock a guard.
LEMMA GuardedKeeps ==
  ASSUME Guarded, hist'.lapsed = hist.lapsed, lock' = lock,
         \A e \in Daemons : /\ Works(e)' => Works(e)
                            /\ At(e, "take")' => At(e, "take")
                            /\ seen'[e] = "frozen" => seen[e] = "frozen"
  PROVE  Guarded'
BY DEF Guarded

\* What d does is fine for the others: if it works, none of them claims or works.
LEMMA OthersFine ==
  ASSUME FullInv, NEW d \in Daemons, \A e \in Daemons \ {d} : proc'[e] = proc[e],
         hist'.lapsed = hist.lapsed, Works(d) \/ UNCHANGED <<live, env, hist>>
  PROVE  \A e \in Daemons \ {d} : Fine(proc[e], env', live', Disturbed')
<1> SUFFICES ASSUME NEW e \in Daemons, e # d PROVE Fine(proc[e], env', live', Disturbed')
  OBVIOUS
<1>0. Fine(proc[e], env, live, Disturbed)  BY DEF FullInv, Honest
<1>1. CASE UNCHANGED <<live, env, hist>>  BY <1>0, <1>1 DEF Disturbed
<1>2. CASE Disturbed'  BY <1>0, <1>2 DEF Fine
<1>3. CASE Works(d) /\ ~Disturbed'
  <2>1. ~hist.lapsed  BY <1>3 DEF Disturbed
  <2>2. ~Works(e)  BY <1>3, <2>1 DEF FullInv, Inv, Guarded
  <2>3. proc[e].pc \in Out  BY <2>2 DEF Works, Out
  <2> QED BY <1>0, <2>3 DEF Fine, Out, Syncing
<1> QED BY <1>1, <1>2, <1>3

\* How the daemon's own claims go with the environment.
Claims(d, p) ==
  \/ /\ Says(p) => Says(proc[d]) /\ p.want = proc[d].want
     /\ \/ Whole' = Whole /\ Disturbed' = Disturbed
        \/ Disturbed
        \/ proc[d].pc \in Syncing
  \/ /\ Whole' = Whole /\ Disturbed' = Disturbed /\ p.want \in Revs
     /\ ~Disturbed => Whole = p.want

\* What d says after its step keeps the promise.
LEMMA ClaimsKeep ==
  ASSUME FullInv, NEW d \in Daemons, NEW p \in ProcType, proc' = [proc EXCEPT ![d] = p],
         Claims(d, p)
  PROVE  Kept
<1>1. /\ proc' \in [Daemons -> ProcType] /\ proc'[d] = p
      /\ \A e \in Daemons \ {d} : proc'[e] = proc[e]
  BY OneMoves DEF FullInv, Inv
<1>2. CASE Says(p) => Says(proc[d]) /\ p.want = proc[d].want
  <2>1. Claimed' \subseteq Claimed  BY <1>1, <1>2, FewerClaims DEF Says
  <2>2. CASE (Whole' = Whole /\ Disturbed' = Disturbed) \/ Disturbed  BY <2>1, <2>2 DEF Kept
  <2>3. CASE proc[d].pc \in Syncing /\ ~Disturbed
    <3>1. ~hist.lapsed /\ Works(d)  BY <2>3 DEF Disturbed, Works, Syncing
    <3>2. \A e \in Daemons \ {d} : proc[e].pc \in Out
      BY <3>1 DEF FullInv, Inv, Guarded, Works, Out
    <3>3. \A e \in Daemons : ~Says(proc[e])
      BY <2>3, <3>2 DEF FullInv, Honest, Fine, Says
    <3>4. Claimed = {}  BY <3>3 DEF Claimed, Says
    <3> QED BY <2>1, <3>4 DEF Kept
  <2>4. CASE Whole' = Whole /\ Disturbed' = Disturbed /\ ~Disturbed  BY <2>2, <2>4
  <2> QED BY <2>2, <2>3 DEF Claims
<1>3. CASE /\ Whole' = Whole /\ Disturbed' = Disturbed /\ p.want \in Revs
           /\ ~Disturbed => Whole = p.want
  <2>1. Claimed' \subseteq Claimed \cup {p.want}  BY <1>1 DEF Claimed
  <2> QED BY <1>3, <2>1 DEF Kept
<1> QED BY <1>2, <1>3 DEF Claims

\* A step of d that takes no lock keeps the invariant and the promise.
LEMMA DaemonStep ==
  ASSUME FullInv, NEW d \in Daemons, NEW p \in ProcType, proc' = [proc EXCEPT ![d] = p],
         p.pc \notin Out => Works(d), p.pc = "take" => At(d, "take"),
         lock' = lock, seen' \in [Daemons -> {"no", "seen", "frozen"}],
         \A e \in Daemons : seen'[e] = "frozen" => seen[e] = "frozen",
         desired' = desired, paused' = paused, live' \in LiveType, env' \in EnvType,
         hist' \in HistType, hist'.lapsed = hist.lapsed,
         Works(d) \/ UNCHANGED <<live, env, hist>>,
         Fine(p, env', live', Disturbed'), Claims(d, p)
  PROVE  FullInv' /\ Kept
<1>1. /\ proc' \in [Daemons -> ProcType] /\ proc'[d] = p
      /\ \A e \in Daemons \ {d} : proc'[e] = proc[e]
  BY OneMoves DEF FullInv, Inv
<1>2. TypeOK'  BY <1>1 DEF FullInv, Inv, TypeOK
<1>3. Guarded'
  <2>1. \A e \in Daemons : (Works(e)' => Works(e)) /\ (At(e, "take")' => At(e, "take"))
    BY <1>1 DEF Works, At, Out
  <2> QED BY <2>1, GuardedKeeps DEF FullInv, Inv
<1>4. Honest'  BY <1>1, OthersFine DEF Honest
<1> QED BY <1>2, <1>3, <1>4, ClaimsKeep DEF FullInv, Inv

\* What a proof about a step of d starts from.
LEMMA Facts ==
  ASSUME FullInv, NEW d \in Daemons
  PROVE  /\ TypeOK /\ proc[d] \in ProcType /\ env \in EnvType /\ live \in LiveType
         /\ hist \in HistType /\ desired \in Revs /\ desired # 0 /\ desired \in 0..MaxRev
         /\ seen \in [Daemons -> {"no", "seen", "frozen"}]
         /\ Fine(proc[d], env, live, Disturbed)
BY RevAssumption DEF FullInv, Inv, TypeOK, Honest, Revs

\* What is whole and what was disturbed depends on the environment alone.
LEMMA SameEnv ==
  ASSUME UNCHANGED <<env, hist>>
  PROVE  Whole' = Whole /\ Disturbed' = Disturbed
BY DEF Whole, Disturbed

Now(d, pc) == [proc[d] EXCEPT !.pc = pc]

\* A daemon that only goes on.
LEMMA MovesTo ==
  ASSUME TypeOK, NEW d \in Daemons, NEW pc \in Out \cup Syncing \cup {"loop", "idle", "verify"}
  PROVE  /\ Now(d, pc) \in ProcType /\ Now(d, pc).pc = pc /\ Now(d, pc).want = proc[d].want
         /\ Now(d, pc).inst = proc[d].inst /\ Now(d, pc).insync = proc[d].insync
         /\ Now(d, pc).healthy = proc[d].healthy
         /\ Moves(d, pc) => proc' = [proc EXCEPT ![d] = Now(d, pc)]
BY DEF TypeOK, ProcType, Now, Moves

-----------------------------------------------------------------------------
(* One cycle. *)

\* A daemon that finds the pause file claims nothing.
LEMMA PausesKeeps ==
  ASSUME FullInv, NEW d \in Daemons, Pauses(d)
  PROVE  FullInv' /\ Kept
<1> DEFINE p == [proc[d] EXCEPT !.pc = "idle", !.inst = 0, !.insync = FALSE]
<1>0. /\ TypeOK /\ proc[d] \in ProcType /\ env \in EnvType /\ live \in LiveType
      /\ hist \in HistType /\ Fine(proc[d], env, live, Disturbed)
  BY Facts
<1>1. /\ At(d, "loop") /\ Beats(d) /\ UNCHANGED <<lock, desired, live, env, paused, hist>>
      /\ proc' = [proc EXCEPT ![d] = p]
  BY DEF Pauses
<1>2. p \in ProcType /\ p.pc = "idle" /\ p.inst = 0 /\ p.insync = FALSE
  BY <1>0, Zero DEF ProcType
<1> HIDE DEF p
<1>3. Fine(p, env', live', Disturbed')  BY <1>2 DEF Fine, Out, Syncing
<1>4. Claims(d, p)  BY <1>1, <1>2, SameEnv DEF Claims, Says
<1>5. Works(d)  BY <1>1 DEF At, Works
<1> QED BY <1>0, <1>1, <1>2, <1>3, <1>4, <1>5, BeatsSeen, DaemonStep

\* A sync begins: the daemon claims nothing from now on.
LEMMA BegunFacts ==
  ASSUME FullInv, NEW d \in Daemons
  PROVE  /\ Begun(d) \in ProcType /\ Begun(d).pc = "toml" /\ Begun(d).want = desired
         /\ Begun(d).inst = 0 /\ Begun(d).healthy = proc[d].healthy
<1>1. proc[d] \in ProcType /\ desired \in 0..MaxRev  BY Facts
<1> QED BY <1>1, Zero DEF Begun, ProcType, Syncing

\* A cycle begins: in sync is said of what is whole, or a sync begins.
LEMMA ReconcileKeeps ==
  ASSUME FullInv, NEW d \in Daemons, Reconcile(d)
  PROVE  FullInv' /\ Kept
<1> DEFINE q == [proc[d] EXCEPT !.insync = InSync(d), !.want = desired]
           i == [q EXCEPT !.pc = "idle"]
           b == [Begun(d) EXCEPT !.insync = q.insync]
<1>0. /\ TypeOK /\ proc[d] \in ProcType /\ env \in EnvType /\ live \in LiveType
      /\ hist \in HistType /\ Fine(proc[d], env, live, Disturbed)
      /\ desired \in Revs /\ desired # 0 /\ desired \in 0..MaxRev
  BY Facts
<1>1. /\ proc[d].pc = "loop" /\ Beats(d) /\ UNCHANGED <<lock, desired, live, env, paused>>
      /\ \/ proc' = [proc EXCEPT ![d] = i] /\ UNCHANGED hist
         \/ /\ ~Settled(d) /\ proc' = [proc EXCEPT ![d] = b]
            /\ hist' = [hist EXCEPT !.touched = FALSE]
  BY DEF Reconcile, At
<1>2. InSync(d) \in BOOLEAN /\ (InSync(d) => proc[d].inst = desired)  BY DEF InSync
<1>3. /\ i \in ProcType /\ i.pc = "idle" /\ i.want = desired /\ i.inst = proc[d].inst
      /\ i.healthy = proc[d].healthy /\ i.insync = InSync(d)
  <2> HIDE DEF InSync
  <2> QED BY <1>0, <1>2 DEF ProcType, Out, Syncing
<1>4. /\ b \in ProcType /\ b.pc = "toml" /\ b.want = desired /\ b.inst = 0
      /\ b.healthy = proc[d].healthy /\ b.insync = InSync(d)
  <2>1. q.insync = InSync(d)  BY <1>0 DEF ProcType
  <2>2. /\ Begun(d) \in ProcType /\ Begun(d).pc = "toml" /\ Begun(d).want = desired
        /\ Begun(d).inst = 0 /\ Begun(d).healthy = proc[d].healthy
    BY BegunFacts
  <2>3. b = [Begun(d) EXCEPT !.insync = InSync(d)]  BY <2>1
  <2> HIDE DEF b, q
  <2> QED BY <1>2, <2>2, <2>3 DEF ProcType
<1> HIDE DEF q, i, b
<1>5. Works(d)  BY <1>1 DEF Works
<1>6. CASE proc' = [proc EXCEPT ![d] = i] /\ UNCHANGED hist
  <2>1. /\ Whole' = Whole /\ Disturbed' = Disturbed
    BY <1>1, <1>6, SameEnv
  <2>2. InSync(d) /\ ~Disturbed => env.is = "whole" /\ env.rev = desired
    BY <1>0, <1>2 DEF Fine
  <2>3. Fine(i, env', live', Disturbed')
    BY <1>0, <1>1, <1>2, <1>3, <2>1, <2>2 DEF Fine, Out, Syncing
  <2>4. Claims(d, i)  BY <1>0, <1>2, <1>3, <2>1, <2>2 DEF Claims, Says, Whole
  <2> QED BY <1>0, <1>1, <1>3, <1>5, <1>6, <2>3, <2>4, BeatsSeen, DaemonStep
<1>7. CASE ~Settled(d) /\ proc' = [proc EXCEPT ![d] = b] /\ hist' = [hist EXCEPT !.touched = FALSE]
  <2>1. hist' \in HistType /\ hist'.lapsed = hist.lapsed /\ hist'.touched = FALSE
    BY <1>0, <1>7 DEF HistType
  <2>2. ~(b.insync /\ b.healthy)  BY <1>4, <1>7 DEF Settled
  <2>3. Fine(b, env', live', Disturbed')
    BY <1>0, <1>4, <2>2 DEF Fine, Out, Syncing
  <2>4. Claims(d, b)
    <3>1. CASE Disturbed  BY <2>2, <3>1 DEF Claims, Says
    <3>2. CASE ~Disturbed
      <4>1. Disturbed' = Disturbed /\ Whole' = Whole
        BY <1>0, <1>1, <2>1, <3>2 DEF Disturbed, Whole, HistType
      <4> QED BY <2>2, <4>1 DEF Claims, Says
    <3> QED BY <3>1, <3>2
  <2> QED BY <1>0, <1>1, <1>4, <1>5, <1>7, <2>1, <2>3, <2>4, BeatsSeen, DaemonStep
<1> QED BY <1>1, <1>6, <1>7

\* The cool-down after a failure ends.
LEMMA CoolsKeeps ==
  ASSUME FullInv, NEW d \in Daemons, Cools(d)
  PROVE  FullInv' /\ Kept
<1> DEFINE p == [proc[d] EXCEPT !.cool = FALSE]
<1>0. /\ TypeOK /\ proc[d] \in ProcType /\ env \in EnvType /\ live \in LiveType
      /\ hist \in HistType /\ Fine(proc[d], env, live, Disturbed)
      /\ seen \in [Daemons -> {"no", "seen", "frozen"}]
  BY Facts
<1>1. /\ UNCHANGED <<lock, seen, desired, live, env, paused, hist>>
      /\ proc' = [proc EXCEPT ![d] = p]
  BY DEF Cools
<1>2. /\ p \in ProcType /\ p.pc = proc[d].pc /\ p.want = proc[d].want
      /\ p.inst = proc[d].inst /\ p.insync = proc[d].insync /\ p.healthy = proc[d].healthy
  BY <1>0 DEF ProcType
<1> HIDE DEF p
<1>3. Fine(p, env', live', Disturbed')  BY <1>0, <1>1, <1>2, SameEnv DEF Fine
<1>4. Claims(d, p)  BY <1>1, <1>2, SameEnv DEF Claims, Says
<1>5. (p.pc \notin Out => Works(d)) /\ (p.pc = "take" => At(d, "take"))
  BY <1>2 DEF At, Works, Out
<1> QED BY <1>0, <1>1, <1>2, <1>3, <1>4, <1>5, DaemonStep

\* Between two cycles, and into a verification.
LEMMA RestKeeps ==
  ASSUME FullInv, NEW d \in Daemons, Sleeps(d) \/ Verify(d)
  PROVE  FullInv' /\ Kept
<1>0. /\ TypeOK /\ proc[d] \in ProcType /\ env \in EnvType /\ live \in LiveType
      /\ hist \in HistType /\ Fine(proc[d], env, live, Disturbed)
      /\ seen \in [Daemons -> {"no", "seen", "frozen"}]
  BY Facts
<1>1. /\ proc[d].pc = "idle" /\ UNCHANGED <<lock, seen, desired, live, env, paused, hist>>
      /\ Moves(d, "loop") \/ Moves(d, "verify")
  BY DEF Sleeps, Verify, At
<1>2. PICK pc \in {"loop", "verify"} : Moves(d, pc)  BY <1>1
<1> DEFINE p == Now(d, pc)
<1>3. /\ p \in ProcType /\ p.pc = pc /\ p.want = proc[d].want
      /\ p.inst = proc[d].inst /\ p.insync = proc[d].insync /\ p.healthy = proc[d].healthy
      /\ proc' = [proc EXCEPT ![d] = p]
  BY <1>0, <1>2, MovesTo DEF Out, Syncing
<1> HIDE DEF p
<1>4. Fine(p, env', live', Disturbed')
  BY <1>0, <1>1, <1>3, SameEnv DEF Fine, Out, Syncing
<1>5. Claims(d, p)  BY <1>1, <1>3, SameEnv DEF Claims, Says
<1>6. Works(d) /\ p.pc # "take"  BY <1>1, <1>3 DEF Works
<1> QED BY <1>0, <1>1, <1>3, <1>4, <1>5, <1>6, DaemonStep

-----------------------------------------------------------------------------
(* A sync. *)

\* A daemon after a failed sync claims nothing new.
LEMMA FailedFacts ==
  ASSUME FullInv, NEW d \in Daemons
  PROVE  /\ Failed(d) \in ProcType /\ Failed(d).pc = "idle" /\ Failed(d).want = proc[d].want
         /\ Failed(d).inst = proc[d].inst /\ Failed(d).insync = proc[d].insync
         /\ Failed(d).healthy = proc[d].healthy
<1>1. proc[d] \in ProcType  BY Facts
<1> QED BY <1>1 DEF Failed, ProcType

\* The manifests are written, while nothing is claimed.
LEMMA StageKeeps ==
  ASSUME FullInv, NEW d \in Daemons, StageToml(d) \/ StageLock(d)
  PROVE  FullInv' /\ Kept
<1>0. /\ TypeOK /\ proc[d] \in ProcType /\ env \in EnvType /\ live \in LiveType
      /\ hist \in HistType /\ Fine(proc[d], env, live, Disturbed)
      /\ seen \in [Daemons -> {"no", "seen", "frozen"}]
  BY Facts
<1>1. CASE StageToml(d)
  <2> DEFINE p == Now(d, "manifest")
  <2>1. /\ proc[d].pc = "toml" /\ UNCHANGED <<lock, seen, desired, env, paused, hist>>
        /\ live' = [live EXCEPT !.toml = proc[d].want] /\ Moves(d, "manifest")
    BY <1>1 DEF StageToml, At
  <2>2. /\ p \in ProcType /\ p.pc = "manifest" /\ p.want = proc[d].want
        /\ p.inst = proc[d].inst /\ p.insync = proc[d].insync /\ p.healthy = proc[d].healthy
        /\ proc' = [proc EXCEPT ![d] = p]
    BY <1>0, <2>1, MovesTo DEF Syncing
  <2>3. live' \in LiveType /\ live'.toml = proc[d].want
    BY <1>0, <2>1 DEF LiveType, ProcType
  <2> HIDE DEF p
  <2>4. Fine(p, env', live', Disturbed')
    BY <1>0, <2>1, <2>2, <2>3 DEF Fine, Out, Syncing
  <2>5. Claims(d, p)  BY <2>1, <2>2, SameEnv DEF Claims, Says
  <2>6. Works(d) /\ p.pc # "take"  BY <2>1, <2>2 DEF Works
  <2> QED BY <1>0, <2>1, <2>2, <2>3, <2>4, <2>5, <2>6, DaemonStep
<1>2. CASE StageLock(d)
  <2> DEFINE next == IF proc[d].healthy THEN "install" ELSE "wipe"
             p == Now(d, next)
  <2>1. /\ proc[d].pc = "manifest" /\ UNCHANGED <<lock, seen, desired, env, paused, hist>>
        /\ live' = [live EXCEPT !.lock = proc[d].want] /\ Moves(d, next)
    BY <1>2 DEF StageLock, At
  <2>n. next \in {"install", "wipe"} /\ (next = "install" => proc[d].healthy)  OBVIOUS
  <2> HIDE DEF next
  <2>2. /\ p \in ProcType /\ p.pc = next /\ p.want = proc[d].want
        /\ p.inst = proc[d].inst /\ p.insync = proc[d].insync /\ p.healthy = proc[d].healthy
        /\ proc' = [proc EXCEPT ![d] = p]
    BY <1>0, <2>1, <2>n, MovesTo DEF Syncing
  <2>3. live' \in LiveType /\ live'.lock = proc[d].want /\ live'.toml = live.toml
    BY <1>0, <2>1 DEF LiveType, ProcType
  <2>s. Disturbed' = Disturbed  BY <2>1, SameEnv
  <2> HIDE DEF p
  <2>4. Fine(p, env', live', Disturbed')
    BY <1>0, <2>1, <2>n, <2>2, <2>3, <2>s DEF Fine, Out, Syncing
  <2>5. Claims(d, p)  BY <2>1, <2>2, SameEnv DEF Claims, Says
  <2>6. Works(d) /\ p.pc # "take"  BY <2>1, <2>2, <2>n DEF Works
  <2> QED BY <1>0, <2>1, <2>2, <2>3, <2>4, <2>5, <2>6, DaemonStep
<1> QED BY <1>1, <1>2

\* A torn environment is one.
LEMMA TornType == ASSUME env \in EnvType PROVE Torn \subseteq EnvType
BY Zero DEF Torn, EnvType

\* A wipe: the environment is torn, and nobody claims it.
LEMMA WipeKeeps ==
  ASSUME FullInv, NEW d \in Daemons, Wipe(d)
  PROVE  FullInv' /\ Kept
<1>0. /\ TypeOK /\ proc[d] \in ProcType /\ env \in EnvType /\ live \in LiveType
      /\ hist \in HistType /\ Fine(proc[d], env, live, Disturbed)
      /\ seen \in [Daemons -> {"no", "seen", "frozen"}]
  BY Facts
<1> DEFINE p == Now(d, "install")
<1>1. /\ proc[d].pc = "wipe" /\ UNCHANGED <<lock, seen, desired, live, paused, hist>>
      /\ env' = [rev |-> 0, is |-> "none"] /\ Moves(d, "install")
  BY DEF Wipe, At
<1>2. /\ p \in ProcType /\ p.pc = "install" /\ p.want = proc[d].want
      /\ p.inst = proc[d].inst /\ p.insync = proc[d].insync /\ p.healthy = proc[d].healthy
      /\ proc' = [proc EXCEPT ![d] = p]
  BY <1>0, <1>1, MovesTo DEF Syncing
<1>3. env' \in EnvType /\ env'.is = "none"  BY <1>1, Zero DEF EnvType
<1>s. Disturbed' = Disturbed  BY <1>1 DEF Disturbed
<1> HIDE DEF p
<1>4. Fine(p, env', live', Disturbed')
  BY <1>0, <1>1, <1>2, <1>3, <1>s DEF Fine, Out, Syncing
<1>5. Claims(d, p)  BY <1>1, <1>2 DEF Claims, Says, Syncing
<1>6. Works(d) /\ p.pc # "take"  BY <1>1, <1>2 DEF Works
<1> QED BY <1>0, <1>1, <1>2, <1>3, <1>4, <1>5, <1>6, DaemonStep

\* An install that succeeds: whole, and not claimed before it is validated.
LEMMA InstallKeeps ==
  ASSUME FullInv, NEW d \in Daemons, Install(d)
  PROVE  FullInv' /\ Kept
<1>0. /\ TypeOK /\ proc[d] \in ProcType /\ env \in EnvType /\ live \in LiveType
      /\ hist \in HistType /\ Fine(proc[d], env, live, Disturbed)
      /\ seen \in [Daemons -> {"no", "seen", "frozen"}]
  BY Facts
<1> DEFINE p == Now(d, "check")
<1>1. /\ proc[d].pc = "install" /\ UNCHANGED <<lock, seen, desired, live, paused, hist>>
      /\ env' = Installed(d) /\ Moves(d, "check")
  BY DEF Install, At
<1>2. /\ p \in ProcType /\ p.pc = "check" /\ p.want = proc[d].want
      /\ p.inst = proc[d].inst /\ p.insync = proc[d].insync /\ p.healthy = proc[d].healthy
      /\ proc' = [proc EXCEPT ![d] = p]
  BY <1>0, <1>1, MovesTo DEF Syncing
<1>3. /\ env' \in EnvType /\ env'.is \in {"broken", "edited", "whole"}
      /\ env'.is # "broken" => env'.rev = live.lock
      /\ env'.is = "edited" => live.lock = 0
  BY <1>0, <1>1, Zero DEF EnvType, LiveType, Installed
<1>s. Disturbed' = Disturbed  BY <1>1 DEF Disturbed
<1> HIDE DEF p
<1>4. Fine(p, env', live', Disturbed')
  <2>1. /\ proc[d].want # 0 /\ ~(proc[d].insync /\ proc[d].healthy) /\ proc[d].inst = 0
        /\ ~Disturbed => live.toml = proc[d].want /\ live.lock = proc[d].want
    BY <1>0, <1>1 DEF Fine, Syncing
  <2>2. ~Disturbed => env'.is \in {"whole", "broken"} /\ (env'.is = "whole" => env'.rev = p.want)
    BY <1>2, <1>3, <2>1
  <2> QED BY <1>1, <1>2, <1>s, <2>1, <2>2 DEF Fine, Out, Syncing
<1>5. Claims(d, p)  BY <1>1, <1>2 DEF Claims, Says, Syncing
<1>6. Works(d) /\ p.pc # "take"  BY <1>1, <1>2 DEF Works
<1> QED BY <1>0, <1>1, <1>2, <1>3, <1>4, <1>5, <1>6, DaemonStep

\* An install that fails.
LEMMA InstallFailsKeeps ==
  ASSUME FullInv, NEW d \in Daemons, InstallFails(d)
  PROVE  FullInv' /\ Kept
<1>0. /\ TypeOK /\ proc[d] \in ProcType /\ env \in EnvType /\ live \in LiveType
      /\ hist \in HistType /\ Fine(proc[d], env, live, Disturbed)
      /\ seen \in [Daemons -> {"no", "seen", "frozen"}]
  BY Facts
<1>1. /\ proc[d].pc = "install" /\ UNCHANGED <<lock, seen, desired, live, paused, hist>>
      /\ env' \in Torn
      /\ proc' = [proc EXCEPT ![d] = Now(d, "retry")] \/ proc' = [proc EXCEPT ![d] = Failed(d)]
  BY DEF InstallFails, At, Now
<1>2. PICK p \in {Now(d, "retry"), Failed(d)} : proc' = [proc EXCEPT ![d] = p]
  BY <1>1
<1>3. /\ p \in ProcType /\ p.pc \in {"retry", "idle"} /\ p.want = proc[d].want
      /\ p.inst = proc[d].inst /\ p.insync = proc[d].insync /\ p.healthy = proc[d].healthy
  BY <1>0, <1>2, MovesTo, FailedFacts DEF Syncing
<1>4. env' \in EnvType /\ (env' = env \/ env'.is \in {"hollow", "broken"})
  BY <1>0, <1>1, TornType DEF Torn
<1>s. Disturbed' = Disturbed  BY <1>1 DEF Disturbed
<1>5. Fine(p, env', live', Disturbed')
  <2>1. /\ proc[d].want # 0 /\ ~(proc[d].insync /\ proc[d].healthy) /\ proc[d].inst = 0
        /\ ~Disturbed => /\ live.toml = proc[d].want /\ live.lock = proc[d].want
                         /\ proc[d].insync => env.is # "edited"
                                                /\ (env.is = "whole" => env.rev = proc[d].want)
    BY <1>0, <1>1 DEF Fine, Syncing
  <2> QED BY <1>1, <1>3, <1>4, <1>s, <2>1 DEF Fine, Out, Syncing
<1>6. Claims(d, p)  BY <1>1, <1>3 DEF Claims, Says, Syncing
<1>7. Works(d) /\ p.pc # "take"  BY <1>1, <1>3 DEF Works
<1> QED BY <1>0, <1>1, <1>2, <1>3, <1>4, <1>5, <1>6, <1>7, DaemonStep

\* The next attempt, or the last one given up.
LEMMA RetryKeeps ==
  ASSUME FullInv, NEW d \in Daemons, Retry(d)
  PROVE  FullInv' /\ Kept
<1>0. /\ TypeOK /\ proc[d] \in ProcType /\ env \in EnvType /\ live \in LiveType
      /\ hist \in HistType /\ Fine(proc[d], env, live, Disturbed)
      /\ seen \in [Daemons -> {"no", "seen", "frozen"}]
  BY Facts
<1> DEFINE r == [proc[d] EXCEPT !.pc = "install", !.attempt = @ + 1]
<1>1. /\ proc[d].pc = "retry" /\ UNCHANGED <<lock, seen, desired, live, env, paused, hist>>
      /\ proc' = [proc EXCEPT ![d] = r] \/ proc' = [proc EXCEPT ![d] = Failed(d)]
  <2>1. /\ proc[d].pc = "retry" /\ UNCHANGED <<lock, seen, desired, live, env, paused, hist>>
        /\ proc' = [proc EXCEPT ![d] = IF proc[d].stop THEN Failed(d) ELSE r]
    BY DEF Retry, At
  <2> HIDE DEF r
  <2> QED BY <2>1
<1>2. /\ r \in ProcType /\ r.pc = "install" /\ r.want = proc[d].want
      /\ r.inst = proc[d].inst /\ r.insync = proc[d].insync /\ r.healthy = proc[d].healthy
  <2> DEFINE n == proc[d].attempt + 1
  <2>1. n \in Nat  BY <1>0 DEF ProcType
  <2>2. r = [proc[d] EXCEPT !.pc = "install", !.attempt = n]  OBVIOUS
  <2> HIDE DEF n, r
  <2> QED BY <1>0, <2>1, <2>2 DEF ProcType, Syncing
<1> HIDE DEF r
<1>3. PICK p \in {r, Failed(d)} : proc' = [proc EXCEPT ![d] = p]
  BY <1>1
<1>4. /\ p \in ProcType /\ p.pc \in {"install", "idle"} /\ p.want = proc[d].want
      /\ p.inst = proc[d].inst /\ p.insync = proc[d].insync /\ p.healthy = proc[d].healthy
  BY <1>2, <1>3, FailedFacts
<1>s. Disturbed' = Disturbed /\ Whole' = Whole  BY <1>1, SameEnv
<1>5. Fine(p, env', live', Disturbed')
  BY <1>0, <1>1, <1>4, <1>s DEF Fine, Out, Syncing
<1>6. Claims(d, p)  BY <1>s, <1>4 DEF Claims, Says
<1>7. Works(d) /\ p.pc # "take"  BY <1>1, <1>4 DEF Works
<1> QED BY <1>0, <1>1, <1>3, <1>4, <1>5, <1>6, <1>7, DaemonStep

\* A check that times out says nothing.
LEMMA TimesOutKeeps ==
  ASSUME FullInv, NEW d \in Daemons, CheckTimesOut(d)
  PROVE  FullInv' /\ Kept
<1>0. /\ TypeOK /\ proc[d] \in ProcType /\ env \in EnvType /\ live \in LiveType
      /\ hist \in HistType /\ Fine(proc[d], env, live, Disturbed)
      /\ seen \in [Daemons -> {"no", "seen", "frozen"}]
  BY Facts
<1>1. /\ UNCHANGED <<lock, seen, desired, live, env, paused, hist>>
      /\ \/ proc[d].pc = "check" /\ proc' = [proc EXCEPT ![d] = Failed(d)]
         \/ proc[d].pc = "verify" /\ proc' = [proc EXCEPT ![d] = Now(d, "loop")]
  BY DEF CheckTimesOut, Now
<1>3. PICK p \in {Now(d, "loop"), Failed(d)} : proc' = [proc EXCEPT ![d] = p]
  BY <1>1
<1>4. /\ p \in ProcType /\ p.pc \in {"loop", "idle"} /\ p.want = proc[d].want
      /\ p.inst = proc[d].inst /\ p.insync = proc[d].insync /\ p.healthy = proc[d].healthy
  BY <1>0, <1>3, FailedFacts, MovesTo
<1>s. Disturbed' = Disturbed /\ Whole' = Whole  BY <1>1, SameEnv
<1>5. Fine(p, env', live', Disturbed')
  BY <1>0, <1>1, <1>4, <1>s DEF Fine, Out, Syncing
<1>6. Claims(d, p)  BY <1>s, <1>4 DEF Claims, Says
<1>7. Works(d) /\ p.pc # "take"  BY <1>1, <1>4 DEF Works
<1> QED BY <1>0, <1>1, <1>3, <1>4, <1>5, <1>6, <1>7, DaemonStep

\* SIGTERM: a daemon that ends claims nothing.
LEMMA TerminateKeeps ==
  ASSUME FullInv, NEW d \in Daemons, Terminate(d)
  PROVE  FullInv' /\ Kept
<1>0. /\ TypeOK /\ proc[d] \in ProcType /\ env \in EnvType /\ live \in LiveType
      /\ hist \in HistType /\ Fine(proc[d], env, live, Disturbed)
      /\ seen \in [Daemons -> {"no", "seen", "frozen"}]
  BY Facts
<1> DEFINE p == [proc[d] EXCEPT !.stop = TRUE]
<1>1. /\ Works(d) /\ UNCHANGED <<lock, seen, desired, live, env, paused, hist>>
      /\ proc' = [proc EXCEPT ![d] = p]
  BY DEF Terminate
<1>2. /\ p \in ProcType /\ p.pc = proc[d].pc /\ p.want = proc[d].want
      /\ p.inst = proc[d].inst /\ p.insync = proc[d].insync /\ p.healthy = proc[d].healthy
  BY <1>0 DEF ProcType
<1> HIDE DEF p
<1>s. Disturbed' = Disturbed /\ Whole' = Whole  BY <1>1, SameEnv
<1>3. Fine(p, env', live', Disturbed')  BY <1>0, <1>1, <1>2, <1>s DEF Fine
<1>4. Claims(d, p)  BY <1>s, <1>2 DEF Claims, Says
<1>5. p.pc # "take"  BY <1>1, <1>2 DEF Works
<1> QED BY <1>0, <1>1, <1>2, <1>3, <1>4, <1>5, DaemonStep

\* SIGKILL, in the middle of an install or of a wipe too.
LEMMA KillKeeps ==
  ASSUME FullInv, NEW d \in Daemons, Kill(d)
  PROVE  FullInv' /\ Kept
<1>0. /\ TypeOK /\ proc[d] \in ProcType /\ env \in EnvType /\ live \in LiveType
      /\ hist \in HistType /\ Fine(proc[d], env, live, Disturbed)
      /\ seen \in [Daemons -> {"no", "seen", "frozen"}]
  BY Facts
<1>1. /\ proc' = [proc EXCEPT ![d] = NotRun] /\ seen' = [seen EXCEPT ![d] = "no"]
      /\ \/ proc[d].pc \in {"install", "wipe"} /\ env' \in Torn
         \/ env' = env
      /\ UNCHANGED <<lock, desired, live, paused, hist>>
  BY DEF Kill
<1>2. env' \in EnvType  BY <1>0, <1>1, TornType
<1>3. Works(d) \/ UNCHANGED <<live, env, hist>>  BY <1>1 DEF Works
<1>4. Fine(NotRun, env', live', Disturbed')  BY NotRunType DEF Fine, Out, Syncing
<1>5. Claims(d, NotRun)
  <2>1. CASE env' = env  BY <1>1, <2>1, SameEnv, NotRunType DEF Claims, Says
  <2>2. CASE proc[d].pc \in {"install", "wipe"}  BY <2>2, NotRunType DEF Claims, Says, Syncing
  <2> QED BY <1>1, <2>1, <2>2
<1>6. /\ seen' \in [Daemons -> {"no", "seen", "frozen"}]
      /\ \A e \in Daemons : seen'[e] = "frozen" => seen[e] = "frozen"
  BY <1>0, <1>1
<1> QED BY <1>0, <1>1, <1>2, <1>3, <1>4, <1>5, <1>6, NotRunType, DaemonStep DEF Out

\* A validation claims what was installed and found whole.
LEMMA ValidateKeeps ==
  ASSUME FullInv, NEW d \in Daemons, Validate(d)
  PROVE  FullInv' /\ Kept
<1>0. /\ TypeOK /\ proc[d] \in ProcType /\ env \in EnvType /\ live \in LiveType
      /\ hist \in HistType /\ Fine(proc[d], env, live, Disturbed)
      /\ seen \in [Daemons -> {"no", "seen", "frozen"}]
  BY Facts
<1> DEFINE good == [proc[d] EXCEPT !.pc = "idle", !.inst = proc[d].want, !.insync = TRUE,
                                   !.healthy = TRUE]
           again == [proc[d] EXCEPT !.pc = "wipe", !.second = TRUE, !.attempt = 1]
           bad == [Failed(d) EXCEPT !.healthy = FALSE]
<1>1. /\ proc[d].pc = "check" /\ UNCHANGED <<lock, seen, desired, live, env, paused, hist>>
      /\ \/ proc' = [proc EXCEPT ![d] = Failed(d)]
         \/ Valid /\ proc' = [proc EXCEPT ![d] = good]
         \/ proc' = [proc EXCEPT ![d] = again]
         \/ proc' = [proc EXCEPT ![d] = bad]
  <2>1. PICK ok \in {Valid, FALSE} :
          proc' = [proc EXCEPT ![d] =
            CASE proc[d].stop -> Failed(d)
              [] ~proc[d].stop /\ ok -> good
              [] ~proc[d].stop /\ ~ok /\ ~proc[d].second -> again
              [] OTHER -> bad]
    BY DEF Validate
  <2>2. proc[d].pc = "check" /\ UNCHANGED <<lock, seen, desired, live, env, paused, hist>>
    BY DEF Validate, At
  <2>3. ok => Valid  BY <2>1
  <2> HIDE DEF good, again, bad
  <2>4. CASE proc[d].stop  BY <2>1, <2>2, <2>4
  <2>5. CASE ~proc[d].stop /\ ok  BY <2>1, <2>2, <2>3, <2>5
  <2>6. CASE ~proc[d].stop /\ ~ok /\ ~proc[d].second  BY <2>1, <2>2, <2>6
  <2>7. CASE ~proc[d].stop /\ ~ok /\ proc[d].second  BY <2>1, <2>2, <2>7
  <2> QED BY <2>4, <2>5, <2>6, <2>7
<1>2. /\ good \in ProcType /\ good.pc = "idle" /\ good.want = proc[d].want
      /\ good.inst = proc[d].want /\ good.insync = TRUE /\ good.healthy = TRUE
  BY <1>0 DEF ProcType
<1>3. /\ again \in ProcType /\ again.pc = "wipe" /\ again.want = proc[d].want
      /\ again.inst = proc[d].inst /\ again.insync = proc[d].insync
      /\ again.healthy = proc[d].healthy
  BY <1>0 DEF ProcType, Syncing
<1>4. /\ bad \in ProcType /\ bad.pc = "idle" /\ bad.want = proc[d].want
      /\ bad.inst = proc[d].inst /\ bad.insync = proc[d].insync /\ bad.healthy = FALSE
  BY FailedFacts DEF ProcType
<1> HIDE DEF good, again, bad
<1>s. Disturbed' = Disturbed /\ Whole' = Whole  BY <1>1, SameEnv
<1>w. Works(d)  BY <1>1 DEF Works
<1>5. CASE Valid /\ proc' = [proc EXCEPT ![d] = good]
  <2>1. proc[d].want # 0 /\ (~Disturbed => env.is = "whole" /\ env.rev = proc[d].want)
    BY <1>0, <1>1, <1>5 DEF Fine, Syncing, Valid
  <2>2. Fine(good, env', live', Disturbed')
    BY <1>1, <1>2, <1>s, <2>1 DEF Fine, Out, Syncing
  <2>3. proc[d].want \in Revs  BY <1>0, <2>1, RevAssumption DEF ProcType, Revs
  <2>4. Claims(d, good)  BY <1>2, <1>s, <2>1, <2>3 DEF Claims, Whole
  <2> QED BY <1>0, <1>1, <1>2, <1>5, <1>w, <2>2, <2>4, DaemonStep
<1>6. ASSUME NEW p \in {Failed(d), again, bad}, proc' = [proc EXCEPT ![d] = p]
      PROVE  FullInv' /\ Kept
  <2>1. /\ p \in ProcType /\ p.pc \in {"wipe", "idle"} /\ p.want = proc[d].want
        /\ p.inst = proc[d].inst /\ p.insync = proc[d].insync
        /\ Says(p) => Says(proc[d])
    BY <1>3, <1>4, <1>6, FailedFacts DEF Says
  <2>2. Fine(p, env', live', Disturbed')
    BY <1>0, <1>1, <1>s, <2>1 DEF Fine, Out, Syncing, Says
  <2>3. Claims(d, p)  BY <1>s, <2>1 DEF Claims
  <2>4. p.pc # "take"  BY <2>1
  <2> QED BY <1>0, <1>1, <1>6, <1>w, <2>1, <2>2, <2>3, <2>4, DaemonStep
<1> QED BY <1>1, <1>5, <1>6

\* A deep verification withdraws a claim or leaves it.
LEMMA VerifiedKeeps ==
  ASSUME FullInv, NEW d \in Daemons, Verified(d)
  PROVE  FullInv' /\ Kept
<1>0. /\ TypeOK /\ proc[d] \in ProcType /\ env \in EnvType /\ live \in LiveType
      /\ hist \in HistType /\ Fine(proc[d], env, live, Disturbed)
      /\ seen \in [Daemons -> {"no", "seen", "frozen"}]
  BY Facts
<1> DEFINE pOf(ok) == [proc[d] EXCEPT !.pc = "loop", !.healthy = ok]
           out(ok) == [pOf(ok) EXCEPT !.inst = 0, !.insync = FALSE]
           b == [Begun(d) EXCEPT !.healthy = FALSE, !.insync = InSync(d)]
<1>1. /\ proc[d].pc = "verify" /\ UNCHANGED <<lock, seen, desired, live, env, paused>>
      /\ hist' = [hist EXCEPT !.touched = @ /\ proc'[d].pc # "toml"]
      /\ \/ proc' = [proc EXCEPT ![d] = Now(d, "loop")]
         \/ Valid /\ proc' = [proc EXCEPT ![d] = pOf(TRUE)]
         \/ proc' = [proc EXCEPT ![d] = out(FALSE)]
         \/ proc' = [proc EXCEPT ![d] = b]
  <2>1. PICK ok \in {Valid, FALSE} :
          proc' = [proc EXCEPT ![d] =
            CASE proc[d].stop -> Now(d, "loop")
              [] ~proc[d].stop /\ ok -> pOf(ok)
              [] ~proc[d].stop /\ ~ok /\ paused -> out(ok)
              [] OTHER -> b]
    BY DEF Verified, Now
  <2>2. /\ proc[d].pc = "verify" /\ UNCHANGED <<lock, seen, desired, live, env, paused>>
        /\ hist' = [hist EXCEPT !.touched = @ /\ proc'[d].pc # "toml"]
    BY DEF Verified, At
  <2>v. Valid \in BOOLEAN  BY DEF Valid
  <2>a. ok = Valid \/ ok = FALSE  BY <2>1
  <2>3. ok \in BOOLEAN /\ (ok => Valid)
    <3>1. CASE ok = FALSE  BY <3>1
    <3>2. CASE ok = Valid  BY <2>v, <3>2
    <3> QED BY <2>a, <3>1, <3>2
  <2> HIDE DEF pOf, out, b
  <2>4. CASE proc[d].stop  BY <2>1, <2>2, <2>4
  <2>5. CASE ~proc[d].stop /\ ok
    <3>1. ok = TRUE  BY <2>3, <2>5
    <3> QED BY <2>1, <2>2, <2>3, <2>5, <3>1
  <2>6. CASE ~proc[d].stop /\ ~ok
    <3>1. ok = FALSE  BY <2>3, <2>6
    <3> QED BY <2>1, <2>2, <2>6, <3>1
  <2> QED BY <2>4, <2>5, <2>6
<1>2. /\ Now(d, "loop") \in ProcType /\ Now(d, "loop").pc = "loop"
      /\ Now(d, "loop").want = proc[d].want /\ Now(d, "loop").inst = proc[d].inst
      /\ Now(d, "loop").insync = proc[d].insync /\ Now(d, "loop").healthy = proc[d].healthy
  BY <1>0, MovesTo
<1>3. /\ pOf(TRUE) \in ProcType /\ pOf(TRUE).pc = "loop" /\ pOf(TRUE).want = proc[d].want
      /\ pOf(TRUE).inst = proc[d].inst /\ pOf(TRUE).insync = proc[d].insync
  BY <1>0 DEF ProcType
<1>4. out(FALSE) \in ProcType /\ out(FALSE).pc = "loop" /\ out(FALSE).inst = 0 /\ ~out(FALSE).insync
  BY <1>0, Zero DEF ProcType
<1>5. /\ b \in ProcType /\ b.pc = "toml" /\ b.want = desired /\ b.inst = 0 /\ b.healthy = FALSE
  <2>1. InSync(d) \in BOOLEAN  BY DEF InSync
  <2>2. /\ Begun(d) \in ProcType /\ Begun(d).pc = "toml" /\ Begun(d).want = desired
        /\ Begun(d).inst = 0
    BY BegunFacts
  <2> QED BY <2>1, <2>2 DEF ProcType
<1> HIDE DEF pOf, out, b
<1>w. Works(d)  BY <1>1 DEF Works
\* Unless a sync begins, the history stays.
<1>6. ASSUME NEW p \in ProcType, p.pc = "loop", proc' = [proc EXCEPT ![d] = p]
      PROVE  hist' = hist /\ Disturbed' = Disturbed /\ Whole' = Whole
  <2>1. proc'[d] = p  BY <1>0, <1>6, OneMoves
  <2>2. hist' = [hist EXCEPT !.touched = hist.touched /\ TRUE]  BY <1>1, <1>6, <2>1
  <2>3. hist' = hist  BY <1>0, <2>2 DEF HistType
  <2> QED BY <1>1, <2>3, SameEnv
<1>7. CASE proc' = [proc EXCEPT ![d] = Now(d, "loop")]
  <2>1. hist' = hist /\ Disturbed' = Disturbed /\ Whole' = Whole  BY <1>2, <1>6, <1>7
  <2>2. Fine(Now(d, "loop"), env', live', Disturbed')
    BY <1>0, <1>1, <1>2, <2>1 DEF Fine, Out, Syncing
  <2>3. Claims(d, Now(d, "loop"))  BY <1>2, <2>1 DEF Claims, Says
  <2> QED BY <1>0, <1>1, <1>2, <1>7, <1>w, <2>1, <2>2, <2>3, DaemonStep
<1>8. CASE Valid /\ proc' = [proc EXCEPT ![d] = pOf(TRUE)]
  <2>1. hist' = hist /\ Disturbed' = Disturbed /\ Whole' = Whole  BY <1>3, <1>6, <1>8
  <2>2. Fine(pOf(TRUE), env', live', Disturbed')
    BY <1>0, <1>1, <1>3, <2>1 DEF Fine, Out, Syncing
  <2>3. CASE ~proc[d].insync
    <3>1. Claims(d, pOf(TRUE))  BY <1>3, <2>1, <2>3 DEF Claims, Says
    <3> QED BY <1>0, <1>1, <1>3, <1>8, <1>w, <2>1, <2>2, <3>1, DaemonStep
  <2>4. CASE proc[d].insync
    <3>1. proc[d].want # 0 /\ (~Disturbed => env.is = "whole" /\ env.rev = proc[d].want)
      BY <1>0, <1>1, <1>8, <2>4 DEF Fine, Valid
    <3>2. proc[d].want \in Revs  BY <1>0, <3>1, RevAssumption DEF ProcType, Revs
    <3>3. Claims(d, pOf(TRUE))  BY <1>3, <2>1, <3>1, <3>2 DEF Claims, Whole
    <3> QED BY <1>0, <1>1, <1>3, <1>8, <1>w, <2>1, <2>2, <3>3, DaemonStep
  <2> QED BY <2>3, <2>4
<1>9. CASE proc' = [proc EXCEPT ![d] = out(FALSE)]
  <2>1. hist' = hist /\ Disturbed' = Disturbed /\ Whole' = Whole  BY <1>4, <1>6, <1>9
  <2>2. Fine(out(FALSE), env', live', Disturbed')
    BY <1>4 DEF Fine, Out, Syncing
  <2>3. Claims(d, out(FALSE))  BY <1>4, <2>1 DEF Claims, Says
  <2> QED BY <1>0, <1>1, <1>4, <1>9, <1>w, <2>1, <2>2, <2>3, DaemonStep
<1>10. CASE proc' = [proc EXCEPT ![d] = b]
  <2>1. proc'[d] = b  BY <1>0, <1>5, <1>10, OneMoves
  <2>2. hist' \in HistType /\ hist'.lapsed = hist.lapsed /\ hist'.touched = FALSE
    BY <1>0, <1>1, <1>5, <2>1 DEF HistType
  <2>d. desired # 0  BY Facts
  <2>3. Fine(b, env', live', Disturbed')  BY <1>5, <2>d DEF Fine, Out, Syncing
  <2>4. Claims(d, b)
    <3>1. CASE Disturbed  BY <1>5, <3>1 DEF Claims, Says
    <3>2. CASE ~Disturbed
      <4>1. Disturbed' = Disturbed /\ Whole' = Whole
        BY <1>0, <1>1, <2>2, <3>2 DEF Disturbed, Whole, HistType
      <4> QED BY <1>5, <4>1 DEF Claims, Says
    <3> QED BY <3>1, <3>2
  <2> QED BY <1>0, <1>1, <1>5, <1>10, <1>w, <2>2, <2>3, <2>4, DaemonStep
<1> QED BY <1>1, <1>7, <1>8, <1>9, <1>10

-----------------------------------------------------------------------------
(* The lock. *)

\* A daemon starts with nothing claimed.
LEMMA StartKeeps ==
  ASSUME FullInv, NEW d \in Daemons, Start(d)
  PROVE  FullInv' /\ Kept
<1>0. /\ TypeOK /\ proc[d] \in ProcType /\ env \in EnvType /\ live \in LiveType
      /\ hist \in HistType /\ Fine(proc[d], env, live, Disturbed)
      /\ seen \in [Daemons -> {"no", "seen", "frozen"}]
  BY Facts
<1> DEFINE p == [NotRun EXCEPT !.pc = "lock"]
<1>1. /\ UNCHANGED <<lock, seen, desired, live, env, paused, hist>>
      /\ proc' = [proc EXCEPT ![d] = p]
  BY DEF Start
<1>2. p \in ProcType /\ p.pc = "lock" /\ p.inst = 0 /\ ~p.insync
  BY NotRunType DEF ProcType, Out
<1> HIDE DEF p
<1>3. Fine(p, env', live', Disturbed')  BY <1>2 DEF Fine, Out, Syncing
<1>4. Claims(d, p)  BY <1>1, <1>2, SameEnv DEF Claims, Says
<1>5. p.pc \in Out /\ p.pc # "take"  BY <1>2 DEF Out
<1> QED BY <1>0, <1>1, <1>2, <1>3, <1>4, <1>5, DaemonStep

\* A heartbeat, or a look at one, changes nothing else.
LEMMA SeenKeeps ==
  ASSUME FullInv, UNCHANGED <<proc, lock, desired, live, env, paused, hist>>,
         seen' \in [Daemons -> {"no", "seen", "frozen"}],
         \A e \in Daemons : seen'[e] = "frozen" => seen[e] = "frozen"
  PROVE  FullInv' /\ Kept
<1>1. TypeOK'  BY DEF FullInv, Inv, TypeOK
<1>2. Guarded'  BY GuardedKeeps DEF FullInv, Inv, Works, At
<1>3. Honest' /\ Claimed' = Claimed  BY DEF FullInv, Honest, Disturbed, Claimed
<1>4. Kept  BY <1>3, SameEnv DEF Kept
<1> QED BY <1>1, <1>2, <1>3, <1>4 DEF FullInv, Inv

\* A look at the lock, and a heartbeat.
LEMMA ObserveKeeps ==
  ASSUME FullInv, NEW d \in Daemons, Observe(d) \/ Beat(d)
  PROVE  FullInv' /\ Kept
<1>0. TypeOK /\ seen \in [Daemons -> {"no", "seen", "frozen"}]  BY Facts
<1>1. CASE Observe(d)
  <2>1. seen' = [seen EXCEPT ![d] = "seen"] /\ UNCHANGED <<proc, lock, desired, live, env, paused, hist>>
    BY <1>1 DEF Observe
  <2> QED BY <1>0, <2>1, SeenKeeps
<1>2. CASE Beat(d)
  <2>1. Beats(d) /\ UNCHANGED <<proc, lock, desired, live, env, paused, hist>>
    BY <1>2 DEF Beat
  <2> QED BY <1>0, <2>1, BeatsSeen, SeenKeeps
<1> QED BY <1>1, <1>2

\* Nobody holds the lock, so nobody works: the mkdir.
LEMMA AcquireKeeps ==
  ASSUME FullInv, NEW d \in Daemons, Acquire(d)
  PROVE  FullInv' /\ Kept
<1>0. /\ TypeOK /\ proc[d] \in ProcType /\ env \in EnvType /\ live \in LiveType
      /\ hist \in HistType /\ Fine(proc[d], env, live, Disturbed)
      /\ seen \in [Daemons -> {"no", "seen", "frozen"}]
  BY Facts
<1> DEFINE p == Now(d, "loop")
<1>1. /\ proc[d].pc = "lock" /\ ~lock /\ lock' = TRUE /\ seen' = Unseen /\ Moves(d, "loop")
      /\ UNCHANGED <<desired, live, env, paused, hist>>
  BY DEF Acquire, At
<1>2. /\ p \in ProcType /\ p.pc = "loop" /\ p.want = proc[d].want
      /\ p.inst = proc[d].inst /\ p.insync = proc[d].insync /\ p.healthy = proc[d].healthy
      /\ proc' = [proc EXCEPT ![d] = p]
  BY <1>0, <1>1, MovesTo
<1> HIDE DEF p
<1>3. /\ proc' \in [Daemons -> ProcType] /\ proc'[d] = p
      /\ \A e \in Daemons \ {d} : proc'[e] = proc[e]
  BY <1>0, <1>2, OneMoves
<1>4. seen' \in [Daemons -> {"no", "seen", "frozen"}] /\ \A e \in Daemons : seen'[e] = "no"
  BY <1>1 DEF Unseen
<1>5. TypeOK'  BY <1>0, <1>1, <1>3, <1>4 DEF TypeOK
<1>6. Guarded'
  <2>1. ~hist.lapsed => \A e \in Daemons : ~Works(e) /\ proc[e].pc # "take"
    BY <1>1 DEF FullInv, Inv, Guarded, At
  <2>2. ~hist.lapsed => \A e \in Daemons \ {d} : ~Works(e)' /\ proc'[e].pc # "take"
    BY <1>3, <2>1 DEF Works
  <2>3. proc'[d].pc # "take"  BY <1>2, <1>3
  <2> QED BY <1>1, <1>4, <2>2, <2>3 DEF Guarded, At
<1>7. Fine(p, env', live', Disturbed')
  BY <1>0, <1>1, <1>2 DEF Fine, Out, Syncing
<1>8. Honest'  BY <1>1, <1>3, <1>7, OthersFine DEF Honest
<1>9. Claims(d, p)  BY <1>1, <1>2, SameEnv DEF Claims, Says
<1> QED BY <1>2, <1>5, <1>6, <1>8, <1>9, ClaimsKeep DEF FullInv, Inv

\* A holder is silent for longer than LOCK_FROZEN_SECONDS.
LEMMA FreezeKeeps ==
  ASSUME FullInv, NEW d \in Daemons, Freeze(d)
  PROVE  FullInv' /\ Kept
<1>0. /\ TypeOK /\ proc[d] \in ProcType /\ env \in EnvType /\ live \in LiveType
      /\ hist \in HistType /\ Fine(proc[d], env, live, Disturbed)
      /\ seen \in [Daemons -> {"no", "seen", "frozen"}]
  BY Facts
<1> DEFINE lapses == \E e \in Daemons : proc[e].pc \in {"wipe", "retry"}
<1>1. /\ \A e \in Daemons : Quiet(e)
      /\ proc[d].pc = "lock" /\ lock /\ seen' = [seen EXCEPT ![d] = "frozen"]
      /\ hist' = [hist EXCEPT !.lapsed = @ \/ lapses]
      /\ UNCHANGED <<proc, lock, desired, live, env, paused>>
  BY DEF Freeze, At
<1>2. lapses \in BOOLEAN  OBVIOUS
<1>3. ~lapses => \A e \in Daemons : ~Works(e)
  BY <1>1 DEF Quiet, At
<1> HIDE DEF lapses
<1>4. hist' \in HistType /\ hist'.touched = hist.touched /\ hist'.lapsed = (hist.lapsed \/ lapses)
  BY <1>0, <1>1, <1>2 DEF HistType
<1>5. TypeOK'  BY <1>0, <1>1, <1>4 DEF TypeOK
<1>6. Guarded'
  <2>1. CASE hist'.lapsed  BY <2>1 DEF Guarded
  <2>2. CASE ~hist'.lapsed
    <3>1. ~hist.lapsed /\ ~lapses  BY <1>4, <2>2
    <3>2. \A e \in Daemons : ~Works(e)'  BY <1>1, <1>3, <3>1 DEF Works
    <3> QED BY <1>1, <3>1, <3>2 DEF FullInv, Inv, Guarded, At
  <2> QED BY <2>1, <2>2
<1>7. Disturbed => Disturbed'  BY <1>4 DEF Disturbed
<1>8. Honest'
  <2> SUFFICES ASSUME NEW e \in Daemons PROVE Fine(proc[e], env, live, Disturbed')
    BY <1>1 DEF Honest
  <2>1. Fine(proc[e], env, live, Disturbed)  BY DEF FullInv, Honest
  <2> QED BY <1>7, <2>1 DEF Fine
<1>9. Kept
  <2>1. Claimed' = Claimed /\ Whole' = Whole  BY <1>1 DEF Claimed, Whole
  <2>2. Disturbed \in BOOLEAN /\ Disturbed' \in BOOLEAN
    BY <1>0, <1>4 DEF Disturbed, HistType
  <2> QED BY <1>7, <2>1, <2>2 DEF Kept
<1> QED BY <1>5, <1>6, <1>8, <1>9 DEF FullInv, Inv

\* A waiter that saw no heartbeat decides to take over: from the dead, or the lock lapses.
LEMMA DecideKeeps ==
  ASSUME FullInv, NEW d \in Daemons, Decide(d)
  PROVE  FullInv' /\ Kept
<1>0. /\ TypeOK /\ proc[d] \in ProcType /\ env \in EnvType /\ live \in LiveType
      /\ hist \in HistType /\ Fine(proc[d], env, live, Disturbed)
      /\ seen \in [Daemons -> {"no", "seen", "frozen"}]
  BY Facts
<1> DEFINE lapses == \E e \in Daemons : At(e, "take")
           p == Now(d, "take")
<1>1. /\ proc[d].pc = "lock" /\ lock /\ seen[d] = "frozen" /\ Moves(d, "take")
      /\ hist' = [hist EXCEPT !.lapsed = @ \/ lapses]
      /\ UNCHANGED <<lock, seen, desired, live, env, paused>>
  BY DEF Decide, At
<1>2. lapses \in BOOLEAN  OBVIOUS
<1>3. /\ p \in ProcType /\ p.pc = "take" /\ p.want = proc[d].want
      /\ p.inst = proc[d].inst /\ p.insync = proc[d].insync /\ p.healthy = proc[d].healthy
      /\ proc' = [proc EXCEPT ![d] = p]
  BY <1>0, <1>1, MovesTo DEF Out
<1> HIDE DEF p
<1>4. /\ proc' \in [Daemons -> ProcType] /\ proc'[d] = p
      /\ \A e \in Daemons \ {d} : proc'[e] = proc[e]
  BY <1>0, <1>3, OneMoves
<1>t. ~lapses => \A e \in Daemons : proc[e].pc # "take"  BY DEF At
<1> HIDE DEF lapses
<1>5. hist' \in HistType /\ hist'.touched = hist.touched /\ hist'.lapsed = (hist.lapsed \/ lapses)
  BY <1>0, <1>1, <1>2 DEF HistType
<1>6. TypeOK'  BY <1>0, <1>1, <1>4, <1>5 DEF TypeOK
<1>7. Guarded'
  <2>1. CASE hist'.lapsed  BY <2>1 DEF Guarded
  <2>2. CASE ~hist'.lapsed
    <3>1. ~hist.lapsed /\ ~lapses  BY <1>5, <2>2
    <3>2. \A e \in Daemons : ~Works(e)  BY <1>1, <3>1 DEF FullInv, Inv, Guarded
    <3>3. \A e \in Daemons : ~Works(e)' /\ (proc'[e].pc = "take" => e = d)
      BY <1>t, <1>3, <1>4, <3>1, <3>2 DEF Works
    <3> QED BY <1>1, <3>3 DEF Guarded, At
  <2> QED BY <2>1, <2>2
<1>8. Disturbed => Disturbed'  BY <1>5 DEF Disturbed
<1>9. Honest'
  <2> SUFFICES ASSUME NEW e \in Daemons PROVE Fine(proc'[e], env, live, Disturbed')
    BY <1>1 DEF Honest
  <2>1. Fine(proc[e], env, live, Disturbed)  BY DEF FullInv, Honest
  <2>2. CASE e # d  BY <1>4, <1>8, <2>1, <2>2 DEF Fine
  <2>3. CASE e = d  BY <1>1, <1>3, <1>4, <1>8, <2>1, <2>3 DEF Fine, Out, Syncing
  <2> QED BY <2>2, <2>3
<1>10. Kept
  <2>1. Claimed' \subseteq Claimed  BY <1>3, <1>4, FewerClaims DEF Says
  <2>2. Whole' = Whole /\ Disturbed \in BOOLEAN /\ Disturbed' \in BOOLEAN
    BY <1>0, <1>1, <1>5 DEF Disturbed, HistType, Whole
  <2> QED BY <1>8, <2>1, <2>2 DEF Kept
<1> QED BY <1>6, <1>7, <1>9, <1>10 DEF FullInv, Inv

\* It takes over: alone, or the lock lapsed.
LEMMA TakeOverKeeps ==
  ASSUME FullInv, NEW d \in Daemons, TakeOver(d)
  PROVE  FullInv' /\ Kept
<1>0. /\ TypeOK /\ proc[d] \in ProcType /\ env \in EnvType /\ live \in LiveType
      /\ hist \in HistType /\ Fine(proc[d], env, live, Disturbed)
      /\ seen \in [Daemons -> {"no", "seen", "frozen"}]
  BY Facts
<1> DEFINE p == IF lock THEN Now(d, "loop") ELSE NotRun
<1>1. /\ proc[d].pc = "take" /\ Beats(d) /\ UNCHANGED <<lock, desired, live, env, paused, hist>>
      /\ proc' = [proc EXCEPT ![d] = p]
  BY DEF TakeOver, At, Now
<1>n. ~proc[d].insync /\ proc[d].inst = 0  BY <1>0, <1>1 DEF Fine, Out
<1>2. /\ p \in ProcType /\ p.pc = (IF lock THEN "loop" ELSE "off") /\ ~p.insync /\ p.inst = 0
  BY <1>0, <1>n, MovesTo, NotRunType
<1> HIDE DEF p
<1>3. /\ proc' \in [Daemons -> ProcType] /\ proc'[d] = p
      /\ \A e \in Daemons \ {d} : proc'[e] = proc[e]
  BY <1>0, <1>1, <1>2, OneMoves
<1>4. seen' \in [Daemons -> {"no", "seen", "frozen"}] /\ (lock => \A e \in Daemons : seen'[e] = "no")
  BY <1>0, <1>1, BeatsSeen DEF Beats, Unseen
<1>5. TypeOK'  BY <1>0, <1>1, <1>3, <1>4 DEF TypeOK
<1>6. Guarded'
  <2> SUFFICES ASSUME ~hist.lapsed PROVE Guarded'
    BY <1>1 DEF Guarded
  <2>1. lock /\ \A e \in Daemons : ~Works(e) /\ (proc[e].pc = "take" => e = d)
    BY <1>1 DEF FullInv, Inv, Guarded, At
  <2>2. \A e \in Daemons : (Works(e)' => e = d) /\ proc'[e].pc # "take"
    BY <1>2, <1>3, <2>1 DEF Works
  <2> QED BY <1>1, <1>4, <2>1, <2>2 DEF Guarded, At
<1>7. Fine(p, env', live', Disturbed')
  BY <1>2 DEF Fine, Out, Syncing
<1>8. Honest'  BY <1>1, <1>3, <1>7, OthersFine DEF Honest
<1>9. Claims(d, p)  BY <1>1, <1>2, SameEnv DEF Claims, Says
<1> QED BY <1>1, <1>2, <1>5, <1>6, <1>8, <1>9, ClaimsKeep DEF FullInv, Inv

\* A daemon removes whoever's lock is there.
LEMMA LeaveKeeps ==
  ASSUME FullInv, NEW d \in Daemons, Leave(d)
  PROVE  FullInv' /\ Kept
<1>0. /\ TypeOK /\ proc[d] \in ProcType /\ env \in EnvType /\ live \in LiveType
      /\ hist \in HistType /\ Fine(proc[d], env, live, Disturbed)
      /\ seen \in [Daemons -> {"no", "seen", "frozen"}]
  BY Facts
<1>1. /\ proc[d].pc = "loop" /\ proc' = [proc EXCEPT ![d] = NotRun] /\ lock' = FALSE
      /\ UNCHANGED <<seen, desired, live, env, paused, hist>>
  BY DEF Leave, At
<1>2. /\ proc' \in [Daemons -> ProcType] /\ proc'[d] = NotRun
      /\ \A e \in Daemons \ {d} : proc'[e] = proc[e]
  BY <1>0, <1>1, OneMoves, NotRunType
<1>3. TypeOK'  BY <1>0, <1>1, <1>2 DEF TypeOK
<1>4. Guarded'
  <2> SUFFICES ASSUME ~hist.lapsed PROVE Guarded'
    BY <1>1 DEF Guarded
  <2>1. Works(d)  BY <1>1 DEF Works
  <2>2. \A e \in Daemons : (Works(e) => e = d) /\ proc[e].pc # "take"
    BY <2>1 DEF FullInv, Inv, Guarded, At
  <2>3. \A e \in Daemons : ~Works(e)' /\ proc'[e].pc # "take"
    BY <1>2, <2>2, NotRunType DEF Works
  <2> QED BY <1>1, <2>3 DEF Guarded, At
<1>5. Fine(NotRun, env', live', Disturbed')  BY NotRunType DEF Fine, Out, Syncing
<1>6. Honest'  BY <1>1, <1>2, <1>5, OthersFine DEF Honest
<1>7. Claims(d, NotRun)  BY <1>1, SameEnv, NotRunType DEF Claims, Says
<1> QED BY <1>1, <1>3, <1>4, <1>6, <1>7, ClaimsKeep, NotRunType DEF FullInv, Inv

-----------------------------------------------------------------------------
(* What others do. *)

\* The repository and the admins.
LEMMA OthersKeep ==
  ASSUME FullInv, Push \/ Touch \/ Pause \/ Resume \/ UNCHANGED vars
  PROVE  FullInv' /\ Kept
<1>0. TypeOK  BY DEF FullInv, Inv
<1>1. /\ UNCHANGED <<proc, lock, seen>>
      /\ desired' \in Revs /\ paused' \in BOOLEAN
  <2>1. CASE Push  BY <1>0, <2>1, RevAssumption DEF TypeOK, Push, Revs
  <2>2. CASE Touch \/ Pause \/ Resume \/ UNCHANGED vars
    BY <1>0, <2>2 DEF TypeOK, Touch, Pause, Resume, vars
  <2> QED BY <2>1, <2>2
<1>2. /\ hist' \in HistType /\ hist'.lapsed = hist.lapsed
      /\ (hist'.touched = hist.touched /\ UNCHANGED <<live, env>>) \/ hist'.touched
  <2>1. CASE Touch  BY <1>0, <2>1 DEF TypeOK, HistType, Touch
  <2>2. CASE Resume
    <3> DEFINE h == \E d \in Daemons : Works(d) /\ (proc[d].inst # 0 \/ At(d, "check"))
    <3>1. hist' = [hist EXCEPT !.hidden = @ \/ h] /\ UNCHANGED <<live, env>>  BY <2>2 DEF Resume
    <3>2. h \in BOOLEAN  OBVIOUS
    <3> HIDE DEF h
    <3> QED BY <1>0, <3>1, <3>2 DEF TypeOK, HistType
  <2>3. CASE Push \/ Pause \/ UNCHANGED vars  BY <1>0, <2>3 DEF TypeOK, Push, Pause, vars
  <2> QED BY <2>1, <2>2, <2>3
<1>3. env' \in EnvType /\ live' \in LiveType
  BY <1>0, Zero DEF TypeOK, EnvType, LiveType, Push, Touch, Pause, Resume, vars
<1>4. TypeOK'  BY <1>0, <1>1, <1>2, <1>3 DEF TypeOK
<1>5. Guarded'  BY <1>1, <1>2, GuardedKeeps DEF FullInv, Inv, Works, At
<1>6. Disturbed' \/ (Disturbed' = Disturbed /\ UNCHANGED <<live, env>>)  BY <1>2 DEF Disturbed
<1>7. Honest'
  <2> SUFFICES ASSUME NEW e \in Daemons PROVE Fine(proc[e], env', live', Disturbed')
    BY <1>1 DEF Honest
  <2>1. Fine(proc[e], env, live, Disturbed)  BY DEF FullInv, Honest
  <2>2. CASE Disturbed'  BY <2>1, <2>2 DEF Fine
  <2>3. CASE Disturbed' = Disturbed /\ UNCHANGED <<live, env>>  BY <2>1, <2>3
  <2> QED BY <1>6, <2>2, <2>3
<1>8. Kept
  <2>1. Claimed' = Claimed  BY <1>1 DEF Claimed
  <2> QED BY <1>6, <2>1 DEF Kept, Whole
<1> QED BY <1>4, <1>5, <1>7, <1>8 DEF FullInv, Inv

-----------------------------------------------------------------------------
(* The theorems. *)

\* The invariant holds at the start.
LEMMA InitInv == Init => FullInv
<1> SUFFICES ASSUME Init PROVE FullInv
  OBVIOUS
<1>1. TypeOK
  <2>1. 1 \in Revs  BY RevAssumption DEF Revs
  <2> QED BY <2>1, NotRunType, Zero DEF Init, TypeOK, LiveType, EnvType, HistType
<1>2. \A d \in Daemons : proc[d] = NotRun /\ seen[d] = "no"  BY DEF Init
<1>3. Guarded  BY <1>2, NotRunType DEF Guarded, Works, At
<1>4. Honest  BY <1>2, NotRunType DEF Honest, Fine, Out, Syncing
<1> QED BY <1>1, <1>3, <1>4 DEF FullInv, Inv

\* Every step keeps the invariant, and the promise.
LEMMA StepInv == FullInv /\ [Next]_vars => FullInv' /\ Kept
<1> SUFFICES ASSUME FullInv, [Next]_vars PROVE FullInv' /\ Kept
  OBVIOUS
<1>1. ASSUME NEW d \in Daemons, Cycle(d) PROVE FullInv' /\ Kept
  BY <1>1, LeaveKeeps, PausesKeeps, ReconcileKeeps, RestKeeps, StageKeeps, WipeKeeps, InstallKeeps,
     InstallFailsKeeps, RetryKeeps, ValidateKeeps, VerifiedKeeps, TimesOutKeeps DEF Cycle
<1>2. ASSUME NEW d \in Daemons, Step(d) PROVE FullInv' /\ Kept
  BY <1>1, <1>2, StartKeeps, AcquireKeeps, ObserveKeeps, FreezeKeeps, DecideKeeps, TakeOverKeeps,
     CoolsKeeps DEF Step
<1> QED BY <1>2, RestKeeps, ObserveKeeps, TerminateKeeps, KillKeeps, OthersKeep DEF Next

\* ... and so it always holds.
LEMMA InvHolds == Spec => []FullInv
<1>1. FullInv /\ [Next]_vars => FullInv'  BY StepInv
<1> QED BY <1>1, InitInv, PTL DEF Spec

\* Whichever daemons are killed, stopped or started beside one a lost node still runs, two
\* work on the environment at once only after the lock lapsed: one was silent for longer
\* than LOCK_FROZEN_SECONDS in a wipe or between two attempts, or two took over at once.
THEOREM BuildsAlone == Spec => []OneBuilder
<1>1. FullInv => OneBuilder  BY DEF FullInv, Inv, Guarded, OneBuilder
<1> QED BY <1>1, InvHolds, PTL

\* The daemons implement PixiPromise: every step of theirs, of pixi, of the admins and of
\* Kubernetes is a step the promise allows, or none.
THEOREM PromiseKept == Spec => KeepsPromise
<1>1. Init => Promise!Init
  <2> SUFFICES ASSUME Init PROVE Promise!Init
    OBVIOUS
  <2>1. env.is = "none" /\ hist.touched = FALSE /\ hist.lapsed = FALSE  BY DEF Init
  <2>2. \A d \in Daemons : ~proc[d].insync  BY NotRunType DEF Init
  <2> QED BY <2>1, <2>2 DEF Promise!Init
<1>2. FullInv /\ FullInv' /\ [Next]_vars => [Promise!Next]_Promise!vars
  BY StepInv, KeptIsStep DEF FullInv, Inv
<1> QED BY <1>1, <1>2, InvHolds, PTL DEF Spec, KeepsPromise, Promise!Spec
=============================================================================

--------------------------- MODULE FacilityProofs ---------------------------
(***************************************************************************)
(* Theorems about two of the facility's services: DaskClusters, for any    *)
(* callers, environments, clusters and worker counts - the scripts of an   *)
(* environment share one cluster, and what a tool tells of a cluster is so *)
(* - and then NodeMonitor, which shares no state with it, for any mounts,  *)
(* window and number of changes and faults: what a mount is shown as is so.*)
(***************************************************************************)
EXTENDS DaskClusters, NodeMonitor, FiniteSetTheorems, TLAPS

Projects == {Project[a] : a \in Callers}
ClusterType == [is : {"none", "pending", "running", "stopping", "gone"},
                project : Projects \cup {"none"}, left : BOOLEAN, target : Nat]
Pcs == {"off", "cap", "make", "poll", "scale", "lock", "look", "connect"}
Words == {"nothing", "choices", "failed", "refused", "empty", "unsure", "workerless", "unsent",
          "scaling", "clamped", "stopped", "missing", "none", "listed", "record", "workers",
          "nodata", "usage", "busy", "client"}
CallType == [pc : Pcs, n : Nat, name : Nat, new : BOOLEAN, polls : Nat, told : Words,
             made : Nat, took : Int, lost : BOOLEAN, calls : Nat]

TypeOK ==
  /\ kind \in {"user", "account"}
  /\ cluster \in [Ids -> ClusterType]
  /\ call \in [Callers -> CallType]
  /\ flock \in [Projects -> SUBSET Callers]

\* Names are given in their order, and never again.
Prefix == \E n \in 0..MaxClusters : \A c \in Ids : cluster[c].is # "none" <=> c <= n

Over(k) == k.is \in {"stopping", "gone"}

\* What a tool call has done, wherever it is, and what it told.
Sound(t) ==
  /\ t.pc \in {"off", "cap", "make", "poll", "scale"}
  /\ t.pc \in {"cap", "make"} => t.made = 0 /\ t.took = -1 /\ t.new
  /\ t.pc \in {"poll", "scale"} =>
       /\ t.took = -1 /\ ~t.lost /\ t.name \in Ids
       /\ t.made # 0 => t.new /\ t.made = t.name
  /\ t.pc = "off" =>
       /\ t.told \in {"choices", "refused"} => t.made = 0
       /\ (t.made # 0 /\ ~t.lost) =>
            \/ t.name = t.made /\ t.told \in {"empty", "workerless", "unsent", "scaling", "clamped"}
            \/ t.told = "unsure"
       /\ t.told = "scaling" => t.took = t.n
       /\ t.told = "clamped" => t.took < t.n
       /\ (t.told \in {"empty", "unsent", "workerless"} /\ ~t.lost) => t.took = -1
Finished(t, clusters) ==
  t.pc = "off" /\ t.told \in {"stopped", "missing"} => t.name \in Ids /\ Over(clusters[t.name])

UserInv == \A a \in Callers : Sound(call[a]) /\ Finished(call[a], cluster)

\* A cluster that the scripts of its environment share.
Shared(k) == k.is \in Active /\ ~k.left

\* A script that looks for a cluster or makes one, and waits for it, has its environment's lock.
Holds(t) == t.pc \in {"look", "cap", "make", "connect"} /\ ~t.lost
Creates(t) == t.pc \in {"cap", "make"} /\ ~t.lost

Placed(t) ==
  /\ t.pc \in {"off", "lock", "look", "cap", "make", "connect"}
  /\ t.pc \in {"lock", "look", "connect"} => ~t.lost
  /\ t.pc = "connect" => t.name \in Ids
Locked == \A a \in Callers : Holds(call[a]) => flock[Project[a]] = {a}
Alone ==
  \A a \in Callers, c \in Ids :
    Creates(call[a]) /\ Shared(cluster[c]) => cluster[c].project # Project[a]
One ==
  \A c, d \in Ids :
    Shared(cluster[c]) /\ Shared(cluster[d]) /\ cluster[c].project = cluster[d].project => c = d

AccountInv == (\A a \in Callers : Placed(call[a])) /\ Locked /\ Alone /\ One

Inv == /\ TypeOK /\ Prefix
       /\ kind = "user" => UserInv
       /\ kind = "account" => AccountInv

-----------------------------------------------------------------------------
(* Clusters and their names. *)

\* Counts and names are numbers.
LEMMA Bounds == MaxWorkers \in Nat /\ MaxClusters \in Nat /\ MaxPolls \in Nat /\ Ids \subseteq Nat
                /\ 0 \notin Ids
BY BoundsAssumption DEF Ids

\* A new cluster has a name that no cluster had.
LEMMA NextFresh ==
  ASSUME TypeOK, Prefix, NextId \in Ids, NEW k \in ClusterType, k.is # "none",
         cluster' = [cluster EXCEPT ![NextId] = k]
  PROVE  /\ cluster[NextId].is = "none"
         /\ cluster' \in [Ids -> ClusterType] /\ cluster'[NextId] = k
         /\ \A c \in Ids \ {NextId} : cluster'[c] = cluster[c]
         /\ Prefix'
<1>1. PICK n \in 0..MaxClusters : \A c \in Ids : cluster[c].is # "none" <=> c <= n  BY DEF Prefix
<1> DEFINE used == {c \in Ids : cluster[c].is # "none"}
<1>2. used = 1..n /\ NextId = 1 + Cardinality(used)  BY <1>1, Bounds DEF Ids, NextId
<1> HIDE DEF used
<1>3. Cardinality(1..n) = n
  <2>1. n \in Int /\ 1 \in Int /\ n >= 0  BY Bounds
  <2>2. Cardinality(1..n) = IF 1 > n THEN 0 ELSE n - 1 + 1  BY <2>1, FS_Interval
  <2> QED BY <2>1, <2>2
<1>4. NextId = n + 1  BY <1>2, <1>3, Bounds
<1> HIDE DEF NextId
<1>5. /\ cluster' \in [Ids -> ClusterType] /\ cluster'[NextId] = k
      /\ \A c \in Ids \ {NextId} : cluster'[c] = cluster[c]
  BY DEF TypeOK
<1>6. cluster[NextId].is = "none"
  <2>1. ~(NextId <= n)  BY <1>4, Bounds
  <2> QED BY <1>1, <2>1
<1>7. Prefix'
  <2>1. n + 1 \in 0..MaxClusters  BY <1>4, Bounds DEF Ids
  <2>2. ASSUME NEW c \in Ids PROVE cluster'[c].is # "none" <=> c <= n + 1
    <3>1. CASE c = NextId  BY <1>4, <1>5, <3>1, Bounds
    <3>2. CASE c # NextId
      <4>1. c <= n <=> c <= n + 1  BY <1>4, <3>2, Bounds
      <4> QED BY <1>1, <1>5, <3>2, <4>1
    <3> QED BY <3>1, <3>2
  <2> QED BY <2>1, <2>2 DEF Prefix
<1> QED BY <1>5, <1>6, <1>7

\* No cluster comes or is forgotten.
LEMMA PrefixKept ==
  ASSUME Prefix, \A c \in Ids : cluster'[c].is # "none" <=> cluster[c].is # "none"
  PROVE  Prefix'
<1>1. PICK n \in 0..MaxClusters : \A c \in Ids : cluster[c].is # "none" <=> c <= n  BY DEF Prefix
<1>2. \A c \in Ids : cluster'[c].is # "none" <=> c <= n  BY <1>1
<1> QED BY <1>2 DEF Prefix

\* The gateway makes a cluster for a.
LEMMA MadeFacts ==
  ASSUME Inv, NEW a \in Callers, NextId \in Ids, Made(a, NextId)
  PROVE  /\ cluster[NextId].is = "none"
         /\ cluster' \in [Ids -> ClusterType] /\ Prefix'
         /\ cluster'[NextId].is = "pending" /\ cluster'[NextId].project = Project[a]
         /\ cluster'[NextId].left = call[a].lost
         /\ \A c \in Ids \ {NextId} : cluster'[c] = cluster[c]
<1> DEFINE k == [is |-> "pending", target |-> 0, project |-> Project[a], left |-> call[a].lost]
<1>1. TypeOK /\ Prefix  BY DEF Inv
<1>2. k \in ClusterType  BY <1>1 DEF TypeOK, CallType, ClusterType, Projects
<1>3. k.is = "pending" /\ k.project = Project[a] /\ k.left = call[a].lost  OBVIOUS
<1>4. cluster' = [cluster EXCEPT ![NextId] = k]  BY DEF Made
<1> HIDE DEF k, NextId
<1>5. /\ cluster[NextId].is = "none"
      /\ cluster' \in [Ids -> ClusterType] /\ cluster'[NextId] = k
      /\ \A c \in Ids \ {NextId} : cluster'[c] = cluster[c]
      /\ Prefix'
  BY <1>1, <1>2, <1>3, <1>4, NextFresh
<1> QED BY <1>3, <1>5

\* A step of the gateway on a cluster it has.
LEMMA OneMoves ==
  ASSUME TypeOK, Prefix, NEW c \in Ids, NEW k \in ClusterType, k.is # "none",
         cluster[c].is # "none", cluster' = [cluster EXCEPT ![c] = k]
  PROVE  /\ cluster' \in [Ids -> ClusterType] /\ Prefix' /\ cluster'[c] = k
         /\ \A d \in Ids \ {c} : cluster'[d] = cluster[d]
<1>1. /\ cluster' \in [Ids -> ClusterType] /\ cluster'[c] = k
      /\ \A d \in Ids \ {c} : cluster'[d] = cluster[d]
  BY DEF TypeOK
<1>2. Prefix'  BY <1>1, PrefixKept
<1> QED BY <1>1, <1>2

-----------------------------------------------------------------------------
(* Steps of one caller, for a user and for an account. *)

\* A tool call goes on as `t`, and no cluster that is over comes back.
LEMMA UserKeeps ==
  ASSUME Inv, kind = "user", UNCHANGED kind, NEW a \in Callers, NEW t \in CallType,
         call' = [call EXCEPT ![a] = t], Sound(t), Finished(t, cluster'),
         cluster' \in [Ids -> ClusterType], Prefix', flock' \in [Projects -> SUBSET Callers],
         \A c \in Ids : Over(cluster[c]) => Over(cluster'[c])
  PROVE  Inv'
<1>1. TypeOK /\ UserInv  BY DEF Inv
<1>2. /\ call' \in [Callers -> CallType] /\ call'[a] = t
      /\ \A b \in Callers \ {a} : call'[b] = call[b]
  BY <1>1 DEF TypeOK
<1>3. TypeOK'  BY <1>1, <1>2 DEF TypeOK
<1>4. UserInv'
  <2> SUFFICES ASSUME NEW b \in Callers PROVE Sound(call'[b]) /\ Finished(call'[b], cluster')
    BY DEF UserInv
  <2>1. CASE b = a  BY <1>2, <2>1
  <2>2. CASE b # a
    <3>1. Sound(call[b]) /\ Finished(call[b], cluster) /\ call'[b] = call[b]
      BY <1>1, <1>2, <2>2 DEF UserInv
    <3> QED BY <3>1 DEF Finished
  <2> QED BY <2>1, <2>2
<1> QED BY <1>3, <1>4 DEF Inv

\* ... and no cluster changes.
LEMMA UserSame ==
  ASSUME Inv, kind = "user", UNCHANGED <<kind, cluster>>, NEW a \in Callers, NEW t \in CallType,
         call' = [call EXCEPT ![a] = t], Sound(t), Finished(t, cluster),
         flock' \in [Projects -> SUBSET Callers]
  PROVE  Inv'
<1>1. TypeOK /\ Prefix  BY DEF Inv
<1>2. Prefix'  BY <1>1, PrefixKept
<1>3. Finished(t, cluster')  BY DEF Finished
<1> QED BY <1>1, <1>2, <1>3, UserKeeps DEF TypeOK

\* A script goes on as `t`, and no cluster is added that others share.
LEMMA AccountKeeps ==
  ASSUME Inv, kind = "account", UNCHANGED kind, NEW a \in Callers, NEW t \in CallType,
         call' = [call EXCEPT ![a] = t], flock' \in [Projects -> SUBSET Callers],
         cluster' \in [Ids -> ClusterType], Prefix',
         \A p \in Projects : \A b \in Callers \ {a} : flock[p] = {b} => flock'[p] = {b},
         \A c \in Ids : Shared(cluster'[c]) =>
           Shared(cluster[c]) /\ cluster'[c].project = cluster[c].project,
         Placed(t), Holds(t) => flock'[Project[a]] = {a},
         \A c \in Ids : Creates(t) /\ Shared(cluster[c]) => cluster[c].project # Project[a]
  PROVE  Inv'
<1>1. TypeOK /\ AccountInv  BY DEF Inv
<1>2. /\ call' \in [Callers -> CallType] /\ call'[a] = t
      /\ \A b \in Callers \ {a} : call'[b] = call[b]
  BY <1>1 DEF TypeOK
<1>3. TypeOK'  BY <1>1, <1>2 DEF TypeOK
<1>4. \A b \in Callers : Placed(call'[b])  BY <1>1, <1>2 DEF AccountInv
<1>5. Locked'
  <2> SUFFICES ASSUME NEW b \in Callers, Holds(call'[b]) PROVE flock'[Project[b]] = {b}
    BY DEF Locked
  <2>1. CASE b = a  BY <1>2, <2>1
  <2>2. CASE b # a
    <3>1. flock[Project[b]] = {b}  BY <1>1, <1>2, <2>2 DEF AccountInv, Locked
    <3>2. Project[b] \in Projects  BY DEF Projects
    <3> QED BY <2>2, <3>1, <3>2
  <2> QED BY <2>1, <2>2
<1>6. Alone'  BY <1>1, <1>2 DEF AccountInv, Alone
<1>7. One'  BY <1>1 DEF AccountInv, One
<1> QED BY <1>3, <1>4, <1>5, <1>6, <1>7 DEF Inv, AccountInv

\* The gateway's own steps: a cluster comes up, ends or goes.
LEMMA GatewayKeeps ==
  ASSUME Inv, NEW c \in Ids, Up(c) \/ Ends(c) \/ Gone(c)
  PROVE  Inv'
<1>0. TypeOK /\ Prefix /\ cluster[c] \in ClusterType  BY DEF Inv, TypeOK
<1>1. UNCHANGED <<kind, call, flock>>  BY DEF Up, Ends, Gone
<1>2. PICK is \in {"running", "stopping", "gone"} :
        /\ cluster' = [cluster EXCEPT ![c].is = is] /\ cluster[c].is # "none"
        /\ is = "running" => cluster[c].is = "pending"
        /\ is = "stopping" => cluster[c].is \in Active
  BY DEF Up, Ends, Gone, Listed, Active
<1> DEFINE k == [cluster[c] EXCEPT !.is = is]
<1>3. /\ k \in ClusterType /\ k.is = is /\ k.project = cluster[c].project
      /\ k.left = cluster[c].left
  BY <1>0 DEF ClusterType
<1>4. cluster' = [cluster EXCEPT ![c] = k]  BY <1>2
<1> HIDE DEF k
<1>5. /\ cluster' \in [Ids -> ClusterType] /\ Prefix' /\ cluster'[c] = k
      /\ \A d \in Ids \ {c} : cluster'[d] = cluster[d]
  BY <1>0, <1>2, <1>3, <1>4, OneMoves
<1>6. \A d \in Ids : Over(cluster[d]) => Over(cluster'[d])
  BY <1>2, <1>3, <1>5 DEF Over, Active
<1>7. \A d \in Ids : Shared(cluster'[d]) =>
        Shared(cluster[d]) /\ cluster'[d].project = cluster[d].project
  BY <1>2, <1>3, <1>5 DEF Shared, Active
<1>8. TypeOK'  BY <1>0, <1>1, <1>5 DEF TypeOK
<1>9. kind = "user" => UserInv'
  BY <1>1, <1>6 DEF Inv, UserInv, Finished
<1>10. kind = "account" => AccountInv'
  <2> SUFFICES ASSUME AccountInv PROVE AccountInv'  BY DEF Inv
  <2>1. (\A a \in Callers : Placed(call[a]))' /\ Locked'  BY <1>1 DEF AccountInv, Locked
  <2>2. Alone'  BY <1>1, <1>7 DEF AccountInv, Alone
  <2>3. One'  BY <1>7 DEF AccountInv, One
  <2> QED BY <2>1, <2>2, <2>3 DEF AccountInv
<1> QED BY <1>1, <1>5, <1>8, <1>9, <1>10 DEF Inv

-----------------------------------------------------------------------------
(* Creations, which both kinds of callers ask for. *)

\* What a proof about a step of a caller starts from.
LEMMA Facts ==
  ASSUME Inv, NEW a \in Callers
  PROVE  /\ TypeOK /\ Prefix /\ kind \in {"user", "account"} /\ call[a] \in CallType
         /\ cluster \in [Ids -> ClusterType] /\ flock \in [Projects -> SUBSET Callers]
         /\ Project[a] \in Projects
         /\ kind = "user" => Sound(call[a])
         /\ kind = "account" =>
              /\ Placed(call[a]) /\ (Holds(call[a]) => flock[Project[a]] = {a})
              /\ \A c \in Ids : Creates(call[a]) /\ Shared(cluster[c]) => cluster[c].project # Project[a]
BY DEF Inv, TypeOK, UserInv, AccountInv, Locked, Alone, Projects

\* The call goes on, or ends, as `t`, and no cluster changes.
LEMMA CallerKeeps ==
  ASSUME Inv, UNCHANGED <<kind, cluster>>, NEW a \in Callers, NEW t \in CallType,
         call' = [call EXCEPT ![a] = t], flock' \in [Projects -> SUBSET Callers],
         kind = "user" => Sound(t) /\ Finished(t, cluster),
         kind = "account" =>
           /\ \A p \in Projects : \A b \in Callers \ {a} : flock[p] = {b} => flock'[p] = {b}
           /\ Placed(t) /\ (Holds(t) => flock'[Project[a]] = {a})
           /\ \A c \in Ids : Creates(t) /\ Shared(cluster[c]) => cluster[c].project # Project[a]
  PROVE  Inv'
<1>1. TypeOK /\ Prefix /\ kind \in {"user", "account"} /\ cluster \in [Ids -> ClusterType]
  BY Facts
<1>2. Prefix'  BY <1>1, PrefixKept
<1>3. CASE kind = "user"  BY <1>3, UserSame
<1>4. CASE kind = "account"  BY <1>1, <1>2, <1>4, AccountKeeps
<1> QED BY <1>1, <1>3, <1>4

\* A caller that is killed loses its locks, and only its own.
LEMMA Ungranted ==
  ASSUME TypeOK, NEW a \in Callers, flock' = [p \in DOMAIN flock |-> flock[p] \ {a}]
  PROVE  /\ flock' \in [Projects -> SUBSET Callers]
         /\ \A p \in Projects : \A b \in Callers \ {a} : flock[p] = {b} => flock'[p] = {b}
<1>1. DOMAIN flock = Projects  BY DEF TypeOK
<1> QED BY <1>1 DEF TypeOK

\* The cap looks and refuses or lets through; a caller leaves while it does.
LEMMA CapKeeps ==
  ASSUME Inv, NEW a \in Callers, Cap(a) \/ Leaves(a)
  PROVE  Inv'
<1>0. /\ TypeOK /\ call[a] \in CallType /\ flock \in [Projects -> SUBSET Callers]
      /\ kind = "user" => Sound(call[a])
      /\ kind = "account" =>
           /\ Placed(call[a]) /\ (Holds(call[a]) => flock[Project[a]] = {a})
           /\ \A c \in Ids : Creates(call[a]) /\ Shared(cluster[c]) => cluster[c].project # Project[a]
  BY Facts
<1>1. UNCHANGED <<kind, cluster>> /\ call[a].pc \in {"cap", "make"}  BY DEF Cap, Leaves, At
<1>2. ASSUME Cap(a), Moves(a, "make"), UNCHANGED flock PROVE Inv'
  <2> DEFINE t == [call[a] EXCEPT !.pc = "make"]
  <2>1. call' = [call EXCEPT ![a] = t]  BY <1>2 DEF Moves
  <2>2. /\ t \in CallType /\ t.pc = "make" /\ t.made = call[a].made /\ t.took = call[a].took
        /\ t.new = call[a].new /\ t.lost = call[a].lost
    BY <1>0 DEF CallType, Pcs
  <2> HIDE DEF t
  <2>3. kind = "user" => Sound(t) /\ Finished(t, cluster)
    BY <1>0, <1>1, <2>2 DEF Sound, Finished
  <2>4. /\ kind = "account" => Placed(t)
        /\ Holds(t) => Holds(call[a])
        /\ Creates(t) => Creates(call[a])
    BY <1>1, <2>2 DEF Placed, Holds, Creates
  <2> QED BY <1>0, <1>1, <1>2, <2>1, <2>2, <2>3, <2>4, CallerKeeps
<1>3. ASSUME NEW what \in {"failed", "refused"}, Tells(a, what),
             flock' = [p \in DOMAIN flock |-> flock[p] \ {a}]
      PROVE  Inv'
  <2> DEFINE t == [call[a] EXCEPT !.pc = "off", !.told = what]
  <2>1. call' = [call EXCEPT ![a] = t]  BY <1>3 DEF Tells
  <2>2. /\ t \in CallType /\ t.pc = "off" /\ t.told = what /\ t.made = call[a].made
        /\ t.took = call[a].took
    BY <1>0 DEF CallType, Pcs, Words
  <2> HIDE DEF t
  <2>3. kind = "user" => Sound(t) /\ Finished(t, cluster)
    BY <1>0, <1>1, <2>2 DEF Sound, Finished
  <2>4. Placed(t) /\ ~Holds(t) /\ ~Creates(t)  BY <2>2 DEF Placed, Holds, Creates
  <2>5. /\ flock' \in [Projects -> SUBSET Callers]
        /\ \A p \in Projects : \A b \in Callers \ {a} : flock[p] = {b} => flock'[p] = {b}
    BY <1>0, <1>3, Ungranted
  <2> QED BY <1>1, <2>1, <2>2, <2>3, <2>4, <2>5, CallerKeeps
<1>4. CASE Cap(a)  BY <1>2, <1>3, <1>4 DEF Cap
<1>5. CASE Leaves(a)
  <2> DEFINE t == [call[a] EXCEPT !.lost = TRUE]
  <2>1. call' = [call EXCEPT ![a] = t] /\ flock' = [p \in DOMAIN flock |-> flock[p] \ {a}]
    BY <1>5 DEF Leaves
  <2>2. /\ t \in CallType /\ t.pc = call[a].pc /\ t.made = call[a].made /\ t.new = call[a].new
        /\ t.took = call[a].took /\ t.lost = TRUE
    BY <1>0 DEF CallType
  <2> HIDE DEF t
  <2>3. kind = "user" => Sound(t) /\ Finished(t, cluster)
    BY <1>0, <1>1, <2>2 DEF Sound, Finished
  <2>4. Placed(t) /\ ~Holds(t) /\ ~Creates(t)  BY <1>1, <2>2 DEF Placed, Holds, Creates
  <2>5. /\ flock' \in [Projects -> SUBSET Callers]
        /\ \A p \in Projects : \A b \in Callers \ {a} : flock[p] = {b} => flock'[p] = {b}
    BY <1>0, <2>1, Ungranted
  <2> QED BY <1>1, <2>1, <2>2, <2>3, <2>4, <2>5, CallerKeeps
<1> QED BY <1>4, <1>5

-----------------------------------------------------------------------------
(* The tools. *)

\* A call that has just begun.
LEMMA CalledFacts ==
  ASSUME Inv, NEW a \in Callers
  PROVE  /\ Called(a) \in CallType /\ Called(a).pc = "off" /\ Called(a).made = 0
         /\ Called(a).took = -1 /\ Called(a).lost = FALSE /\ Called(a).new = FALSE
         /\ Called(a).told = "nothing"
<1> DEFINE n == call[a].calls + 1
<1>1. n \in Nat  BY Facts DEF CallType
<1>2. Called(a) = [NoCall EXCEPT !.calls = n]  BY DEF Called
<1> HIDE DEF n
<1>3. -1 \in Int /\ 0 \in Nat  OBVIOUS
<1>4. NoCall \in CallType  BY <1>3 DEF NoCall, CallType, Pcs, Words
<1>5. /\ NoCall.pc = "off" /\ NoCall.made = 0 /\ NoCall.took = -1 /\ NoCall.lost = FALSE
      /\ NoCall.new = FALSE /\ NoCall.told = "nothing"
  BY DEF NoCall
<1> QED BY <1>1, <1>2, <1>4, <1>5 DEF CallType

\* A call that has just begun, as `t`: it made and took nothing.
LEMMA BegunKeeps ==
  ASSUME Inv, kind = "user", UNCHANGED <<kind, cluster, flock>>, NEW a \in Callers,
         NEW t \in CallType, call' = [call EXCEPT ![a] = t], t.made = 0,
         \/ t.pc = "off" /\ t.told \notin {"scaling", "clamped", "empty", "unsent", "workerless"}
         \/ t.pc = "cap" /\ t.took = -1 /\ t.new
         \/ t.pc = "poll" /\ t.took = -1 /\ ~t.lost /\ t.name \in Ids,
         t.told \in {"stopped", "missing"} => t.name \in Ids /\ Over(cluster[t.name])
  PROVE  Inv'
<1>1. flock \in [Projects -> SUBSET Callers]  BY Facts
<1>2. Sound(t) /\ Finished(t, cluster)  BY DEF Sound, Finished
<1> QED BY <1>1, <1>2, UserSame

\* A creation is called, or the choices of one are put to the agent.
LEMMA ChooseKeeps ==
  ASSUME Inv, NEW a \in Callers, Choose(a)
  PROVE  Inv'
<1>0. /\ Called(a) \in CallType /\ Called(a).pc = "off" /\ Called(a).made = 0
      /\ Called(a).took = -1 /\ Called(a).lost = FALSE /\ Called(a).told = "nothing"
  BY CalledFacts
<1>1. kind = "user" /\ UNCHANGED <<kind, cluster, flock>> /\ Resolved(a)  BY DEF Choose
<1>2. ASSUME NoRequest(a) PROVE Inv'
  <2> DEFINE t == [Called(a) EXCEPT !.told = "choices"]
  <2>1. call' = [call EXCEPT ![a] = t]  BY <1>2 DEF NoRequest
  <2>2. t \in CallType /\ t.pc = "off" /\ t.made = 0 /\ t.told = "choices"
    BY <1>0 DEF CallType, Words
  <2> HIDE DEF t
  <2> QED BY <1>1, <2>1, <2>2, BegunKeeps
<1>3. ASSUME NEW n \in Counts, BuildOptions(a, n) PROVE Inv'
  <2> DEFINE t == [Called(a) EXCEPT !.pc = "cap", !.n = n, !.new = TRUE]
  <2>1. NoRequest(a) \/ call' = [call EXCEPT ![a] = t]  BY <1>3 DEF BuildOptions
  <2>2. /\ t \in CallType /\ t.pc = "cap" /\ t.made = 0 /\ t.took = -1 /\ t.new = TRUE
        /\ t.told = "nothing"
    BY <1>0, CountsAssumption DEF CallType, Pcs
  <2> HIDE DEF t
  <2> QED BY <1>1, <1>2, <2>1, <2>2, BegunKeeps
<1> QED BY <1>1, <1>2, <1>3 DEF Resolved

\* A scale is called.
LEMMA ScaleCalledKeeps ==
  ASSUME Inv, NEW a \in Callers, ScaleCalled(a)
  PROVE  Inv'
<1>0. /\ Called(a) \in CallType /\ Called(a).made = 0 /\ Called(a).told = "nothing"
      /\ Called(a).took = -1 /\ Called(a).lost = FALSE
  BY CalledFacts
<1>1. kind = "user" /\ UNCHANGED <<kind, cluster, flock>>  BY DEF ScaleCalled
<1>2. PICK n \in Counts, c \in Ids :
        call' = [call EXCEPT ![a] = [Called(a) EXCEPT !.pc = "poll", !.n = n, !.name = c]]
  BY DEF ScaleCalled
<1> DEFINE t == [Called(a) EXCEPT !.pc = "poll", !.n = n, !.name = c]
<1>3. /\ t \in CallType /\ t.pc = "poll" /\ t.made = 0 /\ t.took = -1 /\ t.lost = FALSE
      /\ t.name = c /\ t.told = "nothing"
  BY <1>0, CountsAssumption, Bounds DEF CallType, Pcs
<1>4. call' = [call EXCEPT ![a] = t]  BY <1>2
<1> HIDE DEF t
<1> QED BY <1>1, <1>3, <1>4, BegunKeeps

\* A tool that reads
LEMMA ReadsKeeps ==
  ASSUME Inv, NEW a \in Callers, NEW t \in CallType, Reads(a, t), t.pc = "off", t.made = 0,
         t.told \notin {"scaling", "clamped", "empty", "unsent", "workerless"},
         t.told \in {"stopped", "missing"} => t.name \in Ids /\ Over(cluster[t.name])
  PROVE  Inv'
<1>0. /\ Called(a) \in CallType /\ Called(a).made = 0 /\ Called(a).pc = "off"  BY CalledFacts
<1>1. kind = "user" /\ UNCHANGED <<kind, cluster, flock>>  BY DEF Reads
<1> DEFINE f == [Called(a) EXCEPT !.told = "failed"]
<1>2. call' = [call EXCEPT ![a] = t] \/ call' = [call EXCEPT ![a] = f]  BY DEF Reads
<1>3. f \in CallType /\ f.pc = "off" /\ f.made = 0 /\ f.told = "failed"  BY <1>0 DEF CallType, Words
<1> HIDE DEF f
<1> QED BY <1>1, <1>2, <1>3, BegunKeeps

\* ... any of them.
LEMMA ReadingKeeps ==
  ASSUME Inv, NEW a \in Callers, List(a) \/ Info(a) \/ WorkerCount(a) \/ Usage(a)
  PROVE  Inv'
<1>0. /\ Called(a) \in CallType /\ Called(a).made = 0 /\ Called(a).pc = "off"  BY CalledFacts
<1>1. CASE List(a)
  <2> DEFINE w == IF Listed = {} THEN "none" ELSE "listed"
             k == Cardinality(Listed)
             t == [Called(a) EXCEPT !.took = k, !.told = w]
  <2>1. k \in Int
    <3>1. IsFiniteSet(1..MaxClusters)  BY FS_Interval, Bounds
    <3>2. IsFiniteSet(Listed)  BY <3>1, FS_Subset DEF Listed, Ids
    <3> QED BY <3>2, FS_CardinalityType
  <2>2. w \in {"none", "listed"} /\ Reads(a, t)  BY <1>1 DEF List
  <2> HIDE DEF w, k
  <2>3. t \in CallType /\ t.pc = "off" /\ t.made = 0 /\ t.told = w
    BY <1>0, <2>1, <2>2 DEF CallType, Words
  <2> HIDE DEF t
  <2> QED BY <2>2, <2>3, ReadsKeeps
<1>2. ASSUME NEW c \in Ids, NEW what \in {"record", "workers", "nodata", "usage"},
             Reads(a, Record(a, c, what))
      PROVE  Inv'
  <2> DEFINE w == IF cluster[c].is = "gone" THEN "missing" ELSE what
             t == [Called(a) EXCEPT !.name = c, !.told = w]
  <2>1. w \in {"missing", "record", "workers", "nodata", "usage"}
        /\ (w = "missing" => Over(cluster[c]))
    BY DEF Over
  <2>2. Reads(a, t)  BY <1>2 DEF Record
  <2> HIDE DEF w
  <2>3. t \in CallType /\ t.pc = "off" /\ t.made = 0 /\ t.told = w /\ t.name = c
    BY <1>0, <2>1, Bounds DEF CallType, Words
  <2> HIDE DEF t
  <2> QED BY <2>1, <2>2, <2>3, ReadsKeeps
<1> QED BY <1>1, <1>2 DEF Info, WorkerCount, Usage, Known

\* A tool's cluster is made; whoever is still there knows its name.
LEMMA CreateKeeps ==
  ASSUME Inv, NEW a \in Callers, Create(a)
  PROVE  Inv'
<1>0. /\ call[a] \in CallType /\ flock \in [Projects -> SUBSET Callers]
      /\ kind = "user" => Sound(call[a])
  BY Facts
<1>1. /\ kind = "user" /\ call[a].pc = "make" /\ NextId \in Ids /\ Made(a, NextId)
      /\ UNCHANGED <<kind, flock>>
  BY DEF Create, At
<1>2. /\ cluster[NextId].is = "none" /\ cluster' \in [Ids -> ClusterType] /\ Prefix'
      /\ \A c \in Ids \ {NextId} : cluster'[c] = cluster[c]
  BY <1>1, MadeFacts
<1> DEFINE i == NextId
           pc == IF call[a].n > 0 THEN "poll" ELSE "off"
           told == IF call[a].n > 0 THEN call[a].told ELSE "empty"
           t1 == [call[a] EXCEPT !.pc = pc, !.told = told, !.name = i, !.made = i]
           t2 == [call[a] EXCEPT !.pc = "off", !.told = "unsure", !.made = i]
           t3 == [call[a] EXCEPT !.pc = "off", !.told = "failed", !.made = i]
<1>3. i \in Ids /\ i \in Nat  BY <1>1, Bounds
<1>4. \/ ~call[a].lost /\ call' = [call EXCEPT ![a] = t1]
      \/ call' = [call EXCEPT ![a] = t2]
      \/ call[a].lost /\ call' = [call EXCEPT ![a] = t3]
  BY DEF Create
<1>5. /\ pc \in {"poll", "off"} /\ told \in Words /\ (pc = "off" => told = "empty")
  BY <1>0 DEF CallType, Words
<1>6. \A c \in Ids : Over(cluster[c]) => Over(cluster'[c])  BY <1>2 DEF Over
<1>7. call[a].took = -1 /\ call[a].new  BY <1>0, <1>1 DEF Sound
<1> HIDE DEF i, pc, told
<1>8. /\ t1 \in CallType /\ t1.pc = pc /\ t1.told = told /\ t1.name = i /\ t1.made = i
      /\ t1.took = call[a].took /\ t1.new = call[a].new /\ t1.lost = call[a].lost
  BY <1>0, <1>3, <1>5 DEF CallType, Pcs
<1>9. /\ t2 \in CallType /\ t2.pc = "off" /\ t2.told = "unsure"
  BY <1>0, <1>3 DEF CallType, Pcs, Words
<1>10. /\ t3 \in CallType /\ t3.pc = "off" /\ t3.told = "failed" /\ t3.lost = call[a].lost
  BY <1>0, <1>3 DEF CallType, Pcs, Words
<1> HIDE DEF t1, t2, t3
<1>11. ~call[a].lost => Sound(t1) /\ Finished(t1, cluster')
  BY <1>3, <1>5, <1>7, <1>8 DEF Sound, Finished
<1>12. Sound(t2) /\ Finished(t2, cluster')  BY <1>9 DEF Sound, Finished
<1>13. call[a].lost => Sound(t3) /\ Finished(t3, cluster')  BY <1>10 DEF Sound, Finished
<1>14. ASSUME NEW t \in CallType, call' = [call EXCEPT ![a] = t], Sound(t), Finished(t, cluster')
       PROVE  Inv'
  BY <1>0, <1>1, <1>2, <1>6, <1>14, UserKeeps
<1> QED BY <1>4, <1>8, <1>9, <1>10, <1>11, <1>12, <1>13, <1>14

\* A tool call that waited for its cluster ends without workers.
LEMMA EndsKeeps ==
  ASSUME Inv, kind = "user", NEW a \in Callers, UNCHANGED <<kind, cluster, flock>>,
         \/ call[a].pc \in {"poll", "scale"} /\ (GivesUp(a) \/ Tells(a, "unsent"))
         \/ call[a].pc = "cap" /\ Tells(a, "failed")
  PROVE  Inv'
<1>0. call[a] \in CallType /\ Sound(call[a]) /\ flock \in [Projects -> SUBSET Callers]
  BY Facts
<1>1. PICK w \in {"workerless", "failed", "unsent"} :
        /\ Tells(a, w) /\ call[a].pc \in {"poll", "scale", "cap"}
        /\ w = "failed" /\ call[a].pc # "cap" => ~call[a].new
        /\ call[a].pc = "cap" => w = "failed"
  BY DEF GivesUp
<1> DEFINE t == [call[a] EXCEPT !.pc = "off", !.told = w]
<1>2. call' = [call EXCEPT ![a] = t]  BY <1>1 DEF Tells
<1>3. /\ t \in CallType /\ t.pc = "off" /\ t.told = w /\ t.made = call[a].made
      /\ t.name = call[a].name /\ t.took = call[a].took
  BY <1>0 DEF CallType, Pcs, Words
<1> HIDE DEF t
<1>4. Sound(t) /\ Finished(t, cluster)  BY <1>0, <1>1, <1>3 DEF Sound, Finished
<1> QED BY <1>0, <1>2, <1>3, <1>4, UserSame

\* A tool waits for its cluster to run.
LEMMA PollKeeps ==
  ASSUME Inv, NEW a \in Callers, Poll(a) \/ RequestFails(a)
  PROVE  Inv'
<1>0. /\ kind \in {"user", "account"} /\ call[a] \in CallType
      /\ flock \in [Projects -> SUBSET Callers]
      /\ kind = "user" => Sound(call[a])
      /\ kind = "account" => Placed(call[a])
  BY Facts
<1>1. UNCHANGED <<kind, cluster, flock>>  BY DEF Poll, RequestFails
<1>2. CASE RequestFails(a)
  <2>1. kind = "user" /\ call[a].pc \in {"cap", "poll", "scale"}  BY <1>2 DEF RequestFails
  <2>2. IF call[a].pc = "cap" THEN Tells(a, "failed") ELSE GivesUp(a)
    BY <1>2 DEF RequestFails, At
  <2> QED BY <1>1, <2>1, <2>2, EndsKeeps
<1>3. CASE Poll(a)
  <2>1. call[a].pc = "poll"  BY <1>3 DEF Poll, At
  <2>2. kind = "user" /\ Sound(call[a])  BY <1>0, <2>1 DEF Placed
  <2>3. \/ Moves(a, "scale") \/ GivesUp(a) \/ Tells(a, "unsent")
        \/ call' = [call EXCEPT ![a].polls = @ + 1]
    BY <1>3 DEF Poll
  <2>4. CASE Moves(a, "scale")
    <3> DEFINE t == [call[a] EXCEPT !.pc = "scale"]
    <3>1. call' = [call EXCEPT ![a] = t]  BY <2>4 DEF Moves
    <3>2. /\ t \in CallType /\ t.pc = "scale" /\ t.made = call[a].made /\ t.took = call[a].took
          /\ t.name = call[a].name /\ t.new = call[a].new /\ t.lost = call[a].lost
      BY <1>0 DEF CallType, Pcs
    <3> HIDE DEF t
    <3>3. Sound(t) /\ Finished(t, cluster)  BY <2>1, <2>2, <3>2 DEF Sound, Finished
    <3> QED BY <1>0, <1>1, <2>2, <3>1, <3>2, <3>3, UserSame
  <2>5. CASE call' = [call EXCEPT ![a].polls = @ + 1]
    <3> DEFINE n == call[a].polls + 1
               t == [call[a] EXCEPT !.polls = n]
    <3>1. call' = [call EXCEPT ![a] = t] /\ n \in Nat  BY <1>0, <2>5 DEF CallType
    <3> HIDE DEF n
    <3>2. /\ t \in CallType /\ t.pc = "poll" /\ t.made = call[a].made /\ t.took = call[a].took
          /\ t.name = call[a].name /\ t.new = call[a].new /\ t.lost = call[a].lost
      BY <1>0, <2>1, <3>1 DEF CallType
    <3> HIDE DEF t
    <3>3. Sound(t) /\ Finished(t, cluster)  BY <2>1, <2>2, <3>2 DEF Sound, Finished
    <3> QED BY <1>0, <1>1, <2>2, <3>1, <3>2, <3>3, UserSame
  <2> QED BY <1>1, <2>1, <2>2, <2>3, <2>4, <2>5, EndsKeeps
<1> QED BY <1>2, <1>3

\* A scale is taken by the gateway, as told or as clamped, or its answer is lost.
LEMMA ScaleKeeps ==
  ASSUME Inv, NEW a \in Callers, Scale(a)
  PROVE  Inv'
<1>0. /\ TypeOK /\ Prefix /\ kind \in {"user", "account"} /\ call[a] \in CallType
      /\ cluster \in [Ids -> ClusterType] /\ flock \in [Projects -> SUBSET Callers]
      /\ kind = "user" => Sound(call[a])
      /\ kind = "account" => Placed(call[a])
  BY Facts
<1>1. call[a].pc = "scale" /\ UNCHANGED <<kind, flock>>  BY DEF Scale, At
<1>2. kind = "user" /\ Sound(call[a])  BY <1>0, <1>1 DEF Placed
<1>3. /\ call[a].took = -1 /\ ~call[a].lost /\ call[a].name \in Ids
      /\ call[a].made # 0 => call[a].new /\ call[a].made = call[a].name
  BY <1>1, <1>2 DEF Sound
<1>4. CASE cluster[call[a].name].is # "running"
  <2>1. GivesUp(a) /\ UNCHANGED cluster  BY <1>4 DEF Scale
  <2> QED BY <1>1, <1>2, <2>1, EndsKeeps
<1>5. CASE cluster[call[a].name].is = "running"
  <2> DEFINE c == call[a].name
             k == Taken(call[a].n)
             K == [cluster[c] EXCEPT !.target = k]
             w == ScaleAnswer(a)
             v == IF call[a].new THEN "workerless" ELSE "failed"
             t == [call[a] EXCEPT !.pc = "off", !.told = w, !.took = k]
             u == [call[a] EXCEPT !.pc = "off", !.took = k, !.lost = TRUE, !.told = v]
  <2>1. /\ cluster' = [cluster EXCEPT ![c] = K]
        /\ call' = [call EXCEPT ![a] = t] \/ call' = [call EXCEPT ![a] = u]
    BY <1>5 DEF Scale
  <2>2. call[a].n \in Nat  BY <1>0 DEF CallType
  <2>3. k \in Nat /\ k \in Int  BY <2>2, Bounds DEF Taken
  <2>4. /\ w \in {"scaling", "clamped"}
        /\ w = "scaling" => k = call[a].n
        /\ w = "clamped" => k < call[a].n
    BY <2>2, Bounds DEF Taken, ScaleAnswer
  <2>5. v \in {"workerless", "failed"}  OBVIOUS
  <2>6. c \in Ids /\ c = call[a].name  BY <1>3
  <2> HIDE DEF c, k, w, v
  <2>7. K \in ClusterType /\ K.is = cluster[c].is  BY <1>0, <2>3, <2>6 DEF ClusterType
  <2> HIDE DEF K
  <2>8. /\ cluster' \in [Ids -> ClusterType] /\ Prefix' /\ cluster'[c] = K
        /\ \A d \in Ids \ {c} : cluster'[d] = cluster[d]
    BY <1>0, <1>5, <2>1, <2>6, <2>7, OneMoves
  <2>9. \A d \in Ids : Over(cluster[d]) => Over(cluster'[d])  BY <2>7, <2>8 DEF Over
  <2>10. /\ t \in CallType /\ t.pc = "off" /\ t.told = w /\ t.took = k /\ t.n = call[a].n
         /\ t.made = call[a].made /\ t.name = call[a].name
    BY <1>0, <2>3, <2>4 DEF CallType, Pcs, Words
  <2>11. /\ u \in CallType /\ u.pc = "off" /\ u.told = v /\ u.lost = TRUE
    BY <1>0, <2>3, <2>5 DEF CallType, Pcs, Words
  <2> HIDE DEF t, u
  <2>12. Sound(t) /\ Finished(t, cluster')  BY <1>3, <2>4, <2>10 DEF Sound, Finished
  <2>13. Sound(u) /\ Finished(u, cluster')  BY <2>5, <2>11 DEF Sound, Finished
  <2>14. ASSUME NEW x \in CallType, call' = [call EXCEPT ![a] = x], Sound(x), Finished(x, cluster')
         PROVE  Inv'
    BY <1>0, <1>1, <1>2, <2>8, <2>9, <2>14, UserKeeps
  <2> QED BY <2>1, <2>10, <2>11, <2>12, <2>13, <2>14
<1> QED BY <1>4, <1>5

\* A stop.
LEMMA StopKeeps ==
  ASSUME Inv, NEW a \in Callers, Stop(a)
  PROVE  Inv'
<1>0. /\ TypeOK /\ Prefix /\ cluster \in [Ids -> ClusterType]
      /\ flock \in [Projects -> SUBSET Callers]
  BY Facts
<1>1. kind = "user" /\ UNCHANGED <<kind, flock>>  BY DEF Stop
<1>2. PICK c \in Ids, lost \in BOOLEAN :
        /\ cluster[c].is # "none"
        /\ cluster' = [cluster EXCEPT ![c].is = IF @ \in Active THEN "stopping" ELSE @]
        /\ call' = [call EXCEPT ![a] = [Called(a) EXCEPT !.name = c, !.lost = lost,
             !.told = IF lost THEN "failed"
                      ELSE IF cluster[c].is = "gone" THEN "missing" ELSE "stopped"]]
  BY DEF Stop
<1> DEFINE is == IF cluster[c].is \in Active THEN "stopping" ELSE cluster[c].is
           K == [cluster[c] EXCEPT !.is = is]
           w == IF lost THEN "failed" ELSE IF cluster[c].is = "gone" THEN "missing" ELSE "stopped"
           t == [Called(a) EXCEPT !.name = c, !.lost = lost, !.told = w]
<1>3. cluster' = [cluster EXCEPT ![c] = K] /\ call' = [call EXCEPT ![a] = t]  BY <1>2
<1>4. is \in {"stopping", "gone"}
  <2>1. cluster[c].is \in {"none", "pending", "running", "stopping", "gone"}
    BY <1>0 DEF ClusterType
  <2> QED BY <1>2, <2>1 DEF Active
<1>5. w \in {"failed", "missing", "stopped"}  OBVIOUS
<1> HIDE DEF is, w
<1>6. K \in ClusterType /\ K.is = is  BY <1>0, <1>4 DEF ClusterType
<1>7. /\ Called(a) \in CallType /\ Called(a).pc = "off" /\ Called(a).made = 0  BY CalledFacts
<1>8. /\ t \in CallType /\ t.pc = "off" /\ t.made = 0 /\ t.name = c /\ t.told = w
  BY <1>5, <1>7, Bounds DEF CallType, Words
<1> HIDE DEF K, t
<1>9. /\ cluster' \in [Ids -> ClusterType] /\ Prefix' /\ cluster'[c] = K
      /\ \A d \in Ids \ {c} : cluster'[d] = cluster[d]
  BY <1>0, <1>2, <1>3, <1>4, <1>6, OneMoves
<1>10. \A d \in Ids : Over(cluster[d]) => Over(cluster'[d])  BY <1>4, <1>6, <1>9 DEF Over
<1>11. Sound(t) /\ Finished(t, cluster')
  BY <1>4, <1>5, <1>6, <1>8, <1>9 DEF Sound, Finished, Over
<1> QED BY <1>0, <1>1, <1>3, <1>8, <1>9, <1>10, <1>11, UserKeeps

-----------------------------------------------------------------------------
(* af_dask.client. *)

\* A script that unlocks gives up its own lock only.
LEMMA UnlockedFacts ==
  ASSUME TypeOK, NEW a \in Callers, flock' = Unlocked(a)
  PROVE  /\ flock' \in [Projects -> SUBSET Callers]
         /\ \A p \in Projects : \A b \in Callers \ {a} : flock[p] = {b} => flock'[p] = {b}
<1>1. Project[a] \in Projects  BY DEF Projects
<1> QED BY <1>1 DEF TypeOK, Unlocked

\* The call of a script ends, and its lock goes.
LEMMA ScriptEnds ==
  ASSUME Inv, kind = "account", NEW a \in Callers, NEW what \in Words, Tells(a, what),
         flock' = Unlocked(a), UNCHANGED kind, cluster' \in [Ids -> ClusterType], Prefix',
         \A c \in Ids : Shared(cluster'[c]) =>
           Shared(cluster[c]) /\ cluster'[c].project = cluster[c].project
  PROVE  Inv'
<1>0. TypeOK /\ call[a] \in CallType  BY Facts
<1> DEFINE t == [call[a] EXCEPT !.pc = "off", !.told = what]
<1>1. call' = [call EXCEPT ![a] = t]  BY DEF Tells
<1>2. t \in CallType /\ t.pc = "off"  BY <1>0 DEF CallType, Pcs
<1> HIDE DEF t
<1>3. Placed(t) /\ ~Holds(t) /\ ~Creates(t)  BY <1>2 DEF Placed, Holds, Creates
<1>4. /\ flock' \in [Projects -> SUBSET Callers]
      /\ \A p \in Projects : \A b \in Callers \ {a} : flock[p] = {b} => flock'[p] = {b}
  BY <1>0, UnlockedFacts
<1> QED BY <1>1, <1>2, <1>3, <1>4, AccountKeeps

\* Clusters that do not change.
LEMMA SameClusters ==
  ASSUME Inv, UNCHANGED cluster
  PROVE  /\ cluster' \in [Ids -> ClusterType] /\ Prefix'
         /\ \A c \in Ids : Shared(cluster'[c]) =>
              Shared(cluster[c]) /\ cluster'[c].project = cluster[c].project
BY PrefixKept DEF Inv, TypeOK

\* A script asks for its client, or fails.
LEMMA ClientKeeps ==
  ASSUME Inv, NEW a \in Callers, Client(a) \/ ScriptFails(a)
  PROVE  Inv'
<1>0. flock \in [Projects -> SUBSET Callers]  BY Facts
<1>1. kind = "account" /\ UNCHANGED <<kind, cluster>>  BY DEF Client, ScriptFails
<1>2. CASE Client(a)
  <2> DEFINE t == [Called(a) EXCEPT !.pc = "lock"]
  <2>1. call' = [call EXCEPT ![a] = t] /\ UNCHANGED flock  BY <1>2 DEF Client
  <2>2. Called(a) \in CallType /\ Called(a).lost = FALSE  BY CalledFacts
  <2>3. t \in CallType /\ t.pc = "lock" /\ t.lost = FALSE  BY <2>2 DEF CallType, Pcs
  <2> HIDE DEF t
  <2>4. Placed(t) /\ ~Holds(t) /\ ~Creates(t)  BY <2>3 DEF Placed, Holds, Creates
  <2> QED BY <1>0, <1>1, <2>1, <2>3, <2>4, CallerKeeps
<1>3. CASE ScriptFails(a)
  <2>1. Tells(a, "failed") /\ flock' = Unlocked(a) /\ "failed" \in Words
    BY <1>3 DEF ScriptFails, Words
  <2> QED BY <1>1, <2>1, SameClusters, ScriptEnds
<1> QED BY <1>2, <1>3

\* A script past the lock is alone in its environment.
LEMMA ScriptFacts ==
  ASSUME Inv, NEW a \in Callers, call[a].pc \in {"lock", "look", "connect"}
  PROVE  /\ kind = "account" /\ TypeOK /\ call[a] \in CallType /\ Placed(call[a]) /\ ~call[a].lost
         /\ Project[a] \in Projects
         /\ call[a].pc # "lock" => flock[Project[a]] = {a}
<1>1. /\ TypeOK /\ kind \in {"user", "account"} /\ call[a] \in CallType /\ Project[a] \in Projects
      /\ kind = "user" => Sound(call[a])
      /\ kind = "account" => Placed(call[a]) /\ (Holds(call[a]) => flock[Project[a]] = {a})
  BY Facts
<1>2. kind = "account"  BY <1>1 DEF Sound
<1>3. ~call[a].lost  BY <1>1, <1>2 DEF Placed
<1> QED BY <1>1, <1>2, <1>3 DEF Holds

\* A script takes the lock of its environment.
LEMMA LockKeeps ==
  ASSUME Inv, NEW a \in Callers, Lock(a)
  PROVE  Inv'
<1>1. /\ call[a].pc = "lock" /\ flock[Project[a]] = {} /\ Moves(a, "look")
      /\ flock' = [flock EXCEPT ![Project[a]] = {a}] /\ UNCHANGED <<kind, cluster>>
  BY DEF Lock, At
<1>2. kind = "account" /\ TypeOK /\ call[a] \in CallType /\ ~call[a].lost /\ Project[a] \in Projects
  BY <1>1, ScriptFacts
<1> DEFINE t == [call[a] EXCEPT !.pc = "look"]
<1>3. call' = [call EXCEPT ![a] = t]  BY <1>1 DEF Moves
<1>4. t \in CallType /\ t.pc = "look" /\ t.lost = call[a].lost  BY <1>2 DEF CallType, Pcs
<1> HIDE DEF t
<1>5. Placed(t) /\ ~Creates(t)  BY <1>2, <1>4 DEF Placed, Creates
<1>6. /\ flock' \in [Projects -> SUBSET Callers] /\ flock'[Project[a]] = {a}
      /\ \A p \in Projects : \A b \in Callers \ {a} : flock[p] = {b} => flock'[p] = {b}
  BY <1>1, <1>2 DEF TypeOK
<1> QED BY <1>1, <1>2, <1>3, <1>4, <1>5, <1>6, CallerKeeps

\* It looks for a cluster: where it finds none it will create, nobody else can.
LEMMA RunningKeeps ==
  ASSUME Inv, NEW a \in Callers, Running(a)
  PROVE  Inv'
<1>1. call[a].pc = "look" /\ UNCHANGED <<kind, cluster>>  BY DEF Running, At
<1>2. /\ kind = "account" /\ TypeOK /\ call[a] \in CallType /\ ~call[a].lost
      /\ flock[Project[a]] = {a}
  BY <1>1, ScriptFacts
<1>3. flock \in [Projects -> SUBSET Callers]  BY <1>2 DEF TypeOK
<1> DEFINE own == {c \in Listed : cluster[c].project = Project[a]}
<1>4. ASSUME NEW c \in own, call' = [call EXCEPT ![a].pc = "connect", ![a].name = c],
             UNCHANGED flock
      PROVE  Inv'
  <2>1. c \in Ids /\ c \in Nat  BY Bounds DEF Listed
  <2> DEFINE t == [call[a] EXCEPT !.pc = "connect", !.name = c]
  <2>2. call' = [call EXCEPT ![a] = t]  BY <1>4
  <2>3. t \in CallType /\ t.pc = "connect" /\ t.name = c /\ t.lost = call[a].lost
    BY <1>2, <2>1 DEF CallType, Pcs
  <2> HIDE DEF t
  <2>4. Placed(t) /\ ~Creates(t)  BY <1>2, <2>1, <2>3 DEF Placed, Creates
  <2> QED BY <1>1, <1>2, <1>3, <1>4, <2>2, <2>3, <2>4, CallerKeeps
<1>5. ASSUME Tells(a, "busy"), flock' = Unlocked(a) PROVE Inv'
  <2>1. "busy" \in Words  BY DEF Words
  <2> QED BY <1>1, <1>2, <1>5, <2>1, SameClusters, ScriptEnds
<1>6. ASSUME Listed = {}, Moves(a, "cap"), UNCHANGED flock PROVE Inv'
  <2> DEFINE t == [call[a] EXCEPT !.pc = "cap"]
  <2>1. call' = [call EXCEPT ![a] = t]  BY <1>6 DEF Moves
  <2>2. t \in CallType /\ t.pc = "cap"  BY <1>2 DEF CallType, Pcs
  <2> HIDE DEF t
  <2>3. Placed(t)  BY <2>2 DEF Placed
  <2>4. \A c \in Ids : ~Shared(cluster[c])  BY <1>6 DEF Listed, Shared
  <2> QED BY <1>1, <1>2, <1>3, <1>6, <2>1, <2>2, <2>3, <2>4, CallerKeeps
<1> QED BY <1>4, <1>5, <1>6 DEF Running

\* It connects, and unlocks.
LEMMA ConnectKeeps ==
  ASSUME Inv, NEW a \in Callers, Connect(a)
  PROVE  Inv'
<1>1. call[a].pc = "connect" /\ flock' = Unlocked(a) /\ UNCHANGED kind  BY DEF Connect, At
<1>2. kind = "account" /\ TypeOK /\ Placed(call[a])  BY <1>1, ScriptFacts
<1> DEFINE c == call[a].name
<1>3. c \in Ids  BY <1>1, <1>2 DEF Placed
<1>4. "client" \in Words /\ "failed" \in Words  BY DEF Words
<1>5. CASE Tells(a, "failed") /\ UNCHANGED cluster
  BY <1>1, <1>2, <1>4, <1>5, SameClusters, ScriptEnds
<1>6. CASE /\ cluster[c].is = "running" /\ Tells(a, "client")
           /\ cluster' = [cluster EXCEPT ![c].target = MaxWorkers]
  <2> DEFINE K == [cluster[c] EXCEPT !.target = MaxWorkers]
  <2>1. cluster' = [cluster EXCEPT ![c] = K]  BY <1>6
  <2>2. cluster[c] \in ClusterType /\ cluster[c].is = "running" /\ Prefix
    BY <1>2, <1>3, <1>6 DEF TypeOK, Inv
  <2> HIDE DEF c
  <2>3. /\ K \in ClusterType /\ K.is = cluster[c].is /\ K.project = cluster[c].project
        /\ K.left = cluster[c].left
    BY <2>2, Bounds DEF ClusterType
  <2> HIDE DEF K
  <2>4. /\ cluster' \in [Ids -> ClusterType] /\ Prefix' /\ cluster'[c] = K
        /\ \A d \in Ids \ {c} : cluster'[d] = cluster[d]
    BY <1>2, <1>3, <2>1, <2>2, <2>3, OneMoves
  <2>5. \A d \in Ids : Shared(cluster'[d]) =>
          Shared(cluster[d]) /\ cluster'[d].project = cluster[d].project
    BY <2>3, <2>4 DEF Shared
  <2> QED BY <1>1, <1>2, <1>4, <1>6, <2>4, <2>5, ScriptEnds
<1> QED BY <1>5, <1>6 DEF Connect

\* Its cluster is made: the only one of the environment that is shared.
LEMMA NewClusterKeeps ==
  ASSUME Inv, NEW a \in Callers, NewCluster(a)
  PROVE  Inv'
<1>0. /\ TypeOK /\ call[a] \in CallType /\ AccountInv
      /\ kind = "account" /\ call[a].pc = "make" /\ NextId \in Ids /\ Made(a, NextId)
      /\ UNCHANGED <<kind, flock>>
  BY Facts DEF NewCluster, At, Inv
<1>1. /\ cluster[NextId].is = "none" /\ cluster' \in [Ids -> ClusterType] /\ Prefix'
      /\ cluster'[NextId].is = "pending" /\ cluster'[NextId].project = Project[a]
      /\ cluster'[NextId].left = call[a].lost
      /\ \A c \in Ids \ {NextId} : cluster'[c] = cluster[c]
  BY <1>0, MadeFacts
<1> DEFINE i == NextId
           t1 == [call[a] EXCEPT !.pc = "connect", !.name = i]
           t2 == [call[a] EXCEPT !.pc = "off", !.told = "failed"]
<1>2. \/ call[a].lost /\ call' = [call EXCEPT ![a] = t2]
      \/ ~call[a].lost /\ call' = [call EXCEPT ![a] = t1]
  BY DEF NewCluster, Tells
<1>3. i \in Ids /\ i \in Nat  BY <1>0, Bounds
<1> HIDE DEF i
<1>4. t1 \in CallType /\ t1.pc = "connect" /\ t1.name = i /\ t1.lost = call[a].lost
  BY <1>0, <1>3 DEF CallType, Pcs
<1>5. t2 \in CallType /\ t2.pc = "off"  BY <1>0 DEF CallType, Pcs, Words
<1> HIDE DEF t1, t2
<1>6. PICK t \in CallType :
        /\ call' = [call EXCEPT ![a] = t] /\ Placed(t) /\ ~Creates(t)
        /\ Holds(t) => Holds(call[a])
  <2>1. CASE call[a].lost /\ call' = [call EXCEPT ![a] = t2]
    BY <1>5, <2>1 DEF Placed, Creates, Holds
  <2>2. CASE ~call[a].lost /\ call' = [call EXCEPT ![a] = t1]
    BY <1>0, <1>3, <1>4, <2>2 DEF Placed, Creates, Holds
  <2> QED BY <1>2, <2>1, <2>2
<1>7. /\ call' \in [Callers -> CallType] /\ call'[a] = t
      /\ \A b \in Callers \ {a} : call'[b] = call[b]
  BY <1>0, <1>6 DEF TypeOK
<1>8. TypeOK'  BY <1>0, <1>1, <1>7 DEF TypeOK
<1>9. \A b \in Callers : Placed(call'[b])  BY <1>0, <1>6, <1>7 DEF AccountInv
<1>10. Locked'  BY <1>0, <1>6, <1>7 DEF AccountInv, Locked
<1>11. \A c \in Ids : Shared(cluster'[c]) =>
         \/ c = NextId /\ ~call[a].lost
         \/ c # NextId /\ Shared(cluster[c]) /\ cluster'[c] = cluster[c]
  BY <1>1 DEF Shared
<1>12. ~call[a].lost => Creates(call[a]) /\ Holds(call[a])  BY <1>0 DEF Creates, Holds
<1>13. Alone'
  <2> SUFFICES ASSUME NEW b \in Callers, NEW c \in Ids, Creates(call'[b]), Shared(cluster'[c]),
                      cluster'[c].project = Project[b]
               PROVE  FALSE
    BY DEF Alone
  <2>1. b # a /\ call'[b] = call[b]  BY <1>6, <1>7
  <2>2. CASE c # NextId  BY <1>0, <1>11, <2>1, <2>2 DEF AccountInv, Alone
  <2>3. CASE c = NextId /\ ~call[a].lost
    <3>1. Project[b] = Project[a]  BY <1>1, <2>3
    <3>2. Holds(call[b])  BY <2>1 DEF Creates, Holds
    <3>3. flock[Project[a]] = {a} /\ flock[Project[b]] = {b}
      BY <1>0, <1>12, <2>3, <3>2 DEF AccountInv, Locked
    <3> QED BY <2>1, <3>1, <3>3
  <2> QED BY <1>11, <2>2, <2>3
<1>14. One'
  <2> SUFFICES ASSUME NEW c \in Ids, NEW d \in Ids, Shared(cluster'[c]), Shared(cluster'[d]),
                      cluster'[c].project = cluster'[d].project
               PROVE  c = d
    BY DEF One
  <2>1. ASSUME NEW e \in Ids, e # NextId, Shared(cluster'[e]), ~call[a].lost
        PROVE  cluster'[e].project # Project[a]
    BY <1>0, <1>11, <1>12, <2>1 DEF AccountInv, Alone
  <2>2. CASE c # NextId /\ d # NextId  BY <1>0, <1>11, <2>2 DEF AccountInv, One
  <2>3. CASE c = NextId /\ d # NextId  BY <1>1, <1>11, <2>1, <2>3
  <2>4. CASE c # NextId /\ d = NextId  BY <1>1, <1>11, <2>1, <2>4
  <2> QED BY <2>2, <2>3, <2>4
<1> QED BY <1>0, <1>1, <1>8, <1>9, <1>10, <1>13, <1>14 DEF Inv, AccountInv

-----------------------------------------------------------------------------
(* The theorems. *)

\* The invariant holds at the start.
LEMMA InitInv == Init => Inv
<1> SUFFICES ASSUME Init PROVE Inv  OBVIOUS
<1>1. NoCluster \in ClusterType /\ NoCluster.is = "none"  BY DEF NoCluster, ClusterType
<1>2. -1 \in Int /\ 0 \in Nat  OBVIOUS
<1>3. NoCall \in CallType  BY <1>2 DEF NoCall, CallType, Pcs, Words
<1>4. NoCall.pc = "off" /\ NoCall.told = "nothing" /\ NoCall.made = 0  BY DEF NoCall
<1>5. TypeOK
  <2>1. kind \in {"user", "account"} /\ cluster = [c \in Ids |-> NoCluster]
        /\ call = [a \in Callers |-> NoCall] /\ flock = [p \in Projects |-> {}]
    BY DEF Init, Projects
  <2> QED BY <1>1, <1>3, <2>1 DEF TypeOK
<1>6. \A c \in Ids : cluster[c].is = "none"  BY <1>1 DEF Init
<1>7. \A a \in Callers : call[a] = NoCall  BY DEF Init
<1>8. Prefix
  <2>1. 0 \in 0..MaxClusters  BY Bounds
  <2>2. \A c \in Ids : ~(c <= 0)  BY Bounds DEF Ids
  <2> QED BY <1>6, <2>1, <2>2 DEF Prefix
<1>9. UserInv  BY <1>4, <1>7 DEF UserInv, Sound, Finished
<1>10. AccountInv
  BY <1>4, <1>6, <1>7 DEF AccountInv, Placed, Locked, Alone, One, Holds, Creates, Shared, Active
<1> QED BY <1>5, <1>8, <1>9, <1>10 DEF Inv

\* Every step keeps the invariant: one case per action.
LEMMA StepInv == Inv /\ [Next]_vars => Inv'
<1> SUFFICES ASSUME Inv, [Next]_vars PROVE Inv'  OBVIOUS
<1>1. ASSUME NEW a \in Callers, Asks(a) PROVE Inv'
  BY <1>1, ChooseKeeps, ScaleCalledKeeps, StopKeeps, ReadingKeeps, ClientKeeps DEF Asks
<1>2. ASSUME NEW a \in Callers, Goes(a) PROVE Inv'
  BY <1>2, CapKeeps, CreateKeeps, PollKeeps, ScaleKeeps, LockKeeps, RunningKeeps,
     NewClusterKeeps, ConnectKeeps
     DEF Goes
<1>3. ASSUME NEW a \in Callers, ScriptFails(a) PROVE Inv'  BY <1>3, ClientKeeps
<1>4. ASSUME NEW c \in Ids, Up(c) \/ Ends(c) \/ Gone(c) PROVE Inv'  BY <1>4, GatewayKeeps
<1>5. CASE UNCHANGED vars
  BY <1>5 DEF vars, Inv, TypeOK, Prefix, UserInv, AccountInv, Locked, Alone, One
<1> QED BY <1>1, <1>2, <1>3, <1>4, <1>5 DEF Next

\* ... and so it always holds.
LEMMA InvHolds == Spec => []Inv
BY InitInv, StepInv, PTL DEF Spec

\* The scripts of an environment share one cluster: af_dask.client never has two of it run,
\* but for one that the gateway made for a script that was gone, for any scripts and
\* environments, in whatever order they start, fail and end.
THEOREM OneClusterEach == Spec => []OneEach
<1>1. Inv => OneEach
  BY DEF Inv, AccountInv, One, OneEach, Listed, Shared
<1> QED BY <1>1, InvHolds, PTL

\* What create_, scale_ and stop_dask_cluster tell the agent is what they did, whichever answer
\* of the gateway was lost and whatever became of the cluster, for any agents and counts.
THEOREM ToolsTellTrue == Spec => []ToldTrue
<1>1. Inv => ToldTrue
  BY DEF Inv, UserInv, Sound, Finished, Over, ToldTrue, At
<1> QED BY <1>1, InvHolds, PTL
-----------------------------------------------------------------------------
(* The node monitor. *)

NodeType == [pool : Pools, ready : BOOLEAN]
ProbeType == [result : Result \cup {None}, ready : BOOLEAN, due : BOOLEAN, ran : BOOLEAN]
PodsType == [Mounts -> [ready : BOOLEAN, stuck : BOOLEAN]]
ExporterType == [pc : {"sleep", "pull"}, node : NodeType \cup {None}, pods : PodsType \cup {None},
                 ran : BOOLEAN, results : [Mounts -> Result \cup {None}]]
SeriesType == [up : BOOLEAN \cup {None}, valid : BOOLEAN, fresh : BOOLEAN,
               rate : {"none", "zero", "real"}]
HistType == [good : 0..Old, bad : BOOLEAN]

MonitorTypeOK ==
  /\ pod \in [Mounts -> {"up", "stuck"}]
  /\ node \in NodeType
  /\ probe \in [Mounts -> ProbeType]
  /\ exporter \in ExporterType
  /\ gauge \in [Pools -> [Mounts -> SeriesType \cup {None}]]
  /\ hist \in [Mounts -> HistType]

\* A result, where it is served or kept: a success is as old as it says at least, and its
\* rate is none of a failed run; a failure is one that the history knows of.
SoundResult(r, h) == r # None =>
  /\ r.ok /\ r.age \in 0..Stale => h.good <= r.age
  /\ r.ok => r.rate # "zero"
  /\ ~r.ok => h.bad

Served == \A m \in Mounts : /\ SoundResult(probe[m].result, hist[m])
                            /\ probe[m].result # None /\ probe[m].result.rate = "zero"
                                 => probe[m].due
Pulled == \A m \in Mounts : SoundResult(exporter.results[m], hist[m])

\* A pod stuck on its volume, or listed as stuck, is a failure.
Stuck == \A m \in Mounts : /\ pod[m] = "stuck" => hist[m].bad
                           /\ exporter.pods # None /\ exporter.pods[m].stuck => hist[m].bad

\* Series are in the pool of the node as the exporter knows it, and nowhere else.
InPool ==
  /\ exporter.pc = "pull" => exporter.node # None
  /\ \A p \in Pools, m \in Mounts :
       gauge[p][m] # None => exporter.node # None /\ exporter.node.pool = p

\* What is published is a tick old at most.
Green == \A p \in Pools, m \in Mounts : LET g == gauge[p][m] IN
  g # None /\ g.fresh /\ g.valid =>
    /\ hist[m].good <= IF exporter.ran THEN Stale ELSE Stale + 1
    /\ g.rate # "zero"

Red == \A p \in Pools, m \in Mounts : LET g == gauge[p][m] IN
  g # None /\ g.fresh /\ ~g.valid => hist[m].bad

MonitorInv == MonitorTypeOK /\ Served /\ Pulled /\ Stuck /\ InPool /\ Green /\ Red

-----------------------------------------------------------------------------
(* Results. *)

\* Ages, from the one ahead of the clock to the oldest any test tells apart.
LEMMA Ages == Stale \in Nat /\ Stale >= 1 /\ Old = Stale + 2 /\ Old \in 0..Old /\ 0 \in 0..Old
                /\ Future..Old \subseteq Int /\ 0 \in Future..Old /\ Future \in Future..Old
BY WindowAssumption DEF Old, Future

\* A result stays sound when its mount has passed more recently, or failed, since.
LEMMA SoundKept ==
  ASSUME NEW r \in Result \cup {None}, NEW h \in HistType, NEW h2 \in HistType, SoundResult(r, h),
         h2.good <= h.good, h.bad => h2.bad
  PROVE  SoundResult(r, h2)
<1>1. h.good \in Int /\ h2.good \in Int  BY DEF HistType
<1>2. r # None => r.age \in Int  BY Ages DEF Result
<1> QED BY <1>1, <1>2 DEF SoundResult

\* What a check writes.
LEMMA VerdictType ==
  ASSUME NEW ok \in BOOLEAN, NEW rate \in {"none", "zero", "real"}
  PROVE  /\ Verdict(ok, rate) \in Result /\ Verdict(ok, rate).age = 0
         /\ Verdict(ok, rate).ok = ok /\ Verdict(ok, rate).rate = rate
BY Ages DEF Verdict, Result

\* The rate carried over from the result before.
LEMMA RateType ==
  ASSUME NEW r \in Result \cup {None}
  PROVE  Rate(r) \in {"none", "zero", "real"} /\ (Rate(r) = "zero" => r # None /\ r.rate = "zero")
BY DEF Rate, Result

\* What a verdict on m adds to the history.
LEMMA CheckedHist ==
  ASSUME MonitorTypeOK, NEW m \in Mounts, NEW ok \in BOOLEAN, Checked(m, ok)
  PROVE  /\ hist' \in [Mounts -> HistType]
         /\ \A k \in Mounts : hist'[k].good <= hist[k].good /\ (hist[k].bad => hist'[k].bad)
         /\ ok => hist'[m].good = 0
         /\ ~ok => hist'[m].bad
<1>1. hist \in [Mounts -> HistType]  BY DEF MonitorTypeOK
<1>2. \A k \in Mounts : hist[k].good \in Int /\ hist[k].good >= 0 /\ hist[k].good <= hist[k].good
  BY <1>1, Ages DEF HistType
<1>3. CASE ok
  <2>1. hist' = [hist EXCEPT ![m] = [hist[m] EXCEPT !.good = 0]]  BY <1>3 DEF Checked
  <2>2. [hist[m] EXCEPT !.good = 0] \in HistType  BY <1>1, Ages DEF HistType
  <2> QED BY <1>1, <1>2, <1>3, <2>1, <2>2 DEF HistType
<1>4. CASE ~ok
  <2>1. hist' = [hist EXCEPT ![m] = [hist[m] EXCEPT !.bad = TRUE]]  BY <1>4 DEF Checked
  <2>2. [hist[m] EXCEPT !.bad = TRUE] \in HistType  BY <1>1 DEF HistType
  <2> QED BY <1>1, <1>2, <1>4, <2>1, <2>2 DEF HistType
<1> QED BY <1>3, <1>4

-----------------------------------------------------------------------------
(* Steps of a probe, and of the node and its pods. *)

\* A step outside the exporter keeps what it knows, as the history only grows.
LEMMA OutsideKeeps ==
  ASSUME MonitorInv, UNCHANGED <<exporter, gauge>>, pod' \in [Mounts -> {"up", "stuck"}],
         node' \in NodeType, probe' \in [Mounts -> ProbeType], hist' \in [Mounts -> HistType],
         \A k \in Mounts : hist'[k].good <= hist[k].good /\ (hist[k].bad => hist'[k].bad),
         \A k \in Mounts : pod'[k] = "stuck" => hist'[k].bad,
         Served'
  PROVE  MonitorInv'
<1> USE DEF MonitorInv
<1>1. MonitorTypeOK'  BY DEF MonitorTypeOK
<1>2. Pulled'
  <2> SUFFICES ASSUME NEW k \in Mounts PROVE SoundResult(exporter.results[k], hist'[k])
    BY DEF Pulled
  <2>1. /\ exporter.results[k] \in Result \cup {None} /\ hist[k] \in HistType
        /\ hist'[k] \in HistType /\ SoundResult(exporter.results[k], hist[k])
    BY DEF MonitorTypeOK, ExporterType, Pulled
  <2> QED BY <2>1, SoundKept
<1>3. Stuck'  BY DEF Stuck
<1>4. InPool' /\ Red'  BY DEF InPool, Red
<1>5. Green'
  <2>1. \A k \in Mounts : hist[k].good \in Int /\ hist'[k].good \in Int
    BY DEF MonitorTypeOK, HistType
  <2> SUFFICES ASSUME NEW p \in Pools, NEW m \in Mounts, gauge[p][m] # None, gauge[p][m].fresh,
                      gauge[p][m].valid
               PROVE  /\ hist'[m].good <= IF exporter.ran THEN Stale ELSE Stale + 1
                      /\ gauge[p][m].rate # "zero"
    BY DEF Green
  <2> QED BY <2>1, Ages DEF Green
<1> QED BY <1>1, <1>2, <1>3, <1>4, <1>5

\* A probe writes a result of its own mount that is sound.
LEMMA ProbeKeeps ==
  ASSUME MonitorInv, NEW m \in Mounts, NEW p \in ProbeType, probe' = [probe EXCEPT ![m] = p],
         UNCHANGED <<exporter, gauge>>, pod' \in [Mounts -> {"up", "stuck"}],
         node' \in NodeType, hist' \in [Mounts -> HistType],
         \A k \in Mounts : hist'[k].good <= hist[k].good /\ (hist[k].bad => hist'[k].bad),
         \A k \in Mounts : pod'[k] = "stuck" => hist'[k].bad,
         SoundResult(p.result, hist'[m]),
         p.result # None /\ p.result.rate = "zero" => p.due
  PROVE  MonitorInv'
<1>0. MonitorTypeOK /\ Served  BY DEF MonitorInv
<1>1. /\ probe' \in [Mounts -> ProbeType] /\ probe'[m] = p
      /\ \A k \in Mounts \ {m} : probe'[k] = probe[k]
  BY <1>0 DEF MonitorTypeOK
<1>2. ASSUME NEW k \in Mounts, k # m
      PROVE  SoundResult(probe[k].result, hist'[k])
  <2>1. /\ probe[k].result \in Result \cup {None} /\ hist[k] \in HistType
        /\ hist'[k] \in HistType /\ SoundResult(probe[k].result, hist[k])
    BY <1>0 DEF MonitorTypeOK, ProbeType, Served
  <2> QED BY <2>1, SoundKept
<1>3. Served'  BY <1>0, <1>1, <1>2 DEF Served
<1> QED BY <1>1, <1>3, OutsideKeeps

\* What a proof about a step of a probe starts from.
LEMMA PassFacts ==
  ASSUME MonitorInv, NEW m \in Mounts
  PROVE  /\ MonitorTypeOK /\ probe[m] \in ProbeType /\ probe[m].result \in Result \cup {None}
         /\ probe[m].due \in BOOLEAN /\ SoundResult(probe[m].result, hist[m])
         /\ probe[m].result # None /\ probe[m].result.rate = "zero" => probe[m].due
         /\ pod \in [Mounts -> {"up", "stuck"}] /\ node \in NodeType
         /\ hist \in [Mounts -> HistType]
         /\ \A k \in Mounts : pod[k] = "stuck" => hist[k].bad
BY DEF MonitorInv, MonitorTypeOK, ProbeType, Served, Stuck

\* The probe's own step, which says `ok` of the mount.
LEMMA PublishedKeeps ==
  ASSUME MonitorInv, NEW m \in Mounts, NEW ok \in BOOLEAN, NEW r \in Result, NEW due \in BOOLEAN,
         Published(m, r, due), Checked(m, ok), UNCHANGED <<pod, node, exporter, gauge>>,
         r.ok = ok, ok => r.rate # "zero", r.rate = "zero" => due
  PROVE  MonitorInv'
<1> DEFINE p == [ran |-> TRUE, result |-> r, ready |-> TRUE, due |-> due]
<1>0. /\ MonitorTypeOK /\ pod \in [Mounts -> {"up", "stuck"}] /\ node \in NodeType
      /\ \A k \in Mounts : pod[k] = "stuck" => hist[k].bad
  BY PassFacts
<1>1. probe' = [probe EXCEPT ![m] = p] /\ p \in ProbeType /\ p.result = r /\ p.due = due
  BY DEF Published, ProbeType
<1> HIDE DEF p
<1>2. /\ hist' \in [Mounts -> HistType]
      /\ \A k \in Mounts : hist'[k].good <= hist[k].good /\ (hist[k].bad => hist'[k].bad)
      /\ ok => hist'[m].good = 0
      /\ ~ok => hist'[m].bad
  BY <1>0, CheckedHist
<1>3. SoundResult(p.result, hist'[m])
  <2>1. r.age \in 0..Stale => 0 <= r.age  BY Ages
  <2> QED BY <1>1, <1>2, <2>1 DEF SoundResult
<1> QED BY <1>0, <1>1, <1>2, <1>3, ProbeKeeps

\* A check that passes, carrying the rate over: never a zero one, as fio is due then.
LEMMA CheckPassesKeeps ==
  ASSUME MonitorInv, NEW m \in Mounts, CheckPasses(m)
  PROVE  MonitorInv'
<1> DEFINE r == Verdict(TRUE, Rate(probe[m].result))
<1>0. /\ probe[m].result \in Result \cup {None}
      /\ probe[m].result # None /\ probe[m].result.rate = "zero" => probe[m].due
  BY PassFacts
<1>1. PICK skew \in BOOLEAN :
        /\ ~probe[m].due /\ Checked(m, TRUE) /\ UNCHANGED <<pod, node, exporter, gauge>>
        /\ Published(m, IF skew THEN [r EXCEPT !.age = Future] ELSE r, FALSE)
  BY DEF CheckPasses, outside
<1>2. r \in Result /\ r.ok = TRUE /\ r.rate # "zero"
  BY <1>0, <1>1, RateType, VerdictType
<1> DEFINE v == IF skew THEN [r EXCEPT !.age = Future] ELSE r
<1> HIDE DEF r
<1>3. v \in Result /\ v.ok = TRUE /\ v.rate # "zero"
  BY <1>2, Ages DEF Result
<1> HIDE DEF v
<1> QED BY <1>1, <1>3, PublishedKeeps DEF v

\* A measurement.
LEMMA FioRunsKeeps ==
  ASSUME MonitorInv, NEW m \in Mounts, NEW ok \in BOOLEAN, FioRuns(m, ok)
  PROVE  MonitorInv'
<1>1. /\ Published(m, Measured(ok), ~ok) /\ Checked(m, ok)
      /\ UNCHANGED <<pod, node, exporter, gauge>>
  BY DEF FioRuns, outside
<1>2. Measured(ok) \in Result /\ Measured(ok).ok = ok /\ (Measured(ok).rate = "zero" <=> ~ok)
  BY VerdictType DEF Measured
<1>3. (~ok) \in BOOLEAN  OBVIOUS
<1> QED BY <1>1, <1>2, <1>3, PublishedKeeps

\* A check that fails or outlasts its deadline: a verdict either way.
LEMMA UnansweredKeeps ==
  ASSUME MonitorInv, NEW m \in Mounts, Unanswered(m)
  PROVE  MonitorInv'
<1>0. /\ probe[m].result \in Result \cup {None} /\ probe[m].due \in BOOLEAN
      /\ probe[m].result # None /\ probe[m].result.rate = "zero" => probe[m].due
  BY PassFacts
<1>1. /\ Published(m, timeout_result(m), probe[m].due) /\ Checked(m, FALSE)
      /\ UNCHANGED <<pod, node, exporter, gauge>>
  BY DEF Unanswered, outside
<1>2. /\ timeout_result(m) \in Result /\ timeout_result(m).ok = FALSE
      /\ timeout_result(m).rate = "zero" => probe[m].due
  BY <1>0, RateType, VerdictType DEF timeout_result
<1> QED BY <1>0, <1>1, <1>2, PublishedKeeps

\* A cycle without a verdict, a restart, and the time of fio.
LEMMA NoVerdictKeeps ==
  ASSUME MonitorInv, NEW m \in Mounts, CheckBreaks(m) \/ FioDue(m) \/ Restart(m)
  PROVE  MonitorInv'
<1>0. /\ MonitorTypeOK /\ probe[m] \in ProbeType /\ pod \in [Mounts -> {"up", "stuck"}]
      /\ node \in NodeType /\ hist \in [Mounts -> HistType]
      /\ SoundResult(probe[m].result, hist[m])
      /\ probe[m].result # None /\ probe[m].result.rate = "zero" => probe[m].due
      /\ \A k \in Mounts : pod[k] = "stuck" => hist[k].bad
  BY PassFacts
<1>1. UNCHANGED <<pod, node, exporter, gauge, hist>>
  BY DEF CheckBreaks, FioDue, Restart, outside
<1>2. \A k \in Mounts : hist[k].good <= hist[k].good  BY <1>0 DEF HistType
<1>3. ASSUME NEW p \in ProbeType, probe' = [probe EXCEPT ![m] = p], p.result = probe[m].result,
             p.due = probe[m].due \/ p.due = TRUE
      PROVE  MonitorInv'
  BY <1>0, <1>1, <1>2, <1>3, ProbeKeeps
<1>4. CASE CheckBreaks(m)
  <2> DEFINE p == [set_ready(probe[m], FALSE) EXCEPT !.ran = TRUE]
  <2>1. probe' = [probe EXCEPT ![m] = p]  BY <1>4 DEF CheckBreaks
  <2>2. p \in ProbeType /\ p.result = probe[m].result /\ p.due = probe[m].due
    BY <1>0 DEF ProbeType, set_ready
  <2> HIDE DEF p
  <2> QED BY <1>3, <2>1, <2>2
<1>5. CASE FioDue(m)
  <2> DEFINE p == [probe[m] EXCEPT !.due = TRUE]
  <2>1. probe' = [probe EXCEPT ![m] = p]  BY <1>5 DEF FioDue
  <2>2. p \in ProbeType /\ p.result = probe[m].result /\ p.due = TRUE
    BY <1>0 DEF ProbeType
  <2> HIDE DEF p
  <2> QED BY <1>3, <2>1, <2>2
<1>6. CASE Restart(m)
  <2> DEFINE p == Started(probe[m])
  <2>1. probe' = [probe EXCEPT ![m] = p]  BY <1>6 DEF Restart
  <2>2. p \in ProbeType /\ p.result = probe[m].result /\ p.due = probe[m].due
    BY <1>0 DEF ProbeType, Started, set_ready, Fresh
  <2> HIDE DEF p
  <2> QED BY <1>3, <2>1, <2>2
<1> QED BY <1>4, <1>5, <1>6

\* A pod that cannot mount, or can again.
LEMMA PodKeeps ==
  ASSUME MonitorInv, NEW m \in Mounts, PodSticks(m) \/ PodMounts(m)
  PROVE  MonitorInv'
<1>0. /\ MonitorTypeOK /\ pod \in [Mounts -> {"up", "stuck"}]
      /\ node \in NodeType /\ hist \in [Mounts -> HistType]
      /\ \A k \in Mounts : pod[k] = "stuck" => hist[k].bad
  BY PassFacts
<1>1. CASE PodSticks(m)
  <2> DEFINE p == [Fresh EXCEPT !.ran = TRUE]
  <2>1. /\ probe' = [probe EXCEPT ![m] = p] /\ pod' = [pod EXCEPT ![m] = "stuck"]
        /\ Checked(m, FALSE) /\ UNCHANGED <<node, exporter, gauge>>
    BY <1>1 DEF PodSticks
  <2>2. p \in ProbeType /\ p.result = None  BY DEF Fresh, ProbeType
  <2> HIDE DEF p
  <2>3. /\ hist' \in [Mounts -> HistType] /\ hist'[m].bad
        /\ \A k \in Mounts : hist'[k].good <= hist[k].good /\ (hist[k].bad => hist'[k].bad)
    BY <1>0, <2>1, CheckedHist
  <2>4. pod' \in [Mounts -> {"up", "stuck"}] /\ \A k \in Mounts : pod'[k] = "stuck" => hist'[k].bad
    BY <1>0, <2>1, <2>3
  <2>5. SoundResult(p.result, hist'[m])  BY <2>2 DEF SoundResult
  <2> QED BY <1>0, <2>1, <2>2, <2>3, <2>4, <2>5, ProbeKeeps
<1>2. CASE PodMounts(m)
  <2>1. /\ probe' = [probe EXCEPT ![m] = Fresh] /\ pod' = [pod EXCEPT ![m] = "up"]
        /\ UNCHANGED <<node, exporter, gauge, hist>>
    BY <1>2 DEF PodMounts
  <2>2. Fresh \in ProbeType /\ Fresh.result = None  BY DEF Fresh, ProbeType
  <2>3. \A k \in Mounts : hist'[k].good <= hist[k].good /\ (hist[k].bad => hist'[k].bad)
    BY <1>0, <2>1 DEF HistType
  <2>4. pod' \in [Mounts -> {"up", "stuck"}] /\ \A k \in Mounts : pod'[k] = "stuck" => hist'[k].bad
    BY <1>0, <2>1
  <2>5. SoundResult(Fresh.result, hist'[m])  BY <2>2 DEF SoundResult
  <2> QED BY <1>0, <2>1, <2>2, <2>3, <2>4, <2>5, ProbeKeeps
<1> QED BY <1>1, <1>2

\* The node and the mounts change unseen.
LEMMA ElseKeeps ==
  ASSUME MonitorInv, NodeChanges \/ (\E m \in Mounts : MountChanges(m)) \/ UNCHANGED monitorVars
  PROVE  MonitorInv'
<1>1. UNCHANGED <<pod, probe, exporter, gauge, hist>>
  BY DEF NodeChanges, MountChanges, monitorVars
<1>2. node' \in NodeType
  BY DEF MonitorInv, MonitorTypeOK, NodeType, NodeChanges, MountChanges, monitorVars
<1>3. \A k \in Mounts : hist'[k].good <= hist[k].good  BY <1>1 DEF MonitorInv, MonitorTypeOK, HistType
<1>4. Served' /\ Stuck  BY <1>1 DEF MonitorInv, Served
<1> QED BY <1>1, <1>2, <1>3, <1>4, OutsideKeeps DEF MonitorInv, MonitorTypeOK, Stuck

-----------------------------------------------------------------------------
(* The exporter's pass, and time. *)

\* The exporter pulls sound results and lists pods that are stuck.
LEMMA ListsKeeps ==
  ASSUME MonitorInv, ExporterLists
  PROVE  MonitorInv'
<1> USE DEF MonitorInv
<1>1. PICK new \in NodesSeen, pods \in PodsSeen :
        /\ exporter' = [exporter EXCEPT !.pc = "pull", !.node = new, !.pods = pods]
        /\ gauge' = IF new = exporter.node THEN gauge ELSE Moved(new)
  BY DEF ExporterLists
<1>2. UNCHANGED <<pod, node, probe, hist>>  BY DEF ExporterLists, outside
<1>3. new # None /\ new \in NodeType  BY DEF NodesSeen, MonitorTypeOK, ExporterType
<1>4. Pods \in PodsType
  <2>1. \A m \in Mounts : PodReady(m) \in BOOLEAN /\ (SetupFailed(m) /\ ~PodReady(m)) \in BOOLEAN
    BY DEF MonitorTypeOK, ProbeType, PodReady, SetupFailed
  <2> QED BY <2>1 DEF Pods, PodsType
<1>5. pods \in PodsType \cup {None}  BY <1>4 DEF PodsSeen, MonitorTypeOK, ExporterType
<1>6. \A m \in Mounts : Pods[m].stuck => pod[m] = "stuck"  BY DEF Pods, SetupFailed
<1>7. \A m \in Mounts : pods # None /\ pods[m].stuck => hist[m].bad
  <2> SUFFICES ASSUME NEW m \in Mounts, pods # None, pods[m].stuck PROVE hist[m].bad
    OBVIOUS
  <2>1. pods = Pods \/ pods = exporter.pods  BY DEF PodsSeen
  <2> QED BY <1>6, <2>1 DEF Stuck
<1>8. /\ exporter' \in ExporterType /\ exporter'.node = new /\ exporter'.pods = pods
      /\ exporter'.ran = exporter.ran /\ exporter'.results = exporter.results
  BY <1>1, <1>3, <1>5 DEF MonitorTypeOK, ExporterType
<1>9. gauge' \in [Pools -> [Mounts -> SeriesType \cup {None}]]
  BY <1>1 DEF MonitorTypeOK, Moved, Cleared
<1>10. \A p \in Pools, m \in Mounts :
         gauge'[p][m] # None => gauge'[p][m] = gauge[p][m] /\ new.pool = p
  <2>1. CASE new = exporter.node  BY <1>1, <2>1 DEF InPool
  <2>2. CASE new # exporter.node
    <3>1. \A p \in Pools : gauge'[p] = IF p = new.pool THEN gauge[p] ELSE Cleared
      BY <1>1, <2>2 DEF Moved
    <3> QED BY <3>1 DEF Cleared
  <2> QED BY <2>1, <2>2
<1>11. MonitorTypeOK'  BY <1>2, <1>8, <1>9 DEF MonitorTypeOK
<1>12. Served' /\ Pulled'  BY <1>2, <1>8 DEF Served, Pulled
<1>13. Stuck'  BY <1>2, <1>7, <1>8 DEF Stuck
<1>14. InPool'  BY <1>3, <1>8, <1>10 DEF InPool
<1>15. Green'
  <2> SUFFICES ASSUME NEW p \in Pools, NEW m \in Mounts, gauge'[p][m] # None,
                      gauge'[p][m].fresh, gauge'[p][m].valid
               PROVE  /\ hist'[m].good <= IF exporter'.ran THEN Stale ELSE Stale + 1
                      /\ gauge'[p][m].rate # "zero"
    BY DEF Green
  <2>1. gauge'[p][m] = gauge[p][m]  BY <1>10
  <2> QED BY <1>2, <1>8, <2>1 DEF Green
<1>16. Red'
  <2> SUFFICES ASSUME NEW p \in Pools, NEW m \in Mounts, gauge'[p][m] # None,
                      gauge'[p][m].fresh, ~gauge'[p][m].valid
               PROVE  hist'[m].bad
    BY DEF Red
  <2>1. gauge'[p][m] = gauge[p][m]  BY <1>10
  <2> QED BY <1>2, <2>1 DEF Red
<1> QED BY <1>11, <1>12, <1>13, <1>14, <1>15, <1>16

\* What a mount is shown as, from a sound result and a true listing.
LEMMA ShownTrue ==
  ASSUME NEW m \in Mounts, NEW up \in BOOLEAN \cup {None}, NEW stuck \in BOOLEAN,
         NEW working \in BOOLEAN, NEW r \in Result \cup {None}, NEW h \in HistType,
         SoundResult(r, h), stuck => h.bad
  PROVE  LET g == Shown(m, up, stuck, working, r) IN
           /\ g \in SeriesType
           /\ g.fresh /\ g.valid => h.good <= Stale /\ g.rate # "zero"
           /\ g.fresh /\ ~g.valid => h.bad
<1> DEFINE g == Shown(m, up, stuck, working, r)
<1>1. CASE stuck /\ working
  <2>1. g = [up |-> up, valid |-> FALSE, fresh |-> TRUE, rate |-> "zero"]
    BY <1>1 DEF Shown, Sentinels, Series
  <2>2. g \in SeriesType /\ g.valid = FALSE  BY <2>1 DEF SeriesType
  <2> HIDE DEF g
  <2>3. /\ g \in SeriesType
        /\ g.fresh /\ g.valid => h.good <= Stale /\ g.rate # "zero"
        /\ g.fresh /\ ~g.valid => h.bad
    BY <1>1, <2>2
  <2> QED BY <2>3 DEF g
<1>2. CASE ~(stuck /\ working) /\ (r = None \/ TooOld(r))
  <2>1. g = [up |-> up, valid |-> FALSE, fresh |-> FALSE, rate |-> "zero"]
    BY <1>2 DEF Shown, Sentinels, Series
  <2>2. g \in SeriesType /\ g.fresh = FALSE  BY <2>1 DEF SeriesType
  <2> HIDE DEF g
  <2>3. /\ g \in SeriesType
        /\ g.fresh /\ g.valid => h.good <= Stale /\ g.rate # "zero"
        /\ g.fresh /\ ~g.valid => h.bad
    BY <2>2
  <2> QED BY <2>3 DEF g
<1>3. CASE ~(stuck /\ working) /\ r # None /\ ~TooOld(r)
  <2>1. r \in Result /\ r.ok \in BOOLEAN /\ r.age \in Future..Old /\ r.rate \in {"none", "zero", "real"}
    BY <1>3 DEF Result
  <2>2. g = [up |-> up, valid |-> r.ok, fresh |-> TRUE,
             rate |-> IF r.ok THEN r.rate ELSE "zero"]
    BY <1>3 DEF Shown, Series
  <2>3. r.ok => r.age \in 0..Stale
    <3>1. r.ok => r.age # Future /\ ~(r.age > Stale)  BY <1>3 DEF TooOld
    <3> QED BY <2>1, <3>1, Ages DEF Future
  <2>4. r.ok => h.good <= Stale /\ r.rate # "zero"
    <3>1. r.ok => h.good <= r.age /\ r.rate # "zero"  BY <1>3, <2>3 DEF SoundResult
    <3>2. h.good \in Int  BY DEF HistType
    <3> QED BY <2>3, <3>1, <3>2, Ages
  <2>5. ~r.ok => h.bad  BY <1>3 DEF SoundResult
  <2>6. g \in SeriesType  BY <2>1, <2>2 DEF SeriesType
  <2>7. g.valid = r.ok /\ g.fresh = TRUE /\ (r.ok => g.rate = r.rate)  BY <2>2
  <2> HIDE DEF g
  <2>8. /\ g \in SeriesType
        /\ g.fresh /\ g.valid => h.good <= Stale /\ g.rate # "zero"
        /\ g.fresh /\ ~g.valid => h.bad
    BY <2>4, <2>5, <2>6, <2>7
  <2> QED BY <2>8 DEF g
<1> QED BY <1>1, <1>2, <1>3

\* The exporter shows what it pulled, in the one pool it knows of.
LEMMA PublishesKeeps ==
  ASSUME MonitorInv, ExporterPublishes
  PROVE  MonitorInv'
<1> USE DEF MonitorInv
<1> DEFINE pods == exporter.pods
           able == {m \in Mounts : pods # None /\ exporter.node.ready
                                     /\ ~pods[m].stuck /\ Serves(m)}
           up(m, got) == IF pods = None THEN None ELSE pods[m].ready /\ m \in got
           stuck(m) == pods # None /\ pods[m].stuck
           working(got) == \E m \in got : pods[m].ready
           row(results, got) ==
             [m \in Mounts |-> IF ~exporter.node.ready THEN None
                ELSE Shown(m, up(m, got), stuck(m), working(got), results[m])]
<1>0. UNCHANGED <<pod, node, probe>>  BY DEF ExporterPublishes, outside
<1>1. PICK got \in SUBSET able :
        LET results == [m \in Mounts |-> Kept(m, got)] IN
        /\ exporter' = [exporter EXCEPT !.pc = "sleep", !.ran = TRUE, !.results = results]
        /\ hist' = [m \in Mounts |-> IF m \in got /\ results[m].ok
                                      THEN [hist[m] EXCEPT !.bad = FALSE] ELSE hist[m]]
        /\ gauge' = [gauge EXCEPT ![exporter.node.pool] = row(results, got)]
  BY Zenon DEF ExporterPublishes
<1> DEFINE results == [m \in Mounts |-> Kept(m, got)]
<1>2. /\ exporter' = [exporter EXCEPT !.pc = "sleep", !.ran = TRUE, !.results = results]
      /\ hist' = [m \in Mounts |-> IF m \in got /\ results[m].ok
                                    THEN [hist[m] EXCEPT !.bad = FALSE] ELSE hist[m]]
      /\ gauge' = [gauge EXCEPT ![exporter.node.pool] = row(results, got)]
  BY <1>1
<1>3. exporter.node \in NodeType /\ exporter.node # None /\ exporter.pc = "pull"
  BY DEF ExporterPublishes, InPool, MonitorTypeOK, ExporterType
<1>4. pods \in PodsType \cup {None}  BY DEF MonitorTypeOK, ExporterType
<1>5. \A m \in got : m \in Mounts /\ pod[m] = "up" /\ probe[m].result # None /\ ~stuck(m)
  BY DEF Serves
<1>6. results \in [Mounts -> Result \cup {None}] /\ \A m \in got : results[m] = probe[m].result
  BY <1>5 DEF MonitorTypeOK, ProbeType, ExporterType, Kept
<1>7. \A m \in Mounts \ got : results[m] = exporter.results[m]  BY DEF Kept
<1> HIDE DEF results
<1>8. /\ exporter' \in ExporterType /\ exporter'.node = exporter.node /\ exporter'.pods = pods
      /\ exporter'.ran = TRUE /\ exporter'.results = results /\ exporter'.pc = "sleep"
  BY <1>2, <1>6 DEF MonitorTypeOK, ExporterType
<1>9. /\ hist' \in [Mounts -> HistType]
      /\ \A m \in Mounts : hist'[m].good = hist[m].good
      /\ \A m \in Mounts : hist[m].bad /\ ~(m \in got /\ results[m].ok) => hist'[m].bad
  <2>1. ASSUME NEW m \in Mounts
        PROVE  LET h == IF m \in got /\ results[m].ok
                          THEN [hist[m] EXCEPT !.bad = FALSE] ELSE hist[m] IN
               /\ h \in HistType /\ h.good = hist[m].good
               /\ hist[m].bad /\ ~(m \in got /\ results[m].ok) => h.bad
    BY DEF MonitorTypeOK, HistType
  <2> QED BY <1>2, <2>1
<1>10. ASSUME NEW m \in Mounts
       PROVE  SoundResult(probe[m].result, hist'[m]) /\ SoundResult(results[m], hist'[m])
  <2>1. /\ probe[m].result \in Result \cup {None} /\ results[m] \in Result \cup {None}
        /\ SoundResult(probe[m].result, hist[m]) /\ SoundResult(exporter.results[m], hist[m])
    BY <1>6 DEF Served, Pulled, MonitorTypeOK, ProbeType
  <2>2. CASE m \in got /\ results[m].ok
    <3>1. results[m] = probe[m].result /\ probe[m].result # None  BY <1>5, <1>6, <2>2
    <3> QED BY <1>9, <2>1, <2>2, <3>1 DEF SoundResult
  <2>3. CASE ~(m \in got /\ results[m].ok)
    <3>1. SoundResult(results[m], hist[m])  BY <1>6, <1>7, <2>1
    <3> QED BY <1>9, <2>1, <2>3, <3>1 DEF SoundResult
  <2> QED BY <2>2, <2>3
<1>11. ASSUME NEW m \in Mounts
       PROVE  /\ pod[m] = "stuck" => hist'[m].bad
              /\ stuck(m) => hist'[m].bad
  BY <1>5, <1>9 DEF Stuck
<1>12. ASSUME NEW m \in Mounts
       PROVE  LET g == row(results, got)[m] IN
              /\ g \in SeriesType \cup {None}
              /\ g # None /\ g.fresh /\ g.valid => hist'[m].good <= Stale /\ g.rate # "zero"
              /\ g # None /\ g.fresh /\ ~g.valid => hist'[m].bad
  <2>1. CASE ~exporter.node.ready  BY <2>1
  <2>2. CASE exporter.node.ready
    <3> DEFINE u == up(m, got)
               k == stuck(m)
               w == working(got)
    <3>1. u \in BOOLEAN \cup {None}  BY <1>4 DEF PodsType
    <3>2. k \in BOOLEAN  BY <1>4 DEF PodsType
    <3>3. w \in BOOLEAN  OBVIOUS
    <3>4. k => hist'[m].bad  BY <1>11
    <3>5. row(results, got)[m] = Shown(m, u, k, w, results[m])  BY <2>2
    <3> HIDE DEF u, k, w
    <3>6. hist'[m] \in HistType /\ results[m] \in Result \cup {None}  BY <1>6, <1>9
    <3> DEFINE g == Shown(m, u, k, w, results[m])
               h == hist'[m]
    <3>7. h \in HistType /\ SoundResult(results[m], h) /\ (k => h.bad)  BY <1>10, <3>4, <3>6
    <3> HIDE DEF h
    <3>8. /\ g \in SeriesType
          /\ g.fresh /\ g.valid => h.good <= Stale /\ g.rate # "zero"
          /\ g.fresh /\ ~g.valid => h.bad
      BY <3>1, <3>2, <3>3, <3>6, <3>7, ShownTrue
    <3>9. row(results, got)[m] = g  BY <3>5
    <3> HIDE DEF g, row
    <3> QED BY <3>8, <3>9 DEF h
  <2> QED BY <2>1, <2>2
<1> DEFINE shown == row(results, got)
<1>13. shown \in [Mounts -> SeriesType \cup {None}]  BY <1>12
<1>14. \A m \in Mounts : /\ shown[m] # None /\ shown[m].fresh /\ shown[m].valid
                              => hist'[m].good <= Stale /\ shown[m].rate # "zero"
                         /\ shown[m] # None /\ shown[m].fresh /\ ~shown[m].valid => hist'[m].bad
  BY <1>12
<1>15. gauge' = [gauge EXCEPT ![exporter.node.pool] = shown]  BY <1>2
<1> HIDE DEF shown, row, able, up, stuck, working
<1>16. exporter.node.pool \in Pools  BY <1>3 DEF NodeType
<1>17. /\ gauge' \in [Pools -> [Mounts -> SeriesType \cup {None}]]
       /\ gauge'[exporter.node.pool] = shown
       /\ \A p \in Pools \ {exporter.node.pool} : gauge'[p] = gauge[p]
  BY <1>13, <1>15, <1>16 DEF MonitorTypeOK
<1>18. \A p \in Pools, m \in Mounts :
         gauge'[p][m] # None => p = exporter.node.pool /\ gauge'[p][m] = shown[m]
  BY <1>16, <1>17 DEF InPool
<1>19. MonitorTypeOK'  BY <1>0, <1>8, <1>9, <1>17 DEF MonitorTypeOK
<1>20. Served'  BY <1>0, <1>10 DEF Served
<1>21. Pulled'  BY <1>8, <1>10 DEF Pulled
<1>22. Stuck'  BY <1>0, <1>8, <1>11 DEF Stuck, stuck
<1>23. InPool'  BY <1>3, <1>8, <1>18 DEF InPool
<1>24. Green'
  <2> SUFFICES ASSUME NEW p \in Pools, NEW m \in Mounts, gauge'[p][m] # None,
                      gauge'[p][m].fresh, gauge'[p][m].valid
               PROVE  /\ hist'[m].good <= IF exporter'.ran THEN Stale ELSE Stale + 1
                      /\ gauge'[p][m].rate # "zero"
    BY DEF Green
  <2>1. gauge'[p][m] = shown[m]  BY <1>18
  <2> QED BY <1>8, <1>14, <2>1
<1>25. Red'
  <2> SUFFICES ASSUME NEW p \in Pools, NEW m \in Mounts, gauge'[p][m] # None,
                      gauge'[p][m].fresh, ~gauge'[p][m].valid
               PROVE  hist'[m].bad
    BY DEF Red
  <2>1. gauge'[p][m] = shown[m]  BY <1>18
  <2> QED BY <1>14, <2>1
<1> QED BY <1>19, <1>20, <1>21, <1>22, <1>23, <1>24, <1>25

\* A tick ages what is kept as it ages the history.
LEMMA OlderSound ==
  ASSUME NEW r \in Result \cup {None}, NEW h \in HistType, NEW h2 \in HistType, SoundResult(r, h),
         h2.good = (IF h.good < Old THEN h.good + 1 ELSE Old), h.bad => h2.bad
  PROVE  /\ Older(r) \in Result \cup {None} /\ SoundResult(Older(r), h2)
         /\ Older(r) # None => r # None /\ Older(r).rate = r.rate
<1>1. CASE r # None /\ r.age \in 0..Stale
  <2> DEFINE n == r.age + 1
             o == Older(r)
  <2>1. n \in Future..Old  BY <1>1, Ages DEF Future
  <2>2. n \in 0..Stale => r.age \in 0..Stale /\ n = r.age + 1  BY <1>1
  <2>3. r \in Result /\ o = [r EXCEPT !.age = n]  BY <1>1 DEF Older
  <2>4. r.age \in Int /\ h.good \in Int /\ h.good <= Old  BY <1>1, Ages DEF HistType
  <2> HIDE DEF n, o
  <2>5. o \in Result /\ o.age = n /\ o.ok = r.ok /\ o.rate = r.rate
    BY <2>1, <2>3 DEF Result
  <2>6. r.ok => h.good <= r.age  BY <1>1 DEF SoundResult
  <2>7. r.ok => h2.good <= n  BY <2>4, <2>6, Ages DEF n
  <2>8. SoundResult(o, h2)  BY <1>1, <2>5, <2>7 DEF SoundResult
  <2> QED BY <1>1, <2>5, <2>8 DEF o
<1>2. CASE ~(r # None /\ r.age \in 0..Stale)
  <2>1. Older(r) = r  BY <1>2 DEF Older
  <2> QED BY <1>2, <2>1 DEF SoundResult
<1> QED BY <1>1, <1>2

\* A tick: what is shown green is one tick older, which the window allows after a pass.
LEMMA TickKeeps ==
  ASSUME MonitorInv, Tick
  PROVE  MonitorInv'
<1> USE DEF MonitorInv
<1>0. UNCHANGED <<pod, node, gauge>> /\ exporter.ran /\ exporter.pc = "sleep"
  BY DEF Tick, outside
<1>1. /\ probe' = [m \in Mounts |-> [probe[m] EXCEPT !.ran = (pod[m] = "stuck"),
                                                     !.result = Older(probe[m].result)]]
      /\ exporter' = [exporter EXCEPT !.ran = FALSE,
                        !.results = [m \in Mounts |-> Older(exporter.results[m])]]
      /\ hist' = [m \in Mounts |-> [hist[m] EXCEPT !.good = IF hist[m].good < Old
                                                             THEN hist[m].good + 1 ELSE Old]]
  BY DEF Tick
<1>2. /\ hist' \in [Mounts -> HistType]
      /\ \A m \in Mounts : /\ hist'[m].good = (IF hist[m].good < Old THEN hist[m].good + 1 ELSE Old)
                           /\ hist'[m].bad = hist[m].bad
  <2>1. ASSUME NEW m \in Mounts
        PROVE  (IF hist[m].good < Old THEN hist[m].good + 1 ELSE Old) \in 0..Old
    BY Ages DEF MonitorTypeOK, HistType
  <2> QED BY <1>1, <2>1 DEF MonitorTypeOK, HistType
<1>3. ASSUME NEW m \in Mounts
      PROVE  /\ Older(probe[m].result) \in Result \cup {None}
             /\ SoundResult(Older(probe[m].result), hist'[m])
             /\ Older(probe[m].result) # None => /\ probe[m].result # None
                                                 /\ Older(probe[m].result).rate = probe[m].result.rate
  <2>1. /\ probe[m].result \in Result \cup {None} /\ hist[m] \in HistType
        /\ hist'[m] \in HistType /\ SoundResult(probe[m].result, hist[m])
    BY <1>2 DEF MonitorTypeOK, ProbeType, Served
  <2> QED BY <1>2, <2>1, OlderSound
<1>4. ASSUME NEW m \in Mounts
      PROVE  /\ Older(exporter.results[m]) \in Result \cup {None}
             /\ SoundResult(Older(exporter.results[m]), hist'[m])
  <2>1. /\ exporter.results[m] \in Result \cup {None} /\ hist[m] \in HistType
        /\ hist'[m] \in HistType /\ SoundResult(exporter.results[m], hist[m])
    BY <1>2 DEF MonitorTypeOK, ExporterType, Pulled
  <2> QED BY <1>2, <2>1, OlderSound
<1>5. /\ probe' \in [Mounts -> ProbeType]
      /\ \A m \in Mounts : probe'[m].result = Older(probe[m].result) /\ probe'[m].due = probe[m].due
  <2>1. ASSUME NEW m \in Mounts
        PROVE  /\ probe'[m] \in ProbeType
               /\ probe'[m].result = Older(probe[m].result) /\ probe'[m].due = probe[m].due
    <3> DEFINE b == pod[m] = "stuck"
               o == Older(probe[m].result)
    <3>1. b \in BOOLEAN /\ o \in Result \cup {None}  BY <1>3
    <3>2. probe'[m] = [probe[m] EXCEPT !.ran = b, !.result = o]  BY <1>1
    <3>3. probe[m] \in ProbeType  BY DEF MonitorTypeOK
    <3> HIDE DEF b, o
    <3>4. probe'[m] \in ProbeType /\ probe'[m].result = o /\ probe'[m].due = probe[m].due
      BY <3>1, <3>2, <3>3 DEF ProbeType
    <3> QED BY <3>4 DEF o
  <2> QED BY <1>1, <2>1
<1>6. /\ exporter' \in ExporterType /\ exporter'.ran = FALSE /\ exporter'.node = exporter.node
      /\ exporter'.pods = exporter.pods /\ exporter'.pc = exporter.pc
      /\ \A m \in Mounts : exporter'.results[m] = Older(exporter.results[m])
  <2> DEFINE rs == [m \in Mounts |-> Older(exporter.results[m])]
  <2>1. rs \in [Mounts -> Result \cup {None}]  BY <1>4
  <2>2. \A m \in Mounts : rs[m] = Older(exporter.results[m])  OBVIOUS
  <2>3. exporter' = [exporter EXCEPT !.ran = FALSE, !.results = rs]  BY <1>1
  <2> HIDE DEF rs
  <2> QED BY <2>1, <2>2, <2>3 DEF MonitorTypeOK, ExporterType
<1>7. MonitorTypeOK'  BY <1>0, <1>2, <1>5, <1>6 DEF MonitorTypeOK
<1>8. Served'  BY <1>3, <1>5 DEF Served
<1>9. Pulled'  BY <1>4, <1>6 DEF Pulled
<1>10. Stuck'  BY <1>0, <1>2, <1>6 DEF Stuck
<1>11. InPool'  BY <1>0, <1>6 DEF InPool
<1>12. Red'  BY <1>0, <1>2 DEF Red
<1>13. Green'
  <2> SUFFICES ASSUME NEW p \in Pools, NEW m \in Mounts, gauge[p][m] # None,
                      gauge[p][m].fresh, gauge[p][m].valid
               PROVE  hist'[m].good <= Stale + 1 /\ gauge[p][m].rate # "zero"
    BY <1>0, <1>6 DEF Green
  <2>1. hist[m].good <= Stale /\ gauge[p][m].rate # "zero"  BY <1>0 DEF Green
  <2>2. hist[m].good \in Int  BY DEF MonitorTypeOK, HistType
  <2> QED BY <1>2, <2>1, <2>2, Ages
<1> QED BY <1>7, <1>8, <1>9, <1>10, <1>11, <1>12, <1>13

-----------------------------------------------------------------------------
(* The theorems. *)

\* The invariant holds at the start.
LEMMA MonitorInitInv == MonitorInit => MonitorInv
<1> SUFFICES ASSUME MonitorInit PROVE MonitorInv  OBVIOUS
<1>1. MonitorTypeOK
  <2>1. Fresh \in ProbeType  BY DEF Fresh, ProbeType
  <2>2. [good |-> Old, bad |-> FALSE] \in HistType  BY Ages DEF HistType
  <2> QED BY <2>1, <2>2 DEF MonitorInit, MonitorTypeOK, NodeType, ExporterType, Pools
<1>2. \A m \in Mounts : probe[m].result = None /\ exporter.results[m] = None  BY DEF MonitorInit, Fresh
<1>3. Served /\ Pulled  BY <1>2 DEF Served, Pulled, SoundResult
<1>4. Stuck /\ InPool /\ Green /\ Red  BY DEF MonitorInit, Stuck, InPool, Green, Red
<1> QED BY <1>1, <1>3, <1>4 DEF MonitorInv

\* Every step keeps the invariant: one case per action.
LEMMA MonitorStepInv == MonitorInv /\ [MonitorNext]_monitorVars => MonitorInv'
<1> SUFFICES ASSUME MonitorInv, [MonitorNext]_monitorVars PROVE MonitorInv'  OBVIOUS
<1>1. ASSUME NEW m \in Mounts, ProbeStep(m) PROVE MonitorInv'
  BY <1>1, CheckPassesKeeps, FioRunsKeeps, UnansweredKeeps, NoVerdictKeeps
     DEF ProbeStep, CheckFails, DeadlinePasses
<1>2. ASSUME NEW m \in Mounts, FioDue(m) \/ Restart(m) PROVE MonitorInv'  BY <1>2, NoVerdictKeeps
<1>3. ASSUME NEW m \in Mounts, MountChanges(m) PROVE MonitorInv'  BY <1>3, ElseKeeps
<1>4. ASSUME NEW m \in Mounts, PodSticks(m) \/ PodMounts(m) PROVE MonitorInv'  BY <1>4, PodKeeps
<1>5. CASE Export  BY <1>5, ListsKeeps, PublishesKeeps DEF Export
<1>6. CASE NodeChanges \/ UNCHANGED monitorVars  BY <1>6, ElseKeeps
<1>7. CASE Tick  BY <1>7, TickKeeps
<1> QED BY <1>1, <1>2, <1>3, <1>4, <1>5, <1>6, <1>7 DEF MonitorNext

\* ... and so it always holds.
LEMMA MonitorInvHolds == MonitorSpec => []MonitorInv
BY MonitorInitInv, MonitorStepInv, PTL DEF MonitorSpec

\* A mount that node_healthcheck.py shows good, in whatever pool, passed a check within
\* RESULT_STALE_WINDOW_S and a tick, with a rate that was measured, for any mounts, window
\* and number of faults.
THEOREM GreenHolds == MonitorSpec => []GreenIsTrue
<1>1. MonitorInv => GreenIsTrue
  <2> SUFFICES ASSUME MonitorInv, NEW m \in Mounts, NEW p \in Pools, gauge[p][m] # None,
                      gauge[p][m].fresh, gauge[p][m].valid
               PROVE  hist[m].good <= Stale + 1 /\ gauge[p][m].rate # "zero"
    BY DEF GreenIsTrue
  <2>1. hist[m].good \in Int  BY DEF MonitorInv, MonitorTypeOK, HistType
  <2> QED BY <2>1, Ages DEF MonitorInv, Green
<1> QED BY <1>1, MonitorInvHolds, PTL

\* A mount that node_healthcheck.py shows bad failed a check, or could not be mounted, since
\* the last success that was pulled, for any mounts, window and number of faults.
THEOREM RedHolds == MonitorSpec => []RedIsAVerdict
<1>1. MonitorInv => RedIsAVerdict  BY DEF MonitorInv, Red, RedIsAVerdict, ShownBad
<1> QED BY <1>1, MonitorInvHolds, PTL
=============================================================================

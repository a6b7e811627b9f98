------------------------- MODULE RayClustersProofs -------------------------
(***************************************************************************)
(* Theorems about RayClusters, for any users, clients, shapes and budgets, *)
(* any timeouts and any number of calls and faults.                        *)
(***************************************************************************)
EXTENDS RayClusters, FiniteSetTheorems, WellFoundedInduction, TLAPS

-----------------------------------------------------------------------------
(* Sums over users, in whichever order they are taken. *)

\* Of natural numbers one is the least.
LEMMA LeastOf ==
  ASSUME NEW S, S \subseteq Nat, S # {}
  PROVE  \E i \in S : \A j \in S : i <= j
<1>1. PICK i \in S : \A j \in S : ~(<<j, i>> \in OpToRel(<, Nat))
  BY NatLessThanWellFounded, WFMin
<1>2. ASSUME NEW j \in S PROVE i <= j
  <2>1. ~(<<j, i>> \in OpToRel(<, Nat))  BY <1>1
  <2>2. ~(j < i)  BY <2>1, Zenon DEF OpToRel
  <2> QED BY <2>2
<1> QED BY <1>2

\* What holds of a set of users as soon as it holds of all that lack one of them holds of all.
LEMMA ByUsers ==
  ASSUME NEW D, \A S \in SUBSET Users : (\A u \in S : S \ {u} \in D) => S \in D
  PROVE  SUBSET Users \subseteq D
<1> DEFINE bad == {S \in SUBSET Users : S \notin D}
<1> SUFFICES ASSUME bad # {} PROVE FALSE  OBVIOUS
<1>1. \A S \in SUBSET Users : IsFiniteSet(S) /\ Cardinality(S) \in Nat
  BY NamesAssumption, FS_Subset, FS_CardinalityType
<1> DEFINE sizes == {Cardinality(S) : S \in bad}
<1>2. sizes \subseteq Nat /\ sizes # {}  BY <1>1
<1>3. PICK n \in sizes : \A m \in sizes : n <= m  BY <1>2, LeastOf
<1>4. PICK S \in bad : Cardinality(S) = n  BY <1>3
<1>5. ASSUME NEW u \in S PROVE S \ {u} \in D
  <2>0. IsFiniteSet(S)  BY <1>1, <1>4
  <2>1. Cardinality(S \ {u}) = Cardinality(S) - 1  BY <1>5, <2>0, FS_RemoveElement
  <2>2. S \ {u} \in SUBSET Users  BY <1>4
  <2>3. S \ {u} \notin bad
    <3> SUFFICES ASSUME S \ {u} \in bad PROVE FALSE  OBVIOUS
    <3>1. n <= Cardinality(S \ {u})  BY <1>3
    <3> QED BY <1>1, <1>4, <2>1, <3>1
  <2> QED BY <2>2, <2>3
<1> QED BY <1>4, <1>5

\* g sums V over the sets of users within D.
Sums(V, D, g) ==
  /\ g \in [SUBSET D -> Nat]
  /\ g[{}] = 0
  /\ \A S \in SUBSET D : \A u \in S : g[S] = V[u] + g[S \ {u}]

\* There is such a sum.
LEMMA SumsExist == ASSUME NEW V \in [Users -> Nat] PROVE \E g : Sums(V, Users, g)
<1> DEFINE D == {S \in SUBSET Users : \E g : Sums(V, S, g)}
<1>1. ASSUME NEW S \in SUBSET Users, \A u \in S : S \ {u} \in D PROVE S \in D
  <2>1. CASE S = {}
    <3>1. Sums(V, S, [T \in SUBSET S |-> 0])  BY <2>1 DEF Sums
    <3> QED BY <3>1
  <2>2. CASE S # {}
    <3>1. PICK u \in S : TRUE  BY <2>2
    <3>2. PICK g : Sums(V, S \ {u}, g)  BY <1>1, <3>1
    <3> DEFINE h == [T \in SUBSET S |-> IF u \in T THEN V[u] + g[T \ {u}] ELSE g[T]]
    <3>3. \A T \in SUBSET S : T \ {u} \in SUBSET (S \ {u}) /\ (u \notin T => T \in SUBSET (S \ {u}))
      OBVIOUS
    <3>4. g \in [SUBSET (S \ {u}) -> Nat] /\ g[{}] = 0 /\ V[u] \in Nat
      BY <3>1, <3>2 DEF Sums
    <3>5. h \in [SUBSET S -> Nat] /\ h[{}] = 0  BY <3>3, <3>4
    <3>6. ASSUME NEW T \in SUBSET S, NEW x \in T PROVE h[T] = V[x] + h[T \ {x}]
      <4>1. T \ {x} \in SUBSET S /\ V[x] \in Nat  BY <3>6
      <4>2. CASE x = u  BY <3>6, <4>1, <4>2
      <4>3. CASE x # u /\ u \notin T
        <5>1. g[T] = V[x] + g[T \ {x}]  BY <3>2, <3>3, <3>6, <4>3 DEF Sums
        <5> QED BY <4>1, <4>3, <5>1
      <4>4. CASE x # u /\ u \in T
        <5>1. (T \ {u}) \ {x} = (T \ {x}) \ {u}  OBVIOUS
        <5>2. g[T \ {u}] = V[x] + g[(T \ {u}) \ {x}]
          BY <3>2, <3>3, <3>6, <4>4 DEF Sums
        <5>3. h[T] = V[u] + g[T \ {u}] /\ h[T \ {x}] = V[u] + g[(T \ {x}) \ {u}]
          BY <4>1, <4>4
        <5>4. g[(T \ {x}) \ {u}] \in Nat  BY <3>3, <3>4, <4>1
        <5> HIDE DEF h
        <5> QED BY <3>4, <4>1, <5>1, <5>2, <5>3, <5>4
      <4> QED BY <4>2, <4>3, <4>4
    <3> HIDE DEF h
    <3>7. Sums(V, S, h)  BY <3>5, <3>6 DEF Sums
    <3> QED BY <3>7
  <2> QED BY <2>1, <2>2
<1> HIDE DEF D
<1>2. SUBSET Users \subseteq D  BY <1>1, ByUsers
<1>3. Users \in D  BY <1>2
<1> QED BY <1>3 DEF D

\* The sum of V over S.
Total(V, S) == (CHOOSE g : Sums(V, Users, g))[S]

\* It takes one user more at a time, whichever.
LEMMA TotalIs ==
  ASSUME NEW V \in [Users -> Nat], NEW S \in SUBSET Users
  PROVE  /\ Total(V, S) \in Nat /\ Total(V, {}) = 0
         /\ \A u \in S : Total(V, S) = V[u] + Total(V, S \ {u})
<1> DEFINE g == CHOOSE g : Sums(V, Users, g)
<1>1. Sums(V, Users, g)  BY SumsExist
<1> QED BY <1>1 DEF Sums, Total

\* More of each is more in all.
LEMMA TotalGrows ==
  ASSUME NEW V \in [Users -> Nat], NEW W \in [Users -> Nat], NEW S \in SUBSET Users,
         \A u \in S : V[u] <= W[u]
  PROVE  Total(V, S) <= Total(W, S)
<1> DEFINE D == {T \in SUBSET Users : T \subseteq S => Total(V, T) <= Total(W, T)}
<1>1. ASSUME NEW T \in SUBSET Users, \A u \in T : T \ {u} \in D PROVE T \in D
  <2> SUFFICES ASSUME T \subseteq S PROVE Total(V, T) <= Total(W, T)  OBVIOUS
  <2>1. CASE T = {}
    <3>1. Total(V, T) = 0 /\ Total(W, T) = 0  BY <2>1, TotalIs
    <3> QED BY <3>1
  <2>2. CASE T # {}
    <3>1. PICK u \in T : TRUE  BY <2>2
    <3>2. Total(V, T \ {u}) <= Total(W, T \ {u})  BY <1>1, <3>1
    <3>3. Total(V, T) = V[u] + Total(V, T \ {u}) /\ Total(W, T) = W[u] + Total(W, T \ {u})
      BY <3>1, TotalIs
    <3>4. V[u] <= W[u] /\ V[u] \in Nat /\ W[u] \in Nat  BY <3>1
    <3>5. Total(V, T \ {u}) \in Nat /\ Total(W, T \ {u}) \in Nat  BY TotalIs
    <3> QED BY <3>2, <3>3, <3>4, <3>5
  <2> QED BY <2>1, <2>2
<1> HIDE DEF D
<1>2. S \in D  BY <1>1, ByUsers
<1> QED BY <1>2 DEF D

\* The GPUs of r that u holds by cs.
Holds(cs, r) == [u \in Users |-> IF cs[u] = None THEN 0 ELSE cs[u][r]]

\* Held takes users one at a time, in an order of its own.
LEMMA HeldIs ==
  ASSUME NEW cs, NEW r, Holds(cs, r) \in [Users -> Nat]
  PROVE  Held(cs, r) = Total(Holds(cs, r), Users)
<1> DEFINE V == Holds(cs, r)
           F(g) == [S \in SUBSET Users |->
                      IF S = {} THEN 0
                      ELSE LET u == CHOOSE x \in S : TRUE
                           IN (IF cs[u] = None THEN 0 ELSE cs[u][r]) + g[S \ {u}]]
           got == CHOOSE g : g = F(g)
           sum == [S \in SUBSET Users |-> Total(V, S)]
<1>1. Held(cs, r) = got[Users]  BY DEF Held
<1>2. sum = F(sum)
  <2>1. ASSUME NEW S \in SUBSET Users PROVE sum[S] = F(sum)[S]
    <3>1. CASE S = {}  BY <3>1, TotalIs
    <3>2. CASE S # {}
      <4> DEFINE u == CHOOSE x \in S : TRUE
      <4>1. u \in S  BY <3>2
      <4>2. Total(V, S) = V[u] + Total(V, S \ {u})  BY <4>1, TotalIs
      <4>3. V[u] = IF cs[u] = None THEN 0 ELSE cs[u][r]  BY <4>1 DEF Holds
      <4>4. sum[S \ {u}] = Total(V, S \ {u})  OBVIOUS
      <4> QED BY <3>2, <4>2, <4>3, <4>4
    <3> QED BY <3>1, <3>2
  <2> QED BY <2>1
<1>3. got = F(got)
  <2> HIDE DEF F, sum
  <2> QED BY <1>2
<1> DEFINE D == {S \in SUBSET Users : got[S] = sum[S]}
<1>4. ASSUME NEW S \in SUBSET Users, \A u \in S : S \ {u} \in D PROVE S \in D
  <2>1. got[S] = F(got)[S] /\ sum[S] = F(sum)[S]  BY <1>2, <1>3
  <2> HIDE DEF got, sum
  <2>2. CASE S = {}  BY <2>1, <2>2
  <2>3. CASE S # {}
    <3> DEFINE u == CHOOSE x \in S : TRUE
    <3>1. u \in S  BY <2>3
    <3>2. got[S \ {u}] = sum[S \ {u}]  BY <1>4, <3>1
    <3> QED BY <2>1, <2>3, <3>2
  <2> QED BY <2>2, <2>3
<1> HIDE DEF D, got, sum
<1>5. Users \in D  BY <1>4, ByUsers
<1>6. got[Users] = sum[Users]  BY <1>5 DEF D
<1> QED BY <1>1, <1>6 DEF sum
-----------------------------------------------------------------------------
(* The invariant. *)

SeenType == [gpus : Gpus, leaving : BOOLEAN]
HeldType == [Users -> Gpus \cup {None}]
Pcs      == {"idle", "get", "busy", "admit", "admitting", "delete", "deleted", "leaving", "create",
             "head", "relayed"}
CallType == [pc : Pcs, kind : {"none", "relay", "start", "stop", "force", "open"},
             shape : Shapes \cup {None}, seen : SeenType \cup {None}, mix : Gpus,
             others : HeldType \cup {None}, granted : HeldType \cup {None}, age : Nat,
             raced : BOOLEAN]
ReaperType == [pc : {"asleep", "next", "late", "idle", "deleted"}, todo : SUBSET Users,
               late : SUBSET Users, at : Users \cup {None}]
HistType == [asked : [Users -> 0..Idle \cup {None}], lost : [Clients -> 0..GoneFor \cup {None}],
             mixed : SUBSET Users, answered : BOOLEAN, hidden : BOOLEAN, lapsed : BOOLEAN]

TypeOK ==
  /\ owner \in [Clients -> Users] /\ made \in Nat
  /\ rc \in [Users -> RayCluster \cup {None}] /\ grants \in [Users -> Granted \cup {None}]
  /\ started \in [Users -> Shapes \cup {None}] /\ lastUsed \in [Users -> 0..Idle \cup {None}]
  /\ clients \in [Users -> SUBSET Clients] /\ gone \in [Clients -> 0..GoneFor \cup {None}]
  /\ session \in [Clients -> Nat \cup {None}]
  /\ call \in [Clients -> CallType] /\ lock \in Clients \cup {None}
  /\ reaper \in ReaperType /\ (reaper.pc \in {"late", "idle", "deleted"} => reaper.at \in Users)
  /\ hist \in HistType

\* Who starts a cluster asks for a shape that can be had; where calls for one are.
Asking == \A c \in Clients :
  /\ Starting(c) => call[c].shape \in Shapes /\ ShapeOK(call[c].shape)
  /\ call[c].pc \in {"admit", "admitting", "leaving", "create", "head", "relayed"} => Starting(c)
  /\ At(c, "idle") => call[c] = NoCall

\* A call in admit has the lock, and has counted of every other user what they hold or may
\* yet create.
Owned(u, r)    == IF rc[u] = None THEN 0 ELSE rc[u].gpus[r]
Promised(u, r) == IF grants[u] = None THEN 0 ELSE grants[u].gpus[r]
Seen(f, u, r)  == IF f[u] = None THEN 0 ELSE f[u][r]

Locked == \A c \in Clients : At(c, "admitting") =>
  lock = c /\ call[c].others \in HeldType /\ call[c].granted \in HeldType

Exempt == hist.answered \/ hist.lapsed \/ hist.hidden

Listed == ~Exempt => \A c \in Clients : At(c, "admitting") =>
  /\ call[c].others[owner[c]] = None /\ call[c].granted[owner[c]] = None
  /\ \A v \in Users \ {owner[c]}, r \in Resources :
       /\ Promised(v, r) <= Seen(call[c].granted, v, r)
       /\ \/ Owned(v, r) <= Seen(call[c].others, v, r)
          \/ Owned(v, r) <= Seen(call[c].granted, v, r)

\* What each user holds, or may yet create, whichever is more, is within the budget.
Claims(r) == [u \in Users |-> Max2(Owned(u, r), Promised(u, r))]
Claimed   == ~Exempt => \A r \in Resources : Total(Claims(r), Users) <= Budget[r]

\* The time since a cluster's last use is no more than that since its owner asked for it.
Clocked == \A u \in Users :
  lastUsed[u] # None /\ hist.asked[u] # None => lastUsed[u] <= hist.asked[u]

\* A cluster found up is up in its shape, or is being removed.
Shaped == \A u \in Users \ hist.mixed : started[u] # None =>
  /\ rc[u] # None /\ rc[u].shape = started[u] /\ rc[u].head
  /\ rc[u].leaving => ~Answered(u)

\* While a deletion is under way no cluster of that name gets a head.
Headless == \A u \in Users : ~Answered(u) /\ Live(rc[u]) => ~rc[u].head

\* Whoever has a session that was not removed is among those their cluster serves, and a
\* removal under way is none of a session's cluster that stays.
Served == \A c \in Clients : owner[c] \notin hist.mixed /\ session[c] # None =>
  /\ hist.lost[c] = None => c \in clients[owner[c]]
  /\ ~Answered(owner[c]) /\ Live(rc[owner[c]]) => session[c] # rc[owner[c]].uid

\* Whose session was removed is told of it, and no call of theirs that was past the check then
\* has not heard of it.
Warned == \A c \in Clients : owner[c] \notin hist.mixed =>
  /\ hist.lost[c] \notin {None, GoneFor} => gone[c] # None /\ gone[c] <= hist.lost[c]
  /\ call[c].kind = "relay" /\ ~call[c].raced => hist.lost[c] \in {None, GoneFor}
Numbered == \A u \in Users : rc[u] # None => rc[u].uid <= made
Joined   == \A c \in Clients : session[c] # None => session[c] <= made

-----------------------------------------------------------------------------
(* What a step makes of the calls and of the history. *)

\* No call is a call, at rest.
LEMMA NoCallType ==
  /\ NoCall \in CallType /\ NoCall.pc = "idle" /\ NoCall.kind = "none" /\ ~NoCall.raced
  /\ NoGpus \in Gpus
BY DEF NoCall, CallType, NoGpus, Gpus, Pcs

\* A call with one field set.
LEMMA CallSet ==
  ASSUME NEW k \in CallType
  PROVE  /\ \A x \in Pcs : [k EXCEPT !.pc = x] \in CallType
         /\ \A x \in {"none", "relay", "start", "stop", "force", "open"} :
              [k EXCEPT !.kind = x] \in CallType
         /\ \A x \in Shapes \cup {None} : [k EXCEPT !.shape = x] \in CallType
         /\ \A x \in SeenType \cup {None} : [k EXCEPT !.seen = x] \in CallType
         /\ \A x \in Gpus : [k EXCEPT !.mix = x] \in CallType
         /\ \A x \in HeldType \cup {None} : [k EXCEPT !.others = x] \in CallType
         /\ \A x \in HeldType \cup {None} : [k EXCEPT !.granted = x] \in CallType
         /\ \A x \in Nat : [k EXCEPT !.age = x] \in CallType
         /\ \A x \in BOOLEAN : [k EXCEPT !.raced = x] \in CallType
BY DEF CallType

\* Only c's call changes; and it is for what it was.
Steps(c) ==
  /\ call' \in [Clients -> CallType]
  /\ \A d \in Clients \ {c} : call'[d] = call[d]
Same(c) ==
  /\ call'[c].kind = call[c].kind /\ call'[c].shape = call[c].shape
  /\ call'[c].raced = call[c].raced

\* A call set to another leaves the rest as they are,
LEMMA SetSteps ==
  ASSUME TypeOK, NEW c \in Clients, NEW k \in CallType, call' = [call EXCEPT ![c] = k]
  PROVE  Steps(c) /\ call'[c] = k
BY DEF TypeOK, Steps

\* ... one that ends,
LEMMA EndsSteps ==
  ASSUME TypeOK, NEW c \in Clients, Ends(c)
  PROVE  Steps(c) /\ call'[c] = NoCall
BY NoCallType, SetSteps DEF Ends

\* ... one that goes on, with what it knows,
LEMMA GoesSteps ==
  ASSUME TypeOK, NEW c \in Clients, NEW pc \in Pcs, Goes(c, pc)
  PROVE  Steps(c) /\ Same(c) /\ call'[c].pc = pc
<1> DEFINE one == [call[c] EXCEPT !.pc = pc]
           two == [one EXCEPT !.age = 0]
<1>1. call[c] \in CallType /\ call \in [Clients -> CallType]  BY DEF TypeOK
<1>2. one \in CallType  BY <1>1, CallSet
<1>3. call' = [call EXCEPT ![c] = two]  BY <1>1 DEF Goes, CallType
<1>4. one.pc = pc /\ one.kind = call[c].kind /\ one.shape = call[c].shape /\ one.raced = call[c].raced
  BY <1>1 DEF CallType
<1> HIDE DEF one
<1>5. two \in CallType  BY <1>2, CallSet
<1>6. two.pc = one.pc /\ two.kind = one.kind /\ two.shape = one.shape /\ two.raced = one.raced
  BY <1>2 DEF CallType
<1> HIDE DEF two
<1> QED BY <1>3, <1>4, <1>5, <1>6, SetSteps DEF Same

\* ... one that begins,
LEMMA BeginSteps ==
  ASSUME TypeOK, NEW c \in Clients, NEW pc \in Pcs, NEW kind \in {"relay", "start", "stop", "force"},
         NEW shape \in Shapes \cup {None},
         call' = [call EXCEPT ![c] = [NoCall EXCEPT !.pc = pc, !.kind = kind, !.shape = shape]]
  PROVE  /\ Steps(c) /\ call'[c].pc = pc /\ call'[c].kind = kind /\ call'[c].shape = shape
         /\ ~call'[c].raced
<1> DEFINE k == [NoCall EXCEPT !.pc = pc, !.kind = kind, !.shape = shape]
<1>1. k \in CallType /\ k.pc = pc /\ k.kind = kind /\ k.shape = shape /\ ~k.raced
  BY NoCallType DEF NoCall, CallType
<1> HIDE DEF k
<1>2. call' = [call EXCEPT ![c] = k]  BY DEF k
<1> QED BY <1>1, <1>2, SetSteps

\* ... one that read its RayCluster,
LEMMA GetSteps ==
  ASSUME TypeOK, NEW c \in Clients, GetCluster(c)
  PROVE  /\ Steps(c) /\ Same(c)
         /\ call'[c].pc \in {"head", "busy", "admit"}
<1> DEFINE u == owner[c]
           next == IF Runs(rc[u], call[c].shape) THEN "head"
                   ELSE IF Live(rc[u]) THEN "busy" ELSE "admit"
           seen == IF next = "head" \/ rc[u] = None THEN None
                   ELSE [gpus |-> rc[u].gpus, leaving |-> rc[u].leaving]
           one == [call[c] EXCEPT !.pc = next]
           two == [one EXCEPT !.seen = seen]
<1>1. call[c] \in CallType /\ call \in [Clients -> CallType] /\ u \in Users  BY DEF TypeOK
<1>2. next \in {"head", "busy", "admit"} /\ next \in Pcs  BY DEF Pcs
<1>3. seen \in SeenType \cup {None}  BY <1>1 DEF TypeOK, RayCluster, SeenType
<1>4. call' = [call EXCEPT ![c].pc = next, ![c].seen = seen]  BY DEF GetCluster
<1> HIDE DEF next, seen
<1>5. call' = [call EXCEPT ![c] = two]  BY <1>1, <1>4 DEF CallType
<1>6. one \in CallType  BY <1>1, <1>2, CallSet
<1>7. one.pc = next /\ one.kind = call[c].kind /\ one.shape = call[c].shape /\ one.raced = call[c].raced
  BY <1>1 DEF CallType
<1> HIDE DEF one
<1>8. two \in CallType  BY <1>3, <1>6, CallSet
<1>9. two.pc = one.pc /\ two.kind = one.kind /\ two.shape = one.shape /\ two.raced = one.raced
  BY <1>6 DEF CallType
<1> HIDE DEF two
<1> QED BY <1>2, <1>5, <1>7, <1>8, <1>9, SetSteps DEF Same

\* What admit counts of f, without c's own user.
Others(f, c) == [v \in Users |-> IF f[v] = None \/ v = owner[c] THEN None ELSE f[v].gpus]
Kept == [v \in Users |-> IF Counts(grants[v]) THEN grants[v] ELSE None]

\* ... one that listed what others hold, under the lock,
LEMMA ListSteps ==
  ASSUME TypeOK, NEW c \in Clients, AdmitList(c)
  PROVE  /\ Steps(c) /\ Same(c) /\ call'[c].pc = "admitting" /\ lock' = c /\ lock = None
         /\ call'[c].others = Others(rc, c) /\ call'[c].granted = Others(Kept, c)
         /\ Others(rc, c) \in HeldType /\ Others(Kept, c) \in HeldType
         /\ grants' = Kept /\ Kept \in [Users -> Granted \cup {None}]
         /\ \A v \in Users : Kept[v] \in {None, grants[v]}
<1> DEFINE one == [call[c] EXCEPT !.pc = "admitting"]
           two == [one EXCEPT !.others = Others(rc, c)]
           three == [two EXCEPT !.granted = Others(Kept, c)]
<1>1. call[c] \in CallType /\ call \in [Clients -> CallType]  BY DEF TypeOK
<1>2. Kept \in [Users -> Granted \cup {None}] /\ \A v \in Users : Kept[v] \in {None, grants[v]}
  BY DEF TypeOK, Kept
<1>3. Others(rc, c) \in HeldType /\ Others(Kept, c) \in HeldType
  BY <1>2 DEF TypeOK, Others, HeldType, RayCluster, Granted
<1>4. /\ call' = [call EXCEPT ![c].pc = "admitting", ![c].others = Others(rc, c),
                              ![c].granted = Others(Kept, c)]
      /\ grants' = Kept /\ lock' = c /\ lock = None
  BY Zenon DEF AdmitList, Others, Kept
<1> DEFINE o == Others(rc, c)
           g == Others(Kept, c)
<1>5. o \in HeldType /\ g \in HeldType  BY <1>3
<1> HIDE DEF o, g
<1>6. call' = [call EXCEPT ![c] = [[[call[c] EXCEPT !.pc = "admitting"] EXCEPT !.others = o]
                                      EXCEPT !.granted = g]]
  BY <1>1, <1>4 DEF CallType, o, g
<1>7. call' = [call EXCEPT ![c] = three]  BY <1>6 DEF o, g
<1>8. one \in CallType  BY <1>1, CallSet DEF Pcs
<1>9. one.pc = "admitting" /\ one.kind = call[c].kind /\ one.shape = call[c].shape /\ one.raced = call[c].raced
  BY <1>1 DEF CallType
<1> HIDE DEF one
<1>10. two \in CallType  BY <1>3, <1>8, CallSet
<1>11. two.pc = one.pc /\ two.kind = one.kind /\ two.shape = one.shape /\ two.raced = one.raced
       /\ two.others = Others(rc, c)
  BY <1>8 DEF CallType
<1> HIDE DEF two
<1>12. three \in CallType  BY <1>3, <1>10, CallSet
<1>13. /\ three.pc = two.pc /\ three.kind = two.kind /\ three.shape = two.shape
       /\ three.raced = two.raced /\ three.others = two.others /\ three.granted = Others(Kept, c)
  BY <1>10 DEF CallType
<1> HIDE DEF three
<1> QED BY <1>2, <1>3, <1>4, <1>7, <1>9, <1>11, <1>12, <1>13, SetSteps DEF Same

\* ... one that created its RayCluster,
LEMMA CreateSteps ==
  ASSUME TypeOK, NEW c \in Clients, call' = [call EXCEPT ![c].pc = "head", ![c].mix = NoGpus]
  PROVE  Steps(c) /\ Same(c) /\ call'[c].pc = "head"
<1> DEFINE one == [call[c] EXCEPT !.pc = "head"]
           two == [one EXCEPT !.mix = NoGpus]
<1>1. call[c] \in CallType /\ call \in [Clients -> CallType]  BY DEF TypeOK
<1>2. one \in CallType  BY <1>1, CallSet DEF Pcs
<1>3. call' = [call EXCEPT ![c] = two]  BY <1>1 DEF CallType
<1>4. one.pc = "head" /\ one.kind = call[c].kind /\ one.shape = call[c].shape /\ one.raced = call[c].raced
  BY <1>1 DEF CallType
<1> HIDE DEF one
<1>5. two \in CallType  BY <1>2, CallSet, NoCallType
<1>6. two.pc = one.pc /\ two.kind = one.kind /\ two.shape = one.shape /\ two.raced = one.raced
  BY <1>2 DEF CallType
<1> HIDE DEF two
<1> QED BY <1>3, <1>4, <1>5, <1>6, SetSteps DEF Same

\* ... one that opens its cluster anew,
LEMMA OpenSteps ==
  ASSUME TypeOK, NEW c \in Clients, call' = [call EXCEPT ![c].pc = "delete", ![c].kind = "open"]
  PROVE  Steps(c) /\ call'[c].pc = "delete" /\ call'[c].kind = "open"
<1> DEFINE one == [call[c] EXCEPT !.pc = "delete"]
           two == [one EXCEPT !.kind = "open"]
<1>1. call[c] \in CallType /\ call \in [Clients -> CallType]  BY DEF TypeOK
<1>2. one \in CallType  BY <1>1, CallSet DEF Pcs
<1>6. one.pc = "delete"  BY <1>1 DEF CallType
<1>3. call' = [call EXCEPT ![c] = two]  BY <1>1 DEF CallType
<1> HIDE DEF one
<1>4. two \in CallType  BY <1>2, CallSet
<1>5. two.pc = one.pc /\ two.kind = "open"  BY <1>2 DEF CallType
<1> HIDE DEF two
<1> QED BY <1>3, <1>4, <1>5, <1>6, SetSteps

\* The calls on u's cluster once a deletion is answered.
LEMMA ClosedIs ==
  ASSUME TypeOK, NEW u \in Users
  PROVE  /\ Closed(u) \in [Clients -> CallType]
         /\ \A d \in Clients : owner[d] # u \/ At(d, "idle") => Closed(u)[d] = call[d]
         /\ \A d \in Clients : owner[d] = u /\ ~At(d, "idle") =>
              \/ At(d, "relayed") /\ Closed(u)[d] = NoCall
              \/ /\ ~At(d, "relayed") /\ Closed(u)[d].raced /\ Closed(u)[d].pc = call[d].pc
                 /\ Closed(u)[d].kind = call[d].kind /\ Closed(u)[d].shape = call[d].shape
                 /\ Closed(u)[d].others = call[d].others /\ Closed(u)[d].granted = call[d].granted
<1>1. ASSUME NEW d \in Clients
      PROVE  /\ [call[d] EXCEPT !.raced = TRUE] \in CallType
             /\ [call[d] EXCEPT !.raced = TRUE].raced
             /\ [call[d] EXCEPT !.raced = TRUE].pc = call[d].pc
             /\ [call[d] EXCEPT !.raced = TRUE].kind = call[d].kind
             /\ [call[d] EXCEPT !.raced = TRUE].shape = call[d].shape
             /\ [call[d] EXCEPT !.raced = TRUE].others = call[d].others
             /\ [call[d] EXCEPT !.raced = TRUE].granted = call[d].granted
  <2>1. call[d] \in CallType  BY DEF TypeOK
  <2>2. [call[d] EXCEPT !.raced = TRUE] \in CallType  BY <2>1, CallSet
  <2> QED BY <2>1, <2>2 DEF CallType
<1> DEFINE r(d) == [call[d] EXCEPT !.raced = TRUE]
<1>2. \A d \in Clients : /\ r(d) \in CallType /\ r(d).raced /\ r(d).pc = call[d].pc
                         /\ r(d).kind = call[d].kind /\ r(d).shape = call[d].shape
                         /\ r(d).others = call[d].others /\ r(d).granted = call[d].granted
  BY <1>1
<1>3. Closed(u) = [d \in Clients |-> IF owner[d] # u \/ At(d, "idle") THEN call[d]
                                     ELSE IF At(d, "relayed") THEN NoCall ELSE r(d)]
  BY DEF Closed
<1> HIDE DEF r
<1>4. call \in [Clients -> CallType]  BY DEF TypeOK
<1> QED BY <1>2, <1>3, <1>4, NoCallType DEF At

\* A deletion by c is answered.
LEMMA DeletedSteps ==
  ASSUME TypeOK, Asking, NEW c \in Clients, Deleted(c)
  PROVE  /\ call' \in [Clients -> CallType]
         /\ \A d \in Clients \ {c} : call'[d] = Closed(owner[c])[d]
         /\ Starting(c) => /\ call'[c].pc = "leaving" /\ call'[c].kind = call[c].kind
                           /\ call'[c].shape = call[c].shape /\ call'[c].raced
         /\ ~Starting(c) => call'[c] = NoCall
<1> DEFINE f == Closed(owner[c])
           k == [f[c] EXCEPT !.pc = "leaving"]
<1>1. owner[c] \in Users /\ f \in [Clients -> CallType] /\ call[c].pc = "deleted"
  BY ClosedIs DEF TypeOK, Deleted, At
<1>2. /\ f[c] \in CallType /\ f[c].raced /\ f[c].kind = call[c].kind /\ f[c].shape = call[c].shape
  BY <1>1, ClosedIs DEF At
<1>3. call' = [f EXCEPT ![c] = IF Starting(c) THEN k ELSE NoCall]  BY DEF Deleted
<1> HIDE DEF f
<1>4. k \in CallType  BY <1>2, CallSet DEF Pcs
<1>5. k.pc = "leaving" /\ k.kind = call[c].kind /\ k.shape = call[c].shape
  BY <1>2 DEF CallType
<1>6. k.raced  BY <1>2 DEF CallType
<1> HIDE DEF k
<1> QED BY <1>1, <1>3, <1>4, <1>5, <1>6, NoCallType DEF f

\* ... and time, which passes only where no call is in the middle of a short step.
LEMMA TickSteps ==
  ASSUME TypeOK, Tick
  PROVE  /\ call' \in [Clients -> CallType]
         /\ \A d \in Clients : /\ call'[d].pc = call[d].pc /\ call'[d].kind = call[d].kind
                               /\ call'[d].shape = call[d].shape /\ call'[d].raced = call[d].raced
                               /\ At(d, "idle") => call'[d] = call[d]
                               /\ call[d].pc \in {"idle", "leaving", "head", "relayed"}
<1> DEFINE k(d) == [call[d] EXCEPT !.age = @ + 1]
<1>1. ASSUME NEW d \in Clients
      PROVE  /\ k(d) \in CallType
             /\ k(d).pc = call[d].pc /\ k(d).kind = call[d].kind
             /\ k(d).shape = call[d].shape /\ k(d).raced = call[d].raced
  <2>1. call[d] \in CallType /\ call[d].age + 1 \in Nat  BY DEF TypeOK, CallType
  <2>2. k(d) = [call[d] EXCEPT !.age = call[d].age + 1]  OBVIOUS
  <2>3. k(d) \in CallType  BY <2>1, <2>2, CallSet
  <2> QED BY <2>1, <2>3 DEF CallType
<1>2. call' = [d \in Clients |-> IF call[d].pc \in {"leaving", "head"} THEN k(d) ELSE call[d]]
  BY DEF Tick
<1> HIDE DEF k
<1>3. \A d \in Clients : call[d].pc \in {"idle", "leaving", "head", "relayed"}  BY DEF Tick
<1> QED BY <1>1, <1>2, <1>3 DEF TypeOK, At

-----------------------------------------------------------------------------
(* What admit gives. *)

\* What a listing holds of a GPU is the sum of what its users hold.
LEMMA HeldNat == ASSUME NEW cs \in HeldType, NEW r \in Resources
                 PROVE  /\ Holds(cs, r) \in [Users -> Nat]
                        /\ Held(cs, r) = Total(Holds(cs, r), Users) /\ Held(cs, r) \in Nat
<1>1. Holds(cs, r) \in [Users -> Nat]  BY DEF Holds, HeldType, Gpus
<1>2. Held(cs, r) = Total(Holds(cs, r), Users)  BY <1>1, HeldIs
<1>3. Total(Holds(cs, r), Users) \in Nat  BY <1>1, TotalIs
<1> QED BY <1>1, <1>2, <1>3

\* What k counted of each user: the cluster that is listed, or else the grant.
Taken(k) == [u \in Users |-> IF k.others[u] # None THEN k.others[u] ELSE k.granted[u]]

\* What is available is a number: the budget less what is taken, while Prometheus
\* is silent.
LEMMA AvailableIs ==
  ASSUME NEW k \in CallType, k.others \in HeldType, k.granted \in HeldType, NEW r \in Resources,
         NEW free \in FreeGpus
  PROVE  /\ Available(k, r, free) \in Int
         /\ Taken(k) \in HeldType
         /\ free = Silent => Available(k, r, free) = Budget[r] - Held(Taken(k), r)
<1>1. Taken(k) \in HeldType  BY DEF Taken, HeldType
<1>2. Held(Taken(k), r) \in Nat /\ Held(k.granted, r) \in Nat  BY <1>1, HeldNat
<1>3. Budget[r] \in Nat  BY BudgetAssumption
<1>4. free # Silent => free.unheld[r] \in Int
  BY AnswersAssumption DEF FreeGpus
<1>5. Replaced(k, r) \in Nat
  BY DEF Replaced, Live, CallType, SeenType, Gpus
<1>6. free = Silent => Available(k, r, free) = Budget[r] - Held(Taken(k), r)
  BY Zenon DEF Available, Taken
<1>7. free # Silent => Available(k, r, free) = free.unheld[r] + Replaced(k, r) - Held(k.granted, r)
  BY DEF Available
<1> QED BY <1>1, <1>2, <1>3, <1>4, <1>5, <1>6, <1>7

\* What holds of 0, and with n of n + 1, holds up to L.
LEMMA ByNumbers ==
  ASSUME NEW L \in Nat, NEW D, 0 \in D, \A n \in 0..L : n # L /\ n \in D => n + 1 \in D
  PROVE  0..L \subseteq D
<1> DEFINE bad == {n \in 0..L : n \notin D}
<1> SUFFICES ASSUME bad # {} PROVE FALSE  OBVIOUS
<1>0. bad \subseteq Nat  OBVIOUS
<1>1. PICK n \in bad : \A m \in bad : n <= m  BY <1>0, LeastOf
<1>2. n \in 0..L /\ n # 0  BY <1>1
<1>3. n - 1 \in 0..L /\ n - 1 # L  BY <1>2
<1>4. n - 1 \in D
  <2> SUFFICES ASSUME n - 1 \notin D PROVE FALSE  OBVIOUS
  <2>1. n - 1 \in bad  BY <1>3
  <2> QED BY <1>1, <1>2, <2>1
<1>5. (n - 1) + 1 \in D  BY <1>3, <1>4
<1> QED BY <1>1, <1>2, <1>5

\* Workers given of the i-th flavor, of a available, where n are given already.
Share(a, per, most, n) == Max2(Min2(a \div per, most - n), 0)

\* A share that is not empty fits what is available.
LEMMA ShareNat ==
  ASSUME NEW a \in Int, NEW per \in Nat \ {0}, NEW most \in Nat, NEW n \in Nat
  PROVE  /\ Share(a, per, most, n) \in Nat
         /\ per * Share(a, per, most, n) \in Nat
         /\ Share(a, per, most, n) > 0 => per * Share(a, per, most, n) <= a
<1> DEFINE s == Share(a, per, most, n)
           q == a \div per
<1>1. q \in Int  OBVIOUS
<1>5. per * q <= a  OBVIOUS
<1>2. s \in Nat /\ (s > 0 => s <= q)  BY <1>1 DEF Share, Max2, Min2
<1> HIDE DEF s, q
<1>3. per * s \in Nat  BY <1>2
<1>4. ASSUME s > 0 PROVE per * s <= a
  <2>1. q \in Nat /\ s <= q /\ per \in Nat  BY <1>1, <1>2, <1>4
  <2>2. per * s <= per * q  BY <1>2, <2>1
  <2>3. per * q \in Nat  BY <2>1
  <2> QED BY <1>3, <1>5, <2>2, <2>3
<1> QED BY <1>2, <1>3, <1>4 DEF s

\* ... and so does what is given of each flavor.
LEMMA GivenIs ==
  ASSUME NEW k \in CallType, k.others \in HeldType, k.granted \in HeldType, ShapeOK(k.shape),
         NEW free \in FreeGpus
  PROVE  /\ Given(k, free) \in [1..Len(Flavors) -> Nat]
         /\ \A i \in 1..Len(Flavors) :
              /\ k.shape.per * Given(k, free)[i] \in Nat
              /\ Given(k, free)[i] > 0
                   => k.shape.per * Given(k, free)[i] <= Available(k, Flavors[i], free)
<1> DEFINE L == Len(Flavors)
           from == k.shape.from
           per == k.shape.per
           most == k.shape.workers
           A(i) == Available(k, Flavors[i], free)
           X(g, i) == IF i < from THEN 0 ELSE g[i - 1] + Share(A(i), per, most, g[i - 1])
           F(g) == [i \in 0..L |-> X(g, i)]
           got == CHOOSE g : g = F(g)
<1>1. L \in Nat /\ from \in 1..L /\ per \in Nat \ {0} /\ most \in Nat
  BY NamesAssumption DEF ShapeOK
<1>2. \A i \in 1..L : A(i) \in Int
  <2> SUFFICES ASSUME NEW i \in 1..L PROVE Available(k, Flavors[i], free) \in Int  OBVIOUS
  <2>1. Flavors[i] \in Resources  BY <1>1 DEF Resources
  <2> QED BY <2>1, AvailableIs
<1>3. Given(k, free) = [i \in 1..L |-> got[i] - got[i - 1]]
  BY DEF Given, Share
<1> HIDE DEF L, from, per, most, A
<1> DEFINE D == {n \in 0..L : \E g \in [0..n -> Nat] : \A i \in 0..n : g[i] = X(g, i)}
<1>4. 0 \in D
  <2>1. [i \in 0..0 |-> 0] \in [0..0 -> Nat]  OBVIOUS
  <2>2. \A i \in 0..0 : [j \in 0..0 |-> 0][i] = X([j \in 0..0 |-> 0], i)  BY <1>1
  <2>3. 0 \in 0..L  BY <1>1
  <2> QED BY <2>1, <2>2, <2>3
<1>5. ASSUME NEW n \in 0..L, n # L, n \in D PROVE n + 1 \in D
  <2>1. PICK g \in [0..n -> Nat] : \A i \in 0..n : g[i] = X(g, i)  BY <1>5
  <2>2. n \in Nat /\ n + 1 \in 1..L /\ n \in 0..n /\ g[n] \in Nat /\ 0..(n + 1) = 0..n \cup {n + 1}
    BY <1>1, <1>5
  <2>3. Share(A(n + 1), per, most, g[n]) \in Nat  BY <1>1, <1>2, <2>2, ShareNat
  <2> DEFINE x == IF n + 1 < from THEN 0 ELSE g[n] + Share(A(n + 1), per, most, g[n])
             h == [i \in 0..(n + 1) |-> IF i = n + 1 THEN x ELSE g[i]]
  <2>4. x \in Nat  BY <2>2, <2>3
  <2>5. h \in [0..(n + 1) -> Nat]  BY <2>2, <2>4
  <2>6. ASSUME NEW i \in 0..(n + 1) PROVE h[i] = X(h, i)
    <3>1. CASE i = n + 1
      <4>1. h[i] = x /\ i - 1 = n /\ h[n] = g[n]  BY <2>2, <3>1
      <4> HIDE DEF h
      <4> QED BY <3>1, <4>1
    <3>2. CASE i # n + 1
      <4>1. i \in 0..n /\ h[i] = g[i] /\ g[i] = X(g, i)  BY <2>1, <2>2, <3>2
      <4>2. CASE i < from  BY <4>1, <4>2
      <4>3. CASE ~(i < from)
        <5>1. i - 1 \in 0..n /\ i - 1 # n + 1 /\ i - 1 \in 0..(n + 1)  BY <1>1, <2>2, <4>1, <4>3
        <5>2. h[i - 1] = g[i - 1]  BY <5>1
        <5> QED BY <4>1, <4>3, <5>2
      <4> QED BY <4>2, <4>3
    <3> QED BY <3>1, <3>2
  <2> HIDE DEF h, X
  <2>7. n + 1 \in 0..L  BY <1>1, <2>2
  <2> QED BY <2>5, <2>6, <2>7
<1>6. \E g \in [0..L -> Nat] : \A i \in 0..L : g[i] = X(g, i)
  <2> HIDE DEF D
  <2>1. L \in D  BY <1>1, <1>4, <1>5, ByNumbers
  <2> QED BY <2>1 DEF D
<1>7. got = F(got)
  <2>1. PICK g \in [0..L -> Nat] : \A i \in 0..L : g[i] = X(g, i)  BY <1>6
  <2>2. g = F(g)
    <3> HIDE DEF X
    <3> QED BY <2>1
  <2> HIDE DEF F
  <2> QED BY <2>2
<1> HIDE DEF got
<1> DEFINE E == {n \in 0..L : got[n] \in Nat}
<1>8. \A i \in 0..L : got[i] = X(got, i)
  <2> HIDE DEF X
  <2> QED BY <1>7
<1>9. \A i \in 0..L : got[i] \in Nat
  <2>1. 0 \in E  BY <1>1, <1>8
  <2>2. ASSUME NEW n \in 0..L, n # L, n \in E PROVE n + 1 \in E
    <3>1. n + 1 \in 1..L /\ n + 1 \in 0..L /\ (n + 1) - 1 = n  BY <1>1, <2>2
    <3>2. Share(A(n + 1), per, most, got[n]) \in Nat  BY <1>1, <1>2, <2>2, <3>1, ShareNat
    <3>3. got[n + 1] = IF n + 1 < from THEN 0 ELSE got[n] + Share(A(n + 1), per, most, got[n])
      BY <1>8, <3>1
    <3> QED BY <2>2, <3>1, <3>2, <3>3
  <2> HIDE DEF E
  <2>3. 0..L \subseteq E  BY <1>1, <2>1, <2>2, ByNumbers
  <2> QED BY <2>3 DEF E
<1>10. ASSUME NEW i \in 1..L
       PROVE  /\ got[i] - got[i - 1] \in Nat /\ per * (got[i] - got[i - 1]) \in Nat
              /\ got[i] - got[i - 1] > 0 => per * (got[i] - got[i - 1]) <= A(i)
  <2>1. i \in 0..L /\ i - 1 \in 0..L  BY <1>1
  <2>2. got[i] \in Nat /\ got[i - 1] \in Nat /\ got[i] = X(got, i)  BY <1>8, <1>9, <2>1
  <2>3. CASE i < from
    <3>1. i - 1 < from  BY <1>1, <2>3
    <3>2. got[i] = 0 /\ got[i - 1] = 0  BY <1>8, <2>1, <2>3, <3>1
    <3> QED BY <1>1, <3>2
  <2>4. CASE ~(i < from)
    <3> DEFINE s == Share(A(i), per, most, got[i - 1])
    <3>1. s \in Nat /\ per * s \in Nat /\ (s > 0 => per * s <= A(i))
      BY <1>1, <1>2, <2>2, ShareNat
    <3>2. got[i] = got[i - 1] + s  BY <2>2, <2>4
    <3> HIDE DEF s
    <3>3. got[i] - got[i - 1] = s  BY <2>2, <3>1, <3>2
    <3> QED BY <3>1, <3>3
  <2> QED BY <2>3, <2>4
<1> DEFINE give == [i \in 1..L |-> got[i] - got[i - 1]]
<1>11. /\ give \in [1..L -> Nat]
       /\ \A i \in 1..L : per * give[i] \in Nat /\ (give[i] > 0 => per * give[i] <= A(i))
  BY <1>10
<1>12. Given(k, free) = give  BY <1>3
<1> HIDE DEF give
<1>13. L = Len(Flavors) /\ per = k.shape.per /\ \A i \in 1..L : A(i) = Available(k, Flavors[i], free)
  BY DEF L, per, A
<1>14. Given(k, free) \in [1..Len(Flavors) -> Nat]  BY <1>11, <1>12, <1>13
<1>15. ASSUME NEW i \in 1..Len(Flavors)
       PROVE  /\ k.shape.per * Given(k, free)[i] \in Nat
              /\ Given(k, free)[i] > 0
                   => k.shape.per * Given(k, free)[i] <= Available(k, Flavors[i], free)
  <2>1. i \in 1..L /\ A(i) = Available(k, Flavors[i], free)  BY <1>13
  <2>2. per * give[i] \in Nat /\ (give[i] > 0 => per * give[i] <= A(i))  BY <1>11, <2>1, Zenon
  <2> QED BY <1>12, <1>13, <2>1, <2>2, Zenon
<1> QED BY <1>14, <1>15, Zenon

\* The GPUs of r that a mix of workers stands for.
MixGpus(k, mix) == [r \in Resources |->
  k.shape.per * mix[CHOOSE i \in 1..Len(Flavors) : Flavors[i] = r]]

\* A mix takes of each GPU nothing, or no more than is available.
LEMMA MixIs ==
  ASSUME NEW k \in CallType, k.others \in HeldType, k.granted \in HeldType, ShapeOK(k.shape),
         NEW free \in FreeGpus
  PROVE  /\ MixGpus(k, Mix(k, free)) \in Gpus
         /\ free = Silent => \A r \in Resources :
              \/ MixGpus(k, Mix(k, free))[r] = 0
              \/ MixGpus(k, Mix(k, free))[r] <= Available(k, r, free)
<1> DEFINE L == Len(Flavors)
           mix == Mix(k, free)
           one == [i \in 1..L |-> IF i \in Evicting(k, free) /\ \A j \in Evicting(k, free) : i <= j
                                  THEN 1 ELSE 0]
<1>1. /\ Given(k, free) \in [1..L -> Nat]
      /\ \A i \in 1..L : k.shape.per * Given(k, free)[i] \in Nat
      /\ \A i \in 1..L : Given(k, free)[i] > 0
           => k.shape.per * Given(k, free)[i] <= Available(k, Flavors[i], free)
  BY GivenIs
<1>2. L \in Nat /\ k.shape.per \in Nat  BY NamesAssumption DEF ShapeOK
<1>3. mix = Given(k, free) \/ mix = one
  <2>1. DOMAIN Given(k, free) = 1..L  BY <1>1
  <2> QED BY <2>1 DEF Mix
<1>4. free = Silent => mix = Given(k, free)
  BY DEF Mix, Evicting
<1>5. \A i \in 1..L : k.shape.per * one[i] \in Nat  BY <1>2
<1>6. \A i \in 1..L : k.shape.per * mix[i] \in Nat
  <2> HIDE DEF one, mix
  <2>1. CASE mix = Given(k, free)  BY <1>1, <2>1, Zenon
  <2>2. CASE mix = one  BY <1>5, <2>2, Zenon
  <2> QED BY <1>3, <2>1, <2>2
<1> HIDE DEF one, mix
<1>7. ASSUME NEW r \in Resources
      PROVE  /\ MixGpus(k, mix)[r] \in Nat
             /\ free = Silent => \/ MixGpus(k, mix)[r] = 0
                                 \/ MixGpus(k, mix)[r] <= Available(k, r, free)
  <2> DEFINE i == CHOOSE i \in 1..L : Flavors[i] = r
  <2>1. i \in 1..L /\ Flavors[i] = r  BY DEF Resources
  <2>2. MixGpus(k, mix)[r] = k.shape.per * mix[i]  BY DEF MixGpus
  <2> HIDE DEF i
  <2>3. k.shape.per * mix[i] \in Nat  BY <1>6, <2>1, Zenon
  <2>4. ASSUME free = Silent
        PROVE  k.shape.per * mix[i] = 0 \/ k.shape.per * mix[i] <= Available(k, r, free)
    <3>1. mix = Given(k, free) /\ Given(k, free)[i] \in Nat  BY <1>1, <1>4, <2>1, <2>4
    <3>2. CASE Given(k, free)[i] = 0  BY <1>2, <3>1, <3>2
    <3>3. CASE Given(k, free)[i] > 0
      <4>1. k.shape.per * Given(k, free)[i] <= Available(k, Flavors[i], free)
        BY <1>1, <2>1, <3>3, Zenon
      <4> QED BY <2>1, <3>1, <4>1, Zenon
    <3> QED BY <3>1, <3>2, <3>3
  <2> QED BY <2>2, <2>3, <2>4, Zenon
<1>8. MixGpus(k, mix) \in [Resources -> Nat]
  <2>1. MixGpus(k, mix) = [r \in Resources |-> MixGpus(k, mix)[r]]  BY DEF MixGpus
  <2> QED BY <1>7, <2>1, Zenon
<1> QED BY <1>7, <1>8, Zenon DEF mix, Gpus

\* How an admission ends: refused, or with GPUs that were available while Prometheus is silent.
LEMMA DecideIs ==
  ASSUME TypeOK, Asking, Locked, NEW c \in Clients, NEW free \in FreeGpus, AdmitDecide(c, free)
  PROVE  /\ Steps(c) /\ lock' = None /\ call[c].pc = "admitting"
         /\ \/ call'[c] = NoCall /\ grants' = grants /\ (hist'.hidden <=> hist.hidden)
            \/ /\ Same(c) /\ call'[c].pc \in {"delete", "leaving", "create"}
               /\ hist'.hidden <=> hist.hidden \/ Hides(call[c])
               /\ \E gpus \in Gpus :
                    /\ grants' = [grants EXCEPT ![owner[c]] = [gpus |-> gpus, age |-> 0]]
                    /\ free = Silent => \A r \in Resources :
                         gpus[r] = 0 \/ gpus[r] <= Available(call[c], r, free)
         /\ hist' \in HistType /\ hist'.asked = hist.asked /\ hist'.lost = hist.lost
         /\ hist'.mixed = hist.mixed /\ (hist'.lapsed <=> hist.lapsed)
         /\ hist'.answered <=> hist.answered \/ free # Silent
<1> DEFINE k == call[c]
           mix == Mix(k, free)
           gpus == MixGpus(k, mix)
           next == IF Live(k.seen) THEN "delete" ELSE IF k.seen # None THEN "leaving" ELSE "create"
           ok == k.shape.least <= Workers(mix)
           hid == ok /\ Hides(k)
           new == [k EXCEPT !.pc = next, !.mix = gpus, !.seen = None, !.others = None, !.granted = None]
<1>1. k.pc = "admitting" /\ lock' = None  BY DEF AdmitDecide, At
<1>2. k \in CallType /\ k.others \in HeldType /\ k.granted \in HeldType /\ ShapeOK(k.shape)
  BY <1>1 DEF TypeOK, Asking, Locked, At
<1>3. gpus \in Gpus /\ (free = Silent => \A r \in Resources :
                          gpus[r] = 0 \/ gpus[r] <= Available(k, r, free))
  BY <1>2, MixIs
<1>4. /\ hist' = [hist EXCEPT !.answered = @ \/ free # Silent, !.hidden = @ \/ hid]
      /\ ~ok => Ends(c) /\ UNCHANGED grants
      /\ ok => /\ grants' = [grants EXCEPT ![owner[c]] = [gpus |-> gpus, age |-> 0]]
               /\ call' = [call EXCEPT ![c] = new]
  BY DEF AdmitDecide, MixGpus
<1>5. next \in {"delete", "leaving", "create"}  OBVIOUS
<1>6. hid \in BOOLEAN /\ ok \in BOOLEAN  OBVIOUS
<1>7. /\ hist' \in HistType /\ hist'.asked = hist.asked /\ hist'.lost = hist.lost
      /\ hist'.mixed = hist.mixed /\ (hist'.lapsed <=> hist.lapsed)
      /\ (hist'.answered <=> hist.answered \/ free # Silent)
      /\ (hist'.hidden <=> hist.hidden \/ hid)
  <2> DEFINE one == [hist EXCEPT !.answered = @ \/ free # Silent]
             h == hist
  <2> HIDE DEF hid, ok
  <2>0. h \in HistType  BY DEF TypeOK
  <2>1. hist' = [one EXCEPT !.hidden = @ \/ hid]  BY <1>4, <2>0 DEF HistType
  <2>2. one \in HistType  BY <2>0 DEF HistType
  <2>3. /\ one.asked = hist.asked /\ one.lost = hist.lost /\ one.mixed = hist.mixed
        /\ (one.lapsed <=> hist.lapsed) /\ (one.hidden <=> hist.hidden)
        /\ (one.answered <=> hist.answered \/ free # Silent)
    BY <2>0 DEF HistType
  <2> HIDE DEF one
  <2>4. hist' \in HistType  BY <1>6, <2>1, <2>2 DEF HistType
  <2>5. /\ hist'.asked = one.asked /\ hist'.lost = one.lost /\ hist'.mixed = one.mixed
        /\ (hist'.lapsed <=> one.lapsed) /\ (hist'.answered <=> one.answered)
        /\ (hist'.hidden <=> one.hidden \/ hid)
    BY <1>6, <2>1, <2>2 DEF HistType
  <2> QED BY <2>3, <2>4, <2>5
<1> DEFINE two == [k EXCEPT !.pc = next]
           three == [two EXCEPT !.mix = gpus]
           four == [three EXCEPT !.seen = None]
           five == [four EXCEPT !.others = None]
           six == [five EXCEPT !.granted = None]
<1>8. new = six
  <2> HIDE DEF gpus, next
  <2> QED BY <1>2 DEF CallType
<1> HIDE DEF gpus, next, new
<1>9. two \in CallType  BY <1>2, <1>5, CallSet DEF Pcs
<1>10. two.pc = next /\ two.kind = k.kind /\ two.shape = k.shape /\ two.raced = k.raced
  BY <1>2 DEF CallType
<1> HIDE DEF two
<1>11. three \in CallType  BY <1>3, <1>9, CallSet
<1>12. three.pc = two.pc /\ three.kind = two.kind /\ three.shape = two.shape /\ three.raced = two.raced
  BY <1>9 DEF CallType
<1> HIDE DEF three
<1>13. four \in CallType  BY <1>11, CallSet
<1>14. four.pc = three.pc /\ four.kind = three.kind /\ four.shape = three.shape /\ four.raced = three.raced
  BY <1>11 DEF CallType
<1> HIDE DEF four
<1>15. five \in CallType  BY <1>13, CallSet
<1>16. five.pc = four.pc /\ five.kind = four.kind /\ five.shape = four.shape /\ five.raced = four.raced
  BY <1>13 DEF CallType
<1> HIDE DEF five
<1>17. six \in CallType  BY <1>15, CallSet
<1>18. six.pc = five.pc /\ six.kind = five.kind /\ six.shape = five.shape /\ six.raced = five.raced
  BY <1>15 DEF CallType
<1> HIDE DEF six
<1>19. CASE ok
  <2>1. Steps(c) /\ call'[c] = six  BY <1>4, <1>8, <1>17, <1>19, SetSteps
  <2>2. Same(c) /\ call'[c].pc = next
    BY <1>10, <1>12, <1>14, <1>16, <1>18, <2>1 DEF Same
  <2>3. hist'.hidden <=> hist.hidden \/ Hides(k)  BY <1>7, <1>19
  <2> QED BY <1>1, <1>3, <1>4, <1>5, <1>7, <1>19, <2>1, <2>2, <2>3
<1>20. CASE ~ok
  <2>1. Steps(c) /\ call'[c] = NoCall  BY <1>4, <1>20, EndsSteps
  <2>2. hist'.hidden <=> hist.hidden  BY <1>7, <1>20
  <2> QED BY <1>1, <1>4, <1>7, <1>20, <2>1, <2>2
<1> QED BY <1>19, <1>20

-----------------------------------------------------------------------------
(* What a step makes of the history. *)

SameFlags ==
  /\ hist'.answered <=> hist.answered
  /\ hist'.hidden <=> hist.hidden
  /\ hist'.lapsed <=> hist.lapsed

\* Zero is a time, and no time is None.
LEMMA TimesAre == 0 \in 0..Idle /\ Idle \in Nat /\ 0 \in 0..GoneFor /\ GoneFor \in Nat
                  /\ None \notin 0..Idle /\ None \notin 0..GoneFor
BY TimesAssumption, NoneAssumption

\* The record of what users asked: a user asks,
LEMMA AskedHist ==
  ASSUME TypeOK, NEW u \in Users, hist' = [hist EXCEPT !.asked[u] = 0]
  PROVE  /\ hist' \in HistType /\ SameFlags /\ hist'.mixed = hist.mixed /\ hist'.lost = hist.lost
         /\ hist'.asked[u] = 0 /\ \A v \in Users \ {u} : hist'.asked[v] = hist.asked[v]
<1>1. hist \in HistType  BY DEF TypeOK
<1> DEFINE a == [hist.asked EXCEPT ![u] = 0]
<1>2. a \in [Users -> 0..Idle \cup {None}] /\ a[u] = 0
      /\ \A v \in Users \ {u} : a[v] = hist.asked[v]
  BY <1>1, TimesAre DEF HistType
<1>3. hist' = [hist EXCEPT !.asked = a]  BY <1>1 DEF HistType
<1> HIDE DEF a
<1>4. hist' \in HistType  BY <1>1, <1>2, <1>3 DEF HistType
<1>5. hist'.asked = a /\ hist'.mixed = hist.mixed /\ hist'.lost = hist.lost  BY <1>1, <1>3 DEF HistType
<1>6. SameFlags  BY <1>1, <1>3 DEF HistType, SameFlags
<1> QED BY <1>2, <1>4, <1>5, <1>6

\* u's cluster is found by a call for shape.
FoundMixed(u, shape) == IF started[u] = shape \/ Runs(rc[u], shape) THEN hist.mixed
                        ELSE hist.mixed \cup {u}

\* ... and finds a shape,
LEMMA FoundHist ==
  ASSUME TypeOK, NEW u \in Users, NEW shape, hist' = [Found(u, shape) EXCEPT !.asked[u] = 0]
  PROVE  /\ hist' \in HistType /\ SameFlags /\ hist'.mixed = FoundMixed(u, shape)
         /\ hist'.lost = hist.lost
         /\ hist'.asked[u] = 0 /\ \A v \in Users \ {u} : hist'.asked[v] = hist.asked[v]
<1> DEFINE f == Found(u, shape)
           a == [hist.asked EXCEPT ![u] = 0]
<1>1. hist \in HistType  BY DEF TypeOK
<1>2. f = [hist EXCEPT !.mixed = FoundMixed(u, shape)] /\ FoundMixed(u, shape) \in SUBSET Users
  BY <1>1 DEF Found, FoundMixed, HistType
<1>3. f \in HistType  BY <1>1, <1>2 DEF HistType
<1>4. /\ f.asked = hist.asked /\ f.lost = hist.lost /\ f.mixed = FoundMixed(u, shape)
      /\ (f.answered <=> hist.answered) /\ (f.hidden <=> hist.hidden) /\ (f.lapsed <=> hist.lapsed)
  BY <1>1, <1>2 DEF HistType
<1> HIDE DEF f
<1>5. a \in [Users -> 0..Idle \cup {None}] /\ a[u] = 0
      /\ \A v \in Users \ {u} : a[v] = hist.asked[v]
  BY <1>1, TimesAre DEF HistType
<1>6. hist' = [f EXCEPT !.asked = a]  BY <1>3, <1>4 DEF HistType, f
<1> HIDE DEF a
<1>7. hist' \in HistType  BY <1>3, <1>5, <1>6 DEF HistType
<1>8. hist'.asked = a /\ hist'.mixed = f.mixed /\ hist'.lost = f.lost  BY <1>3, <1>6 DEF HistType
<1>9. SameFlags  BY <1>3, <1>4, <1>6 DEF HistType, SameFlags
<1> QED BY <1>4, <1>5, <1>7, <1>8, <1>9

\* ... and is attached to it,
LEMMA AttachHist ==
  ASSUME TypeOK, NEW c \in Clients, NEW u \in Users, NEW shape,
         hist' = [Found(u, shape) EXCEPT !.asked[u] = 0, !.lost[c] = None]
  PROVE  /\ hist' \in HistType /\ SameFlags /\ hist'.mixed = FoundMixed(u, shape)
         /\ hist'.lost[c] = None /\ \A d \in Clients \ {c} : hist'.lost[d] = hist.lost[d]
         /\ hist'.asked[u] = 0 /\ \A v \in Users \ {u} : hist'.asked[v] = hist.asked[v]
<1> DEFINE f == Found(u, shape)
           a == [hist.asked EXCEPT ![u] = 0]
           l == [hist.lost EXCEPT ![c] = None]
           g == [f EXCEPT !.asked = a]
<1>1. hist \in HistType  BY DEF TypeOK
<1>2. f = [hist EXCEPT !.mixed = FoundMixed(u, shape)] /\ FoundMixed(u, shape) \in SUBSET Users
  BY <1>1 DEF Found, FoundMixed, HistType
<1>3. f \in HistType  BY <1>1, <1>2 DEF HistType
<1>4. /\ f.asked = hist.asked /\ f.lost = hist.lost /\ f.mixed = FoundMixed(u, shape)
      /\ (f.answered <=> hist.answered) /\ (f.hidden <=> hist.hidden) /\ (f.lapsed <=> hist.lapsed)
  BY <1>1, <1>2 DEF HistType
<1> HIDE DEF f
<1>5. /\ a \in [Users -> 0..Idle \cup {None}] /\ a[u] = 0
      /\ \A v \in Users \ {u} : a[v] = hist.asked[v]
      /\ l \in [Clients -> 0..GoneFor \cup {None}] /\ l[c] = None
      /\ \A d \in Clients \ {c} : l[d] = hist.lost[d]
  BY <1>1, TimesAre DEF HistType
<1>6. hist' = [g EXCEPT !.lost = l]  BY <1>3, <1>4 DEF HistType, f
<1> HIDE DEF a, l
<1>7. g \in HistType  BY <1>3, <1>5 DEF HistType
<1>8. /\ g.asked = a /\ g.mixed = f.mixed
      /\ (g.answered <=> f.answered) /\ (g.hidden <=> f.hidden) /\ (g.lapsed <=> f.lapsed)
  BY <1>3 DEF HistType
<1> HIDE DEF g
<1>9. hist' \in HistType  BY <1>5, <1>6, <1>7 DEF HistType
<1>10. hist'.asked = g.asked /\ hist'.mixed = g.mixed /\ hist'.lost = l  BY <1>6, <1>7 DEF HistType
<1>11. SameFlags  BY <1>4, <1>6, <1>7, <1>8 DEF HistType, SameFlags
<1> QED BY <1>4, <1>5, <1>8, <1>9, <1>10, <1>11

\* With lost set anew.
LEMMA LostHist ==
  ASSUME TypeOK, NEW l \in [Clients -> 0..GoneFor \cup {None}], hist' = [hist EXCEPT !.lost = l]
  PROVE  /\ hist' \in HistType /\ SameFlags /\ hist'.mixed = hist.mixed /\ hist'.asked = hist.asked
         /\ hist'.lost = l
<1>1. hist \in HistType  BY DEF TypeOK
<1>2. hist' \in HistType  BY <1>1 DEF HistType
<1>3. hist'.mixed = hist.mixed /\ hist'.asked = hist.asked /\ hist'.lost = l  BY <1>1 DEF HistType
<1>4. SameFlags  BY <1>1 DEF HistType, SameFlags
<1> QED BY <1>2, <1>3, <1>4

\* The session of u's client c ends with a deletion that is answered.
Loses(c, u) ==
  /\ owner[c] = u /\ session[c] # None /\ hist.lost[c] = None
  /\ ~(Live(rc[u]) /\ rc[u].uid = session[c])

\* ... a cluster is lost to its clients,
LEMMA LosingHist ==
  ASSUME TypeOK, NEW u \in Users, hist' = Losing(u)
  PROVE  /\ hist' \in HistType /\ SameFlags /\ hist'.mixed = hist.mixed /\ hist'.asked = hist.asked
         /\ \A c \in Clients : hist'.lost[c] = IF Loses(c, u) THEN 0 ELSE hist.lost[c]
<1> DEFINE l == [c \in Clients |-> IF Loses(c, u) THEN 0 ELSE hist.lost[c]]
<1>1. hist \in HistType  BY DEF TypeOK
<1>2. l \in [Clients -> 0..GoneFor \cup {None}]  BY <1>1, TimesAre DEF HistType
<1>3. hist' = [hist EXCEPT !.lost = l]  BY <1>1 DEF Losing, Loses, HistType
<1>4. \A c \in Clients : l[c] = IF Loses(c, u) THEN 0 ELSE hist.lost[c]  OBVIOUS
<1> HIDE DEF l
<1> QED BY <1>2, <1>3, <1>4, LostHist

\* An age grows to its most, and none stays none.
LEMMA OlderIs ==
  ASSUME NEW n \in Nat, NEW a \in 0..n \cup {None}
  PROVE  /\ Older(a, n) \in 0..n \cup {None} /\ (Older(a, n) = None <=> a = None)
         /\ a # None => Older(a, n) = IF a < n THEN a + 1 ELSE n
BY NoneAssumption DEF Older, Min2

\* ... time passes,
LEMMA TickHist ==
  ASSUME TypeOK, Tick
  PROVE  /\ hist' \in HistType /\ SameFlags /\ hist'.mixed = hist.mixed
         /\ \A u \in Users : hist'.asked[u] = Older(hist.asked[u], Idle)
         /\ \A c \in Clients : hist'.lost[c] = Older(hist.lost[c], GoneFor)
<1> DEFINE a == [u \in Users |-> Older(hist.asked[u], Idle)]
           l == [c \in Clients |-> Older(hist.lost[c], GoneFor)]
           g == [hist EXCEPT !.asked = a]
<1>1. hist \in HistType  BY DEF TypeOK
<1>2. a \in [Users -> 0..Idle \cup {None}] /\ l \in [Clients -> 0..GoneFor \cup {None}]
  BY <1>1, OlderIs, TimesAre DEF HistType
<1>3. hist' = [g EXCEPT !.lost = l]  BY <1>1 DEF Tick, HistType
<1>4. /\ \A u \in Users : a[u] = Older(hist.asked[u], Idle)
      /\ \A c \in Clients : l[c] = Older(hist.lost[c], GoneFor)
  OBVIOUS
<1> HIDE DEF a, l
<1>5. g \in HistType  BY <1>1, <1>2 DEF HistType
<1>6. /\ g.asked = a /\ g.mixed = hist.mixed
      /\ (g.answered <=> hist.answered) /\ (g.hidden <=> hist.hidden) /\ (g.lapsed <=> hist.lapsed)
  BY <1>1 DEF HistType
<1> HIDE DEF g
<1>7. hist' \in HistType  BY <1>2, <1>3, <1>5 DEF HistType
<1>8. hist'.asked = g.asked /\ hist'.mixed = g.mixed /\ hist'.lost = l  BY <1>3, <1>5 DEF HistType
<1>9. SameFlags  BY <1>3, <1>5, <1>6 DEF HistType, SameFlags
<1> QED BY <1>4, <1>6, <1>7, <1>8, <1>9

\* ... and a grant lapses before its cluster is created.
LEMMA CreateHist ==
  ASSUME TypeOK, NEW b \in BOOLEAN, hist' = [hist EXCEPT !.lapsed = @ \/ b]
  PROVE  /\ hist' \in HistType /\ hist'.mixed = hist.mixed /\ hist'.asked = hist.asked
         /\ hist'.lost = hist.lost /\ (hist'.answered <=> hist.answered)
         /\ (hist'.hidden <=> hist.hidden) /\ (hist'.lapsed <=> hist.lapsed \/ b)
<1>1. hist \in HistType  BY DEF TypeOK
<1>2. hist' \in HistType  BY <1>1 DEF HistType
<1>3. hist'.mixed = hist.mixed /\ hist'.asked = hist.asked /\ hist'.lost = hist.lost
  BY <1>1 DEF HistType
<1>4. /\ (hist'.answered <=> hist.answered) /\ (hist'.hidden <=> hist.hidden)
      /\ (hist'.lapsed <=> hist.lapsed \/ b)
  BY <1>1 DEF HistType
<1> QED BY <1>2, <1>3, <1>4

-----------------------------------------------------------------------------
(* What a step makes of the clusters. *)

\* v's cluster stays the one it is.
Stays(v) ==
  /\ rc'[v] # None <=> rc[v] # None
  /\ rc[v] # None => /\ rc'[v].uid = rc[v].uid /\ rc'[v].shape = rc[v].shape
                     /\ rc'[v].gpus = rc[v].gpus

\* A RayCluster with a flag or its age set is one.
LEMMA ClusterSet ==
  ASSUME NEW k \in RayCluster
  PROVE  /\ \A x \in BOOLEAN : /\ [k EXCEPT !.leaving = x] \in RayCluster
                               /\ [k EXCEPT !.head = x] \in RayCluster
                               /\ [k EXCEPT !.full = x] \in RayCluster
                               /\ [k EXCEPT !.busy = x] \in RayCluster
         /\ \A x \in Nat : [k EXCEPT !.age = x] \in RayCluster
BY DEF RayCluster

\* A RayCluster set so stays whose it is, of its shape and GPUs,
LEMMA SetRc ==
  ASSUME TypeOK, NEW u \in Users, NEW k \in RayCluster, rc[u] # None, rc' = [rc EXCEPT ![u] = k],
         k.uid = rc[u].uid, k.shape = rc[u].shape, k.gpus = rc[u].gpus
  PROVE  /\ rc' \in [Users -> RayCluster \cup {None}] /\ rc'[u] = k
         /\ \A v \in Users \ {u} : rc'[v] = rc[v]
         /\ \A v \in Users : Stays(v)
<1>1. rc \in [Users -> RayCluster \cup {None}] /\ k # None  BY NoneAssumption DEF TypeOK
<1>2. rc' \in [Users -> RayCluster \cup {None}] /\ rc'[u] = k /\ \A v \in Users \ {u} : rc'[v] = rc[v]
  BY <1>1
<1> QED BY <1>1, <1>2 DEF Stays

\* ... one that leaves too,
LEMMA LeavesRc ==
  ASSUME TypeOK, NEW u \in Users, Leaves(u)
  PROVE  /\ rc' \in [Users -> RayCluster \cup {None}] /\ ~Live(rc'[u])
         /\ rc[u] # None => rc'[u].head = rc[u].head
         /\ \A v \in Users \ {u} : rc'[v] = rc[v]
         /\ \A v \in Users : Stays(v)
<1>1. rc \in [Users -> RayCluster \cup {None}]  BY DEF TypeOK
<1>2. CASE rc[u] = None
  <2>1. rc' = [rc EXCEPT ![u] = None]  BY <1>2 DEF Leaves
  <2>2. rc' = rc  BY <1>1, <1>2, <2>1
  <2> QED BY <1>1, <1>2, <2>2 DEF Stays, Live
<1>3. CASE rc[u] # None
  <2> DEFINE k == [rc[u] EXCEPT !.leaving = TRUE]
  <2>1. rc[u] \in RayCluster  BY <1>1, <1>3
  <2>2. rc' = [rc EXCEPT ![u] = k]  BY <1>1, <1>3 DEF Leaves
  <2>3. k \in RayCluster  BY <2>1, ClusterSet
  <2>4. k.leaving  BY <2>1 DEF RayCluster
  <2>5. k.uid = rc[u].uid /\ k.shape = rc[u].shape /\ k.gpus = rc[u].gpus /\ k.head = rc[u].head
    BY <2>1 DEF RayCluster
  <2> HIDE DEF k
  <2> QED BY <1>3, <2>2, <2>3, <2>4, <2>5, SetRc DEF Live
<1> QED BY <1>2, <1>3

\* The pods and tasks of a cluster that is there.
LEMMA PodsRc ==
  ASSUME TypeOK, NEW u \in Users, rc[u] # None, NEW b \in BOOLEAN,
         \/ rc' = [rc EXCEPT ![u].head = TRUE] \/ rc' = [rc EXCEPT ![u].full = TRUE]
         \/ rc' = [rc EXCEPT ![u].busy = b]
  PROVE  /\ rc' \in [Users -> RayCluster \cup {None}]
         /\ \A v \in Users \ {u} : rc'[v] = rc[v]
         /\ rc'[u].leaving = rc[u].leaving
         /\ \A v \in Users : Stays(v)
         /\ rc[u].head => rc'[u].head
         /\ rc' = [rc EXCEPT ![u].busy = b] => rc'[u].head = rc[u].head
<1>1. rc[u] \in RayCluster /\ rc \in [Users -> RayCluster \cup {None}]  BY DEF TypeOK
<1>5. rc' = [rc EXCEPT ![u].busy = b] => rc'[u].head = rc[u].head  BY <1>1 DEF RayCluster
<1>2. CASE rc' = [rc EXCEPT ![u].head = TRUE]
  <2> DEFINE k == [rc[u] EXCEPT !.head = TRUE]
  <2>1. rc' = [rc EXCEPT ![u] = k]  BY <1>1, <1>2
  <2>2. k \in RayCluster  BY <1>1, ClusterSet
  <2>3. k.uid = rc[u].uid /\ k.shape = rc[u].shape /\ k.gpus = rc[u].gpus /\ k.leaving = rc[u].leaving
        /\ k.head
    BY <1>1 DEF RayCluster
  <2> HIDE DEF k
  <2> QED BY <1>2, <1>5, <2>1, <2>2, <2>3, SetRc
<1>3. CASE rc' = [rc EXCEPT ![u].full = TRUE]
  <2> DEFINE k == [rc[u] EXCEPT !.full = TRUE]
  <2>1. rc' = [rc EXCEPT ![u] = k]  BY <1>1, <1>3
  <2>2. k \in RayCluster  BY <1>1, ClusterSet
  <2>3. k.uid = rc[u].uid /\ k.shape = rc[u].shape /\ k.gpus = rc[u].gpus /\ k.leaving = rc[u].leaving
        /\ k.head = rc[u].head
    BY <1>1 DEF RayCluster
  <2> HIDE DEF k
  <2> QED BY <1>3, <1>5, <2>1, <2>2, <2>3, SetRc
<1>4. CASE rc' = [rc EXCEPT ![u].busy = b]
  <2> DEFINE k == [rc[u] EXCEPT !.busy = b]
  <2>1. rc' = [rc EXCEPT ![u] = k]  BY <1>1, <1>4
  <2>2. k \in RayCluster  BY <1>1, ClusterSet
  <2>3. k.uid = rc[u].uid /\ k.shape = rc[u].shape /\ k.gpus = rc[u].gpus /\ k.leaving = rc[u].leaving
        /\ k.head = rc[u].head
    BY <1>1 DEF RayCluster
  <2> HIDE DEF k
  <2> QED BY <1>4, <1>5, <2>1, <2>2, <2>3, SetRc
<1> QED BY <1>2, <1>3, <1>4

\* ... and one that grows older.
LEMMA TickRc ==
  ASSUME TypeOK, Tick
  PROVE  /\ rc' \in [Users -> RayCluster \cup {None}]
         /\ \A v \in Users : Stays(v)
         /\ \A v \in Users : rc[v] # None => rc'[v].leaving = rc[v].leaving /\ rc'[v].head = rc[v].head
<1> DEFINE k(v) == [rc[v] EXCEPT !.age = Min2(@ + 1, Provision)]
<1>1. ASSUME NEW v \in Users, rc[v] # None
      PROVE  /\ k(v) \in RayCluster /\ k(v) # None
             /\ k(v).uid = rc[v].uid /\ k(v).shape = rc[v].shape /\ k(v).gpus = rc[v].gpus
             /\ k(v).leaving = rc[v].leaving /\ k(v).head = rc[v].head
  <2>1. rc[v] \in RayCluster  BY <1>1 DEF TypeOK
  <2>2. Min2(rc[v].age + 1, Provision) \in Nat  BY <2>1, TimesAssumption DEF Min2, RayCluster
  <2>3. k(v) = [rc[v] EXCEPT !.age = Min2(rc[v].age + 1, Provision)]  OBVIOUS
  <2>4. k(v) \in RayCluster  BY <2>1, <2>2, <2>3, ClusterSet
  <2>5. k(v) # None  BY <2>4, NoneAssumption
  <2> QED BY <2>1, <2>4, <2>5 DEF RayCluster
<1>2. rc' = [v \in Users |-> IF rc[v] = None THEN None ELSE k(v)]  BY DEF Tick
<1> HIDE DEF k
<1>3. rc' \in [Users -> RayCluster \cup {None}]  BY <1>1, <1>2
<1> QED BY <1>1, <1>2, <1>3 DEF Stays

-----------------------------------------------------------------------------
(* Every step keeps the types, and calls in their order. *)

Base == TypeOK /\ Asking /\ Locked

Asks2 == {"relay", "start"}
Well(k) ==
  /\ k.kind \in Asks2 => k.shape \in Shapes /\ ShapeOK(k.shape)
  /\ k.pc \in {"admit", "admitting", "leaving", "create", "head", "relayed"} => k.kind \in Asks2
  /\ k.pc = "idle" => k = NoCall

\* Who asks asks well, call by call,
LEMMA WellAsks == Asking <=> \A c \in Clients : Well(call[c])
BY DEF Asking, Well, Asks2, Starting, At

\* ... and no call does.
LEMMA NoCallWell == Well(NoCall)
BY NoCallType DEF Well, Asks2

\* A call that goes on, not into an admission, keeps what is asked and locked.
LEMMA StepsKeep ==
  ASSUME Base, NEW c \in Clients, Steps(c), Well(call'[c]), call'[c].pc # "admitting",
         \A d \in Clients \ {c} : lock = d => lock' = d
  PROVE  Asking' /\ Locked'
<1>1. \A d \in Clients : Well(call'[d])  BY WellAsks DEF Base, Steps
<1>2. Asking'  BY <1>1 DEF Asking, Well, Asks2, Starting, At
<1>3. Locked'  BY DEF Base, Locked, Steps, At
<1> QED BY <1>2, <1>3

\* A step that changes neither calls nor the lock.
LEMMA QuietKeeps == ASSUME Base, UNCHANGED <<call, lock>> PROVE Asking' /\ Locked'
BY DEF Base, Asking, Locked, Starting, At, NoCall

\* The base holds at the start.
LEMMA InitBase == Init => Base
<1> SUFFICES ASSUME Init PROVE Base  OBVIOUS
<1>1. hist \in HistType  BY DEF Init, HistType
<1>2. call \in [Clients -> CallType]  BY NoCallType DEF Init
<1>3. reaper \in ReaperType /\ reaper.pc = "asleep"  BY DEF Init, Asleep, ReaperType
<1>4. TypeOK  BY <1>1, <1>2, <1>3, OwnersAssumption DEF Init, TypeOK
<1>5. Asking /\ Locked
  BY NoCallType, NoCallWell, WellAsks DEF Init, Locked, At
<1> QED BY <1>4, <1>5 DEF Base

\* A served call.
LEMMA ServeKeeps ==
  ASSUME Base, NEW c \in Clients, NEW kind \in Asks2, NEW shape \in Shapes, ShapeOK(shape),
         Serve(c, kind, shape), UNCHANGED lock
  PROVE  /\ Steps(c) /\ Asking' /\ Locked' /\ hist' \in HistType /\ SameFlags
         /\ call'[c].pc \in {"idle", "relayed"} /\ (call'[c].kind = "relay" => ~call'[c].raced)
         /\ hist'.mixed = FoundMixed(owner[c], shape)
         /\ hist'.asked[owner[c]] = 0
         /\ \A v \in Users \ {owner[c]} : hist'.asked[v] = hist.asked[v]
         /\ \A d \in Clients \ {c} : hist'.lost[d] = hist.lost[d]
         /\ lastUsed' \in [Users -> 0..Idle \cup {None}] /\ lastUsed'[owner[c]] = 0
         /\ \A v \in Users \ {owner[c]} : lastUsed'[v] = lastUsed[v]
         /\ clients' \in [Users -> SUBSET Clients] /\ gone' \in [Clients -> 0..GoneFor \cup {None}]
         /\ session' \in [Clients -> Nat \cup {None}]
<1> DEFINE u == owner[c]
<1>1. u \in Users /\ TypeOK  BY DEF Base, TypeOK
<1>2. /\ lastUsed' \in [Users -> 0..Idle \cup {None}] /\ lastUsed'[u] = 0
      /\ \A v \in Users \ {u} : lastUsed'[v] = lastUsed[v]
  BY <1>1, TimesAre DEF Serve, TypeOK
<1>3. CASE kind = "relay"
  <2>1. Attach(c, u, shape)  BY <1>3 DEF Serve
  <2>2. Steps(c) /\ call'[c].pc = "relayed" /\ call'[c].kind = "relay" /\ call'[c].shape = shape
        /\ ~call'[c].raced
    <3>1. call' = [call EXCEPT ![c] = [NoCall EXCEPT !.pc = "relayed", !.kind = "relay", !.shape = shape]]
      BY <2>1 DEF Attach
    <3>2. "relayed" \in Pcs /\ "relay" \in {"relay", "start", "stop", "force"}  BY DEF Pcs
    <3> QED BY <1>1, <3>1, <3>2, BeginSteps
  <2>3. Well(call'[c])  BY <2>2 DEF Well, Asks2
  <2>4. Asking' /\ Locked'  BY <2>2, <2>3, StepsKeep
  <2>5. clients' \in [Users -> SUBSET Clients] /\ gone' \in [Clients -> 0..GoneFor \cup {None}]
    BY <1>1, <2>1 DEF Attach, TypeOK
  <2>6. session' \in [Clients -> Nat \cup {None}]
    BY <1>1, <2>1 DEF Attach, TypeOK, RayCluster
  <2>7. hist' = [Found(u, shape) EXCEPT !.asked[u] = 0, !.lost[c] = None]  BY <2>1 DEF Attach
  <2>8. /\ hist' \in HistType /\ SameFlags /\ hist'.mixed = FoundMixed(u, shape)
        /\ hist'.lost[c] = None /\ \A d \in Clients \ {c} : hist'.lost[d] = hist.lost[d]
        /\ hist'.asked[u] = 0 /\ \A v \in Users \ {u} : hist'.asked[v] = hist.asked[v]
    <3> HIDE DEF u
    <3> QED BY <1>1, <2>7, AttachHist
  <2> QED BY <1>2, <2>2, <2>4, <2>5, <2>6, <2>8
<1>4. CASE kind # "relay"
  <2>1. Ends(c) /\ UNCHANGED <<clients, gone, session>>
        /\ hist' = [Found(u, shape) EXCEPT !.asked[u] = 0]
    BY <1>4 DEF Serve
  <2>2. Steps(c) /\ call'[c] = NoCall  BY <1>1, <2>1, EndsSteps
  <2>3. Asking' /\ Locked'  BY <2>2, StepsKeep, NoCallWell, NoCallType
  <2> QED BY <1>1, <1>2, <2>1, <2>2, <2>3, FoundHist, NoCallType DEF TypeOK
<1> QED BY <1>3, <1>4

\* A call that goes on with what it is for.
LEMMA SameWell ==
  ASSUME Base, NEW c \in Clients, Same(c), call'[c].pc # "idle",
         call'[c].pc \in {"admit", "admitting", "leaving", "create", "head", "relayed"} => Starting(c)
  PROVE  Well(call'[c])
BY WellAsks DEF Base, Same, Well, Starting, Asks2

\* What the reaper goes on to has its type.
LEMMA ReaperSet ==
  ASSUME TypeOK
  PROVE  /\ Asleep \in ReaperType /\ Asleep.pc = "asleep"
         /\ \A u \in Users : Passed(u) \in ReaperType /\ Passed(u).pc \in {"asleep", "next"}
         /\ \A u \in Users, pc \in {"late", "idle"} :
              /\ [reaper EXCEPT !.at = u, !.pc = pc] \in ReaperType
              /\ [reaper EXCEPT !.at = u, !.pc = pc].pc = pc
              /\ [reaper EXCEPT !.at = u, !.pc = pc].at = u
         /\ /\ [reaper EXCEPT !.pc = "deleted"] \in ReaperType
            /\ [reaper EXCEPT !.pc = "deleted"].pc = "deleted"
            /\ [reaper EXCEPT !.pc = "deleted"].at = reaper.at
<1>1. reaper \in ReaperType  BY DEF TypeOK
<1>2. Asleep \in ReaperType /\ Asleep.pc = "asleep"  BY DEF Asleep, ReaperType
<1>3. \A u \in Users : Passed(u) \in ReaperType /\ Passed(u).pc \in {"asleep", "next"}
  BY <1>1, <1>2 DEF Passed, ReaperType
<1> QED BY <1>1, <1>2, <1>3 DEF ReaperType

\* A user forgotten leaves the memory of its type.
LEMMA ForgetType ==
  ASSUME TypeOK, NEW u \in Users, Forget(u)
  PROVE  /\ started' \in [Users -> Shapes \cup {None}] /\ clients' \in [Users -> SUBSET Clients]
         /\ gone' \in [Clients -> 0..GoneFor \cup {None}]
BY TimesAre DEF TypeOK, Forget

\* Calls past a deletion that is answered.
LEMMA ClosedWell ==
  ASSUME Base, NEW u \in Users, NEW d \in Clients
  PROVE  /\ Well(Closed(u)[d])
         /\ Closed(u)[d].pc = "admitting" => /\ call[d].pc = "admitting"
                                             /\ Closed(u)[d].others = call[d].others
                                             /\ Closed(u)[d].granted = call[d].granted
<1>1. TypeOK /\ Well(call[d])  BY WellAsks DEF Base
<1>2. CASE owner[d] # u \/ At(d, "idle")  BY <1>1, <1>2, ClosedIs
<1>3. CASE owner[d] = u /\ ~At(d, "idle")
  <2>1. CASE Closed(u)[d] = NoCall  BY <2>1, NoCallWell, NoCallType
  <2>2. CASE /\ ~At(d, "relayed") /\ Closed(u)[d].raced /\ Closed(u)[d].pc = call[d].pc
             /\ Closed(u)[d].kind = call[d].kind /\ Closed(u)[d].shape = call[d].shape
             /\ Closed(u)[d].others = call[d].others /\ Closed(u)[d].granted = call[d].granted
    <3>1. Closed(u)[d].pc # "idle"  BY <1>3, <2>2 DEF At
    <3>2. Well(Closed(u)[d])  BY <1>1, <2>2, <3>1 DEF Well
    <3> QED BY <2>2, <3>2
  <2> QED BY <1>1, <1>3, <2>1, <2>2, ClosedIs
<1> QED BY <1>2, <1>3

\* A call that begins or ends keeps the base,
LEMMA BeginsBase ==
  ASSUME Base, NEW c \in Clients,
         \/ Told(c)
         \/ \E kind \in Kinds[c] \cap {"relay", "start"}, s \in Callable(c) :
              ServeStarted(c, kind, s) \/ Begin(c, kind, s)
         \/ \E kind \in Kinds[c] \cap {"stop", "force"} : Begin(c, kind, None)
         \/ Ask(c) \/ Send(c) \/ StreamEnds(c)
  PROVE  Base'
<1> DEFINE u == owner[c]
<1>0. u \in Users /\ TypeOK /\ Well(call[c])  BY WellAsks DEF Base, TypeOK
<1>s. \A s \in Callable(c) : s \in Shapes /\ ShapeOK(s)  BY DEF Callable, Shapes
<1>1. CASE Told(c)
  <2>1. UNCHANGED <<owner, rc, made, gateway, call, lock, reaper, session, hist>>  BY <1>1 DEF Told
  <2>2. TypeOK'  BY <1>0, <2>1 DEF TypeOK, gateway
  <2>3. Asking' /\ Locked'  BY <2>1, QuietKeeps
  <2> QED BY <2>2, <2>3 DEF Base
<1>2. ASSUME NEW kind \in {"relay", "start"}, NEW s \in Callable(c), ServeStarted(c, kind, s)
      PROVE  Base'
  <2>1. Serve(c, kind, s) /\ UNCHANGED <<owner, rc, made, started, grants, lock, reaper>>
    BY <1>2 DEF ServeStarted
  <2>2. kind \in Asks2 /\ s \in Shapes /\ ShapeOK(s)  BY <1>s DEF Asks2
  <2>3. /\ Steps(c) /\ Asking' /\ Locked' /\ hist' \in HistType
        /\ lastUsed' \in [Users -> 0..Idle \cup {None}]
        /\ clients' \in [Users -> SUBSET Clients] /\ gone' \in [Clients -> 0..GoneFor \cup {None}]
        /\ session' \in [Clients -> Nat \cup {None}]
    BY <2>1, <2>2, ServeKeeps
  <2>4. TypeOK'  BY <1>0, <2>1, <2>3 DEF TypeOK, Steps
  <2> QED BY <2>3, <2>4 DEF Base
<1>3. ASSUME NEW kind \in {"relay", "start", "stop", "force"}, NEW s \in Shapes \cup {None},
             kind \in Asks2 => s \in Shapes /\ ShapeOK(s), Begin(c, kind, s)
      PROVE  Base'
  <2>1. UNCHANGED <<owner, rc, made, gateway, lock, reaper, session, hist>>
        /\ call' = [call EXCEPT ![c] = [NoCall EXCEPT !.pc = "get", !.kind = kind, !.shape = s]]
    BY <1>3 DEF Begin
  <2>2. "get" \in Pcs  BY DEF Pcs
  <2>3. Steps(c) /\ call'[c].pc = "get" /\ call'[c].kind = kind /\ call'[c].shape = s
    BY <1>0, <2>1, <2>2, BeginSteps
  <2>4. Well(call'[c])  BY <1>3, <2>3 DEF Well
  <2>5. Asking' /\ Locked'  BY <2>1, <2>3, <2>4, StepsKeep
  <2>6. TypeOK'  BY <1>0, <2>1, <2>3 DEF TypeOK, Steps, gateway
  <2> QED BY <2>5, <2>6 DEF Base
<1>4. CASE Ask(c)
  <2>1. /\ UNCHANGED <<owner, rc, made, clients, gone, grants, call, lock, reaper, session>>
        /\ lastUsed' = [lastUsed EXCEPT ![u] = 0] /\ hist' = [hist EXCEPT !.asked[u] = 0]
        /\ started' = [started EXCEPT ![u] = IF HeadAnswers(u) THEN @ ELSE None]
    BY <1>4 DEF Ask
  <2> HIDE DEF u
  <2>2. hist' \in HistType  BY <1>0, <2>1, AskedHist
  <2>3. lastUsed' \in [Users -> 0..Idle \cup {None}] /\ started' \in [Users -> Shapes \cup {None}]
    BY <1>0, <2>1, TimesAre DEF TypeOK
  <2>4. TypeOK'  BY <1>0, <2>1, <2>2, <2>3 DEF TypeOK
  <2> QED BY <2>1, <2>4, QuietKeeps DEF Base
<1>5. CASE Send(c)
  <2>1. /\ UNCHANGED <<owner, made, started, clients, gone, grants, call, lock, reaper, session>>
        /\ lastUsed' = [lastUsed EXCEPT ![u] = 0] /\ hist' = [hist EXCEPT !.asked[u] = 0]
        /\ HeadAnswers(u) /\ \E b \in BOOLEAN : rc' = [rc EXCEPT ![u].busy = @ \/ b]
    BY <1>5 DEF Send
  <2> HIDE DEF u
  <2>2. hist' \in HistType  BY <1>0, <2>1, AskedHist
  <2>3. lastUsed' \in [Users -> 0..Idle \cup {None}]
    BY <1>0, <2>1, TimesAre DEF TypeOK
  <2>4. PICK b \in BOOLEAN : rc' = [rc EXCEPT ![u].busy = @ \/ b]  BY <2>1
  <2> DEFINE x == rc[u].busy \/ b
  <2>5. rc[u] # None  BY <2>1 DEF HeadAnswers
  <2>6. rc' = [rc EXCEPT ![u].busy = x] /\ x \in BOOLEAN  BY <2>4
  <2> HIDE DEF x
  <2>7. rc' \in [Users -> RayCluster \cup {None}]  BY <1>0, <2>5, <2>6, PodsRc
  <2>8. TypeOK'  BY <1>0, <2>1, <2>2, <2>3, <2>7 DEF TypeOK
  <2> QED BY <2>1, <2>8, QuietKeeps DEF Base
<1>6. CASE StreamEnds(c)
  <2>1. /\ UNCHANGED <<owner, rc, made, lastUsed, clients, gone, grants, lock, reaper, session, hist>>
        /\ started' = [started EXCEPT ![u] = IF HeadAnswers(u) THEN @ ELSE None]
        /\ Ends(c)
    BY <1>6 DEF StreamEnds
  <2>2. Steps(c) /\ call'[c] = NoCall  BY <1>0, <2>1, EndsSteps
  <2>3. Asking' /\ Locked'  BY <2>1, <2>2, StepsKeep, NoCallWell, NoCallType
  <2>4. started' \in [Users -> Shapes \cup {None}]  BY <1>0, <2>1 DEF TypeOK
  <2>5. TypeOK'  BY <1>0, <2>1, <2>2, <2>4 DEF TypeOK, Steps
  <2> QED BY <2>3, <2>5 DEF Base
<1>7. ASSUME NEW kind \in {"relay", "start"}, NEW s \in Callable(c), Begin(c, kind, s) PROVE Base'
  BY <1>3, <1>7, <1>s
<1>8. ASSUME NEW kind \in {"stop", "force"}, Begin(c, kind, None) PROVE Base'
  BY <1>3, <1>8 DEF Asks2
<1> QED BY <1>1, <1>2, <1>4, <1>5, <1>6, <1>7, <1>8

\* ... one that goes on,
LEMMA CallsBase ==
  ASSUME Base, NEW c \in Clients, CallStep(c)
  PROVE  Base'
<1> DEFINE u == owner[c]
<1>0. u \in Users /\ TypeOK /\ Well(call[c]) /\ Asking /\ Locked  BY WellAsks DEF Base, TypeOK
<1>1. CASE GetCluster(c)
  <2>1. /\ UNCHANGED <<owner, rc, made, started, clients, gone, grants, lock, reaper, session>>
        /\ lastUsed' = [lastUsed EXCEPT ![u] = 0] /\ hist' = [hist EXCEPT !.asked[u] = 0]
        /\ Starting(c)
    BY <1>1 DEF GetCluster
  <2>2. Steps(c) /\ Same(c) /\ call'[c].pc \in {"head", "busy", "admit"}  BY <1>0, <1>1, GetSteps
  <2>3. Asking' /\ Locked'  BY <2>1, <2>2, SameWell, StepsKeep
  <2> HIDE DEF u
  <2>4. hist' \in HistType  BY <1>0, <2>1, AskedHist
  <2>5. lastUsed' \in [Users -> 0..Idle \cup {None}]  BY <1>0, <2>1, TimesAre DEF TypeOK
  <2>6. TypeOK'  BY <1>0, <2>1, <2>2, <2>4, <2>5 DEF TypeOK, Steps
  <2> QED BY <2>3, <2>6 DEF Base
<1>e. ASSUME Ends(c), UNCHANGED <<owner, rc, made, started, lastUsed, clients, gone, reaper, session, hist>>,
             grants' \in [Users -> Granted \cup {None}],
             lock' = lock \/ lock' = IF lock = c THEN None ELSE lock
      PROVE  Base'
  <2>1. Steps(c) /\ call'[c] = NoCall  BY <1>0, <1>e, EndsSteps
  <2>2. \A d \in Clients \ {c} : lock = d => lock' = d  BY <1>e
  <2>3. Asking' /\ Locked'  BY <2>1, <2>2, StepsKeep, NoCallWell, NoCallType
  <2>4. TypeOK'  BY <1>0, <1>e, <2>1 DEF TypeOK, Steps
  <2> QED BY <2>3, <2>4 DEF Base
<1>g. ASSUME NEW pc \in Pcs, Goes(c, pc), pc \notin {"idle", "admitting"},
             pc \in {"admit", "leaving", "create", "head", "relayed"} => Starting(c),
             UNCHANGED <<owner, made, gateway, lock, reaper, session, hist>>,
             rc' \in [Users -> RayCluster \cup {None}]
      PROVE  Base'
  <2>1. Steps(c) /\ Same(c) /\ call'[c].pc = pc  BY <1>0, <1>g, GoesSteps
  <2>2. Asking' /\ Locked'  BY <1>g, <2>1, SameWell, StepsKeep
  <2>3. TypeOK'  BY <1>0, <1>g, <2>1 DEF TypeOK, Steps, gateway
  <2> QED BY <2>2, <2>3 DEF Base
<1>2. CASE GetToStop(c)
  <2>1. Ends(c) \/ Goes(c, "delete") \/ Goes(c, "busy")  BY <1>2 DEF GetToStop
  <2>2. UNCHANGED <<owner, rc, made, gateway, lock, reaper, session, hist>>  BY <1>2 DEF GetToStop
  <2> QED BY <1>0, <1>e, <1>g, <2>1, <2>2 DEF Pcs, gateway, TypeOK
<1>3. CASE AskBusy(c)
  <2>1. Ends(c) \/ (Goes(c, "admit") /\ Starting(c)) \/ Goes(c, "delete")  BY <1>3 DEF AskBusy
  <2>2. UNCHANGED <<owner, rc, made, gateway, lock, reaper, session, hist>>  BY <1>3 DEF AskBusy
  <2> QED BY <1>0, <1>e, <1>g, <2>1, <2>2 DEF Pcs, gateway, TypeOK
<1>4. CASE AdmitList(c)
  <2>1. /\ Steps(c) /\ Same(c) /\ call'[c].pc = "admitting" /\ lock' = c /\ lock = None
        /\ call'[c].others \in HeldType /\ call'[c].granted \in HeldType
        /\ grants' \in [Users -> Granted \cup {None}]
    BY <1>0, <1>4, ListSteps
  <2>2. UNCHANGED <<owner, rc, made, started, lastUsed, clients, gone, reaper, session, hist>>
        /\ call[c].pc = "admit"
    BY <1>4 DEF AdmitList, At
  <2>3. Starting(c)  BY <1>0, <2>2 DEF Well, Starting, Asks2
  <2>4. Well(call'[c])  BY <2>1, <2>3, SameWell
  <2>5. \A d \in Clients : Well(call'[d])  BY <2>1, <2>4, WellAsks DEF Base, Steps
  <2>6. Asking'  BY <2>5 DEF Asking, Well, Asks2, Starting, At
  <2>7. Locked'
    <3>1. \A d \in Clients \ {c} : call'[d].pc # "admitting"
      BY <1>0, <2>1, NoneAssumption DEF Locked, Steps, At
    <3> QED BY <2>1, <3>1 DEF Locked, At
  <2>8. TypeOK'  BY <1>0, <2>1, <2>2 DEF TypeOK, Steps
  <2> QED BY <2>6, <2>7, <2>8 DEF Base
<1>5. ASSUME NEW free \in FreeGpus, AdmitDecide(c, free) PROVE Base'
  <2>1. /\ Steps(c) /\ lock' = None /\ call[c].pc = "admitting" /\ hist' \in HistType
        /\ \/ call'[c] = NoCall /\ grants' = grants
           \/ /\ Same(c) /\ call'[c].pc \in {"delete", "leaving", "create"}
              /\ \E gpus \in Gpus :
                   grants' = [grants EXCEPT ![owner[c]] = [gpus |-> gpus, age |-> 0]]
    BY <1>0, <1>5, DecideIs
  <2>2. UNCHANGED <<owner, rc, made, started, lastUsed, clients, gone, reaper, session>>
    BY <1>5 DEF AdmitDecide
  <2>3. grants' \in [Users -> Granted \cup {None}]
    BY <1>0, <2>1 DEF TypeOK, Granted
  <2>4. Starting(c) /\ lock = c  BY <1>0, <2>1 DEF Well, Starting, Asks2, Locked, At
  <2>5. Well(call'[c]) /\ call'[c].pc # "admitting"  BY <2>1, <2>4, SameWell, NoCallWell, NoCallType
  <2>6. Asking' /\ Locked'  BY <2>1, <2>4, <2>5, StepsKeep
  <2>7. TypeOK'  BY <1>0, <2>1, <2>2, <2>3 DEF TypeOK, Steps
  <2> QED BY <2>6, <2>7 DEF Base
<1>6. CASE Delete(c)
  <2>1. Leaves(u) /\ Goes(c, "deleted") /\ UNCHANGED <<owner, made, gateway, lock, reaper, session, hist>>
    BY <1>6 DEF Delete
  <2>2. rc' \in [Users -> RayCluster \cup {None}]  BY <1>0, <2>1, LeavesRc
  <2> QED BY <1>g, <2>1, <2>2 DEF Pcs
<1>7. CASE Deleted(c)
  <2>1. /\ Forget(u) /\ hist' = Losing(u) /\ UNCHANGED <<owner, rc, made, grants, lock, reaper, session>>
        /\ lastUsed' = [lastUsed EXCEPT ![u] = IF call[c].kind \in {"stop", "force"} THEN None ELSE @]
        /\ call[c].pc = "deleted"
    BY <1>7 DEF Deleted, At
  <2>2. /\ call' \in [Clients -> CallType]
        /\ \A d \in Clients \ {c} : call'[d] = Closed(u)[d]
        /\ Starting(c) => /\ call'[c].pc = "leaving" /\ call'[c].kind = call[c].kind
                          /\ call'[c].shape = call[c].shape /\ call'[c].raced
        /\ ~Starting(c) => call'[c] = NoCall
    BY <1>0, <1>7, DeletedSteps
  <2>3. Well(call'[c])  BY <1>0, <2>2, NoCallWell DEF Well, Starting, Asks2
  <2> HIDE DEF u
  <2>4. \A d \in Clients : Well(call'[d])  BY <1>0, <2>2, <2>3, ClosedWell
  <2>5. Asking'  BY <2>4 DEF Asking, Well, Asks2, Starting, At
  <2>6. Locked'
    <3>1. call'[c].pc # "admitting"  BY <2>2, NoCallType
    <3>2. ASSUME NEW d \in Clients, call'[d].pc = "admitting"
          PROVE  lock' = d /\ call'[d].others \in HeldType /\ call'[d].granted \in HeldType
      <4>1. d # c /\ call'[d] = Closed(u)[d]  BY <2>2, <3>1, <3>2
      <4>2. call[d].pc = "admitting" /\ call'[d].others = call[d].others
            /\ call'[d].granted = call[d].granted
        BY <1>0, <3>2, <4>1, ClosedWell
      <4> QED BY <1>0, <2>1, <4>2 DEF Locked, At
    <3> QED BY <3>2 DEF Locked, At
  <2>7. hist' \in HistType  BY <1>0, <2>1, LosingHist
  <2>8. lastUsed' \in [Users -> 0..Idle \cup {None}]  BY <1>0, <2>1 DEF TypeOK
  <2>9. TypeOK'  BY <1>0, <2>1, <2>2, <2>7, <2>8, ForgetType DEF TypeOK
  <2> QED BY <2>5, <2>6, <2>9 DEF Base
<1>8. CASE Left(c)
  <2>1. Goes(c, "create") /\ UNCHANGED <<owner, rc, made, gateway, lock, reaper, session, hist>>
        /\ call[c].pc = "leaving"
    BY <1>8 DEF Left, At
  <2>2. Starting(c)  BY <1>0, <2>1 DEF Well, Starting, Asks2
  <2> QED BY <1>0, <1>g, <2>1, <2>2 DEF Pcs, TypeOK
<1>9. CASE Create(c)
  <2>1. call[c].pc = "create" /\ UNCHANGED <<owner, gateway, lock, reaper, session>>
    BY <1>9 DEF Create, At
  <2>2. Starting(c)  BY <1>0, <2>1 DEF Well, Starting, Asks2
  <2>3. CASE rc[u] # None
    <3>1. (Ends(c) \/ Goes(c, "head")) /\ UNCHANGED <<rc, made, hist>>  BY <1>9, <2>3 DEF Create
    <3> QED BY <1>0, <1>e, <1>g, <2>1, <2>2, <3>1 DEF Pcs, gateway, TypeOK
  <2>4. CASE rc[u] = None
    <3> DEFINE b == ~Covers(grants[u], call[c].mix)
    <3>1. /\ rc' = [rc EXCEPT ![u] = Built(call[c])] /\ made' = made + 1
          /\ call' = [call EXCEPT ![c].pc = "head", ![c].mix = NoGpus]
          /\ hist' = [hist EXCEPT !.lapsed = @ \/ b]
      BY <1>9, <2>4 DEF Create
    <3>2. b \in BOOLEAN  BY DEF Covers
    <3> HIDE DEF b
    <3>3. hist' \in HistType  BY <1>0, <3>1, <3>2, CreateHist
    <3>4. Steps(c) /\ Same(c) /\ call'[c].pc = "head"  BY <1>0, <3>1, CreateSteps
    <3>5. Asking' /\ Locked'  BY <2>1, <2>2, <3>4, SameWell, StepsKeep
    <3>6. Built(call[c]) \in RayCluster
      <4>1. call[c] \in CallType /\ call[c].shape \in Shapes /\ made \in Nat
        BY <1>0, <2>2 DEF TypeOK, Well, Starting, Asks2
      <4> QED BY <4>1 DEF Built, RayCluster, CallType
    <3>7. rc' \in [Users -> RayCluster \cup {None}] /\ made' \in Nat  BY <1>0, <3>1, <3>6 DEF TypeOK
    <3>8. TypeOK'  BY <1>0, <2>1, <3>3, <3>4, <3>7 DEF TypeOK, Steps, gateway
    <3> QED BY <3>5, <3>8 DEF Base
  <2> QED BY <2>3, <2>4
<1>10. CASE CreateFails(c)
  <2>1. /\ Ends(c) /\ UNCHANGED <<owner, rc, made, started, lastUsed, clients, gone, lock, reaper, session, hist>>
        /\ grants' = [grants EXCEPT ![u] = None]
    BY <1>10 DEF CreateFails
  <2>2. grants' \in [Users -> Granted \cup {None}]  BY <1>0, <2>1 DEF TypeOK
  <2> QED BY <1>e, <2>1, <2>2
<1>11. CASE HeadUp(c)
  <2>1. /\ Serve(c, call[c].kind, call[c].shape) /\ UNCHANGED <<owner, rc, made, grants, lock, reaper>>
        /\ started' = [started EXCEPT ![u] = call[c].shape] /\ call[c].pc = "head"
    BY <1>11 DEF HeadUp, At
  <2>2. call[c].kind \in Asks2 /\ call[c].shape \in Shapes /\ ShapeOK(call[c].shape)
    BY <1>0, <2>1 DEF Well
  <2>3. /\ Steps(c) /\ Asking' /\ Locked' /\ hist' \in HistType
        /\ lastUsed' \in [Users -> 0..Idle \cup {None}]
        /\ clients' \in [Users -> SUBSET Clients] /\ gone' \in [Clients -> 0..GoneFor \cup {None}]
        /\ session' \in [Clients -> Nat \cup {None}]
    BY <2>1, <2>2, ServeKeeps
  <2>4. started' \in [Users -> Shapes \cup {None}]  BY <1>0, <2>1, <2>2 DEF TypeOK
  <2>5. TypeOK'  BY <1>0, <2>1, <2>3, <2>4 DEF TypeOK, Steps
  <2> QED BY <2>3, <2>5 DEF Base
<1>12. CASE HeadOpen(c)
  <2>1. /\ call' = [call EXCEPT ![c].pc = "delete", ![c].kind = "open"]
        /\ UNCHANGED <<owner, rc, made, gateway, lock, reaper, session, hist>>
    BY <1>12 DEF HeadOpen
  <2>2. Steps(c) /\ call'[c].pc = "delete" /\ call'[c].kind = "open"  BY <1>0, <2>1, OpenSteps
  <2>3. Well(call'[c])  BY <2>2 DEF Well, Asks2
  <2>4. Asking' /\ Locked'  BY <2>1, <2>2, <2>3, StepsKeep
  <2>5. TypeOK'  BY <1>0, <2>1, <2>2 DEF TypeOK, Steps, gateway
  <2> QED BY <2>4, <2>5 DEF Base
<1>13. CASE Refuse(c)
  <2>1. Ends(c) /\ UNCHANGED <<owner, rc, made, gateway, reaper, session, hist>>
        /\ lock' = IF lock = c THEN None ELSE lock
    BY <1>13 DEF Refuse
  <2> QED BY <1>0, <1>e, <2>1 DEF TypeOK, gateway
<1> QED BY <1>1, <1>2, <1>3, <1>4, <1>5, <1>6, <1>7, <1>8, <1>9, <1>10, <1>11, <1>12, <1>13 DEF CallStep

\* ... the reaper, pods, time and a restart,
LEMMA OthersBase ==
  ASSUME Base, Reap \/ (\E u \in Users : PodsStart(u) \/ TasksEnd(u) \/ PodsLeave(u)) \/ Tick \/ Restart
  PROVE  Base'
<1>0. TypeOK /\ Asking /\ Locked /\ owner \in [Clients -> Users]  BY DEF Base, TypeOK
<1>1. CASE ReapList
  <2>1. /\ UNCHANGED <<owner, rc, made, gateway, call, lock, session, hist>>
        /\ reaper' = [todo |-> {u \in Users : rc[u] # None},
                      late |-> {u \in Users : Unprovisioned(rc[u])}, at |-> None, pc |-> "next"]
    BY <1>1 DEF ReapList
  <2>2. reaper' \in ReaperType /\ reaper'.pc = "next"  BY <2>1 DEF ReaperType
  <2>3. TypeOK'  BY <1>0, <2>1, <2>2 DEF TypeOK, gateway
  <2> QED BY <2>1, <2>3, QuietKeeps DEF Base
<1>2. ASSUME NEW u \in Users, ReapLate(u) PROVE Base'
  <2>1. /\ UNCHANGED <<owner, rc, made, gateway, call, lock, session, hist>>
        /\ reaper' = [reaper EXCEPT !.at = u, !.pc = "late"]
    BY <1>2 DEF ReapLate
  <2>2. reaper' \in ReaperType /\ reaper'.at = u  BY <1>0, <2>1, ReaperSet
  <2>3. TypeOK'  BY <1>0, <2>1, <2>2 DEF TypeOK, gateway
  <2> QED BY <2>1, <2>3, QuietKeeps DEF Base
<1>3. ASSUME NEW u \in Users, ReapAsk(u) PROVE Base'
  <2>1. PICK b \in BOOLEAN :
          /\ lastUsed' = [lastUsed EXCEPT ![u] = IF b \/ @ = None THEN 0 ELSE @]
          /\ reaper' = IF ~b /\ lastUsed[u] = Idle
                       THEN [reaper EXCEPT !.at = u, !.pc = "idle"] ELSE Passed(u)
    BY <1>3 DEF ReapAsk
  <2>2. UNCHANGED <<owner, rc, made, started, clients, gone, grants, call, lock, session, hist>>
    BY <1>3 DEF ReapAsk
  <2>3. reaper' \in ReaperType /\ (reaper'.pc \in {"late", "idle", "deleted"} => reaper'.at \in Users)
    BY <1>0, <2>1, ReaperSet
  <2>4. lastUsed' \in [Users -> 0..Idle \cup {None}]  BY <1>0, <2>1, TimesAre DEF TypeOK
  <2>5. TypeOK'  BY <1>0, <2>2, <2>3, <2>4 DEF TypeOK
  <2> QED BY <2>2, <2>5, QuietKeeps DEF Base
<1>4. CASE ReapDelete
  <2>1. UNCHANGED <<owner, made, gateway, call, lock, session, hist>> /\ reaper.pc \in {"late", "idle"}
    BY <1>4 DEF ReapDelete
  <2>2. reaper.at \in Users  BY <1>0, <2>1 DEF TypeOK
  <2>3. \/ Leaves(reaper.at) /\ reaper' = [reaper EXCEPT !.pc = "deleted"]
        \/ reaper' = Passed(reaper.at) /\ UNCHANGED rc
    BY <1>4 DEF ReapDelete
  <2>4. reaper' \in ReaperType /\ (reaper'.pc \in {"late", "idle", "deleted"} => reaper'.at \in Users)
    BY <1>0, <2>2, <2>3, ReaperSet
  <2>5. rc' \in [Users -> RayCluster \cup {None}]  BY <1>0, <2>2, <2>3, LeavesRc DEF TypeOK
  <2>6. TypeOK'  BY <1>0, <2>1, <2>4, <2>5 DEF TypeOK, gateway
  <2> QED BY <2>1, <2>6, QuietKeeps DEF Base
<1>5. CASE ReapDeleted
  <2> DEFINE u == reaper.at
  <2>1. /\ Forget(u) /\ hist' = Losing(u) /\ call' = Closed(u)
        /\ lastUsed' = [lastUsed EXCEPT ![u] = None] /\ reaper' = Passed(u) /\ reaper.pc = "deleted"
        /\ UNCHANGED <<owner, rc, made, grants, lock, session>>
    BY <1>5 DEF ReapDeleted
  <2>2. u \in Users  BY <1>0, <2>1 DEF TypeOK
  <2> HIDE DEF u
  <2>3. \A d \in Clients : Well(call'[d])  BY <2>1, <2>2, ClosedWell
  <2>4. Asking'  BY <2>3 DEF Asking, Well, Asks2, Starting, At
  <2>5. Locked'
    <3>1. ASSUME NEW d \in Clients, call'[d].pc = "admitting"
          PROVE  lock' = d /\ call'[d].others \in HeldType /\ call'[d].granted \in HeldType
      <4>1. call[d].pc = "admitting" /\ call'[d].others = call[d].others
            /\ call'[d].granted = call[d].granted
        BY <2>1, <2>2, <3>1, ClosedWell
      <4> QED BY <1>0, <2>1, <4>1 DEF Locked, At
    <3> QED BY <3>1 DEF Locked, At
  <2>6. hist' \in HistType  BY <1>0, <2>1, <2>2, LosingHist
  <2>7. lastUsed' \in [Users -> 0..Idle \cup {None}]  BY <1>0, <2>1, <2>2 DEF TypeOK
  <2>8. reaper' \in ReaperType /\ reaper'.pc \in {"asleep", "next"}  BY <1>0, <2>1, <2>2, ReaperSet
  <2>9. call' \in [Clients -> CallType]  BY <1>0, <2>1, <2>2, ClosedIs
  <2>10. TypeOK'  BY <1>0, <2>1, <2>2, <2>6, <2>7, <2>8, <2>9, ForgetType DEF TypeOK
  <2> QED BY <2>4, <2>5, <2>10 DEF Base
<1>p. ASSUME rc' \in [Users -> RayCluster \cup {None}],
             UNCHANGED <<owner, made, gateway, call, lock, reaper, session, hist>>
      PROVE  Base'
  <2>1. TypeOK'  BY <1>0, <1>p DEF TypeOK, gateway
  <2> QED BY <1>p, <2>1, QuietKeeps DEF Base
<1>6. ASSUME NEW u \in Users, PodsStart(u) PROVE Base'
  <2>1. rc[u] # None /\ UNCHANGED <<owner, made, gateway, call, lock, reaper, session, hist>>
        /\ (rc' = [rc EXCEPT ![u].head = TRUE] \/ rc' = [rc EXCEPT ![u].full = TRUE])
    BY <1>6 DEF PodsStart, Live
  <2>2. rc' \in [Users -> RayCluster \cup {None}]  BY <1>0, <2>1, PodsRc
  <2> QED BY <1>p, <2>1, <2>2
<1>7. ASSUME NEW u \in Users, TasksEnd(u) PROVE Base'
  <2>1. rc[u] # None /\ UNCHANGED <<owner, made, gateway, call, lock, reaper, session, hist>>
        /\ rc' = [rc EXCEPT ![u].busy = FALSE]
    BY <1>7 DEF TasksEnd
  <2>2. rc' \in [Users -> RayCluster \cup {None}]  BY <1>0, <2>1, PodsRc
  <2> QED BY <1>p, <2>1, <2>2
<1>8. ASSUME NEW u \in Users, PodsLeave(u) PROVE Base'
  <2>1. UNCHANGED <<owner, made, gateway, call, lock, reaper, session, hist>>
        /\ rc' = [rc EXCEPT ![u] = None]
    BY <1>8 DEF PodsLeave
  <2>2. rc' \in [Users -> RayCluster \cup {None}]  BY <1>0, <2>1 DEF TypeOK
  <2> QED BY <1>p, <2>1, <2>2
<1>9. CASE Tick
  <2>1. /\ UNCHANGED <<owner, made, started, clients, lock, reaper, session>>
        /\ lastUsed' = [u \in Users |-> Older(lastUsed[u], Idle)]
        /\ gone' = [c \in Clients |-> IF gone[c] = None \/ gone[c] + 1 >= GoneFor THEN None
                                      ELSE gone[c] + 1]
        /\ grants' = [u \in Users |-> IF grants[u] = None THEN None
                                      ELSE [grants[u] EXCEPT !.age = Min2(@ + 1, Grant)]]
    BY <1>9 DEF Tick
  <2>2. /\ call' \in [Clients -> CallType]
        /\ \A d \in Clients : /\ call'[d].pc = call[d].pc /\ call'[d].kind = call[d].kind
                              /\ call'[d].shape = call[d].shape /\ call'[d].raced = call[d].raced
                              /\ At(d, "idle") => call'[d] = call[d]
                              /\ call[d].pc \in {"idle", "leaving", "head", "relayed"}
    BY <1>0, <1>9, TickSteps
  <2>3. \A d \in Clients : Well(call'[d])  BY <1>0, <2>2, WellAsks DEF Well, At
  <2>4. Asking'  BY <2>3 DEF Asking, Well, Asks2, Starting, At
  <2>5. Locked'  BY <2>2 DEF Locked, At
  <2>6. lastUsed' \in [Users -> 0..Idle \cup {None}]  BY <1>0, <2>1, OlderIs, TimesAre DEF TypeOK
  <2>7. gone' \in [Clients -> 0..GoneFor \cup {None}]
    BY <1>0, <2>1, NoneAssumption, TimesAre DEF TypeOK
  <2>8. grants' \in [Users -> Granted \cup {None}]
    BY <1>0, <2>1, TimesAssumption DEF TypeOK, Granted, Min2
  <2>9. hist' \in HistType /\ rc' \in [Users -> RayCluster \cup {None}]
    BY <1>0, <1>9, TickHist, TickRc
  <2>10. TypeOK'  BY <1>0, <2>1, <2>2, <2>6, <2>7, <2>8, <2>9 DEF TypeOK
  <2> QED BY <2>4, <2>5, <2>10 DEF Base
<1>10. CASE Restart
  <2>1. /\ UNCHANGED <<owner, rc, made>> /\ lock' = None /\ reaper' = Asleep
        /\ started' = [u \in Users |-> None] /\ lastUsed' = [u \in Users |-> None]
        /\ clients' = [u \in Users |-> {}] /\ gone' = [c \in Clients |-> None]
        /\ grants' = [u \in Users |-> None] /\ call' = [c \in Clients |-> NoCall]
        /\ session' = [c \in Clients |-> None]
        /\ hist' = [hist EXCEPT !.lost = [c \in Clients |-> None]]
    BY <1>10 DEF Restart
  <2>2. hist' \in HistType
    <3>1. [c \in Clients |-> None] \in [Clients -> 0..GoneFor \cup {None}]  OBVIOUS
    <3> QED BY <1>0, <2>1, <3>1, LostHist
  <2>3. \A d \in Clients : call'[d] = NoCall  BY <2>1
  <2>4. Asking'  BY <2>3, NoCallWell DEF Asking, Well, Asks2, Starting, At
  <2>5. Locked'  BY <2>3, NoCallType DEF Locked, At
  <2>6. TypeOK'  BY <1>0, <2>1, <2>2, ReaperSet, NoCallType DEF TypeOK
  <2> QED BY <2>4, <2>5, <2>6 DEF Base
<1> QED BY <1>1, <1>2, <1>3, <1>4, <1>5, <1>6, <1>7, <1>8, <1>9, <1>10 DEF Reap

\* ... and so every step,
LEMMA StepBase == Base /\ [Next]_vars => Base'
<1> SUFFICES ASSUME Base, [Next]_vars PROVE Base'  OBVIOUS
<1>1. CASE UNCHANGED vars
  <2>1. TypeOK'  BY <1>1 DEF vars, gateway, Base, TypeOK
  <2> QED BY <1>1, <2>1, QuietKeeps DEF vars, Base
<1>2. CASE Next
  <2>1. ASSUME NEW c \in Clients,
               \/ Told(c)
               \/ \E kind \in Kinds[c] \cap {"relay", "start"}, s \in Callable(c) :
                    ServeStarted(c, kind, s) \/ Begin(c, kind, s)
               \/ \E kind \in Kinds[c] \cap {"stop", "force"} : Begin(c, kind, None)
               \/ Ask(c) \/ Send(c) \/ StreamEnds(c)
        PROVE  Base'
    BY <2>1, BeginsBase
  <2> QED BY <1>2, <2>1, CallsBase, OthersBase DEF Next
<1> QED BY <1>1, <1>2

\* ... always.
LEMMA BaseHolds == Spec => []Base
BY InitBase, StepBase, PTL DEF Spec

-----------------------------------------------------------------------------
(* The budget.  What a user may claim is what their cluster holds or what  *)
(* their grant stands for, whichever is more: a creation turns a claim     *)
(* into a cluster, so only an admission raises the sum of the claims.      *)

\* A claim is a number: the more of what a user owns and is promised,
LEMMA ClaimsAre ==
  ASSUME TypeOK, NEW r \in Resources
  PROVE  /\ \A u \in Users : Owned(u, r) \in Nat /\ Promised(u, r) \in Nat
         /\ Claims(r) \in [Users -> Nat]
         /\ \A u \in Users : /\ Claims(r)[u] = Max2(Owned(u, r), Promised(u, r))
                             /\ Owned(u, r) <= Claims(r)[u] /\ Promised(u, r) <= Claims(r)[u]
<1>1. \A u \in Users : Owned(u, r) \in Nat /\ Promised(u, r) \in Nat
  BY DEF TypeOK, Owned, Promised, RayCluster, Granted, Gpus
<1> QED BY <1>1 DEF Claims, Max2

\* ... after a step too.
LEMMA ClaimsNext ==
  ASSUME TypeOK', NEW r \in Resources
  PROVE  /\ \A u \in Users : Owned(u, r)' \in Nat /\ Promised(u, r)' \in Nat
         /\ Claims(r)' \in [Users -> Nat]
         /\ \A u \in Users : Claims(r)'[u] = Max2(Owned(u, r)', Promised(u, r)')
<1>1. \A u \in Users : Owned(u, r)' \in Nat /\ Promised(u, r)' \in Nat
  BY DEF TypeOK, Owned, Promised, RayCluster, Granted, Gpus
<1> QED BY <1>1 DEF Claims, Max2

\* No claim grows, and whoever is in admit was there before.
Frugal ==
  /\ owner' = owner
  /\ ~Exempt' => ~Exempt /\ \A u \in Users, r \in Resources :
       /\ Promised(u, r)' <= Promised(u, r)
       /\ Owned(u, r)' <= Owned(u, r) \/ Owned(u, r)' <= Promised(u, r)
Admitted == \A d \in Clients : call'[d].pc = "admitting" =>
  /\ call[d].pc = "admitting"
  /\ call'[d].others = call[d].others /\ call'[d].granted = call[d].granted

\* A frugal step, which lets no user claim more, keeps the claims within the
\* budget.
LEMMA FrugalClaims ==
  ASSUME TypeOK, TypeOK', Claimed, Frugal
  PROVE  Claimed'
<1> SUFFICES ASSUME ~Exempt', NEW r \in Resources PROVE Total(Claims(r)', Users) <= Budget[r]
  BY DEF Claimed
<1> DEFINE V == Claims(r)
           W == Claims(r)'
<1>1. ~Exempt /\ Total(V, Users) <= Budget[r]  BY DEF Claimed, Frugal
<1>2. V \in [Users -> Nat] /\ W \in [Users -> Nat]  BY ClaimsAre, ClaimsNext
<1>3. ASSUME NEW u \in Users PROVE W[u] <= V[u]
  <2>1. /\ Owned(u, r) \in Nat /\ Promised(u, r) \in Nat
        /\ Owned(u, r) <= V[u] /\ Promised(u, r) <= V[u] /\ V[u] \in Nat
    BY <1>2, ClaimsAre
  <2>2. /\ Owned(u, r)' \in Nat /\ Promised(u, r)' \in Nat
        /\ W[u] = Max2(Owned(u, r)', Promised(u, r)')
    BY ClaimsNext
  <2>3. /\ Promised(u, r)' <= Promised(u, r)
        /\ Owned(u, r)' <= Owned(u, r) \/ Owned(u, r)' <= Promised(u, r)
    BY DEF Frugal
  <2> HIDE DEF V, W
  <2> QED BY <2>1, <2>2, <2>3 DEF Max2
<1> HIDE DEF V, W
<1>4. Total(W, Users) <= Total(V, Users)  BY <1>2, <1>3, TotalGrows
<1>5. Total(W, Users) \in Nat /\ Total(V, Users) \in Nat /\ Budget[r] \in Nat
  BY <1>2, TotalIs, BudgetAssumption
<1>6. Total(W, Users) <= Budget[r]  BY <1>1, <1>4, <1>5
<1> QED BY <1>6 DEF W

\* What c counted in admit is still no less than the others may claim.
Lists(c) ==
  /\ call[c].others[owner[c]] = None /\ call[c].granted[owner[c]] = None
  /\ \A v \in Users \ {owner[c]}, r \in Resources :
       /\ Promised(v, r) <= Seen(call[c].granted, v, r)
       /\ \/ Owned(v, r) <= Seen(call[c].others, v, r)
          \/ Owned(v, r) <= Seen(call[c].granted, v, r)

\* What an admission saw of a user is a number.
LEMMA SeenNat ==
  ASSUME NEW f \in HeldType, NEW v \in Users, NEW r \in Resources
  PROVE  Seen(f, v, r) \in Nat
BY DEF HeldType, Seen, Gpus

\* ... keeps what an admission listed above what the others claim,
LEMMA FrugalListed ==
  ASSUME Base, TypeOK', Listed, Frugal, ~Exempt', NEW d \in Clients, call[d].pc = "admitting",
         call'[d].others = call[d].others, call'[d].granted = call[d].granted
  PROVE  Lists(d)'
<1>1. Lists(d) /\ ~Exempt  BY DEF Listed, Lists, Frugal, At
<1>2. owner[d]' = owner[d] /\ call[d].others \in HeldType /\ call[d].granted \in HeldType
  BY DEF Base, Locked, At, Frugal
<1>3. ASSUME NEW v \in Users \ {owner[d]}, NEW r \in Resources
      PROVE  /\ Promised(v, r)' <= Seen(call[d].granted, v, r)
             /\ \/ Owned(v, r)' <= Seen(call[d].others, v, r)
                \/ Owned(v, r)' <= Seen(call[d].granted, v, r)
  <2>1. /\ Promised(v, r) <= Seen(call[d].granted, v, r)
        /\ \/ Owned(v, r) <= Seen(call[d].others, v, r)
           \/ Owned(v, r) <= Seen(call[d].granted, v, r)
    BY <1>1 DEF Lists
  <2>2. /\ Promised(v, r)' <= Promised(v, r)
        /\ Owned(v, r)' <= Owned(v, r) \/ Owned(v, r)' <= Promised(v, r)
    BY DEF Frugal
  <2>3. /\ Owned(v, r) \in Nat /\ Promised(v, r) \in Nat
        /\ Owned(v, r)' \in Nat /\ Promised(v, r)' \in Nat
    BY ClaimsAre, ClaimsNext DEF Base
  <2>4. Seen(call[d].granted, v, r) \in Nat /\ Seen(call[d].others, v, r) \in Nat
    BY <1>2, SeenNat
  <2> QED BY <2>1, <2>2, <2>3, <2>4
<1> QED BY <1>1, <1>2, <1>3 DEF Lists, Seen

\* ... and so both.
LEMMA FrugalKeeps ==
  ASSUME Base, TypeOK', Listed, Claimed, Frugal, Admitted
  PROVE  Listed' /\ Claimed'
<1>1. Claimed'  BY FrugalClaims DEF Base
<1>2. ASSUME ~Exempt', NEW d \in Clients, call'[d].pc = "admitting" PROVE Lists(d)'
  BY <1>2, FrugalListed DEF Admitted
<1>3. Listed'  BY <1>2 DEF Listed, Lists, At
<1> QED BY <1>1, <1>3

\* A step that leaves clusters whose they are, and grants alone, is frugal.
LEMMA StaysFrugal ==
  ASSUME TypeOK, SameFlags, UNCHANGED <<owner, grants>>, \A v \in Users : Stays(v)
  PROVE  Frugal
<1>1. Exempt' <=> Exempt  BY DEF Exempt, SameFlags
<1>2. ASSUME NEW u \in Users, NEW r \in Resources
      PROVE  Promised(u, r)' <= Promised(u, r) /\ Owned(u, r)' <= Owned(u, r)
  <2>1. Owned(u, r) \in Nat /\ Promised(u, r) \in Nat  BY ClaimsAre
  <2>2. Promised(u, r)' = Promised(u, r)  BY DEF Promised
  <2>3. Owned(u, r)' = Owned(u, r)  BY DEF Owned, Stays
  <2> QED BY <2>1, <2>2, <2>3
<1> QED BY <1>1, <1>2 DEF Frugal

\* Neither clusters nor grants change, nor the flags.
LEMMA StillFrugal ==
  ASSUME TypeOK, SameFlags, UNCHANGED <<owner, grants, rc>>
  PROVE  Frugal
BY StaysFrugal DEF Stays

\* A call that goes on leaves the admissions of others alone,
LEMMA StepsAdmitted ==
  ASSUME NEW c \in Clients, Steps(c), call'[c].pc # "admitting"
  PROVE  Admitted
BY DEF Steps, Admitted

\* ... and so does the end of the calls of a user.
LEMMA ClosedAdmitted ==
  ASSUME Base, NEW u \in Users, \A d \in Clients : call'[d].pc # "admitting" \/ call'[d] = Closed(u)[d]
  PROVE  Admitted
BY ClosedWell DEF Admitted

\* A call that begins or ends is frugal,
LEMMA BeginsFrugal ==
  ASSUME Base, NEW c \in Clients,
         \/ Told(c)
         \/ \E kind \in Kinds[c] \cap {"relay", "start"}, s \in Callable(c) :
              ServeStarted(c, kind, s) \/ Begin(c, kind, s)
         \/ \E kind \in Kinds[c] \cap {"stop", "force"} : Begin(c, kind, None)
         \/ Ask(c) \/ Send(c) \/ StreamEnds(c)
  PROVE  Frugal /\ Admitted
<1> DEFINE u == owner[c]
<1>0. u \in Users /\ TypeOK  BY DEF Base, TypeOK
<1>s. \A s \in Callable(c) : s \in Shapes /\ ShapeOK(s)  BY DEF Callable, Shapes
<1>u. UNCHANGED call => Admitted  BY DEF Admitted
<1>h. UNCHANGED hist => SameFlags  BY DEF SameFlags
<1>1. CASE Told(c)
  BY <1>0, <1>1, <1>u, <1>h, StillFrugal DEF Told, gateway
<1>2. ASSUME NEW kind \in {"relay", "start"}, NEW s \in Callable(c), ServeStarted(c, kind, s)
      PROVE  Frugal /\ Admitted
  <2>1. Serve(c, kind, s) /\ UNCHANGED <<owner, rc, grants, lock>>  BY <1>2 DEF ServeStarted
  <2>2. kind \in Asks2 /\ s \in Shapes /\ ShapeOK(s)  BY <1>s DEF Asks2
  <2>3. Steps(c) /\ SameFlags /\ call'[c].pc # "admitting"  BY <2>1, <2>2, ServeKeeps
  <2> QED BY <1>0, <2>1, <2>3, StillFrugal, StepsAdmitted
<1>3. ASSUME NEW kind \in {"relay", "start", "stop", "force"}, NEW s \in Shapes \cup {None}, Begin(c, kind, s)
      PROVE  Frugal /\ Admitted
  <2>1. UNCHANGED <<owner, rc, grants, hist>>
        /\ call' = [call EXCEPT ![c] = [NoCall EXCEPT !.pc = "get", !.kind = kind, !.shape = s]]
    BY <1>3 DEF Begin, gateway
  <2>2. "get" \in Pcs  BY DEF Pcs
  <2>3. Steps(c) /\ call'[c].pc = "get"  BY <1>0, <2>1, <2>2, BeginSteps
  <2> QED BY <1>0, <1>h, <2>1, <2>3, StillFrugal, StepsAdmitted
<1>4. CASE Ask(c)
  <2>1. UNCHANGED <<owner, rc, grants, call>> /\ hist' = [hist EXCEPT !.asked[u] = 0]
    BY <1>4 DEF Ask
  <2> HIDE DEF u
  <2> QED BY <1>0, <1>u, <2>1, AskedHist, StillFrugal
<1>5. CASE Send(c)
  <2>1. /\ UNCHANGED <<owner, grants, call>> /\ hist' = [hist EXCEPT !.asked[u] = 0]
        /\ HeadAnswers(u) /\ \E b \in BOOLEAN : rc' = [rc EXCEPT ![u].busy = @ \/ b]
    BY <1>5 DEF Send
  <2> HIDE DEF u
  <2>2. PICK b \in BOOLEAN : rc' = [rc EXCEPT ![u].busy = @ \/ b]  BY <2>1
  <2> DEFINE x == rc[u].busy \/ b
  <2>3. rc[u] # None  BY <2>1 DEF HeadAnswers
  <2>4. rc' = [rc EXCEPT ![u].busy = x] /\ x \in BOOLEAN  BY <2>2
  <2> HIDE DEF x
  <2>5. \A v \in Users : Stays(v)  BY <1>0, <2>3, <2>4, PodsRc
  <2>6. SameFlags  BY <1>0, <2>1, AskedHist
  <2> QED BY <1>0, <1>u, <2>1, <2>5, <2>6, StaysFrugal
<1>6. CASE StreamEnds(c)
  <2>1. UNCHANGED <<owner, rc, grants, hist>> /\ Ends(c)  BY <1>6 DEF StreamEnds
  <2>2. Steps(c) /\ call'[c].pc # "admitting"  BY <1>0, <2>1, EndsSteps, NoCallType
  <2> QED BY <1>0, <1>h, <2>1, <2>2, StillFrugal, StepsAdmitted
<1>7. ASSUME NEW kind \in {"relay", "start"}, NEW s \in Callable(c), Begin(c, kind, s)
      PROVE  Frugal /\ Admitted
  BY <1>3, <1>7, <1>s
<1>8. ASSUME NEW kind \in {"stop", "force"}, Begin(c, kind, None) PROVE Frugal /\ Admitted
  BY <1>3, <1>8
<1> QED BY <1>1, <1>2, <1>4, <1>5, <1>6, <1>7, <1>8

\* ... and so are the reaper, pods, time and a restart.
LEMMA OthersFrugal ==
  ASSUME Base, Reap \/ (\E u \in Users : PodsStart(u) \/ TasksEnd(u) \/ PodsLeave(u)) \/ Tick \/ Restart
  PROVE  Frugal /\ Admitted
<1>0. TypeOK /\ rc \in [Users -> RayCluster \cup {None}] /\ grants \in [Users -> Granted \cup {None}]
  BY DEF Base, TypeOK
<1>u. UNCHANGED call => Admitted  BY DEF Admitted
<1>h. UNCHANGED hist => SameFlags  BY DEF SameFlags
<1>1. CASE ReapList  BY <1>0, <1>1, <1>u, <1>h, StillFrugal DEF ReapList, gateway
<1>2. ASSUME NEW u \in Users, ReapLate(u) PROVE Frugal /\ Admitted
  BY <1>0, <1>2, <1>u, <1>h, StillFrugal DEF ReapLate, gateway
<1>3. ASSUME NEW u \in Users, ReapAsk(u) PROVE Frugal /\ Admitted
  BY <1>0, <1>3, <1>u, <1>h, StillFrugal DEF ReapAsk
<1>4. CASE ReapDelete
  <2>1. UNCHANGED <<owner, grants, call, hist>> /\ reaper.pc \in {"late", "idle"}
        /\ (Leaves(reaper.at) \/ UNCHANGED rc)
    BY <1>4 DEF ReapDelete, gateway
  <2>2. reaper.at \in Users  BY <1>0, <2>1 DEF TypeOK
  <2>3. \A v \in Users : Stays(v)  BY <1>0, <2>1, <2>2, LeavesRc DEF Stays
  <2> QED BY <1>0, <1>u, <1>h, <2>1, <2>3, StaysFrugal
<1>5. CASE ReapDeleted
  <2>1. /\ hist' = Losing(reaper.at) /\ call' = Closed(reaper.at) /\ reaper.pc = "deleted"
        /\ UNCHANGED <<owner, rc, grants>>
    BY <1>5 DEF ReapDeleted
  <2>2. reaper.at \in Users  BY <1>0, <2>1 DEF TypeOK
  <2>3. SameFlags  BY <1>0, <2>1, <2>2, LosingHist
  <2> QED BY <1>0, <2>1, <2>2, <2>3, StillFrugal, ClosedAdmitted
<1>6. ASSUME NEW u \in Users, PodsStart(u) PROVE Frugal /\ Admitted
  <2>1. rc[u] # None /\ UNCHANGED <<owner, grants, call, hist>>
        /\ (rc' = [rc EXCEPT ![u].head = TRUE] \/ rc' = [rc EXCEPT ![u].full = TRUE])
    BY <1>6 DEF PodsStart, Live, gateway
  <2>2. \A v \in Users : Stays(v)  BY <1>0, <2>1, PodsRc
  <2> QED BY <1>0, <1>u, <1>h, <2>1, <2>2, StaysFrugal
<1>7. ASSUME NEW u \in Users, TasksEnd(u) PROVE Frugal /\ Admitted
  <2>1. rc[u] # None /\ UNCHANGED <<owner, grants, call, hist>> /\ rc' = [rc EXCEPT ![u].busy = FALSE]
    BY <1>7 DEF TasksEnd, gateway
  <2>2. \A v \in Users : Stays(v)  BY <1>0, <2>1, PodsRc
  <2> QED BY <1>0, <1>u, <1>h, <2>1, <2>2, StaysFrugal
<1>8. ASSUME NEW u \in Users, PodsLeave(u) PROVE Frugal /\ Admitted
  <2>1. UNCHANGED <<owner, grants, call, hist>> /\ rc' = [rc EXCEPT ![u] = None]
    BY <1>8 DEF PodsLeave, gateway
  <2>2. Exempt' <=> Exempt  BY <2>1 DEF Exempt
  <2>3. ASSUME NEW v \in Users, NEW r \in Resources
        PROVE  Promised(v, r)' <= Promised(v, r) /\ Owned(v, r)' <= Owned(v, r)
    <3>1. Owned(v, r) \in Nat /\ Promised(v, r) \in Nat  BY <1>0, ClaimsAre
    <3>2. Promised(v, r)' = Promised(v, r)  BY <2>1 DEF Promised
    <3>3. Owned(v, r)' = 0 \/ Owned(v, r)' = Owned(v, r)  BY <1>0, <2>1 DEF Owned
    <3> QED BY <3>1, <3>2, <3>3
  <2> QED BY <1>u, <2>1, <2>2, <2>3 DEF Frugal
<1>9. CASE Tick
  <2>1. /\ owner' = owner
        /\ grants' = [u \in Users |-> IF grants[u] = None THEN None
                                      ELSE [grants[u] EXCEPT !.age = Min2(@ + 1, Grant)]]
    BY <1>9 DEF Tick
  <2>2. SameFlags /\ \A v \in Users : Stays(v)  BY <1>0, <1>9, TickHist, TickRc
  <2>3. ASSUME NEW v \in Users, NEW r \in Resources
        PROVE  Promised(v, r)' <= Promised(v, r) /\ Owned(v, r)' <= Owned(v, r)
    <3>1. Owned(v, r) \in Nat /\ Promised(v, r) \in Nat  BY <1>0, ClaimsAre
    <3>2. CASE grants[v] = None  BY <2>1, <2>2, <3>1, <3>2 DEF Promised, Owned, Stays
    <3>3. CASE grants[v] # None
      <4>1. grants[v] \in Granted  BY <1>0, <3>3
      <4>2. grants'[v] = [grants[v] EXCEPT !.age = Min2(@ + 1, Grant)]  BY <2>1, <3>3
      <4>3. grants'[v].gpus = grants[v].gpus  BY <4>1, <4>2 DEF Granted
      <4>4. grants'[v] # None
        <5>1. Min2(grants[v].age + 1, Grant) \in Nat  BY <4>1, TimesAssumption DEF Granted, Min2
        <5>2. grants'[v] \in Granted  BY <4>1, <4>2, <5>1 DEF Granted
        <5> QED BY <5>2, NoneAssumption
      <4>5. Promised(v, r)' = Promised(v, r)  BY <3>3, <4>3, <4>4 DEF Promised
      <4>6. Owned(v, r)' = Owned(v, r)  BY <2>2 DEF Owned, Stays
      <4> QED BY <3>1, <4>5, <4>6
    <3> QED BY <3>2, <3>3
  <2>4. Exempt' <=> Exempt  BY <2>2 DEF Exempt, SameFlags
  <2>5. Admitted  BY <1>0, <1>9, TickSteps DEF Admitted
  <2> QED BY <2>1, <2>3, <2>4, <2>5 DEF Frugal
<1>10. CASE Restart
  <2>1. /\ UNCHANGED <<owner, rc>> /\ grants' = [u \in Users |-> None]
        /\ call' = [c \in Clients |-> NoCall] /\ hist' = [hist EXCEPT !.lost = [c \in Clients |-> None]]
    BY <1>10 DEF Restart
  <2>2. SameFlags
    <3>1. [c \in Clients |-> None] \in [Clients -> 0..GoneFor \cup {None}]  OBVIOUS
    <3> QED BY <1>0, <2>1, <3>1, LostHist
  <2>3. Exempt' <=> Exempt  BY <2>2 DEF Exempt, SameFlags
  <2>4. ASSUME NEW v \in Users, NEW r \in Resources
        PROVE  Promised(v, r)' <= Promised(v, r) /\ Owned(v, r)' <= Owned(v, r)
    <3>1. Owned(v, r) \in Nat /\ Promised(v, r) \in Nat  BY <1>0, ClaimsAre
    <3>2. Promised(v, r)' = 0 /\ Owned(v, r)' = Owned(v, r)  BY <2>1 DEF Promised, Owned
    <3> QED BY <3>1, <3>2
  <2>5. Admitted  BY <2>1, NoCallType DEF Admitted
  <2> QED BY <2>1, <2>3, <2>4, <2>5 DEF Frugal
<1> QED BY <1>1, <1>2, <1>3, <1>4, <1>5, <1>6, <1>7, <1>8, <1>9, <1>10 DEF Reap

\* The steps of a call, but for those of admit.
LEMMA CallsFrugal ==
  ASSUME Base, NEW c \in Clients,
         \/ GetCluster(c) \/ GetToStop(c) \/ AskBusy(c) \/ Delete(c) \/ Deleted(c) \/ Left(c)
         \/ Create(c) \/ CreateFails(c) \/ HeadUp(c) \/ HeadOpen(c) \/ Refuse(c)
  PROVE  Frugal /\ Admitted
<1> DEFINE u == owner[c]
<1>0. u \in Users /\ TypeOK /\ Asking /\ rc \in [Users -> RayCluster \cup {None}]
  BY DEF Base, TypeOK
<1>h. UNCHANGED hist => SameFlags  BY DEF SameFlags
<1>e. Ends(c) => Admitted  BY <1>0, EndsSteps, NoCallType, StepsAdmitted
<1>g. ASSUME NEW pc \in Pcs, pc # "admitting", Goes(c, pc) PROVE Admitted
  BY <1>0, <1>g, GoesSteps, StepsAdmitted
<1>1. CASE GetCluster(c)
  <2>1. UNCHANGED <<owner, rc, grants>> /\ hist' = [hist EXCEPT !.asked[u] = 0]
    BY <1>1 DEF GetCluster
  <2>2. Admitted
    <3>1. Steps(c) /\ call'[c].pc \in {"head", "busy", "admit"}  BY <1>0, <1>1, GetSteps
    <3> QED BY <3>1, StepsAdmitted
  <2> HIDE DEF u
  <2> QED BY <1>0, <2>1, <2>2, AskedHist, StillFrugal
<1>2. CASE GetToStop(c)
  <2>1. Ends(c) \/ Goes(c, "delete") \/ Goes(c, "busy")  BY <1>2 DEF GetToStop
  <2>2. Admitted  BY <1>e, <1>g, <2>1 DEF Pcs
  <2> QED BY <1>0, <1>2, <1>h, <2>2, StillFrugal DEF GetToStop, gateway
<1>3. CASE AskBusy(c)
  <2>1. Ends(c) \/ Goes(c, "admit") \/ Goes(c, "delete")  BY <1>3 DEF AskBusy
  <2>2. Admitted  BY <1>e, <1>g, <2>1 DEF Pcs
  <2> QED BY <1>0, <1>3, <1>h, <2>2, StillFrugal DEF AskBusy, gateway
<1>4. CASE Delete(c)
  <2>1. Leaves(u) /\ Goes(c, "deleted") /\ UNCHANGED <<owner, grants, hist>>
    BY <1>4 DEF Delete, gateway
  <2>2. Admitted  BY <1>g, <2>1 DEF Pcs
  <2>3. \A v \in Users : Stays(v)  BY <1>0, <2>1, LeavesRc
  <2> QED BY <1>0, <1>h, <2>1, <2>2, <2>3, StaysFrugal
<1>5. CASE Deleted(c)
  <2>1. hist' = Losing(u) /\ UNCHANGED <<owner, rc, grants>>  BY <1>5 DEF Deleted
  <2>2. /\ \A d \in Clients \ {c} : call'[d] = Closed(u)[d]
        /\ call'[c].pc # "admitting"
    BY <1>0, <1>5, DeletedSteps, NoCallType
  <2> HIDE DEF u
  <2>3. Admitted  BY <1>0, <2>2, ClosedAdmitted
  <2> QED BY <1>0, <2>1, <2>3, LosingHist, StillFrugal
<1>6. CASE Left(c)
  <2>1. Goes(c, "create") /\ UNCHANGED <<owner, rc, grants, hist>>  BY <1>6 DEF Left, gateway
  <2>2. Admitted  BY <1>g, <2>1 DEF Pcs
  <2> QED BY <1>0, <1>h, <2>1, <2>2, StillFrugal
<1>7. CASE Create(c)
  <2>1. UNCHANGED <<owner, grants>>  BY <1>7 DEF Create, gateway
  <2>2. CASE rc[u] # None
    <3>1. (Ends(c) \/ Goes(c, "head")) /\ UNCHANGED <<rc, hist>>  BY <1>7, <2>2 DEF Create
    <3>2. Admitted  BY <1>e, <1>g, <3>1 DEF Pcs
    <3> QED BY <1>0, <1>h, <2>1, <3>1, <3>2, StillFrugal
  <2>3. CASE rc[u] = None
    <3> DEFINE b == ~Covers(grants[u], call[c].mix)
    <3>1. /\ rc' = [rc EXCEPT ![u] = Built(call[c])]
          /\ call' = [call EXCEPT ![c].pc = "head", ![c].mix = NoGpus]
          /\ hist' = [hist EXCEPT !.lapsed = @ \/ b]
      BY <1>7, <2>3 DEF Create
    <3>2. b \in BOOLEAN  BY DEF Covers
    <3>b. b = ~Covers(grants[u], call[c].mix)  OBVIOUS
    <3> HIDE DEF b
    <3>3. /\ hist'.answered <=> hist.answered
          /\ hist'.hidden <=> hist.hidden
          /\ hist'.lapsed <=> hist.lapsed \/ b
      BY <1>0, <3>1, <3>2, CreateHist
    <3>4. Admitted
      <4>1. Steps(c) /\ call'[c].pc = "head"  BY <1>0, <3>1, CreateSteps
      <4> QED BY <4>1, StepsAdmitted
    <3>5. ASSUME ~Exempt', NEW v \in Users, NEW r \in Resources
          PROVE  /\ Promised(v, r)' <= Promised(v, r)
                 /\ Owned(v, r)' <= Owned(v, r) \/ Owned(v, r)' <= Promised(v, r)
      <4>1. Owned(v, r) \in Nat /\ Promised(v, r) \in Nat  BY <1>0, ClaimsAre
      <4>2. Promised(v, r)' = Promised(v, r)  BY <2>1 DEF Promised
      <4>3. CASE v # u
        <5>1. Owned(v, r)' = Owned(v, r)  BY <1>0, <3>1, <4>3 DEF Owned
        <5> QED BY <4>1, <4>2, <5>1
      <4>4. CASE v = u
        <5>1. ~b  BY <3>3, <3>5 DEF Exempt
        <5>2. Covers(grants[u], call[c].mix)  BY <3>b, <5>1
        <5>3. call[c].mix[r] <= Promised(u, r)  BY <5>2 DEF Covers, Counts, Promised
        <5>4. call[c].mix[r] \in Nat  BY <1>0 DEF TypeOK, CallType, Gpus
        <5>5. Owned(v, r)' = call[c].mix[r] \/ Owned(v, r)' = 0
          <6>1. rc'[v] = Built(call[c])  BY <1>0, <3>1, <4>4
          <6>2. Built(call[c]).gpus = call[c].mix  BY DEF Built
          <6> QED BY <6>1, <6>2 DEF Owned
        <5> QED BY <4>1, <4>2, <4>4, <5>3, <5>4, <5>5
      <4> QED BY <4>3, <4>4
    <3>6. ~Exempt' => ~Exempt  BY <3>3 DEF Exempt
    <3> QED BY <2>1, <3>4, <3>5, <3>6 DEF Frugal
  <2> QED BY <2>2, <2>3
<1>8. CASE CreateFails(c)
  <2>1. Ends(c) /\ UNCHANGED <<owner, rc, hist>> /\ grants' = [grants EXCEPT ![u] = None]
    BY <1>8 DEF CreateFails
  <2>2. ASSUME NEW v \in Users, NEW r \in Resources
        PROVE  Promised(v, r)' <= Promised(v, r) /\ Owned(v, r)' <= Owned(v, r)
    <3>1. Owned(v, r) \in Nat /\ Promised(v, r) \in Nat  BY <1>0, ClaimsAre
    <3>2. Owned(v, r)' = Owned(v, r)  BY <2>1 DEF Owned
    <3>3. Promised(v, r)' = Promised(v, r) \/ Promised(v, r)' = 0  BY <1>0, <2>1 DEF Promised, TypeOK
    <3> QED BY <3>1, <3>2, <3>3
  <2>3. Exempt' <=> Exempt  BY <2>1 DEF Exempt
  <2> QED BY <1>e, <2>1, <2>2, <2>3 DEF Frugal
<1>9. CASE HeadUp(c)
  <2>1. /\ Serve(c, call[c].kind, call[c].shape) /\ UNCHANGED <<owner, rc, grants, lock>>
        /\ call[c].pc = "head"
    BY <1>9 DEF HeadUp, At
  <2>2. call[c].kind \in Asks2 /\ call[c].shape \in Shapes /\ ShapeOK(call[c].shape)
    BY <1>0, <2>1 DEF Asking, Starting, Asks2
  <2>3. Steps(c) /\ SameFlags /\ call'[c].pc # "admitting"  BY <2>1, <2>2, ServeKeeps
  <2> QED BY <1>0, <2>1, <2>3, StillFrugal, StepsAdmitted
<1>10. CASE HeadOpen(c)
  <2>1. /\ call' = [call EXCEPT ![c].pc = "delete", ![c].kind = "open"]
        /\ UNCHANGED <<owner, rc, grants, hist>>
    BY <1>10 DEF HeadOpen, gateway
  <2>2. Admitted  
    <3>1. Steps(c) /\ call'[c].pc = "delete"  BY <1>0, <2>1, OpenSteps
    <3> QED BY <3>1, StepsAdmitted
  <2> QED BY <1>0, <1>h, <2>1, <2>2, StillFrugal
<1>11. CASE Refuse(c)
  <2>1. Ends(c) /\ UNCHANGED <<owner, rc, grants, hist>>  BY <1>11 DEF Refuse, gateway
  <2> QED BY <1>0, <1>e, <1>h, <2>1, StillFrugal
<1> QED BY <1>1, <1>2, <1>3, <1>4, <1>5, <1>6, <1>7, <1>8, <1>9, <1>10, <1>11

\* admit lists what the others hold, and drops grants that lapsed.
LEMMA ListKeeps ==
  ASSUME Base, TypeOK', Listed, Claimed, NEW c \in Clients, AdmitList(c)
  PROVE  Listed' /\ Claimed'
<1>0. TypeOK /\ Locked  BY DEF Base
<1>1. UNCHANGED <<owner, rc, hist>>  BY DEF AdmitList
<1>2. /\ Steps(c) /\ call'[c].pc = "admitting" /\ lock = None
      /\ call'[c].others = Others(rc, c) /\ call'[c].granted = Others(Kept, c)
      /\ grants' = Kept /\ \A v \in Users : Kept[v] \in {None, grants[v]}
  BY <1>0, ListSteps
<1>3. ASSUME NEW v \in Users, NEW r \in Resources
      PROVE  Promised(v, r)' <= Promised(v, r) /\ Owned(v, r)' <= Owned(v, r)
  <2>1. Owned(v, r) \in Nat /\ Promised(v, r) \in Nat  BY <1>0, ClaimsAre
  <2>2. Owned(v, r)' = Owned(v, r)  BY <1>1 DEF Owned
  <2>3. Promised(v, r)' = Promised(v, r) \/ Promised(v, r)' = 0  BY <1>2 DEF Promised
  <2> QED BY <2>1, <2>2, <2>3
<1>4. Exempt' <=> Exempt  BY <1>1 DEF Exempt
<1>5. Frugal  BY <1>1, <1>3, <1>4 DEF Frugal
<1>6. \A d \in Clients \ {c} : call'[d].pc # "admitting"
  BY <1>0, <1>2, NoneAssumption DEF Locked, Steps, At
<1>7. Lists(c)'
  <2>1. owner[c] \in Users /\ owner'[c] = owner[c]  BY <1>0, <1>1 DEF TypeOK
  <2>2. call'[c].others[owner[c]] = None /\ call'[c].granted[owner[c]] = None
    BY <1>2, <2>1 DEF Others
  <2>3. ASSUME NEW v \in Users \ {owner[c]}, NEW r \in Resources
        PROVE  /\ Promised(v, r)' <= Seen(call'[c].granted, v, r)
               /\ Owned(v, r)' <= Seen(call'[c].others, v, r)
    <3>1. Owned(v, r)' \in Nat /\ Promised(v, r)' \in Nat  BY ClaimsNext
    <3>2. rc[v] # None => rc[v].gpus # None  BY <1>0, NoneAssumption DEF TypeOK, RayCluster
    <3>3. Seen(Others(rc, c), v, r) = Owned(v, r)'
      BY <1>1, <3>2 DEF Seen, Others, Owned
    <3>4. Kept[v] # None => Kept[v].gpus # None  BY <1>0, <1>2, NoneAssumption DEF TypeOK, Granted
    <3>5. Seen(Others(Kept, c), v, r) = Promised(v, r)'
      BY <1>2, <3>4 DEF Seen, Others, Promised
    <3> QED BY <1>2, <3>1, <3>3, <3>5
  <2> QED BY <2>1, <2>2, <2>3 DEF Lists, Seen
<1>8. Listed'  BY <1>6, <1>7 DEF Listed, Lists, At
<1> QED BY <1>0, <1>5, <1>8, FrugalClaims

\* admit gives, while Prometheus is silent, at most what the claims it counted leave.
LEMMA DecideKeeps ==
  ASSUME Base, TypeOK', Listed, Claimed, NEW c \in Clients, NEW free \in FreeGpus, AdmitDecide(c, free)
  PROVE  Listed' /\ Claimed'
<1> DEFINE k == call[c]
           u == owner[c]
<1>0. TypeOK /\ Asking /\ Locked /\ u \in Users /\ k \in CallType  BY DEF Base, TypeOK
<1>1. UNCHANGED <<owner, rc>>  BY DEF AdmitDecide
<1>2. /\ Steps(c) /\ k.pc = "admitting"
      /\ hist'.lapsed <=> hist.lapsed
      /\ hist'.answered <=> hist.answered \/ free # Silent
      /\ \/ call'[c] = NoCall /\ grants' = grants /\ (hist'.hidden <=> hist.hidden)
         \/ /\ call'[c].pc \in {"delete", "leaving", "create"}
            /\ hist'.hidden <=> hist.hidden \/ Hides(k)
            /\ \E gpus \in Gpus :
                 /\ grants' = [grants EXCEPT ![u] = [gpus |-> gpus, age |-> 0]]
                 /\ free = Silent => \A r \in Resources :
                      gpus[r] = 0 \/ gpus[r] <= Available(k, r, free)
  BY <1>0, DecideIs
<1>3. CASE call'[c] = NoCall /\ grants' = grants /\ (hist'.hidden <=> hist.hidden)
  <2>1. ~Exempt' => ~Exempt  BY <1>2, <1>3 DEF Exempt
  <2>2. ASSUME NEW v \in Users, NEW r \in Resources
        PROVE  Promised(v, r)' <= Promised(v, r) /\ Owned(v, r)' <= Owned(v, r)
    <3>1. Owned(v, r) \in Nat /\ Promised(v, r) \in Nat  BY <1>0, ClaimsAre
    <3>2. Owned(v, r)' = Owned(v, r) /\ Promised(v, r)' = Promised(v, r)
      BY <1>1, <1>3 DEF Owned, Promised
    <3> QED BY <3>1, <3>2
  <2>3. Frugal  BY <1>1, <2>1, <2>2 DEF Frugal
  <2>4. Admitted  BY <1>2, <1>3, NoCallType, StepsAdmitted
  <2> QED BY <2>3, <2>4, FrugalKeeps
<1>4. CASE /\ call'[c].pc \in {"delete", "leaving", "create"}
           /\ hist'.hidden <=> hist.hidden \/ Hides(k)
           /\ \E gpus \in Gpus :
                /\ grants' = [grants EXCEPT ![u] = [gpus |-> gpus, age |-> 0]]
                /\ free = Silent => \A r \in Resources :
                     gpus[r] = 0 \/ gpus[r] <= Available(k, r, free)
  <2>1. Listed'
    <3>1. lock = c  BY <1>0, <1>2 DEF Locked, At
    <3>2. \A d \in Clients : call'[d].pc # "admitting"
      BY <1>0, <1>2, <1>4, <3>1 DEF Locked, Steps, At
    <3> QED BY <3>2 DEF Listed, At
  <2>2. ASSUME ~Exempt', NEW r \in Resources PROVE Total(Claims(r)', Users) <= Budget[r]
    <3>1. ~Exempt /\ free = Silent /\ ~Hides(k)  BY <1>2, <1>4, <2>2 DEF Exempt
    <3>2. PICK gpus \in Gpus :
            /\ grants' = [grants EXCEPT ![u] = [gpus |-> gpus, age |-> 0]]
            /\ \A s \in Resources : gpus[s] = 0 \/ gpus[s] <= Available(k, s, free)
      BY <1>4, <3>1
    <3>3. k.others \in HeldType /\ k.granted \in HeldType  BY <1>0, <1>2 DEF Locked, At
    <3>4. Lists(c)  BY <1>2, <3>1 DEF Listed, Lists, At
    <3> DEFINE V == Claims(r)
               W == Claims(r)'
               T == Holds(Taken(k), r)
               rest == Users \ {u}
    <3>5. V \in [Users -> Nat] /\ W \in [Users -> Nat]  BY <1>0, ClaimsAre, ClaimsNext
    <3>6. Taken(k) \in HeldType /\ Available(k, r, free) = Budget[r] - Held(Taken(k), r)
      BY <1>0, <3>1, <3>3, AvailableIs
    <3>7. T \in [Users -> Nat] /\ Held(Taken(k), r) = Total(T, Users)  BY <3>6, HeldNat
    <3>8. T[u] = 0  BY <1>0, <3>4 DEF Lists, Holds, Taken
    <3>9. ASSUME NEW v \in rest PROVE W[v] = V[v] /\ W[v] <= T[v]
      <4>1. Owned(v, r)' = Owned(v, r)  BY <1>1 DEF Owned
      <4>2. Promised(v, r)' = Promised(v, r)  BY <1>0, <3>2 DEF Promised, TypeOK
      <4>3. W[v] = Max2(Owned(v, r)', Promised(v, r)') /\ V[v] = Max2(Owned(v, r), Promised(v, r))
        BY <1>0, ClaimsAre, ClaimsNext
      <4>4. Owned(v, r) \in Nat /\ Promised(v, r) \in Nat  BY <1>0, ClaimsAre
      <4>5. /\ Promised(v, r) <= Seen(k.granted, v, r)
            /\ \/ Owned(v, r) <= Seen(k.others, v, r)
               \/ Owned(v, r) <= Seen(k.granted, v, r)
        BY <3>4 DEF Lists
      <4>6. Seen(k.granted, v, r) \in Nat /\ Seen(k.others, v, r) \in Nat  BY <3>3, SeenNat
      <4>7. Seen(k.granted, v, r) <= T[v] /\ Seen(k.others, v, r) <= T[v] /\ T[v] \in Nat
        <5>1. CASE k.others[v] = None
          <6>1. T[v] = Seen(k.granted, v, r) /\ Seen(k.others, v, r) = 0
            BY <5>1 DEF Holds, Taken, Seen
          <6> QED BY <4>6, <6>1
        <5>2. CASE k.others[v] # None
          <6>1. T[v] = Seen(k.others, v, r) /\ Seen(k.others, v, r) = k.others[v][r]
            BY <5>2 DEF Holds, Taken, Seen
          <6>2. Seen(k.granted, v, r) <= k.others[v][r]
            <7>1. CASE k.granted[v] = None  BY <4>6, <6>1, <7>1 DEF Seen
            <7>2. CASE k.granted[v] # None
              <8>1. Seen(k.granted, v, r) = k.granted[v][r]  BY <7>2 DEF Seen
              <8>2. ~(k.granted[v][r] > k.others[v][r])  BY <3>1, <5>2, <7>2 DEF Hides
              <8> QED BY <4>6, <6>1, <8>1, <8>2
            <7> QED BY <7>1, <7>2
          <6> QED BY <4>6, <6>1, <6>2
        <5> QED BY <5>1, <5>2
      <4> HIDE DEF T, V, W
      <4> QED BY <4>1, <4>2, <4>3, <4>4, <4>5, <4>6, <4>7 DEF Max2
    <3>10. W[u] <= V[u] \/ W[u] <= Available(k, r, free)
      <4>1. PICK v \in Users : v = u  BY <1>0
      <4>2. Owned(v, r) <= V[v] /\ V[v] \in Nat /\ Owned(v, r) \in Nat  BY <1>0, <3>5, ClaimsAre
      <4>3. Owned(v, r)' = Owned(v, r)  BY <1>1 DEF Owned
      <4>4. Promised(v, r)' = gpus[r]
        <5>1. grants'[v] = [gpus |-> gpus, age |-> 0]  BY <1>0, <3>2, <4>1 DEF TypeOK
        <5>2. grants'[v] \in Granted  BY <5>1 DEF Granted
        <5>3. grants'[v] # None  BY <5>2, NoneAssumption
        <5> QED BY <5>1, <5>3 DEF Promised
      <4>5. W[v] = Max2(Owned(v, r), gpus[r])  BY <1>0, <4>3, <4>4, ClaimsNext
      <4>6. gpus[r] \in Nat /\ (gpus[r] = 0 \/ gpus[r] <= Available(k, r, free))  BY <3>2 DEF Gpus
      <4> HIDE DEF V, W
      <4>7. CASE gpus[r] <= Owned(v, r)  BY <4>1, <4>2, <4>5, <4>6, <4>7 DEF Max2
      <4>8. CASE ~(gpus[r] <= Owned(v, r))  BY <4>1, <4>2, <4>5, <4>6, <4>8 DEF Max2
      <4> QED BY <4>7, <4>8
    <3> HIDE DEF V, W, T, u
    <3>11. rest \in SUBSET Users  OBVIOUS
    <3>12. /\ Total(V, Users) = V[u] + Total(V, rest)
           /\ Total(W, Users) = W[u] + Total(W, rest)
           /\ Total(T, Users) = T[u] + Total(T, rest)
      BY <1>0, <3>5, <3>7, TotalIs
    <3>13. /\ Total(V, rest) \in Nat /\ Total(W, rest) \in Nat /\ Total(T, rest) \in Nat
           /\ V[u] \in Nat /\ W[u] \in Nat /\ Budget[r] \in Nat
      BY <1>0, <3>5, <3>7, <3>11, TotalIs, BudgetAssumption
    <3>14. Total(W, rest) <= Total(T, rest)  BY <3>5, <3>7, <3>9, <3>11, TotalGrows
    <3>15. Total(W, rest) <= Total(V, rest)
      <4>1. \A v \in rest : W[v] <= V[v]  BY <3>5, <3>9
      <4> QED BY <3>5, <3>11, <4>1, TotalGrows
    <3>16. Total(V, Users) <= Budget[r]  BY <3>1 DEF Claimed, V
    <3>17. Total(W, Users) <= Budget[r]
      <4>1. CASE W[u] <= V[u]  BY <3>12, <3>13, <3>15, <3>16, <4>1
      <4>2. CASE W[u] <= Available(k, r, free)
        BY <3>6, <3>7, <3>8, <3>12, <3>13, <3>14, <4>2
      <4> QED BY <3>10, <4>1, <4>2
    <3> QED BY <3>17 DEF W
  <2>3. Claimed'  BY <2>2 DEF Claimed
  <2> QED BY <2>1, <2>3
<1> QED BY <1>2, <1>3, <1>4

BudgetInv == Base /\ Listed /\ Claimed

\* At the start nothing is claimed.
LEMMA InitBudget == Init => BudgetInv
<1> SUFFICES ASSUME Init PROVE BudgetInv  OBVIOUS
<1>1. Base  BY InitBase
<1>2. Listed  BY NoCallType DEF Init, Listed, At
<1>3. ASSUME NEW r \in Resources PROVE Total(Claims(r), Users) <= Budget[r]
  <2> DEFINE V == Claims(r)
  <2>1. \A u \in Users : V[u] = 0  BY DEF Init, Claims, Owned, Promised, Max2
  <2>2. V \in [Users -> Nat]  BY <1>1, ClaimsAre DEF Base
  <2> HIDE DEF V
  <2> DEFINE D == {S \in SUBSET Users : Total(V, S) = 0}
  <2>3. ASSUME NEW S \in SUBSET Users, \A u \in S : S \ {u} \in D PROVE S \in D
    <3>1. CASE S = {}  BY <2>2, <3>1, TotalIs
    <3>2. CASE S # {}
      <4>1. PICK u \in S : TRUE  BY <3>2
      <4>2. Total(V, S) = V[u] + Total(V, S \ {u}) /\ Total(V, S \ {u}) = 0
        BY <2>2, <2>3, <4>1, TotalIs
      <4> QED BY <2>1, <4>2
    <3> QED BY <3>1, <3>2
  <2> HIDE DEF D
  <2>4. Users \in D  BY <2>3, ByUsers
  <2>5. Total(V, Users) = 0  BY <2>4 DEF D
  <2> QED BY <2>5, BudgetAssumption DEF V
<1> QED BY <1>1, <1>2, <1>3 DEF BudgetInv, Claimed

\* Every step keeps the claims within the budget,
LEMMA StepBudget == BudgetInv /\ [Next]_vars => BudgetInv'
<1> SUFFICES ASSUME BudgetInv, [Next]_vars PROVE BudgetInv'  OBVIOUS
<1>0. Base /\ TypeOK /\ Listed /\ Claimed  BY DEF BudgetInv, Base
<1>1. Base' /\ TypeOK'  BY <1>0, StepBase DEF Base
<1>f. Frugal /\ Admitted => Listed' /\ Claimed'  BY <1>0, <1>1, FrugalKeeps
<1>2. CASE UNCHANGED vars
  <2>1. SameFlags /\ Admitted  BY <1>2 DEF vars, SameFlags, Admitted
  <2>2. Frugal  BY <1>0, <1>2, <2>1, StillFrugal DEF vars, gateway
  <2> QED BY <1>1, <1>f, <2>1, <2>2 DEF BudgetInv
<1>3. CASE Next
  <2>1. ASSUME NEW c \in Clients,
               \/ Told(c)
               \/ \E kind \in Kinds[c] \cap {"relay", "start"}, s \in Callable(c) :
                    ServeStarted(c, kind, s) \/ Begin(c, kind, s)
               \/ \E kind \in Kinds[c] \cap {"stop", "force"} : Begin(c, kind, None)
               \/ Ask(c) \/ Send(c) \/ StreamEnds(c)
        PROVE  Listed' /\ Claimed'
    BY <1>0, <1>f, <2>1, BeginsFrugal
  <2>2. ASSUME NEW c \in Clients, CallStep(c) PROVE Listed' /\ Claimed'
    <3>1. CASE AdmitList(c)  BY <1>0, <1>1, <3>1, ListKeeps
    <3>2. CASE \E free \in FreeGpus : AdmitDecide(c, free)  BY <1>0, <1>1, <3>2, DecideKeeps
    <3>3. CASE \/ GetCluster(c) \/ GetToStop(c) \/ AskBusy(c) \/ Delete(c) \/ Deleted(c) \/ Left(c)
               \/ Create(c) \/ CreateFails(c) \/ HeadUp(c) \/ HeadOpen(c) \/ Refuse(c)
      BY <1>0, <1>f, <3>3, CallsFrugal
    <3> QED BY <2>2, <3>1, <3>2, <3>3 DEF CallStep
  <2>3. Listed' /\ Claimed'  BY <1>0, <1>3, <1>f, <2>1, <2>2, OthersFrugal DEF Next
  <2> QED BY <1>1, <2>3 DEF BudgetInv
<1> QED BY <1>2, <1>3

\* ... which bound what the clusters hold.
LEMMA BudgetFollows == BudgetInv => BudgetKept
<1> SUFFICES ASSUME BudgetInv, ~Exempt, NEW r \in Resources
             PROVE  Held([u \in Users |-> IF rc[u] = None THEN None ELSE rc[u].gpus], r) <= Budget[r]
  BY DEF BudgetKept, WithinBudget, Exempt
<1> DEFINE cs == [u \in Users |-> IF rc[u] = None THEN None ELSE rc[u].gpus]
           H == Holds(cs, r)
           V == Claims(r)
<1>1. TypeOK /\ Total(V, Users) <= Budget[r]  BY DEF BudgetInv, Base, Claimed
<1>2. cs \in HeldType  BY <1>1 DEF TypeOK, HeldType, RayCluster
<1>3. H \in [Users -> Nat] /\ Held(cs, r) = Total(H, Users)  BY <1>2, HeldNat
<1>4. V \in [Users -> Nat]  BY <1>1, ClaimsAre
<1>5. ASSUME NEW u \in Users PROVE H[u] <= V[u]
  <2>1. H[u] = Owned(u, r)
    <3>1. rc[u] # None => rc[u].gpus # None  BY <1>1, NoneAssumption DEF TypeOK, RayCluster
    <3> QED BY <3>1 DEF Holds, Owned
  <2>2. Owned(u, r) <= V[u]  BY <1>1, ClaimsAre
  <2> QED BY <2>1, <2>2
<1> HIDE DEF H, V, cs
<1>6. Total(H, Users) <= Total(V, Users)  BY <1>3, <1>4, <1>5, TotalGrows
<1>7. Total(H, Users) \in Nat /\ Total(V, Users) \in Nat /\ Budget[r] \in Nat
  BY <1>3, <1>4, TotalIs, BudgetAssumption
<1>8. Held(cs, r) <= Budget[r]  BY <1>1, <1>3, <1>6, <1>7
<1> QED BY <1>8 DEF cs

\* While Prometheus is silent, clusters hold no more GPUs than the budget, whatever calls run
\* between an admission and the creation it was for (Gateway.admit), unless a cluster was
\* created without the grant that stood for it, or a listing hid a larger grant.
THEOREM GpusWithinBudget == Spec => []BudgetKept
BY InitBudget, StepBudget, BudgetFollows, PTL DEF Spec

-----------------------------------------------------------------------------
(* The idle clock. *)

\* No time of last use is older than it was, but with that of the asking.
Used == \A u \in Users :
  \/ lastUsed'[u] = None \/ lastUsed'[u] = 0
  \/ lastUsed'[u] = lastUsed[u] /\ hist'.asked[u] = hist.asked[u]

\* A step after which no time of last use is older, but with that of the asking,
\* keeps them together.
LEMMA UsedClocks ==
  ASSUME TypeOK', Clocked, Used
  PROVE  Clocked'
<1> SUFFICES ASSUME NEW u \in Users, lastUsed'[u] # None, hist'.asked[u] # None
             PROVE  lastUsed'[u] <= hist'.asked[u]
  BY DEF Clocked
<1>1. hist'.asked[u] \in 0..Idle /\ Idle \in Nat  BY TimesAre DEF TypeOK, HistType
<1>2. \/ lastUsed'[u] = 0
      \/ lastUsed'[u] = lastUsed[u] /\ hist'.asked[u] = hist.asked[u]
  BY DEF Used
<1> QED BY <1>1, <1>2 DEF Clocked

\* A reaper that gives up a cluster as idle has just looked at its clock.
Idles == reaper.pc # "idle" /\ reaper'.pc = "idle" =>
  lastUsed[reaper'.at] = Idle /\ reaper'.at \in Users

\* A step that leaves both alone is one,
LEMMA StillUsed == ASSUME UNCHANGED <<lastUsed, hist>> PROVE Used
BY DEF Used

\* ... a user who asks,
LEMMA AskedUsed ==
  ASSUME TypeOK, NEW u \in Users, lastUsed' = [lastUsed EXCEPT ![u] = 0],
         hist' = [hist EXCEPT !.asked[u] = 0]
  PROVE  Used
<1>1. \A v \in Users \ {u} : hist'.asked[v] = hist.asked[v]  BY AskedHist
<1> QED BY <1>1 DEF Used, TypeOK

\* ... one who is served,
LEMMA ServeUsed ==
  ASSUME Base, NEW c \in Clients, NEW kind \in Asks2, NEW shape \in Shapes, ShapeOK(shape),
         Serve(c, kind, shape), UNCHANGED lock
  PROVE  Used
BY ServeKeeps DEF Used

\* ... a call that begins or ends,
LEMMA BeginsUsed ==
  ASSUME Base, NEW c \in Clients,
         \/ Told(c)
         \/ \E kind \in Kinds[c] \cap {"relay", "start"}, s \in Callable(c) :
              ServeStarted(c, kind, s) \/ Begin(c, kind, s)
         \/ \E kind \in Kinds[c] \cap {"stop", "force"} : Begin(c, kind, None)
         \/ Ask(c) \/ Send(c) \/ StreamEnds(c)
  PROVE  Used /\ UNCHANGED reaper
<1>0. owner[c] \in Users /\ TypeOK  BY DEF Base, TypeOK
<1>s. \A s \in Callable(c) : s \in Shapes /\ ShapeOK(s)  BY DEF Callable, Shapes
<1>1. CASE Told(c)  BY <1>1, StillUsed DEF Told, gateway
<1>2. ASSUME NEW kind \in {"relay", "start"}, NEW s \in Callable(c), ServeStarted(c, kind, s)
      PROVE  Used /\ UNCHANGED reaper
  <2>1. Serve(c, kind, s) /\ UNCHANGED <<lock, reaper>>  BY <1>2 DEF ServeStarted
  <2> QED BY <1>s, <2>1, ServeUsed DEF Asks2
<1>3. ASSUME NEW kind, NEW s, Begin(c, kind, s) PROVE Used /\ UNCHANGED reaper
  BY <1>3, StillUsed DEF Begin, gateway
<1>4. CASE Ask(c)  BY <1>0, <1>4, AskedUsed DEF Ask
<1>5. CASE Send(c)  BY <1>0, <1>5, AskedUsed DEF Send
<1>6. CASE StreamEnds(c)  BY <1>6, StillUsed DEF StreamEnds
<1> QED BY <1>1, <1>2, <1>3, <1>4, <1>5, <1>6

\* ... and one that goes on.
LEMMA CallsUsed ==
  ASSUME Base, NEW c \in Clients, CallStep(c)
  PROVE  Used /\ UNCHANGED reaper
<1>0. owner[c] \in Users /\ TypeOK /\ Asking /\ Locked  BY DEF Base, TypeOK
<1>1. CASE GetCluster(c)  BY <1>0, <1>1, AskedUsed DEF GetCluster
<1>2. CASE GetToStop(c)  BY <1>2, StillUsed DEF GetToStop, gateway
<1>3. CASE AskBusy(c)  BY <1>3, StillUsed DEF AskBusy, gateway
<1>4. CASE AdmitList(c)  BY <1>4, StillUsed DEF AdmitList
<1>5. ASSUME NEW free \in FreeGpus, AdmitDecide(c, free) PROVE Used /\ UNCHANGED reaper
  <2>1. hist'.asked = hist.asked  BY <1>0, <1>5, DecideIs
  <2>2. UNCHANGED <<lastUsed, reaper>>  BY <1>5 DEF AdmitDecide
  <2> QED BY <2>1, <2>2 DEF Used
<1>6. CASE Delete(c)  BY <1>6, StillUsed DEF Delete, gateway
<1>7. CASE Deleted(c)
  <2>1. /\ hist' = Losing(owner[c]) /\ UNCHANGED reaper
        /\ lastUsed' = [lastUsed EXCEPT ![owner[c]] = IF call[c].kind \in {"stop", "force"} THEN None ELSE @]
    BY <1>7 DEF Deleted
  <2>2. hist'.asked = hist.asked  BY <1>0, <2>1, LosingHist
  <2> QED BY <1>0, <2>1, <2>2 DEF Used, TypeOK
<1>8. CASE Left(c)  BY <1>8, StillUsed DEF Left, gateway
<1>9. CASE Create(c)
  <2>1. UNCHANGED <<lastUsed, reaper>>  BY <1>9 DEF Create, gateway
  <2>2. hist'.asked = hist.asked
    <3>1. CASE rc[owner[c]] # None  BY <1>9, <3>1 DEF Create
    <3>2. CASE rc[owner[c]] = None
      <4> DEFINE b == ~Covers(grants[owner[c]], call[c].mix)
      <4>1. hist' = [hist EXCEPT !.lapsed = @ \/ b]  BY <1>9, <3>2 DEF Create
      <4>2. b \in BOOLEAN  BY DEF Covers
      <4> HIDE DEF b
      <4> QED BY <1>0, <4>1, <4>2, CreateHist
    <3> QED BY <3>1, <3>2
  <2> QED BY <2>1, <2>2 DEF Used
<1>10. CASE CreateFails(c)  BY <1>10, StillUsed DEF CreateFails
<1>11. CASE HeadUp(c)
  <2>1. Serve(c, call[c].kind, call[c].shape) /\ UNCHANGED <<lock, reaper>> /\ call[c].pc = "head"
    BY <1>11 DEF HeadUp, At
  <2>2. call[c].kind \in Asks2 /\ call[c].shape \in Shapes /\ ShapeOK(call[c].shape)
    BY <1>0, <2>1 DEF Asking, Starting, Asks2
  <2> QED BY <2>1, <2>2, ServeUsed
<1>12. CASE HeadOpen(c)  BY <1>12, StillUsed DEF HeadOpen, gateway
<1>13. CASE Refuse(c)  BY <1>13, StillUsed DEF Refuse, gateway
<1> QED BY <1>1, <1>2, <1>3, <1>4, <1>5, <1>6, <1>7, <1>8, <1>9, <1>10, <1>11, <1>12, <1>13 DEF CallStep

\* The reaper's steps, those of pods, and a restart.
LEMMA OthersUsed ==
  ASSUME Base, Reap \/ (\E u \in Users : PodsStart(u) \/ TasksEnd(u) \/ PodsLeave(u)) \/ Restart
  PROVE  Used /\ Idles
<1>0. TypeOK  BY DEF Base
<1>1. CASE ReapList  BY <1>1, StillUsed DEF ReapList, gateway, Idles
<1>2. ASSUME NEW u \in Users, ReapLate(u) PROVE Used /\ Idles
  <2>1. UNCHANGED <<lastUsed, hist>> /\ reaper' = [reaper EXCEPT !.at = u, !.pc = "late"]
    BY <1>2 DEF ReapLate, gateway
  <2>2. reaper'.pc = "late"  BY <1>0, <2>1, ReaperSet
  <2> QED BY <2>1, <2>2, StillUsed DEF Idles
<1>3. ASSUME NEW u \in Users, ReapAsk(u) PROVE Used /\ Idles
  <2>1. PICK b \in BOOLEAN :
          /\ lastUsed' = [lastUsed EXCEPT ![u] = IF b \/ @ = None THEN 0 ELSE @]
          /\ reaper' = IF ~b /\ lastUsed[u] = Idle
                       THEN [reaper EXCEPT !.at = u, !.pc = "idle"] ELSE Passed(u)
    BY <1>3 DEF ReapAsk
  <2>2. UNCHANGED hist  BY <1>3 DEF ReapAsk
  <2>3. Used  BY <1>0, <2>1, <2>2 DEF Used, TypeOK
  <2>4. Idles
    <3>1. CASE ~b /\ lastUsed[u] = Idle
      <4>1. reaper'.at = u  BY <1>0, <2>1, <3>1, ReaperSet
      <4> QED BY <3>1, <4>1 DEF Idles
    <3>2. CASE ~(~b /\ lastUsed[u] = Idle)
      <4>1. reaper'.pc \in {"asleep", "next"}  BY <1>0, <2>1, <3>2, ReaperSet
      <4> QED BY <4>1 DEF Idles
    <3> QED BY <3>1, <3>2
  <2> QED BY <2>3, <2>4
<1>4. CASE ReapDelete
  <2>1. UNCHANGED <<lastUsed, hist>> /\ reaper.pc \in {"late", "idle"}
        /\ (reaper' = [reaper EXCEPT !.pc = "deleted"] \/ reaper' = Passed(reaper.at))
    BY <1>4 DEF ReapDelete, gateway
  <2>2. reaper.at \in Users  BY <1>0, <2>1 DEF TypeOK
  <2>3. reaper'.pc # "idle"  BY <1>0, <2>1, <2>2, ReaperSet
  <2> QED BY <2>1, <2>3, StillUsed DEF Idles
<1>5. CASE ReapDeleted
  <2>1. /\ hist' = Losing(reaper.at) /\ reaper.pc = "deleted" /\ reaper' = Passed(reaper.at)
        /\ lastUsed' = [lastUsed EXCEPT ![reaper.at] = None]
    BY <1>5 DEF ReapDeleted
  <2>2. reaper.at \in Users  BY <1>0, <2>1 DEF TypeOK
  <2>3. reaper'.pc # "idle" /\ hist'.asked = hist.asked  BY <1>0, <2>1, <2>2, ReaperSet, LosingHist
  <2> QED BY <1>0, <2>1, <2>2, <2>3 DEF Idles, Used, TypeOK
<1>6. ASSUME NEW u \in Users, PodsStart(u) \/ TasksEnd(u) \/ PodsLeave(u) PROVE Used /\ Idles
  BY <1>6, StillUsed DEF PodsStart, TasksEnd, PodsLeave, gateway, Idles
<1>7. CASE Restart
  BY <1>0, <1>7, ReaperSet DEF Restart, Used, Idles
<1> QED BY <1>1, <1>2, <1>3, <1>4, <1>5, <1>6, <1>7 DEF Reap

\* Every step keeps the clocks together, and the reaper takes for idle who was not
\* used for so long.
LEMMA StepClock == Base /\ Clocked /\ [Next]_vars => Clocked' /\ Idles
<1> SUFFICES ASSUME Base, Clocked, [Next]_vars PROVE Clocked' /\ Idles  OBVIOUS
<1>0. TypeOK /\ TypeOK'  BY StepBase DEF Base
<1>f. Used => Clocked'  BY <1>0, UsedClocks
<1>r. UNCHANGED reaper => Idles  BY DEF Idles
<1>1. CASE UNCHANGED vars  BY <1>1, <1>f, <1>r, StillUsed DEF vars, gateway
<1>2. CASE Tick
  <2>1. UNCHANGED reaper /\ lastUsed' = [u \in Users |-> Older(lastUsed[u], Idle)]  BY <1>2 DEF Tick
  <2>2. \A u \in Users : hist'.asked[u] = Older(hist.asked[u], Idle)  BY <1>0, <1>2, TickHist
  <2>3. ASSUME NEW u \in Users, lastUsed'[u] # None, hist'.asked[u] # None
        PROVE  lastUsed'[u] <= hist'.asked[u]
    <3> DEFINE l == lastUsed[u]
               a == hist.asked[u]
    <3>1. l \in 0..Idle \cup {None} /\ a \in 0..Idle \cup {None} /\ Idle \in Nat
      BY <1>0, TimesAre DEF TypeOK, HistType
    <3>2. lastUsed'[u] = Older(l, Idle) /\ hist'.asked[u] = Older(a, Idle)  BY <2>1, <2>2
    <3>3. l # None /\ a # None  BY <2>3, <3>1, <3>2, OlderIs
    <3>4. l <= a  BY <3>3 DEF Clocked
    <3>5. /\ Older(l, Idle) = IF l < Idle THEN l + 1 ELSE Idle
          /\ Older(a, Idle) = IF a < Idle THEN a + 1 ELSE Idle
      BY <3>1, <3>3, OlderIs
    <3> HIDE DEF l, a
    <3> QED BY <3>1, <3>2, <3>3, <3>4, <3>5
  <2> QED BY <1>r, <2>1, <2>3 DEF Clocked
<1>3. CASE Next /\ ~Tick
  <2>1. ASSUME NEW c \in Clients,
               \/ Told(c)
               \/ \E kind \in Kinds[c] \cap {"relay", "start"}, s \in Callable(c) :
                    ServeStarted(c, kind, s) \/ Begin(c, kind, s)
               \/ \E kind \in Kinds[c] \cap {"stop", "force"} : Begin(c, kind, None)
               \/ Ask(c) \/ Send(c) \/ StreamEnds(c)
        PROVE  Clocked' /\ Idles
    BY <1>f, <1>r, <2>1, BeginsUsed
  <2>2. ASSUME NEW c \in Clients, CallStep(c) PROVE Clocked' /\ Idles
    BY <1>f, <1>r, <2>2, CallsUsed
  <2> QED BY <1>3, <1>f, <2>1, <2>2, OthersUsed DEF Next
<1> QED BY <1>1, <1>2, <1>3

\* Who the reaper takes for idle has asked for nothing for as long.
LEMMA IdleStep ==
  Base /\ Clocked /\ Idles =>
    (reaper.pc # "idle" /\ reaper'.pc = "idle" => hist.asked[reaper'.at] \in {None, Idle})
<1> SUFFICES ASSUME Base, Clocked, Idles, reaper.pc # "idle", reaper'.pc = "idle"
             PROVE  hist.asked[reaper'.at] \in {None, Idle}
  OBVIOUS
<1> DEFINE u == reaper'.at
<1>1. u \in Users /\ lastUsed[u] = Idle  BY DEF Idles
<1> HIDE DEF u
<1>2. hist.asked[u] \in 0..Idle \cup {None} /\ Idle \in Nat /\ Idle # None
  BY <1>1, TimesAre, NoneAssumption DEF Base, TypeOK, HistType
<1>3. hist.asked[u] # None => Idle <= hist.asked[u]  BY <1>1, <1>2 DEF Clocked
<1>4. hist.asked[u] \in {None, Idle}  BY <1>2, <1>3
<1> QED BY <1>4 DEF u

\* reap_idle gives up a cluster as idle only if its owner has not asked for it, nor sent it
\* anything, for IDLE_TIMEOUT_S: every use sets the clock that it reads back.
THEOREM IdleIsUnused == Spec => IdleMeansUnused
<1>1. Init => Clocked  BY DEF Init, Clocked
<1>2. Base /\ Clocked /\ [Next]_vars => Clocked'  BY StepClock
<1>3. Base /\ Clocked /\ [Next]_vars =>
        [reaper.pc # "idle" /\ reaper'.pc = "idle" => hist.asked[reaper'.at] \in {None, Idle}]_vars
  BY StepClock, IdleStep
<1> QED BY <1>1, <1>2, <1>3, BaseHolds, PTL DEF Spec, IdleMeansUnused

-----------------------------------------------------------------------------
(* Which cluster a stream is joined to. *)

MoveInv == Base /\ Shaped /\ Headless /\ Served /\ Warned /\ Numbered /\ Joined

\* v's cluster is as it was, and as far from being removed.
Alike(v) ==
  /\ Stays(v)
  /\ rc[v] # None => rc'[v].leaving = rc[v].leaving /\ rc'[v].head = rc[v].head
  /\ Answered(v)' <=> Answered(v)

\* No stream is joined.
Unjoined == \A d \in Clients : call'[d].pc = "relayed" => call[d].pc = "relayed"

\* A step that joins, removes and creates nothing.
Calm ==
  /\ Unjoined
  /\ UNCHANGED <<owner, made, clients, gone, session>>
  /\ hist'.mixed = hist.mixed /\ hist'.lost = hist.lost
  /\ \A v \in Users : Alike(v) /\ started'[v] \in {started[v], None}
  /\ \A d \in Clients : call'[d].kind = "relay" /\ ~call'[d].raced =>
       (call[d].kind = "relay" /\ ~call[d].raced) \/ gone[d] = None

\* A RayCluster alike lives as it did.
LEMMA AlikeLives == ASSUME NEW v, Alike(v) PROVE Live(rc'[v]) <=> Live(rc[v])
BY DEF Alike, Stays, Live

\* What is kept where the clusters are alike, whatever becomes of the warnings.
LEMMA AlikeKeeps ==
  ASSUME MoveInv, UNCHANGED <<owner, made, clients, session>>, hist'.mixed = hist.mixed,
         \A v \in Users : Alike(v) /\ started'[v] \in {started[v], None},
         \A c \in Clients : hist'.lost[c] = None => hist.lost[c] = None
  PROVE  Shaped' /\ Headless' /\ Served' /\ Numbered' /\ Joined'
<1>0. owner \in [Clients -> Users]  BY DEF MoveInv, Base, TypeOK
<1>1. Shaped'  BY DEF MoveInv, Shaped, Alike, Stays
<1>2. Headless'  BY AlikeLives DEF MoveInv, Headless, Alike, Stays, Live
<1>3. ASSUME NEW c \in Clients, owner[c] \notin hist.mixed, session[c] # None
      PROVE  /\ hist'.lost[c] = None => c \in clients[owner[c]]
             /\ ~Answered(owner[c])' /\ Live(rc'[owner[c]]) => session[c] # rc'[owner[c]].uid
  <2>1. PICK u \in Users : u = owner[c]  BY <1>0
  <2>2. owner'[c] = u  BY <2>1
  <2>3. Answered(u)' <=> Answered(u)  BY DEF Alike
  <2>4. Live(rc'[u]) => Live(rc[u]) /\ rc'[u].uid = rc[u].uid  BY AlikeLives DEF Alike, Stays, Live
  <2>5. hist.lost[c] = None => c \in clients[u]  BY <1>3, <2>1 DEF MoveInv, Served
  <2>6. ~Answered(u) /\ Live(rc[u]) => session[c] # rc[u].uid  BY <1>3, <2>1 DEF MoveInv, Served
  <2>7. ~Answered(u)' /\ Live(rc'[u]) => session[c] # rc'[u].uid  BY <2>3, <2>4, <2>6
  <2>8. Answered(owner[c])' <=> Answered(u)'
    BY <2>1, <2>2 DEF Answered
  <2> QED BY <2>1, <2>5, <2>7, <2>8
<1>4. Served'  BY <1>3 DEF Served
<1>5. Numbered' /\ Joined'  BY DEF MoveInv, Numbered, Joined, Alike, Stays
<1> QED BY <1>1, <1>2, <1>4, <1>5

\* A calm step, which moves nobody, keeps what is known of clients and clusters.
LEMMA CalmKeeps == ASSUME MoveInv, Base', Calm PROVE MoveInv'
<1>1. Shaped' /\ Headless' /\ Served' /\ Numbered' /\ Joined'  BY AlikeKeeps DEF Calm
<1>2. Warned'  BY DEF MoveInv, Warned, Calm
<1> QED BY <1>1, <1>2 DEF MoveInv

\* No deletion is sent nor answered.
LEMMA AnsweredKept ==
  ASSUME NEW c \in Clients, Steps(c), call[c].pc # "deleted", call'[c].pc # "deleted",
         UNCHANGED <<owner, reaper>>
  PROVE  \A v \in Users : Answered(v)' <=> Answered(v)
BY DEF Answered, Steps, At

\* Where no call changes and no delete is answered, the same are answered.
LEMMA AnsweredReaped ==
  ASSUME UNCHANGED <<owner, call>>, reaper.pc # "deleted", reaper'.pc # "deleted"
  PROVE  \A v \in Users : Answered(v)' <=> Answered(v)
BY DEF Answered, At

\* Only c's call goes on, and no cluster changes.
LEMMA StepsCalm ==
  ASSUME Base, NEW c \in Clients, Steps(c), call[c].pc # "deleted", call'[c].pc \notin {"deleted", "relayed"},
         UNCHANGED <<owner, rc, made, clients, gone, session, reaper>>,
         hist'.mixed = hist.mixed, hist'.lost = hist.lost,
         \A v \in Users : started'[v] \in {started[v], None},
         \/ Same(c) \/ call'[c] = NoCall \/ call'[c].kind # "relay" \/ gone[c] = None
  PROVE  Calm
<1>1. \A v \in Users : Answered(v)' <=> Answered(v)  BY AnsweredKept
<1>2. \A v \in Users : Alike(v)  BY <1>1 DEF Alike, Stays
<1>3. ASSUME NEW d \in Clients, call'[d].kind = "relay", ~call'[d].raced
      PROVE  (call[d].kind = "relay" /\ ~call[d].raced) \/ gone[d] = None
  BY <1>3, NoCallType DEF Steps, Same
<1> QED BY <1>2, <1>3 DEF Calm, Unjoined, Steps

\* A step that leaves clusters and clients alone is calm,
LEMMA QuietCalm ==
  ASSUME UNCHANGED <<owner, made, clients, gone, session, call>>, hist'.mixed = hist.mixed,
         hist'.lost = hist.lost, \A v \in Users : Alike(v) /\ started'[v] \in {started[v], None}
  PROVE  Calm
BY DEF Calm, Unjoined

\* Calls that are joined to nothing.
LEMMA BeginsCalm ==
  ASSUME Base, NEW c \in Clients,
         \/ Told(c)
         \/ \E kind \in Kinds[c] \cap {"relay", "start"}, s \in Callable(c) : Begin(c, kind, s)
         \/ \E kind \in Kinds[c] \cap {"stop", "force"} : Begin(c, kind, None)
         \/ Ask(c) \/ Send(c) \/ StreamEnds(c)
  PROVE  Calm
<1> DEFINE u == owner[c]
<1>0. u \in Users /\ TypeOK  BY DEF Base, TypeOK
<1>s. \A s \in Callable(c) : s \in Shapes  BY DEF Callable, Shapes
<1>a. UNCHANGED <<owner, call, reaper>> => \A v \in Users : Answered(v)' <=> Answered(v)
  BY DEF Answered, At
<1>l. UNCHANGED <<owner, call, reaper, rc>> => \A v \in Users : Alike(v)
  BY <1>a DEF Alike, Stays
<1>1. CASE Told(c)  BY <1>1, <1>l, QuietCalm DEF Told, gateway
<1>2. ASSUME NEW kind \in {"relay", "start", "stop", "force"}, NEW s \in Shapes \cup {None}, Begin(c, kind, s)
      PROVE  Calm
  <2>1. /\ UNCHANGED <<owner, rc, made, started, clients, gone, session, reaper, hist>>
        /\ call' = [call EXCEPT ![c] = [NoCall EXCEPT !.pc = "get", !.kind = kind, !.shape = s]]
        /\ call[c].pc = "idle" /\ (kind = "relay" => gone[c] = None)
    BY <1>2 DEF Begin, gateway, At
  <2>2. "get" \in Pcs  BY DEF Pcs
  <2>3. Steps(c) /\ call'[c].pc = "get" /\ call'[c].kind = kind  BY <1>0, <2>1, <2>2, BeginSteps
  <2> QED BY <2>1, <2>3, StepsCalm
<1>3. ASSUME NEW kind \in {"relay", "start"}, NEW s \in Callable(c), Begin(c, kind, s) PROVE Calm
  BY <1>2, <1>3, <1>s
<1>4. ASSUME NEW kind \in {"stop", "force"}, Begin(c, kind, None) PROVE Calm
  BY <1>2, <1>4
<1>5. CASE Ask(c)
  <2>1. /\ UNCHANGED <<owner, rc, made, clients, gone, call, reaper, session>>
        /\ hist' = [hist EXCEPT !.asked[u] = 0]
        /\ started' = [started EXCEPT ![u] = IF HeadAnswers(u) THEN @ ELSE None]
    BY <1>5 DEF Ask
  <2> HIDE DEF u
  <2>2. hist'.mixed = hist.mixed /\ hist'.lost = hist.lost  BY <1>0, <2>1, AskedHist
  <2>3. \A v \in Users : started'[v] \in {started[v], None}  BY <1>0, <2>1 DEF TypeOK
  <2> QED BY <1>l, <2>1, <2>2, <2>3, QuietCalm
<1>6. CASE Send(c)
  <2>1. /\ UNCHANGED <<owner, made, started, clients, gone, call, reaper, session>>
        /\ hist' = [hist EXCEPT !.asked[u] = 0]
        /\ HeadAnswers(u) /\ \E b \in BOOLEAN : rc' = [rc EXCEPT ![u].busy = @ \/ b]
    BY <1>6 DEF Send
  <2> HIDE DEF u
  <2>2. hist'.mixed = hist.mixed /\ hist'.lost = hist.lost  BY <1>0, <2>1, AskedHist
  <2>3. PICK b \in BOOLEAN : rc' = [rc EXCEPT ![u].busy = @ \/ b]  BY <2>1
  <2> DEFINE x == rc[u].busy \/ b
  <2>4. rc[u] # None  BY <2>1 DEF HeadAnswers
  <2>5. rc' = [rc EXCEPT ![u].busy = x] /\ x \in BOOLEAN  BY <2>3
  <2> HIDE DEF x
  <2>6. /\ \A v \in Users \ {u} : rc'[v] = rc[v]
        /\ rc'[u].leaving = rc[u].leaving /\ rc'[u].head = rc[u].head
        /\ \A v \in Users : Stays(v)
    BY <1>0, <2>4, <2>5, PodsRc
  <2>7. \A v \in Users : Alike(v)  BY <1>a, <2>1, <2>6 DEF Alike
  <2> QED BY <2>1, <2>2, <2>7, QuietCalm
<1>7. CASE StreamEnds(c)
  <2>1. /\ UNCHANGED <<owner, rc, made, clients, gone, reaper, session, hist>>
        /\ started' = [started EXCEPT ![u] = IF HeadAnswers(u) THEN @ ELSE None]
        /\ Ends(c) /\ call[c].pc = "relayed"
    BY <1>7 DEF StreamEnds, At
  <2>2. Steps(c) /\ call'[c] = NoCall  BY <1>0, <2>1, EndsSteps
  <2>3. \A v \in Users : started'[v] \in {started[v], None}  BY <1>0, <2>1 DEF TypeOK
  <2> QED BY <2>1, <2>2, <2>3, StepsCalm, NoCallType
<1> QED BY <1>1, <1>3, <1>4, <1>5, <1>6, <1>7

\* ... a call that reads, lists, decides or fails,
LEMMA CallsCalm ==
  ASSUME Base, NEW c \in Clients,
         \/ GetCluster(c) \/ GetToStop(c) \/ AskBusy(c) \/ AdmitList(c)
         \/ \E free \in FreeGpus : AdmitDecide(c, free)
         \/ Left(c) \/ (Create(c) /\ rc[owner[c]] # None) \/ CreateFails(c) \/ HeadOpen(c) \/ Refuse(c)
  PROVE  Calm
<1>0. owner[c] \in Users /\ TypeOK /\ Asking /\ Locked  BY DEF Base, TypeOK
<1>e. ASSUME Ends(c), UNCHANGED <<owner, rc, made, started, clients, gone, session, reaper, hist>>,
             call[c].pc # "deleted"
      PROVE  Calm
  <2>1. Steps(c) /\ call'[c] = NoCall  BY <1>0, <1>e, EndsSteps
  <2> QED BY <1>e, <2>1, StepsCalm, NoCallType
<1>g. ASSUME NEW pc \in Pcs, Goes(c, pc), call[c].pc # "deleted", pc \notin {"deleted", "relayed"},
             UNCHANGED <<owner, rc, made, started, clients, gone, session, reaper, hist>>
      PROVE  Calm
  <2>1. Steps(c) /\ Same(c) /\ call'[c].pc = pc  BY <1>0, <1>g, GoesSteps
  <2> QED BY <1>g, <2>1, StepsCalm
<1>1. CASE GetCluster(c)
  <2>1. /\ UNCHANGED <<owner, rc, made, started, clients, gone, session, reaper>>
        /\ hist' = [hist EXCEPT !.asked[owner[c]] = 0] /\ call[c].pc = "get"
    BY <1>1 DEF GetCluster, At
  <2>2. Steps(c) /\ Same(c) /\ call'[c].pc \in {"head", "busy", "admit"}  BY <1>0, <1>1, GetSteps
  <2>3. hist'.mixed = hist.mixed /\ hist'.lost = hist.lost  BY <1>0, <2>1, AskedHist
  <2> QED BY <2>1, <2>2, <2>3, StepsCalm
<1>2. CASE GetToStop(c)
  <2>1. (Ends(c) \/ Goes(c, "delete") \/ Goes(c, "busy")) /\ call[c].pc = "get"  BY <1>2 DEF GetToStop, At
  <2>2. UNCHANGED <<owner, rc, made, started, clients, gone, session, reaper, hist>>
    BY <1>2 DEF GetToStop, gateway
  <2> QED BY <1>e, <1>g, <2>1, <2>2 DEF Pcs
<1>3. CASE AskBusy(c)
  <2>1. (Ends(c) \/ Goes(c, "admit") \/ Goes(c, "delete")) /\ call[c].pc = "busy"  BY <1>3 DEF AskBusy, At
  <2>2. UNCHANGED <<owner, rc, made, started, clients, gone, session, reaper, hist>>
    BY <1>3 DEF AskBusy, gateway
  <2> QED BY <1>e, <1>g, <2>1, <2>2 DEF Pcs
<1>4. CASE AdmitList(c)
  <2>1. UNCHANGED <<owner, rc, made, started, clients, gone, session, reaper, hist>> /\ call[c].pc = "admit"
    BY <1>4 DEF AdmitList, At
  <2>2. Steps(c) /\ Same(c) /\ call'[c].pc = "admitting"  BY <1>0, <1>4, ListSteps
  <2> QED BY <2>1, <2>2, StepsCalm
<1>5. ASSUME NEW free \in FreeGpus, AdmitDecide(c, free) PROVE Calm
  <2>1. UNCHANGED <<owner, rc, made, started, clients, gone, session, reaper>>  BY <1>5 DEF AdmitDecide
  <2>2. /\ Steps(c) /\ call[c].pc = "admitting"
        /\ call'[c] = NoCall \/ (Same(c) /\ call'[c].pc \in {"delete", "leaving", "create"})
        /\ hist'.mixed = hist.mixed /\ hist'.lost = hist.lost
    BY <1>0, <1>5, DecideIs
  <2> QED BY <2>1, <2>2, StepsCalm, NoCallType
<1>6. CASE Left(c)
  <2>1. Goes(c, "create") /\ call[c].pc = "leaving"
        /\ UNCHANGED <<owner, rc, made, started, clients, gone, session, reaper, hist>>
    BY <1>6 DEF Left, gateway, At
  <2> QED BY <1>g, <2>1 DEF Pcs
<1>7. CASE Create(c) /\ rc[owner[c]] # None
  <2>1. (Ends(c) \/ Goes(c, "head")) /\ call[c].pc = "create"
        /\ UNCHANGED <<owner, rc, made, started, clients, gone, session, reaper, hist>>
    BY <1>7 DEF Create, gateway, At
  <2> QED BY <1>e, <1>g, <2>1 DEF Pcs
<1>8. CASE CreateFails(c)  BY <1>8, <1>e DEF CreateFails, At
<1>9. CASE HeadOpen(c)
  <2>1. /\ call' = [call EXCEPT ![c].pc = "delete", ![c].kind = "open"] /\ call[c].pc = "head"
        /\ UNCHANGED <<owner, rc, made, started, clients, gone, session, reaper, hist>>
    BY <1>9 DEF HeadOpen, gateway, At
  <2>2. Steps(c) /\ call'[c].pc = "delete" /\ call'[c].kind = "open"  BY <1>0, <2>1, OpenSteps
  <2> QED BY <2>1, <2>2, StepsCalm
<1>10. CASE Refuse(c)
  <2>1. Ends(c) /\ UNCHANGED <<owner, rc, made, started, clients, gone, session, reaper, hist>>
        /\ call[c].pc # "deleted"
    BY <1>10 DEF Refuse, gateway, At
  <2> QED BY <1>e, <2>1
<1> QED BY <1>1, <1>2, <1>3, <1>4, <1>5, <1>6, <1>7, <1>8, <1>9, <1>10

\* ... and a reaper that only looks.
LEMMA OthersCalm ==
  ASSUME Base,
         \/ ReapList \/ (\E u \in Users : ReapLate(u) \/ ReapAsk(u) \/ TasksEnd(u))
         \/ (ReapDelete /\ reaper'.pc # "deleted") \/ UNCHANGED vars
  PROVE  Calm
<1>0. TypeOK  BY DEF Base
<1>r. ASSUME UNCHANGED <<owner, rc, made, started, clients, gone, session, call, hist>>,
             \/ UNCHANGED reaper \/ (reaper.pc # "deleted" /\ reaper'.pc # "deleted")
      PROVE  Calm
  <2>1. \A v \in Users : Answered(v)' <=> Answered(v)
    BY <1>r, AnsweredReaped DEF Answered, At
  <2>2. \A v \in Users : Alike(v)  BY <1>r, <2>1 DEF Alike, Stays
  <2> QED BY <1>r, <2>2, QuietCalm
<1>1. CASE ReapList
  <2>1. reaper.pc = "asleep" /\ reaper'.pc = "next"  BY <1>1 DEF ReapList, Asleep
  <2> QED BY <1>1, <1>r, <2>1 DEF ReapList, gateway
<1>2. ASSUME NEW u \in Users, ReapLate(u) PROVE Calm
  <2>1. reaper.pc = "next" /\ reaper' = [reaper EXCEPT !.at = u, !.pc = "late"]  BY <1>2 DEF ReapLate
  <2>2. reaper'.pc = "late"  BY <1>0, <2>1, ReaperSet
  <2> QED BY <1>2, <1>r, <2>1, <2>2 DEF ReapLate, gateway
<1>3. ASSUME NEW u \in Users, ReapAsk(u) PROVE Calm
  <2>1. reaper.pc = "next" /\ (\/ reaper' = [reaper EXCEPT !.at = u, !.pc = "idle"]
                               \/ reaper' = Passed(u))
    BY <1>3 DEF ReapAsk
  <2>2. reaper'.pc # "deleted"  BY <1>0, <2>1, ReaperSet
  <2> QED BY <1>3, <1>r, <2>1, <2>2 DEF ReapAsk
<1>4. CASE ReapDelete /\ reaper'.pc # "deleted"
  <2>1. reaper.pc \in {"late", "idle"} /\ UNCHANGED <<owner, made, started, clients, gone, session, call, hist>>
        /\ (reaper' = [reaper EXCEPT !.pc = "deleted"] \/ UNCHANGED rc)
    BY <1>4 DEF ReapDelete, gateway
  <2>2. UNCHANGED rc  BY <1>0, <1>4, <2>1, ReaperSet
  <2> QED BY <1>4, <1>r, <2>1, <2>2
<1>5. ASSUME NEW u \in Users, TasksEnd(u) PROVE Calm
  <2>1. rc[u] # None /\ rc' = [rc EXCEPT ![u].busy = FALSE]
        /\ UNCHANGED <<owner, made, started, clients, gone, session, call, reaper, hist>>
    BY <1>5 DEF TasksEnd, gateway
  <2>2. /\ \A v \in Users \ {u} : rc'[v] = rc[v]
        /\ rc'[u].leaving = rc[u].leaving /\ rc'[u].head = rc[u].head
        /\ \A v \in Users : Stays(v)
    BY <1>0, <2>1, PodsRc
  <2>3. \A v \in Users : Answered(v)' <=> Answered(v)  BY <2>1 DEF Answered, At
  <2>4. \A v \in Users : Alike(v)  BY <2>2, <2>3 DEF Alike
  <2> QED BY <2>1, <2>4, QuietCalm
<1>6. CASE UNCHANGED vars  BY <1>6, <1>r DEF vars, gateway
<1> QED BY <1>1, <1>2, <1>3, <1>4, <1>5, <1>6

\* u's cluster is marked by a deletion that is under way from here on.
LEMMA LeavesKeeps ==
  ASSUME MoveInv, Base', NEW u \in Users, Leaves(u), ~Answered(u)',
         UNCHANGED <<owner, made, started, clients, gone, session, hist>>,
         \A v \in Users \ {u} : Answered(v)' <=> Answered(v),
         \A d \in Clients : call'[d].kind = call[d].kind /\ call'[d].raced = call[d].raced
  PROVE  MoveInv'
<1>0. TypeOK /\ owner \in [Clients -> Users]  BY DEF MoveInv, Base, TypeOK
<1>1. /\ ~Live(rc'[u]) /\ (rc[u] # None => rc'[u].head = rc[u].head)
      /\ \A v \in Users \ {u} : rc'[v] = rc[v]
      /\ \A v \in Users : Stays(v)
  BY <1>0, LeavesRc
<1>2. Shaped'  BY <1>1 DEF MoveInv, Shaped, Stays
<1>3. Headless'  BY <1>1 DEF MoveInv, Headless
<1>4. ASSUME NEW c \in Clients, owner[c] \notin hist.mixed, session[c] # None
      PROVE  /\ hist.lost[c] = None => c \in clients[owner[c]]
             /\ ~Answered(owner[c])' /\ Live(rc'[owner[c]]) => session[c] # rc'[owner[c]].uid
  <2>1. PICK v \in Users : v = owner[c]  BY <1>0
  <2>2. Answered(owner[c])' <=> Answered(v)'  BY <2>1 DEF Answered
  <2>3. /\ hist.lost[c] = None => c \in clients[v]
        /\ ~Answered(v) /\ Live(rc[v]) => session[c] # rc[v].uid
    BY <1>4, <2>1 DEF MoveInv, Served
  <2>4. ~Answered(v)' /\ Live(rc'[v]) => session[c] # rc'[v].uid  BY <1>1, <2>3
  <2> QED BY <2>1, <2>2, <2>3, <2>4
<1>5. Served'  BY <1>4 DEF Served
<1>6. Warned'  BY DEF MoveInv, Warned
<1>7. Numbered' /\ Joined'  BY <1>1 DEF MoveInv, Numbered, Joined, Stays
<1> QED BY <1>2, <1>3, <1>5, <1>6, <1>7 DEF MoveInv

\* The answer to a deletion of u's cluster: who was on it is told.
LEMMA ForgetKeeps ==
  ASSUME MoveInv, Base', NEW u \in Users, ~Answered(u), Forget(u), hist' = Losing(u),
         UNCHANGED <<owner, rc, made, session>>,
         \A v \in Users \ {u} : Answered(v)' <=> Answered(v),
         \A d \in Clients : owner[d] = u => call'[d].kind # "relay" \/ call'[d].raced,
         \A d \in Clients : owner[d] # u => call'[d] = call[d]
  PROVE  MoveInv'
<1>0. TypeOK /\ owner \in [Clients -> Users] /\ Idle \in Nat /\ GoneFor \in Nat
  BY TimesAre DEF MoveInv, Base, TypeOK
<1>1. /\ hist'.mixed = hist.mixed
      /\ \A c \in Clients : hist'.lost[c] = IF Loses(c, u) THEN 0 ELSE hist.lost[c]
  BY <1>0, LosingHist
<1>2. /\ started'[u] = None /\ \A v \in Users \ {u} : started'[v] = started[v]
      /\ \A v \in Users \ {u} : clients'[v] = clients[v]
      /\ \A c \in Clients : gone'[c] = IF c \in clients[u] THEN 0 ELSE gone[c]
  BY <1>0 DEF Forget, TypeOK
<1>3. Shaped'  BY <1>1, <1>2 DEF MoveInv, Shaped
<1>4. Headless'  BY DEF MoveInv, Headless
<1>5. ASSUME NEW c \in Clients, owner[c] \notin hist.mixed, session[c] # None
      PROVE  /\ hist'.lost[c] = None => c \in clients'[owner[c]]
             /\ ~Answered(owner[c])' /\ Live(rc[owner[c]]) => session[c] # rc[owner[c]].uid
  <2>1. PICK v \in Users : v = owner[c]  BY <1>0
  <2>2. Answered(owner[c])' <=> Answered(v)'  BY <2>1 DEF Answered
  <2>3. /\ hist.lost[c] = None => c \in clients[v]
        /\ ~Answered(v) /\ Live(rc[v]) => session[c] # rc[v].uid
    BY <1>5, <2>1 DEF MoveInv, Served
  <2>4. ~Answered(v)' /\ Live(rc[v]) => session[c] # rc[v].uid  BY <2>3
  <2>5. hist'.lost[c] = None => c \in clients'[v]
    <3>1. CASE v = u
      <4>1. hist'.lost[c] # None
        <5>1. CASE Loses(c, u)  BY <1>1, <5>1, NoneAssumption
        <5>2. CASE ~Loses(c, u)
          <6>1. hist.lost[c] # None  BY <1>5, <2>1, <2>3, <3>1, <5>2 DEF Loses
          <6> QED BY <1>1, <5>2, <6>1
        <5> QED BY <5>1, <5>2
      <4> QED BY <4>1
    <3>2. CASE v # u
      <4>1. hist'.lost[c] = hist.lost[c]  BY <1>1, <2>1, <3>2 DEF Loses
      <4> QED BY <1>2, <2>3, <3>2, <4>1
    <3> QED BY <3>1, <3>2
  <2> QED BY <2>1, <2>2, <2>4, <2>5
<1>6. Served'  BY <1>1, <1>5 DEF Served
<1>7. ASSUME NEW c \in Clients, owner[c] \notin hist.mixed
      PROVE  /\ hist'.lost[c] \notin {None, GoneFor} => gone'[c] # None /\ gone'[c] <= hist'.lost[c]
             /\ call'[c].kind = "relay" /\ ~call'[c].raced => hist'.lost[c] \in {None, GoneFor}
  <2>1. hist.lost[c] \in 0..GoneFor \cup {None} /\ gone[c] \in 0..GoneFor \cup {None} /\ None \notin Nat
    BY <1>0, NoneAssumption DEF TypeOK, HistType
  <2>2. CASE Loses(c, u)
    <3>1. c \in clients[u]  BY <1>7, <2>2 DEF MoveInv, Served, Loses
    <3>2. hist'.lost[c] = 0 /\ gone'[c] = 0  BY <1>1, <1>2, <2>2, <3>1
    <3>3. call'[c].kind # "relay" \/ call'[c].raced  BY <2>2 DEF Loses
    <3> QED BY <2>1, <3>2, <3>3
  <2>3. CASE ~Loses(c, u)
    <3>1. hist'.lost[c] = hist.lost[c]  BY <1>1, <2>3
    <3>2. /\ hist.lost[c] \notin {None, GoneFor} => gone[c] # None /\ gone[c] <= hist.lost[c]
          /\ call[c].kind = "relay" /\ ~call[c].raced => hist.lost[c] \in {None, GoneFor}
      BY <1>7 DEF MoveInv, Warned
    <3>3. hist'.lost[c] \notin {None, GoneFor} => gone'[c] # None /\ gone'[c] <= hist'.lost[c]
      BY <1>0, <1>2, <2>1, <3>1, <3>2
    <3>4. call'[c].kind = "relay" /\ ~call'[c].raced => call'[c] = call[c]  OBVIOUS
    <3> QED BY <3>1, <3>2, <3>3, <3>4
  <2> QED BY <2>2, <2>3
<1>8. Warned'  BY <1>1, <1>7 DEF Warned
<1>9. Numbered' /\ Joined'  BY DEF MoveInv, Numbered, Joined
<1> QED BY <1>3, <1>4, <1>6, <1>8, <1>9 DEF MoveInv

\* Calls of others go on where they were when u's deletion is answered.
LEMMA ClosedMoves ==
  ASSUME Base, NEW u \in Users, NEW d \in Clients
  PROVE  /\ owner[d] # u => Closed(u)[d] = call[d]
         /\ owner[d] = u => Closed(u)[d].kind # "relay" \/ Closed(u)[d].raced
         /\ Closed(u)[d].pc \in {call[d].pc, "idle"}
         /\ Closed(u)[d].pc = "relayed" => owner[d] # u
<1>0. TypeOK /\ Asking  BY DEF Base
<1>1. CASE owner[d] # u  BY <1>0, <1>1, ClosedIs
<1>2. CASE owner[d] = u /\ At(d, "idle")
  <2>1. Closed(u)[d] = call[d] /\ call[d] = NoCall  BY <1>0, <1>2, ClosedIs DEF Asking
  <2> QED BY <1>2, <2>1, NoCallType DEF At
<1>3. CASE owner[d] = u /\ ~At(d, "idle")
  BY <1>0, <1>3, ClosedIs, NoCallType DEF At
<1> QED BY <1>1, <1>2, <1>3

\* A delete keeps what is known, and joins nobody to another cluster,
LEMMA RemovalsMove ==
  ASSUME MoveInv, Base',
         (\E c \in Clients : Delete(c) \/ Deleted(c)) \/ (ReapDelete /\ reaper'.pc = "deleted") \/ ReapDeleted
  PROVE  MoveInv' /\ Unjoined
<1>0. TypeOK /\ Base /\ owner \in [Clients -> Users] /\ Asking  BY DEF MoveInv, Base, TypeOK
<1>1. ASSUME NEW c \in Clients, Delete(c) PROVE MoveInv' /\ Unjoined
  <2>1. PICK u \in Users : u = owner[c]  BY <1>0
  <2>2. Leaves(u) /\ Goes(c, "deleted") /\ UNCHANGED <<owner, made, started, clients, gone, session, reaper, hist>>
        /\ call[c].pc = "delete"
    BY <1>1, <2>1 DEF Delete, gateway, At
  <2>3. "deleted" \in Pcs  BY DEF Pcs
  <2>4. Steps(c) /\ Same(c) /\ call'[c].pc = "deleted"  BY <1>0, <2>2, <2>3, GoesSteps
  <2>5. ~Answered(u)'  BY <2>1, <2>2, <2>4 DEF Answered, At
  <2>6. \A v \in Users \ {u} : Answered(v)' <=> Answered(v)
    BY <2>1, <2>2, <2>4 DEF Answered, At, Steps
  <2>7. \A d \in Clients : call'[d].kind = call[d].kind /\ call'[d].raced = call[d].raced
    BY <2>4 DEF Steps, Same
  <2>8. Unjoined  BY <2>4 DEF Unjoined, Steps
  <2> QED BY <2>2, <2>5, <2>6, <2>7, <2>8, LeavesKeeps
<1>2. CASE ReapDelete /\ reaper'.pc = "deleted"
  <2>1. /\ UNCHANGED <<owner, made, started, clients, gone, session, call, hist>>
        /\ reaper.pc \in {"late", "idle"}
        /\ \/ Leaves(reaper.at) /\ reaper' = [reaper EXCEPT !.pc = "deleted"]
           \/ reaper' = Passed(reaper.at)
    BY <1>2 DEF ReapDelete, gateway
  <2>2. PICK u \in Users : u = reaper.at  BY <1>0, <2>1 DEF TypeOK
  <2>3. Leaves(u) /\ reaper'.at = u  BY <1>0, <1>2, <2>1, <2>2, ReaperSet
  <2>4. ~Answered(u)'  BY <1>2, <2>3 DEF Answered
  <2>5. \A v \in Users \ {u} : Answered(v)' <=> Answered(v)
    BY <1>2, <2>1, <2>3 DEF Answered, At
  <2> QED BY <2>1, <2>3, <2>4, <2>5, LeavesKeeps DEF Unjoined
<1>3. ASSUME NEW c \in Clients, Deleted(c) PROVE MoveInv' /\ Unjoined
  <2>1. PICK u \in Users : u = owner[c]  BY <1>0
  <2>2. /\ Forget(u) /\ hist' = Losing(u) /\ UNCHANGED <<owner, rc, made, reaper, session>>
        /\ call[c].pc = "deleted"
    BY <1>3, <2>1 DEF Deleted, At
  <2>3. /\ \A d \in Clients \ {c} : call'[d] = Closed(u)[d]
        /\ Starting(c) => call'[c].pc = "leaving" /\ call'[c].raced
        /\ ~Starting(c) => call'[c] = NoCall
    BY <1>0, <1>3, <2>1, DeletedSteps
  <2>4. ~Answered(u)  BY <2>1, <2>2 DEF Answered, At
  <2>5. \A d \in Clients : owner[d] # u => call'[d] = call[d]
    BY <1>0, <2>1, <2>3, ClosedMoves
  <2>6. \A d \in Clients : owner[d] = u => call'[d].kind # "relay" \/ call'[d].raced
    <3>1. call'[c].kind # "relay" \/ call'[c].raced  BY <2>3, NoCallType
    <3> QED BY <1>0, <2>3, <3>1, ClosedMoves
  <2>7. \A v \in Users \ {u} : Answered(v)' <=> Answered(v)
    BY <2>2, <2>5 DEF Answered, At
  <2>8. Unjoined
    <3>1. call'[c].pc # "relayed"  BY <2>3, NoCallType
    <3> QED BY <1>0, <2>3, <3>1, ClosedMoves DEF Unjoined
  <2> QED BY <2>2, <2>4, <2>5, <2>6, <2>7, <2>8, ForgetKeeps
<1>4. CASE ReapDeleted
  <2>1. /\ Forget(reaper.at) /\ hist' = Losing(reaper.at) /\ call' = Closed(reaper.at)
        /\ reaper' = Passed(reaper.at) /\ reaper.pc = "deleted"
        /\ UNCHANGED <<owner, rc, made, session>>
    BY <1>4 DEF ReapDeleted
  <2>2. PICK u \in Users : u = reaper.at  BY <1>0, <2>1 DEF TypeOK
  <2>3. Forget(u) /\ hist' = Losing(u) /\ call' = Closed(u) /\ reaper'.pc \in {"asleep", "next"}
    BY <1>0, <2>1, <2>2, ReaperSet
  <2>4. ~Answered(u)  BY <2>1, <2>2 DEF Answered
  <2>5. \A d \in Clients : owner[d] # u => call'[d] = call[d]  BY <1>0, <2>3, ClosedMoves
  <2>6. \A d \in Clients : owner[d] = u => call'[d].kind # "relay" \/ call'[d].raced
    BY <1>0, <2>3, ClosedMoves
  <2>7. \A v \in Users \ {u} : Answered(v)' <=> Answered(v)
    BY <2>1, <2>2, <2>3, <2>5 DEF Answered, At
  <2>8. Unjoined  BY <1>0, <2>3, ClosedMoves DEF Unjoined
  <2> QED BY <2>1, <2>3, <2>4, <2>5, <2>6, <2>7, <2>8, ForgetKeeps
<1> QED BY <1>1, <1>2, <1>3, <1>4

\* ... a creation,
LEMMA CreateMoves ==
  ASSUME MoveInv, Base', NEW c \in Clients, Create(c), rc[owner[c]] = None
  PROVE  MoveInv' /\ Unjoined
<1>0. TypeOK /\ owner \in [Clients -> Users] /\ rc \in [Users -> RayCluster \cup {None}] /\ made \in Nat
  BY DEF MoveInv, Base, TypeOK
<1>1. PICK u \in Users : u = owner[c]  BY <1>0
<1> DEFINE k == Built(call[c])
           b == ~Covers(grants[u], call[c].mix)
<1>2. /\ UNCHANGED <<owner, started, clients, gone, session, reaper>> /\ call[c].pc = "create"
      /\ rc' = [rc EXCEPT ![u] = k] /\ made' = made + 1
      /\ call' = [call EXCEPT ![c].pc = "head", ![c].mix = NoGpus]
      /\ hist' = [hist EXCEPT !.lapsed = @ \/ b]
  BY <1>1 DEF Create, gateway, At
<1>3. b \in BOOLEAN  BY DEF Covers
<1> HIDE DEF b
<1>4. hist'.mixed = hist.mixed /\ hist'.lost = hist.lost  BY <1>0, <1>2, <1>3, CreateHist
<1>5. Steps(c) /\ Same(c) /\ call'[c].pc = "head"  BY <1>0, <1>2, CreateSteps
<1>6. \A v \in Users : Answered(v)' <=> Answered(v)  BY <1>2, <1>5, AnsweredKept
<1>7. k.uid = made + 1 /\ ~k.head  BY DEF Built
<1>8. rc'[u] = k /\ \A v \in Users \ {u} : rc'[v] = rc[v]  BY <1>0, <1>2
<1> HIDE DEF k
<1>9. rc[u] = None  BY <1>1
<1>10. Shaped'  BY <1>2, <1>4, <1>6, <1>8, <1>9 DEF MoveInv, Shaped
<1>11. Headless'  BY <1>6, <1>7, <1>8 DEF MoveInv, Headless
<1>12. ASSUME NEW d \in Clients, owner[d] \notin hist.mixed, session[d] # None
       PROVE  /\ hist.lost[d] = None => d \in clients[owner[d]]
              /\ ~Answered(owner[d])' /\ Live(rc'[owner[d]]) => session[d] # rc'[owner[d]].uid
  <2>1. PICK v \in Users : v = owner[d]  BY <1>0
  <2>2. Answered(owner[d])' <=> Answered(v)'  BY <1>2, <2>1 DEF Answered
  <2>3. /\ hist.lost[d] = None => d \in clients[v]
        /\ ~Answered(v) /\ Live(rc[v]) => session[d] # rc[v].uid
        /\ session[d] <= made /\ session[d] \in Nat
    BY <1>0, <1>12, <2>1 DEF MoveInv, Served, Joined, TypeOK
  <2>4. ~Answered(v)' /\ Live(rc'[v]) => session[d] # rc'[v].uid
    <3>1. CASE v = u  BY <1>0, <1>7, <1>8, <2>3, <3>1
    <3>2. CASE v # u  BY <1>6, <1>8, <2>3, <3>2
    <3> QED BY <3>1, <3>2
  <2> QED BY <2>1, <2>2, <2>3, <2>4
<1>13. Served'  BY <1>2, <1>4, <1>12 DEF Served
<1>14. Warned'
  <2>1. \A d \in Clients : call'[d].kind = call[d].kind /\ call'[d].raced = call[d].raced
    BY <1>5 DEF Steps, Same
  <2> QED BY <1>2, <1>4, <2>1 DEF MoveInv, Warned
<1>15. Numbered'
  <2>1. ASSUME NEW v \in Users, rc'[v] # None PROVE rc'[v].uid <= made + 1
    <3>1. CASE v = u  BY <1>0, <1>7, <1>8, <3>1
    <3>2. CASE v # u
      <4>1. rc'[v] = rc[v] /\ rc[v].uid <= made /\ rc[v].uid \in Nat
        BY <1>0, <1>8, <2>1, <3>2 DEF MoveInv, Numbered, RayCluster
      <4> QED BY <1>0, <4>1
    <3> QED BY <3>1, <3>2
  <2> QED BY <1>2, <2>1 DEF Numbered
<1>16. Joined'
  <2>1. \A d \in Clients : session[d] # None => session[d] \in Nat /\ session[d] <= made
    BY <1>0 DEF MoveInv, Joined, TypeOK
  <2> QED BY <1>0, <1>2, <2>1 DEF Joined
<1>17. Unjoined  BY <1>5 DEF Unjoined, Steps
<1> QED BY <1>10, <1>11, <1>13, <1>14, <1>15, <1>16, <1>17 DEF MoveInv

\* ... pods that start or leave,
LEMMA PodsMove ==
  ASSUME MoveInv, Base', NEW u \in Users, PodsStart(u) \/ PodsLeave(u)
  PROVE  MoveInv' /\ Unjoined
<1>0. TypeOK /\ owner \in [Clients -> Users] /\ rc \in [Users -> RayCluster \cup {None}]
  BY DEF MoveInv, Base, TypeOK
<1>1. UNCHANGED <<owner, made, started, clients, gone, session, call, reaper, hist>> /\ Answered(u)
      /\ rc[u] # None
  BY DEF PodsStart, PodsLeave, gateway, Live
<1>2. \A v \in Users : Answered(v)' <=> Answered(v)  BY <1>1 DEF Answered, At
<1>3. \A v \in Users \ {u} : rc'[v] = rc[v]
  <2>1. CASE PodsLeave(u)  BY <1>0, <2>1 DEF PodsLeave
  <2>2. CASE PodsStart(u)
    <3>1. rc' = [rc EXCEPT ![u].head = TRUE] \/ rc' = [rc EXCEPT ![u].full = TRUE]  BY <2>2 DEF PodsStart
    <3> QED BY <1>0, <1>1, <3>1, PodsRc
  <2> QED BY <2>1, <2>2
<1>4. /\ u \notin hist.mixed /\ started[u] # None =>
           rc'[u] # None /\ rc'[u].shape = rc[u].shape /\ rc'[u].head /\ ~rc'[u].leaving
      /\ rc'[u] # None => rc'[u].uid = rc[u].uid
  <2>1. u \notin hist.mixed /\ started[u] # None => ~rc[u].leaving /\ rc[u].head
    BY <1>1 DEF MoveInv, Shaped
  <2>2. CASE PodsLeave(u)
    <3>1. rc[u].leaving /\ rc'[u] = None  BY <1>0, <2>2 DEF PodsLeave
    <3> QED BY <2>1, <3>1
  <2>3. CASE PodsStart(u)
    <3>1. rc' = [rc EXCEPT ![u].head = TRUE] \/ rc' = [rc EXCEPT ![u].full = TRUE]  BY <2>3 DEF PodsStart
    <3>2. Stays(u) /\ rc'[u].leaving = rc[u].leaving /\ (rc[u].head => rc'[u].head)
      BY <1>0, <1>1, <3>1, PodsRc
    <3> QED BY <1>1, <2>1, <3>2 DEF Stays
  <2> QED BY <2>2, <2>3
<1>5. Shaped'  BY <1>1, <1>2, <1>3, <1>4 DEF MoveInv, Shaped
<1>6. Headless'  BY <1>1, <1>2, <1>3 DEF MoveInv, Headless
<1>7. ASSUME NEW d \in Clients, owner[d] \notin hist.mixed, session[d] # None
      PROVE  /\ hist.lost[d] = None => d \in clients[owner[d]]
             /\ ~Answered(owner[d])' /\ Live(rc'[owner[d]]) => session[d] # rc'[owner[d]].uid
  <2>1. PICK v \in Users : v = owner[d]  BY <1>0
  <2>2. Answered(owner[d])' <=> Answered(v)'  BY <1>1, <2>1 DEF Answered
  <2>3. /\ hist.lost[d] = None => d \in clients[v]
        /\ ~Answered(v) /\ Live(rc[v]) => session[d] # rc[v].uid
    BY <1>7, <2>1 DEF MoveInv, Served
  <2>4. ~Answered(v)' /\ Live(rc'[v]) => session[d] # rc'[v].uid
    BY <1>1, <1>2, <1>3, <2>3
  <2> QED BY <2>1, <2>2, <2>3, <2>4
<1>8. Served'  BY <1>1, <1>7 DEF Served
<1>9. Warned'  BY <1>1 DEF MoveInv, Warned
<1>10. Numbered'
  <2>1. \A v \in Users : rc[v] # None => rc[v].uid <= made  BY DEF MoveInv, Numbered
  <2> QED BY <1>1, <1>3, <1>4, <2>1 DEF Numbered
<1>11. Joined' /\ Unjoined  BY <1>1 DEF MoveInv, Joined, Unjoined
<1> QED BY <1>5, <1>6, <1>8, <1>9, <1>10, <1>11 DEF MoveInv

\* ... time,
LEMMA TickMoves == ASSUME MoveInv, Base', Tick PROVE MoveInv' /\ Unjoined
<1>0. TypeOK /\ GoneFor \in Nat /\ None \notin 0..GoneFor /\ None \notin Nat
  BY TimesAre, NoneAssumption DEF MoveInv, Base
<1>1. /\ UNCHANGED <<owner, made, started, clients, reaper, session>>
      /\ gone' = [c \in Clients |-> IF gone[c] = None \/ gone[c] + 1 >= GoneFor THEN None
                                    ELSE gone[c] + 1]
  BY DEF Tick
<1>2. /\ hist'.mixed = hist.mixed
      /\ \A c \in Clients : hist'.lost[c] = Older(hist.lost[c], GoneFor)
  BY <1>0, TickHist
<1>3. \A d \in Clients : /\ call'[d].pc = call[d].pc /\ call'[d].kind = call[d].kind
                         /\ call'[d].raced = call[d].raced
  BY <1>0, TickSteps
<1>4. \A v \in Users : Answered(v)' <=> Answered(v)  BY <1>1, <1>3 DEF Answered, At
<1>5. \A v \in Users : Alike(v)  BY <1>0, <1>4, TickRc DEF Alike
<1>6. ASSUME NEW c \in Clients
      PROVE  /\ hist.lost[c] \in 0..GoneFor \cup {None} /\ gone[c] \in 0..GoneFor \cup {None}
             /\ hist'.lost[c] = None <=> hist.lost[c] = None
             /\ hist.lost[c] # None =>
                  hist'.lost[c] = IF hist.lost[c] < GoneFor THEN hist.lost[c] + 1 ELSE GoneFor
  <2>1. hist.lost[c] \in 0..GoneFor \cup {None} /\ gone[c] \in 0..GoneFor \cup {None}
    BY <1>0 DEF TypeOK, HistType
  <2> DEFINE l == hist.lost[c]
  <2>2. /\ Older(l, GoneFor) = None <=> l = None
        /\ l # None => Older(l, GoneFor) = IF l < GoneFor THEN l + 1 ELSE GoneFor
    <3>1. l \in 0..GoneFor \cup {None}  BY <2>1
    <3> HIDE DEF l
    <3> QED BY <1>0, <3>1, OlderIs
  <2>3. hist'.lost[c] = Older(l, GoneFor)  BY <1>2
  <2> QED BY <2>1, <2>2, <2>3
<1>7. Shaped' /\ Headless' /\ Served' /\ Numbered' /\ Joined'
  BY <1>1, <1>2, <1>5, <1>6, AlikeKeeps
<1>8. ASSUME NEW c \in Clients, owner[c] \notin hist.mixed
      PROVE  /\ hist'.lost[c] \notin {None, GoneFor} => gone'[c] # None /\ gone'[c] <= hist'.lost[c]
             /\ call[c].kind = "relay" /\ ~call[c].raced => hist'.lost[c] \in {None, GoneFor}
  <2>1. /\ hist.lost[c] \notin {None, GoneFor} => gone[c] # None /\ gone[c] <= hist.lost[c]
        /\ call[c].kind = "relay" /\ ~call[c].raced => hist.lost[c] \in {None, GoneFor}
    BY <1>8 DEF MoveInv, Warned
  <2>2. gone'[c] = IF gone[c] = None \/ gone[c] + 1 >= GoneFor THEN None ELSE gone[c] + 1  BY <1>1
  <2>3. ASSUME hist'.lost[c] \notin {None, GoneFor} PROVE gone'[c] # None /\ gone'[c] <= hist'.lost[c]
    <3>1. hist.lost[c] \in 0..GoneFor /\ hist.lost[c] < GoneFor /\ hist'.lost[c] = hist.lost[c] + 1
      BY <1>0, <1>6, <2>3
    <3>2. gone[c] \in 0..GoneFor /\ gone[c] <= hist.lost[c]  BY <1>0, <1>6, <2>1, <3>1
    <3> QED BY <1>0, <2>2, <2>3, <3>1, <3>2
  <2>4. hist.lost[c] \in {None, GoneFor} => hist'.lost[c] \in {None, GoneFor}  BY <1>0, <1>6
  <2> QED BY <2>1, <2>3, <2>4
<1>9. Warned'  BY <1>1, <1>2, <1>3, <1>8 DEF Warned
<1>10. Unjoined  BY <1>3 DEF Unjoined
<1> QED BY <1>7, <1>9, <1>10 DEF MoveInv

\* ... and a restart.
LEMMA RestartMoves == ASSUME MoveInv, Base', Restart PROVE MoveInv' /\ Unjoined
<1>0. TypeOK  BY DEF MoveInv, Base
<1>1. /\ UNCHANGED <<owner, rc, made>> /\ reaper' = Asleep /\ started' = [u \in Users |-> None]
      /\ call' = [c \in Clients |-> NoCall] /\ session' = [c \in Clients |-> None]
      /\ hist' = [hist EXCEPT !.lost = [c \in Clients |-> None]]
  BY DEF Restart
<1>2. hist'.lost = [c \in Clients |-> None]
  <2>1. [c \in Clients |-> None] \in [Clients -> 0..GoneFor \cup {None}]  OBVIOUS
  <2> QED BY <1>0, <1>1, <2>1, LostHist
<1>3. \A v \in Users : Answered(v)'  BY <1>1, NoCallType, ReaperSet, <1>0 DEF Answered, At
<1>4. Shaped' /\ Headless' /\ Served' /\ Joined'
  BY <1>1, <1>3 DEF Shaped, Headless, Served, Joined
<1>5. Warned'  BY <1>2 DEF Warned
<1>6. Numbered'  BY <1>1 DEF MoveInv, Numbered
<1>7. Unjoined  BY <1>1, NoCallType DEF Unjoined
<1> QED BY <1>4, <1>5, <1>6, <1>7 DEF MoveInv

\* A call that is served, on the word of `started` or of a head that answers.
LEMMA ServeMoves ==
  ASSUME MoveInv, Base', NEW c \in Clients, NEW kind \in Asks2, NEW shape \in Shapes, ShapeOK(shape),
         Serve(c, kind, shape), UNCHANGED <<owner, rc, made, lock, reaper>>,
         call[c].pc \in {"idle", "head"}, started[owner[c]] = shape \/ HeadAnswers(owner[c]),
         started' = [started EXCEPT ![owner[c]] = shape]
  PROVE  /\ MoveInv'
         /\ \A d \in Clients \ {c} : call'[d] = call[d]
         /\ call'[c].pc = "relayed" => /\ call'[c].shape = shape /\ kind = "relay"
                                       /\ \/ owner[c] \in hist'.mixed
                                          \/ Live(rc[owner[c]]) => rc[owner[c]].shape = shape
<1>0. TypeOK /\ owner \in [Clients -> Users] /\ rc \in [Users -> RayCluster \cup {None}]
  BY DEF MoveInv, Base, TypeOK
<1>1. PICK u \in Users : u = owner[c]  BY <1>0
<1>2. /\ Steps(c) /\ call'[c].pc \in {"idle", "relayed"} /\ hist'.mixed = FoundMixed(u, shape)
      /\ \A d \in Clients \ {c} : hist'.lost[d] = hist.lost[d]
  BY <1>1, ServeKeeps DEF MoveInv
<1>3. \A v \in Users : Answered(v)' <=> Answered(v)  BY <1>2, AnsweredKept
<1>4. started'[u] = shape /\ (\A v \in Users \ {u} : started'[v] = started[v]) /\ shape # None
  BY <1>0, <1>1, NoneAssumption DEF TypeOK
<1>5. /\ hist.mixed \subseteq hist'.mixed /\ hist'.mixed \subseteq hist.mixed \cup {u}
      /\ u \notin hist'.mixed => started[u] = shape \/ Runs(rc[u], shape)
  BY <1>2 DEF FoundMixed
<1>6. u \notin hist'.mixed => rc[u] # None /\ rc[u].shape = shape /\ rc[u].head
                              /\ (rc[u].leaving => ~Answered(u))
  <2> SUFFICES ASSUME u \notin hist'.mixed
               PROVE  rc[u] # None /\ rc[u].shape = shape /\ rc[u].head /\ (rc[u].leaving => ~Answered(u))
    OBVIOUS
  <2>1. CASE started[u] = shape  BY <1>4, <1>5, <2>1 DEF MoveInv, Shaped
  <2>2. CASE started[u] # shape
    <3>1. Runs(rc[u], shape) /\ HeadAnswers(u)  BY <1>1, <1>5, <2>2
    <3> QED BY <3>1 DEF Runs, Live, HeadAnswers
  <2> QED BY <2>1, <2>2
<1>7. Shaped'
  <2>1. ASSUME NEW v \in Users \ hist'.mixed, started'[v] # None
        PROVE  /\ rc[v] # None /\ rc[v].shape = started'[v] /\ rc[v].head
               /\ rc[v].leaving => ~Answered(v)'
    <3>1. CASE v = u  BY <1>3, <1>4, <1>6, <2>1, <3>1
    <3>2. CASE v # u
      <4>1. v \notin hist.mixed /\ started[v] # None /\ started'[v] = started[v]
        BY <1>4, <1>5, <2>1, <3>2
      <4> QED BY <1>3, <4>1 DEF MoveInv, Shaped
    <3> QED BY <3>1, <3>2
  <2> QED BY <2>1 DEF Shaped
<1>8. Headless'  BY <1>3 DEF MoveInv, Headless
<1>9. Numbered'  BY DEF MoveInv, Numbered
<1>10. u \notin hist'.mixed => Answered(u) \/ ~Live(rc[u])  BY <1>6 DEF MoveInv, Headless
<1>11. CASE kind = "relay"
  <2>1. Attach(c, u, shape)  BY <1>1, <1>11 DEF Serve
  <2>2. /\ c \in clients'[u] /\ \A v \in Users : clients[v] \subseteq clients'[v]
        /\ gone'[c] = None /\ \A d \in Clients \ {c} : gone'[d] = gone[d]
        /\ session'[c] = (IF rc[u] = None THEN session[c] ELSE rc[u].uid)
        /\ \A d \in Clients \ {c} : session'[d] = session[d]
    BY <1>0, <2>1 DEF Attach, TypeOK
  <2>3. hist'.lost[c] = None
    <3>1. hist' = [Found(u, shape) EXCEPT !.asked[u] = 0, !.lost[c] = None]  BY <2>1 DEF Attach
    <3> QED BY <1>0, <3>1, AttachHist
  <2>4. call'[c].shape = shape
    <3>1. call' = [call EXCEPT ![c] = [NoCall EXCEPT !.pc = "relayed", !.kind = "relay", !.shape = shape]]
      BY <2>1 DEF Attach
    <3>2. call'[c] = [NoCall EXCEPT !.pc = "relayed", !.kind = "relay", !.shape = shape]
      BY <1>0, <3>1 DEF TypeOK
    <3> QED BY <3>2 DEF NoCall
  <2>5. ASSUME NEW d \in Clients, owner[d] \notin hist'.mixed, session'[d] # None
        PROVE  /\ hist'.lost[d] = None => d \in clients'[owner[d]]
               /\ ~Answered(owner[d])' /\ Live(rc[owner[d]]) => session'[d] # rc[owner[d]].uid
    <3>1. PICK v \in Users : v = owner[d]  BY <1>0
    <3>2. Answered(owner[d])' <=> Answered(v)'  BY <3>1 DEF Answered
    <3>3. hist'.lost[d] = None => d \in clients'[v]
      <4>1. CASE d = c  BY <1>1, <2>2, <3>1, <4>1
      <4>2. CASE d # c
        <5>1. hist.lost[d] = None => d \in clients[v]
          BY <1>5, <2>2, <2>5, <3>1, <4>2 DEF MoveInv, Served
        <5> QED BY <1>2, <2>2, <4>2, <5>1
      <4> QED BY <4>1, <4>2
    <3>4. ~Answered(v)' /\ Live(rc[v]) => session'[d] # rc[v].uid
      <4>1. CASE d = c  BY <1>1, <1>3, <1>10, <2>5, <3>1, <4>1
      <4>2. CASE d # c
        <5>1. ~Answered(v) /\ Live(rc[v]) => session[d] # rc[v].uid
          BY <1>5, <2>2, <2>5, <3>1, <4>2 DEF MoveInv, Served
        <5> QED BY <1>3, <2>2, <4>2, <5>1
      <4> QED BY <4>1, <4>2
    <3> QED BY <3>1, <3>2, <3>3, <3>4
  <2>6. Served'  BY <2>5 DEF Served
  <2>7. Warned'
    <3>1. ASSUME NEW d \in Clients \ {c}, owner[d] \notin hist'.mixed
          PROVE  /\ hist'.lost[d] \notin {None, GoneFor} => gone'[d] # None /\ gone'[d] <= hist'.lost[d]
                 /\ call'[d].kind = "relay" /\ ~call'[d].raced => hist'.lost[d] \in {None, GoneFor}
      <4>1. hist'.lost[d] = hist.lost[d] /\ gone'[d] = gone[d] /\ call'[d] = call[d]
        BY <1>2, <2>2 DEF Steps
      <4> QED BY <1>5, <3>1, <4>1 DEF MoveInv, Warned
    <3> QED BY <2>3, <3>1 DEF Warned
  <2>8. Joined'
    <3>1. rc[u] # None => rc[u].uid <= made  BY DEF MoveInv, Numbered
    <3>2. \A d \in Clients : session[d] # None => session[d] <= made  BY DEF MoveInv, Joined
    <3>3. \A d \in Clients : session'[d] # None => session'[d] <= made  BY <2>2, <3>1, <3>2
    <3> QED BY <3>3 DEF Joined
  <2> QED BY <1>1, <1>2, <1>6, <1>7, <1>8, <1>9, <1>11, <2>4, <2>6, <2>7, <2>8 DEF MoveInv, Steps
<1>12. CASE kind # "relay"
  <2>1. Ends(c) /\ UNCHANGED <<clients, gone, session>>
        /\ hist' = [Found(u, shape) EXCEPT !.asked[u] = 0]
    BY <1>1, <1>12 DEF Serve
  <2>2. call'[c] = NoCall /\ hist'.lost = hist.lost  BY <1>0, <2>1, EndsSteps, FoundHist
  <2>3. ASSUME NEW d \in Clients, owner[d] \notin hist'.mixed, session[d] # None
        PROVE  /\ hist.lost[d] = None => d \in clients[owner[d]]
               /\ ~Answered(owner[d])' /\ Live(rc[owner[d]]) => session[d] # rc[owner[d]].uid
    <3>1. PICK v \in Users : v = owner[d]  BY <1>0
    <3>2. Answered(owner[d])' <=> Answered(v)'  BY <3>1 DEF Answered
    <3>3. /\ hist.lost[d] = None => d \in clients[v]
          /\ ~Answered(v) /\ Live(rc[v]) => session[d] # rc[v].uid
      BY <1>5, <2>3, <3>1 DEF MoveInv, Served
    <3> QED BY <1>3, <3>1, <3>2, <3>3
  <2>4. Served'  BY <2>1, <2>2, <2>3 DEF Served
  <2>5. Warned'
    <3>1. \A d \in Clients : call'[d].kind = "relay" => call'[d] = call[d]
      BY <1>2, <2>2, NoCallType DEF Steps
    <3> QED BY <1>5, <2>1, <2>2, <3>1 DEF MoveInv, Warned
  <2>6. Joined'  BY <2>1 DEF MoveInv, Joined
  <2>7. call'[c].pc # "relayed"  BY <2>2, NoCallType
  <2> QED BY <1>2, <1>7, <1>8, <1>9, <2>4, <2>5, <2>6, <2>7 DEF MoveInv, Steps
<1> QED BY <1>11, <1>12

\* What a stream that is joined finds.
Fits == \A c \in Clients : call[c].pc # "relayed" /\ call'[c].pc = "relayed" =>
  /\ Live(rc[owner[c]]) /\ owner[c] \notin hist'.mixed => rc[owner[c]].shape = call'[c].shape
  /\ call[c].raced \/ owner[c] \in hist.mixed \/ hist.lost[c] \in {None, GoneFor}

\* At the start there is nothing to move.
LEMMA InitMove == Init => MoveInv
<1> SUFFICES ASSUME Init PROVE MoveInv  OBVIOUS
<1>1. Base  BY InitBase
<1>2. \A v \in Users : Answered(v)  BY NoCallType DEF Init, Answered, At, Asleep
<1>3. Shaped /\ Headless /\ Served /\ Numbered /\ Joined
  BY <1>2 DEF Init, Shaped, Headless, Served, Numbered, Joined, Live
<1>4. Warned  BY DEF Init, Warned
<1> QED BY <1>1, <1>3, <1>4 DEF MoveInv

\* Every step keeps what is known, and joins a client only to a cluster that fits.
LEMMA StepMove == MoveInv /\ [Next]_vars => MoveInv' /\ Fits
<1> SUFFICES ASSUME MoveInv, [Next]_vars PROVE MoveInv' /\ Fits  OBVIOUS
<1>0. Base /\ TypeOK /\ Asking  BY DEF MoveInv, Base
<1>1. Base'  BY <1>0, StepBase
<1>f. Unjoined => Fits  BY DEF Unjoined, Fits
<1>c. Calm => MoveInv' /\ Fits  BY <1>1, <1>f, CalmKeeps DEF Calm
<1>s. \A c \in Clients : \A s \in Callable(c) : s \in Shapes /\ ShapeOK(s)  BY DEF Callable, Shapes
<1>2. ASSUME NEW c \in Clients, NEW kind \in {"relay", "start"}, NEW s \in Callable(c),
             ServeStarted(c, kind, s)
      PROVE  MoveInv' /\ Fits
  <2>1. /\ Serve(c, kind, s) /\ UNCHANGED <<owner, rc, made, started, lock, reaper>>
        /\ call[c].pc = "idle" /\ started[owner[c]] = s /\ (kind = "relay" => gone[c] = None)
    BY <1>2 DEF ServeStarted, At
  <2>2. started' = [started EXCEPT ![owner[c]] = s]  BY <1>0, <2>1 DEF TypeOK
  <2>3. kind \in Asks2 /\ s \in Shapes /\ ShapeOK(s)  BY <1>s DEF Asks2
  <2>4. /\ MoveInv'
        /\ \A d \in Clients \ {c} : call'[d] = call[d]
        /\ call'[c].pc = "relayed" => /\ call'[c].shape = s /\ kind = "relay"
                                      /\ \/ owner[c] \in hist'.mixed
                                         \/ Live(rc[owner[c]]) => rc[owner[c]].shape = s
    BY <1>1, <2>1, <2>2, <2>3, ServeMoves
  <2>5. gone[c] = None => owner[c] \in hist.mixed \/ hist.lost[c] \in {None, GoneFor}
    BY DEF MoveInv, Warned
  <2> QED BY <2>1, <2>4, <2>5 DEF Fits
<1>3. ASSUME NEW c \in Clients, HeadUp(c) PROVE MoveInv' /\ Fits
  <2> DEFINE s == call[c].shape
  <2>1. /\ Serve(c, call[c].kind, s) /\ UNCHANGED <<owner, rc, made, lock, reaper>>
        /\ call[c].pc = "head" /\ HeadAnswers(owner[c]) /\ started' = [started EXCEPT ![owner[c]] = s]
    BY <1>3 DEF HeadUp, At
  <2>2. call[c].kind \in Asks2 /\ s \in Shapes /\ ShapeOK(s)
    BY <1>0, <2>1 DEF Asking, Starting, Asks2
  <2>3. /\ MoveInv'
        /\ \A d \in Clients \ {c} : call'[d] = call[d]
        /\ call'[c].pc = "relayed" => /\ call'[c].shape = s /\ call[c].kind = "relay"
                                      /\ \/ owner[c] \in hist'.mixed
                                         \/ Live(rc[owner[c]]) => rc[owner[c]].shape = s
    BY <1>1, <2>1, <2>2, ServeMoves
  <2>4. call[c].kind = "relay" => call[c].raced \/ owner[c] \in hist.mixed \/ hist.lost[c] \in {None, GoneFor}
    BY DEF MoveInv, Warned
  <2> QED BY <2>3, <2>4 DEF Fits
<1>4. ASSUME NEW c \in Clients,
             \/ Told(c)
             \/ \E kind \in Kinds[c] \cap {"relay", "start"}, s \in Callable(c) : Begin(c, kind, s)
             \/ \E kind \in Kinds[c] \cap {"stop", "force"} : Begin(c, kind, None)
             \/ Ask(c) \/ Send(c) \/ StreamEnds(c)
      PROVE  MoveInv' /\ Fits
  BY <1>0, <1>4, <1>c, BeginsCalm
<1>5. ASSUME NEW c \in Clients, CallStep(c) PROVE MoveInv' /\ Fits
  <2>1. CASE Delete(c) \/ Deleted(c)  BY <1>1, <1>f, <2>1, RemovalsMove
  <2>2. CASE Create(c) /\ rc[owner[c]] = None  BY <1>1, <1>f, <2>2, CreateMoves
  <2>3. CASE \/ GetCluster(c) \/ GetToStop(c) \/ AskBusy(c) \/ AdmitList(c)
             \/ \E free \in FreeGpus : AdmitDecide(c, free)
             \/ Left(c) \/ (Create(c) /\ rc[owner[c]] # None) \/ CreateFails(c) \/ HeadOpen(c) \/ Refuse(c)
    BY <1>0, <1>c, <2>3, CallsCalm
  <2> QED BY <1>3, <1>5, <2>1, <2>2, <2>3 DEF CallStep
<1>6. CASE Reap \/ (\E u \in Users : PodsStart(u) \/ TasksEnd(u) \/ PodsLeave(u)) \/ Tick \/ Restart
           \/ UNCHANGED vars
  <2>1. CASE (ReapDelete /\ reaper'.pc = "deleted") \/ ReapDeleted  BY <1>1, <1>f, <2>1, RemovalsMove
  <2>2. CASE \E u \in Users : PodsStart(u) \/ PodsLeave(u)  BY <1>1, <1>f, <2>2, PodsMove
  <2>3. CASE \/ ReapList \/ (\E u \in Users : ReapLate(u) \/ ReapAsk(u) \/ TasksEnd(u))
             \/ (ReapDelete /\ reaper'.pc # "deleted") \/ UNCHANGED vars
    BY <1>0, <1>c, <2>3, OthersCalm
  <2>4. CASE Tick \/ Restart  BY <1>1, <1>f, <2>4, TickMoves, RestartMoves
  <2> QED BY <1>6, <2>1, <2>2, <2>3, <2>4 DEF Reap
<1> QED BY <1>2, <1>4, <1>5, <1>6 DEF Next

\* A stream is joined to a cluster of the shape it asked for, if that stays up (Gateway.relay
\* and `started`), unless a head that answered was once another cluster's.
THEOREM ShapeIsServed == Spec => ShapeServed
<1>1. MoveInv /\ [Next]_vars =>
        [\A c \in Clients :
           call[c].pc # "relayed" /\ call'[c].pc = "relayed"
             /\ Live(rc[owner[c]]) /\ owner[c] \notin hist'.mixed
           => rc[owner[c]].shape = call'[c].shape]_vars
  BY StepMove DEF Fits
<1> QED BY <1>1, InitMove, StepMove, PTL DEF Spec, ShapeServed

\* A client whose session the gateway removed hears of it before it is joined to a later
\* cluster: delete() tells those its cluster serves, and relay checks, for GONE_S.
THEOREM NoneMovedSilently == Spec => NoSilentMove
<1>1. MoveInv /\ [Next]_vars =>
        [\A c \in Clients :
           call[c].pc # "relayed" /\ call'[c].pc = "relayed" /\ session[c] # None
             /\ session'[c] # session[c]
           => \/ call[c].raced \/ owner[c] \in hist.mixed
              \/ hist.lost[c] \in {None, GoneFor}]_vars
  BY StepMove DEF Fits
<1> QED BY <1>1, InitMove, StepMove, PTL DEF Spec, NoSilentMove
====

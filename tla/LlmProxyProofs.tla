--------------------------- MODULE LlmProxyProofs ---------------------------
(***************************************************************************)
(* What holds of the proxy for any clients, models and configuration: the  *)
(* counts, the slots, that a reply is kept, that a clean exit drops        *)
(* nothing, and that the tokens in flight are within fair use.  Liveness   *)
(* is left to TLC.                                                         *)
(***************************************************************************)
EXTENDS LlmProxy, FiniteSetTheorems, WellFoundedInduction, TLAPS

\* The least of three,
LEMMA MinOfThree == \A i, j, k \in Int : Min({i, j, k}) \in {i, j, k}
BY SMT DEF Min

\* ... of two,
LEMMA MinOfTwo == \A i, j \in Int : Min({i, j}) \in {i, j}
BY SMT DEF Min

\* ... the most of two,
LEMMA MaxOfTwo == \A i, j \in Int : Max({i, j}) \in {i, j}
BY SMT DEF Max

\* ... and of any natural numbers.
LEMMA MinOfNat ==
  ASSUME NEW S, S \subseteq Nat, S # {}
  PROVE  Min(S) \in S
<1>1. \E i \in S : \A j \in S : ~(<<j, i>> \in OpToRel(<, Nat))
  BY NatLessThanWellFounded, WFMin
<1>2. PICK i \in S : \A j \in S : ~(<<j, i>> \in OpToRel(<, Nat))
  BY <1>1
<1>3. ASSUME NEW j \in S PROVE i =< j
  <2>1. ~(<<j, i>> \in OpToRel(<, Nat))  BY <1>2
  <2>2. ~(j < i)  BY <2>1, Zenon DEF OpToRel
  <2> QED BY <2>2
<1> QED BY <1>3 DEF Min

-----------------------------------------------------------------------------
(* Proxy.pick. *)

\* A request some model of its role has room for goes to one of those.
LEMMA PickUsable ==
  ASSUME TypeOK, NEW c \in Clients, Servable(c)
  PROVE  Pick(c) \in Models /\ Usable(c, Pick(c))
<1> DEFINE all == DOMAIN Backends[c]
           usable == {i \in all : Usable(c, Backends[c][i])}
           healthy == {i \in usable : ~unhealthy[Backends[c][i]]}
           from == IF healthy = {} THEN usable ELSE healthy
<1>1. Backends[c] \in Seq(Models)  BY Config DEF ConfigOK
<1>2. usable # {} /\ usable \subseteq Nat /\ healthy \subseteq usable
  BY <1>1 DEF Servable
<1>3. Min(from) \in usable
  <2>1. from # {} /\ from \subseteq usable /\ from \subseteq Nat  BY <1>2
  <2> HIDE DEF from, usable, healthy, all
  <2> QED BY <2>1, MinOfNat
<1>4. FirstChoice(c) = Backends[c][Min(from)]
  BY <1>2 DEF FirstChoice
<1>5. FirstChoice(c) \in Models /\ Usable(c, FirstChoice(c))
  <2> DEFINE i == Min(from)
  <2>1. i \in all /\ Usable(c, Backends[c][i])  BY <1>3
  <2>2. FirstChoice(c) = Backends[c][i]  BY <1>4
  <2> HIDE DEF i
  <2> QED BY <1>1, <2>1, <2>2
<1>6. CASE Session[c] # None /\ Stays(c, sticky[Session[c]])
  <2>1. Session[c] \in Keys  BY <1>6 DEF Keys
  <2> QED BY <1>6, <2>1 DEF Pick, Stays, TypeOK
<1>7. CASE ~(Session[c] # None /\ Stays(c, sticky[Session[c]]))
  BY <1>5, <1>7 DEF Pick
<1> QED BY <1>6, <1>7

-----------------------------------------------------------------------------
(* The inductive invariant. *)

Active == {c \in Clients : pc[c] # "idle"}

\* What the gates and the server count is what the threads hold.
Counted ==
  /\ \A m \in Models : busy[m] = Cardinality(Sending(m))
  /\ inFlight = Cardinality(Active)

\* A request that is under way could be served when it came, and one with a
\* gate has its model.
Placed ==
  \A c \in Clients :
    /\ pc[c] # "idle" => Servable(c)
    /\ pc[c] \in {"waiting", "sending", "settling"} => backend[c] \in Models

\* A request with a reply asks for a whole one, which is never cut, and does
\* not wait out a failure.
Retried ==
  \A c \in Clients :
    streamed[c] => /\ pc[c] # "backoff"
                   /\ pc[c] = "settling" => outcome[c] \notin {"cut", "early"}

Inv == TypeOK /\ Counted /\ SlotsBounded /\ Placed /\ RoomKept /\ Retried /\ ReplyKept
       /\ NoneDropped

\* The invariant holds at the start.
LEMMA InitInv == Init => Inv
<1> SUFFICES ASSUME Init PROVE Inv  OBVIOUS
<1>1. TypeOK
  <2>1. stopping \in BOOLEAN /\ draining \in BOOLEAN  BY DEF Init
  <2> QED BY <2>1, Config DEF Init, GateInit, TypeOK, ConfigOK, PCs, Answers
<1>2. Counted
  <2>1. Active = {}  BY DEF Init, Active
  <2>2. \A m \in Models : Sending(m) = {}  BY DEF Init, Sending
  <2> QED BY <2>1, <2>2, FS_EmptySet DEF Counted, Init, GateInit
<1>3. SlotsBounded  BY Config DEF Init, GateInit, SlotsBounded, ConfigOK
<1>4. Placed /\ RoomKept /\ Retried /\ ReplyKept /\ NoneDropped
  BY DEF Init, Placed, RoomKept, Retried, ReplyKept, NoneDropped
<1> QED BY <1>1, <1>2, <1>3, <1>4 DEF Inv

-----------------------------------------------------------------------------
(* Types. *)

\* A set with a member has a positive count.
LEMMA NotEmpty ==
  ASSUME NEW S, IsFiniteSet(S), NEW e \in S
  PROVE  Cardinality(S) \in Nat /\ Cardinality(S) > 0
<1>1. Cardinality(S) \in Nat  BY FS_CardinalityType
<1>2. Cardinality(S) # 0  BY FS_EmptySet
<1> QED BY <1>1, <1>2

\* Threads are finite.
LEMMA FiniteCounts == IsFiniteSet(Active) /\ \A m : IsFiniteSet(Sending(m))
BY Inputs, FS_Subset DEF Active, Sending

\* What a thread under way knows of the counts.
LEMMA BusyPositive ==
  ASSUME Counted, NEW m \in Models, NEW c \in Sending(m)
  PROVE  busy[m] > 0
BY NotEmpty, FiniteCounts DEF Counted

\* A thread with a request is counted.
LEMMA InFlightPositive ==
  ASSUME Counted, NEW c \in Active
  PROVE  inFlight > 0
BY NotEmpty, FiniteCounts DEF Counted

\* A halved gate, whether its speed or a failure halved it.
LEMMA HalvedSlots ==
  ASSUME TypeOK, SlotsBounded, NEW m \in Models,
         slots' = [slots EXCEPT ![m] = Halved(@)]
  PROVE  slots' \in [Models -> Nat \ {0}] /\ \A x \in Models : slots'[x] <= MaxSlots[x]
<1>1. Halved(slots[m]) \in Nat \ {0} /\ Halved(slots[m]) <= slots[m]
  BY DEF Halved, TypeOK
<1>2. PICK h \in Nat \ {0} : h <= slots[m] /\ slots' = [slots EXCEPT ![m] = h]
  BY <1>1
<1>3. MaxSlots \in [Models -> Nat]  BY Config DEF ConfigOK
<1>4. slots \in [Models -> Nat \ {0}] /\ \A x \in Models : slots[x] <= MaxSlots[x]
  BY DEF TypeOK, SlotsBounded
<1>5. slots' \in [Models -> Nat \ {0}]  BY <1>2, <1>4
<1>6. ASSUME NEW x \in Models PROVE slots'[x] <= MaxSlots[x]
  <2>1. slots'[x] = h \/ slots'[x] = slots[x]  BY <1>2, <1>4
  <2>2. CASE x = m  BY <1>2, <1>3, <1>4, <2>1, <2>2
  <2>3. CASE x # m  BY <1>2, <1>3, <1>4, <2>3
  <2> QED BY <2>2, <2>3
<1> QED BY <1>5, <1>6

\* What _adjust and failed leave of a gate.
LEMMA AdjustTypes ==
  ASSUME TypeOK, SlotsBounded, NEW m \in Models, NEW speed, Adjust(m, speed)
  PROVE  /\ slots' \in [Models -> Nat \ {0}] /\ cooldown' \in [Models -> 0..2]
         /\ \A x \in Models : slots'[x] <= MaxSlots[x]
<1>1. CASE speed = "slow" /\ cooldown[m] > 0
  <2>1. /\ slots' = [slots EXCEPT ![m] = Halved(@)]
        /\ cooldown' = [cooldown EXCEPT ![m] = 0]
    BY <1>1, Zenon DEF Adjust
  <2>2. cooldown' \in [Models -> 0..2]  BY <2>1 DEF TypeOK
  <2> QED BY <2>1, <2>2, HalvedSlots
<1>2. CASE ~(speed = "slow" /\ cooldown[m] > 0) /\ speed = "fine" /\ Grows(m)
  <2>1. /\ slots' = [slots EXCEPT ![m] = slots[m] + 1]
        /\ cooldown' = [cooldown EXCEPT ![m] = 0]
    BY <1>2 DEF Adjust
  <2>2. slots[m] + 1 \in Nat \ {0} /\ slots[m] + 1 <= MaxSlots[m]
    BY <1>2, Config DEF Grows, TypeOK, ConfigOK
  <2> QED BY <2>1, <2>2 DEF TypeOK, SlotsBounded
<1>3. CASE ~(speed = "slow" /\ cooldown[m] > 0) /\ ~(speed = "fine" /\ Grows(m))
  BY <1>3 DEF Adjust, TypeOK, SlotsBounded
<1> QED BY <1>1, <1>2, <1>3

\* What a failure leaves of a gate has its type.
LEMMA FailedTypes ==
  ASSUME TypeOK, SlotsBounded, NEW m \in Models, NEW limited, limited \in BOOLEAN,
         Failed(m, limited)
  PROVE  /\ slots' \in [Models -> Nat \ {0}] /\ cooldown' \in [Models -> 0..2]
         /\ failing' \in [Models -> {"no", "recent", "long"}]
         /\ unhealthy' \in [Models -> BOOLEAN] /\ paused' \in [Models -> BOOLEAN]
         /\ \A x \in Models : slots'[x] <= MaxSlots[x]
<1>1. failing' \in [Models -> {"no", "recent", "long"}]  BY DEF Failed, TypeOK
<1>2. unhealthy' \in [Models -> BOOLEAN] /\ paused' \in [Models -> BOOLEAN]
  <2>1. (unhealthy[m] \/ failing[m] = "long") \in BOOLEAN /\ (paused[m] \/ limited) \in BOOLEAN
    OBVIOUS
  <2> QED BY <2>1, Zenon DEF Failed, TypeOK
<1>3. CASE cooldown[m] > 0
  <2>1. /\ slots' = [slots EXCEPT ![m] = Halved(@)]
        /\ cooldown' = [cooldown EXCEPT ![m] = 0]
    BY <1>3, Zenon DEF Failed
  <2>2. cooldown' \in [Models -> 0..2]  BY <2>1 DEF TypeOK
  <2> QED BY <1>1, <1>2, <2>1, <2>2, HalvedSlots
<1>4. CASE ~(cooldown[m] > 0)
  BY <1>1, <1>2, <1>4 DEF Failed, TypeOK, SlotsBounded
<1> QED BY <1>3, <1>4

\* The cap and the tokens of a request are numbers.
LEMMA TokensType ==
  ASSUME TypeOK, NEW c \in Clients, NEW m \in Models, NEW slow \in Int
  PROVE  Prompt[c][m] + MaxTokens(c, Cap(c, m, slow)) \in Int
<1>1. Room(c, m) \in Int  BY Config, Inputs DEF Room, ConfigOK
<1>2. shrink[c] \in Int  BY DEF TypeOK
<1>3. Cap(c, m, slow) \in Int
  BY <1>1, <1>2, MinOfThree DEF Cap
<1>4. Asked[c] \in Int /\ Prompt[c][m] \in Int  BY Inputs
<1>5. MaxTokens(c, Cap(c, m, slow)) \in Int
  BY <1>3, <1>4, MinOfTwo DEF MaxTokens
<1> QED BY <1>4, <1>5

\* Every step keeps types,
LEMMA TypeStep == Inv /\ [Next]_vars => TypeOK'
<1> SUFFICES ASSUME Inv, [Next]_vars PROVE TypeOK'  OBVIOUS
<1> USE DEF gates, kept, locals, queue, server
<1>0. TypeOK /\ Counted /\ SlotsBounded /\ Placed  BY DEF Inv
<1>1. ASSUME NEW c \in Clients, Call(c) PROVE TypeOK'
  BY <1>0, <1>1 DEF Call, TypeOK, PCs
<1>2. ASSUME NEW c \in Clients, Finish(c) PROVE TypeOK'
  <2>1. c \in Active  BY <1>2 DEF Finish, Active
  <2>2. inFlight - 1 \in Nat  BY <1>0, <2>1, InFlightPositive DEF TypeOK
  <2> QED BY <1>0, <1>2, <2>2 DEF Finish, TypeOK, PCs, Answers
<1>3. ASSUME NEW c \in Clients, ClientGone(c) PROVE TypeOK'
  BY <1>0, <1>3 DEF ClientGone, TypeOK
<1>4. ASSUME NEW c \in Clients, HoldEnds(c) PROVE TypeOK'
  BY <1>0, <1>4 DEF HoldEnds, TypeOK
<1>5. ASSUME NEW c \in Clients, Rises(c) PROVE TypeOK'
  BY <1>0, <1>5 DEF Rises, TypeOK
<1>6. ASSUME NEW c \in Clients, GiveUp(c) PROVE TypeOK'
  BY <1>0, <1>6 DEF GiveUp, Answer, TypeOK, PCs, Answers
<1>7. ASSUME NEW c \in Clients, Enqueue(c) PROVE TypeOK'
  <2> DEFINE m == Pick(c)
  <2>1. m \in Models /\ Usable(c, m)
    BY <1>0, <1>7, PickUsable DEF Enqueue, Placed
  <2>2. sticky' \in [Keys -> Models \cup {None}] /\ older' \in [Keys -> SUBSET Keys]
    <3>1. Remember(c, m)  BY <1>7 DEF Enqueue
    <3>2. CASE Session[c] = None  BY <1>0, <3>1, <3>2 DEF Remember, TypeOK
    <3>3. CASE Session[c] # None
      <4>1. Session[c] \in Keys  BY <3>3 DEF Keys
      <4>2. \A x \in Keys : Before(Session[c], x) \subseteq Keys
        BY <1>0, <4>1 DEF Before, TypeOK
      <4> HIDE DEF m
      <4>3. CASE Stays(c, sticky[Session[c]])
        BY <1>0, <3>1, <3>3, <4>3 DEF Remember, TypeOK
      <4>4. CASE ~Stays(c, sticky[Session[c]])
        <5>1. /\ older' = [x \in Keys |-> Before(Session[c], x) \ Evicted(Session[c])]
              /\ sticky' = [x \in Keys |-> IF x \in Evicted(Session[c]) THEN None
                                           ELSE IF x = Session[c] THEN m ELSE sticky[x]]
          BY <3>1, <3>3, <4>4 DEF Remember
        <5> QED BY <1>0, <2>1, <4>2, <5>1 DEF TypeOK
      <4> QED BY <4>3, <4>4
    <3> QED BY <3>2, <3>3
  <2>3. PICK slow \in Floor[m]..Ceiling[m] :
          tokens' = [tokens EXCEPT ![c] = Prompt[c][m] + MaxTokens(c, Cap(c, m, slow))]
    BY <1>7, <2>1 DEF Enqueue
  <2>4. slow \in Int  BY <2>1, <2>3, Config DEF ConfigOK
  <2>5. tokens' \in [Clients -> Int]
    BY <1>0, <2>1, <2>3, <2>4, TokensType DEF TypeOK
  <2>6. /\ backend' = [backend EXCEPT ![c] = m]
        /\ pc' = [pc EXCEPT ![c] = "waiting"]
        /\ ahead' = [ahead EXCEPT ![c] = Waiting(m)] /\ age' = [age EXCEPT ![c] = 0]
    BY <1>7, <2>1 DEF Enqueue, Join
  <2>7. Waiting(m) \subseteq Clients  BY DEF Waiting
  <2>8. /\ UNCHANGED <<gates, cuts, shrink, streamed, outcome, expired, gone,
                       answer, server>>
    BY <1>7, <2>1 DEF Enqueue
  <2> HIDE DEF m
  <2> QED BY <1>0, <2>1, <2>2, <2>5, <2>6, <2>7, <2>8 DEF TypeOK, PCs
<1>8. ASSUME NEW c \in Clients, Send(c) PROVE TypeOK'
  <2>1. backend[c] \in Models  BY <1>0, <1>8 DEF Send, Placed
  <2> QED BY <1>0, <1>8, <2>1 DEF Send, Leave, TypeOK, PCs
<1>9. ASSUME NEW c \in Clients, NoRoom(c) PROVE TypeOK'
  <2>1. UNCHANGED <<gates, kept, locals, server>>  BY <1>9 DEF NoRoom
  <2>2. /\ pc \in [Clients -> PCs] /\ answer \in [Clients -> Answers]
        /\ ahead \in [Clients -> SUBSET Clients] /\ age \in [Clients -> Nat]
    BY <1>0 DEF TypeOK
  <2>3. pc' \in [Clients -> PCs] /\ answer' \in [Clients -> Answers]
    BY <1>9, <2>2 DEF NoRoom, Answer, PCs, Answers
  <2>4. ahead' \in [Clients -> SUBSET Clients] /\ age' \in [Clients -> Nat]
    BY <1>9, <2>2 DEF NoRoom, Leave
  <2> QED BY <1>0, <2>1, <2>3, <2>4 DEF TypeOK
<1>10. ASSUME NEW c \in Clients, Reply(c) PROVE TypeOK'
  <2>1. PICK o \in Ends(c) :
          /\ Release(c, backend[c], o)
          /\ outcome' = [outcome EXCEPT ![c] = o]
          /\ IF o = "raised" THEN Answer(c, "none")
             ELSE pc' = [pc EXCEPT ![c] = "settling"] /\ UNCHANGED answer
    BY <1>10 DEF Reply
  <2>2. backend[c] \in Models /\ c \in Sending(backend[c])
    BY <1>0, <1>10 DEF Reply, Placed, Sending
  <2>3. busy[backend[c]] - 1 \in Nat  BY <1>0, <2>2, BusyPositive DEF TypeOK
  <2>4. o \in AllOutcomes  BY Bounds DEF Ends
  <2>5. busy' \in [Models -> Nat] /\ held' \in [Models -> Int]
    BY <1>0, <2>1, <2>2, <2>3 DEF Release, TypeOK
  <2>6. spent' \in [Models -> BOOLEAN]
    <3>1. PICK full \in BOOLEAN : spent' = spent \/ spent' = [spent EXCEPT ![backend[c]] = full]
      <4>1. spent[backend[c]] \in BOOLEAN  BY <1>0, <2>2 DEF TypeOK
      <4>2. Release(c, backend[c], o)  BY <2>1
      <4>3. CASE o \in {"whole", "bad", "cut", "early"}
        <5>1. PICK full \in {spent[backend[c]], TRUE} :
                spent' = [spent EXCEPT ![backend[c]] = full]
          BY <4>2, <4>3, Zenon DEF Release
        <5>2. full \in BOOLEAN  BY <4>1, <5>1
        <5> QED BY <5>1, <5>2
      <4>4. CASE ~(o \in {"whole", "bad", "cut", "early"})
        BY <4>1, <4>2, <4>4 DEF Release
      <4> QED BY <4>3, <4>4
    <3> QED BY <1>0, <2>2, <3>1 DEF TypeOK
  <2>7. pc' \in [Clients -> PCs] /\ answer' \in [Clients -> Answers]
    BY <1>0, <2>1 DEF Answer, TypeOK, PCs, Answers
  <2> QED BY <1>0, <1>10, <2>1, <2>4, <2>5, <2>6, <2>7 DEF Reply, TypeOK
<1>11. ASSUME NEW c \in Clients, Settle(c) PROVE TypeOK'
  <2> DEFINE m == backend[c]
  <2>1. m \in Models  BY <1>0, <1>11 DEF Settle, Placed
  <2>2. outcome' \in [Clients -> AllOutcomes \cup {"none"}]
    BY <1>0, <1>11 DEF Settle, TypeOK
  <2>3. UNCHANGED <<kept, backend, tokens, expired, gone, queue, server>>
    BY <1>11 DEF Settle
  <2>4. CASE SettleRetry(c) \/ SettleRefusal(c)
    <3>0. PICK a \in Answers : Answer(c, a)
      BY <2>4 DEF SettleRetry, SettleRefusal, RetryAnswer, Answers
    <3>1. pc' \in [Clients -> PCs] /\ answer' \in [Clients -> Answers]
      BY <1>0, <3>0 DEF Answer, TypeOK, PCs
    <3>2. UNCHANGED <<gates, streamed, cuts, shrink>>
      BY <2>4 DEF SettleRetry, SettleRefusal
    <3> QED BY <1>0, <2>2, <2>3, <3>1, <3>2 DEF TypeOK
  <2>5. CASE SettleReshape(c)
    BY <1>0, <2>2, <2>3, <2>5 DEF SettleReshape, TypeOK, PCs
  <2>6. CASE SettleFailure(c)
    <3>1. CASE gone[c]
      BY <1>0, <2>2, <2>3, <2>6, <3>1 DEF SettleFailure, TypeOK, PCs
    <3>2. CASE ~gone[c]
      <4>1. Failed(m, outcome[c] = "limited") /\ UNCHANGED <<busy, held, spent>>
            /\ UNCHANGED <<streamed, cuts, shrink>>
        BY <2>6, <3>2 DEF SettleFailure
      <4>2. /\ slots' \in [Models -> Nat \ {0}] /\ cooldown' \in [Models -> 0..2]
            /\ failing' \in [Models -> {"no", "recent", "long"}]
            /\ unhealthy' \in [Models -> BOOLEAN] /\ paused' \in [Models -> BOOLEAN]
        <5>1. (outcome[c] = "limited") \in BOOLEAN  OBVIOUS
        <5> QED BY <1>0, <2>1, <4>1, <5>1, FailedTypes
      <4>3. pc' \in [Clients -> PCs] /\ answer' \in [Clients -> Answers]
        BY <1>0, <2>6, <3>2 DEF SettleFailure, Answer, TypeOK, PCs, Answers
      <4> QED BY <1>0, <2>2, <2>3, <4>1, <4>2, <4>3 DEF TypeOK
    <3> QED BY <3>1, <3>2
  <2>7. CASE SettleCut(c)
    <3>1. PICK speed \in {"unknown", "slow", "fine"} : Adjust(m, speed)
      BY <2>7 DEF SettleCut, Observe
    <3>2. slots' \in [Models -> Nat \ {0}] /\ cooldown' \in [Models -> 0..2]
      BY <1>0, <2>1, <3>1, AdjustTypes
    <3>3. shrink' \in [Clients -> Nat]
      <4>1. CASE CutsLeft(c) /\ ~expired[c]
        <5>1. PICK n \in 0..(tokens[c] - Prompt[c][m]) :
                shrink' = [shrink EXCEPT ![c] = Max({Floor[m], (4 * n) \div 5})]
          BY <2>7, <4>1 DEF SettleCut
        <5>2. n \in Nat
          <6>1. tokens[c] - Prompt[c][m] \in Int  BY <1>0, <2>1, Inputs DEF TypeOK
          <6> QED BY <5>1, <6>1
        <5>3. Floor[m] \in Nat /\ (4 * n) \div 5 \in Nat
          <6>1. Floor[m] \in Nat  BY <2>1, Config DEF ConfigOK
          <6>2. (4 * n) \div 5 \in Nat  BY <5>2
          <6> QED BY <6>1, <6>2
        <5>4. Max({Floor[m], (4 * n) \div 5}) \in Nat  BY <5>3, MaxOfTwo
        <5> QED BY <1>0, <5>1, <5>4 DEF TypeOK
      <4>2. CASE ~(CutsLeft(c) /\ ~expired[c])
        BY <1>0, <2>7, <4>2 DEF SettleCut, TypeOK
      <4> QED BY <4>1, <4>2
    <3>4. cuts' \in [Clients -> Nat]  BY <1>0, <2>7 DEF SettleCut, TypeOK
    <3>5. pc' \in [Clients -> PCs] /\ answer' \in [Clients -> Answers]
      BY <1>0, <2>7 DEF SettleCut, Answer, TypeOK, PCs, Answers
    <3>6. UNCHANGED <<busy, held, paused, spent, failing, unhealthy, streamed>>
      BY <2>7 DEF SettleCut
    <3> QED BY <1>0, <2>2, <2>3, <3>2, <3>3, <3>4, <3>5, <3>6 DEF TypeOK
  <2>8. CASE SettleReply(c)
    <3>1. PICK speed \in {"unknown", "slow", "fine"} : Adjust(m, speed)
      BY <2>8 DEF SettleReply, Observe
    <3>2. slots' \in [Models -> Nat \ {0}] /\ cooldown' \in [Models -> 0..2]
      BY <1>0, <2>1, <3>1, AdjustTypes
    <3>3. failing' \in [Models -> {"no", "recent", "long"}]
      BY <1>0, <2>8 DEF SettleReply, TypeOK
    <3>4. pc' \in [Clients -> PCs] /\ answer' \in [Clients -> Answers]
      BY <1>0, <2>8 DEF SettleReply, Answer, TypeOK, PCs, Answers
    <3>5. UNCHANGED <<busy, held, paused, spent, unhealthy, streamed, cuts, shrink>>
      BY <2>8 DEF SettleReply
    <3> QED BY <1>0, <2>2, <2>3, <3>2, <3>3, <3>4, <3>5 DEF TypeOK
  <2> QED BY <1>11, <2>4, <2>5, <2>6, <2>7, <2>8 DEF Settle
<1>12. ASSUME NEW c \in Clients, Backoff(c) PROVE TypeOK'
  <2>1. UNCHANGED <<gates, kept, locals, queue, server>>  BY <1>12 DEF Backoff
  <2>2. pc \in [Clients -> PCs] /\ answer \in [Clients -> Answers]  BY <1>0 DEF TypeOK
  <2>3. pc' \in [Clients -> PCs] /\ answer' \in [Clients -> Answers]
    BY <1>12, <2>2 DEF Backoff, Answer, PCs, Answers
  <2> QED BY <1>0, <2>1, <2>3 DEF TypeOK
<1>13. ASSUME NEW m \in Models, Unpause(m) \/ NewMinute(m) PROVE TypeOK'
  <2>1. UNCHANGED <<slots, busy, held, cooldown, failing, unhealthy, kept, pc, locals, queue,
                    answer, server>>
    BY <1>13 DEF Unpause, NewMinute
  <2>2. paused \in [Models -> BOOLEAN] /\ spent \in [Models -> BOOLEAN]  BY <1>0 DEF TypeOK
  <2>3. paused' \in [Models -> BOOLEAN] /\ spent' \in [Models -> BOOLEAN]
    BY <1>13, <2>2 DEF Unpause, NewMinute
  <2> QED BY <1>0, <2>1, <2>3 DEF TypeOK
<1>14. ASSUME NEW m \in Models, Ages(m) PROVE TypeOK'
  <2>1. UNCHANGED <<slots, busy, held, paused, spent, kept, pc, locals, queue, answer, server>>
    BY <1>14 DEF Ages
  <2>2. cooldown' \in [Models -> 0..2]
    <3>1. \/ cooldown' = cooldown
          \/ cooldown[m] < 2 /\ cooldown' = [cooldown EXCEPT ![m] = @ + 1]
      BY <1>14 DEF Ages
    <3>2. cooldown \in [Models -> 0..2]  BY <1>0 DEF TypeOK
    <3> QED BY <3>1, <3>2
  <2>3. failing' \in [Models -> {"no", "recent", "long"}]
    <3>1. \/ failing' = failing
          \/ \E f \in {"no", "long"} : failing' = [failing EXCEPT ![m] = f]
      BY <1>14 DEF Ages
    <3>2. failing \in [Models -> {"no", "recent", "long"}]  BY <1>0 DEF TypeOK
    <3> QED BY <3>1, <3>2
  <2>4. unhealthy' \in [Models -> BOOLEAN]
    <3>1. unhealthy' = unhealthy \/ unhealthy' = [unhealthy EXCEPT ![m] = FALSE]
      BY <1>14 DEF Ages
    <3>2. unhealthy \in [Models -> BOOLEAN]  BY <1>0 DEF TypeOK
    <3> QED BY <3>1, <3>2
  <2> QED BY <1>0, <2>1, <2>2, <2>3, <2>4 DEF TypeOK
<1>15. ASSUME NEW s \in Stops, Stopping(s) \/ Drain(s) PROVE TypeOK'
  <2>1. stopping' \in BOOLEAN /\ draining' \in BOOLEAN
    BY <1>0, <1>15 DEF Stopping, Drain, TypeOK
  <2> QED BY <1>0, <1>15, <2>1 DEF Stopping, Drain, TypeOK
<1>16. ASSUME NEW s \in Stops, Exit(s) PROVE TypeOK'
  BY <1>0, <1>16 DEF Exit, TypeOK
<1>17. CASE UNCHANGED vars
  BY <1>0, <1>17 DEF vars, TypeOK
<1> QED
  BY <1>1, <1>2, <1>3, <1>4, <1>5, <1>6, <1>7, <1>8, <1>9, <1>10, <1>11, <1>12,
     <1>13, <1>14, <1>15, <1>16, <1>17 DEF Next, Step, Exited

-----------------------------------------------------------------------------
(* Counts and slots. *)

\* A thread that neither takes nor gives a slot, comes nor ends.
LEMMA SameCounts ==
  ASSUME TypeOK, Counted, NEW c \in Clients, NEW to,
         to \notin {"idle", "sending"}, pc[c] \notin {"idle", "sending"},
         pc' = [pc EXCEPT ![c] = to],
         \A d \in Clients \ {c} : backend'[d] = backend[d],
         UNCHANGED <<busy, inFlight>>
  PROVE  Counted'
<1>1. \A d \in Clients : pc'[d] = IF d = c THEN to ELSE pc[d]  BY DEF TypeOK
<1>2. Active' = Active  BY <1>1 DEF Active
<1>3. \A m : Sending(m)' = Sending(m)  BY <1>1 DEF Sending
<1> QED BY <1>2, <1>3 DEF Counted

\* ... counts,
LEMMA CountStep == Inv /\ [Next]_vars => Counted'
<1> SUFFICES ASSUME Inv, [Next]_vars PROVE Counted'  OBVIOUS
<1> USE DEF gates, kept, locals, queue, server
<1>0. TypeOK /\ Counted /\ Placed  BY DEF Inv
<1>1. ASSUME NEW c \in Clients, Call(c) PROVE Counted'
  <2>1. \A d \in Clients : pc'[d] = IF d = c THEN "picking" ELSE pc[d]
    BY <1>0, <1>1 DEF Call, TypeOK
  <2>2. pc[c] = "idle" /\ UNCHANGED <<busy, backend>> /\ inFlight' = inFlight + 1
    BY <1>1 DEF Call
  <2>3. Active' = Active \cup {c} /\ c \notin Active  BY <2>1, <2>2 DEF Active
  <2>4. \A m : Sending(m)' = Sending(m)  BY <2>1, <2>2 DEF Sending
  <2>5. Cardinality(Active') = Cardinality(Active) + 1
    BY <2>3, FiniteCounts, FS_AddElement
  <2> QED BY <1>0, <2>2, <2>4, <2>5 DEF Counted
<1>2. ASSUME NEW c \in Clients, Finish(c) PROVE Counted'
  <2>1. \A d \in Clients : pc'[d] = IF d = c THEN "idle" ELSE pc[d]
    BY <1>0, <1>2 DEF Finish, TypeOK
  <2>2. /\ pc[c] = "answering" /\ UNCHANGED busy /\ inFlight' = inFlight - 1
        /\ \A d \in Clients \ {c} : backend'[d] = backend[d]
    BY <1>0, <1>2 DEF Finish, TypeOK
  <2>3. Active' = Active \ {c} /\ c \in Active  BY <2>1, <2>2 DEF Active
  <2>4. \A m : Sending(m)' = Sending(m)  BY <2>1, <2>2 DEF Sending
  <2>5. Cardinality(Active') = Cardinality(Active) - 1
    BY <2>3, FiniteCounts, FS_RemoveElement
  <2> QED BY <1>0, <2>2, <2>4, <2>5 DEF Counted
<1>3. ASSUME UNCHANGED <<pc, backend, busy, inFlight>> PROVE Counted'
  BY <1>0, <1>3 DEF Counted, Active, Sending
<1>4. ASSUME NEW c \in Clients, GiveUp(c) PROVE Counted'
  BY <1>0, <1>4, SameCounts DEF GiveUp, Answer
<1>5. ASSUME NEW c \in Clients, Enqueue(c) PROVE Counted'
  <2>1. \A d \in Clients \ {c} : backend'[d] = backend[d]
    BY <1>0, <1>5 DEF Enqueue, TypeOK
  <2>2. PICK to \in {"answering", "waiting"} : pc' = [pc EXCEPT ![c] = to]
    BY <1>5 DEF Enqueue, Answer
  <2>3. pc[c] = "picking" /\ UNCHANGED <<busy, inFlight>>  BY <1>5 DEF Enqueue
  <2> QED BY <1>0, <2>1, <2>2, <2>3, SameCounts
<1>6. ASSUME NEW c \in Clients, Send(c) PROVE Counted'
  <2>1. \A d \in Clients : pc'[d] = IF d = c THEN "sending" ELSE pc[d]
    BY <1>0, <1>6 DEF Send, TypeOK
  <2>2. /\ pc[c] = "waiting" /\ UNCHANGED <<backend, inFlight>>
        /\ busy' = [busy EXCEPT ![backend[c]] = @ + 1]
    BY <1>6 DEF Send
  <2>3. backend[c] \in Models  BY <1>0, <2>2 DEF Placed
  <2>4. Active' = Active  BY <2>1, <2>2 DEF Active
  <2>5. ASSUME NEW m \in Models PROVE busy'[m] = Cardinality(Sending(m)')
    <3>1. CASE m = backend[c]
      <4>1. Sending(m)' = Sending(m) \cup {c} /\ c \notin Sending(m)
        BY <2>1, <2>2, <3>1 DEF Sending
      <4>2. Cardinality(Sending(m)') = Cardinality(Sending(m)) + 1
        BY <4>1, FiniteCounts, FS_AddElement
      <4>3. busy'[m] = busy[m] + 1  BY <1>0, <2>2, <3>1 DEF TypeOK
      <4> QED BY <1>0, <4>2, <4>3 DEF Counted
    <3>2. CASE m # backend[c]
      <4>1. Sending(m)' = Sending(m)  BY <2>1, <2>2, <3>2 DEF Sending
      <4>2. busy'[m] = busy[m]  BY <1>0, <2>2, <3>2 DEF TypeOK
      <4> QED BY <1>0, <4>1, <4>2 DEF Counted
    <3> QED BY <3>1, <3>2
  <2> QED BY <1>0, <2>2, <2>4, <2>5 DEF Counted
<1>7. ASSUME NEW c \in Clients, NoRoom(c) PROVE Counted'
  BY <1>0, <1>7, SameCounts DEF NoRoom, Answer
<1>8. ASSUME NEW c \in Clients, Reply(c) PROVE Counted'
  <2>1. PICK o \in Ends(c), to \in {"answering", "settling"} :
          Release(c, backend[c], o) /\ pc' = [pc EXCEPT ![c] = to]
    BY <1>8 DEF Reply, Answer
  <2>2. \A d \in Clients : pc'[d] = IF d = c THEN to ELSE pc[d]
    BY <1>0, <2>1 DEF TypeOK
  <2>3. /\ pc[c] = "sending" /\ UNCHANGED <<backend, inFlight>>
        /\ busy' = [busy EXCEPT ![backend[c]] = @ - 1]
    BY <1>8, <2>1 DEF Reply, Release
  <2>4. backend[c] \in Models  BY <1>0, <2>3 DEF Placed
  <2>5. Active' = Active  BY <2>2, <2>3 DEF Active
  <2>6. ASSUME NEW m \in Models PROVE busy'[m] = Cardinality(Sending(m)')
    <3>1. CASE m = backend[c]
      <4>1. Sending(m)' = Sending(m) \ {c} /\ c \in Sending(m)
        BY <2>1, <2>2, <2>3, <3>1 DEF Sending
      <4>2. Cardinality(Sending(m)') = Cardinality(Sending(m)) - 1
        BY <4>1, FiniteCounts, FS_RemoveElement
      <4>3. busy'[m] = busy[m] - 1  BY <1>0, <2>3, <3>1 DEF TypeOK
      <4> QED BY <1>0, <4>2, <4>3 DEF Counted
    <3>2. CASE m # backend[c]
      <4>1. Sending(m)' = Sending(m)  BY <2>1, <2>2, <2>3, <3>2 DEF Sending
      <4>2. busy'[m] = busy[m]  BY <1>0, <2>3, <3>2 DEF TypeOK
      <4> QED BY <1>0, <4>1, <4>2 DEF Counted
    <3> QED BY <3>1, <3>2
  <2> QED BY <1>0, <2>3, <2>5, <2>6 DEF Counted
<1>9. ASSUME NEW c \in Clients, Settle(c) PROVE Counted'
  <2>1. pc[c] = "settling" /\ UNCHANGED <<backend, inFlight, busy>>
    BY <1>9 DEF Settle, SettleRetry, SettleFailure, SettleRefusal, SettleCut,
                SettleReshape, SettleReply
  <2>2. PICK to \in {"answering", "picking", "backoff"} : pc' = [pc EXCEPT ![c] = to]
    BY <1>9 DEF Settle, SettleRetry, SettleFailure, SettleRefusal, SettleCut,
                SettleReshape, SettleReply, Answer
  <2> QED BY <1>0, <2>1, <2>2, SameCounts
<1>10. ASSUME NEW c \in Clients, Backoff(c) PROVE Counted'
  <2>1. PICK to \in {"answering", "picking"} : pc' = [pc EXCEPT ![c] = to]
    BY <1>10 DEF Backoff, Answer
  <2>2. pc[c] = "backoff" /\ UNCHANGED <<backend, inFlight, busy>>  BY <1>10 DEF Backoff
  <2> QED BY <1>0, <2>1, <2>2, SameCounts
<1>11. ASSUME NEW c \in Clients, ClientGone(c) \/ HoldEnds(c) \/ Rises(c) PROVE Counted'
  BY <1>3, <1>11 DEF ClientGone, HoldEnds, Rises
<1>12. ASSUME NEW m \in Models, Unpause(m) \/ NewMinute(m) \/ Ages(m) PROVE Counted'
  BY <1>3, <1>12 DEF Unpause, NewMinute, Ages
<1>13. ASSUME NEW s \in Stops, Stopping(s) \/ Drain(s) \/ Exit(s) PROVE Counted'
  BY <1>3, <1>13 DEF Stopping, Drain, Exit
<1>14. CASE UNCHANGED vars  BY <1>3, <1>14 DEF vars
<1> QED
  BY <1>1, <1>2, <1>4, <1>5, <1>6, <1>7, <1>8, <1>9, <1>10, <1>11, <1>12, <1>13, <1>14
     DEF Next, Step, Exited

\* ... slots,
LEMMA SlotsStep == Inv /\ [Next]_vars => SlotsBounded'
<1> SUFFICES ASSUME Inv, [Next]_vars PROVE SlotsBounded'  OBVIOUS
<1> USE DEF gates, kept, locals, queue, server
<1>0. TypeOK /\ SlotsBounded /\ Placed  BY DEF Inv
<1>1. MaxSlots \in [Models -> Nat]  BY Config DEF ConfigOK
<1>2. ASSUME UNCHANGED <<slots, busy>> PROVE SlotsBounded'
  BY <1>0, <1>2 DEF SlotsBounded
<1>3. ASSUME NEW c \in Clients, Send(c) PROVE SlotsBounded'
  <2>1. backend[c] \in Models  BY <1>0, <1>3 DEF Send, Placed
  <2>2. /\ UNCHANGED slots /\ busy' = [busy EXCEPT ![backend[c]] = @ + 1]
        /\ busy[backend[c]] < slots[backend[c]]
    BY <1>3 DEF Send, Fits
  <2> QED BY <1>0, <1>1, <2>1, <2>2 DEF TypeOK, SlotsBounded
<1>4. ASSUME NEW c \in Clients, Reply(c) PROVE SlotsBounded'
  <2>1. backend[c] \in Models  BY <1>0, <1>4 DEF Reply, Placed
  <2>2. UNCHANGED slots /\ busy' = [busy EXCEPT ![backend[c]] = @ - 1]
    BY <1>4 DEF Reply, Release
  <2> QED BY <1>0, <1>1, <2>1, <2>2 DEF TypeOK, SlotsBounded
<1>5. ASSUME NEW c \in Clients, Settle(c) PROVE SlotsBounded'
  <2>1. backend[c] \in Models  BY <1>0, <1>5 DEF Settle, Placed
  <2>2. UNCHANGED busy
    BY <1>5 DEF Settle, SettleRetry, SettleFailure, SettleRefusal, SettleCut,
                SettleReshape, SettleReply
  <2>3. CASE SettleFailure(c) /\ ~gone[c]
    <3>1. Failed(backend[c], outcome[c] = "limited")  BY <2>3 DEF SettleFailure
    <3>2. (outcome[c] = "limited") \in BOOLEAN  OBVIOUS
    <3>3. \A x \in Models : slots'[x] <= MaxSlots[x]
      BY <1>0, <2>1, <3>1, <3>2, FailedTypes
    <3> QED BY <1>0, <2>2, <3>3 DEF SlotsBounded
  <2>4. CASE SettleCut(c) \/ SettleReply(c)
    <3>1. PICK speed \in {"unknown", "slow", "fine"} : Adjust(backend[c], speed)
      BY <2>4 DEF SettleCut, SettleReply, Observe
    <3>2. \A x \in Models : slots'[x] <= MaxSlots[x]
      BY <1>0, <2>1, <3>1, AdjustTypes
    <3> QED BY <1>0, <2>2, <3>2 DEF SlotsBounded
  <2>5. CASE SettleRetry(c) \/ SettleRefusal(c) \/ SettleReshape(c)
              \/ (SettleFailure(c) /\ gone[c])
    BY <1>2, <2>5 DEF SettleRetry, SettleRefusal, SettleReshape, SettleFailure
  <2> QED BY <1>5, <2>3, <2>4, <2>5 DEF Settle
<1>6. ASSUME NEW c \in Clients,
             Call(c) \/ Finish(c) \/ GiveUp(c) \/ Enqueue(c) \/ NoRoom(c) \/ Backoff(c)
      PROVE  SlotsBounded'
  BY <1>2, <1>6 DEF Call, Finish, GiveUp, Enqueue, NoRoom, Backoff
<1>7. ASSUME NEW c \in Clients, ClientGone(c) \/ HoldEnds(c) \/ Rises(c) PROVE SlotsBounded'
  BY <1>2, <1>7 DEF ClientGone, HoldEnds, Rises
<1>8. ASSUME NEW m \in Models, Unpause(m) \/ NewMinute(m) \/ Ages(m) PROVE SlotsBounded'
  BY <1>2, <1>8 DEF Unpause, NewMinute, Ages
<1>9. ASSUME NEW s \in Stops, Stopping(s) \/ Drain(s) \/ Exit(s) PROVE SlotsBounded'
  BY <1>2, <1>9 DEF Stopping, Drain, Exit
<1>10. CASE UNCHANGED vars  BY <1>2, <1>10 DEF vars
<1> QED
  BY <1>3, <1>4, <1>5, <1>6, <1>7, <1>8, <1>9, <1>10 DEF Next, Step, Exited

-----------------------------------------------------------------------------
(* Where each request is, and what it is answered with. *)

\* The parts of the invariant that speak of one request at a time.
Request(c) ==
  /\ pc[c] # "idle" => Servable(c)
  /\ pc[c] \in {"waiting", "sending", "settling"} => backend[c] \in Models
  /\ pc[c] \in {"waiting", "sending"} => Usable(c, backend[c])
  /\ pc[c] = "answering" => answer[c] # "too_big"
  /\ streamed[c] => /\ pc[c] # "backoff"
                    /\ pc[c] = "settling" => outcome[c] \notin {"cut", "early"}
  /\ pc[c] = "answering" /\ streamed[c] => answer[c] \in {"reply", "streamed", "gone", "none"}

\* What is known of a request, in parts,
LEMMA RequestParts ==
  Placed /\ RoomKept /\ Retried /\ ReplyKept <=> \A c \in Clients : Request(c)
BY DEF Placed, RoomKept, Retried, ReplyKept, Request

\* ... and after a step.
LEMMA RequestPartsNext ==
  (\A c \in Clients : Request(c)') => (Placed /\ RoomKept /\ Retried /\ ReplyKept)'
BY DEF Placed, RoomKept, Retried, ReplyKept, Request

\* A request whose state does not change.
LEMMA RequestSame ==
  ASSUME NEW d \in Clients, Request(d), pc'[d] = pc[d], backend'[d] = backend[d],
         answer'[d] = answer[d], streamed'[d] = streamed[d], outcome'[d] = outcome[d]
  PROVE  Request(d)'
BY DEF Request, Servable, Usable, Room

\* Every step keeps what is known of each request.
LEMMA RequestStep == Inv /\ [Next]_vars => \A d \in Clients : Request(d)'
<1> SUFFICES ASSUME Inv, [Next]_vars, NEW d \in Clients PROVE Request(d)'  OBVIOUS
<1> USE DEF gates, kept, locals, queue, server
<1>0. TypeOK /\ Request(d) /\ \A c \in Clients : Request(c)
  BY RequestParts DEF Inv
<1>1. ASSUME UNCHANGED <<pc, backend, answer, streamed, outcome>> PROVE Request(d)'
  BY <1>0, <1>1, RequestSame
<1>2. ASSUME NEW c \in Clients, Call(c) PROVE Request(d)'
  <2>1. CASE d = c
    <3>1. pc'[c] = "picking" /\ Servable(c) /\ streamed' = streamed
      BY <1>0, <1>2 DEF Call, TypeOK
    <3> QED BY <2>1, <3>1 DEF Request, Servable, Usable, Room
  <2>2. CASE d # c  BY <1>0, <1>2, <2>2, RequestSame DEF Call, TypeOK
  <2> QED BY <2>1, <2>2
<1>3. ASSUME NEW c \in Clients, Finish(c) PROVE Request(d)'
  <2>1. CASE d = c
    <3>1. pc'[c] = "idle"  BY <1>0, <1>3 DEF Finish, TypeOK
    <3> QED BY <2>1, <3>1 DEF Request
  <2>2. CASE d # c  BY <1>0, <1>3, <2>2, RequestSame DEF Finish, TypeOK
  <2> QED BY <2>1, <2>2
\* A thread that goes on from one place to another, with the answer it has.
<1>4. ASSUME NEW c \in Clients, NEW a \in {"reply", "streamed", "gone", "none"},
             Answer(c, a), pc[c] # "idle",
             UNCHANGED backend, \A e \in Clients \ {c} : outcome'[e] = outcome[e],
             UNCHANGED streamed
      PROVE  Request(d)'
  <2>1. CASE d = c
    <3>1. pc'[c] = "answering" /\ answer'[c] = a
      BY <1>0, <1>4 DEF Answer, TypeOK
    <3>2. Servable(c)  BY <1>0, <1>4 DEF Request
    <3> QED BY <2>1, <3>1, <3>2, <1>4 DEF Request, Servable, Usable, Room
  <2>2. CASE d # c
    BY <1>0, <1>4, <2>2, RequestSame DEF Answer, TypeOK
  <2> QED BY <2>1, <2>2
\* ... or with an error, if it has no reply.
<1>5. ASSUME NEW c \in Clients, NEW a, a # "too_big",
             Answer(c, a), pc[c] # "idle", ~streamed[c],
             UNCHANGED backend, \A e \in Clients \ {c} : outcome'[e] = outcome[e],
             UNCHANGED streamed
      PROVE  Request(d)'
  <2>1. CASE d = c
    <3>1. pc'[c] = "answering" /\ answer'[c] = a
      BY <1>0, <1>5 DEF Answer, TypeOK
    <3>2. Servable(c)  BY <1>0, <1>5 DEF Request
    <3> QED BY <2>1, <3>1, <3>2, <1>5 DEF Request, Servable, Usable, Room
  <2>2. CASE d # c
    BY <1>0, <1>5, <2>2, RequestSame DEF Answer, TypeOK
  <2> QED BY <2>1, <2>2
\* ... or back to the head of the loop.
<1>6. ASSUME NEW c \in Clients, pc[c] # "idle", pc' = [pc EXCEPT ![c] = "picking"],
             UNCHANGED <<backend, answer>>,
             \A e \in Clients \ {c} : outcome'[e] = outcome[e] /\ streamed'[e] = streamed[e]
      PROVE  Request(d)'
  <2>1. CASE d = c
    <3>1. pc'[c] = "picking"  BY <1>0, <1>6 DEF TypeOK
    <3>2. Servable(c)  BY <1>0, <1>6 DEF Request
    <3> QED BY <2>1, <3>1, <3>2 DEF Request, Servable, Usable, Room
  <2>2. CASE d # c  BY <1>0, <1>6, <2>2, RequestSame DEF TypeOK
  <2> QED BY <2>1, <2>2
<1>7. ASSUME NEW c \in Clients, GiveUp(c) PROVE Request(d)'
  BY <1>4, <1>7 DEF GiveUp
<1>8. ASSUME NEW c \in Clients, Enqueue(c) PROVE Request(d)'
  <2>1. Servable(c)  BY <1>0, <1>8 DEF Enqueue, Request
  <2>2. Pick(c) \in Models /\ Usable(c, Pick(c))  BY <1>0, <2>1, PickUsable
  <2>3. /\ backend' = [backend EXCEPT ![c] = Pick(c)]
        /\ pc' = [pc EXCEPT ![c] = "waiting"]
        /\ UNCHANGED <<answer, streamed, outcome>>
    BY <1>8, <2>2 DEF Enqueue
  <2>4. CASE d = c
    <3>1. pc'[c] = "waiting" /\ backend'[c] = Pick(c)  BY <1>0, <2>3 DEF TypeOK
    <3> QED BY <2>1, <2>2, <2>4, <3>1 DEF Request, Servable, Usable, Room
  <2>5. CASE d # c  BY <1>0, <2>3, <2>5, RequestSame DEF TypeOK
  <2> QED BY <2>4, <2>5
<1>9. ASSUME NEW c \in Clients, Send(c) PROVE Request(d)'
  <2>1. CASE d = c
    <3>1. pc'[c] = "sending" /\ pc[c] = "waiting" /\ UNCHANGED <<backend, streamed>>
      BY <1>0, <1>9 DEF Send, TypeOK
    <3> QED BY <1>0, <2>1, <3>1 DEF Request, Servable, Usable, Room
  <2>2. CASE d # c  BY <1>0, <1>9, <2>2, RequestSame DEF Send, TypeOK
  <2> QED BY <2>1, <2>2
<1>10. ASSUME NEW c \in Clients, NoRoom(c) PROVE Request(d)'
  <2>1. pc[c] # "idle" /\ UNCHANGED <<backend, outcome, streamed>>  BY <1>10 DEF NoRoom
  <2>2. CASE Answer(c, "gone") \/ Answer(c, "streamed")  BY <1>4, <2>1, <2>2
  <2>3. CASE ~streamed[c] /\ Answer(c, "full")  BY <1>5, <2>1, <2>3
  <2> QED BY <1>10, <2>2, <2>3 DEF NoRoom
<1>11. ASSUME NEW c \in Clients, Reply(c) PROVE Request(d)'
  <2>1. PICK o \in Ends(c) :
          /\ outcome' = [outcome EXCEPT ![c] = o]
          /\ IF o = "raised" THEN Answer(c, "none")
             ELSE pc' = [pc EXCEPT ![c] = "settling"] /\ UNCHANGED answer
    BY <1>11 DEF Reply
  <2>2. pc[c] = "sending" /\ UNCHANGED <<backend, streamed>>  BY <1>11 DEF Reply
  <2>3. \A e \in Clients \ {c} : outcome'[e] = outcome[e]  BY <1>0, <2>1 DEF TypeOK
  <2>4. CASE o = "raised"  BY <1>4, <2>1, <2>2, <2>3, <2>4
  <2>5. CASE o # "raised"
    <3>1. CASE d = c
      <4>1. pc'[c] = "settling" /\ outcome'[c] = o  BY <1>0, <2>1, <2>5 DEF TypeOK
      <4>2. streamed[c] => o \notin {"cut", "early"}  BY <2>1 DEF Ends
      <4> QED BY <1>0, <2>2, <3>1, <4>1, <4>2 DEF Request, Servable, Usable, Room
    <3>2. CASE d # c  BY <1>0, <2>1, <2>2, <2>3, <2>5, <3>2, RequestSame DEF TypeOK
    <3> QED BY <3>1, <3>2
  <2> QED BY <2>4, <2>5
<1>12. ASSUME NEW c \in Clients, Settle(c) PROVE Request(d)'
  <2>1. /\ pc[c] = "settling" /\ UNCHANGED backend
        /\ \A e \in Clients \ {c} : outcome'[e] = outcome[e]
    BY <1>0, <1>12 DEF Settle, TypeOK
  <2>2. CASE SettleRetry(c)  BY <1>4, <2>1, <2>2 DEF SettleRetry, RetryAnswer
  <2>3. CASE SettleFailure(c)
    <3>1. ~streamed[c] /\ UNCHANGED streamed  BY <2>3 DEF SettleFailure
    <3>2. CASE pc' = [pc EXCEPT ![c] = "picking"] /\ UNCHANGED answer
      BY <1>6, <2>1, <3>1, <3>2
    <3>3. CASE Answer(c, "failing")  BY <1>5, <2>1, <3>1, <3>3
    <3>4. CASE pc' = [pc EXCEPT ![c] = "backoff"] /\ UNCHANGED answer
      <4>1. CASE d = c
        <5>1. pc'[c] = "backoff"  BY <1>0, <3>4 DEF TypeOK
        <5>2. Servable(c)  BY <1>0, <2>1 DEF Request
        <5> QED BY <3>1, <4>1, <5>1, <5>2 DEF Request, Servable, Usable, Room
      <4>2. CASE d # c  BY <1>0, <2>1, <3>1, <3>4, <4>2, RequestSame DEF TypeOK
      <4> QED BY <4>1, <4>2
    <3> QED BY <2>3, <3>2, <3>3, <3>4 DEF SettleFailure
  <2>4. CASE SettleRefusal(c)  BY <1>5, <2>1, <2>4 DEF SettleRefusal
  <2>5. CASE SettleCut(c)
    <3>1. ~streamed[c]
      <4>1. outcome[c] = "cut"  BY <2>5 DEF SettleCut
      <4>2. Request(c)  BY <1>0
      <4> QED BY <2>1, <4>1, <4>2 DEF Request
    <3>2. UNCHANGED streamed  BY <2>5 DEF SettleCut
    <3>3. CASE pc' = [pc EXCEPT ![c] = "picking"] /\ UNCHANGED answer
      BY <1>6, <2>1, <3>2, <3>3
    <3>4. CASE Answer(c, "cut")  BY <1>5, <2>1, <3>1, <3>2, <3>4
    <3> QED BY <2>5, <3>3, <3>4 DEF SettleCut
  <2>6. CASE SettleReshape(c)
    <3>1. /\ pc' = [pc EXCEPT ![c] = "picking"] /\ UNCHANGED answer
          /\ \A e \in Clients \ {c} : streamed'[e] = streamed[e]
      BY <1>0, <2>6 DEF SettleReshape, TypeOK
    <3> QED BY <1>6, <2>1, <3>1
  <2>7. CASE SettleReply(c)  BY <1>4, <2>1, <2>7 DEF SettleReply
  <2> QED BY <1>12, <2>2, <2>3, <2>4, <2>5, <2>6, <2>7 DEF Settle
<1>13. ASSUME NEW c \in Clients, Backoff(c) PROVE Request(d)'
  <2>1. pc[c] = "backoff" /\ UNCHANGED <<backend, outcome, streamed>>
    BY <1>13 DEF Backoff
  <2>2. ~streamed[c]
    <3>1. Request(c)  BY <1>0
    <3> QED BY <2>1, <3>1 DEF Request
  <2>3. CASE Answer(c, "restarting")  BY <1>5, <2>1, <2>2, <2>3
  <2>4. CASE pc' = [pc EXCEPT ![c] = "picking"] /\ UNCHANGED answer
    BY <1>6, <2>1, <2>4
  <2> QED BY <1>13, <2>3, <2>4 DEF Backoff
<1>14. ASSUME NEW c \in Clients, ClientGone(c) \/ HoldEnds(c) \/ Rises(c) PROVE Request(d)'
  BY <1>1, <1>14 DEF ClientGone, HoldEnds, Rises
<1>15. ASSUME NEW m \in Models, Unpause(m) \/ NewMinute(m) \/ Ages(m) PROVE Request(d)'
  BY <1>1, <1>15 DEF Unpause, NewMinute, Ages
<1>16. ASSUME NEW s \in Stops, Stopping(s) \/ Drain(s) \/ Exit(s) PROVE Request(d)'
  BY <1>1, <1>16 DEF Stopping, Drain, Exit
<1>17. CASE UNCHANGED vars  BY <1>1, <1>17 DEF vars
<1> QED
  BY <1>2, <1>3, <1>7, <1>8, <1>9, <1>10, <1>11, <1>12, <1>13, <1>14, <1>15, <1>16, <1>17
     DEF Next, Step, Exited

-----------------------------------------------------------------------------
(* The server's end. *)

\* Nothing happens once the process is gone, and it goes clean only when its
\* count, which is that of the threads, is zero.
LEMMA ExitStep == Inv /\ [Next]_vars => NoneDropped'
<1> SUFFICES ASSUME Inv, [Next]_vars PROVE NoneDropped'  OBVIOUS
<1> USE DEF gates, kept, locals, queue, server
<1>0. TypeOK /\ Counted /\ NoneDropped  BY DEF Inv
<1>1. CASE UNCHANGED vars  BY <1>0, <1>1 DEF vars, NoneDropped
<1>2. ASSUME NEW s \in Stops, Exit(s) PROVE NoneDropped'
  <2>1. UNCHANGED pc /\ exited' = IF Drained THEN "clean" ELSE "late"  BY <1>2 DEF Exit
  <2>2. CASE Drained
    <3>1. Cardinality(Active) = 0  BY <1>0, <2>2 DEF Drained, Counted
    <3>2. Active = {}  BY <3>1, FiniteCounts, FS_EmptySet
    <3> QED BY <2>1, <3>2 DEF Active, NoneDropped
  <2>3. CASE ~Drained  BY <2>1, <2>3 DEF NoneDropped
  <2> QED BY <2>2, <2>3
<1>3. ASSUME Running, UNCHANGED exited PROVE NoneDropped'
  BY <1>3 DEF Running, NoneDropped
<1>4. ASSUME NEW c \in Clients,
             Call(c) \/ ClientGone(c) \/ HoldEnds(c) \/ Rises(c) \/ Step(c)
      PROVE  NoneDropped'
  BY <1>3, <1>4 DEF Call, ClientGone, HoldEnds, Rises, Step, Finish, GiveUp, Enqueue, Send,
                    NoRoom, Reply, Settle, Backoff
<1>5. ASSUME NEW m \in Models, Running, Unpause(m) \/ NewMinute(m) \/ Ages(m)
      PROVE  NoneDropped'
  BY <1>3, <1>5 DEF Unpause, NewMinute, Ages
<1>6. ASSUME NEW s \in Stops, Stopping(s) \/ Drain(s) PROVE NoneDropped'
  BY <1>3, <1>6 DEF Stopping, Drain
<1> QED BY <1>1, <1>2, <1>4, <1>5, <1>6 DEF Next, Exited

-----------------------------------------------------------------------------
(* The theorems. *)

\* ... and so it always holds.
LEMMA InvHolds == Spec => []Inv
<1>1. Inv /\ [Next]_vars => Inv'
  <2> SUFFICES ASSUME Inv, [Next]_vars PROVE Inv'  OBVIOUS
  <2>1. TypeOK' /\ Counted' /\ SlotsBounded' /\ NoneDropped'
    BY TypeStep, CountStep, SlotsStep, ExitStep
  <2>2. Placed' /\ RoomKept' /\ Retried' /\ ReplyKept'
    BY RequestStep, RequestPartsNext
  <2> QED BY <2>1, <2>2 DEF Inv
<1> QED BY InitInv, <1>1, PTL DEF Spec

\* The proxy's state keeps its type: no count of a gate or of the server falls
\* under zero, and no model is ever left without a slot.
THEOREM ProxyTypeCorrect == Spec => []TypeOK
BY InvHolds, PTL DEF Inv

\* What the gates and the server count is what their threads hold, whichever
\* way each ends.
THEOREM CountsExact == Spec => []Counted
BY InvHolds, PTL DEF Inv

\* Never are more requests in flight to a model than its configured most.
THEOREM SlotsNeverExceeded == Spec => []SlotsBounded
BY InvHolds, PTL DEF Inv

\* A request that was let in always goes to a model with room for it.
THEOREM AlwaysRoom == Spec => []RoomKept
BY InvHolds, PTL DEF Inv

\* A request that has a whole reply is never answered with an error.
THEOREM RepliesKept == Spec => []ReplyKept
BY InvHolds, PTL DEF Inv

\* A proxy that exits within drain_seconds leaves no request unanswered.
THEOREM DrainDropsNone == Spec => []NoneDropped
BY InvHolds, PTL DEF Inv
-----------------------------------------------------------------------------
(* Sums over clients, in whichever order they are taken. *)

\* Of natural numbers one is the least.
LEMMA LeastOf ==
  ASSUME NEW S, S \subseteq Nat, S # {}
  PROVE  \E i \in S : \A j \in S : i <= j
<1>1. PICK i \in S : \A j \in S : ~(<<j, i>> \in OpToRel(<, Nat))
  BY NatLessThanWellFounded, WFMin
<1>2. ASSUME NEW j \in S PROVE i <= j
  <2>1. ~(<<j, i>> \in OpToRel(<, Nat))  BY <1>1
  <2>2. ~(j < i)  BY <2>1, Zenon DEF OpToRel
  <2> QED BY <2>2
<1> QED BY <1>2

\* What holds of a set of clients as soon as it holds of all
\* that lack one of them holds of all.
LEMMA BySets ==
  ASSUME NEW D, \A S \in SUBSET Clients : (\A c \in S : S \ {c} \in D) => S \in D
  PROVE  SUBSET Clients \subseteq D
<1> DEFINE bad == {S \in SUBSET Clients : S \notin D}
<1> SUFFICES ASSUME bad # {} PROVE FALSE  OBVIOUS
<1>1. \A S \in SUBSET Clients : IsFiniteSet(S) /\ Cardinality(S) \in Nat
  BY Inputs, FS_Subset, FS_CardinalityType
<1> DEFINE sizes == {Cardinality(S) : S \in bad}
<1>2. sizes \subseteq Nat /\ sizes # {}  BY <1>1
<1>3. PICK n \in sizes : \A m \in sizes : n <= m  BY <1>2, LeastOf
<1>4. PICK S \in bad : Cardinality(S) = n  BY <1>3
<1>5. ASSUME NEW c \in S PROVE S \ {c} \in D
  <2>0. IsFiniteSet(S)  BY <1>1, <1>4
  <2>1. Cardinality(S \ {c}) = Cardinality(S) - 1  BY <1>5, <2>0, FS_RemoveElement
  <2>2. S \ {c} \in SUBSET Clients  BY <1>4
  <2>3. S \ {c} \notin bad
    <3> SUFFICES ASSUME S \ {c} \in bad PROVE FALSE  OBVIOUS
    <3>1. n <= Cardinality(S \ {c})  BY <1>3
    <3> QED BY <1>1, <1>4, <2>1, <3>1
  <2> QED BY <2>2, <2>3
<1> QED BY <1>4, <1>5

\* g sums V over the sets of clients within D.
Sums(V, D, g) ==
  /\ g \in [SUBSET D -> Nat]
  /\ g[{}] = 0
  /\ \A S \in SUBSET D : \A c \in S : g[S] = V[c] + g[S \ {c}]

\* There is such a sum.
LEMMA SumsExist == ASSUME NEW V \in [Clients -> Nat] PROVE \E g : Sums(V, Clients, g)
<1> DEFINE D == {S \in SUBSET Clients : \E g : Sums(V, S, g)}
<1>1. ASSUME NEW S \in SUBSET Clients, \A c \in S : S \ {c} \in D PROVE S \in D
  <2>1. CASE S = {}
    <3>1. Sums(V, S, [T \in SUBSET S |-> 0])  BY <2>1 DEF Sums
    <3> QED BY <3>1
  <2>2. CASE S # {}
    <3>1. PICK c \in S : TRUE  BY <2>2
    <3>2. PICK g : Sums(V, S \ {c}, g)  BY <1>1, <3>1
    <3> DEFINE h == [T \in SUBSET S |-> IF c \in T THEN V[c] + g[T \ {c}] ELSE g[T]]
    <3>3. \A T \in SUBSET S : T \ {c} \in SUBSET (S \ {c}) /\ (c \notin T => T \in SUBSET (S \ {c}))
      OBVIOUS
    <3>4. g \in [SUBSET (S \ {c}) -> Nat] /\ g[{}] = 0 /\ V[c] \in Nat
      BY <3>1, <3>2 DEF Sums
    <3>5. h \in [SUBSET S -> Nat] /\ h[{}] = 0  BY <3>3, <3>4
    <3>6. ASSUME NEW T \in SUBSET S, NEW x \in T PROVE h[T] = V[x] + h[T \ {x}]
      <4>1. T \ {x} \in SUBSET S /\ V[x] \in Nat  BY <3>6
      <4>2. CASE x = c  BY <3>6, <4>1, <4>2
      <4>3. CASE x # c /\ c \notin T
        <5>1. g[T] = V[x] + g[T \ {x}]  BY <3>2, <3>3, <3>6, <4>3 DEF Sums
        <5> QED BY <4>1, <4>3, <5>1
      <4>4. CASE x # c /\ c \in T
        <5>1. (T \ {c}) \ {x} = (T \ {x}) \ {c}  OBVIOUS
        <5>2. g[T \ {c}] = V[x] + g[(T \ {c}) \ {x}]
          BY <3>2, <3>3, <3>6, <4>4 DEF Sums
        <5>3. h[T] = V[c] + g[T \ {c}] /\ h[T \ {x}] = V[c] + g[(T \ {x}) \ {c}]
          BY <4>1, <4>4
        <5>4. g[(T \ {x}) \ {c}] \in Nat  BY <3>3, <3>4, <4>1
        <5>5. PICK n \in Nat : n = g[(T \ {x}) \ {c}]  BY <5>4
        <5>6. g[T \ {c}] = V[x] + n  BY <5>1, <5>2, <5>5
        <5>7. h[T] = V[c] + (V[x] + n) /\ h[T \ {x}] = V[c] + n  BY <5>3, <5>5, <5>6
        <5> HIDE DEF h
        <5> QED BY <3>4, <4>1, <5>7
      <4> QED BY <4>2, <4>3, <4>4
    <3> HIDE DEF h
    <3>7. Sums(V, S, h)  BY <3>5, <3>6 DEF Sums
    <3> QED BY <3>7
  <2> QED BY <2>1, <2>2
<1> HIDE DEF D
<1>2. SUBSET Clients \subseteq D  BY <1>1, BySets
<1>3. Clients \in D  BY <1>2
<1> QED BY <1>3 DEF D

\* The sum of V over S.
Total(V, S) == (CHOOSE g : Sums(V, Clients, g))[S]

\* It takes one client more at a time, whichever.
LEMMA TotalIs ==
  ASSUME NEW V \in [Clients -> Nat], NEW S \in SUBSET Clients
  PROVE  /\ Total(V, S) \in Nat /\ Total(V, {}) = 0
         /\ \A c \in S : Total(V, S) = V[c] + Total(V, S \ {c})
<1> DEFINE g == CHOOSE g : Sums(V, Clients, g)
<1>1. Sums(V, Clients, g)  BY SumsExist
<1> QED BY <1>1 DEF Sums, Total

\* More of each is more in all.
LEMMA TotalGrows ==
  ASSUME NEW V \in [Clients -> Nat], NEW W \in [Clients -> Nat], NEW S \in SUBSET Clients,
         \A c \in S : V[c] <= W[c]
  PROVE  Total(V, S) <= Total(W, S)
<1> DEFINE D == {T \in SUBSET Clients : T \subseteq S => Total(V, T) <= Total(W, T)}
<1>1. ASSUME NEW T \in SUBSET Clients, \A c \in T : T \ {c} \in D PROVE T \in D
  <2> SUFFICES ASSUME T \subseteq S PROVE Total(V, T) <= Total(W, T)  OBVIOUS
  <2>1. CASE T = {}
    <3>1. Total(V, T) = 0 /\ Total(W, T) = 0  BY <2>1, TotalIs
    <3> QED BY <3>1
  <2>2. CASE T # {}
    <3>1. PICK c \in T : TRUE  BY <2>2
    <3>2. Total(V, T \ {c}) <= Total(W, T \ {c})  BY <1>1, <3>1
    <3>3. Total(V, T) = V[c] + Total(V, T \ {c}) /\ Total(W, T) = W[c] + Total(W, T \ {c})
      BY <3>1, TotalIs
    <3>4. V[c] <= W[c] /\ V[c] \in Nat /\ W[c] \in Nat  BY <3>1
    <3>5. Total(V, T \ {c}) \in Nat /\ Total(W, T \ {c}) \in Nat  BY TotalIs
    <3> QED BY <3>2, <3>3, <3>4, <3>5
  <2> QED BY <2>1, <2>2
<1> HIDE DEF D
<1>2. S \in D  BY <1>1, BySets
<1> QED BY <1>2 DEF D


\* What the community module's fold computes, spelled out: the fold's own
\* function over the sets of clients,
FoldStep(V, S, g) ==
  [s \in SUBSET S |-> IF s = {} THEN 0
                      ELSE LET x == CHOOSE x \in s : TRUE IN V[x] + g[s \ {x}]]
FoldOf(V, S) == (CHOOSE g : g = FoldStep(V, S, g))[S]

\* ... is the sum, whichever client it takes first.
LEMMA FoldIs ==
  ASSUME NEW V \in [Clients -> Nat], NEW S \in SUBSET Clients
  PROVE  FoldOf(V, S) = Total(V, S)
<1> DEFINE sum == [T \in SUBSET S |-> Total(V, T)]
<1>1. \A T \in SUBSET S : T # {} => (CHOOSE x \in T : TRUE) \in T  OBVIOUS
<1>2. ASSUME NEW T \in SUBSET S PROVE sum[T] = FoldStep(V, S, sum)[T]
  <2>1. T \in SUBSET Clients  OBVIOUS
  <2>2. CASE T = {}
    <3>1. Total(V, T) = 0  BY <2>1, <2>2, TotalIs
    <3> QED BY <2>2, <3>1 DEF FoldStep
  <2>3. CASE T # {}
    <3> DEFINE x == CHOOSE x \in T : TRUE
    <3>1. x \in T  BY <1>1, <2>3
    <3>2. FoldStep(V, S, sum)[T] = V[x] + sum[T \ {x}]  BY <2>3 DEF FoldStep
    <3> HIDE DEF x
    <3>3. Total(V, T) = V[x] + Total(V, T \ {x})  BY <2>1, <3>1, TotalIs
    <3> QED BY <3>2, <3>3
  <2> QED BY <2>2, <2>3
<1>3. sum = FoldStep(V, S, sum)
  <2>1. DOMAIN sum = SUBSET S /\ DOMAIN FoldStep(V, S, sum) = SUBSET S  BY DEF FoldStep
  <2>2. FoldStep(V, S, sum) = [T \in SUBSET S |-> FoldStep(V, S, sum)[T]]  BY DEF FoldStep
  <2> HIDE DEF sum
  <2> QED BY <1>2, <2>1, <2>2 DEF sum
<1> DEFINE f == CHOOSE g : g = FoldStep(V, S, g)
<1>4. f = FoldStep(V, S, f)  BY <1>3
<1> HIDE DEF f
<1> DEFINE D == {T \in SUBSET Clients : T \subseteq S => f[T] = Total(V, T)}
<1>5. ASSUME NEW T \in SUBSET Clients, \A c \in T : T \ {c} \in D PROVE T \in D
  <2> SUFFICES ASSUME T \subseteq S PROVE f[T] = Total(V, T)  OBVIOUS
  <2>1. CASE T = {}
    <3>1. Total(V, T) = 0  BY <2>1, TotalIs
    <3>2. f[T] = 0  BY <1>4, <2>1 DEF FoldStep
    <3> QED BY <3>1, <3>2
  <2>2. CASE T # {}
    <3> DEFINE x == CHOOSE x \in T : TRUE
    <3>1. x \in T  BY <1>1, <2>2
    <3>2. f[T] = V[x] + f[T \ {x}]  BY <1>4, <2>2 DEF FoldStep
    <3> HIDE DEF x
    <3>3. f[T \ {x}] = Total(V, T \ {x})  BY <1>5, <3>1
    <3>4. Total(V, T) = V[x] + Total(V, T \ {x})  BY <3>1, TotalIs
    <3> QED BY <3>2, <3>3, <3>4
  <2> QED BY <2>1, <2>2
<1> HIDE DEF D
<1>6. S \in D  BY <1>5, BySets
<1>7. f[S] = Total(V, S)  BY <1>6 DEF D
<1> QED BY <1>7 DEF f, FoldOf

\* Fair use, as a bound on these sums.
LEMMA FairUseIs == FairUse <=> \A m \in Models : FoldOf(tokens, Sending(m)) <= Share[m]
BY DEF FairUse, MapThenSumSet, MapThenFoldSet, FoldOf, FoldStep

\* Who weighs the same before and after weighs the same in all.
LEMMA TotalSame ==
  ASSUME NEW V \in [Clients -> Nat], NEW W \in [Clients -> Nat], NEW S \in SUBSET Clients,
         \A c \in S : V[c] = W[c]
  PROVE  Total(V, S) = Total(W, S)
<1>1. \A c \in S : V[c] <= W[c] /\ W[c] <= V[c]  OBVIOUS
<1>2. Total(V, S) <= Total(W, S) /\ Total(W, S) <= Total(V, S)  BY <1>1, TotalGrows
<1>3. Total(V, S) \in Nat /\ Total(W, S) \in Nat  BY TotalIs
<1> QED BY <1>2, <1>3

-----------------------------------------------------------------------------
(* Tokens. *)

\* What a gate holds is what its threads were sent with, and that, like each
\* request that waits, is within the model's share.
Weighed ==
  /\ tokens \in [Clients -> Nat]
  /\ \A c \in Clients : pc[c] \in {"waiting", "sending"} => tokens[c] <= Share[backend[c]]
  /\ \A m \in Models : held[m] = Total(tokens, Sending(m)) /\ held[m] <= Share[m]

\* The least is least.
LEMMA MinWithin ==
  /\ \A i, j, k \in Int : Min({i, j, k}) <= j
  /\ \A i, j \in Int : Min({i, j}) <= j
BY SMT DEF Min

\* Whatever speed, room and earlier cuts leave it, what a request asks for and
\* its prompt are within the share of a model that has room.
LEMMA TokensFit ==
  ASSUME TypeOK, NEW c \in Clients, NEW m \in Models, NEW slow \in Floor[m]..Ceiling[m],
         Usable(c, m)
  PROVE  LET n == Prompt[c][m] + MaxTokens(c, Cap(c, m, slow))
         IN  n \in Nat /\ n <= Share[m]
<1>1. /\ Floor[m] \in Nat /\ Ceiling[m] \in Nat /\ Floor[m] > 0 /\ Share[m] \in Nat
      /\ slow \in Int /\ slow >= Floor[m]
  BY Config DEF ConfigOK
<1>2. Prompt[c][m] \in Nat /\ Asked[c] \in Nat /\ shrink[c] \in Nat  BY Inputs DEF TypeOK
<1>3. PICK r \in Int : r = Room(c, m) /\ r = Share[m] - Prompt[c][m] - 1 /\ r >= 0
  BY <1>1, <1>2 DEF Room, Usable
<1> DEFINE k == IF shrink[c] = 0 THEN r ELSE shrink[c]
<1>4. k \in Nat /\ Cap(c, m, slow) = Min({slow, r, k})  BY <1>2, <1>3 DEF Cap
<1> HIDE DEF k
<1>5. PICK cap \in Int : cap = Cap(c, m, slow) /\ cap >= 0 /\ cap <= r
  <2>1. Min({slow, r, k}) \in {slow, r, k}  BY <1>1, <1>4, MinOfThree
  <2>2. Min({slow, r, k}) <= r  BY <1>1, <1>4, MinWithin
  <2> QED BY <1>1, <1>3, <1>4, <2>1, <2>2
<1>6. PICK n \in Int : n = MaxTokens(c, cap) /\ n >= 0 /\ n <= r
  <2>1. CASE Asked[c] = 0  BY <1>5, <2>1 DEF MaxTokens
  <2>2. CASE Asked[c] # 0
    <3>1. MaxTokens(c, cap) = Min({Asked[c], cap})  BY <2>2 DEF MaxTokens
    <3>2. Min({Asked[c], cap}) \in {Asked[c], cap}  BY <1>2, MinOfTwo
    <3>3. Min({Asked[c], cap}) <= cap  BY <1>2, MinWithin
    <3> QED BY <1>2, <1>3, <1>5, <3>1, <3>2, <3>3
  <2> QED BY <2>1, <2>2
<1>7. MaxTokens(c, Cap(c, m, slow)) = n  BY <1>5, <1>6
<1> QED BY <1>1, <1>2, <1>3, <1>6, <1>7

\* The sends of every model are among the clients.
LEMMA SendersAreClients == \A m : Sending(m) \in SUBSET Clients
BY DEF Sending

\* A step that moves no request to or from a model and no weight on one.
LEMMA SameWeight ==
  ASSUME Weighed, tokens' \in [Clients -> Nat], UNCHANGED held,
         \A m \in Models : Sending(m)' = Sending(m) /\ \A d \in Sending(m) : tokens'[d] = tokens[d],
         \A d \in Clients : pc'[d] \in {"waiting", "sending"} => tokens'[d] <= Share[backend'[d]]
  PROVE  Weighed'
<1>1. ASSUME NEW m \in Models PROVE Total(tokens', Sending(m)') = Total(tokens, Sending(m))
  <2>1. Sending(m)' = Sending(m) /\ Sending(m) \in SUBSET Clients  BY SendersAreClients
  <2>2. \A d \in Sending(m) : tokens'[d] = tokens[d]  OBVIOUS
  <2>3. tokens \in [Clients -> Nat]  BY DEF Weighed
  <2>4. Total(tokens', Sending(m)) = Total(tokens, Sending(m))
    BY <2>1, <2>2, <2>3, TotalSame
  <2> QED BY <2>1, <2>4
<1>2. \A m \in Models : held'[m] = Total(tokens', Sending(m)') /\ held'[m] <= Share[m]
  BY <1>1 DEF Weighed
<1> QED BY <1>2 DEF Weighed

\* ... as every step but a request's own ways in and out leaves them.
LEMMA SameWeights ==
  ASSUME TypeOK, Weighed, NEW c \in Clients, NEW to,
         to \notin {"waiting", "sending"}, pc[c] # "sending",
         pc' = [pc EXCEPT ![c] = to], UNCHANGED held,
         tokens' \in [Clients -> Nat],
         \A d \in Clients \ {c} : backend'[d] = backend[d] /\ tokens'[d] = tokens[d]
  PROVE  Weighed'
<1>1. \A d \in Clients : pc'[d] = IF d = c THEN to ELSE pc[d]  BY DEF TypeOK
<1>2. \A m \in Models : Sending(m)' = Sending(m) /\ c \notin Sending(m)  BY <1>1 DEF Sending
<1>3. \A m \in Models : \A d \in Sending(m) : tokens'[d] = tokens[d]
  BY <1>2, SendersAreClients
<1>4. ASSUME NEW d \in Clients, pc'[d] \in {"waiting", "sending"}
      PROVE  tokens'[d] <= Share[backend'[d]]
  <2>1. d # c /\ pc[d] \in {"waiting", "sending"}  BY <1>1, <1>4
  <2>2. tokens[d] <= Share[backend[d]]  BY <2>1 DEF Weighed
  <2> QED BY <2>1, <2>2
<1> QED BY <1>2, <1>3, <1>4, SameWeight

\* The budgets load computes are within fair use; a model's own may not be.
FairBudgets == \A m \in Models : Budget[m] <= Share[m]

\* No step takes a model past its share.
LEMMA WeightStep == FairBudgets /\ Inv /\ Weighed /\ [Next]_vars => Weighed'
<1> SUFFICES ASSUME FairBudgets, Inv, Weighed, [Next]_vars PROVE Weighed'  OBVIOUS
<1> USE DEF gates, kept, locals, queue, server
<1>0. TypeOK /\ Counted /\ Placed /\ tokens \in [Clients -> Nat]  BY DEF Inv, Weighed
<1>1. ASSUME UNCHANGED <<pc, backend, tokens, held>> PROVE Weighed'
  BY <1>1 DEF Weighed, Sending
<1>2. ASSUME NEW c \in Clients, NEW to \in PCs \ {"waiting", "sending"},
             pc[c] # "sending", pc' = [pc EXCEPT ![c] = to],
             UNCHANGED <<backend, tokens, held>>
      PROVE  Weighed'
  BY <1>0, <1>2, SameWeights
<1>3. ASSUME NEW c \in Clients, Call(c) PROVE Weighed'
  BY <1>2, <1>3 DEF Call, PCs
<1>4. ASSUME NEW c \in Clients, Finish(c) PROVE Weighed'
  <2>1. pc[c] = "answering" /\ pc' = [pc EXCEPT ![c] = "idle"] /\ UNCHANGED held
    BY <1>4 DEF Finish
  <2>2. /\ tokens' \in [Clients -> Nat]
        /\ \A d \in Clients \ {c} : backend'[d] = backend[d] /\ tokens'[d] = tokens[d]
    BY <1>0, <1>4 DEF Finish, TypeOK
  <2> QED BY <1>0, <2>1, <2>2, SameWeights
<1>5. ASSUME NEW c \in Clients, GiveUp(c) PROVE Weighed'
  BY <1>2, <1>5 DEF GiveUp, Answer, PCs
<1>6. ASSUME NEW c \in Clients, Enqueue(c) PROVE Weighed'
  <2>1. pc[c] = "picking" /\ UNCHANGED held  BY <1>6 DEF Enqueue
  <2>2. Pick(c) \in Models /\ Usable(c, Pick(c))
    <3>1. Servable(c)  BY <1>0, <2>1 DEF Placed
    <3> QED BY <1>0, <3>1, PickUsable
  <2>3. PICK m \in Models : m = Pick(c)  BY <2>2
  <2>4. /\ backend' = [backend EXCEPT ![c] = m]
        /\ pc' = [pc EXCEPT ![c] = "waiting"]
    BY <1>6, <2>2, <2>3 DEF Enqueue
  <2>5. PICK slow \in Floor[m]..Ceiling[m] :
          tokens' = [tokens EXCEPT ![c] = Prompt[c][m] + MaxTokens(c, Cap(c, m, slow))]
    BY <1>6, <2>2, <2>3 DEF Enqueue
  <2>6. PICK n \in Nat : n <= Share[m] /\ tokens' = [tokens EXCEPT ![c] = n]
    <3>1. Usable(c, m)  BY <2>2, <2>3
    <3> QED BY <1>0, <2>5, <3>1, TokensFit
  <2>7. \A d \in Clients : /\ pc'[d] = IF d = c THEN "waiting" ELSE pc[d]
                           /\ backend'[d] = IF d = c THEN m ELSE backend[d]
                           /\ tokens'[d] = IF d = c THEN n ELSE tokens[d]
    BY <1>0, <2>4, <2>6 DEF TypeOK
  <2>8. tokens' \in [Clients -> Nat]  BY <1>0, <2>6
  <2>9. \A x \in Models : Sending(x)' = Sending(x) /\ c \notin Sending(x)
    BY <2>1, <2>7 DEF Sending
  <2>10. \A x \in Models : \A d \in Sending(x) : tokens'[d] = tokens[d]
    BY <2>7, <2>9, SendersAreClients
  <2>11. \A d \in Clients : pc'[d] \in {"waiting", "sending"} => tokens'[d] <= Share[backend'[d]]
    BY <2>6, <2>7 DEF Weighed
  <2> QED BY <2>1, <2>8, <2>9, <2>10, <2>11, SameWeight
<1>7. ASSUME NEW c \in Clients, Send(c) PROVE Weighed'
  <2>1. PICK m : m = backend[c]  OBVIOUS
  <2>2. /\ pc[c] = "waiting" /\ UNCHANGED <<backend, tokens>> /\ Fits(c, m)
        /\ held' = [held EXCEPT ![m] = @ + tokens[c]]
        /\ pc' = [pc EXCEPT ![c] = "sending"]
    BY <1>7, <2>1 DEF Send
  <2>3. m \in Models  BY <1>0, <2>1, <2>2 DEF Placed
  <2>4. \A d \in Clients : pc'[d] = IF d = c THEN "sending" ELSE pc[d]
    BY <1>0, <2>2 DEF TypeOK
  <2>5. \A d \in Clients : pc'[d] \in {"waiting", "sending"} => tokens'[d] <= Share[backend'[d]]
    BY <2>2, <2>4 DEF Weighed
  <2>6. ASSUME NEW x \in Models
        PROVE  held'[x] = Total(tokens', Sending(x)') /\ held'[x] <= Share[x]
    <3>0. /\ held[x] = Total(tokens, Sending(x)) /\ held[x] <= Share[x] /\ held[x] \in Int
          /\ tokens[c] \in Nat /\ Share[x] \in Nat /\ Budget[x] \in Nat
      BY <1>0, Config DEF Weighed, TypeOK, ConfigOK
    <3>1. CASE x = m
      <4>1. Sending(x)' = Sending(x) \cup {c} /\ c \notin Sending(x)
        BY <2>1, <2>2, <2>4, <3>1 DEF Sending
      <4>2. held'[x] = held[x] + tokens[c]  BY <1>0, <2>2, <2>3, <3>1 DEF TypeOK
      <4>3. Total(tokens, Sending(x) \cup {c}) = tokens[c] + Total(tokens, Sending(x))
        <5>1. (Sending(x) \cup {c}) \ {c} = Sending(x)  BY <4>1
        <5>2. Sending(x) \cup {c} \in SUBSET Clients  BY SendersAreClients
        <5>3. Total(tokens, Sending(x) \cup {c})
                = tokens[c] + Total(tokens, (Sending(x) \cup {c}) \ {c})
          BY <1>0, <5>2, TotalIs
        <5> QED BY <5>1, <5>3
      <4>4. held'[x] <= Share[x]
        <5>1. CASE held[x] + tokens[c] <= Budget[x]
          <6>1. Budget[x] <= Share[x]  BY DEF FairBudgets
          <6> QED BY <3>0, <4>2, <5>1, <6>1
        <5>2. CASE busy[x] = 0
          <6>1. Sending(x) = {}  BY <1>0, <5>2, FiniteCounts, FS_EmptySet DEF Counted
          <6>2. held[x] = 0  BY <1>0, <3>0, <6>1, SendersAreClients, TotalIs
          <6>3. tokens[c] <= Share[x]  BY <2>1, <2>2, <3>1 DEF Weighed
          <6> QED BY <3>0, <4>2, <6>2, <6>3
        <5> QED BY <2>2, <3>1, <5>1, <5>2 DEF Fits
      <4>5. held'[x] = Total(tokens, Sending(x)')  BY <3>0, <4>1, <4>2, <4>3
      <4> QED BY <2>2, <4>4, <4>5
    <3>2. CASE x # m
      <4>1. Sending(x)' = Sending(x)  BY <2>1, <2>2, <2>4, <3>2 DEF Sending
      <4>2. held'[x] = held[x]  BY <1>0, <2>2, <3>2 DEF TypeOK
      <4> QED BY <2>2, <3>0, <4>1, <4>2
    <3> QED BY <3>1, <3>2
  <2> QED BY <1>0, <2>2, <2>5, <2>6 DEF Weighed
<1>8. ASSUME NEW c \in Clients, NoRoom(c) PROVE Weighed'
  BY <1>2, <1>8 DEF NoRoom, Answer, PCs
<1>9. ASSUME NEW c \in Clients, Reply(c) PROVE Weighed'
  <2>1. PICK m : m = backend[c]  OBVIOUS
  <2>2. PICK o \in Ends(c), to \in {"answering", "settling"} :
          Release(c, m, o) /\ pc' = [pc EXCEPT ![c] = to]
    BY <1>9, <2>1 DEF Reply, Answer
  <2>3. /\ pc[c] = "sending" /\ UNCHANGED <<backend, tokens>>
        /\ held' = [held EXCEPT ![m] = @ - tokens[c]]
    BY <1>9, <2>2 DEF Reply, Release
  <2>4. m \in Models  BY <1>0, <2>1, <2>3 DEF Placed
  <2>5. \A d \in Clients : pc'[d] = IF d = c THEN to ELSE pc[d]
    BY <1>0, <2>2 DEF TypeOK
  <2>6. \A d \in Clients : pc'[d] \in {"waiting", "sending"} => tokens'[d] <= Share[backend'[d]]
    BY <2>2, <2>3, <2>5 DEF Weighed
  <2>7. ASSUME NEW x \in Models
        PROVE  held'[x] = Total(tokens', Sending(x)') /\ held'[x] <= Share[x]
    <3>0. /\ held[x] = Total(tokens, Sending(x)) /\ held[x] <= Share[x] /\ held[x] \in Int
          /\ tokens[c] \in Nat /\ Share[x] \in Nat
      BY <1>0, Config DEF Weighed, TypeOK, ConfigOK
    <3>1. CASE x = m
      <4>1. Sending(x)' = Sending(x) \ {c} /\ c \in Sending(x)
        BY <2>1, <2>2, <2>3, <2>5, <3>1 DEF Sending
      <4>2. held'[x] = held[x] - tokens[c]  BY <1>0, <2>3, <2>4, <3>1 DEF TypeOK
      <4>3. Total(tokens, Sending(x)) = tokens[c] + Total(tokens, Sending(x) \ {c})
        BY <1>0, <4>1, SendersAreClients, TotalIs
      <4>4. Total(tokens, Sending(x) \ {c}) \in Nat  BY <1>0, SendersAreClients, TotalIs
      <4> QED BY <2>3, <3>0, <4>1, <4>2, <4>3, <4>4
    <3>2. CASE x # m
      <4>1. Sending(x)' = Sending(x)  BY <2>1, <2>3, <2>5, <3>2 DEF Sending
      <4>2. held'[x] = held[x]  BY <1>0, <2>3, <3>2 DEF TypeOK
      <4> QED BY <2>3, <3>0, <4>1, <4>2
    <3> QED BY <3>1, <3>2
  <2> QED BY <1>0, <2>3, <2>6, <2>7 DEF Weighed
<1>10. ASSUME NEW c \in Clients, Settle(c) PROVE Weighed'
  <2>1. pc[c] = "settling" /\ UNCHANGED <<backend, tokens, held>>
    BY <1>10 DEF Settle, SettleRetry, SettleFailure, SettleRefusal, SettleCut,
                 SettleReshape, SettleReply
  <2>2. PICK to \in {"answering", "picking", "backoff"} : pc' = [pc EXCEPT ![c] = to]
    BY <1>10 DEF Settle, SettleRetry, SettleFailure, SettleRefusal, SettleCut,
                 SettleReshape, SettleReply, Answer
  <2> QED BY <1>2, <2>1, <2>2 DEF PCs
<1>11. ASSUME NEW c \in Clients, Backoff(c) PROVE Weighed'
  <2>1. PICK to \in {"answering", "picking"} : pc' = [pc EXCEPT ![c] = to]
    BY <1>11 DEF Backoff, Answer
  <2>2. pc[c] = "backoff" /\ UNCHANGED <<backend, tokens, held>>  BY <1>11 DEF Backoff
  <2> QED BY <1>2, <2>1, <2>2 DEF PCs
<1>12. ASSUME NEW c \in Clients, ClientGone(c) \/ HoldEnds(c) \/ Rises(c) PROVE Weighed'
  BY <1>1, <1>12 DEF ClientGone, HoldEnds, Rises
<1>13. ASSUME NEW m \in Models, Unpause(m) \/ NewMinute(m) \/ Ages(m) PROVE Weighed'
  BY <1>1, <1>13 DEF Unpause, NewMinute, Ages
<1>14. ASSUME NEW s \in Stops, Stopping(s) \/ Drain(s) \/ Exit(s) PROVE Weighed'
  BY <1>1, <1>14 DEF Stopping, Drain, Exit
<1>15. CASE UNCHANGED vars  BY <1>1, <1>15 DEF vars
<1> QED
  BY <1>3, <1>4, <1>5, <1>6, <1>7, <1>8, <1>9, <1>10, <1>11, <1>12, <1>13, <1>14, <1>15
     DEF Next, Step, Exited

\* At the start nothing is held.
LEMMA InitWeighed == Init => Weighed
<1> SUFFICES ASSUME Init PROVE Weighed  OBVIOUS
<1>1. \A c \in Clients : pc[c] = "idle"  BY DEF Init
<1>2. tokens \in [Clients -> Nat]  BY DEF Init
<1>3. \A m \in Models : Sending(m) = {}  BY <1>1 DEF Sending
<1>4. \A m \in Models : held[m] = 0 /\ Share[m] \in Nat
  BY Config DEF Init, GateInit, ConfigOK
<1>5. \A m \in Models : held[m] = Total(tokens, Sending(m))
  <2>1. {} \in SUBSET Clients  OBVIOUS
  <2>2. Total(tokens, {}) = 0  BY <1>2, <2>1, TotalIs
  <2> QED BY <1>3, <1>4, <2>2
<1> QED BY <1>1, <1>2, <1>4, <1>5 DEF Weighed

\* Where a gate's account is right, the threads themselves are within fair use.
LEMMA WeighedIsFair == Weighed => FairUse
<1> SUFFICES ASSUME Weighed PROVE FairUse  OBVIOUS
<1>1. ASSUME NEW m \in Models PROVE FoldOf(tokens, Sending(m)) <= Share[m]
  <2>1. tokens \in [Clients -> Nat] /\ Sending(m) \in SUBSET Clients
    BY SendersAreClients DEF Weighed
  <2>2. FoldOf(tokens, Sending(m)) = Total(tokens, Sending(m))  BY <2>1, FoldIs
  <2> QED BY <2>2 DEF Weighed
<1> QED BY <1>1, FairUseIs

\* What the threads hold of a model together is within fair use, though a
\* request alone may pass the model's budget and was sized before it waited,
\* as long as the budgets are those load computes, a fraction of the share.
THEOREM FairUseHolds == ASSUME FairBudgets PROVE Spec => []FairUse
<1>1. Inv /\ Weighed /\ [Next]_vars => Weighed'  BY WeightStep
<1> QED BY InvHolds, InitWeighed, <1>1, WeighedIsFair, PTL DEF Spec
====

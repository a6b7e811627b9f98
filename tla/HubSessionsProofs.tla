-------------------------- MODULE HubSessionsProofs --------------------------
(***************************************************************************)
(* Theorems about HubSessions, for any users, GPUs and lifetime of a grant *)
(* that outlasts a tick and a slow query: the gate never admits more       *)
(* sessions than there are GPUs, and what a tool says is so.               *)
(***************************************************************************)
EXTENDS HubSessions, FiniteSetTheorems, TLAPS

ServerType == [st : States, opts : Options, idle : 0..Timeout, known : BOOLEAN]
GateType == [free : Nat, slow : BOOLEAN, known : BOOLEAN]
CullerType == [pc : {"sleep", "pass"}, todo : SUBSET Users, stop : Users \cup {None}]
Pcs == {"idle", "choose", "stop", "look", "poll", "read", "named", "await", "spawn"}
Ops == {"none", "start", "stop", "status", "wait", "restart"}
Words == {"none", "nosession", "running", "stopping", "pending", "failed", "choices", "stopped",
          "norun", "starting", "restarting", "ready", "timeout"}
CallType == [pc : Pcs, op : Ops, opts : Options \cup {"keep"}, noted : BOOLEAN,
             stopped : BOOLEAN, polls : Nat, absent : Nat, told : Words,
             first : Options \cup {"any"}, others : BOOLEAN, gap : BOOLEAN]

HubType ==
  /\ server \in [Users -> ServerType]
  /\ gate \in [Users -> GateType \cup {None}]
  /\ grants \in [Users -> 0..TTL]
  /\ prom \in SUBSET Users
  /\ culler \in CullerType

\* The hook waits for a GPU spawn, and until it is done nothing else happens to it.
Waits == \A u \in Users : gate[u] # None => server[u].st = "asked" /\ server[u].opts = "gpu"

\* A session that has a GPU and was admitted by what the gate knew.
Has(s) == s.opts = "gpu" /\ s.st \in {"spawn", "ready", "stop"} /\ s.known
Admitted == {u \in Users : Has(server[u])}

\* Prometheus shows it, unless it was admitted since the last tick.
InSight == \A u \in Users : Has(server[u]) => u \in prom \/ grants[u] = 0

\* A hook that waits was told of the GPUs that were free beside those of some users;
\* whoever else was admitted has a reservation of a tick at most.
Slack(g) == IF g.slow THEN 1 ELSE 0
Counted(g, P) ==
  /\ g.free > 0 => g.free + Cardinality(P) <= Gpus
  /\ \A w \in Users : Has(server[w]) => w \in P \/ grants[w] <= Slack(g)
Fits == \A u \in Users : gate[u] # None /\ gate[u].known => \E P \in SUBSET Users : Counted(gate[u], P)

Room == Cardinality(Admitted) <= Gpus

HubInv == HubType /\ Waits /\ InSight /\ Fits /\ Room

OpAt(pc) == CASE pc = "choose" -> {"start"} [] pc = "stop" -> {"stop", "restart"}
              [] pc = "look" -> {"status"} [] pc = "poll" -> {"wait"}
              [] pc \in {"read", "named", "await"} -> {"restart"}
              [] pc = "spawn" -> {"start", "restart"} [] OTHER -> Ops

\* A restart that keeps the options of a session that ran, which nobody else touched: the
\* session is as it was until the restart stops it, and then there is none.
Keeps(c, s) ==
  /\ c.pc \in {"read", "stop", "await", "spawn"} /\ c.op = "restart"
  /\ c.pc = "read" => c.opts = "keep" /\ s.opts = c.first
  /\ c.pc # "read" => c.noted \/ c.opts = c.first
  /\ s.st \in IF c.pc \in {"read", "stop"} THEN {"ready"} ELSE {"stop", "none"}

\* A call that runs, and the server of its user.
Good(c, s) == c.pc # "idle" =>
  /\ c.op \in OpAt(c.pc)
  /\ c.pc # "read" => c.opts \in Options
  /\ s.st = "none" => c.gap
  /\ c.pc \in {"choose", "read", "named"} => ~c.stopped
  /\ c.first # "any" /\ ~c.others => Keeps(c, s)

CallInv == call \in [Callers -> CallType] /\ \A u \in Callers : Good(call[u], server[u])

Inv == HubInv /\ CallInv

-----------------------------------------------------------------------------
(* The gate. *)

\* Times and counts are numbers.
LEMMA Times == TTL \in Nat /\ TTL > 1 /\ Timeout \in Nat /\ Timeout > 0 /\ Gpus \in Nat
BY TimesAssumption, BoundsAssumption

\* Sets of users are finite,
LEMMA Finite ==
  ASSUME NEW S \in SUBSET Users
  PROVE  IsFiniteSet(S) /\ Cardinality(S) \in Nat
BY UsersAssumption, FS_Subset, FS_CardinalityType

\* ... and a part of one is no larger.
LEMMA Smaller ==
  ASSUME NEW S \in SUBSET Users, NEW T \in SUBSET S
  PROVE  Cardinality(T) <= Cardinality(S)
BY Finite, FS_Subset

\* What the gate does not decide: no session is admitted by it.
LEMMA HubKeeps ==
  ASSUME HubInv, server' \in [Users -> ServerType], grants' \in [Users -> 0..TTL],
         culler' \in CullerType, gate' \in [Users -> GateType \cup {None}], UNCHANGED prom,
         \A w \in Users : Has(server'[w]) => Has(server[w]) /\ grants'[w] = grants[w],
         \A w \in Users : gate'[w] # None => gate'[w] = gate[w] /\ server'[w] = server[w]
  PROVE  HubInv'
<1> USE DEF HubInv
<1>1. HubType'  BY DEF HubType
<1>2. Waits'  BY DEF Waits
<1>3. InSight'  BY DEF InSight
<1>4. Fits'
  <2> SUFFICES ASSUME NEW u \in Users, gate'[u] # None, gate'[u].known
               PROVE  \E P \in SUBSET Users : Counted(gate[u], P)'
    BY DEF Fits
  <2>1. PICK P \in SUBSET Users : Counted(gate[u], P)  BY DEF Fits
  <2>2. Counted(gate[u], P)'  BY <2>1 DEF Counted
  <2> QED BY <2>2
<1>5. Room'
  <2>1. Admitted' \in SUBSET Admitted /\ Admitted \in SUBSET Users  BY DEF Admitted
  <2>2. Cardinality(Admitted') <= Cardinality(Admitted)  BY <2>1, Smaller
  <2>3. Cardinality(Admitted') \in Nat /\ Cardinality(Admitted) \in Nat  BY <2>1, Finite
  <2> QED BY <2>2, <2>3, Times DEF Room
<1> QED BY <1>1, <1>2, <1>3, <1>4, <1>5

\* A step that leaves servers, hooks, reservations and Prometheus alone.
LEMMA HubSame ==
  ASSUME HubInv, UNCHANGED <<server, gate, grants, prom>>, culler' \in CullerType
  PROVE  HubInv'
BY HubKeeps DEF HubInv, HubType

\* A server becomes another, or none, of the same user.
LEMMA ServerKeeps ==
  ASSUME HubInv, NEW u \in Users, NEW s \in ServerType, Becomes(u, s),
         culler' \in CullerType, gate' \in [Users -> GateType \cup {None}], UNCHANGED prom,
         \A w \in Users : gate'[w] # None => gate'[w] = gate[w],
         Has(s) => Has(server[u]), gate'[u] # None => s = server[u]
  PROVE  HubInv'
<1> USE DEF HubInv
<1>1. server' = [server EXCEPT ![u] = s] /\ grants' = Released(u, s)  BY DEF Becomes
<1>2. /\ server' \in [Users -> ServerType] /\ server'[u] = s
      /\ \A w \in Users \ {u} : server'[w] = server[w]
  BY <1>1 DEF HubType
<1>3. TTL \in 0..TTL  BY Times
<1>4. /\ grants' \in [Users -> 0..TTL] /\ \A w \in Users \ {u} : grants'[w] = grants[w]
      /\ s.st # "none" => grants'[u] = grants[u]
  BY <1>1, <1>3 DEF Released, HubType
<1>5. Has(s) => s.st # "none"  BY DEF Has
<1> QED BY <1>2, <1>4, <1>5, HubKeeps

\* A hook asks Prometheus: whoever was admitted shows there, or has a reservation.
LEMMA AsksKeeps ==
  ASSUME HubInv, NEW u \in Users, GateAsks(u)
  PROVE  HubInv'
<1> USE DEF HubInv
<1>1. PICK known \in BOOLEAN : gate' = [gate EXCEPT ![u] = ObservedFree(known)]
  BY DEF GateAsks
<1>2. /\ server[u].st = "asked" /\ server[u].opts = "gpu" /\ grants' = [grants EXCEPT ![u] = TTL]
      /\ UNCHANGED <<server, prom, culler>>
  BY DEF GateAsks
<1> DEFINE g == ObservedFree(known)
<1>3. Cardinality(prom) \in Nat  BY Finite DEF HubType
<1>4. Observed \in Nat /\ (Observed > 0 => Observed + Cardinality(prom) <= Gpus)
  BY <1>3, Times DEF Observed
<1>5. g \in GateType /\ g.slow = FALSE /\ g.known = known /\ (known => g.free = Observed)
  BY <1>4 DEF ObservedFree, GateType
<1> HIDE DEF g
<1>6. /\ gate' \in [Users -> GateType \cup {None}] /\ gate'[u] = g
      /\ \A w \in Users \ {u} : gate'[w] = gate[w]
  BY <1>1, <1>5 DEF HubType, g
<1>7. /\ grants' \in [Users -> 0..TTL] /\ \A w \in Users \ {u} : grants'[w] = grants[w]
  BY <1>2, Times DEF HubType
<1>8. ~Has(server[u])  BY <1>2 DEF Has
<1>9. HubType'  BY <1>2, <1>6, <1>7 DEF HubType
<1>10. Waits'  BY <1>2, <1>6 DEF Waits
<1>11. InSight'  BY <1>2, <1>7, <1>8 DEF InSight
<1>12. Fits'
  <2> SUFFICES ASSUME NEW v \in Users, gate'[v] # None, gate'[v].known
               PROVE  \E P \in SUBSET Users : Counted(gate[v], P)'
    BY DEF Fits
  <2>1. CASE v = u
    <3>1. known /\ gate'[v] = g  BY <1>5, <1>6, <2>1
    <3>2. Slack(g) = 0  BY <1>5 DEF Slack
    <3>3. ASSUME NEW w \in Users, Has(server[w])
          PROVE  w \in prom \/ grants'[w] <= Slack(g)
      BY <1>7, <1>8, <3>2, <3>3 DEF InSight
    <3>4. g.free > 0 => g.free + Cardinality(prom) <= Gpus  BY <1>4, <1>5, <3>1
    <3>5. Counted(gate[v], prom)'  BY <1>2, <3>1, <3>3, <3>4 DEF Counted
    <3> QED BY <1>2, <3>5 DEF HubType
  <2>2. CASE v # u
    <3>1. PICK P \in SUBSET Users : Counted(gate[v], P)  BY <1>6, <2>2 DEF Fits
    <3>2. Counted(gate[v], P)'  BY <1>2, <1>6, <1>7, <1>8, <2>2, <3>1 DEF Counted
    <3> QED BY <3>2
  <2> QED BY <2>1, <2>2
<1>13. Room'  BY <1>2 DEF Room, Admitted
<1> QED BY <1>9, <1>10, <1>11, <1>12, <1>13

\* A hook admits by what it was told and by the reservations made since: there is room.
LEMMA AdmitsKeeps ==
  ASSUME HubInv, NEW u \in Users, GateAdmits(u)
  PROVE  HubInv'
<1> USE DEF HubInv
<1>1. /\ gate[u] # None /\ (gate[u].known => Free(u)) /\ gate' = [gate EXCEPT ![u] = None]
      /\ server' = [server EXCEPT ![u].st = "spawn", ![u].known = gate[u].known]
      /\ grants' = IF gate[u].known THEN [grants EXCEPT ![u] = 0] ELSE grants
      /\ UNCHANGED <<prom, culler>>
  BY DEF GateAdmits
<1>2. server[u].st = "asked" /\ gate[u] \in GateType  BY <1>1 DEF Waits, HubType
<1> DEFINE k == gate[u].known
           s == [server[u] EXCEPT !.st = "spawn", !.known = k]
<1>3. k \in BOOLEAN /\ ~Has(server[u])  BY <1>2 DEF GateType, Has
<1>4. server' = [server EXCEPT ![u] = s] /\ (k => Free(u))  BY <1>1
<1>5. grants' = IF k THEN [grants EXCEPT ![u] = 0] ELSE grants  BY <1>1
<1> HIDE DEF k
<1>6. s \in ServerType /\ s.known = k  BY <1>3 DEF HubType, ServerType, States
<1>7. Has(s) => k  BY <1>6 DEF Has
<1> HIDE DEF s
<1>8. /\ server' \in [Users -> ServerType] /\ server'[u] = s
      /\ \A w \in Users \ {u} : server'[w] = server[w]
  BY <1>4, <1>6 DEF HubType
<1>9. /\ gate' \in [Users -> GateType \cup {None}] /\ gate'[u] = None
      /\ \A w \in Users \ {u} : gate'[w] = gate[w]
  BY <1>1 DEF HubType
<1>10. /\ grants' \in [Users -> 0..TTL] /\ \A w \in Users \ {u} : grants'[w] = grants[w]
       /\ k => grants'[u] = 0
  BY <1>5, Times DEF HubType
<1>11. HubType'  BY <1>1, <1>8, <1>9, <1>10 DEF HubType
<1>12. Waits'  BY <1>8, <1>9 DEF Waits
<1>13. InSight'  BY <1>1, <1>7, <1>8, <1>10 DEF InSight
<1>14. Fits'
  <2> SUFFICES ASSUME NEW v \in Users, gate'[v] # None, gate'[v].known
               PROVE  \E P \in SUBSET Users : Counted(gate[v], P)'
    BY DEF Fits
  <2>1. v # u /\ gate'[v] = gate[v]  BY <1>9
  <2>2. PICK P \in SUBSET Users : Counted(gate[v], P)  BY <2>1 DEF Fits
  <2>3. Slack(gate[v]) \in {0, 1}  BY DEF Slack
  <2>4. ASSUME NEW w \in Users, Has(server'[w])
        PROVE  w \in P \/ grants'[w] <= Slack(gate[v])
    BY <1>7, <1>8, <1>10, <2>2, <2>3, <2>4 DEF Counted
  <2>5. Counted(gate[v], P)'  BY <2>1, <2>2, <2>4 DEF Counted
  <2> QED BY <2>5
<1>15. Room'
  <2>1. Admitted \in SUBSET Users /\ Admitted' \in SUBSET Users  BY DEF Admitted
  <2>2. CASE ~k
    <3>1. Admitted' \in SUBSET Admitted  BY <1>7, <1>8, <2>2 DEF Admitted
    <3>2. Cardinality(Admitted') <= Cardinality(Admitted)  BY <2>1, <3>1, Smaller
    <3>3. Cardinality(Admitted') \in Nat /\ Cardinality(Admitted) \in Nat  BY <2>1, Finite
    <3> QED BY <3>2, <3>3, Times DEF Room
  <2>3. CASE k
    <3> DEFINE G == GrantsInFlight(u)
    <3>1. G \in SUBSET Users /\ u \notin G  BY DEF GrantsInFlight
    <3>2. gate[u].free > Cardinality(G) /\ gate[u].free \in Nat
      BY <1>2, <1>4, <2>3 DEF Free, GateType
    <3>3. PICK P \in SUBSET Users : Counted(gate[u], P)  BY <1>1, <2>3 DEF Fits, k
    <3>4. Slack(gate[u]) \in {0, 1}  BY DEF Slack
    <3>5. Admitted' \subseteq (P \cup G) \cup {u}
      <4> SUFFICES ASSUME NEW w \in Users, w # u, Has(server'[w])  PROVE w \in P \cup G
        BY DEF Admitted
      <4>1. Has(server[w])  BY <1>8
      <4>2. w \in P \/ grants[w] <= Slack(gate[u])  BY <3>3, <4>1 DEF Counted
      <4>3. grants[w] \in Int  BY DEF HubType
      <4>4. w \in P \/ grants[w] < TTL  BY <3>4, <4>2, <4>3, Times
      <4> QED BY <4>4 DEF GrantsInFlight
    <3> HIDE DEF G
    <3>6. IsFiniteSet(P) /\ IsFiniteSet(G) /\ Cardinality(P) \in Nat /\ Cardinality(G) \in Nat
      BY <3>1, Finite
    <3>7. /\ IsFiniteSet(P \cup G) /\ Cardinality(P \cup G) \in Nat
          /\ Cardinality(P \cup G) <= Cardinality(P) + Cardinality(G)
      <4>1. /\ IsFiniteSet(P \cup G)
            /\ Cardinality(P \cup G) = Cardinality(P) + Cardinality(G) - Cardinality(P \cap G)
        BY <3>6, FS_Union
      <4>2. Cardinality(P \cap G) \in Nat /\ Cardinality(P \cup G) \in Nat
        BY <3>1, Finite
      <4> QED BY <3>6, <4>1, <4>2
    <3>8. Cardinality((P \cup G) \cup {u}) <= Cardinality(P) + Cardinality(G) + 1
      <4>1. \/ Cardinality((P \cup G) \cup {u}) = Cardinality(P \cup G)
            \/ Cardinality((P \cup G) \cup {u}) = Cardinality(P \cup G) + 1
        BY <3>7, FS_AddElement
      <4> QED BY <3>6, <3>7, <4>1
    <3>9. (P \cup G) \cup {u} \in SUBSET Users  BY <3>1
    <3>10. Cardinality(Admitted') <= Cardinality((P \cup G) \cup {u})  BY <3>5, <3>9, Smaller
    <3>11. Cardinality(Admitted') \in Nat /\ Cardinality((P \cup G) \cup {u}) \in Nat
      BY <2>1, <3>9, Finite
    <3>12. gate[u].free + Cardinality(P) <= Gpus  BY <3>2, <3>3, <3>6 DEF Counted
    <3>13. Cardinality(Admitted') <= Gpus
      BY <3>2, <3>6, <3>8, <3>10, <3>11, <3>12, Times
    <3> QED BY <3>13 DEF Room
  <2> QED BY <1>3, <2>2, <2>3
<1> QED BY <1>11, <1>12, <1>13, <1>14, <1>15

\* A tick: Prometheus catches up with a pod before its reservation expires.
LEMMA TickKeeps ==
  ASSUME HubInv, Tick
  PROVE  /\ HubInv'
         /\ \A u \in Users : server'[u].st = server[u].st /\ server'[u].opts = server[u].opts
<1> USE DEF HubInv
<1>1. /\ \A u \in Users : gate[u] # None => ~gate[u].slow
      /\ prom' = Holders
      /\ gate' = [u \in Users |-> IF gate[u] = None THEN None ELSE [gate[u] EXCEPT !.slow = TRUE]]
      /\ grants' = [u \in Users |-> IF grants[u] < TTL THEN grants[u] + 1 ELSE TTL]
      /\ server' = [u \in Users |-> IF server[u].st = "ready" /\ server[u].idle < Timeout
                                    THEN [server[u] EXCEPT !.idle = server[u].idle + 1]
                                    ELSE server[u]]
      /\ UNCHANGED culler
  BY DEF Tick
<1>2. /\ server' \in [Users -> ServerType]
      /\ \A u \in Users : /\ server'[u].st = server[u].st /\ server'[u].opts = server[u].opts
                          /\ server'[u].known = server[u].known
  <2>1. ASSUME NEW u \in Users
        PROVE  /\ server'[u] \in ServerType
               /\ server'[u].st = server[u].st /\ server'[u].opts = server[u].opts
               /\ server'[u].known = server[u].known
    <3>1. CASE server[u].st = "ready" /\ server[u].idle < Timeout
      <4> DEFINE n == server[u].idle + 1
      <4>1. n \in 0..Timeout  BY <3>1, Times DEF HubType, ServerType
      <4>2. server'[u] = [server[u] EXCEPT !.idle = n]  BY <1>1, <3>1
      <4> HIDE DEF n
      <4> QED BY <4>1, <4>2 DEF HubType, ServerType
    <3>2. CASE ~(server[u].st = "ready" /\ server[u].idle < Timeout)
      BY <1>1, <3>2 DEF HubType
    <3> QED BY <3>1, <3>2
  <2> QED BY <1>1, <2>1
<1>3. \A u \in Users : Has(server'[u]) <=> Has(server[u])  BY <1>2 DEF Has
<1>4. ASSUME NEW u \in Users
      PROVE  /\ gate'[u] \in GateType \cup {None}
             /\ gate'[u] # None => /\ gate[u] # None /\ gate'[u].slow = TRUE
                                   /\ gate'[u].free = gate[u].free
                                   /\ gate'[u].known = gate[u].known
  <2>1. gate'[u] = IF gate[u] = None THEN None ELSE [gate[u] EXCEPT !.slow = TRUE]  BY <1>1
  <2> QED BY <2>1 DEF HubType, GateType
<1>5. /\ grants' \in [Users -> 0..TTL]
      /\ \A u \in Users : grants[u] <= 0 => grants'[u] = 1
  <2>1. ASSUME NEW u \in Users
        PROVE  grants'[u] \in 0..TTL /\ (grants[u] <= 0 => grants'[u] = 1)
    BY <1>1, Times DEF HubType
  <2> QED BY <1>1, <2>1
<1>6. prom' \in SUBSET Users  BY <1>1 DEF Holders
<1>7. HubType'  BY <1>1, <1>2, <1>4, <1>5, <1>6 DEF HubType
<1>8. Waits'  BY <1>2, <1>4 DEF Waits
<1>9. InSight'  BY <1>1, <1>3 DEF InSight, Has, Holders
<1>10. Fits'
  <2> SUFFICES ASSUME NEW u \in Users, gate'[u] # None, gate'[u].known
               PROVE  \E P \in SUBSET Users : Counted(gate[u], P)'
    BY DEF Fits
  <2>1. /\ gate[u] # None /\ ~gate[u].slow /\ gate[u].known /\ gate'[u].slow = TRUE
        /\ gate'[u].free = gate[u].free
    BY <1>1, <1>4
  <2>2. PICK P \in SUBSET Users : Counted(gate[u], P)  BY <2>1 DEF Fits
  <2>3. Slack(gate[u]) = 0 /\ Slack(gate'[u]) = 1  BY <2>1 DEF Slack
  <2>4. ASSUME NEW w \in Users, Has(server'[w])
        PROVE  w \in P \/ grants'[w] <= Slack(gate'[u])
    BY <1>3, <1>5, <2>2, <2>3, <2>4 DEF Counted
  <2>5. Counted(gate[u], P)'  BY <2>1, <2>2, <2>4 DEF Counted
  <2> QED BY <2>5
<1>11. Room'
  <2>1. Admitted' = Admitted  BY <1>3 DEF Admitted
  <2> QED BY <2>1 DEF Room
<1> QED BY <1>2, <1>7, <1>8, <1>9, <1>10, <1>11

-----------------------------------------------------------------------------
(* What the Hub answers. *)

\* No server.
LEMMA NoServerFacts == NoServer \in ServerType /\ ~Has(NoServer) /\ NoServer.st = "none"
BY Times DEF NoServer, ServerType, States, Options, Has

\* What a POST leaves,
LEMMA SpawnedFacts ==
  ASSUME HubInv, NEW u \in Users, NEW o \in Options
  PROVE  /\ Spawned(u, o) \in ServerType
         /\ Has(Spawned(u, o)) => Has(server[u])
         /\ gate[u] # None => Spawned(u, o) = server[u]
         /\ server[u].st = "none" => Spawned(u, o).st = "asked" /\ Spawned(u, o).opts = o
         /\ server[u].st # "none" => Spawned(u, o) = server[u]
<1>1. server[u] \in ServerType  BY DEF HubInv, HubType
<1>2. gate[u] # None => server[u].st = "asked"  BY DEF HubInv, Waits
<1>3. CASE server[u].st = "none"
  <2> DEFINE s == [NoServer EXCEPT !.st = "asked", !.opts = o]
  <2>1. Spawned(u, o) = s  BY <1>3 DEF Spawned
  <2>2. s \in ServerType /\ s.st = "asked" /\ s.opts = o
    BY NoServerFacts DEF ServerType, States
  <2> HIDE DEF s
  <2> QED BY <1>2, <1>3, <2>1, <2>2 DEF Has
<1>4. CASE server[u].st # "none"  BY <1>1, <1>4 DEF Spawned
<1> QED BY <1>3, <1>4

\* ... and what a DELETE leaves and answers.
LEMMA StoppedFacts ==
  ASSUME HubInv, NEW u \in Users, NEW a \in StopAnswers(u)
  PROVE  /\ Stopped(u, a) \in ServerType
         /\ Has(Stopped(u, a)) => Has(server[u])
         /\ gate[u] # None => Stopped(u, a) = server[u]
         /\ a \in {"stopped", "stopping", "norun"}
         /\ a = "stopped" => server[u].st = "ready" /\ Stopped(u, a).st = "none"
         /\ a = "stopping" => server[u].st \in {"ready", "stop"} /\ Stopped(u, a).st = "stop"
         /\ a = "norun" => server[u].st \notin {"ready", "stop"} /\ Stopped(u, a) = server[u]
<1>1. server[u] \in ServerType  BY DEF HubInv, HubType
<1>2. gate[u] # None => server[u].st = "asked"  BY DEF HubInv, Waits
<1>3. /\ a \in {"stopped", "stopping", "norun"}
      /\ a = "stopped" => server[u].st = "ready"
      /\ a = "stopping" => server[u].st \in {"ready", "stop"}
      /\ a = "norun" => server[u].st \notin {"ready", "stop"}
  BY DEF StopAnswers
<1>4. CASE a = "stopped"
  <2>1. Stopped(u, a) = NoServer  BY <1>4 DEF Stopped
  <2> QED BY <1>2, <1>3, <1>4, <2>1, NoServerFacts
<1>5. CASE a = "stopping"
  <2> DEFINE s == [server[u] EXCEPT !.st = "stop"]
  <2>1. Stopped(u, a) = s  BY <1>5 DEF Stopped
  <2>2. s \in ServerType /\ s.st = "stop" /\ s.opts = server[u].opts /\ s.known = server[u].known
    BY <1>1 DEF ServerType, States
  <2> HIDE DEF s
  <2> QED BY <1>2, <1>3, <1>5, <2>1, <2>2 DEF Has
<1>6. CASE a = "norun"
  <2>1. Stopped(u, a) = server[u]  BY <1>6 DEF Stopped
  <2> QED BY <1>1, <1>3, <1>6, <2>1
<1> QED BY <1>3, <1>4, <1>5, <1>6

-----------------------------------------------------------------------------
(* The calls of the tools. *)

\* What ToldTrue says of the end of a call.
True(c, o) ==
  /\ c.told = "nosession" => c.gap
  /\ c.op = "restart" /\ c.told = "failed" => ~c.stopped
  /\ c.told = "restarting" /\ ~c.noted /\ ~c.others => c.first \in {"any", o}
Truthful ==
  \A u \in Callers : call[u].pc # "idle" /\ call'[u].pc = "idle" => True(call'[u], server'[u].opts)

\* The server changes under a call that runs.
LEMMA GoodStays ==
  ASSUME NEW c, NEW d, NEW s, NEW t, Good(c, s), d.pc = c.pc, d.op = c.op, d.opts = c.opts,
         d.noted = c.noted, d.stopped = c.stopped, d.first = c.first,
         c.gap => d.gap, c.others => d.others, t.st = "none" /\ d.pc # "idle" => d.gap \/ s.st = "none",
         \/ d.pc # "idle" => d.others
         \/ t.st = s.st /\ t.opts = s.opts
         \/ s.st = "stop" /\ t.st = "none"
         \/ s.st \in {"asked", "spawn"}
  PROVE  Good(d, t)
<1> SUFFICES ASSUME d.pc # "idle" PROVE Good(d, t)  BY DEF Good
<1>1. d.first # "any" /\ ~d.others => Keeps(d, t)
  <2> SUFFICES ASSUME d.first # "any", ~d.others PROVE Keeps(d, t)  OBVIOUS
  <2>1. Keeps(c, s)  BY DEF Good
  <2> QED BY <2>1 DEF Keeps
<1> QED BY <1>1 DEF Good

\* A server changes, and the calls that run note it.
LEMMA CallSeen ==
  ASSUME Inv, NEW u \in Users, NEW s \in ServerType, NEW q, server' = [server EXCEPT ![u] = s],
         q.st = "none" <=> s.st = "none", NEW other \in BOOLEAN, Seen(u, q, other),
         \/ other
         \/ s.st = server[u].st /\ s.opts = server[u].opts
         \/ server[u].st = "stop" /\ s.st = "none"
         \/ server[u].st \in {"asked", "spawn"}
  PROVE  CallInv' /\ Truthful
<1>0. /\ call \in [Callers -> CallType] /\ server \in [Users -> ServerType]
      /\ \A v \in Callers : Good(call[v], server[v])
  BY DEF Inv, HubInv, HubType, CallInv
<1>1. server'[u] = s /\ \A v \in Users \ {u} : server'[v] = server[v]  BY <1>0
<1>2. \A v \in Callers : call'[v] = IF v # u \/ ~Busy(u) THEN call[v]
        ELSE [call[v] EXCEPT !.others = call[v].others \/ other,
                             !.gap = call[v].gap \/ q.st = "none"]
  BY DEF Seen
<1>3. ASSUME NEW v \in Callers
      PROVE  call'[v] \in CallType /\ call'[v].pc = call[v].pc /\ Good(call'[v], server'[v])
  <2>1. v \in Users  BY UsersAssumption
  <2>2. CASE v # u
    <3>1. call'[v] = call[v] /\ server'[v] = server[v]  BY <1>1, <1>2, <2>1, <2>2
    <3> QED BY <1>0, <3>1
  <2>3. CASE v = u /\ ~Busy(u)
    <3>1. call'[v] = call[v] /\ call[v].pc = "idle"  BY <1>2, <2>3 DEF Busy
    <3> QED BY <1>0, <3>1 DEF Good
  <2>4. CASE v = u /\ Busy(u)
    <3> DEFINE o == call[v].others \/ other
               g == call[v].gap \/ q.st = "none"
               d == [call[v] EXCEPT !.others = o, !.gap = g]
    <3>1. o \in BOOLEAN /\ g \in BOOLEAN  BY <1>0 DEF CallType
    <3>2. (call[v].others => o) /\ (other => o) /\ (call[v].gap => g) /\ (s.st = "none" => g)
      OBVIOUS
    <3>3. call'[v] = d  BY <1>2, <2>4
    <3> HIDE DEF o, g
    <3>4. /\ d \in CallType /\ d.pc = call[v].pc /\ d.op = call[v].op /\ d.opts = call[v].opts
          /\ d.noted = call[v].noted /\ d.stopped = call[v].stopped /\ d.first = call[v].first
          /\ d.others = o /\ d.gap = g
      BY ZenonT(60), <1>0, <3>1 DEF CallType
    <3> HIDE DEF d
    <3>5. other => d.others  BY <3>2, <3>4
    <3>6. \/ d.others
          \/ s.st = server[v].st /\ s.opts = server[v].opts
          \/ server[v].st = "stop" /\ s.st = "none"
          \/ server[v].st \in {"asked", "spawn"}
      BY <2>4, <3>5
    <3>7. Good(call[v], server[v])  BY <1>0
    <3>8. Good(d, s)  BY <3>2, <3>4, <3>6, <3>7, GoodStays
    <3> QED BY <1>1, <2>4, <3>3, <3>4, <3>8
  <2> QED BY <2>2, <2>3, <2>4
<1>4. CallInv'
  <2>1. call' \in [Callers -> CallType]  BY <1>3 DEF Seen
  <2> QED BY <1>3, <2>1 DEF CallInv
<1> QED BY <1>3, <1>4 DEF Truthful

\* Servers change in no way that a call could tell wrongly.
LEMMA CallSame ==
  ASSUME Inv, UNCHANGED call,
         \A v \in Users : \/ server'[v].st = server[v].st /\ server'[v].opts = server[v].opts
                          \/ server[v].st \in {"asked", "spawn"} /\ server'[v].st # "none"
  PROVE  CallInv' /\ Truthful
<1>0. /\ call \in [Callers -> CallType] /\ \A v \in Callers : Good(call[v], server[v])
  BY DEF Inv, CallInv
<1>1. ASSUME NEW v \in Callers PROVE Good(call[v], server'[v])
  <2>1. v \in Users  BY UsersAssumption
  <2>2. Good(call[v], server[v])  BY <1>0
  <2>3. /\ server'[v].st = "none" => server[v].st = "none"
        /\ \/ server'[v].st = server[v].st /\ server'[v].opts = server[v].opts
           \/ server[v].st \in {"asked", "spawn"}
    BY <2>1
  <2> QED BY <2>2, <2>3, GoodStays
<1>2. CallInv'  BY <1>0, <1>1 DEF CallInv
<1> QED BY <1>2 DEF Truthful

\* The tool's own step.
LEMMA CallSets ==
  ASSUME Inv, NEW u \in Callers, NEW c \in CallType, call' = [call EXCEPT ![u] = c],
         \A v \in Users \ {u} : server'[v] = server[v], Good(c, server'[u]),
         c.pc = "idle" /\ call[u].pc # "idle" => True(c, server'[u].opts)
  PROVE  CallInv' /\ Truthful
<1>0. /\ call \in [Callers -> CallType] /\ \A v \in Callers : Good(call[v], server[v])
  BY DEF Inv, CallInv
<1>1. /\ call' \in [Callers -> CallType] /\ call'[u] = c
      /\ \A v \in Callers \ {u} : call'[v] = call[v]
  BY <1>0
<1>2. \A v \in Callers \ {u} : server'[v] = server[v]  BY UsersAssumption
<1>3. CallInv'  BY <1>0, <1>1, <1>2 DEF CallInv
<1>4. Truthful  BY <1>1 DEF Truthful
<1> QED BY <1>3, <1>4

\* A tool that ends tells the truth if these three words are true.
LEMMA ToolTells ==
  ASSUME Inv, NEW u \in Callers, NEW c \in CallType, NEW told \in Words, Tells(u, c, told),
         \A v \in Users \ {u} : server'[v] = server[v],
         told = "nosession" => c.gap,
         c.op = "restart" /\ told = "failed" => ~c.stopped,
         told = "restarting" /\ ~c.noted /\ ~c.others => c.first \in {"any", server'[u].opts}
  PROVE  CallInv' /\ Truthful
<1> DEFINE d == [c EXCEPT !.pc = "idle", !.told = told]
<1>1. call' = [call EXCEPT ![u] = d]  BY DEF Tells
<1>2. /\ d \in CallType /\ d.pc = "idle" /\ d.told = told /\ d.gap = c.gap /\ d.op = c.op
      /\ d.stopped = c.stopped /\ d.noted = c.noted /\ d.others = c.others /\ d.first = c.first
  BY DEF CallType, Pcs
<1> HIDE DEF d
<1>3. Good(d, server'[u]) /\ True(d, server'[u].opts)  BY <1>2 DEF Good, True
<1> QED BY <1>1, <1>2, <1>3, CallSets

\* A tool that goes on knows what its next request needs.
LEMMA ToolGoes ==
  ASSUME Inv, NEW u \in Callers, NEW c \in CallType, NEW pc \in Pcs \ {"idle"}, Goes(u, c, pc),
         \A v \in Users \ {u} : server'[v] = server[v],
         Good([c EXCEPT !.pc = pc], server'[u])
  PROVE  CallInv' /\ Truthful
<1> DEFINE d == [c EXCEPT !.pc = pc]
<1>1. call' = [call EXCEPT ![u] = d]  BY DEF Goes
<1>2. d \in CallType /\ d.pc = pc  BY DEF CallType
<1>3. Good(d, server'[u])  OBVIOUS
<1> HIDE DEF d
<1> QED BY <1>1, <1>2, <1>3, CallSets

-----------------------------------------------------------------------------
(* Steps of the Hub, the browser, the gate and the culler. *)

\* A step on one server that the calls note
LEMMA SeenKeeps ==
  ASSUME Inv, NEW u \in Users, NEW s \in ServerType, NEW q, NEW other \in BOOLEAN,
         Becomes(u, s), Seen(u, q, other), q.st = "none" <=> s.st = "none",
         culler' \in CullerType, gate' \in [Users -> GateType \cup {None}], UNCHANGED prom,
         \A w \in Users : gate'[w] # None => gate'[w] = gate[w],
         Has(s) => Has(server[u]), gate'[u] # None => s = server[u],
         \/ other
         \/ s.st = server[u].st /\ s.opts = server[u].opts
         \/ server[u].st = "stop" /\ s.st = "none"
         \/ server[u].st \in {"asked", "spawn"}
  PROVE  Inv' /\ Truthful
<1>1. HubInv  BY DEF Inv
<1>2. HubInv'  BY <1>1, ServerKeeps
<1>3. server' = [server EXCEPT ![u] = s]  BY DEF Becomes
<1>4. CallInv' /\ Truthful  BY <1>3, CallSeen
<1> QED BY <1>2, <1>4 DEF Inv

\* ... and one they need not note.
LEMMA UnseenKeeps ==
  ASSUME Inv, NEW u \in Users, NEW s \in ServerType, Becomes(u, s), UNCHANGED <<gate, prom, culler, call>>,
         Has(s) => Has(server[u]), gate[u] # None => s = server[u],
         \/ s.st = server[u].st /\ s.opts = server[u].opts
         \/ server[u].st \in {"asked", "spawn"} /\ s.st # "none"
  PROVE  Inv' /\ Truthful
<1>1. HubInv /\ HubType  BY DEF Inv, HubInv
<1>2. HubInv'  BY <1>1, ServerKeeps DEF HubType
<1>3. \A v \in Users : \/ server'[v].st = server[v].st /\ server'[v].opts = server[v].opts
                       \/ server[v].st \in {"asked", "spawn"} /\ server'[v].st # "none"
  BY <1>1 DEF Becomes, HubType
<1>4. CallInv' /\ Truthful  BY <1>3, CallSame
<1> QED BY <1>2, <1>4 DEF Inv

\* What a proof about a step of the Hub starts from.
LEMMA HubFacts ==
  ASSUME Inv, NEW u \in Users
  PROVE  /\ HubInv /\ HubType /\ server[u] \in ServerType
         /\ gate \in [Users -> GateType \cup {None}] /\ culler \in CullerType
         /\ gate[u] # None => server[u].st = "asked" /\ server[u].opts = "gpu"
BY DEF Inv, HubInv, HubType, Waits

\* The Hub's own steps.
LEMMA HubStepKeeps ==
  ASSUME Inv, NEW u \in Users,
         HubStops(u) \/ HubReady(u) \/ HubSpawnFails(u) \/ Activity(u) \/ GateNoGpu(u)
  PROVE  Inv' /\ Truthful
<1>0. /\ server[u] \in ServerType /\ gate \in [Users -> GateType \cup {None}]
      /\ culler \in CullerType
      /\ gate[u] # None => server[u].st = "asked" /\ server[u].opts = "gpu"
  BY HubFacts
<1>1. CASE HubStops(u) \/ HubSpawnFails(u)
  <2>1. /\ server[u].st \in {"stop", "spawn"} /\ Becomes(u, NoServer) /\ Seen(u, NoServer, FALSE)
        /\ UNCHANGED <<gate, prom, culler>>
    BY <1>1 DEF HubStops, HubSpawnFails
  <2> QED BY <1>0, <2>1, NoServerFacts, SeenKeeps
<1>2. CASE HubReady(u)
  <2> DEFINE s == [server[u] EXCEPT !.st = "ready"]
  <2>1. /\ server[u].st = "spawn" /\ Becomes(u, s) /\ Seen(u, server[u], FALSE)
        /\ UNCHANGED <<gate, prom, culler>>
    BY <1>2 DEF HubReady
  <2>2. s \in ServerType /\ s.st = "ready" /\ s.opts = server[u].opts /\ s.known = server[u].known
    BY <1>0 DEF ServerType, States
  <2> HIDE DEF s
  <2>3. Has(s) => Has(server[u])  BY <2>1, <2>2 DEF Has
  <2> QED BY <1>0, <2>1, <2>2, <2>3, SeenKeeps
<1>3. CASE Activity(u)
  <2> DEFINE s == [server[u] EXCEPT !.idle = 0]
  <2>1. server[u].st = "ready" /\ Becomes(u, s) /\ UNCHANGED <<gate, prom, culler, call>>
    BY <1>3 DEF Activity
  <2>2. s \in ServerType /\ s.st = server[u].st /\ s.opts = server[u].opts /\ s.known = server[u].known
    BY <1>0, Times DEF ServerType
  <2> HIDE DEF s
  <2>3. Has(s) => Has(server[u])  BY <2>1, <2>2 DEF Has
  <2> QED BY <1>0, <2>1, <2>2, <2>3, UnseenKeeps
<1>4. CASE GateNoGpu(u)
  <2> DEFINE s == [server[u] EXCEPT !.st = "spawn"]
  <2>1. /\ server[u].st = "asked" /\ server[u].opts = "cpu" /\ Becomes(u, s)
        /\ UNCHANGED <<gate, prom, culler, call>>
    BY <1>4 DEF GateNoGpu
  <2>2. s \in ServerType /\ s.st = "spawn" /\ s.opts = server[u].opts
    BY <1>0 DEF ServerType, States
  <2> HIDE DEF s
  <2>3. ~Has(s)  BY <2>1, <2>2 DEF Has
  <2> QED BY <1>0, <2>1, <2>2, <2>3, UnseenKeeps
<1> QED BY <1>1, <1>2, <1>3, <1>4

\* A DELETE by somebody other than the tool.
LEMMA StoppedKeeps ==
  ASSUME Inv, NEW u \in Users, NEW a \in StopAnswers(u), Becomes(u, Stopped(u, a)),
         Seen(u, Stopped(u, a), TRUE), culler' \in CullerType, UNCHANGED <<gate, prom>>
  PROVE  Inv' /\ Truthful
<1>1. HubInv /\ gate \in [Users -> GateType \cup {None}]  BY HubFacts
<1>2. /\ Stopped(u, a) \in ServerType /\ (Has(Stopped(u, a)) => Has(server[u]))
      /\ gate[u] # None => Stopped(u, a) = server[u]
  BY <1>1, StoppedFacts
<1> QED BY <1>1, <1>2, SeenKeeps

\* The browser starts or stops a session.
LEMMA BrowserKeeps ==
  ASSUME Inv, NEW u \in Users, Browser(u)
  PROVE  Inv' /\ Truthful
<1>0. HubInv /\ gate \in [Users -> GateType \cup {None}] /\ culler \in CullerType  BY HubFacts
<1>1. UNCHANGED <<gate, prom, culler>>  BY DEF Browser
<1>2. ASSUME NEW o \in Options, Becomes(u, Spawned(u, o)), Seen(u, Spawned(u, o), TRUE)
      PROVE  Inv' /\ Truthful
  <2>1. /\ Spawned(u, o) \in ServerType /\ (Has(Spawned(u, o)) => Has(server[u]))
        /\ gate[u] # None => Spawned(u, o) = server[u]
    BY <1>0, SpawnedFacts
  <2> QED BY <1>0, <1>1, <1>2, <2>1, SeenKeeps
<1> QED BY <1>0, <1>1, <1>2, StoppedKeeps DEF Browser

\* The hook.
LEMMA GateKeeps ==
  ASSUME Inv, NEW u \in Users, Gate(u)
  PROVE  Inv' /\ Truthful
<1>0. /\ HubInv /\ HubType /\ gate \in [Users -> GateType \cup {None}] /\ culler \in CullerType
      /\ gate[u] # None => server[u].st = "asked"
  BY HubFacts
<1>1. CASE GateNoGpu(u)  BY <1>1, HubStepKeeps
<1>2. CASE GateAsks(u)
  <2>1. UNCHANGED <<server, call>>  BY <1>2 DEF GateAsks
  <2>2. CallInv' /\ Truthful  BY <2>1, CallSame
  <2> QED BY <1>0, <1>2, <2>2, AsksKeeps DEF Inv
<1>3. CASE GateAdmits(u)
  <2>1. /\ UNCHANGED call /\ gate[u] # None
        /\ server' = [server EXCEPT ![u].st = "spawn", ![u].known = gate[u].known]
    BY <1>3 DEF GateAdmits
  <2>2. server'[u].st = "spawn" /\ \A v \in Users \ {u} : server'[v] = server[v]
    BY <1>0, <2>1 DEF HubType, ServerType
  <2>3. CallInv' /\ Truthful  BY <1>0, <2>1, <2>2, CallSame
  <2> QED BY <1>0, <1>3, <2>3, AdmitsKeeps DEF Inv
<1>4. CASE GateRefuses(u)
  <2>1. /\ gate[u] # None /\ gate' = [gate EXCEPT ![u] = None] /\ Becomes(u, NoServer)
        /\ Seen(u, NoServer, FALSE) /\ UNCHANGED <<prom, culler>>
    BY <1>4 DEF GateRefuses
  <2>2. /\ gate' \in [Users -> GateType \cup {None}] /\ gate'[u] = None
        /\ \A w \in Users : gate'[w] # None => gate'[w] = gate[w]
    BY <1>0, <2>1
  <2> QED BY <1>0, <2>1, <2>2, NoServerFacts, SeenKeeps
<1> QED BY <1>1, <1>2, <1>3, <1>4 DEF Gate

\* The culler, which deletes what it looked at earlier.
LEMMA CullKeeps ==
  ASSUME Inv, Cull
  PROVE  Inv' /\ Truthful
<1>0. HubInv /\ culler \in CullerType  BY DEF Inv, HubInv, HubType
<1>1. ASSUME UNCHANGED <<server, gate, grants, prom, call>>, culler' \in CullerType
      PROVE  Inv' /\ Truthful
  <2>1. HubInv'  BY <1>0, <1>1, HubSame
  <2>2. CallInv' /\ Truthful  BY <1>1, CallSame
  <2> QED BY <2>1, <2>2 DEF Inv
<1>2. CASE CullLists
  <2> DEFINE T == {u \in Holders : server[u].st # "spawn"}
  <2>1. T \in SUBSET Users  BY DEF Holders
  <2>2. /\ culler' = [culler EXCEPT !.pc = "pass", !.todo = T]
        /\ UNCHANGED <<server, gate, grants, prom, call>>
    BY <1>2 DEF CullLists
  <2> HIDE DEF T
  <2>3. culler' \in CullerType  BY <1>0, <2>1, <2>2 DEF CullerType
  <2> QED BY <1>1, <2>2, <2>3
<1>3. ASSUME NEW u \in Users, CullLooks(u) PROVE Inv' /\ Truthful
  <2> DEFINE x == IF Idle(u) THEN u ELSE None
             T == culler.todo \ {u}
  <2>1. x \in Users \cup {None} /\ T \in SUBSET Users  BY <1>0 DEF CullerType
  <2>2. /\ \/ culler' = [culler EXCEPT !.todo = T, !.stop = x]
           \/ culler' = [culler EXCEPT !.todo = T]
        /\ UNCHANGED <<server, gate, grants, prom, call>>
    BY <1>3 DEF CullLooks
  <2> HIDE DEF x, T
  <2>3. culler' \in CullerType  BY <1>0, <2>1, <2>2 DEF CullerType
  <2> QED BY <1>1, <2>2, <2>3
<1>4. CASE CullStops
  <2> DEFINE u == culler.stop
  <2>1. /\ u # None /\ culler' = [culler EXCEPT !.stop = None] /\ UNCHANGED <<gate, prom>>
        /\ \/ \E a \in StopAnswers(u) : Becomes(u, Stopped(u, a)) /\ Seen(u, Stopped(u, a), TRUE)
           \/ UNCHANGED <<server, grants, call>>
    BY <1>4 DEF CullStops
  <2>2. u \in Users /\ culler' \in CullerType  BY <1>0, <2>1 DEF CullerType
  <2> HIDE DEF u
  <2>3. CASE UNCHANGED <<server, grants, call>>  BY <1>1, <2>1, <2>2, <2>3
  <2>4. ASSUME NEW a \in StopAnswers(u), Becomes(u, Stopped(u, a)), Seen(u, Stopped(u, a), TRUE)
        PROVE  Inv' /\ Truthful
    BY <2>1, <2>2, <2>4, StoppedKeeps
  <2> QED BY <2>1, <2>3, <2>4
<1>5. CASE CullSleeps
  <2>1. /\ culler' = [culler EXCEPT !.pc = "sleep"] /\ UNCHANGED <<server, gate, grants, prom, call>>
    BY <1>5 DEF CullSleeps
  <2>2. culler' \in CullerType  BY <1>0, <2>1 DEF CullerType
  <2> QED BY <1>1, <2>1, <2>2
<1> QED BY <1>2, <1>3, <1>4, <1>5 DEF Cull

-----------------------------------------------------------------------------
(* Steps of the tools. *)

\* What a proof about a step of a tool starts from.
LEMMA ToolFacts ==
  ASSUME Inv, NEW u \in Callers
  PROVE  /\ u \in Users /\ HubInv /\ server[u] \in ServerType /\ server \in [Users -> ServerType]
         /\ gate \in [Users -> GateType \cup {None}] /\ culler \in CullerType
         /\ call[u] \in CallType /\ Good(call[u], server[u])
BY UsersAssumption DEF Inv, HubInv, HubType, CallInv

\* A tool that only reads the Hub.
LEMMA ReadsHub ==
  ASSUME Inv, UNCHANGED <<server, gate, grants, prom, culler>>, CallInv' /\ Truthful
  PROVE  Inv' /\ Truthful
<1>1. HubInv /\ culler \in CullerType  BY DEF Inv, HubInv, HubType
<1>2. HubInv'  BY <1>1, HubSame
<1> QED BY <1>2 DEF Inv

\* A call begins.
LEMMA CallsKeeps ==
  ASSUME Inv, NEW u \in Callers, NEW op \in Ops, NEW pc \in Pcs \ {"idle"},
         NEW o \in Options \cup {"keep"}, Calls(u, op, pc, o), op \in OpAt(pc),
         pc # "read" => o \in Options, pc = "read" => op = "restart"
  PROVE  Inv' /\ Truthful
<1>0. /\ u \in Users /\ HubInv /\ server[u] \in ServerType /\ call[u] \in CallType
  BY ToolFacts
<1> DEFINE f == IF server[u].st = "ready" /\ o = "keep" THEN server[u].opts ELSE "any"
           g == server[u].st = "none"
           c == [NoCall EXCEPT !.op = op, !.pc = pc, !.opts = o, !.first = f, !.gap = g]
<1>1. f \in Options \cup {"any"} /\ g \in BOOLEAN  BY <1>0 DEF ServerType
<1>2. f # "any" => server[u].st = "ready" /\ o = "keep" /\ f = server[u].opts  OBVIOUS
<1>3. server[u].st = "none" => g  OBVIOUS
<1>4. /\ call' = [call EXCEPT ![u] = c] /\ call[u].pc = "idle"
      /\ UNCHANGED <<server, gate, grants, prom, culler>>
  BY DEF Calls
<1> HIDE DEF f, g
<1>5. /\ c \in CallType /\ c.op = op /\ c.pc = pc /\ c.opts = o /\ c.first = f /\ c.gap = g
      /\ c.stopped = FALSE /\ c.others = FALSE
  BY ZenonT(60), <1>1 DEF NoCall, CallType, Options, Ops, Words
<1> HIDE DEF c
<1>6. c.first # "any" => Keeps(c, server[u])
  <2>1. "keep" \notin Options  BY DEF Options
  <2> QED BY <1>2, <1>5, <2>1 DEF Keeps
<1>7. Good(c, server[u])  BY <1>3, <1>5, <1>6 DEF Good
<1>8. CallInv' /\ Truthful  BY <1>4, <1>5, <1>7, CallSets
<1> QED BY <1>4, <1>8, ReadsHub

\* ... whichever tool it is of.
LEMMA CalledKeeps ==
  ASSUME Inv, NEW u \in Callers,
         StartCalled(u) \/ StopCalled(u) \/ StatusCalled(u) \/ WaitCalled(u) \/ RestartCalled(u)
  PROVE  Inv' /\ Truthful
<1> USE DEF Ops, Pcs, Options, OpAt
<1>1. CASE StartCalled(u)  BY <1>1, CallsKeeps DEF StartCalled
<1>2. CASE StopCalled(u)  BY <1>2, CallsKeeps DEF StopCalled
<1>3. CASE StatusCalled(u)  BY <1>3, CallsKeeps DEF StatusCalled
<1>4. CASE WaitCalled(u)  BY <1>4, CallsKeeps DEF WaitCalled
<1>5. CASE RestartCalled(u)  BY <1>5, CallsKeeps DEF RestartCalled
<1> QED BY <1>1, <1>2, <1>3, <1>4, <1>5

\* The choice of a profile.
LEMMA ChooseKeeps ==
  ASSUME Inv, NEW u \in Callers, Choose(u) \/ NamedProfile(u)
  PROVE  Inv' /\ Truthful
<1>0. /\ u \in Users /\ server[u] \in ServerType /\ call[u] \in CallType /\ Good(call[u], server[u])
  BY ToolFacts
<1>1. UNCHANGED <<server, gate, grants, prom, culler>>  BY DEF Choose, NamedProfile
<1>2. call[u].pc \in {"choose", "named"}  BY DEF Choose, NamedProfile
<1>3. /\ ~call[u].stopped /\ (server[u].st = "none" => call[u].gap) /\ call[u].opts \in Options
      /\ call[u].first = "any" \/ call[u].others
      /\ call[u].pc = "choose" => call[u].op = "start"
      /\ call[u].pc = "named" => call[u].op = "restart"
  BY <1>0, <1>2 DEF Good, Keeps, OpAt
<1>4. CASE Tells(u, call[u], "choices") \/ Tells(u, call[u], "failed")
  <2>1. CallInv' /\ Truthful  BY <1>0, <1>1, <1>3, <1>4, ToolTells DEF Words
  <2> QED BY <1>1, <2>1, ReadsHub
<1>5. CASE call[u].pc = "named" /\ Goes(u, call[u], "stop")
  <2>1. Good([call[u] EXCEPT !.pc = "stop"], server[u])
    BY <1>0, <1>3, <1>5 DEF Good, OpAt, CallType
  <2>2. CallInv' /\ Truthful  BY <1>0, <1>1, <1>5, <2>1, ToolGoes DEF Pcs
  <2> QED BY <1>1, <2>2, ReadsHub
<1>6. ASSUME NEW o \in Options, call[u].pc = "choose", Goes(u, [call[u] EXCEPT !.opts = o], "spawn")
      PROVE  Inv' /\ Truthful
  <2> DEFINE c == [call[u] EXCEPT !.opts = o]
  <2>1. c \in CallType  BY <1>0 DEF CallType
  <2>2. Good([c EXCEPT !.pc = "spawn"], server[u])
    BY <1>0, <1>3, <1>6 DEF Good, OpAt, CallType
  <2>3. CallInv' /\ Truthful  BY <1>0, <1>1, <1>6, <2>1, <2>2, ToolGoes DEF Pcs
  <2> QED BY <1>1, <2>3, ReadsHub
<1> QED BY <1>4, <1>5, <1>6 DEF Choose, NamedProfile

\* A restart reads the options of the session it restarts.
LEMMA ReadKeeps ==
  ASSUME Inv, NEW u \in Callers, NEW outcome \in Outcomes \ {"lost"}, ReadOptions(u, outcome)
  PROVE  Inv' /\ Truthful
<1>0. /\ u \in Users /\ server[u] \in ServerType /\ call[u] \in CallType /\ Good(call[u], server[u])
  BY ToolFacts
<1>1. UNCHANGED <<server, gate, grants, prom, culler>> /\ call[u].pc = "read"
  BY DEF ReadOptions
<1>2. /\ ~call[u].stopped /\ (server[u].st = "none" => call[u].gap) /\ call[u].op = "restart"
      /\ call[u].first # "any" /\ ~call[u].others =>
           call[u].opts = "keep" /\ server[u].opts = call[u].first /\ server[u].st = "ready"
  BY <1>0, <1>1 DEF Good, Keeps, OpAt
<1> DEFINE next == IF call[u].opts = "keep" THEN "stop" ELSE "named"
<1>3. ASSUME NEW prior \in Options, NEW noted \in BOOLEAN, NEW c,
             c = [WithOptions(u, prior) EXCEPT !.noted = noted],
             noted \/ prior = server[u].opts, Goes(u, c, next)
      PROVE  Inv' /\ Truthful
  <2> DEFINE o == IF call[u].opts = "keep" THEN prior ELSE call[u].opts
             d == [c EXCEPT !.pc = next]
  <2>1. o \in Options /\ (call[u].opts = "keep" => o = prior)  BY <1>0 DEF CallType
  <2>2. next \in Pcs \ {"idle"} /\ (call[u].opts = "keep" => next = "stop")
        /\ (call[u].opts # "keep" => next = "named")
    BY DEF Pcs
  <2>3. c = [[call[u] EXCEPT !.opts = o] EXCEPT !.noted = noted]  BY <1>3 DEF WithOptions
  <2> HIDE DEF o, next
  <2>4. c \in CallType  BY <1>0, <2>1, <2>3 DEF CallType
  <2>5. /\ d.pc = next /\ d.op = call[u].op /\ d.opts = o /\ d.noted = noted
        /\ d.stopped = call[u].stopped /\ d.first = call[u].first /\ d.others = call[u].others
        /\ d.gap = call[u].gap
    BY <1>0, <2>3 DEF CallType
  <2>6. d.first # "any" /\ ~d.others => Keeps(d, server[u])
    BY <1>2, <1>3, <2>1, <2>2, <2>5 DEF Keeps
  <2>7. d.op \in OpAt(d.pc)  BY <1>2, <2>2, <2>5 DEF OpAt
  <2>8. Good(d, server[u])  BY <1>2, <2>1, <2>5, <2>6, <2>7 DEF Good
  <2>9. CallInv' /\ Truthful  BY <1>0, <1>1, <1>3, <2>2, <2>4, <2>8, ToolGoes
  <2> QED BY <1>1, <2>9, ReadsHub
<1>4. CASE outcome = "ok"
  <2>1. Goes(u, WithOptions(u, server[u].opts), next)  BY <1>4 DEF ReadOptions
  <2> DEFINE c == WithOptions(u, server[u].opts)
  <2>2. server[u].opts \in Options /\ call[u].noted \in BOOLEAN  BY <1>0 DEF ServerType, CallType
  <2>3. c = [c EXCEPT !.noted = call[u].noted]  BY <1>0 DEF WithOptions, CallType
  <2> QED BY <1>3, <2>1, <2>2, <2>3
<1>5. CASE outcome = "down"
  <2>1. Goes(u, [WithOptions(u, "cpu") EXCEPT !.noted = TRUE], next)  BY <1>5 DEF ReadOptions
  <2>2. "cpu" \in Options  BY DEF Options
  <2> QED BY <1>3, <2>1, <2>2
<1>6. CASE outcome = "auth"
  <2>1. Tells(u, call[u], "failed")  BY <1>6 DEF ReadOptions
  <2>2. CallInv' /\ Truthful  BY <1>0, <1>1, <1>2, <2>1, ToolTells DEF Words
  <2> QED BY <1>1, <2>2, ReadsHub
<1> QED BY <1>4, <1>5, <1>6 DEF Outcomes

\* A status.
LEMMA StatusKeeps ==
  ASSUME Inv, NEW u \in Callers, NEW outcome \in Outcomes, GetStatus(u, outcome)
  PROVE  Inv' /\ Truthful
<1>0. /\ u \in Users /\ server[u] \in ServerType /\ call[u] \in CallType /\ Good(call[u], server[u])
  BY ToolFacts
<1> DEFINE told == IF outcome = "ok" THEN Listed(u) ELSE "failed"
<1>1. /\ UNCHANGED <<server, gate, grants, prom, culler>> /\ call[u].pc = "look"
      /\ Tells(u, call[u], told)
  BY DEF GetStatus
<1>2. (server[u].st = "none" => call[u].gap) /\ call[u].op = "status"
  BY <1>0, <1>1 DEF Good, OpAt
<1>3. told \in Words /\ told # "restarting" /\ (told = "nosession" => server[u].st = "none")
  BY <1>0 DEF Words, Listed, ServerType, States
<1> HIDE DEF told
<1>4. CallInv' /\ Truthful  BY <1>0, <1>1, <1>2, <1>3, ToolTells
<1> QED BY <1>1, <1>4, ReadsHub

\* A restart waits until the old session has gone.
LEMMA AwaitKeeps ==
  ASSUME Inv, NEW u \in Callers, NEW outcome \in Outcomes, AwaitStop(u, outcome)
  PROVE  Inv' /\ Truthful
<1>0. /\ u \in Users /\ server[u] \in ServerType /\ call[u] \in CallType /\ Good(call[u], server[u])
  BY ToolFacts
<1> DEFINE n == call[u].polls + 1
           c == [call[u] EXCEPT !.polls = n]
<1>1. /\ UNCHANGED <<server, gate, grants, prom, culler>> /\ call[u].pc = "await"
      /\ Tells(u, c, "stopped") \/ Goes(u, c, "spawn") \/ Goes(u, c, "await")
  BY DEF AwaitStop, Unfinished
<1>2. n \in Nat  BY <1>0 DEF CallType
<1> HIDE DEF n
<1>3. /\ c \in CallType /\ c.op = call[u].op /\ c.opts = call[u].opts /\ c.noted = call[u].noted
      /\ c.stopped = call[u].stopped /\ c.first = call[u].first /\ c.others = call[u].others
      /\ c.gap = call[u].gap /\ c.pc = "await"
  BY <1>0, <1>1, <1>2 DEF CallType
<1> HIDE DEF c
<1>4. CASE Tells(u, c, "stopped")
  <2>1. CallInv' /\ Truthful  BY <1>1, <1>3, <1>4, ToolTells DEF Words
  <2> QED BY <1>1, <2>1, ReadsHub
<1>5. ASSUME NEW pc \in {"spawn", "await"}, Goes(u, c, pc) PROVE Inv' /\ Truthful
  <2> DEFINE d == [c EXCEPT !.pc = pc]
  <2>1. /\ d.pc = pc /\ d.op = c.op /\ d.opts = c.opts /\ d.noted = c.noted
        /\ d.stopped = c.stopped /\ d.first = c.first /\ d.others = c.others /\ d.gap = c.gap
    BY <1>3 DEF CallType
  <2>2. d.first # "any" /\ ~d.others => Keeps(d, server[u])
    BY <1>0, <1>1, <1>3, <2>1 DEF Good, Keeps
  <2>3. Good(d, server[u])
    BY <1>0, <1>1, <1>3, <2>1, <2>2 DEF Good, OpAt
  <2>4. pc \in Pcs \ {"idle"}  BY DEF Pcs
  <2>5. CallInv' /\ Truthful  BY <1>1, <1>3, <1>5, <2>3, <2>4, ToolGoes
  <2> QED BY <1>1, <2>5, ReadsHub
<1> QED BY <1>1, <1>4, <1>5

\* A wait says that there is no session only after it saw none.
LEMMA PollKeeps ==
  ASSUME Inv, NEW u \in Callers, NEW outcome \in Outcomes, PollServer(u, outcome)
  PROVE  Inv' /\ Truthful
<1>0. /\ u \in Users /\ server[u] \in ServerType /\ call[u] \in CallType /\ Good(call[u], server[u])
  BY ToolFacts
<1> DEFINE n == call[u].polls + 1
           k == AbsentPolls(u, outcome)
           c == [call[u] EXCEPT !.polls = n, !.absent = k]
<1>1. UNCHANGED <<server, gate, grants, prom, culler>> /\ call[u].pc = "poll"
  BY DEF PollServer
<1>2. \/ Tells(u, c, "failed") \/ Tells(u, c, "ready") \/ Tells(u, c, "timeout")
      \/ Poll(u, outcome) = "nosession" /\ Tells(u, c, "nosession")
      \/ Goes(u, c, "poll")
  BY DEF PollServer
<1>3. n \in Nat /\ k \in Nat  BY <1>0 DEF CallType, AbsentPolls
<1> HIDE DEF n, k
<1>4. /\ c \in CallType /\ c.op = call[u].op /\ c.opts = call[u].opts /\ c.first = call[u].first
      /\ c.others = call[u].others /\ c.gap = call[u].gap /\ c.pc = "poll"
  BY <1>0, <1>1, <1>3 DEF CallType
<1>5. /\ c.op = "wait" /\ (server[u].st = "none" => c.gap) /\ c.opts \in Options
      /\ c.first = "any" \/ c.others
  BY <1>0, <1>1, <1>4 DEF Good, OpAt, Keeps
<1>6. Poll(u, outcome) = "nosession" => server[u].st = "none"
  BY <1>0 DEF Poll, Listed, Outcomes, ServerType, States
<1> HIDE DEF c
<1>7. ASSUME NEW told \in Words, Tells(u, c, told), told = "nosession" => c.gap, told # "restarting"
      PROVE  Inv' /\ Truthful
  <2>1. CallInv' /\ Truthful  BY <1>1, <1>4, <1>5, <1>7, ToolTells
  <2> QED BY <1>1, <2>1, ReadsHub
<1>8. CASE Goes(u, c, "poll")
  <2>1. Good([c EXCEPT !.pc = "poll"], server[u])
    BY <1>4, <1>5 DEF Good, OpAt, CallType
  <2>2. CallInv' /\ Truthful  BY <1>1, <1>4, <1>8, <2>1, ToolGoes DEF Pcs
  <2> QED BY <1>1, <2>2, ReadsHub
<1> QED BY <1>2, <1>5, <1>6, <1>7, <1>8 DEF Words

\* A stop, answered, refused, lost or its answer lost.
LEMMA DeleteKeeps ==
  ASSUME Inv, NEW u \in Callers, NEW outcome \in Outcomes, DeleteServer(u, outcome)
  PROVE  Inv' /\ Truthful
<1>0. /\ u \in Users /\ HubInv /\ server[u] \in ServerType /\ server \in [Users -> ServerType]
      /\ gate \in [Users -> GateType \cup {None}] /\ culler \in CullerType
      /\ call[u] \in CallType /\ Good(call[u], server[u])
  BY ToolFacts
<1>1. call[u].pc = "stop" /\ UNCHANGED <<gate, prom, culler>>  BY DEF DeleteServer
<1> DEFINE S(a) == IF outcome \in {"ok", "lost"} THEN Stopped(u, a) ELSE server[u]
           C(a) == [call[u] EXCEPT !.stopped = (outcome = "ok" /\ a # "norun"),
                                   !.gap = call[u].gap \/ S(a).st = "none",
                                   !.others = call[u].others \/ outcome = "lost"]
<1>2. PICK a \in StopAnswers(u) :
        /\ Becomes(u, S(a))
        /\ IF outcome # "ok" THEN Tells(u, C(a), "failed")
           ELSE IF C(a).op = "stop" THEN Tells(u, C(a), IF a = "norun" THEN "norun" ELSE "stopping")
           ELSE Goes(u, C(a), IF a = "stopping" THEN "await" ELSE "spawn")
  BY DEF DeleteServer
<1> DEFINE s == S(a)
           b == outcome = "ok" /\ a # "norun"
           g == call[u].gap \/ s.st = "none"
           o == call[u].others \/ outcome = "lost"
           c == [call[u] EXCEPT !.stopped = b, !.gap = g, !.others = o]
<1>3. /\ Stopped(u, a) \in ServerType /\ (Has(Stopped(u, a)) => Has(server[u]))
      /\ gate[u] # None => Stopped(u, a) = server[u]
      /\ a \in {"stopped", "stopping", "norun"}
      /\ a = "stopped" => server[u].st = "ready" /\ Stopped(u, a).st = "none"
      /\ a = "stopping" => server[u].st \in {"ready", "stop"} /\ Stopped(u, a).st = "stop"
      /\ a = "norun" => server[u].st \notin {"ready", "stop"}
  BY <1>0, StoppedFacts
<1>4. /\ s \in ServerType /\ (Has(s) => Has(server[u])) /\ (gate[u] # None => s = server[u])
      /\ outcome = "ok" => s = Stopped(u, a)
  BY <1>0, <1>3
<1>5. b \in BOOLEAN /\ g \in BOOLEAN /\ o \in BOOLEAN /\ (outcome # "ok" => b = FALSE)
  BY <1>0 DEF CallType
<1>6. (s.st = "none" => g) /\ (call[u].others => o)  OBVIOUS
<1>7. C(a) = c  OBVIOUS
<1>8. Becomes(u, s)  BY <1>2
<1> HIDE DEF S, C
<1>9. IF outcome # "ok" THEN Tells(u, c, "failed")
      ELSE IF c.op = "stop" THEN Tells(u, c, IF a = "norun" THEN "norun" ELSE "stopping")
      ELSE Goes(u, c, IF a = "stopping" THEN "await" ELSE "spawn")
  BY <1>2, <1>7
<1> HIDE DEF s, b, g, o
<1>10. /\ c \in CallType /\ c.op = call[u].op /\ c.opts = call[u].opts /\ c.noted = call[u].noted
       /\ c.stopped = b /\ c.first = call[u].first /\ c.others = o /\ c.gap = g /\ c.pc = "stop"
  BY <1>0, <1>1, <1>5 DEF CallType
<1> HIDE DEF c
<1>11. HubInv'  BY <1>0, <1>1, <1>4, <1>8, ServerKeeps
<1>12. server'[u] = s /\ \A v \in Users \ {u} : server'[v] = server[v]
  BY <1>0, <1>8 DEF Becomes
<1>13. CASE outcome # "ok"
  <2>1. CallInv' /\ Truthful
    BY <1>5, <1>9, <1>10, <1>12, <1>13, ToolTells DEF Words
  <2> QED BY <1>11, <2>1 DEF Inv
<1>14. CASE outcome = "ok" /\ c.op = "stop"
  <2>1. Tells(u, c, "norun") \/ Tells(u, c, "stopping")  BY <1>9, <1>14
  <2>2. CallInv' /\ Truthful  BY <1>10, <1>12, <1>14, <2>1, ToolTells DEF Words
  <2> QED BY <1>11, <2>2 DEF Inv
<1>15. CASE outcome = "ok" /\ c.op # "stop"
  <2> DEFINE pc == IF a = "stopping" THEN "await" ELSE "spawn"
             d == [c EXCEPT !.pc = pc]
  <2>1. Goes(u, c, pc)  BY <1>9, <1>15
  <2>2. pc \in {"await", "spawn"} /\ pc \in Pcs \ {"idle"}  BY DEF Pcs
  <2> HIDE DEF pc
  <2>3. /\ d.pc = pc /\ d.op = c.op /\ d.opts = c.opts /\ d.noted = c.noted
        /\ d.stopped = c.stopped /\ d.first = c.first /\ d.others = c.others /\ d.gap = c.gap
    BY <1>10 DEF CallType
  <2>4. d.op = "restart" /\ d.opts \in Options
    BY <1>0, <1>1, <1>10, <1>15, <2>3 DEF Good, OpAt
  <2>5. d.first # "any" /\ ~d.others => Keeps(d, s)
    <3> SUFFICES ASSUME d.first # "any", ~d.others PROVE Keeps(d, s)  OBVIOUS
    <3>1. Keeps(call[u], server[u])  BY <1>0, <1>1, <1>6, <1>10, <2>3 DEF Good
    <3>2. server[u].st = "ready" /\ (call[u].noted \/ call[u].opts = call[u].first)
      BY <1>1, <3>1 DEF Keeps
    <3>3. s.st \in {"stop", "none"}  BY <1>3, <1>4, <1>15, <3>2
    <3> QED BY <1>10, <2>2, <2>3, <2>4, <3>2, <3>3 DEF Keeps
  <2>6. Good(d, s)  BY <1>6, <1>10, <2>2, <2>3, <2>4, <2>5 DEF Good, OpAt
  <2> HIDE DEF d
  <2>7. CallInv' /\ Truthful  BY <1>10, <1>12, <2>1, <2>2, <2>6, ToolGoes DEF d
  <2> QED BY <1>11, <2>7 DEF Inv
<1> QED BY <1>13, <1>14, <1>15

\* A start, with the options that were read unless somebody else came between.
LEMMA PostKeeps ==
  ASSUME Inv, NEW u \in Callers, NEW outcome \in Outcomes, PostServer(u, outcome)
  PROVE  Inv' /\ Truthful
<1>0. /\ u \in Users /\ HubInv /\ server[u] \in ServerType /\ server \in [Users -> ServerType]
      /\ gate \in [Users -> GateType \cup {None}] /\ culler \in CullerType
      /\ call[u] \in CallType /\ Good(call[u], server[u])
  BY ToolFacts
<1>1. call[u].pc = "spawn" /\ UNCHANGED <<gate, prom, culler>>  BY DEF PostServer
<1>2. call[u].opts \in Options /\ call[u].op \in {"start", "restart"}
  BY <1>0, <1>1 DEF Good, OpAt
<1> DEFINE s == IF outcome \in {"ok", "lost"} THEN Spawned(u, call[u].opts) ELSE server[u]
           o == call[u].others \/ outcome = "lost"
           c == [call[u] EXCEPT !.others = o]
           told == IF outcome = "ok" THEN SpawnTold(c, SpawnAnswer(u))
                   ELSE IF c.op = "start" THEN "failed" ELSE "stopped"
<1>3. Becomes(u, s) /\ Tells(u, c, told)  BY DEF PostServer, Unfinished
<1>4. /\ Spawned(u, call[u].opts) \in ServerType
      /\ Has(Spawned(u, call[u].opts)) => Has(server[u])
      /\ gate[u] # None => Spawned(u, call[u].opts) = server[u]
      /\ server[u].st = "none" => Spawned(u, call[u].opts).opts = call[u].opts
  BY <1>0, <1>2, SpawnedFacts
<1>5. /\ s \in ServerType /\ (Has(s) => Has(server[u])) /\ (gate[u] # None => s = server[u])
      /\ outcome = "ok" /\ server[u].st = "none" => s.opts = call[u].opts
  BY <1>0, <1>4
<1>6. o \in BOOLEAN /\ (call[u].others => o)  BY <1>0 DEF CallType
<1> HIDE DEF s, o
<1>7. /\ c \in CallType /\ c.op = call[u].op /\ c.noted = call[u].noted
      /\ c.first = call[u].first /\ c.others = o
  BY <1>0, <1>6 DEF CallType
<1>8. /\ told \in Words /\ told # "nosession" /\ (told = "failed" => c.op = "start")
      /\ told = "restarting" => outcome = "ok" /\ server[u].st \in {"none", "asked", "spawn"}
  BY <1>2, <1>7 DEF Words, SpawnTold, SpawnAnswer, Unfinished
<1> HIDE DEF c, told
<1>9. HubInv'  BY <1>0, <1>1, <1>3, <1>5, ServerKeeps
<1>10. server'[u] = s /\ \A v \in Users \ {u} : server'[v] = server[v]
  BY <1>0, <1>3 DEF Becomes
<1>11. ASSUME told = "restarting", ~c.noted, ~c.others, c.first # "any"
       PROVE  c.first = s.opts
  <2>1. Keeps(call[u], server[u])  BY <1>0, <1>1, <1>6, <1>7, <1>11 DEF Good
  <2>2. server[u].st = "none" /\ call[u].opts = call[u].first
    BY <1>1, <1>7, <1>8, <1>11, <2>1 DEF Keeps
  <2> QED BY <1>5, <1>7, <1>8, <1>11, <2>2
<1>12. CallInv' /\ Truthful  BY <1>3, <1>7, <1>8, <1>10, <1>11, ToolTells
<1> QED BY <1>9, <1>12 DEF Inv

-----------------------------------------------------------------------------
(* The theorems. *)

\* The invariant holds at the start.
LEMMA InitInv == Init => Inv
<1> SUFFICES ASSUME Init PROVE Inv  OBVIOUS
<1>1. HubType
  <2>1. NoServer \in ServerType /\ TTL \in 0..TTL  BY NoServerFacts, Times
  <2> QED BY <2>1 DEF Init, HubType, CullerType
<1>2. \A u \in Users : server[u] = NoServer /\ gate[u] = None  BY DEF Init
<1>3. Waits /\ Fits  BY <1>2 DEF Waits, Fits
<1>4. InSight /\ Admitted = {}  BY <1>2, NoServerFacts DEF InSight, Admitted
<1>5. Room  BY <1>4, FS_EmptySet, Times DEF Room
<1>6. NoCall \in CallType /\ NoCall.pc = "idle"
  BY DEF NoCall, CallType, Pcs, Ops, Options, Words
<1>7. CallInv  BY <1>6 DEF Init, CallInv, Good
<1> QED BY <1>1, <1>3, <1>4, <1>5, <1>7 DEF Inv, HubInv

\* Every step keeps the invariant, and whoever tells something tells the truth.
LEMMA StepInv == Inv /\ [Next]_vars => Inv' /\ Truthful
<1> SUFFICES ASSUME Inv, [Next]_vars PROVE Inv' /\ Truthful  OBVIOUS
<1>1. ASSUME NEW u \in Users, \/ HubStops(u) \/ HubReady(u) \/ HubSpawnFails(u) \/ Activity(u)
                              \/ Browser(u) \/ Gate(u)
      PROVE  Inv' /\ Truthful
  BY <1>1, HubStepKeeps, BrowserKeeps, GateKeeps
<1>2. ASSUME NEW u \in Callers, \/ StartCalled(u) \/ StopCalled(u) \/ StatusCalled(u)
                                \/ WaitCalled(u) \/ RestartCalled(u)
      PROVE  Inv' /\ Truthful
  BY <1>2, CalledKeeps
<1>3. ASSUME NEW u \in Callers, ToolStep(u) PROVE Inv' /\ Truthful
  BY <1>3, ChooseKeeps, ReadKeeps, AwaitKeeps, PollKeeps, StatusKeeps, DeleteKeeps, PostKeeps
     DEF ToolStep
<1>4. CASE Cull  BY <1>4, CullKeeps
<1>5. CASE Tick
  <2>1. /\ HubInv' /\ UNCHANGED call
        /\ \A u \in Users : server'[u].st = server[u].st /\ server'[u].opts = server[u].opts
    BY <1>5, TickKeeps DEF Inv, Tick
  <2>2. CallInv' /\ Truthful  BY <2>1, CallSame
  <2> QED BY <2>1, <2>2 DEF Inv
<1>6. CASE UNCHANGED vars
  <2>1. UNCHANGED <<server, gate, grants, prom, culler, call>>  BY <1>6 DEF vars
  <2>2. CallInv' /\ Truthful  BY <2>1, CallSame
  <2> QED BY <2>1, <2>2, ReadsHub
<1> QED BY <1>1, <1>2, <1>3, <1>4, <1>5, <1>6 DEF Next

\* ... and so it always holds.
LEMMA InvHolds == Spec => []Inv
BY InitInv, StepInv, PTL DEF Spec

\* The sessions that refuse_gpu_spawn_if_unavailable admitted by what it knew never hold more
\* GPUs than there are, for any number of users and GPUs, although Prometheus shows a pod a
\* tick late, hooks wait at once and reservations expire.
THEOREM GpusSuffice == Spec => []NoOvercommit
<1>1. Inv => NoOvercommit
  <2> SUFFICES ASSUME Inv, Known PROVE Cardinality(Holders) <= Gpus  BY DEF NoOvercommit
  <2>1. Holders = Admitted  BY DEF Known, Holders, Admitted, Has
  <2> QED BY <2>1 DEF Inv, HubInv, Room
<1> QED BY <1>1, InvHolds, PTL

\* What the tools start_, stop_ and restart_af_session, wait_for_session and get_session_status
\* tell at the end of a call is so, whatever the Hub, the browser and the culler did meanwhile,
\* for any users.
THEOREM ToolsTellTrue == Spec => ToldTrue
<1>1. Inv /\ [Next]_vars =>
        [ \A u \in Callers : call[u].pc # "idle" /\ call'[u].pc = "idle" =>
            LET c == call'[u]
            IN /\ c.told = "nosession" => c.gap
               /\ c.op = "restart" /\ c.told = "failed" => ~c.stopped
               /\ c.told = "restarting" /\ ~c.noted /\ ~c.others
                    => c.first \in {"any", server'[u].opts} ]_vars
  BY StepInv DEF Truthful, True
<1> QED BY <1>1, InvHolds, PTL DEF Spec, ToldTrue
=============================================================================

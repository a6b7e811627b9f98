---------------------------- MODULE MCRayClusters ----------------------------
(***************************************************************************)
(* An instance of RayClusters for TLC.                                     *)
(***************************************************************************)
EXTENDS RayClusters

CONSTANTS u1, u2, a, b

\* Both clients are one user's, or each has a user of its own.
SameOrNot == {[c \in {a, b} |-> u1], [c \in {a, b} |-> IF c = a THEN u1 ELSE u2]}

TwoFlavors == <<"mig", "gpu">>
OneEach    == [r \in {"mig", "gpu"} |-> 1]

\* Two workers, and up to two, which any one GPU satisfies.
Two   == [from |-> 1, per |-> 1, workers |-> 2, least |-> 2]
UpTo2 == [from |-> 1, per |-> 1, workers |-> 2, least |-> 1]
TwoShapes == {Two, UpTo2}
ByClient  == [c \in {a, b} |-> IF c = a THEN TwoShapes ELSE {Two}]

SomeKinds == [c \in {a, b} |-> IF c = a THEN {"relay", "start", "ask"} ELSE {"relay", "stop", "force"}]

\* Prometheus sees every GPU held, one by a preemptible pod.
OneAnswer == {[known |-> TRUE,
   unheld |-> [r \in {"mig", "gpu"} |-> 0],
   preemptible |-> [r \in {"mig", "gpu"} |-> IF r = "gpu" THEN 1 ELSE 0]]}
=============================================================================

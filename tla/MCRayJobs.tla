------------------------------ MODULE MCRayJobs ------------------------------
(***************************************************************************)
(* An instance of RayJobs for TLC: two clients of one user, one shape.     *)
(***************************************************************************)
EXTENDS RayJobs

CONSTANTS c1, c2
CONSTANTS i1, i2

\* Both submit under one ID, and one of them under another.
TwoIds == [c \in {c1, c2} |-> IF c = c1 THEN {i1} ELSE {i1, i2}]
SameShape == [c \in {c1, c2} |-> "s"]
=============================================================================

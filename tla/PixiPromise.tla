----------------------------- MODULE PixiPromise -----------------------------
(***************************************************************************)
(* What pixi-global-sync promises of the shared environment, whatever it   *)
(* does to keep it: it claims that a revision is installed only while that *)
(* revision is whole in the environment, and works on the environment only *)
(* while nothing is claimed.  What others do to the environment, and two   *)
(* daemons at work at once, disturb it until the next sync.                *)
(***************************************************************************)
CONSTANTS Revs, Nothing

VARIABLES
  whole,      \* the revision whole in the environment, or Nothing
  claimed,    \* the revisions claimed to be installed
  disturbed

vars == <<whole, claimed, disturbed>>

Init ==
  /\ whole \in Revs \cup {Nothing}
  /\ claimed = {}
  /\ disturbed = FALSE

Claims ==
  /\ claimed' \subseteq claimed \cup (IF disturbed THEN Revs ELSE {whole})
  /\ UNCHANGED <<whole, disturbed>>

Works ==
  /\ claimed = {} \/ disturbed
  /\ whole' \in Revs \cup {Nothing} /\ claimed' \subseteq claimed
  /\ disturbed' \in BOOLEAN

Disturbs ==
  /\ disturbed' /\ whole' \in Revs \cup {Nothing}
  /\ claimed' \subseteq claimed

Next == Claims \/ Works \/ Disturbs

Spec == Init /\ [][Next]_vars
====

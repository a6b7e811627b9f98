---------------------------- MODULE MCLlmProxy ----------------------------
(* Instances of the proxy: clients a, b, c and models x, y. *)
EXTENDS LlmProxy

CONSTANTS a, b, c, x, y

\* Roles: all go to x, or prefer y, in which the longest prompts have no room.
BackendsTwo == [i \in Clients |-> <<y, x>>]
BackendsOne == [i \in Clients |-> <<x>>]

RankMixed == [i \in Clients |-> CASE i = a -> 2 [] i = b -> 1 [] OTHER -> 0]
RankFlat  == [i \in Clients |-> 0]

\* A session each, or none.
SessionEach == [i \in Clients |-> i]
SessionNone == [i \in Clients |-> None]

\* a's prompts are small, b's long, c's the longest that x has room for.
PromptMixed == [i \in Clients |-> [m \in Models |->
                  CASE i = a -> 1 [] i = b -> 3 [] OTHER -> 5]]
AskedNone == [i \in Clients |-> 0]
AskedSome == [i \in Clients |-> IF i = a THEN 1 ELSE 0]

FloorOne     == [m \in Models |-> 1]
CeilingTwo   == [m \in Models |-> 2]
ShareMixed   == [m \in Models |-> IF m = y THEN 6 ELSE 7]
BudgetMixed  == [m \in Models |-> 5]
SlotsStart   == [m \in Models |-> 2]
SlotsMost    == [m \in Models |-> 2]
SlotsOne     == [m \in Models |-> 1]
====

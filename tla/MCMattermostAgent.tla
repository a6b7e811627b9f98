-------------------------- MODULE MCMattermostAgent --------------------------
(* Two people: one links and unlinks in a direct message, one replies in the channel. *)
EXTENDS MattermostAgent

CONSTANTS a, b, hubA, hubB

MCHubOf == [u \in Users |-> IF u = a THEN hubA ELSE hubB]
W(u, c, kind) == [user |-> u, conv |-> c, kind |-> kind]
MCWrites == {W(a, a, "link"), W(a, a, "unlink"), W(a, a, "code"), W(b, Home, "reply")}
MCOrder == <<Home, a, b>>
====

---------------------------- MODULE MCHubSessions ----------------------------
(* Two users and one GPU: an agent acts for one of them, the other has a browser. *)
EXTENDS HubSessions
====

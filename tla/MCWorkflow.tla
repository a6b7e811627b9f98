----------------------------- MODULE MCWorkflow -----------------------------
(* Two runs, in workspaces of their own or one in that of the other. *)
EXTENDS Workflow
====

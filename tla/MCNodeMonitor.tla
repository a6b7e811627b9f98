---------------------------- MODULE MCNodeMonitor ----------------------------
(* Two mounts, one of them with throughput runs. *)
EXTENDS NodeMonitor
====

----------------------------- MODULE MCPixiSync -----------------------------
EXTENDS PixiSync
MCRetryWait == [n \in 1..2 |-> 60 * n]
====

--------------------------- MODULE MCDaskClusters ---------------------------
EXTENDS DaskClusters, TLC
CONSTANTS s1, s2, s3
\* Two scripts of one environment, and one of another.
MCProject == (s1 :> "p" @@ s2 :> "p" @@ s3 :> "q")
====

----------------------------- MODULE MCMetadataDb -----------------------------
(* Instances of MetadataDb for TLC.                                          *)
EXTENDS MetadataDb

CONSTANTS t1, t2, t3, c1, c2

ThreeThreads == {t1, t2, t3}
TwoConns     == {c1, c2}

\* Two sessions of the server, and a scheduler process.
Deployed == [t \in ThreeThreads |-> IF t = t3 THEN c2 ELSE c1]

===============================================================================

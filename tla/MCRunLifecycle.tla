--------------------------- MODULE MCRunLifecycle ---------------------------
(* Instances of RunLifecycle for TLC.                                       *)
EXTENDS RunLifecycle, TLC

CONSTANTS e1, e2, d1, d2, x1, s1, s2

OneExec == {e1}
TwoExecs == {e1, e2}
OneDeleter == {d1}
TwoDeleters == {d1, d2}
OneExporter == {x1}
Nobody == {}
TwoSections == {s1, s2}

(* The files of a run are written in any order, so the sections are alike;  *)
(* so are the executions.                                                   *)
Alike == Permutations(TwoSections) \cup Permutations(TwoExecs)

(* Sessions that delete do nothing that tells them apart.                    *)
AlikeAll == Permutations(TwoSections) \cup Permutations(TwoDeleters)

=============================================================================

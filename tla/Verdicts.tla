------------------------------ MODULE Verdicts ------------------------------
(***************************************************************************)
(* From row counts to PASS or FAIL.  Full data validation, record count    *)
(* and referential integrity each turn their counts into a percentage,     *)
(* round it to four decimals and judge the rounded figure, so the verdict  *)
(* can differ from what the counts say.                                    *)
(***************************************************************************)
EXTENDS Percentages

CONSTANTS
  RowCounts,  \* bound: numbers of rows a frame may have
  Failures,   \* bound: numbers of rows that may fail
  Tolerances  \* tolerances a request may ask for, in the same units

ASSUME BoundsAssumption ==
  RowCounts \subseteq Nat /\ Failures \subseteq Nat /\ Tolerances \subseteq Nat

-----------------------------------------------------------------------------
VARIABLES
  module,     \* the validation that runs
  rows,       \* rows compared, of the source, or with a key
  failed,     \* rows that failed, are missing or extra, or orphans
  tolerance,  \* tolerance_percent
  status      \* the status recorded

verdictVars == <<module, rows, failed, tolerance, status>>

VerdictTypeOK ==
  /\ module \in {"FULL_DATA", "RECORD_COUNT", "REFERENTIAL_INTEGRITY"}
  /\ rows \in RowCounts /\ failed \in Failures /\ tolerance \in Tolerances
  /\ status \in {"none", "PASS", "FAIL"}

(* A comparison and an integrity check have no more failures than rows; a   *)
(* target may hold any number more than its source.                         *)
VerdictInit ==
  /\ module \in {"FULL_DATA", "RECORD_COUNT", "REFERENTIAL_INTEGRITY"}
  /\ rows \in RowCounts
  /\ failed \in {f \in Failures : module = "RECORD_COUNT" \/ f <= rows}
  /\ tolerance \in IF module = "FULL_DATA" THEN {0} \cap Tolerances ELSE Tolerances
  /\ status = "none"

Record(passes) ==
  /\ status = "none"
  /\ status' = IF passes THEN "PASS" ELSE "FAIL"
  /\ UNCHANGED <<module, rows, failed, tolerance>>

FullData == module = "FULL_DATA" /\ Record(FullDataPasses(failed, rows))

(* tolerance_absolute at its default.                                       *)
RecordCount ==
  /\ module = "RECORD_COUNT"
  /\ Record(RecordCountPasses(rows, rows + failed, 0, tolerance))

ReferentialIntegrity ==
  /\ module = "REFERENTIAL_INTEGRITY"
  /\ Record(IntegrityPasses(failed, rows, tolerance))

VerdictNext == FullData \/ RecordCount \/ ReferentialIntegrity

VerdictSpec == VerdictInit /\ [][VerdictNext]_verdictVars

-----------------------------------------------------------------------------
(* Rounding decides within half a unit of the last decimal only: what passes*)
(* fails at a rate of at most the tolerance and half a unit, what fails at  *)
(* no less.  So "0.0 means any orphan fails" is kept below twice the scale  *)
(* of rows; from there on one failure in all of them may pass.  (A record   *)
(* count against an empty source is judged as a difference of 100%.)        *)
WithinHalfAUnit ==
  rows > 0 =>
    /\ status = "PASS" => 2 * failed * Scale <= (2 * tolerance + 1) * rows
    /\ status = "FAIL" => 2 * failed * Scale >= (2 * tolerance + 1) * rows

=============================================================================

----------------------------- MODULE Percentages -----------------------------
(***************************************************************************)
(* How the validations turn row counts into the percentages they judge:    *)
(* round(part / whole * 100, 4).                                           *)
(*                                                                         *)
(* Percentages and tolerances are integers in units of the last decimal    *)
(* kept: Scale, 100%, is 10^6 in the code.  The arithmetic is exact, where *)
(* the code divides doubles: the two agree except within a rounding error  *)
(* of an exact tie.                                                        *)
(***************************************************************************)
EXTENDS Integers

CONSTANT Scale   \* 100% in units of the last decimal kept

ASSUME ScaleAssumption == Scale \in Nat \ {0}

(* Mutant of Nearest: the figure is truncated.                              *)
Truncated(n, d) == n \div d

(* round(n / d): to the nearest integer, a tie to the even one.             *)
Nearest(n, d) ==
  LET q == n \div d
      r == n % d
  IN  IF 2 * r < d \/ (2 * r = d /\ q % 2 = 0) THEN q ELSE q + 1

Percentage(part, whole) == Nearest(part * Scale, whole)

(* round(matched / compared * 100, 4), 100 when there is nothing to         *)
(* compare; written from the failing rows, which rounds alike because 100%  *)
(* is an even number of units.                                              *)
SuccessPercentage(failed, compared) ==
  IF compared = 0 THEN Scale ELSE Scale - Percentage(failed, compared)

(* Full data validation passes at exactly 100.                              *)
FullDataPasses(failed, compared) == SuccessPercentage(failed, compared) = Scale

Abs(n) == IF n < 0 THEN -n ELSE n

VariancePercent(source, difference) ==
  IF source # 0 THEN Percentage(Abs(difference), source)
  ELSE IF difference = 0 THEN 0 ELSE Scale

(* Record count passes when either tolerance is met.                        *)
RecordCountPasses(source, target, absolute, tolerance) ==
  \/ Abs(target - source) <= absolute
  \/ VariancePercent(source, target - source) <= tolerance

OrphanPercent(orphans, checked) ==
  IF checked = 0 THEN 0 ELSE Percentage(orphans, checked)

(* Referential integrity passes when the rate is within tolerance.          *)
IntegrityPasses(orphans, checked, tolerance) ==
  OrphanPercent(orphans, checked) <= tolerance

==============================================================================

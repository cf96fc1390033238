---------------------------- MODULE Units_proofs -----------------------------
(***************************************************************************)
(* What holds of three parts of datarecon by themselves: a rounded         *)
(* percentage misleads a verdict by half of its last decimal at most, for  *)
(* every number of rows, failures and every scale; the gap between two     *)
(* readings of the clock of the scheduler is bounded by the interval and   *)
(* the longest tick, for every length of a minute and every interval; and  *)
(* a process that is up can use the database and the passwords, for every  *)
(* number of processes, keys and columns, if the first start is alone.     *)
(***************************************************************************)
EXTENDS Verdicts, TickLoop, Startup, TLAPS

-----------------------------------------------------------------------------
(* THE VERDICTS                                                             *)

(* A number is the divisor times the quotient, and the remainder.           *)
LEMMA Division ==
  ASSUME NEW n \in Nat, NEW d \in Nat \ {0}
  PROVE  /\ n \div d \in Nat /\ n % d \in 0..(d - 1)
         /\ n = d * (n \div d) + (n % d)
OBVIOUS

(* Nearest is within half of the quotient, on both sides.                   *)
LEMMA NearestWithinHalf ==
  ASSUME NEW n \in Nat, NEW d \in Nat \ {0}
  PROVE  /\ Nearest(n, d) \in Nat
         /\ 2 * n <= (2 * Nearest(n, d) + 1) * d
         /\ (2 * Nearest(n, d) - 1) * d <= 2 * n
<1> DEFINE q == n \div d
           r == n % d
<1>1. q \in Nat /\ r \in 0..(d - 1) /\ n = d * q + r
  BY Division
<1>2. Nearest(n, d) = IF 2 * r < d \/ (2 * r = d /\ q % 2 = 0) THEN q ELSE q + 1
  BY DEF Nearest
<1> HIDE DEF q, r
<1>3. d * q = q * d /\ q * d \in Nat
  BY <1>1
<1>4. (2 * q + 1) * d = 2 * (q * d) + d
  BY <1>1
<1>5. (2 * q - 1) * d = 2 * (q * d) - d
  BY <1>1
<1>6. (2 * (q + 1) + 1) * d = 2 * (q * d) + 3 * d
  BY <1>1
<1>7. (2 * (q + 1) - 1) * d = 2 * (q * d) + d
  BY <1>1
<1> DEFINE p == q * d
<1>8. p \in Nat /\ n = p + r /\ d \in Nat /\ r \in Nat /\ r <= d - 1
  BY <1>1, <1>3
<1> HIDE DEF p
<1>9. CASE 2 * r < d \/ (2 * r = d /\ q % 2 = 0)
  <2>1. Nearest(n, d) = q /\ 2 * r <= d
    BY <1>2, <1>8, <1>9
  <2>2. 2 * n <= 2 * p + d /\ 2 * p - d <= 2 * n
    BY <1>8, <2>1
  <2> QED BY <1>1, <1>4, <1>5, <2>1, <2>2 DEF p
<1>10. CASE ~(2 * r < d \/ (2 * r = d /\ q % 2 = 0))
  <2>1. Nearest(n, d) = q + 1 /\ 2 * r >= d
    BY <1>2, <1>8, <1>10
  <2>2. 2 * n <= 2 * p + 3 * d /\ 2 * p + d <= 2 * n
    BY <1>8, <2>1
  <2> QED BY <1>1, <1>6, <1>7, <2>1, <2>2 DEF p
<1> QED BY <1>9, <1>10

(* Fewer rows than twice the scale leave no failure without a trace.        *)
LEMMA VisibleBelowTwice ==
  ASSUME NEW f \in Nat, NEW d \in Nat \ {0}, d < 2 * Scale
  PROVE  Percentage(f, d) = 0 <=> f = 0
<1> USE ScaleAssumption
<1> DEFINE n == f * Scale
           p == Nearest(n, d)
<1>1. n \in Nat
  OBVIOUS
<1>2. p \in Nat /\ 2 * n <= (2 * p + 1) * d /\ (2 * p - 1) * d <= 2 * n
  BY <1>1, NearestWithinHalf
<1>3. Percentage(f, d) = p
  BY DEF Percentage
<1>4. ASSUME f = 0 PROVE p = 0
  <2>1. n = 0
    BY <1>4
  <2>2. (2 * p - 1) * d <= 0
    BY <1>2, <2>1
  <2> DEFINE k == 2 * p - 1
             m == k * d
  <2>3. m <= 0
    BY <2>2
  <2>4. CASE p > 0
    <3>1. k \in Nat \ {0}
      BY <1>2, <2>4
    <3> HIDE DEF k
    <3>2. m \in Nat \ {0}
      BY <3>1
    <3> QED BY <2>3, <3>2
  <2> QED BY <1>2, <2>4
<1>5. ASSUME p = 0 PROVE f = 0
  <2> HIDE DEF n, p
  <2>1. 2 * n <= d
    BY <1>2, <1>5
  <2>2. CASE f > 0
    <3>1. f * Scale >= Scale
      BY <2>2
    <3>2. n >= Scale
      BY <3>1 DEF n
    <3> QED BY <1>1, <2>1, <3>2
  <2> QED BY <2>2
<1> QED BY <1>3, <1>4, <1>5

(* From twice the scale on, one failing row in the whole comparison is      *)
(* rounded away: the bound above cannot be improved.                        *)
THEOREM OneFailureIsLost ==
  ASSUME NEW d \in Nat, d >= 2 * Scale
  PROVE  FullDataPasses(1, d) /\ IntegrityPasses(1, d, 0)
<1> USE ScaleAssumption
<1>1. d \in Nat \ {0} /\ Scale < d
  OBVIOUS
<1> DEFINE q == Scale \div d
           r == Scale % d
<1>2. q \in Nat /\ r \in 0..(d - 1) /\ Scale = d * q + r
  BY <1>1, Division
<1>3. q = 0
  <2> HIDE DEF q, r
  <2>1. CASE q >= 1
    <3>1. d * q >= d
      BY <1>1, <1>2, <2>1
    <3> DEFINE m == d * q
    <3>2. m \in Nat
      BY <1>1, <1>2
    <3>3. m >= d /\ Scale = m + r
      BY <1>2, <3>1
    <3> HIDE DEF m
    <3> QED BY <1>1, <1>2, <3>2, <3>3
  <2> QED BY <1>2, <2>1
<1>4. r = Scale
  <2> HIDE DEF q, r
  <2>1. d * q = 0
    BY <1>1, <1>3
  <2> QED BY <1>2, <2>1
<1>5. 1 * Scale = Scale
  OBVIOUS
<1>6. Percentage(1, d) = 0
  <2>1. Nearest(Scale, d) = IF 2 * r < d \/ (2 * r = d /\ q % 2 = 0) THEN q ELSE q + 1
    BY DEF Nearest
  <2>2. 2 * r <= d
    BY <1>4
  <2> HIDE DEF q, r
  <2>3. 0 % 2 = 0
    OBVIOUS
  <2>4. Nearest(Scale, d) = 0
    BY <1>1, <1>2, <1>3, <2>1, <2>2, <2>3
  <2> QED BY <1>5, <2>4 DEF Percentage
<1> QED BY <1>1, <1>6 DEF FullDataPasses, SuccessPercentage, IntegrityPasses, OrphanPercent

-----------------------------------------------------------------------------
(* A record count whose target holds f rows more than its source.           *)
LEMMA MoreRows ==
  ASSUME NEW s \in Nat, NEW f \in Nat
  PROVE  /\ s + f - s = f /\ Abs(f) = f
         /\ s = 0 => (VariancePercent(s, f) = 0 <=> f = 0)
BY ScaleAssumption DEF Abs, VariancePercent

(* The verdicts that stand are the ones the counts call for.                *)
Judged ==
  /\ VerdictTypeOK
  /\ status = "PASS" =>
       \/ module = "FULL_DATA" /\ tolerance = 0 /\ FullDataPasses(failed, rows)
       \/ module = "RECORD_COUNT"
          /\ RecordCountPasses(rows, rows + failed, 0, tolerance)
       \/ module = "REFERENTIAL_INTEGRITY"
          /\ IntegrityPasses(failed, rows, tolerance)
  /\ status = "FAIL" =>
       \/ module = "FULL_DATA" /\ ~FullDataPasses(failed, rows)
       \/ module = "RECORD_COUNT"
          /\ ~RecordCountPasses(rows, rows + failed, 0, tolerance)
       \/ module = "REFERENTIAL_INTEGRITY"
          /\ ~IntegrityPasses(failed, rows, tolerance)
  /\ module = "FULL_DATA" => tolerance = 0
  /\ module # "RECORD_COUNT" => failed <= rows

LEMMA AlwaysJudged == VerdictSpec => []Judged
<1>1. VerdictInit => Judged
  BY DEF VerdictInit, Judged, VerdictTypeOK
<1>2. Judged /\ [VerdictNext]_verdictVars => Judged'
  <2> SUFFICES ASSUME Judged, [VerdictNext]_verdictVars PROVE Judged'
    OBVIOUS
  <2>1. CASE FullData
    BY <2>1 DEF FullData, Record, Judged, VerdictTypeOK
  <2>2. CASE RecordCount
    BY <2>2 DEF RecordCount, Record, Judged, VerdictTypeOK
  <2>3. CASE ReferentialIntegrity
    BY <2>3 DEF ReferentialIntegrity, Record, Judged, VerdictTypeOK
  <2>4. CASE UNCHANGED verdictVars
    BY <2>4 DEF verdictVars, Judged, VerdictTypeOK
  <2> QED BY <2>1, <2>2, <2>3, <2>4 DEF VerdictNext
<1> QED BY <1>1, <1>2, PTL DEF VerdictSpec

(* What the requests promise of tolerance zero ("0.0 means any orphan       *)
(* fails"): one failing row is enough for a FAIL, and none is a PASS.       *)
AnyFailureFails ==
  tolerance = 0 => /\ status = "PASS" => failed = 0
                   /\ status = "FAIL" => failed # 0

(* The promise is kept as long as no comparison has twice the scale of rows *)
(* (2,000,000 at four decimals); OneFailureIsLost shows that it is broken   *)
(* at every number of rows from there on.                                   *)
THEOREM SmallComparisonsAreStrict ==
  ASSUME \A n \in RowCounts : n < 2 * Scale
  PROVE  VerdictSpec => []AnyFailureFails
<1>1. Judged => AnyFailureFails
  <2> SUFFICES ASSUME Judged, tolerance = 0
               PROVE  /\ status = "PASS" => failed = 0
                      /\ status = "FAIL" => failed # 0
    BY DEF AnyFailureFails
  <2> USE BoundsAssumption, ScaleAssumption
  <2>1. rows \in Nat /\ failed \in Nat /\ rows < 2 * Scale
    BY DEF Judged, VerdictTypeOK
  <2>2. rows # 0 => (Percentage(failed, rows) = 0 <=> failed = 0)
    BY <2>1, VisibleBelowTwice
  <2>3. rows # 0 => Percentage(failed, rows) \in Nat
    <3>1. failed * Scale \in Nat
      BY <2>1
    <3> QED BY <2>1, <3>1, NearestWithinHalf DEF Percentage
  <2>4. CASE module = "FULL_DATA"
    <3>1. FullDataPasses(failed, rows) <=> failed = 0
      BY <2>1, <2>2, <2>3, <2>4 DEF FullDataPasses, SuccessPercentage, Judged
    <3> QED BY <2>4, <3>1 DEF Judged
  <2>5. CASE module = "RECORD_COUNT"
    <3>1. rows + failed - rows = failed /\ Abs(failed) = failed
      BY <2>1, MoreRows
    <3>2. VariancePercent(rows, failed) \in Nat
          /\ (VariancePercent(rows, failed) = 0 <=> failed = 0)
      BY <2>1, <2>2, <2>3, <3>1, MoreRows DEF VariancePercent
    <3>3. RecordCountPasses(rows, rows + failed, 0, 0) <=> failed = 0
      BY <2>1, <3>1, <3>2 DEF RecordCountPasses
    <3> QED BY <2>5, <3>3 DEF Judged
  <2>6. CASE module = "REFERENTIAL_INTEGRITY"
    <3>1. IntegrityPasses(failed, rows, 0) <=> failed = 0
      BY <2>1, <2>2, <2>3, <2>6 DEF IntegrityPasses, OrphanPercent, Judged
    <3> QED BY <2>6, <3>1 DEF Judged
  <2> QED BY <2>4, <2>5, <2>6 DEF Judged, VerdictTypeOK
<1> QED BY <1>1, AlwaysJudged, PTL

-----------------------------------------------------------------------------
LEMMA TimesIsMonotone ==
  ASSUME NEW a \in Int, NEW b \in Int, NEW d \in Nat, a <= b
  PROVE  a * d <= b * d
<1>1. (b - a) * d >= 0
  <2> DEFINE c == b - a
  <2>1. c \in Nat
    OBVIOUS
  <2> HIDE DEF c
  <2>2. c * d \in Nat
    BY <2>1
  <2> QED BY <2>2 DEF c
<1>2. (b - a) * d = b * d - a * d
  OBVIOUS
<1>3. a * d \in Int /\ b * d \in Int
  OBVIOUS
<1> QED BY <1>1, <1>2, <1>3

(* What a rounded percentage says, compared with a tolerance, of the counts *)
(* it was made from.                                                        *)
LEMMA RoundedAgainstTolerance ==
  ASSUME NEW f \in Nat, NEW d \in Nat \ {0}, NEW t \in Nat
  PROVE  /\ Percentage(f, d) \in Nat
         /\ Percentage(f, d) <= t => 2 * f * Scale <= (2 * t + 1) * d
         /\ Percentage(f, d) > t  => 2 * f * Scale >= (2 * t + 1) * d
<1> USE ScaleAssumption
<1> DEFINE n == f * Scale
           p == Percentage(f, d)
<1>1. n \in Nat /\ 2 * f * Scale = 2 * n
  OBVIOUS
<1>2. p \in Nat /\ 2 * n <= (2 * p + 1) * d /\ (2 * p - 1) * d <= 2 * n
  BY <1>1, NearestWithinHalf DEF Percentage
<1> HIDE DEF n, p
<1>3. ASSUME p <= t PROVE 2 * n <= (2 * t + 1) * d
  <2>1. (2 * p + 1) * d <= (2 * t + 1) * d
    BY <1>2, <1>3, TimesIsMonotone
  <2>2. (2 * p + 1) * d \in Int /\ (2 * t + 1) * d \in Int
    BY <1>2
  <2> QED BY <1>1, <1>2, <2>1, <2>2
<1>4. ASSUME p > t PROVE 2 * n >= (2 * t + 1) * d
  <2>1. (2 * t + 1) * d <= (2 * p - 1) * d
    BY <1>2, <1>4, TimesIsMonotone
  <2>2. (2 * p - 1) * d \in Int /\ (2 * t + 1) * d \in Int
    BY <1>2
  <2> QED BY <1>1, <1>2, <2>1, <2>2
<1> QED BY <1>1, <1>2, <1>3, <1>4 DEF p

(* No verdict is off by more than half a unit of the last decimal, for      *)
(* every number of rows and every tolerance.                                *)
THEOREM VerdictsAreWithinHalfAUnit == VerdictSpec => []WithinHalfAUnit
<1>1. Judged => WithinHalfAUnit
  <2> SUFFICES ASSUME Judged, rows > 0
               PROVE  /\ status = "PASS" => 2 * failed * Scale <= (2 * tolerance + 1) * rows
                      /\ status = "FAIL" => 2 * failed * Scale >= (2 * tolerance + 1) * rows
    BY DEF WithinHalfAUnit
  <2>1. rows \in Nat \ {0} /\ failed \in Nat /\ tolerance \in Nat
    BY BoundsAssumption DEF Judged, VerdictTypeOK
  <2> DEFINE rate == Percentage(failed, rows)
  <2>2. /\ rate \in Nat
        /\ rate <= tolerance => 2 * failed * Scale <= (2 * tolerance + 1) * rows
        /\ rate > tolerance  => 2 * failed * Scale >= (2 * tolerance + 1) * rows
    BY <2>1, RoundedAgainstTolerance
  <2> HIDE DEF rate
  <2>3. CASE module = "FULL_DATA"
    <3>1. FullDataPasses(failed, rows) <=> rate = 0
      BY <2>1, <2>2, ScaleAssumption DEF FullDataPasses, SuccessPercentage, rate
    <3> QED BY <2>1, <2>2, <2>3, <3>1 DEF Judged
  <2>4. CASE module = "RECORD_COUNT"
    <3>1. rows + failed - rows = failed /\ Abs(failed) = failed
      BY <2>1, MoreRows
    <3>2. VariancePercent(rows, failed) = rate
      BY <2>1, <3>1 DEF VariancePercent, rate
    <3>3. RecordCountPasses(rows, rows + failed, 0, tolerance) <=> failed = 0 \/ rate <= tolerance
      BY <2>1, <3>1, <3>2 DEF RecordCountPasses
    <3>4. failed = 0 => rate <= tolerance
      <4>1. failed = 0 => 2 * failed * Scale = 0
        BY ScaleAssumption
      <4>2. failed = 0 => rate = 0
        <5>1. Nearest(0, rows) = 0
          <6>1. 0 \div rows = 0 /\ 0 % rows = 0
            BY <2>1
          <6> QED BY <2>1, <6>1 DEF Nearest
        <5>2. 0 * Scale = 0
          BY ScaleAssumption
        <5> QED BY <5>1, <5>2 DEF rate, Percentage
      <4> QED BY <2>1, <4>2
    <3> QED BY <2>1, <2>2, <2>4, <3>3, <3>4 DEF Judged
  <2>5. CASE module = "REFERENTIAL_INTEGRITY"
    <3>1. IntegrityPasses(failed, rows, tolerance) <=> rate <= tolerance
      BY <2>1, <2>2 DEF IntegrityPasses, OrphanPercent, rate
    <3> QED BY <2>1, <2>2, <2>5, <3>1 DEF Judged
  <2> QED BY <2>3, <2>4, <2>5 DEF Judged, VerdictTypeOK
<1> QED BY <1>1, AlwaysJudged, PTL

-----------------------------------------------------------------------------
(* THE CLOCK                                                                *)

(* The seconds since the last reading are the distance on the wall clock.   *)
AgeIsDistance ==
  Running =>
    age = (minute - lastRead.minute) * MinuteLen + second - lastRead.second

(* A tick has used at most MaxTick; what is left of a sleep is still to be  *)
(* added to the age, and the sum cannot exceed one tick and one interval.   *)
AgeBudget ==
  /\ pc = "ticking" => age <= MaxTick
  /\ pc = "sleeping" => age + left <= MaxTick + Interval
  /\ pc = "stopped" => age = 0 /\ left = 0

IInv == TypeOK /\ AgeIsDistance /\ AgeBudget

LEMMA InitIInv == Init => IInv
BY MinuteLenAssumption, IntervalAssumption, MaxTickAssumption
   DEF Init, IInv, TypeOK, Readings, AgeIsDistance, AgeBudget, Running

LEMMA OneMoreMinute ==
  ASSUME NEW d \in Int, NEW len \in Int
  PROVE  (d + 1) * len = d * len + len
OBVIOUS

(* One second of the clock is one second of age, across a minute boundary   *)
(* as well.                                                                 *)
LEMMA SecondKeepsDistance ==
  ASSUME TypeOK, AgeIsDistance, Second
  PROVE  AgeIsDistance'
<1> DEFINE d == minute - lastRead.minute
           dist == d * MinuteLen
<1> SUFFICES ASSUME Running
             PROVE  age' = (minute' - lastRead.minute) * MinuteLen
                             + second' - lastRead.second
  BY DEF AgeIsDistance, Running, Second
<1>0. /\ minute \in Nat /\ second \in Nat /\ age \in Nat
      /\ lastRead.minute \in Nat /\ lastRead.second \in Nat
      /\ MinuteLen \in Nat /\ second < MinuteLen
  BY MinuteLenAssumption DEF TypeOK, Readings
<1>1. age = dist + second - lastRead.second
  BY DEF AgeIsDistance
<1>2. age' = age + 1
  BY DEF Second, Running
<1>3. d \in Int /\ dist \in Int
  BY <1>0
<1>4. CASE second + 1 < MinuteLen
  <2>1. minute' = minute /\ second' = second + 1
    BY <1>4 DEF Second
  <2> DEFINE dist2 == (minute' - lastRead.minute) * MinuteLen
  <2>2. dist2 = dist
    BY <2>1
  <2> HIDE DEF dist, dist2, d
  <2>3. age' = dist2 + second' - lastRead.second
    BY <1>0, <1>1, <1>2, <1>3, <2>1, <2>2
  <2> QED BY <2>3 DEF dist2
<1>5. CASE ~(second + 1 < MinuteLen)
  <2>1. minute' = minute + 1 /\ second' = 0 /\ second + 1 = MinuteLen
    BY <1>0, <1>5 DEF Second
  <2>2. minute' - lastRead.minute = d + 1
    BY <1>0, <2>1
  <2>3. (minute' - lastRead.minute) * MinuteLen = dist + MinuteLen
    <3>1. (d + 1) * MinuteLen = d * MinuteLen + MinuteLen
      BY <1>0, <1>3, OneMoreMinute
    <3> QED BY <2>2, <3>1
  <2> HIDE DEF dist, d
  <2> QED BY <1>0, <1>1, <1>2, <1>3, <2>1, <2>3
<1> QED BY <1>4, <1>5

LEMMA NextIInv == IInv /\ [Next]_vars => IInv'
<1> SUFFICES ASSUME IInv, [Next]_vars PROVE IInv'
  OBVIOUS
<1> USE MinuteLenAssumption, IntervalAssumption, MaxTickAssumption DEF IInv
<1>1. CASE ReadClock
  BY <1>1 DEF ReadClock, TypeOK, Readings, AgeIsDistance, AgeBudget, Running
<1>2. CASE TickDone
  BY <1>2 DEF TickDone, TypeOK, Readings, AgeIsDistance, AgeBudget, Running
<1>3. CASE Stop
  BY <1>3 DEF Stop, TypeOK, Readings, AgeIsDistance, AgeBudget, Running
<1>4. CASE Start
  <2>1. age = 0 /\ left = 0
    BY <1>4 DEF Start, AgeBudget
  <2> QED BY <1>4 DEF Start, TypeOK, Readings, AgeIsDistance, AgeBudget, Running
<1>5. CASE Second
  <2>1. TypeOK'
    BY <1>5 DEF Second, TypeOK, Readings
  <2>2. AgeIsDistance'
    BY <1>5, SecondKeepsDistance
  <2>3. AgeBudget'
    BY <1>5 DEF Second, TypeOK, AgeBudget
  <2> QED BY <2>1, <2>2, <2>3
<1>6. CASE UNCHANGED vars
  BY <1>6 DEF vars, TypeOK, Readings, AgeIsDistance, AgeBudget, Running
<1> QED BY <1>1, <1>2, <1>3, <1>4, <1>5, <1>6 DEF Next

(* A gap of more than MaxGap minutes is a distance of more than MaxGap      *)
(* minutes' length, less the seconds of the last reading's own minute.      *)
LEMMA LongGapIsFar ==
  ASSUME NEW d \in Int, NEW k \in Nat, NEW len \in Nat, d >= k + 1
  PROVE  d * len >= k * len + len
<1>1. (k + 1) * len = k * len + len
  BY OneMoreMinute
<1>2. PICK e \in Nat : d = (k + 1) + e
  <2>1. d - (k + 1) \in Nat
    OBVIOUS
  <2> QED BY <2>1
<1>3. d * len = (k + 1) * len + e * len
  BY <1>2
<1>4. e * len \in Nat
  BY <1>2
<1> QED BY <1>1, <1>3, <1>4

LEMMA IInvGapBounded ==
  ASSUME Interval + MaxTick <= MaxGap * MinuteLen, IInv
  PROVE  GapBounded
<1> USE MinuteLenAssumption, IntervalAssumption, MaxTickAssumption,
        MaxGapAssumption
<1> DEFINE d == minute - lastRead.minute
           dist == d * MinuteLen
           room == MaxGap * MinuteLen
<1> SUFFICES ASSUME Running, d >= MaxGap + 1 PROVE FALSE
  BY DEF GapBounded, IInv, TypeOK, Readings
<1>0. /\ d \in Int /\ dist \in Int /\ room \in Int /\ second \in Nat
      /\ lastRead.second \in Nat /\ lastRead.second < MinuteLen
      /\ age \in Nat /\ left \in Nat
  BY DEF IInv, TypeOK, Readings
<1>1. dist >= room + MinuteLen
  BY <1>0, LongGapIsFar
<1>2. age = dist + second - lastRead.second
  BY DEF IInv, AgeIsDistance
<1>3. age <= MaxTick + Interval
  BY <1>0 DEF IInv, TypeOK, AgeBudget, Running
<1>4. MaxTick + Interval <= room
  OBVIOUS
<1> HIDE DEF dist, room, d
<1> QED BY <1>0, <1>1, <1>2, <1>3, <1>4

(* TypeOK holds of every behaviour of the loop.                             *)
THEOREM TypeCorrect == Spec => []TypeOK
<1>1. IInv => TypeOK
  BY DEF IInv
<1> QED BY InitIInv, NextIInv, <1>1, PTL DEF Spec

(* As long as one interval and one tick together fit in MaxGap minutes, two *)
(* consecutive clock readings of scheduler.py's loop are at most MaxGap     *)
(* minutes apart; with MaxGap = 1, no minute goes by without a tick.        *)
THEOREM GapIsBounded ==
  ASSUME Interval + MaxTick <= MaxGap * MinuteLen
  PROVE  Spec => []GapBounded
<1> QED BY InitIInv, NextIInv, IInvGapBounded, PTL DEF Spec

-----------------------------------------------------------------------------
(* THE START                                                                *)

States == [at : Steps, next : Nat, key : Keys \cup {Absent}]

StartupType ==
  /\ keyFile \in Keys \cup {Absent, Empty}
  /\ migrated \in 0 .. Added
  /\ proc \in [Processes -> States]
  /\ secrets \in SUBSET ({keyFile} \cap Keys)

(* A process never looks past the columns there are, so whatever it goes on *)
(* to after the migration, the columns are there.                           *)
ColumnsAreThere ==
  \A p \in Processes :
    /\ proc[p].at # "down" => proc[p].next <= migrated + 1
    /\ proc[p].at \notin {"down", "migrating"} => migrated = Added

(* What a process knows of the key file at each of its steps.              *)
KeyIsKnown ==
  \A p \in Processes :
    /\ proc[p].at = "reading" => keyFile # Absent
    /\ proc[p].at \in {"generated", "writing"} => proc[p].key \in Keys /\ keyFile \notin Keys
    /\ proc[p].at = "up" => keyFile \in Keys /\ proc[p].key = keyFile

(* Until there is a key, one process starts at a time.                     *)
FirstIsAlone ==
  keyFile \notin Keys => \A p, q \in Processes : Starting(p) /\ Starting(q) => p = q

StartInv == StartupType /\ ColumnsAreThere /\ KeyIsKnown /\ FirstIsAlone

LEMMA InitStartInv == StartupInit => StartInv
  BY AddedAssumption, KeysAssumption
  DEF StartupInit, StartInv, StartupType, ColumnsAreThere, KeyIsKnown, FirstIsAlone, Starting,
      Down, Steps, States

-----------------------------------------------------------------------------
(* What Goto does to the states.                                            *)
LEMMA Moved ==
  ASSUME StartupType, NEW p \in Processes, NEW s \in States, Goto(p, s)
  PROVE  /\ proc' \in [Processes -> States] /\ proc'[p] = s
         /\ \A q \in Processes : q # p => proc'[q] = proc[q]
  BY DEF Goto, StartupType

(* A process that has no column left to add finds them all.                 *)
LEMMA PastTheColumns ==
  ASSUME StartInv, NEW p \in Processes, proc[p].at = "migrating", proc[p].next > Added
  PROVE  migrated = Added
<1>1. proc[p].next \in Nat /\ migrated \in 0 .. Added
  BY DEF StartInv, StartupType, States
<1>2. proc[p].next <= migrated + 1
  BY DEF StartInv, ColumnsAreThere
<1>3. QED
  BY <1>1, <1>2, AddedAssumption

(* Every step moves one process from one state to another, and keeps the    *)
(* four parts of the invariant.                                             *)
LEMMA OpenDatabaseKeeps ==
  ASSUME FirstStartsAlone, StartInv, NEW p \in Processes, OpenDatabase(p)
  PROVE  StartInv'
<1> USE AddedAssumption, KeysAssumption DEF StartInv
<1> DEFINE s == [at |-> "migrating", next |-> migrated + 1, key |-> Absent]
<1>1. s \in States /\ s.at = "migrating" /\ s.next = migrated + 1
  BY DEF StartupType, States, Steps
<1>2. Goto(p, s) /\ UNCHANGED <<keyFile, migrated, secrets>>
  BY DEF OpenDatabase
<1> HIDE DEF s
<1>3. /\ proc' \in [Processes -> States] /\ proc'[p] = s
      /\ \A q \in Processes : q # p => proc'[q] = proc[q]
  BY <1>1, <1>2, Moved
<1>4. StartupType'
  BY <1>1, <1>2, <1>3 DEF StartupType, States, KeyIsKnown
<1>5. ColumnsAreThere'
  BY <1>1, <1>2, <1>3 DEF OpenDatabase, StartupType, States, ColumnsAreThere
<1>6. KeyIsKnown'
  BY <1>1, <1>2, <1>3 DEF OpenDatabase, StartupType, States, KeyIsKnown, FirstIsAlone, Starting
<1>7. FirstIsAlone'
  BY <1>1, <1>2, <1>3 DEF OpenDatabase, MayStart, StartupType, States, KeyIsKnown, FirstIsAlone,
    Starting
<1>8. QED
  BY <1>4, <1>5, <1>6, <1>7

LEMMA AddColumnKeeps ==
  ASSUME StartInv, NEW p \in Processes, AddColumn(p)
  PROVE  StartInv'
<1> USE AddedAssumption, KeysAssumption DEF StartInv
<1>1. CASE proc[p].next > migrated
  <2> DEFINE s == [proc[p] EXCEPT !.next = @ + 1]
  <2>1. s \in States /\ s.at = "migrating" /\ s.next = proc[p].next + 1
    BY <1>1 DEF AddColumn, StartupType, States, Steps
  <2>2. Goto(p, s) /\ migrated' = migrated + 1 /\ migrated' = proc[p].next /\ migrated' <= Added
             /\ UNCHANGED <<keyFile, secrets>>
    BY <1>1 DEF ColumnsAreThere, StartupType, States, AddColumn
  <2> HIDE DEF s
  <2>3. /\ proc' \in [Processes -> States] /\ proc'[p] = s
        /\ \A q \in Processes : q # p => proc'[q] = proc[q]
    BY <2>1, <2>2, Moved
  <2>4. StartupType'
    BY <1>1, <2>1, <2>2, <2>3 DEF StartupType, States, KeyIsKnown
  <2>5. ColumnsAreThere'
    BY <2>1, <2>2, <2>3 DEF AddColumn, StartupType, States, ColumnsAreThere
  <2>6. KeyIsKnown'
    BY <1>1, <2>1, <2>2, <2>3 DEF AddColumn, StartupType, States, KeyIsKnown, FirstIsAlone, Starting
  <2>7. FirstIsAlone'
    BY <1>1, <2>1, <2>2, <2>3 DEF AddColumn, StartupType, States, KeyIsKnown, FirstIsAlone,
      Starting
  <2>8. QED
    BY <2>4, <2>5, <2>6, <2>7
<1>2. CASE proc[p].next <= migrated
  <2> DEFINE s == Down
  <2>1. s \in States /\ s.at = "down"
    BY <1>2 DEF Down, StartupType, States, Steps
  <2>2. Goto(p, s) /\ UNCHANGED <<keyFile, migrated, secrets>>
    BY <1>2 DEF StartupType, States, AddColumn
  <2> HIDE DEF s
  <2>3. /\ proc' \in [Processes -> States] /\ proc'[p] = s
        /\ \A q \in Processes : q # p => proc'[q] = proc[q]
    BY <2>1, <2>2, Moved
  <2>4. StartupType'
    BY <1>2, <2>1, <2>2, <2>3 DEF StartupType, States, KeyIsKnown
  <2>5. ColumnsAreThere'
    BY <2>1, <2>2, <2>3 DEF AddColumn, StartupType, States, ColumnsAreThere
  <2>6. KeyIsKnown'
    BY <1>2, <2>1, <2>2, <2>3 DEF AddColumn, StartupType, States, KeyIsKnown, FirstIsAlone, Starting
  <2>7. FirstIsAlone'
    BY <1>2, <2>1, <2>2, <2>3 DEF AddColumn, StartupType, States, KeyIsKnown, FirstIsAlone,
      Starting
  <2>8. QED
    BY <2>4, <2>5, <2>6, <2>7
<1>3. QED
  BY <1>1, <1>2 DEF StartupType, States

LEMMA FindKeyFileKeeps ==
  ASSUME StartInv, NEW p \in Processes, FindKeyFile(p)
  PROVE  StartInv'
<1> USE AddedAssumption, KeysAssumption DEF StartInv
<1>1. CASE keyFile # Absent
  <2> DEFINE s == [proc[p] EXCEPT !.at = "reading"]
  <2>a. migrated = Added
    BY PastTheColumns DEF FindKeyFile
  <2>1. s \in States /\ s.at = "reading" /\ s.next = proc[p].next
    BY <1>1 DEF StartupType, States, Steps
  <2>2. Goto(p, s) /\ UNCHANGED <<keyFile, migrated, secrets>>
    BY <1>1 DEF FindKeyFile
  <2> HIDE DEF s
  <2>3. /\ proc' \in [Processes -> States] /\ proc'[p] = s
        /\ \A q \in Processes : q # p => proc'[q] = proc[q]
    BY <2>1, <2>2, Moved
  <2>4. StartupType'
    BY <1>1, <2>1, <2>2, <2>3 DEF StartupType, States, KeyIsKnown
  <2>5. ColumnsAreThere'
    BY <2>a, <2>1, <2>2, <2>3 DEF FindKeyFile, StartupType, States, ColumnsAreThere
  <2>6. KeyIsKnown'
    BY <1>1, <2>1, <2>2, <2>3 DEF FindKeyFile, StartupType, States, KeyIsKnown, FirstIsAlone, Starting
  <2>7. FirstIsAlone'
    BY <1>1, <2>1, <2>2, <2>3 DEF FindKeyFile, StartupType, States, KeyIsKnown, FirstIsAlone,
      Starting
  <2>8. QED
    BY <2>4, <2>5, <2>6, <2>7
<1>2. CASE keyFile = Absent
  <2>0. PICK k \in Keys : Goto(p, [proc[p] EXCEPT !.at = "generated", !.key = k])
    BY <1>2 DEF FindKeyFile
  <2> DEFINE s == [proc[p] EXCEPT !.at = "generated", !.key = k]
  <2>a. migrated = Added
    BY PastTheColumns DEF FindKeyFile
  <2>1. s \in States /\ s.at = "generated" /\ s.next = proc[p].next /\ s.key \in Keys
    BY <1>2 DEF StartupType, States, Steps
  <2>2. Goto(p, s) /\ UNCHANGED <<keyFile, migrated, secrets>>
    BY <1>2, <2>0 DEF FindKeyFile
  <2> HIDE DEF s
  <2>3. /\ proc' \in [Processes -> States] /\ proc'[p] = s
        /\ \A q \in Processes : q # p => proc'[q] = proc[q]
    BY <2>1, <2>2, Moved
  <2>4. StartupType'
    BY <1>2, <2>1, <2>2, <2>3 DEF StartupType, States, KeyIsKnown
  <2>5. ColumnsAreThere'
    BY <2>a, <2>1, <2>2, <2>3 DEF FindKeyFile, StartupType, States, ColumnsAreThere
  <2>6. KeyIsKnown'
    BY <1>2, <2>1, <2>2, <2>3 DEF FindKeyFile, StartupType, States, KeyIsKnown, FirstIsAlone, Starting
  <2>7. FirstIsAlone'
    BY <1>2, <2>1, <2>2, <2>3 DEF FindKeyFile, StartupType, States, KeyIsKnown, FirstIsAlone,
      Starting
  <2>8. QED
    BY <2>4, <2>5, <2>6, <2>7
<1>3. QED
  BY <1>1, <1>2 DEF FindKeyFile

LEMMA ReadKeyKeeps ==
  ASSUME StartInv, NEW p \in Processes, ReadKey(p)
  PROVE  StartInv'
<1> USE AddedAssumption, KeysAssumption DEF StartInv
<1>1. CASE keyFile = Empty
  <2> DEFINE s == Down
  <2>1. s \in States /\ s.at = "down"
    BY <1>1 DEF Down, StartupType, States, Steps
  <2>2. Goto(p, s) /\ UNCHANGED <<keyFile, migrated, secrets>>
    BY <1>1 DEF ReadKey
  <2> HIDE DEF s
  <2>3. /\ proc' \in [Processes -> States] /\ proc'[p] = s
        /\ \A q \in Processes : q # p => proc'[q] = proc[q]
    BY <2>1, <2>2, Moved
  <2>4. StartupType'
    BY <1>1, <2>1, <2>2, <2>3 DEF StartupType, States, KeyIsKnown
  <2>5. ColumnsAreThere'
    BY <2>1, <2>2, <2>3 DEF ReadKey, StartupType, States, ColumnsAreThere
  <2>6. KeyIsKnown'
    BY <1>1, <2>1, <2>2, <2>3 DEF ReadKey, StartupType, States, KeyIsKnown, FirstIsAlone, Starting
  <2>7. FirstIsAlone'
    BY <1>1, <2>1, <2>2, <2>3 DEF ReadKey, StartupType, States, KeyIsKnown, FirstIsAlone,
      Starting
  <2>8. QED
    BY <2>4, <2>5, <2>6, <2>7
<1>2. CASE keyFile # Empty
  <2> DEFINE s == [proc[p] EXCEPT !.at = "up", !.key = keyFile]
  <2>1. s \in States /\ s.at = "up" /\ s.next = proc[p].next /\ s.key = keyFile /\ keyFile \in Keys
    BY <1>2 DEF KeyIsKnown, ReadKey, StartupType, States, Steps
  <2>2. Goto(p, s) /\ UNCHANGED <<keyFile, migrated, secrets>>
    BY <1>2 DEF ReadKey
  <2> HIDE DEF s
  <2>3. /\ proc' \in [Processes -> States] /\ proc'[p] = s
        /\ \A q \in Processes : q # p => proc'[q] = proc[q]
    BY <2>1, <2>2, Moved
  <2>4. StartupType'
    BY <1>2, <2>1, <2>2, <2>3 DEF StartupType, States, KeyIsKnown
  <2>5. ColumnsAreThere'
    BY <2>1, <2>2, <2>3 DEF ReadKey, StartupType, States, ColumnsAreThere
  <2>6. KeyIsKnown'
    BY <1>2, <2>1, <2>2, <2>3 DEF ReadKey, StartupType, States, KeyIsKnown, FirstIsAlone, Starting
  <2>7. FirstIsAlone'
    BY <1>2, <2>1, <2>2, <2>3 DEF ReadKey, StartupType, States, KeyIsKnown, FirstIsAlone,
      Starting
  <2>8. QED
    BY <2>4, <2>5, <2>6, <2>7
<1>3. QED
  BY <1>1, <1>2 DEF ReadKey

LEMMA OpenKeyFileKeeps ==
  ASSUME StartInv, NEW p \in Processes, OpenKeyFile(p)
  PROVE  StartInv'
<1> USE AddedAssumption, KeysAssumption DEF StartInv
<1> DEFINE s == [proc[p] EXCEPT !.at = "writing"]
<1>1. s \in States /\ s.at = "writing" /\ s.next = proc[p].next /\ s.key = proc[p].key
  BY DEF StartupType, States, Steps
<1>2. Goto(p, s) /\ keyFile' = Empty /\ UNCHANGED <<migrated, secrets>>
  BY DEF OpenKeyFile
<1> HIDE DEF s
<1>3. /\ proc' \in [Processes -> States] /\ proc'[p] = s
      /\ \A q \in Processes : q # p => proc'[q] = proc[q]
  BY <1>1, <1>2, Moved
<1>4. StartupType'
  BY <1>1, <1>2, <1>3 DEF StartupType, States, KeyIsKnown, OpenKeyFile
<1>5. ColumnsAreThere'
  BY <1>1, <1>2, <1>3 DEF OpenKeyFile, StartupType, States, ColumnsAreThere
<1>6. KeyIsKnown'
  BY <1>1, <1>2, <1>3 DEF OpenKeyFile, StartupType, States, KeyIsKnown, FirstIsAlone, Starting
<1>7. FirstIsAlone'
  BY <1>1, <1>2, <1>3 DEF OpenKeyFile, StartupType, States, KeyIsKnown, FirstIsAlone,
    Starting
<1>8. QED
  BY <1>4, <1>5, <1>6, <1>7

LEMMA WriteKeyKeeps ==
  ASSUME StartInv, NEW p \in Processes, WriteKey(p)
  PROVE  StartInv'
<1> USE AddedAssumption, KeysAssumption DEF StartInv
<1> DEFINE s == [proc[p] EXCEPT !.at = "up"]
<1>1. s \in States /\ s.at = "up" /\ s.next = proc[p].next /\ s.key = proc[p].key
  BY DEF StartupType, States, Steps
<1>2. Goto(p, s) /\ keyFile' = proc[p].key /\ UNCHANGED <<migrated, secrets>>
  BY DEF WriteKey
<1> HIDE DEF s
<1>3. /\ proc' \in [Processes -> States] /\ proc'[p] = s
      /\ \A q \in Processes : q # p => proc'[q] = proc[q]
  BY <1>1, <1>2, Moved
<1>4. StartupType'
  BY <1>1, <1>2, <1>3 DEF StartupType, States, KeyIsKnown, WriteKey
<1>5. ColumnsAreThere'
  BY <1>1, <1>2, <1>3 DEF WriteKey, StartupType, States, ColumnsAreThere
<1>6. KeyIsKnown'
  BY <1>1, <1>2, <1>3 DEF WriteKey, StartupType, States, KeyIsKnown, FirstIsAlone, Starting
<1>7. FirstIsAlone'
  BY <1>1, <1>2, <1>3 DEF WriteKey, StartupType, States, KeyIsKnown, FirstIsAlone,
    Starting
<1>8. QED
  BY <1>4, <1>5, <1>6, <1>7

LEMMA KillKeeps ==
  ASSUME StartInv, NEW p \in Processes, Kill(p)
  PROVE  StartInv'
<1> USE AddedAssumption, KeysAssumption DEF StartInv
<1> DEFINE s == Down
<1>1. s \in States /\ s.at = "down"
  BY DEF Down, StartupType, States, Steps
<1>2. Goto(p, s) /\ UNCHANGED <<keyFile, migrated, secrets>>
  BY DEF Kill
<1> HIDE DEF s
<1>3. /\ proc' \in [Processes -> States] /\ proc'[p] = s
      /\ \A q \in Processes : q # p => proc'[q] = proc[q]
  BY <1>1, <1>2, Moved
<1>4. StartupType'
  BY <1>1, <1>2, <1>3 DEF StartupType, States, KeyIsKnown
<1>5. ColumnsAreThere'
  BY <1>1, <1>2, <1>3 DEF Kill, StartupType, States, ColumnsAreThere
<1>6. KeyIsKnown'
  BY <1>1, <1>2, <1>3 DEF Kill, StartupType, States, KeyIsKnown, FirstIsAlone, Starting
<1>7. FirstIsAlone'
  BY <1>1, <1>2, <1>3 DEF Kill, StartupType, States, KeyIsKnown, FirstIsAlone,
    Starting
<1>8. QED
  BY <1>4, <1>5, <1>6, <1>7

LEMMA EncryptKeeps ==
  ASSUME StartInv, NEW p \in Processes, Encrypt(p)
  PROVE  StartInv'
  BY DEF Encrypt, StartInv, StartupType, ColumnsAreThere, KeyIsKnown, FirstIsAlone, Starting

LEMMA StartInvIsInductive ==
  ASSUME FirstStartsAlone, StartInv, [StartupNext]_startup
  PROVE  StartInv'
<1>1. CASE StartupNext
  BY <1>1, OpenDatabaseKeeps, AddColumnKeeps, FindKeyFileKeeps, ReadKeyKeeps, OpenKeyFileKeeps,
     WriteKeyKeeps, EncryptKeeps, KillKeeps DEF StartupNext
<1>2. CASE UNCHANGED startup
  BY <1>2 DEF startup, StartInv, StartupType, ColumnsAreThere, KeyIsKnown, FirstIsAlone, Starting
<1>3. QED
  BY <1>1, <1>2

-----------------------------------------------------------------------------
(* A process that is up finds every column and decrypts every password,     *)
(* whatever was killed half way before.                                     *)
THEOREM StartedProcessesAreUsable ==
  ASSUME FirstStartsAlone
  PROVE  StartupSpec => []UpMeansUsable
<1>1. StartInv => UpMeansUsable
  BY DEF StartInv, StartupType, ColumnsAreThere, KeyIsKnown, UpMeansUsable
<1>2. StartInv /\ [StartupNext]_startup => StartInv'
  BY StartInvIsInductive
<1>3. QED
  BY InitStartInv, <1>1, <1>2, PTL DEF StartupSpec

=============================================================================

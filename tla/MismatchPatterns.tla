-------------------------- MODULE MismatchPatterns --------------------------
(***************************************************************************)
(* datarecon/core/mismatch_patterns.py: what the mismatched rows of a      *)
(* comparison have in common.                                              *)
(*                                                                         *)
(* Columns are numbered in the order of their names.  A mismatch frame     *)
(* gives, for each row, the columns that differ and the pair of values in  *)
(* every column.  Numbers and instants are in units of 1/One; a text is a  *)
(* word with so many of its last characters cut off, in either case, with  *)
(* or without a blank after it.  A ratio or a median is a fraction         *)
(* <<n, d>> with d > 0; what the code allows for the noise of doubles is   *)
(* allowed here, the noise itself is left out.                             *)
(***************************************************************************)
EXTENDS Integers, Sequences, FiniteSets, SequencesExt, FiniteSetsExt

CONSTANTS
  NULL,
  MinRows,    \* _MIN_ROWS_FOR_CLAIM
  One,        \* the number 1
  Fraction,   \* 10^4: a rounding error is at most this part of the largest value
  Rtol,       \* 10^9: _RTOL is one part of so many
  Atol,       \* 10^8: the absolute tolerance of np.allclose unless another is given
  Eps         \* 10^12: _IDENTITY_EPS is one part of so many

Abs(n) == IF n < 0 THEN -n ELSE n

HitRows(m, c) == {i \in DOMAIN m.rows : c \in m.rows[i].columns}

(* _aligned: of the rows that differ in c, those with a value on each side. *)
AlignedRows(m, c) ==
  {i \in HitRows(m, c) : NULL \notin ToSet(m.rows[i].cell[c])}

Strip(t) == [t EXCEPT !.padded = FALSE]
Lower(t) == [t EXCEPT !.upper = FALSE]

(* t is a proper prefix of s.                                               *)
Prefix(t, s) ==
  /\ t.word = s.word /\ t.upper = s.upper /\ ~t.padded
  /\ t.cut > s.cut \/ (t.cut = s.cut /\ s.padded)

(* The detectors, in the order _explain_column tries them.                  *)
Detectors == <<"null-on-source", "null-on-target", "whitespace-only", "case-only",
               "truncation", "sign-flip", "constant-ratio", "constant-offset",
               "rounding", "time-shift">>

(* Mutant of Detects: one row that fits is enough for a truncation or ratio.*)
DetectsSome(kind, m, c) ==
  LET rows == AlignedRows(m, c)
      a(i) == m.rows[i].cell[c][1]
      b(i) == m.rows[i].cell[c][2]
  IN  /\ Cardinality(rows) >= MinRows
      /\ IF m.kind[c] = "text" THEN kind = "truncation" /\ \E i \in rows : Prefix(b(i), a(i))
         ELSE kind = "constant-ratio" /\ \E i \in rows : b(i) = 2 * a(i)

(* np.median: the mean of the two in the middle, one and the same if the    *)
(* number of them is odd.                                                   *)
Less(x, y) == x[1] * y[2] < y[1] * x[2]

Ranked(value, p) ==
  value[CHOOSE i \in DOMAIN value :
          /\ Cardinality({k \in DOMAIN value : Less(value[k], value[i])}) < p
          /\ p <= Cardinality({k \in DOMAIN value : ~Less(value[i], value[k])})]

Mean(x, y) == <<x[1] * y[2] + y[1] * x[2], 2 * (x[2] * y[2])>>

Median(value) ==
  LET n == Cardinality(DOMAIN value)
  IN  Mean(Ranked(value, (n + 1) \div 2), Ranked(value, (n \div 2) + 1))

Ratio(a, b) == IF a < 0 THEN <<-b, -a>> ELSE <<b, a>>

Factor(rows, a, b) == Median([i \in rows |-> Ratio(a[i], b[i])])
Offset(rows, a, b) == Median([i \in rows |-> <<b[i] - a[i], One>>])

(* np.allclose(ratios, factor, rtol=_RTOL), for one of the ratios: its own  *)
(* absolute tolerance is added to the relative one.                         *)
NearFactor(f, r) ==
  Abs(r[1] * f[2] - f[1] * r[2]) * (Atol * Rtol) <= r[2] * (f[2] * Rtol + Abs(f[1]) * Atol)

SameRatio(rows, a, b) ==
  LET f == Factor(rows, a, b)
  IN  /\ \A i \in rows : a[i] # 0
      /\ Abs(f[1] - f[2]) * Eps >= f[2]
      /\ \A i \in rows : NearFactor(f, Ratio(a[i], b[i]))

(* np.allclose(diffs, offset, rtol=0, atol=scale * 1e-9).                   *)
SameOffset(rows, a, b) ==
  LET f == Offset(rows, a, b)
      scale == Max({Abs(f[1]) * One, f[2] * One} \cup {Abs(b[i] - a[i]) * f[2] : i \in rows})
  IN  /\ Abs(f[1]) * Eps >= f[2]
      /\ \A i \in rows : Abs((b[i] - a[i]) * f[2] - f[1] * One) * Rtol <= scale

SameShift(rows, a, b) ==
  /\ \A i, j \in rows : b[i] - a[i] = b[j] - a[j]
  /\ \E i \in rows : a[i] # b[i]

(* What each detector asks of the rows that differ in c.                    *)
Detects(kind, m, c) ==
  LET hit  == HitRows(m, c)
      rows == AlignedRows(m, c)
      many == Cardinality(rows) >= MinRows
      a == [i \in DOMAIN m.rows |-> m.rows[i].cell[c][1]]
      b == [i \in DOMAIN m.rows |-> m.rows[i].cell[c][2]]
      texts   == m.kind[c] = "text" /\ rows # {}
      numbers == m.kind[c] = "number" /\ many
      ratio   == SameRatio(rows, a, b)
      minus   == LET f == Factor(rows, a, b) IN Abs(f[1] + f[2]) * Rtol < f[2]
      largest   == Max({Abs(b[i] - a[i]) : i \in rows})
      magnitude == LET most == Max({Abs(a[i]) : i \in rows}) IN IF most = 0 THEN One ELSE most
  IN  CASE kind = "null-on-source"  -> (\A i \in hit : a[i] = NULL) /\ (\E i \in hit : b[i] # NULL)
        [] kind = "null-on-target"  -> (\A i \in hit : b[i] = NULL) /\ (\E i \in hit : a[i] # NULL)
        [] kind = "whitespace-only" -> texts /\ \A i \in rows : Strip(a[i]) = Strip(b[i])
        [] kind = "case-only"       -> texts /\ \A i \in rows : Lower(a[i]) = Lower(b[i])
        [] kind = "truncation"      -> texts /\ many /\ \A i \in rows : Prefix(b[i], a[i])
        [] kind = "sign-flip"       -> numbers /\ ratio /\ minus
        [] kind = "constant-ratio"  -> numbers /\ ratio
        [] kind = "constant-offset" -> numbers /\ SameOffset(rows, a, b)
        [] kind = "rounding"        -> /\ numbers /\ largest > 0 /\ 2 * largest <= One
                                       /\ largest * Fraction <= magnitude
        [] kind = "time-shift"      -> m.kind[c] = "time" /\ many /\ SameShift(rows, a, b)

(* What a headline gives: the factor, the offset or the shift of the column.*)
Figure(kind, m, c) ==
  LET rows == AlignedRows(m, c)
      a == [i \in DOMAIN m.rows |-> m.rows[i].cell[c][1]]
      b == [i \in DOMAIN m.rows |-> m.rows[i].cell[c][2]]
  IN  CASE kind \in {"sign-flip", "constant-ratio"} -> Factor(rows, a, b)
        [] kind = "constant-offset" -> Offset(rows, a, b)
        [] kind = "time-shift" -> LET i == CHOOSE j \in rows : TRUE IN <<b[i] - a[i], One>>
        [] OTHER -> <<>>

(* _explain_column: the first detector that fires, if any.  Every row that  *)
(* differs is counted, those with a NULL too.                               *)
Explanations(m, c) ==
  {[kind |-> Detectors[d], column |-> c, rows |-> Cardinality(HitRows(m, c)),
    figure |-> Figure(Detectors[d], m, c)] :
     d \in {e \in DOMAIN Detectors :
              /\ Detects(Detectors[e], m, c)
              /\ \A f \in 1 .. e - 1 : ~Detects(Detectors[f], m, c)}}

(* _concentration_pattern: of the columns hit most, any may come first.     *)
Concentrations(m) ==
  LET hit   == {c \in DOMAIN m.kind : HitRows(m, c) # {}}
      n(c)  == Cardinality(HitRows(m, c))
      first == CHOOSE c \in hit : \A d \in hit : n(d) <= n(c)
  IN  IF hit = {} \/ (Cardinality(hit) > 1 /\ 2 * n(first) < Len(m.rows)) THEN {}
      ELSE {[kind |-> "column-concentration", column |-> first, rows |-> n(first)]}

(* By coverage; then what happened before where; then by name.              *)
Before(p, q) ==
  LET vague(x) == x.kind = "column-concentration"
  IN  \/ p.rows > q.rows
      \/ p.rows = q.rows /\ ~vague(p) /\ vague(q)
      \/ p.rows = q.rows /\ vague(p) = vague(q) /\ p.column < q.column

InOrder(patterns) ==
  CHOOSE s \in [1 .. Cardinality(patterns) -> patterns] :
    \A i, j \in DOMAIN s : i < j => Before(s[i], s[j])

(* analyse_mismatches.                                                      *)
Analyse(m) ==
  InOrder(Concentrations(m)
            \cup UNION {Explanations(m, c) : c \in {d \in DOMAIN m.kind : HitRows(m, d) # {}}})

(* analyse_row_set, for one numeric key: only the first key is looked at    *)
(* for being whole.                                                         *)
FormBlock(keys) ==
  LET whole(v) == IF v < 0 THEN -((-v) \div One) ELSE v \div One
      all == ToSet(keys)
  IN  /\ Len(keys) >= MinRows /\ NULL \notin all
      /\ keys[1] % One = 0
      /\ Cardinality(all) = Len(keys)
      /\ whole(Max(all)) - whole(Min(all)) + 1 = Len(keys)

-----------------------------------------------------------------------------
(* What a headline says of one row, figure being what it gives; "exactly"   *)
(* is as near as np.allclose makes it.                                      *)
IsTimes(figure, a, b) ==
  Abs(b * figure[2] - figure[1] * a) * (Atol * Rtol)
    <= Abs(a) * (figure[2] * Rtol + Abs(figure[1]) * Atol)

Opposite(a, b) == (a < 0 /\ b > 0) \/ (a > 0 /\ b < 0)

Says(kind, figure, a, b) ==
  CASE kind = "null-on-source"  -> a = NULL
    [] kind = "null-on-target"  -> b = NULL
    [] kind = "whitespace-only" -> a # b /\ [a EXCEPT !.padded = b.padded] = b
    [] kind = "case-only"       -> a # b /\ [a EXCEPT !.upper = b.upper] = b
    [] kind = "truncation"      -> a # b /\ b.word = a.word /\ b.cut >= a.cut
    [] kind = "sign-flip"       -> Opposite(a, b) /\ IsTimes(figure, a, b)
    [] kind = "constant-ratio"  -> a # 0 /\ IsTimes(figure, a, b)
    [] kind = "constant-offset" ->
         Abs((b - a) * figure[2] - figure[1] * One) * Rtol
           <= 2 * Max({Abs(figure[1]) * One, figure[2] * One})
    [] kind = "time-shift"      -> b - a = figure[1] /\ figure[2] = One
    [] kind = "rounding"        -> 2 * Abs(a - b) <= One

=============================================================================

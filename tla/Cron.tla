-------------------------------- MODULE Cron --------------------------------
(***************************************************************************)
(* datarecon/core/cron.py: parsing a cron expression, matching a minute    *)
(* against it, and listing the next firing times.                          *)
(*                                                                         *)
(* The text of an expression is given as split at its blanks, commas,      *)
(* slashes and hyphens: a field is a set of pieces, a piece what stands    *)
(* before the slash (from, or from-to) and the step after it.  Minutes are *)
(* numbered; At says what the calendar calls each.                         *)
(***************************************************************************)
EXTENDS Integers, Sequences, FiniteSets, SequencesExt

CONSTANTS
  Low, High,     \* _FIELDS: the ends of each field's range
  Names,         \* _MONTH_NAMES, _DAY_NAMES: values by name, for each field
  Presets,       \* _PRESETS: expressions by name
  Star, Blank,   \* the texts "*" and ""
  None,          \* no upper end, no step
  At,            \* of each minute: minute, hour, dom, month and weekday()
  Lookahead      \* _MAX_LOOKAHEAD_MINUTES

Fields == {"minute", "hour", "dom", "month", "dow"}

ASSUME CronAssumption ==
  /\ Low \in [Fields -> Nat] /\ High \in [Fields -> Nat]
  /\ \A f \in Fields : Low[f] <= High[f]
  /\ Low["dow"] = 0
  /\ \A f \in Fields : \A n \in DOMAIN Names[f] : Names[f][n] \in Low[f] .. High[f]
  /\ \A t \in DOMAIN At : /\ At[t].weekday \in Low["dow"] .. High["dow"]
                          /\ \A f \in Fields \ {"dow"} : At[t][f] \in Low[f] .. High[f]
  /\ Lookahead \in Nat

(* _to_value, _to_int: the value a text stands for, none if it raises.  The *)
(* day after the last is the first day of the week.                         *)
ValueOf(f, text) ==
  IF text \in DOMAIN Names[f] THEN {Names[f][text]}
  ELSE {v \in Low[f] .. High[f] :
          \/ v = text
          \/ f = "dow" /\ text = High[f] + 1 /\ v = Low[f]}

From(f, p) == IF p.from \in {Star, Blank} THEN {Low[f]} ELSE ValueOf(f, p.from)

To(f, p) == IF p.from \in {Star, Blank} THEN {High[f]}
            ELSE IF p.to = None THEN From(f, p) ELSE ValueOf(f, p.to)

PieceRaises(f, p) ==
  \/ p.from = Blank /\ p.step = None
  \/ p.from \in {Star, Blank} /\ p.to # None
  \/ p.step # None /\ p.step \notin Nat \ {0}
  \/ From(f, p) = {} \/ To(f, p) = {}
  \/ \E a \in From(f, p), b \in To(f, p) : a > b

(* set(range(start, end + 1, step)).                                        *)
PieceValues(f, p) ==
  {v \in Low[f] .. High[f] :
     \E a \in From(f, p), b \in To(f, p) :
       /\ a <= v /\ v <= b
       /\ (v - a) % (IF p.step = None THEN 1 ELSE p.step) = 0}

(* An expression by the name of its preset, or as it is.                    *)
Expanded(e) == IF e \in DOMAIN Presets THEN Presets[e] ELSE e

ParseRaises(e) ==
  \/ DOMAIN Expanded(e) # Fields
  \/ \E f \in Fields : \E p \in Expanded(e)[f] : PieceRaises(f, p)

Wildcard == [from |-> Star, to |-> None, step |-> None]

Parse(e) ==
  [values  |-> [f \in Fields |->
                  UNION {PieceValues(f, p) : p \in Expanded(e)[f]}],
   daysAreOr |-> \A f \in {"dom", "dow"} : Expanded(e)[f] # {Wildcard}]

(* Mutant of DayOfWeek: Monday is the first day.                            *)
DayOfWeekIsWeekday(w) == w.weekday

(* Python's weekday() begins the week on Monday, cron on Sunday.            *)
DayOfWeek(w) == (w.weekday + 1) % (High["dow"] + 1)

Matches(s, w) ==
  LET ok(f) == (IF f = "dow" THEN DayOfWeek(w) ELSE w[f]) \in s.values[f]
  IN  /\ ok("minute") /\ ok("hour") /\ ok("month")
      /\ IF s.daysAreOr THEN ok("dom") \/ ok("dow") ELSE ok("dom") /\ ok("dow")

(* One minute after the other, until count of them have matched.            *)
NextRuns(s, after, count) ==
  LET found[i \in 0 .. Lookahead] ==
        IF i = 0 THEN <<>>
        ELSE LET soFar == found[i - 1]
             IN  IF Len(soFar) < count /\ Matches(s, At[after + i])
                   THEN Append(soFar, after + i) ELSE soFar
  IN  found[Lookahead]

-----------------------------------------------------------------------------
(* What an expression means, as cron's manual says it: a value from a list, *)
(* every nth of a range, Sunday both at the beginning and at the end of the *)
(* week, and the two day fields together if one of them is a wildcard.      *)
Stands(f, text) ==
  CHOOSE w \in Low[f] .. High[f] + 1 :
    IF text \in DOMAIN Names[f] THEN w = Names[f][text] ELSE w = text

InPiece(f, p, v) ==
  LET step == IF p.step = None THEN 1 ELSE p.step
  IN  \/ p.from \in {Star, Blank} /\ (v - Low[f]) % step = 0
      \/ /\ p.from \notin {Star, Blank}
         /\ Stands(f, p.from) <= v
         /\ v <= Stands(f, IF p.to = None THEN p.from ELSE p.to)
         /\ (v - Stands(f, p.from)) % step = 0

Admits(f, p, v) ==
  \/ InPiece(f, p, v)
  \/ /\ f = "dow" /\ v = Low[f] /\ p.from \notin {Star, Blank}
     /\ InPiece(f, p, High[f] + 1)

MeantToFire(e, w) ==
  LET sunday  == w.weekday = High["dow"]
      is(f)   == IF f # "dow" THEN w[f] ELSE IF sunday THEN 0 ELSE w.weekday + 1
      day(f)  == \E p \in Expanded(e)[f] : Admits(f, p, is(f))
      free(f) == Expanded(e)[f] = {Wildcard}
  IN  /\ \A f \in {"minute", "hour", "month"} : day(f)
      /\ \/ free("dom") /\ day("dow")
         \/ free("dow") /\ day("dom")
         \/ ~free("dom") /\ ~free("dow") /\ (day("dom") \/ day("dow"))

(* A range of weekdays with the second Sunday at either end: the one        *)
(* expression the code reads otherwise.                                     *)
RangesOverSecondSunday(e) ==
  \E p \in Expanded(e)["dow"] : p.to # None /\ High["dow"] + 1 \in {p.from, p.to}

=============================================================================

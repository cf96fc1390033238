--------------------------- MODULE Analyses_proofs ---------------------------
(***************************************************************************)
(* Theorems about the analyses, with the lemmas they rest on.              *)
(***************************************************************************)
EXTENDS Analyses, Reports_proofs

-----------------------------------------------------------------------------
(* The cron preview.                                                        *)

(* What the manual takes a text for and what the code does agree: on one    *)
(* value of the field, or on both Sundays.                                  *)
LEMMA ValueIsMeant ==
  ASSUME NEW f \in Fields, NEW text, ValueOf(f, text) # {}
  PROVE  \/ ValueOf(f, text) = {Stands(f, text)} /\ Stands(f, text) \in Low[f] .. High[f]
         \/ /\ f = "dow" /\ text = High[f] + 1
            /\ Stands(f, text) = High[f] + 1 /\ ValueOf(f, text) = {Low[f]}
<1> USE CronAssumption
<1> DEFINE value == Stands(f, text)
<1>0. Low[f] \in Nat /\ High[f] \in Nat /\ Low[f] <= High[f]
  OBVIOUS
<1>1. CASE text \in DOMAIN Names[f]
  <2>1. Names[f][text] \in Low[f] .. High[f]
    BY <1>1
  <2>2. value = Names[f][text]
    BY <1>0, <1>1, <2>1 DEF Stands
  <2> QED BY <1>0, <1>1, <2>1, <2>2 DEF ValueOf
<1>2. CASE text \notin DOMAIN Names[f] /\ text \in Low[f] .. High[f]
  <2>1. value = text
    BY <1>0, <1>2 DEF Stands
  <2>2. ValueOf(f, text) = {text}
    BY <1>0, <1>2 DEF ValueOf
  <2> QED BY <1>0, <1>2, <2>1, <2>2
<1>3. CASE text \notin DOMAIN Names[f] /\ text \notin Low[f] .. High[f]
  <2>1. f = "dow" /\ text = High[f] + 1
    BY <1>0, <1>3 DEF ValueOf
  <2>2. value = text
    BY <1>0, <1>3, <2>1 DEF Stands
  <2>3. ValueOf(f, text) = {Low[f]}
    BY <1>0, <1>3, <2>1 DEF ValueOf
  <2> QED BY <1>0, <1>3, <2>1, <2>2, <2>3
<1> QED BY <1>1, <1>2, <1>3

(* Zero is a multiple of every step.                                        *)
LEMMA ZeroRemainder ==
  ASSUME NEW d \in Nat \ {0}
  PROVE  0 % d = 0 /\ d % d = 0 /\ \A n \in 0 .. d - 1 : n % d = n
OBVIOUS

SpansSecondSunday(f, p) == f = "dow" /\ p.to # None /\ High[f] + 1 \in {p.from, p.to}

(* A piece that parses admits the values it is meant to.                    *)
LEMMA PieceIsMeant ==
  ASSUME NEW f \in Fields, NEW p, ~PieceRaises(f, p), ~SpansSecondSunday(f, p),
         NEW v \in Low[f] .. High[f]
  PROVE  v \in PieceValues(f, p) <=> Admits(f, p, v)
<1> DEFINE step == IF p.step = None THEN 1 ELSE p.step
           low  == Stands(f, p.from)
           high == Stands(f, IF p.to = None THEN p.from ELSE p.to)
<1>0. /\ Low[f] \in Nat /\ High[f] \in Nat /\ Low[f] <= High[f] /\ v \in Nat
      /\ Low["dow"] = 0
  BY CronAssumption
<1>1. step \in Nat \ {0}
  BY DEF PieceRaises
<1>2. From(f, p) # {} /\ To(f, p) # {}
  BY DEF PieceRaises
<1>3. CASE p.from \in {Star, Blank}
  <2>1. From(f, p) = {Low[f]} /\ To(f, p) = {High[f]}
    BY <1>3 DEF From, To
  <2>2. v \in PieceValues(f, p) <=> (v - Low[f]) % step = 0
    BY <1>0, <2>1 DEF PieceValues
  <2>3. Admits(f, p, v) <=> (v - Low[f]) % step = 0
    BY <1>3 DEF Admits, InPiece
  <2> QED BY <2>2, <2>3
<1>4. CASE p.from \notin {Star, Blank}
  <2>1. From(f, p) = ValueOf(f, p.from) /\ To(f, p) = ValueOf(f, IF p.to = None THEN p.from ELSE p.to)
    BY <1>4 DEF From, To
  <2>2. \A w : InPiece(f, p, w) <=> low <= w /\ w <= high /\ (w - low) % step = 0
    BY <1>4 DEF InPiece
  <2>3. CASE /\ From(f, p) = {low} /\ low \in Low[f] .. High[f]
             /\ To(f, p) = {high} /\ high \in Low[f] .. High[f]
    <3>1. low \in Nat /\ high \in Nat /\ high <= High[f]
      BY <1>0, <2>3
    <3> HIDE DEF low, high, step
    <3>2. v \in PieceValues(f, p) <=> low <= v /\ v <= high /\ (v - low) % step = 0
      BY <2>3 DEF PieceValues, step
    <3>3. ~InPiece(f, p, High[f] + 1)
      BY <1>0, <2>2, <3>1
    <3> QED BY <2>2, <3>2, <3>3 DEF Admits
  <2>4. CASE f = "dow" /\ p.to = None /\ low = High[f] + 1 /\ From(f, p) = {Low[f]}
    <3>1. high = High[f] + 1 /\ To(f, p) = {Low[f]}
      BY <2>1, <2>4
    <3> HIDE DEF low, high, step
    <3>2. 0 % step = 0
      BY <1>1, ZeroRemainder
    <3>3. v \in PieceValues(f, p) <=> v = 0
      BY <1>0, <2>4, <3>1, <3>2 DEF PieceValues, step
    <3>4. ~InPiece(f, p, v) /\ InPiece(f, p, High[f] + 1)
      BY <1>0, <2>2, <2>4, <3>1, <3>2
    <3> QED BY <1>0, <1>4, <2>4, <3>3, <3>4 DEF Admits
  <2>5. ValueOf(f, p.from) # {} /\ ValueOf(f, IF p.to = None THEN p.from ELSE p.to) # {}
    BY <1>2, <2>1
  <2>6. /\ \/ From(f, p) = {low} /\ low \in Low[f] .. High[f]
           \/ f = "dow" /\ p.from = High[f] + 1 /\ low = High[f] + 1 /\ From(f, p) = {Low[f]}
        /\ \/ To(f, p) = {high} /\ high \in Low[f] .. High[f]
           \/ f = "dow" /\ (IF p.to = None THEN p.from ELSE p.to) = High[f] + 1
    BY <2>1, <2>5, ValueIsMeant
  <2>7. p.to = None => high = low
    OBVIOUS
  <2> QED BY <2>1, <2>3, <2>4, <2>6, <2>7 DEF SpansSecondSunday
<1> QED BY <1>3, <1>4

(* Of a minute the calendar knows, an expression that parses and does not   *)
(* range over the second Sunday matches what it is meant to.                *)
LEMMA MatchesAreMeant ==
  ASSUME NEW e, ~ParseRaises(e), ~RangesOverSecondSunday(e), NEW t \in DOMAIN At
  PROVE  Matches(Parse(e), At[t]) <=> MeantToFire(e, At[t])
<1> DEFINE w == At[t]
           is(f) == IF f # "dow" THEN w[f] ELSE IF w.weekday = High["dow"] THEN 0 ELSE w.weekday + 1
           ok(f) == (IF f = "dow" THEN DayOfWeek(w) ELSE w[f]) \in Parse(e).values[f]
           day(f) == \E p \in Expanded(e)[f] : Admits(f, p, is(f))
<1>1. /\ High["dow"] \in Nat /\ Low["dow"] = 0 /\ w.weekday \in 0 .. High["dow"]
      /\ \A f \in Fields \ {"dow"} : w[f] \in Low[f] .. High[f]
  BY CronAssumption DEF Fields
<1>2. DayOfWeek(w) = is("dow") /\ is("dow") \in Low["dow"] .. High["dow"]
  <2>1. DayOfWeek(w) = (w.weekday + 1) % (High["dow"] + 1)
    BY DEF DayOfWeek
  <2>2. High["dow"] + 1 \in Nat \ {0}
    BY <1>1
  <2>3. CASE w.weekday = High["dow"]
    BY <1>1, <2>1, <2>2, <2>3, ZeroRemainder
  <2>4. CASE w.weekday # High["dow"]
    <3>1. w.weekday + 1 \in 0 .. (High["dow"] + 1) - 1
      BY <1>1, <2>4
    <3> QED BY <1>1, <2>1, <2>2, <2>4, <3>1, ZeroRemainder
  <2> QED BY <2>3, <2>4
<1>3. ASSUME NEW f \in Fields PROVE ok(f) <=> day(f)
  <2>1. Parse(e).values[f] = UNION {PieceValues(f, p) : p \in Expanded(e)[f]}
    BY DEF Parse
  <2>2. is(f) \in Low[f] .. High[f] /\ (IF f = "dow" THEN DayOfWeek(w) ELSE w[f]) = is(f)
    BY <1>1, <1>2
  <2> HIDE DEF is
  <2>3. ASSUME NEW p \in Expanded(e)[f]
        PROVE  is(f) \in PieceValues(f, p) <=> Admits(f, p, is(f))
    <3>1. ~PieceRaises(f, p)
      BY DEF ParseRaises
    <3>2. ~SpansSecondSunday(f, p)
      BY DEF SpansSecondSunday, RangesOverSecondSunday
    <3> QED BY <2>2, <3>1, <3>2, PieceIsMeant
  <2>4. ok(f) <=> \E p \in Expanded(e)[f] : is(f) \in PieceValues(f, p)
    BY <2>1, <2>2
  <2> QED BY <2>3, <2>4
<1>4. MeantToFire(e, w) <=>
        LET free(f) == Expanded(e)[f] = {Wildcard}
        IN  /\ day("minute") /\ day("hour") /\ day("month")
            /\ \/ free("dom") /\ day("dow")
               \/ free("dow") /\ day("dom")
               \/ ~free("dom") /\ ~free("dow") /\ (day("dom") \/ day("dow"))
  BY DEF MeantToFire
<1>5. ASSUME NEW f \in {"dom", "dow"}, Expanded(e)[f] = {Wildcard} PROVE day(f)
  <2>1. is(f) \in Low[f] .. High[f] /\ Low[f] \in Nat /\ High[f] \in Nat
    BY <1>1, <1>2, CronAssumption DEF Fields
  <2> HIDE DEF is
  <2>2. (is(f) - Low[f]) % 1 = 0
    BY <2>1
  <2>3. InPiece(f, Wildcard, is(f))
    BY <2>2 DEF InPiece, Wildcard
  <2> QED BY <1>5, <2>3 DEF Admits
<1>6. Matches(Parse(e), w) <=>
        /\ day("minute") /\ day("hour") /\ day("month")
        /\ IF Parse(e).daysAreOr THEN day("dom") \/ day("dow") ELSE day("dom") /\ day("dow")
  <2>1. Matches(Parse(e), w) <=>
          /\ ok("minute") /\ ok("hour") /\ ok("month")
          /\ IF Parse(e).daysAreOr THEN ok("dom") \/ ok("dow") ELSE ok("dom") /\ ok("dow")
    BY DEF Matches
  <2> HIDE DEF ok, day
  <2> QED BY <1>3, <2>1 DEF Fields
<1>7. Parse(e).daysAreOr <=> Expanded(e)["dom"] # {Wildcard} /\ Expanded(e)["dow"] # {Wildcard}
  BY DEF Parse
<1> HIDE DEF day
<1> QED BY <1>4, <1>5, <1>6, <1>7

-----------------------------------------------------------------------------
(* What the search for the next minutes has found after n of them.          *)
FoundSoFar(s, after, count, n, runs) ==
  /\ runs \in Seq(after + 1 .. after + n) /\ Len(runs) <= count
  /\ \A i \in 1 .. Len(runs) : Matches(s, At[runs[i]])
  /\ \A i, j \in 1 .. Len(runs) : i < j => runs[i] < runs[j]
  /\ \A t \in after + 1 .. after + n :
       \/ \E i \in 1 .. Len(runs) : runs[i] = t
       \/ ~Matches(s, At[t])
       \/ Len(runs) = count /\ \A i \in 1 .. Len(runs) : runs[i] < t

(* One more minute.                                                         *)
NextFound(s, after, count, n, runs) ==
  IF Len(runs) < count /\ Matches(s, At[after + n])
    THEN Append(runs, after + n) ELSE runs

(* The invariant of the search survives one more minute.                    *)
LEMMA OneMoreMinute ==
  ASSUME NEW s, NEW after \in Nat, NEW count \in Nat, NEW n \in Nat, NEW runs,
         FoundSoFar(s, after, count, n, runs)
  PROVE  FoundSoFar(s, after, count, n + 1, NextFound(s, after, count, n + 1, runs))
<1> DEFINE t == after + (n + 1)
           m == Len(runs)
<1>1. /\ runs \in Seq(after + 1 .. after + n) /\ runs \in Seq(after + 1 .. t)
      /\ m \in Nat /\ m <= count /\ t \in Nat
      /\ \A i \in 1 .. m : runs[i] \in after + 1 .. after + n /\ runs[i] < t
  BY DEF FoundSoFar
<1>2. /\ \A i \in 1 .. m : Matches(s, At[runs[i]])
      /\ \A i, j \in 1 .. m : i < j => runs[i] < runs[j]
  BY DEF FoundSoFar
<1>3. ASSUME NEW u \in after + 1 .. t
      PROVE  \/ u = t
             \/ \E i \in 1 .. m : runs[i] = u
             \/ ~Matches(s, At[u])
             \/ m = count /\ \A i \in 1 .. m : runs[i] < u
  BY DEF FoundSoFar
<1>4. CASE m < count /\ Matches(s, At[t])
  <2> DEFINE more == Append(runs, t)
  <2>1. NextFound(s, after, count, n + 1, runs) = more
    BY <1>4 DEF NextFound
  <2>2. /\ more \in Seq(after + 1 .. t) /\ Len(more) = m + 1
        /\ more[m + 1] = t
        /\ \A i \in 1 .. m : more[i] = runs[i]
    BY <1>1
  <2> HIDE DEF more, t, m
  <2>3. \A i \in 1 .. m + 1 : i \in 1 .. m \/ i = m + 1
    BY <1>1
  <2>4. \A i \in 1 .. m + 1 : Matches(s, At[more[i]])
    BY <1>2, <1>4, <2>2, <2>3
  <2>5. ASSUME NEW i \in 1 .. m + 1, NEW j \in 1 .. m + 1, i < j
        PROVE  more[i] < more[j]
    <3>1. i \in 1 .. m
      BY <1>1, <2>5
    <3>2. CASE j \in 1 .. m
      BY <1>2, <2>2, <2>5, <3>1, <3>2
    <3>3. CASE j = m + 1
      BY <1>1, <2>2, <3>1, <3>3
    <3> QED BY <2>3, <3>2, <3>3
  <2>6. ASSUME NEW u \in after + 1 .. t
        PROVE  (\E i \in 1 .. m + 1 : more[i] = u) \/ ~Matches(s, At[u])
    <3>1. m + 1 \in 1 .. m + 1 /\ \A i \in 1 .. m : i \in 1 .. m + 1
      BY <1>1
    <3> QED BY <1>1, <1>3, <1>4, <2>2, <3>1
  <2>7. FoundSoFar(s, after, count, n + 1, more)
    <3>1. t = after + (n + 1)
      BY DEF t
    <3>2. Len(more) <= count
      BY <1>1, <1>4, <2>2
    <3> QED BY <2>2, <2>4, <2>5, <2>6, <3>1, <3>2 DEF FoundSoFar
  <2> QED BY <2>1, <2>7
<1>5. CASE ~(m < count /\ Matches(s, At[t]))
  <2>1. NextFound(s, after, count, n + 1, runs) = runs
    BY <1>5 DEF NextFound
  <2>2. ASSUME NEW u \in after + 1 .. t
        PROVE  \/ \E i \in 1 .. m : runs[i] = u
               \/ ~Matches(s, At[u])
               \/ m = count /\ \A i \in 1 .. m : runs[i] < u
    <3> HIDE DEF t, m
    <3> QED BY <1>1, <1>3, <1>5
  <2> QED BY <1>1, <1>2, <2>1, <2>2 DEF FoundSoFar
<1> QED BY <1>4, <1>5

(* The loop of next_runs ends with what a search of every minute finds.     *)
LEMMA SearchIsComplete ==
  ASSUME NEW s, NEW after \in Nat, NEW count \in Nat
  PROVE  FoundSoFar(s, after, count, Lookahead, NextRuns(s, after, count))
<1> DEFINE IsSearch(f, n) ==
             f = [i \in 0 .. n |-> IF i = 0 THEN <<>>
                                   ELSE NextFound(s, after, count, i, f[i - 1])]
           Searches == {n \in Nat : \E f : IsSearch(f, n)}
<1>1. 0 \in Searches
  <2> DEFINE f == [i \in 0 .. 0 |-> <<>>]
  <2>1. IsSearch(f, 0)
    OBVIOUS
  <2> QED BY <2>1
<1>2. ASSUME NEW n \in Nat, n \in Searches PROVE n + 1 \in Searches
  <2>1. PICK f : IsSearch(f, n)
    BY <1>2
  <2> DEFINE step(i, h) == IF i = 0 THEN <<>> ELSE NextFound(s, after, count, i, h[i - 1])
             g == [i \in 0 .. n + 1 |-> step(i, f)]
  <2>2. \A i \in 0 .. n : f[i] = step(i, f)
    BY <2>1
  <2>3. \A i \in 0 .. n : i \in 0 .. n + 1 /\ g[i] = f[i]
    BY <2>2
  <2>4. ASSUME NEW i \in 0 .. n + 1 PROVE step(i, g) = step(i, f)
    <3>1. i = 0 \/ i - 1 \in 0 .. n
      OBVIOUS
    <3> HIDE DEF g
    <3> QED BY <2>3, <3>1
  <2>5. g = [i \in 0 .. n + 1 |-> step(i, g)]
    <3> DEFINE h == [i \in 0 .. n + 1 |-> step(i, g)]
    <3>1. \A i \in 0 .. n + 1 : g[i] = h[i]
      BY <2>4, Zenon
    <3> QED BY <3>1
  <2>6. IsSearch(g, n + 1)
    BY <2>5, Zenon
  <2> HIDE DEF g
  <2> QED BY <2>6
<1>3. \E f : IsSearch(f, Lookahead)
  <2>1. Nat \subseteq Searches
    <3> HIDE DEF Searches
    <3>1. \A n \in Nat : n \in Searches => n + 1 \in Searches
      BY <1>2
    <3> QED BY <1>1, <3>1, SetInduction
  <2> QED BY <2>1, CronAssumption
<1> DEFINE found == CHOOSE f : IsSearch(f, Lookahead)
<1>4. IsSearch(found, Lookahead)
  BY <1>3
<1>5. NextRuns(s, after, count) = found[Lookahead]
  BY DEF NextRuns, NextFound
<1> HIDE DEF found
<1> DEFINE Good == {n \in Nat : n <= Lookahead => FoundSoFar(s, after, count, n, found[n])}
<1>6. 0 \in Good
  <2>1. found[0] = <<>>
    BY <1>4, CronAssumption
  <2>2. Len(<<>>) = 0 /\ <<>> \in Seq(after + 1 .. after + 0)
    OBVIOUS
  <2>3. after + 1 .. after + 0 = {} /\ 1 .. 0 = {}
    OBVIOUS
  <2>4. FoundSoFar(s, after, count, 0, <<>>)
    BY <2>2, <2>3 DEF FoundSoFar
  <2> QED BY <2>1, <2>4
<1>7. ASSUME NEW n \in Good PROVE n + 1 \in Good
  <2>1. SUFFICES ASSUME n + 1 <= Lookahead PROVE FoundSoFar(s, after, count, n + 1, found[n + 1])
    OBVIOUS
  <2>2. found[n + 1] = NextFound(s, after, count, n + 1, found[(n + 1) - 1])
    BY <1>4, <2>1, CronAssumption
  <2>3. FoundSoFar(s, after, count, n, found[n])
    BY <2>1, CronAssumption
  <2> QED BY <2>2, <2>3, OneMoreMinute
<1>8. Nat \subseteq Good
  <2> HIDE DEF Good
  <2>1. \A n \in Nat : n \in Good => n + 1 \in Good
    BY <1>7
  <2> QED BY <1>6, <2>1, SetInduction
<1> QED BY <1>5, <1>8, CronAssumption

-----------------------------------------------------------------------------
(* What next_runs answers is what the preview is meant to list.             *)
LEMMA PreviewIsMeant ==
  ASSUME NEW e, ~ParseRaises(e), ~RangesOverSecondSunday(e),
         NEW after \in Nat, NEW count \in Nat,
         after + 1 .. after + Lookahead \subseteq DOMAIN At
  PROVE  FirstMeant(e, after, count, NextRuns(Parse(e), after, count))
<1> DEFINE s == Parse(e)
           runs == NextRuns(s, after, count)
           minutes == after + 1 .. after + Lookahead
<1>1. FoundSoFar(s, after, count, Lookahead, runs)
  BY SearchIsComplete
<1>2. \A t \in minutes : Matches(s, At[t]) <=> MeantToFire(e, At[t])
  BY MatchesAreMeant
<1> HIDE DEF runs, s
<1>3. /\ runs \in Seq(minutes) /\ Len(runs) <= count /\ DOMAIN runs = 1 .. Len(runs)
      /\ \A i \in 1 .. Len(runs) : runs[i] \in minutes /\ Matches(s, At[runs[i]])
      /\ \A i, j \in 1 .. Len(runs) : i < j => runs[i] < runs[j]
  <2>1. runs \in Seq(minutes)
    BY <1>1 DEF FoundSoFar
  <2> HIDE DEF minutes
  <2>2. DOMAIN runs = 1 .. Len(runs) /\ \A i \in 1 .. Len(runs) : runs[i] \in minutes
    BY <2>1
  <2> QED BY <1>1, <2>1, <2>2 DEF FoundSoFar
<1>4. ASSUME NEW t \in minutes, MeantToFire(e, At[t]), t \notin ToSet(runs)
      PROVE  Len(runs) = count /\ \A i \in DOMAIN runs : runs[i] < t
  <2>1. Matches(s, At[t])
    BY <1>2, <1>4
  <2>2. ~\E i \in 1 .. Len(runs) : runs[i] = t
    BY <1>3, <1>4 DEF ToSet
  <2> QED BY <1>1, <1>3, <2>1, <2>2 DEF FoundSoFar
<1>5. ToSet(runs) \subseteq {t \in minutes : MeantToFire(e, At[t])}
  BY <1>2, <1>3 DEF ToSet
<1> QED BY <1>3, <1>4, <1>5 DEF FirstMeant, runs, s

(* The answers to a cron preview and to the export of a report.             *)
Preview(r) ==
  IF ParseRaises(r.expression) THEN Raised
  ELSE Result("PASS", <<>>, NextRuns(Parse(r.expression), r.after, r.count))

Exported(r) ==
  IF r.format = "EXCEL" /\ ExcelRaises(r.sections, LetterFold) THEN Raised
  ELSE Result("PASS", <<>>, Export(r.sections, r.format))

(* What is on record is the answer to the task at hand.                     *)
AnswersTheTask ==
  /\ \E k \in DOMAIN Tasks : task \in Tasks[k]
  /\ result # Pending =>
       /\ task.kind = "cron" => result = Preview(task)
       /\ task.kind \in Services => result = Outcome(task)
       /\ task.kind = "mismatches" => result = Patterns!Analyse(task.mismatches)
       /\ task.kind = "row-set" => result = Patterns!FormBlock(task.keys)
       /\ task.kind = "report" => result = Exported(task)
       /\ task.kind = "archive" => result = Result("PASS", <<>>, BuildExport(task.runs))

(* A result on record is always the answer to the task at hand.             *)
LEMMA AlwaysAnswersTheTask == AnalysesSpec => []AnswersTheTask
<1>1. AnalysesInit => AnswersTheTask
  BY DEF AnalysesInit, AnswersTheTask
<1>2. AnswersTheTask /\ [AnalysesNext]_analysis => AnswersTheTask'
  <2> SUFFICES ASSUME AnswersTheTask, [AnalysesNext]_analysis PROVE AnswersTheTask'
    OBVIOUS
  <2> USE DEF AnswersTheTask, Answer, Services
  <2>1. CASE PreviewSchedule
    BY <2>1 DEF PreviewSchedule, Preview
  <2>2. CASE \E kind \in Services : Validate(kind)
    BY <2>2 DEF Validate
  <2>3. CASE ExplainMismatches
    BY <2>3 DEF ExplainMismatches
  <2>4. CASE ExplainRowSet
    BY <2>4 DEF ExplainRowSet
  <2>5. CASE ExportReport
    BY <2>5 DEF ExportReport, Exported
  <2>6. CASE ExportRuns
    BY <2>6 DEF ExportRuns
  <2>7. CASE UNCHANGED analysis
    BY <2>7 DEF analysis
  <2> QED BY <2>1, <2>2, <2>3, <2>4, <2>5, <2>6, <2>7 DEF AnalysesNext
<1> QED BY <1>1, <1>2, PTL DEF AnalysesSpec

(* The preview of an expression lists the first minutes that are meant and  *)
(* no others, for every expression that parses but those that range over the*)
(* second Sunday, in every calendar and however far the search may look.    *)
THEOREM PreviewsListWhatIsMeant == AnalysesSpec => []CronMeansWhatItSays
<1>1. AnswersTheTask => CronMeansWhatItSays
  <2> SUFFICES ASSUME AnswersTheTask, Answered({"cron"}), result.status = "PASS",
                      ~RangesOverSecondSunday(task.expression)
               PROVE  FirstMeant(task.expression, task.after, task.count, result.detail)
    BY DEF CronMeansWhatItSays
  <2>1. task.kind = "cron" /\ result = Preview(task)
    BY DEF Answered, AnswersTheTask
  <2>2. /\ task.count \in Nat /\ task.after \in Nat
        /\ task.after + 1 .. task.after + Lookahead \subseteq DOMAIN At
    BY <2>1, TasksAssumption DEF AnswersTheTask
  <2>3. ~ParseRaises(task.expression)
    BY <2>1 DEF Preview, Raised, Result
  <2>4. result.detail = NextRuns(Parse(task.expression), task.after, task.count)
    BY <2>1, <2>3 DEF Preview, Result
  <2> QED BY <2>2, <2>3, <2>4, PreviewIsMeant
<1> QED BY <1>1, AlwaysAnswersTheTask, PTL

-----------------------------------------------------------------------------
(* The rows of a comparison that differ.                                    *)

(* Both modules take these from the same library.                           *)
LEMMA SameLibrary ==
  /\ \A s : Patterns!ToSet(s) = ToSet(s)
  /\ \A S : Patterns!Max(S) = Max(S) /\ Patterns!Min(S) = Min(S)
  /\ \A S : Patterns!Cardinality(S) = Cardinality(S)
<1>1. \A S : Patterns!Cardinality(S) = Cardinality(S)
  BY DEF Patterns!Cardinality, Cardinality
<1>2. \A s : Patterns!ToSet(s) = ToSet(s)
  BY DEF Patterns!ToSet, ToSet
<1> QED BY <1>1, <1>2 DEF Patterns!Max, Max, Patterns!Min, Min

(* Keys that form a block of whole numbers are all the numbers between the  *)
(* smallest and the largest of them.                                        *)
LEMMA BlockIsUnbroken ==
  ASSUME NEW keys, DOMAIN keys = 1 .. Len(keys), Len(keys) \in Nat,
         \A i \in DOMAIN keys : keys[i] = NULL \/ keys[i] \in Int,
         Patterns!FormBlock(keys), \A k \in ToSet(keys) : k % One = 0
  PROVE  \A k, j \in ToSet(keys) : k < j => k + One \in ToSet(keys)
<1> DEFINE all == ToSet(keys)
           n == Len(keys)
           whole(v) == IF v < 0 THEN -((-v) \div One) ELSE v \div One
           lo == whole(Min(all))
           hi == whole(Max(all))
           block == [w \in lo .. hi |-> One * w]
           spread == {One * w : w \in lo .. hi}
<1>0. One \in Nat \ {0} /\ MinRows \in Nat \ {0}
  BY TasksAssumption
<1>1. /\ n >= MinRows /\ NULL \notin all /\ Cardinality(all) = n
      /\ hi - lo + 1 = n
  <2>1. /\ Patterns!ToSet(keys) = all
        /\ Patterns!Max(all) = Max(all) /\ Patterns!Min(all) = Min(all)
        /\ Patterns!Cardinality(all) = Cardinality(all)
    BY SameLibrary
  <2> HIDE DEF all
  <2>2. /\ n >= MinRows /\ NULL \notin all /\ Cardinality(all) = n
        /\ hi - lo + 1 = n
    BY <2>1 DEF Patterns!FormBlock
  <2> QED BY <2>1, <2>2
<1>2. all \subseteq Int /\ all # {} /\ IsFiniteSet(all)
  <2>1. all = {keys[i] : i \in 1 .. n}
    BY DEF ToSet
  <2>2. all \subseteq Int /\ all # {}
    BY <1>0, <1>1, <2>1
  <2>3. IsFiniteSet(1 .. n)
    BY FS_Interval
  <2> DEFINE f == [i \in 1 .. n |-> keys[i]]
  <2>4. f \in Surjection(1 .. n, all)
    BY <2>1 DEF Surjection
  <2> QED BY <2>2, <2>3, <2>4, FS_Surjection
<1>3. /\ Max(all) \in all /\ \A y \in all : Max(all) >= y
      /\ Min(all) \in all /\ \A y \in all : Min(all) <= y
  BY <1>2, FiniteBounds
<1>w. ASSUME NEW v \in Int, v % One = 0 PROVE whole(v) = v \div One
  <2> DEFINE q == v \div One
  <2>1. q \in Int /\ v = One * q
    BY <1>0, <1>w
  <2> HIDE DEF q
  <2>2. -v = One * (-q) + 0 /\ -q \in Int
    BY <1>0, <2>1
  <2>3. (-v) \div One = -q
    BY <1>0, <2>2
  <2> QED BY <2>1, <2>3 DEF q
<1>4. /\ lo = Min(all) \div One /\ hi = Max(all) \div One
      /\ lo \in Int /\ hi \in Int
  <2>1. Min(all) \in Int /\ Max(all) \in Int /\ Min(all) % One = 0 /\ Max(all) % One = 0
    BY <1>2, <1>3
  <2> HIDE DEF whole, all
  <2> QED BY <1>0, <1>w, <2>1
<1>5. ASSUME NEW k \in all PROVE k = One * (k \div One) /\ k \div One \in lo .. hi
  <2>1. k \in Int /\ k % One = 0 /\ k \div One \in Int
    BY <1>0, <1>2
  <2>2. k = One * (k \div One)
    BY <1>0, <2>1
  <2>3. Min(all) <= k /\ k <= Max(all) /\ Min(all) \in Int /\ Max(all) \in Int
    BY <1>2, <1>3
  <2> HIDE DEF lo, hi
  <2>4. lo <= k \div One /\ k \div One <= hi
    BY <1>0, <1>4, <2>1, <2>3, DivisionIsMonotone
  <2> QED BY <1>4, <2>1, <2>2, <2>4
<1> HIDE DEF all, n, lo, hi, whole
<1>6. IsFiniteSet(spread) /\ Cardinality(spread) <= n /\ Cardinality(spread) \in Nat
  <2>1. block \in Surjection(lo .. hi, spread)
    BY DEF Surjection
  <2>2. IsFiniteSet(lo .. hi) /\ Cardinality(lo .. hi) <= n
    <3>1. n \in Nat
      BY DEF n
    <3>2. lo <= hi
      BY <1>0, <1>1, <1>4, <3>1
    <3>3. IsFiniteSet(lo .. hi) /\ Cardinality(lo .. hi) = IF lo > hi THEN 0 ELSE hi - lo + 1
      BY <1>4, FS_Interval
    <3> QED BY <1>1, <1>4, <3>1, <3>2, <3>3
  <2>3. IsFiniteSet(spread) /\ Cardinality(spread) <= Cardinality(lo .. hi)
    BY <2>1, <2>2, FS_Surjection
  <2>4. Cardinality(spread) \in Nat /\ Cardinality(lo .. hi) \in Nat
    BY <2>2, <2>3, FS_CardinalityType
  <2>5. n \in Nat
    BY DEF n
  <2> QED BY <2>2, <2>3, <2>4, <2>5
<1>7. all = spread
  <2>1. all \in SUBSET spread
    BY <1>5
  <2>2. Cardinality(all) <= Cardinality(spread)
    BY <1>6, <2>1, FS_Subset
  <2>3. n \in Nat
    BY DEF n
  <2>4. Cardinality(spread) = Cardinality(all)
    BY <1>1, <1>6, <2>2, <2>3
  <2> QED BY <1>6, <2>1, <2>4, FS_Subset
<1>8. ASSUME NEW k \in all, NEW j \in all, k < j PROVE k + One \in all
  <2> DEFINE q == k \div One
             p == j \div One
  <2>1. k = One * q /\ j = One * p /\ q \in lo .. hi /\ p \in lo .. hi
    BY <1>5
  <2> HIDE DEF q, p
  <2>2. q < p
    BY <1>0, <1>4, <1>8, <2>1, TimesIsMonotone
  <2>3. q + 1 \in lo .. hi
    BY <1>4, <2>1, <2>2
  <2>4. One * (q + 1) \in spread
    BY <2>3
  <2>5. One * (q + 1) = k + One
    BY <1>0, <1>4, <2>1
  <2> QED BY <1>7, <2>4, <2>5
<1> QED BY <1>8 DEF all

(* The order of explanations, on explanations of which no two agree in all  *)
(* that it looks at.                                                        *)
Comparable(patterns) ==
  /\ \A p \in patterns : p.rows \in Int /\ p.column \in Int
  /\ \A p, q \in patterns :
       (p.kind = "column-concentration" <=> q.kind = "column-concentration")
         /\ p.column = q.column => p = q

(* The order of explanations is total where their figures are numbers.      *)
LEMMA BeforeIsAnOrder ==
  ASSUME NEW S, Comparable(S)
  PROVE  /\ \A p, q \in S : p # q => Patterns!Before(p, q) \/ Patterns!Before(q, p)
         /\ \A p, q, r \in S :
              Patterns!Before(p, q) /\ Patterns!Before(q, r) => Patterns!Before(p, r)
<1> DEFINE vague(x) == x.kind = "column-concentration"
<1>1. ASSUME NEW p \in S, NEW q \in S
      PROVE  Patterns!Before(p, q) <=>
               \/ p.rows > q.rows
               \/ p.rows = q.rows /\ ~vague(p) /\ vague(q)
               \/ p.rows = q.rows /\ (vague(p) <=> vague(q)) /\ p.column < q.column
  BY DEF Patterns!Before
<1>2. ASSUME NEW p \in S, NEW q \in S, p # q PROVE Patterns!Before(p, q) \/ Patterns!Before(q, p)
  <2>1. ~((vague(p) <=> vague(q)) /\ p.column = q.column)
    BY <1>2 DEF Comparable
  <2>2. p.rows \in Int /\ q.rows \in Int /\ p.column \in Int /\ q.column \in Int
    BY DEF Comparable
  <2> HIDE DEF vague
  <2> QED BY <1>1, <2>1, <2>2
<1>3. ASSUME NEW p \in S, NEW q \in S, NEW r \in S, Patterns!Before(p, q), Patterns!Before(q, r)
      PROVE  Patterns!Before(p, r)
  <2>1. /\ p.rows \in Int /\ q.rows \in Int /\ r.rows \in Int
        /\ p.column \in Int /\ q.column \in Int /\ r.column \in Int
    BY DEF Comparable
  <2> HIDE DEF vague
  <2> QED BY <1>1, <1>3, <2>1
<1> QED BY <1>2, <1>3

(* A finite set of such explanations can be put in order.                   *)
Ordered(s) == \A i, j \in DOMAIN s : i < j => Patterns!Before(s[i], s[j])

(* Explanations that can be compared have a first one.                      *)
LEMMA FirstExists ==
  ASSUME NEW S, IsFiniteSet(S), Comparable(S)
  PROVE  \A U \in SUBSET S : U # {} =>
           \E p \in U : \A q \in U : q # p => Patterns!Before(p, q)
<1> DEFINE First(U) == \E p \in U : \A q \in U : q # p => Patterns!Before(p, q)
           T == {U \in SUBSET S : U # {} => First(U)}
<1>1. {} \in T
  OBVIOUS
<1>2. ASSUME NEW U \in SUBSET S, NEW x \in S \ U, U \in T PROVE U \cup {x} \in T
  <2>1. CASE U = {}
    <3>1. \A q \in U \cup {x} : q = x
      BY <2>1
    <3>2. First(U \cup {x})
      BY <3>1
    <3> HIDE DEF First
    <3> QED BY <3>2
  <2>2. CASE U # {}
    <3>1. PICK p \in U : \A q \in U : q # p => Patterns!Before(p, q)
      BY <1>2, <2>2
    <3>2. p \in S /\ x \in S /\ p # x
      OBVIOUS
    <3>3. CASE Patterns!Before(x, p)
      <4>1. ASSUME NEW q \in U \cup {x}, q # x PROVE Patterns!Before(x, q)
        BY <3>1, <3>2, <3>3, <4>1, BeforeIsAnOrder
      <4> QED BY <4>1
    <3>4. CASE Patterns!Before(p, x)
      <4>1. ASSUME NEW q \in U \cup {x}, q # p PROVE Patterns!Before(p, q)
        BY <3>1, <3>4, <4>1
      <4> QED BY <4>1
    <3> QED BY <3>2, <3>3, <3>4, BeforeIsAnOrder
  <2> QED BY <2>1, <2>2
<1>3. \A U \in SUBSET S : U \in T
  <2> HIDE DEF T
  <2> QED BY <1>1, <1>2, FiniteInduction
<1> QED BY <1>3

(* They can be put in order: what InOrder chooses is there to be chosen.    *)
LEMMA OrderExists ==
  ASSUME NEW S, IsFiniteSet(S), Comparable(S)
  PROVE  \E s \in [1 .. Cardinality(S) -> S] : Ordered(s)
<1> DEFINE N == {n \in Nat : \A U \in SUBSET S : Cardinality(U) = n =>
                               \E s \in [1 .. n -> U] : Ordered(s)}
<1>0. \A U \in SUBSET S : IsFiniteSet(U) /\ Cardinality(U) \in Nat
  BY FS_Subset, FS_CardinalityType
<1>1. 0 \in N
  <2> DEFINE s == [i \in 1 .. 0 |-> i]
  <2>1. Ordered(s)
    BY DEF Ordered
  <2>2. \A U \in SUBSET S : s \in [1 .. 0 -> U]
    OBVIOUS
  <2> HIDE DEF s
  <2> QED BY <2>1, <2>2
<1>2. ASSUME NEW n \in Nat, n \in N PROVE n + 1 \in N
  <2> SUFFICES ASSUME NEW U \in SUBSET S, Cardinality(U) = n + 1
               PROVE  \E s \in [1 .. n + 1 -> U] : Ordered(s)
    OBVIOUS
  <2>1. U # {}
    <3>1. Cardinality({}) = 0
      BY FS_EmptySet
    <3> QED BY <3>1
  <2>2. PICK p \in U : \A q \in U : q # p => Patterns!Before(p, q)
    BY <2>1, FirstExists
  <2> DEFINE V == U \ {p}
  <2>3. V \in SUBSET S /\ Cardinality(V) = n
    <3>1. Cardinality(V) = Cardinality(U) - 1
      BY <1>0, FS_RemoveElement
    <3> QED BY <3>1
  <2>4. PICK r \in [1 .. n -> V] : Ordered(r)
    BY <1>2, <2>3
  <2> DEFINE s == [i \in 1 .. n + 1 |-> IF i = 1 THEN p ELSE r[i - 1]]
  <2>5. \A i \in 1 .. n + 1 : i = 1 \/ i - 1 \in 1 .. n
    OBVIOUS
  <2>6. s \in [1 .. n + 1 -> U]
    BY <2>4, <2>5
  <2>7. ASSUME NEW i \in 1 .. n + 1, NEW j \in 1 .. n + 1, i < j
        PROVE  Patterns!Before(s[i], s[j])
    <3>1. j - 1 \in 1 .. n /\ s[j] = r[j - 1] /\ r[j - 1] \in V
      BY <2>4, <2>5, <2>7
    <3>2. CASE i = 1
      BY <2>2, <3>1, <3>2
    <3>3. CASE i # 1
      <4>1. i - 1 \in 1 .. n /\ s[i] = r[i - 1] /\ i - 1 < j - 1 /\ DOMAIN r = 1 .. n
        BY <2>4, <2>5, <2>7, <3>3
      <4> QED BY <2>4, <3>1, <4>1 DEF Ordered
    <3> QED BY <3>2, <3>3
  <2>8. Ordered(s)
    BY <2>6, <2>7 DEF Ordered
  <2> HIDE DEF s
  <2> QED BY <2>6, <2>8
<1>3. Nat \subseteq N
  <2> HIDE DEF N
  <2>1. \A n \in Nat : n \in N => n + 1 \in N
    BY <1>2
  <2> QED BY <1>1, <2>1, SetInduction
<1>4. Cardinality(S) \in N
  BY <1>0, <1>3
<1> QED BY <1>4

(* The explanations of a mismatch frame are finitely many and comparable:   *)
(* a column is explained once, and rows concentrate in one column.          *)
HitColumns(m) == {c \in DOMAIN m.kind : Patterns!HitRows(m, c) # {}}

AllExplanations(m) == UNION {Patterns!Explanations(m, c) : c \in HitColumns(m)}

(* The rows a column's explanations are made for are finitely many rows of  *)
(* the frame.                                                               *)
LEMMA RowsAreFinite ==
  ASSUME NEW m, IsMismatchFrame(m), NEW c
  PROVE  /\ IsFiniteSet(Patterns!HitRows(m, c))
         /\ Patterns!Cardinality(Patterns!HitRows(m, c)) \in Nat
         /\ Patterns!HitRows(m, c) \subseteq DOMAIN m.rows
         /\ Patterns!AlignedRows(m, c) \subseteq Patterns!HitRows(m, c)
         /\ IsFiniteSet(Patterns!AlignedRows(m, c))
<1>1. IsFiniteSet(1 .. Len(m.rows)) /\ DOMAIN m.rows = 1 .. Len(m.rows)
  BY FS_Interval DEF IsMismatchFrame, IsList
<1>2. Patterns!HitRows(m, c) \subseteq DOMAIN m.rows
  BY DEF Patterns!HitRows
<1>3. Patterns!AlignedRows(m, c) \subseteq Patterns!HitRows(m, c)
  BY DEF Patterns!AlignedRows
<1>4. IsFiniteSet(Patterns!HitRows(m, c))
  BY <1>1, <1>2, FS_Subset
<1>5. IsFiniteSet(Patterns!AlignedRows(m, c))
  BY <1>3, <1>4, FS_Subset
<1>6. Patterns!Cardinality(Patterns!HitRows(m, c)) \in Nat
  BY <1>4, FS_CardinalityType, SameLibrary
<1> QED BY <1>2, <1>3, <1>4, <1>5, <1>6

(* What a pattern of one column says of itself, and that a detector found   *)
(* it.                                                                      *)
LEMMA ExplainedOnce ==
  ASSUME NEW m, NEW c, NEW p \in Patterns!Explanations(m, c)
  PROVE  /\ p.column = c /\ p.rows = Patterns!Cardinality(Patterns!HitRows(m, c))
         /\ p.kind # "column-concentration"
         /\ p.kind \in {Patterns!Detectors[d] : d \in 1 .. 10}
         /\ Patterns!Detects(p.kind, m, c)
         /\ p.figure = Patterns!Figure(p.kind, m, c)
         /\ Patterns!Explanations(m, c) = {p}
<1> DEFINE detects(d) == Patterns!Detects(Patterns!Detectors[d], m, c)
           made(d) == [kind |-> Patterns!Detectors[d], column |-> c,
                       rows |-> Patterns!Cardinality(Patterns!HitRows(m, c)),
                       figure |-> Patterns!Figure(Patterns!Detectors[d], m, c)]
           first(d) == detects(d) /\ \A e \in 1 .. d - 1 : ~detects(e)
<1>1. DOMAIN Patterns!Detectors = 1 .. 10
  BY DEF Patterns!Detectors
<1>2. \A q : q \in Patterns!Explanations(m, c) <=> \E d \in 1 .. 10 : first(d) /\ q = made(d)
  <2> HIDE DEF Patterns!Detectors
  <2> QED BY <1>1 DEF Patterns!Explanations
<1>3. PICK d \in 1 .. 10 : first(d) /\ p = made(d)
  BY <1>2
<1>4. ASSUME NEW e \in 1 .. 10, first(e) PROVE e = d
  <2> HIDE DEF detects
  <2>1. ~(e < d) /\ ~(d < e)
    BY <1>3, <1>4
  <2> QED BY <2>1
<1>5. Patterns!Explanations(m, c) = {p}
  <2> HIDE DEF made, first
  <2> QED BY <1>2, <1>3, <1>4
<1>6. \A e \in 1 .. 10 : Patterns!Detectors[e] # "column-concentration"
  BY DEF Patterns!Detectors
<1>7. p.kind = Patterns!Detectors[d] /\ detects(d)
  BY <1>3
<1> QED BY <1>3, <1>5, <1>6, <1>7

(* At most one column is said to hold most of the mismatches.               *)
LEMMA ConcentrationIsOne ==
  ASSUME NEW m, IsMismatchFrame(m), NEW p \in Patterns!Concentrations(m)
  PROVE  /\ p.kind = "column-concentration" /\ p.rows \in Nat /\ p.column \in Int
         /\ Patterns!Concentrations(m) = {p}
<1> DEFINE n(c) == Patterns!Cardinality(Patterns!HitRows(m, c))
           hit == HitColumns(m)
           counts == {n(c) : c \in hit}
           first == CHOOSE c \in hit : \A d \in hit : n(d) <= n(c)
           only == [kind |-> "column-concentration", column |-> first, rows |-> n(first)]
<1>1. hit # {} /\ Patterns!Concentrations(m) = {only}
  BY DEF Patterns!Concentrations, HitColumns
<1>2. \A c : n(c) \in Nat
  BY RowsAreFinite
<1>3. IsFiniteSet(hit) /\ hit \subseteq Int
  BY FS_Subset DEF IsMismatchFrame, HitColumns
<1>4. IsFiniteSet(counts) /\ counts # {} /\ counts \subseteq Int
  <2> DEFINE f == [c \in hit |-> n(c)]
  <2> HIDE DEF n
  <2>1. f \in Surjection(hit, counts)
    BY DEF Surjection
  <2> QED BY <1>1, <1>2, <1>3, <2>1, FS_Surjection
<1>5. \E c \in hit : \A d \in hit : n(d) <= n(c)
  <2> HIDE DEF n
  <2>1. Max(counts) \in counts /\ \A y \in counts : Max(counts) >= y
    BY <1>4, FiniteBounds
  <2>2. PICK c \in hit : n(c) = Max(counts)
    BY <2>1
  <2> QED BY <1>2, <2>1, <2>2
<1>6. first \in hit
  BY <1>5
<1> HIDE DEF first, n
<1> QED BY <1>1, <1>2, <1>3, <1>6

(* The explanations of a frame are finitely many and can be compared.       *)
LEMMA PatternsAreComparable ==
  ASSUME NEW m, IsMismatchFrame(m)
  PROVE  /\ IsFiniteSet(Patterns!Concentrations(m) \cup AllExplanations(m))
         /\ Comparable(Patterns!Concentrations(m) \cup AllExplanations(m))
<1> DEFINE where == Patterns!Concentrations(m)
           what  == AllExplanations(m)
           sets  == {Patterns!Explanations(m, c) : c \in HitColumns(m)}
<1>1. IsFiniteSet(HitColumns(m)) /\ HitColumns(m) \subseteq Int
  BY FS_Subset DEF IsMismatchFrame, HitColumns
<1>2. IsFiniteSet(sets)
  <2> DEFINE f == [c \in HitColumns(m) |-> Patterns!Explanations(m, c)]
  <2>1. f \in Surjection(HitColumns(m), sets)
    BY DEF Surjection
  <2> QED BY <1>1, <2>1, FS_Surjection
<1>3. \A E \in sets : IsFiniteSet(E)
  <2> SUFFICES ASSUME NEW c \in HitColumns(m) PROVE IsFiniteSet(Patterns!Explanations(m, c))
    OBVIOUS
  <2>1. CASE Patterns!Explanations(m, c) = {}
    BY <2>1, FS_EmptySet
  <2>2. CASE \E p : p \in Patterns!Explanations(m, c)
    <3>1. PICK p : p \in Patterns!Explanations(m, c)
      BY <2>2
    <3>2. Patterns!Explanations(m, c) = {p}
      BY <3>1, ExplainedOnce
    <3> QED BY <3>2, FS_Singleton
  <2> QED BY <2>1, <2>2
<1>4. IsFiniteSet(what)
  BY <1>2, <1>3, FS_UNION DEF AllExplanations
<1>5. IsFiniteSet(where)
  <2>1. CASE where = {}
    BY <2>1, FS_EmptySet
  <2>2. CASE \E p : p \in where
    <3>1. PICK p : p \in where
      BY <2>2
    <3>2. where = {p}
      BY <3>1, ConcentrationIsOne
    <3> QED BY <3>2, FS_Singleton
  <2> QED BY <2>1, <2>2
<1>6. IsFiniteSet(where \cup what)
  BY <1>4, <1>5, FS_Union
<1>7. ASSUME NEW p \in what
      PROVE  /\ p.rows \in Nat /\ p.column \in Int /\ p.kind # "column-concentration"
             /\ p \in Patterns!Explanations(m, p.column)
  <2>1. PICK c \in HitColumns(m) : p \in Patterns!Explanations(m, c)
    BY DEF AllExplanations
  <2> QED BY <1>1, <2>1, ExplainedOnce, RowsAreFinite
<1>8. ASSUME NEW p \in what, NEW q \in what, p.column = q.column PROVE p = q
  <2>1. Patterns!Explanations(m, p.column) = {p} /\ q \in Patterns!Explanations(m, p.column)
    BY <1>7, <1>8, ExplainedOnce
  <2> QED BY <2>1
<1>9. \A p \in where : p.kind = "column-concentration" /\ p.rows \in Nat /\ p.column \in Int
                         /\ where = {p}
  BY ConcentrationIsOne
<1>10. Comparable(where \cup what)
  <2> HIDE DEF where, what
  <2> QED BY <1>7, <1>8, <1>9 DEF Comparable
<1> QED BY <1>6, <1>10

(* The median of what the rows give.                                        *)
IsFraction(x) == x[1] \in Int /\ x[2] \in Nat \ {0}

(* A positive factor can be taken off both sides.                           *)
LEMMA CancelFactor ==
  ASSUME NEW d \in Nat \ {0}, NEW a \in Int, NEW b \in Int, d * a <= d * b
  PROVE  a <= b
<1>1. SUFFICES ASSUME b + 1 <= a PROVE FALSE
  OBVIOUS
<1>2. d * (b + 1) <= d * a
  BY <1>1, TimesIsMonotone
<1>3. d * (b + 1) = d * b + d
  OBVIOUS
<1>4. d * a \in Int /\ d * b \in Int
  OBVIOUS
<1> QED BY <1>2, <1>3, <1>4

(* Being no less is transitive on fractions.                                *)
LEMMA FractionsAreOrdered ==
  ASSUME NEW x, NEW y, NEW z, IsFraction(x), IsFraction(y), IsFraction(z),
         ~Patterns!Less(y, x), ~Patterns!Less(z, y)
  PROVE  ~Patterns!Less(z, x)
<1> DEFINE a == x[1]
           b == x[2]
           c == y[1]
           d == y[2]
           e == z[1]
           f == z[2]
<1>1. /\ a \in Int /\ b \in Nat \ {0} /\ c \in Int /\ d \in Nat \ {0}
      /\ e \in Int /\ f \in Nat \ {0}
  BY DEF IsFraction
<1>2. ~(c * b < a * d) /\ ~(e * d < c * f)
  BY DEF Patterns!Less
<1> HIDE DEF a, b, c, d, e, f
<1>3. /\ a * d \in Int /\ c * b \in Int /\ c * f \in Int /\ e * d \in Int
      /\ a * f \in Int /\ e * b \in Int
  BY <1>1
<1>4. f * (a * d) <= f * (c * b) /\ b * (c * f) <= b * (e * d)
  BY <1>1, <1>2, <1>3, TimesIsMonotone
<1>5. f * (a * d) = d * (a * f) /\ f * (c * b) = b * (c * f) /\ b * (e * d) = d * (e * b)
  BY <1>1
<1>6. d * (a * f) \in Int /\ d * (e * b) \in Int /\ b * (c * f) \in Int
  BY <1>1, <1>3
<1>7. d * (a * f) <= d * (e * b)
  BY <1>4, <1>5, <1>6
<1>8. a * f <= e * b
  BY <1>1, <1>3, <1>7, CancelFactor
<1>9. ~(e * b < a * f)
  BY <1>3, <1>8
<1> QED BY <1>9 DEF Patterns!Less, a, b, e, f

(* Of finitely many fractions one is in each place.                         *)
LEMMA RankedIsFraction ==
  ASSUME NEW D, IsFiniteSet(D), NEW value, DOMAIN value = D,
         \A i \in D : IsFraction(value[i]), NEW p \in 1 .. Cardinality(D)
  PROVE  IsFraction(Patterns!Ranked(value, p))
<1> DEFINE below == [i \in D |-> {k \in D : Patterns!Less(value[k], value[i])}]
           upto  == [i \in D |-> {k \in D : ~Patterns!Less(value[i], value[k])}]
           under == [i \in D |-> Cardinality(below[i])]
           size  == [i \in D |-> Cardinality(upto[i])]
<1>1. Cardinality(D) \in Nat
  BY FS_CardinalityType
<1>2. /\ \A i \in D : /\ below[i] \in SUBSET D /\ upto[i] \in SUBSET D
                      /\ IsFiniteSet(below[i]) /\ IsFiniteSet(upto[i])
                      /\ under[i] = Cardinality(below[i]) /\ size[i] = Cardinality(upto[i])
      /\ under \in [D -> Nat] /\ size \in [D -> Nat]
  BY FS_Subset, FS_CardinalityType
<1>3. \A i, k \in D : Patterns!Less(value[i], value[k]) => ~Patterns!Less(value[k], value[i])
  BY DEF IsFraction, Patterns!Less
<1>4. \A i, k \in D : /\ k \in below[i] <=> Patterns!Less(value[k], value[i])
                      /\ k \in upto[i] <=> ~Patterns!Less(value[i], value[k])
  OBVIOUS
<1> HIDE DEF below, upto, under, size
<1>5. ASSUME NEW k \in D, NEW i \in below[k] PROVE i \in D /\ size[i] < size[k]
  <2>1. i \in D /\ Patterns!Less(value[i], value[k]) /\ ~Patterns!Less(value[k], value[i])
    BY <1>2, <1>3, <1>4
  <2>2. ASSUME NEW j \in upto[i] PROVE j \in upto[k]
    <3>1. j \in D /\ ~Patterns!Less(value[i], value[j])
      BY <1>2, <1>4, <2>1
    <3>2. IsFraction(value[i]) /\ IsFraction(value[j]) /\ IsFraction(value[k])
      BY <2>1, <3>1
    <3>3. ~Patterns!Less(value[k], value[j])
      BY <2>1, <3>1, <3>2, FractionsAreOrdered
    <3> QED BY <1>4, <3>1, <3>3
  <2>3. k \in upto[k] /\ k \notin upto[i]
    BY <1>3, <1>4, <2>1
  <2>4. upto[i] \in SUBSET upto[k] /\ upto[i] # upto[k] /\ IsFiniteSet(upto[k])
    BY <1>2, <2>2, <2>3
  <2>5. /\ Cardinality(upto[i]) <= Cardinality(upto[k])
        /\ Cardinality(upto[i]) = Cardinality(upto[k]) => upto[i] = upto[k]
    BY <2>4, FS_Subset
  <2>6. size[i] <= size[k] /\ size[i] # size[k] /\ size[i] \in Nat /\ size[k] \in Nat
    BY <1>2, <2>1, <2>4, <2>5
  <2> QED BY <2>1, <2>6
(* Of a set of places the one with most up to it, and the one with fewest.  *)
<1>6. ASSUME NEW S \in SUBSET D, S # {}
      PROVE  /\ \E i \in S : \A k \in S : size[k] <= size[i]
             /\ \E i \in S : \A k \in S : size[i] <= size[k]
  <2> DEFINE sizes == {size[i] : i \in S}
             f == [i \in S |-> size[i]]
  <2>1. f \in Surjection(S, sizes) /\ IsFiniteSet(S)
    BY FS_Subset DEF Surjection
  <2>2. IsFiniteSet(sizes)
    BY <2>1, FS_Surjection
  <2>3. sizes \subseteq Int /\ sizes # {}
    BY <1>2, <1>6
  <2>4. \A k \in S : size[k] \in sizes
    OBVIOUS
  <2>5. \A y \in sizes : \E k \in S : y = size[k]
    OBVIOUS
  <2> HIDE DEF sizes
  <2>6. /\ Max(sizes) \in sizes /\ \A y \in sizes : Max(sizes) >= y
        /\ Min(sizes) \in sizes /\ \A y \in sizes : Min(sizes) <= y
    BY <2>2, <2>3, FiniteBounds
  <2>7. PICK i \in S : Max(sizes) = size[i]
    BY <2>5, <2>6
  <2>8. PICK j \in S : Min(sizes) = size[j]
    BY <2>5, <2>6
  <2>9. \A k \in S : size[k] <= size[i] /\ size[j] <= size[k]
    BY <1>2, <2>4, <2>6, <2>7, <2>8
  <2> QED BY <2>9
<1> DEFINE enough == {i \in D : p <= size[i]}
<1>7. enough # {}
  <2>1. D # {}
    BY <1>1, FS_EmptySet
  <2>2. PICK i \in D : \A k \in D : size[k] <= size[i]
    BY <1>6, <2>1
  <2>3. upto[i] = D
    <3>1. ASSUME NEW k \in D PROVE k \in upto[i]
      <4>1. SUFFICES ASSUME i \in below[k] PROVE FALSE
        BY <1>4
      <4>2. size[i] < size[k] /\ size[k] <= size[i] /\ size[i] \in Nat /\ size[k] \in Nat
        BY <1>2, <1>5, <2>2, <4>1
      <4> QED BY <4>2
    <3> QED BY <1>2, <3>1
  <2>4. size[i] = Cardinality(D)
    BY <1>2, <2>3
  <2>5. p <= size[i]
    BY <1>1, <2>4
  <2> QED BY <2>5
<1>8. enough \in SUBSET D
  OBVIOUS
<1>9. \E i \in enough : \A k \in enough : size[i] <= size[k]
  <2> HIDE DEF enough
  <2> QED BY <1>6, <1>7, <1>8
<1>10. PICK i \in enough : \A k \in enough : size[i] <= size[k]
  BY <1>9
<1>11. i \in D /\ p <= size[i]
  BY <1>10
<1>12. under[i] < p
  <2> SUFFICES ASSUME p <= under[i] PROVE FALSE
    BY <1>1, <1>2, <1>11
  <2>1. below[i] # {} /\ below[i] \in SUBSET D
    <3>1. under[i] # 0
      BY <1>1
    <3> QED BY <1>2, <1>11, <3>1, FS_EmptySet
  <2>2. PICK j \in below[i] : \A k \in below[i] : size[k] <= size[j]
    BY <1>6, <2>1
  <2>3. ASSUME NEW k \in below[i] PROVE k \in upto[j]
    <3>1. j \in D /\ k \in D
      BY <2>1
    <3>2. SUFFICES ASSUME j \in below[k] PROVE FALSE
      BY <1>4, <3>1
    <3>3. size[j] < size[k] /\ size[k] <= size[j] /\ size[j] \in Nat /\ size[k] \in Nat
      BY <1>2, <1>5, <2>2, <3>1, <3>2
    <3> QED BY <3>3
  <2>4. j \in D /\ below[i] \in SUBSET upto[j] /\ IsFiniteSet(upto[j])
    BY <1>2, <2>1, <2>3
  <2>5. under[i] <= size[j]
    BY <1>2, <1>11, <2>4, FS_Subset
  <2>6. size[j] < size[i] /\ size[i] \in Nat /\ size[j] \in Nat /\ under[i] \in Nat
    BY <1>2, <1>5, <1>11, <2>4
  <2>7. j \in enough
    BY <1>1, <2>4, <2>5, <2>6
  <2>8. size[i] <= size[j]
    BY <1>10, <2>7
  <2> QED BY <2>6, <2>8
<1>13. Patterns!Ranked(value, p) \in {value[k] : k \in D}
  <2> DEFINE place(k) == /\ Cardinality({j \in D : Patterns!Less(value[j], value[k])}) < p
                         /\ p <= Cardinality({j \in D : ~Patterns!Less(value[k], value[j])})
  <2>1. i \in D /\ place(i)
    BY <1>11, <1>12 DEF under, size, below, upto
  <2>2. Patterns!Ranked(value, p) = value[CHOOSE k \in D : place(k)]
    BY SameLibrary DEF Patterns!Ranked
  <2> HIDE DEF place
  <2> QED BY <2>1, <2>2
<1> QED BY <1>13

(* The median of fractions is a fraction.                                   *)
LEMMA MedianIsFraction ==
  ASSUME NEW D, IsFiniteSet(D), D # {}, NEW value, DOMAIN value = D,
         \A i \in D : IsFraction(value[i])
  PROVE  IsFraction(Patterns!Median(value))
<1> DEFINE n == Cardinality(D)
<1>1. n \in Nat /\ n # 0
  BY FS_CardinalityType, FS_EmptySet
<1> HIDE DEF n
<1>2. (n + 1) \div 2 \in 1 .. n /\ (n \div 2) + 1 \in 1 .. n
  BY <1>1
<1> DEFINE x == Patterns!Ranked(value, (n + 1) \div 2)
           y == Patterns!Ranked(value, (n \div 2) + 1)
<1>3. IsFraction(x) /\ IsFraction(y)
  BY <1>2, RankedIsFraction DEF n
<1>4. Patterns!Median(value) = Patterns!Mean(x, y)
  BY SameLibrary DEF Patterns!Median, n
<1> HIDE DEF x, y
<1>5. x[2] * y[2] \in Nat /\ x[2] * y[2] # 0 /\ x[1] * y[2] \in Int /\ y[1] * x[2] \in Int
  BY <1>3 DEF IsFraction
<1> QED BY <1>4, <1>5 DEF Patterns!Mean, IsFraction

(* A ratio that passes for the factor says that the target is that many     *)
(* times the source.                                                        *)
LEMMA NearIsTimes ==
  ASSUME NEW a \in Int, a # 0, NEW b \in Int, NEW f, IsFraction(f),
         Patterns!NearFactor(f, Patterns!Ratio(a, b))
  PROVE  Patterns!IsTimes(f, a, b)
<1> DEFINE r == Patterns!Ratio(a, b)
           g == f[1]
           h == f[2]
<1>1. g \in Int /\ h \in Int
  BY DEF IsFraction
<1> HIDE DEF g, h
<1>2. r[2] = Patterns!Abs(a)
  BY DEF Patterns!Ratio, Patterns!Abs
<1>3. Patterns!Abs(r[1] * h - g * r[2]) = Patterns!Abs(b * h - g * a)
  <2> DEFINE x == b * h - g * a
  <2>1. x \in Int /\ (-b) * h - g * (-a) = -x
    BY <1>1
  <2>2. r[1] * h - g * r[2] = x \/ r[1] * h - g * r[2] = -x
    BY <2>1 DEF Patterns!Ratio
  <2> HIDE DEF x, r
  <2>3. Patterns!Abs(-x) = Patterns!Abs(x)
    BY <2>1 DEF Patterns!Abs
  <2> QED BY <2>2, <2>3 DEF x
<1> HIDE DEF r
<1> QED BY <1>2, <1>3 DEF Patterns!NearFactor, Patterns!IsTimes, r, g, h

(* A factor near minus one says that the signs are opposite.                *)
LEMMA MinusIsOpposite ==
  ASSUME NEW a \in Int, a # 0, NEW b \in Int, NEW f, IsFraction(f),
         Patterns!Abs(f[1] + f[2]) * Rtol < f[2], Patterns!IsTimes(f, a, b)
  PROVE  Patterns!Opposite(a, b)
<1> DEFINE g == -f[1]
           h == f[2]
           s == Patterns!Abs(a)
           t == IF a < 0 THEN -b ELSE b
<1>0. Rtol \in Nat /\ Rtol >= 2 /\ Atol \in Nat /\ Atol >= 4
  BY ToleranceAssumption
<1>1. g \in Int /\ h \in Nat \ {0} /\ s \in Nat \ {0} /\ t \in Int /\ f[1] = -g /\ f[1] \in Int
  BY DEF IsFraction, Patterns!Abs
<1>2. SUFFICES ASSUME t >= 0 PROVE FALSE
  BY DEF Patterns!Opposite
(* The factor is at most minus a half.                                      *)
<1>3. 2 * g > h /\ Rtol * g >= (Rtol - 1) * h
  <2> DEFINE e == Patterns!Abs(f[1] + f[2])
  <2>1. e \in Nat /\ h - g <= e
    BY <1>1 DEF Patterns!Abs
  <2>2. e * Rtol < h
    BY <1>1
  <2> HIDE DEF e, g, h
  <2>3. Rtol * (h - g) <= Rtol * e
    BY <1>0, <1>1, <2>1, TimesIsMonotone
  <2>4. Rtol * (h - g) = Rtol * h - Rtol * g /\ (Rtol - 1) * h = Rtol * h - h
    BY <1>0, <1>1
  <2>5. Rtol * h \in Int /\ Rtol * g \in Int /\ Rtol * e \in Int /\ e * Rtol = Rtol * e
    BY <1>0, <1>1, <2>1
  <2>6. Rtol * g >= (Rtol - 1) * h /\ Rtol * h - Rtol * g < h
    BY <2>2, <2>3, <2>4, <2>5, <1>1
  <2>7. 2 * e < h
    <3>1. e * 2 <= e * Rtol
      BY <1>0, <2>1
    <3> QED BY <2>1, <2>2, <2>5, <3>1, <1>1
  <2> QED BY <1>1, <2>1, <2>6, <2>7
<1>4. (t * h + g * s) * (Atol * Rtol) <= s * (h * Rtol + g * Atol)
  <2>1. g > 0
    BY <1>1, <1>3
  <2>2. Patterns!Abs(f[1]) = g
    BY <1>1, <2>1 DEF Patterns!Abs
  <2>3. Patterns!Abs(b * h - f[1] * a) = t * h + g * s
    <3>1. t * h \in Nat /\ g * s \in Nat
      BY <1>1, <1>2, <2>1
    <3>2. b * h - f[1] * a = IF a < 0 THEN -(t * h + g * s) ELSE t * h + g * s
      <4>1. CASE a < 0
        <5>1. b = -t /\ a = -s
          BY <4>1, <1>1 DEF Patterns!Abs
        <5> HIDE DEF g, h, s, t
        <5>2. (-t) * h - (-g) * (-s) = -(t * h + g * s)
          BY <1>1
        <5> QED BY <1>1, <4>1, <5>1, <5>2
      <4>2. CASE a >= 0
        <5>1. b = t /\ a = s
          BY <4>2, <1>1 DEF Patterns!Abs
        <5> HIDE DEF g, h, s, t
        <5>2. t * h - (-g) * s = t * h + g * s
          BY <1>1
        <5> QED BY <1>1, <4>2, <5>1, <5>2
      <4> QED BY <4>1, <4>2
    <3> HIDE DEF g, h, s, t
    <3> QED BY <3>1, <3>2 DEF Patterns!Abs
  <2> QED BY <2>2, <2>3 DEF Patterns!IsTimes
<1> HIDE DEF g, h, s, t
<1>5. g * (Atol * Rtol) <= h * Rtol + g * Atol
  <2> DEFINE k == Atol * Rtol
  <2>1. k \in Nat
    BY <1>0
  <2> HIDE DEF k
  <2>2. t * h \in Nat /\ g * s \in Int
    BY <1>1, <1>2
  <2>3. (t * h) * k \in Nat
    BY <2>1, <2>2
  <2>4. (t * h + g * s) * k = (t * h) * k + s * (g * k)
    BY <1>1, <2>1, <2>2
  <2>5. s * (g * k) \in Int /\ s * (h * Rtol + g * Atol) \in Int /\ g * k \in Int
        /\ h * Rtol + g * Atol \in Int
    BY <1>0, <1>1, <2>1
  <2>6. s * (g * k) <= s * (h * Rtol + g * Atol)
    BY <1>4, <2>3, <2>4, <2>5 DEF k
  <2> QED BY <1>1, <2>5, <2>6, CancelFactor DEF k
(* But so large a factor cannot lie within the tolerances of zero.          *)
<1>6. 2 * (g * (Atol * Rtol)) >= 2 * (g * Atol) + 2 * (g * (Atol * (Rtol - 1)))
  BY <1>0, <1>1
<1>7. g * (Atol * (Rtol - 1)) <= h * Rtol
  BY <1>0, <1>1, <1>5
<1>8. g * (Atol * (Rtol - 1)) > h * Rtol
  <2> DEFINE q == Rtol - 1
  <2>1. q \in Nat \ {0} /\ Rtol = q + 1
    BY <1>0
  <2> HIDE DEF q
  <2>2. g \in Nat
    BY <1>1, <1>3
  <2>3. 4 * (g * q) <= g * (Atol * q)
    <3>1. g * q \in Nat
      BY <2>1, <2>2
    <3>2. (g * q) * 4 <= (g * q) * Atol
      BY <1>0, <3>1
    <3> QED BY <1>0, <2>1, <2>2, <3>1, <3>2
  <2>4. 2 * (g * q) > h * q
    <3>1. q * (2 * g - h) > 0
      BY <1>1, <1>3, <2>1
    <3> QED BY <1>1, <2>1, <3>1
  <2>5. h * q >= h
    BY <1>1, <2>1
  <2>6. h * Rtol = h * q + h
    BY <1>1, <2>1
  <2>7. h * q \in Int /\ g * q \in Int /\ g * (Atol * q) \in Int
    BY <1>0, <1>1, <2>1
  <2> QED BY <1>1, <2>3, <2>4, <2>5, <2>6, <2>7 DEF q
<1>9. g * (Atol * (Rtol - 1)) \in Int /\ h * Rtol \in Int
  BY <1>0, <1>1
<1> QED BY <1>7, <1>8, <1>9

(* Where every difference is near the offset, none is much larger.          *)
LEMMA OffsetIsNear ==
  ASSUME NEW d \in Int, NEW f, IsFraction(f), NEW most \in Nat,
         Patterns!Abs(d * f[2] - f[1] * One) * Rtol <= most,
         most = Patterns!Abs(d) * f[2]
  PROVE  most <= 2 * (Patterns!Abs(f[1]) * One)
<1> DEFINE x == d * f[2]
           y == f[1] * One
           e == Patterns!Abs(x - y)
<1>0. Rtol \in Nat /\ Rtol >= 2 /\ One \in Nat \ {0}
  BY ToleranceAssumption, TasksAssumption
<1>1. x \in Int /\ y \in Int /\ f[1] \in Int /\ f[2] \in Nat
  BY <1>0 DEF IsFraction
<1>2. \A u \in Int, n \in Nat : Patterns!Abs(u) * n = Patterns!Abs(u * n)
  <2> SUFFICES ASSUME NEW u \in Int, NEW n \in Nat
               PROVE  Patterns!Abs(u) * n = Patterns!Abs(u * n)
    OBVIOUS
  <2>1. CASE u >= 0
    <3>1. u * n >= 0
      BY <2>1
    <3> QED BY <2>1, <3>1 DEF Patterns!Abs
  <2>2. CASE u < 0
    <3>1. (-u) * n >= 0 /\ (-u) * n = -(u * n)
      BY <2>2
    <3>2. CASE u * n < 0
      BY <2>2, <3>1, <3>2 DEF Patterns!Abs
    <3>3. CASE ~(u * n < 0)
      <4>1. u * n = 0
        BY <3>1, <3>3
      <4> QED BY <2>2, <3>1, <4>1 DEF Patterns!Abs
    <3> QED BY <3>2, <3>3
  <2> QED BY <2>1, <2>2
<1>3. most = Patterns!Abs(x) /\ Patterns!Abs(f[1]) * One = Patterns!Abs(y)
  BY <1>0, <1>1, <1>2
<1> HIDE DEF x, y
<1>4. e \in Nat /\ Patterns!Abs(x) <= Patterns!Abs(y) + e
  BY <1>1 DEF Patterns!Abs
<1>5. e * Rtol <= most
  BY DEF x, y
<1> HIDE DEF e
<1>6. e * 2 <= e * Rtol
  BY <1>0, <1>4
<1>7. e * Rtol \in Nat /\ Patterns!Abs(y) \in Nat
  BY <1>0, <1>1, <1>4 DEF Patterns!Abs
<1> QED BY <1>3, <1>4, <1>5, <1>6, <1>7

(* Every detector that fires has looked at every row its headline counts.   *)
Whole(m, c) == {i \in Patterns!HitRows(m, c) : NULL \notin ToSet(m.rows[i].cell[c])}

(* What a detector says of the rows it has looked at is so in each of them. *)
LEMMA DetectorsAreSo ==
  ASSUME NEW m, IsMismatchFrame(m), NEW c \in DOMAIN m.kind,
         NEW kind \in {Patterns!Detectors[d] : d \in 1 .. 10}, Patterns!Detects(kind, m, c),
         NEW i \in Whole(m, c)
  PROVE  LET v == m.rows[i].cell[c]
         IN  Patterns!Says(kind, Patterns!Figure(kind, m, c), v[1], v[2])
<1> DEFINE rows == Patterns!AlignedRows(m, c)
           a == [j \in DOMAIN m.rows |-> m.rows[j].cell[c][1]]
           b == [j \in DOMAIN m.rows |-> m.rows[j].cell[c][2]]
<1>1. /\ Whole(m, c) = rows /\ i \in rows /\ rows \subseteq DOMAIN m.rows
      /\ rows \subseteq Patterns!HitRows(m, c)
  BY SameLibrary, RowsAreFinite DEF Whole, Patterns!AlignedRows
<1>2. ASSUME NEW j \in rows
      PROVE  /\ a[j] = m.rows[j].cell[c][1] /\ b[j] = m.rows[j].cell[c][2]
             /\ a[j] # b[j] /\ a[j] # NULL /\ b[j] # NULL
             /\ m.kind[c] = "text" => IsText(a[j]) /\ IsText(b[j])
             /\ m.kind[c] # "text" => a[j] \in Int /\ b[j] \in Int
  <2>1. j \in DOMAIN m.rows /\ c \in m.rows[j].columns
    BY <1>1 DEF Patterns!HitRows
  <2> DEFINE v == m.rows[j].cell[c]
  <2>2. /\ DOMAIN v = {1, 2} /\ v[1] # v[2]
        /\ v[1] = NULL \/ IF m.kind[c] = "text" THEN IsText(v[1]) ELSE v[1] \in Int
        /\ v[2] = NULL \/ IF m.kind[c] = "text" THEN IsText(v[2]) ELSE v[2] \in Int
    BY <2>1 DEF IsMismatchFrame
  <2>3. NULL \notin ToSet(v)
    BY <1>1 DEF Whole
  <2>4. v[1] # NULL /\ v[2] # NULL
    BY <2>2, <2>3 DEF ToSet
  <2> HIDE DEF v
  <2>5. a[j] = v[1] /\ b[j] = v[2]
    BY <2>1 DEF v
  <2> HIDE DEF a, b
  <2> QED BY <2>2, <2>4, <2>5 DEF v
<1>3. kind \in {"null-on-source", "null-on-target", "whitespace-only", "case-only",
                "truncation", "sign-flip", "constant-ratio", "constant-offset",
                "rounding", "time-shift"}
  BY DEF Patterns!Detectors
<1> DEFINE u == Patterns!Figure(kind, m, c)
<1>4. IsFiniteSet(rows) /\ rows # {}
  BY <1>1, RowsAreFinite
<1>5. SUFFICES Patterns!Says(kind, u, a[i], b[i])
  BY <1>1, <1>2
<1> HIDE DEF u, a, b, rows
<1>6. CASE kind = "null-on-source"
  <2>1. a[i] = NULL
    BY <1>1, <1>6 DEF Patterns!Detects, a, rows
  <2> QED BY <1>1, <1>2, <2>1
<1>7. CASE kind = "null-on-target"
  <2>1. b[i] = NULL
    BY <1>1, <1>7 DEF Patterns!Detects, b, rows
  <2> QED BY <1>1, <1>2, <2>1
<1>8. CASE kind = "whitespace-only"
  <2>1. m.kind[c] = "text" /\ Patterns!Strip(a[i]) = Patterns!Strip(b[i])
    BY <1>1, <1>8 DEF Patterns!Detects, a, b, rows
  <2>2. IsText(a[i]) /\ IsText(b[i]) /\ a[i] # b[i]
    BY <1>1, <1>2, <2>1
  <2>3. [a[i] EXCEPT !.padded = b[i].padded] = b[i]
    BY <2>1, <2>2 DEF IsText, Patterns!Strip
  <2> QED BY <1>8, <2>2, <2>3 DEF Patterns!Says
<1>9. CASE kind = "case-only"
  <2>1. m.kind[c] = "text" /\ Patterns!Lower(a[i]) = Patterns!Lower(b[i])
    BY <1>1, <1>9 DEF Patterns!Detects, a, b, rows
  <2>2. IsText(a[i]) /\ IsText(b[i]) /\ a[i] # b[i]
    BY <1>1, <1>2, <2>1
  <2>3. [a[i] EXCEPT !.upper = b[i].upper] = b[i]
    BY <2>1, <2>2 DEF IsText, Patterns!Lower
  <2> QED BY <1>9, <2>2, <2>3 DEF Patterns!Says
<1>10. CASE kind = "truncation"
  <2>1. m.kind[c] = "text" /\ Patterns!Prefix(b[i], a[i])
    BY <1>1, <1>10 DEF Patterns!Detects, a, b, rows
  <2>2. IsText(a[i]) /\ IsText(b[i]) /\ a[i] # b[i]
    BY <1>1, <1>2, <2>1
  <2>3. b[i].word = a[i].word /\ b[i].cut >= a[i].cut
    BY <2>1, <2>2 DEF IsText, Patterns!Prefix
  <2> QED BY <1>10, <2>2, <2>3 DEF Patterns!Says
<1>11. CASE kind \in {"sign-flip", "constant-ratio"}
  <2> DEFINE factor == Patterns!Factor(rows, a, b)
  <2>1. /\ m.kind[c] = "number" /\ Patterns!SameRatio(rows, a, b)
        /\ kind = "sign-flip" => Patterns!Abs(factor[1] + factor[2]) * Rtol < factor[2]
    BY <1>11 DEF Patterns!Detects, a, b, rows
  <2>2. u = factor
    BY <1>11 DEF Patterns!Figure, a, b, rows, u
  <2>3. \A j \in rows : a[j] \in Int \ {0} /\ b[j] \in Int
    BY <1>2, <2>1 DEF Patterns!SameRatio
  <2>4. \A j \in rows : IsFraction(Patterns!Ratio(a[j], b[j]))
    BY <2>3 DEF Patterns!Ratio, IsFraction
  <2>5. IsFraction(u)
    <3> DEFINE value == [j \in rows |-> Patterns!Ratio(a[j], b[j])]
    <3>1. DOMAIN value = rows /\ \A j \in rows : IsFraction(value[j])
      BY <2>4
    <3>2. u = Patterns!Median(value)
      BY <2>2 DEF Patterns!Factor
    <3> HIDE DEF value
    <3> QED BY <1>4, <3>1, <3>2, MedianIsFraction
  <2>6. Patterns!NearFactor(u, Patterns!Ratio(a[i], b[i]))
    BY <1>1, <2>1, <2>2 DEF Patterns!SameRatio
  <2>7. a[i] \in Int /\ a[i] # 0 /\ b[i] \in Int
    BY <1>1, <2>3
  <2>8. Patterns!IsTimes(u, a[i], b[i])
    BY <2>5, <2>6, <2>7, NearIsTimes
  <2>9. CASE kind = "sign-flip"
    <3>1. Patterns!Abs(u[1] + u[2]) * Rtol < u[2]
      BY <2>1, <2>2, <2>9
    <3>2. Patterns!Opposite(a[i], b[i])
      BY <2>5, <2>7, <2>8, <3>1, MinusIsOpposite
    <3> QED BY <2>8, <2>9, <3>2 DEF Patterns!Says
  <2>10. CASE kind = "constant-ratio"
    BY <2>7, <2>8, <2>10 DEF Patterns!Says
  <2> QED BY <1>11, <2>9, <2>10
<1>12. CASE kind = "constant-offset"
  <2> DEFINE d == [j \in rows |-> b[j] - a[j]]
             value == [j \in rows |-> <<d[j], One>>]
             large == Patterns!Abs(u[1]) * One
             one == u[2] * One
             far == [j \in rows |-> Patterns!Abs(d[j]) * u[2]]
             S == {large, one} \cup {far[j] : j \in rows}
             T == {large, one}
             off(j) == Patterns!Abs(d[j] * u[2] - u[1] * One)
  <2>0. One \in Nat \ {0} /\ Rtol \in Nat /\ Rtol >= 2
    BY TasksAssumption, ToleranceAssumption
  <2>1. m.kind[c] = "number" /\ Patterns!SameOffset(rows, a, b)
    BY <1>12 DEF Patterns!Detects, a, b, rows
  <2>2. u = Patterns!Offset(rows, a, b)
    BY <1>12 DEF Patterns!Figure, a, b, rows, u
  <2>3. \A j \in rows : a[j] \in Int /\ b[j] \in Int /\ d[j] \in Int
    BY <1>2, <2>1
  <2>4. IsFraction(u)
    <3>1. DOMAIN value = rows /\ \A j \in rows : IsFraction(value[j])
      BY <2>0, <2>3 DEF IsFraction
    <3>2. value = [j \in rows |-> <<b[j] - a[j], One>>]
      OBVIOUS
    <3>3. u = Patterns!Median(value)
      BY <2>2, <3>2 DEF Patterns!Offset
    <3> HIDE DEF value
    <3> QED BY <1>4, <3>1, <3>3, MedianIsFraction
  <2>5. \A j \in rows : off(j) * Rtol <= Max(S)
    <3>1. \A j \in rows :
            Patterns!Abs((b[j] - a[j]) * u[2] - u[1] * One) * Rtol
              <= Patterns!Max({large, one} \cup {Patterns!Abs(b[j1] - a[j1]) * u[2] : j1 \in rows})
      BY <2>1, <2>2 DEF Patterns!SameOffset
    <3>2. {Patterns!Abs(b[j] - a[j]) * u[2] : j \in rows} = {far[j] : j \in rows}
      OBVIOUS
    <3> HIDE DEF large, one, far
    <3>3. \A j \in rows : Patterns!Abs((b[j] - a[j]) * u[2] - u[1] * One) * Rtol <= Max(S)
      BY <3>1, <3>2, SameLibrary
    <3> HIDE DEF S
    <3> QED BY <3>3
  <2>6. /\ large \in Nat /\ one \in Nat /\ \A j \in rows : far[j] \in Nat
    <3>1. u[1] \in Int /\ u[2] \in Nat /\ Patterns!Abs(u[1]) \in Nat
      BY <2>4 DEF IsFraction, Patterns!Abs
    <3>2. \A j \in rows : Patterns!Abs(d[j]) \in Nat
      <4> HIDE DEF d
      <4> QED BY <2>3 DEF Patterns!Abs
    <3> HIDE DEF d
    <3> QED BY <2>0, <3>1, <3>2
  <2> HIDE DEF large, one
  <2>7. IsFiniteSet(S) /\ S \subseteq Int /\ S # {} /\ IsFiniteSet(T) /\ T \subseteq Int /\ T # {}
    <3> HIDE DEF far
    <3> DEFINE g == [j \in rows |-> far[j]]
               R == {far[j] : j \in rows}
    <3>1. g \in Surjection(rows, R)
      BY DEF Surjection
    <3> HIDE DEF g
    <3>2. IsFiniteSet(R)
      BY <1>4, <3>1, FS_Surjection
    <3>3. IsFiniteSet(T)
      <4>1. T = {large} \cup {one}
        OBVIOUS
      <4>2. IsFiniteSet({large}) /\ IsFiniteSet({one})
        BY FS_Singleton
      <4>3. IsFiniteSet({large} \cup {one})
        BY <4>2, FS_Union
      <4> QED BY <4>1, <4>3
    <3>4. IsFiniteSet(T \cup R)
      BY <3>2, <3>3, FS_Union
    <3> QED BY <2>6, <3>3, <3>4
  <2>8. /\ Max(S) \in S
        /\ Max(T) \in T /\ \A y \in T : Max(T) >= y
    <3> HIDE DEF S, T
    <3> QED BY <2>7, FiniteBounds
  <2>9. Max(S) <= 2 * Max(T)
    <3>1. Max(T) >= large /\ Max(T) >= one /\ Max(T) \in Nat
      BY <2>6, <2>8
    <3>2. CASE Max(S) \in T
      <4>1. Max(S) = large \/ Max(S) = one
        BY <3>2
      <4> HIDE DEF S, T
      <4> QED BY <2>6, <3>1, <4>1
    <3>3. CASE \E j \in rows : Max(S) = far[j]
      <4>1. PICK j \in rows : Max(S) = far[j]
        BY <3>3
      <4> DEFINE most == far[j]
      <4>2. most = Patterns!Abs(d[j]) * u[2]
        OBVIOUS
      <4>3. Patterns!Abs(d[j] * u[2] - u[1] * One) * Rtol <= most /\ most \in Nat /\ d[j] \in Int
        BY <2>3, <2>5, <2>6, <4>1
      <4> HIDE DEF d, far, most
      <4>4. most <= 2 * (Patterns!Abs(u[1]) * One)
        BY <2>4, <4>2, <4>3, OffsetIsNear
      <4> HIDE DEF S, T
      <4>5. Max(S) <= 2 * large
        BY <4>1, <4>4 DEF most, large
      <4> QED BY <2>6, <3>1, <4>1, <4>3, <4>5 DEF most
    <3> QED BY <2>8, <3>2, <3>3
  <2>10. off(i) * Rtol <= 2 * Max(T)
    <3>1. off(i) * Rtol <= Max(S) /\ off(i) * Rtol \in Int
      <4>1. u[1] \in Int /\ u[2] \in Int /\ d[i] \in Int
        BY <1>1, <2>3, <2>4 DEF IsFraction
      <4> HIDE DEF d, S
      <4>2. off(i) \in Int
        BY <2>0, <4>1 DEF Patterns!Abs
      <4> HIDE DEF off
      <4> QED BY <1>1, <2>0, <2>5, <4>2 DEF off
    <3>2. Max(S) \in Int /\ Max(T) \in Int
      BY <2>7, <2>8
    <3> HIDE DEF S, T, off
    <3> QED BY <2>9, <3>1, <3>2
  <2>11. Patterns!Abs((b[i] - a[i]) * u[2] - u[1] * One) * Rtol
           <= 2 * Patterns!Max({Patterns!Abs(u[1]) * One, u[2] * One})
    BY <1>1, <2>10, SameLibrary DEF large, one
  <2> QED BY <1>12, <2>11 DEF Patterns!Says
<1>13. CASE kind = "time-shift"
  <2> DEFINE k == CHOOSE j \in rows : TRUE
  <2>1. m.kind[c] # "text" /\ Patterns!SameShift(rows, a, b)
    BY <1>13 DEF Patterns!Detects, a, b, rows
  <2>2. k \in rows
    BY <1>1
  <2>3. u = <<b[k] - a[k], One>>
    BY <1>13 DEF Patterns!Figure, a, b, rows, u
  <2> HIDE DEF k
  <2>4. b[i] - a[i] = b[k] - a[k]
    BY <1>1, <2>1, <2>2 DEF Patterns!SameShift
  <2> QED BY <1>13, <2>3, <2>4 DEF Patterns!Says
<1>14. CASE kind = "rounding"
  <2> DEFINE sizes == {Patterns!Abs(b[j] - a[j]) : j \in rows}
  <2>1. m.kind[c] = "number" /\ 2 * Patterns!Max(sizes) <= One
    BY <1>14 DEF Patterns!Detects, a, b, rows
  <2>2. \A j \in rows : Patterns!Abs(b[j] - a[j]) \in Int
    BY <1>2, <2>1 DEF Patterns!Abs
  <2>3. IsFiniteSet(sizes)
    <3> DEFINE f == [j \in rows |-> Patterns!Abs(b[j] - a[j])]
    <3>1. f \in Surjection(rows, sizes)
      BY DEF Surjection
    <3>2. IsFiniteSet(rows)
      BY RowsAreFinite DEF rows
    <3> QED BY <3>1, <3>2, FS_Surjection
  <2>4. Patterns!Abs(b[i] - a[i]) \in sizes /\ sizes \subseteq Int
    BY <1>1, <2>2
  <2> HIDE DEF sizes
  <2>5. Max(sizes) \in Int /\ Max(sizes) >= Patterns!Abs(b[i] - a[i])
    BY <2>3, <2>4, FiniteBounds
  <2>6. 2 * Patterns!Abs(b[i] - a[i]) <= One
    BY <1>1, <2>1, <2>2, <2>5, SameLibrary, TasksAssumption
  <2>7. a[i] \in Int /\ b[i] \in Int
    BY <1>1, <1>2, <2>1
  <2>8. Patterns!Abs(a[i] - b[i]) = Patterns!Abs(b[i] - a[i])
    BY <2>7 DEF Patterns!Abs
  <2> QED BY <1>14, <2>6, <2>8 DEF Patterns!Says
<1> QED BY <1>3, <1>6, <1>7, <1>8, <1>9, <1>10, <1>11, <1>12, <1>13, <1>14

(* A detector that fires has looked at one row, most at MinRows.            *)
Enough(kind) == IF kind \in EmptySide \cup {"whitespace-only", "case-only"} THEN 1 ELSE MinRows

LEMMA DetectorsSeeEnough ==
  ASSUME NEW m, IsMismatchFrame(m), NEW c,
         NEW kind \in {Patterns!Detectors[d] : d \in 1 .. 10}, Patterns!Detects(kind, m, c)
  PROVE  Cardinality(IF kind \in EmptySide THEN Patterns!HitRows(m, c) ELSE Whole(m, c)) >= Enough(kind)
<1>1. kind \in {"null-on-source", "null-on-target", "whitespace-only", "case-only",
                "truncation", "sign-flip", "constant-ratio", "constant-offset",
                "rounding", "time-shift"}
  BY DEF Patterns!Detectors
<1> DEFINE rows == Patterns!AlignedRows(m, c)
           hit == Patterns!HitRows(m, c)
<1>2. /\ IsFiniteSet(rows) /\ IsFiniteSet(hit)
      /\ rows = Whole(m, c) /\ Patterns!Cardinality(rows) = Cardinality(rows)
  BY RowsAreFinite, SameLibrary DEF Whole, Patterns!AlignedRows
<1>3. \A S : IsFiniteSet(S) /\ S # {} => Cardinality(S) >= 1
  <2> SUFFICES ASSUME NEW S, IsFiniteSet(S), S # {} PROVE Cardinality(S) >= 1
    OBVIOUS
  <2>1. Cardinality(S) \in Nat /\ Cardinality(S) # 0
    BY FS_CardinalityType, FS_EmptySet
  <2> QED BY <2>1
<1>4. CASE kind \in EmptySide
  <2>1. hit # {}
    BY <1>4 DEF EmptySide, Patterns!Detects
  <2> QED BY <1>2, <1>3, <1>4, <2>1 DEF Enough
<1>5. CASE kind \in {"whitespace-only", "case-only"}
  <2>1. rows # {}
    BY <1>5 DEF Patterns!Detects
  <2> QED BY <1>2, <1>3, <1>5, <2>1 DEF Enough, EmptySide
<1>6. CASE kind \notin EmptySide \cup {"whitespace-only", "case-only"}
  <2>1. Patterns!Cardinality(rows) >= MinRows
    BY <1>1, <1>6 DEF EmptySide, Patterns!Detects
  <2> QED BY <1>2, <1>6, <2>1 DEF Enough
<1> QED BY <1>4, <1>5, <1>6

(* What analyse_mismatches answers is in order, and holds nothing but what  *)
(* a detector found.                                                        *)
LEMMA AnalysisIsOrdered ==
  ASSUME NEW m, IsMismatchFrame(m)
  PROVE  /\ Ordered(Patterns!Analyse(m))
         /\ \A i \in DOMAIN Patterns!Analyse(m) :
              LET p == Patterns!Analyse(m)[i]
              IN  /\ p.rows \in Nat
                  /\ p.kind # "column-concentration" =>
                       \E c \in DOMAIN m.kind : p \in Patterns!Explanations(m, c)
<1> DEFINE all == Patterns!Concentrations(m) \cup AllExplanations(m)
           s == Patterns!Analyse(m)
<1>1. IsFiniteSet(all) /\ Comparable(all)
  BY PatternsAreComparable
<1>2. s = Patterns!InOrder(all)
  BY DEF Patterns!Analyse, AllExplanations, HitColumns
<1> HIDE DEF all, s
<1>3. s \in [1 .. Cardinality(all) -> all] /\ Ordered(s)
  <2>1. \E r \in [1 .. Cardinality(all) -> all] : Ordered(r)
    BY <1>1, OrderExists
  <2>2. Patterns!Cardinality(all) = Cardinality(all)
    BY SameLibrary
  <2>3. s = CHOOSE r \in [1 .. Cardinality(all) -> all] : Ordered(r)
    BY <1>2, <2>2 DEF Patterns!InOrder, Ordered
  <2> QED BY <2>1, <2>3
<1>4. ASSUME NEW p \in all
      PROVE  /\ p.rows \in Nat
             /\ p.kind # "column-concentration" =>
                  \E c \in DOMAIN m.kind : p \in Patterns!Explanations(m, c)
  <2>1. CASE p \in Patterns!Concentrations(m)
    BY <2>1, ConcentrationIsOne
  <2>2. CASE p \in AllExplanations(m)
    <3>1. PICK c \in DOMAIN m.kind : p \in Patterns!Explanations(m, c)
      BY <2>2 DEF AllExplanations, HitColumns
    <3> QED BY <3>1, ExplainedOnce, RowsAreFinite
  <2> QED BY <2>1, <2>2 DEF all
<1> QED BY <1>3, <1>4 DEF s

(* What the code keeps of "Every claim is checked against every row it      *)
(* covers" (docs/adr/0015), in every frame of mismatches and whatever the   *)
(* tolerances: the factor, the offset or the shift that a headline gives is *)
(* that of every row counted that has both values, and there are enough of  *)
(* them; every block of whole keys is unbroken.                             *)
THEOREM ClaimsAreSo == AnalysesSpec => []ClaimsHold
<1>1. AnswersTheTask => RowClaimsHold
  <2> DEFINE m == task.mismatches
             cell(i, c) == m.rows[i].cell[c]
             checked(p) == {i \in Patterns!HitRows(m, p.column) :
                              p.kind \in EmptySide \/ NULL \notin ToSet(cell(i, p.column))}
  <2> SUFFICES ASSUME AnswersTheTask, Answered({"mismatches"})
               PROVE  /\ \A p \in ToSet(result) : p.kind # "column-concentration" =>
                           /\ \A i \in checked(p) :
                                Patterns!Says(p.kind, p.figure, cell(i, p.column)[1],
                                              cell(i, p.column)[2])
                           /\ Cardinality(checked(p)) >= Enough(p.kind)
                      /\ \A i, j \in DOMAIN result : i < j => result[i].rows >= result[j].rows
    BY DEF RowClaimsHold, Enough
  <2>1. IsMismatchFrame(m) /\ result = Patterns!Analyse(m)
    BY TasksAssumption DEF AnswersTheTask, Answered
  <2> HIDE DEF m
  <2>2. ASSUME NEW i \in DOMAIN result, NEW j \in DOMAIN result, i < j
        PROVE  result[i].rows >= result[j].rows
    <3>1. result[i].rows \in Nat /\ result[j].rows \in Nat /\ Patterns!Before(result[i], result[j])
      BY <2>1, <2>2, AnalysisIsOrdered DEF Ordered
    <3> QED BY <3>1 DEF Patterns!Before
  <2>3. ASSUME NEW p \in ToSet(result), p.kind # "column-concentration"
        PROVE  /\ \A i \in checked(p) :
                    Patterns!Says(p.kind, p.figure, cell(i, p.column)[1], cell(i, p.column)[2])
               /\ Cardinality(checked(p)) >= Enough(p.kind)
    <3>1. PICK c \in DOMAIN m.kind : p \in Patterns!Explanations(m, c)
      BY <2>1, <2>3, AnalysisIsOrdered DEF ToSet
    <3>2. /\ p.column = c /\ Patterns!Detects(p.kind, m, c)
          /\ p.kind \in {Patterns!Detectors[d] : d \in 1 .. 10}
          /\ p.figure = Patterns!Figure(p.kind, m, c)
      BY <3>1, ExplainedOnce
    <3>3. Patterns!HitRows(m, c) \subseteq DOMAIN m.rows
      BY <2>1, RowsAreFinite
    <3>4. checked(p) = IF p.kind \in EmptySide THEN Patterns!HitRows(m, c) ELSE Whole(m, c)
      BY <3>2 DEF Whole
    <3>5. Cardinality(checked(p)) >= Enough(p.kind)
      <4> HIDE DEF checked
      <4> QED BY <2>1, <3>2, <3>4, DetectorsSeeEnough
    <3>6. ASSUME NEW i \in checked(p)
          PROVE  Patterns!Says(p.kind, p.figure, cell(i, c)[1], cell(i, c)[2])
      <4>1. i \in Patterns!HitRows(m, c) /\ i \in DOMAIN m.rows
        BY <3>2, <3>3, <3>6
      <4>2. CASE p.kind = "null-on-source"
        <5>1. cell(i, c)[1] = NULL
          BY <3>2, <4>1, <4>2 DEF Patterns!Detects
        <5> QED BY <4>2, <5>1 DEF Patterns!Says
      <4>3. CASE p.kind = "null-on-target"
        <5>1. cell(i, c)[2] = NULL
          BY <3>2, <4>1, <4>3 DEF Patterns!Detects
        <5> QED BY <4>3, <5>1 DEF Patterns!Says
      <4>4. CASE p.kind \notin EmptySide
        <5>1. i \in Whole(m, c)
          BY <3>4, <3>6, <4>4
        <5> QED BY <2>1, <3>2, <5>1, DetectorsAreSo
      <4> QED BY <4>2, <4>3, <4>4 DEF EmptySide
    <3> QED BY <3>2, <3>5, <3>6
  <2> QED BY <2>2, <2>3
<1>2. AnswersTheTask => BlocksAreUnbroken
  <2> SUFFICES ASSUME AnswersTheTask, Answered({"row-set"}), result = TRUE,
                      \A k \in ToSet(task.keys) : k % One = 0
               PROVE  \A k, j \in ToSet(task.keys) : k < j => k + One \in ToSet(task.keys)
    BY DEF BlocksAreUnbroken
  <2>1. Patterns!FormBlock(task.keys)
    BY DEF AnswersTheTask, Answered
  <2>2. /\ DOMAIN task.keys = 1 .. Len(task.keys) /\ Len(task.keys) \in Nat
        /\ \A i \in DOMAIN task.keys : task.keys[i] = NULL \/ task.keys[i] \in Int
    BY TasksAssumption DEF AnswersTheTask, Answered, IsList
  <2> QED BY <2>1, <2>2, BlockIsUnbroken
<1> QED BY <1>1, <1>2, AlwaysAnswersTheTask, PTL DEF ClaimsHold

-----------------------------------------------------------------------------
(* Sums over finite sets.                                                   *)

(* Sums over finite sets: whichever element is taken first.                 *)
Pick(s) == CHOOSE x \in s : TRUE

IsSumTable(g, S, h) ==
  /\ h \in [SUBSET S -> Int] /\ h[{}] = 0
  /\ \A T \in SUBSET S : \A x \in T : h[T] = g[x] + h[T \ {x}]

(* There is a table of the sums over the parts of a finite set.             *)
LEMMA SumTableExists ==
  ASSUME NEW S, IsFiniteSet(S), NEW g, \A x \in S : g[x] \in Int
  PROVE  \E h : IsSumTable(g, S, h)
<1> DEFINE T == {U \in SUBSET S : \E h : IsSumTable(g, U, h)}
<1>1. {} \in T
  <2> DEFINE h == [s \in {{}} |-> 0]
  <2>1. IsSumTable(g, {}, h)
    BY DEF IsSumTable
  <2> HIDE DEF h
  <2> QED BY <2>1
<1>2. ASSUME NEW U \in SUBSET S, NEW a \in S \ U, U \in T PROVE U \cup {a} \in T
  <2>1. PICK h : IsSumTable(g, U, h)
    BY <1>2
  <2> DEFINE V == U \cup {a}
             k == [s \in SUBSET V |-> IF a \in s THEN g[a] + h[s \ {a}] ELSE h[s]]
  <2>2. \A s \in SUBSET V : (a \in s => s \ {a} \in SUBSET U) /\ (a \notin s => s \in SUBSET U)
    OBVIOUS
  <2>3. \A s \in SUBSET U : h[s] \in Int
    BY <2>1 DEF IsSumTable
  <2>4. k \in [SUBSET V -> Int]
    BY <2>2, <2>3
  <2>5. k[{}] = 0
    BY <2>1 DEF IsSumTable
  <2>6. ASSUME NEW s \in SUBSET V, NEW x \in s PROVE k[s] = g[x] + k[s \ {x}]
    <3>0. s \ {x} \in SUBSET V
      OBVIOUS
    <3>1. CASE a \notin s
      <4>1. k[s] = h[s] /\ k[s \ {x}] = h[s \ {x}] /\ s \in SUBSET U
        BY <2>2, <3>0, <3>1
      <4> QED BY <2>1, <4>1 DEF IsSumTable
    <3>2. CASE x = a
      <4>1. k[s] = g[a] + h[s \ {a}] /\ k[s \ {x}] = h[s \ {a}]
        BY <3>0, <3>2
      <4> QED BY <3>2, <4>1
    <3>3. CASE a \in s /\ x # a
      <4> DEFINE without == (s \ {a}) \ {x}
      <4>1. s \ {a} \in SUBSET U /\ x \in s \ {a} /\ (s \ {x}) \ {a} = without
        BY <2>2, <3>3
      <4>2. without \in SUBSET U /\ a \in s \ {x}
        BY <3>3, <4>1
      <4>3. k[s] = g[a] + h[s \ {a}]
        BY <3>3
      <4>4. k[s \ {x}] = g[a] + h[without]
        BY <3>0, <4>1, <4>2
      <4> HIDE DEF without, k
      <4>5. h[s \ {a}] = g[x] + h[without]
        BY <2>1, <4>1 DEF IsSumTable, without
      <4>6. g[a] \in Int /\ g[x] \in Int /\ h[without] \in Int
        BY <2>3, <4>1, <4>2
      <4> QED BY <4>3, <4>4, <4>5, <4>6
    <3> QED BY <3>1, <3>2, <3>3
  <2> HIDE DEF k
  <2>7. IsSumTable(g, V, k)
    BY <2>4, <2>5, <2>6 DEF IsSumTable
  <2> QED BY <2>7
<1>3. S \in T
  <2> HIDE DEF T
  <2> QED BY <1>1, <1>2, FiniteInduction
<1> QED BY <1>3

(* The sum of the library is the one in the table.                          *)
LEMMA SumIsInTable ==
  ASSUME NEW S, IsFiniteSet(S), NEW g, NEW h, IsSumTable(g, S, h), NEW T \in SUBSET S
  PROVE  SumFunctionOnSet(g, T) = h[T]
<1> DEFINE IsIter(k) == k = [s \in SUBSET T |-> IF s = {} THEN 0
                                                ELSE g[Pick(s)] + k[s \ {Pick(s)}]]
           iter == CHOOSE k : IsIter(k)
           table == [s \in SUBSET T |-> h[s]]
<1>1. SumFunctionOnSet(g, T) = iter[T]
  BY DEF SumFunctionOnSet, FoldFunctionOnSet, MapThenFoldSet, Pick
<1>2. IsIter(table)
  <2>1. ASSUME NEW s \in SUBSET T
        PROVE  table[s] = IF s = {} THEN 0 ELSE g[Pick(s)] + table[s \ {Pick(s)}]
    <3>1. CASE s = {}
      BY <3>1 DEF IsSumTable
    <3>2. CASE s # {}
      <4>1. Pick(s) \in s /\ s \in SUBSET S /\ s \ {Pick(s)} \in SUBSET T
        BY <3>2 DEF Pick
      <4> QED BY <3>2, <4>1 DEF IsSumTable
    <3> QED BY <3>1, <3>2
  <2> QED BY <2>1
<1>3. IsIter(iter)
  <2> HIDE DEF IsIter, table
  <2> QED BY <1>2
<1> HIDE DEF iter, table
<1> DEFINE N == {n \in Nat : \A s \in SUBSET T : Cardinality(s) = n => iter[s] = h[s]}
<1>4. \A s \in SUBSET T : IsFiniteSet(s) /\ Cardinality(s) \in Nat
  BY FS_Subset, FS_CardinalityType
<1>5. 0 \in N
  <2> SUFFICES ASSUME NEW s \in SUBSET T, Cardinality(s) = 0 PROVE iter[s] = h[s]
    OBVIOUS
  <2>1. s = {}
    BY <1>4, FS_EmptySet
  <2>2. iter[{}] = 0
    BY <1>3
  <2> QED BY <2>1, <2>2 DEF IsSumTable
<1>6. ASSUME NEW n \in Nat, n \in N PROVE n + 1 \in N
  <2> SUFFICES ASSUME NEW s \in SUBSET T, Cardinality(s) = n + 1 PROVE iter[s] = h[s]
    OBVIOUS
  <2>1. s # {}
    <3>1. Cardinality({}) = 0
      BY FS_EmptySet
    <3> QED BY <3>1
  <2> DEFINE x == Pick(s)
  <2>2. x \in s
    BY <2>1 DEF Pick
  <2>3. s \ {x} \in SUBSET T /\ Cardinality(s \ {x}) = n
    <3>1. Cardinality(s \ {x}) = Cardinality(s) - 1
      BY <1>4, <2>2, FS_RemoveElement
    <3> QED BY <3>1
  <2>4. iter[s \ {x}] = h[s \ {x}]
    BY <1>6, <2>3
  <2>5. iter[s] = g[x] + iter[s \ {x}]
    BY <1>3, <2>1
  <2> HIDE DEF x
  <2> QED BY <2>2, <2>4, <2>5 DEF IsSumTable
<1>7. Nat \subseteq N
  <2> HIDE DEF N
  <2>1. \A n \in Nat : n \in N => n + 1 \in N
    BY <1>6
  <2> QED BY <1>5, <2>1, SetInduction
<1>8. Cardinality(T) \in N /\ T \in SUBSET T
  BY <1>4, <1>7
<1> QED BY <1>1, <1>8

(* The sum over nothing is zero, and an element adds its own share.         *)
LEMMA SumLaws ==
  ASSUME NEW S, IsFiniteSet(S), NEW g, \A x \in S : g[x] \in Int
  PROVE  /\ SumFunctionOnSet(g, {}) = 0
         /\ \A T \in SUBSET S : SumFunctionOnSet(g, T) \in Int
         /\ \A T \in SUBSET S : \A x \in T :
              SumFunctionOnSet(g, T) = g[x] + SumFunctionOnSet(g, T \ {x})
<1>1. PICK h : IsSumTable(g, S, h)
  BY SumTableExists
<1>2. \A T \in SUBSET S : SumFunctionOnSet(g, T) = h[T]
  BY <1>1, SumIsInTable
<1>3. {} \in SUBSET S /\ \A T \in SUBSET S : \A x \in T : T \ {x} \in SUBSET S
  OBVIOUS
<1> QED BY <1>1, <1>2, <1>3 DEF IsSumTable

-----------------------------------------------------------------------------
(* The verdicts of the validation services.                                 *)

(* Rounding moves a quotient by at most one half.                           *)
LEMMA NearestIsNear ==
  ASSUME NEW n \in Int, NEW d \in Nat \ {0}
  PROVE  /\ Nearest(n, d) \in Int
         /\ 2 * (d * Nearest(n, d)) <= 2 * n + d
         /\ 2 * n - d <= 2 * (d * Nearest(n, d))
<1> DEFINE q == n \div d
           r == n % d
<1>1. q \in Int /\ r \in Int /\ n = d * q + r /\ 0 <= r /\ r < d
  OBVIOUS
<1>2. Nearest(n, d) = IF 2 * r < d \/ (2 * r = d /\ q % 2 = 0) THEN q ELSE q + 1
  BY DEF Nearest
<1> HIDE DEF q, r
<1>3. d * (q + 1) = d * q + d /\ d * q \in Int
  BY <1>1
<1>4. CASE Nearest(n, d) = q /\ 2 * r <= d
  BY <1>1, <1>3, <1>4
<1>5. CASE Nearest(n, d) = q + 1 /\ 2 * r >= d
  BY <1>1, <1>3, <1>5
<1> QED BY <1>1, <1>2, <1>4, <1>5

(* A share that is not zero shows in a percentage of fewer than two hundred *)
(* per cent's units.                                                        *)
LEMMA ShareShows ==
  ASSUME NEW part \in Int, NEW whole \in Nat \ {0}
  PROVE  /\ Percentage(part, whole) \in Int
         /\ part = 0 => Percentage(part, whole) = 0
         /\ part > 0 /\ whole < 2 * Scale => Percentage(part, whole) > 0
<1>1. Scale \in Nat \ {0}
  BY ScaleAssumption
<1> DEFINE n == part * Scale
           p == Nearest(n, whole)
<1>2. n \in Int
  BY <1>1
<1>3. /\ p \in Int
      /\ 2 * (whole * p) <= 2 * n + whole
      /\ 2 * n - whole <= 2 * (whole * p)
  BY <1>2, NearestIsNear
<1>4. Percentage(part, whole) = p
  BY DEF Percentage
<1>5. part = 0 => p = 0
  <2> SUFFICES ASSUME part = 0 PROVE p = 0
    OBVIOUS
  <2>1. n = 0
    BY <1>1
  <2>2. 0 \div whole = 0 /\ 0 % whole = 0
    OBVIOUS
  <2> QED BY <2>1, <2>2 DEF Nearest
<1>6. ASSUME part > 0, whole < 2 * Scale PROVE p > 0
  <2>1. Scale * 1 <= Scale * part
    BY <1>1, <1>6, TimesIsMonotone
  <2>2. n >= Scale
    BY <1>1, <2>1
  <2> HIDE DEF p, n
  <2>3. ASSUME p <= 0 PROVE FALSE
    <3>1. whole * p <= whole * 0
      BY <1>3, <2>3, TimesIsMonotone
    <3>2. whole * 0 = 0 /\ whole * p \in Int
      BY <1>3
    <3> QED BY <1>1, <1>2, <1>3, <1>6, <2>2, <3>1, <3>2
  <2> QED BY <1>3, <2>3
<1> QED BY <1>3, <1>4, <1>5, <1>6

(* A variance that is not zero shows in the percentage, unless the source   *)
(* is large.                                                                *)
LEMMA VarianceShows ==
  ASSUME NEW source \in Nat, NEW difference \in Int
  PROVE  /\ VariancePercent(source, difference) \in Int
         /\ difference = 0 => VariancePercent(source, difference) = 0
         /\ difference # 0 /\ source < 2 * Scale => VariancePercent(source, difference) > 0
<1>1. Abs(difference) \in Nat /\ (Abs(difference) = 0 <=> difference = 0)
  BY DEF Abs
<1>2. CASE source = 0
  BY <1>2, ScaleAssumption DEF VariancePercent
<1>3. CASE source # 0
  <2> HIDE DEF Abs
  <2>1. VariancePercent(source, difference) = Percentage(Abs(difference), source)
    BY <1>3 DEF VariancePercent
  <2> QED BY <1>1, <1>3, <2>1, ShareShows
<1> QED BY <1>2, <1>3

(* What a service reads under the names it resolved.                        *)
LEMMA KeyIsMeant ==
  ASSUME NEW row, NEW names, NEW columns
  PROVE  Key(row, Resolved(names, columns)) =
           [n \in DOMAIN names |-> row[CanonicalMap(columns)[CaseFold[names[n]]]]]
BY DEF Key, Resolved

(* A schema passes when both sides have the same columns of the same kind.  *)
LEMMA SchemaIsMeant ==
  ASSUME NEW r, r.kind = "schema", SchemaRun(r).status \in {"PASS", "FAIL"}
  PROVE  SchemaRun(r).status = "PASS" <=> NothingWrong(r)
<1> DEFINE s == r.source
           t == r.target
           columns == Folds(s.columns) \cup Folds(t.columns)
           wrong   == {k \in columns : ColumnStatus(s, t, k) \in Critical}
           differ  == {k \in columns : AttributesDiffer(s, t, k)}
           meant ==
             /\ Folds(s.columns) = Folds(t.columns)
             /\ \A k \in Folds(s.columns) :
                  /\ s.type[CanonicalMap(s.columns)[k]] = t.type[CanonicalMap(t.columns)[k]]
                  /\ k \in DOMAIN s.catalog /\ k \in DOMAIN t.catalog => s.catalog[k] = t.catalog[k]
<1>1. NothingWrong(r) <=> meant
  BY DEF NothingWrong
<1>2. SchemaRun(r).status = "PASS" <=> wrong \cup differ = {}
  BY DEF SchemaRun, Result, Raised, Verdict
<1>3. \A k \in columns : k \in wrong <=>
        \/ k \notin Folds(t.columns) \/ k \notin Folds(s.columns)
        \/ s.type[CanonicalMap(s.columns)[k]] # t.type[CanonicalMap(t.columns)[k]]
  BY DEF ColumnStatus, Critical, TypeOf
<1>4. \A k \in columns : k \in differ <=>
        k \in DOMAIN s.catalog /\ k \in DOMAIN t.catalog /\ s.catalog[k] # t.catalog[k]
  BY DEF AttributesDiffer
<1>5. wrong \subseteq columns /\ differ \subseteq columns
  OBVIOUS
<1> HIDE DEF wrong, differ
<1> QED BY <1>1, <1>2, <1>3, <1>4, <1>5

(* The rows of a frame, and sets of them.                                   *)
LEMMA RowsAreCounted ==
  ASSUME NEW rows, IsList(rows)
  PROVE  IsFiniteSet(DOMAIN rows) /\ Cardinality(DOMAIN rows) = Len(rows)
<1> DEFINE n == Len(rows)
<1>1. n \in Nat /\ DOMAIN rows = 1 .. n
  BY DEF IsList
<1> HIDE DEF n
<1>2. IsFiniteSet(1 .. n) /\ Cardinality(1 .. n) = IF 1 > n THEN 0 ELSE n - 1 + 1
  BY <1>1, FS_Interval
<1> QED BY <1>1, <1>2 DEF n

(* A set of rows of a frame is finite, and not larger than the frame.       *)
LEMMA RowSets ==
  ASSUME NEW rows, IsList(rows), NEW S \in SUBSET DOMAIN rows
  PROVE  IsFiniteSet(S) /\ Cardinality(S) \in Nat /\ Cardinality(S) <= Len(rows)
<1>1. IsFiniteSet(DOMAIN rows) /\ Cardinality(DOMAIN rows) = Len(rows)
  BY RowsAreCounted
<1> QED BY <1>1, FS_Subset, FS_CardinalityType

(* A set has several elements when its cardinality exceeds one.             *)
LEMMA SeveralElements ==
  ASSUME NEW S, IsFiniteSet(S)
  PROVE  Cardinality(S) > 1 <=> \E x, y \in S : x # y
<1>1. CASE S = {}
  <2>1. Cardinality(S) = 0
    BY <1>1, FS_EmptySet
  <2> QED BY <1>1, <2>1
<1>2. ASSUME NEW x \in S PROVE Cardinality(S) > 1 <=> \E a, b \in S : a # b
  <2>1. Cardinality(S) \in Nat /\ Cardinality(S) # 0
    BY <1>2, FS_CardinalityType, FS_EmptySet
  <2>2. Cardinality(S) = 1 <=> \E a : S = {a}
    BY FS_Singleton
  <2> QED BY <1>2, <2>1, <2>2
<1> QED BY <1>1, <1>2

(* A duplicate check passes when no two rows have one key.                  *)
LEMMA DuplicateIsMeant ==
  ASSUME NEW r, r.kind = "duplicate", IsRequest(r), DuplicateRun(r).status \in {"PASS", "FAIL"}
  PROVE  DuplicateRun(r).status = "PASS" <=> NothingWrong(r)
<1> DEFINE s == r.source
           rows == s.rows
           keys == Resolved(r.keys, s.columns)
           meant(i) == [n \in DOMAIN r.keys |->
                          rows[i][CanonicalMap(s.columns)[CaseFold[r.keys[n]]]]]
           twice == {k \in KeysIn(s, keys) : Cardinality(RowsWith(s, keys, k)) > 1}
           found == {i \in DOMAIN rows : Key(rows[i], keys) \in twice}
<1>1. NothingWrong(r) <=> \A i, j \in DOMAIN rows : meant(i) = meant(j) => i = j
  BY DEF NothingWrong
<1>2. DuplicateRun(r).status = "PASS" <=> found = {}
  BY DEF DuplicateRun, Result, Raised, Refused, Verdict
<1>3. \A i \in DOMAIN rows : Key(rows[i], keys) = meant(i)
  BY DEF Key, Resolved
<1> HIDE DEF meant, keys
<1>4. \A i \in DOMAIN rows : i \in found <=>
        \E a, b \in DOMAIN rows : a # b /\ meant(a) = meant(i) /\ meant(b) = meant(i)
  <2> TAKE i \in DOMAIN rows
  <2> DEFINE group == RowsWith(s, keys, meant(i))
  <2>1. group = {j \in DOMAIN rows : meant(j) = meant(i)}
    BY <1>3 DEF RowsWith
  <2>2. IsFiniteSet(group)
    BY <2>1, RowSets DEF IsRequest
  <2>3. i \in found <=> Cardinality(group) > 1
    BY <1>3 DEF KeysIn
  <2>4. Cardinality(group) > 1 <=> \E a, b \in group : a # b
    BY <2>2, SeveralElements
  <2> HIDE DEF group, found
  <2> QED BY <2>1, <2>3, <2>4
<1>5. found \subseteq DOMAIN rows
  OBVIOUS
<1> HIDE DEF found
<1>6. found = {} <=> \A i, j \in DOMAIN rows : meant(i) = meant(j) => i = j
  BY <1>4, <1>5
<1> QED BY <1>1, <1>2, <1>6

(* The columns a folded name leads to.                                      *)
LEMMA CanonicalIsThere ==
  ASSUME NEW columns, IsList(columns), NEW k \in Folds(columns)
  PROVE  /\ CanonicalMap(columns)[k] \in ToSet(columns)
         /\ CaseFold[CanonicalMap(columns)[k]] = k
<1> DEFINE T == {i \in DOMAIN columns : CaseFold[columns[i]] = k}
<1>1. T # {} /\ T \subseteq Nat
  BY DEF Folds, IsList
<1>2. PICK m \in T : \A i \in T : m <= i
  BY <1>1, Smallest
<1>3. \A j \in 1 .. m - 1 : CaseFold[columns[j]] # k
  <2> SUFFICES ASSUME NEW j \in 1 .. m - 1, CaseFold[columns[j]] = k PROVE FALSE
    OBVIOUS
  <2>1. j \in DOMAIN columns /\ ~(m <= j)
    BY <1>2 DEF IsList
  <2> QED BY <1>2, <2>1
<1> DEFINE First(i) == CaseFold[columns[i]] = k /\ \A j \in 1 .. i - 1 : CaseFold[columns[j]] # k
           c == CHOOSE i \in DOMAIN columns : First(i)
<1>4. m \in DOMAIN columns /\ First(m)
  BY <1>2, <1>3
<1>5. CanonicalMap(columns)[k] = columns[c]
  BY DEF CanonicalMap
<1>6. c \in DOMAIN columns /\ First(c)
  <2> HIDE DEF First
  <2> QED BY <1>4
<1> HIDE DEF c
<1> QED BY <1>5, <1>6 DEF ToSet

(* Columns in reverse are a list of the same names and the same folds.      *)
LEMMA ReversedColumns ==
  ASSUME NEW columns, IsList(columns)
  PROVE  /\ IsList(Reverse(columns))
         /\ ToSet(Reverse(columns)) = ToSet(columns)
         /\ Folds(Reverse(columns)) = Folds(columns)
<1> DEFINE n == Len(columns)
           back == Reverse(columns)
<1>1. n \in Nat /\ DOMAIN columns = 1 .. n
  BY DEF IsList
<1>2. back = [i \in 1 .. n |-> columns[n - i + 1]]
  BY DEF Reverse
<1>3. DOMAIN back = 1 .. n /\ Len(back) = n
  BY <1>1, <1>2
<1>4. \A i \in 1 .. n : n - i + 1 \in 1 .. n /\ n - (n - i + 1) + 1 = i
  BY <1>1
<1>5. \A i \in 1 .. n : back[i] = columns[n - i + 1] /\ back[n - i + 1] = columns[i]
  BY <1>2, <1>4
<1>6. IsList(back)
  <2>1. back = [i \in 1 .. n |-> back[i]]
    BY <1>2
  <2> QED BY <1>1, <1>3, <2>1 DEF IsList
<1> HIDE DEF n, back
<1>7. ToSet(back) = ToSet(columns)
  <2>1. ToSet(back) = {back[i] : i \in 1 .. n} /\ ToSet(columns) = {columns[i] : i \in 1 .. n}
    BY <1>1, <1>3 DEF ToSet
  <2>2. ASSUME NEW i \in 1 .. n PROVE back[i] \in ToSet(columns) /\ columns[i] \in ToSet(back)
    BY <1>4, <1>5, <2>1
  <2> QED BY <2>1, <2>2
<1>8. Folds(back) = Folds(columns)
  BY <1>1, <1>3, <1>4, <1>5 DEF Folds
<1> QED BY <1>6, <1>7, <1>8 DEF back

(* The engine goes on when every column named is on both sides.             *)
LEMMA AlignmentIsMeant ==
  ASSUME NEW r, r.kind = "alignment", IsRequest(r), AlignmentRun(r).status \in {"PASS", "FAIL"}
  PROVE  AlignmentRun(r).status = "PASS" <=> NothingWrong(r)
<1> DEFINE s == r.source
           t == r.target
           named == ToSet(r.keys) \cup ToSet(r.parentKeys)
<1>1. NothingWrong(r) <=>
        \A c \in named : CaseFold[c] \in Folds(s.columns) /\ CaseFold[c] \in Folds(t.columns)
  BY DEF NothingWrong
<1>2. /\ AlignmentRun(r).status = "PASS"
      /\ ~EngineRefuses(s, t, r.keys, r.parentKeys)
  BY DEF AlignmentRun, Result, Raised, Refused
<1>3. \A n : CaseFold[n] \in Folds(s.columns) =>
        EngineName(s, n) = EngineMap(s.columns)[CaseFold[n]]
          /\ CaseFold[EngineName(s, n)] = CaseFold[n]
  BY ReversedColumns, CanonicalIsThere DEF EngineName, EngineMap, IsRequest
<1>4. \A n : CaseFold[n] \notin Folds(s.columns) => EngineName(s, n) = n
  BY DEF EngineName
<1>5. ASSUME NEW c \in named
      PROVE  CaseFold[c] \in Folds(s.columns) /\ CaseFold[c] \in Folds(t.columns)
  <2>1. /\ EngineName(s, c) \in ToSet(s.columns)
        /\ \E i \in DOMAIN t.columns : EngineName(s, c) = EngineName(s, t.columns[i])
    BY <1>2, <1>5 DEF EngineRefuses, OnBothSides
  <2>2. PICK i \in DOMAIN t.columns : EngineName(s, c) = EngineName(s, t.columns[i])
    BY <2>1
  <2>3. CaseFold[EngineName(s, c)] \in Folds(s.columns)
    BY <2>1 DEF Folds, ToSet
  <2>4. CaseFold[EngineName(s, c)] = CaseFold[c]
    BY <1>3, <1>4
  <2>5. CaseFold[EngineName(s, t.columns[i])] = CaseFold[t.columns[i]]
    BY <1>3, <1>4
  <2> QED BY <2>2, <2>3, <2>4, <2>5 DEF Folds
<1> QED BY <1>1, <1>2, <1>5

(* An integrity check passes when every full key of the child has its       *)
(* parent.                                                                  *)
LEMMA IntegrityIsMeant ==
  ASSUME NEW r, r.kind = "integrity", IsRequest(r), r.tolerance = 0,
         Len(r.source.rows) < 2 * Scale, IntegrityRun(r).status \in {"PASS", "FAIL"}
  PROVE  IntegrityRun(r).status = "PASS" <=> NothingWrong(r)
<1> DEFINE s == r.source
           t == r.target
           rows == s.rows
           child == Resolved(r.keys, s.columns)
           parent == Resolved(r.parentKeys, t.columns)
           ofChild(i) == [n \in DOMAIN r.keys |->
                            rows[i][CanonicalMap(s.columns)[CaseFold[r.keys[n]]]]]
           ofParent(j) == [n \in DOMAIN r.parentKeys |->
                             t.rows[j][CanonicalMap(t.columns)[CaseFold[r.parentKeys[n]]]]]
           withKey == {i \in DOMAIN rows : ~HasNull(Key(rows[i], child))}
           known   == {k \in KeysIn(t, parent) : ~HasNull(k)}
           orphans == {i \in withKey : Key(rows[i], child) \notin known}
<1>1. NothingWrong(r) <=>
        \A i \in DOMAIN rows : ~HasNull(ofChild(i)) =>
          \E j \in DOMAIN t.rows : ofChild(i) = ofParent(j)
  BY DEF NothingWrong, HasNull
<1>2. IntegrityRun(r).status = "PASS" <=>
        IntegrityPasses(Cardinality(orphans), Cardinality(withKey), r.tolerance)
  BY DEF IntegrityRun, Result, Raised, Refused, Verdict
<1>3. /\ \A i \in DOMAIN rows : Key(rows[i], child) = ofChild(i)
      /\ \A j \in DOMAIN t.rows : Key(t.rows[j], parent) = ofParent(j)
  BY KeyIsMeant
<1> HIDE DEF ofChild, ofParent, child, parent
<1>4. orphans = {i \in DOMAIN rows :
                   ~HasNull(ofChild(i)) /\ ~\E j \in DOMAIN t.rows : ofChild(i) = ofParent(j)}
  BY <1>3 DEF KeysIn
<1>5. orphans \subseteq withKey /\ withKey \subseteq DOMAIN rows
  OBVIOUS
<1> HIDE DEF orphans, withKey
<1>6. /\ IsFiniteSet(orphans) /\ IsFiniteSet(withKey)
      /\ Cardinality(orphans) \in Nat /\ Cardinality(withKey) \in Nat
      /\ Cardinality(withKey) <= Len(rows) /\ Cardinality(orphans) <= Cardinality(withKey)
  BY <1>5, RowSets, FS_Subset DEF IsRequest
<1>7. Len(rows) < 2 * Scale /\ Scale \in Nat \ {0} /\ Len(rows) \in Nat
  BY ScaleAssumption DEF IsRequest, IsList
<1>8. IntegrityPasses(Cardinality(orphans), Cardinality(withKey), 0) <=> orphans = {}
  <2> DEFINE o == Cardinality(orphans)
             w == Cardinality(withKey)
  <2>1. o = 0 <=> orphans = {}
    BY <1>6, FS_EmptySet
  <2>2. o \in Nat /\ w \in Nat /\ o <= w /\ w < 2 * Scale
    BY <1>6, <1>7
  <2> HIDE DEF o, w
  <2>3. IntegrityPasses(o, w, 0) <=> o = 0
    <3>1. CASE w = 0
      BY <2>2, <3>1 DEF IntegrityPasses, OrphanPercent
    <3>2. CASE w # 0
      <4>1. IntegrityPasses(o, w, 0) <=> Percentage(o, w) <= 0
        BY <3>2 DEF IntegrityPasses, OrphanPercent
      <4>2. w \in Nat \ {0} /\ o \in Int
        BY <2>2, <3>2
      <4>3. /\ Percentage(o, w) \in Int /\ (o = 0 => Percentage(o, w) = 0)
            /\ (o > 0 /\ w < 2 * Scale => Percentage(o, w) > 0)
        BY <4>2, ShareShows
      <4> QED BY <2>2, <4>1, <4>3
    <3> QED BY <3>1, <3>2
  <2> QED BY <2>1, <2>3 DEF o, w
<1> QED BY <1>1, <1>2, <1>4, <1>8

(* A list is empty when its length is zero.                                 *)
LEMMA EmptyList ==
  ASSUME NEW s, IsList(s)
  PROVE  /\ DOMAIN s = 1 .. Len(s)
         /\ s = <<>> <=> Len(s) = 0
<1>1. Len(<<>>) = 0 /\ DOMAIN s = 1 .. Len(s)
  BY DEF IsList
<1>2. ASSUME Len(s) = 0 PROVE s = <<>>
  <2>1. s = [i \in 1 .. 0 |-> s[i]]
    BY <1>2 DEF IsList
  <2> QED BY <2>1
<1> QED BY <1>1, <1>2

(* Taking one element out of a set takes its share out of the sum.          *)
LEMMA SumWithoutOne ==
  ASSUME NEW S, IsFiniteSet(S), NEW g, \A x \in S : g[x] \in Int, NEW x \in S
  PROVE  /\ SumFunctionOnSet(g, S) = g[x] + SumFunctionOnSet(g, S \ {x})
         /\ SumFunctionOnSet(g, S) \in Int
         /\ SumFunctionOnSet(g, S \ {x}) \in Int
<1>1. S \in SUBSET S /\ S \ {x} \in SUBSET S
  OBVIOUS
<1> QED BY <1>1, SumLaws

(* Summands that are at most (at least) c add up to at most (at least) as   *)
(* many times c.                                                            *)
LEMMA SumIsBounded ==
  ASSUME NEW S, IsFiniteSet(S), NEW g, NEW c \in Int, \A x \in S : g[x] \in Int
  PROVE  /\ (\A x \in S : g[x] <= c) => SumFunctionOnSet(g, S) <= Cardinality(S) * c
         /\ (\A x \in S : g[x] >= c) => SumFunctionOnSet(g, S) >= Cardinality(S) * c
<1> DEFINE sum(U) == SumFunctionOnSet(g, U)
           T == {U \in SUBSET S :
                   /\ (\A x \in S : g[x] <= c) => sum(U) <= Cardinality(U) * c
                   /\ (\A x \in S : g[x] >= c) => sum(U) >= Cardinality(U) * c}
<1>1. /\ sum({}) = 0
      /\ \A U \in SUBSET S : sum(U) \in Int
      /\ \A U \in SUBSET S : \A x \in U : sum(U) = g[x] + sum(U \ {x})
  BY SumLaws
<1> HIDE DEF sum
<1>2. {} \in T
  BY <1>1, FS_EmptySet
<1>3. ASSUME NEW U \in SUBSET S, NEW x \in S \ U, U \in T PROVE U \cup {x} \in T
  <2>1. sum(U \cup {x}) = g[x] + sum(U)
    <3>1. U \cup {x} \in SUBSET S /\ x \in U \cup {x} /\ (U \cup {x}) \ {x} = U
      OBVIOUS
    <3> QED BY <1>1, <3>1
  <2>2. Cardinality(U \cup {x}) = Cardinality(U) + 1 /\ Cardinality(U) \in Nat
    BY FS_Subset, FS_AddElement, FS_CardinalityType
  <2>3. (Cardinality(U) + 1) * c = Cardinality(U) * c + c /\ Cardinality(U) * c \in Int
    BY <2>2
  <2>4. g[x] \in Int /\ sum(U) \in Int
    BY <1>1
  <2> QED BY <1>3, <2>1, <2>2, <2>3, <2>4
<1>4. S \in T
  <2> HIDE DEF T
  <2> QED BY <1>2, <1>3, FiniteInduction
<1> QED BY <1>4 DEF sum

(* The completeness of one column of n rows, m of its cells missing.        *)
LEMMA ColumnCompleteness ==
  ASSUME NEW n \in Nat \ {0}, NEW m \in Nat, NEW l \in Nat, n * (l + 1) < 2 * Scale
  PROVE  LET p == Percentage(n - m, n)
         IN  /\ p \in Int /\ p <= Scale
             /\ m = 0 => p >= Scale
             /\ m > 0 => 2 * p < 2 * Scale - l
<1> DEFINE p == Percentage(n - m, n)
           part == (n - m) * Scale
<1>1. Scale \in Nat \ {0}
  BY ScaleAssumption
<1>2. part \in Int
  BY <1>1
<1>3. p \in Int /\ 2 * (n * p) <= 2 * part + n /\ 2 * part - n <= 2 * (n * p)
  BY <1>2, NearestIsNear DEF Percentage
<1>4. part = n * Scale - m * Scale /\ n * Scale \in Int /\ m * Scale \in Nat
  BY <1>1
<1> HIDE DEF p, part
<1>5. n * p \in Int
  BY <1>3
<1>6. p <= Scale
  <2> SUFFICES ASSUME p >= Scale + 1 PROVE FALSE
    BY <1>1, <1>3
  <2>1. n * (Scale + 1) <= n * p
    BY <1>1, <1>3, TimesIsMonotone
  <2>2. n * (Scale + 1) = n * Scale + n
    BY <1>1
  <2> QED BY <1>3, <1>4, <1>5, <2>1, <2>2
<1>7. ASSUME m = 0 PROVE p >= Scale
  <2> SUFFICES ASSUME p <= Scale - 1 PROVE FALSE
    BY <1>1, <1>3
  <2>1. n * p <= n * (Scale - 1)
    BY <1>1, <1>3, TimesIsMonotone
  <2>2. n * (Scale - 1) = n * Scale - n /\ m * Scale = 0
    BY <1>1, <1>7
  <2> QED BY <1>3, <1>4, <1>5, <2>1, <2>2
<1>8. ASSUME m > 0 PROVE 2 * p < 2 * Scale - l
  <2> SUFFICES ASSUME 2 * Scale - l <= 2 * p PROVE FALSE
    BY <1>1, <1>3
  <2>1. n * (2 * Scale - l) <= n * (2 * p)
    BY <1>1, <1>3, TimesIsMonotone
  <2>2. /\ n * (2 * Scale - l) = 2 * (n * Scale) - n * l
        /\ n * (2 * p) = 2 * (n * p)
        /\ n * (l + 1) = n * l + n /\ n * l \in Int
    BY <1>1, <1>3
  <2>3. Scale * 1 <= Scale * m
    BY <1>1, <1>8, TimesIsMonotone
  <2>4. Scale <= m * Scale
    BY <1>1, <2>3
  <2>5. 2 * (n * p) <= 2 * (n * Scale) - 2 * Scale + n
    BY <1>1, <1>3, <1>4, <1>5, <2>4
  <2> QED BY <1>1, <1>4, <1>5, <2>1, <2>2, <2>5
<1> QED BY <1>3, <1>6, <1>7, <1>8 DEF p

(* The completeness is 100% when no cell is missing, and only then.         *)
LEMMA CompletenessIsMeant ==
  ASSUME NEW f, IsList(f.rows), NEW columns, IsList(columns), NEW sentinels,
         Len(f.rows) * (Len(columns) + 1) < 2 * Scale
  PROVE  Completeness(f, columns, sentinels) >= Scale <=>
           \A i \in DOMAIN f.rows : \A n \in DOMAIN columns :
             f.rows[i][columns[n]] \notin {NULL, BLANK} \cup sentinels
<1> DEFINE n == Len(f.rows)
           l == Len(columns)
           missing(i) == MissingCells(f, columns[i], sentinels)
           g == [i \in DOMAIN columns |-> Percentage(n - missing(i), n)]
           sum == SumFunction(g)
           meant == \A i \in DOMAIN f.rows : \A k \in DOMAIN columns :
                      f.rows[i][columns[k]] \notin {NULL, BLANK} \cup sentinels
           score == Completeness(f, columns, sentinels)
<1>1. Scale \in Nat \ {0} /\ n \in Nat /\ l \in Nat /\ n * (l + 1) < 2 * Scale
  BY ScaleAssumption DEF IsList
<1>2. DOMAIN f.rows = 1 .. n /\ DOMAIN columns = 1 .. l
  BY EmptyList
<1>3. (f.rows = <<>> <=> n = 0) /\ (columns = <<>> <=> l = 0)
  BY EmptyList
<1>4. CASE n = 0 \/ l = 0
  <2>1. meant
    BY <1>2, <1>4
  <2>2. score = Scale
    BY <1>3, <1>4 DEF Completeness
  <2> QED BY <1>1, <2>1, <2>2
<1>5. CASE n # 0 /\ l # 0
  <2>1. \A k \in DOMAIN columns : missing(k) \in Nat /\
          (missing(k) = 0 <=> \A i \in DOMAIN f.rows :
                                f.rows[i][columns[k]] \notin {NULL, BLANK} \cup sentinels)
    <3> TAKE k \in DOMAIN columns
    <3> DEFINE Cells(S) == {i \in DOMAIN f.rows : f.rows[i][columns[k]] \in S}
    <3>1. \A S : /\ Cardinality(Cells(S)) \in Nat
                 /\ Cardinality(Cells(S)) = 0 <=>
                      \A i \in DOMAIN f.rows : f.rows[i][columns[k]] \notin S
      <4> TAKE S
      <4>1. IsFiniteSet(Cells(S)) /\ Cardinality(Cells(S)) \in Nat
        BY RowSets
      <4>2. Cardinality(Cells(S)) = 0 <=> Cells(S) = {}
        BY <4>1, FS_EmptySet
      <4> QED BY <4>1, <4>2
    <3>2. missing(k) = Cardinality(Cells({NULL})) + Cardinality(Cells({BLANK}))
                         + Cardinality(Cells(sentinels))
      BY DEF MissingCells
    <3>3. /\ Cardinality(Cells({NULL})) = 0 <=>
               \A i \in DOMAIN f.rows : f.rows[i][columns[k]] \notin {NULL}
          /\ Cardinality(Cells({BLANK})) = 0 <=>
               \A i \in DOMAIN f.rows : f.rows[i][columns[k]] \notin {BLANK}
          /\ Cardinality(Cells(sentinels)) = 0 <=>
               \A i \in DOMAIN f.rows : f.rows[i][columns[k]] \notin sentinels
      BY <3>1, Zenon
    <3> DEFINE a == Cardinality(Cells({NULL}))
               b == Cardinality(Cells({BLANK}))
               c == Cardinality(Cells(sentinels))
    <3>4. a \in Nat /\ b \in Nat /\ c \in Nat /\ missing(k) = a + b + c
      BY <3>1, <3>2
    <3> HIDE DEF a, b, c, missing
    <3>5. missing(k) \in Nat /\ (missing(k) = 0 <=> a = 0 /\ b = 0 /\ c = 0)
      BY <3>4
    <3> QED BY <3>3, <3>5 DEF a, b, c
  <2> HIDE DEF missing
  <2>2. \A k \in DOMAIN columns :
          /\ g[k] \in Int /\ g[k] <= Scale
          /\ missing(k) = 0 => g[k] >= Scale
          /\ missing(k) > 0 => 2 * g[k] < 2 * Scale - l
    <3> TAKE k \in DOMAIN columns
    <3>1. g[k] = Percentage(n - missing(k), n)
      OBVIOUS
    <3>2. n \in Nat \ {0} /\ missing(k) \in Nat
      BY <1>1, <1>5, <2>1
    <3> QED BY <1>1, <3>1, <3>2, ColumnCompleteness
  <2>3. score = Nearest(sum, l)
    BY <1>3, <1>5 DEF Completeness, missing
  <2>4. sum = SumFunctionOnSet(g, 1 .. l)
    BY <1>2 DEF SumFunction
  <2>5. IsFiniteSet(1 .. l) /\ Cardinality(1 .. l) = l
    <3> HIDE DEF l
    <3>1. 1 \in Int /\ l \in Int /\ l >= 1
      BY <1>1, <1>5
    <3> QED BY <3>1, FS_Interval
  <2> HIDE DEF g, sum, score
  <2>6. sum \in Int
    BY <1>2, <2>2, <2>4, <2>5, SumLaws
  <2>7. score \in Int /\ 2 * (l * score) <= 2 * sum + l /\ 2 * sum - l <= 2 * (l * score)
    BY <1>1, <1>5, <2>3, <2>6, NearestIsNear
  <2>8. meant <=> \A k \in DOMAIN columns : missing(k) = 0
    BY <2>1
  <2> HIDE DEF meant, n, l
  <2>9. ASSUME meant PROVE score >= Scale
    <3>1. sum >= l * Scale
      <4>1. \A k \in 1 .. l : g[k] \in Int /\ g[k] >= Scale
        BY <1>2, <2>2, <2>8, <2>9
      <4>2. Scale \in Int
        BY <1>1
      <4>3. SumFunctionOnSet(g, 1 .. l) >= Cardinality(1 .. l) * Scale
        BY <2>5, <4>1, <4>2, SumIsBounded
      <4> QED BY <2>4, <2>5, <4>3
    <3> SUFFICES ASSUME score <= Scale - 1 PROVE FALSE
      BY <1>1, <2>7
    <3>2. l * score <= l * (Scale - 1)
      BY <1>1, <1>5, <2>7, TimesIsMonotone
    <3>3. l * (Scale - 1) = l * Scale - l /\ l * Scale \in Int /\ l * score \in Int
      BY <1>1, <2>7
    <3> QED BY <1>1, <1>5, <2>6, <2>7, <3>1, <3>2, <3>3
  <2>10. ASSUME ~meant PROVE score < Scale
    <3>1. PICK k \in 1 .. l : missing(k) > 0
      BY <1>2, <2>1, <2>8, <2>10
    <3> DEFINE others == (1 .. l) \ {k}
    <3>2. sum = g[k] + SumFunctionOnSet(g, others) /\ SumFunctionOnSet(g, others) \in Int
      <4> DEFINE D == 1 .. l
      <4>1. IsFiniteSet(D) /\ \A x \in D : g[x] \in Int
        BY <1>2, <2>2, <2>5
      <4>2. D \in SUBSET D /\ D \ {k} \in SUBSET D /\ k \in D
        OBVIOUS
      <4> HIDE DEF D
      <4>3. /\ SumFunctionOnSet(g, D) = g[k] + SumFunctionOnSet(g, D \ {k})
            /\ SumFunctionOnSet(g, D \ {k}) \in Int
        BY <4>1, <4>2, SumWithoutOne
      <4> QED BY <2>4, <4>3 DEF D
    <3>3. IsFiniteSet(others) /\ Cardinality(others) = l - 1
      BY <2>5, FS_RemoveElement
    <3>4. SumFunctionOnSet(g, others) <= (l - 1) * Scale
      <4>1. \A x \in others : g[x] \in Int /\ g[x] <= Scale
        BY <1>2, <2>2
      <4>2. Scale \in Int
        BY <1>1
      <4>3. SumFunctionOnSet(g, others) <= Cardinality(others) * Scale
        BY <3>3, <4>1, <4>2, SumIsBounded
      <4> QED BY <3>3, <4>3
    <3>5. g[k] \in Int /\ 2 * g[k] < 2 * Scale - l
      BY <1>2, <2>2, <3>1
    <3>6. (l - 1) * Scale = l * Scale - Scale /\ l * Scale \in Int
      BY <1>1
    <3> HIDE DEF others
    <3>7. 2 * sum < 2 * (l * Scale) - l
      BY <1>1, <2>6, <3>2, <3>4, <3>5, <3>6
    <3> SUFFICES ASSUME Scale <= score PROVE FALSE
      BY <1>1, <2>7
    <3>8. l * Scale <= l * score /\ l * score \in Int
      BY <1>1, <1>5, <2>7, TimesIsMonotone
    <3> QED BY <1>1, <2>6, <2>7, <3>6, <3>7, <3>8
  <2> QED BY <1>1, <2>7, <2>9, <2>10 DEF meant, score
<1> QED BY <1>1, <1>4, <1>5

(* A nullability check at 100% passes when no cell is missing.              *)
LEMMA NullabilityIsMeant ==
  ASSUME NEW r, r.kind = "nullability", IsRequest(r), r.tolerance = Scale,
         Len(r.source.rows)
           * ((IF r.keys = <<>> THEN Len(r.source.columns) ELSE Len(r.keys)) + 1) < 2 * Scale,
         NullabilityRun(r).status \in {"PASS", "FAIL"}
  PROVE  NullabilityRun(r).status = "PASS" <=> NothingWrong(r)
<1> DEFINE s == r.source
           columns == IF r.keys = <<>> THEN s.columns ELSE Resolved(r.keys, s.columns)
           score == Completeness(s, columns, r.sentinels)
           named == IF r.keys = <<>> THEN ToSet(s.columns)
                    ELSE {CanonicalMap(s.columns)[CaseFold[k]] : k \in ToSet(r.keys)}
           bad == {NULL, BLANK} \cup r.sentinels
<1>1. NothingWrong(r) <=> \A i \in DOMAIN s.rows : \A c \in named : s.rows[i][c] \notin bad
  BY DEF NothingWrong
<1>2. NullabilityRun(r).status = "PASS" <=> score >= Scale
  BY DEF NullabilityRun, Result, Raised, Verdict
<1>3. named = {columns[n] : n \in DOMAIN columns}
  BY DEF ToSet, Resolved
<1>4. IsList(columns) /\ Len(columns) = IF r.keys = <<>> THEN Len(s.columns) ELSE Len(r.keys)
  <2>1. CASE r.keys = <<>>
    BY <2>1 DEF IsRequest
  <2>2. CASE r.keys # <<>>
    <3> DEFINE keys == r.keys
               names == Resolved(keys, s.columns)
    <3>1. DOMAIN keys = 1 .. Len(keys) /\ Len(keys) \in Nat
      BY EmptyList DEF IsRequest, IsList
    <3>2. names = [i \in 1 .. Len(keys) |-> CanonicalMap(s.columns)[CaseFold[keys[i]]]]
      BY <3>1 DEF Resolved
    <3>3. Len(names) = Len(keys) /\ names = [i \in 1 .. Len(keys) |-> names[i]]
      BY <3>1, <3>2
    <3> HIDE DEF names
    <3>4. IsList(names)
      BY <3>1, <3>3 DEF IsList
    <3> QED BY <2>2, <3>3, <3>4 DEF names
  <2> QED BY <2>1, <2>2
<1> HIDE DEF columns, named
<1>5. score >= Scale <=> \A i \in DOMAIN s.rows : \A n \in DOMAIN columns :
                           s.rows[i][columns[n]] \notin bad
  BY <1>4, CompletenessIsMeant DEF IsRequest
<1> QED BY <1>1, <1>2, <1>3, <1>5

(* Disjoint parts have as many elements together as one after the other.    *)
LEMMA PartsAddUp ==
  ASSUME NEW S, IsFiniteSet(S), NEW D, IsFiniteSet(D), NEW F \in [S -> SUBSET D],
         \A x, y \in S : x # y => F[x] \cap F[y] = {},
         NEW g, \A x \in S : g[x] = Cardinality(F[x])
  PROVE  SumFunctionOnSet(g, S) = Cardinality(UNION {F[x] : x \in S})
<1> DEFINE sum(U) == SumFunctionOnSet(g, U)
           whole(U) == UNION {F[x] : x \in U}
           T == {U \in SUBSET S : sum(U) = Cardinality(whole(U))}
<1>1. \A x \in S : IsFiniteSet(F[x]) /\ g[x] \in Nat
  BY FS_Subset, FS_CardinalityType
<1>2. /\ sum({}) = 0
      /\ \A U \in SUBSET S : sum(U) \in Int
      /\ \A U \in SUBSET S : \A x \in U : sum(U) = g[x] + sum(U \ {x})
  BY <1>1, SumLaws
<1> HIDE DEF sum
<1>3. {} \in T
  <2>1. whole({}) = {}
    OBVIOUS
  <2> QED BY <1>2, <2>1, FS_EmptySet
<1>4. ASSUME NEW U \in SUBSET S, NEW x \in S \ U, U \in T PROVE U \cup {x} \in T
  <2>1. sum(U \cup {x}) = g[x] + sum(U)
    <3>1. U \cup {x} \in SUBSET S /\ x \in U \cup {x} /\ (U \cup {x}) \ {x} = U
      OBVIOUS
    <3> QED BY <1>2, <3>1
  <2>2. whole(U \cup {x}) = whole(U) \cup F[x] /\ whole(U) \cap F[x] = {}
    OBVIOUS
  <2>3. whole(U) \in SUBSET D
    OBVIOUS
  <2>4. IsFiniteSet(whole(U)) /\ IsFiniteSet(F[x])
    BY <1>1, <2>3, FS_Subset
  <2> HIDE DEF whole
  <2>5. Cardinality(whole(U) \cup F[x]) =
          Cardinality(whole(U)) + Cardinality(F[x]) - Cardinality(whole(U) \cap F[x])
    BY <2>4, FS_Union
  <2>6. Cardinality(whole(U)) \in Nat /\ Cardinality(F[x]) \in Nat /\ Cardinality({}) = 0
    BY <2>4, FS_CardinalityType, FS_EmptySet
  <2>7. g[x] = Cardinality(F[x]) /\ sum(U) = Cardinality(whole(U))
    BY <1>4
  <2>8. Cardinality(whole(U \cup {x})) = Cardinality(whole(U)) + Cardinality(F[x])
    <3>1. Cardinality(whole(U \cup {x})) = Cardinality(whole(U) \cup F[x])
      BY <2>2, Zenon
    <3>2. Cardinality(whole(U) \cap F[x]) = 0
      BY <2>2, <2>6, Zenon
    <3> QED BY <2>5, <2>6, <3>1, <3>2
  <2>9. sum(U \cup {x}) = Cardinality(whole(U \cup {x}))
    BY <2>1, <2>6, <2>7, <2>8
  <2> QED BY <2>9
<1>5. S \in T
  <2> HIDE DEF T
  <2> QED BY <1>3, <1>4, FiniteInduction
<1> QED BY <1>5 DEF sum

(* Counts by group add up to the rows of the frame when every group is      *)
(* counted once.                                                            *)
LEMMA GroupsAddUp ==
  ASSUME NEW f, IsList(f.rows), NEW keys, NEW B, IsFiniteSet(B), NEW g,
         \A x \in B : g[x] = 0 \/ g[x] = Cardinality(RowsWith(f, keys, x.group)),
         \A x, y \in B : g[x] # 0 /\ g[y] # 0 /\ x.group = y.group => x = y,
         \A k \in KeysIn(f, keys) : \E x \in B :
           x.group = k /\ g[x] = Cardinality(RowsWith(f, keys, k))
  PROVE  SumFunctionOnSet(g, B) = Len(f.rows)
<1> DEFINE D == DOMAIN f.rows
           F == [x \in B |-> IF g[x] = 0 THEN {} ELSE RowsWith(f, keys, x.group)]
<1>1. IsFiniteSet(D) /\ Cardinality(D) = Len(f.rows)
  BY RowsAreCounted
<1>2. F \in [B -> SUBSET D]
  BY DEF RowsWith
<1>3. \A x, y \in B : x # y => F[x] \cap F[y] = {}
  BY DEF RowsWith
<1>4. \A x \in B : g[x] = Cardinality(F[x])
  BY FS_EmptySet
<1>5. UNION {F[x] : x \in B} = D
  <2>1. ASSUME NEW i \in D PROVE \E x \in B : i \in F[x]
    <3> DEFINE k == Key(f.rows[i], keys)
    <3>1. k \in KeysIn(f, keys) /\ i \in RowsWith(f, keys, k)
      BY DEF KeysIn, RowsWith
    <3>2. PICK x \in B : x.group = k /\ g[x] = Cardinality(RowsWith(f, keys, k))
      BY <3>1
    <3>3. g[x] # 0
      <4>1. RowsWith(f, keys, k) \subseteq D
        BY DEF RowsWith
      <4>2. IsFiniteSet(RowsWith(f, keys, k))
        BY <1>1, <4>1, FS_Subset
      <4> QED BY <3>1, <3>2, <4>2, FS_EmptySet
    <3> QED BY <3>1, <3>2, <3>3
  <2>2. \A x \in B : F[x] \subseteq D
    BY <1>2
  <2> HIDE DEF F
  <2> QED BY <2>1, <2>2
<1> HIDE DEF F, D
<1>6. SumFunctionOnSet(g, B) = Cardinality(UNION {F[x] : x \in B})
  BY <1>1, <1>2, <1>3, <1>4, PartsAddUp
<1> QED BY <1>1, <1>5, <1>6

(* The keys of a frame are finitely many, and each has finitely many rows.  *)
LEMMA GroupsAreFinite ==
  ASSUME NEW f, IsList(f.rows), NEW keys
  PROVE  /\ IsFiniteSet(KeysIn(f, keys))
         /\ \A k : Cardinality(RowsWith(f, keys, k)) \in Nat
         /\ \A k : Cardinality(RowsWith(f, keys, k)) # 0 <=> k \in KeysIn(f, keys)
<1> DEFINE D == DOMAIN f.rows
           F == [i \in D |-> Key(f.rows[i], keys)]
<1>1. IsFiniteSet(D)
  BY RowsAreCounted
<1>2. KeysIn(f, keys) = {F[i] : i \in D}
  BY DEF KeysIn
<1>3. IsFiniteSet(KeysIn(f, keys))
  <2>1. DOMAIN F = D
    OBVIOUS
  <2> HIDE DEF F, D
  <2> QED BY <1>1, <1>2, <2>1, ImageIsFinite
<1>4. ASSUME NEW k
      PROVE  /\ Cardinality(RowsWith(f, keys, k)) \in Nat
             /\ Cardinality(RowsWith(f, keys, k)) # 0 <=> k \in KeysIn(f, keys)
  <2>1. RowsWith(f, keys, k) \in SUBSET D
    BY DEF RowsWith
  <2>2. IsFiniteSet(RowsWith(f, keys, k)) /\ Cardinality(RowsWith(f, keys, k)) \in Nat
    BY <2>1, RowSets
  <2>3. Cardinality(RowsWith(f, keys, k)) = 0 <=> RowsWith(f, keys, k) = {}
    BY <2>2, FS_EmptySet
  <2>4. RowsWith(f, keys, k) # {} <=> k \in KeysIn(f, keys)
    BY DEF RowsWith, KeysIn
  <2> QED BY <2>2, <2>3, <2>4
<1> QED BY <1>3, <1>4

(* The groups of a record count are finitely many.                          *)
LEMMA BreakdownIsFinite ==
  ASSUME NEW s, NEW t, IsList(s.rows), IsList(t.rows), NEW sKeys, NEW tKeys
  PROVE  IsFiniteSet(Breakdown(s, t, sKeys, tKeys))
<1> DEFINE n(k) == Cardinality(RowsWith(s, sKeys, k))
           m(k) == Cardinality(RowsWith(t, tKeys, k))
           all == KeysIn(s, sKeys) \cup KeysIn(t, tKeys)
           Both   == [k \in all |-> [group |-> k, source |-> n(k), target |-> m(k)]]
           Source == [k \in all |-> [group |-> k, source |-> n(k), target |-> 0]]
           Target == [k \in all |-> [group |-> k, source |-> 0, target |-> m(k)]]
           rest == {Source[k] : k \in all} \cup {Target[k] : k \in all}
<1>1. IsFiniteSet(all)
  BY GroupsAreFinite, FS_Union
<1>2. DOMAIN Both = all /\ DOMAIN Source = all /\ DOMAIN Target = all
  OBVIOUS
<1>3. Breakdown(s, t, sKeys, tKeys) \subseteq {Both[k] : k \in all} \cup rest
  BY DEF Breakdown
<1> HIDE DEF Both, Source, Target, all
<1>4. /\ IsFiniteSet({Both[k] : k \in all}) /\ IsFiniteSet({Source[k] : k \in all})
      /\ IsFiniteSet({Target[k] : k \in all})
  BY <1>1, <1>2, ImageIsFinite
<1>5. IsFiniteSet(rest)
  BY <1>4, FS_Union
<1> HIDE DEF rest
<1>6. IsFiniteSet({Both[k] : k \in all} \cup rest)
  BY <1>4, <1>5, FS_Union
<1> QED BY <1>3, <1>6, FS_Subset

(* A grouped count's rows add up to the rows of either side.                *)
AddUpTo(B, n, m) ==
  /\ \A g : DOMAIN g = B /\ (\A x \in B : g[x] = x.source) => SumFunction(g) = n
  /\ \A g : DOMAIN g = B /\ (\A x \in B : g[x] = x.target) => SumFunction(g) = m

(* The groups of a record count add up to the rows of each side.            *)
LEMMA BreakdownAddsUp ==
  ASSUME NEW s, NEW t, IsList(s.rows), IsList(t.rows), NEW sKeys, NEW tKeys
  PROVE  AddUpTo(Breakdown(s, t, sKeys, tKeys), Len(s.rows), Len(t.rows))
<1> DEFINE B == Breakdown(s, t, sKeys, tKeys)
           n(k) == Cardinality(RowsWith(s, sKeys, k))
           m(k) == Cardinality(RowsWith(t, tKeys, k))
           all == KeysIn(s, sKeys) \cup KeysIn(t, tKeys)
           Both(k)   == [group |-> k, source |-> n(k), target |-> m(k)]
           Source(k) == [group |-> k, source |-> n(k), target |-> 0]
           Target(k) == [group |-> k, source |-> 0, target |-> m(k)]
<1>1. \A x : x \in B <=>
        \/ \E k \in all : ~HasNull(k) /\ x = Both(k)
        \/ \E k \in KeysIn(s, sKeys) : HasNull(k) /\ x = Source(k)
        \/ \E k \in KeysIn(t, tKeys) : HasNull(k) /\ x = Target(k)
  BY DEF Breakdown
<1>2. IsFiniteSet(B)
  BY BreakdownIsFinite
<1>3. \A k : n(k) \in Nat /\ m(k) \in Nat
  BY GroupsAreFinite
<1> HIDE DEF n, m, B
<1>4. \A x \in B :
        \/ ~HasNull(x.group) /\ x = Both(x.group)
        \/ HasNull(x.group) /\ x = Source(x.group)
        \/ HasNull(x.group) /\ x = Target(x.group)
  BY <1>1
<1>5. \A x \in B : (x.source = 0 \/ x.source = n(x.group)) /\ (x.target = 0 \/ x.target = m(x.group))
  BY <1>4
<1>6. \A x, y \in B : x.source # 0 /\ y.source # 0 /\ x.group = y.group => x = y
  BY <1>4
<1>7. \A x, y \in B : x.target # 0 /\ y.target # 0 /\ x.group = y.group => x = y
  BY <1>4
<1>8. \A k \in KeysIn(s, sKeys) : \E x \in B : x.group = k /\ x.source = n(k)
  <2> TAKE k \in KeysIn(s, sKeys)
  <2>1. CASE HasNull(k)
    <3>1. Source(k) \in B /\ Source(k).group = k /\ Source(k).source = n(k)
      BY <1>1, <2>1
    <3> QED BY <3>1
  <2>2. CASE ~HasNull(k)
    <3>1. Both(k) \in B /\ Both(k).group = k /\ Both(k).source = n(k)
      BY <1>1, <2>2
    <3> QED BY <3>1
  <2> QED BY <2>1, <2>2
<1>9. \A k \in KeysIn(t, tKeys) : \E x \in B : x.group = k /\ x.target = m(k)
  <2> TAKE k \in KeysIn(t, tKeys)
  <2>1. CASE HasNull(k)
    <3>1. Target(k) \in B /\ Target(k).group = k /\ Target(k).target = m(k)
      BY <1>1, <2>1
    <3> QED BY <3>1
  <2>2. CASE ~HasNull(k)
    <3>1. Both(k) \in B /\ Both(k).group = k /\ Both(k).target = m(k)
      BY <1>1, <2>2
    <3> QED BY <3>1
  <2> QED BY <2>1, <2>2
<1>10. ASSUME NEW g, DOMAIN g = B, \A x \in B : g[x] = x.source
       PROVE  SumFunction(g) = Len(s.rows)
  <2>1. \A x \in B : g[x] = 0 \/ g[x] = Cardinality(RowsWith(s, sKeys, x.group))
    BY <1>10, <1>5 DEF n
  <2>2. \A x, y \in B : g[x] # 0 /\ g[y] # 0 /\ x.group = y.group => x = y
    BY <1>10, <1>6
  <2>3. \A k \in KeysIn(s, sKeys) : \E x \in B :
          x.group = k /\ g[x] = Cardinality(RowsWith(s, sKeys, k))
    BY <1>10, <1>8 DEF n
  <2>4. SumFunctionOnSet(g, B) = Len(s.rows)
    BY <1>2, <2>1, <2>2, <2>3, GroupsAddUp
  <2> QED BY <1>10, <2>4 DEF SumFunction
<1>11. ASSUME NEW g, DOMAIN g = B, \A x \in B : g[x] = x.target
       PROVE  SumFunction(g) = Len(t.rows)
  <2>1. \A x \in B : g[x] = 0 \/ g[x] = Cardinality(RowsWith(t, tKeys, x.group))
    BY <1>11, <1>5 DEF m
  <2>2. \A x, y \in B : g[x] # 0 /\ g[y] # 0 /\ x.group = y.group => x = y
    BY <1>11, <1>7
  <2>3. \A k \in KeysIn(t, tKeys) : \E x \in B :
          x.group = k /\ g[x] = Cardinality(RowsWith(t, tKeys, k))
    BY <1>11, <1>9 DEF m
  <2>4. SumFunctionOnSet(g, B) = Len(t.rows)
    BY <1>2, <2>1, <2>2, <2>3, GroupsAddUp
  <2> QED BY <1>11, <2>4 DEF SumFunction
<1> QED BY <1>10, <1>11 DEF AddUpTo, B

(* So a record count judges the numbers of rows, grouped or not.            *)
LEMMA CountsAreWhole ==
  ASSUME NEW r, IsRequest(r)
  PROVE  LET s == r.source
             t == r.target
             rows == Breakdown(s, t, Resolved(r.keys, s.columns), Resolved(r.keys, t.columns))
             result1 == CountRun(r)
         IN  result1.status \in {"PASS", "FAIL"} =>
               /\ result1.status = "PASS" <=>
                    RecordCountPasses(Len(s.rows), Len(t.rows), r.absolute, r.tolerance)
               /\ r.keys # <<>> => result1.detail = rows
<1> DEFINE s == r.source
           t == r.target
           rows == Breakdown(s, t, Resolved(r.keys, s.columns), Resolved(r.keys, t.columns))
<1>1. /\ SumFunction([x \in rows |-> x.source]) = Len(s.rows)
      /\ SumFunction([x \in rows |-> x.target]) = Len(t.rows)
  <2>1. IsList(s.rows) /\ IsList(t.rows)
    BY DEF IsRequest
  <2> DEFINE n == Len(s.rows)
             m == Len(t.rows)
             g == [x \in rows |-> x.source]
             h == [x \in rows |-> x.target]
  <2>2. AddUpTo(rows, n, m)
    BY <2>1, BreakdownAddsUp
  <2> HIDE DEF n, m, rows
  <2>3. /\ DOMAIN g = rows /\ \A x \in rows : g[x] = x.source
        /\ DOMAIN h = rows /\ \A x \in rows : h[x] = x.target
    OBVIOUS
  <2> HIDE DEF g, h
  <2>4. SumFunction(g) = n /\ SumFunction(h) = m
    BY <2>2, <2>3 DEF AddUpTo
  <2> QED BY <2>4 DEF g, h, n, m
<1> HIDE DEF rows
<1>2. CASE r.keys = <<>>
  BY <1>2 DEF CountRun, Result, Raised, Verdict
<1>3. CASE r.keys # <<>>
  BY <1>1, <1>3 DEF CountRun, Result, Raised, Verdict, rows
<1> QED BY <1>2, <1>3 DEF rows

(* A record count passes when both sides have as many rows.                 *)
LEMMA CountIsMeant ==
  ASSUME NEW r, r.kind = "count", IsRequest(r), r.tolerance = 0, r.absolute = 0,
         Len(r.source.rows) < 2 * Scale, CountRun(r).status \in {"PASS", "FAIL"}
  PROVE  CountRun(r).status = "PASS" <=> NothingWrong(r)
<1> DEFINE n == Len(r.source.rows)
           m == Len(r.target.rows)
<1>1. NothingWrong(r) <=> n = m
  BY DEF NothingWrong
<1>2. CountRun(r).status = "PASS" <=> RecordCountPasses(n, m, 0, 0)
  BY CountsAreWhole
<1>3. n \in Nat /\ m \in Nat /\ n < 2 * Scale
  BY DEF IsRequest, IsList
<1> HIDE DEF n, m
<1>4. RecordCountPasses(n, m, 0, 0) <=> n = m
  <2>1. Abs(m - n) <= 0 <=> n = m
    BY <1>3 DEF Abs
  <2> DEFINE d == m - n
  <2>2. /\ VariancePercent(n, d) \in Int
        /\ d = 0 => VariancePercent(n, d) = 0
        /\ d # 0 => VariancePercent(n, d) > 0
    <3>1. d \in Int
      BY <1>3
    <3> HIDE DEF d
    <3> QED BY <1>3, <3>1, VarianceShows
  <2> QED BY <1>3, <2>1, <2>2 DEF RecordCountPasses
<1> QED BY <1>1, <1>2, <1>4

(* The aligned target has the cells of the target under the source's names. *)
LEMMA AlignedCells ==
  ASSUME NEW s, NEW t, IsList(s.columns), IsList(t.columns), FoldsAreDistinct(t.columns),
         {"columns", "type", "rows"} \subseteq DOMAIN t
  PROVE  LET a == AlignToSource(s, t)
         IN  /\ DOMAIN a.rows = DOMAIN t.rows
             /\ \A k \in Folds(s.columns) : CanonicalMap(s.columns)[k] \in ToSet(a.columns) =>
                  /\ k \in Folds(t.columns)
                  /\ \A i \in DOMAIN t.rows :
                       a.rows[i][CanonicalMap(s.columns)[k]] = t.rows[i][CanonicalMap(t.columns)[k]]
<1> DEFINE canonical == CanonicalMap(s.columns)
           cols == ToSet(t.columns)
           new == [c \in cols |->
                     IF CaseFold[c] \in DOMAIN canonical THEN canonical[CaseFold[c]] ELSE c]
           names == [i \in DOMAIN t.columns |-> new[t.columns[i]]]
           Old(n) == CHOOSE c \in cols : new[c] = n
           a == AlignToSource(s, t)
<1>1. /\ a.columns = names
      /\ a.rows = [i \in DOMAIN t.rows |-> [n \in ToSet(names) |-> t.rows[i][Old(n)]]]
  BY DEF AlignToSource, Renamed
<1>2. \A i \in DOMAIN t.rows : \A n \in ToSet(names) : a.rows[i][n] = t.rows[i][Old(n)]
  <2> HIDE DEF Old, names, a
  <2> QED BY <1>1
<1>3. DOMAIN canonical = Folds(s.columns)
  BY DEF CanonicalMap
<1>4. \A k \in Folds(s.columns) : CaseFold[canonical[k]] = k
  BY CanonicalIsThere
<1>5. ToSet(names) = {new[c] : c \in cols}
  BY DEF ToSet
<1>6. \A c \in cols : CaseFold[new[c]] = CaseFold[c]
  BY <1>3, <1>4
<1> HIDE DEF canonical, new, names, a
<1>7. ASSUME NEW c \in cols, NEW d \in cols, CaseFold[c] = CaseFold[d] PROVE c = d
  BY <1>7 DEF ToSet, FoldsAreDistinct
<1>8. ASSUME NEW k \in Folds(s.columns), canonical[k] \in ToSet(a.columns)
      PROVE  /\ k \in Folds(t.columns)
             /\ Old(canonical[k]) = CanonicalMap(t.columns)[k]
  <2>1. PICK c \in cols : new[c] = canonical[k]
    BY <1>1, <1>5, <1>8
  <2>2. CaseFold[c] = k
    BY <1>4, <1>6, <2>1
  <2>3. k \in Folds(t.columns)
    BY <2>1, <2>2 DEF Folds, ToSet
  <2>4. Old(canonical[k]) \in cols /\ new[Old(canonical[k])] = canonical[k]
    BY <2>1
  <2>5. CaseFold[Old(canonical[k])] = k
    BY <1>4, <1>6, <2>4
  <2>6. CanonicalMap(t.columns)[k] \in cols /\ CaseFold[CanonicalMap(t.columns)[k]] = k
    BY <2>3, CanonicalIsThere
  <2> QED BY <1>7, <2>3, <2>4, <2>5, <2>6
<1>9. ASSUME NEW k \in Folds(s.columns), canonical[k] \in ToSet(a.columns), NEW i \in DOMAIN t.rows
      PROVE  a.rows[i][canonical[k]] = t.rows[i][CanonicalMap(t.columns)[k]]
  <2>1. canonical[k] \in ToSet(names)
    BY <1>1, <1>9
  <2>2. a.rows[i][canonical[k]] = t.rows[i][Old(canonical[k])]
    <3> HIDE DEF Old
    <3> QED BY <1>2, <2>1
  <2> QED BY <1>8, <1>9, <2>2
<1>10. DOMAIN a.rows = DOMAIN t.rows
  BY <1>1
<1> QED BY <1>8, <1>9, <1>10 DEF a, canonical

(* An aggregate of numbers is one.                                          *)
LEMMA AggregateIsANumber ==
  ASSUME NEW f, IsList(f.rows), NEW c, NEW group \in SUBSET DOMAIN f.rows,
         \A i \in group : f.rows[i][c] = NULL \/ f.rows[i][c] \in Int,
         NEW function \in {"COUNT", "COUNT_DISTINCT", "SUM", "MIN", "MAX"}
  PROVE  Aggregate(f, c, group, function) \in Int
<1> DEFINE present == {i \in group : f.rows[i][c] # NULL}
           F == [i \in present |-> f.rows[i][c]]
           values == {f.rows[i][c] : i \in present}
<1>1. present \in SUBSET DOMAIN f.rows
  OBVIOUS
<1>2. IsFiniteSet(present) /\ Cardinality(present) \in Int
  BY <1>1, RowSets
<1>3. /\ DOMAIN F = present /\ (\A i \in present : F[i] \in Int)
      /\ values = {F[i] : i \in present} /\ values \subseteq Int
      /\ (present # {} => values # {})
  OBVIOUS
<1>4. /\ function = "COUNT" => Aggregate(f, c, group, function) = Cardinality(present)
      /\ function = "COUNT_DISTINCT" => Aggregate(f, c, group, function) = Cardinality(values)
      /\ function = "SUM" => Aggregate(f, c, group, function) = SumFunction(F)
      /\ function = "MIN" => Aggregate(f, c, group, function) =
                               IF present = {} THEN 0 ELSE Min(values)
      /\ function = "MAX" => Aggregate(f, c, group, function) =
                               IF present = {} THEN 0 ELSE Max(values)
  BY DEF Aggregate
<1> HIDE DEF present, F, values
<1>5. IsFiniteSet(values)
  BY <1>2, <1>3, ImageIsFinite
<1>6. Cardinality(values) \in Int
  BY <1>5, FS_CardinalityType
<1>7. SumFunction(F) \in Int
  <2>1. SumFunctionOnSet(F, present) \in Int
    BY <1>2, <1>3, SumLaws
  <2> QED BY <1>3, <2>1 DEF SumFunction
<1>8. present # {} => Min(values) \in Int /\ Max(values) \in Int
  BY <1>3, <1>5, FiniteBounds
<1> QED BY <1>2, <1>4, <1>6, <1>7, <1>8

(* A sum passes when it is the same in every group of both sides.           *)
LEMMA AggregationIsMeant ==
  ASSUME NEW r, r.kind = "aggregation", IsRequest(r), r.function = "SUM", r.tolerance = 0,
         AggregationRun(r).status \in {"PASS", "FAIL"},
         \A x \in AggregationRun(r).detail : Abs(x.source) < 2 * Scale
  PROVE  AggregationRun(r).status = "PASS" <=> NothingWrong(r)
<1> DEFINE s == r.source
           t == r.target
           a == AlignToSource(s, t)
           groupBy == Resolved(r.keys, s.columns)
           column == CanonicalMap(s.columns)[CaseFold[r.column]]
           named == CanonicalMap(t.columns)[CaseFold[r.column]]
           rows == AggregationRows(s, a, groupBy, column, "SUM")
           failed == {x \in rows : VariancePercent(Abs(x.source), x.target - x.source) > 0}
           key(f, i) == [n \in DOMAIN r.keys |->
                           f.rows[i][CanonicalMap(f.columns)[CaseFold[r.keys[n]]]]]
           group(f, g) == {i \in DOMAIN f.rows : key(f, i) = g}
           groups == UNION {{key(f, i) : i \in DOMAIN f.rows} : f \in {s, t}}
           present(f, g, c) == {j \in group(f, g) : f.rows[j][c] # NULL}
           total(f, g, c) == SumFunction([i \in present(f, g, c) |-> f.rows[i][c]])
           asked == IF groupBy = <<>> THEN {<<>>} ELSE KeysIn(s, groupBy) \cup KeysIn(a, groupBy)
<1>1. NothingWrong(r) <=> \A g \in groups : total(s, g, column) = total(t, g, named)
  BY DEF NothingWrong
<1>2. Resolved(<<r.column>>, s.columns)[1] = column
  BY DEF Resolved
<1>3. /\ AggregationRun(r).status = "PASS" <=> failed = {}
      /\ AggregationRun(r).detail = rows
      /\ Missing(r.keys, s.columns) = {} /\ ToSet(groupBy) \subseteq ToSet(a.columns)
      /\ Missing(<<r.column>>, s.columns) = {} /\ column \in ToSet(a.columns)
  BY <1>2 DEF AggregationRun, Result, Raised, Verdict
<1>4. /\ \A n \in DOMAIN r.keys : CaseFold[r.keys[n]] \in Folds(s.columns)
      /\ CaseFold[r.column] \in Folds(s.columns)
  <2>1. DOMAIN <<r.column>> = {1} /\ <<r.column>>[1] = r.column
    OBVIOUS
  <2> QED BY <1>3, <2>1 DEF Missing
<1>5. \A n \in DOMAIN r.keys :
        /\ groupBy[n] = CanonicalMap(s.columns)[CaseFold[r.keys[n]]]
        /\ groupBy[n] \in ToSet(a.columns)
  BY <1>3 DEF Resolved, ToSet
<1>6. /\ DOMAIN a.rows = DOMAIN t.rows
      /\ \A k \in Folds(s.columns) : CanonicalMap(s.columns)[k] \in ToSet(a.columns) =>
           /\ k \in Folds(t.columns)
           /\ \A i \in DOMAIN t.rows :
                a.rows[i][CanonicalMap(s.columns)[k]] = t.rows[i][CanonicalMap(t.columns)[k]]
  BY AlignedCells DEF IsRequest
<1>7. /\ CaseFold[r.column] \in Folds(t.columns)
      /\ \A i \in DOMAIN t.rows : a.rows[i][column] = t.rows[i][named]
  BY <1>3, <1>4, <1>6
<1>8. \A i \in DOMAIN s.rows : Key(s.rows[i], groupBy) = key(s, i)
  BY DEF Key, Resolved
<1>9. \A i \in DOMAIN t.rows : Key(a.rows[i], groupBy) = key(t, i)
  <2> TAKE i \in DOMAIN t.rows
  <2>1. \A n \in DOMAIN r.keys :
          a.rows[i][groupBy[n]] = t.rows[i][CanonicalMap(t.columns)[CaseFold[r.keys[n]]]]
    BY <1>4, <1>5, <1>6
  <2>2. DOMAIN groupBy = DOMAIN r.keys
    BY DEF Resolved
  <2> HIDE DEF groupBy, a
  <2> QED BY <2>1, <2>2 DEF Key
<1>10. \A g : RowsWith(s, groupBy, g) = group(s, g) /\ RowsWith(a, groupBy, g) = group(t, g)
  <2> HIDE DEF key, groupBy, a
  <2> QED BY <1>6, <1>8, <1>9 DEF RowsWith
<1>11. KeysIn(s, groupBy) \cup KeysIn(a, groupBy) = groups
  <2> HIDE DEF key, groupBy, a
  <2> QED BY <1>6, <1>8, <1>9 DEF KeysIn
<1>12. \A g : Aggregate(s, column, RowsWith(s, groupBy, g), "SUM") = total(s, g, column)
  <2> HIDE DEF key, groupBy, a, column
  <2> QED BY <1>10 DEF Aggregate
<1>13. \A g : Aggregate(a, column, RowsWith(a, groupBy, g), "SUM") = total(t, g, named)
  <2> TAKE g
  <2> HIDE DEF key, groupBy, a, column, named
  <2> DEFINE F == [i \in {j \in group(t, g) : a.rows[j][column] # NULL} |-> a.rows[i][column]]
             G == [i \in present(t, g, named) |-> t.rows[i][named]]
  <2>1. Aggregate(a, column, RowsWith(a, groupBy, g), "SUM") = SumFunction(F)
    BY <1>10 DEF Aggregate
  <2>2. F = G
    BY <1>7
  <2> QED BY <2>1, <2>2
<1>14. \A g : total(s, g, column) \in Int /\ total(t, g, named) \in Int
  <2> TAKE g
  <2>1. \A i \in DOMAIN s.rows : s.rows[i][column] = NULL \/ s.rows[i][column] \in Int
    BY <1>4, CanonicalIsThere DEF IsRequest, Numeric
  <2>2. \A i \in DOMAIN t.rows : t.rows[i][named] = NULL \/ t.rows[i][named] \in Int
    BY <1>7, CanonicalIsThere DEF IsRequest, Numeric
  <2> HIDE DEF key, column, named
  <2>3. Aggregate(s, column, group(s, g), "SUM") \in Int
    BY <2>1, AggregateIsANumber DEF IsRequest
  <2>4. Aggregate(t, named, group(t, g), "SUM") \in Int
    BY <2>2, AggregateIsANumber DEF IsRequest
  <2> QED BY <2>3, <2>4 DEF Aggregate
<1>15. rows = {[group |-> g, source |-> total(s, g, column), target |-> total(t, g, named)] :
                 g \in asked}
  <2> HIDE DEF key, groupBy, a, column, named, total
  <2> QED BY <1>12, <1>13 DEF AggregationRows
<1>16. asked = groups \/ (asked = {<<>>} /\ groups \subseteq {<<>>})
  <2>1. CASE groupBy = <<>>
    <3>1. DOMAIN r.keys = {}
      BY <2>1 DEF Resolved
    <3>2. \A f, i : key(f, i) = <<>>
      BY <3>1
    <3>3. groups \subseteq {<<>>}
      <4> HIDE DEF key
      <4> QED BY <3>2
    <3> QED BY <2>1, <3>3
  <2>2. CASE groupBy # <<>>
    BY <1>11, <2>2
  <2> QED BY <2>1, <2>2
<1>17. \A g : g \notin groups => total(s, g, column) = total(t, g, named)
  <2> SUFFICES ASSUME NEW g, g \notin groups PROVE total(s, g, column) = total(t, g, named)
    OBVIOUS
  <2>1. group(s, g) = {} /\ group(t, g) = {}
    <3> HIDE DEF key
    <3>1. /\ \A i \in DOMAIN s.rows : key(s, i) \in groups
          /\ \A i \in DOMAIN t.rows : key(t, i) \in groups
      OBVIOUS
    <3> HIDE DEF groups
    <3> QED BY <3>1
  <2>2. present(s, g, column) = {} /\ present(t, g, named) = {}
    BY <2>1
  <2>3. [i \in present(s, g, column) |-> s.rows[i][column]] =
          [i \in present(t, g, named) |-> t.rows[i][named]]
    BY <2>2
  <2> QED BY <2>3
<1> HIDE DEF asked, groups, total, rows, key, column, named
<1>18. failed = {} <=> \A g \in asked : total(s, g, column) = total(t, g, named)
  <2>1. ASSUME NEW g \in asked
        PROVE  VariancePercent(Abs(total(s, g, column)), total(t, g, named) - total(s, g, column)) > 0
                 <=> total(s, g, column) # total(t, g, named)
    <3> DEFINE m == total(s, g, column)
               n == total(t, g, named)
               d == n - m
    <3>1. m \in Int /\ n \in Int /\ Abs(m) < 2 * Scale
      <4>1. [group |-> g, source |-> m, target |-> n] \in rows
        BY <1>15
      <4> QED BY <1>3, <1>14, <4>1
    <3> HIDE DEF m, n
    <3>2. d \in Int /\ (d = 0 <=> m = n) /\ Abs(m) \in Nat
      BY <3>1 DEF Abs
    <3> HIDE DEF d
    <3>3. /\ VariancePercent(Abs(m), d) \in Int
          /\ d = 0 => VariancePercent(Abs(m), d) = 0
          /\ d # 0 => VariancePercent(Abs(m), d) > 0
      BY <3>1, <3>2, VarianceShows
    <3> QED BY <3>2, <3>3 DEF m, n, d
  <2>2. /\ \A x \in rows : \E g \in asked :
               x.source = total(s, g, column) /\ x.target = total(t, g, named)
        /\ \A g \in asked : \E x \in rows :
               x.source = total(s, g, column) /\ x.target = total(t, g, named)
    <3> DEFINE Row(g) ==
          [group |-> g, source |-> total(s, g, column), target |-> total(t, g, named)]
    <3>1. \A g : Row(g).source = total(s, g, column) /\ Row(g).target = total(t, g, named)
      OBVIOUS
    <3>2. rows = {Row(g) : g \in asked}
      BY <1>15
    <3> HIDE DEF Row, rows
    <3> QED BY <3>1, <3>2
  <2>3. ASSUME NEW x \in failed
        PROVE  \E g \in asked : total(s, g, column) # total(t, g, named)
    BY <2>1, <2>2
  <2>4. ASSUME NEW g \in asked, total(s, g, column) # total(t, g, named) PROVE failed # {}
    <3>1. PICK x \in rows : x.source = total(s, g, column) /\ x.target = total(t, g, named)
      BY <2>2
    <3>2. x \in failed
      BY <2>1, <2>4, <3>1
    <3> QED BY <3>2
  <2> HIDE DEF failed
  <2> QED BY <2>3, <2>4
<1> QED BY <1>1, <1>3, <1>16, <1>17, <1>18

(* The groups of an aggregation compare two numbers each.                   *)
LEMMA AggregatesAreNumbers ==
  ASSUME NEW r, r.kind = "aggregation", IsRequest(r), AggregationRun(r).status \in {"PASS", "FAIL"}
  PROVE  /\ \A x \in AggregationRun(r).detail : x.source \in Int /\ x.target \in Int
         /\ AggregationRun(r).status = "FAIL" => \E x \in AggregationRun(r).detail :
              VariancePercent(Abs(x.source), x.target - x.source) > r.tolerance
<1> DEFINE s == r.source
           t == r.target
           a == AlignToSource(s, t)
           groupBy == Resolved(r.keys, s.columns)
           column == CanonicalMap(s.columns)[CaseFold[r.column]]
           named == CanonicalMap(t.columns)[CaseFold[r.column]]
           rows == AggregationRows(s, a, groupBy, column, r.function)
           failed == {x \in rows : VariancePercent(Abs(x.source), x.target - x.source) > r.tolerance}
<1>1. Resolved(<<r.column>>, s.columns)[1] = column
  BY DEF Resolved
<1>2. /\ AggregationRun(r).status = "PASS" <=> failed = {}
      /\ AggregationRun(r).detail = rows
      /\ Missing(<<r.column>>, s.columns) = {} /\ column \in ToSet(a.columns)
  BY <1>1 DEF AggregationRun, Result, Raised, Verdict
<1>3. CaseFold[r.column] \in Folds(s.columns)
  <2>1. DOMAIN <<r.column>> = {1} /\ <<r.column>>[1] = r.column
    OBVIOUS
  <2> QED BY <1>2, <2>1 DEF Missing
<1>4. /\ DOMAIN a.rows = DOMAIN t.rows
      /\ \A k \in Folds(s.columns) : CanonicalMap(s.columns)[k] \in ToSet(a.columns) =>
           /\ k \in Folds(t.columns)
           /\ \A i \in DOMAIN t.rows :
                a.rows[i][CanonicalMap(s.columns)[k]] = t.rows[i][CanonicalMap(t.columns)[k]]
  BY AlignedCells DEF IsRequest
<1>5. /\ CaseFold[r.column] \in Folds(t.columns)
      /\ \A i \in DOMAIN t.rows : a.rows[i][column] = t.rows[i][named]
  BY <1>2, <1>3, <1>4
<1>6. \A i \in DOMAIN s.rows : s.rows[i][column] = NULL \/ s.rows[i][column] \in Int
  BY <1>3, CanonicalIsThere DEF IsRequest, Numeric
<1>7. \A i \in DOMAIN a.rows : a.rows[i][column] = NULL \/ a.rows[i][column] \in Int
  <2>1. \A i \in DOMAIN t.rows : t.rows[i][named] = NULL \/ t.rows[i][named] \in Int
    BY <1>5, CanonicalIsThere DEF IsRequest, Numeric
  <2> QED BY <1>4, <1>5, <2>1
<1>8. IsList(a.rows)
  <2>1. a.rows = [i \in DOMAIN t.rows |-> a.rows[i]]
    BY DEF AlignToSource, Renamed, IsRequest
  <2>2. DOMAIN t.rows = 1 .. Len(t.rows) /\ Len(t.rows) \in Nat
    BY EmptyList DEF IsRequest, IsList
  <2>3. Len(a.rows) = Len(t.rows)
    BY <2>1, <2>2
  <2> QED BY <2>1, <2>2, <2>3 DEF IsList
<1> HIDE DEF a, column, groupBy
<1>9. \A g : /\ Aggregate(s, column, RowsWith(s, groupBy, g), r.function) \in Int
             /\ Aggregate(a, column, RowsWith(a, groupBy, g), r.function) \in Int
  <2> TAKE g
  <2>1. RowsWith(s, groupBy, g) \in SUBSET DOMAIN s.rows /\ RowsWith(a, groupBy, g) \in SUBSET DOMAIN a.rows
    BY DEF RowsWith
  <2>2. IsList(s.rows) /\ r.function \in {"COUNT", "COUNT_DISTINCT", "SUM", "MIN", "MAX"}
    BY DEF IsRequest
  <2> QED BY <1>6, <1>7, <1>8, <2>1, <2>2, AggregateIsANumber
<1>10. \A x \in rows : x.source \in Int /\ x.target \in Int
  BY <1>9 DEF AggregationRows
<1>11. AggregationRun(r).status = "FAIL" => \E x \in rows :
         VariancePercent(Abs(x.source), x.target - x.source) > r.tolerance
  BY <1>2
<1> QED BY <1>2, <1>10, <1>11

(* An aggregation that fails has a group that differs.                      *)
LEMMA AggregationDetail ==
  ASSUME NEW r, r.kind = "aggregation", IsRequest(r), AggregationRun(r).status = "FAIL"
  PROVE  \E x \in AggregationRun(r).detail : x.source # x.target
<1>1. PICK x \in AggregationRun(r).detail :
        /\ VariancePercent(Abs(x.source), x.target - x.source) > r.tolerance
        /\ x.source \in Int /\ x.target \in Int
  BY AggregatesAreNumbers
<1> SUFFICES ASSUME x.source = x.target PROVE FALSE
  BY <1>1
<1> DEFINE m == x.source
<1>2. m \in Int /\ x.target - x.source = 0 /\ Abs(m) \in Nat
  BY <1>1 DEF Abs
<1>3. VariancePercent(Abs(m), 0) = 0
  BY <1>2, VarianceShows
<1> QED BY <1>1, <1>2, <1>3 DEF IsRequest

(* The groups saved account for the rows, and one differs if the count      *)
(* fails.                                                                   *)
LEMMA CountDetail ==
  ASSUME NEW r, r.kind = "count", IsRequest(r), r.keys # <<>>,
         CountRun(r).status \in {"PASS", "FAIL"}
  PROVE  LET d == CountRun(r).detail
         IN  /\ SumFunction([x \in d |-> x.source]) = Len(r.source.rows)
             /\ SumFunction([x \in d |-> x.target]) = Len(r.target.rows)
             /\ CountRun(r).status = "FAIL" => \E x \in d : x.source # x.target
<1> DEFINE s == r.source
           t == r.target
           n == Len(s.rows)
           m == Len(t.rows)
           d == CountRun(r).detail
           g == [x \in d |-> x.source]
           h == [x \in d |-> x.target]
<1>1. /\ CountRun(r).status = "PASS" <=> RecordCountPasses(n, m, r.absolute, r.tolerance)
      /\ d = Breakdown(s, t, Resolved(r.keys, s.columns), Resolved(r.keys, t.columns))
  BY CountsAreWhole
<1>2. AddUpTo(d, n, m)
  <2>1. IsList(s.rows) /\ IsList(t.rows)
    BY DEF IsRequest
  <2> QED BY <1>1, <2>1, BreakdownAddsUp
<1>3. n \in Nat /\ m \in Nat /\ r.absolute \in Nat
  BY DEF IsRequest, IsList
<1> HIDE DEF d, n, m
<1>4. SumFunction(g) = n /\ SumFunction(h) = m
  <2>1. /\ DOMAIN g = d /\ \A x \in d : g[x] = x.source
        /\ DOMAIN h = d /\ \A x \in d : h[x] = x.target
    OBVIOUS
  <2> HIDE DEF g, h
  <2> QED BY <1>2, <2>1 DEF AddUpTo
<1>5. ASSUME CountRun(r).status = "FAIL" PROVE \E x \in d : x.source # x.target
  <2> SUFFICES ASSUME \A x \in d : x.source = x.target PROVE FALSE
    OBVIOUS
  <2>1. g = h
    OBVIOUS
  <2>2. n = m
    BY <1>4, <2>1
  <2>3. m - n = 0 /\ Abs(0) = 0
    BY <1>3, <2>2 DEF Abs
  <2>4. RecordCountPasses(n, m, r.absolute, r.tolerance)
    BY <1>3, <2>3 DEF RecordCountPasses
  <2> QED BY <1>1, <1>5, <2>4
<1> QED BY <1>4, <1>5 DEF d, n, m

(* An integrity check passes over a row or looks at it, and shows an        *)
(* orphan if it fails.                                                      *)
LEMMA IntegrityDetail ==
  ASSUME NEW r, r.kind = "integrity", IsRequest(r), IntegrityRun(r).status \in {"PASS", "FAIL"}
  PROVE  LET n == IntegrityRun(r).summary
         IN  /\ n[1] = n[2] + n[3] /\ n[4] <= n[2] /\ n[5] <= n[4]
             /\ IntegrityRun(r).status = "FAIL" => IntegrityRun(r).detail # {}
<1> DEFINE rows == r.source.rows
           child == Resolved(r.keys, r.source.columns)
           parent == Resolved(r.parentKeys, r.target.columns)
           withKey == {i \in DOMAIN rows : ~HasNull(Key(rows[i], child))}
           known   == {k \in KeysIn(r.target, parent) : ~HasNull(k)}
           orphans == {i \in withKey : Key(rows[i], child) \notin known}
           First(i) == Cardinality({j \in orphans : j < i}) < r.limit
           distinct == {Key(rows[i], child) : i \in orphans}
           l == Len(rows)
           w == Cardinality(withKey)
           o == Cardinality(orphans)
<1>1. /\ IntegrityRun(r).status = Verdict(IntegrityPasses(o, w, r.tolerance))
      /\ IntegrityRun(r).summary = <<l, w, l - w, o, Cardinality(distinct)>>
      /\ IntegrityRun(r).detail = {i \in orphans : First(i)}
  BY DEF IntegrityRun, Result, Raised, Refused
<1>2. orphans \subseteq withKey /\ withKey \subseteq DOMAIN rows
  OBVIOUS
<1>3. DOMAIN rows = 1 .. l /\ l \in Nat /\ r.tolerance \in Nat /\ r.limit \in Nat \ {0}
  BY EmptyList DEF IsRequest, IsList
<1> HIDE DEF orphans, withKey
<1>4. /\ IsFiniteSet(orphans) /\ IsFiniteSet(withKey)
      /\ o \in Nat /\ w \in Nat /\ o <= w
  BY <1>2, RowSets, FS_Subset DEF IsRequest
<1>5. Cardinality(distinct) <= o
  <2> DEFINE F == [i \in orphans |-> Key(rows[i], child)]
  <2>1. distinct = {F[i] : i \in orphans} /\ DOMAIN F = orphans
    OBVIOUS
  <2> HIDE DEF F, distinct
  <2> QED BY <1>4, <2>1, ImageIsFinite
<1>6. ASSUME IntegrityRun(r).status = "FAIL" PROVE {i \in orphans : First(i)} # {}
  <2>1. orphans # {}
    <3> SUFFICES ASSUME orphans = {} PROVE FALSE
      OBVIOUS
    <3>1. o = 0
      BY <1>4, FS_EmptySet
    <3> HIDE DEF o, w
    <3>2. OrphanPercent(o, w) = 0
      BY <1>4, <3>1, ShareShows DEF OrphanPercent
    <3>3. IntegrityPasses(o, w, r.tolerance)
      BY <1>3, <3>2 DEF IntegrityPasses
    <3> QED BY <1>1, <1>6, <3>3 DEF Verdict
  <2>2. PICK i \in orphans : \A j \in orphans : i <= j
    <3>1. orphans \subseteq Nat
      BY <1>2, <1>3
    <3> QED BY <2>1, <3>1, Smallest
  <2>3. {j \in orphans : j < i} = {}
    BY <1>2, <1>3, <2>2
  <2>4. Cardinality({j \in orphans : j < i}) = 0
    BY <2>3, FS_EmptySet, Zenon
  <2>5. First(i)
    BY <1>3, <2>4
  <2> QED BY <2>5
<1> HIDE DEF distinct, First, l, w, o
<1>7. <<l, w, l - w, o, Cardinality(distinct)>>[1] = w + (l - w)
  BY <1>3, <1>4
<1> QED BY <1>1, <1>3, <1>4, <1>5, <1>6, <1>7

(* A finite set has subsets of every size up to its own.                    *)
LEMMA SubsetsOfEverySize ==
  ASSUME NEW S, IsFiniteSet(S), NEW n \in Nat, n <= Cardinality(S)
  PROVE  \E U \in SUBSET S : Cardinality(U) = n
<1> DEFINE Has(U) == \A k \in Nat : k <= Cardinality(U) => \E V \in SUBSET U : Cardinality(V) = k
           T == {U \in SUBSET S : Has(U)}
<1>1. {} \in T
  <2>1. Cardinality({}) = 0 /\ {} \in SUBSET {}
    BY FS_EmptySet
  <2> QED BY <2>1
<1>2. ASSUME NEW U \in SUBSET S, NEW x \in S \ U, U \in T PROVE U \cup {x} \in T
  <2>1. Cardinality(U \cup {x}) = Cardinality(U) + 1 /\ Cardinality(U) \in Nat
    BY FS_Subset, FS_AddElement, FS_CardinalityType
  <2>2. ASSUME NEW k \in Nat, k <= Cardinality(U \cup {x})
        PROVE  \E V \in SUBSET (U \cup {x}) : Cardinality(V) = k
    <3>1. CASE k <= Cardinality(U)
      <4>1. PICK V \in SUBSET U : Cardinality(V) = k
        BY <1>2, <3>1
      <4> QED BY <4>1
    <3>2. CASE k = Cardinality(U) + 1
      BY <2>1, <3>2
    <3> QED BY <2>1, <2>2, <3>1, <3>2
  <2>3. Has(U \cup {x})
    BY <2>2
  <2> HIDE DEF Has
  <2> QED BY <2>3
<1>3. S \in T
  <2> HIDE DEF T
  <2> QED BY <1>1, <1>2, FiniteInduction
<1> QED BY <1>3

(* A group of duplicates has two rows, and one is shown unless a key holds  *)
(* NULL.                                                                    *)
LEMMA DuplicateDetail ==
  ASSUME NEW r, r.kind = "duplicate", IsRequest(r), DuplicateRun(r).status \in {"PASS", "FAIL"}
  PROVE  LET n == DuplicateRun(r).summary
         IN  /\ n[3] >= 2 * n[2]
             /\ DuplicateRun(r).status = "FAIL" =>
                  \/ DuplicateRun(r).detail # {}
                  \/ \E i \in DOMAIN r.source.rows :
                       \E k \in ToSet(Resolved(r.keys, r.source.columns)) :
                         r.source.rows[i][k] = NULL
<1> DEFINE s == r.source
           rows == s.rows
           keys == Resolved(r.keys, s.columns)
           twice == {k \in KeysIn(s, keys) : Cardinality(RowsWith(s, keys, k)) > 1}
           In(U) == {i \in DOMAIN rows : Key(rows[i], keys) \in U}
           found == In(twice)
           joined == {i \in found : ~HasNull(Key(rows[i], keys))}
           size == Min({r.limit, Cardinality(joined)})
           shown == CHOOSE sample \in SUBSET joined : Cardinality(sample) = size
<1>1. /\ DuplicateRun(r).status = Verdict(found = {})
      /\ DuplicateRun(r).summary = <<Len(rows), Cardinality(twice), Cardinality(found)>>
      /\ DuplicateRun(r).detail = shown
  BY DEF DuplicateRun, Result, Raised, Refused
<1>2. IsList(rows) /\ r.limit \in Nat \ {0}
  BY DEF IsRequest
<1> HIDE DEF rows, keys
<1>3. IsFiniteSet(twice) /\ \A U \in SUBSET twice : IsFiniteSet(U) /\ Cardinality(U) \in Nat
  <2>1. IsFiniteSet(KeysIn(s, keys))
    BY <1>2, GroupsAreFinite DEF rows
  <2>2. IsFiniteSet(twice)
    BY <2>1, FS_Subset
  <2> HIDE DEF twice
  <2> QED BY <2>2, FS_Subset, FS_CardinalityType
<1>4. \A U : IsFiniteSet(In(U)) /\ Cardinality(In(U)) \in Nat
  BY <1>2, RowSets
<1>5. Cardinality(found) >= 2 * Cardinality(twice)
  <2> DEFINE T == {U \in SUBSET twice : Cardinality(In(U)) >= 2 * Cardinality(U)}
  <2>1. {} \in T
    <3>1. In({}) = {} /\ Cardinality({}) = 0
      BY FS_EmptySet
    <3> QED BY <3>1
  <2>2. ASSUME NEW U \in SUBSET twice, NEW x \in twice \ U, U \in T PROVE U \cup {x} \in T
    <3> DEFINE more == RowsWith(s, keys, x)
    <3>1. more = In({x}) /\ Cardinality(more) > 1
      BY DEF RowsWith, rows
    <3>2. In(U \cup {x}) = In(U) \cup In({x}) /\ In(U) \cap In({x}) = {}
      OBVIOUS
    <3>3. Cardinality(U \cup {x}) = Cardinality(U) + 1 /\ Cardinality(U) \in Nat
      BY <1>3, FS_AddElement
    <3>4. Cardinality(In({x})) > 1
      BY <3>1
    <3>5. Cardinality(In(U)) >= 2 * Cardinality(U)
      BY <2>2
    <3> HIDE DEF In, twice
    <3>6. Cardinality(In(U) \cup In({x})) =
            Cardinality(In(U)) + Cardinality(In({x})) - Cardinality(In(U) \cap In({x}))
      BY <1>4, FS_Union
    <3>7. Cardinality(In(U) \cap In({x})) = 0 /\ Cardinality(In(U \cup {x})) = Cardinality(In(U) \cup In({x}))
      BY <3>2, FS_EmptySet, Zenon
    <3>8. Cardinality(In(U \cup {x})) = Cardinality(In(U)) + Cardinality(In({x}))
      BY <1>4, <3>6, <3>7
    <3>9. Cardinality(In(U \cup {x})) >= 2 * Cardinality(U \cup {x})
      BY <1>4, <3>3, <3>4, <3>5, <3>8
    <3> QED BY <3>9
  <2>3. twice \in T
    <3> HIDE DEF T, twice
    <3> QED BY <1>3, <2>1, <2>2, FiniteInduction
  <2> QED BY <2>3
<1>6. ASSUME found # {}, joined = {} PROVE \E i \in DOMAIN rows : \E k \in ToSet(keys) : rows[i][k] = NULL
  <2>1. PICK i \in found : HasNull(Key(rows[i], keys))
    BY <1>6
  <2>2. PICK n \in DOMAIN keys : rows[i][keys[n]] = NULL
    BY <2>1 DEF HasNull, Key
  <2> QED BY <2>1, <2>2 DEF ToSet
<1>7. ASSUME joined # {} PROVE shown # {}
  <2>1. IsFiniteSet(joined) /\ Cardinality(joined) \in Nat
    <3>1. joined \in SUBSET DOMAIN rows
      OBVIOUS
    <3> HIDE DEF joined
    <3> QED BY <1>2, <3>1, RowSets
  <2> HIDE DEF joined
  <2>2. Cardinality(joined) # 0
    BY <1>7, <2>1, FS_EmptySet
  <2>3. size \in Nat \ {0} /\ size <= Cardinality(joined)
    <3> DEFINE S == {r.limit, Cardinality(joined)}
    <3>1. IsFiniteSet(S) /\ S \subseteq Int /\ S # {}
      <4>1. IsFiniteSet({r.limit})
        BY FS_Singleton
      <4>2. S = {r.limit} \cup {Cardinality(joined)}
        OBVIOUS
      <4>3. IsFiniteSet({r.limit} \cup {Cardinality(joined)})
        BY <4>1, FS_AddElement
      <4>4. IsFiniteSet(S)
        BY <4>2, <4>3
      <4> QED BY <1>2, <2>1, <4>4
    <3>2. Min(S) \in S /\ \A y \in S : Min(S) <= y
      <4> HIDE DEF S
      <4> QED BY <3>1, FiniteBounds
    <3> QED BY <1>2, <2>1, <2>2, <3>2
  <2> HIDE DEF size
  <2>4. \E sample \in SUBSET joined : Cardinality(sample) = size
    BY <2>1, <2>3, SubsetsOfEverySize
  <2>5. Cardinality(shown) = size
    BY <2>4
  <2> QED BY <2>3, <2>5, FS_EmptySet
<1> HIDE DEF found, twice, joined, shown
<1>8. <<Len(rows), Cardinality(twice), Cardinality(found)>>[3] >=
        2 * <<Len(rows), Cardinality(twice), Cardinality(found)>>[2]
  BY <1>5
<1>9. DuplicateRun(r).status = "FAIL" => found # {}
  BY <1>1 DEF Verdict
<1> QED BY <1>1, <1>6, <1>7, <1>8, <1>9 DEF rows, keys

-----------------------------------------------------------------------------
(* A verdict without tolerance judges a figure that has been rounded: one   *)
(* orphan among two million rows is a rate of 0.  These sizes leave every   *)
(* difference visible: fewer rows, or a smaller sum in each group of the    *)
(* source, than two hundred per cent has units; for a mean of percentages,  *)
(* which is rounded once more, fewer cells.                                 *)
RoundingTellsApart(r) ==
  /\ r.kind \in {"count", "integrity"} => Len(r.source.rows) < 2 * Scale
  /\ r.kind = "aggregation" => \A x \in AggregationRun(r).detail : Abs(x.source) < 2 * Scale
  /\ r.kind = "nullability" =>
       Len(r.source.rows)
         * ((IF r.keys = <<>> THEN Len(r.source.columns) ELSE Len(r.keys)) + 1) < 2 * Scale

(* A PASS without any tolerance says that nothing at all is wrong in the    *)
(* rows, a FAIL that something is: in every service, for frames of every    *)
(* size that the four decimals kept can tell apart.                         *)
THEOREM VerdictsSayWhatIsMeant ==
  ASSUME \A k \in DOMAIN Tasks : \A r \in Tasks[k] : RoundingTellsApart(r)
  PROVE  AnalysesSpec => []VerdictIsMeant
<1>1. ASSUME AnswersTheTask PROVE VerdictIsMeant
  <2> SUFFICES ASSUME Answered(Services), Strict(task), result.status \in {"PASS", "FAIL"}
               PROVE  result.status = "PASS" <=> NothingWrong(task)
    BY DEF VerdictIsMeant
  <2>1. task.kind \in Services /\ result = Outcome(task)
    BY <1>1 DEF Answered, AnswersTheTask
  <2>2. IsRequest(task) /\ RoundingTellsApart(task)
    BY <1>1, <2>1, TasksAssumption DEF AnswersTheTask
  <2>3. CASE task.kind = "schema"
    <3>1. result = SchemaRun(task)
      BY <2>1, <2>3 DEF Outcome
    <3> QED BY <2>3, <3>1, SchemaIsMeant
  <2>4. CASE task.kind = "duplicate"
    <3>1. result = DuplicateRun(task)
      BY <2>1, <2>4 DEF Outcome
    <3> QED BY <2>2, <2>4, <3>1, DuplicateIsMeant
  <2>5. CASE task.kind = "nullability"
    <3>1. result = NullabilityRun(task)
      BY <2>1, <2>5 DEF Outcome
    <3>2. task.tolerance = Scale
      BY <2>5 DEF Strict
    <3> QED BY <2>2, <2>5, <3>1, <3>2, NullabilityIsMeant DEF RoundingTellsApart
  <2>6. CASE task.kind = "aggregation"
    <3>1. result = AggregationRun(task)
      BY <2>1, <2>6 DEF Outcome
    <3>2. task.tolerance = 0 /\ task.function = "SUM"
      BY <2>6 DEF Strict
    <3> QED BY <2>2, <2>6, <3>1, <3>2, AggregationIsMeant DEF RoundingTellsApart
  <2>7. CASE task.kind = "count"
    <3>1. result = CountRun(task)
      BY <2>1, <2>7 DEF Outcome
    <3>2. task.tolerance = 0 /\ task.absolute = 0
      BY <2>7 DEF Strict
    <3> QED BY <2>2, <2>7, <3>1, <3>2, CountIsMeant DEF RoundingTellsApart
  <2>8. CASE task.kind = "integrity"
    <3>1. result = IntegrityRun(task)
      BY <2>1, <2>8 DEF Outcome
    <3>2. task.tolerance = 0
      BY <2>8 DEF Strict
    <3> QED BY <2>2, <2>8, <3>1, <3>2, IntegrityIsMeant DEF RoundingTellsApart
  <2>9. CASE task.kind = "alignment"
    <3>1. result = AlignmentRun(task)
      BY <2>1, <2>9 DEF Outcome
    <3> QED BY <2>2, <2>9, <3>1, AlignmentIsMeant
  <2> QED BY <2>1, <2>3, <2>4, <2>5, <2>6, <2>7, <2>8, <2>9 DEF Services
<1> QED BY <1>1, AlwaysAnswersTheTask, PTL

(* The detail that is saved accounts for the figures shown, whatever the    *)
(* tolerance and whatever the size: the groups of a record count add up to  *)
(* the rows of each side, an integrity check passes over a row or looks at  *)
(* it, and a FAIL comes with something to look at.                          *)
THEOREM DetailAccounts == AnalysesSpec => []DetailAccountsForFigures
<1>1. AnswersTheTask => DetailAccountsForFigures
  <2> DEFINE d == result.detail
             n == result.summary
             differ == {x \in d : x.source # x.target}
  <2> SUFFICES ASSUME AnswersTheTask, Answered(Services), result.status \in {"PASS", "FAIL"}
               PROVE
        /\ task.kind = "count" /\ task.keys # <<>> =>
             /\ SumFunction([x \in d |-> x.source]) = Len(task.source.rows)
             /\ SumFunction([x \in d |-> x.target]) = Len(task.target.rows)
             /\ result.status = "FAIL" => differ # {}
        /\ task.kind = "aggregation" /\ result.status = "FAIL" => differ # {}
        /\ task.kind = "integrity" =>
             /\ n[1] = n[2] + n[3] /\ n[4] <= n[2] /\ n[5] <= n[4]
             /\ result.status = "FAIL" => d # {}
        /\ task.kind = "duplicate" =>
             /\ n[3] >= 2 * n[2]
             /\ result.status = "FAIL" =>
                  d # {} \/ \E i \in DOMAIN task.source.rows :
                              \E k \in ToSet(Resolved(task.keys, task.source.columns)) :
                                task.source.rows[i][k] = NULL
    BY DEF DetailAccountsForFigures
  <2>1. result = Outcome(task)
    BY DEF Answered, AnswersTheTask
  <2>2. IsRequest(task)
    BY TasksAssumption DEF AnswersTheTask, Answered
  <2>3. CASE task.kind = "count"
    <3>1. result = CountRun(task)
      BY <2>1, <2>3 DEF Outcome
    <3> QED BY <2>2, <2>3, <3>1, CountDetail
  <2>4. CASE task.kind = "aggregation"
    <3>1. result = AggregationRun(task)
      BY <2>1, <2>4 DEF Outcome
    <3> QED BY <2>2, <2>4, <3>1, AggregationDetail
  <2>5. CASE task.kind = "integrity"
    <3>1. result = IntegrityRun(task)
      BY <2>1, <2>5 DEF Outcome
    <3> QED BY <2>2, <2>5, <3>1, IntegrityDetail
  <2>6. CASE task.kind = "duplicate"
    <3>1. result = DuplicateRun(task)
      BY <2>1, <2>6 DEF Outcome
    <3> QED BY <2>2, <2>6, <3>1, DuplicateDetail
  <2> QED BY <2>3, <2>4, <2>5, <2>6
<1> QED BY <1>1, AlwaysAnswersTheTask, PTL

-----------------------------------------------------------------------------
(* A request in another spelling.                                           *)
RespelledKeys(keys) == [i \in DOMAIN keys |-> OtherSpelling[keys[i]]]
Respelled(r) == [r EXCEPT !.target = Renamed(@, OtherSpelling),
                          !.keys = [i \in DOMAIN @ |-> OtherSpelling[@[i]]],
                          !.column = OtherSpelling[@]]

(* Only the target, the keys and the column are spelt otherwise.            *)
LEMMA RespelledFields ==
  ASSUME NEW r, IsRequest(r)
  PROVE  /\ Respelled(r).kind = r.kind /\ Respelled(r).source = r.source
         /\ Respelled(r).target = Renamed(r.target, OtherSpelling)
         /\ Respelled(r).keys = RespelledKeys(r.keys)
         /\ Respelled(r).column = OtherSpelling[r.column]
         /\ Respelled(r).parentKeys = r.parentKeys /\ Respelled(r).function = r.function
         /\ Respelled(r).sentinels = r.sentinels /\ Respelled(r).tolerance = r.tolerance
         /\ Respelled(r).absolute = r.absolute /\ Respelled(r).limit = r.limit
BY DEF Respelled, RespelledKeys, IsRequest

(* Keys in another spelling are resolved to the same columns.               *)
LEMMA RespelledKeysResolve ==
  ASSUME NEW keys, IsList(keys), ToSet(keys) \subseteq DOMAIN OtherSpelling
  PROVE  /\ DOMAIN RespelledKeys(keys) = DOMAIN keys /\ Len(RespelledKeys(keys)) = Len(keys)
         /\ RespelledKeys(keys) = <<>> <=> keys = <<>>
         /\ \A i \in DOMAIN keys : CaseFold[RespelledKeys(keys)[i]] = CaseFold[keys[i]]
         /\ \A columns : /\ Resolved(RespelledKeys(keys), columns) = Resolved(keys, columns)
                         /\ Missing(RespelledKeys(keys), columns) = Missing(keys, columns)
<1> DEFINE other == RespelledKeys(keys)
           n == Len(keys)
<1>1. n \in Nat /\ DOMAIN keys = 1 .. n
  BY DEF IsList
<1>2. other = [i \in 1 .. n |-> OtherSpelling[keys[i]]]
  BY <1>1 DEF RespelledKeys
<1>3. DOMAIN other = 1 .. n /\ Len(other) = n
  BY <1>1, <1>2
<1>4. \A i \in 1 .. n : other[i] = OtherSpelling[keys[i]] /\ keys[i] \in DOMAIN OtherSpelling
  BY <1>1, <1>2 DEF ToSet
<1>5. \A i \in 1 .. n : CaseFold[other[i]] = CaseFold[keys[i]]
  BY <1>4, SpellingAssumption
<1>6. IsList(other)
  <2>1. other = [i \in 1 .. n |-> other[i]]
    BY <1>2
  <2> QED BY <1>1, <1>3, <2>1 DEF IsList
<1>7. other = <<>> <=> keys = <<>>
  BY <1>3, <1>6, EmptyList
<1> HIDE DEF other, n
<1>8. ASSUME NEW columns
      PROVE  Resolved(other, columns) = Resolved(keys, columns) /\ Missing(other, columns) = Missing(keys, columns)
  BY <1>1, <1>3, <1>5 DEF Resolved, Missing
<1> QED BY <1>1, <1>3, <1>5, <1>7, <1>8 DEF other, n

(* A table whose columns are spelt otherwise.                               *)
LEMMA RespelledTable ==
  ASSUME NEW t, IsList(t.columns), IsList(t.rows),
         {"columns", "type", "catalog", "rows"} \subseteq DOMAIN t,
         ToSet(t.columns) \subseteq DOMAIN OtherSpelling
  PROVE  LET o == Renamed(t, OtherSpelling)
         IN  /\ IsList(o.columns) /\ Len(o.columns) = Len(t.columns)
             /\ DOMAIN o.columns = DOMAIN t.columns
             /\ {"columns", "type", "catalog", "rows"} \subseteq DOMAIN o
             /\ \A i \in DOMAIN t.columns : CaseFold[o.columns[i]] = CaseFold[t.columns[i]]
             /\ Folds(o.columns) = Folds(t.columns)
             /\ o.catalog = t.catalog
             /\ DOMAIN o.rows = DOMAIN t.rows /\ Len(o.rows) = Len(t.rows)
             /\ \A k \in Folds(t.columns) :
                  /\ o.type[CanonicalMap(o.columns)[k]] = t.type[CanonicalMap(t.columns)[k]]
                  /\ \A i \in DOMAIN t.rows :
                       o.rows[i][CanonicalMap(o.columns)[k]] = t.rows[i][CanonicalMap(t.columns)[k]]
<1> DEFINE o == Renamed(t, OtherSpelling)
           n == Len(t.columns)
           cols == ToSet(t.columns)
           names == [i \in DOMAIN t.columns |-> OtherSpelling[t.columns[i]]]
           Old(m) == CHOOSE c \in cols : OtherSpelling[c] = m
<1>1. n \in Nat /\ DOMAIN t.columns = 1 .. n
  BY DEF IsList
<1>2. /\ o.columns = names /\ o.catalog = t.catalog /\ DOMAIN o = DOMAIN t
      /\ o.type = [m \in ToSet(names) |-> t.type[Old(m)]]
      /\ o.rows = [i \in DOMAIN t.rows |-> [m \in ToSet(names) |-> t.rows[i][Old(m)]]]
  BY DEF Renamed
<1>3. /\ DOMAIN names = 1 .. n /\ Len(names) = n /\ names = [i \in 1 .. n |-> names[i]]
      /\ \A i \in 1 .. n : names[i] = OtherSpelling[t.columns[i]]
  BY <1>1
<1>4. \A i \in 1 .. n : t.columns[i] \in cols /\ t.columns[i] \in DOMAIN OtherSpelling
  BY <1>1 DEF ToSet
<1>5. \A i \in 1 .. n : CaseFold[names[i]] = CaseFold[t.columns[i]]
  BY <1>3, <1>4, SpellingAssumption
<1>6. \A c \in cols : Old(OtherSpelling[c]) = c
  <2> SUFFICES ASSUME NEW c \in cols PROVE Old(OtherSpelling[c]) = c
    OBVIOUS
  <2>1. Old(OtherSpelling[c]) \in cols /\ OtherSpelling[Old(OtherSpelling[c])] = OtherSpelling[c]
    OBVIOUS
  <2> HIDE DEF Old
  <2> QED BY <2>1, SpellingAssumption
<1>7. \A c \in cols : OtherSpelling[c] \in ToSet(names)
  BY <1>1, <1>3 DEF ToSet
<1>8. /\ \A c \in cols : o.type[OtherSpelling[c]] = t.type[c]
      /\ \A i \in DOMAIN t.rows : \A c \in cols : o.rows[i][OtherSpelling[c]] = t.rows[i][c]
  <2> HIDE DEF Old, names, cols
  <2> QED BY <1>2, <1>6, <1>7
<1>9. Len(o.rows) = Len(t.rows) /\ DOMAIN o.rows = DOMAIN t.rows
  <2> HIDE DEF Old, names, o
  <2> DEFINE row(i) == [m \in ToSet(names) |-> t.rows[i][Old(m)]]
  <2>1. Len(t.rows) \in Nat /\ DOMAIN t.rows = 1 .. Len(t.rows)
    BY DEF IsList
  <2>2. o.rows = [i \in 1 .. Len(t.rows) |-> row(i)]
    BY <1>2, <2>1
  <2> HIDE DEF row
  <2> QED BY <2>1, <2>2
<1> HIDE DEF Old, o
<1>10. Folds(o.columns) = Folds(t.columns)
  BY <1>1, <1>2, <1>3, <1>5 DEF Folds
<1>11. ASSUME NEW k \in Folds(t.columns)
       PROVE  /\ CanonicalMap(t.columns)[k] \in cols
              /\ CanonicalMap(o.columns)[k] = OtherSpelling[CanonicalMap(t.columns)[k]]
  <2> DEFINE First(s, i) == CaseFold[s[i]] = k /\ \A j \in 1 .. i - 1 : CaseFold[s[j]] # k
  <2>1. CanonicalMap(t.columns)[k] \in cols
    BY <1>11, CanonicalIsThere
  <2>2. \A i \in 1 .. n : First(t.columns, i) <=> First(names, i)
    <3> SUFFICES ASSUME NEW i \in 1 .. n PROVE First(t.columns, i) <=> First(names, i)
      OBVIOUS
    <3>1. \A j \in 1 .. i - 1 : j \in 1 .. n
      BY <1>1
    <3> HIDE DEF names
    <3> QED BY <1>5, <3>1
  <2> DEFINE a == CHOOSE i \in 1 .. n : First(t.columns, i)
             b == CHOOSE i \in 1 .. n : First(names, i)
  <2>3. CanonicalMap(t.columns)[k] = t.columns[a]
    BY <1>1 DEF CanonicalMap
  <2>4. CanonicalMap(o.columns)[k] = names[b]
    <3>1. CanonicalMap(names)[k] = names[b]
      BY <1>2, <1>3, <1>10 DEF CanonicalMap
    <3> QED BY <1>2, <3>1
  <2>5. a = b
    <3> HIDE DEF First
    <3> QED BY <2>2
  <2>6. a \in 1 .. n
    <3>1. \E i \in 1 .. n : First(t.columns, i)
      <4> DEFINE T == {i \in 1 .. n : CaseFold[t.columns[i]] = k}
      <4>1. T # {} /\ T \subseteq Nat
        BY <1>1, <1>11 DEF Folds
      <4>2. PICK m \in T : \A i \in T : m <= i
        BY <4>1, Smallest
      <4>3. \A j \in 1 .. m - 1 : CaseFold[t.columns[j]] # k
        <5> SUFFICES ASSUME NEW j \in 1 .. m - 1, CaseFold[t.columns[j]] = k PROVE FALSE
          OBVIOUS
        <5>1. j \in 1 .. n /\ ~(m <= j)
          BY <1>1, <4>2
        <5> QED BY <4>2, <5>1
      <4> QED BY <4>2, <4>3
    <3> HIDE DEF First
    <3> QED BY <3>1
  <2> HIDE DEF a, b
  <2> QED BY <1>3, <2>1, <2>3, <2>4, <2>5, <2>6
<1>12. IsList(o.columns)
  BY <1>1, <1>2, <1>3 DEF IsList
<1>13. ASSUME NEW k \in Folds(t.columns)
       PROVE  /\ o.type[CanonicalMap(o.columns)[k]] = t.type[CanonicalMap(t.columns)[k]]
              /\ \A i \in DOMAIN t.rows :
                   o.rows[i][CanonicalMap(o.columns)[k]] = t.rows[i][CanonicalMap(t.columns)[k]]
  BY <1>8, <1>11
<1> HIDE DEF names, cols
<1> QED BY <1>1, <1>2, <1>3, <1>5, <1>9, <1>10, <1>12, <1>13 DEF o, n

(* A schema check reads columns by their folded names alone.                *)
LEMMA SchemaRespelled ==
  ASSUME NEW r, IsRequest(r)
  PROVE  SchemaRun(Respelled(r)) = SchemaRun(r)
<1> DEFINE s == r.source
           t == r.target
           o == Renamed(t, OtherSpelling)
           columns == Folds(s.columns) \cup Folds(t.columns)
<1>1. Respelled(r).source = s /\ Respelled(r).target = o
  BY RespelledFields
<1>2. /\ DOMAIN o.columns = DOMAIN t.columns
      /\ \A i \in DOMAIN t.columns : CaseFold[o.columns[i]] = CaseFold[t.columns[i]]
      /\ Folds(o.columns) = Folds(t.columns) /\ o.catalog = t.catalog
      /\ \A k \in Folds(t.columns) :
           o.type[CanonicalMap(o.columns)[k]] = t.type[CanonicalMap(t.columns)[k]]
  BY RespelledTable DEF IsRequest
<1> HIDE DEF o
<1>3. ASSUME NEW k PROVE Position(o, k) = Position(t, k)
  <2>1. {i \in DOMAIN o.columns : CaseFold[o.columns[i]] = k}
          = {i \in DOMAIN t.columns : CaseFold[t.columns[i]] = k}
    BY <1>2
  <2> QED BY <2>1, Zenon DEF Position
<1>4. ASSUME NEW k \in columns PROVE ColumnStatus(s, o, k) = ColumnStatus(s, t, k)
  <2>1. k \in Folds(t.columns) => TypeOf(o, k) = TypeOf(t, k)
    BY <1>2 DEF TypeOf
  <2> QED BY <1>2, <1>3, <2>1 DEF ColumnStatus
<1>5. ASSUME NEW k PROVE AttributesDiffer(s, o, k) <=> AttributesDiffer(s, t, k)
  BY <1>2 DEF AttributesDiffer
<1> DEFINE Wrong(a) == {k \in columns : ColumnStatus(s, a, k) \in Critical}
           Differ(a) == {k \in columns : AttributesDiffer(s, a, k)}
           Detail(a) == {<<k, ColumnStatus(s, a, k)>> : k \in columns}
           Reply(a) == IF columns = {} THEN Raised
                        ELSE Result(Verdict(Wrong(a) \cup Differ(a) = {}),
                                    <<Cardinality(columns), Cardinality(Wrong(a)),
                                      Cardinality(Differ(a))>>, Detail(a))
<1>6. SchemaRun(r) = Reply(t)
  BY Zenon DEF SchemaRun
<1>7. SchemaRun(Respelled(r)) = Reply(o)
  <2> DEFINE all == Folds(s.columns) \cup Folds(o.columns)
  <2>1. all = columns
    BY <1>2
  <2>2. SchemaRun(Respelled(r)) =
          IF all = {} THEN Raised
          ELSE Result(Verdict({k \in all : ColumnStatus(s, o, k) \in Critical}
                                \cup {k \in all : AttributesDiffer(s, o, k)} = {}),
                      <<Cardinality(all),
                        Cardinality({k \in all : ColumnStatus(s, o, k) \in Critical}),
                        Cardinality({k \in all : AttributesDiffer(s, o, k)})>>,
                      {<<k, ColumnStatus(s, o, k)>> : k \in all})
    BY <1>1, Zenon DEF SchemaRun
  <2> HIDE DEF all, columns
  <2> QED BY <2>1, <2>2, Zenon
<1>8. Wrong(o) = Wrong(t) /\ Differ(o) = Differ(t) /\ Detail(o) = Detail(t)
  <2> HIDE DEF columns
  <2> QED BY <1>4, <1>5
<1> HIDE DEF Wrong, Differ, Detail
<1>9. Reply(o) = Reply(t)
  BY <1>8
<1> HIDE DEF Reply
<1> QED BY <1>6, <1>7, <1>9

(* Duplicates and missing values are looked for in the source alone, under  *)
(* the names the keys are resolved to.                                      *)
LEMMA SourceChecksRespelled ==
  ASSUME NEW r, IsRequest(r)
  PROVE  /\ DuplicateRun(Respelled(r)) = DuplicateRun(r)
         /\ NullabilityRun(Respelled(r)) = NullabilityRun(r)
<1> DEFINE q == Respelled(r)
           other == RespelledKeys(r.keys)
<1>1. /\ q.source = r.source /\ q.keys = other /\ q.limit = r.limit
      /\ q.sentinels = r.sentinels /\ q.tolerance = r.tolerance
  BY RespelledFields
<1>2. /\ other = <<>> <=> r.keys = <<>>
      /\ \A columns : /\ Resolved(other, columns) = Resolved(r.keys, columns)
                      /\ Missing(other, columns) = Missing(r.keys, columns)
  BY RespelledKeysResolve DEF IsRequest
<1> HIDE DEF q, other
<1>3. DuplicateRun(q) = DuplicateRun(r)
  <2> DEFINE s == r.source
             Reply(f, keys, limit) ==
               LET rows == f.rows
                   twice == {k \in KeysIn(f, keys) : Cardinality(RowsWith(f, keys, k)) > 1}
                   found == {i \in DOMAIN rows : Key(rows[i], keys) \in twice}
                   joined == {i \in found : ~HasNull(Key(rows[i], keys))}
                   shown == CHOOSE sample \in SUBSET joined :
                              Cardinality(sample) = Min({limit, Cardinality(joined)})
               IN  Result(Verdict(found = {}),
                          <<Len(rows), Cardinality(twice), Cardinality(found)>>, shown)
  <2>1. DuplicateRun(r) = IF r.keys = <<>> THEN Refused
                          ELSE IF Missing(r.keys, s.columns) # {} THEN Raised
                          ELSE Reply(s, Resolved(r.keys, s.columns), r.limit)
    BY Zenon DEF DuplicateRun
  <2>2. DuplicateRun(q) = IF q.keys = <<>> THEN Refused
                          ELSE IF Missing(q.keys, q.source.columns) # {} THEN Raised
                          ELSE Reply(q.source, Resolved(q.keys, q.source.columns), q.limit)
    BY Zenon DEF DuplicateRun
  <2> HIDE DEF Reply
  <2> QED BY <1>1, <1>2, <2>1, <2>2
<1>4. NullabilityRun(q) = NullabilityRun(r)
  BY <1>1, <1>2, Zenon DEF NullabilityRun
<1> QED BY <1>3, <1>4 DEF q

(* Rows that are the same under the names a check reads.                    *)
SameCells(f, columns, g, others) ==
  /\ DOMAIN g.rows = DOMAIN f.rows
  /\ \A i \in DOMAIN f.rows : Key(g.rows[i], others) = Key(f.rows[i], columns)

(* Their keys are the same, and the rows with each.                         *)
LEMMA SameKeys ==
  ASSUME NEW f, NEW columns, NEW g, NEW others, SameCells(f, columns, g, others)
  PROVE  /\ KeysIn(g, others) = KeysIn(f, columns)
         /\ \A key : RowsWith(g, others, key) = RowsWith(f, columns, key)
BY DEF SameCells, KeysIn, RowsWith

(* Keys that are all there lead to the same cells of a table, however it is *)
(* spelt.                                                                   *)
LEMMA RespelledCells ==
  ASSUME NEW r, IsRequest(r), NEW names, Missing(names, r.target.columns) = {}
  PROVE  LET o == Renamed(r.target, OtherSpelling)
         IN  SameCells(r.target, Resolved(names, r.target.columns),
                       o, Resolved(names, o.columns))
<1> DEFINE t == r.target
           o == Renamed(t, OtherSpelling)
<1>1. /\ DOMAIN o.rows = DOMAIN t.rows /\ Folds(o.columns) = Folds(t.columns)
      /\ \A k \in Folds(t.columns) : \A i \in DOMAIN t.rows :
           o.rows[i][CanonicalMap(o.columns)[k]] = t.rows[i][CanonicalMap(t.columns)[k]]
  BY RespelledTable DEF IsRequest
<1> HIDE DEF o
<1>2. \A n \in DOMAIN names : CaseFold[names[n]] \in Folds(t.columns)
  BY DEF Missing
<1>3. ASSUME NEW i \in DOMAIN t.rows
      PROVE  Key(o.rows[i], Resolved(names, o.columns)) = Key(t.rows[i], Resolved(names, t.columns))
  <2>1. \A n \in DOMAIN names :
          o.rows[i][CanonicalMap(o.columns)[CaseFold[names[n]]]]
            = t.rows[i][CanonicalMap(t.columns)[CaseFold[names[n]]]]
    BY <1>1, <1>2
  <2> QED BY <2>1, KeyIsMeant
<1> QED BY <1>1, <1>3 DEF SameCells, o

(* A record count groups the rows of the target by the same cells.          *)
LEMMA CountRespelled ==
  ASSUME NEW r, IsRequest(r)
  PROVE  CountRun(Respelled(r)) = CountRun(r)
<1> DEFINE q == Respelled(r)
           s == r.source
           t == r.target
           o == Renamed(t, OtherSpelling)
           other == RespelledKeys(r.keys)
<1>1. /\ q.source = s /\ q.target = o /\ q.keys = other
      /\ q.absolute = r.absolute /\ q.tolerance = r.tolerance
  BY RespelledFields
<1>2. /\ other = <<>> <=> r.keys = <<>>
      /\ \A columns : /\ Resolved(other, columns) = Resolved(r.keys, columns)
                      /\ Missing(other, columns) = Missing(r.keys, columns)
  BY RespelledKeysResolve DEF IsRequest
<1>3. Folds(o.columns) = Folds(t.columns) /\ Len(o.rows) = Len(t.rows)
  BY RespelledTable DEF IsRequest
<1>4. Missing(r.keys, o.columns) = Missing(r.keys, t.columns)
  BY <1>3 DEF Missing
<1>5. Missing(r.keys, t.columns) = {} =>
        SameCells(t, Resolved(r.keys, t.columns), o, Resolved(r.keys, o.columns))
  BY RespelledCells
<1> HIDE DEF q, o, other
<1>6. CASE Missing(r.keys, s.columns) \cup Missing(r.keys, t.columns) # {}
  <2>1. CountRun(r) = Raised
    BY <1>6 DEF CountRun
  <2>2. Missing(other, s.columns) \cup Missing(other, o.columns) # {}
    BY <1>2, <1>4, <1>6
  <2>3. CountRun(q) = Raised
    BY <1>1, <2>2 DEF CountRun
  <2> QED BY <2>1, <2>3 DEF q
<1>7. CASE Missing(r.keys, s.columns) \cup Missing(r.keys, t.columns) = {}
  <2> DEFINE sk == Resolved(r.keys, s.columns)
             tk == Resolved(r.keys, t.columns)
             ok == Resolved(r.keys, o.columns)
  <2>1. SameCells(t, tk, o, ok)
    BY <1>5, <1>7
  <2>2. KeysIn(o, ok) = KeysIn(t, tk) /\ \A key : RowsWith(o, ok, key) = RowsWith(t, tk, key)
    BY <2>1, SameKeys
  <2>3. Breakdown(s, o, sk, ok) = Breakdown(s, t, sk, tk)
    <3> HIDE DEF sk, tk, ok
    <3>1. ASSUME NEW key PROVE Cardinality(RowsWith(o, ok, key)) = Cardinality(RowsWith(t, tk, key))
      BY <2>2, Zenon
    <3> QED BY <2>2, <3>1 DEF Breakdown
  <2>4. Missing(other, s.columns) \cup Missing(other, o.columns) = {}
    BY <1>2, <1>4, <1>7
  <2> DEFINE Reply(groups, length) ==
               LET grouped == r.keys # <<>>
                   rows == IF grouped THEN groups ELSE {}
                   n == IF grouped THEN SumFunction([x \in rows |-> x.source]) ELSE Len(s.rows)
                   m == IF grouped THEN SumFunction([x \in rows |-> x.target]) ELSE length
               IN  IF grouped /\ rows = {} THEN Raised
                   ELSE Result(Verdict(RecordCountPasses(n, m, r.absolute, r.tolerance)),
                               <<n, m, m - n>>, rows)
  <2>5. CountRun(r) = Reply(Breakdown(s, t, sk, tk), Len(t.rows))
    BY <1>7, Zenon DEF CountRun
  <2>6. CountRun(q) = Reply(Breakdown(s, o, sk, ok), Len(o.rows))
    <3>1. Resolved(other, s.columns) = sk /\ Resolved(other, o.columns) = ok
      BY <1>2
    <3> HIDE DEF sk, tk, ok
    <3> QED BY <1>1, <1>2, <2>4, <3>1, Zenon DEF CountRun
  <2> HIDE DEF Reply
  <2> QED BY <1>3, <2>3, <2>5, <2>6, Zenon DEF q
<1> QED BY <1>6, <1>7

(* An integrity check reads the parent's keys from the same cells.          *)
LEMMA IntegrityRespelled ==
  ASSUME NEW r, IsRequest(r)
  PROVE  IntegrityRun(Respelled(r)) = IntegrityRun(r)
<1> DEFINE q == Respelled(r)
           s == r.source
           t == r.target
           o == Renamed(t, OtherSpelling)
           other == RespelledKeys(r.keys)
           tk == Resolved(r.parentKeys, t.columns)
           ok == Resolved(r.parentKeys, o.columns)
<1>1. /\ q.source = s /\ q.target = o /\ q.keys = other /\ q.parentKeys = r.parentKeys
      /\ q.limit = r.limit /\ q.tolerance = r.tolerance
  BY RespelledFields
<1>2. /\ other = <<>> <=> r.keys = <<>>
      /\ Len(other) = Len(r.keys)
      /\ \A columns : /\ Resolved(other, columns) = Resolved(r.keys, columns)
                      /\ Missing(other, columns) = Missing(r.keys, columns)
  BY RespelledKeysResolve DEF IsRequest
<1>3. Folds(o.columns) = Folds(t.columns)
  BY RespelledTable DEF IsRequest
<1>4. Missing(r.parentKeys, o.columns) = Missing(r.parentKeys, t.columns)
  BY <1>3 DEF Missing
<1>5. Missing(r.parentKeys, t.columns) = {} => KeysIn(o, ok) = KeysIn(t, tk)
  BY RespelledCells, SameKeys
<1> HIDE DEF q, o, other, ok, tk
<1>6. CASE Missing(r.parentKeys, t.columns) # {}
  <2> DEFINE refused == r.keys = <<>> \/ Len(r.keys) # Len(r.parentKeys)
  <2>1. IntegrityRun(r) = IF refused THEN Refused ELSE Raised
    BY <1>6 DEF IntegrityRun
  <2>2. IntegrityRun(q) = IF refused THEN Refused ELSE Raised
    BY <1>1, <1>2, <1>4, <1>6 DEF IntegrityRun
  <2> QED BY <2>1, <2>2 DEF q
<1>7. CASE Missing(r.parentKeys, t.columns) = {}
  <2>1. KeysIn(o, ok) = KeysIn(t, tk)
    BY <1>5, <1>7
  <2> DEFINE Reply(child, parents) ==
               LET rows == s.rows
                   withKey == {i \in DOMAIN rows : ~HasNull(Key(rows[i], child))}
                   known   == {k \in parents : ~HasNull(k)}
                   orphans == {i \in withKey : Key(rows[i], child) \notin known}
                   first(i) == Cardinality({j \in orphans : j < i}) < r.limit
               IN  Result(Verdict(IntegrityPasses(Cardinality(orphans), Cardinality(withKey),
                                                  r.tolerance)),
                          <<Len(rows), Cardinality(withKey), Len(rows) - Cardinality(withKey),
                            Cardinality(orphans),
                            Cardinality({Key(rows[i], child) : i \in orphans})>>,
                          {i \in orphans : first(i)})
  <2>2. IntegrityRun(r) =
          IF r.keys = <<>> \/ Len(r.keys) # Len(r.parentKeys) THEN Refused
          ELSE IF Missing(r.keys, s.columns) \cup Missing(r.parentKeys, t.columns) # {} THEN Raised
          ELSE Reply(Resolved(r.keys, s.columns), KeysIn(t, tk))
    BY Zenon DEF IntegrityRun, tk
  <2>3. IntegrityRun(q) =
          IF other = <<>> \/ Len(other) # Len(r.parentKeys) THEN Refused
          ELSE IF Missing(other, s.columns) \cup Missing(r.parentKeys, o.columns) # {} THEN Raised
          ELSE Reply(Resolved(other, s.columns), KeysIn(o, ok))
    BY <1>1, Zenon DEF IntegrityRun, ok
  <2> HIDE DEF Reply
  <2> QED BY <1>2, <1>4, <2>1, <2>2, <2>3 DEF q
<1> QED BY <1>6, <1>7

(* An aligned target has a column of the source exactly when the target has *)
(* one of that folded name.                                                 *)
LEMMA AlignedColumns ==
  ASSUME NEW s, NEW t, IsList(s.columns), IsList(t.columns),
         {"columns", "type", "rows"} \subseteq DOMAIN t, NEW k \in Folds(s.columns)
  PROVE  CanonicalMap(s.columns)[k] \in ToSet(AlignToSource(s, t).columns) <=> k \in Folds(t.columns)
<1> DEFINE canonical == CanonicalMap(s.columns)
           new == [c \in ToSet(t.columns) |->
                     IF CaseFold[c] \in DOMAIN canonical THEN canonical[CaseFold[c]] ELSE c]
           names == [i \in DOMAIN t.columns |-> new[t.columns[i]]]
<1>1. AlignToSource(s, t).columns = names
  BY DEF AlignToSource, Renamed
<1>2. DOMAIN canonical = Folds(s.columns)
  BY DEF CanonicalMap
<1>3. \A j \in Folds(s.columns) : CaseFold[canonical[j]] = j
  BY CanonicalIsThere
<1>4. \A i \in DOMAIN t.columns : t.columns[i] \in ToSet(t.columns)
  BY DEF ToSet
<1> HIDE DEF canonical
<1>5. \A i \in DOMAIN t.columns :
        /\ names[i] = IF CaseFold[t.columns[i]] \in Folds(s.columns)
                        THEN canonical[CaseFold[t.columns[i]]] ELSE t.columns[i]
        /\ CaseFold[names[i]] = CaseFold[t.columns[i]]
  BY <1>2, <1>3, <1>4
<1>6. ToSet(names) = {names[i] : i \in DOMAIN t.columns}
  BY DEF ToSet
<1> HIDE DEF names
<1>7. canonical[k] \in ToSet(names) <=> k \in Folds(t.columns)
  BY <1>3, <1>5, <1>6 DEF Folds
<1> QED BY <1>1, <1>7 DEF canonical

(* An aggregation reads the aligned target from the same cells.             *)
LEMMA AggregationRespelled ==
  ASSUME NEW r, r.kind = "aggregation", IsRequest(r)
  PROVE  AggregationRun(Respelled(r)) = AggregationRun(r)
<1> DEFINE q == Respelled(r)
           s == r.source
           t == r.target
           o == Renamed(t, OtherSpelling)
           other == RespelledKeys(r.keys)
           a == AlignToSource(s, t)
           b == AlignToSource(s, o)
           groupBy == Resolved(r.keys, s.columns)
           column == Resolved(<<r.column>>, s.columns)[1]
           k1 == CaseFold[r.column]
           canonical == CanonicalMap(s.columns)
<1>1. /\ q.source = s /\ q.target = o /\ q.keys = other /\ q.column = OtherSpelling[r.column]
      /\ q.function = r.function /\ q.tolerance = r.tolerance
  BY RespelledFields
<1>2. Resolved(other, s.columns) = groupBy /\ Missing(other, s.columns) = Missing(r.keys, s.columns)
  BY RespelledKeysResolve DEF IsRequest
<1>3. CaseFold[OtherSpelling[r.column]] = k1
  BY SpellingAssumption DEF IsRequest
<1>4. /\ Resolved(<<OtherSpelling[r.column]>>, s.columns)[1] = column
      /\ Missing(<<OtherSpelling[r.column]>>, s.columns) = Missing(<<r.column>>, s.columns)
      /\ column = canonical[k1] /\ Missing(<<r.column>>, s.columns) = {k1} \ Folds(s.columns)
  <2>1. \A c : Missing(<<c>>, s.columns) = {CaseFold[c]} \ Folds(s.columns)
    BY DEF Missing
  <2>2. \A c : Resolved(<<c>>, s.columns)[1] = canonical[CaseFold[c]]
    BY DEF Resolved
  <2> HIDE DEF canonical
  <2> QED BY <1>3, <2>1, <2>2
<1>5. /\ IsList(s.columns) /\ IsList(t.columns) /\ IsList(o.columns)
      /\ {"columns", "type", "rows"} \subseteq DOMAIN t /\ {"columns", "type", "rows"} \subseteq DOMAIN o
      /\ FoldsAreDistinct(t.columns) /\ FoldsAreDistinct(o.columns)
      /\ Folds(o.columns) = Folds(t.columns) /\ DOMAIN o.rows = DOMAIN t.rows
      /\ \A k \in Folds(t.columns) : \A i \in DOMAIN t.rows :
           o.rows[i][CanonicalMap(o.columns)[k]] = t.rows[i][CanonicalMap(t.columns)[k]]
  <2>1. /\ DOMAIN o.columns = DOMAIN t.columns /\ IsList(o.columns)
        /\ {"columns", "type", "catalog", "rows"} \subseteq DOMAIN o
        /\ \A i \in DOMAIN t.columns : CaseFold[o.columns[i]] = CaseFold[t.columns[i]]
        /\ Folds(o.columns) = Folds(t.columns) /\ DOMAIN o.rows = DOMAIN t.rows
        /\ \A k \in Folds(t.columns) : \A i \in DOMAIN t.rows :
             o.rows[i][CanonicalMap(o.columns)[k]] = t.rows[i][CanonicalMap(t.columns)[k]]
    BY RespelledTable DEF IsRequest
  <2> HIDE DEF o
  <2>2. FoldsAreDistinct(t.columns)
    BY DEF IsRequest
  <2> QED BY <2>1, <2>2 DEF IsRequest, FoldsAreDistinct
<1> HIDE DEF q, o, other, a, b, canonical
<1>6. \A k \in Folds(s.columns) :
        canonical[k] \in ToSet(b.columns) <=> canonical[k] \in ToSet(a.columns)
  <2> SUFFICES ASSUME NEW k \in Folds(s.columns)
               PROVE canonical[k] \in ToSet(b.columns) <=> canonical[k] \in ToSet(a.columns)
    OBVIOUS
  <2>1. canonical[k] \in ToSet(a.columns) <=> k \in Folds(t.columns)
    BY <1>5, AlignedColumns DEF a, canonical
  <2>2. canonical[k] \in ToSet(b.columns) <=> k \in Folds(o.columns)
    BY <1>5, AlignedColumns DEF b, canonical
  <2> QED BY <1>5, <2>1, <2>2
<1>7. /\ DOMAIN b.rows = DOMAIN a.rows
      /\ \A k \in Folds(s.columns) : canonical[k] \in ToSet(a.columns) =>
           \A i \in DOMAIN a.rows : b.rows[i][canonical[k]] = a.rows[i][canonical[k]]
  <2>1. /\ DOMAIN a.rows = DOMAIN t.rows
        /\ \A k \in Folds(s.columns) : canonical[k] \in ToSet(a.columns) =>
             /\ k \in Folds(t.columns)
             /\ \A i \in DOMAIN t.rows :
                  a.rows[i][canonical[k]] = t.rows[i][CanonicalMap(t.columns)[k]]
    BY <1>5, AlignedCells DEF a, canonical
  <2>2. /\ DOMAIN b.rows = DOMAIN o.rows
        /\ \A k \in Folds(s.columns) : canonical[k] \in ToSet(b.columns) =>
             /\ k \in Folds(o.columns)
             /\ \A i \in DOMAIN o.rows :
                  b.rows[i][canonical[k]] = o.rows[i][CanonicalMap(o.columns)[k]]
    BY <1>5, AlignedCells DEF b, canonical
  <2> QED BY <1>5, <1>6, <2>1, <2>2
<1> DEFINE lost == \/ Missing(r.keys, s.columns) # {} \/ ~(ToSet(groupBy) \subseteq ToSet(a.columns))
                   \/ Missing(<<r.column>>, s.columns) # {} \/ column \notin ToSet(a.columns)
           lostToo == \/ Missing(r.keys, s.columns) # {} \/ ~(ToSet(groupBy) \subseteq ToSet(b.columns))
                      \/ Missing(<<r.column>>, s.columns) # {} \/ column \notin ToSet(b.columns)
           table == AggregationRows(s, a, groupBy, column, r.function)
           tableToo == AggregationRows(s, b, groupBy, column, r.function)
           Reply(rows) ==
             LET failed == {x \in rows :
                              VariancePercent(Abs(x.source), x.target - x.source) > r.tolerance}
             IN  IF rows = {} THEN Raised
                 ELSE Result(Verdict(failed = {}), <<Cardinality(rows), Cardinality(failed)>>, rows)
<1>8. AggregationRun(r) = IF lost THEN Raised ELSE Reply(table)
  BY Zenon DEF AggregationRun, a
<1>9. AggregationRun(q) = IF lostToo THEN Raised ELSE Reply(tableToo)
  <2> DEFINE gq == Resolved(q.keys, q.source.columns)
             cq == Resolved(<<q.column>>, q.source.columns)[1]
             aq == AlignToSource(q.source, q.target)
  <2>1. AggregationRun(q) =
          IF \/ Missing(q.keys, q.source.columns) # {} \/ ~(ToSet(gq) \subseteq ToSet(aq.columns))
             \/ Missing(<<q.column>>, q.source.columns) # {} \/ cq \notin ToSet(aq.columns)
            THEN Raised
          ELSE LET rows == AggregationRows(q.source, aq, gq, cq, q.function)
                   failed == {x \in rows :
                                VariancePercent(Abs(x.source), x.target - x.source) > q.tolerance}
               IN  IF rows = {} THEN Raised
                   ELSE Result(Verdict(failed = {}), <<Cardinality(rows), Cardinality(failed)>>, rows)
    BY Zenon DEF AggregationRun
  <2>2. gq = groupBy /\ cq = column /\ aq = b
    BY <1>1, <1>2, <1>4 DEF b
  <2>3. /\ Missing(q.keys, q.source.columns) = Missing(r.keys, s.columns)
        /\ Missing(<<q.column>>, q.source.columns) = Missing(<<r.column>>, s.columns)
    BY <1>1, <1>2, <1>4
  <2> HIDE DEF gq, cq, aq, groupBy, column
  <2>4. AggregationRows(q.source, aq, gq, cq, q.function) = tableToo
    BY <1>1, <2>2
  <2> HIDE DEF tableToo
  <2> QED BY <1>1, <2>1, <2>2, <2>3, <2>4
<1> HIDE DEF Reply
<1>10. CASE Missing(r.keys, s.columns) # {} \/ Missing(<<r.column>>, s.columns) # {}
  BY <1>8, <1>9, <1>10 DEF q
<1>11. CASE Missing(r.keys, s.columns) = {} /\ Missing(<<r.column>>, s.columns) = {}
  <2>1. /\ \A n \in DOMAIN r.keys : CaseFold[r.keys[n]] \in Folds(s.columns)
        /\ k1 \in Folds(s.columns)
    BY <1>4, <1>11 DEF Missing
  <2>2. /\ DOMAIN groupBy = DOMAIN r.keys
        /\ \A n \in DOMAIN r.keys : groupBy[n] = canonical[CaseFold[r.keys[n]]]
        /\ ToSet(groupBy) = {groupBy[n] : n \in DOMAIN r.keys}
    BY DEF Resolved, canonical, ToSet
  <2> HIDE DEF groupBy, column, k1
  <2>3. lostToo <=> lost
    BY <1>4, <1>6, <2>1, <2>2
  <2>4. CASE lost
    BY <1>8, <1>9, <2>3, <2>4 DEF q
  <2>5. CASE ~lost
    <3>1. \A n \in DOMAIN groupBy : \A i \in DOMAIN a.rows :
            b.rows[i][groupBy[n]] = a.rows[i][groupBy[n]]
      BY <1>7, <2>1, <2>2, <2>5
    <3>2. \A i \in DOMAIN a.rows : b.rows[i][column] = a.rows[i][column]
      BY <1>4, <1>7, <2>1, <2>5
    <3>3. \A i \in DOMAIN a.rows : Key(b.rows[i], groupBy) = Key(a.rows[i], groupBy)
      BY <3>1 DEF Key
    <3>4. SameCells(a, groupBy, b, groupBy)
      BY <1>7, <3>3 DEF SameCells
    <3>5. /\ KeysIn(b, groupBy) = KeysIn(a, groupBy)
          /\ \A g : RowsWith(b, groupBy, g) = RowsWith(a, groupBy, g)
      BY <3>4, SameKeys
    <3>6. ASSUME NEW g
          PROVE  Aggregate(b, column, RowsWith(b, groupBy, g), r.function)
                   = Aggregate(a, column, RowsWith(a, groupBy, g), r.function)
      <4> DEFINE G == RowsWith(a, groupBy, g)
                 present(f) == {i \in G : f.rows[i][column] # NULL}
                 values(f) == {f.rows[i][column] : i \in present(f)}
                 cells(f) == [i \in present(f) |-> f.rows[i][column]]
      <4>1. RowsWith(b, groupBy, g) = G
        BY <3>5
      <4>2. G \subseteq DOMAIN a.rows
        BY DEF RowsWith
      <4> HIDE DEF G
      <4>3. present(b) = present(a)
        BY <3>2, <4>2
      <4>4. values(b) = values(a) /\ cells(b) = cells(a)
        BY <3>2, <4>2, <4>3
      <4> DEFINE F(p, v, c) ==
                   CASE r.function = "COUNT"          -> Cardinality(p)
                     [] r.function = "COUNT_DISTINCT" -> Cardinality(v)
                     [] r.function = "SUM"            -> SumFunction(c)
                     [] r.function = "MIN"            -> IF p = {} THEN 0 ELSE Min(v)
                     [] r.function = "MAX"            -> IF p = {} THEN 0 ELSE Max(v)
      <4>5. \A f : Aggregate(f, column, G, r.function) = F(present(f), values(f), cells(f))
        BY Zenon DEF Aggregate
      <4> HIDE DEF F, present, values, cells
      <4>6. Aggregate(b, column, G, r.function) = Aggregate(a, column, G, r.function)
        BY <4>3, <4>4, <4>5, Zenon
      <4> QED BY <4>1, <4>6 DEF G
    <3>7. tableToo = table
      <4> DEFINE groups == IF groupBy = <<>> THEN {<<>>} ELSE KeysIn(s, groupBy) \cup KeysIn(a, groupBy)
                 line(f, g) == [group |-> g,
                                source |-> Aggregate(s, column, RowsWith(s, groupBy, g), r.function),
                                target |-> Aggregate(f, column, RowsWith(f, groupBy, g), r.function)]
      <4>1. table = {line(a, g) : g \in groups}
        BY DEF AggregationRows
      <4>2. tableToo = {line(b, g) : g \in groups}
        BY <3>5 DEF AggregationRows
      <4>3. \A g : line(b, g) = line(a, g)
        BY <3>6, Zenon
      <4> HIDE DEF line, groups
      <4> QED BY <4>1, <4>2, <4>3
    <3> QED BY <1>8, <1>9, <2>3, <2>5, <3>7 DEF q
  <2> QED BY <2>4, <2>5
<1> QED BY <1>10, <1>11

(* A name is that of a column on both sides when its folded form is.        *)
LEMMA OnBothSidesByFold ==
  ASSUME NEW s, NEW t, IsList(s.columns), NEW n
  PROVE  EngineName(s, n) \in OnBothSides(s, t)
           <=> CaseFold[n] \in Folds(s.columns) \cap Folds(t.columns)
<1> DEFINE name(c) == EngineName(s, c)
<1>1. \A c : CaseFold[c] \in Folds(s.columns) =>
        /\ name(c) = EngineMap(s.columns)[CaseFold[c]]
        /\ name(c) \in ToSet(s.columns) /\ CaseFold[name(c)] = CaseFold[c]
  BY ReversedColumns, CanonicalIsThere DEF EngineName, EngineMap
<1>2. \A c : CaseFold[c] \notin Folds(s.columns) => name(c) = c
  BY DEF EngineName
<1>3. \A c \in ToSet(s.columns) : CaseFold[c] \in Folds(s.columns)
  BY DEF ToSet, Folds
<1>4. name(n) \in OnBothSides(s, t)
        <=> name(n) \in ToSet(s.columns) /\ \E i \in DOMAIN t.columns : name(n) = name(t.columns[i])
  BY DEF OnBothSides
<1>5. CaseFold[n] \in Folds(t.columns) <=> \E i \in DOMAIN t.columns : CaseFold[n] = CaseFold[t.columns[i]]
  BY DEF Folds
<1> HIDE DEF name
<1>6. ASSUME name(n) \in OnBothSides(s, t)
      PROVE  CaseFold[n] \in Folds(s.columns) /\ CaseFold[n] \in Folds(t.columns)
  <2>1. CaseFold[name(n)] \in Folds(s.columns)
    BY <1>3, <1>4, <1>6
  <2>2. \A c : CaseFold[name(c)] = CaseFold[c]
    BY <1>1, <1>2
  <2>3. PICK i \in DOMAIN t.columns : name(n) = name(t.columns[i])
    BY <1>4, <1>6
  <2>4. CaseFold[n] = CaseFold[t.columns[i]]
    BY <2>2, <2>3
  <2> QED BY <1>5, <2>1, <2>2, <2>4
<1>7. ASSUME CaseFold[n] \in Folds(s.columns), CaseFold[n] \in Folds(t.columns)
      PROVE  name(n) \in OnBothSides(s, t)
  <2>1. PICK i \in DOMAIN t.columns : CaseFold[n] = CaseFold[t.columns[i]]
    BY <1>5, <1>7
  <2>2. name(n) = name(t.columns[i])
    BY <1>1, <1>7, <2>1
  <2> QED BY <1>1, <1>4, <1>7, <2>2
<1>8. name(n) \in OnBothSides(s, t) <=> CaseFold[n] \in Folds(s.columns) \cap Folds(t.columns)
  BY <1>6, <1>7
<1> QED BY <1>8 DEF name

(* The columns on both sides are those of the source whose folded name the  *)
(* target has.                                                              *)
LEMMA CommonColumns ==
  ASSUME NEW s, NEW t, IsList(s.columns)
  PROVE  OnBothSides(s, t) = {EngineMap(s.columns)[k] : k \in Folds(s.columns) \cap Folds(t.columns)}
<1> DEFINE common == {EngineMap(s.columns)[k] : k \in Folds(s.columns) \cap Folds(t.columns)}
<1>1. \A n : EngineName(s, n) \in OnBothSides(s, t)
               <=> CaseFold[n] \in Folds(s.columns) \cap Folds(t.columns)
  BY OnBothSidesByFold
<1>2. \A n : CaseFold[n] \in Folds(s.columns) => EngineName(s, n) = EngineMap(s.columns)[CaseFold[n]]
  BY DEF EngineName
<1>3. ASSUME NEW c \in OnBothSides(s, t) PROVE c \in common
  <2>1. PICK i \in DOMAIN t.columns : c = EngineName(s, t.columns[i])
    BY <1>3 DEF OnBothSides
  <2> QED BY <1>1, <1>2, <1>3, <2>1
<1>4. ASSUME NEW k \in Folds(s.columns) \cap Folds(t.columns)
      PROVE  EngineMap(s.columns)[k] \in OnBothSides(s, t)
  <2>1. PICK i \in DOMAIN t.columns : CaseFold[t.columns[i]] = k
    BY <1>4 DEF Folds
  <2> QED BY <1>1, <1>2, <1>4, <2>1
<1> QED BY <1>3, <1>4

(* The engine goes on with the same columns.                                *)
LEMMA AlignmentRespelled ==
  ASSUME NEW r, IsRequest(r)
  PROVE  AlignmentRun(Respelled(r)) = AlignmentRun(r)
<1> DEFINE q == Respelled(r)
           s == r.source
           t == r.target
           o == Renamed(t, OtherSpelling)
           other == RespelledKeys(r.keys)
           asked == r.parentKeys
<1>1. q.source = s /\ q.target = o /\ q.keys = other /\ q.parentKeys = asked
  BY RespelledFields
<1>2. /\ other = <<>> <=> r.keys = <<>>
      /\ DOMAIN other = DOMAIN r.keys
      /\ \A i \in DOMAIN r.keys : CaseFold[other[i]] = CaseFold[r.keys[i]]
  BY RespelledKeysResolve DEF IsRequest
<1>3. Folds(o.columns) = Folds(t.columns) /\ IsList(s.columns)
  BY RespelledTable DEF IsRequest
<1> HIDE DEF q, o, other
<1>4. OnBothSides(s, o) = OnBothSides(s, t)
  BY <1>3, CommonColumns
<1>5. \A n : EngineName(s, n) \in OnBothSides(s, t)
               <=> CaseFold[n] \in Folds(s.columns) \cap Folds(t.columns)
  BY <1>3, OnBothSidesByFold
<1>6. EngineRefuses(s, o, other, asked) <=> EngineRefuses(s, t, r.keys, asked)
  <2>1. EngineRefuses(s, o, other, asked)
          <=> \/ \E i \in DOMAIN r.keys : EngineName(s, other[i]) \notin OnBothSides(s, t)
              \/ \E n \in ToSet(asked) : EngineName(s, n) \notin OnBothSides(s, t)
    BY <1>2, <1>4 DEF EngineRefuses, ToSet
  <2>2. EngineRefuses(s, t, r.keys, asked)
          <=> \/ \E i \in DOMAIN r.keys : EngineName(s, r.keys[i]) \notin OnBothSides(s, t)
              \/ \E n \in ToSet(asked) : EngineName(s, n) \notin OnBothSides(s, t)
    BY DEF EngineRefuses, ToSet
  <2> QED BY <1>2, <1>5, <2>1, <2>2
<1>7. ASSUME ~EngineRefuses(s, t, r.keys, asked)
      PROVE  EngineColumns(s, o, other, asked) = EngineColumns(s, t, r.keys, asked)
  <2>1. \A i \in DOMAIN r.keys : EngineName(s, other[i]) = EngineName(s, r.keys[i])
    <3>1. \A i \in DOMAIN r.keys : CaseFold[r.keys[i]] \in Folds(s.columns)
      BY <1>5, <1>7 DEF EngineRefuses, ToSet
    <3> QED BY <1>2, <3>1 DEF EngineName
  <2> DEFINE named(ks) == {EngineName(s, k) : k \in ToSet(ks)}
             wanted(common) == IF asked # <<>> THEN [i \in DOMAIN asked |-> EngineName(s, asked[i])]
                               ELSE Among(s.columns, common)
             rest(w, names) == Among(w, ToSet(w) \ names)
  <2>2. named(other) = named(r.keys)
    BY <1>2, <2>1 DEF ToSet
  <2>3. EngineColumns(s, o, other, asked) = rest(wanted(OnBothSides(s, o)), named(other))
    BY Zenon DEF EngineColumns
  <2>4. EngineColumns(s, t, r.keys, asked) = rest(wanted(OnBothSides(s, t)), named(r.keys))
    BY Zenon DEF EngineColumns
  <2> HIDE DEF named, wanted, rest
  <2> QED BY <1>4, <2>2, <2>3, <2>4
<1> DEFINE Reply(refuses, columns) ==
             IF r.keys = <<>> THEN Refused ELSE IF refuses THEN Raised
             ELSE Result("PASS", <<Len(columns)>>, ToSet(columns))
<1>8. AlignmentRun(r) = Reply(EngineRefuses(s, t, r.keys, asked), EngineColumns(s, t, r.keys, asked))
  BY DEF AlignmentRun
<1>9. AlignmentRun(q) = IF q.keys = <<>> THEN Refused
                        ELSE IF EngineRefuses(q.source, q.target, q.keys, q.parentKeys) THEN Raised
                        ELSE LET columns == EngineColumns(q.source, q.target, q.keys, q.parentKeys)
                             IN  Result("PASS", <<Len(columns)>>, ToSet(columns))
  BY DEF AlignmentRun
<1>10. AlignmentRun(q) = Reply(EngineRefuses(s, o, other, asked), EngineColumns(s, o, other, asked))
  BY <1>1, <1>2, <1>9
<1>11. CASE EngineRefuses(s, t, r.keys, asked)
  BY <1>6, <1>8, <1>10, <1>11 DEF q
<1>12. CASE ~EngineRefuses(s, t, r.keys, asked)
  <2>1. AlignmentRun(q) = AlignmentRun(r)
    BY <1>6, <1>7, <1>8, <1>10, <1>12
  <2> QED BY <2>1 DEF q
<1> QED BY <1>11, <1>12

(* Another spelling of the target, of the keys and of the column asked for  *)
(* is answered alike, detail and all.                                       *)
LEMMA OutcomeRespelled ==
  ASSUME NEW r, r.kind \in Services, IsRequest(r)
  PROVE  Outcome(Respelled(r)) = Outcome(r)
<1> DEFINE q == Respelled(r)
<1>1. q.kind = r.kind
  BY RespelledFields
<1>2. /\ SchemaRun(q) = SchemaRun(r) /\ DuplicateRun(q) = DuplicateRun(r)
      /\ NullabilityRun(q) = NullabilityRun(r) /\ CountRun(q) = CountRun(r)
      /\ IntegrityRun(q) = IntegrityRun(r) /\ AlignmentRun(q) = AlignmentRun(r)
      /\ r.kind = "aggregation" => AggregationRun(q) = AggregationRun(r)
  BY SchemaRespelled, SourceChecksRespelled, CountRespelled, IntegrityRespelled,
     AlignmentRespelled, AggregationRespelled
<1> HIDE DEF q
<1>3. Outcome(q) = Outcome(r)
  BY <1>1, <1>2 DEF Outcome, Services
<1> QED BY <1>3 DEF q

(* How the columns of the target and of a request are spelt changes neither *)
(* the verdict of a service nor a figure of it, whatever the frames.        *)
THEOREM SpellingDoesNotMatter == AnalysesSpec => []SpellingIsIrrelevant
<1>1. ASSUME AnswersTheTask PROVE SpellingIsIrrelevant
  <2> SUFFICES ASSUME Answered(Services)
               PROVE  /\ Outcome(Respelled(task)).status = result.status
                      /\ Outcome(Respelled(task)).summary = result.summary
    BY Zenon DEF SpellingIsIrrelevant, Respelled
  <2>1. task.kind \in Services /\ result = Outcome(task)
    BY <1>1 DEF Answered, AnswersTheTask
  <2>2. IsRequest(task)
    BY <1>1, <2>1, TasksAssumption DEF AnswersTheTask
  <2> QED BY <2>1, <2>2, OutcomeRespelled
<1> QED BY <1>1, AlwaysAnswersTheTask, PTL

(* Whatever its format and however its sections are split, a report holds   *)
(* every row that the format has room for, once and in order, in parts no   *)
(* two of which have one name; an archive holds every row of every run.     *)
THEOREM ReportsHoldEveryRow == AnalysesSpec => []EveryRowIsExported
<1>1. AnswersTheTask => EveryRowIsExported
  <2> SUFFICES ASSUME AnswersTheTask PROVE ReportHoldsEveryRow /\ ArchiveHoldsEveryRow
    BY DEF EveryRowIsExported
  <2>1. ReportHoldsEveryRow
    <3> SUFFICES ASSUME Answered({"report"}), result.status = "PASS" PROVE ReportHoldsEveryRow
      BY DEF ReportHoldsEveryRow
    <3>1. task.kind = "report" /\ result = Exported(task)
      BY DEF Answered, AnswersTheTask
    <3>2. IsReport(task.sections) /\ task.format \in {"EXCEL", "CSV", "PDF", "JSON", "BATCHES"}
      BY <3>1, TasksAssumption DEF AnswersTheTask
    <3>3. result.detail = Export(task.sections, task.format)
      <4>1. Raised.status # "PASS"
        BY DEF Raised, Result
      <4> QED BY <3>1, <4>1 DEF Exported, Result
    <3> DEFINE sections == task.sections
               all == RowsOf(sections)
    <3>4. /\ LET parts == ToExcel(sections)
             IN  /\ RowsOf(parts) = all
                 /\ Distinct(Titles(parts)) /\ \A i \in DOMAIN parts : Len(parts[i].name) \in 1 .. Width
                 /\ \A i \in DOMAIN parts : Len(parts[i].rows) <= SheetRows
          /\ RowsOf(ToPdf(sections)) = Among(all, {row \in ToSet(all) : row[2] <= PdfRows})
          /\ LET parts == ToDownloads(sections)
             IN  /\ RowsOf(parts) = all
                 /\ Len(sections) = 1 => Distinct(Titles(parts))
                 /\ \A i \in DOMAIN parts : Len(parts[i].rows) <= BatchRows
          /\ RowsOf(ToCsv(sections)) = all
          /\ Distinct(Titles(sections)) => RowsOf(ToJson(sections)) = all
      BY <3>2, ReportIsExported
    <3>5. CASE task.format = "EXCEL"
      BY <3>3, <3>4, <3>5 DEF ReportHoldsEveryRow, Export
    <3>6. CASE task.format = "CSV"
      BY <3>3, <3>4, <3>6 DEF ReportHoldsEveryRow, Export
    <3>7. CASE task.format = "PDF"
      BY <3>3, <3>4, <3>7 DEF ReportHoldsEveryRow, Export
    <3>8. CASE task.format = "JSON"
      BY <3>3, <3>4, <3>8 DEF ReportHoldsEveryRow, Export
    <3>9. CASE task.format = "BATCHES"
      BY <3>3, <3>4, <3>9 DEF ReportHoldsEveryRow, Export
    <3> QED BY <3>2, <3>5, <3>6, <3>7, <3>8, <3>9
  <2>2. ArchiveHoldsEveryRow
    <3> SUFFICES ASSUME Answered({"archive"}) PROVE ArchiveHoldsEveryRow
      BY DEF ArchiveHoldsEveryRow
    <3>1. task.kind = "archive" /\ result = Result("PASS", <<>>, BuildExport(task.runs))
      BY DEF Answered, AnswersTheTask
    <3>2. IsSelection(task.runs)
      BY <3>1, TasksAssumption DEF AnswersTheTask
    <3>3. result.detail = BuildExport(task.runs)
      BY <3>1 DEF Result
    <3> QED BY <3>2, <3>3, SelectionIsExported DEF ArchiveHoldsEveryRow
  <2> QED BY <2>1, <2>2
<1> QED BY <1>1, AlwaysAnswersTheTask, PTL

=============================================================================

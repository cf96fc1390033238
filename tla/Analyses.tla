------------------------------ MODULE Analyses ------------------------------
(***************************************************************************)
(* The operations of datarecon that turn what they are given into an       *)
(* answer without any state of their own: the validation services, the     *)
(* cron preview, the explanation of mismatches, reports and archives.  A   *)
(* task is one request together with the frames it reads; one step answers *)
(* it.                                                                     *)
(***************************************************************************)
EXTENDS Cron, FrameChecks, Reports

CONSTANTS
  Tasks,          \* bound: sets of requests looked at, one after the other
  Pending,        \* not answered yet
  LetterFold,     \* the letters as the writer of workbooks tells them apart
  OtherSpelling,  \* for each name of a column, another spelling of it
  MinRows, One, Fraction, Rtol, Atol, Eps

Patterns == INSTANCE MismatchPatterns

(* What a validation service is asked.  A frame that is aggregated holds    *)
(* numbers or NULL in the column summed, and a target that is renamed has   *)
(* no two columns that differ by case alone.                                *)
Numeric(f, column) ==
  \A i \in DOMAIN f.rows : \A c \in ToSet(f.columns) :
    CaseFold[c] = CaseFold[column] => f.rows[i][c] = NULL \/ f.rows[i][c] \in Int

FoldsAreDistinct(columns) ==
  \A i, j \in DOMAIN columns : CaseFold[columns[i]] = CaseFold[columns[j]] => i = j

IsRequest(r) ==
  /\ DOMAIN r = {"kind", "source", "target", "keys", "parentKeys", "column", "function",
                 "sentinels", "tolerance", "absolute", "limit"}
  /\ IsList(r.source.columns) /\ IsList(r.source.rows)
  /\ IsList(r.target.columns) /\ IsList(r.target.rows)
  /\ {"columns", "type", "catalog", "rows"} \subseteq DOMAIN r.target
  /\ ToSet(r.target.columns) \cup ToSet(r.keys) \cup {r.column} \subseteq DOMAIN OtherSpelling
  /\ IsList(r.keys) /\ IsList(r.parentKeys)
  /\ r.tolerance \in Nat /\ r.absolute \in Nat /\ r.limit \in Nat \ {0}
  /\ r.kind = "aggregation" =>
       /\ r.function \in {"COUNT", "COUNT_DISTINCT", "SUM", "MIN", "MAX"}
       /\ Numeric(r.source, r.column) /\ Numeric(r.target, r.column)
       /\ FoldsAreDistinct(r.target.columns)

(* A text, and a frame of mismatches: its rows in order, a pair of values   *)
(* of the column's kind in each, different where they are said to differ.   *)
IsText(t) ==
  /\ t = [word |-> t.word, cut |-> t.cut, upper |-> t.upper, padded |-> t.padded]
  /\ t.cut \in Nat /\ t.upper \in BOOLEAN /\ t.padded \in BOOLEAN

IsMismatchFrame(m) ==
  /\ IsFiniteSet(DOMAIN m.kind) /\ DOMAIN m.kind \subseteq Int
  /\ IsList(m.rows)
  /\ \A i \in DOMAIN m.rows : \A c \in DOMAIN m.kind :
       LET v == m.rows[i].cell[c]
       IN  /\ DOMAIN v = {1, 2}
           /\ c \in m.rows[i].columns => v[1] # v[2]
           /\ \A n \in {1, 2} :
                v[n] = NULL \/ IF m.kind[c] = "text" THEN IsText(v[n]) ELSE v[n] \in Int

Services ==
  {"alignment", "schema", "duplicate", "nullability", "aggregation", "count", "integrity"}

(* Another spelling differs by case alone, and tells the columns apart that *)
(* the first one tells apart.                                               *)
ASSUME SpellingAssumption ==
  /\ \A c \in DOMAIN OtherSpelling : CaseFold[OtherSpelling[c]] = CaseFold[c]
  /\ \A c, d \in DOMAIN OtherSpelling : OtherSpelling[c] = OtherSpelling[d] => c = d

(* The tolerances are small parts.                                          *)
ASSUME ToleranceAssumption ==
  /\ Rtol \in Nat /\ Rtol >= 2 /\ Atol \in Nat /\ Atol >= 4 /\ Eps \in Nat \ {0}

ASSUME TasksAssumption ==
  /\ MinRows \in Nat \ {0} /\ One \in Nat \ {0}
  /\ \A k \in DOMAIN Tasks : \A r \in Tasks[k] :
       /\ r.kind = "cron" => /\ r.count \in Nat /\ r.after \in Nat
                             /\ r.after + 1 .. r.after + Lookahead \subseteq DOMAIN At
       /\ r.kind \in Services => IsRequest(r)
       /\ r.kind = "mismatches" => IsMismatchFrame(r.mismatches)
       /\ r.kind = "row-set" => /\ IsList(r.keys)
                                /\ \A i \in DOMAIN r.keys : r.keys[i] = NULL \/ r.keys[i] \in Int
       /\ r.kind = "report" => /\ IsReport(r.sections)
                               /\ r.format \in {"EXCEL", "CSV", "PDF", "JSON", "BATCHES"}
       /\ r.kind = "archive" => IsSelection(r.runs)

VARIABLES task, result

analysis == <<task, result>>

AnalysesInit ==
  /\ \E k \in DOMAIN Tasks : task \in Tasks[k]
  /\ result = Pending

Answer(kind, outcome) ==
  /\ task.kind = kind
  /\ result = Pending
  /\ result' = outcome
  /\ UNCHANGED task

(* next_runs of the expression, an exception if it cannot be parsed.        *)
PreviewSchedule ==
  Answer("cron", IF ParseRaises(task.expression) THEN Raised
                 ELSE LET runs == NextRuns(Parse(task.expression), task.after, task.count)
                      IN  Result("PASS", <<>>, runs))

(* ComparisonEngine.compare up to the columns it compares; parentKeys holds *)
(* the columns asked for.                                                   *)
AlignmentRun(r) ==
  IF r.keys = <<>> THEN Refused
  ELSE IF EngineRefuses(r.source, r.target, r.keys, r.parentKeys) THEN Raised
  ELSE LET columns == EngineColumns(r.source, r.target, r.keys, r.parentKeys)
       IN  Result("PASS", <<Len(columns)>>, ToSet(columns))

Outcome(r) ==
  CASE r.kind = "schema"      -> SchemaRun(r)
    [] r.kind = "duplicate"   -> DuplicateRun(r)
    [] r.kind = "nullability" -> NullabilityRun(r)
    [] r.kind = "aggregation" -> AggregationRun(r)
    [] r.kind = "count"       -> CountRun(r)
    [] r.kind = "integrity"   -> IntegrityRun(r)
    [] r.kind = "alignment"   -> AlignmentRun(r)

Validate(kind) == Answer(kind, Outcome(task))

ExplainMismatches == Answer("mismatches", Patterns!Analyse(task.mismatches))

ExplainRowSet == Answer("row-set", Patterns!FormBlock(task.keys))

(* The download buttons of a report, and the archive of selected runs.     *)
ExportReport ==
  Answer("report", IF task.format = "EXCEL" /\ ExcelRaises(task.sections, LetterFold) THEN Raised
                   ELSE Result("PASS", <<>>, Export(task.sections, task.format)))

ExportRuns == Answer("archive", Result("PASS", <<>>, BuildExport(task.runs)))

AnalysesNext ==
  \/ PreviewSchedule
  \/ \E kind \in Services : Validate(kind)
  \/ ExplainMismatches
  \/ ExplainRowSet
  \/ ExportReport
  \/ ExportRuns

AnalysesSpec == AnalysesInit /\ [][AnalysesNext]_analysis

-----------------------------------------------------------------------------
Answered(kinds) == task.kind \in kinds /\ result # Pending

(* The preview, which "exists so the UI can show what an expression means"  *)
(* (docs/adr/0014), lists the first minutes that are meant and no others:   *)
(* names, lists, steps, both Sundays, the two day fields, the ends of the   *)
(* ranges.  Only a range of weekdays that begins or ends with the second    *)
(* Sunday is read otherwise.                                                *)
FirstMeant(e, after, count, runs) ==
  LET meant == {t \in after + 1 .. after + Lookahead : MeantToFire(e, At[t])}
  IN  /\ ToSet(runs) \subseteq meant /\ Len(runs) <= count
      /\ \A i, j \in DOMAIN runs : i < j => runs[i] < runs[j]
      /\ \A t \in meant \ ToSet(runs) :
           Len(runs) = count /\ \A i \in DOMAIN runs : runs[i] < t

CronMeansWhatItSays ==
  Answered({"cron"}) /\ result.status = "PASS" /\ ~RangesOverSecondSunday(task.expression) =>
    FirstMeant(task.expression, task.after, task.count, result.detail)

(* How the columns of a frame and of a request are spelt, upper or lower    *)
(* case, changes neither a verdict nor a figure (docs/adr/0009).            *)
SpellingIsIrrelevant ==
  Answered(Services) =>
    LET respelled == [task EXCEPT !.target = Renamed(@, OtherSpelling),
                                  !.keys = [i \in DOMAIN @ |-> OtherSpelling[@[i]]],
                                  !.column = OtherSpelling[@]]
        answer == Outcome(respelled)
    IN  answer.status = result.status /\ answer.summary = result.summary

(* What a verdict stands for, read from the rows alone: a PASS without any  *)
(* tolerance says that nothing at all is wrong, a FAIL that something is.   *)
NothingWrong(r) ==
  LET s == r.source
      t == r.target
      cell(f, i, c) == f.rows[i][CanonicalMap(f.columns)[CaseFold[c]]]
      key(f, i, ks) == [n \in DOMAIN ks |-> cell(f, i, ks[n])]
      full(f, i, ks) == \A n \in DOMAIN ks : cell(f, i, ks[n]) # NULL
      group(f, g) == {i \in DOMAIN f.rows : key(f, i, r.keys) = g}
      groups == UNION {{key(f, i, r.keys) : i \in DOMAIN f.rows} : f \in {s, t}}
      total(f, g) == SumFunction([i \in {j \in group(f, g) : cell(f, j, r.column) # NULL} |->
                                    cell(f, i, r.column)])
  IN  CASE r.kind = "schema" ->
             /\ Folds(s.columns) = Folds(t.columns)
             /\ \A k \in Folds(s.columns) :
                  /\ s.type[CanonicalMap(s.columns)[k]] = t.type[CanonicalMap(t.columns)[k]]
                  /\ k \in DOMAIN s.catalog /\ k \in DOMAIN t.catalog => s.catalog[k] = t.catalog[k]
        [] r.kind = "duplicate" ->
             \A i, j \in DOMAIN s.rows : key(s, i, r.keys) = key(s, j, r.keys) => i = j
        [] r.kind = "nullability" ->
             \A i \in DOMAIN s.rows :
             \A c \in IF r.keys = <<>> THEN ToSet(s.columns)
                      ELSE {CanonicalMap(s.columns)[CaseFold[k]] : k \in ToSet(r.keys)} :
               s.rows[i][c] \notin {NULL, BLANK} \cup r.sentinels
        [] r.kind = "aggregation" -> \A g \in groups : total(s, g) = total(t, g)
        [] r.kind = "count" -> Len(s.rows) = Len(t.rows)
        [] r.kind = "alignment" ->
             \A c \in ToSet(r.keys) \cup ToSet(r.parentKeys) :
               CaseFold[c] \in Folds(s.columns) \cap Folds(t.columns)
        [] r.kind = "integrity" ->
             \A i \in DOMAIN s.rows : full(s, i, r.keys) =>
               \E j \in DOMAIN t.rows : key(s, i, r.keys) = key(t, j, r.parentKeys)

Strict(r) ==
  /\ r.tolerance = IF r.kind = "nullability" THEN Scale ELSE 0
  /\ r.kind = "aggregation" => r.function = "SUM"
  /\ r.absolute = 0

VerdictIsMeant ==
  Answered(Services) /\ Strict(task) /\ result.status \in {"PASS", "FAIL"} =>
    (result.status = "PASS" <=> NothingWrong(task))

(* The detail a run saves accounts for the figures it shows: the groups of  *)
(* a record count add up to the rows of each side, whatever their keys; the *)
(* rows an integrity check passes over and those it looks at are all of     *)
(* them; and whoever is told FAIL is shown at least one row or group, except*)
(* duplicates of a key that contains NULL.                                  *)
DetailAccountsForFigures ==
  Answered(Services) /\ result.status \in {"PASS", "FAIL"} =>
    LET d == result.detail
        n == result.summary
        differ == {x \in d : x.source # x.target}
    IN  /\ task.kind = "count" /\ task.keys # <<>> =>
             /\ SumFunction([x \in d |-> x.source]) = Len(task.source.rows)
             /\ SumFunction([x \in d |-> x.target]) = Len(task.target.rows)
             /\ result.status = "FAIL" => differ # {}
        /\ task.kind = "aggregation" /\ result.status = "FAIL" => differ # {}
        /\ task.kind = "integrity" =>
             /\ n[1] = n[2] + n[3] /\ n[4] <= n[2] /\ n[5] <= n[4]
             /\ result.status = "FAIL" => d # {}
        /\ task.kind = "duplicate" =>
             /\ n[3] >= 2 * n[2]
             /\ result.status = "FAIL" =>
                  d # {} \/ \E i \in DOMAIN task.source.rows :
                              \E k \in ToSet(Resolved(task.keys, task.source.columns)) :
                                task.source.rows[i][k] = NULL

(* Every explanation is so in every row it is checked against, which are    *)
(* the rows counted that have both values, or all of those counted where a  *)
(* side is said to be empty: the figure it gives is the one of each of these*)
(* rows but for the noise the code allows, and there are enough of them for *)
(* it not to be "a coincidence" (docs/adr/0015).  The widest come first.    *)
EmptySide == {"null-on-source", "null-on-target"}

RowClaimsHold ==
  Answered({"mismatches"}) =>
    LET m == task.mismatches
        cell(i, c) == m.rows[i].cell[c]
        checked(p) == {i \in Patterns!HitRows(m, p.column) :
                         p.kind \in EmptySide \/ NULL \notin ToSet(cell(i, p.column))}
    IN  /\ \A p \in ToSet(result) : p.kind # "column-concentration" =>
             /\ \A i \in checked(p) :
                  Patterns!Says(p.kind, p.figure, cell(i, p.column)[1], cell(i, p.column)[2])
             /\ Cardinality(checked(p)) >=
                  IF p.kind \in EmptySide \cup {"whitespace-only", "case-only"} THEN 1 ELSE MinRows
        /\ \A i, j \in DOMAIN result : i < j => result[i].rows >= result[j].rows

(* Whole numbers called an unbroken block hold every whole number between   *)
(* their ends.  (Among keys that are not all whole a block can have holes.) *)
BlocksAreUnbroken ==
  Answered({"row-set"}) /\ result = TRUE /\ (\A k \in ToSet(task.keys) : k % One = 0) =>
    \A k, j \in ToSet(task.keys) : k < j => k + One \in ToSet(task.keys)

(* What the code keeps of "Every claim is checked against every row it      *)
(* covers" (docs/adr/0015).                                                 *)
ClaimsHold == RowClaimsHold /\ BlocksAreUnbroken

(* "every claim of 'exactly' holds for every row counted"                   *)
(* (presentation/components/mismatch_insights.py), "literal, up to floating-*)
(* point noise (rtol=1e-9...)" (docs/adr/0015).  It does not: rows with a   *)
(* NULL are counted, and np.allclose adds a tolerance of its own.           *)
ExactlyIsLiteral ==
  Answered({"mismatches"}) =>
    \A p \in ToSet(result) : p.kind \in {"constant-ratio", "constant-offset", "time-shift"} =>
      \A i \in Patterns!HitRows(task.mismatches, p.column) :
        LET v == task.mismatches.rows[i].cell[p.column]
        IN  /\ NULL \notin ToSet(v)
            /\ p.kind = "constant-ratio" =>
                 Patterns!Abs(v[2] * p.figure[2] - p.figure[1] * v[1]) * Rtol
                   <= Patterns!Abs(v[1] * p.figure[1])

(* A workbook, a CSV file, a set of downloads and an archive hold every row *)
(* once and in order, however a section is split, in parts no two of which  *)
(* have one name (unless two runs of an archive have ids that begin alike); *)
(* a PDF, whose sections are not split, the first rows of each; JSON, in    *)
(* which a title is a key, the sections of different titles                 *)
(* ("covering every row ... never about dropping rows").                    *)
ReportHoldsEveryRow ==
  Answered({"report"}) /\ result.status = "PASS" =>
    LET parts == result.detail
        all   == RowsOf(task.sections)
    IN  CASE task.format = "EXCEL" ->
               /\ RowsOf(parts) = all
               /\ Distinct(Titles(parts)) /\ \A i \in DOMAIN parts : Len(parts[i].name) \in 1 .. Width
               /\ \A i \in DOMAIN parts : Len(parts[i].rows) <= SheetRows
          [] task.format = "PDF" ->
               RowsOf(parts) = Among(all, {row \in ToSet(all) : row[2] <= PdfRows})
          [] task.format = "BATCHES" ->
               /\ RowsOf(parts) = all
               /\ Distinct(Titles(task.sections)) /\ Len(task.sections) = 1 => Distinct(Titles(parts))
               /\ \A i \in DOMAIN parts : Len(parts[i].rows) <= BatchRows
          [] task.format = "CSV" -> RowsOf(parts) = all
          [] task.format = "JSON" -> Distinct(Titles(task.sections)) => RowsOf(parts) = all

ArchiveHoldsEveryRow ==
  Answered({"archive"}) =>
    LET files == result.detail
        runs  == task.runs
    IN  /\ HeadsDiffer(runs) =>
             Distinct([i \in DOMAIN files |-> <<files[i].folder, files[i].name>>])
        /\ RowsOf(files) = FlattenSeq([k \in DOMAIN runs |-> RowsOf(runs[k].sections)])

EveryRowIsExported == ReportHoldsEveryRow /\ ArchiveHoldsEveryRow

=============================================================================

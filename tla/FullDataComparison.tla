------------------------- MODULE FullDataComparison -------------------------
(***************************************************************************)
(* ComparisonEngine.compare: a source and a target frame are normalised,   *)
(* freed of duplicate business keys, merged on the key, compared column by *)
(* column, and the rows that differ are described chunk by chunk.          *)
(*                                                                         *)
(* A cell is a text, a number (of a numeric column, or a number held as a  *)
(* Python object in a column of mixed content) or NULL.  What the merge    *)
(* does to the type of a column is part of the model: pandas has no        *)
(* missing integer, so an integer column that receives a hole becomes a    *)
(* column of doubles.  The business key is a single object column, and     *)
(* the names of the columns already agree.                                 *)
(***************************************************************************)
EXTENDS Percentages, Sequences, FiniteSets, SequencesExt

CONSTANTS
  Keys,       \* cells of the business key column
  Columns,    \* names of the other columns
  Texts,      \* strings
  Numbers,    \* numbers
  NULL,       \* None, NaN
  Fold,       \* str.strip and str.upper as configured, on Texts
  MaxExact,   \* doubles hold every integer up to here (2^53)
  Inputs      \* bound: the frames extracted, and the configuration

Cell  == Texts \cup Numbers \cup {NULL}
Kinds == {"int", "float", "object"}

(* An integer that a double can hold, of those up to twice 2^53.            *)
Held(n) == n <= MaxExact \/ n % 2 = 0

(* One row: its key and its cells; one frame: its rows in order and the     *)
(* dtype of each of its columns.                                            *)
RowsOver(columns) == [key : Keys, cell : [columns -> Cell]]

IsFrame(f) ==
  /\ DOMAIN f.kind \subseteq Columns
  /\ f.kind \in [DOMAIN f.kind -> Kinds]
  /\ f.rows \in Seq(RowsOver(DOMAIN f.kind))
  /\ \A i \in DOMAIN f.rows, c \in DOMAIN f.kind :
       /\ f.kind[c] = "int" => f.rows[i].cell[c] \in Numbers
       /\ f.kind[c] = "float" => /\ f.rows[i].cell[c] \in Numbers \cup {NULL}
                                 /\ f.rows[i].cell[c] # NULL => Held(f.rows[i].cell[c])

(* fold: trim_strings or ignore_case is set; columns: compare_columns, NULL *)
(* for the columns in common.                                               *)
Config == [fold : BOOLEAN, dropDuplicates : BOOLEAN, nullsEqual : BOOLEAN,
           tolerance : Nat, chunk : Nat,
           columns : SUBSET Columns \cup {NULL}]

ASSUME CellsAssumption ==
  /\ Keys \subseteq Cell /\ NULL \in Keys
  /\ Numbers \subseteq 0 .. 2 * MaxExact
  /\ MaxExact \in Nat
  /\ Texts \cap (Nat \cup {NULL}) = {} /\ NULL \notin Nat
  /\ Fold \in [Texts -> Texts]
ASSUME FoldAssumption == \A t \in Texts : t \in Keys => Fold[t] \in Keys
ASSUME InputsAssumption ==
  \A in \in Inputs :
    IsFrame(in.source) /\ IsFrame(in.target) /\ in.config \in Config

VARIABLES
  config,          \* ComparisonConfig
  source, target,  \* the frames as extracted
  src, tgt,        \* the frames prepared, as tables (see Table)
  pc,              \* the next step of compare
  columns,         \* compare_cols
  left, right,     \* the two sides of the merged frame, as tables
  todo,            \* columns still to be compared
  equal,           \* equal_mask, a flag per key present on both sides
  start,           \* first mismatch row of the next chunk
  diff,            \* the mismatch frame: <<key, MISMATCHED_COLUMNS>>
  summary          \* result.summary

vars == <<config, source, target, src, tgt, pc, columns, left, right, todo,
          equal, start, diff, summary>>

-----------------------------------------------------------------------------
(* _prepare                                                                 *)

(* Series.str maps what is not a string to NULL.                            *)
StringMap(v) == IF v \in Texts THEN Fold[v] ELSE NULL

ObjectColumns(f) == {c \in DOMAIN f.kind : f.kind[c] = "object"}

KeyCells(f) == {f.rows[i].key : i \in DOMAIN f.rows}

CellsIn(f, c) == {f.rows[i].cell[c] : i \in DOMAIN f.rows}

(* Series.str refuses a column with values but no string among them.        *)
NoStrings(cells) == cells \ {NULL} # {} /\ cells \cap Texts = {}

FoldRaises(f) ==
  \/ NoStrings(KeyCells(f))
  \/ \E c \in ObjectColumns(f) : NoStrings(CellsIn(f, c))

FoldedCells(f, i) ==
  [c \in DOMAIN f.kind |->
     IF f.kind[c] = "object" THEN StringMap(f.rows[i].cell[c])
                             ELSE f.rows[i].cell[c]]

(* Mutant of Folded: the business key is left as it is.                     *)
FoldedButTheKey(f) ==
  [kind |-> f.kind,
   rows |-> [i \in DOMAIN f.rows |->
               [key |-> f.rows[i].key, cell |-> FoldedCells(f, i)]]]

Folded(f) ==
  [kind |-> f.kind,
   rows |-> [i \in DOMAIN f.rows |->
               [key |-> StringMap(f.rows[i].key), cell |-> FoldedCells(f, i)]]]

Normalised(f) == IF config.fold THEN Folded(f) ELSE f

(* duplicated(subset=business_keys, keep="first").                          *)
IsFirst(f, i) == \A j \in 1 .. i - 1 : f.rows[j].key # f.rows[i].key

(* Mutant of HasDuplicates: only rows equal in every column count.          *)
HasEqualRows(f) == \E i, j \in DOMAIN f.rows : i # j /\ f.rows[i] = f.rows[j]

HasDuplicates(f) == \E i \in DOMAIN f.rows : ~IsFirst(f, i)

(* A frame whose keys are unique: its columns by key.                       *)
Table(f) ==
  [kind |-> f.kind,
   cell |-> [k \in KeyCells(f) |->
               f.rows[CHOOSE i \in DOMAIN f.rows :
                        f.rows[i].key = k /\ IsFirst(f, i)].cell]]

Empty == [kind |-> [c \in {} |-> "object"], cell |-> [k \in {} |-> NULL]]

KeysOf(t)    == DOMAIN t.cell
ColumnsOf(t) == DOMAIN t.kind

Raises(f) ==
  \/ config.fold /\ FoldRaises(f)
  \/ HasDuplicates(Normalised(f)) /\ ~config.dropDuplicates

-----------------------------------------------------------------------------
(* The merged frame                                                         *)

(* Mutant of ToFloat: single precision.                                     *)
ToSingle(n) == IF n <= MaxExact \div 8 \/ n % 2 = 0 THEN n
               ELSE IF (n - 1) % 4 = 0 THEN n - 1 ELSE n + 1

(* The nearest double, ties to the even one.                                *)
ToFloat(n) == IF Held(n) THEN n
              ELSE IF (n - 1) % 4 = 0 THEN n - 1 ELSE n + 1

AsFloat(v) == IF v = NULL THEN NULL ELSE ToFloat(v)

(* The side of a merged frame that t becomes: a row of the other side       *)
(* without a partner leaves a hole in every column of t.                    *)
Merged(t, holes) ==
  IF ~holes THEN t
  ELSE [kind |-> [c \in ColumnsOf(t) |->
                    IF t.kind[c] = "int" THEN "float" ELSE t.kind[c]],
        cell |-> [k \in KeysOf(t) |-> [c \in ColumnsOf(t) |->
                    IF t.kind[c] = "int" THEN AsFloat(t.cell[k][c])
                                         ELSE t.cell[k][c]]]]

Both    == KeysOf(left) \cap KeysOf(right)
Missing == KeysOf(left) \ KeysOf(right)
Extra   == KeysOf(right) \ KeysOf(left)

Numeric == {"int", "float"}

Distance(m, n) == IF m < n THEN n - m ELSE m - n

(* _column_equal, for the row of key k.                                     *)
ColumnEqual(c, k) ==
  LET a == left.cell[k][c]
      b == right.cell[k][c]
      kinds == {left.kind[c], right.kind[c]}
  IN  IF a = NULL \/ b = NULL THEN a = b /\ config.nullsEqual
      ELSE IF "float" \in kinds /\ kinds \subseteq Numeric
             THEN Distance(ToFloat(a), ToFloat(b)) <= config.tolerance
             ELSE a = b

Matched    == {k \in Both : equal[k]}
Mismatched == {k \in Both : ~equal[k]}

-----------------------------------------------------------------------------
NoSummary == [matched |-> 0, mismatched |-> 0, missing |-> 0, extra |-> 0,
              status |-> "none"]

Init ==
  /\ \E in \in Inputs :
       config = in.config /\ source = in.source /\ target = in.target
  /\ src = Empty /\ tgt = Empty /\ left = Empty /\ right = Empty
  /\ pc = "source"
  /\ columns = {} /\ todo = {}
  /\ equal = [k \in {} |-> TRUE]
  /\ start = 0
  /\ diff = <<>>
  /\ summary = NoSummary

Raise == pc' = "raised" /\ UNCHANGED <<src, tgt, columns, left, right, todo,
                                       equal, start, diff, summary>>

(* _prepare(source).                                                        *)
PrepareSource ==
  /\ pc = "source"
  /\ \/ Raises(source) /\ Raise
     \/ /\ ~Raises(source)
        /\ src' = Table(Normalised(source))
        /\ pc' = "target"
        /\ UNCHANGED <<tgt, columns, left, right, todo, equal, start, diff,
                       summary>>
  /\ UNCHANGED <<config, source, target>>

(* _prepare(target).                                                        *)
PrepareTarget ==
  /\ pc = "target"
  /\ \/ Raises(target) /\ Raise
     \/ /\ ~Raises(target)
        /\ tgt' = Table(Normalised(target))
        /\ pc' = "columns"
        /\ UNCHANGED <<src, columns, left, right, todo, equal, start, diff,
                       summary>>
  /\ UNCHANGED <<config, source, target>>

(* _resolve_compare_columns.                                                *)
ResolveColumns ==
  LET common == ColumnsOf(src) \cap ColumnsOf(tgt)
      asked  == IF config.columns = NULL THEN common ELSE config.columns
  IN  /\ pc = "columns"
      /\ \/ ~(asked \subseteq common) /\ Raise
         \/ /\ asked \subseteq common
            /\ columns' = asked
            /\ pc' = "merge"
            /\ UNCHANGED <<src, tgt, left, right, todo, equal, start, diff,
                           summary>>
      /\ UNCHANGED <<config, source, target>>

(* Mutant of Merge: every column of the source is to be compared.           *)
MergeAllColumns ==
  /\ pc = "merge"
  /\ left' = Merged(src, KeysOf(tgt) \ KeysOf(src) # {})
  /\ right' = Merged(tgt, KeysOf(src) \ KeysOf(tgt) # {})
  /\ equal' = [k \in KeysOf(src) \cap KeysOf(tgt) |-> TRUE]
  /\ todo' = ColumnsOf(src)
  /\ pc' = "compare"
  /\ UNCHANGED <<config, source, target, src, tgt, columns, start, diff,
                 summary>>

(* The outer merge; equal_mask starts as all ones.                          *)
Merge ==
  /\ pc = "merge"
  /\ left' = Merged(src, KeysOf(tgt) \ KeysOf(src) # {})
  /\ right' = Merged(tgt, KeysOf(src) \ KeysOf(tgt) # {})
  /\ equal' = [k \in KeysOf(src) \cap KeysOf(tgt) |-> TRUE]
  /\ todo' = columns
  /\ pc' = "compare"
  /\ UNCHANGED <<config, source, target, src, tgt, columns, start, diff,
                 summary>>

(* One column of the loop: equal_mask &= _column_equal(s, t).               *)
CompareColumn(c) ==
  /\ pc = "compare"
  /\ c \in todo
  /\ equal' = [k \in Both |-> equal[k] /\ ColumnEqual(c, k)]
  /\ todo' = todo \ {c}
  /\ UNCHANGED <<config, source, target, src, tgt, pc, columns, left, right,
                 start, diff, summary>>

Split ==
  /\ pc = "compare"
  /\ todo = {}
  /\ pc' = "diff"
  /\ UNCHANGED <<config, source, target, src, tgt, columns, left, right, todo,
                 equal, start, diff, summary>>

MismatchRows == SetToSeq(Mismatched)

Described(k) == <<k, {c \in columns : ~ColumnEqual(c, k)}>>

(* Mutants of DiffChunk: a last chunk that is not full is left out; a chunk *)
(* size of zero is taken as it is.                                          *)
DiffChunkFullOnly ==
  LET n    == Len(MismatchRows)
      step == IF config.chunk > 1 THEN config.chunk ELSE 1
  IN  /\ pc = "diff"
      /\ start < n
      /\ diff' = IF start + step <= n
                   THEN diff \o [i \in 1 .. step |->
                                   Described(MismatchRows[start + i])]
                   ELSE diff
      /\ start' = start + step
      /\ UNCHANGED <<config, source, target, src, tgt, pc, columns, left,
                     right, todo, equal, summary>>

DiffChunkOfNothing ==
  LET n    == Len(MismatchRows)
      last == IF start + config.chunk <= n THEN start + config.chunk ELSE n
  IN  /\ pc = "diff"
      /\ start < n
      /\ diff' = diff \o [i \in 1 .. last - start |->
                            Described(MismatchRows[start + i])]
      /\ start' = start + config.chunk
      /\ UNCHANGED <<config, source, target, src, tgt, pc, columns, left,
                     right, todo, equal, summary>>

(* One chunk of _build_mismatch_frame, diff_chunk_size or at least one row. *)
DiffChunk ==
  LET n    == Len(MismatchRows)
      step == IF config.chunk > 1 THEN config.chunk ELSE 1
      last == IF start + step <= n THEN start + step ELSE n
  IN  /\ pc = "diff"
      /\ start < n
      /\ diff' = diff \o [i \in 1 .. last - start |->
                            Described(MismatchRows[start + i])]
      /\ start' = start + step
      /\ UNCHANGED <<config, source, target, src, tgt, pc, columns, left,
                     right, todo, equal, summary>>

Failed == Cardinality(Mismatched) + Cardinality(Missing) + Cardinality(Extra)

(* _build_summary, and is_passed on the success percentage.                 *)
Summarise ==
  /\ pc = "diff"
  /\ start >= Len(MismatchRows)
  /\ summary' =
       [matched |-> Cardinality(Matched),
        mismatched |-> Cardinality(Mismatched),
        missing |-> Cardinality(Missing), extra |-> Cardinality(Extra),
        status |-> IF FullDataPasses(Failed, Failed + Cardinality(Matched))
                     THEN "PASS" ELSE "FAIL"]
  /\ pc' = "done"
  /\ UNCHANGED <<config, source, target, src, tgt, columns, left, right, todo,
                 equal, start, diff>>

Next ==
  \/ PrepareSource \/ PrepareTarget \/ ResolveColumns \/ Merge
  \/ \E c \in todo : CompareColumn(c)
  \/ Split \/ DiffChunk \/ Summarise

Spec == Init /\ [][Next]_vars

(* compare is one call: nothing interrupts it.                              *)
FairSpec == Spec /\ WF_vars(Next)

-----------------------------------------------------------------------------
(* Properties                                                               *)

TypeOK ==
  /\ config \in Config /\ IsFrame(source) /\ IsFrame(target)
  /\ pc \in {"source", "target", "columns", "merge", "compare", "diff",
             "done", "raised"}
  /\ columns \subseteq Columns /\ todo \subseteq columns
  /\ \A t \in {src, tgt, left, right} :
       /\ KeysOf(t) \subseteq Keys /\ ColumnsOf(t) \subseteq Columns
       /\ t.kind \in [ColumnsOf(t) -> Kinds]
       /\ t.cell \in [KeysOf(t) -> [ColumnsOf(t) -> Texts \cup Nat \cup {NULL}]]
  /\ equal \in [DOMAIN equal -> BOOLEAN]
  /\ start \in Nat
  /\ diff \in Seq(Keys \X SUBSET Columns)
  /\ summary \in [matched : Nat, mismatched : Nat, missing : Nat, extra : Nat,
                  status : {"none", "PASS", "FAIL"}]

(* What the configuration asks for, said of the frames as extracted: two    *)
(* cells agree if they are equal once texts are folded, numbers of which    *)
(* one is a double if they are within the tolerance, NULLs if they count as *)
(* equal.                                                                   *)
Meant(v) == IF config.fold /\ v \in Texts THEN Fold[v] ELSE v

MeantKeys(f) == {Meant(k) : k \in KeyCells(f)}

FirstRow(f, k) ==
  f.rows[CHOOSE i \in DOMAIN f.rows :
           /\ Meant(f.rows[i].key) = k
           /\ \A j \in 1 .. i - 1 : Meant(f.rows[j].key) # k]

MeantEqual(c, k) ==
  LET a == FirstRow(source, k).cell[c]
      b == FirstRow(target, k).cell[c]
      kinds == {source.kind[c], target.kind[c]}
  IN  IF a = NULL \/ b = NULL THEN a = b /\ config.nullsEqual
      ELSE IF "float" \in kinds /\ kinds \subseteq Numeric
             THEN Distance(a, b) <= config.tolerance
             ELSE Meant(a) = Meant(b)

MeantMatch(k) == \A c \in columns : MeantEqual(c, k)

(* The comparisons that do what their configuration says: columns that are  *)
(* normalised hold strings only, doubles can hold the numbers, and no       *)
(* tolerance is asked of a column of whole numbers on both sides (a hole    *)
(* would turn it into one of doubles, and the tolerance apply).             *)
StringsOnly(f) ==
  /\ KeyCells(f) \subseteq Texts \cup {NULL}
  /\ \A c \in ObjectColumns(f) : CellsIn(f, c) \subseteq Texts \cup {NULL}

HeldNumbers(f) ==
  \A c \in DOMAIN f.kind : \A n \in CellsIn(f, c) \cap Numbers : Held(n)

NoWholeColumn(f, g) ==
  \A c \in DOMAIN f.kind \cap DOMAIN g.kind : ~(f.kind[c] = "int" /\ g.kind[c] = "int")

NothingIsLost ==
  /\ config.fold => StringsOnly(source) /\ StringsOnly(target)
  /\ HeldNumbers(source) /\ HeldNumbers(target)
  /\ config.tolerance = 0 \/ NoWholeColumn(source, target)

(* Every row is found on the sides it is on, and matched exactly when the   *)
(* configuration calls its cells equal: the rows the run reports as         *)
(* missing, extra, mismatched and matched are the ones that are.            *)
RowsAreJudgedAsMeant ==
  pc = "done" /\ NothingIsLost =>
    /\ KeysOf(left) = MeantKeys(source) /\ KeysOf(right) = MeantKeys(target)
    /\ Matched = {k \in MeantKeys(source) \cap MeantKeys(target) : MeantMatch(k)}

(* What a frame had, as extracted, in the row that stands for a key.        *)
ExtractedRow(f, k) ==
  f.rows[CHOOSE i \in DOMAIN f.rows :
           Normalised(f).rows[i].key = k /\ IsFirst(Normalised(f), i)]

(* Normalising an object column leaves nothing of v.                        *)
FoldedAway(f, c, v) == config.fold /\ f.kind[c] = "object" /\ v \notin Texts

(* Column c has doubles on one side: as extracted, or for a hole.           *)
ComesAsDoubles(c) ==
  \/ "float" \in {source.kind[c], target.kind[c]}
  \/ source.kind[c] = "int" /\ Extra # {}
  \/ target.kind[c] = "int" /\ Missing # {}

(* At tolerance 0 there are four reasons for a match and no others: the     *)
(* values are the same; they are texts that fold alike; there is nothing,   *)
(* or nothing left, on either side; or they are whole numbers next to each  *)
(* other beyond 2^53 that met as doubles.  Only the last departs from       *)
(* comparison_engine.py:84, "Absolute tolerance for float comparison (0.0 = *)
(* exact)", and only what is folded away from comparison_engine.py:80,      *)
(* "Trim leading/trailing whitespace on string columns before comparing".   *)
MatchesAreAccountedFor ==
  pc = "done" /\ config.tolerance = 0 =>
    \A k \in Matched, c \in columns :
      LET a == ExtractedRow(source, k).cell[c]
          b == ExtractedRow(target, k).cell[c]
      IN  \/ a = b /\ (a = NULL => config.nullsEqual)
          \/ config.fold /\ {a, b} \subseteq Texts /\ Fold[a] = Fold[b]
          \/ /\ config.nullsEqual
             /\ a = NULL \/ FoldedAway(source, c, a)
             /\ b = NULL \/ FoldedAway(target, c, b)
          \/ /\ {a, b} \subseteq Numbers /\ ~(Held(a) /\ Held(b))
             /\ Distance(a, b) <= 2 /\ ComesAsDoubles(c)

(* comparison_engine.py:80, "Trim leading/trailing whitespace on string     *)
(* columns before comparing": normalising strings makes no two values equal *)
(* that are not strings.                                                    *)
FoldingTouchesStringsOnly ==
  pc = "done" =>
    \A k \in Matched, c \in columns :
      LET a == FirstRow(source, k).cell[c]
          b == FirstRow(target, k).cell[c]
      IN  a = b \/ {a, b} \subseteq Texts

(* The mismatch frame, put together from its chunks, has one row for each   *)
(* mismatched key, and that row names the columns that differ, at least     *)
(* one.                                                                     *)
DiffDescribesMismatches ==
  pc = "done" =>
    /\ Len(diff) = summary.mismatched
    /\ {diff[i][1] : i \in DOMAIN diff} = Mismatched
    /\ \A i \in DOMAIN diff :
         /\ diff[i][2] # {}
         /\ \A c \in columns : c \in diff[i][2] <=> ~ColumnEqual(c, diff[i][1])

(* Unless dropping duplicates was asked for, no row disappears: the four    *)
(* counts account for every row extracted on either side.                   *)
EveryRowIsCounted ==
  pc = "done" /\ ~config.dropDuplicates =>
    /\ summary.matched + summary.mismatched + summary.missing
         = Len(source.rows)
    /\ summary.matched + summary.mismatched + summary.extra
         = Len(target.rows)

(* The comparison comes to an end, whatever the chunk size.                 *)
Terminates == <>(pc \in {"done", "raised"})

=============================================================================

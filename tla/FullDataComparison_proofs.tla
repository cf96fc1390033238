---------------------- MODULE FullDataComparison_proofs ----------------------
(***************************************************************************)
(* ComparisonEngine.compare for every pair of frames: of any number of     *)
(* rows and columns, under every configuration.                            *)
(***************************************************************************)
EXTENDS FullDataComparison, FiniteSetTheorems, SequenceTheorems, WellFoundedInduction,
        TLAPS

-----------------------------------------------------------------------------
(* NUMBERS AND SEQUENCES OF A SET                                           *)

LEMMA Smallest ==
  ASSUME NEW S, S \subseteq Nat, S # {}
  PROVE  \E m \in S : \A k \in S : m <= k
<1> DEFINE R == OpToRel(<, Nat)
<1>1. IsWellFoundedOn(R, Nat)
  BY NatLessThanWellFounded
<1>2. \A x, y \in Nat : x < y => <<x, y>> \in R
  BY DEF OpToRel
<1> HIDE DEF R
<1>3. PICK m \in S : \A y \in S : ~(<<y, m>> \in R)
  BY <1>1, WFMin
<1>4. ASSUME NEW k \in S PROVE m <= k
  <2>1. ~(k < m)
    BY <1>2, <1>3, <1>4, Zenon
  <2> QED BY <1>3, <1>4, <2>1
<1> QED BY <1>4

(* SetToSeq lists each member of a finite set once.                         *)
LEMMA SetToSeqLists ==
  ASSUME NEW S, IsFiniteSet(S)
  PROVE  /\ Cardinality(S) \in Nat
         /\ SetToSeq(S) \in [1 .. Cardinality(S) -> S]
         /\ Len(SetToSeq(S)) = Cardinality(S)
         /\ DOMAIN SetToSeq(S) = 1 .. Cardinality(S)
         /\ \A s \in S : \E i \in 1 .. Cardinality(S) : SetToSeq(S)[i] = s
         /\ \A i, j \in 1 .. Cardinality(S) : SetToSeq(S)[i] = SetToSeq(S)[j] => i = j
<1> DEFINE n == Cardinality(S)
           I == Injection(1 .. n, S)
           f == SetToSeq(S)
<1>1. n \in Nat /\ ExistsBijection(1 .. n, S)
  BY FS_CardinalityType
<1>2. PICK g : g \in Bijection(1 .. n, S)
  BY <1>1 DEF ExistsBijection
<1>3. g \in [1 .. n -> S] /\ IsInjective(g)
  BY <1>2 DEF Bijection, Injection
<1>4. f \in [1 .. n -> S] /\ IsInjective(f)
  BY <1>3 DEF SetToSeq
<1>5. f \in Injection(1 .. n, S)
  BY <1>4 DEF Injection
<1> HIDE DEF f
<1>6. IsFiniteSet(1 .. n) /\ Cardinality(1 .. n) = n
  BY <1>1, FS_Interval
<1>7. f \in Surjection(1 .. n, S)
  BY <1>5, <1>6, FS_Injection
<1>8. \A s \in S : \E i \in 1 .. n : f[i] = s
  BY <1>7 DEF Surjection
<1>9. \A i, j \in 1 .. n : f[i] = f[j] => i = j
  BY <1>4 DEF IsInjective
<1>10. Len(f) = n /\ DOMAIN f = 1 .. n
  BY <1>1, <1>4
<1> QED BY <1>1, <1>4, <1>8, <1>9, <1>10 DEF f

-----------------------------------------------------------------------------
(* FRAMES AND TABLES                                                        *)

(* A table as the comparison goes on with it: keys without duplicates, a    *)
(* cell of the right kind in every column.                                  *)
Values == Texts \cup Nat \cup {NULL}

IsTable(t) ==
  /\ IsFiniteSet(KeysOf(t)) /\ KeysOf(t) \subseteq Keys
  /\ ColumnsOf(t) \subseteq Columns
  /\ t.kind \in [ColumnsOf(t) -> Kinds]
  /\ t.cell \in [KeysOf(t) -> [ColumnsOf(t) -> Values]]
  /\ \A k \in KeysOf(t), c \in ColumnsOf(t) :
       /\ t.kind[c] = "int" => t.cell[k][c] \in Nat
       /\ t.kind[c] = "float" => t.cell[k][c] \in Nat \cup {NULL}

LEMMA CellsAreValues == Cell \subseteq Values /\ Numbers \subseteq Nat
<1>1. Numbers \subseteq Nat
  <2>1. 0 .. 2 * MaxExact \subseteq Nat
    BY CellsAssumption
  <2> QED BY <2>1, CellsAssumption, Zenon
<1> QED BY <1>1 DEF Cell, Values

LEMMA EmptyIsTable == IsTable(Empty)
<1>1. KeysOf(Empty) = {} /\ ColumnsOf(Empty) = {}
  BY DEF KeysOf, ColumnsOf, Empty
<1>2. IsFiniteSet({})
  BY FS_EmptySet
<1>3. Empty.kind = [c \in {} |-> "object"] /\ Empty.cell = [k \in {} |-> NULL]
  BY DEF Empty
<1> QED BY <1>1, <1>2, <1>3 DEF IsTable

LEMMA FrameShape ==
  ASSUME NEW f, IsFrame(f)
  PROVE  /\ Len(f.rows) \in Nat /\ DOMAIN f.rows = 1 .. Len(f.rows)
         /\ \A i \in DOMAIN f.rows :
              /\ f.rows[i].key \in Keys
              /\ f.rows[i].cell \in [DOMAIN f.kind -> Cell]
              /\ f.rows[i] = [key |-> f.rows[i].key, cell |-> f.rows[i].cell]
<1>1. f.rows \in Seq(RowsOver(DOMAIN f.kind))
  BY DEF IsFrame
<1>2. Len(f.rows) \in Nat /\ DOMAIN f.rows = 1 .. Len(f.rows)
      /\ \A i \in DOMAIN f.rows : f.rows[i] \in RowsOver(DOMAIN f.kind)
  BY <1>1
<1> QED BY <1>2 DEF RowsOver

LEMMA FoldedIsFrame ==
  ASSUME NEW f, IsFrame(f)
  PROVE  /\ IsFrame(Folded(f)) /\ Folded(f).kind = f.kind
         /\ Len(Folded(f).rows) = Len(f.rows)
         /\ \A i \in DOMAIN f.rows :
              /\ Folded(f).rows[i].key = StringMap(f.rows[i].key)
              /\ \A c \in DOMAIN f.kind :
                   Folded(f).rows[i].cell[c] =
                     IF f.kind[c] = "object" THEN StringMap(f.rows[i].cell[c])
                                             ELSE f.rows[i].cell[c]
<1> DEFINE g == Folded(f)
           n == Len(f.rows)
           K == DOMAIN f.kind
<1>1. n \in Nat /\ DOMAIN f.rows = 1 .. n
      /\ \A i \in 1 .. n : f.rows[i].key \in Keys /\ f.rows[i].cell \in [K -> Cell]
  BY FrameShape
<1>2. g.kind = f.kind
      /\ g.rows = [i \in 1 .. n |-> [key |-> StringMap(f.rows[i].key), cell |-> FoldedCells(f, i)]]
  BY <1>1 DEF Folded
<1>3. \A v \in Cell : StringMap(v) \in Cell
  BY CellsAssumption DEF StringMap, Cell
<1>4. \A v \in Keys : StringMap(v) \in Keys
  BY CellsAssumption, FoldAssumption DEF StringMap
<1>5. \A i \in 1 .. n : FoldedCells(f, i) \in [K -> Cell]
  BY <1>1, <1>3 DEF FoldedCells
<1>6. g.rows \in Seq(RowsOver(K))
  <2>1. \A i \in 1 .. n : [key |-> StringMap(f.rows[i].key), cell |-> FoldedCells(f, i)] \in RowsOver(K)
    BY <1>1, <1>4, <1>5 DEF RowsOver
  <2>2. g.rows \in [1 .. n -> RowsOver(K)]
    BY <1>2, <2>1
  <2> HIDE DEF g
  <2> QED BY <1>1, <2>2
<1>7. Len(g.rows) = n /\ DOMAIN g.rows = 1 .. n
  BY <1>1, <1>2
<1>8. \A i \in 1 .. n :
        /\ g.rows[i].key = StringMap(f.rows[i].key)
        /\ \A c \in K : g.rows[i].cell[c] = IF f.kind[c] = "object" THEN StringMap(f.rows[i].cell[c])
                                                                   ELSE f.rows[i].cell[c]
  BY <1>2 DEF FoldedCells
<1> HIDE DEF g
<1>9. \A i \in DOMAIN g.rows, c \in K :
        /\ g.kind[c] = "int" => g.rows[i].cell[c] \in Numbers
        /\ g.kind[c] = "float" => /\ g.rows[i].cell[c] \in Numbers \cup {NULL}
                                  /\ g.rows[i].cell[c] # NULL => Held(g.rows[i].cell[c])
  BY <1>1, <1>2, <1>7, <1>8 DEF IsFrame
<1>10. IsFrame(g)
  BY <1>2, <1>6, <1>9 DEF IsFrame
<1> QED BY <1>1, <1>2, <1>7, <1>8, <1>10 DEF g

LEMMA NormalisedIsFrame ==
  ASSUME NEW f, IsFrame(f)
  PROVE  /\ IsFrame(Normalised(f)) /\ Normalised(f).kind = f.kind
         /\ Len(Normalised(f).rows) = Len(f.rows)
BY FoldedIsFrame DEF Normalised

(* Of the rows with one key exactly one is the first.                       *)
LEMMA FirstRowOfKey ==
  ASSUME NEW f, IsFrame(f), NEW k \in KeyCells(f)
  PROVE  \E i \in DOMAIN f.rows :
           /\ f.rows[i].key = k /\ IsFirst(f, i)
           /\ \A j \in DOMAIN f.rows : f.rows[j].key = k /\ IsFirst(f, j) => j = i
<1> DEFINE n == Len(f.rows)
           S == {i \in 1 .. n : f.rows[i].key = k}
<1>1. n \in Nat /\ DOMAIN f.rows = 1 .. n
  BY FrameShape
<1>2. S \subseteq Nat /\ S # {}
  BY <1>1 DEF KeyCells
<1>3. PICK i \in S : \A j \in S : i <= j
  <2> HIDE DEF S
  <2> QED BY <1>2, Smallest
<1>4. i \in 1 .. n /\ f.rows[i].key = k
  BY <1>3
<1>5. IsFirst(f, i)
  <2> SUFFICES ASSUME NEW j \in 1 .. i - 1, f.rows[j].key = f.rows[i].key PROVE FALSE
    BY DEF IsFirst
  <2>1. j \in 1 .. n /\ j < i
    BY <1>1, <1>4
  <2>2. j \in S
    BY <1>4, <2>1
  <2> QED BY <1>1, <1>3, <1>4, <2>1, <2>2
<1>6. ASSUME NEW j \in 1 .. n, f.rows[j].key = k, IsFirst(f, j) PROVE j = i
  <2>1. i <= j
    BY <1>3, <1>6
  <2>2. ~(i < j)
    <3> SUFFICES ASSUME i < j PROVE FALSE
      OBVIOUS
    <3>1. i \in 1 .. j - 1
      BY <1>1, <1>4
    <3> QED BY <1>4, <1>6, <3>1 DEF IsFirst
  <2> QED BY <1>1, <1>4, <2>1, <2>2
<1> QED BY <1>1, <1>4, <1>5, <1>6

(* The keys of a frame are finitely many, and as many as its rows if no two *)
(* rows have one key.                                                       *)
LEMMA KeyCellsFinite ==
  ASSUME NEW f, IsFrame(f)
  PROVE  /\ IsFiniteSet(KeyCells(f)) /\ KeyCells(f) \subseteq Keys
         /\ ~HasDuplicates(f) => Cardinality(KeyCells(f)) = Len(f.rows)
<1> DEFINE n == Len(f.rows)
           g == [i \in 1 .. n |-> f.rows[i].key]
<1>1. n \in Nat /\ DOMAIN f.rows = 1 .. n /\ \A i \in 1 .. n : f.rows[i].key \in Keys
  BY FrameShape
<1>2. g \in Surjection(1 .. n, KeyCells(f))
  BY <1>1 DEF KeyCells, Surjection
<1>3. IsFiniteSet(1 .. n) /\ Cardinality(1 .. n) = n
  <2>1. n \in Nat
    BY <1>1
  <2> HIDE DEF n
  <2> QED BY <2>1, FS_Interval
<1>4. IsFiniteSet(KeyCells(f))
      /\ (Cardinality(KeyCells(f)) = Cardinality(1 .. n) <=> g \in Injection(1 .. n, KeyCells(f)))
  <2> HIDE DEF g
  <2> QED BY <1>2, <1>3, FS_Surjection
<1>5. ASSUME ~HasDuplicates(f) PROVE g \in Injection(1 .. n, KeyCells(f))
  <2>1. \A i \in 1 .. n : IsFirst(f, i)
    BY <1>1, <1>5 DEF HasDuplicates
  <2>2. ASSUME NEW i \in 1 .. n, NEW j \in 1 .. n, i < j PROVE f.rows[i].key # f.rows[j].key
    <3>1. i \in 1 .. j - 1
      BY <1>1, <2>2
    <3> QED BY <2>1, <3>1 DEF IsFirst
  <2>3. \A i, j \in 1 .. n : g[i] = g[j] => i = j
    <3> SUFFICES ASSUME NEW i \in 1 .. n, NEW j \in 1 .. n, i # j PROVE g[i] # g[j]
      OBVIOUS
    <3>1. i < j \/ j < i
      BY <1>1
    <3> QED BY <2>2, <3>1
  <2>4. g \in [1 .. n -> KeyCells(f)]
    BY <1>2 DEF Surjection
  <2> HIDE DEF g
  <2> QED BY <2>3, <2>4 DEF Injection, IsInjective
<1>6. KeyCells(f) \subseteq Keys
  BY <1>1 DEF KeyCells
<1> QED BY <1>3, <1>4, <1>5, <1>6

LEMMA TableIsTable ==
  ASSUME NEW f, IsFrame(f)
  PROVE  /\ IsTable(Table(f))
         /\ KeysOf(Table(f)) = KeyCells(f)
         /\ ColumnsOf(Table(f)) = DOMAIN f.kind /\ Table(f).kind = f.kind
         /\ \A i \in DOMAIN f.rows :
              IsFirst(f, i) => Table(f).cell[f.rows[i].key] = f.rows[i].cell
<1> DEFINE t == Table(f)
           K == DOMAIN f.kind
           row(k) == CHOOSE i \in DOMAIN f.rows : f.rows[i].key = k /\ IsFirst(f, i)
<1>1. t.kind = f.kind /\ t.cell = [k \in KeyCells(f) |-> f.rows[row(k)].cell]
  BY DEF Table
<1>2. ASSUME NEW k \in KeyCells(f)
      PROVE  /\ row(k) \in DOMAIN f.rows /\ f.rows[row(k)].key = k
             /\ \A i \in DOMAIN f.rows : f.rows[i].key = k /\ IsFirst(f, i) => i = row(k)
  <2>1. PICK i \in DOMAIN f.rows :
           /\ f.rows[i].key = k /\ IsFirst(f, i)
           /\ \A j \in DOMAIN f.rows : f.rows[j].key = k /\ IsFirst(f, j) => j = i
    BY <1>2, FirstRowOfKey
  <2>2. row(k) \in DOMAIN f.rows /\ f.rows[row(k)].key = k /\ IsFirst(f, row(k))
    BY <2>1
  <2> HIDE DEF row
  <2> QED BY <2>1, <2>2
<1>3. \A i \in DOMAIN f.rows : f.rows[i].cell \in [K -> Cell]
  BY FrameShape
<1> HIDE DEF row, t
<1>4. KeysOf(t) = KeyCells(f) /\ ColumnsOf(t) = K
  BY <1>1 DEF KeysOf, ColumnsOf
<1>5. \A k \in KeyCells(f) : t.cell[k] = f.rows[row(k)].cell /\ t.cell[k] \in [K -> Cell]
  BY <1>1, <1>2, <1>3
<1>6. \A i \in DOMAIN f.rows : IsFirst(f, i) => t.cell[f.rows[i].key] = f.rows[i].cell
  BY <1>2, <1>5 DEF KeyCells
<1>7. K \subseteq Columns /\ f.kind \in [K -> Kinds]
      /\ \A i \in DOMAIN f.rows, c \in K :
           /\ f.kind[c] = "int" => f.rows[i].cell[c] \in Numbers
           /\ f.kind[c] = "float" => f.rows[i].cell[c] \in Numbers \cup {NULL}
  BY DEF IsFrame
<1>8. ASSUME NEW k \in KeyCells(f), NEW c \in K
      PROVE  /\ t.kind[c] = "int" => t.cell[k][c] \in Nat
             /\ t.kind[c] = "float" => t.cell[k][c] \in Nat \cup {NULL}
  <2> DEFINE i == row(k)
  <2>1. i \in DOMAIN f.rows /\ t.cell[k][c] = f.rows[i].cell[c] /\ t.kind[c] = f.kind[c]
    BY <1>1, <1>2, <1>5
  <2> HIDE DEF i
  <2> QED BY <1>7, <2>1, CellsAreValues
<1>9. t.cell \in [KeyCells(f) -> [K -> Values]]
  <2>1. \A k \in KeyCells(f) : t.cell[k] \in [K -> Values]
    BY <1>5, CellsAreValues
  <2> QED BY <1>1, <2>1
<1>10. IsTable(t)
  BY <1>1, <1>4, <1>7, <1>8, <1>9, KeyCellsFinite DEF IsTable
<1> QED BY <1>1, <1>4, <1>6, <1>10 DEF t

LEMMA ToFloatOfNat ==
  ASSUME NEW n \in Nat
  PROVE  ToFloat(n) \in Nat /\ (Held(n) => ToFloat(n) = n)
<1>1. n # 0 \/ n <= MaxExact
  BY CellsAssumption
<1> QED BY <1>1, CellsAssumption DEF ToFloat, Held

(* A side of the merged frame is a table of the same keys and columns;      *)
(* only a column of whole numbers changes, and only if there are holes.     *)
LEMMA MergedIsTable ==
  ASSUME NEW t, IsTable(t), NEW h \in BOOLEAN
  PROVE  /\ IsTable(Merged(t, h))
         /\ KeysOf(Merged(t, h)) = KeysOf(t) /\ ColumnsOf(Merged(t, h)) = ColumnsOf(t)
         /\ \A c \in ColumnsOf(t) :
              Merged(t, h).kind[c] = IF h /\ t.kind[c] = "int" THEN "float" ELSE t.kind[c]
         /\ \A k \in KeysOf(t), c \in ColumnsOf(t) :
              Merged(t, h).cell[k][c] =
                IF h /\ t.kind[c] = "int" THEN ToFloat(t.cell[k][c]) ELSE t.cell[k][c]
<1> DEFINE m == Merged(t, h)
           C == ColumnsOf(t)
<1>1. CASE ~h
  BY <1>1 DEF Merged
<1>2. CASE h
  <2>1. /\ m.kind = [c \in C |-> IF t.kind[c] = "int" THEN "float" ELSE t.kind[c]]
        /\ m.cell = [k \in KeysOf(t) |-> [c \in C |->
              IF t.kind[c] = "int" THEN AsFloat(t.cell[k][c]) ELSE t.cell[k][c]]]
    BY <1>2 DEF Merged
  <2>2. \A k \in KeysOf(t), c \in C :
          t.kind[c] = "int" => /\ t.cell[k][c] \in Nat
                               /\ AsFloat(t.cell[k][c]) = ToFloat(t.cell[k][c])
                               /\ ToFloat(t.cell[k][c]) \in Nat
    BY ToFloatOfNat, CellsAssumption DEF IsTable, AsFloat
  <2> HIDE DEF m
  <2>3. KeysOf(m) = KeysOf(t) /\ ColumnsOf(m) = C
    BY <2>1 DEF KeysOf, ColumnsOf
  <2>4. \A c \in C : m.kind[c] = IF t.kind[c] = "int" THEN "float" ELSE t.kind[c]
    BY <2>1
  <2>5. \A k \in KeysOf(t), c \in C :
          m.cell[k][c] = IF t.kind[c] = "int" THEN ToFloat(t.cell[k][c]) ELSE t.cell[k][c]
    BY <2>1, <2>2
  <2>6. m.kind \in [C -> Kinds]
    BY <2>1 DEF IsTable, Kinds
  <2>7. m.cell \in [KeysOf(t) -> [C -> Values]]
    <3>1. \A k \in KeysOf(t), c \in C : t.cell[k][c] \in Values
      BY DEF IsTable
    <3>2. \A k \in KeysOf(t), c \in C :
            (IF t.kind[c] = "int" THEN AsFloat(t.cell[k][c]) ELSE t.cell[k][c]) \in Values
      BY <2>2, <3>1 DEF Values
    <3> QED BY <2>1, <3>2
  <2>8. \A k \in KeysOf(t), c \in C :
          /\ m.kind[c] = "int" => m.cell[k][c] \in Nat
          /\ m.kind[c] = "float" => m.cell[k][c] \in Nat \cup {NULL}
    BY <2>2, <2>4, <2>5 DEF IsTable
  <2>9. IsTable(m)
    BY <2>3, <2>6, <2>7, <2>8 DEF IsTable
  <2> QED BY <1>2, <2>3, <2>4, <2>5, <2>9 DEF m
<1> QED BY <1>1, <1>2

-----------------------------------------------------------------------------
(* THE INVARIANT                                                            *)

Phases == {"source", "target", "columns", "merge", "compare", "diff", "done",
           "raised"}

Typed ==
  /\ \E in \in Inputs :
       config = in.config /\ source = in.source /\ target = in.target
  /\ pc \in Phases
  /\ IsTable(src) /\ IsTable(tgt) /\ IsTable(left) /\ IsTable(right)
  /\ columns \subseteq Columns /\ todo \subseteq columns
  /\ equal \in [DOMAIN equal -> BOOLEAN]
  /\ start \in Nat
  /\ diff \in Seq(Keys \X SUBSET Columns)
  /\ summary \in [matched : Nat, mismatched : Nat, missing : Nat, extra : Nat,
                  status : {"none", "PASS", "FAIL"}]

(* What each step has left for the ones after it: the tables are those of   *)
(* the frames, ...                                                          *)
Prepared ==
  /\ pc \notin {"source", "raised"} =>
       ~Raises(source) /\ src = Table(Normalised(source))
  /\ pc \notin {"source", "target", "raised"} =>
       ~Raises(target) /\ tgt = Table(Normalised(target))
  /\ pc \notin {"source", "target", "columns", "raised"} =>
       columns \subseteq ColumnsOf(src) \cap ColumnsOf(tgt)

(* ... the mask holds the verdict on the columns compared so far, ...       *)
Masked ==
  /\ pc # "compare" => todo = {}
  /\ pc \in {"compare", "diff", "done"} =>
       /\ left = Merged(src, KeysOf(tgt) \ KeysOf(src) # {})
       /\ right = Merged(tgt, KeysOf(src) \ KeysOf(tgt) # {})
       /\ DOMAIN equal = Both
       /\ \A k \in Both :
            equal[k] <=> \A c \in columns : c \in todo \/ ColumnEqual(c, k)

(* ... and the chunks written so far are a prefix of the mismatched rows.   *)
Chunked ==
  /\ pc \notin {"diff", "done"} => start = 0 /\ diff = <<>>
  /\ pc \in {"diff", "done"} =>
       /\ Len(diff) = IF start <= Len(MismatchRows) THEN start
                                                    ELSE Len(MismatchRows)
       /\ \A i \in DOMAIN diff : diff[i] = Described(MismatchRows[i])
  /\ pc = "done" =>
       /\ start >= Len(MismatchRows)
       /\ summary.matched = Cardinality(Matched)
       /\ summary.mismatched = Cardinality(Mismatched)
       /\ summary.missing = Cardinality(Missing)
       /\ summary.extra = Cardinality(Extra)

ComparisonInv == Typed /\ Prepared /\ Masked /\ Chunked

LEMMA FramesExtracted ==
  ASSUME Typed
  PROVE  IsFrame(source) /\ IsFrame(target) /\ config \in Config
BY InputsAssumption DEF Typed

LEMMA FramesKept ==
  ASSUME UNCHANGED <<config, source, target>>
  PROVE  /\ Raises(source)' = Raises(source) /\ Normalised(source)' = Normalised(source)
         /\ Raises(target)' = Raises(target) /\ Normalised(target)' = Normalised(target)
BY DEF Raises, Normalised

LEMMA VerdictsKept ==
  ASSUME UNCHANGED <<config, left, right>>
  PROVE  /\ Both' = Both /\ Missing' = Missing /\ Extra' = Extra
         /\ \A c, k : ColumnEqual(c, k)' = ColumnEqual(c, k)
BY DEF Both, Missing, Extra, ColumnEqual

LEMMA ReportKept ==
  ASSUME UNCHANGED <<config, left, right, columns, equal>>
  PROVE  /\ Matched' = Matched /\ Mismatched' = Mismatched
         /\ MismatchRows' = MismatchRows
         /\ \A k : Described(k)' = Described(k)
BY VerdictsKept DEF Matched, Mismatched, MismatchRows, Described

(* The rows to be described: each mismatched key once.                      *)
LEMMA Listed ==
  ASSUME Typed, Masked, pc \in {"compare", "diff", "done"}
  PROVE  /\ IsFiniteSet(Both) /\ IsFiniteSet(Mismatched) /\ IsFiniteSet(Matched)
         /\ IsFiniteSet(Missing) /\ IsFiniteSet(Extra)
         /\ Both \subseteq Keys /\ Mismatched \subseteq Both
         /\ Len(MismatchRows) = Cardinality(Mismatched) /\ Len(MismatchRows) \in Nat
         /\ MismatchRows \in [1 .. Len(MismatchRows) -> Mismatched]
         /\ \A k \in Mismatched : \E i \in 1 .. Len(MismatchRows) : MismatchRows[i] = k
         /\ \A k \in Mismatched : Described(k) \in Keys \X SUBSET Columns
<1>1. IsFiniteSet(KeysOf(left)) /\ IsFiniteSet(KeysOf(right)) /\ KeysOf(left) \subseteq Keys
  BY DEF Typed, IsTable
<1>2. /\ Both \subseteq KeysOf(left) /\ Missing \subseteq KeysOf(left) /\ Extra \subseteq KeysOf(right)
      /\ Mismatched \subseteq Both /\ Matched \subseteq Both
  BY DEF Both, Missing, Extra, Mismatched, Matched
<1>3. IsFiniteSet(Both) /\ IsFiniteSet(Missing) /\ IsFiniteSet(Extra)
  BY <1>1, <1>2, FS_Subset
<1>4. IsFiniteSet(Mismatched) /\ IsFiniteSet(Matched)
  BY <1>2, <1>3, FS_Subset
<1>5. \A k \in Mismatched : Described(k) \in Keys \X SUBSET Columns
  BY <1>1, <1>2 DEF Described, Typed
<1> QED BY <1>1, <1>2, <1>3, <1>4, <1>5, SetToSeqLists DEF MismatchRows

LEMMA InitInv == Init => ComparisonInv
<1> SUFFICES ASSUME Init PROVE ComparisonInv
  OBVIOUS
<1> USE DEF Init
<1>1. Typed
  <2>1. IsTable(src) /\ IsTable(tgt) /\ IsTable(left) /\ IsTable(right)
    BY EmptyIsTable
  <2>2. equal \in [DOMAIN equal -> BOOLEAN] /\ diff \in Seq(Keys \X SUBSET Columns)
    OBVIOUS
  <2> QED BY <2>1, <2>2 DEF Typed, Phases, NoSummary
<1> QED BY <1>1 DEF ComparisonInv, Prepared, Masked, Chunked

LEMMA RaiseInv ==
  ASSUME ComparisonInv, Raise, UNCHANGED <<config, source, target>>,
         pc \in {"source", "target", "columns"}
  PROVE  ComparisonInv'
<1>1. Typed'
  BY DEF ComparisonInv, Typed, Raise, Phases
<1> QED BY <1>1 DEF ComparisonInv, Prepared, Masked, Chunked, Raise

LEMMA PrepareSourceInv == ComparisonInv /\ PrepareSource => ComparisonInv'
<1> SUFFICES ASSUME ComparisonInv, PrepareSource PROVE ComparisonInv'
  OBVIOUS
<1>1. CASE Raise
  BY <1>1, RaiseInv DEF PrepareSource
<1>2. CASE ~Raises(source) /\ src' = Table(Normalised(source)) /\ pc' = "target"
           /\ UNCHANGED <<tgt, columns, left, right, todo, equal, start, diff, summary>>
  <2>1. UNCHANGED <<config, source, target>> /\ pc = "source"
    BY DEF PrepareSource
  <2>2. IsTable(src')
    BY <1>2, FramesExtracted, NormalisedIsFrame, TableIsTable DEF ComparisonInv
  <2>3. Typed'
    BY <1>2, <2>1, <2>2 DEF ComparisonInv, Typed, Phases
  <2>4. Prepared'
    BY <1>2, <2>1, FramesKept DEF Prepared
  <2> QED BY <1>2, <2>1, <2>3, <2>4 DEF ComparisonInv, Masked, Chunked
<1> QED BY <1>1, <1>2 DEF PrepareSource

LEMMA PrepareTargetInv == ComparisonInv /\ PrepareTarget => ComparisonInv'
<1> SUFFICES ASSUME ComparisonInv, PrepareTarget PROVE ComparisonInv'
  OBVIOUS
<1>1. CASE Raise
  BY <1>1, RaiseInv DEF PrepareTarget
<1>2. CASE ~Raises(target) /\ tgt' = Table(Normalised(target)) /\ pc' = "columns"
           /\ UNCHANGED <<src, columns, left, right, todo, equal, start, diff, summary>>
  <2>1. UNCHANGED <<config, source, target>> /\ pc = "target"
    BY DEF PrepareTarget
  <2>2. IsTable(tgt')
    BY <1>2, FramesExtracted, NormalisedIsFrame, TableIsTable DEF ComparisonInv
  <2>3. Typed'
    BY <1>2, <2>1, <2>2 DEF ComparisonInv, Typed, Phases
  <2>4. Prepared'
    BY <1>2, <2>1, FramesKept DEF ComparisonInv, Prepared
  <2> QED BY <1>2, <2>1, <2>3, <2>4 DEF ComparisonInv, Masked, Chunked
<1> QED BY <1>1, <1>2 DEF PrepareTarget

LEMMA ResolveColumnsInv == ComparisonInv /\ ResolveColumns => ComparisonInv'
<1> SUFFICES ASSUME ComparisonInv, ResolveColumns PROVE ComparisonInv'
  OBVIOUS
<1>1. CASE Raise
  BY <1>1, RaiseInv DEF ResolveColumns
<1>2. CASE ~Raise
  <2>1. /\ UNCHANGED <<config, source, target, src, tgt, left, right, todo, equal,
                       start, diff, summary>>
        /\ pc = "columns" /\ pc' = "merge"
        /\ columns' \subseteq ColumnsOf(src) \cap ColumnsOf(tgt)
    BY <1>2 DEF ResolveColumns
  <2>2. Typed'
    <3>1. columns' \subseteq Columns /\ todo' \subseteq columns'
      BY <2>1 DEF ComparisonInv, Typed, Masked, IsTable
    <3> QED BY <2>1, <3>1 DEF ComparisonInv, Typed, Phases
  <2>3. Prepared'
    BY <2>1, FramesKept DEF ComparisonInv, Prepared
  <2> QED BY <2>1, <2>2, <2>3 DEF ComparisonInv, Masked, Chunked
<1> QED BY <1>1, <1>2

LEMMA MergeInv == ComparisonInv /\ Merge => ComparisonInv'
<1> SUFFICES ASSUME ComparisonInv, Merge PROVE ComparisonInv'
  OBVIOUS
<1>1. /\ UNCHANGED <<config, source, target, src, tgt, columns, start, diff, summary>>
      /\ pc = "merge" /\ pc' = "compare" /\ todo' = columns
      /\ left' = Merged(src, KeysOf(tgt) \ KeysOf(src) # {})
      /\ right' = Merged(tgt, KeysOf(src) \ KeysOf(tgt) # {})
      /\ equal' = [k \in KeysOf(src) \cap KeysOf(tgt) |-> TRUE]
  BY DEF Merge
<1>2. /\ IsTable(left') /\ KeysOf(left') = KeysOf(src)
      /\ IsTable(right') /\ KeysOf(right') = KeysOf(tgt)
  BY <1>1, MergedIsTable DEF ComparisonInv, Typed
<1>3. Typed'
  BY <1>1, <1>2 DEF ComparisonInv, Typed, Phases
<1>4. Prepared'
  BY <1>1, FramesKept DEF ComparisonInv, Prepared
<1>5. Masked'
  <2>1. Both' = KeysOf(src) \cap KeysOf(tgt)
    BY <1>2 DEF Both, KeysOf
  <2> QED BY <1>1, <2>1 DEF Masked
<1>6. Chunked'
  BY <1>1 DEF ComparisonInv, Chunked
<1> QED BY <1>3, <1>4, <1>5, <1>6 DEF ComparisonInv

LEMMA CompareColumnInv ==
  ComparisonInv /\ (\E c \in todo : CompareColumn(c)) => ComparisonInv'
<1> SUFFICES ASSUME ComparisonInv, NEW c \in todo, CompareColumn(c) PROVE ComparisonInv'
  OBVIOUS
<1>1. /\ UNCHANGED <<config, source, target, src, tgt, pc, columns, left, right,
                     start, diff, summary>>
      /\ pc = "compare" /\ todo' = todo \ {c}
      /\ equal' = [k \in Both |-> equal[k] /\ ColumnEqual(c, k)]
  BY DEF CompareColumn
<1>2. Both' = Both /\ \A d, k : ColumnEqual(d, k)' = ColumnEqual(d, k)
  BY <1>1, VerdictsKept
<1>3. Typed'
  <2>1. equal' \in [DOMAIN equal' -> BOOLEAN]
    BY <1>1
  <2> QED BY <1>1, <2>1 DEF ComparisonInv, Typed
<1>4. Prepared'
  BY <1>1, FramesKept DEF ComparisonInv, Prepared
<1>5. Masked'
  <2>1. \A k \in Both : equal[k] <=> \A d \in columns : d \in todo \/ ColumnEqual(d, k)
    BY <1>1 DEF ComparisonInv, Masked
  <2>2. \A k \in Both : equal'[k] <=> equal[k] /\ ColumnEqual(c, k)
    BY <1>1
  <2>3. c \in columns
    BY DEF ComparisonInv, Typed
  <2>4. \A k \in Both : equal'[k] <=> \A d \in columns : d \in todo' \/ ColumnEqual(d, k)
    BY <1>1, <2>1, <2>2, <2>3, Zenon
  <2>5. \A k \in Both' : equal'[k] <=> \A d \in columns' : d \in todo' \/ ColumnEqual(d, k)'
    BY <1>1, <1>2, <2>4
  <2>6. DOMAIN equal' = Both'
    BY <1>1, <1>2
  <2> QED BY <1>1, <2>5, <2>6 DEF ComparisonInv, Masked
<1>6. Chunked'
  BY <1>1 DEF ComparisonInv, Chunked
<1> QED BY <1>3, <1>4, <1>5, <1>6 DEF ComparisonInv

(* Nothing the mask depends on changes once the columns are compared.       *)
LEMMA MaskKept ==
  ASSUME ComparisonInv, pc \in {"compare", "diff"}, pc' \in {"diff", "done"}, todo = {},
         UNCHANGED <<config, source, target, src, tgt, columns, left, right, todo, equal>>
  PROVE  Prepared' /\ Masked'
<1>1. Prepared'
  BY FramesKept DEF ComparisonInv, Prepared
<1>2. Masked'
  <2>1. \A k \in Both' : equal'[k] <=> \A c \in columns' : c \in todo' \/ ColumnEqual(c, k)'
    BY VerdictsKept DEF ComparisonInv, Masked
  <2>2. DOMAIN equal' = Both'
    BY VerdictsKept DEF ComparisonInv, Masked
  <2> QED BY <2>1, <2>2 DEF ComparisonInv, Masked
<1> QED BY <1>1, <1>2

LEMMA SplitInv == ComparisonInv /\ Split => ComparisonInv'
<1> SUFFICES ASSUME ComparisonInv, Split PROVE ComparisonInv'
  OBVIOUS
<1>1. /\ UNCHANGED <<config, source, target, src, tgt, columns, left, right, todo,
                     equal, start, diff, summary>>
      /\ pc = "compare" /\ pc' = "diff" /\ todo = {}
  BY DEF Split
<1>2. Typed'
  BY <1>1 DEF ComparisonInv, Typed, Phases
<1>3. Chunked'
  <2>1. start = 0 /\ diff = <<>>
    BY <1>1 DEF ComparisonInv, Chunked
  <2>2. Len(MismatchRows) \in Nat /\ MismatchRows' = MismatchRows
    BY <1>1, Listed, ReportKept DEF ComparisonInv
  <2> QED BY <1>1, <2>1, <2>2 DEF Chunked
<1> QED BY <1>1, <1>2, <1>3, MaskKept DEF ComparisonInv

LEMMA DiffChunkInv == ComparisonInv /\ DiffChunk => ComparisonInv'
<1> SUFFICES ASSUME ComparisonInv, DiffChunk PROVE ComparisonInv'
  OBVIOUS
<1> DEFINE n == Len(MismatchRows)
           step == IF config.chunk > 1 THEN config.chunk ELSE 1
           last == IF start + step <= n THEN start + step ELSE n
           chunk == [i \in 1 .. last - start |-> Described(MismatchRows[start + i])]
<1>1. /\ UNCHANGED <<config, source, target, src, tgt, pc, columns, left, right, todo,
                     equal, summary>>
      /\ pc = "diff" /\ start < n
      /\ diff' = diff \o chunk /\ start' = start + step
  BY DEF DiffChunk
<1>2. /\ n \in Nat /\ MismatchRows \in [1 .. n -> Mismatched]
      /\ \A k \in Mismatched : Described(k) \in Keys \X SUBSET Columns
  BY <1>1, Listed DEF ComparisonInv
<1>3. step \in Nat /\ step >= 1 /\ start \in Nat
  BY FramesExtracted DEF ComparisonInv, Typed, Config
<1>4. /\ diff \in Seq(Keys \X SUBSET Columns) /\ Len(diff) = start
      /\ \A i \in 1 .. start : diff[i] = Described(MismatchRows[i])
  <2>1. diff \in Seq(Keys \X SUBSET Columns)
    BY DEF ComparisonInv, Typed
  <2>2. Len(diff) = start
    BY <1>1, <1>2, <1>3 DEF ComparisonInv, Chunked
  <2> QED BY <1>1, <2>1, <2>2 DEF ComparisonInv, Chunked
<1>5. /\ MismatchRows' = MismatchRows
      /\ \A k : Described(k)' = Described(k)
  BY <1>1, ReportKept
<1> HIDE DEF n, step
<1>6. last \in Nat /\ start < last /\ last <= n /\ last - start \in Nat
  BY <1>1, <1>2, <1>3
<1> HIDE DEF last
<1>7. /\ chunk \in Seq(Keys \X SUBSET Columns) /\ Len(chunk) = last - start
      /\ \A i \in 1 .. last - start : chunk[i] = Described(MismatchRows[start + i])
  <2>1. \A i \in 1 .. last - start : Described(MismatchRows[start + i]) \in Keys \X SUBSET Columns
    <3> TAKE i \in 1 .. last - start
    <3>1. start + i \in 1 .. n
      BY <1>2, <1>3, <1>6
    <3> QED BY <1>2, <3>1
  <2>2. chunk \in [1 .. last - start -> Keys \X SUBSET Columns]
    BY <2>1
  <2>3. \A i \in 1 .. last - start : chunk[i] = Described(MismatchRows[start + i])
    OBVIOUS
  <2> HIDE DEF chunk
  <2> QED BY <1>6, <2>2, <2>3
<1> HIDE DEF chunk
<1>8. /\ diff' \in Seq(Keys \X SUBSET Columns) /\ Len(diff') = last
      /\ \A i \in 1 .. last : diff'[i] = IF i <= start THEN diff[i] ELSE chunk[i - start]
  <2>1. start + (last - start) = last
    BY <1>3, <1>6
  <2> DEFINE R == Keys \X SUBSET Columns
  <2>2. diff \in Seq(R) /\ chunk \in Seq(R)
    BY <1>4, <1>7
  <2> HIDE DEF R
  <2>3. /\ diff \o chunk \in Seq(R)
        /\ Len(diff \o chunk) = Len(diff) + Len(chunk)
        /\ \A i \in 1 .. Len(diff) + Len(chunk) :
             (diff \o chunk)[i] = IF i <= Len(diff) THEN diff[i] ELSE chunk[i - Len(diff)]
    BY <2>2, ConcatProperties
  <2> QED BY <1>1, <1>4, <1>7, <2>1, <2>3 DEF R
<1>9. ASSUME NEW i \in 1 .. last PROVE diff'[i] = Described(MismatchRows[i])
  <2>1. CASE i <= start
    BY <1>3, <1>4, <1>6, <1>8, <2>1
  <2>2. CASE ~(i <= start)
    <3>1. i - start \in 1 .. last - start /\ start + (i - start) = i
      BY <1>3, <1>6, <2>2
    <3> QED BY <1>7, <1>8, <2>2, <3>1
  <2> QED BY <2>1, <2>2
<1>10. last = IF start' <= n THEN start' ELSE n
  BY <1>1 DEF last
<1>11. start' \in Nat
  BY <1>1, <1>3
<1>12. Typed'
  BY <1>1, <1>8, <1>11 DEF ComparisonInv, Typed
<1>13. Chunked'
  <2>1. DOMAIN diff' = 1 .. last
    BY <1>8
  <2>2. Len(diff') = IF start' <= Len(MismatchRows') THEN start' ELSE Len(MismatchRows')
    BY <1>5, <1>8, <1>10 DEF n
  <2>3. \A i \in DOMAIN diff' : diff'[i] = Described(MismatchRows[i])
    BY <1>9, <2>1
  <2>4. \A i \in DOMAIN diff' : diff'[i] = Described(MismatchRows[i])'
    BY <1>5, <2>3 DEF Described, ReportKept
  <2> QED BY <1>1, <2>2, <2>4 DEF Chunked
<1>14. Prepared' /\ Masked'
  <2>1. todo = {}
    BY <1>1 DEF ComparisonInv, Masked
  <2> QED BY <1>1, <2>1, MaskKept
<1> QED BY <1>12, <1>13, <1>14 DEF ComparisonInv

LEMMA SummariseInv == ComparisonInv /\ Summarise => ComparisonInv'
<1> SUFFICES ASSUME ComparisonInv, Summarise PROVE ComparisonInv'
  OBVIOUS
<1>1. /\ UNCHANGED <<config, source, target, src, tgt, columns, left, right, todo, equal,
                     start, diff>>
      /\ pc = "diff" /\ pc' = "done" /\ start >= Len(MismatchRows)
      /\ summary' =
           [matched |-> Cardinality(Matched), mismatched |-> Cardinality(Mismatched),
            missing |-> Cardinality(Missing), extra |-> Cardinality(Extra),
            status |-> IF FullDataPasses(Failed, Failed + Cardinality(Matched))
                         THEN "PASS" ELSE "FAIL"]
  BY DEF Summarise
<1>2. /\ Cardinality(Matched) \in Nat /\ Cardinality(Mismatched) \in Nat
      /\ Cardinality(Missing) \in Nat /\ Cardinality(Extra) \in Nat
  BY <1>1, Listed, FS_CardinalityType DEF ComparisonInv
<1>3. Typed'
  <2>1. summary' \in [matched : Nat, mismatched : Nat, missing : Nat, extra : Nat,
                      status : {"none", "PASS", "FAIL"}]
    BY <1>1, <1>2
  <2> QED BY <1>1, <2>1 DEF ComparisonInv, Typed, Phases
<1>4. UNCHANGED <<Matched, Mismatched, Missing, Extra, MismatchRows>>
      /\ \A k : Described(k)' = Described(k)
  BY <1>1, ReportKept, VerdictsKept
<1>5. Chunked'
  <2>1. /\ Len(diff) = IF start <= Len(MismatchRows) THEN start ELSE Len(MismatchRows)
        /\ \A i \in DOMAIN diff : diff[i] = Described(MismatchRows[i])
    BY <1>1 DEF ComparisonInv, Chunked
  <2>2. \A i \in DOMAIN diff : diff[i] = Described(MismatchRows[i])'
    BY <1>1, <2>1, ReportKept DEF Described
  <2> QED BY <1>1, <1>4, <2>1, <2>2 DEF Chunked
<1>6. Prepared' /\ Masked'
  <2>1. todo = {}
    BY <1>1 DEF ComparisonInv, Masked
  <2> QED BY <1>1, <2>1, MaskKept
<1> QED BY <1>3, <1>5, <1>6 DEF ComparisonInv

LEMMA StutterInv == ComparisonInv /\ UNCHANGED vars => ComparisonInv'
<1> SUFFICES ASSUME ComparisonInv, UNCHANGED vars PROVE ComparisonInv'
  OBVIOUS
<1> USE DEF vars
<1>1. Typed'
  BY DEF ComparisonInv, Typed
<1>2. Prepared'
  BY FramesKept DEF ComparisonInv, Prepared
<1>3. Masked'
  <2>1. CASE pc \in {"compare", "diff", "done"}
    <3>1. \A k \in Both' : equal'[k] <=> \A c \in columns' : c \in todo' \/ ColumnEqual(c, k)'
      BY <2>1, VerdictsKept DEF ComparisonInv, Masked
    <3>2. DOMAIN equal' = Both'
      BY <2>1, VerdictsKept DEF ComparisonInv, Masked
    <3> QED BY <2>1, <3>1, <3>2 DEF ComparisonInv, Masked
  <2>2. CASE pc \notin {"compare", "diff", "done"}
    BY <2>2 DEF ComparisonInv, Masked
  <2> QED BY <2>1, <2>2
<1>4. Chunked'
  <2>1. \A i \in DOMAIN diff : diff[i] = Described(MismatchRows[i]) => diff'[i] = Described(MismatchRows[i])'
    BY ReportKept DEF Described
  <2> QED BY <2>1, ReportKept, VerdictsKept DEF ComparisonInv, Chunked
<1> QED BY <1>1, <1>2, <1>3, <1>4 DEF ComparisonInv

(* The invariant holds in every reachable state.                            *)
THEOREM Invariant == Spec => []ComparisonInv
<1>1. ComparisonInv /\ [Next]_vars => ComparisonInv'
  BY PrepareSourceInv, PrepareTargetInv, ResolveColumnsInv, MergeInv, CompareColumnInv,
     SplitInv, DiffChunkInv, SummariseInv, StutterInv DEF Next
<1> QED BY <1>1, InitInv, PTL DEF Spec

-----------------------------------------------------------------------------
(* WHAT IT GIVES                                                            *)

(* Every part of the state stays of its type, whatever is compared.         *)
THEOREM TypeCorrect == Spec => []TypeOK
<1>1. ComparisonInv => TypeOK
  <2> SUFFICES ASSUME ComparisonInv PROVE TypeOK
    OBVIOUS
  <2>1. \A t \in {src, tgt, left, right} : IsTable(t)
    BY DEF ComparisonInv, Typed
  <2>2. \A t \in {src, tgt, left, right} :
          /\ KeysOf(t) \subseteq Keys /\ ColumnsOf(t) \subseteq Columns
          /\ t.kind \in [ColumnsOf(t) -> Kinds]
          /\ t.cell \in [KeysOf(t) -> [ColumnsOf(t) -> Texts \cup Nat \cup {NULL}]]
    BY <2>1, Zenon DEF IsTable, Values
  <2> QED BY <2>2, FramesExtracted DEF ComparisonInv, Typed, TypeOK, Phases
<1> QED BY <1>1, Invariant, PTL

(* The mismatch frame that the chunks make up describes every mismatched    *)
(* key once and no other, whatever the chunk size.                          *)
THEOREM DiffIsComplete == Spec => []DiffDescribesMismatches
<1>1. ComparisonInv => DiffDescribesMismatches
  <2> SUFFICES ASSUME ComparisonInv, pc = "done" PROVE DiffDescribesMismatches
    BY DEF DiffDescribesMismatches
  <2> DEFINE n == Len(MismatchRows)
  <2>1. /\ n \in Nat /\ n = Cardinality(Mismatched)
        /\ MismatchRows \in [1 .. n -> Mismatched]
        /\ \A k \in Mismatched : \E i \in 1 .. n : MismatchRows[i] = k
    BY Listed DEF ComparisonInv
  <2>2. Len(diff) = n /\ start \in Nat /\ start >= n
    BY <2>1 DEF ComparisonInv, Chunked, Typed
  <2>3. DOMAIN diff = 1 .. n /\ \A i \in 1 .. n : diff[i] = Described(MismatchRows[i])
    <3>1. diff \in Seq(Keys \X SUBSET Columns)
      BY DEF ComparisonInv, Typed
    <3>2. DOMAIN diff = 1 .. n
      BY <2>2, <3>1
    <3> QED BY <3>2 DEF ComparisonInv, Chunked
  <2> HIDE DEF n
  <2>4. \A i \in 1 .. n : /\ diff[i][1] = MismatchRows[i] /\ MismatchRows[i] \in Mismatched
                          /\ diff[i][2] = {c \in columns : ~ColumnEqual(c, MismatchRows[i])}
    BY <2>1, <2>3 DEF Described
  <2>5. {diff[i][1] : i \in DOMAIN diff} = Mismatched
    BY <2>1, <2>3, <2>4
  <2>6. \A k \in Mismatched : \E c \in columns : ~ColumnEqual(c, k)
    <3>1. \A k \in Both : equal[k] <=> \A c \in columns : c \in todo \/ ColumnEqual(c, k)
      BY DEF ComparisonInv, Masked
    <3> QED BY <3>1 DEF Mismatched
  <2>7. \A i \in DOMAIN diff :
          /\ diff[i][2] # {}
          /\ \A c \in columns : c \in diff[i][2] <=> ~ColumnEqual(c, diff[i][1])
    BY <2>3, <2>4, <2>6
  <2>8. Len(diff) = summary.mismatched
    BY <2>1, <2>2 DEF ComparisonInv, Chunked
  <2> QED BY <2>5, <2>7, <2>8 DEF DiffDescribesMismatches
<1> QED BY <1>1, Invariant, PTL

(* The two sides of the merged frame, the comparison done.                  *)
LEMMA Sides ==
  ASSUME ComparisonInv, pc = "done"
  PROVE  /\ IsFrame(source) /\ ~Raises(source) /\ src = Table(Normalised(source))
         /\ IsFrame(target) /\ ~Raises(target) /\ tgt = Table(Normalised(target))
         /\ left = Merged(src, KeysOf(tgt) \ KeysOf(src) # {})
         /\ right = Merged(tgt, KeysOf(src) \ KeysOf(tgt) # {})
         /\ KeysOf(left) = KeyCells(Normalised(source))
         /\ KeysOf(right) = KeyCells(Normalised(target))
         /\ columns \subseteq DOMAIN source.kind \cap DOMAIN target.kind
         /\ Matched = {k \in Both : \A c \in columns : ColumnEqual(c, k)}
<1>1. IsFrame(source) /\ IsFrame(target) /\ IsTable(src) /\ IsTable(tgt)
  BY FramesExtracted DEF ComparisonInv, Typed
<1>2. ~Raises(source) /\ ~Raises(target)
      /\ src = Table(Normalised(source)) /\ tgt = Table(Normalised(target))
      /\ columns \subseteq ColumnsOf(src) \cap ColumnsOf(tgt)
  BY DEF ComparisonInv, Prepared
<1>3. /\ left = Merged(src, KeysOf(tgt) \ KeysOf(src) # {})
      /\ right = Merged(tgt, KeysOf(src) \ KeysOf(tgt) # {})
  BY DEF ComparisonInv, Masked
<1>4. KeysOf(left) = KeysOf(src) /\ KeysOf(right) = KeysOf(tgt)
  BY <1>1, <1>3, MergedIsTable
<1>5. /\ KeysOf(src) = KeyCells(Normalised(source)) /\ ColumnsOf(src) = DOMAIN source.kind
      /\ KeysOf(tgt) = KeyCells(Normalised(target)) /\ ColumnsOf(tgt) = DOMAIN target.kind
  BY <1>1, <1>2, NormalisedIsFrame, TableIsTable
<1>6. Matched = {k \in Both : \A c \in columns : ColumnEqual(c, k)}
  <2>1. \A k \in Both : equal[k] <=> \A c \in columns : ColumnEqual(c, k)
    BY DEF ComparisonInv, Masked
  <2> QED BY <2>1 DEF Matched
<1> QED BY <1>1, <1>2, <1>3, <1>4, <1>5, <1>6

LEMMA SplitInThree ==
  ASSUME NEW S, IsFiniteSet(S), NEW A, NEW B, NEW C, S = A \cup B \cup C,
         A \cap B = {}, (A \cup B) \cap C = {}
  PROVE  Cardinality(A) + Cardinality(B) + Cardinality(C) = Cardinality(S)
<1>1. A \subseteq S /\ B \subseteq S /\ C \subseteq S /\ A \cup B \subseteq S
  OBVIOUS
<1>2. IsFiniteSet(A) /\ IsFiniteSet(B) /\ IsFiniteSet(C) /\ IsFiniteSet(A \cup B)
  BY <1>1, FS_Subset
<1>3. Cardinality(A) \in Nat /\ Cardinality(B) \in Nat /\ Cardinality(C) \in Nat
  BY <1>2, FS_CardinalityType
<1>4. Cardinality(A \cup B) = Cardinality(A) + Cardinality(B)
  <2>1. Cardinality(A \cup B) = Cardinality(A) + Cardinality(B) - Cardinality(A \cap B)
    BY <1>2, FS_Union
  <2> QED BY <1>3, <2>1, FS_EmptySet
<1>5. Cardinality(S) = Cardinality(A \cup B) + Cardinality(C)
  <2>1. Cardinality((A \cup B) \cup C)
          = Cardinality(A \cup B) + Cardinality(C) - Cardinality((A \cup B) \cap C)
    BY <1>2, FS_Union
  <2>2. Cardinality((A \cup B) \cap C) = 0
    BY FS_EmptySet
  <2>3. (A \cup B) \cup C = S
    OBVIOUS
  <2> QED BY <1>3, <1>4, <2>1, <2>2, <2>3
<1> QED BY <1>3, <1>4, <1>5

(* Unless duplicates are dropped, every row extracted is in one of the      *)
(* counts of the summary.                                                   *)
THEOREM NoRowDisappears == Spec => []EveryRowIsCounted
<1>1. ComparisonInv => EveryRowIsCounted
  <2> SUFFICES ASSUME ComparisonInv, pc = "done", ~config.dropDuplicates
               PROVE  EveryRowIsCounted
    BY DEF EveryRowIsCounted
  <2>1. ASSUME NEW f, IsFrame(f), ~Raises(f)
        PROVE  /\ IsFiniteSet(KeyCells(Normalised(f)))
               /\ Cardinality(KeyCells(Normalised(f))) = Len(f.rows)
    <3>1. ~HasDuplicates(Normalised(f))
      BY <2>1 DEF Raises
    <3> QED BY <2>1, <3>1, NormalisedIsFrame, KeyCellsFinite
  <2>2. /\ IsFiniteSet(KeysOf(left)) /\ Cardinality(KeysOf(left)) = Len(source.rows)
        /\ IsFiniteSet(KeysOf(right)) /\ Cardinality(KeysOf(right)) = Len(target.rows)
    BY <2>1, Sides
  <2>3. DOMAIN equal = Both /\ equal \in [Both -> BOOLEAN]
    BY DEF ComparisonInv, Masked, Typed
  <2>4. /\ Both = Matched \cup Mismatched /\ Matched \cap Mismatched = {}
        /\ KeysOf(left) = Both \cup Missing /\ Both \cap Missing = {}
        /\ KeysOf(right) = Both \cup Extra /\ Both \cap Extra = {}
    BY DEF Matched, Mismatched, Both, Missing, Extra
  <2>5. Cardinality(Matched) + Cardinality(Mismatched) + Cardinality(Missing)
          = Cardinality(KeysOf(left))
    BY <2>2, <2>4, SplitInThree
  <2>6. Cardinality(Matched) + Cardinality(Mismatched) + Cardinality(Extra)
          = Cardinality(KeysOf(right))
    BY <2>2, <2>4, SplitInThree
  <2> QED BY <2>2, <2>5, <2>6 DEF ComparisonInv, Chunked, EveryRowIsCounted
<1> QED BY <1>1, Invariant, PTL

-----------------------------------------------------------------------------
(* WHAT IS ASKED FOR AND WHAT IS JUDGED                                     *)

LEMMA MeantIsStringMap ==
  ASSUME NEW v \in Texts \cup {NULL}, config.fold
  PROVE  StringMap(v) = Meant(v)
BY CellsAssumption DEF StringMap, Meant

LEMMA MeantOfNumber ==
  /\ \A v \in Nat \cup {NULL} : Meant(v) = v
  /\ \A v : (v \in Texts <=> Meant(v) \in Texts) /\ (v = NULL <=> Meant(v) = NULL)
BY CellsAssumption DEF Meant

(* The rows of a normalised frame are those of the frame with each cell as  *)
(* it is meant.                                                             *)
LEMMA NormalisedIsMeant ==
  ASSUME NEW f, IsFrame(f), config.fold \in BOOLEAN, config.fold => StringsOnly(f)
  PROVE  /\ DOMAIN Normalised(f).rows = DOMAIN f.rows
         /\ \A i \in DOMAIN f.rows :
              /\ Normalised(f).rows[i].key = Meant(f.rows[i].key)
              /\ \A c \in DOMAIN f.kind :
                   Normalised(f).rows[i].cell[c] = Meant(f.rows[i].cell[c])
<1>1. CASE ~config.fold
  BY <1>1 DEF Normalised, Meant
<1>2. CASE config.fold
  <2>1. Normalised(f) = Folded(f)
    BY <1>2 DEF Normalised
  <2>2. DOMAIN Folded(f).rows = DOMAIN f.rows
    BY FoldedIsFrame, FrameShape
  <2>3. ASSUME NEW i \in DOMAIN f.rows
        PROVE  /\ Folded(f).rows[i].key = Meant(f.rows[i].key)
               /\ \A c \in DOMAIN f.kind :
                    Folded(f).rows[i].cell[c] = Meant(f.rows[i].cell[c])
    <3>1. f.rows[i].key \in Texts \cup {NULL}
      BY <1>2 DEF StringsOnly, KeyCells
    <3>2. Folded(f).rows[i].key = Meant(f.rows[i].key)
      BY <1>2, <3>1, FoldedIsFrame, MeantIsStringMap
    <3>3. ASSUME NEW c \in DOMAIN f.kind
          PROVE  Folded(f).rows[i].cell[c] = Meant(f.rows[i].cell[c])
      <4>1. CASE f.kind[c] = "object"
        <5>1. f.rows[i].cell[c] \in Texts \cup {NULL}
          BY <1>2, <4>1 DEF StringsOnly, CellsIn, ObjectColumns
        <5> QED BY <1>2, <4>1, <5>1, FoldedIsFrame, MeantIsStringMap
      <4>2. CASE f.kind[c] # "object"
        <5>1. f.kind[c] \in {"int", "float"}
          BY <4>2 DEF IsFrame, Kinds
        <5>2. f.rows[i].cell[c] \in Nat \cup {NULL}
          BY <5>1, CellsAreValues DEF IsFrame
        <5> QED BY <4>2, <5>2, FoldedIsFrame, MeantOfNumber
      <4> QED BY <4>1, <4>2
    <3> QED BY <3>2, <3>3
  <2> QED BY <2>1, <2>2, <2>3
<1> QED BY <1>1, <1>2

(* The table of a frame holds, for each key as it is meant, the first row   *)
(* that has it.                                                             *)
LEMMA TableIsMeant ==
  ASSUME NEW f, IsFrame(f), config.fold \in BOOLEAN, config.fold => StringsOnly(f)
  PROVE  /\ KeyCells(Normalised(f)) = MeantKeys(f)
         /\ \A k \in MeantKeys(f) :
              /\ \E i \in DOMAIN f.rows : FirstRow(f, k) = f.rows[i]
              /\ \A c \in DOMAIN f.kind :
                   Table(Normalised(f)).cell[k][c] = Meant(FirstRow(f, k).cell[c])
<1> DEFINE g == Normalised(f)
<1>1. /\ DOMAIN g.rows = DOMAIN f.rows
      /\ \A i \in DOMAIN f.rows :
           /\ g.rows[i].key = Meant(f.rows[i].key)
           /\ \A c \in DOMAIN f.kind : g.rows[i].cell[c] = Meant(f.rows[i].cell[c])
  BY NormalisedIsMeant
<1>2. IsFrame(g) /\ g.kind = f.kind
  BY NormalisedIsFrame
<1> HIDE DEF g
<1>3. KeyCells(g) = MeantKeys(f)
  <2>1. MeantKeys(f) = {Meant(f.rows[i].key) : i \in DOMAIN f.rows}
    BY DEF MeantKeys, KeyCells
  <2> QED BY <1>1, <2>1 DEF KeyCells
<1>4. ASSUME NEW k \in MeantKeys(f)
      PROVE  \E i \in DOMAIN f.rows :
               /\ FirstRow(f, k) = f.rows[i]
               /\ \A c \in DOMAIN f.kind : Table(g).cell[k][c] = Meant(f.rows[i].cell[c])
  <2> DEFINE P(i) == Meant(f.rows[i].key) = k /\ \A j \in 1 .. i - 1 : Meant(f.rows[j].key) # k
             i == CHOOSE n \in DOMAIN f.rows : P(n)
  <2>1. DOMAIN f.rows \subseteq Nat /\ \A n \in DOMAIN f.rows : 1 .. n - 1 \subseteq DOMAIN f.rows
    BY FrameShape
  <2>2. \A n \in DOMAIN f.rows : P(n) <=> g.rows[n].key = k /\ IsFirst(g, n)
    BY <1>1, <2>1 DEF IsFirst
  <2>3. \E n \in DOMAIN f.rows : P(n)
    BY <1>1, <1>2, <1>3, <2>2, FirstRowOfKey
  <2>4. FirstRow(f, k) = f.rows[i]
    BY DEF FirstRow
  <2>5. i \in DOMAIN f.rows /\ P(i)
    BY <2>3
  <2> HIDE DEF i
  <2>6. g.rows[i].key = k /\ IsFirst(g, i)
    BY <2>2, <2>5
  <2>7. Table(g).cell[k] = g.rows[i].cell
    BY <1>1, <1>2, <2>5, <2>6, TableIsTable
  <2> QED BY <1>1, <2>4, <2>5, <2>7
<1> QED BY <1>3, <1>4 DEF g

(* One cell of a side of the merged frame, and the row it comes from.       *)
LEMMA SideIsMeant ==
  ASSUME NEW f, IsFrame(f), HeldNumbers(f), config.fold \in BOOLEAN,
         config.fold => StringsOnly(f), NEW h \in BOOLEAN,
         NEW k \in MeantKeys(f), NEW c \in DOMAIN f.kind
  PROVE  LET m == Merged(Table(Normalised(f)), h)
             a == FirstRow(f, k).cell[c]
         IN  /\ m.cell[k][c] = Meant(a) /\ a \in Cell
             /\ m.kind[c] = IF h /\ f.kind[c] = "int" THEN "float" ELSE f.kind[c]
             /\ f.kind[c] \in {"int", "float"} /\ a # NULL => a \in Nat /\ ToFloat(a) = a
             /\ f.kind[c] = "int" => a # NULL
<1> DEFINE t == Table(Normalised(f))
           m == Merged(t, h)
           a == FirstRow(f, k).cell[c]
<1>1. /\ IsTable(t) /\ KeysOf(t) = MeantKeys(f) /\ ColumnsOf(t) = DOMAIN f.kind
      /\ t.kind = f.kind
  BY NormalisedIsFrame, TableIsTable, TableIsMeant
<1>2. t.cell[k][c] = Meant(a) /\ \E i \in DOMAIN f.rows : a = f.rows[i].cell[c]
  BY TableIsMeant
<1>3. /\ a \in Cell /\ f.kind[c] \in Kinds
      /\ f.kind[c] = "int" => a \in Numbers
      /\ f.kind[c] = "float" => a \in Numbers \cup {NULL}
  BY <1>2, FrameShape DEF IsFrame
<1>4. a \in Numbers => a \in Nat /\ ToFloat(a) = a
  <2> SUFFICES ASSUME a \in Numbers PROVE a \in Nat /\ ToFloat(a) = a
    OBVIOUS
  <2>1. a \in CellsIn(f, c)
    BY <1>2 DEF CellsIn
  <2>2. Held(a)
    BY <2>1 DEF HeldNumbers
  <2> HIDE DEF a
  <2> QED BY <2>2, CellsAreValues, ToFloatOfNat
<1>5. NULL \notin Numbers
  BY CellsAssumption, CellsAreValues
<1> HIDE DEF t, a
<1>6. /\ m.kind[c] = IF h /\ f.kind[c] = "int" THEN "float" ELSE f.kind[c]
      /\ m.cell[k][c] = IF h /\ f.kind[c] = "int" THEN ToFloat(t.cell[k][c]) ELSE t.cell[k][c]
  BY <1>1, MergedIsTable
<1>7. m.cell[k][c] = Meant(a)
  BY <1>2, <1>3, <1>4, <1>6, MeantOfNumber
<1> HIDE DEF m
<1> QED BY <1>3, <1>4, <1>5, <1>6, <1>7 DEF m, t, a

(* The verdict on a cell is the one its configuration asks for.             *)
LEMMA Judged ==
  ASSUME ComparisonInv, pc = "done", NothingIsLost
  PROVE  /\ KeysOf(left) = MeantKeys(source) /\ KeysOf(right) = MeantKeys(target)
         /\ \A k \in Both, c \in columns : ColumnEqual(c, k) <=> MeantEqual(c, k)
<1>1. /\ config.fold \in BOOLEAN /\ config.tolerance \in Nat
      /\ IsFrame(source) /\ IsFrame(target)
  BY FramesExtracted DEF ComparisonInv, Config
<1>0. /\ config.fold => StringsOnly(source) /\ StringsOnly(target)
      /\ HeldNumbers(source) /\ HeldNumbers(target)
      /\ config.tolerance = 0 \/ NoWholeColumn(source, target)
  BY DEF NothingIsLost
<1>2. KeysOf(left) = MeantKeys(source) /\ KeysOf(right) = MeantKeys(target)
  BY <1>0, <1>1, Sides, TableIsMeant
<1>3. ASSUME NEW k \in Both, NEW c \in columns
      PROVE  ColumnEqual(c, k) <=> MeantEqual(c, k)
  <2> DEFINE a == FirstRow(source, k).cell[c]
             b == FirstRow(target, k).cell[c]
             A == left.cell[k][c]
             B == right.cell[k][c]
             h == KeysOf(tgt) \ KeysOf(src) # {}
             g == KeysOf(src) \ KeysOf(tgt) # {}
             s == source.kind[c]
             t == target.kind[c]
  <2>1. k \in MeantKeys(source) /\ k \in MeantKeys(target)
        /\ c \in DOMAIN source.kind /\ c \in DOMAIN target.kind
    BY <1>2, <1>3, Sides DEF Both
  <2>2. /\ A = Meant(a) /\ left.kind[c] = IF h /\ s = "int" THEN "float" ELSE s
        /\ s \in {"int", "float"} /\ a # NULL => a \in Nat /\ ToFloat(a) = a
        /\ s = "int" => a # NULL
    <3>1. left = Merged(Table(Normalised(source)), h) /\ h \in BOOLEAN
      BY Sides
    <3> HIDE DEF h
    <3> QED BY <1>0, <1>1, <2>1, <3>1, SideIsMeant
  <2>3. /\ B = Meant(b) /\ right.kind[c] = IF g /\ t = "int" THEN "float" ELSE t
        /\ t \in {"int", "float"} /\ b # NULL => b \in Nat /\ ToFloat(b) = b
        /\ t = "int" => b # NULL
    <3>1. right = Merged(Table(Normalised(target)), g) /\ g \in BOOLEAN
      BY Sides
    <3> HIDE DEF g
    <3> QED BY <1>0, <1>1, <2>1, <3>1, SideIsMeant
  <2>4. (A = NULL <=> a = NULL) /\ (B = NULL <=> b = NULL)
    BY <2>2, <2>3, MeantOfNumber
  <2>5. s \in Kinds /\ t \in Kinds
    BY <1>1, <2>1 DEF IsFrame
  <2>6. ColumnEqual(c, k) <=>
          IF A = NULL \/ B = NULL THEN A = B /\ config.nullsEqual
          ELSE IF "float" \in {left.kind[c], right.kind[c]} /\ {left.kind[c], right.kind[c]} \subseteq Numeric
                 THEN Distance(ToFloat(A), ToFloat(B)) <= config.tolerance
                 ELSE A = B
    BY DEF ColumnEqual
  <2>7. MeantEqual(c, k) <=>
          IF a = NULL \/ b = NULL THEN a = b /\ config.nullsEqual
          ELSE IF "float" \in {s, t} /\ {s, t} \subseteq Numeric
                 THEN Distance(a, b) <= config.tolerance
                 ELSE Meant(a) = Meant(b)
    BY DEF MeantEqual
  <2>8. s = "int" /\ t = "int" => config.tolerance = 0
    BY <1>0, <2>1 DEF NoWholeColumn
  <2> HIDE DEF a, b, A, B, h, g, s, t
  <2>9. CASE a = NULL \/ b = NULL
    BY <2>4, <2>6, <2>7, <2>9
  <2>10. CASE a # NULL /\ b # NULL /\ s \in Numeric /\ t \in Numeric
    <3>1. a \in Nat /\ b \in Nat /\ A = a /\ B = b /\ ToFloat(a) = a /\ ToFloat(b) = b
      BY <2>2, <2>3, <2>10, MeantOfNumber DEF Numeric
    <3>2. Distance(a, b) <= 0 <=> a = b
      BY <3>1 DEF Distance
    <3>3. left.kind[c] \in Numeric /\ right.kind[c] \in Numeric
      BY <2>2, <2>3, <2>10 DEF Numeric
    <3>4. CASE s = "int" /\ t = "int"
      BY <2>2, <2>3, <2>6, <2>7, <2>8, <2>10, <3>1, <3>2, <3>3, <3>4
    <3>5. CASE s = "float" \/ t = "float"
      <4>1. "float" \in {left.kind[c], right.kind[c]}
        BY <2>2, <2>3, <3>5
      <4>2. {left.kind[c], right.kind[c]} \subseteq Numeric /\ {s, t} \subseteq Numeric
        BY <2>10, <3>3
      <4> QED BY <2>4, <2>6, <2>7, <2>10, <3>1, <3>5, <4>1, <4>2
    <3> QED BY <2>10, <3>4, <3>5 DEF Numeric
  <2>11. CASE a # NULL /\ b # NULL /\ (s = "object" \/ t = "object")
    <3>1. ~({left.kind[c], right.kind[c]} \subseteq Numeric) /\ ~({s, t} \subseteq Numeric)
      BY <2>2, <2>3, <2>11 DEF Numeric
    <3> QED BY <2>2, <2>3, <2>4, <2>6, <2>7, <2>11, <3>1
  <2> QED BY <2>5, <2>9, <2>10, <2>11 DEF Kinds, Numeric
<1> QED BY <1>2, <1>3

LEMMA MatchedAsMeant ==
  ASSUME ComparisonInv, pc = "done", NothingIsLost
  PROVE  Matched = {k \in MeantKeys(source) \cap MeantKeys(target) : MeantMatch(k)}
BY Judged, Sides DEF Both, MeantMatch

(* Where nothing is lost on the way (normalised columns hold strings, doubles*)
(* the numbers, and the tolerance is for doubles), the rows reported as      *)
(* matched, mismatched, missing and extra are the ones the configuration     *)
(* means.                                                                    *)
THEOREM VerdictsAreMeant == Spec => []RowsAreJudgedAsMeant
<1>1. ComparisonInv => RowsAreJudgedAsMeant
  BY Judged, MatchedAsMeant DEF RowsAreJudgedAsMeant
<1> QED BY <1>1, Invariant, PTL

-----------------------------------------------------------------------------
(* WHAT IS MATCHED AT TOLERANCE ZERO                                        *)

LEMMA ToFloatIsNear ==
  ASSUME NEW n \in Nat
  PROVE  /\ ToFloat(n) \in Nat /\ Held(ToFloat(n))
         /\ Held(n) => ToFloat(n) = n
         /\ Distance(n, ToFloat(n)) <= 1
<1>1. CASE Held(n)
  BY <1>1, CellsAssumption DEF ToFloat, Distance
<1>2. CASE ~Held(n)
  <2>1. n > MaxExact /\ n % 2 = 1 /\ n >= 1
    BY <1>2, CellsAssumption DEF Held
  <2>2. ToFloat(n) = n - 1 \/ ToFloat(n) = n + 1
    BY <1>2 DEF ToFloat
  <2>3. (n - 1) % 2 = 0 /\ (n + 1) % 2 = 0
    BY <2>1
  <2> QED BY <1>2, <2>1, <2>2, <2>3 DEF Held, Distance
<1> QED BY <1>1, <1>2

(* Two whole numbers with one double are the same, or next to each other    *)
(* where doubles do not hold them both.                                     *)
LEMMA OneDouble ==
  ASSUME NEW a \in Nat, NEW b \in Nat, ToFloat(a) = ToFloat(b)
  PROVE  a = b \/ (~(Held(a) /\ Held(b)) /\ Distance(a, b) <= 2)
<1> DEFINE x == ToFloat(a)
<1>1. /\ x \in Nat /\ Distance(a, x) <= 1 /\ Distance(b, x) <= 1
      /\ Held(a) => x = a
      /\ Held(b) => x = b
  BY ToFloatIsNear
<1> HIDE DEF x
<1>2. Distance(a, b) <= 2
  BY <1>1 DEF Distance
<1> QED BY <1>1, <1>2

(* One cell of a side of the merged frame, and the cell extracted that it   *)
(* comes from.                                                              *)
LEMMA SideIsExtracted ==
  ASSUME NEW f, IsFrame(f), config.fold \in BOOLEAN, NEW h \in BOOLEAN,
         NEW k \in KeyCells(Normalised(f)), NEW c \in DOMAIN f.kind
  PROVE  LET m == Merged(Table(Normalised(f)), h)
             a == ExtractedRow(f, k).cell[c]
             s == f.kind[c]
         IN  /\ a \in Cell /\ s \in Kinds
             /\ s = "int" => a \in Numbers
             /\ s = "float" => a \in Numbers \cup {NULL}
             /\ m.kind[c] = IF h /\ s = "int" THEN "float" ELSE s
             /\ m.cell[k][c] = IF h /\ s = "int" THEN ToFloat(a)
                              ELSE IF config.fold /\ s = "object" THEN StringMap(a)
                              ELSE a
<1> DEFINE g == Normalised(f)
           t == Table(g)
           m == Merged(t, h)
           P(n) == g.rows[n].key = k /\ IsFirst(g, n)
           i == CHOOSE n \in DOMAIN f.rows : P(n)
           a == f.rows[i].cell[c]
           s == f.kind[c]
<1>1. IsFrame(g) /\ g.kind = f.kind /\ DOMAIN g.rows = DOMAIN f.rows
  BY NormalisedIsFrame, FrameShape
<1>2. \A n \in DOMAIN f.rows :
        g.rows[n].cell[c] = IF config.fold /\ s = "object" THEN StringMap(f.rows[n].cell[c])
                                                           ELSE f.rows[n].cell[c]
  BY FoldedIsFrame DEF Normalised
<1>3. ExtractedRow(f, k).cell[c] = a
  BY DEF ExtractedRow
<1> HIDE DEF g
<1>4. \E n \in DOMAIN f.rows : P(n)
  <2>1. k \in KeyCells(g)
    BY DEF g
  <2> QED BY <1>1, <2>1, FirstRowOfKey
<1>5. i \in DOMAIN f.rows /\ P(i)
  BY <1>4
<1> HIDE DEF i
<1>6. /\ IsTable(t) /\ KeysOf(t) = KeyCells(g) /\ ColumnsOf(t) = DOMAIN f.kind
      /\ t.kind = f.kind /\ t.cell[k] = g.rows[i].cell
  BY <1>1, <1>5, TableIsTable
<1>7. /\ a \in Cell /\ s \in Kinds
      /\ s = "int" => a \in Numbers
      /\ s = "float" => a \in Numbers \cup {NULL}
  <2>1. f.rows[i].cell \in [DOMAIN f.kind -> Cell] /\ i \in DOMAIN f.rows
    BY <1>5, FrameShape
  <2>2. \A n \in DOMAIN f.rows :
          /\ s = "int" => f.rows[n].cell[c] \in Numbers
          /\ s = "float" => f.rows[n].cell[c] \in Numbers \cup {NULL}
    BY DEF IsFrame
  <2>3. s \in Kinds
    BY DEF IsFrame
  <2> QED BY <2>1, <2>2, <2>3
<1> HIDE DEF t
<1>8. k \in KeysOf(t) /\ c \in ColumnsOf(t)
  BY <1>6 DEF g
<1>9. /\ m.kind[c] = IF h /\ s = "int" THEN "float" ELSE s
      /\ m.cell[k][c] = IF h /\ s = "int" THEN ToFloat(t.cell[k][c]) ELSE t.cell[k][c]
  BY <1>6, <1>8, MergedIsTable
<1>10. t.cell[k][c] = IF config.fold /\ s = "object" THEN StringMap(a) ELSE a
  BY <1>2, <1>5, <1>6
<1> HIDE DEF m, a, s
<1>11. m.cell[k][c] = IF h /\ s = "int" THEN ToFloat(a)
                      ELSE IF config.fold /\ s = "object" THEN StringMap(a) ELSE a
  BY <1>9, <1>10
<1>12. m = Merged(Table(Normalised(f)), h) /\ s = f.kind[c] /\ a = ExtractedRow(f, k).cell[c]
  BY <1>3 DEF m, t, g, s, a
<1> QED BY <1>7, <1>9, <1>11, <1>12

(* What becomes of a value on the way to the comparison.                    *)
LEMMA WhatBecomesOfACell ==
  ASSUME NEW a \in Cell, NEW s \in Kinds, NEW h \in BOOLEAN, config.fold \in BOOLEAN,
         s = "int" => a \in Numbers, s = "float" => a \in Numbers \cup {NULL},
         NEW A, A = IF h /\ s = "int" THEN ToFloat(a)
                    ELSE IF config.fold /\ s = "object" THEN StringMap(a) ELSE a
  PROVE  \/ A = NULL /\ (a = NULL \/ (config.fold /\ s = "object" /\ a \notin Texts))
         \/ A \in Texts /\ a \in Texts /\ A = (IF config.fold THEN Fold[a] ELSE a)
         \/ /\ A \in Nat /\ a \in Numbers /\ a \in Nat /\ ToFloat(A) = ToFloat(a)
            /\ A = a \/ (A = ToFloat(a) /\ s = "int" /\ h)
<1>1. CASE a \in Numbers
  <2>1. a \in Nat /\ a \notin Texts /\ a # NULL
    BY <1>1, CellsAreValues, CellsAssumption
  <2>2. ToFloat(a) \in Nat /\ ToFloat(ToFloat(a)) = ToFloat(a)
    BY <2>1, ToFloatIsNear
  <2> QED BY <1>1, <2>1, <2>2 DEF StringMap
<1>2. CASE a \in Texts
  <2>1. a \notin Nat /\ a # NULL /\ Fold[a] \in Texts
    BY <1>2, CellsAssumption
  <2>2. s = "object"
    BY <2>1, CellsAreValues DEF Kinds
  <2> QED BY <1>2, <2>1, <2>2 DEF StringMap
<1>3. CASE a = NULL
  <2>1. a \notin Texts /\ a \notin Numbers
    BY <1>3, CellsAssumption, CellsAreValues
  <2> QED BY <1>3, <2>1 DEF StringMap
<1> QED BY <1>1, <1>2, <1>3 DEF Cell

(* At tolerance zero a matched cell has the same value on both sides, texts *)
(* that fold alike, nothing (or nothing left), or neighbouring whole numbers*)
(* that doubles do not hold: for all frames, columns of mixed content and   *)
(* numbers beyond 2^53 included.                                            *)
THEOREM MatchesAreAlwaysAccountedFor == Spec => []MatchesAreAccountedFor
<1>1. ComparisonInv => MatchesAreAccountedFor
  <2> SUFFICES ASSUME ComparisonInv, pc = "done", config.tolerance = 0,
                      NEW k \in Matched, NEW c \in columns
               PROVE  LET a == ExtractedRow(source, k).cell[c]
                          b == ExtractedRow(target, k).cell[c]
                      IN  \/ a = b /\ (a = NULL => config.nullsEqual)
                          \/ config.fold /\ {a, b} \subseteq Texts /\ Fold[a] = Fold[b]
                          \/ /\ config.nullsEqual
                             /\ a = NULL \/ FoldedAway(source, c, a)
                             /\ b = NULL \/ FoldedAway(target, c, b)
                          \/ /\ {a, b} \subseteq Numbers /\ ~(Held(a) /\ Held(b))
                             /\ Distance(a, b) <= 2 /\ ComesAsDoubles(c)
    BY DEF MatchesAreAccountedFor
  <2> DEFINE a == ExtractedRow(source, k).cell[c]
             b == ExtractedRow(target, k).cell[c]
             A == left.cell[k][c]
             B == right.cell[k][c]
             h == KeysOf(tgt) \ KeysOf(src) # {}
             g == KeysOf(src) \ KeysOf(tgt) # {}
             s == source.kind[c]
             t == target.kind[c]
  <2>1. /\ k \in KeyCells(Normalised(source)) /\ k \in KeyCells(Normalised(target))
        /\ c \in DOMAIN source.kind /\ c \in DOMAIN target.kind
        /\ IsFrame(source) /\ IsFrame(target) /\ config.fold \in BOOLEAN
        /\ ColumnEqual(c, k)
    BY Sides, FramesExtracted DEF ComparisonInv, Config, Both
  <2>2. /\ a \in Cell /\ s \in Kinds
        /\ s = "int" => a \in Numbers
        /\ s = "float" => a \in Numbers \cup {NULL}
        /\ left.kind[c] = IF h /\ s = "int" THEN "float" ELSE s
        /\ A = IF h /\ s = "int" THEN ToFloat(a)
               ELSE IF config.fold /\ s = "object" THEN StringMap(a) ELSE a
    <3>1. left = Merged(Table(Normalised(source)), h) /\ h \in BOOLEAN
      BY Sides
    <3> HIDE DEF h
    <3> QED BY <2>1, <3>1, SideIsExtracted
  <2>3. /\ b \in Cell /\ t \in Kinds
        /\ t = "int" => b \in Numbers
        /\ t = "float" => b \in Numbers \cup {NULL}
        /\ right.kind[c] = IF g /\ t = "int" THEN "float" ELSE t
        /\ B = IF g /\ t = "int" THEN ToFloat(b)
               ELSE IF config.fold /\ t = "object" THEN StringMap(b) ELSE b
    <3>1. right = Merged(Table(Normalised(target)), g) /\ g \in BOOLEAN
      BY Sides
    <3> HIDE DEF g
    <3> QED BY <2>1, <3>1, SideIsExtracted
  <2>4. /\ h => Extra # {}
        /\ g => Missing # {}
    <3>1. KeysOf(left) = KeysOf(src) /\ KeysOf(right) = KeysOf(tgt)
      BY <2>1, Sides, NormalisedIsFrame, TableIsTable
    <3> QED BY <3>1 DEF Extra, Missing
  <2>5. ColumnEqual(c, k) <=>
          IF A = NULL \/ B = NULL THEN A = B /\ config.nullsEqual
          ELSE IF "float" \in {left.kind[c], right.kind[c]} /\ {left.kind[c], right.kind[c]} \subseteq Numeric
                 THEN Distance(ToFloat(A), ToFloat(B)) <= config.tolerance
                 ELSE A = B
    BY DEF ColumnEqual
  <2>6. /\ h \in BOOLEAN /\ g \in BOOLEAN
        /\ ComesAsDoubles(c) <=> \/ "float" \in {s, t} \/ (s = "int" /\ Extra # {})
                                \/ (t = "int" /\ Missing # {})
        /\ FoldedAway(source, c, a) <=> config.fold /\ s = "object" /\ a \notin Texts
        /\ FoldedAway(target, c, b) <=> config.fold /\ t = "object" /\ b \notin Texts
    BY DEF ComesAsDoubles, FoldedAway
  <2> HIDE DEF a, b, A, B, h, g, s, t
  <2>7. \/ A = NULL /\ (a = NULL \/ FoldedAway(source, c, a))
        \/ A \in Texts /\ a \in Texts /\ A = (IF config.fold THEN Fold[a] ELSE a)
        \/ /\ A \in Nat /\ a \in Numbers /\ a \in Nat /\ ToFloat(A) = ToFloat(a)
           /\ A = a \/ (A = ToFloat(a) /\ s = "int" /\ h)
    BY <2>1, <2>2, <2>6, WhatBecomesOfACell
  <2>8. \/ B = NULL /\ (b = NULL \/ FoldedAway(target, c, b))
        \/ B \in Texts /\ b \in Texts /\ B = (IF config.fold THEN Fold[b] ELSE b)
        \/ /\ B \in Nat /\ b \in Numbers /\ b \in Nat /\ ToFloat(B) = ToFloat(b)
           /\ B = b \/ (B = ToFloat(b) /\ t = "int" /\ g)
    BY <2>1, <2>3, <2>6, WhatBecomesOfACell
  <2>9. CASE A = NULL \/ B = NULL
    <3>1. A = NULL /\ B = NULL /\ config.nullsEqual
      BY <2>1, <2>5, <2>9
    <3>2. A \notin Texts /\ A \notin Nat /\ B \notin Texts /\ B \notin Nat
      BY <3>1, CellsAssumption
    <3> QED BY <2>7, <2>8, <3>1, <3>2 DEF a, b
  <2>10. CASE A \in Texts /\ B \in Texts
    <3>1. A # NULL /\ B # NULL /\ A \notin Nat /\ B \notin Nat
      BY <2>10, CellsAssumption
    <3>2. ~({left.kind[c], right.kind[c]} \subseteq Numeric)
      <4>1. a \in Texts /\ a \notin Numbers /\ a # NULL
        BY <2>7, <2>10, <3>1, CellsAssumption, CellsAreValues
      <4>2. s = "object"
        BY <2>2, <4>1 DEF Kinds
      <4> QED BY <2>2, <4>2 DEF Numeric
    <3>3. A = B
      BY <2>1, <2>5, <3>1, <3>2
    <3>4. /\ a \in Texts /\ A = (IF config.fold THEN Fold[a] ELSE a)
          /\ b \in Texts /\ B = (IF config.fold THEN Fold[b] ELSE b)
      BY <2>7, <2>8, <3>1
    <3>5. a # NULL
      BY <3>4, CellsAssumption
    <3> QED BY <3>3, <3>4, <3>5 DEF a, b
  <2>11. CASE A \in Nat /\ B \in Nat
    <3>1. A # NULL /\ B # NULL /\ A \notin Texts /\ B \notin Texts
      BY <2>11, CellsAssumption
    <3>2. /\ a \in Numbers /\ a \in Nat /\ ToFloat(A) = ToFloat(a)
          /\ A = a \/ (A = ToFloat(a) /\ s = "int" /\ h)
          /\ b \in Numbers /\ b \in Nat /\ ToFloat(B) = ToFloat(b)
          /\ B = b \/ (B = ToFloat(b) /\ t = "int" /\ g)
      BY <2>7, <2>8, <3>1
    <3>3. ToFloat(A) = ToFloat(B) /\ (A # B => ComesAsDoubles(c))
      <4>1. CASE "float" \in {left.kind[c], right.kind[c]} /\ {left.kind[c], right.kind[c]} \subseteq Numeric
        <5>1. Distance(ToFloat(A), ToFloat(B)) <= 0
          BY <2>1, <2>5, <3>1, <4>1
        <5>2. ToFloat(A) \in Nat /\ ToFloat(B) \in Nat
          BY <2>11, ToFloatIsNear
        <5>3. ComesAsDoubles(c)
          BY <2>2, <2>3, <2>4, <2>6, <4>1
        <5> QED BY <5>1, <5>2, <5>3 DEF Distance
      <4>2. CASE ~("float" \in {left.kind[c], right.kind[c]} /\ {left.kind[c], right.kind[c]} \subseteq Numeric)
        BY <2>1, <2>5, <3>1, <4>2
      <4> QED BY <4>1, <4>2
    <3>4. a = b \/ (~(Held(a) /\ Held(b)) /\ Distance(a, b) <= 2)
      BY <3>2, <3>3, OneDouble
    <3>5. a # b => ComesAsDoubles(c)
      BY <2>4, <2>6, <3>2, <3>3
    <3>6. a # NULL
      BY <3>2, CellsAssumption
    <3> QED BY <3>2, <3>4, <3>5, <3>6 DEF a, b
  <2>12. CASE (A \in Texts /\ B \in Nat) \/ (A \in Nat /\ B \in Texts)
    <3>1. A # NULL /\ B # NULL /\ A # B
      BY <2>12, CellsAssumption
    <3>2. ~({left.kind[c], right.kind[c]} \subseteq Numeric)
      <4>1. \A v \in Texts : v \notin Nat /\ v # NULL
        BY CellsAssumption
      <4>2. a \in Texts \/ b \in Texts
        BY <2>7, <2>8, <2>12, <4>1
      <4>3. s = "object" \/ t = "object"
        BY <2>2, <2>3, <4>1, <4>2, CellsAreValues DEF Kinds
      <4> QED BY <2>2, <2>3, <4>3 DEF Numeric
    <3> QED BY <2>1, <2>5, <3>1, <3>2
  <2>13. /\ A = NULL \/ A \in Texts \/ A \in Nat
         /\ B = NULL \/ B \in Texts \/ B \in Nat
    BY <2>7, <2>8
  <2> QED BY <2>9, <2>10, <2>11, <2>12, <2>13
<1> QED BY <1>1, Invariant, PTL
=============================================================================

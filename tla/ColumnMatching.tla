--------------------------- MODULE ColumnMatching ---------------------------
(***************************************************************************)
(* datarecon/core/column_matching.py: names of columns, compared without   *)
(* regard to case, and ComparisonEngine's own version of the same.         *)
(*                                                                         *)
(* A frame is a record with the names of its columns in order, a type for  *)
(* each and its rows, functions from the names.                            *)
(***************************************************************************)
EXTENDS Integers, Sequences, FiniteSets, Lists

CONSTANT CaseFold   \* str.casefold, on the names that occur

Folds(columns) == {CaseFold[columns[i]] : i \in DOMAIN columns}

(* canonical_map: the spelling of each folded name; the first one wins.     *)
CanonicalMap(columns) ==
  [k \in Folds(columns) |->
     columns[CHOOSE i \in DOMAIN columns :
               /\ CaseFold[columns[i]] = k
               /\ \A j \in 1 .. i - 1 : CaseFold[columns[j]] # k]]

(* resolve_all: the names as they are spelt there, and those that are not   *)
(* there at all.                                                            *)
Resolved(names, columns) ==
  [i \in DOMAIN names |-> CanonicalMap(columns)[CaseFold[names[i]]]]

Missing(names, columns) == {CaseFold[names[i]] : i \in DOMAIN names} \ Folds(columns)

(* DataFrame.rename(columns=...), for a frame whose new names are distinct. *)
Renamed(f, new) ==
  LET old(n) == CHOOSE c \in ToSet(f.columns) : new[c] = n
      names  == [i \in DOMAIN f.columns |-> new[f.columns[i]]]
  IN  [f EXCEPT !.columns = names,
                !.type = [n \in ToSet(names) |-> f.type[old(n)]],
                !.rows = [i \in DOMAIN f.rows |->
                            [n \in ToSet(names) |-> f.rows[i][old(n)]]]]

(* Mutant of AlignToSource: the target keeps its own spelling.              *)
NotAligned(source, target) == target

(* align_to_source: the target's columns under the source's spelling.       *)
AlignToSource(source, target) ==
  LET canonical == CanonicalMap(source.columns)
      new == [c \in ToSet(target.columns) |->
                IF CaseFold[c] \in DOMAIN canonical THEN canonical[CaseFold[c]] ELSE c]
  IN  Renamed(target, new)

(* _align_column_case: of two spellings in the source the LAST wins here.   *)
EngineMap(columns) == CanonicalMap(Reverse(columns))

EngineName(source, n) ==
  IF CaseFold[n] \in Folds(source.columns)
    THEN EngineMap(source.columns)[CaseFold[n]] ELSE n

(* The columns on both sides.                                               *)
OnBothSides(source, target) ==
  ToSet(source.columns)
    \cap {EngineName(source, target.columns[i]) : i \in DOMAIN target.columns}

(* The engine refuses a key or a column asked for that is not on both sides.*)
EngineRefuses(source, target, keys, asked) ==
  \E n \in ToSet(keys) \cup ToSet(asked) :
    EngineName(source, n) \notin OnBothSides(source, target)

(* _resolve_compare_columns: those asked for, or those on both sides in the *)
(* order of the source, without the keys.                                   *)
EngineColumns(source, target, keys, asked) ==
  LET name(c) == EngineName(source, c)
      wanted  == IF asked # <<>> THEN [i \in DOMAIN asked |-> name(asked[i])]
                 ELSE Among(source.columns, OnBothSides(source, target))
  IN  Among(wanted, ToSet(wanted) \ {name(k) : k \in ToSet(keys)})

=============================================================================

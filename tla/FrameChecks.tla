---------------------------- MODULE FrameChecks ----------------------------
(***************************************************************************)
(* The validation services of application/services that judge frames       *)
(* column by column or group by group: schema, duplicate, nullability,     *)
(* aggregation, record count with groups, referential integrity.  Each     *)
(* operator is one execute, from the frames extracted to the status it     *)
(* records and the detail it saves.                                        *)
(*                                                                         *)
(* A cell is a number, NULL or a blank text.  Group keys are sequences of  *)
(* cells.  DuckDB matches names of columns without regard to case.         *)
(***************************************************************************)
EXTENDS ColumnMatching, Percentages, FiniteSetsExt

CONSTANTS
  NULL,       \* None, NaN, SQL NULL
  BLANK       \* a text of blanks only

(* What execute leaves behind: the status of the row recorded, the figures  *)
(* of its summary and the detail saved.  REFUSED is an exception before     *)
(* anything is recorded.                                                    *)
Result(status, summary, detail) ==
  [status |-> status, summary |-> summary, detail |-> detail]
Raised  == Result("ERROR", <<>>, {})
Refused == Result("REFUSED", <<>>, {})
Verdict(passes) == IF passes THEN "PASS" ELSE "FAIL"

Key(row, columns) == [i \in DOMAIN columns |-> row[columns[i]]]
KeysIn(f, columns) == {Key(f.rows[i], columns) : i \in DOMAIN f.rows}
RowsWith(f, columns, key) == {i \in DOMAIN f.rows : Key(f.rows[i], columns) = key}
HasNull(key) == \E i \in DOMAIN key : key[i] = NULL

-----------------------------------------------------------------------------
(* Schema validation                                                        *)

(* Of two columns that differ by case the LAST gives the position, the      *)
(* first the type.                                                          *)
Position(f, k) == Max({i \in DOMAIN f.columns : CaseFold[f.columns[i]] = k})
TypeOf(f, k)   == f.type[CanonicalMap(f.columns)[k]]

ColumnStatus(s, t, k) ==
  IF k \notin Folds(t.columns) THEN "MISSING_IN_TARGET"
  ELSE IF k \notin Folds(s.columns) THEN "EXTRA_IN_TARGET"
  ELSE IF TypeOf(s, k) # TypeOf(t, k) THEN "TYPE_MISMATCH"
  ELSE IF Position(s, k) # Position(t, k) THEN "POSITION_MISMATCH"
  ELSE "MATCH"

(* Length, key and default, compared where both catalogs describe a column. *)
AttributesDiffer(s, t, k) ==
  /\ k \in DOMAIN s.catalog \cap DOMAIN t.catalog
  /\ s.catalog[k] # t.catalog[k]

(* Mutant of Critical: an extra column of the target is none.               *)
CriticalInSource == {"MISSING_IN_TARGET", "TYPE_MISMATCH"}

Critical == {"MISSING_IN_TARGET", "EXTRA_IN_TARGET", "TYPE_MISMATCH"}

SchemaRun(r) ==
  LET s == r.source
      t == r.target
      columns == Folds(s.columns) \cup Folds(t.columns)
      wrong   == {k \in columns : ColumnStatus(s, t, k) \in Critical}
      differ  == {k \in columns : AttributesDiffer(s, t, k)}
  IN  IF columns = {} THEN Raised
      ELSE Result(Verdict(wrong \cup differ = {}),
                  <<Cardinality(columns), Cardinality(wrong), Cardinality(differ)>>,
                  {<<k, ColumnStatus(s, t, k)>> : k \in columns})

-----------------------------------------------------------------------------
(* Duplicate validation: GROUP BY takes NULLs for equal, the join that      *)
(* fetches the sample does not.                                             *)

DuplicateRun(r) ==
  LET keys  == Resolved(r.keys, r.source.columns)
      rows  == r.source.rows
      twice == {k \in KeysIn(r.source, keys) :
                  Cardinality(RowsWith(r.source, keys, k)) > 1}
      found == {i \in DOMAIN rows : Key(rows[i], keys) \in twice}
      joined == {i \in found : ~HasNull(Key(rows[i], keys))}
      shown == CHOOSE sample \in SUBSET joined :
                 Cardinality(sample) = Min({r.limit, Cardinality(joined)})
  IN  IF r.keys = <<>> THEN Refused
      ELSE IF Missing(r.keys, r.source.columns) # {} THEN Raised
      ELSE Result(Verdict(found = {}),
                  <<Len(rows), Cardinality(twice), Cardinality(found)>>, shown)

-----------------------------------------------------------------------------
(* Nullability validation.  A blank cell that is listed as a sentinel too   *)
(* counts twice.                                                            *)

MissingCells(f, c, sentinels) ==
  LET count(S) == Cardinality({i \in DOMAIN f.rows : f.rows[i][c] \in S})
  IN  count({NULL}) + count({BLANK}) + count(sentinels)

(* The mean of the columns' percentages, each rounded, rounded again.       *)
Completeness(f, columns, sentinels) ==
  LET of(c) == Percentage(Len(f.rows) - MissingCells(f, c, sentinels), Len(f.rows))
  IN  IF f.rows = <<>> \/ columns = <<>> THEN Scale
      ELSE Nearest(SumFunction([i \in DOMAIN columns |-> of(columns[i])]), Len(columns))

NullabilityRun(r) ==
  LET columns == IF r.keys = <<>> THEN r.source.columns
                                  ELSE Resolved(r.keys, r.source.columns)
      score   == Completeness(r.source, columns, r.sentinels)
  IN  IF Missing(r.keys, r.source.columns) # {} THEN Raised
      ELSE Result(Verdict(score >= r.tolerance), <<Len(r.source.rows), score>>,
                  ToSet(columns))

-----------------------------------------------------------------------------
(* Aggregation validation                                                   *)

(* One aggregate over the rows of a group: NULL cells are passed over.      *)
Aggregate(f, c, group, function) ==
  LET present == {i \in group : f.rows[i][c] # NULL}
      values  == {f.rows[i][c] : i \in present}
  IN  CASE function = "COUNT"          -> Cardinality(present)
        [] function = "COUNT_DISTINCT" -> Cardinality(values)
        [] function = "SUM"            -> SumFunction([i \in present |-> f.rows[i][c]])
        [] function = "MIN"            -> IF present = {} THEN 0 ELSE Min(values)
        [] function = "MAX"            -> IF present = {} THEN 0 ELSE Max(values)

(* _compare_one: an aggregate that is NULL, or whose group is missing, is 0.*)
AggregationRows(s, t, groupBy, column, function) ==
  {[group |-> g,
    source |-> Aggregate(s, column, RowsWith(s, groupBy, g), function),
    target |-> Aggregate(t, column, RowsWith(t, groupBy, g), function)] :
     g \in IF groupBy = <<>> THEN {<<>>} ELSE KeysIn(s, groupBy) \cup KeysIn(t, groupBy)}

(* Groups asked for, and none on either side: pandas' apply over no rows    *)
(* raises.                                                                  *)
AggregationRun(r) ==
  LET s == r.source
      t == AlignToSource(s, r.target)
      groupBy == Resolved(r.keys, s.columns)
      column  == Resolved(<<r.column>>, s.columns)[1]
      rows    == AggregationRows(s, t, groupBy, column, r.function)
      failed  == {x \in rows :
                    VariancePercent(Abs(x.source), x.target - x.source) > r.tolerance}
  IN  IF \/ Missing(r.keys, s.columns) # {} \/ ~(ToSet(groupBy) \subseteq ToSet(t.columns))
         \/ Missing(<<r.column>>, s.columns) # {} \/ column \notin ToSet(t.columns)
        THEN Raised
      ELSE IF rows = {} THEN Raised
      ELSE Result(Verdict(failed = {}), <<Cardinality(rows), Cardinality(failed)>>, rows)

-----------------------------------------------------------------------------
(* Record count with groups: the outer join does not match NULLs.           *)

Breakdown(s, t, sKeys, tKeys) ==
  LET n(key) == Cardinality(RowsWith(s, sKeys, key))
      m(key) == Cardinality(RowsWith(t, tKeys, key))
      all    == KeysIn(s, sKeys) \cup KeysIn(t, tKeys)
  IN  {[group |-> k, source |-> n(k), target |-> m(k)] : k \in {g \in all : ~HasNull(g)}}
        \cup {[group |-> k, source |-> n(k), target |-> 0] :
                k \in {g \in KeysIn(s, sKeys) : HasNull(g)}}
        \cup {[group |-> k, source |-> 0, target |-> m(k)] :
                k \in {g \in KeysIn(t, tKeys) : HasNull(g)}}

(* Mutant of CountRun: a join in place of the outer join.                   *)
CountRunOfCommonGroups(r) ==
  LET s == r.source
      t == r.target
      rows == {x \in Breakdown(s, t, Resolved(r.keys, s.columns), Resolved(r.keys, t.columns)) :
                 x.source > 0 /\ x.target > 0}
      n == SumFunction([x \in rows |-> x.source])
      m == SumFunction([x \in rows |-> x.target])
  IN  Result(Verdict(RecordCountPasses(n, m, r.absolute, r.tolerance)), <<n, m, m - n>>, rows)

CountRun(r) ==
  LET s == r.source
      t == r.target
      grouped == r.keys # <<>>
      rows == IF grouped THEN Breakdown(s, t, Resolved(r.keys, s.columns),
                                              Resolved(r.keys, t.columns)) ELSE {}
      n == IF grouped THEN SumFunction([x \in rows |-> x.source]) ELSE Len(s.rows)
      m == IF grouped THEN SumFunction([x \in rows |-> x.target]) ELSE Len(t.rows)
  IN  IF Missing(r.keys, s.columns) \cup Missing(r.keys, t.columns) # {} THEN Raised
      ELSE IF grouped /\ rows = {} THEN Raised
      ELSE Result(Verdict(RecordCountPasses(n, m, r.absolute, r.tolerance)),
                  <<n, m, m - n>>, rows)

-----------------------------------------------------------------------------
(* Referential integrity: source is the child, target the parent.           *)

IntegrityRun(r) ==
  LET child  == Resolved(r.keys, r.source.columns)
      parent == Resolved(r.parentKeys, r.target.columns)
      rows   == r.source.rows
      withKey == {i \in DOMAIN rows : ~HasNull(Key(rows[i], child))}
      known   == {k \in KeysIn(r.target, parent) : ~HasNull(k)}
      orphans == {i \in withKey : Key(rows[i], child) \notin known}
      first(i) == Cardinality({j \in orphans : j < i}) < r.limit
  IN  IF r.keys = <<>> \/ Len(r.keys) # Len(r.parentKeys) THEN Refused
      ELSE IF Missing(r.keys, r.source.columns) \cup Missing(r.parentKeys, r.target.columns) # {}
        THEN Raised
      ELSE Result(Verdict(IntegrityPasses(Cardinality(orphans), Cardinality(withKey), r.tolerance)),
                  <<Len(rows), Cardinality(withKey), Len(rows) - Cardinality(withKey),
                    Cardinality(orphans), Cardinality({Key(rows[i], child) : i \in orphans})>>,
                  {i \in orphans : first(i)})

=============================================================================

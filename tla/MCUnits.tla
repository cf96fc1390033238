------------------------------ MODULE MCUnits -------------------------------
(***************************************************************************)
(* One TLC run for the parts that share no state: unit says which of them  *)
(* this behaviour is about, the variables of the others stay as they are.  *)
(***************************************************************************)
EXTENDS TickLoop, Verdicts, Analyses, Extraction, Startup, Connections, Projects,
        ListPages, MetadataDb

VARIABLE unit

units ==
  <<unit, vars, verdictVars, analysis, extraction, startup, connections, workspace, pages, dbVars>>

TicksIdle ==
  minute = 0 /\ second = 0 /\ pc = "stopped" /\ left = 0 /\ age = 0
    /\ lastRead = [minute |-> 0, second |-> 0]
VerdictsIdle ==
  module = "FULL_DATA" /\ rows = 0 /\ failed = 0 /\ tolerance = 0 /\ status = "none"
AnalysesIdle    == task = [kind |-> "none"] /\ result = Pending
StartupIdle     == StartupInit /\ migrated = Added /\ keyFile = Absent
PagesIdle       == ListPagesInit /\ page = "runs"

UnitsInit ==
  /\ unit \in {"ticks", "verdicts", "analyses", "extraction", "startup", "connections",
              "projects", "pages", "database"}
  /\ IF unit = "ticks" THEN Init ELSE TicksIdle
  /\ IF unit = "verdicts" THEN VerdictInit ELSE VerdictsIdle
  /\ IF unit = "analyses" THEN AnalysesInit ELSE AnalysesIdle
  /\ ExtractionInit
  /\ IF unit = "startup" THEN StartupInit ELSE StartupIdle
  /\ ConnectionsInit
  /\ ProjectsInit
  /\ IF unit = "pages" THEN ListPagesInit ELSE PagesIdle
  /\ DbInit

Still(others) == UNCHANGED <<unit, others>>

UnitsNext ==
  \/ /\ unit = "ticks" /\ Next
     /\ Still(<<verdictVars, analysis, extraction, startup, connections, workspace, pages,
              dbVars>>)
  \/ /\ unit = "verdicts" /\ VerdictNext
     /\ Still(<<vars, analysis, extraction, startup, connections, workspace, pages, dbVars>>)
  \/ /\ unit = "analyses" /\ AnalysesNext
     /\ Still(<<vars, verdictVars, extraction, startup, connections, workspace, pages, dbVars>>)
  \/ /\ unit = "extraction" /\ ExtractionNext
     /\ Still(<<vars, verdictVars, analysis, startup, connections, workspace, pages, dbVars>>)
  \/ /\ unit = "startup" /\ StartupNext
     /\ Still(<<vars, verdictVars, analysis, extraction, connections, workspace, pages, dbVars>>)
  \/ /\ unit = "connections" /\ ConnectionsNext
     /\ Still(<<vars, verdictVars, analysis, extraction, startup, workspace, pages, dbVars>>)
  \/ /\ unit = "projects" /\ ProjectsNext
     /\ Still(<<vars, verdictVars, analysis, extraction, startup, connections, pages, dbVars>>)
  \/ /\ unit = "pages" /\ ListPagesNext
     /\ Still(<<vars, verdictVars, analysis, extraction, startup, connections, workspace,
              dbVars>>)
  \/ /\ unit = "database" /\ DbNext
     /\ Still(<<vars, verdictVars, analysis, extraction, startup, connections, workspace,
              pages>>)

UnitsSpec == UnitsInit /\ [][UnitsNext]_units

-----------------------------------------------------------------------------
\* Percentages and verdicts: two decimals instead of four, and row counts on
\* both sides of the 200 from which one failing row rounds to none.
Hundred    == 100
PastTwice  == 0 .. 205 \cup 395 .. 405
UpToFive   == 0 .. 5
SmallRates == {0, 1, 2, 50, 100}

\* Extraction: limits below, at and above the ceiling.
SomeLimits == {1, 2, 9, NoLimit}
SomeSizes  == {0, 1, 2, 3, 5}

-----------------------------------------------------------------------------
\* Cron: hours of two minutes, days of one hour, weeks of three days, months
\* of four, years of two months; four years from minute 0.
CONSTANTS Sun, Mon, Tue, Jan, Daily

FieldLow  == [minute |-> 0, hour |-> 0, dom |-> 1, month |-> 1, dow |-> 0]
FieldHigh == [minute |-> 1, hour |-> 0, dom |-> 4, month |-> 2, dow |-> 2]
FieldNames ==
  [f \in DOMAIN FieldLow |->
     CASE f = "dow"   -> Sun :> 0 @@ Mon :> 1 @@ Tue :> 2
       [] f = "month" -> Jan :> 1
       [] OTHER       -> <<>>]
Calendar ==
  [t \in 0 .. 60 |->
     [minute |-> t % 2, hour |-> 0, dom |-> 1 + ((t \div 2) % 4),
      month |-> 1 + ((t \div 8) % 2), weekday |-> (t \div 2) % 3]]

Is(v)           == [from |-> v, to |-> None, step |-> None]
Ranged(v, w, n) == [from |-> v, to |-> w, step |-> n]
Every             == {Is(Star)}
Expression(m, d, mo, w) == [minute |-> m, hour |-> Every, dom |-> d, month |-> mo, dow |-> w]
NamedExpressions == Daily :> Expression({Is(0)}, Every, Every, Every)
Expressions ==
  {Daily} \cup
  {Expression(m, d, mo, w) :
     m  \in {Every, {Is(0)}, {Is(2)}},
     d  \in {Every, {Is(4)}, {Is(1), Is(3)}, {Ranged(Star, None, 2)}, {Ranged(2, 4, 2)},
             {Is(0)}, {Ranged(3, 2, None)}},
     mo \in {Every, {Is(Jan)}},
     w  \in {Every, {Is(0)}, {Is(3)}, {Is(Tue)}, {Ranged(Sun, Mon, None)}, {Ranged(1, 3, None)},
             {Ranged(3, 1, None)}, {Ranged(Blank, None, 2)}, {Ranged(Star, 1, None)}, {Is(Blank)}}}

CronTasks ==
  [kind : {"cron"}, expression : Expressions, after : {0, 9}, count : {0, 1, 3}]

-----------------------------------------------------------------------------
\* Metadata database: every thread has a connection of its own.
CONSTANTS t1, t2, t3, c1, c2, c3

ThreeThreads == {t1, t2, t3}
ThreeConns   == {c1, c2, c3}
Private == [t \in ThreeThreads |-> CASE t = t1 -> c1 [] t = t2 -> c2 [] t = t3 -> c3]

-----------------------------------------------------------------------------
\* Frames: two columns in either spelling, up to two or three rows.
Spellings == {"id", "ID", "qty", "QTY", "x", "X"}
Lowered ==
  [c \in Spellings |-> CASE c \in {"id", "ID"} -> "id" [] c \in {"qty", "QTY"} -> "qty"
                         [] OTHER -> "x"]
Swapped ==
  [c \in Spellings |-> CASE c = "id" -> "ID" [] c = "ID" -> "id" [] c = "qty" -> "QTY"
                         [] c = "QTY" -> "qty" [] c = "x" -> "X" [] OTHER -> "x"]

Frame(cols, types, catalog, rs) ==
  [columns |-> cols, type |-> types, catalog |-> catalog, rows |-> rs]
Frames(cols, cells, n) ==
  {Frame(cols, [c \in ToSet(cols) |-> "INTEGER"], <<>>, rs) :
     rs \in UNION {[1 .. k -> [ToSet(cols) -> cells]] : k \in 0 .. n}}
NoFrame == Frame(<<>>, <<>>, <<>>, <<>>)

Request(kind, s, t, keys, tol) ==
  [kind |-> kind, source |-> s, target |-> t, keys |-> keys, parentKeys |-> <<>>,
   column |-> "qty", function |-> "SUM", sentinels |-> {9}, tolerance |-> tol,
   absolute |-> 0, limit |-> 1]

SchemaFrames(orders) ==
  UNION {{Frame(o, [c \in ToSet(o) |-> IF c \in whole THEN "INTEGER" ELSE "STRING"], cat, <<>>) :
            whole \in SUBSET ToSet(o),
            cat \in {<<>>, [k \in {"id", "qty"} |-> "key"], [k \in {"id"} |-> "plain"]}} :
         o \in orders}

SchemaTasks ==
  {Request("schema", s, t, <<>>, 0) :
     s \in SchemaFrames({<<>>, <<"id">>, <<"id", "qty">>, <<"qty", "id">>}),
     t \in SchemaFrames({<<>>, <<"ID">>, <<"id", "QTY">>, <<"QTY", "ID">>})}

DuplicateTasks ==
  {Request("duplicate", s, NoFrame, keys, 0) :
     s \in Frames(<<"id", "qty">>, {NULL, 1}, 3) \cup Frames(<<"id", "QTY">>, {1, 2}, 3),
     keys \in {<<>>, <<"ID">>, <<"id", "qty">>, <<"x">>}}

NullabilityTasks ==
  {[Request("nullability", s, NoFrame, keys, tol) EXCEPT !.sentinels = sentinels] :
     s \in Frames(<<"id", "qty">>, {NULL, BLANK, 1}, 2), keys \in {<<>>, <<"QTY">>, <<"x">>},
     tol \in {50, 100}, sentinels \in {{9}, {1, BLANK}}}

AggregationTasks ==
  {[Request("aggregation", s, t, keys, 0) EXCEPT !.function = f] :
     s \in Frames(<<"id", "qty">>, {NULL, 1}, 2), t \in Frames(<<"qty", "ID">>, {NULL, 1}, 2),
     keys \in {<<>>, <<"ID">>}, f \in {"SUM", "COUNT", "COUNT_DISTINCT", "MIN", "MAX"}}
  \cup
  {Request("aggregation", s, t, keys, tol) :
     s \in Frames(<<"qty">>, {-2, 2, 3}, 1), t \in Frames(<<"QTY">>, {-2, 2, 3}, 2),
     keys \in {<<>>, <<"x">>}, tol \in {0, 50}}

CountTasks ==
  {[Request("count", s, t, keys, tol) EXCEPT !.absolute = a] :
     s \in Frames(<<"id">>, {NULL, 1, 2}, 2), t \in Frames(<<"ID">>, {NULL, 1, 2}, 3),
     keys \in {<<>>, <<"id">>}, tol \in {0, 50}, a \in {0, 1}}

IntegrityTasks ==
  {[Request("integrity", s, t, keys, tol) EXCEPT !.parentKeys = parents] :
     s \in Frames(<<"id", "qty">>, {NULL, 1}, 2) \cup Frames(<<"id", "qty">>, {1, 2}, 2),
     t \in Frames(<<"ID", "QTY">>, {NULL, 1}, 1) \cup Frames(<<"ID", "QTY">>, {1, 2}, 2),
     keys \in {<<"ID">>, <<"id", "qty">>},
     parents \in {<<"id">>, <<"qty", "id">>}, tol \in {0, 50}}

-----------------------------------------------------------------------------
AlignmentTasks ==
  LET orders == {<<"id">>, <<"id", "qty">>, <<"QTY", "id", "x">>}
  IN  {[Request("alignment", s, t, keys, 0) EXCEPT !.parentKeys = named] :
         s \in UNION {Frames(o, {1}, 0) : o \in orders},
         t \in UNION {Frames(o, {1}, 0) : o \in orders \cup {<<"ID", "QTY">>, <<"X", "ID">>}},
         keys \in {<<>>, <<"ID">>, <<"id", "x">>}, named \in {<<>>, <<"QTY">>, <<"id">>}}

-----------------------------------------------------------------------------
\* Mismatch frames: every pair of different values, two or three rows of them.
Differing(values) == {p \in values \X values : p[1] # p[2]}
Text(word, cut, upper, padded) == [word |-> word, cut |-> cut, upper |-> upper, padded |-> padded]
Texts == {Text("w", cut, u, p) : cut \in {0, 1}, u \in BOOLEAN, p \in BOOLEAN}
           \cup {Text("v", 0, FALSE, FALSE)}

OneColumn(kind, values, n) ==
  {[kind |-> (1 :> kind),
    rows |-> [i \in 1 .. n |-> [columns |-> {1}, cell |-> (1 :> ps[i])]]] :
     ps \in [1 .. n -> Differing(values)]}

TwoColumns ==
  LET pairs == {<<1, 1>>, <<1, 2>>, <<2, 4>>, <<NULL, 2>>}
      cells == {c \in [{1, 2} -> pairs] : \E k \in {1, 2} : c[k] # <<1, 1>>}
  IN  {[kind |-> (1 :> "number" @@ 2 :> "number"),
        rows |-> [i \in 1 .. 2 |-> [columns |-> {k \in {1, 2} : cs[i][k] # <<1, 1>>},
                                    cell |-> cs[i]]]] : cs \in [1 .. 2 -> cells]}

Explain(ms) == [kind : {"mismatches"}, mismatches : ms]

NumberTasks ==
  Explain(OneColumn("number", {NULL, -2, -1, 1, 2, 4}, 2) \cup OneColumn("number", {1, 2, 4}, 3)
            \cup OneColumn("number", {NULL, 1, 2}, 3) \cup OneColumn("number", {0, 1, 16}, 2)
            \cup TwoColumns \cup OneColumn("time", {NULL, 0, 24, 48}, 2))

TextTasks ==
  Explain(OneColumn("text", Texts \cup {NULL}, 1) \cup OneColumn("text", Texts, 2))

RowSetTasks ==
  [kind : {"row-set"}, keys : UNION {[1 .. n -> {NULL, -2, -1, 2, 3, 4, 6, 8}] : n \in 1 .. 3}]

-----------------------------------------------------------------------------
\* Reports: worksheet names of two letters, titles of up to three.
Caseless ==
  [c \in {"a", "A", "b", "/", "_", "Summary", "Sheet"} |-> IF c = "A" THEN "a" ELSE c]
TitlesTried ==
  LET a == Letter("a")
  IN  {<<>>, <<a>>, <<Letter("A")>>, <<a, Suffix(1)>>, <<a, Letter("b"), a>>,
       <<a, Letter("/"), Letter("b")>>, <<Letter("Summary")>>}
Sections(titles, n, counts) ==
  {[i \in 1 .. n |-> Part(ts[i], [k \in 1 .. cs[i] |-> <<i, k>>])] :
     ts \in [1 .. n -> titles], cs \in [1 .. n -> counts]}

ReportTasks ==
  [kind : {"report"}, format : {"EXCEL", "CSV", "PDF", "JSON", "BATCHES"},
   sections : Sections(TitlesTried, 0, {0}) \cup Sections(TitlesTried, 1, 0 .. 5)
                \cup Sections(TitlesTried, 2, {0, 2, 5}) \cup Sections(TitlesTried, 3, {1, 3})]

RunsOf(n) ==
  {[k \in 1 .. n |->
      [label |-> ls[k], id |-> [head |-> hs[k], tail |-> k],
       sections |-> [i \in 1 .. Len(cs[k]) |->
         Part(<<Letter(IF i = 1 THEN "a" ELSE "b")>>, [r \in 1 .. cs[k][i] |-> <<10 * k + i, r>>])]]] :
     ls \in [1 .. n -> {"x", "y"}], hs \in {[k \in 1 .. n |-> k], [k \in 1 .. n |-> 1]},
     cs \in [1 .. n -> {<<>>, <<5>>, <<2, 3>>}]}
ArchiveTasks == [kind : {"archive"}, runs : UNION {RunsOf(n) : n \in 0 .. 3}]

AllTasks ==
  <<CronTasks, SchemaTasks, DuplicateTasks, NullabilityTasks, AggregationTasks, CountTasks,
    IntegrityTasks, AlignmentTasks, NumberTasks, TextTasks, RowSetTasks,
    ReportTasks, ArchiveTasks>>
OnlyMismatches == <<NumberTasks, TextTasks>>

=============================================================================

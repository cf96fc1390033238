------------------------------ MODULE Reports -------------------------------
(***************************************************************************)
(* What ReportingService makes of a report, and RunManagementService of    *)
(* the runs selected for an archive: a document is a sequence of parts     *)
(* (the sheets of a workbook, the blocks of a CSV file, the files of an    *)
(* archive), each with a name and the rows it holds, in order.  A row is   *)
(* its section and its place in it.  A title is a sequence of letters; a   *)
(* numbered suffix, _12, counts as one letter.                             *)
(***************************************************************************)
EXTENDS Integers, FiniteSetsExt, Lists

CONSTANTS
  Width,      \* letters in the name of a worksheet, 31
  SheetRows,  \* EXCEL_MAX_ROWS_PER_SHEET
  BatchRows,  \* DEFAULT_BATCH_ROWS
  PdfRows     \* _PDF_MAX_ROWS_PER_SECTION

ASSUME ReportAssumption ==
  /\ Width \in Nat \ {0, 1}
  /\ SheetRows \in Nat \ {0} /\ BatchRows \in Nat \ {0} /\ PdfRows \in Nat

Letter(text) == [text |-> text, number |-> 0]
Suffix(i)    == [text |-> "_", number |-> i]
Summary      == [name |-> <<Letter("Summary")>>, rows |-> <<>>]

Part(name, rows) == [name |-> name, rows |-> rows]
NamesOf(parts) == {parts[i].name : i \in DOMAIN parts}
UpTo(s, n) == SubSeq(s, 1, Min({n, Len(s)}))

(* Mutant of BatchFrame: only full batches are made.                       *)
BatchFrameOfFull(part, size) ==
  LET n == Len(part.rows)
  IN  IF n <= size THEN <<part>>
      ELSE [k \in 1 .. n \div size |->
              Part(Append(part.name, Suffix(k)),
                   SubSeq(part.rows, (k - 1) * size + 1, Min({k * size, n})))]

(* batch_frame: one batch under its own name, or as many numbered ones as   *)
(* it takes.                                                                *)
BatchFrame(part, size) ==
  LET n == Len(part.rows)
  IN  IF n <= size THEN <<part>>
      ELSE [k \in 1 .. (n + size - 1) \div size |->
              Part(Append(part.name, Suffix(k)),
                   SubSeq(part.rows, (k - 1) * size + 1, Min({k * size, n})))]

Batches(parts, size) == FlattenSeq([i \in DOMAIN parts |-> BatchFrame(parts[i], size)])

(* What a worksheet may not be called by is left out, the rest cut off; a   *)
(* name in use gets the first number that is free.                          *)
UniqueSheetName(title, used) ==
  LET allowed == Among(title, {c \in ToSet(title) : c.text # "/"})
      base == IF allowed = <<>> THEN <<Letter("Sheet")>> ELSE UpTo(allowed, Width)
      numbered(i) == Append(UpTo(base, Width - 1), Suffix(i))
  IN  IF base \notin used THEN base
      ELSE numbered(Min({i \in 1 .. Cardinality(used) + 1 : numbered(i) \notin used}))

AddSheet(sheets, batch) ==
  Append(sheets, Part(UniqueSheetName(batch.name, NamesOf(sheets)), batch.rows))

ToExcel(sections) == FoldLeft(AddSheet, <<Summary>>, Batches(sections, SheetRows))

(* The writer takes names that differ by case only for the same one, and    *)
(* raises.                                                                  *)
ExcelRaises(sections, fold) ==
  LET names == NamesOf(ToExcel(sections))
  IN  Cardinality({[i \in DOMAIN n |-> [n[i] EXCEPT !.text = fold[@]]] : n \in names})
        < Cardinality(names)

ToCsv(sections) ==
  IF Len(sections) = 1 THEN sections ELSE <<Summary>> \o sections

ToPdf(sections) ==
  <<Summary>> \o [i \in DOMAIN sections |-> Part(sections[i].name, UpTo(sections[i].rows, PdfRows))]

(* A dictionary by title, whose order is left open: the last section of a   *)
(* title stands for it.                                                     *)
ToJson(sections) ==
  LET last(i) == \A j \in DOMAIN sections : j > i => sections[j].name # sections[i].name
  IN  Among(sections, {sections[i] : i \in {k \in DOMAIN sections : last(k)}})

ToDownloads(sections) == Batches(sections, BatchRows)

Export(sections, format) ==
  CASE format = "EXCEL" -> ToExcel(sections)
    [] format = "CSV"   -> ToCsv(sections)
    [] format = "PDF"   -> ToPdf(sections)
    [] format = "JSON"  -> ToJson(sections)
    [] format = "BATCHES" -> ToDownloads(sections)

-----------------------------------------------------------------------------
(* A folder for every run: its label, with the first eight characters of the*)
(* run's id, its head, where another run has the label.  What that makes is *)
(* not looked up again.                                                     *)
UniqueFolder(run, used) ==
  LET base == [label |-> run.label, id |-> 0]
  IN  IF base \in used THEN [base EXCEPT !.id = run.id.head] ELSE base

AddRun(folders, run) ==
  Append(folders, UniqueFolder(run, ToSet(folders)))

(* The files of an archive, the manifest aside: a summary for every run and *)
(* its sections, whose titles are taken as sanitize_export_name leaves them.*)
BuildExport(runs) ==
  LET folders == FoldLeft(AddRun, <<>>, runs)
      files(k) == <<Summary>> \o Batches(runs[k].sections, BatchRows)
  IN  FlattenSeq([k \in DOMAIN runs |->
        [i \in DOMAIN files(k) |->
           [folder |-> folders[k], name |-> files(k)[i].name, rows |-> files(k)[i].rows]]])

-----------------------------------------------------------------------------
(* The sections of a report, whose rows are told apart by their place; and  *)
(* the runs of an archive: each is selected once, and the titles its detail *)
(* is saved under are different, not numbered, and not the summary's name.  *)
(* (They are fixed texts in every service but profiling, which names them   *)
(* after columns.)                                                          *)
IsSection(p) == p = [name |-> p.name, rows |-> p.rows] /\ IsList(p.name) /\ IsList(p.rows)

IsReport(sections) ==
  /\ IsList(sections)
  /\ \A i \in DOMAIN sections :
       /\ IsSection(sections[i])
       /\ \A k \in DOMAIN sections[i].rows : sections[i].rows[k] = <<i, k>>

IsSelection(runs) ==
  /\ IsList(runs)
  /\ \A j, k \in DOMAIN runs : runs[j].id = runs[k].id => j = k
  /\ \A k \in DOMAIN runs :
       LET sections == runs[k].sections
       IN  /\ runs[k].id.head # 0
           /\ IsList(sections)
           /\ \A i, j \in DOMAIN sections : sections[i].name = sections[j].name => i = j
           /\ \A i \in DOMAIN sections :
                /\ IsSection(sections[i]) /\ sections[i].name # Summary.name
                /\ \A c \in ToSet(sections[i].name) : c.number = 0

(* The ids of runs with one label, such as the nights of a suite, begin     *)
(* differently.  Two ids drawn by uuid4 begin alike once in 2^32.           *)
HeadsDiffer(runs) ==
  \A j, k \in DOMAIN runs :
    runs[j].label = runs[k].label /\ runs[j].id.head = runs[k].id.head => j = k

(* The rows of a document, its titles, and a list without repetitions.      *)
RowsOf(parts) == FlattenSeq([i \in DOMAIN parts |-> parts[i].rows])
Distinct(parts) == \A i, j \in DOMAIN parts : parts[i] = parts[j] => i = j
Titles(sections) == [i \in DOMAIN sections |-> sections[i].name]

=============================================================================

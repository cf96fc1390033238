----------------------------- MODULE Extraction -----------------------------
(***************************************************************************)
(* A connection from the form that saves it to what is read through it: an *)
(* extraction (DataExtractor.extract), a look into the catalog             *)
(* (get_catalog_columns, get_foreign_keys) or a test of connectivity       *)
(* (ConnectionService.test_connection), one of them per behaviour.  A      *)
(* driver may raise at every call.  The rows of a source are numbered, so  *)
(* that a number of rows stands for the first so many of them.             *)
(***************************************************************************)
EXTENDS ConnectionTypes, FiniteSetsExt

CONSTANTS
  Ceiling,    \* max_records_supported
  Chunk,      \* rows per chunk or batch
  RowLimits,  \* bound: row limits asked for
  Sizes,      \* bound: rows of the sources
  NoLimit

ASSUME CeilingAssumption == Ceiling \in Nat \ {0} /\ Chunk \in Nat \ {0}
ASSUME SizesAssumption   == Sizes \subseteq Nat
ASSUME LimitAssumption   == RowLimits \subseteq {NoLimit} \cup (Nat \ {0})

VARIABLES
  conn,      \* the connection as the repository returns it
  request,   \* what is asked of it
  available, \* rows the source has
  phase, fetched,
  handles,   \* engines, connections and clients that are open
  answer

extraction == <<conn, request, available, phase, fetched, handles, answer>>

Nobody   == [type |-> "SQLite", fields |-> {}]
Nothing  == [kind |-> "none", names |-> {}, limit |-> NoLimit]
Unanswered == [status |-> "none", rows |-> 0]

(* What a request may name: SQL text or a table, a collection, a path, a    *)
(* format; and whether its path has an extension the readers know.          *)
Nameable(connector) ==
  CASE connector \in {"engine", "dbapi"} -> {"sql"}
    [] connector = "mongo"   -> {"collection"}
    [] connector = "storage" -> {"path", "format", "extension"}
    [] connector = "file"    -> {"path"}
Requests(connector) ==
  [kind : {"extract"}, names : SUBSET Nameable(connector), limit : RowLimits]
  \cup [kind : {"inspect", "test"}, names : {{}}, limit : {NoLimit}]

ExtractionInit ==
  /\ conn = Nobody /\ request = Nothing /\ available = 0
  /\ phase = "form" /\ fetched = 0 /\ handles = 0 /\ answer = Unanswered

(* Submitting the form, for a new connection or for one to be edited: what  *)
(* its type does not show stays, the rest is as filled in.                  *)
SubmitForm ==
  /\ phase \in {"form", "saved"}
  /\ \E type \in DatabaseTypes : \E form \in FormsOf(type) : \E filled \in SUBSET form :
       LET entity == [type |-> type, fields |-> (conn.fields \ form) \cup filled]
       IN  Valid(entity) /\ conn' = Stored(entity)
  /\ phase' = "saved"
  /\ UNCHANGED <<request, available, fetched, handles, answer>>

-----------------------------------------------------------------------------
Connector == ConnectorOf(conn.type)
Asks(names) == names \subseteq request.names
Limit == IF request.limit = NoLimit THEN Ceiling ELSE Min({request.limit, Ceiling})

(* The checks before anything is opened: SQL text or a table, a collection, *)
(* a path and a format.                                                     *)
Unanswerable ==
  request.kind = "extract" /\
    CASE Connector \in {"engine", "dbapi"} -> ~Asks({"sql"})
      [] Connector = "mongo" -> ~Asks({"collection"})
      [] OTHER ->
           \/ ~Asks({"path"}) /\ ~Has(conn, {"file_path"})
           \/ Connector = "storage" /\ ~Asks({"format"}) /\ ~Asks({"extension"})

Ask ==
  /\ phase = "saved"
  /\ request' \in Requests(Connector)
  /\ available' \in Sizes
  /\ phase' = "asked"
  /\ UNCHANGED <<conn, fetched, handles, answer>>

End(status, n) ==
  /\ phase' = "ended"
  /\ answer' = [status |-> status, rows |-> n]
  /\ UNCHANGED <<conn, request, available>>

Close == handles' = 0

(* The catalog of what is not behind an engine is not looked into.         *)
NoCatalog == request.kind = "inspect" /\ Connector # "engine"
CanBegin  == ~NoCatalog /\ ~Unanswerable /\ ~ConnectorRefuses(conn)

(* What ends before anything is opened: an extraction or a look into the    *)
(* catalog with an exception, a test with FAIL.                             *)
EndEarly(status) ==
  /\ phase = "asked"
  /\ End(IF request.kind = "test" THEN "FAIL" ELSE status, 0)
  /\ UNCHANGED <<fetched, handles>>

InspectNoCatalog == NoCatalog /\ EndEarly("unknown")
Refuse ==
  ~NoCatalog /\ ~CanBegin /\ EndEarly(IF Unanswerable THEN "unanswerable" ELSE "refused")
ConnectFails == CanBegin /\ EndEarly("raised")

Connect ==
  /\ phase = "asked" /\ CanBegin
  /\ handles' = IF Connector \in {"engine", "dbapi", "mongo"} THEN 1 ELSE 0
  /\ phase' = "open"
  /\ UNCHANGED <<conn, request, available, fetched, answer>>

-----------------------------------------------------------------------------
Reading == phase = "open" /\ request.kind = "extract"

(* A chunk of read_sql or a batch of fetchmany, as long as the limit is not *)
(* reached.                                                                 *)
Fetch ==
  /\ Reading /\ Connector \in {"engine", "dbapi"}
  /\ fetched < Min({Limit, available})
  /\ fetched' = Min({fetched + Chunk, available})
  /\ UNCHANGED <<conn, request, available, phase, handles, answer>>

(* Mutant of HandOut: the batches are handed out as they were fetched.      *)
HandOutUncut ==
  /\ Reading /\ Connector \in {"engine", "dbapi"}
  /\ fetched >= Min({Limit, available})
  /\ Close /\ End("data", fetched) /\ UNCHANGED fetched

(* What was fetched, cut off at the limit; the handle is closed.           *)
HandOut ==
  /\ Reading /\ Connector \in {"engine", "dbapi"}
  /\ fetched >= Min({Limit, available})
  /\ Close /\ End("data", Min({fetched, Limit})) /\ UNCHANGED fetched

(* A cursor of MongoDB with the limit; objects and files are read whole.   *)
ReadWhole == available
ReadAtOnce ==
  /\ Reading /\ Connector \notin {"engine", "dbapi"}
  /\ fetched' = IF Connector = "mongo" THEN Min({Limit, available}) ELSE ReadWhole
  /\ Close /\ End("data", Min({fetched', Limit}))

(* Mutant of ReadRaises: an exception leaves the handle open.               *)
ReadRaisesAway ==
  Reading /\ End("raised", 0) /\ UNCHANGED <<fetched, handles>>

ReadRaises ==
  Reading /\ Close /\ End("raised", 0) /\ UNCHANGED fetched

(* The catalog's answer, or that there is none: no such table, or any       *)
(* exception of the inspection.                                             *)
Inspect ==
  /\ phase = "open" /\ request.kind = "inspect"
  /\ Close /\ (End("catalog", 0) \/ End("unknown", 0)) /\ UNCHANGED fetched

(* A test query: an engine is disposed of only when it succeeded.          *)
TestPasses ==
  phase = "open" /\ request.kind = "test" /\ Close /\ End("PASS", 0) /\ UNCHANGED fetched
TestFails ==
  /\ phase = "open" /\ request.kind = "test"
  /\ handles' = IF Connector = "engine" THEN handles ELSE 0
  /\ End("FAIL", 0) /\ UNCHANGED fetched

ExtractionNext ==
  \/ SubmitForm \/ Ask \/ InspectNoCatalog \/ Refuse \/ ConnectFails \/ Connect
  \/ Fetch \/ HandOut \/ ReadAtOnce \/ ReadRaises
  \/ Inspect \/ TestPasses \/ TestFails

ExtractionSpec == ExtractionInit /\ [][ExtractionNext]_extraction

-----------------------------------------------------------------------------
(* Whatever the source and its chunks, an extraction hands out the first    *)
(* rows up to the limit asked for, and never more than the ceiling of the   *)
(* edition.                                                                 *)
FirstRowsUpToLimit ==
  answer.status = "data" => answer.rows = Min({Limit, available})

(* Reading in chunks holds less than a chunk beyond the limit; and no       *)
(* engine, connection or client stays open behind an answer or an           *)
(* exception, other than the engine of a test that failed.                  *)
NothingLeftOpen ==
  /\ Connector \in {"engine", "dbapi"} => fetched < Limit + Chunk
  /\ phase = "ended" /\ handles # 0 =>
       request.kind = "test" /\ answer.status = "FAIL" /\ Connector = "engine"

(* What the form accepted and saved is a connection its connector accepts.  *)
SavedConnectionsOpen == answer.status # "refused"

=============================================================================

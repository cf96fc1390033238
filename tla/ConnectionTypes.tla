--------------------------- MODULE ConnectionTypes ---------------------------
(***************************************************************************)
(* What datarecon knows of the types of sources: which category a type     *)
(* belongs to, which fields its form fills, which of them _validate wants, *)
(* which of them the repository stores, and which its connector wants.  A  *)
(* connection is its type and the set of its fields that are not blank.    *)
(* The field "options" stands for an entry of extra_options that names the *)
(* whole connection (a MongoDB uri, an ODBC connection_string).            *)
(***************************************************************************)
Relational ==
  {"Oracle", "SQL Server", "DB2", "Informix", "PostgreSQL", "MySQL", "MariaDB", "Snowflake",
   "Synapse", "Azure SQL", "Teradata", "IDMS", "Redshift", "Databricks", "Hive", "Spark",
   "Greenplum", "SAP HANA", "SQLite"}
Storage == {"AWS S3", "Azure Blob Storage", "Azure Data Lake", "Google Cloud Storage"}
Files   == {"Excel", "CSV", "XML", "JSON", "Parquet", "Avro"}
Generic == {"JDBC", "ODBC"}
DatabaseTypes == Relational \cup {"MongoDB"} \cup Storage \cup Files \cup Generic

Azure      == {"Azure Blob Storage", "Azure Data Lake"}
SqlServers == {"SQL Server", "Synapse", "Azure SQL"}

Has(c, fs)  == fs \subseteq c.fields

-----------------------------------------------------------------------------
(* The forms a type has: IDMS is reached through an ODBC driver or through  *)
(* the JDBC bridge, every other type in one way.                            *)
JdbcForm == {"jdbc_url", "driver_class", "username"}
OdbcForm == {"driver", "host", "username", "options"}
FormsOf(type) ==
  CASE type = "SQLite"             -> {{"file_path"}}
    [] type \in Files              -> {{"file_path", "options"}}
    [] type = "AWS S3"             -> {{"bucket", "file_path", "username"}}
    [] type \in Azure              -> {{"bucket", "file_path", "storage_account"}}
    [] type = "Google Cloud Storage" -> {{"bucket", "file_path"}}
    [] type = "MongoDB"            -> {{"host", "username", "options"}}
    [] type = "JDBC"               -> {JdbcForm}
    [] type = "IDMS"               -> {JdbcForm, OdbcForm}
    [] type \in {"ODBC", "Informix"} -> {OdbcForm}
    [] type = "Snowflake"          -> {{"account", "username"}}
    [] type = "Databricks"         -> {{"host", "http_path"}}
    [] type \in SqlServers         -> {{"host", "driver", "username"}}
    [] OTHER                       -> {{"host", "username"}}

(* ConnectionService._validate.                                            *)
Valid(c) ==
  CASE c.type = "SQLite"     -> Has(c, {"file_path"})
    [] c.type = "Snowflake"  -> Has(c, {"account", "username"})
    [] c.type = "Databricks" -> Has(c, {"host", "http_path"})
    [] c.type = "JDBC" \/ (c.type = "IDMS" /\ Has(c, {"jdbc_url"})) ->
         Has(c, {"jdbc_url", "driver_class"})
    [] c.type \in {"ODBC", "Informix", "IDMS"} -> Has(c, {"driver"})
    [] c.type \in Files      -> Has(c, {"file_path"})
    [] c.type \in Storage    ->
         Has(c, {"bucket"}) /\ (c.type \in Azure => Has(c, {"storage_account"}))
    [] c.type = "MongoDB"    -> Has(c, {"host"}) \/ Has(c, {"options"})
    [] OTHER                 -> Has(c, {"host", "username"})

(* A connection as it comes back: the statements of the repository leave    *)
(* out the fields driver_class, jdbc_url, http_path, bucket,                *)
(* storage_account and extra_options, for which the table has columns.      *)
StoredFields == {"host", "username", "account", "driver", "file_path"}
Stored(c)    == [c EXCEPT !.fields = @ \cap StoredFields]

-----------------------------------------------------------------------------
(* Who reads a connection: an engine of SQLAlchemy where the factory has a  *)
(* builder for the type, the raw drivers for what is left of SQL.           *)
EngineTypes == Relational \ {"Informix", "IDMS"}
ConnectorOf(type) ==
  CASE type \in EngineTypes -> "engine"
    [] type = "MongoDB"     -> "mongo"
    [] type \in Storage     -> "storage"
    [] type \in Files       -> "file"
    [] OTHER                -> "dbapi"

(* The builders that check a field before they create an engine.           *)
BuilderRefuses(c) ==
  \/ c.type = "SQLite" /\ ~Has(c, {"file_path"})
  \/ c.type = "Snowflake" /\ ~Has(c, {"account"})
  \/ c.type = "Databricks" /\ ~Has(c, {"http_path"})

(* The raw drivers go by the JDBC URL first, whatever the type.            *)
JdbcRefuses(c) == ~Has(c, {"jdbc_url", "driver_class"})
OdbcRefuses(c) == ~Has(c, {"options"}) /\ ~Has(c, {"driver"})
DbapiRefuses(c) ==
  IF c.type = "JDBC" \/ Has(c, {"jdbc_url"}) THEN JdbcRefuses(c) ELSE OdbcRefuses(c)

StorageRefuses(c) ==
  ~Has(c, {"bucket"}) \/ (c.type \in Azure /\ ~Has(c, {"storage_account"}))

ConnectorRefuses(c) ==
  CASE ConnectorOf(c.type) = "engine"  -> BuilderRefuses(c)
    [] ConnectorOf(c.type) = "dbapi"   -> DbapiRefuses(c)
    [] ConnectorOf(c.type) = "storage" -> StorageRefuses(c)
    [] OTHER -> FALSE

=============================================================================

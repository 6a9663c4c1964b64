---------------------------- MODULE SqlDatabases ----------------------------
(***************************************************************************)
(* Start-up and clean-up of the SQL databases of the Core:               *)
(* PrepareSQLDatabases (src/framework/core_svc_sqldb.go) reads            *)
(* config/.sql-databases.json, builds and Inits one client per database   *)
(* (in Go map order), then fills the dialect's raw statement store from   *)
(* the embedded SQL files; ResourceCleanUp                                *)
(* (src/framework/core_resource_cleanup.go) closes the clients of         *)
(* c.SQLDBClients.  Every file, sqldb.New, Init or loader call is one     *)
(* step and may fail; the first error ends PrepareSQLDatabases.           *)
(*                                                                         *)
(* A configuration is a function from database names to dialects.  Only  *)
(* the mysql loader is under src/; the pgsql one is a call that succeeds  *)
(* or fails.                                                              *)
(***************************************************************************)
EXTENDS RawStmts, FiniteSets

CONSTANTS
  SqlConfSets, \* the contents .sql-databases.json can have
  SqlFSs       \* the SQL file systems the binary may embed

VARIABLES
  sqlConfs,    \* c.SQLDBConfs (<<>> before it is read)
  sqlPc,       \* the step of PrepareSQLDatabases: confs, new, init,
               \* mysql, pgsql, ok (returned nil) or err (returned an error);
               \* then of ResourceCleanUp: cleanup, closed
  pending,     \* databases the client loop, or the Close loop, has not reached yet
  dbCur,       \* the database whose client the loop is preparing
  client,      \* every client sqldb.New made: new, ready (Init) or closed
  sqlClients,  \* the names in c.SQLDBClients
  sqlFS,       \* the embedded SQL file system
  rawStore     \* the mysql package's rawStmtStore

sqlDbVars == <<sqlConfs, sqlPc, pending, dbCur, client, sqlClients, sqlFS, rawStore>>

\* The DBTypesSet of PrepareSQLDatabases.
DBTypesSet == { sqlConfs[d] : d \in DOMAIN sqlConfs }

\* The statement files of the walk, in walk order.
StmtFiles(fs) == SelectSeq(WalkDir(fs), LAMBDA p : Ext(p) \in {DBType, "sql"})

\* The store after fs.ReadFile fails on the i-th statement file: the
\* callback returns the error, so WalkDir stops with the files before it
\* loaded.
LoadRawStmtsFailingAt(fs, i) ==
  FoldLeft(Visit, NewRawStore, SelectSeq(WalkDir(fs), LAMBDA p :
    \E j \in 1..(i - 1) : StmtFiles(fs)[j] = p))

\* An error return of PrepareSQLDatabases.
SqlFail == sqlPc' = "err" /\ UNCHANGED <<sqlConfs, pending, dbCur, sqlClients, rawStore>>

-----------------------------------------------------------------------------
(* Plausible faults                                                        *)

\* ResourceCleanUp's loop ending with one client of the map left.
CloseStopsShort ==
  /\ sqlPc = "cleanup"
  /\ \/ \E d \in pending : client' = [client EXCEPT ![d] = "closed"] /\ pending' = pending \ {d}
                             /\ UNCHANGED sqlPc
     \/ Cardinality(pending) <= 1 /\ sqlPc' = "closed" /\ UNCHANGED <<client, pending>>
  /\ UNCHANGED <<sqlConfs, dbCur, sqlClients, sqlFS, rawStore>>

-----------------------------------------------------------------------------
\* loadSQLDBConfs: a read or an Unmarshal error is returned; with no
\* dialect configured PrepareSQLDatabases returns nil with no client map.
LoadSQLDBConfs ==
  /\ sqlPc = "confs"
  /\ \/ \E c \in SqlConfSets :
          /\ sqlConfs' = c
          /\ pending' = DOMAIN c
          /\ sqlPc' = IF { c[d] : d \in DOMAIN c } = {} THEN "ok" ELSE "new"
          /\ UNCHANGED <<dbCur, sqlClients, rawStore>>
     \/ SqlFail
  /\ UNCHANGED <<client, sqlFS>>

\* One iteration of prepareSQLDBClients: sqldb.New for a database the
\* map iteration reaches next; its error is returned.
NewClient ==
  /\ sqlPc = "new"
  /\ \E d \in pending :
       \/ /\ client' = (d :> "new") @@ client
          /\ dbCur' = d /\ sqlPc' = "init"
          /\ UNCHANGED <<sqlConfs, pending, sqlClients, rawStore>>
       \/ SqlFail /\ UNCHANGED client
  /\ UNCHANGED sqlFS

\* dbClient.Init(): on error it returns, leaving the client made by New
\* open and out of c.SQLDBClients; otherwise the client is stored.
InitClient ==
  /\ sqlPc = "init"
  /\ \/ /\ client' = [client EXCEPT ![dbCur] = "ready"]
        /\ sqlClients' = sqlClients \cup {dbCur}
        /\ pending' = pending \ {dbCur}
        /\ sqlPc' = IF pending' = {} THEN "mysql" ELSE "new"
        /\ UNCHANGED <<sqlConfs, dbCur, rawStore>>
     \/ SqlFail /\ UNCHANGED client
  /\ UNCHANGED sqlFS

\* mysql.LoadRawStmtsToStore when a database is mysql: the walk fills the
\* store, or a statement file's read fails part-way.
LoadMysqlStmts ==
  /\ sqlPc = "mysql"
  /\ \/ "mysql" \notin DBTypesSet /\ sqlPc' = "pgsql" /\ UNCHANGED rawStore
     \/ "mysql" \in DBTypesSet /\ rawStore' = LoadRawStmtsToStore(sqlFS) /\ sqlPc' = "pgsql"
     \/ /\ "mysql" \in DBTypesSet
        /\ \E i \in 1..Len(StmtFiles(sqlFS)) : rawStore' = LoadRawStmtsFailingAt(sqlFS, i)
        /\ sqlPc' = "err"
  /\ UNCHANGED <<sqlConfs, pending, dbCur, client, sqlClients, sqlFS>>

\* pgsql.LoadRawStmtsToStore when a database is pgsql: nil or an error.
LoadPgsqlStmts ==
  /\ sqlPc = "pgsql"
  /\ \/ "pgsql" \notin DBTypesSet /\ sqlPc' = "ok"
     \/ "pgsql" \in DBTypesSet /\ sqlPc' \in {"ok", "err"}
  /\ UNCHANGED <<sqlConfs, pending, dbCur, client, sqlClients, sqlFS, rawStore>>

\* ResourceCleanUp, run when PrepareSQLDatabases has returned: its loop
\* ranges over c.SQLDBClients.
ResourceCleanUp ==
  /\ sqlPc \in {"ok", "err"}
  /\ pending' = sqlClients /\ sqlPc' = "cleanup"
  /\ UNCHANGED <<sqlConfs, dbCur, client, sqlClients, sqlFS, rawStore>>

\* One iteration of ResourceCleanUp's loop, in map order: Close (an
\* error is only logged); the loop ends when every client was visited.
CloseClient ==
  /\ sqlPc = "cleanup"
  /\ \/ \E d \in pending : client' = [client EXCEPT ![d] = "closed"] /\ pending' = pending \ {d}
                             /\ UNCHANGED sqlPc
     \/ pending = {} /\ sqlPc' = "closed" /\ UNCHANGED <<client, pending>>
  /\ UNCHANGED <<sqlConfs, dbCur, sqlClients, sqlFS, rawStore>>

\* The process at start: the package-level rawStmtStore is empty.
SqlInit ==
  /\ sqlConfs = <<>> /\ sqlPc = "confs" /\ pending = {} /\ dbCur = ""
  /\ client = <<>> /\ sqlClients = {}
  /\ sqlFS \in SqlFSs /\ rawStore = NewRawStore

PrepareSQLDatabases == LoadSQLDBConfs \/ NewClient \/ InitClient \/ LoadMysqlStmts \/ LoadPgsqlStmts

=============================================================================

------------------------------ MODULE Migration ------------------------------
(***************************************************************************)
(* How the server opens its database: the import of the snapshot an older   *)
(* version left as a JSON file, the schema script, and _migrate_schema.     *)
(*                                                                         *)
(* A statement that changes the schema is committed at once, unless a row   *)
(* was written before it: writing a row opens the transaction, and all that *)
(* follows belongs to it until the commit.  The server may die between any  *)
(* two statements, and is started again by its supervisor.                 *)
(*                                                                         *)
(* Of the data, the model keeps what the migrations rewrite: the flag       *)
(* can_work, and what is known of clusters and their members.  Addresses    *)
(* are moved as ready flags are, keys and workers are copied as they are.   *)
(***************************************************************************)
EXTENDS Naturals, Sequences, FiniteSets, Functions

CONSTANTS
  Account,     \* accounts
  Worker,      \* workers
  Cluster,     \* clusters
  Null,        \* the NULL of SQL, and None
  Past,        \* the contents an older version may have left
  MaxCrashes   \* bound: deaths of the process

\* A cluster as the store reads it, and the lack of one.
NoCluster == [status |-> "none", ring |-> <<>>, ready |-> {}, windows |-> Null]

IsInfo(info) ==
  \/ info = NoCluster
  \/ /\ DOMAIN info = DOMAIN NoCluster
     /\ info.status \in {"assembling", "live", "terminated"}
     /\ info.ring \in Seq(Worker) /\ IsInjective(info.ring)
     /\ info.ready \subseteq Range(info.ring)
     /\ \/ info.windows = Null
        \/ \E S \in SUBSET Range(info.ring) : info.windows \in [S -> Nat]

ASSUME NullAssumption == \A S \in SUBSET Worker : Null \notin [S -> Nat]
ASSUME NullIsNoNumber == Null \notin Nat
ASSUME CrashAssumption == MaxCrashes \in Nat

ASSUME PastAssumption ==
  \A past \in Past :
    /\ past.accounts \subseteq Account
    /\ \A c \in Cluster : IsInfo(past.clusters[c])

Permission == {"is_admin", "can_work", "can_use", "banned"}
Blobs == {"members_json", "ready_json", "layer_windows_json"}
Script == <<"accounts", "api_keys", "clusters", "cluster_members", "workers", "requests">>
Table == Range(Script)

\* The columns the script gives a table that it creates.
ColumnsOf(table) ==
  CASE table = "accounts" -> Permission
    [] table = "api_keys" -> {"worker_id"}
    [] table = "clusters" -> {"distribution_reported"}
    [] OTHER -> {}

Current == Permission \cup {"worker_id", "distribution_reported"}

\* The columns of the databases of earlier versions, of those that changed since.
Release == [
  v03 |-> {"members_json", "ready_json"},
  v04 |-> {"members_json", "ready_json", "worker_id"},
  v05 |-> Blobs \cup {"worker_id"},
  v06 |-> {"worker_id", "distribution_reported"}]

VARIABLES
  snapshot,  \* the JSON file: what kind it is, and the content it holds
  file,      \* whether the database file exists
  disk,      \* the database, as last committed
  conn,      \* the database, as the open connection sees it
  tx,        \* whether a transaction is open
  seen,      \* the columns last read with PRAGMA table_info
  pc,        \* the statement the server is at
  crashes    \* the deaths so far

vars == <<snapshot, file, disk, conn, tx, seen, pc, crashes>>

\* A row of clusters: in the old shape with blobs, in the new one with rows of
\* cluster_members.
NoRow == [status |-> "none", blobs |-> Null, reported |-> FALSE, members |-> <<>>]

EmptyDb == [tables |-> {}, cols |-> {}, accounts |-> {}, canWork |-> {},
            clusters |-> [c \in Cluster |-> NoRow]]

-----------------------------------------------------------------------------
(* What a database says, in either shape.                                  *)

\* A live cluster of a version that knew no layer windows has unknown ones.
Known(status, windows) == IF status = "live" /\ windows = Null THEN <<>> ELSE windows

\* The rows of a cluster's members, made of the lists it was stored as.
MembersOf(ring, ready, windows) ==
  [w \in Range(ring) |->
    [at     |-> CHOOSE i \in DOMAIN ring : ring[i] = w,
     ready  |-> w \in ready,
     window |-> IF windows # Null /\ w \in DOMAIN windows THEN windows[w] ELSE Null]]

Load(row) ==
  [status  |-> row.status,
   ring    |-> [i \in {row.members[w].at : w \in DOMAIN row.members} |->
                  CHOOSE w \in DOMAIN row.members : row.members[w].at = i],
   ready   |-> {w \in DOMAIN row.members : row.members[w].ready},
   windows |-> IF row.reported
               THEN [w \in {v \in DOMAIN row.members : row.members[v].window # Null}
                       |-> row.members[w].window]
               ELSE Null]

LoadBlobs(row) ==
  [status |-> row.status, ring |-> row.blobs.ring, ready |-> row.blobs.ready,
   windows |-> Known(row.status, row.blobs.windows)]

Content(db) ==
  [accounts |-> db.accounts,
   canWork  |-> IF "can_work" \in db.cols THEN db.canWork ELSE db.accounts,
   clusters |-> [c \in Cluster |->
                   CASE db.clusters[c] = NoRow -> NoCluster
                     [] db.clusters[c] # NoRow /\ "members_json" \in db.cols
                          -> LoadBlobs(db.clusters[c])
                     [] OTHER -> Load(db.clusters[c])]]

-----------------------------------------------------------------------------
(* Statements.                                                             *)

\* A change of the schema, part of the transaction if there is one.
Define(db) ==
  /\ conn' = db
  /\ disk' = IF tx THEN disk ELSE db
  /\ UNCHANGED <<snapshot, file, tx, seen, crashes>>

\* A change of rows.
Write(db) ==
  /\ conn' = db
  /\ tx' = TRUE
  /\ UNCHANGED <<snapshot, file, disk, seen, crashes>>

\* No change at all.
Pass == UNCHANGED <<snapshot, file, disk, conn, tx, seen, crashes>>

\* The end of the process, by an exception or otherwise: the open transaction is lost.
Stop ==
  /\ pc' = "down"
  /\ tx' = FALSE
  /\ conn' = disk

Raise == Stop /\ UNCHANGED <<snapshot, file, disk, seen, crashes>>

\* ALTER TABLE ... ADD COLUMN with a default that makes the database `db`.
AddColumn(col, db, next) ==
  IF col \in conn.cols THEN Raise
  ELSE Define([db EXCEPT !.cols = @ \cup {col}]) /\ pc' = next

\* CREATE TABLE IF NOT EXISTS, for the first table that does not exist.
CreateTable ==
  \E i \in DOMAIN Script :
    /\ Script[i] \notin conn.tables
    /\ \A j \in DOMAIN Script : j < i => Script[j] \in conn.tables
    /\ Define([conn EXCEPT !.tables = @ \cup {Script[i]},
                           !.cols = @ \cup ColumnsOf(Script[i])])
    /\ UNCHANGED pc

ScriptDone == Table \subseteq conn.tables

-----------------------------------------------------------------------------
(* The import, before the database is opened.                              *)

\* The second look for a snapshot finds the same file and fails the same way.
Start ==
  /\ pc = "down"
  /\ pc' = IF ~file /\ snapshot.kind # "none" THEN "read" ELSE "connect"
  /\ Pass

\* A file that cannot be read is logged and passed over.
ReadSnapshot ==
  /\ pc = "read"
  /\ IF snapshot.kind = "unreadable"
     THEN pc' = "connect" /\ UNCHANGED file
     ELSE pc' = "import script" /\ file' = TRUE
  /\ UNCHANGED <<snapshot, disk, conn, tx, seen, crashes>>

ImportScript ==
  /\ pc = "import script"
  /\ IF ScriptDone THEN pc' = "import rows" /\ Pass ELSE CreateTable

ImportedRow(c) ==
  LET info == snapshot.clusters[c]
      windows == Known(info.status, info.windows) IN
  IF info = NoCluster THEN NoRow
  ELSE [status |-> info.status, blobs |-> Null, reported |-> windows # Null,
        members |-> MembersOf(info.ring, info.ready, windows)]

\* All rows of the snapshot, or an exception at one that does not fit.
ImportRows ==
  /\ pc = "import rows"
  /\ IF snapshot.kind = "damaged" THEN Raise
     ELSE /\ Write([conn EXCEPT !.accounts = snapshot.accounts,
                                !.canWork = snapshot.accounts,
                                !.clusters = [c \in Cluster |-> ImportedRow(c)]])
          /\ pc' = "import commit"

ImportCommit ==
  /\ pc = "import commit"
  /\ disk' = conn
  /\ tx' = FALSE
  /\ pc' = "connect"
  /\ UNCHANGED <<snapshot, file, conn, seen, crashes>>

-----------------------------------------------------------------------------
(* Opening the database, and bringing it up to date.                       *)

Connect ==
  /\ pc = "connect"
  /\ file' = TRUE
  /\ pc' = "script"
  /\ UNCHANGED <<snapshot, disk, conn, tx, seen, crashes>>

RunScript ==
  /\ pc = "script"
  /\ IF ScriptDone THEN pc' = "keys" /\ Pass ELSE CreateTable

\* (mutant) the column is added whether it is there or not.
AlwaysBindKeys == pc = "keys" /\ AddColumn("worker_id", conn, "clusters")

\* v0.4
BindKeys ==
  /\ pc = "keys"
  /\ IF "worker_id" \in conn.cols THEN pc' = "clusters" /\ Pass
     ELSE AddColumn("worker_id", conn, "clusters")

\* Reads the columns once: `members_json` tells a version before v0.6.
LookAtClusters ==
  /\ pc = "clusters"
  /\ seen' = conn.cols
  /\ pc' = IF "members_json" \in conn.cols THEN "windows" ELSE "accounts"
  /\ UNCHANGED <<snapshot, file, disk, conn, tx, crashes>>

\* v0.5
AddWindows ==
  /\ pc = "windows"
  /\ IF "layer_windows_json" \in seen THEN pc' = "backfill" /\ Pass
     ELSE AddColumn("layer_windows_json", conn, "backfill")

Filled(row) ==
  IF row = NoRow THEN NoRow ELSE [row EXCEPT !.blobs.windows = Known(row.status, @)]

\* Opens the transaction, whether it finds a row to change or not.
Backfill ==
  /\ pc = "backfill"
  /\ Write([conn EXCEPT !.clusters = [c \in Cluster |-> Filled(@[c])]])
  /\ pc' = "reported"

\* v0.6
AddReported ==
  /\ pc = "reported"
  /\ IF "distribution_reported" \in seen THEN pc' = "populate" /\ Pass
     ELSE AddColumn("distribution_reported", conn, "populate")

Lifted(row) ==
  IF row = NoRow THEN NoRow
  ELSE [row EXCEPT !.members = MembersOf(row.blobs.ring, row.blobs.ready, row.blobs.windows),
                   !.reported = row.blobs.windows # Null]

Populate ==
  /\ pc = "populate"
  /\ Write([conn EXCEPT !.clusters = [c \in Cluster |-> Lifted(@[c])]])
  /\ pc' = "drop"

\* The columns are dropped one by one, all in the transaction.
DropBlobs ==
  /\ pc = "drop"
  /\ Define([conn EXCEPT !.cols = @ \ Blobs,
                         !.clusters = [c \in Cluster |-> [@[c] EXCEPT !.blobs = Null]]])
  /\ pc' = "accounts"

LookAtAccounts ==
  /\ pc = "accounts"
  /\ seen' = conn.cols
  /\ pc' = "is_admin"
  /\ UNCHANGED <<snapshot, file, disk, conn, tx, crashes>>

After == [is_admin |-> "can_work", can_work |-> "can_use", can_use |-> "banned",
          banned |-> "commit"]

\* (mutant) one look decides for all four columns.
AddAllOrNone(p) ==
  /\ pc = p
  /\ IF "is_admin" \in seen THEN pc' = After[p] /\ Pass
     ELSE AddColumn(p, [conn EXCEPT !.canWork = IF p = "can_work" THEN conn.accounts ELSE @],
                    After[p])

\* (mutant) accounts get the permissions of a new database.
AddWithNewDefault(p) ==
  /\ pc = p
  /\ IF p \in seen THEN pc' = After[p] /\ Pass ELSE AddColumn(p, conn, After[p])

\* v0.7: the accounts that are there may go on working.
AddPermission(p) ==
  /\ pc = p
  /\ IF p \in seen THEN pc' = After[p] /\ Pass
     ELSE AddColumn(p, [conn EXCEPT !.canWork = IF p = "can_work" THEN conn.accounts ELSE @],
                    After[p])

Commit ==
  /\ pc = "commit"
  /\ disk' = conn
  /\ tx' = FALSE
  /\ pc' = "serving"
  /\ UNCHANGED <<snapshot, file, conn, seen, crashes>>

-----------------------------------------------------------------------------
(* What a server that is up does to what is kept here, and its death.      *)

Operate(db) ==
  /\ pc = "serving"
  /\ conn' = db
  /\ disk' = db
  /\ UNCHANGED <<snapshot, file, tx, seen, pc, crashes>>

CreateAccount(a) ==
  /\ a \notin conn.accounts
  /\ Operate([conn EXCEPT !.accounts = @ \cup {a}])

GrantWork(a) ==
  /\ a \in conn.accounts
  /\ Operate([conn EXCEPT !.canWork = @ \cup {a}])

RevokeWork(a) ==
  /\ a \in conn.accounts
  /\ Operate([conn EXCEPT !.canWork = @ \ {a}])

\* The head reports an unknown distribution, which may be what was missing.
ReportUnknown(c) ==
  /\ conn.clusters[c].status \in {"assembling", "live"}
  /\ LET row == conn.clusters[c]
         allReady == \A w \in DOMAIN row.members : row.members[w].ready IN
     Operate([conn EXCEPT !.clusters[c] =
       [row EXCEPT !.reported = TRUE,
                   !.status = IF allReady THEN "live" ELSE @,
                   !.members = [w \in DOMAIN @ |-> [@[w] EXCEPT !.window = Null]]]])

Crash ==
  /\ pc # "down"
  /\ crashes < MaxCrashes
  /\ crashes' = crashes + 1
  /\ Stop
  /\ UNCHANGED <<snapshot, file, disk, seen>>

-----------------------------------------------------------------------------
OldRow(info, cols) ==
  IF info = NoCluster THEN NoRow
  ELSE IF "members_json" \in cols
       THEN [status |-> info.status, reported |-> FALSE, members |-> <<>>,
             blobs |-> [ring |-> info.ring, ready |-> info.ready,
                        windows |-> IF "layer_windows_json" \in cols
                                    THEN Known(info.status, info.windows) ELSE Null]]
       ELSE [status |-> info.status, blobs |-> Null,
             reported |-> Known(info.status, info.windows) # Null,
             members |-> MembersOf(info.ring, info.ready, Known(info.status, info.windows))]

\* The database an older version left.
Left(past, cols) ==
  [tables |-> IF "members_json" \in cols THEN Table \ {"cluster_members"} ELSE Table,
   cols |-> cols, accounts |-> past.accounts, canWork |-> {},
   clusters |-> [c \in Cluster |-> OldRow(past.clusters[c], cols)]]

NoSnapshot == [kind |-> "none", accounts |-> {}, clusters |-> [c \in Cluster |-> NoCluster]]

Init ==
  /\ \/ /\ file = FALSE
        /\ disk = EmptyDb
        /\ snapshot \in {NoSnapshot} \cup
             {[kind |-> k, accounts |-> past.accounts, clusters |-> past.clusters] :
                k \in {"good", "damaged", "unreadable"}, past \in Past}
     \/ /\ file = TRUE
        /\ \E past \in Past, version \in DOMAIN Release : disk = Left(past, Release[version])
        /\ snapshot = NoSnapshot
  /\ conn = disk
  /\ tx = FALSE
  /\ seen = {}
  /\ pc = "down"
  /\ crashes = 0

Import == Start \/ ReadSnapshot \/ ImportScript \/ ImportRows \/ ImportCommit

Upgrade ==
  \/ Connect \/ RunScript \/ BindKeys
  \/ LookAtClusters \/ AddWindows \/ Backfill \/ AddReported \/ Populate \/ DropBlobs
  \/ LookAtAccounts \/ (\E p \in Permission : AddPermission(p)) \/ Commit

Operation ==
  \/ \E a \in Account : CreateAccount(a) \/ GrantWork(a) \/ RevokeWork(a)
  \/ \E c \in Cluster : ReportUnknown(c)

Next == Import \/ Upgrade \/ Operation \/ Crash

\* The supervisor starts a server that has ended; a server that is starting
\* goes on, waiting for nobody.
Fairness == WF_vars(Import \/ Upgrade)

Spec == Init /\ [][Next]_vars

FairSpec == Spec /\ Fairness

-----------------------------------------------------------------------------
(* Properties.                                                             *)

SnapshotContent ==
  [accounts |-> snapshot.accounts,
   canWork  |-> snapshot.accounts,
   clusters |-> [c \in Cluster |->
                   [snapshot.clusters[c] EXCEPT !.windows = Known(snapshot.clusters[c].status, @)]]]

\* Whatever start-ups, upgrades and deaths come between two operations of the
\* server, the committed database says the same throughout: every account keeps
\* its rights, every cluster its members, their order, readiness and windows.
\* The one exception is an import, which lands in an empty database, and whole.
ContentKept ==
  [][\/ pc = "serving"
     \/ Content(disk') = Content(disk)
     \/ Content(disk) = Content(EmptyDb) /\ Content(disk') = SnapshotContent]_vars

\* A server serves from a database that has every table and column of its
\* version and no older one, whatever an earlier start left behind, with nothing
\* uncommitted, and every live cluster has a distribution.
ServesCurrent ==
  pc = "serving" =>
    /\ conn = disk /\ ~tx
    /\ Table \subseteq disk.tables
    /\ disk.cols = Current
    /\ \A c \in Cluster : disk.clusters[c].status = "live" => disk.clusters[c].reported

\* A server that is down is up again, whatever its last start left behind: no
\* statement of the migrations fails on what an earlier run has done already.
StartsAgain == (pc = "down") ~> (pc = "serving")

\* "The JSON snapshot is migrated into it once": the accounts of a snapshot are
\* in the database a server serves from.
SnapshotImported ==
  pc = "serving" /\ snapshot.kind = "good" => snapshot.accounts \subseteq disk.accounts

-----------------------------------------------------------------------------
(* The inductive invariant.                                                *)

\* A row of clusters in the old shape, and in the new one.
IsRow(row) ==
  /\ row = [status |-> row.status, blobs |-> row.blobs, reported |-> row.reported,
            members |-> row.members]
  /\ row.status \in {"assembling", "live", "terminated"}

IsOld(row) ==
  /\ IsRow(row)
  /\ row.blobs = [ring |-> row.blobs.ring, ready |-> row.blobs.ready,
                  windows |-> row.blobs.windows]
  /\ IsInfo(LoadBlobs(row))

IsNew(row) == IsRow(row) /\ (row.status = "live" => row.reported)

\* What every database is, whenever it is looked at.
Sound(db) ==
  /\ db = [tables |-> db.tables, cols |-> db.cols, accounts |-> db.accounts,
           canWork |-> db.canWork, clusters |-> db.clusters]
  /\ db.cols \subseteq Current \cup Blobs
  /\ db.cols \cap Blobs # {} => "members_json" \in db.cols
  /\ "accounts" \notin db.tables => db.accounts = {} /\ db.canWork = {}
  /\ "clusters" \in db.tables /\ "members_json" \notin db.cols
       => "distribution_reported" \in db.cols
  /\ db.clusters = [c \in Cluster |-> db.clusters[c]]
  /\ \A c \in Cluster :
       \/ db.clusters[c] = NoRow
       \/ IF "members_json" \in db.cols THEN IsOld(db.clusters[c]) ELSE IsNew(db.clusters[c])

\* Until the import, or the first connection, nothing has been written.
Unwritten ==
  /\ ~file => pc \in {"down", "read", "connect"} /\ disk = EmptyDb
  /\ pc = "read" => ~file
  /\ pc \in {"import script", "import rows", "import commit"} =>
       /\ disk.accounts = {} /\ disk.canWork = {}
       /\ \A c \in Cluster : disk.clusters[c] = NoRow
       /\ "members_json" \notin disk.cols
  /\ \A c \in Cluster : IsInfo(snapshot.clusters[c])

\* Where a transaction may be open.
Writing == {"import commit", "reported", "populate", "drop", "accounts", "commit"}
             \cup Permission

\* The open connection sees what is committed, or says the same, unless it has
\* imported a snapshot.
Agrees ==
  /\ ~tx => conn = disk
  /\ tx => pc \in Writing
  /\ IF pc = "import commit" THEN Content(conn) = SnapshotContent
     ELSE Content(conn) = Content(disk)

Rebuilding == {"windows", "backfill", "reported", "populate", "drop"}

\* The columns that are there once a permission is up.
Before == [
  is_admin |-> {},
  can_work |-> {"is_admin"},
  can_use  |-> {"is_admin", "can_work"},
  banned   |-> {"is_admin", "can_work", "can_use"},
  commit   |-> Permission,
  serving  |-> Permission]

\* Each statement meets the schema the ones before it leave.
Staged ==
  /\ pc \in {"import rows", "import commit", "keys", "clusters", "accounts"}
           \cup Rebuilding \cup DOMAIN Before
       => ScriptDone
  /\ pc \in {"clusters", "accounts"} \cup Rebuilding \cup DOMAIN Before
       => "worker_id" \in conn.cols
  /\ pc \in Rebuilding => "members_json" \in conn.cols
  /\ pc \in Rebuilding \cup Permission => seen \subseteq conn.cols
  /\ pc \in {"populate", "drop"} => "distribution_reported" \in conn.cols
  /\ pc \in {"import commit", "accounts"} \cup DOMAIN Before => "members_json" \notin conn.cols
  /\ pc \in DOMAIN Before => Before[pc] \subseteq conn.cols

\* The members' rows say what the blobs say.
HasMembers(row) ==
  /\ row.members = MembersOf(row.blobs.ring, row.blobs.ready, row.blobs.windows)
  /\ row.reported = (row.blobs.windows # Null)

\* While clusters are rebuilt: their windows are filled in, then their members
\* have rows.
Rebuilt ==
  \A c \in Cluster :
    LET row == conn.clusters[c] IN
    row # NoRow =>
      /\ pc \in {"reported", "populate", "drop"}
           => row.blobs.windows = Known(row.status, row.blobs.windows)
      /\ pc = "drop" => HasMembers(row)

IInv ==
  /\ Sound(disk)
  /\ Sound(conn)
  /\ Unwritten
  /\ Agrees
  /\ Staged
  /\ Rebuilt
=============================================================================

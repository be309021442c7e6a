--------------------------- MODULE MigrationProofs ---------------------------
(***************************************************************************)
(* What start-ups keep, proved of Migration for every content a database or *)
(* a snapshot may have and any number of deaths.                           *)
(***************************************************************************)
EXTENDS Migration, TLAPS

-----------------------------------------------------------------------------
(* Data.                                                                   *)

\* What the windows of a cluster may be: unknown, or those of some members.
Windows(S) == {Null} \cup UNION {[T -> Nat] : T \in SUBSET S}

\* No windows at all are not unknown ones.
LEMMA NoWindows ==
  /\ <<>> # Null
  /\ \A S : <<>> \in Windows(S)
<1>1. <<>> \in [{} -> Nat]
  OBVIOUS
<1>2. <<>> # Null
  BY <1>1, NullAssumption
<1>3. QED
  BY <1>1, <1>2 DEF Windows

\* What is filled in is filled.
LEMMA KnownIsKnown ==
  ASSUME NEW status, NEW S, NEW windows \in Windows(S)
  PROVE  /\ Known(status, windows) \in Windows(S)
         /\ Known(status, Known(status, windows)) = Known(status, windows)
         /\ status = "live" => Known(status, windows) # Null
BY NoWindows DEF Known

\* A cluster as the store reads it.
LEMMA InfoIs ==
  ASSUME NEW info
  PROVE  IsInfo(info) <=>
           \/ info = NoCluster
           \/ /\ DOMAIN info = {"status", "ring", "ready", "windows"}
              /\ info.status \in {"assembling", "live", "terminated"}
              /\ info.ring \in Seq(Worker) /\ IsInjective(info.ring)
              /\ info.ready \subseteq Range(info.ring)
              /\ info.windows \in Windows(Range(info.ring))
<1>1. DOMAIN NoCluster = {"status", "ring", "ready", "windows"}
  BY DEF NoCluster
<1>2. ASSUME NEW S
      PROVE  info.windows \in Windows(S) <=>
               \/ info.windows = Null
               \/ \E T \in SUBSET S : info.windows \in [T -> Nat]
  BY DEF Windows
<1>3. QED
  BY <1>1, <1>2 DEF IsInfo

\* The rows made of a cluster's members, read back, are that cluster.
LEMMA LoadOfMembers ==
  ASSUME NEW ring \in Seq(Worker), IsInjective(ring),
         NEW ready, ready \subseteq Range(ring),
         NEW windows \in Windows(Range(ring)),
         NEW row,
         row.members = MembersOf(ring, ready, windows),
         row.reported = (windows # Null)
  PROVE  Load(row) = [status |-> row.status, ring |-> ring, ready |-> ready,
                      windows |-> windows]
<1> DEFINE At(w) == CHOOSE i \in DOMAIN ring : ring[i] = w
<1>1. \A w \in Range(ring) : At(w) \in DOMAIN ring /\ ring[At(w)] = w
  BY DEF Range
<1>2. \A i \in DOMAIN ring : ring[i] \in Range(ring) /\ At(ring[i]) = i
  BY <1>1 DEF Range, IsInjective
<1> HIDE DEF At
<1>3. /\ DOMAIN row.members = Range(ring)
      /\ \A w \in Range(ring) :
           /\ row.members[w].at = At(w)
           /\ row.members[w].ready = (w \in ready)
           /\ row.members[w].window = IF windows # Null /\ w \in DOMAIN windows
                                      THEN windows[w] ELSE Null
  BY DEF MembersOf, At
<1>4. {row.members[w].at : w \in DOMAIN row.members} = DOMAIN ring
  <2>1. \A w \in DOMAIN row.members : row.members[w].at \in DOMAIN ring
    BY <1>1, <1>3
  <2>2. \A i \in DOMAIN ring : ring[i] \in DOMAIN row.members /\ i = row.members[ring[i]].at
    BY <1>2, <1>3
  <2>3. QED
    BY <2>1, <2>2
<1>5. \A i \in DOMAIN ring : (CHOOSE w \in DOMAIN row.members : row.members[w].at = i) = ring[i]
  BY <1>1, <1>2, <1>3
<1>6. [i \in DOMAIN ring |-> ring[i]] = ring
  OBVIOUS
<1>7. [i \in {row.members[w].at : w \in DOMAIN row.members} |->
         CHOOSE w \in DOMAIN row.members : row.members[w].at = i] = ring
  BY <1>4, <1>5, <1>6
<1>8. {w \in DOMAIN row.members : row.members[w].ready} = ready
  BY <1>3
<1>9. (IF row.reported
       THEN [w \in {v \in DOMAIN row.members : row.members[v].window # Null}
               |-> row.members[w].window]
       ELSE Null) = windows
  <2>1. CASE windows = Null
    BY <2>1
  <2>2. CASE windows # Null
    <3>1. PICK T \in SUBSET Range(ring) : windows \in [T -> Nat]
      BY <2>2 DEF Windows
    <3>2. \A w \in Range(ring) : row.members[w].window = IF w \in T THEN windows[w] ELSE Null
      BY <1>3, <2>2, <3>1
    <3>3. \A w \in T : windows[w] # Null
      BY <3>1, NullIsNoNumber
    <3>4. {v \in DOMAIN row.members : row.members[v].window # Null} = T
      BY <1>3, <3>1, <3>2, <3>3
    <3>5. [w \in T |-> row.members[w].window] = windows
      BY <3>1, <3>2
    <3>6. QED
      BY <2>2, <3>4, <3>5
  <2>3. QED
    BY <2>1, <2>2
<1>10. QED
  BY <1>7, <1>8, <1>9 DEF Load

\* Rows in the old shape: what they say does not depend on whether their
\* windows are filled in, and is what their members' rows say.
LEMMA FilledRow ==
  ASSUME NEW row, IsOld(row)
  PROVE  /\ IsOld(Filled(row))
         /\ LoadBlobs(Filled(row)) = LoadBlobs(row)
         /\ Filled(row).status = row.status
         /\ Filled(row).blobs.windows = Known(row.status, Filled(row).blobs.windows)
<1>1. row # NoRow
  BY DEF IsOld, IsRow, NoRow
<1> DEFINE filled == Known(row.status, row.blobs.windows)
<1>2. Filled(row) = [status |-> row.status, reported |-> row.reported, members |-> row.members,
                     blobs |-> [ring |-> row.blobs.ring, ready |-> row.blobs.ready,
                                windows |-> filled]]
  BY <1>1 DEF Filled, IsOld, IsRow
<1>3. Known(row.status, filled) = filled
  BY NoWindows DEF Known
<1> HIDE DEF filled
<1>4. LoadBlobs(Filled(row)) = LoadBlobs(row)
  BY <1>2, <1>3 DEF LoadBlobs, filled
<1>5. QED
  BY <1>2, <1>3, <1>4 DEF IsOld, IsRow

LEMMA LiftedRow ==
  ASSUME NEW row, IsOld(row), row.blobs.windows = Known(row.status, row.blobs.windows)
  PROVE  /\ IsOld(Lifted(row))
         /\ LoadBlobs(Lifted(row)) = LoadBlobs(row)
         /\ Lifted(row).status = row.status
         /\ Lifted(row).blobs = row.blobs
         /\ HasMembers(Lifted(row))
<1>1. row # NoRow
  BY DEF IsOld, IsRow, NoRow
<1> DEFINE members == MembersOf(row.blobs.ring, row.blobs.ready, row.blobs.windows)
<1> HIDE DEF members
<1>0. PICK reported : reported = (row.blobs.windows # Null)
  OBVIOUS
<1>2. Lifted(row) = [status |-> row.status, blobs |-> row.blobs, reported |-> reported,
                     members |-> members]
  BY <1>0, <1>1 DEF Lifted, IsOld, IsRow, members
<1>3. /\ Lifted(row).status = row.status
      /\ Lifted(row).blobs = row.blobs
      /\ Lifted(row).members = members
      /\ Lifted(row).reported = reported
  BY <1>2
<1>4. LoadBlobs(Lifted(row)) = LoadBlobs(row)
  BY <1>3 DEF LoadBlobs
<1>5. IsRow(Lifted(row))
  BY <1>2 DEF IsOld, IsRow
<1>6. IsOld(Lifted(row))
  BY <1>3, <1>4, <1>5 DEF IsOld
<1>7. HasMembers(Lifted(row))
  BY <1>0, <1>3 DEF HasMembers, members
<1>8. QED
  BY <1>3, <1>4, <1>6, <1>7

\* The row that is left when the blobs are dropped.
LEMMA DroppedRow ==
  ASSUME NEW row, IsOld(row), row.blobs.windows = Known(row.status, row.blobs.windows),
         HasMembers(row)
  PROVE  /\ IsNew([row EXCEPT !.blobs = Null])
         /\ Load([row EXCEPT !.blobs = Null]) = LoadBlobs(row)
<1>1. /\ row.members = MembersOf(row.blobs.ring, row.blobs.ready, row.blobs.windows)
      /\ row.reported = (row.blobs.windows # Null)
  BY DEF HasMembers
<1> DEFINE dropped == [row EXCEPT !.blobs = Null]
<1>2. dropped = [status |-> row.status, blobs |-> Null, reported |-> row.reported,
                 members |-> row.members]
  BY DEF IsOld, IsRow
<1> HIDE DEF dropped
<1>3. row.status = "live" => row.blobs.windows # Null
  BY NoWindows DEF Known
<1>4. IsNew(dropped)
  BY <1>1, <1>2, <1>3 DEF IsNew, IsOld, IsRow
<1>5. /\ row.blobs.ring \in Seq(Worker) /\ IsInjective(row.blobs.ring)
      /\ row.blobs.ready \subseteq Range(row.blobs.ring)
      /\ row.blobs.windows \in Windows(Range(row.blobs.ring))
  <2>1. LoadBlobs(row) = [status |-> row.status, ring |-> row.blobs.ring,
                          ready |-> row.blobs.ready, windows |-> row.blobs.windows]
    BY DEF LoadBlobs
  <2>2. LoadBlobs(row) # NoCluster
    BY <2>1 DEF NoCluster, IsOld, IsRow
  <2>3. QED
    BY <2>1, <2>2, InfoIs DEF IsOld
<1>6. Load(dropped) = [status |-> row.status, ring |-> row.blobs.ring,
                       ready |-> row.blobs.ready, windows |-> row.blobs.windows]
  <2>1. /\ dropped.status = row.status
        /\ dropped.members = MembersOf(row.blobs.ring, row.blobs.ready, row.blobs.windows)
        /\ dropped.reported = (row.blobs.windows # Null)
    BY <1>1, <1>2
  <2>2. QED
    BY <1>5, <2>1, LoadOfMembers
<1>7. Load(dropped) = LoadBlobs(row)
  BY <1>6 DEF LoadBlobs
<1>8. QED
  BY <1>4, <1>7 DEF dropped

\* The row of a cluster that is imported.
LEMMA ImportedIs ==
  ASSUME NEW c \in Cluster, IsInfo(snapshot.clusters[c])
  PROVE  LET info == snapshot.clusters[c]
             kept == [info EXCEPT !.windows = Known(info.status, @)] IN
         \/ ImportedRow(c) = NoRow /\ kept = NoCluster
         \/ IsNew(ImportedRow(c)) /\ Load(ImportedRow(c)) = kept
<1> DEFINE info == snapshot.clusters[c]
           kept == [info EXCEPT !.windows = Known(info.status, @)]
           windows == Known(info.status, info.windows)
<1>1. CASE info = NoCluster
  <2>1. ImportedRow(c) = NoRow
    BY <1>1 DEF ImportedRow
  <2>2. Known(NoCluster.status, NoCluster.windows) = NoCluster.windows
    BY DEF NoCluster, Known
  <2>3. [NoCluster EXCEPT !.windows = NoCluster.windows] = NoCluster
    BY DEF NoCluster
  <2>4. QED
    BY <1>1, <2>1, <2>2, <2>3
<1>2. CASE info # NoCluster
  <2>1. /\ DOMAIN info = {"status", "ring", "ready", "windows"}
        /\ info.status \in {"assembling", "live", "terminated"}
        /\ info.ring \in Seq(Worker) /\ IsInjective(info.ring)
        /\ info.ready \subseteq Range(info.ring)
        /\ info.windows \in Windows(Range(info.ring))
    BY <1>2, InfoIs
  <2>2. /\ windows \in Windows(Range(info.ring))
        /\ info.status = "live" => windows # Null
    BY <2>1, KnownIsKnown
  <2>3. kept = [status |-> info.status, ring |-> info.ring, ready |-> info.ready,
                windows |-> windows]
    BY <2>1
  <2> DEFINE members == MembersOf(info.ring, info.ready, windows)
  <2>4. ImportedRow(c) = [status |-> info.status, blobs |-> Null, reported |-> windows # Null,
                          members |-> members]
    BY <1>2 DEF ImportedRow
  <2> HIDE DEF windows, members, kept, info
  <2>5. IsRow(ImportedRow(c))
    BY <2>1, <2>4 DEF IsRow
  <2>6. /\ ImportedRow(c).members = MembersOf(info.ring, info.ready, windows)
        /\ ImportedRow(c).reported = (windows # Null)
        /\ ImportedRow(c).status = info.status
    BY <2>4 DEF members
  <2>7. Load(ImportedRow(c)) = kept
    BY <2>1, <2>2, <2>3, <2>6, LoadOfMembers
  <2>8. IsNew(ImportedRow(c))
    BY <2>2, <2>5, <2>6 DEF IsNew
  <2>9. QED
    BY <2>7, <2>8 DEF kept, info
<1>3. QED
  BY <1>1, <1>2

-----------------------------------------------------------------------------
(* What a database says.                                                   *)

\* A database of its parts, some of which a statement replaces.
Db(t, k, a, w, c) ==
  [tables |-> t, cols |-> k, accounts |-> a, canWork |-> w, clusters |-> c]

LEMMA DatabaseIs ==
  ASSUME NEW t, NEW k, NEW a, NEW w, NEW c, NEW db, db = Db(t, k, a, w, c)
  PROVE  /\ db.tables = t /\ db.cols = k /\ db.accounts = a /\ db.canWork = w
         /\ db.clusters = c
BY DEF Db

LEMMA Says ==
  ASSUME NEW db, NEW c \in Cluster
  PROVE  Content(db).clusters[c] =
           IF db.clusters[c] = NoRow THEN NoCluster
           ELSE IF "members_json" \in db.cols THEN LoadBlobs(db.clusters[c])
           ELSE Load(db.clusters[c])
BY DEF Content

LEMMA SaysTheSame ==
  ASSUME NEW db, NEW new,
         new.accounts = db.accounts,
         (IF "can_work" \in new.cols THEN new.canWork ELSE new.accounts)
           = (IF "can_work" \in db.cols THEN db.canWork ELSE db.accounts),
         \A c \in Cluster : Content(new).clusters[c] = Content(db).clusters[c]
  PROVE  Content(new) = Content(db)
<1>1. ASSUME NEW d
      PROVE  Content(d) = [accounts |-> d.accounts,
                           canWork  |-> IF "can_work" \in d.cols THEN d.canWork ELSE d.accounts,
                           clusters |-> [c \in Cluster |-> Content(d).clusters[c]]]
  BY DEF Content
<1>2. [c \in Cluster |-> Content(new).clusters[c]] = [c \in Cluster |-> Content(db).clusters[c]]
  OBVIOUS
<1>3. QED
  BY <1>1, <1>2

\* Tables and columns are added, none that makes the database older.
LEMMA SchemaGrows ==
  ASSUME NEW db, Sound(db), NEW tables, NEW cols, NEW canWork,
         db.tables \subseteq tables, db.cols \subseteq cols,
         cols \subseteq Current \cup Blobs,
         cols \cap Blobs # {} => "members_json" \in db.cols,
         "accounts" \notin tables => canWork = {},
         "clusters" \in tables /\ "clusters" \notin db.tables => "distribution_reported" \in cols,
         (IF "can_work" \in cols THEN canWork ELSE db.accounts)
           = (IF "can_work" \in db.cols THEN db.canWork ELSE db.accounts)
  PROVE  LET new == Db(tables, cols, db.accounts, canWork, db.clusters) IN
         Sound(new) /\ Content(new) = Content(db)
<1> DEFINE new == Db(tables, cols, db.accounts, canWork, db.clusters)
<1>1. /\ new.tables = tables /\ new.cols = cols /\ new.accounts = db.accounts
      /\ new.canWork = canWork /\ new.clusters = db.clusters
      /\ new = [tables |-> new.tables, cols |-> new.cols, accounts |-> new.accounts,
                canWork |-> new.canWork, clusters |-> new.clusters]
  BY DEF Db
<1> HIDE DEF new
<1>2. "members_json" \in cols <=> "members_json" \in db.cols
  BY DEF Blobs
<1>3. Sound(new)
  BY <1>1, <1>2 DEF Sound
<1>4. \A c \in Cluster : Content(new).clusters[c] = Content(db).clusters[c]
  BY <1>1, <1>2, Says
<1>5. Content(new) = Content(db)
  BY <1>1, <1>4, SaysTheSame
<1>6. QED
  BY <1>3, <1>5 DEF new

\* A table is created.
LEMMA TableGrows ==
  ASSUME NEW db, Sound(db), NEW i \in DOMAIN Script, Script[i] \notin db.tables
  PROVE  LET new == [db EXCEPT !.tables = @ \cup {Script[i]},
                               !.cols = @ \cup ColumnsOf(Script[i])] IN
         /\ Sound(new) /\ Content(new) = Content(db)
         /\ db.tables \subseteq new.tables /\ db.cols \subseteq new.cols
         /\ new.accounts = db.accounts /\ new.canWork = db.canWork
         /\ new.clusters = db.clusters
         /\ "members_json" \in new.cols => "members_json" \in db.cols
<1> DEFINE tables == db.tables \cup {Script[i]}
           cols == db.cols \cup ColumnsOf(Script[i])
           new == Db(tables, cols, db.accounts, db.canWork, db.clusters)
<1>1. new = [db EXCEPT !.tables = @ \cup {Script[i]}, !.cols = @ \cup ColumnsOf(Script[i])]
  <2> HIDE DEF tables, cols
  <2>1. PICK t, k, a, w, c : db = Db(t, k, a, w, c)
    BY DEF Sound, Db
  <2>2. [db EXCEPT !.tables = tables] = Db(tables, k, a, w, c)
    BY <2>1 DEF Db
  <2>3. [Db(tables, k, a, w, c) EXCEPT !.cols = cols] = Db(tables, cols, a, w, c)
    BY DEF Db
  <2>4. [db EXCEPT !.tables = tables, !.cols = cols]
          = [[db EXCEPT !.tables = tables] EXCEPT !.cols = cols]
    OBVIOUS
  <2>5. Db(tables, cols, a, w, c) = new
    BY <2>1, DatabaseIs
  <2>6. [db EXCEPT !.tables = tables, !.cols = cols] = new
    BY ONLY <2>2, <2>3, <2>4, <2>5, Zenon
  <2>7. QED
    BY <2>6 DEF tables, cols
<1>2. /\ ColumnsOf(Script[i]) \subseteq Current
      /\ Script[i] = "clusters" => "distribution_reported" \in ColumnsOf(Script[i])
      /\ "can_work" \in ColumnsOf(Script[i]) => Script[i] = "accounts"
  BY DEF ColumnsOf, Current, Permission
<1>3. Current \cap Blobs = {}
  BY DEF Current, Permission, Blobs
<1>4. /\ cols \subseteq Current \cup Blobs
      /\ cols \cap Blobs # {} => "members_json" \in db.cols
      /\ "accounts" \notin tables => db.canWork = {}
      /\ "clusters" \in tables /\ "clusters" \notin db.tables => "distribution_reported" \in cols
  BY <1>2, <1>3 DEF Sound
<1>5. (IF "can_work" \in cols THEN db.canWork ELSE db.accounts)
        = (IF "can_work" \in db.cols THEN db.canWork ELSE db.accounts)
  BY <1>2 DEF Sound
<1>6. Sound(new) /\ Content(new) = Content(db)
  BY <1>4, <1>5, SchemaGrows
<1>7. "members_json" \in cols => "members_json" \in db.cols
  BY <1>4 DEF Blobs
<1>8. /\ new.tables = tables /\ new.cols = cols /\ new.accounts = db.accounts
      /\ new.canWork = db.canWork /\ new.clusters = db.clusters
  BY DatabaseIs
<1> HIDE DEF new
<1>9. QED
  BY <1>1, <1>6, <1>7, <1>8

\* A column is added, and whoever is there may go on working.
LEMMA ColumnGrows ==
  ASSUME NEW db, Sound(db), NEW col \in Current \cup Blobs, col \notin db.cols,
         col \in Blobs => "members_json" \in db.cols,
         NEW canWork,
         canWork = IF col = "can_work" THEN db.accounts ELSE db.canWork
  PROVE  LET new == Db(db.tables, db.cols \cup {col}, db.accounts, canWork, db.clusters) IN
         Sound(new) /\ Content(new) = Content(db)
<1> DEFINE cols == db.cols \cup {col}
<1>1. /\ cols \subseteq Current \cup Blobs
      /\ cols \cap Blobs # {} => "members_json" \in db.cols
      /\ "accounts" \notin db.tables => canWork = {}
  BY DEF Sound
<1>2. (IF "can_work" \in cols THEN canWork ELSE db.accounts)
        = (IF "can_work" \in db.cols THEN db.canWork ELSE db.accounts)
  OBVIOUS
<1>3. QED
  BY <1>1, <1>2, SchemaGrows

-----------------------------------------------------------------------------
(* Statements.                                                             *)

\* What ContentKept allows a step to do.
Keeps ==
  \/ pc = "serving"
  \/ Content(disk') = Content(disk)
  \/ Content(disk) = Content(EmptyDb) /\ Content(disk') = SnapshotContent

\* The parts of the invariant that do not depend on the statement.
Stores == Sound(disk) /\ Sound(conn) /\ Agrees

LEMMA QuietStep ==
  ASSUME IInv, UNCHANGED <<snapshot, disk, conn, tx>>,
         pc # "import commit", pc' # "import commit", tx => pc' \in Writing
  PROVE  Stores' /\ Keeps
BY DEF IInv, Stores, Agrees, Keeps

LEMMA DefineStep ==
  ASSUME IInv, NEW db, Define(db), Sound(db), Content(db) = Content(conn),
         pc # "import commit", pc' # "import commit", tx => pc' \in Writing
  PROVE  Stores' /\ Keeps
BY DEF IInv, Stores, Agrees, Keeps, Define

LEMMA WriteStep ==
  ASSUME IInv, NEW db, Write(db), Sound(db), pc # "import commit", pc' \in Writing,
         Content(db) = IF pc' = "import commit" THEN SnapshotContent ELSE Content(conn)
  PROVE  Stores' /\ Keeps
<1>1. SnapshotContent' = SnapshotContent
  BY DEF Write, SnapshotContent
<1>2. QED
  BY <1>1 DEF IInv, Stores, Agrees, Keeps, Write

\* A server that ends sees nothing any more.
LEMMA StopStep ==
  ASSUME IInv, Stop, UNCHANGED <<snapshot, file, disk, seen>>
  PROVE  IInv' /\ Keeps
<1>1. Stores' /\ Keeps
  BY DEF IInv, Stores, Agrees, Keeps, Stop
<1>2. Unwritten'
  BY DEF IInv, Unwritten, Stop
<1>3. Staged'
  BY DEF Staged, Stop, Rebuilding, Before, Permission
<1>4. Rebuilt'
  BY DEF Rebuilt, Stop
<1>5. QED
  BY <1>1, <1>2, <1>3, <1>4 DEF IInv, Stores

LEMMA CreateTableStep ==
  ASSUME IInv, pc \in {"import script", "script"}, CreateTable
  PROVE  IInv' /\ Keeps
<1>1. PICK i \in DOMAIN Script :
        /\ Script[i] \notin conn.tables
        /\ Define([conn EXCEPT !.tables = @ \cup {Script[i]},
                               !.cols = @ \cup ColumnsOf(Script[i])])
        /\ UNCHANGED pc
  BY DEF CreateTable
<1> DEFINE db == [conn EXCEPT !.tables = @ \cup {Script[i]},
                              !.cols = @ \cup ColumnsOf(Script[i])]
<1>2. /\ Sound(db) /\ Content(db) = Content(conn)
      /\ db.accounts = conn.accounts /\ db.canWork = conn.canWork
      /\ db.clusters = conn.clusters
      /\ "members_json" \in db.cols => "members_json" \in conn.cols
  BY <1>1, TableGrows DEF IInv
<1> HIDE DEF db
<1>3. Define(db) /\ pc' = pc
  BY <1>1 DEF db
<1>4. ~tx /\ conn = disk
  BY DEF IInv, Agrees, Writing, Permission
<1>5. Stores' /\ Keeps
  BY <1>2, <1>3, <1>4, DefineStep
<1>6. disk' = db /\ UNCHANGED <<snapshot, file>>
  BY <1>3, <1>4 DEF Define
<1>7. Unwritten'
  BY <1>2, <1>3, <1>4, <1>6 DEF IInv, Unwritten
<1>8. Staged'
  BY <1>3 DEF Staged, Rebuilding, Before, Permission
<1>9. Rebuilt'
  BY <1>3 DEF Rebuilt
<1>10. QED
  BY <1>5, <1>7, <1>8, <1>9 DEF IInv, Stores

\* Once the database is open, nothing is imported any more.
LEMMA OpenStep ==
  ASSUME IInv, UNCHANGED <<file, snapshot>>, pc \notin {"down", "read", "connect"},
         pc' \notin {"read", "import script", "import rows", "import commit"}
  PROVE  Unwritten'
BY DEF IInv, Unwritten

\* A column is added, or is there already.
LEMMA AddColumnStep ==
  ASSUME IInv, NEW col \in Current \cup Blobs, col \in Blobs => "members_json" \in conn.cols,
         NEW db, db = Db(conn.tables, conn.cols, conn.accounts,
                         IF col = "can_work" THEN conn.accounts ELSE conn.canWork,
                         conn.clusters),
         NEW next, AddColumn(col, db, next),
         pc # "import commit", next # "import commit", tx => next \in Writing
  PROVE  /\ Keeps
         /\ \/ IInv'
            \/ /\ Stores' /\ pc' = next
               /\ conn'.tables = conn.tables /\ conn'.cols = conn.cols \cup {col}
               /\ conn'.clusters = conn.clusters
               /\ UNCHANGED <<snapshot, file, seen>>
<1> PICK canWork : canWork = IF col = "can_work" THEN conn.accounts ELSE conn.canWork
  OBVIOUS
<1>1. CASE col \in conn.cols
  BY <1>1, StopStep DEF AddColumn, Raise
<1>2. CASE col \notin conn.cols
  <2> DEFINE cols == db.cols \cup {col}
             new == Db(conn.tables, cols, conn.accounts, canWork, conn.clusters)
  <2>1. db.cols = conn.cols
    BY DEF Db
  <2>2. [db EXCEPT !.cols = cols] = new
    <3> HIDE DEF cols
    <3>1. PICK t, k, a, c :
            t = conn.tables /\ k = conn.cols /\ a = conn.accounts /\ c = conn.clusters
      OBVIOUS
    <3>2. db = Db(t, k, a, canWork, c)
      BY <3>1
    <3>3. [db EXCEPT !.cols = cols] = Db(t, cols, a, canWork, c)
      BY ONLY <3>2 DEF Db
    <3>4. QED
      BY ONLY <3>1, <3>3
  <2>3. Sound(new) /\ Content(new) = Content(conn)
    <3> DEFINE grown == Db(conn.tables, conn.cols \cup {col}, conn.accounts, canWork,
                           conn.clusters)
    <3>1. Sound(grown) /\ Content(grown) = Content(conn)
      BY <1>2, ColumnGrows DEF IInv
    <3>2. new = grown
      BY <2>1
    <3>3. QED
      BY <3>1, <3>2
  <2>4. /\ new.tables = conn.tables /\ new.cols = conn.cols \cup {col}
        /\ new.clusters = conn.clusters
    BY <2>1 DEF Db
  <2> HIDE DEF new
  <2>5. Define(new) /\ pc' = next
    BY <1>2, <2>2 DEF AddColumn
  <2>6. Stores' /\ Keeps
    BY <2>3, <2>5, DefineStep
  <2>7. QED
    BY <2>4, <2>5, <2>6 DEF Define
<1>3. QED
  BY <1>1, <1>2

LEMMA StartStep ==
  ASSUME IInv, Start
  PROVE  IInv' /\ Keeps
<1>1. Stores' /\ Keeps
  BY QuietStep DEF Start, Pass, IInv, Agrees, Writing, Permission
<1>2. Unwritten' /\ Staged' /\ Rebuilt'
  BY DEF Start, Pass, IInv, Unwritten, Staged, Rebuilt, Rebuilding, Before, Permission
<1>3. QED
  BY <1>1, <1>2 DEF IInv, Stores

LEMMA ReadSnapshotStep ==
  ASSUME IInv, ReadSnapshot
  PROVE  IInv' /\ Keeps
<1>1. ~tx /\ UNCHANGED <<snapshot, disk, conn, tx>> /\ pc = "read"
  BY DEF ReadSnapshot, IInv, Agrees, Writing, Permission
<1>2. \/ pc' = "connect" /\ UNCHANGED file
      \/ pc' = "import script" /\ file'
  BY DEF ReadSnapshot
<1>3. Stores' /\ Keeps
  BY <1>1, <1>2, QuietStep
<1>4. disk = EmptyDb
  BY <1>1 DEF IInv, Unwritten
<1>5. /\ disk.accounts = {} /\ disk.canWork = {} /\ disk.cols = {}
      /\ \A c \in Cluster : disk.clusters[c] = NoRow
  BY <1>4 DEF EmptyDb
<1>6. Unwritten'
  BY <1>1, <1>2, <1>5 DEF IInv, Unwritten
<1>7. Staged' /\ Rebuilt'
  BY <1>2 DEF Staged, Rebuilt, Rebuilding, Before, Permission
<1>8. QED
  BY <1>3, <1>6, <1>7 DEF IInv, Stores

LEMMA ImportScriptStep ==
  ASSUME IInv, ImportScript
  PROVE  IInv' /\ Keeps
<1>1. CASE ScriptDone
  <2>1. pc = "import script" /\ pc' = "import rows" /\ Pass
    BY <1>1 DEF ImportScript
  <2>2. Stores' /\ Keeps
    BY <2>1, QuietStep DEF Pass, IInv, Agrees, Writing, Permission
  <2>3. Unwritten' /\ Staged' /\ Rebuilt'
    BY <1>1, <2>1 DEF Pass, IInv, Unwritten, Staged, ScriptDone, Rebuilt, Rebuilding, Before,
                      Permission
  <2>4. QED
    BY <2>2, <2>3 DEF IInv, Stores
<1>2. CASE ~ScriptDone
  BY <1>2, CreateTableStep DEF ImportScript
<1>3. QED
  BY <1>1, <1>2

\* The import puts the whole snapshot into an empty database.
LEMMA ImportRowsStep ==
  ASSUME IInv, ImportRows
  PROVE  IInv' /\ Keeps
<1>1. CASE snapshot.kind = "damaged"
  BY <1>1, StopStep DEF ImportRows, Raise
<1>2. CASE snapshot.kind # "damaged"
  <2> DEFINE rows == [c \in Cluster |-> ImportedRow(c)]
             db == Db(conn.tables, conn.cols, snapshot.accounts, snapshot.accounts, rows)
  <2>1. [conn EXCEPT !.accounts = snapshot.accounts, !.canWork = snapshot.accounts,
                     !.clusters = rows] = db
    <3> HIDE DEF rows
    <3>1. PICK t, k, a, w, c : conn = Db(t, k, a, w, c)
      BY DEF IInv, Sound, Db
    <3> DEFINE owners == snapshot.accounts
    <3> HIDE DEF owners
    <3>2. [conn EXCEPT !.accounts = owners] = Db(t, k, owners, w, c)
      BY <3>1 DEF Db
    <3>3. [Db(t, k, owners, w, c) EXCEPT !.canWork = owners] = Db(t, k, owners, owners, c)
      BY DEF Db
    <3>4. [Db(t, k, owners, owners, c) EXCEPT !.clusters = rows] = Db(t, k, owners, owners, rows)
      BY DEF Db
    <3>5. [conn EXCEPT !.accounts = owners, !.canWork = owners, !.clusters = rows]
            = [[[conn EXCEPT !.accounts = owners] EXCEPT !.canWork = owners]
                 EXCEPT !.clusters = rows]
      OBVIOUS
    <3>6. conn.tables = t /\ conn.cols = k
      BY <3>1, DatabaseIs
    <3>7. [conn EXCEPT !.accounts = owners, !.canWork = owners, !.clusters = rows]
            = Db(t, k, owners, owners, rows)
      BY ONLY <3>2, <3>3, <3>4, <3>5, Zenon
    <3>8. QED
      BY <3>6, <3>7 DEF owners
  <2>2. /\ db.tables = conn.tables /\ db.cols = conn.cols /\ db.clusters = rows
        /\ db.accounts = snapshot.accounts /\ db.canWork = snapshot.accounts
    BY DatabaseIs
  <2>3. db = [tables |-> db.tables, cols |-> db.cols, accounts |-> db.accounts,
              canWork |-> db.canWork, clusters |-> db.clusters]
    BY DEF Db
  <2> HIDE DEF db
  <2>4. Write(db) /\ pc = "import rows" /\ pc' = "import commit"
    BY <1>2, <2>1 DEF ImportRows
  <2>5. conn = disk /\ "members_json" \notin conn.cols /\ ScriptDone
    BY <2>4 DEF IInv, Agrees, Writing, Permission, Unwritten, Staged
  <2>6. \A c \in Cluster :
          /\ rows[c] = NoRow \/ IsNew(rows[c])
          /\ Content(db).clusters[c] = SnapshotContent.clusters[c]
    <3> TAKE c \in Cluster
    <3>1. IsInfo(snapshot.clusters[c])
      BY DEF IInv, Unwritten
    <3> DEFINE info == snapshot.clusters[c]
               kept == [info EXCEPT !.windows = Known(info.status, @)]
    <3>2. \/ ImportedRow(c) = NoRow /\ kept = NoCluster
          \/ IsNew(ImportedRow(c)) /\ Load(ImportedRow(c)) = kept
      BY <3>1, ImportedIs
    <3>3. SnapshotContent.clusters[c] = kept
      BY DEF SnapshotContent
    <3> HIDE DEF kept
    <3>4. IsNew(NoRow) <=> FALSE
      BY DEF IsNew, IsRow, NoRow
    <3>5. Content(db).clusters[c] = kept
      BY <2>2, <2>5, <3>2, <3>4, Says
    <3>6. QED
      BY <3>2, <3>3, <3>5
  <2>7. Sound(db)
    <3>1. "accounts" \in db.tables
      BY <2>2, <2>5 DEF ScriptDone, Table, Script, Range
    <3>2. db.clusters = [c \in Cluster |-> db.clusters[c]]
      BY <2>2
    <3> HIDE DEF rows
    <3>3. QED
      BY <2>2, <2>3, <2>5, <2>6, <3>1, <3>2 DEF IInv, Sound
  <2>8. Content(db) = SnapshotContent
    <3>1. /\ Content(db) = [accounts |-> Content(db).accounts, canWork |-> Content(db).canWork,
                            clusters |-> [c \in Cluster |-> Content(db).clusters[c]]]
          /\ Content(db).accounts = snapshot.accounts
          /\ Content(db).canWork = snapshot.accounts
      BY <2>2 DEF Content
    <3>2. SnapshotContent = [accounts |-> snapshot.accounts, canWork |-> snapshot.accounts,
                             clusters |-> [c \in Cluster |-> SnapshotContent.clusters[c]]]
      BY DEF SnapshotContent
    <3>3. [c \in Cluster |-> Content(db).clusters[c]]
            = [c \in Cluster |-> SnapshotContent.clusters[c]]
      BY <2>6
    <3>4. QED
      BY <3>1, <3>2, <3>3
  <2>9. Stores' /\ Keeps
    BY <2>4, <2>7, <2>8, WriteStep DEF Writing
  <2>10. Unwritten'
    BY <2>4 DEF IInv, Unwritten, Write
  <2>11. Staged'
    BY <2>2, <2>4, <2>5 DEF Staged, Write, ScriptDone, Rebuilding, Before, Permission
  <2>12. Rebuilt'
    BY <2>4 DEF Rebuilt
  <2>13. QED
    BY <2>9, <2>10, <2>11, <2>12 DEF IInv, Stores
<1>3. QED
  BY <1>1, <1>2

LEMMA ImportCommitStep ==
  ASSUME IInv, ImportCommit
  PROVE  IInv' /\ Keeps
<1>1. Content(disk) = Content(EmptyDb)
  <2>1. /\ disk.accounts = {} /\ disk.canWork = {} /\ "members_json" \notin disk.cols
        /\ \A c \in Cluster : disk.clusters[c] = NoRow
    BY DEF IInv, Unwritten, ImportCommit
  <2>2. /\ EmptyDb.accounts = {} /\ EmptyDb.canWork = {}
        /\ \A c \in Cluster : EmptyDb.clusters[c] = NoRow
    BY DEF EmptyDb
  <2> HIDE DEF EmptyDb
  <2>3. \A c \in Cluster : Content(disk).clusters[c] = Content(EmptyDb).clusters[c]
    BY <2>1, <2>2, Says
  <2>4. QED
    BY <2>1, <2>2, <2>3, SaysTheSame
<1>2. Content(disk') = SnapshotContent
  BY DEF IInv, Agrees, ImportCommit
<1>3. Keeps
  BY <1>1, <1>2 DEF Keeps
<1>4. Stores'
  BY DEF IInv, Stores, Agrees, ImportCommit
<1>5. Unwritten' /\ Staged' /\ Rebuilt'
  BY DEF IInv, Unwritten, Staged, Rebuilt, Rebuilding, Before, Permission, ImportCommit
<1>6. QED
  BY <1>3, <1>4, <1>5 DEF IInv, Stores

LEMMA ConnectStep ==
  ASSUME IInv, Connect
  PROVE  IInv' /\ Keeps
<1>1. Stores' /\ Keeps
  BY QuietStep DEF Connect, IInv, Agrees, Writing, Permission
<1>2. Unwritten' /\ Staged' /\ Rebuilt'
  BY DEF Connect, IInv, Unwritten, Staged, Rebuilt, Rebuilding, Before, Permission
<1>3. QED
  BY <1>1, <1>2 DEF IInv, Stores

LEMMA RunScriptStep ==
  ASSUME IInv, RunScript
  PROVE  IInv' /\ Keeps
<1>1. CASE ScriptDone
  <2>1. pc = "script" /\ pc' = "keys" /\ Pass
    BY <1>1 DEF RunScript
  <2>2. Stores' /\ Keeps
    BY <2>1, QuietStep DEF Pass, IInv, Agrees, Writing, Permission
  <2>3. Unwritten'
    BY <2>1, OpenStep DEF Pass
  <2>4. Staged' /\ Rebuilt'
    BY <1>1, <2>1 DEF Pass, Staged, ScriptDone, Rebuilt, Rebuilding, Before, Permission
  <2>5. QED
    BY <2>2, <2>3, <2>4 DEF IInv, Stores
<1>2. CASE ~ScriptDone
  BY <1>2, CreateTableStep DEF RunScript
<1>3. QED
  BY <1>1, <1>2

LEMMA ConnIs ==
  ASSUME IInv
  PROVE  conn = Db(conn.tables, conn.cols, conn.accounts, conn.canWork, conn.clusters)
BY DEF IInv, Sound, Db

LEMMA BindKeysStep ==
  ASSUME IInv, BindKeys
  PROVE  IInv' /\ Keeps
<1>1. ~tx /\ pc = "keys"
  BY DEF BindKeys, IInv, Agrees, Writing, Permission
<1>2. CASE "worker_id" \in conn.cols
  <2>1. pc' = "clusters" /\ Pass
    BY <1>2 DEF BindKeys
  <2>2. Stores' /\ Keeps
    BY <1>1, <2>1, QuietStep DEF Pass
  <2>3. Unwritten'
    BY <1>1, <2>1, OpenStep DEF Pass
  <2>4. Staged' /\ Rebuilt'
    BY <1>1, <1>2, <2>1
    DEF Pass, IInv, Staged, ScriptDone, Rebuilt, Rebuilding, Before, Permission
  <2>5. QED
    BY <2>2, <2>3, <2>4 DEF IInv, Stores
<1>3. CASE "worker_id" \notin conn.cols
  <2>1. AddColumn("worker_id", conn, "clusters")
    BY <1>3 DEF BindKeys
  <2>2. /\ "worker_id" \in Current \cup Blobs /\ "worker_id" \notin Blobs
        /\ "worker_id" # "can_work"
    BY DEF Current, Blobs
  <2>3. /\ Keeps
        /\ \/ IInv'
           \/ /\ Stores' /\ pc' = "clusters"
              /\ conn'.tables = conn.tables /\ conn'.cols = conn.cols \cup {"worker_id"}
              /\ conn'.clusters = conn.clusters
              /\ UNCHANGED <<snapshot, file, seen>>
    BY <1>1, <2>1, <2>2, AddColumnStep, ConnIs
  <2>4. CASE ~IInv'
    <3>1. Unwritten'
      BY <1>1, <2>3, <2>4, OpenStep
    <3>2. Staged' /\ Rebuilt'
      BY <1>1, <2>3, <2>4 DEF IInv, Staged, ScriptDone, Rebuilt, Rebuilding, Before, Permission
    <3>3. QED
      BY <2>3, <2>4, <3>1, <3>2 DEF IInv, Stores
  <2>5. QED
    BY <2>3, <2>4
<1>4. QED
  BY <1>2, <1>3

LEMMA LookAtClustersStep ==
  ASSUME IInv, LookAtClusters
  PROVE  IInv' /\ Keeps
<1>1. Stores' /\ Keeps
  BY QuietStep DEF LookAtClusters, IInv, Agrees, Writing, Permission
<1>2. Unwritten'
  BY OpenStep DEF LookAtClusters
<1>3. Staged' /\ Rebuilt'
  BY DEF LookAtClusters, IInv, Staged, ScriptDone, Rebuilt, Rebuilding, Before, Permission
<1>4. QED
  BY <1>1, <1>2, <1>3 DEF IInv, Stores

LEMMA AddWindowsStep ==
  ASSUME IInv, AddWindows
  PROVE  IInv' /\ Keeps
<1>1. ~tx /\ pc = "windows" /\ "members_json" \in conn.cols /\ seen \subseteq conn.cols
  BY DEF AddWindows, IInv, Agrees, Writing, Staged, Rebuilding, Permission
<1>2. CASE "layer_windows_json" \in seen
  <2>1. pc' = "backfill" /\ Pass
    BY <1>2 DEF AddWindows
  <2>2. Stores' /\ Keeps
    BY <1>1, <2>1, QuietStep DEF Pass
  <2>3. Unwritten'
    BY <1>1, <2>1, OpenStep DEF Pass
  <2>4. Staged' /\ Rebuilt'
    BY <1>1, <2>1 DEF Pass, IInv, Staged, ScriptDone, Rebuilt, Rebuilding, Before, Permission
  <2>5. QED
    BY <2>2, <2>3, <2>4 DEF IInv, Stores
<1>3. CASE "layer_windows_json" \notin seen
  <2>1. AddColumn("layer_windows_json", conn, "backfill")
    BY <1>3 DEF AddWindows
  <2>2. "layer_windows_json" \in Current \cup Blobs
    BY DEF Blobs
  <2>3. /\ Keeps
        /\ \/ IInv'
           \/ /\ Stores' /\ pc' = "backfill"
              /\ conn'.tables = conn.tables /\ conn'.cols = conn.cols \cup {"layer_windows_json"}
              /\ conn'.clusters = conn.clusters
              /\ UNCHANGED <<snapshot, file, seen>>
    BY <1>1, <2>1, <2>2, AddColumnStep, ConnIs
  <2>4. CASE ~IInv'
    <3>1. Unwritten'
      BY <1>1, <2>3, <2>4, OpenStep
    <3>2. Staged' /\ Rebuilt'
      BY <1>1, <2>3, <2>4 DEF IInv, Staged, ScriptDone, Rebuilt, Rebuilding, Before, Permission
    <3>3. QED
      BY <2>3, <2>4, <3>1, <3>2 DEF IInv, Stores
  <2>5. QED
    BY <2>3, <2>4
<1>4. QED
  BY <1>2, <1>3

\* Rows in the old shape are replaced by rows in the old shape that say the same.
LEMMA RowsRewritten ==
  ASSUME IInv, "members_json" \in conn.cols,
         NEW rows, rows = [c \in Cluster |-> rows[c]],
         \A c \in Cluster :
           LET row == conn.clusters[c] IN
           /\ row = NoRow => rows[c] = NoRow
           /\ IsOld(row) => IsOld(rows[c]) /\ LoadBlobs(rows[c]) = LoadBlobs(row)
  PROVE  LET db == [conn EXCEPT !.clusters = rows] IN
         /\ Sound(db) /\ Content(db) = Content(conn)
         /\ db.tables = conn.tables /\ db.cols = conn.cols /\ db.clusters = rows
<1> DEFINE db == [conn EXCEPT !.clusters = rows]
<1>1. db = Db(conn.tables, conn.cols, conn.accounts, conn.canWork, rows)
  BY ConnIs DEF Db
<1>2. /\ db.tables = conn.tables /\ db.cols = conn.cols /\ db.accounts = conn.accounts
      /\ db.canWork = conn.canWork /\ db.clusters = rows
      /\ db = [tables |-> db.tables, cols |-> db.cols, accounts |-> db.accounts,
               canWork |-> db.canWork, clusters |-> db.clusters]
  BY <1>1 DEF Db
<1> HIDE DEF db
<1>3. \A c \in Cluster : conn.clusters[c] = NoRow \/ IsOld(conn.clusters[c])
  BY DEF IInv, Sound
<1>4. Sound(db)
  BY <1>2, <1>3 DEF IInv, Sound
<1>5. ~IsOld(NoRow)
  BY DEF IsOld, IsRow, NoRow
<1>6. \A c \in Cluster : Content(db).clusters[c] = Content(conn).clusters[c]
  BY <1>2, <1>3, <1>5, Says
<1>7. Content(db) = Content(conn)
  BY <1>2, <1>6, SaysTheSame
<1>8. QED
  BY <1>2, <1>4, <1>7 DEF db

LEMMA BackfillStep ==
  ASSUME IInv, Backfill
  PROVE  IInv' /\ Keeps
<1> DEFINE rows == [c \in Cluster |-> Filled(conn.clusters[c])]
           db == [conn EXCEPT !.clusters = rows]
<1>1. pc = "backfill" /\ pc' = "reported" /\ Write(db)
  BY DEF Backfill
<1>2. "members_json" \in conn.cols /\ seen \subseteq conn.cols
  BY <1>1 DEF IInv, Staged, Rebuilding
<1>3. \A c \in Cluster : conn.clusters[c] = NoRow \/ IsOld(conn.clusters[c])
  BY <1>2 DEF IInv, Sound
<1>4. Filled(NoRow) = NoRow
  BY DEF Filled
<1>5. \A c \in Cluster :
        LET row == conn.clusters[c] IN
        /\ row = NoRow => rows[c] = NoRow
        /\ IsOld(row) => /\ IsOld(rows[c]) /\ LoadBlobs(rows[c]) = LoadBlobs(row)
                         /\ rows[c].blobs.windows = Known(rows[c].status, rows[c].blobs.windows)
  BY <1>4, FilledRow
<1>6. rows = [c \in Cluster |-> rows[c]]
  OBVIOUS
<1> HIDE DEF rows
<1>7. /\ Sound(db) /\ Content(db) = Content(conn)
      /\ db.tables = conn.tables /\ db.cols = conn.cols /\ db.clusters = rows
  BY <1>2, <1>5, <1>6, RowsRewritten
<1> HIDE DEF db
<1>8. Stores' /\ Keeps
  BY <1>1, <1>7, WriteStep DEF Writing
<1>9. conn' = db /\ UNCHANGED <<snapshot, file, seen>>
  BY <1>1 DEF Write
<1>10. Unwritten'
  BY <1>1, <1>9, OpenStep
<1>11. Staged'
  BY <1>1, <1>2, <1>7, <1>9 DEF IInv, Staged, ScriptDone, Rebuilding, Before, Permission
<1>12. Rebuilt'
  BY <1>1, <1>3, <1>5, <1>7, <1>9 DEF Rebuilt
<1>13. QED
  BY <1>8, <1>10, <1>11, <1>12 DEF IInv, Stores

LEMMA AddReportedStep ==
  ASSUME IInv, AddReported
  PROVE  IInv' /\ Keeps
<1>1. pc = "reported" /\ "members_json" \in conn.cols /\ seen \subseteq conn.cols
  BY DEF AddReported, IInv, Staged, Rebuilding
<1>2. CASE "distribution_reported" \in seen
  <2>1. pc' = "populate" /\ Pass
    BY <1>2 DEF AddReported
  <2>2. Stores' /\ Keeps
    BY <1>1, <2>1, QuietStep DEF Pass, Writing
  <2>3. Unwritten'
    BY <1>1, <2>1, OpenStep DEF Pass
  <2>4. Staged' /\ Rebuilt'
    BY <1>1, <1>2, <2>1
    DEF Pass, IInv, Staged, ScriptDone, Rebuilt, Rebuilding, Before, Permission
  <2>5. QED
    BY <2>2, <2>3, <2>4 DEF IInv, Stores
<1>3. CASE "distribution_reported" \notin seen
  <2>1. AddColumn("distribution_reported", conn, "populate")
    BY <1>3 DEF AddReported
  <2>2. /\ "distribution_reported" \in Current \cup Blobs
        /\ "populate" \in Writing
    BY DEF Current, Writing
  <2>3. /\ Keeps
        /\ \/ IInv'
           \/ /\ Stores' /\ pc' = "populate"
              /\ conn'.tables = conn.tables
              /\ conn'.cols = conn.cols \cup {"distribution_reported"}
              /\ conn'.clusters = conn.clusters
              /\ UNCHANGED <<snapshot, file, seen>>
    BY <1>1, <2>1, <2>2, AddColumnStep, ConnIs
  <2>4. CASE ~IInv'
    <3>1. Unwritten'
      BY <1>1, <2>3, <2>4, OpenStep
    <3>2. Staged' /\ Rebuilt'
      BY <1>1, <2>3, <2>4 DEF IInv, Staged, ScriptDone, Rebuilt, Rebuilding, Before, Permission
    <3>3. QED
      BY <2>3, <2>4, <3>1, <3>2 DEF IInv, Stores
  <2>5. QED
    BY <2>3, <2>4
<1>4. QED
  BY <1>2, <1>3

LEMMA PopulateStep ==
  ASSUME IInv, Populate
  PROVE  IInv' /\ Keeps
<1> DEFINE rows == [c \in Cluster |-> Lifted(conn.clusters[c])]
           db == [conn EXCEPT !.clusters = rows]
<1>1. pc = "populate" /\ pc' = "drop" /\ Write(db)
  BY DEF Populate
<1>2. /\ "members_json" \in conn.cols /\ seen \subseteq conn.cols
      /\ "distribution_reported" \in conn.cols
  BY <1>1 DEF IInv, Staged, Rebuilding
<1>3. \A c \in Cluster :
        LET row == conn.clusters[c] IN
        \/ row = NoRow
        \/ IsOld(row) /\ row.blobs.windows = Known(row.status, row.blobs.windows)
  BY <1>1, <1>2 DEF IInv, Sound, Rebuilt
<1>4. Lifted(NoRow) = NoRow
  BY DEF Lifted
<1>5. ~IsOld(NoRow)
  BY DEF IsOld, IsRow, NoRow
<1>6. \A c \in Cluster :
        LET row == conn.clusters[c] IN
        /\ row = NoRow => rows[c] = NoRow
        /\ IsOld(row) => /\ IsOld(rows[c]) /\ LoadBlobs(rows[c]) = LoadBlobs(row)
                         /\ rows[c].blobs.windows = Known(rows[c].status, rows[c].blobs.windows)
                         /\ HasMembers(rows[c])
  BY <1>3, <1>4, <1>5, LiftedRow
<1>7. rows = [c \in Cluster |-> rows[c]]
  OBVIOUS
<1> HIDE DEF rows
<1>8. /\ Sound(db) /\ Content(db) = Content(conn)
      /\ db.tables = conn.tables /\ db.cols = conn.cols /\ db.clusters = rows
  BY <1>2, <1>6, <1>7, RowsRewritten
<1> HIDE DEF db
<1>9. Stores' /\ Keeps
  BY <1>1, <1>8, WriteStep DEF Writing
<1>10. conn' = db /\ UNCHANGED <<snapshot, file, seen>>
  BY <1>1 DEF Write
<1>11. Unwritten'
  BY <1>1, <1>10, OpenStep
<1>12. Staged'
  BY <1>1, <1>2, <1>8, <1>10 DEF IInv, Staged, ScriptDone, Rebuilding, Before, Permission
<1>13. Rebuilt'
  BY <1>1, <1>3, <1>6, <1>8, <1>10 DEF Rebuilt
<1>14. QED
  BY <1>9, <1>11, <1>12, <1>13 DEF IInv, Stores

\* Where the blobs are dropped, the members' rows say what they said.
LEMMA DropBlobsStep ==
  ASSUME IInv, DropBlobs
  PROVE  IInv' /\ Keeps
<1> DEFINE rows == [c \in Cluster |-> [conn.clusters[c] EXCEPT !.blobs = Null]]
           cols == conn.cols \ Blobs
           db == [conn EXCEPT !.cols = cols, !.clusters = rows]
           new == Db(conn.tables, cols, conn.accounts, conn.canWork, rows)
<1>1. pc = "drop" /\ pc' = "accounts" /\ Define(db)
  BY DEF DropBlobs
<1>2. "members_json" \in conn.cols /\ "distribution_reported" \in conn.cols /\ ScriptDone
      /\ "worker_id" \in conn.cols
  BY <1>1 DEF IInv, Staged, Rebuilding
<1>3. \A c \in Cluster :
        LET row == conn.clusters[c] IN
        \/ row = NoRow
        \/ /\ IsOld(row) /\ row.blobs.windows = Known(row.status, row.blobs.windows)
           /\ HasMembers(row)
  BY <1>1, <1>2 DEF IInv, Sound, Rebuilt
<1>4. [NoRow EXCEPT !.blobs = Null] = NoRow
  <2>1. PICK s, r, m : NoRow = [status |-> s, blobs |-> Null, reported |-> r, members |-> m]
    BY DEF NoRow
  <2>2. QED
    BY <2>1
<1>5. ~IsNew(NoRow) /\ ~IsOld(NoRow)
  BY DEF IsNew, IsOld, IsRow, NoRow
<1>6. \A c \in Cluster :
        LET row == conn.clusters[c] IN
        \/ row = NoRow /\ rows[c] = NoRow
        \/ /\ IsOld(row) /\ IsNew(rows[c]) /\ Load(rows[c]) = LoadBlobs(row)
  BY <1>3, <1>4, DroppedRow
<1>7. db = new
  <2> HIDE DEF rows, cols
  <2>1. PICK t, k, a, w, c : conn = Db(t, k, a, w, c)
    BY ConnIs
  <2>2. [conn EXCEPT !.cols = cols] = Db(t, cols, a, w, c)
    BY <2>1 DEF Db
  <2>3. [Db(t, cols, a, w, c) EXCEPT !.clusters = rows] = Db(t, cols, a, w, rows)
    BY DEF Db
  <2>4. [conn EXCEPT !.cols = cols, !.clusters = rows]
          = [[conn EXCEPT !.cols = cols] EXCEPT !.clusters = rows]
    OBVIOUS
  <2>5. Db(t, cols, a, w, rows) = new
    BY <2>1, DatabaseIs
  <2>6. [conn EXCEPT !.cols = cols, !.clusters = rows] = new
    BY ONLY <2>2, <2>3, <2>4, <2>5, Zenon
  <2>7. QED
    BY <2>6
<1> HIDE DEF db
<1>8. /\ new.tables = conn.tables /\ new.cols = cols /\ new.accounts = conn.accounts
      /\ new.canWork = conn.canWork /\ new.clusters = rows
      /\ new = [tables |-> new.tables, cols |-> new.cols, accounts |-> new.accounts,
                canWork |-> new.canWork, clusters |-> new.clusters]
  BY DEF Db
<1>9. rows = [c \in Cluster |-> rows[c]]
  OBVIOUS
<1> HIDE DEF new, rows
<1>10. /\ cols \subseteq Current /\ cols \cap Blobs = {} /\ "members_json" \notin cols
       /\ "distribution_reported" \in cols /\ "worker_id" \in cols
       /\ "can_work" \in cols <=> "can_work" \in conn.cols
  BY <1>2 DEF IInv, Sound, Blobs
<1> HIDE DEF cols
<1>11. Sound(new)
  BY <1>6, <1>8, <1>9, <1>10 DEF IInv, Sound
<1>12. \A c \in Cluster : Content(new).clusters[c] = Content(conn).clusters[c]
  BY <1>2, <1>5, <1>6, <1>8, <1>10, Says
<1>13. Content(new) = Content(conn)
  BY <1>8, <1>10, <1>12, SaysTheSame
<1>14. Stores' /\ Keeps
  BY <1>1, <1>7, <1>11, <1>13, DefineStep DEF Writing
<1>15. conn' = new /\ UNCHANGED <<snapshot, file, seen>>
  BY <1>1, <1>7 DEF Define
<1>16. Unwritten'
  BY <1>1, <1>15, OpenStep
<1>17. Staged' /\ Rebuilt'
  BY <1>1, <1>2, <1>8, <1>10, <1>15
  DEF Staged, ScriptDone, Rebuilt, Rebuilding, Before, Permission
<1>18. QED
  BY <1>14, <1>16, <1>17 DEF IInv, Stores

LEMMA LookAtAccountsStep ==
  ASSUME IInv, LookAtAccounts
  PROVE  IInv' /\ Keeps
<1>1. Stores' /\ Keeps
  BY QuietStep DEF LookAtAccounts, Writing, Permission
<1>2. Unwritten'
  BY OpenStep DEF LookAtAccounts
<1>3. Staged' /\ Rebuilt'
  BY DEF LookAtAccounts, IInv, Staged, ScriptDone, Rebuilt, Rebuilding, Before, Permission
<1>4. QED
  BY <1>1, <1>2, <1>3 DEF IInv, Stores

\* Each permission is added unless it is there; the accounts may go on working.
LEMMA AddPermissionStep ==
  ASSUME IInv, NEW p \in Permission, AddPermission(p)
  PROVE  IInv' /\ Keeps
<1>1. /\ pc = p /\ seen \subseteq conn.cols /\ ScriptDone /\ "worker_id" \in conn.cols
      /\ "members_json" \notin conn.cols /\ Before[p] \subseteq conn.cols
  BY DEF AddPermission, IInv, Staged, Before, Permission
<1>2. /\ After[p] \in {"can_work", "can_use", "banned", "commit"}
      /\ After[p] \in Writing
      /\ Before[After[p]] = Before[p] \cup {p}
      /\ p \in Current
  <2> USE DEF After, Before, Permission, Writing, Current
  <2>1. CASE p = "is_admin"
    BY <2>1
  <2>2. CASE p = "can_work"
    BY <2>2
  <2>3. CASE p = "can_use"
    BY <2>3
  <2>4. CASE p = "banned"
    BY <2>4
  <2>5. QED
    BY <2>1, <2>2, <2>3, <2>4
<1>3. CASE p \in seen
  <2>1. pc' = After[p] /\ Pass
    BY <1>3 DEF AddPermission
  <2>2. Stores' /\ Keeps
    BY <1>1, <1>2, <2>1, QuietStep DEF Pass, Permission
  <2>3. Unwritten'
    BY <1>1, <1>2, <2>1, OpenStep DEF Pass, Permission
  <2>4. Staged' /\ Rebuilt'
    BY <1>1, <1>2, <1>3, <2>1 DEF Pass, Staged, ScriptDone, Rebuilt, Rebuilding
  <2>5. QED
    BY <2>2, <2>3, <2>4 DEF IInv, Stores
<1>4. CASE p \notin seen
  <2> DEFINE canWork == IF p = "can_work" THEN conn.accounts ELSE conn.canWork
             db == [conn EXCEPT !.canWork = canWork]
  <2>1. AddColumn(p, db, After[p])
    BY <1>4 DEF AddPermission
  <2>2. db = Db(conn.tables, conn.cols, conn.accounts, canWork, conn.clusters)
    <3> HIDE DEF canWork
    <3>1. QED
      BY ConnIs DEF Db
  <2>3. p \in Current \cup Blobs /\ p \notin Blobs
    BY DEF Current, Blobs, Permission
  <2> HIDE DEF db
  <2>4. /\ Keeps
        /\ \/ IInv'
           \/ /\ Stores' /\ pc' = After[p]
              /\ conn'.tables = conn.tables /\ conn'.cols = conn.cols \cup {p}
              /\ conn'.clusters = conn.clusters
              /\ UNCHANGED <<snapshot, file, seen>>
    BY <1>1, <1>2, <2>1, <2>2, <2>3, AddColumnStep DEF Permission
  <2>5. CASE ~IInv'
    <3>1. Unwritten'
      BY <1>1, <1>2, <2>4, <2>5, OpenStep DEF Permission
    <3>2. "members_json" \notin conn'.cols
      BY <1>1, <2>4, <2>5 DEF Permission
    <3>3. Staged' /\ Rebuilt'
      BY <1>1, <1>2, <2>4, <2>5, <3>2 DEF Staged, ScriptDone, Rebuilt, Rebuilding
    <3>4. QED
      BY <2>4, <2>5, <3>1, <3>3 DEF IInv, Stores
  <2>6. QED
    BY <2>4, <2>5
<1>5. QED
  BY <1>3, <1>4

LEMMA CommitStep ==
  ASSUME IInv, Commit
  PROVE  IInv' /\ Keeps
<1>1. Stores' /\ Keeps
  BY DEF Commit, IInv, Stores, Agrees, Keeps
<1>2. Unwritten'
  BY DEF Commit, IInv, Unwritten
<1>3. Staged' /\ Rebuilt'
  BY DEF Commit, IInv, Staged, ScriptDone, Rebuilt, Rebuilding, Before, Permission
<1>4. QED
  BY <1>1, <1>2, <1>3 DEF IInv, Stores

-----------------------------------------------------------------------------
(* The server that is up, and its death.                                   *)

LEMMA OperateStep ==
  ASSUME IInv, NEW db, Operate(db), Sound(db), db.tables = conn.tables, db.cols = conn.cols
  PROVE  IInv' /\ Keeps
<1>1. ~tx /\ Keeps
  BY DEF IInv, Agrees, Writing, Permission, Operate, Keeps
<1>2. Stores'
  BY <1>1 DEF IInv, Stores, Agrees, Operate
<1>3. Unwritten'
  BY DEF IInv, Unwritten, Operate
<1>4. Staged' /\ Rebuilt'
  BY DEF IInv, Staged, ScriptDone, Rebuilt, Rebuilding, Before, Permission, Operate
<1>5. QED
  BY <1>1, <1>2, <1>3, <1>4 DEF IInv, Stores

LEMMA OperationStep ==
  ASSUME IInv, Operation
  PROVE  IInv' /\ Keeps
<1>1. /\ pc = "serving" /\ ScriptDone /\ Sound(conn)
      /\ "members_json" \notin conn.cols /\ "accounts" \in conn.tables
  <2>1. pc = "serving"
    BY DEF Operation, CreateAccount, GrantWork, RevokeWork, ReportUnknown, Operate
  <2>2. ScriptDone => "accounts" \in conn.tables
    BY DEF ScriptDone, Table, Script, Range
  <2>3. QED
    BY <2>1, <2>2 DEF IInv, Staged, Before
\* Rights are granted and taken, accounts created.
<1>2. ASSUME NEW accounts, NEW canWork,
             Operate(Db(conn.tables, conn.cols, accounts, canWork, conn.clusters))
      PROVE  IInv' /\ Keeps
  <2> DEFINE db == Db(conn.tables, conn.cols, accounts, canWork, conn.clusters)
  <2>1. /\ db.tables = conn.tables /\ db.cols = conn.cols /\ db.accounts = accounts
        /\ db.canWork = canWork /\ db.clusters = conn.clusters
        /\ db = [tables |-> db.tables, cols |-> db.cols, accounts |-> db.accounts,
                 canWork |-> db.canWork, clusters |-> db.clusters]
    BY DEF Db
  <2> HIDE DEF db
  <2>2. Sound(db)
    BY <1>1, <2>1 DEF Sound
  <2>3. Operate(db)
    BY <1>2 DEF db
  <2>4. QED
    BY <2>1, <2>2, <2>3, OperateStep
<1>3. ASSUME NEW a \in Account, CreateAccount(a)
      PROVE  IInv' /\ Keeps
  <2> DEFINE accounts == conn.accounts \cup {a}
  <2>1. Operate([conn EXCEPT !.accounts = accounts])
    BY <1>3 DEF CreateAccount
  <2> HIDE DEF accounts
  <2>2. [conn EXCEPT !.accounts = accounts]
          = Db(conn.tables, conn.cols, accounts, conn.canWork, conn.clusters)
    BY ConnIs DEF Db
  <2>3. QED
    BY <1>2, <2>1, <2>2
<1>4. ASSUME NEW a \in Account, GrantWork(a) \/ RevokeWork(a)
      PROVE  IInv' /\ Keeps
  <2>1. PICK canWork : Operate([conn EXCEPT !.canWork = canWork])
    BY <1>4 DEF GrantWork, RevokeWork
  <2>2. [conn EXCEPT !.canWork = canWork]
          = Db(conn.tables, conn.cols, conn.accounts, canWork, conn.clusters)
    BY ConnIs DEF Db
  <2>3. QED
    BY <1>2, <2>1, <2>2
\* A head reports.
<1>5. ASSUME NEW c \in Cluster, ReportUnknown(c)
      PROVE  IInv' /\ Keeps
  <2> DEFINE row == conn.clusters[c]
             allReady == \A w \in DOMAIN row.members : row.members[w].ready
             status == IF allReady THEN "live" ELSE row.status
             members == [w \in DOMAIN row.members |-> [row.members[w] EXCEPT !.window = Null]]
             new == [row EXCEPT !.reported = TRUE, !.status = status, !.members = members]
             rows == [conn.clusters EXCEPT ![c] = new]
             db == Db(conn.tables, conn.cols, conn.accounts, conn.canWork, rows)
  <2>1. row.status \in {"assembling", "live"} /\ Operate([conn EXCEPT !.clusters[c] = new])
    BY <1>5 DEF ReportUnknown
  <2>2. IsNew(row)
    BY <1>1, <2>1 DEF Sound, NoRow
  <2>3. status \in {"assembling", "live"}
    BY <2>1
  <2> HIDE DEF members, status
  <2>4. new = [status |-> status, blobs |-> row.blobs, reported |-> TRUE, members |-> members]
    <3>0. PICK yes : yes = TRUE
      OBVIOUS
    <3>1. PICK s, b, r, m : row = [status |-> s, blobs |-> b, reported |-> r, members |-> m]
      BY <2>2 DEF IsNew, IsRow
    <3>2. [row EXCEPT !.reported = yes]
            = [status |-> s, blobs |-> b, reported |-> yes, members |-> m]
      BY <3>1
    <3>3. [[status |-> s, blobs |-> b, reported |-> yes, members |-> m] EXCEPT !.status = status]
            = [status |-> status, blobs |-> b, reported |-> yes, members |-> m]
      OBVIOUS
    <3>4. [[status |-> status, blobs |-> b, reported |-> yes, members |-> m]
             EXCEPT !.members = members]
            = [status |-> status, blobs |-> b, reported |-> yes, members |-> members]
      OBVIOUS
    <3>5. [row EXCEPT !.reported = yes, !.status = status, !.members = members]
            = [[[row EXCEPT !.reported = yes] EXCEPT !.status = status] EXCEPT !.members = members]
      OBVIOUS
    <3>6. [row EXCEPT !.reported = yes, !.status = status, !.members = members]
            = [status |-> status, blobs |-> b, reported |-> yes, members |-> members]
      BY ONLY <3>2, <3>3, <3>4, <3>5, Zenon
    <3>7. row.blobs = b
      BY <3>1
    <3>8. QED
      BY <3>0, <3>6, <3>7
  <2> HIDE DEF new
  <2>5. IsNew(new)
    BY <2>3, <2>4 DEF IsNew, IsRow
  <2> HIDE DEF row
  <2>6. [conn EXCEPT !.clusters[c] = new] = db
    <3>1. [conn EXCEPT !.clusters[c] = new] = [conn EXCEPT !.clusters = rows]
      OBVIOUS
    <3> HIDE DEF rows
    <3>2. [conn EXCEPT !.clusters = rows] = db
      BY ConnIs DEF Db
    <3>3. QED
      BY <3>1, <3>2
  <2>7. /\ db.tables = conn.tables /\ db.cols = conn.cols /\ db.accounts = conn.accounts
        /\ db.canWork = conn.canWork /\ db.clusters = rows
        /\ db = [tables |-> db.tables, cols |-> db.cols, accounts |-> db.accounts,
                 canWork |-> db.canWork, clusters |-> db.clusters]
    BY DEF Db
  <2> HIDE DEF db
  <2>8. rows = [d \in Cluster |-> IF d = c THEN new ELSE conn.clusters[d]]
    BY <1>1 DEF Sound
  <2>9. rows = [d \in Cluster |-> rows[d]] /\ \A d \in Cluster : rows[d] = IF d = c THEN new ELSE conn.clusters[d]
    BY <2>8
  <2> HIDE DEF rows
  <2>10. Sound(db)
    BY <1>1, <2>5, <2>7, <2>9 DEF Sound
  <2>11. QED
    BY <2>1, <2>6, <2>7, <2>10, OperateStep
<1>6. QED
  BY <1>3, <1>4, <1>5 DEF Operation

LEMMA CrashStep ==
  ASSUME IInv, Crash
  PROVE  IInv' /\ Keeps
BY StopStep DEF Crash

-----------------------------------------------------------------------------
(* The invariant.                                                          *)

\* The rows of an older version are in the shape of that version.
LEMMA OldRowIs ==
  ASSUME NEW info, IsInfo(info), NEW cols
  PROVE  LET row == OldRow(info, cols) IN
         \/ row = NoRow
         \/ IF "members_json" \in cols THEN IsOld(row) ELSE IsNew(row)
<1>1. CASE info = NoCluster
  BY <1>1 DEF OldRow
<1>2. CASE info # NoCluster
  <2>1. /\ info.status \in {"assembling", "live", "terminated"}
        /\ info.ring \in Seq(Worker) /\ IsInjective(info.ring)
        /\ info.ready \subseteq Range(info.ring)
        /\ info.windows \in Windows(Range(info.ring))
    BY <1>2, InfoIs
  <2>2. CASE "members_json" \in cols
    <3> DEFINE windows == IF "layer_windows_json" \in cols
                          THEN Known(info.status, info.windows) ELSE Null
               row == OldRow(info, cols)
               read == Known(info.status, windows)
    <3>1. row = [status |-> info.status, reported |-> FALSE, members |-> <<>>,
                 blobs |-> [ring |-> info.ring, ready |-> info.ready, windows |-> windows]]
      BY <1>2, <2>2 DEF OldRow
    <3>2. windows \in Windows(Range(info.ring))
      BY <2>1, KnownIsKnown DEF Windows
    <3>3. read \in Windows(Range(info.ring))
      BY <3>2, KnownIsKnown
    <3> HIDE DEF windows
    <3>4. IsRow(row)
      BY <2>1, <3>1 DEF IsRow
    <3>5. /\ row.status = info.status
          /\ row.blobs = [ring |-> info.ring, ready |-> info.ready, windows |-> windows]
      BY <3>1
    <3> HIDE DEF row
    <3>6. LoadBlobs(row) = [status |-> info.status, ring |-> info.ring, ready |-> info.ready,
                            windows |-> read]
      BY <3>5 DEF LoadBlobs
    <3> HIDE DEF read
    <3>7. /\ DOMAIN LoadBlobs(row) = {"status", "ring", "ready", "windows"}
          /\ LoadBlobs(row).status = info.status /\ LoadBlobs(row).ring = info.ring
          /\ LoadBlobs(row).ready = info.ready /\ LoadBlobs(row).windows = read
      BY <3>6
    <3>8. IsInfo(LoadBlobs(row))
      BY <2>1, <3>3, <3>7, InfoIs
    <3>9. row.blobs = [ring |-> row.blobs.ring, ready |-> row.blobs.ready,
                       windows |-> row.blobs.windows]
      BY <3>5
    <3>10. IsOld(row)
      BY <3>4, <3>8, <3>9 DEF IsOld
    <3>11. QED
      BY <2>2, <3>10 DEF row
  <2>3. CASE "members_json" \notin cols
    <3> DEFINE windows == Known(info.status, info.windows)
               row == OldRow(info, cols)
               members == MembersOf(info.ring, info.ready, windows)
    <3>1. PICK reported : reported = (windows # Null)
      OBVIOUS
    <3>2. row = [status |-> info.status, blobs |-> Null, reported |-> reported,
                 members |-> members]
      BY <1>2, <2>3, <3>1 DEF OldRow
    <3>3. info.status = "live" => reported
      BY <2>1, <3>1, KnownIsKnown
    <3> HIDE DEF windows, members, row
    <3>4. IsNew(row)
      BY <2>1, <3>2, <3>3 DEF IsNew, IsRow
    <3>5. QED
      BY <2>3, <3>4 DEF row
  <2>4. QED
    BY <2>2, <2>3
<1>3. QED
  BY <1>1, <1>2

LEMMA LeftIsSound ==
  ASSUME NEW past \in Past, NEW version \in DOMAIN Release
  PROVE  Sound(Left(past, Release[version]))
<1> DEFINE cols == Release[version]
           db == Left(past, cols)
<1>1. /\ cols \subseteq Current \cup Blobs
      /\ cols \cap Blobs # {} => "members_json" \in cols
      /\ "members_json" \notin cols => "distribution_reported" \in cols
  <2> USE DEF Release, Current, Blobs, Permission
  <2>1. CASE version = "v03"
    BY <2>1
  <2>2. CASE version = "v04"
    BY <2>2
  <2>3. CASE version = "v05"
    BY <2>3
  <2>4. CASE version = "v06"
    BY <2>4
  <2>5. QED
    BY <2>1, <2>2, <2>3, <2>4
<1> HIDE DEF cols
<1>2. /\ db.cols = cols
      /\ db.tables = IF "members_json" \in cols THEN Table \ {"cluster_members"} ELSE Table
      /\ db.clusters = [c \in Cluster |-> OldRow(past.clusters[c], cols)]
      /\ db = [tables |-> db.tables, cols |-> db.cols, accounts |-> db.accounts,
               canWork |-> db.canWork, clusters |-> db.clusters]
  BY DEF Left
<1>3. "accounts" \in db.tables
  BY <1>2 DEF Table, Script, Range
<1>4. \A c \in Cluster : IsInfo(past.clusters[c])
  BY PastAssumption
<1>5. \A c \in Cluster :
        \/ db.clusters[c] = NoRow
        \/ IF "members_json" \in cols THEN IsOld(db.clusters[c]) ELSE IsNew(db.clusters[c])
  BY <1>2, <1>4, OldRowIs
<1> HIDE DEF db
<1>6. db.clusters = [c \in Cluster |-> db.clusters[c]]
  BY <1>2
<1>7. Sound(db)
  BY <1>1, <1>2, <1>3, <1>5, <1>6 DEF Sound
<1>8. QED
  BY <1>7 DEF db, cols

LEMMA IInvInit == Init => IInv
<1> SUFFICES ASSUME Init PROVE IInv
  OBVIOUS
<1>1. Sound(EmptyDb)
  BY DEF Sound, EmptyDb, Blobs
<1>2. Sound(disk)
  BY <1>1, LeftIsSound DEF Init
<1>3. ~file => disk = EmptyDb
  BY DEF Init
<1>4. \A c \in Cluster : IsInfo(snapshot.clusters[c])
  <2>1. \/ snapshot = NoSnapshot
        \/ \E k \in {"good", "damaged", "unreadable"}, past \in Past :
             snapshot = [kind |-> k, accounts |-> past.accounts, clusters |-> past.clusters]
    BY DEF Init
  <2>2. CASE snapshot = NoSnapshot
    BY <2>2 DEF NoSnapshot, IsInfo
  <2>3. ASSUME NEW k \in {"good", "damaged", "unreadable"}, NEW past \in Past,
               snapshot = [kind |-> k, accounts |-> past.accounts, clusters |-> past.clusters]
        PROVE  \A c \in Cluster : IsInfo(snapshot.clusters[c])
    BY <2>3, PastAssumption
  <2>4. QED
    BY <2>1, <2>2, <2>3
<1>5. pc = "down" /\ ~tx /\ conn = disk
  BY DEF Init
<1>6. Unwritten
  BY <1>3, <1>4, <1>5 DEF Unwritten
<1>7. Agrees
  BY <1>5 DEF Agrees
<1>8. Staged /\ Rebuilt
  BY <1>5 DEF Staged, Rebuilt, Rebuilding, Before, Permission
<1>9. QED
  BY <1>2, <1>5, <1>6, <1>7, <1>8 DEF IInv

LEMMA IInvStep == IInv /\ [Next]_vars => IInv' /\ (Keeps \/ UNCHANGED vars)
<1> SUFFICES ASSUME IInv, [Next]_vars PROVE IInv' /\ (Keeps \/ UNCHANGED vars)
  OBVIOUS
<1>1. CASE Import
  BY <1>1, StartStep, ReadSnapshotStep, ImportScriptStep, ImportRowsStep, ImportCommitStep
  DEF Import
<1>2. CASE Upgrade
  BY <1>2, ConnectStep, RunScriptStep, BindKeysStep, LookAtClustersStep, AddWindowsStep,
     BackfillStep, AddReportedStep, PopulateStep, DropBlobsStep, LookAtAccountsStep,
     AddPermissionStep, CommitStep
  DEF Upgrade
<1>3. CASE Operation
  BY <1>3, OperationStep
<1>4. CASE Crash
  BY <1>4, CrashStep
<1>5. CASE UNCHANGED vars
  <2>1. SnapshotContent' = SnapshotContent
    BY <1>5 DEF vars, SnapshotContent
  <2>2. Sound(disk)' /\ Sound(conn)' /\ Agrees'
    BY <1>5, <2>1 DEF vars, IInv, Agrees
  <2>3. Unwritten' /\ Staged' /\ Rebuilt'
    BY <1>5 DEF vars, IInv, Unwritten, Staged, ScriptDone, Rebuilt
  <2>4. QED
    BY <1>5, <2>2, <2>3 DEF IInv
<1>6. QED
  BY <1>1, <1>2, <1>3, <1>4, <1>5 DEF Next

-----------------------------------------------------------------------------
(* What holds of every start-up.                                           *)

\* A server serves from a committed database with every table and column of its
\* version and no older one, and every live cluster has a distribution.
THEOREM DatabaseIsCurrent == Spec => []ServesCurrent
<1>1. IInv => ServesCurrent
  <2> SUFFICES ASSUME IInv, pc = "serving" PROVE ServesCurrent
    BY DEF ServesCurrent
  <2>1. ~tx /\ conn = disk
    BY DEF IInv, Agrees, Writing, Permission
  <2>2. /\ Table \subseteq disk.tables /\ "worker_id" \in disk.cols
        /\ "members_json" \notin disk.cols /\ Permission \subseteq disk.cols
    BY <2>1 DEF IInv, Staged, ScriptDone, Before
  <2>3. "clusters" \in disk.tables
    BY <2>2 DEF Table, Script, Range
  <2>4. disk.cols = Current
    BY <2>2, <2>3 DEF IInv, Sound, Current
  <2>5. \A c \in Cluster : disk.clusters[c].status = "live" => disk.clusters[c].reported
    BY <2>2 DEF IInv, Sound, IsNew, NoRow
  <2>6. QED
    BY <2>1, <2>2, <2>4, <2>5 DEF ServesCurrent
<1>2. IInv /\ [Next]_vars => IInv'
  BY IInvStep
<1>3. QED
  BY IInvInit, <1>1, <1>2, PTL DEF Spec

\* Between two operations of the server, whatever starts, upgrades and deaths
\* there are, what is committed says the same, unless a whole snapshot is
\* imported into an empty database.
THEOREM StartsKeepContent == Spec => ContentKept
<1> DEFINE Step == \/ pc = "serving"
                   \/ Content(disk') = Content(disk)
                   \/ Content(disk) = Content(EmptyDb) /\ Content(disk') = SnapshotContent
<1>1. IInv /\ [Next]_vars => IInv' /\ [Step]_vars
  BY IInvStep DEF Keeps
<1>2. QED
  BY IInvInit, <1>1, PTL DEF Spec, ContentKept
=============================================================================

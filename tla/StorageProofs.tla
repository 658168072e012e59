--------------------------- MODULE StorageProofs ---------------------------
(***************************************************************************)
(* What the stores on disk keep, for every set of contents, workers and    *)
(* revisions, every database an opening may find, and every number of      *)
(* faults.  The journal and the blob store are two invariants that share   *)
(* no variable, and the references between them a third one.               *)
(***************************************************************************)
EXTENDS Storage, TLAPS

(* Where a Put is, and what its two files hold there. *)
PutShape ==
  /\ put \in [Putters -> {"idle", "write", "stat", "stage", "rename", "done"}]
  /\ content \in [Putters -> Contents \cup {NoContent}]
  /\ data \in [Putters -> File] /\ commit \in [Putters -> File]
  /\ \A w \in Putters :
       /\ put[w] # "idle" => content[w] \in Contents
       /\ put[w] \in {"idle", "done"} => w \notin dirs /\ data[w] = "none" /\ commit[w] = "none"
       /\ put[w] \in {"write", "stat"} => commit[w] = "none"
       /\ put[w] \in {"stat", "stage"} => data[w] = "whole"
       /\ put[w] = "rename" => commit[w] = "whole"
       /\ put[w] = "done" => blobs[content[w]] = "whole"

(* A destination never shows a file that is being written. *)
BlobsShape == blobs \in [Contents -> {"none", "whole"}]

BlobInv == PutShape /\ BlobsShape

(* Only what is stored has a reference anywhere. *)
RefsInv ==
  /\ blobRef \in [Ids -> Contents \cup {NoContent}] /\ told \subseteq Contents
  /\ \A r \in Ids : blobRef[r] # NoContent => blobs[blobRef[r]] = "whole"
  /\ \A c \in told : blobs[c] = "whole"

(* The steps of Open that need the table of the revisions. *)
Late == {"records", "routing", "fts", "backfill", "configure", "open"}

(* Revisions are in a table that exists, a number is that of a revision,   *)
(* and the search index is empty or complete.                              *)
RowsShape ==
  /\ rows \in [Tables -> SUBSET Ids]
  /\ "revisions" \notin schema => rows["revisions"] = {}
  /\ pc \in Late => "revisions" \in schema
  /\ rows["revisions_fts"] \in {{}, rows["revisions"]}
  /\ pc \in {"configure", "open"} => rows["revisions_fts"] = rows["revisions"]
SeqShape ==
  /\ DOMAIN seq = Ids
  /\ \A r \in Ids : seq[r] # 0 => r \in rows["revisions"] /\ "sequence" \in cols

JournalInv == RowsShape /\ SeqShape

-----------------------------------------------------------------------------
(* An open, whole file is what a Put makes of its content, and no step of  *)
(* it shows less: every step of a worker keeps BlobInv, and takes nothing  *)
(* from the store.                                                         *)
LEMMA PutStepBlobInv ==
  ASSUME BlobInv, NEW w \in Putters, PutStep(w)
  PROVE  BlobInv' /\ \A c \in Contents : blobs[c] = "whole" => blobs'[c] = "whole"
  <1> USE DEF BlobInv, PutShape, BlobsShape, To, File
  <1>1. CASE Write(w)
    BY <1>1 DEF Write
  <1>2. CASE Known(w)
    BY <1>2 DEF Known, RemoveDir
  <1>3. CASE CreateCommit(w)
    BY <1>3 DEF CreateCommit
  <1>4. CASE Stage(w)
    BY <1>4 DEF Stage
  <1>5. CASE Commit(w)
    BY <1>5 DEF Commit, RemoveDir
  <1> QED
    BY <1>1, <1>2, <1>3, <1>4, <1>5 DEF PutStep

(* So do the beginning, the failure and the end of a Put. *)
LEMMA PutEndsBlobInv ==
  ASSUME BlobInv, NEW w \in Putters,
         (\E c \in Contents : BeginPut(w, c)) \/ PutFails(w) \/ ForgetPut(w)
  PROVE  BlobInv' /\ blobs' = blobs
  <1> USE DEF BlobInv, PutShape, BlobsShape, File
  <1>1. CASE \E c \in Contents : BeginPut(w, c)
    BY <1>1 DEF BeginPut
  <1>2. CASE PutFails(w)
    BY <1>2 DEF PutFails, RemoveDir
  <1>3. CASE ForgetPut(w)
    BY <1>3 DEF ForgetPut, files
  <1> QED
    BY <1>1, <1>2, <1>3

(* The other steps of the stores, as far as blobs are concerned. *)
LEMMA UseBlobInv ==
  ASSUME BlobInv,
         \/ \E w \in Putters : HandlePutBlob(w) \/ \E r \in Ids : AppendWithBlob(w, r)
         \/ BlobCrash
         \/ UNCHANGED blobVars
  PROVE  BlobInv' /\ blobs' = blobs
  <1> USE DEF BlobInv, PutShape, BlobsShape, File
  <1>1. CASE \E w \in Putters : HandlePutBlob(w) \/ \E r \in Ids : AppendWithBlob(w, r)
    BY <1>1 DEF HandlePutBlob, AppendWithBlob, files
  <1>2. CASE BlobCrash
    BY <1>2 DEF BlobCrash
  <1>3. CASE UNCHANGED blobVars
    BY <1>3 DEF blobVars
  <1> QED
    BY <1>1, <1>2, <1>3

(* Every step keeps BlobInv, and a stored content. *)
LEMMA NextBlobInv ==
  ASSUME BlobInv, [Next]_storageVars
  PROVE  BlobInv' /\ \A c \in Contents : blobs[c] = "whole" => blobs'[c] = "whole"
  <1>1. CASE Opening \/ (\E r \in Ids : HandleRecords(r)) \/ UNCHANGED storageVars
    BY <1>1, UseBlobInv DEF Opening, HandleRecords, storageVars
  <1>2. ASSUME NEW w \in Putters, Putting(w)
        PROVE  BlobInv' /\ \A c \in Contents : blobs[c] = "whole" => blobs'[c] = "whole"
    BY <1>2, PutStepBlobInv, PutEndsBlobInv DEF Putting
  <1>3. CASE \E w \in Putters : HandlePutBlob(w) \/ \E r \in Ids : AppendWithBlob(w, r)
    BY <1>3, UseBlobInv
  <1>4. CASE Crash
    BY <1>4, UseBlobInv DEF Crash
  <1> QED
    BY <1>1, <1>2, <1>3, <1>4 DEF Next

(* The blob invariant holds initially. *)
LEMMA InitBlobInv == Init => BlobInv /\ RefsInv
  BY NoContentAssumption DEF Init, BlobInit, BlobInv, PutShape, BlobsShape, RefsInv, File

(* References are of stored contents, and stay so. *)
LEMMA NextRefsInv ==
  ASSUME BlobInv, RefsInv, [Next]_storageVars
  PROVE  RefsInv'
  <1>1. \A c \in Contents : blobs[c] = "whole" => blobs'[c] = "whole"
    BY NextBlobInv
  <1>2. CASE UNCHANGED <<blobRef, told>>
    BY <1>1, <1>2 DEF RefsInv
  <1>3. ASSUME NEW w \in Putters, NEW r \in Ids, AppendWithBlob(w, r)
        PROVE  RefsInv'
    BY <1>1, <1>3 DEF RefsInv, AppendWithBlob, BlobInv, PutShape
  <1>4. ASSUME NEW w \in Putters, HandlePutBlob(w)
        PROVE  RefsInv'
    BY <1>1, <1>4 DEF RefsInv, HandlePutBlob, BlobInv, PutShape
  <1>5. ASSUME NEW r \in Ids, HandleRecords(r)
        PROVE  RefsInv'
    BY <1>1, <1>5 DEF RefsInv, HandleRecords, BuildAppendRequest
  <1> QED
    BY <1>2, <1>3, <1>4, <1>5 DEF Next, Opening, Putting, Crash, storageVars

-----------------------------------------------------------------------------
(* The tables by their names. *)
LEMMA RenamedFacts ==
  /\ DOMAIN Renamed = {"revisions", "record_revisions", "revision_dispatch", "revisions_fts"}
  /\ Renamed["revisions"] = "events" /\ Renamed["record_revisions"] = "record_events"
  /\ Renamed["revision_dispatch"] = "event_dispatch" /\ Renamed["revisions_fts"] = "events_fts"
  BY DEF Renamed

LEMMA TableNames ==
  /\ {"revisions", "revisions_fts", "record_revisions", "events", "events_fts"} \subseteq Tables
  /\ \A t \in DOMAIN Renamed : t \in Tables /\ Renamed[t] \in Tables
  BY RenamedFacts DEF Tables, NewTables

(* Every database that may be found satisfies the journal's invariant. *)
LEMMA InitJournalInv == Init => JournalInv
  BY DatabasesAssumption, TableNames DEF Init, JournalInit, JournalInv, RowsShape, SeqShape, Late

(* A step that leaves rows, numbers and search rows alone. *)
LEMMA FrameJournalInv ==
  ASSUME JournalInv, UNCHANGED <<rows, seq>>, schema \subseteq schema', cols \subseteq cols',
         pc' \in {"configure", "open"} => pc \in {"configure", "open"},
         pc' \in Late => pc \in Late \/ "revisions" \in schema'
  PROVE  JournalInv'
  BY DEF JournalInv, RowsShape, SeqShape

(* The migrations. *)
LEMMA PreRecordsJournalInv ==
  ASSUME JournalInv, NEW hidden, MigratePreRecordsShape(hidden)
  PROVE  JournalInv'
  <1>1. CASE Skip("rename")
    BY <1>1, FrameJournalInv DEF Skip, Goto, tables, Late
  <1>2. CASE ~Skip("rename")
    BY <1>2, TableNames DEF MigratePreRecordsShape, Goto, JournalInv, RowsShape, SeqShape, Late
  <1> QED
    BY <1>1, <1>2

LEMMA RenameJournalInv ==
  ASSUME JournalInv, NEW hidden, MigrateEventsToRevisions(hidden)
  PROVE  JournalInv'
  <1> DEFINE olds == {Renamed[t] : t \in DOMAIN Renamed}
             seen == {old \in olds : Exists(old, hidden)}
             named == {t \in DOMAIN Renamed : Renamed[t] \in seen}
  <1>1. CASE Skip("ordering") \/ Abort
    BY <1>1, FrameJournalInv DEF Skip, Abort, Goto, tables, Late
  <1>2. CASE ~(Skip("ordering") \/ Abort)
    <2>1. /\ "events" \in seen /\ named \cap schema = {}
          /\ schema' = (schema \ seen) \cup named
          /\ rows' = RenamedRows(seen)
          /\ cols' = cols \ {"events.operation"} /\ pc' = "ordering" /\ seq' = seq
      BY <1>2 DEF MigrateEventsToRevisions, Goto
    <2>2. "revisions" \in named /\ "revisions" \notin seen /\ "revisions_fts" \notin seen
      BY <2>1, RenamedFacts
    <2>3. rows["revisions"] = {}
      BY <2>1, <2>2, TableNames DEF JournalInv, RowsShape
    <2>4. rows' \in [Tables -> SUBSET Ids]
      BY <2>1, TableNames DEF RenamedRows, JournalInv, RowsShape
    <2>5. "revisions" \in schema'
      BY <2>1, <2>2
    <2>6. rows'["revisions"] = rows["events"]
      BY <2>1, <2>2, TableNames, RenamedFacts DEF RenamedRows
    <2>7. rows'["revisions_fts"] \in {{}, rows["events"]}
      <3>1. rows["revisions_fts"] = {}
        BY <2>3 DEF JournalInv, RowsShape
      <3> QED
        BY <3>1, <2>1, <2>2, TableNames, RenamedFacts DEF RenamedRows
    <2>8. \A r \in Ids : seq[r] = 0
      BY <2>3 DEF JournalInv, SeqShape
    <2> QED
      BY <2>1, <2>4, <2>5, <2>6, <2>7, <2>8 DEF JournalInv, RowsShape, SeqShape, Late
  <1> QED
    BY <1>1, <1>2

LEMMA ColumnsJournalInv ==
  ASSUME JournalInv, NEW hidden,
         MigrateReplayOrdering(hidden) \/ MigrateProducer(hidden) \/ MigrateReferences(hidden)
  PROVE  JournalInv'
  <1>1. CASE MigrateReplayOrdering(hidden)
    <2>1. CASE Skip("producer")
      BY <2>1, FrameJournalInv DEF Skip, Goto, tables, Late
    <2>2. CASE ~Skip("producer")
      <3>1. /\ "sequence" \notin cols /\ cols' = cols \cup {"sequence"}
            /\ seq' = Numbered /\ pc' = "producer" /\ UNCHANGED <<schema, rows>>
        BY <1>1, <2>2 DEF MigrateReplayOrdering, Goto
      <3> QED
        BY <3>1 DEF Numbered, JournalInv, RowsShape, SeqShape, Late
    <2> QED
      BY <2>1, <2>2
  <1>2. CASE MigrateProducer(hidden) \/ MigrateReferences(hidden)
    BY <1>2, FrameJournalInv DEF MigrateProducer, MigrateReferences, Skip, Abort, Goto,
       tables, Late
  <1> QED
    BY <1>1, <1>2

(* The tables are made in order, and that of the revisions is the first.   *)
LEMMA CreateJournalInv ==
  ASSUME JournalInv, CreateTables PROVE JournalInv'
  <1>1. CASE SchemaDDL
    <2>1. PICK made \in 0 .. 1 : Create("schema", <<"revisions">>, made, "records")
      BY <1>1 DEF SchemaDDL
    <2>2. schema \subseteq schema' /\ cols \subseteq cols' /\ UNCHANGED <<rows, seq>>
      BY <2>1 DEF Create
    <2>3. pc' = "closed" \/ (pc' = "records" /\ "revisions" \in schema')
      <3>1. CASE made = 0
        BY <2>1, <3>1 DEF Create, Goto
      <3>2. CASE made = 1
        BY <2>1, <3>2 DEF Create, Goto
      <3> QED
        BY <3>1, <3>2
    <2> QED
      BY <2>2, <2>3, FrameJournalInv DEF Late
  <1>2. CASE RecordsSchemaDDL \/ RoutingSchemaDDL \/ FtsSchemaDDL
    <2>1. schema \subseteq schema' /\ cols \subseteq cols' /\ UNCHANGED <<rows, seq>>
      BY <1>2 DEF RecordsSchemaDDL, RoutingSchemaDDL, FtsSchemaDDL, Create
    <2>2. pc \in {"records", "routing", "fts"} /\ pc' \in {"closed", "routing", "fts", "backfill"}
      BY <1>2 DEF RecordsSchemaDDL, RoutingSchemaDDL, FtsSchemaDDL, Create, Goto
    <2> QED
      BY <2>1, <2>2, FrameJournalInv DEF Late
  <1> QED
    BY <1>1, <1>2 DEF CreateTables

(* The backfill completes the index, and the rest of Open changes no row.  *)
LEMMA RestJournalInv ==
  ASSUME JournalInv, BeginOpen \/ MigrateFTS \/ ConfigureDB \/ Interrupt \/ UNCHANGED journalVars
  PROVE  JournalInv'
  <1>1. CASE BeginOpen \/ Interrupt
    BY <1>1, FrameJournalInv DEF BeginOpen, Interrupt, Skip, Abort, Goto, tables, Late
  <1>2. CASE MigrateFTS
    BY <1>2, TableNames DEF MigrateFTS, Goto, JournalInv, RowsShape, SeqShape, Late
  <1>3. CASE ConfigureDB
    <2>1. pc' = "open" /\ UNCHANGED tables /\ pc = "configure"
      BY <1>3 DEF ConfigureDB, Skip, Goto
    <2> QED
      BY <2>1, FrameJournalInv DEF tables, Late
  <1>4. CASE UNCHANGED journalVars
    BY <1>4, FrameJournalInv DEF journalVars
  <1> QED
    BY <1>1, <1>2, <1>3, <1>4

(* An append numbers a revision that is new.                               *)
LEMMA AppendJournalInv ==
  ASSUME JournalInv, NEW r \in Ids, AppendRevision(r) PROVE JournalInv'
  <1>1. "sequence" \in cols /\ "revisions" \in schema /\ pc = "open"
    BY DEF AppendRevision, Writable, RevisionColumns, JournalInv, RowsShape, Late
  <1> QED
    BY <1>1, TableNames DEF AppendRevision, JournalInv, RowsShape, SeqShape

(* Every step keeps the journal's invariant. *)
LEMMA NextJournalInv ==
  ASSUME JournalInv, [Next]_storageVars PROVE JournalInv'
  <1>1. CASE Opening
    BY <1>1, PreRecordsJournalInv, RenameJournalInv, ColumnsJournalInv, CreateJournalInv,
       RestJournalInv DEF Opening, OpenStep, Migrate
  <1>2. CASE \E r \in Ids : HandleRecords(r) \/ \E w \in Putters : AppendWithBlob(w, r)
    BY <1>2, AppendJournalInv DEF HandleRecords, AppendWithBlob
  <1>3. CASE Crash
    BY <1>3, RestJournalInv DEF Crash
  <1>4. CASE \/ \E w \in Putters : Putting(w) \/ HandlePutBlob(w)
             \/ UNCHANGED storageVars
    BY <1>4, RestJournalInv DEF Putting, HandlePutBlob, storageVars
  <1> QED
    BY <1>1, <1>2, <1>3, <1>4 DEF Next

-----------------------------------------------------------------------------
(* The three invariants hold together in every reachable state. *)
StorageInv == BlobInv /\ RefsInv /\ JournalInv

LEMMA StorageInvariant == Spec => []StorageInv
  <1>1. Init => StorageInv
    BY InitBlobInv, InitJournalInv DEF StorageInv
  <1>2. StorageInv /\ [Next]_storageVars => StorageInv'
    BY NextBlobInv, NextRefsInv, NextJournalInv DEF StorageInv
  <1> QED
    BY <1>1, <1>2, PTL DEF Spec

(* In an open journal every revision is found by its text, whatever        *)
(* database was found and wherever its opening was cut short: the search   *)
(* row is written in the append's transaction, and an index that is not    *)
(* empty when Open looks at it is complete (fts.go:19-43).                 *)
THEOREM EveryRevisionFound == Spec => []Searchable
  <1>1. JournalInv => Searchable
    BY TableNames DEF JournalInv, RowsShape, Searchable, Query
  <1> QED
    BY <1>1, StorageInvariant, PTL DEF StorageInv

(* A blob_ref in the journal, and one that a client was answered with,     *)
(* names a whole content, for every number of concurrent puts, failures    *)
(* and crashes (blob/filesystem.go:33-118).                                *)
THEOREM ReferencesResolve == Spec => []RefsResolve
  <1>1. RefsInv /\ JournalInv => RefsResolve
    BY TableNames DEF RefsInv, JournalInv, RowsShape, RefsResolve, Get
  <1> QED
    BY <1>1, StorageInvariant, PTL DEF StorageInv

(* A Put that has returned, in whatever way, leaves no temporary file      *)
(* (blob/filesystem.go:45, 88-95).                                         *)
THEOREM PutLeavesNothing == Spec => []TempsRemoved
  <1>1. BlobInv => TempsRemoved
    BY DEF BlobInv, PutShape, TempsRemoved
  <1> QED
    BY <1>1, StorageInvariant, PTL DEF StorageInv

(* A number, once given, stays: the one migration that numbers revisions   *)
(* runs where none has a number, and an append numbers one that was not    *)
(* there (migrate.go:174-180, store.go:238-247).                           *)
LEMMA NumbersStay ==
  ASSUME JournalInv, [Next]_storageVars
  PROVE  \A r \in Ids : seq[r] # 0 => seq'[r] = seq[r]
  <1>1. CASE UNCHANGED seq
    BY <1>1
  <1>2. ASSUME NEW hidden, MigrateReplayOrdering(hidden)
        PROVE  \A r \in Ids : seq[r] # 0 => seq'[r] = seq[r]
    BY <1>2 DEF MigrateReplayOrdering, Skip, tables, JournalInv, SeqShape
  <1>3. ASSUME NEW n \in Ids, AppendRevision(n)
        PROVE  \A r \in Ids : seq[r] # 0 => seq'[r] = seq[r]
    <2>1. n \notin rows["revisions"]
      BY <1>3, IdsAssumption DEF AppendRevision
    <2>2. seq[n] = 0
      BY <2>1 DEF JournalInv, SeqShape
    <2> QED
      BY <1>3, <2>2 DEF AppendRevision, JournalInv, SeqShape
  <1>4. CASE Opening
    <2>1. CASE \E hidden : MigrateReplayOrdering(hidden)
      BY <2>1, <1>2
    <2>2. CASE UNCHANGED seq
      BY <2>2
    <2>3. UNCHANGED seq \/ \E hidden : MigrateReplayOrdering(hidden)
      BY <1>4 DEF Opening, OpenStep, Migrate, CreateTables, BeginOpen, MigratePreRecordsShape,
         MigrateEventsToRevisions, MigrateProducer, MigrateReferences, SchemaDDL,
         RecordsSchemaDDL, RoutingSchemaDDL, FtsSchemaDDL, Create, MigrateFTS, ConfigureDB,
         Skip, Abort, tables
    <2> QED
      BY <2>1, <2>2, <2>3
  <1>5. CASE \E r \in Ids : HandleRecords(r) \/ \E w \in Putters : AppendWithBlob(w, r)
    BY <1>5, <1>3 DEF HandleRecords, AppendWithBlob
  <1>6. CASE Crash \/ (\E w \in Putters : Putting(w) \/ HandlePutBlob(w)) \/ UNCHANGED storageVars
    BY <1>6, <1>1 DEF Crash, Interrupt, Abort, tables, Putting, HandlePutBlob, journalVars, storageVars
  <1> QED
    BY <1>4, <1>5, <1>6 DEF Next

(* A revision's sequence never changes, over every number of openings      *)
(* (migrate.go:174-180).                                                   *)
THEOREM SequencesStay == Spec => SequenceStable
  <1>1. StorageInv /\ [Next]_storageVars => [\A r \in Ids : seq[r] # 0 => seq'[r] = seq[r]]_storageVars
    BY NumbersStay DEF StorageInv
  <1> QED
    BY <1>1, StorageInvariant, PTL DEF Spec, SequenceStable

(* The temporary files, the renames and the crashes implement a store of   *)
(* contents in which a reference resolves to nothing or to the whole       *)
(* content, and stays (blob/store.go).                                     *)
THEOREM FilesImplementContents == Spec => ImplementsContentStore
  <1>1. Init => Abstract!Init
    BY DEF Init, BlobInit, Abstract!Init
  <1>2. BlobInv /\ [Next]_storageVars => [\E c \in Contents : Abstract!Put(c)]_blobs
    <2> SUFFICES ASSUME BlobInv, [Next]_storageVars, blobs' # blobs
                 PROVE  \E c \in Contents : Abstract!Put(c)
      OBVIOUS
    <2>1. PICK w \in Putters : Commit(w)
      BY PutEndsBlobInv, UseBlobInv DEF Next, Opening, Putting, PutStep, Write, Known, CreateCommit,
         Stage, HandlePutBlob, AppendWithBlob, HandleRecords, Crash, BlobCrash, blobVars, files,
         storageVars, BeginPut, PutFails, ForgetPut
    <2>2. content[w] \in Contents /\ commit[w] = "whole" /\ blobs[content[w]] \in {"none", "whole"}
      BY <2>1 DEF Commit, BlobInv, PutShape, BlobsShape
    <2>3. blobs' = [blobs EXCEPT ![content[w]] = "whole"]
      BY <2>1, <2>2 DEF Commit
    <2>4. blobs[content[w]] = "none"
      BY <2>2, <2>3 DEF BlobInv, BlobsShape
    <2> QED
      BY <2>2, <2>3, <2>4 DEF Abstract!Put
  <1> QED
    BY <1>1, <1>2, StorageInvariant, PTL DEF Spec, StorageInv, ImplementsContentStore, Abstract!Spec
=============================================================================

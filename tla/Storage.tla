------------------------------ MODULE Storage ------------------------------
(***************************************************************************)
(* What the daemon keeps on disk: the journal's database and the blob      *)
(* store.  Workers (RPCs of modules, captures) put a content and then      *)
(* append a revision that names it.  An HTTP client does the two in two    *)
(* requests, and may keep the reference for as long as it likes.  The      *)
(* process may die at any step, with both stores as they are, and be       *)
(* started again.  Nothing checks that a reference resolves: the model's   *)
(* callers use those that they were given.                                 *)
(***************************************************************************)
EXTENDS JournalOpen, BlobStore

VARIABLES
  blobRef,  \* per revision, the content its blob_ref names
  told,     \* contents whose reference an HTTP client was answered with
  found     \* history: the database the first start found

storageVars == <<journalVars, blobVars, blobRef, told, found>>

TypeOK ==
  /\ JournalTypeOK /\ BlobTypeOK
  /\ blobRef \in [Ids -> Contents \cup {NoContent}]
  /\ told \subseteq Contents
  /\ found \in Databases

Init ==
  /\ JournalInit /\ BlobInit
  /\ blobRef = [r \in Ids |-> NoContent] /\ told = {}
  /\ found = [schema |-> schema, rows |-> rows, cols |-> cols, seq |-> seq]

(* main opens the journal before it opens the blob store and the modules.  *)
Opening == OpenStep /\ UNCHANGED <<blobVars, blobRef, told, found>>

Putting(w) ==
  /\ pc = "open"
  /\ \/ \E c \in Contents : BeginPut(w, c)
     \/ PutStep(w)
     \/ ForgetPut(w)
     \/ PutFails(w)
  /\ UNCHANGED <<journalVars, blobRef, told, found>>

(* Mutant: the revision is appended while its content is on its way.       *)
AppendWithBlobEarly(w, r) ==
  /\ put[w] \in {"rename", "done"}
  /\ AppendRevision(r)
  /\ blobRef' = [blobRef EXCEPT ![r] = content[w]]
  /\ UNCHANGED <<blobVars, told, found>>

(* The caller appends a revision that names what it has put. *)
AppendWithBlob(w, r) ==
  /\ put[w] = "done"
  /\ AppendRevision(r)
  /\ blobRef' = [blobRef EXCEPT ![r] = content[w]]
  /\ put' = [put EXCEPT ![w] = "idle"] /\ content' = [content EXCEPT ![w] = NoContent]
  /\ UNCHANGED <<files, told, found>>

(* PUT /blobs is answered. *)
HandlePutBlob(w) ==
  /\ pc = "open" /\ put[w] = "done"
  /\ told' = told \cup {content[w]}
  /\ put' = [put EXCEPT ![w] = "idle"] /\ content' = [content EXCEPT ![w] = NoContent]
  /\ UNCHANGED <<journalVars, files, blobRef, found>>

(* The request of the body of POST /records: its blob_ref is the client's. *)
BuildAppendRequest(r, c) == blobRef' = [blobRef EXCEPT ![r] = c]

(* POST /records, perhaps of another process than the one that put. *)
HandleRecords(r) ==
  /\ AppendRevision(r)
  /\ \E c \in told : BuildAppendRequest(r, c)
  /\ UNCHANGED <<blobVars, told, found>>

Crash == Interrupt /\ BlobCrash /\ UNCHANGED <<blobRef, told, found>>

Next ==
  \/ Opening
  \/ \E w \in Putters : Putting(w) \/ HandlePutBlob(w) \/ \E r \in Ids : AppendWithBlob(w, r)
  \/ \E r \in Ids : HandleRecords(r)
  \/ Crash

Spec == Init /\ [][Next]_storageVars

(* A daemon that has stopped is started again, and Open goes on. *)
FairSpec == Spec /\ WF_storageVars(Opening)

-----------------------------------------------------------------------------
Held(new, old) == found.rows[new] \cup found.rows[old]
PreRecords == "events" \in found.schema /\ "events.operation" \notin found.cols

(* An open journal has every revision, link and dispatch row the database  *)
(* was found with, wherever Open was cut short before, unless they are     *)
(* from before records or a migration did not see their table              *)
(* (migrate.go:12-124).                                                    *)
RevisionsKept == pc = "open" /\ ~PreRecords =>
  \A t \in {"revisions", "record_revisions", "revision_dispatch"} :
    overlooked \cap {"events", t, Renamed[t]} = {} => Held(t, Renamed[t]) \subseteq rows[t]

(* Every revision of an open journal is found by its text: the backfill    *)
(* takes an index that has any row for complete, and it is, over every     *)
(* path of migrations, crashes and appends (fts.go:19-43).                 *)
Searchable == pc = "open" => Query = rows["revisions"] /\ rows["revisions_fts"] = Query

(* In an open journal no two revisions of a record have one sequence, the  *)
(* ones found are numbered by their event times, and new ones come after   *)
(* them (migrate.go:199-242, store.go:238-247).                            *)
Ordered == pc = "open" /\ "sequence" \in cols =>
  \A r, s \in rows["revisions"] : RecordOf[r] = RecordOf[s] /\ r # s =>
    /\ seq[r] # seq[s] /\ seq[r] > 0
    /\ s \in Held("revisions", "events") /\ seq[r] < seq[s] /\ found.seq[s] = 0
         => r \in Held("revisions", "events") /\ Precedes(r, s)

(* A revision's sequence never changes: an opening that goes on after a    *)
(* crash numbers nothing again, whatever has been appended with earlier    *)
(* event times (migrate.go:174-180).                                       *)
SequenceStable == [][\A r \in Ids : seq[r] # 0 => seq'[r] = seq[r]]_storageVars

(* A blob_ref in the journal, and one that a client was answered with,     *)
(* names a content that is read whole, over concurrent puts of one content *)
(* and crashes (blob/filesystem.go:33-118).                                *)
RefsResolve ==
  /\ \A r \in rows["revisions"] : blobRef[r] # NoContent => Get(blobRef[r]) = "whole"
  /\ \A c \in told : Get(c) = "whole"

(* A Put that has returned, in whatever way, leaves no temporary file      *)
(* (blob/filesystem.go:45, 88-95).                                         *)
TempsRemoved == \A w \in Putters : put[w] \in {"idle", "done"} =>
  w \notin dirs /\ data[w] = "none" /\ commit[w] = "none"

(* The files implement the abstract store of contents. *)
Abstract == INSTANCE ContentStore WITH store <- blobs
ImplementsContentStore == Abstract!Spec

(* The heads have a column that the revisions lack: the migration of       *)
(* references was skipped and the DDL made the heads (migrate.go:287,      *)
(* records_schema.go:7), and every later start fails at migrate.go:310.    *)
HeadsAhead == "record_heads.references" \in cols /\ "references" \notin cols

(* Every database of an earlier version can be opened in the end, however  *)
(* its opening was cut short: no path of migrations leaves out a column or *)
(* refuses for good (store.go:54-96, migrate.go).  Where an error has      *)
(* hidden a table a column may be missing, and the one state that refuses  *)
(* is HeadsAhead.                                                          *)
EventuallyOpens ==
  []<>IF overlooked = {} THEN pc = "open" /\ Writable ELSE pc = "open" \/ HeadsAhead
=============================================================================

---------------------------- MODULE RecordStore ----------------------------
(***************************************************************************)
(* The journal and its record projections in one SQLite database: appends  *)
(* by concurrent writers (WriteService.Write over                          *)
(* Store.AppendTransactional with the materializer as hook), and retention *)
(* (Store.PruneBefore) when the daemon starts.                             *)
(*                                                                         *)
(* An append is a deferred SQLite transaction in WAL mode: its first       *)
(* statement, the SELECT of the next sequence, takes a read snapshot; its  *)
(* INSERT needs the single write lock and fails with SQLITE_BUSY_SNAPSHOT  *)
(* when another transaction has committed since the snapshot.  Nothing an  *)
(* open transaction wrote is visible to others, so the statements between  *)
(* INSERT and COMMIT are one step.                                         *)
(***************************************************************************)
EXTENDS RecordFold

CONSTANTS
  Writers,     \* goroutines calling WriteService.Write
  Requests,    \* the requests they may make
  Cutoffs,     \* retention cutoffs a start may compute; {} when retention_days = 0
  MaxVersion,  \* bound on versions and sequences
  NoRevision   \* a writer without an open transaction

ASSUME RequestsAssumption == Requests \subseteq Request
ASSUME BoundsAssumption   == MaxVersion \in Nat /\ Cutoffs \subseteq Nat
ASSUME NoRevisionAssumption == NoRevision \notin Revision

VARIABLES
  revisions,     \* rows of the revisions table
  revisionsFts,  \* revision_id of the rows of revisions_fts
  heads,         \* record_heads; NoRow where there is none
  links,         \* rows of record_revisions
  fts,           \* rows of records_fts
  phase,         \* per writer: no transaction, snapshot taken, lock held
  pending,       \* the revision the writer's transaction appends
  stale          \* writers whose snapshot is older than the last commit

projections == <<heads, links, fts>>
store == <<revisions, revisionsFts, heads, links, fts>>
txns  == <<phase, pending, stale>>
vars  == <<revisions, revisionsFts, heads, links, fts, phase, pending, stale>>

Link   == [ref: Refs, version: Nat, id: Ids]
FtsRow == [ref: Refs, typ: Types \cup {NoType}, body: Body]

TypeOK ==
  /\ revisions \subseteq Revision
  /\ revisionsFts \subseteq Ids
  /\ heads \in [Refs -> HeadRow]
  /\ links \subseteq Link
  /\ fts \subseteq FtsRow
  /\ phase \in [Writers -> {"idle", "begun", "inserted"}]
  /\ pending \in [Writers -> {NoRevision} \cup Revision]
  /\ stale \subseteq Writers

Init ==
  /\ revisions = {} /\ revisionsFts = {}
  /\ heads = [r \in Refs |-> NoRow]
  /\ links = {} /\ fts = {}
  /\ phase = [w \in Writers |-> "idle"]
  /\ pending = [w \in Writers |-> NoRevision]
  /\ stale = {}

-----------------------------------------------------------------------------
(* validateWriteEvent: what each operation may carry. *)
ValidRequest(q) ==
  CASE q.op = "apply"  -> TRUE
    [] q.op = "delete" ->
         q.payload = EmptyPayload /\ q.drop = {} /\ q.typ = NoType /\ q.edges = KeepRefs
    [] OTHER ->
         q.payload = EmptyPayload /\ q.drop = {} /\ q.typ = NoType /\ q.edges # KeepRefs

RevisionsOf(ref) == {v \in revisions : v.req.ref = ref}

(* Mutant: the first free sequence instead of one past the last. *)
FirstFreeSequence(ref, n) ==
  /\ \A v \in RevisionsOf(ref) : v.seq # n
  /\ n = 1 \/ \E v \in RevisionsOf(ref) : v.seq = n - 1

(* n = COALESCE(MAX(sequence), 0) + 1 over the revisions of ref. *)
NextSequence(ref, n) ==
  /\ \A v \in RevisionsOf(ref) : v.seq < n
  /\ n = 1 \/ \E v \in RevisionsOf(ref) : v.seq = n - 1

LockFree == \A w \in Writers : phase[w] # "inserted"

(* Mutant: the link takes the version the head had before. *)
LinkForOldVersion(v) == [ref |-> v.req.ref, version |-> heads[v.req.ref].version, id |-> v.id]

(* Mutant: a delete removes the row instead of marking it. *)
WriteHeadErases(q) == [heads EXCEPT ![q.ref] = IF q.op = "delete" THEN NoRow ELSE FoldHead(q, @)]

(* What an append commits beside its row: the head, its link, its FTS row. *)
WriteHead(q)   == [heads EXCEPT ![q.ref] = FoldHead(q, @)]
LinkFor(v)     == [ref |-> v.req.ref, version |-> heads[v.req.ref].version + 1, id |-> v.id]
LinkTaken(l)   == \E k \in links : k.ref = l.ref /\ k.version = l.version
FtsRows(ref, head) ==
  IF head.completeness = "deleted" THEN {}
  ELSE {[ref |-> ref, typ |-> head.typ, body |-> head.body]}
(* Mutant: the old row of the record stays. *)
SyncFtsKeepsOld(ref, head) == fts \cup FtsRows(ref, head)
(* Mutant: incomplete records are not indexed. *)
SyncFtsCompleteOnly(ref, head) ==
  {row \in fts : row.ref # ref} \cup
  (IF head.completeness = "complete" THEN FtsRows(ref, head) ELSE {})
SyncFts(ref, head) == {row \in fts : row.ref # ref} \cup FtsRows(ref, head)

(* A commit makes the snapshot of every other open transaction stale. *)
CloseTxn(w, committed) ==
  /\ phase' = [phase EXCEPT ![w] = "idle"]
  /\ pending' = [pending EXCEPT ![w] = NoRevision]
  /\ stale' = (stale \cup {x \in Writers : committed /\ phase[x] # "idle"}) \ {w}

-----------------------------------------------------------------------------
(* prepareAppend, BEGIN and the SELECT of the next sequence.  An id is     *)
(* usually a fresh ULID, but a processor may supply one that exists.       *)
BeginAppend(w, q, id) ==
  /\ phase[w] = "idle"
  /\ ValidRequest(q)
  /\ heads[q.ref].version < MaxVersion
  /\ \E n \in 1..MaxVersion :
       /\ NextSequence(q.ref, n)
       /\ pending' = [pending EXCEPT ![w] = [id |-> id, seq |-> n, req |-> q]]
  /\ phase' = [phase EXCEPT ![w] = "begun"]
  /\ UNCHANGED <<stale, store>>

(* Mutant: the snapshot the sequence was read from may be stale. *)
InsertRevisionStale(w) ==
  /\ phase[w] = "begun"
  /\ LockFree
  /\ \A v \in revisions : v.id # pending[w].id
  /\ phase' = [phase EXCEPT ![w] = "inserted"]
  /\ UNCHANGED <<pending, stale, store>>

(* INSERT INTO revisions: the write lock, a fresh snapshot, a free key. *)
InsertRevision(w) ==
  /\ phase[w] = "begun"
  /\ w \notin stale
  /\ LockFree
  /\ \A v \in revisions : v.id # pending[w].id
  /\ phase' = [phase EXCEPT ![w] = "inserted"]
  /\ UNCHANGED <<pending, stale, store>>

(* The hook (Materializer.Apply, then Head) and COMMIT.  The hook's check   *)
(* for a revision that is linked already never holds: its id is new.       *)
CommitAppend(w) ==
  LET v == pending[w]
      ref == v.req.ref
  IN  /\ phase[w] = "inserted"
      /\ ~FoldFails(v.req, heads[ref])
      /\ ~LinkTaken(LinkFor(v))
      /\ revisions' = revisions \cup {v}
      /\ revisionsFts' = revisionsFts \cup {v.id}
      /\ heads' = WriteHead(v.req)
      /\ links' = links \cup {LinkFor(v)}
      /\ fts' = SyncFts(ref, heads'[ref])
      /\ CloseTxn(w, TRUE)

(* Any error rolls the whole transaction back: SQLITE_BUSY, a duplicate    *)
(* id, an error of the hook, a cancelled context.                          *)
AbortAppend(w) ==
  /\ phase[w] # "idle"
  /\ CloseTxn(w, FALSE)
  /\ UNCHANGED store

(* Mutant: the revisions go first, so that the other statements find none. *)
PruneRevisionsFirst(cutoff) ==
  LET old == {v \in revisions : v.req.time < cutoff}
  IN  /\ revisions' = revisions \ old
      /\ UNCHANGED <<revisionsFts, heads, links, fts>>

(* Mutant: every record that loses a revision loses its head. *)
PruneTouchedHeads(cutoff) ==
  LET old     == {v \in revisions : v.req.time < cutoff}
      oldIds  == {v.id : v \in old}
      touched == {l.ref : l \in {k \in links : k.id \in oldIds}}
  IN  /\ fts' = {row \in fts : row.ref \notin touched}
      /\ links' = {l \in links : l.id \notin oldIds}
      /\ heads' = [r \in Refs |-> IF r \in touched THEN NoRow ELSE heads[r]]
      /\ revisionsFts' = revisionsFts \ oldIds
      /\ revisions' = revisions \ old

(* PruneBefore: one transaction over the five tables. *)
PruneBefore(cutoff) ==
  LET old     == {v \in revisions : v.req.time < cutoff}
      oldIds  == {v.id : v \in old}
      touched == {l.ref : l \in {k \in links : k.id \in oldIds}}
  IN  /\ fts' = {row \in fts : row.ref \notin touched}
      /\ links' = {l \in links : l.id \notin oldIds}
      /\ heads' = [r \in Refs |->
                     IF \E l \in links' : l.ref = r THEN heads[r] ELSE NoRow]
      /\ revisionsFts' = revisionsFts \ oldIds
      /\ revisions' = revisions \ old

(* The process dies at any point and starts again: SQLite discards what    *)
(* was not committed, and runDaemon prunes before anything else runs.  An  *)
(* error of the prune is logged and the daemon goes on.                    *)
Restart ==
  /\ phase' = [w \in Writers |-> "idle"]
  /\ pending' = [w \in Writers |-> NoRevision]
  /\ stale' = {}
  /\ \/ UNCHANGED store
     \/ \E cutoff \in Cutoffs : PruneBefore(cutoff)

Next ==
  \/ \E w \in Writers, q \in Requests, id \in Ids : BeginAppend(w, q, id)
  \/ \E w \in Writers : InsertRevision(w)
  \/ \E w \in Writers : CommitAppend(w)
  \/ \E w \in Writers : AbortAppend(w)
  \/ Restart

Spec == Init /\ [][Next]_vars

-----------------------------------------------------------------------------
(* Two writers on one record never get the same sequence, although each    *)
(* reads MAX(sequence) before it holds the lock (appendRevisionInTx).      *)
SequenceUnique ==
  \A u, v \in revisions : u.req.ref = v.req.ref /\ u.seq = v.seq => u = v

(* record_revisions and revisions stay one to one through appends, aborts  *)
(* and retention (linkRevision, PruneBefore).                              *)
OneLinkPerRevision ==
  /\ \A v \in revisions : \E l \in links : l.id = v.id /\ l.ref = v.req.ref
  /\ \A l \in links : \E v \in revisions : v.id = l.id /\ v.req.ref = l.ref
  /\ \A k, l \in links : k.id = l.id => k = l

(* Replay order (sequence) and version order agree on what retention has   *)
(* left, although sources supply the event time that retention goes by, so *)
(* that it may remove the latest revision of a record and free its         *)
(* sequence for the next one (RebuildAll relies on the order).             *)
ReplayOrderIsVersionOrder ==
  \A u, v \in revisions, k, l \in links :
    u.req.ref = v.req.ref /\ k.id = u.id /\ l.id = v.id =>
      (u.seq < v.seq <=> k.version < l.version)

(* The next version of a record is always free in record_revisions: no     *)
(* append can fail on its primary key (record_ref, version), whatever      *)
(* retention removed before.                                               *)
NextVersionFree ==
  \A l \in links : l.version \in 1..heads[l.ref].version

(* A head exists exactly while some revision of its record does            *)
(* (planning/records.md: "PruneBefore cascades to record_heads").          *)
HeadsAreBacked ==
  \A r \in Refs : Found(heads[r]) <=> RevisionsOf(r) # {}

(* A search never returns a deleted record, a record without a head or an  *)
(* outdated body: every row of records_fts is that of a live head.         *)
SearchSound ==
  \A row \in fts : Found(heads[row.ref]) /\ row \in FtsRows(row.ref, heads[row.ref])

(* Every live head can be found by a search.  Retention breaks this on     *)
(* purpose or not: a record that loses one revision keeps its head and     *)
(* loses its row, so the property is for a journal without retention.      *)
SearchComplete ==
  \A r \in Refs : Found(heads[r]) => FtsRows(r, heads[r]) \subseteq fts

(* The store implements the log: each commit appends one request at the    *)
(* next position of one history and moves the head with it; transactions   *)
(* that abort, and crashes, are invisible.  For a journal without          *)
(* retention.                                                              *)
Log == INSTANCE RecordLog WITH
  history <- [r \in Refs |-> {<<v.seq, v.req>> : v \in RevisionsOf(r)}],
  view <- heads

ImplementsLog == Log!LogSpec
=============================================================================

---------------------------- MODULE RecordRebuild ----------------------------
(***************************************************************************)
(* records.RebuildAll over the store: wipe the three projection tables and *)
(* replay the journal by (record_ref, sequence) in one transaction.        *)
(***************************************************************************)
EXTENDS RecordStore, FiniteSets, Sequences

(* listRecordRevisions, one record's share: ordered by sequence. *)
HistoryOf(ref) ==
  LET vs == RevisionsOf(ref)
      Rank(v) == Cardinality({u \in vs : u.seq <= v.seq})
  IN  [i \in 1..Cardinality(vs) |-> CHOOSE v \in vs : Rank(v) = i]

(* The head after each of the revisions, from no row at all. *)
Replay(vs) ==
  LET head[i \in 0 .. Len(vs)] == IF i = 0 THEN NoRow ELSE FoldHead(vs[i].req, head[i - 1])
  IN  head[Len(vs)]

(* The error of Materializer.Apply on some revision of the record. *)
ReplayFails(vs) ==
  \E i \in DOMAIN vs : FoldFails(vs[i].req, Replay(SubSeq(vs, 1, i - 1)))

(* scanRecordEvent reads the nullable type column into a string, so the    *)
(* replay cannot read a revision that was appended without a type.         *)
Unreadable(v) == v.req.typ = NoType

RebuildFails ==
  \/ \E v \in revisions : Unreadable(v)
  \/ \E r \in Refs : ReplayFails(HistoryOf(r))

RebuiltHeads == [r \in Refs |-> Replay(HistoryOf(r))]
RebuiltLinks ==
  UNION {LET vs == HistoryOf(r)
         IN  {[ref |-> r, version |-> i, id |-> vs[i].id] : i \in DOMAIN vs} : r \in Refs}
RebuiltFts == UNION {FtsRows(r, RebuiltHeads[r]) : r \in {v.req.ref : v \in revisions}}

(* Its first statement is a write, so it takes the lock at once; an error  *)
(* rolls it back and leaves the projections as they were.                  *)
RebuildAll ==
  /\ LockFree
  /\ ~RebuildFails
  /\ heads' = RebuiltHeads
  /\ links' = RebuiltLinks
  /\ fts' = RebuiltFts
  /\ stale' = {w \in Writers : phase[w] # "idle"}
  /\ UNCHANGED <<revisions, revisionsFts, phase, pending>>

RebuildNext == Next \/ RebuildAll

RebuildSpec == Init /\ [][RebuildNext]_vars

-----------------------------------------------------------------------------
(* Every head is the fold of its record's revisions in sequence order:     *)
(* with retention off, no interleaving of writers, abort or crash leaves   *)
(* record_heads different from what a replay of the journal computes       *)
(* (concepts/records.md: "replay revisions to rebuild").                   *)
HeadIsReplay == \A r \in Refs : heads[r] = Replay(HistoryOf(r))

(* A rebuild reproduces every projection table whenever it can run at all. *)
RebuildReproduces ==
  ~RebuildFails => projections = <<RebuiltHeads, RebuiltLinks, RebuiltFts>>

(* `trove records rebuild` reproduces identical `record_heads`             *)
(* (planning/records.md): it can always run, and changes nothing.          *)
RebuildAlwaysReproduces == ~RebuildFails /\ RebuiltHeads = heads
=============================================================================

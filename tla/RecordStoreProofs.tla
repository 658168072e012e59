-------------------------- MODULE RecordStoreProofs --------------------------
(***************************************************************************)
(* The consistency of the journal and its projection tables, for every     *)
(* number of writers, records, revisions, retention cutoffs and rebuilds.  *)
(*                                                                         *)
(* The first invariant, SInv, holds whatever retention                     *)
(* removes.  A rebuild keeps it because the sequences of a record, however *)
(* many are missing, put its revisions in an order, and the replay makes a *)
(* head with one version for each of them.                                 *)
(*                                                                         *)
(* The second one is for a journal without retention, of which a rebuild   *)
(* reproduces the projections.  It names no replay.  It says that there is *)
(* a story of each record, a head per version, which begins with no row,   *)
(* goes on by the fold of one revision each, and ends with the head in the *)
(* table.  A commit makes it longer by one, and a replay is forced to tell *)
(* it.                                                                     *)
(***************************************************************************)
EXTENDS RecordRebuild, LoopLemmas

(* A row of revisions is named by its id (its primary key). *)
IdUnique == \A u, v \in revisions : u.id = v.id => u = v

(* At most one transaction holds the write lock. *)
OneLockHolder ==
  \A w, x \in Writers : phase[w] = "inserted" /\ phase[x] = "inserted" => w = x

(* What an open transaction has read still holds unless it is stale, and   *)
(* the one that holds the lock is not stale.                               *)
TxnSound(w) ==
  phase[w] # "idle" =>
    /\ pending[w] \in Revision /\ pending[w].req \in Requests
    /\ ValidRequest(pending[w].req)
    /\ w \notin stale => NextSequence(pending[w].req.ref, pending[w].seq)
    /\ phase[w] = "inserted" =>
         w \notin stale /\ \A v \in revisions : v.id # pending[w].id

SnapshotHolds == \A w \in Writers : TxnSound(w)

Tables ==
  /\ SequenceUnique
  /\ OneLinkPerRevision
  /\ ReplayOrderIsVersionOrder
  /\ NextVersionFree
  /\ HeadsAreBacked
  /\ SearchSound

IInv == TypeOK /\ IdUnique /\ OneLockHolder /\ SnapshotHolds /\ Tables

-----------------------------------------------------------------------------
(* The fold of a valid request over a head is a head, one version on. *)
LEMMA FoldHeadIsHead ==
  ASSUME NEW q \in Request, ValidRequest(q), NEW prev \in HeadRow
  PROVE  FoldHead(q, prev) \in HeadRow /\ FoldHead(q, prev).version = prev.version + 1
<1> DEFINE typ == IF q.typ = NoType THEN prev.typ ELSE q.typ
<1>1. typ \in Types \cup {NoType} /\ CompletenessFor(typ) \in Completeness
  BY DEF Request, HeadRow, CompletenessFor, Completeness
<1>2. FoldApply(prev.body, q) \in Body
  <2>1. MergePatch(prev.body, q.payload) \in Body
    BY DEF MergePatch, Body, Payload, Request, HeadRow
  <2> QED
    BY <2>1 DEF FoldApply, ApplyTransforms, Body
<1>3. FoldReferences(q, prev.edges) \in SUBSET Edge
  BY KeepRefsIsNoSet DEF FoldReferences, Subtract, Request, HeadRow, ValidRequest, Operations
<1>4. prev.version + 1 \in Nat
  BY DEF HeadRow
<1> HIDE DEF typ
<1>5. CASE q.op = "delete"
  BY <1>3, <1>4, <1>5 DEF FoldHead, HeadRow, Completeness
<1>6. CASE q.op \in {"link", "unlink"}
  BY <1>3, <1>4, <1>6 DEF FoldHead, HeadRow
<1>7. CASE q.op \notin {"delete", "link", "unlink"}
  BY <1>1, <1>2, <1>3, <1>4, <1>7 DEF FoldHead, HeadRow, typ
<1> QED
  BY <1>5, <1>6, <1>7

(* What a step of Init establishes. *)
LEMMA InitIInv == Init => IInv
BY DEF Init, IInv, TypeOK, IdUnique, OneLockHolder, SnapshotHolds, TxnSound, Tables, SequenceUnique,
       OneLinkPerRevision, ReplayOrderIsVersionOrder, NextVersionFree, HeadsAreBacked,
       SearchSound, RevisionsOf, Found, NoRow, HeadRow, Body, Completeness

(* A step that leaves the tables alone keeps the facts about them. *)
LEMMA TablesUnchanged ==
  ASSUME IInv, UNCHANGED store
  PROVE  IdUnique' /\ Tables'
BY DEF IInv, store, IdUnique, Tables, SequenceUnique, OneLinkPerRevision,
       ReplayOrderIsVersionOrder, NextVersionFree, HeadsAreBacked, SearchSound,
       RevisionsOf

LEMMA BeginAppendIInv ==
  ASSUME IInv, NEW w \in Writers, NEW q \in Requests, NEW id \in Ids, BeginAppend(w, q, id)
  PROVE  IInv'
<1> PICK n \in 1..MaxVersion :
      /\ NextSequence(q.ref, n)
      /\ pending' = [pending EXCEPT ![w] = [id |-> id, seq |-> n, req |-> q]]
  BY DEF BeginAppend
<1>1. [id |-> id, seq |-> n, req |-> q] \in Revision
  BY RequestsAssumption, BoundsAssumption DEF Revision
<1>2. TypeOK'
  BY <1>1 DEF IInv, TypeOK, BeginAppend, store
<1>3. IdUnique' /\ Tables'
  BY TablesUnchanged DEF BeginAppend
<1>4. OneLockHolder'
  BY DEF IInv, TypeOK, OneLockHolder, BeginAppend
<1>5. SnapshotHolds'
  <2> SUFFICES ASSUME NEW x \in Writers PROVE TxnSound(x)'
    BY DEF SnapshotHolds
  <2>1. CASE x = w
    BY <1>1, <2>1 DEF IInv, TypeOK, TxnSound, BeginAppend, NextSequence, RevisionsOf,
                      ValidRequest, store
  <2>2. CASE x # w
    BY <2>2 DEF IInv, TypeOK, SnapshotHolds, TxnSound, BeginAppend, NextSequence,
                RevisionsOf, ValidRequest, store
  <2> QED
    BY <2>1, <2>2
<1> QED
  BY <1>2, <1>3, <1>4, <1>5 DEF IInv

LEMMA InsertRevisionIInv ==
  ASSUME IInv, NEW w \in Writers, InsertRevision(w)
  PROVE  IInv'
<1>1. TypeOK'
  BY DEF IInv, TypeOK, InsertRevision, store
<1>2. IdUnique' /\ Tables'
  BY TablesUnchanged DEF InsertRevision
<1>3. OneLockHolder'
  BY DEF IInv, TypeOK, OneLockHolder, InsertRevision, LockFree
<1>4. SnapshotHolds'
  BY DEF IInv, TypeOK, SnapshotHolds, TxnSound, InsertRevision, NextSequence, RevisionsOf, ValidRequest, store
<1> QED
  BY <1>1, <1>2, <1>3, <1>4 DEF IInv

-----------------------------------------------------------------------------
LEMMA CommitAppendIInv ==
  ASSUME IInv, NEW w \in Writers, CommitAppend(w)
  PROVE  IInv'
<1> DEFINE v == pending[w]
           ref == v.req.ref
           link == LinkFor(v)
           head == FoldHead(v.req, heads[ref])
<1>1. /\ v \in Revision /\ v.req \in Request /\ ref \in Refs /\ v.id \in Ids /\ v.seq \in Nat
      /\ NextSequence(ref, v.seq)
      /\ \A u \in revisions : u.id # v.id
      /\ ValidRequest(v.req)
      /\ heads[ref] \in HeadRow
  BY DEF IInv, TypeOK, SnapshotHolds, TxnSound, CommitAppend, Revision, Request
<1>2. head \in HeadRow /\ head.version = heads[ref].version + 1
  BY <1>1, FoldHeadIsHead
<1>3. /\ link \in Link /\ link.ref = ref /\ link.id = v.id
      /\ link.version = heads[ref].version + 1
  BY <1>1 DEF Link, LinkFor, HeadRow
<1>4. /\ revisions' = revisions \cup {v}
      /\ heads' = [heads EXCEPT ![ref] = head]
      /\ heads'[ref] = head
      /\ \A r \in Refs : r # ref => heads'[r] = heads[r]
      /\ links' = links \cup {link}
      /\ fts' = {row \in fts : row.ref # ref} \cup FtsRows(ref, head)
  BY <1>1 DEF CommitAppend, WriteHead, SyncFts, IInv, TypeOK
<1>5. phase' = [phase EXCEPT ![w] = "idle"] /\ pending' = [pending EXCEPT ![w] = NoRevision]
      /\ stale' = (stale \cup {x \in Writers : phase[x] # "idle"}) \ {w}
  BY DEF CommitAppend, CloseTxn
<1> HIDE DEF v, ref, link, head
<1>6. TypeOK'
  <2>1. revisions' \subseteq Revision /\ links' \subseteq Link /\ heads' \in [Refs -> HeadRow]
    BY <1>1, <1>2, <1>3, <1>4 DEF IInv, TypeOK
  <2>2. revisionsFts' \subseteq Ids
    BY <1>1 DEF IInv, TypeOK, CommitAppend, v
  <2>3. FtsRows(ref, head) \subseteq FtsRow
    BY <1>1, <1>2 DEF FtsRows, FtsRow, HeadRow
  <2>4. fts' \subseteq FtsRow
    BY <1>4, <2>3 DEF IInv, TypeOK
  <2> QED
    BY <1>5, <2>1, <2>2, <2>4 DEF IInv, TypeOK
<1>7. IdUnique'
  BY <1>1, <1>4 DEF IInv, IdUnique
<1>8. OneLockHolder' /\ SnapshotHolds'
  <2>1. \A x \in Writers : x # w => phase'[x] # "inserted" /\ (phase'[x] # "idle" => x \in stale')
    BY <1>5 DEF IInv, TypeOK, OneLockHolder, CommitAppend
  <2>2. phase'[w] = "idle"
    BY <1>5 DEF IInv, TypeOK
  <2>3. OneLockHolder'
    BY <2>1, <2>2 DEF OneLockHolder
  <2>4. ASSUME NEW x \in Writers PROVE TxnSound(x)'
    BY <1>5, <2>1, <2>2 DEF IInv, TypeOK, SnapshotHolds, TxnSound, ValidRequest
  <2> QED
    BY <2>3, <2>4 DEF SnapshotHolds
<1>9. SequenceUnique'
  BY <1>1, <1>4 DEF IInv, TypeOK, Tables, SequenceUnique, NextSequence, RevisionsOf,
                           Revision, ref
<1>10. OneLinkPerRevision'
  BY <1>1, <1>3, <1>4 DEF IInv, Tables, OneLinkPerRevision, ref
<1>11. NextVersionFree'
  BY <1>1, <1>2, <1>3, <1>4 DEF IInv, TypeOK, Tables, NextVersionFree, HeadRow, Link
<1>12. ReplayOrderIsVersionOrder'
  <2> SUFFICES ASSUME NEW u1 \in revisions', NEW u2 \in revisions', NEW k \in links', NEW l \in links',
                      u1.req.ref = u2.req.ref, k.id = u1.id, l.id = u2.id
               PROVE  u1.seq < u2.seq <=> k.version < l.version
    BY DEF ReplayOrderIsVersionOrder
  <2>1. CASE u1 \in revisions /\ u2 \in revisions
    <3>1. k \in links /\ l \in links
      BY <1>1, <1>3, <1>4, <2>1
    <3> QED
      BY <2>1, <3>1 DEF IInv, Tables, ReplayOrderIsVersionOrder
  <2>2. CASE u1 = v /\ u2 = v
    BY <1>1, <1>3, <1>4, <2>2 DEF IInv, Tables, OneLinkPerRevision, TypeOK, Link, HeadRow
  <2>3. CASE u1 = v /\ u2 \in revisions
    <3>1. u2.seq < v.seq /\ u2.seq \in Nat
      BY <1>1, <2>3 DEF NextSequence, RevisionsOf, ref, IInv, TypeOK, Revision
    <3>2. k = link
      BY <1>1, <1>3, <1>4, <2>3 DEF IInv, Tables, OneLinkPerRevision
    <3>3. l \in links /\ l.ref = ref
      BY <1>1, <1>3, <1>4, <2>3 DEF IInv, Tables, OneLinkPerRevision, IdUnique, ref
    <3>4. l.version <= heads[ref].version /\ l.version \in Nat /\ heads[ref].version \in Nat
      BY <1>1, <3>3 DEF IInv, TypeOK, Tables, NextVersionFree, Link, HeadRow
    <3> QED
      BY <1>1, <1>3, <2>3, <3>1, <3>2, <3>4
  <2>4. CASE u1 \in revisions /\ u2 = v
    <3>1. u1.seq < v.seq /\ u1.seq \in Nat
      BY <1>1, <2>4 DEF NextSequence, RevisionsOf, ref, IInv, TypeOK, Revision
    <3>2. l = link
      BY <1>1, <1>3, <1>4, <2>4 DEF IInv, Tables, OneLinkPerRevision
    <3>3. k \in links /\ k.ref = ref
      BY <1>1, <1>3, <1>4, <2>4 DEF IInv, Tables, OneLinkPerRevision, IdUnique, ref
    <3>4. k.version <= heads[ref].version /\ k.version \in Nat /\ heads[ref].version \in Nat
      BY <1>1, <3>3 DEF IInv, TypeOK, Tables, NextVersionFree, Link, HeadRow
    <3> QED
      BY <1>1, <1>3, <2>4, <3>1, <3>2, <3>4
  <2> QED
    BY <1>4, <2>1, <2>2, <2>3, <2>4
<1>13. HeadsAreBacked'
  <2> SUFFICES ASSUME NEW r \in Refs
               PROVE  Found(heads'[r]) <=> \E u \in revisions' : u.req.ref = r
    BY DEF HeadsAreBacked, RevisionsOf, Found
  <2>1. CASE r = ref
    BY <1>1, <1>2, <1>4, <2>1 DEF Found, HeadRow, ref
  <2>2. CASE r # ref
    BY <1>1, <1>4, <2>2 DEF IInv, Tables, HeadsAreBacked, RevisionsOf, ref
  <2> QED
    BY <2>1, <2>2
<1>14. SearchSound'
  <2> SUFFICES ASSUME NEW row \in fts'
               PROVE  Found(heads'[row.ref]) /\ row \in FtsRows(row.ref, heads'[row.ref])
    BY DEF SearchSound, Found, FtsRows
  <2>1. CASE row \in FtsRows(ref, head)
    <3>1. row.ref = ref
      BY <2>1 DEF FtsRows
    <3> QED
      BY <1>1, <1>2, <1>4, <2>1, <3>1 DEF Found, HeadRow
  <2>2. CASE row \in fts /\ row.ref # ref
    BY <1>4, <2>2 DEF IInv, TypeOK, FtsRow, Tables, SearchSound
  <2> QED
    BY <1>4, <2>1, <2>2
<1> QED
  BY <1>6, <1>7, <1>8, <1>9, <1>10, <1>11, <1>12, <1>13, <1>14 DEF IInv, Tables

LEMMA AbortAppendIInv ==
  ASSUME IInv, NEW w \in Writers, AbortAppend(w)
  PROVE  IInv'
<1>1. /\ phase' = [phase EXCEPT ![w] = "idle"]
      /\ pending' = [pending EXCEPT ![w] = NoRevision]
      /\ stale' = stale \ {w}
  BY DEF AbortAppend, CloseTxn
<1>2. TypeOK'
  BY <1>1 DEF IInv, TypeOK, AbortAppend, store
<1>3. IdUnique' /\ Tables'
  BY TablesUnchanged DEF AbortAppend
<1>4. OneLockHolder'
  BY <1>1 DEF IInv, TypeOK, OneLockHolder
<1>5. SnapshotHolds'
  BY <1>1 DEF IInv, TypeOK, SnapshotHolds, TxnSound, AbortAppend, NextSequence, RevisionsOf,
              ValidRequest, store
<1> QED
  BY <1>2, <1>3, <1>4, <1>5 DEF IInv

(* Retention: what is left of each table still fits the others. *)
LEMMA PruneBeforeTables ==
  ASSUME IInv, NEW cutoff \in Cutoffs, PruneBefore(cutoff)
  PROVE  /\ revisions' \subseteq revisions /\ links' \subseteq links /\ fts' \subseteq fts
         /\ revisionsFts' \subseteq revisionsFts
         /\ heads' \in [Refs -> HeadRow]
         /\ IdUnique' /\ Tables'
<1> DEFINE old     == {v \in revisions : v.req.time < cutoff}
           oldIds  == {v.id : v \in old}
           touched == {l.ref : l \in {k \in links : k.id \in oldIds}}
<1>1. /\ fts' = {row \in fts : row.ref \notin touched}
      /\ links' = {l \in links : l.id \notin oldIds}
      /\ heads' = [r \in Refs |-> IF \E l \in links' : l.ref = r THEN heads[r] ELSE NoRow]
      /\ revisionsFts' = revisionsFts \ oldIds
      /\ revisions' = revisions \ old
  BY DEF PruneBefore
<1>2. \A v \in revisions : v.id \in oldIds <=> v \in old
  BY DEF IInv, IdUnique
<1> HIDE DEF old, oldIds
<1>3. revisions' \subseteq revisions /\ links' \subseteq links /\ fts' \subseteq fts
      /\ revisionsFts' \subseteq revisionsFts
  BY <1>1
<1>4. NoRow \in HeadRow
  BY DEF NoRow, HeadRow, Body, Completeness
<1>5. heads' \in [Refs -> HeadRow]
  BY <1>1, <1>4 DEF IInv, TypeOK
<1>6. IdUnique' /\ SequenceUnique' /\ ReplayOrderIsVersionOrder'
  BY <1>3 DEF IInv, Tables, IdUnique, SequenceUnique, ReplayOrderIsVersionOrder
<1>7. OneLinkPerRevision'
  BY <1>1, <1>2 DEF IInv, Tables, OneLinkPerRevision
<1>8. NextVersionFree'
  BY <1>1, <1>3 DEF IInv, TypeOK, Tables, NextVersionFree, Link
<1>9. HeadsAreBacked'
  <2> SUFFICES ASSUME NEW r \in Refs
               PROVE  Found(heads'[r]) <=> \E v \in revisions' : v.req.ref = r
    BY DEF HeadsAreBacked, RevisionsOf, Found
  <2>1. (\E v \in revisions' : v.req.ref = r) <=> (\E l \in links' : l.ref = r)
    BY <1>7 DEF OneLinkPerRevision
  <2>2. CASE \E l \in links' : l.ref = r
    <3>1. heads'[r] = heads[r] /\ \E v \in revisions : v.req.ref = r
      BY <1>1, <1>3, <2>1, <2>2
    <3> QED
      BY <2>1, <2>2, <3>1 DEF IInv, Tables, HeadsAreBacked, RevisionsOf
  <2>3. CASE ~ \E l \in links' : l.ref = r
    BY <1>1, <2>1, <2>3 DEF Found, NoRow
  <2> QED
    BY <2>2, <2>3
<1>10. SearchSound'
  <2> SUFFICES ASSUME NEW row \in fts'
               PROVE  Found(heads'[row.ref]) /\ row \in FtsRows(row.ref, heads'[row.ref])
    BY DEF SearchSound, Found, FtsRows
  <2>1. row \in fts /\ row.ref \in Refs /\ row.ref \notin touched
    BY <1>1 DEF IInv, TypeOK, FtsRow
  <2>2. PICK l \in links : l.ref = row.ref
    BY <2>1 DEF IInv, Tables, SearchSound, HeadsAreBacked, RevisionsOf, OneLinkPerRevision
  <2>3. l \in links'
    BY <1>1, <2>1, <2>2
  <2>4. heads'[row.ref] = heads[row.ref]
    BY <1>1, <2>1, <2>2, <2>3
  <2> QED
    BY <2>1, <2>4 DEF IInv, Tables, SearchSound
<1> QED
  BY <1>3, <1>5, <1>6, <1>7, <1>8, <1>9, <1>10 DEF Tables

LEMMA RestartIInv ==
  ASSUME IInv, Restart
  PROVE  IInv'
<1>1. OneLockHolder' /\ SnapshotHolds'
  BY DEF Restart, OneLockHolder, SnapshotHolds, TxnSound
<1>2. CASE UNCHANGED store
  BY <1>1, <1>2, TablesUnchanged DEF Restart, IInv, TypeOK, store
<1>3. ASSUME NEW cutoff \in Cutoffs, PruneBefore(cutoff) PROVE IInv'
  BY <1>1, <1>3, PruneBeforeTables DEF Restart, IInv, TypeOK
<1> QED
  BY <1>2, <1>3 DEF Restart

LEMMA StutterIInv == IInv /\ UNCHANGED vars => IInv'
<1> SUFFICES ASSUME IInv, UNCHANGED vars PROVE IInv'
  OBVIOUS
<1>1. IdUnique' /\ Tables'
  BY TablesUnchanged DEF vars, store
<1> QED
  BY <1>1 DEF vars, IInv, TypeOK, OneLockHolder, SnapshotHolds, TxnSound, NextSequence,
              RevisionsOf, ValidRequest

-----------------------------------------------------------------------------
(* What a replay makes of any history. *)

(* A replay is forced: whatever is the fold at every revision of a history *)
(* is what the replay computes.                                            *)
LEMMA ReplayIsForced ==
  ASSUME NEW vs, NEW n \in Nat, Len(vs) = n, NEW told \in [0 .. n -> HeadRow], told[0] = NoRow,
         \A i \in 1 .. n : told[i] = FoldHead(vs[i].req, told[i - 1])
  PROVE  Replay(vs) = told[n]
  <1> DEFINE Tells(f) ==
               f = [i \in 0 .. n |-> IF i = 0 THEN NoRow ELSE FoldHead(vs[i].req, f[i - 1])]
             head == CHOOSE f : Tells(f)
  <1>1. Replay(vs) = head[n]
    BY DEF Replay
  <1>2. Tells(head)
    <2>1. \A i \in 0 .. n : told[i] = IF i = 0 THEN NoRow ELSE FoldHead(vs[i].req, told[i - 1])
      <3>1. \A i \in 0 .. n : i # 0 => i \in 1 .. n
        OBVIOUS
      <3> QED
        BY <3>1
    <2>2. [i \in 0 .. n |-> told[i]]
            = [i \in 0 .. n |-> IF i = 0 THEN NoRow ELSE FoldHead(vs[i].req, told[i - 1])]
      BY <2>1
    <2>3. Tells(told)
      BY <2>2
    <2> HIDE DEF Tells
    <2> QED
      BY <2>3
  <1> HIDE DEF head
  <1>3. head[0] = NoRow /\ \A i \in 1 .. n : head[i] = FoldHead(vs[i].req, head[i - 1])
    <2>1. 0 \in 0 .. n /\ \A i \in 1 .. n : i \in 0 .. n /\ i # 0
      OBVIOUS
    <2>2. \A f : Tells(f) =>
            f[0] = NoRow /\ \A i \in 1 .. n : f[i] = FoldHead(vs[i].req, f[i - 1])
      BY <2>1
    <2> HIDE DEF Tells
    <2> QED
      BY <1>2, <2>2
  <1>4. head[n] = told[n]
    <2> DEFINE Differ == {i \in 0 .. n : head[i] # told[i]}
    <2> SUFFICES ASSUME Differ # {} PROVE FALSE
      OBVIOUS
    <2>1. PICK m \in Differ : \A i \in Differ : m <= i
      <3>1. Differ \subseteq Nat
        OBVIOUS
      <3> HIDE DEF Differ
      <3> QED
        BY <3>1, LeastNumber
    <2>2. m \in 0 .. n /\ head[m] # told[m]
      OBVIOUS
    <2>3. m # 0
      BY <1>3, <2>2
    <2>4. m \in 1 .. n /\ m - 1 \in 0 .. n /\ ~(m <= m - 1)
      BY <2>2, <2>3
    <2>5. head[m - 1] = told[m - 1]
      BY <2>1, <2>4
    <2> QED
      BY <1>3, <2>2, <2>4, <2>5
  <1> QED
    BY <1>1, <1>4

(* The replay of valid requests is a head with a version for each.         *)
LEMMA ReplayShape ==
  ASSUME NEW vs, NEW n \in Nat, Len(vs) = n,
         \A i \in 1 .. n : vs[i].req \in Request /\ ValidRequest(vs[i].req)
  PROVE  Replay(vs) \in HeadRow /\ Replay(vs).version = n
  <1> DEFINE round == [i \in 1 .. n |-> [h \in HeadRow |-> FoldHead(vs[i].req, h)]]
  <1>1. NoRow \in HeadRow /\ NoRow.version = 0
    BY DEF NoRow, HeadRow, Body, Completeness
  <1>2. round \in Rounds(n, HeadRow)
    BY FoldHeadIsHead DEF Rounds
  <1>3. PICK f \in [0 .. n -> HeadRow] : Runs(f, n, NoRow, round)
    <2> HIDE DEF round
    <2> QED
      BY <1>1, <1>2, LoopExists
  <1>4. \A i \in 1 .. n : i - 1 \in 0 .. n /\ i \in 0 .. n /\ f[i - 1] \in HeadRow
    OBVIOUS
  <1>5. f[0] = NoRow /\ \A i \in 1 .. n : f[i] = FoldHead(vs[i].req, f[i - 1])
    BY <1>3, <1>4 DEF Runs
  <1>6. Replay(vs) = f[n]
    BY <1>5, ReplayIsForced
  <1>7. \A i \in 0 .. n : i \in {j \in 0 .. n : f[j].version = j}
    <2> DEFINE S == {j \in 0 .. n : f[j].version = j}
    <2>1. 0 \in S
      BY <1>1, <1>5
    <2>2. ASSUME NEW i \in 1 .. n, i - 1 \in S PROVE i \in S
      <3>1. f[i].version = f[i - 1].version + 1
        BY <1>4, <1>5, FoldHeadIsHead
      <3> QED
        BY <2>2, <3>1, <1>4
    <2> HIDE DEF S
    <2>3. \A i \in 0 .. n : i \in S
      BY <2>1, <2>2, EveryRound
    <2> QED
      BY <2>3 DEF S
  <1>8. n \in 0 .. n
    OBVIOUS
  <1> QED
    BY <1>6, <1>7, <1>8

(* The history of a record lists its revisions, each once, by sequence.    *)
LEMMA HistoryShape ==
  ASSUME IInv, NEW r \in Refs
  PROVE  \E n \in Nat :
           /\ Len(HistoryOf(r)) = n /\ DOMAIN HistoryOf(r) = 1 .. n
           /\ \A i \in 1 .. n : HistoryOf(r)[i] \in RevisionsOf(r)
           /\ \A v \in RevisionsOf(r) : \E i \in 1 .. n : HistoryOf(r)[i] = v
           /\ \A i, j \in 1 .. n : i < j <=> HistoryOf(r)[i].seq < HistoryOf(r)[j].seq
  <1> DEFINE vs == RevisionsOf(r)
             UpTo(v) == {u \in vs : u.seq <= v.seq}
             Rank(v) == Cardinality(UpTo(v))
             n == Cardinality(vs)
  <1>1. \A v \in vs : v \in revisions /\ v.req.ref = r /\ v.seq \in Nat
    BY DEF RevisionsOf, IInv, TypeOK, Revision
  <1>2. \A u, v \in vs : u.seq = v.seq => u = v
    BY <1>1 DEF IInv, Tables, SequenceUnique
  <1>3. IsFiniteSet(vs)
    <2> DEFINE top == heads[r].version
               link == [v \in vs |-> CHOOSE l \in links : l.id = v.id /\ l.ref = r]
               f == [v \in vs |-> link[v].version]
    <2>1. \A v \in vs : link[v] \in links /\ link[v].id = v.id /\ link[v].ref = r
      <3> TAKE v \in vs
      <3>1. \E l \in links : l.id = v.id /\ l.ref = r
        BY <1>1 DEF IInv, Tables, OneLinkPerRevision
      <3> QED
        BY <3>1
    <2>2. top \in Nat
      BY DEF IInv, TypeOK, HeadRow
    <2> HIDE DEF link
    <2>3. \A v \in vs : f[v] \in 1 .. top
      BY <2>1 DEF IInv, Tables, NextVersionFree
    <2>4. ASSUME NEW u \in vs, NEW v \in vs, f[u] = f[v] PROVE u = v
      <3>1. (u.seq < v.seq <=> f[u] < f[v]) /\ (v.seq < u.seq <=> f[v] < f[u])
        BY <1>1, <2>1 DEF IInv, Tables, ReplayOrderIsVersionOrder
      <3>2. f[u] \in Nat /\ f[v] \in Nat
        BY <2>2, <2>3
      <3>3. u.seq = v.seq
        BY <3>1, <3>2, <2>4, <1>1
      <3> QED
        BY <3>3, <1>2
    <2>5. f \in [vs -> 1 .. top]
      BY <2>3
    <2> HIDE DEF vs, top, f
    <2>6. f \in Injection(vs, 1 .. top)
      BY <2>4, <2>5 DEF Injection, IsInjective
    <2> QED
      BY <2>2, <2>6, FS_Interval, FS_Injection
  <1>4. n \in Nat
    <2> HIDE DEF vs
    <2> QED
      BY <1>3, FS_CardinalityType
  <1>5. \A v \in vs : UpTo(v) \in SUBSET vs /\ v \in UpTo(v)
    BY <1>1
  <1>6. \A v \in vs : IsFiniteSet(UpTo(v)) /\ Rank(v) \in 1 .. n
    <2> TAKE v \in vs
    <2> HIDE DEF vs, UpTo
    <2>1. IsFiniteSet(UpTo(v)) /\ Cardinality(UpTo(v)) <= n
      BY <1>3, <1>5, FS_Subset
    <2>2. Cardinality(UpTo(v)) \in Nat /\ Cardinality(UpTo(v)) # 0
      BY <2>1, <1>5, FS_CardinalityType, FS_EmptySet
    <2> QED
      BY <2>1, <2>2, <1>4
  <1>7. ASSUME NEW u \in vs, NEW v \in vs, u.seq < v.seq PROVE Rank(u) < Rank(v)
    <2>1. UpTo(u) \in SUBSET UpTo(v)
      BY <1>1, <1>7
    <2>2. v \in UpTo(v) /\ v \notin UpTo(u)
      BY <1>1, <1>7
    <2> HIDE DEF vs, UpTo
    <2>3. Cardinality(UpTo(u)) <= Cardinality(UpTo(v)) /\ Cardinality(UpTo(u)) # Cardinality(UpTo(v))
      BY <2>1, <2>2, <1>6, FS_Subset
    <2>4. Rank(u) \in Nat /\ Rank(v) \in Nat
      BY <1>4, <1>6
    <2> QED
      BY <2>3, <2>4
  <1>8. \A u, v \in vs : Rank(u) < Rank(v) <=> u.seq < v.seq
    <2> SUFFICES ASSUME NEW u \in vs, NEW v \in vs PROVE Rank(u) < Rank(v) <=> u.seq < v.seq
      OBVIOUS
    <2>1. u.seq < v.seq \/ v.seq < u.seq \/ u = v
      BY <1>1, <1>2
    <2>2. Rank(u) \in Nat /\ Rank(v) \in Nat
      <3> HIDE DEF Rank, vs, n, UpTo
      <3> QED
        BY <1>4, <1>6
    <2>3. u.seq \in Nat /\ v.seq \in Nat
      BY <1>1
    <2>4. u.seq < v.seq => Rank(u) < Rank(v)
      BY <1>7
    <2>5. v.seq < u.seq => Rank(v) < Rank(u)
      BY <1>7
    <2> HIDE DEF Rank, vs
    <2> QED
      BY <2>1, <2>2, <2>3, <2>4, <2>5
  <1>9. \A u, v \in vs : Rank(u) = Rank(v) => u = v
    <2> SUFFICES ASSUME NEW u \in vs, NEW v \in vs, Rank(u) = Rank(v) PROVE u = v
      OBVIOUS
    <2>1. ~(Rank(u) < Rank(v)) /\ ~(Rank(v) < Rank(u))
      <3>1. Rank(u) \in Nat /\ Rank(v) \in Nat
        <4> HIDE DEF Rank, vs, n, UpTo
        <4> QED
          BY <1>4, <1>6
      <3> HIDE DEF Rank
      <3> QED
        BY <3>1
    <2>2. ~(u.seq < v.seq) /\ ~(v.seq < u.seq)
      <3> HIDE DEF Rank, vs
      <3> QED
        BY <2>1, <1>8
    <2> QED
      BY <2>2, <1>1, <1>2
  <1>10. \A i \in 1 .. n : \E v \in vs : Rank(v) = i
    <2> DEFINE f == [v \in vs |-> Rank(v)]
    <2> HIDE DEF vs, Rank, n
    <2>1. f \in [vs -> 1 .. n] /\ \A u, v \in vs : f[u] = f[v] => u = v
      BY <1>6, <1>9
    <2>2. f \in Injection(vs, 1 .. n)
      <3> HIDE DEF f
      <3> QED
        BY <2>1 DEF Injection, IsInjective
    <2>3. IsFiniteSet(1 .. n) /\ Cardinality(1 .. n) = n
      BY <1>4, FS_Interval
    <2>4. f \in Surjection(vs, 1 .. n)
      <3> HIDE DEF f
      <3> QED
        BY <2>2, <2>3, FS_Injection DEF n
    <2> QED
      BY <2>4 DEF Surjection
  <1>11. HistoryOf(r) = [i \in 1 .. n |-> CHOOSE v \in vs : Rank(v) = i]
    BY DEF HistoryOf
  <1> HIDE DEF vs, Rank, n
  <1>12. \A i \in 1 .. n : HistoryOf(r)[i] \in vs /\ Rank(HistoryOf(r)[i]) = i
    BY <1>10, <1>11
  <1>13. Len(HistoryOf(r)) = n /\ DOMAIN HistoryOf(r) = 1 .. n
    BY <1>4, <1>11
  <1>14. \A v \in vs : \E i \in 1 .. n : HistoryOf(r)[i] = v
    BY <1>6, <1>9, <1>12
  <1>15. \A i, j \in 1 .. n : i < j <=> HistoryOf(r)[i].seq < HistoryOf(r)[j].seq
    BY <1>8, <1>12
  <1> QED
    BY <1>4, <1>12, <1>13, <1>14, <1>15 DEF vs

-----------------------------------------------------------------------------
(* Only requests that validateWriteEvent accepts reach the journal.        *)
RowsValid == \A v \in revisions : ValidRequest(v.req)

SInv == IInv /\ RowsValid

LEMMA NextSInv ==
  ASSUME SInv, [Next]_vars PROVE SInv'
  <1>1. IInv'
    BY BeginAppendIInv, InsertRevisionIInv, CommitAppendIInv, AbortAppendIInv, RestartIInv,
       StutterIInv DEF Next, SInv
  <1>2. revisions' \subseteq revisions \/ \E w \in Writers : CommitAppend(w)
    BY DEF Next, vars, store, BeginAppend, InsertRevision, AbortAppend, Restart, PruneBefore
  <1>3. ASSUME NEW w \in Writers, CommitAppend(w)
        PROVE  \A v \in revisions' : ValidRequest(v.req)
    <2>1. revisions' = revisions \cup {pending[w]} /\ ValidRequest(pending[w].req)
      BY <1>3 DEF CommitAppend, SInv, IInv, SnapshotHolds, TxnSound
    <2> QED
      BY <2>1 DEF SInv, RowsValid
  <1>4. \A v \in revisions' : ValidRequest(v.req)
    BY <1>2, <1>3 DEF SInv, RowsValid
  <1> QED
    BY <1>1, <1>4 DEF SInv, RowsValid, ValidRequest

(* What a rebuild makes of one record: a head with a version for each of   *)
(* its revisions, which the history lists in the order of their sequences. *)
LEMMA RebuiltRecord ==
  ASSUME SInv, NEW r \in Refs
  PROVE  /\ RebuiltHeads[r] \in HeadRow
         /\ DOMAIN HistoryOf(r) = 1 .. RebuiltHeads[r].version
         /\ \A i \in DOMAIN HistoryOf(r) : HistoryOf(r)[i] \in RevisionsOf(r)
         /\ \A v \in RevisionsOf(r) : \E i \in DOMAIN HistoryOf(r) : HistoryOf(r)[i] = v
         /\ \A i, j \in DOMAIN HistoryOf(r) :
              i < j <=> HistoryOf(r)[i].seq < HistoryOf(r)[j].seq
  <1>1. PICK n \in Nat :
          /\ Len(HistoryOf(r)) = n /\ DOMAIN HistoryOf(r) = 1 .. n
          /\ \A i \in 1 .. n : HistoryOf(r)[i] \in RevisionsOf(r)
          /\ \A v \in RevisionsOf(r) : \E i \in 1 .. n : HistoryOf(r)[i] = v
          /\ \A i, j \in 1 .. n : i < j <=> HistoryOf(r)[i].seq < HistoryOf(r)[j].seq
    BY HistoryShape DEF SInv
  <1>2. \A v \in RevisionsOf(r) : v.req \in Request /\ ValidRequest(v.req)
    BY DEF RevisionsOf, SInv, RowsValid, IInv, TypeOK, Revision
  <1>3. Replay(HistoryOf(r)) \in HeadRow /\ Replay(HistoryOf(r)).version = n
    BY <1>1, <1>2, ReplayShape
  <1>4. RebuiltHeads[r] = Replay(HistoryOf(r))
    BY DEF RebuiltHeads
  <1> QED
    BY <1>1, <1>3, <1>4

(* A link that a rebuild writes. *)
LEMMA RebuiltLink ==
  ASSUME SInv
  PROVE  \A l : l \in RebuiltLinks <=>
           \E r \in Refs, i \in Nat :
             /\ i \in DOMAIN HistoryOf(r)
             /\ l = [ref |-> r, version |-> i, id |-> HistoryOf(r)[i].id]
  <1>1. \A r \in Refs : DOMAIN HistoryOf(r) \subseteq Nat
    <2> TAKE r \in Refs
    <2>1. DOMAIN HistoryOf(r) = 1 .. RebuiltHeads[r].version /\ RebuiltHeads[r].version \in Nat
      BY RebuiltRecord DEF HeadRow
    <2> QED
      BY <2>1
  <1>2. \A l : l \in RebuiltLinks <=>
          \E r \in Refs : \E i \in DOMAIN HistoryOf(r) :
            l = [ref |-> r, version |-> i, id |-> HistoryOf(r)[i].id]
    BY DEF RebuiltLinks
  <1> QED
    BY <1>1, <1>2

(* The rebuilt tables fit the journal, whatever retention has left of it.  *)
LEMMA RebuiltTables ==
  ASSUME SInv, RebuildAll
  PROVE  Tables'
  <1>1. /\ revisions' = revisions /\ heads' = RebuiltHeads /\ links' = RebuiltLinks
        /\ fts' = RebuiltFts
    BY DEF RebuildAll
  <1>2. \A v \in revisions : v.req.ref \in Refs /\ v \in RevisionsOf(v.req.ref)
    BY DEF RevisionsOf, SInv, IInv, TypeOK, Revision, Request
  <1>3. \A r : \A v \in RevisionsOf(r) : v \in revisions /\ v.req.ref = r
    BY DEF RevisionsOf
  <1>4. \A u, v \in revisions : u.id = v.id => u = v
    BY DEF SInv, IInv, IdUnique
  <1>5. \A r \in Refs : \A i, j \in DOMAIN HistoryOf(r) :
          HistoryOf(r)[i] = HistoryOf(r)[j] => i = j
    <2> SUFFICES ASSUME NEW r \in Refs, NEW i \in DOMAIN HistoryOf(r),
                        NEW j \in DOMAIN HistoryOf(r), HistoryOf(r)[i] = HistoryOf(r)[j]
                 PROVE  i = j
      OBVIOUS
    <2>1. (i < j <=> j < i) /\ i \in Nat /\ j \in Nat
      <3>1. (i < j <=> HistoryOf(r)[i].seq < HistoryOf(r)[i].seq)
            /\ (j < i <=> HistoryOf(r)[i].seq < HistoryOf(r)[i].seq)
        BY RebuiltRecord
      <3>2. RebuiltHeads[r].version \in Nat
        BY RebuiltRecord DEF HeadRow
      <3> QED
        BY <3>1, <3>2, RebuiltRecord
    <2> QED
      BY <2>1
  <1>6. SequenceUnique'
    BY <1>1 DEF SequenceUnique, SInv, IInv, Tables
  <1>7. OneLinkPerRevision'
    <2>1. \A v \in revisions : \E l \in RebuiltLinks : l.id = v.id /\ l.ref = v.req.ref
      <3> TAKE v \in revisions
      <3>1. PICK r \in Refs : r = v.req.ref
        BY <1>2
      <3>2. PICK i \in DOMAIN HistoryOf(r) : HistoryOf(r)[i] = v
        BY <1>2, <3>1, RebuiltRecord
      <3>3. i \in Nat
        BY RebuiltRecord DEF HeadRow
      <3>4. [ref |-> r, version |-> i, id |-> v.id] \in RebuiltLinks
        BY <3>2, <3>3, RebuiltLink
      <3> QED
        BY <3>1, <3>4
    <2>2. \A l \in RebuiltLinks : \E v \in revisions : v.id = l.id /\ v.req.ref = l.ref
      <3> TAKE l \in RebuiltLinks
      <3>1. PICK r \in Refs, i \in Nat :
              /\ i \in DOMAIN HistoryOf(r)
              /\ l = [ref |-> r, version |-> i, id |-> HistoryOf(r)[i].id]
        BY RebuiltLink
      <3>2. HistoryOf(r)[i] \in RevisionsOf(r)
        BY <3>1, RebuiltRecord
      <3> QED
        BY <1>3, <3>1, <3>2
    <2>3. \A k, l \in RebuiltLinks : k.id = l.id => k = l
      <3> SUFFICES ASSUME NEW k \in RebuiltLinks, NEW l \in RebuiltLinks, k.id = l.id
                   PROVE  k = l
        OBVIOUS
      <3>1. PICK r \in Refs, i \in Nat :
              /\ i \in DOMAIN HistoryOf(r)
              /\ k = [ref |-> r, version |-> i, id |-> HistoryOf(r)[i].id]
        BY RebuiltLink
      <3>2. PICK s \in Refs, j \in Nat :
              /\ j \in DOMAIN HistoryOf(s)
              /\ l = [ref |-> s, version |-> j, id |-> HistoryOf(s)[j].id]
        BY RebuiltLink
      <3>3. HistoryOf(r)[i] \in RevisionsOf(r) /\ HistoryOf(s)[j] \in RevisionsOf(s)
        BY <3>1, <3>2, RebuiltRecord
      <3>4. HistoryOf(r)[i] = HistoryOf(s)[j]
        BY <1>3, <1>4, <3>1, <3>2, <3>3
      <3>5. r = s
        BY <1>3, <3>3, <3>4
      <3>6. i = j
        BY <1>5, <3>1, <3>2, <3>4, <3>5
      <3> QED
        BY <3>1, <3>2, <3>5, <3>6
    <2> QED
      BY <1>1, <2>1, <2>2, <2>3 DEF OneLinkPerRevision
  <1>8. ReplayOrderIsVersionOrder'
    <2> SUFFICES ASSUME NEW u \in revisions, NEW v \in revisions, NEW k \in RebuiltLinks,
                        NEW l \in RebuiltLinks,
                        u.req.ref = v.req.ref, k.id = u.id, l.id = v.id
                 PROVE  u.seq < v.seq <=> k.version < l.version
      BY <1>1 DEF ReplayOrderIsVersionOrder
    <2>1. PICK r \in Refs, i \in Nat :
            /\ i \in DOMAIN HistoryOf(r)
            /\ k = [ref |-> r, version |-> i, id |-> HistoryOf(r)[i].id]
      BY RebuiltLink
    <2>2. PICK s \in Refs, j \in Nat :
            /\ j \in DOMAIN HistoryOf(s)
            /\ l = [ref |-> s, version |-> j, id |-> HistoryOf(s)[j].id]
      BY RebuiltLink
    <2>3. HistoryOf(r)[i] \in RevisionsOf(r) /\ HistoryOf(s)[j] \in RevisionsOf(s)
      BY <2>1, <2>2, RebuiltRecord
    <2>4. HistoryOf(r)[i] = u /\ HistoryOf(s)[j] = v
      BY <1>3, <1>4, <2>1, <2>2, <2>3
    <2>5. r = s
      BY <1>3, <2>3, <2>4
    <2>6. i < j <=> u.seq < v.seq
      BY <2>1, <2>2, <2>4, <2>5, RebuiltRecord
    <2> QED
      BY <2>1, <2>2, <2>6
  <1>9. NextVersionFree'
    <2>1. \A l \in RebuiltLinks : l.version \in 1 .. RebuiltHeads[l.ref].version
      <3> TAKE l \in RebuiltLinks
      <3>1. PICK r \in Refs, i \in Nat :
              /\ i \in DOMAIN HistoryOf(r)
              /\ l = [ref |-> r, version |-> i, id |-> HistoryOf(r)[i].id]
        BY RebuiltLink
      <3>2. i \in 1 .. RebuiltHeads[r].version
        BY <3>1, RebuiltRecord
      <3> QED
        BY <3>1, <3>2
    <2> QED
      BY <1>1, <2>1 DEF NextVersionFree
  <1>10. \A r \in Refs : Found(RebuiltHeads[r]) <=> RevisionsOf(r) # {}
    <2> TAKE r \in Refs
    <2>1. RebuiltHeads[r].version \in Nat
      BY RebuiltRecord DEF HeadRow
    <2>2. RebuiltHeads[r].version > 0 <=> \E i : i \in DOMAIN HistoryOf(r)
      <3>1. DOMAIN HistoryOf(r) = 1 .. RebuiltHeads[r].version
        BY RebuiltRecord
      <3>2. RebuiltHeads[r].version > 0 => 1 \in 1 .. RebuiltHeads[r].version
        BY <2>1
      <3> QED
        BY <2>1, <3>1, <3>2
    <2>3. (\E i : i \in DOMAIN HistoryOf(r)) <=> RevisionsOf(r) # {}
      BY RebuiltRecord
    <2> QED
      BY <2>2, <2>3 DEF Found
  <1>11. HeadsAreBacked'
    BY <1>1, <1>10 DEF HeadsAreBacked, RevisionsOf, Found
  <1>12. SearchSound'
    <2>1. \A row \in RebuiltFts :
            Found(RebuiltHeads[row.ref]) /\ row \in FtsRows(row.ref, RebuiltHeads[row.ref])
      <3> TAKE row \in RebuiltFts
      <3>1. PICK v \in revisions : row \in FtsRows(v.req.ref, RebuiltHeads[v.req.ref])
        BY DEF RebuiltFts
      <3>2. row.ref = v.req.ref
        BY <3>1 DEF FtsRows
      <3>3. Found(RebuiltHeads[v.req.ref])
        BY <1>2, <1>10
      <3> QED
        BY <3>1, <3>2, <3>3
    <2> QED
      BY <1>1, <2>1 DEF SearchSound, Found, FtsRows
  <1> QED
    BY <1>6, <1>7, <1>8, <1>9, <1>11, <1>12 DEF Tables

(* A rebuild is a commit.  It holds the lock, so no other transaction has  *)
(* it, and those that have a snapshot lose it.                             *)
LEMMA RebuildSInv ==
  ASSUME SInv, RebuildAll PROVE SInv'
  <1>1. /\ UNCHANGED <<revisions, revisionsFts, phase, pending>>
        /\ stale' = {w \in Writers : phase[w] # "idle"} /\ LockFree
        /\ heads' = RebuiltHeads /\ links' = RebuiltLinks /\ fts' = RebuiltFts
    BY DEF RebuildAll
  <1>2. Tables'
    BY RebuiltTables
  <1>3. TypeOK'
    <2>1. RebuiltHeads \in [Refs -> HeadRow]
      <3>1. \A r \in Refs : RebuiltHeads[r] \in HeadRow
        BY RebuiltRecord
      <3>2. RebuiltHeads = [r \in Refs |-> RebuiltHeads[r]]
        BY DEF RebuiltHeads
      <3> QED
        BY <3>1, <3>2
    <2>2. RebuiltLinks \subseteq Link
      <3> SUFFICES ASSUME NEW r \in Refs, NEW i \in DOMAIN HistoryOf(r)
                   PROVE  [ref |-> r, version |-> i, id |-> HistoryOf(r)[i].id] \in Link
        BY RebuiltLink
      <3>1. i \in Nat
        BY RebuiltRecord DEF HeadRow
      <3>2. HistoryOf(r)[i].id \in Ids
        BY RebuiltRecord DEF RevisionsOf, SInv, IInv, TypeOK, Revision
      <3> QED
        BY <3>1, <3>2 DEF Link
    <2>3. RebuiltFts \subseteq FtsRow
      <3> SUFFICES ASSUME NEW v \in revisions, NEW row \in FtsRows(v.req.ref, RebuiltHeads[v.req.ref])
                   PROVE  row \in FtsRow
        BY DEF RebuiltFts
      <3>1. v.req.ref \in Refs
        BY DEF SInv, IInv, TypeOK, Revision, Request
      <3>2. RebuiltHeads[v.req.ref] \in HeadRow
        BY <3>1, RebuiltRecord
      <3> QED
        BY <3>1, <3>2 DEF FtsRows, FtsRow, HeadRow
    <2> QED
      BY <1>1, <2>1, <2>2, <2>3 DEF SInv, IInv, TypeOK
  <1>4. IdUnique' /\ OneLockHolder' /\ RowsValid'
    BY <1>1 DEF SInv, IInv, IdUnique, OneLockHolder, RowsValid, ValidRequest
  <1>5. SnapshotHolds'
    <2> SUFFICES ASSUME NEW w \in Writers PROVE TxnSound(w)'
      BY DEF SnapshotHolds
    <2>1. TxnSound(w)
      BY DEF SInv, IInv, SnapshotHolds
    <2>2. ValidRequest(pending[w].req)' <=> ValidRequest(pending[w].req)
      BY <1>1 DEF ValidRequest
    <2> QED
      BY <1>1, <2>1, <2>2 DEF TxnSound, LockFree
  <1> QED
    BY <1>2, <1>3, <1>4, <1>5 DEF SInv, IInv

LEMMA InitSInv == Init => SInv
  BY InitIInv DEF Init, SInv, RowsValid

(* The invariant of the store with retention and rebuilds. *)
THEOREM StoreInvariant == RebuildSpec => []SInv
  <1>1. SInv /\ [RebuildNext]_vars => SInv'
    BY NextSInv, RebuildSInv DEF RebuildNext
  <1> QED
    BY InitSInv, <1>1, PTL DEF RebuildSpec

(* The tables hold what their columns say (TypeOK), for every instance.    *)
THEOREM TypeCorrect == RebuildSpec => []TypeOK
  <1>1. SInv => TypeOK
    BY DEF SInv, IInv
  <1> QED
    BY StoreInvariant, <1>1, PTL

(* No two revisions of a record share a sequence, whatever the writers do. *)
THEOREM SequencesAreUnique == RebuildSpec => []SequenceUnique
  <1>1. SInv => SequenceUnique
    BY DEF SInv, IInv, Tables
  <1> QED
    BY StoreInvariant, <1>1, PTL

(* record_revisions stays one to one with revisions, under retention and   *)
(* after a rebuild too.                                                    *)
THEOREM LinksMatchRevisions == RebuildSpec => []OneLinkPerRevision
  <1>1. SInv => OneLinkPerRevision
    BY DEF SInv, IInv, Tables
  <1> QED
    BY StoreInvariant, <1>1, PTL

(* The replay order of what retention leaves is the order of versions. *)
THEOREM ReplayOrderCorrect == RebuildSpec => []ReplayOrderIsVersionOrder
  <1>1. SInv => ReplayOrderIsVersionOrder
    BY DEF SInv, IInv, Tables
  <1> QED
    BY StoreInvariant, <1>1, PTL

(* No append fails on the primary key of record_revisions, although a      *)
(* rebuild after retention numbers the versions anew.                      *)
THEOREM NextVersionAlwaysFree == RebuildSpec => []NextVersionFree
  <1>1. SInv => NextVersionFree
    BY DEF SInv, IInv, Tables
  <1> QED
    BY StoreInvariant, <1>1, PTL

(* A record has a head exactly while it has revisions. *)
THEOREM HeadsBacked == RebuildSpec => []HeadsAreBacked
  <1>1. SInv => HeadsAreBacked
    BY DEF SInv, IInv, Tables
  <1> QED
    BY StoreInvariant, <1>1, PTL

(* A search row is always that of a live head with its current body. *)
THEOREM SearchIsSound == RebuildSpec => []SearchSound
  <1>1. SInv => SearchSound
    BY DEF SInv, IInv, Tables
  <1> QED
    BY StoreInvariant, <1>1, PTL

(* Retention takes the search row of a record that keeps its head; every   *)
(* rebuild brings the missing rows back (the FTS rows of RebuildAll).      *)
THEOREM RebuildRestoresSearch == RebuildSpec => [][RebuildAll => SearchComplete']_vars
  <1>1. SInv /\ [RebuildNext]_vars => [RebuildAll => SearchComplete']_vars
    <2> SUFFICES ASSUME SInv, RebuildAll PROVE SearchComplete'
      OBVIOUS
    <2>1. /\ revisions' = revisions /\ heads' = RebuiltHeads /\ fts' = RebuiltFts
          /\ HeadsAreBacked'
      BY RebuiltTables DEF RebuildAll, Tables
    <2>2. \A r \in Refs : Found(RebuiltHeads[r]) => FtsRows(r, RebuiltHeads[r]) \subseteq RebuiltFts
      <3> SUFFICES ASSUME NEW r \in Refs, Found(RebuiltHeads[r])
                   PROVE  FtsRows(r, RebuiltHeads[r]) \subseteq RebuiltFts
        OBVIOUS
      <3>1. r \in {v.req.ref : v \in revisions}
        BY <2>1 DEF HeadsAreBacked, RevisionsOf, Found
      <3> QED
        BY <3>1 DEF RebuiltFts
    <2> QED
      BY <2>1, <2>2 DEF SearchComplete, Found, FtsRows
  <1> QED
    BY StoreInvariant, <1>1, PTL DEF RebuildSpec

-----------------------------------------------------------------------------
(* Without retention the sequence of a record's last revision is the       *)
(* version of its head, and every live head can be searched.               *)
SequenceIsVersion == \A r \in Refs : NextSequence(r, heads[r].version + 1)

Unpruned == SequenceIsVersion /\ SearchComplete

LEMMA NextSequenceUnique ==
  ASSUME TypeOK, NEW r \in Refs, NEW m \in Nat, NEW n \in Nat,
         NextSequence(r, m), NextSequence(r, n)
  PROVE  m = n
BY DEF NextSequence, RevisionsOf, TypeOK, Revision

(* What a commit does to the table of revisions and to one head. *)
LEMMA CommitFacts ==
  ASSUME IInv, Unpruned, NEW w \in Writers, CommitAppend(w)
  PROVE  LET v == pending[w]
             ref == v.req.ref
         IN  /\ v \in Revision /\ ref \in Refs /\ v.req \in Request
             /\ heads[ref] \in HeadRow
             /\ v.seq = heads[ref].version + 1
             /\ revisions' = revisions \cup {v}
             /\ heads' = [heads EXCEPT ![ref] = FoldHead(v.req, heads[ref])]
             /\ heads'[ref] = FoldHead(v.req, heads[ref])
             /\ heads'[ref] \in HeadRow
             /\ heads'[ref].version = heads[ref].version + 1
             /\ ~FoldFails(v.req, heads[ref])
<1> DEFINE v == pending[w]
           ref == v.req.ref
<1>1. /\ v \in Revision /\ ref \in Refs /\ v.req \in Request /\ heads[ref] \in HeadRow
      /\ ValidRequest(v.req) /\ NextSequence(ref, v.seq)
  BY DEF IInv, TypeOK, SnapshotHolds, TxnSound, CommitAppend, Revision, Request
<1>2. v.seq = heads[ref].version + 1
  <2>1. v.seq \in Nat /\ heads[ref].version + 1 \in Nat
    BY <1>1 DEF Revision, HeadRow
  <2>2. NextSequence(ref, heads[ref].version + 1)
    BY <1>1 DEF Unpruned, SequenceIsVersion
  <2> QED
    BY <1>1, <2>1, <2>2, NextSequenceUnique DEF IInv
<1>3. /\ revisions' = revisions \cup {v}
      /\ heads' = [heads EXCEPT ![ref] = FoldHead(v.req, heads[ref])]
      /\ ~FoldFails(v.req, heads[ref])
  BY <1>1 DEF CommitAppend, WriteHead
<1>4. heads'[ref] = FoldHead(v.req, heads[ref])
  BY <1>1, <1>3 DEF IInv, TypeOK
<1> QED
  BY <1>1, <1>2, <1>3, <1>4, FoldHeadIsHead

(* Without retention, Unpruned holds next to IInv. *)
LEMMA UnprunedStep ==
  ASSUME Cutoffs = {}, IInv, Unpruned, Next
  PROVE  Unpruned'
<1>1. CASE UNCHANGED store
  BY <1>1 DEF store, Unpruned, SequenceIsVersion, SearchComplete, NextSequence, RevisionsOf
<1>2. ASSUME NEW w \in Writers, CommitAppend(w) PROVE Unpruned'
  <2> DEFINE v == pending[w]
             ref == v.req.ref
  <2>1. /\ v \in Revision /\ ref \in Refs /\ heads[ref] \in HeadRow
        /\ v.seq = heads[ref].version + 1
        /\ revisions' = revisions \cup {v}
        /\ heads' = [heads EXCEPT ![ref] = FoldHead(v.req, heads[ref])]
        /\ heads'[ref].version = heads[ref].version + 1
    BY <1>2, CommitFacts
  <2>2. fts' = {row \in fts : row.ref # ref} \cup FtsRows(ref, heads'[ref])
    BY <1>2 DEF CommitAppend, SyncFts
  <2> HIDE DEF v, ref
  <2>3. \A r \in Refs : r # ref => heads'[r] = heads[r]
    BY <2>1 DEF IInv, TypeOK
  <2>4. ASSUME NEW r \in Refs PROVE NextSequence(r, heads[r].version + 1)'
    <3>1. CASE r = ref
      BY <2>1, <3>1 DEF IInv, TypeOK, Unpruned, SequenceIsVersion, NextSequence, RevisionsOf,
                        Revision, HeadRow, ref
    <3>2. CASE r # ref
      BY <2>1, <2>3, <3>2 DEF Unpruned, SequenceIsVersion, NextSequence, RevisionsOf, ref
    <3> QED
      BY <3>1, <3>2
  <2>5. ASSUME NEW r \in Refs, Found(heads[r])' PROVE FtsRows(r, heads'[r]) \subseteq fts'
    <3>1. CASE r = ref
      BY <2>2, <3>1
    <3>2. CASE r # ref
      BY <2>2, <2>3, <2>5, <3>2 DEF Unpruned, SearchComplete, FtsRows, Found
    <3> QED
      BY <3>1, <3>2
  <2> QED
    BY <2>4, <2>5 DEF Unpruned, SequenceIsVersion, SearchComplete, FtsRows, Found
<1> QED
  BY <1>1, <1>2 DEF Next, BeginAppend, InsertRevision, AbortAppend, Restart

LEMMA InitUnpruned == Init => Unpruned
BY DEF Init, Unpruned, SequenceIsVersion, SearchComplete, NextSequence, RevisionsOf, Found, NoRow

-----------------------------------------------------------------------------
(* A head per version of the record, each the fold of one revision. *)
Story(r, told) ==
  /\ told \in [0 .. heads[r].version -> HeadRow]
  /\ told[0] = NoRow /\ told[heads[r].version] = heads[r]
  /\ \A v \in RevisionsOf(r) :
       v.seq \in 1 .. heads[r].version /\ told[v.seq] = FoldHead(v.req, told[v.seq - 1])

(* The sequences of a record are its versions, without a gap. *)
NoGap(r) == \A i \in 1 .. heads[r].version : \E v \in RevisionsOf(r) : v.seq = i

Replayable == \A r \in Refs : NoGap(r) /\ \E told : Story(r, told)

(* A link per revision, which bears its sequence as its version. *)
LinkOf(v) == [ref |-> v.req.ref, version |-> v.seq, id |-> v.id]
LinksAreRevisions == links = {LinkOf(v) : v \in revisions}

RInv == SInv /\ Unpruned /\ Replayable /\ LinksAreRevisions

(* The history of a record without gaps: the revision of every sequence at *)
(* its place.                                                              *)
LEMMA HistoryInOrder ==
  ASSUME IInv, NEW r \in Refs, NoGap(r),
         \A v \in RevisionsOf(r) : v.seq \in 1 .. heads[r].version
  PROVE  /\ Len(HistoryOf(r)) = heads[r].version
         /\ \A v \in RevisionsOf(r) : HistoryOf(r)[v.seq] = v
         /\ DOMAIN HistoryOf(r) = 1 .. heads[r].version
  <1> DEFINE vs == RevisionsOf(r)
             n == heads[r].version
             UpTo(v) == {u \in vs : u.seq <= v.seq}
             Rank(v) == Cardinality(UpTo(v))
  <1>1. n \in Nat
    BY DEF IInv, TypeOK, HeadRow
  <1>2. \A u, v \in vs : u.seq = v.seq => u = v
    BY DEF IInv, Tables, SequenceUnique, RevisionsOf
  <1>3. \A v \in vs : v.seq \in 1 .. n
    OBVIOUS
  <1>4. \A i \in 1 .. n : \E v \in vs : v.seq = i
    BY DEF NoGap
  <1>5. \A S : \A k \in 0 .. n :
          S = {u \in vs : u.seq <= k} => IsFiniteSet(S) /\ Cardinality(S) = k
    <2> SUFFICES ASSUME NEW k \in 0 .. n
                 PROVE  LET S == {u \in vs : u.seq <= k}
                        IN  IsFiniteSet(S) /\ Cardinality(S) = k
      OBVIOUS
    <2> DEFINE S == {u \in vs : u.seq <= k}
               f == [i \in 1 .. k |-> CHOOSE v \in vs : v.seq = i]
    <2> HIDE DEF vs, n
    <2>1. k \in Nat /\ k <= n
      BY <1>1
    <2>2. \A i \in 1 .. k : f[i] \in vs /\ f[i].seq = i
      <3> SUFFICES ASSUME NEW i \in 1 .. k PROVE f[i] \in vs /\ f[i].seq = i
        OBVIOUS
      <3>1. i \in 1 .. n
        BY <2>1, <1>1
      <3>2. \E v \in vs : v.seq = i
        BY <3>1, <1>4
      <3> QED
        BY <3>2
    <2>3. f \in [1 .. k -> S]
      BY <2>1, <2>2
    <2>4. \A i, j \in 1 .. k : f[i] = f[j] => i = j
      BY <2>2
    <2>5. \A u \in S : \E i \in 1 .. k : f[i] = u
      <3> SUFFICES ASSUME NEW u \in S PROVE \E i \in 1 .. k : f[i] = u
        OBVIOUS
      <3>1. u \in vs /\ u.seq \in 1 .. k
        BY <1>1, <1>3, <2>1
      <3>2. f[u.seq] = u
        BY <3>1, <2>2, <1>2
      <3> QED
        BY <3>1, <3>2
    <2> HIDE DEF f, S
    <2>6. f \in Bijection(1 .. k, S)
      BY <2>3, <2>4, <2>5 DEF Bijection, Injection, Surjection, IsInjective
    <2>7. ExistsBijection(1 .. k, S)
      BY <2>6 DEF ExistsBijection
    <2>8. IsFiniteSet(1 .. k) /\ Cardinality(1 .. k) = k
      BY <2>1, FS_Interval
    <2>9. IsFiniteSet(S) /\ Cardinality(S) = k
      BY <2>7, <2>8, FS_Bijection
    <2> QED
      BY <2>9 DEF S
  <1>6. \A v \in vs : Rank(v) = v.seq
    <2> SUFFICES ASSUME NEW v \in vs PROVE Cardinality(UpTo(v)) = v.seq
      OBVIOUS
    <2>1. v.seq \in 0 .. n
      BY <1>1, <1>3
    <2> QED
      BY <2>1, <1>5
  <1>7. Cardinality(vs) = n
    <2>1. vs = {u \in vs : u.seq <= n}
      BY <1>1, <1>3
    <2>2. n \in 0 .. n
      BY <1>1
    <2> HIDE DEF vs, n
    <2> QED
      BY <2>1, <2>2, <1>5
  <1>8. HistoryOf(r) = [i \in 1 .. n |-> CHOOSE v \in vs : Rank(v) = i]
    BY <1>7 DEF HistoryOf
  <1>9. \A v \in vs : (CHOOSE u \in vs : Rank(u) = v.seq) = v
    <2> SUFFICES ASSUME NEW v \in vs PROVE (CHOOSE u \in vs : Rank(u) = v.seq) = v
      OBVIOUS
    <2> HIDE DEF vs, Rank
    <2>1. \A u \in vs : Rank(u) = v.seq => u = v
      BY <1>2, <1>6
    <2> QED
      BY <2>1, <1>6
  <1> HIDE DEF vs, n, Rank
  <1>10. Len(HistoryOf(r)) = n /\ DOMAIN HistoryOf(r) = 1 .. n
    BY <1>1, <1>8
  <1>11. \A v \in vs : HistoryOf(r)[v.seq] = v
    BY <1>3, <1>8, <1>9
  <1> QED
    BY <1>10, <1>11 DEF vs, n

(* So the replay of a record tells its story, which ends with its head.    *)
LEMMA StoryIsReplayed ==
  ASSUME IInv, Replayable, NEW r \in Refs
  PROVE  /\ Replay(HistoryOf(r)) = heads[r]
         /\ Len(HistoryOf(r)) = heads[r].version
         /\ \A v \in RevisionsOf(r) :
              v.seq \in 1 .. heads[r].version /\ HistoryOf(r)[v.seq] = v
         /\ DOMAIN HistoryOf(r) = 1 .. heads[r].version
  <1> DEFINE n == heads[r].version
             vs == HistoryOf(r)
  <1>1. PICK told : Story(r, told)
    BY DEF Replayable
  <1>2. /\ Len(vs) = n
        /\ \A v \in RevisionsOf(r) : vs[v.seq] = v
        /\ DOMAIN vs = 1 .. n
    BY <1>1, HistoryInOrder DEF Replayable, Story
  <1>3. n \in Nat
    BY DEF IInv, TypeOK, HeadRow
  <1>4. \A i \in 1 .. n : told[i] = FoldHead(vs[i].req, told[i - 1])
    <2> TAKE i \in 1 .. n
    <2>1. PICK v \in RevisionsOf(r) : v.seq = i
      BY DEF Replayable, NoGap
    <2> QED
      BY <1>1, <1>2, <2>1 DEF Story
  <1>5. told[n] = heads[r]
    BY <1>1 DEF Story
  <1>6. Replay(vs) = told[n]
    <2>1. told \in [0 .. n -> HeadRow] /\ told[0] = NoRow
      BY <1>1 DEF Story
    <2> HIDE DEF n, vs
    <2> QED
      BY <2>1, <1>2, <1>3, <1>4, ReplayIsForced
  <1> QED
    BY <1>1, <1>2, <1>5, <1>6 DEF Story

-----------------------------------------------------------------------------
(* A commit makes the story of its record longer by one head. *)
LEMMA CommitReplayable ==
  ASSUME IInv, Unpruned, Replayable, NEW w \in Writers, CommitAppend(w)
  PROVE  Replayable'
  <1>a. PICK v : v = pending[w]
    OBVIOUS
  <1>b. PICK ref : ref = v.req.ref
    OBVIOUS
  <1>c. PICK n : n = heads[ref].version
    OBVIOUS
  <1>1. /\ ref \in Refs /\ heads[ref] \in HeadRow /\ v.seq = n + 1
        /\ revisions' = revisions \cup {v}
        /\ heads' = [heads EXCEPT ![ref] = FoldHead(v.req, heads[ref])]
        /\ heads'[ref] = FoldHead(v.req, heads[ref])
        /\ heads'[ref] \in HeadRow /\ heads'[ref].version = n + 1
    BY <1>a, <1>b, <1>c, CommitFacts
  <1>2. n \in Nat
    BY <1>1, <1>c DEF HeadRow
  <1>3. RevisionsOf(ref)' = RevisionsOf(ref) \cup {v}
        /\ \A r \in Refs : r # ref => RevisionsOf(r)' = RevisionsOf(r)
    BY <1>1, <1>b DEF RevisionsOf
  <1>4. \A r \in Refs : r # ref => heads'[r] = heads[r]
    BY <1>1 DEF IInv, TypeOK
  <1>5. ASSUME NEW r \in Refs, r # ref PROVE NoGap(r)' /\ \E told : Story(r, told)'
    BY <1>3, <1>4, <1>5 DEF Replayable, NoGap, Story
  <1>6. NoGap(ref)'
    <2> SUFFICES ASSUME NEW i \in 1 .. n + 1 PROVE \E u \in RevisionsOf(ref)' : u.seq = i
      BY <1>1 DEF NoGap
    <2>1. CASE i = n + 1
      BY <2>1, <1>1, <1>3
    <2>2. CASE i \in 1 .. n
      BY <2>2, <1>1, <1>3, <1>c DEF Replayable, NoGap
    <2> QED
      BY <2>1, <2>2, <1>2
  <1>7. \E told : Story(ref, told)'
    <2>1. PICK told : Story(ref, told)
      BY <1>1 DEF Replayable
    <2>2. /\ told \in [0 .. n -> HeadRow] /\ told[0] = NoRow /\ told[n] = heads[ref]
          /\ \A u \in RevisionsOf(ref) :
               u.seq \in 1 .. n /\ told[u.seq] = FoldHead(u.req, told[u.seq - 1])
      BY <2>1, <1>c DEF Story
    <2> DEFINE longer == [i \in 0 .. n + 1 |-> IF i = n + 1 THEN heads'[ref] ELSE told[i]]
    <2>3. \A i \in 0 .. n + 1 : i # n + 1 => i \in 0 .. n
      BY <1>2
    <2>4. longer \in [0 .. n + 1 -> HeadRow]
      BY <1>1, <2>2, <2>3
    <2>5. 0 \in 0 .. n + 1 /\ 0 # n + 1 /\ n \in 0 .. n + 1 /\ n # n + 1 /\ n + 1 \in 0 .. n + 1
      BY <1>2
    <2>6. longer[0] = NoRow /\ longer[n] = heads[ref] /\ longer[n + 1] = heads'[ref]
      BY <2>2, <2>5
    <2>7. ASSUME NEW u \in RevisionsOf(ref)
          PROVE  u.seq \in 1 .. n + 1 /\ longer[u.seq] = FoldHead(u.req, longer[u.seq - 1])
      <3>1. /\ u.seq \in 0 .. n + 1 /\ u.seq # n + 1
            /\ u.seq - 1 \in 0 .. n + 1 /\ u.seq - 1 # n + 1
        BY <2>2, <1>2
      <3>2. longer[u.seq] = told[u.seq] /\ longer[u.seq - 1] = told[u.seq - 1]
        BY <3>1
      <3> QED
        BY <2>2, <3>2, <1>2
    <2>8. v.seq \in 1 .. n + 1 /\ longer[v.seq] = FoldHead(v.req, longer[v.seq - 1])
      <3>1. v.seq - 1 = n
        BY <1>1, <1>2
      <3> QED
        BY <3>1, <2>6, <1>1, <1>2
    <2> HIDE DEF longer
    <2>9. PICK later : later = longer
      OBVIOUS
    <2>10. Story(ref, later)'
      BY <1>1, <1>3, <2>4, <2>6, <2>7, <2>8, <2>9 DEF Story
    <2> QED
      BY <2>10
  <1> QED
    BY <1>5, <1>6, <1>7 DEF Replayable

LEMMA CommitLinks ==
  ASSUME IInv, Unpruned, LinksAreRevisions, NEW w \in Writers, CommitAppend(w)
  PROVE  LinksAreRevisions'
  <1>1. pending[w].seq = heads[pending[w].req.ref].version + 1
    BY CommitFacts
  <1>2. LinkFor(pending[w]) = LinkOf(pending[w])
    BY <1>1 DEF LinkFor, LinkOf
  <1>3. links' = links \cup {LinkOf(pending[w])} /\ revisions' = revisions \cup {pending[w]}
    BY <1>2 DEF CommitAppend
  <1> QED
    BY <1>3 DEF LinksAreRevisions, LinkOf

(* A step that leaves the tables alone. *)
LEMMA FrameReplayable ==
  ASSUME Replayable, LinksAreRevisions, UNCHANGED store
  PROVE  Replayable' /\ LinksAreRevisions'
  <1>1. \A r : RevisionsOf(r)' = RevisionsOf(r)
    BY DEF RevisionsOf, store
  <1> QED
    BY <1>1 DEF Replayable, NoGap, Story, LinksAreRevisions, LinkOf, store

LEMMA NextRInv ==
  ASSUME Cutoffs = {}, RInv, [Next]_vars PROVE RInv'
  <1>1. SInv'
    BY NextSInv DEF RInv
  <1>2. Unpruned'
    <2>1. CASE UNCHANGED vars
      BY <2>1 DEF vars, RInv, Unpruned, SequenceIsVersion, SearchComplete, NextSequence, RevisionsOf
    <2>2. CASE Next
      BY <2>2, UnprunedStep DEF RInv, SInv
    <2> QED
      BY <2>1, <2>2
  <1>3. CASE UNCHANGED store
    BY <1>1, <1>2, <1>3, FrameReplayable DEF RInv, SInv
  <1>4. ASSUME NEW w \in Writers, CommitAppend(w) PROVE RInv'
    BY <1>1, <1>2, <1>4, CommitReplayable, CommitLinks DEF RInv, SInv
  <1> QED
    BY <1>3, <1>4 DEF Next, BeginAppend, InsertRevision, AbortAppend, Restart, vars, store

LEMMA InitRInv == Init => RInv
  <1> SUFFICES ASSUME Init PROVE RInv
    OBVIOUS
  <1>1. SInv /\ Unpruned
    BY InitSInv, InitUnpruned
  <1>2. revisions = {} /\ links = {} /\ \A r \in Refs : heads[r] = NoRow
    BY DEF Init
  <1>3. NoRow \in HeadRow /\ NoRow.version = 0
    BY DEF NoRow, HeadRow, Body, Completeness
  <1>4. ASSUME NEW r \in Refs PROVE NoGap(r) /\ \E told : Story(r, told)
    <2> DEFINE told == [i \in 0 .. 0 |-> NoRow]
    <2>1. RevisionsOf(r) = {} /\ heads[r] = NoRow /\ heads[r].version = 0
      BY <1>2, <1>3 DEF RevisionsOf
    <2>2. told \in [0 .. heads[r].version -> HeadRow] /\ told[0] = NoRow
      BY <1>3, <2>1
    <2>3. Story(r, told)
      BY <2>1, <2>2 DEF Story
    <2>4. NoGap(r)
      BY <2>1 DEF NoGap
    <2> QED
      BY <2>3, <2>4
  <1>5. LinksAreRevisions
    BY <1>2 DEF LinksAreRevisions
  <1> QED
    BY <1>1, <1>4, <1>5 DEF RInv, SInv, Replayable

-----------------------------------------------------------------------------
(* What a rebuild writes is what is there. *)
LEMMA RebuildReproducesTables ==
  ASSUME RInv
  PROVE  /\ RebuiltHeads = heads /\ RebuiltLinks = links /\ RebuiltFts = fts
  <1>1. RebuiltHeads = heads
    <2>1. \A r \in Refs : Replay(HistoryOf(r)) = heads[r]
      BY StoryIsReplayed DEF RInv, SInv
    <2>2. heads = [r \in Refs |-> heads[r]]
      BY DEF RInv, SInv, IInv, TypeOK
    <2> QED
      BY <2>1, <2>2 DEF RebuiltHeads
  <1>2. RebuiltLinks = links
    <2> DEFINE Of(r) == {[ref |-> r, version |-> i, id |-> HistoryOf(r)[i].id] :
                           i \in DOMAIN HistoryOf(r)}
    <2>1. RebuiltLinks = UNION {Of(r) : r \in Refs}
      BY DEF RebuiltLinks
    <2>2. ASSUME NEW r \in Refs PROVE Of(r) = {LinkOf(v) : v \in RevisionsOf(r)}
      <3>1. /\ \A v \in RevisionsOf(r) :
                 v.seq \in DOMAIN HistoryOf(r) /\ HistoryOf(r)[v.seq] = v
            /\ DOMAIN HistoryOf(r) = 1 .. heads[r].version
        BY StoryIsReplayed DEF RInv, SInv
      <3>2. \A i \in DOMAIN HistoryOf(r) : \E v \in RevisionsOf(r) : v.seq = i
        BY <3>1 DEF RInv, SInv, Replayable, NoGap
      <3>3. ASSUME NEW l \in Of(r) PROVE l \in {LinkOf(v) : v \in RevisionsOf(r)}
        <4>1. PICK i \in DOMAIN HistoryOf(r) :
                l = [ref |-> r, version |-> i, id |-> HistoryOf(r)[i].id]
          OBVIOUS
        <4>2. PICK v \in RevisionsOf(r) : v.seq = i
          BY <3>2
        <4>3. l = LinkOf(v)
          BY <3>1, <4>1, <4>2 DEF LinkOf, RevisionsOf
        <4> QED
          BY <4>3
      <3>4. ASSUME NEW v \in RevisionsOf(r) PROVE LinkOf(v) \in Of(r)
        <4>1. LinkOf(v) = [ref |-> r, version |-> v.seq, id |-> HistoryOf(r)[v.seq].id]
          BY <3>1 DEF LinkOf, RevisionsOf
        <4> QED
          BY <3>1, <4>1
      <3> HIDE DEF Of
      <3> QED
        BY <3>3, <3>4
    <2>3. \A v \in revisions : v.req.ref \in Refs /\ v \in RevisionsOf(v.req.ref)
      BY DEF RevisionsOf, RInv, SInv, IInv, TypeOK, Revision, Request
    <2>4. \A r : RevisionsOf(r) \subseteq revisions
      BY DEF RevisionsOf
    <2> HIDE DEF Of
    <2>5. \A l : l \in RebuiltLinks <=> \E v \in revisions : l = LinkOf(v)
      BY <2>1, <2>2, <2>3, <2>4
    <2> QED
      BY <2>5 DEF RInv, SInv, LinksAreRevisions
  <1>3. RebuiltFts = fts
    <2>1. \A r \in Refs : RevisionsOf(r) # {} <=> Found(heads[r])
      BY DEF RInv, SInv, IInv, Tables, HeadsAreBacked
    <2>2. \A r : r \in {v.req.ref : v \in revisions} <=> r \in Refs /\ RevisionsOf(r) # {}
      BY DEF RevisionsOf, RInv, SInv, IInv, TypeOK, Revision, Request
    <2>3. \A r \in Refs : \A row \in FtsRows(r, heads[r]) : row.ref = r
      BY DEF FtsRows
    <2>4. \A row \in fts : row.ref \in Refs /\ Found(heads[row.ref])
                             /\ row \in FtsRows(row.ref, heads[row.ref])
      BY DEF RInv, SInv, IInv, TypeOK, FtsRow, Tables, SearchSound
    <2>5. \A r \in Refs : Found(heads[r]) => FtsRows(r, heads[r]) \subseteq fts
      BY DEF RInv, SInv, Unpruned, SearchComplete
    <2>6. RebuiltFts = UNION {FtsRows(r, heads[r]) : r \in {v.req.ref : v \in revisions}}
      BY <1>1 DEF RebuiltFts
    <2>7. \A row : row \in RebuiltFts <=>
            \E r \in {v.req.ref : v \in revisions} : row \in FtsRows(r, heads[r])
      BY <2>6
    <2> QED
      BY <2>1, <2>2, <2>4, <2>5, <2>7
  <1> QED
    BY <1>1, <1>2, <1>3

(* A rebuild is then a commit that changes nothing.                        *)
LEMMA RebuildRInv ==
  ASSUME RInv, RebuildAll PROVE RInv'
  <1>1. UNCHANGED store
    BY RebuildReproducesTables DEF RebuildAll, store
  <1>2. SInv'
    BY RebuildSInv DEF RInv
  <1>3. Unpruned'
    <2>1. \A r, m : NextSequence(r, m)' <=> NextSequence(r, m)
      BY <1>1 DEF NextSequence, RevisionsOf, store
    <2> QED
      BY <1>1, <2>1 DEF RInv, SInv, Unpruned, SequenceIsVersion, SearchComplete, store
  <1>4. Replayable' /\ LinksAreRevisions'
    BY <1>1, FrameReplayable DEF RInv, SInv
  <1> QED
    BY <1>2, <1>3, <1>4 DEF RInv

LEMMA RebuildInvariant == ASSUME Cutoffs = {} PROVE RebuildSpec => []RInv
  <1>1. RInv /\ [RebuildNext]_vars => RInv'
    BY NextRInv, RebuildRInv DEF RebuildNext
  <1> QED
    BY InitRInv, <1>1, PTL DEF RebuildSpec

(* Every live head can be found by a search. *)
THEOREM SearchIsComplete == ASSUME Cutoffs = {} PROVE RebuildSpec => []SearchComplete
  <1>1. RInv => SearchComplete
    BY DEF RInv, SInv, Unpruned
  <1> QED
    BY RebuildInvariant, <1>1, PTL

(* Every head is the fold of its record's revisions in the order of their  *)
(* sequences: no interleaving of writers, abort, crash or rebuild makes    *)
(* record_heads differ from what a replay computes                         *)
(* (records/materialize.go:75-113).                                        *)
THEOREM HeadsAreReplays == ASSUME Cutoffs = {} PROVE RebuildSpec => []HeadIsReplay
  <1>1. RInv => HeadIsReplay
    BY StoryIsReplayed DEF RInv, SInv, HeadIsReplay
  <1> QED
    BY RebuildInvariant, <1>1, PTL

(* A rebuild that runs reproduces the heads, the links and the search rows *)
(* as they are.                                                            *)
THEOREM RebuildsReproduce == ASSUME Cutoffs = {} PROVE RebuildSpec => []RebuildReproduces
  <1>1. RInv => RebuildReproduces
    BY RebuildReproducesTables DEF RebuildReproduces, projections
  <1> QED
    BY RebuildInvariant, <1>1, PTL

(* No step that is a rebuild changes a table. *)
THEOREM RebuildChangesNothing ==
  ASSUME Cutoffs = {} PROVE RebuildSpec => [][RebuildAll => UNCHANGED store]_vars
  <1>1. RInv /\ [RebuildNext]_vars => [RebuildAll => UNCHANGED store]_vars
    BY RebuildReproducesTables DEF RebuildAll, store
  <1> QED
    BY RebuildInvariant, <1>1, PTL DEF RebuildSpec

-----------------------------------------------------------------------------
(* RecordLog folds with the same definitions as the store. *)
LEMMA LogFolds ==
  /\ Log!NoRow = NoRow
  /\ \A q, h : Log!FoldHead(q, h) = FoldHead(q, h) /\ (Log!FoldFails(q, h) <=> FoldFails(q, h))
<1>1. Log!NoRow = NoRow
  BY DEF Log!NoRow, NoRow
<1>2. ASSUME NEW q, NEW h PROVE Log!FoldFails(q, h) <=> FoldFails(q, h)
  BY DEF Log!FoldFails, FoldFails, Log!Found, Found, Log!TransformsFail, TransformsFail,
         Log!MergePatch, MergePatch
<1>3. ASSUME NEW q, NEW h PROVE Log!FoldHead(q, h) = FoldHead(q, h)
  BY DEF Log!FoldHead, FoldHead, Log!FoldReferences, FoldReferences, Log!Subtract, Subtract,
         Log!CompletenessFor, CompletenessFor, Log!FoldApply, FoldApply,
         Log!ApplyTransforms, ApplyTransforms, Log!MergePatch, MergePatch
<1> QED
  BY <1>1, <1>2, <1>3

(* The history of every record, as the log has it. *)
Histories == [r \in Refs |-> {<<v.seq, v.req>> : v \in RevisionsOf(r)}]

(* A commit maps to one append of the log, every other step to a stutter.  *)
LEMMA StepsOfLog ==
  ASSUME Cutoffs = {}, IInv, Unpruned, [Next]_vars \/ UNCHANGED store
  PROVE  [Log!LogNext]_<<Histories, heads>>
<1>1. CASE UNCHANGED store
  BY <1>1 DEF store, RevisionsOf, Histories
<1>2. ASSUME NEW w \in Writers, CommitAppend(w) PROVE Log!LogNext
  <2> DEFINE v == pending[w]
             ref == v.req.ref
  <2>1. /\ v \in Revision /\ ref \in Refs
        /\ v.seq = heads[ref].version + 1
        /\ revisions' = revisions \cup {v}
        /\ heads' = [heads EXCEPT ![ref] = FoldHead(v.req, heads[ref])]
        /\ ~FoldFails(v.req, heads[ref])
    BY <1>2, CommitFacts
  <2>2. Histories' = [Histories EXCEPT ![ref] = @ \cup {<<heads[ref].version + 1, v.req>>}]
    <3>1. ASSUME NEW r \in Refs
          PROVE  Histories'[r] = Histories[r] \cup (IF r = ref THEN {<<v.seq, v.req>>} ELSE {})
      BY <2>1 DEF RevisionsOf, Histories
    <3>2. Histories' = [r \in Refs |-> Histories'[r]] /\ Histories = [r \in Refs |-> Histories[r]]
      BY DEF Histories
    <3> HIDE DEF v, ref
    <3> QED
      BY <2>1, <3>1, <3>2
  <2>3. v.req \in Requests
    BY <1>2 DEF CommitAppend, IInv, SnapshotHolds, TxnSound
  <2> QED
    BY <2>1, <2>2, <2>3, LogFolds DEF Log!LogNext, Log!AppendToLog, Histories
<1> QED
  BY <1>1, <1>2 DEF Next, vars, store, BeginAppend, InsertRevision, AbortAppend, Restart

LEMMA InitOfLog == Init => Log!LogInit
BY LogFolds DEF Init, Log!LogInit, RevisionsOf

(* The store implements the abstract log, for every number of writers,     *)
(* records and revisions; to a reader of the log a rebuild is a stutter.   *)
THEOREM StoreImplementsLog == ASSUME Cutoffs = {} PROVE RebuildSpec => ImplementsLog
  <1>1. RInv /\ [RebuildNext]_vars => [Log!LogNext]_<<Histories, heads>>
    <2> SUFFICES ASSUME RInv, [RebuildNext]_vars PROVE [Log!LogNext]_<<Histories, heads>>
      OBVIOUS
    <2>1. [Next]_vars \/ UNCHANGED store
      BY RebuildReproducesTables DEF RebuildNext, RebuildAll, store
    <2> QED
      BY <2>1, StepsOfLog DEF RInv, SInv
  <1> QED
    BY InitOfLog, <1>1, RebuildInvariant, PTL
    DEF RebuildSpec, ImplementsLog, Log!LogSpec, Histories
=============================================================================

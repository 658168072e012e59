------------------------------ MODULE RecordLog ------------------------------
(***************************************************************************)
(* What the journal and its projections promise together, with retention   *)
(* off: every record is an append-only history of requests, and the view   *)
(* of it that queries read moves with it.  An append takes the next        *)
(* position of one history and folds that one request into its view, in    *)
(* one step; nothing is ever removed, reordered or folded twice.           *)
(***************************************************************************)
EXTENDS RecordFold

CONSTANT Requests

VARIABLES
  history,  \* per record, the pairs <<n, q>>: q is its n-th request
  view      \* per record, the head that queries read

LogInit ==
  /\ history = [r \in Refs |-> {}]
  /\ view = [r \in Refs |-> NoRow]

AppendToLog(q) ==
  /\ ~FoldFails(q, view[q.ref])
  /\ history' = [history EXCEPT ![q.ref] = @ \cup {<<view[q.ref].version + 1, q>>}]
  /\ view' = [view EXCEPT ![q.ref] = FoldHead(q, @)]

LogNext == \E q \in Requests : AppendToLog(q)

LogSpec == LogInit /\ [][LogNext]_<<history, view>>
=============================================================================

---------------------------- MODULE MCRecordStore ----------------------------
(* Small instances of the record store for TLC. *)
EXTENDS RecordRebuild, TLC

CONSTANTS r1, r2, t1, f1, f2, a, x1, k1

MCFields == {f1, f2}
MCTypes == {t1}

(* p1 sets f1; p2 removes f1 and sets f2: the two do not commute. *)
P1 == [f \in MCFields |-> IF f = f1 THEN a ELSE Keep]
P2 == [f \in MCFields |-> IF f = f1 THEN Absent ELSE a]
Blank == [f \in MCFields |-> Keep]

Req(r, op, typ, p, drop, edges, time) ==
  [ref |-> r, op |-> op, typ |-> typ, payload |-> p, drop |-> drop,
   edges |-> edges, time |-> time]

E1 == {<<x1, k1>>}
EAny == {<<x1, NoRel>>}

(* One record sees every kind of operation, a second one a plain capture:  *)
(* enough for two writers to meet on one record and to pass each other.    *)
MCRequests ==
  {Req(r1, "apply", NoType, P1, {}, KeepRefs, 0),
   Req(r1, "apply", t1, P2, {}, E1, 0),
   Req(r1, "apply", t1, Blank, {f2}, {}, 0),
   Req(r1, "delete", NoType, Blank, {}, KeepRefs, 0),
   Req(r1, "link", NoType, Blank, {}, E1, 0),
   Req(r1, "unlink", NoType, Blank, {}, EAny, 0),
   Req(r2, "apply", t1, P1, {}, KeepRefs, 0)}

(* The same record written with event times on both sides of a cutoff, in  *)
(* any order: sources supply the time, so it need not follow the sequence. *)
MCTimedRequests ==
  {Req(r1, "apply", t1, P1, {}, KeepRefs, t) : t \in 0..1} \cup
  {Req(r1, "apply", t1, P2, {}, KeepRefs, 1),
   Req(r1, "delete", NoType, Blank, {}, KeepRefs, 1),
   Req(r2, "apply", t1, P1, {}, KeepRefs, 0)}

Symmetry == Permutations(Ids) \cup Permutations(Writers)
=============================================================================

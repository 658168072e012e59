----------------------------- MODULE RecordFold -----------------------------
(***************************************************************************)
(* The fold of internal/records: how one journal revision changes the head *)
(* of its record (foldHead), with the parts it is made of: the JSON merge  *)
(* patch and the transforms (FoldApply), the reference edges               *)
(* (foldReferences), and the completeness.                                 *)
(*                                                                         *)
(* Data abstraction.  A JSON body is a function from a few fields to       *)
(* values, Absent standing for a key that is not there.  A payload gives,  *)
(* for each field, a value, Absent (JSON null: remove the key) or Keep     *)
(* (the key does not occur).  The transforms of a revision are JSON Patch  *)
(* `remove` operations, the kind that can fail.  A reference list is the   *)
(* set of its (ref, rel) edges.  content_ref is folded exactly as type is  *)
(* and source and updated_at are overwritten, so they are left out.        *)
(***************************************************************************)
EXTENDS Integers

CONSTANTS
  Refs,      \* record_ref values
  Ids,       \* revision ids (ULIDs)
  Types,     \* non-empty type URIs
  NoType,    \* the empty type of an unclassified capture
  Fields,    \* top-level keys of a body
  Values,    \* JSON values of a key
  Absent,    \* a key that is not in the body; null in a payload
  Keep,      \* a key that is not in the payload
  Targets,   \* what an edge points to
  Rels,      \* non-empty edge relations
  NoRel,     \* the empty relation
  KeepRefs   \* a revision whose "references" is NULL

ASSUME TypeNames  == NoType \notin Types
ASSUME FieldValues == Absent \notin Values /\ Keep \notin Values \cup {Absent}
ASSUME EdgeNames  == NoRel \notin Rels

Operations == {"apply", "delete", "link", "unlink"}
Completeness == {"complete", "incomplete", "deleted"}

Edge == Targets \X (Rels \cup {NoRel})
ASSUME KeepRefsIsNoSet == \A S \in SUBSET Edge : S # KeepRefs

Body    == [Fields -> Values \cup {Absent}]
Payload == [Fields -> Values \cup {Absent, Keep}]

HeadRow == [version: Nat, completeness: Completeness, typ: Types \cup {NoType},
         body: Body, edges: SUBSET Edge]

(* A request a module makes, before the journal assigns id and sequence. *)
Request == [ref: Refs, op: Operations, typ: Types \cup {NoType},
            payload: Payload, drop: SUBSET Fields,
            edges: {KeepRefs} \cup SUBSET Edge, time: Nat]

Revision == [id: Ids, seq: Nat, req: Request]

EmptyPayload == [f \in Fields |-> Keep]

(* No row in record_heads: the zero Head with the empty body `{}`. *)
NoRow == [version |-> 0, completeness |-> "incomplete", typ |-> NoType,
          body |-> [f \in Fields |-> Absent], edges |-> {}]

Found(head) == head.version > 0

-----------------------------------------------------------------------------
(* Mutant: the payload becomes the body. *)
MergePatchReplaces(body, payload) == payload

MergePatch(body, payload) ==
  [f \in Fields |-> IF payload[f] = Keep THEN body[f] ELSE payload[f]]

(* A JSON Patch `remove` of a key that is not there is an error. *)
TransformsFail(body, drop) == \E f \in drop : body[f] = Absent

ApplyTransforms(body, drop) ==
  [f \in Fields |-> IF f \in drop THEN Absent ELSE body[f]]

FoldApply(body, q) == ApplyTransforms(MergePatch(body, q.payload), q.drop)

(* A removal without a relation removes every edge to its target. *)
Subtract(base, remove) ==
  {e \in base : e \notin remove /\ <<e[1], NoRel>> \notin remove}

FoldReferences(q, prev) ==
  CASE q.op = "link"   -> prev \cup q.edges
    [] q.op = "unlink" -> Subtract(prev, q.edges)
    [] q.op = "delete" -> prev
    [] OTHER           -> IF q.edges = KeepRefs THEN prev ELSE q.edges

CompletenessFor(typ) == IF typ = NoType THEN "incomplete" ELSE "complete"

(* The errors of foldHead: the record must exist for delete, link and      *)
(* unlink, a link or unlink must name an edge, and transforms must apply.  *)
FoldFails(q, prev) ==
  \/ q.op # "apply" /\ ~Found(prev)
  \/ q.op \in {"link", "unlink"} /\ q.edges = {}
  \/ q.op = "apply" /\ TransformsFail(MergePatch(prev.body, q.payload), q.drop)

FoldHead(q, prev) ==
  LET refs == FoldReferences(q, prev.edges)
      typ  == IF q.typ = NoType THEN prev.typ ELSE q.typ
  IN  CASE q.op = "delete" ->
             [prev EXCEPT !.version = @ + 1, !.completeness = "deleted", !.edges = refs]
        [] q.op \in {"link", "unlink"} ->
             [prev EXCEPT !.version = @ + 1, !.edges = refs]
        [] OTHER ->
             [version |-> prev.version + 1, completeness |-> CompletenessFor(typ),
              typ |-> typ, body |-> FoldApply(prev.body, q), edges |-> refs]
=============================================================================

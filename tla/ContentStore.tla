---------------------------- MODULE ContentStore ----------------------------
(* What the blob store promises (internal/blob/store.go): a reference is   *)
(* the hash of a content; it resolves to nothing or to that whole content, *)
(* and what is stored stays.                                               *)
CONSTANT Contents
VARIABLE store  \* per content, what its reference resolves to

Init == store \in [Contents -> {"none", "whole"}]
Put(c) == store[c] = "none" /\ store' = [store EXCEPT ![c] = "whole"]
Spec == Init /\ [][\E c \in Contents : Put(c)]_store
=============================================================================

--------------------------- MODULE MCTelegramBot ---------------------------
(* A small chat for TLC. *)
EXTENDS TelegramBot, TLC

CONSTANTS note, bookmark, h1, h2, r1, r2

(* A note asks for nothing; a bookmark asks for its text, which may be     *)
(* skipped or come with the message, and then for a required link.         *)
MCFieldsOf ==
  note :> <<>> @@
  bookmark :> <<[name |-> "text", required |-> FALSE], [name |-> "url", required |-> TRUE]>>

Symmetry == Permutations(Handlers) \cup Permutations(Refs)
=============================================================================

------------------------------ MODULE Hosting ------------------------------
(***************************************************************************)
(* What the module host promises about its event registry, as the router   *)
(* relies on it: a module is bound once, its process may die under its     *)
(* binding, a dead binding of a watched module goes away before the module *)
(* is bound again, and no other binding goes while the daemon is up.       *)
(***************************************************************************)
CONSTANTS
  Modules,  \* names of event-routing modules
  Watched   \* those whose process the supervisor sees end

VARIABLES
  up,          \* the daemon runs
  registered,  \* modules in the RevisionRegistry
  broken       \* those whose process is dead

vars == <<up, registered, broken>>

Init == ~up /\ registered = {} /\ broken = {}

(* The process may have died since it was started. *)
Register(m) ==
  /\ up /\ m \notin registered
  /\ registered' = registered \cup {m}
  /\ broken' \in {broken, broken \cup {m}}
  /\ UNCHANGED up

ModuleDies(m) ==
  /\ m \in registered \ broken
  /\ broken' = broken \cup {m}
  /\ UNCHANGED <<up, registered>>

Unregister(m) ==
  /\ m \in broken \cap Watched
  /\ registered' = registered \ {m}
  /\ broken' = broken \ {m}
  /\ UNCHANGED up

Start == ~up /\ up' /\ UNCHANGED <<registered, broken>>

(* The daemon stops or dies. *)
Stop == ~up' /\ registered' = {} /\ broken' = {}

Next ==
  \/ \E m \in Modules : Register(m) \/ ModuleDies(m) \/ Unregister(m)
  \/ Start
  \/ Stop

Spec == Init /\ [][Next]_vars
=============================================================================

------------------------------- MODULE Router -------------------------------
(***************************************************************************)
(* The revision router (internal/modules/router.go): one loop that takes   *)
(* the journal's next revision after a watermark, hands it to the          *)
(* registered processors and sinks that consume its type, appends what     *)
(* processors derive, and moves the watermark.  Around it: modules of the  *)
(* host appending on their own, modules starting and dying, errors, and    *)
(* the daemon dying and starting again.                                    *)
(*                                                                         *)
(* A revision id is a ULID: the millisecond it was generated in, then      *)
(* randomness.  Here an id is a number, PerTick of them to a millisecond,  *)
(* in the order of `id > ?` and ORDER BY id.  An id is generated before    *)
(* the transaction that commits its revision.  DispatchContext.RootID goes *)
(* wherever Seen goes and nothing in the host reads it: only Seen is kept. *)
(* The claims map is left out: one goroutine delivers, so no claim is ever *)
(* found.  Patterns are left out: Consumes says which types a module gets. *)
(***************************************************************************)
EXTENDS Integers

CONSTANTS
  Processors, Sinks,  \* names of the event-routing modules
  Watched,            \* those the supervisor sees exit (HTTP routes, CLI, ...)
  Types, NoType,      \* type URIs; the type of an id without a revision
  Consumes,           \* per module, the types its patterns match
  Emits,              \* per processor, the types its policy lets it derive
  PerTick, MaxTick,   \* bounds: ids per millisecond, milliseconds
  MaxDerived,         \* bound on the revisions derived by one call
  Faults, MaxFaults,  \* the kinds of fault that may happen, and how many
  NoContext           \* no entry in pending or revision_dispatch

Modules == Processors \cup Sinks
Ids == 1..(PerTick * (MaxTick + 1))

ASSUME BoundsAssumption ==
  PerTick \in Nat \ {0} /\ MaxTick \in Nat /\ MaxDerived \in Nat /\ MaxFaults \in Nat
ASSUME ModulesAssumption ==
  /\ Processors \cap Sinks = {}
  /\ Consumes \in [Modules -> SUBSET Types]
  /\ Emits \in [Processors -> SUBSET Types]
ASSUME SentinelAssumption ==
  NoContext \notin Processors /\ \A S \in SUBSET Processors : NoContext # S

VARIABLES
  clock,       \* the current millisecond
  writing,     \* ids of appends in progress by the host's other modules
  written,     \* ids of the revisions in the journal
  typ,         \* per id, the type of its revision
  rows,        \* revision_dispatch: per id, the persisted Seen
  saved,       \* the watermark in router_state; 0 when unset
  pending,     \* Router.pending: Seen by id, in memory
  mark,        \* the watermark of the running loop
  stage,       \* where the loop is; "off" when the daemon is down
  cur,         \* the revision being delivered; 0 when none
  seen,        \* its DispatchContext.Seen
  persisted,   \* persistedDispatch: the context came from pending or rows
  todo,        \* bindings of the snapshot that have not been called yet
  lost,        \* those of them whose process is dead
  child,       \* the processor whose derived revisions are appended, and the last
  registered,  \* modules in the RevisionRegistry
  broken,      \* registered modules whose process is dead
  faults,      \* faults so far
  chain,       \* history: the processors a revision was derived through
  handled,     \* history: the pairs <<module, id>> that returned without error
  absent,      \* history: matching pairs passed over because not registered
  late,        \* history: ids committed when the loop was already past them
  exposed,     \* history: ids whose row was deleted and the watermark not saved,
               \* and what was derived from them when they were delivered again
  reused       \* history: ids a processor named although their revision existed,
               \* and what was derived from them

journal == <<clock, writing, written, typ, chain, late>>
context == <<rows, pending>>
delivery == <<cur, seen, persisted, todo, lost, child>>
loop == <<mark, stage, cur, seen, persisted, todo, lost, child>>
hosting == <<registered, broken>>
history == <<handled, absent, exposed, reused>>
vars == <<clock, writing, written, typ, rows, saved, pending, mark, stage, cur, seen,
          persisted, todo, lost, child, registered, broken, faults,
          chain, handled, absent, late, exposed, reused>>

Context == {NoContext} \cup SUBSET Processors
Child == [proc: {NoContext} \cup Processors, id: {0} \cup Ids,
          typ: {NoType} \cup Types, count: 0..MaxDerived]
NoChild == [proc |-> NoContext, id |-> 0, typ |-> NoType, count |-> 0]
Stages == {"off", "idle", "procs", "append", "sinks", "dispatched", "dead"}

TypeOK ==
  /\ clock \in 0..MaxTick
  /\ writing \subseteq Ids /\ written \subseteq Ids /\ late \subseteq Ids
  /\ exposed \subseteq Ids /\ reused \subseteq Ids
  /\ typ \in [Ids -> {NoType} \cup Types]
  /\ rows \in [Ids -> Context] /\ pending \in [Ids -> Context]
  /\ saved \in {0} \cup Ids /\ mark \in {0} \cup Ids /\ cur \in {0} \cup Ids
  /\ stage \in Stages
  /\ seen \subseteq Processors /\ persisted \in BOOLEAN
  /\ todo \subseteq Modules /\ lost \subseteq Modules
  /\ child \in Child
  /\ registered \subseteq Modules /\ broken \subseteq Modules
  /\ faults \in 0..MaxFaults
  /\ chain \in [Ids -> SUBSET Processors]
  /\ handled \subseteq Modules \X Ids /\ absent \subseteq Modules \X Ids

Init ==
  /\ clock = 0 /\ writing = {} /\ written = {}
  /\ typ = [i \in Ids |-> NoType]
  /\ rows = [i \in Ids |-> NoContext] /\ pending = [i \in Ids |-> NoContext]
  /\ saved = 0 /\ mark = 0 /\ stage = "off"
  /\ cur = 0 /\ seen = {} /\ persisted = FALSE /\ todo = {} /\ lost = {} /\ child = NoChild
  /\ registered = {} /\ broken = {} /\ faults = 0
  /\ chain = [i \in Ids |-> {}]
  /\ handled = {} /\ absent = {} /\ late = {} /\ exposed = {} /\ reused = {}

-----------------------------------------------------------------------------
Up == stage # "off"

Fault(kind) == kind \in Faults /\ faults < MaxFaults /\ faults' = faults + 1

(* A ULID generated now: of this millisecond, and no other revision's.     *)
Fresh(id) ==
  /\ id \in (clock * PerTick + 1)..((clock + 1) * PerTick)
  /\ id \notin written \cup writing \cup {child.id}
  /\ rows[id] = NoContext

Matches(m, t) == t \in Consumes[m]

(* The loop will never fetch this id, unless the delivery of cur fails.    *)
Behind(id) == id <= mark \/ id < cur

(* Time passes. *)
Tick ==
  /\ clock < MaxTick
  /\ clock' = clock + 1
  /\ UNCHANGED <<writing, written, typ, chain, late, context, saved, loop, hosting, faults, history>>

-----------------------------------------------------------------------------
(* Appends of the host's other modules: the id, then the commit.           *)
BeginAppend(id) ==
  /\ Up /\ Fresh(id)
  /\ writing' = writing \cup {id}
  /\ UNCHANGED <<clock, written, typ, chain, late, context, saved, loop, hosting, faults, history>>

CommitAppend(id, t) ==
  /\ id \in writing
  /\ writing' = writing \ {id}
  /\ written' = written \cup {id}
  /\ typ' = [typ EXCEPT ![id] = t]
  /\ late' = late \cup {i \in {id} : Behind(i)}
  /\ UNCHANGED <<clock, chain, context, saved, loop, hosting, faults, history>>

AbortAppend(id) ==
  /\ id \in writing
  /\ writing' = writing \ {id}
  /\ UNCHANGED <<clock, written, typ, chain, late, context, saved, loop, hosting, faults, history>>

-----------------------------------------------------------------------------
(* StartSource registers a module once its process answers. *)
Register(m) ==
  /\ Up /\ m \notin registered
  /\ registered' = registered \cup {m}
  /\ UNCHANGED <<journal, context, saved, loop, broken, faults, history>>

(* A module's process dies.  A dispatch that holds its binding is stuck    *)
(* with a client that only returns errors.                                 *)
ModuleDies(m) ==
  /\ m \in registered \ broken
  /\ Fault("death")
  /\ broken' = broken \cup {m}
  /\ lost' = lost \cup (todo \cap {m})
  /\ UNCHANGED <<journal, context, saved, mark, stage, cur, seen, persisted, todo, child,
                 registered, history>>

(* moduleClient.Run of a module that serves HTTP, MCP or CLI is a call to  *)
(* the process and returns when it dies: the module is unregistered, then  *)
(* restarted.  Run of any other event-routing module only waits for ctx.   *)
Unregister(m) ==
  /\ m \in broken \cap Watched
  /\ registered' = registered \ {m}
  /\ broken' = broken \ {m}
  /\ UNCHANGED <<journal, context, saved, loop, faults, history>>

-----------------------------------------------------------------------------
(* Mutant: ORDER BY id is missing. *)
AnyRevision(id) == id \in written /\ id > mark

(* QueryAfter(watermark, 1). *)
NextRevision(id) ==
  /\ id \in written /\ id > mark
  /\ \A i \in written : i > mark => id <= i

(* deliver: the context in memory, else the persisted one, else empty.     *)
SeenOf(id) ==
  CASE pending[id] # NoContext -> pending[id]
    [] pending[id] = NoContext /\ rows[id] # NoContext -> rows[id]
    [] OTHER -> {}

HasContext(id) == pending[id] # NoContext \/ rows[id] # NoContext

(* The bindings of a snapshot that a dispatch is going to call. *)
Bindings(S, id, s) == {m \in S \cap registered : Matches(m, typ[id]) /\ m \notin s}
Missing(S, id, s) == {m \in S \ registered : Matches(m, typ[id]) /\ m \notin s} \X {id}

(* Mutant: the row is consumed when it is loaded. *)
FetchConsumes(id) ==
  /\ stage = "idle" /\ NextRevision(id)
  /\ cur' = id
  /\ seen' = SeenOf(id) /\ persisted' = HasContext(id)
  /\ pending' = [pending EXCEPT ![id] = NoContext]
  /\ rows' = [rows EXCEPT ![id] = NoContext]
  /\ todo' = Bindings(Processors, id, SeenOf(id))
  /\ lost' = todo' \cap broken
  /\ absent' = absent \cup Missing(Processors, id, SeenOf(id))
  /\ stage' = "procs"
  /\ UNCHANGED <<journal, saved, mark, child, hosting, faults, handled, exposed, reused>>

(* Query, load the context (LoadAndDelete), snapshot the processors. *)
Fetch(id) ==
  /\ stage = "idle" /\ NextRevision(id)
  /\ cur' = id
  /\ seen' = SeenOf(id) /\ persisted' = HasContext(id)
  /\ pending' = [pending EXCEPT ![id] = NoContext]
  /\ todo' = Bindings(Processors, id, SeenOf(id))
  /\ lost' = todo' \cap broken
  /\ absent' = absent \cup Missing(Processors, id, SeenOf(id))
  /\ stage' = "procs"
  /\ UNCHANGED <<journal, rows, saved, mark, child, hosting, faults, handled, exposed, reused>>

(* Nothing is being delivered any more. *)
NoDelivery ==
  /\ cur' = 0 /\ seen' = {} /\ persisted' = FALSE /\ todo' = {} /\ lost' = {} /\ child' = NoChild

(* Mutant: an error of a delivery ends Run. *)
RetryEnds == stage' = "dead" /\ NoDelivery /\ UNCHANGED mark

(* An error of deliver: the loop waits and queries with the same mark.     *)
Retry == stage' = "idle" /\ NoDelivery /\ UNCHANGED mark

(* The processor being called, or whose derived revisions are appended.    *)
Calling(p) == stage = "procs" /\ p \in todo \cap Processors /\ child.proc \in {NoContext, p}
Answered(p) == child.proc = p \/ p \notin lost

(* Mutant: Seen gets the id of the revision instead of the processor.      *)
WithSeenId(p) == seen \cup {cur}

(* Mutant: the context of a derived revision names its processor only.     *)
WithSeenOnly(p) == {p}
WithSeen(p) == seen \cup {p}

(* Process has answered with one more revision of type t: its context goes *)
(* to pending and to its row before the revision is appended.  The id is   *)
(* generated, or the one the processor put into the revision: should that  *)
(* be the id of an earlier revision, the append is going to fail.          *)
Derive(p, id, t) ==
  /\ Calling(p) /\ Answered(p)
  /\ child.count < MaxDerived
  /\ t \in Emits[p]
  /\ \/ Fresh(id) /\ UNCHANGED faults
     \/ id \in written /\ Fault("reuse")
  /\ pending' = [pending EXCEPT ![id] = WithSeen(p)]
  /\ rows' = [rows EXCEPT ![id] = WithSeen(p)]
  /\ child' = [proc |-> p, id |-> id, typ |-> t, count |-> child.count + 1]
  /\ reused' = reused \cup ({id} \cap written)
  /\ stage' = "append"
  /\ UNCHANGED <<journal, saved, mark, cur, seen, persisted, todo, lost, hosting,
                 handled, absent, exposed>>

(* The row cannot be saved: the entry in memory goes again, and with it    *)
(* the one that an earlier revision of that id may have had.               *)
SaveContextFails(p, id) ==
  /\ Calling(p) /\ Answered(p)
  /\ child.count < MaxDerived /\ Emits[p] # {}
  /\ Fresh(id) \/ (id \in written /\ "reuse" \in Faults)
  /\ Fault("store")
  /\ pending' = [pending EXCEPT ![id] = NoContext]
  /\ Retry
  /\ UNCHANGED <<journal, rows, saved, hosting, history>>

(* WriteService.Write of the derived revision commits. *)
WriteDerived ==
  /\ stage = "append" /\ child.id \notin written
  /\ written' = written \cup {child.id}
  /\ typ' = [typ EXCEPT ![child.id] = child.typ]
  /\ chain' = [chain EXCEPT ![child.id] = chain[cur] \cup {child.proc}]
  /\ late' = late \cup {i \in {child.id} : Behind(i)}
  /\ exposed' = exposed \cup {i \in {child.id} : cur \in exposed}
  /\ reused' = reused \cup {i \in {child.id} : cur \in reused}
  /\ child' = [child EXCEPT !.id = 0, !.typ = NoType]
  /\ stage' = "procs"
  /\ UNCHANGED <<clock, writing, context, saved, mark, cur, seen, persisted, todo, lost, hosting,
                 faults, handled, absent>>

(* It fails, as it must for an id that exists: the context is dropped (an  *)
(* error of that is ignored) and the delivery fails.                       *)
FailDerived ==
  /\ stage = "append"
  /\ \/ child.id \in written /\ UNCHANGED faults
     \/ Fault("store")
  /\ pending' = [pending EXCEPT ![child.id] = NoContext]
  /\ rows' = [rows EXCEPT ![child.id] = NoContext] \/ UNCHANGED rows
  /\ Retry
  /\ UNCHANGED <<journal, saved, hosting, history>>

(* Everything p derived is appended. *)
Processed(p) ==
  /\ Calling(p) /\ Answered(p)
  /\ todo' = todo \ {p}
  /\ child' = NoChild
  /\ handled' = handled \cup {<<p, cur>>}
  /\ UNCHANGED <<journal, context, saved, mark, stage, cur, seen, persisted, lost, hosting, faults,
                 absent, exposed, reused>>

(* Process or Handle fails, or the policy rejects what was derived.        *)
CallFails(m) ==
  /\ Calling(m) \/ (stage = "sinks" /\ m \in todo)
  /\ \/ m \in lost /\ child.proc # m /\ UNCHANGED faults
     \/ Fault("module")
  /\ Retry
  /\ UNCHANGED <<journal, context, saved, hosting, history>>

ToSinks ==
  /\ stage = "procs" /\ todo = {}
  /\ stage' = "sinks"
  /\ todo' = Bindings(Sinks, cur, seen)
  /\ lost' = todo' \cap broken
  /\ absent' = absent \cup Missing(Sinks, cur, seen)
  /\ UNCHANGED <<journal, context, saved, mark, cur, seen, persisted, child, hosting, faults,
                 handled, exposed, reused>>

Handle(m) ==
  /\ stage = "sinks" /\ m \in todo \ lost
  /\ todo' = todo \ {m}
  /\ handled' = handled \cup {<<m, cur>>}
  /\ UNCHANGED <<journal, context, saved, mark, stage, cur, seen, persisted, lost, child, hosting,
                 faults, absent, exposed, reused>>

(* dispatch returns; a context that was persisted is deleted. *)
Finish ==
  /\ stage = "sinks" /\ todo = {}
  /\ stage' = "dispatched"
  /\ rows' = IF persisted THEN [rows EXCEPT ![cur] = NoContext] ELSE rows
  /\ exposed' = IF persisted THEN exposed \cup {cur} ELSE exposed
  /\ UNCHANGED <<journal, pending, saved, mark, delivery, hosting, faults, handled, absent, reused>>

FinishFails ==
  /\ stage = "sinks" /\ todo = {} /\ persisted
  /\ Fault("store")
  /\ Retry
  /\ UNCHANGED <<journal, context, saved, hosting, history>>

SaveMark ==
  /\ stage = "dispatched"
  /\ mark' = cur /\ saved' = cur
  /\ exposed' = exposed \ {cur}
  /\ stage' = "idle"
  /\ NoDelivery
  /\ UNCHANGED <<journal, context, hosting, faults, handled, absent, reused>>

(* The watermark cannot be saved, or the query fails: Run returns, and the *)
(* daemon goes on without a router.                                        *)
RunEnds ==
  /\ stage \in {"idle", "dispatched"}
  /\ Fault("store")
  /\ stage' = "dead"
  /\ NoDelivery
  /\ mark' = IF stage = "dispatched" THEN cur ELSE mark
  /\ UNCHANGED <<journal, context, saved, hosting, history>>

-----------------------------------------------------------------------------
(* The daemon stops or dies: memory goes, the tables stay. *)
Crash ==
  /\ Up /\ Fault("crash")
  /\ stage' = "off" /\ mark' = 0
  /\ NoDelivery
  /\ writing' = {}
  /\ pending' = [i \in Ids |-> NoContext]
  /\ registered' = {} /\ broken' = {}
  /\ UNCHANGED <<clock, written, typ, chain, late, rows, saved, history>>

(* runDaemon starts the router, and only then the modules. *)
Start ==
  /\ stage = "off"
  /\ stage' = "idle" /\ mark' = saved
  /\ UNCHANGED <<journal, context, saved, delivery, hosting, faults, history>>

Step ==
  \/ \E id \in Ids : Fetch(id)
  \/ \E p \in Processors, id \in Ids, t \in Types : Derive(p, id, t)
  \/ \E p \in Processors, id \in Ids : SaveContextFails(p, id)
  \/ WriteDerived
  \/ FailDerived
  \/ \E p \in Processors : Processed(p)
  \/ \E m \in Modules : CallFails(m)
  \/ ToSinks
  \/ \E m \in Sinks : Handle(m)
  \/ Finish
  \/ FinishFails
  \/ SaveMark
  \/ RunEnds

Next ==
  \/ Step
  \/ Tick
  \/ \E id \in Ids : BeginAppend(id)
  \/ \E id \in Ids, t \in Types : CommitAppend(id, t)
  \/ \E id \in Ids : AbortAppend(id)
  \/ \E m \in Modules : Register(m)
  \/ \E m \in Modules : ModuleDies(m)
  \/ \E m \in Modules : Unregister(m)
  \/ Crash
  \/ Start

Spec == Init /\ [][Next]_vars

(* The loop runs as long as the daemon does (a call to a module returns,   *)
(* with an answer or an error), whoever runs the daemon starts it again,   *)
(* and the supervisor notices that a watched process has died.             *)
FairSpec ==
  /\ Spec
  /\ WF_vars(Step) /\ WF_vars(Start)
  /\ \A m \in Modules : WF_vars(Unregister(m))

-----------------------------------------------------------------------------
(* The routing context of a derived revision is in revision_dispatch from  *)
(* before its commit until its dispatch completes, whatever fails, is      *)
(* retried or crashes in between (appendDerived, deliver).  The exceptions *)
(* are a crash between the deletion of the row and the save of the         *)
(* watermark, and a processor that names the id of a revision that exists, *)
(* whose row is then overwritten and deleted.                              *)
ContextSurvives ==
  \A id \in written \ (exposed \cup reused) :
    (id > saved /\ chain[id] # {}) => rows[id] = chain[id]

(* No revision is processed by a processor it was derived through, at any  *)
(* depth of the chain and across retries and restarts, with the same       *)
(* exceptions.                                                             *)
NoLoop ==
  (stage \in {"procs", "append"} /\ cur \notin exposed \cup reused) => todo \cap chain[cur] = {}

(* The watermark passes a revision only when every module that consumes    *)
(* its type has returned without error, was not registered, or is in its   *)
(* chain: errors, retries and restarts skip nothing.  The exceptions are   *)
(* revisions committed behind the loop's back, and those whose id a        *)
(* processor has named again, which may be left with the wrong context.    *)
PassedIsHandled ==
  \A id \in written \ (late \cup reused) : id <= mark =>
    \A m \in Modules : Matches(m, typ[id]) =>
      m \in chain[id] \/ <<m, id>> \in handled \cup absent

(* Every revision is passed in the end, through errors, deaths of modules  *)
(* that are watched, and restarts (Run retries until dispatch succeeds).   *)
EventuallyPassed ==
  \A id \in Ids : (id \in written \ late) ~> (id <= saved)

(* planning/processors-sinks.md: the context is persisted "until dispatch  *)
(* completes so restart catch-up preserves loop prevention".               *)
LoopPrevented ==
  stage \in {"procs", "append"} => todo \cap chain[cur] = {}

(* planning/processors-sinks.md: "Every persisted event is dispatched to   *)
(* matching processors and sinks".                                         *)
EveryRevisionDispatched ==
  \A id \in written : id <= saved =>
    \A m \in Modules : Matches(m, typ[id]) => m \in chain[id] \/ <<m, id>> \in handled

(* planning/processors-sinks.md: "Processor crash isolated like sources":  *)
(* a sink that runs still gets every revision it consumes when some        *)
(* processor has died.                                                     *)
CrashIsolated ==
  \A p \in Processors, s \in Sinks, id \in Ids :
    (id \in written \ late /\ Matches(s, typ[id]) /\ s \in registered \ broken /\ p \in broken)
      ~> (<<s, id>> \in handled \/ s \notin registered \ broken)
=============================================================================

---------------------------- MODULE RouterProofs ----------------------------
(***************************************************************************)
(* What the router keeps, for every set of modules, every subscription and *)
(* every number of faults: the inductive invariant IInv, and the safety    *)
(* properties of Router that follow from it.                               *)
(***************************************************************************)
EXTENDS Router, TLAPS

Delivering == stage \in {"procs", "append", "sinks", "dispatched"}

(* The loop's variables belong together. *)
LoopShape ==
  /\ Up => saved <= mark
  /\ ~Up => writing = {}
  /\ Delivering => cur \in written /\ cur > mark
  /\ stage \in {"off", "idle", "procs"} => child.id = 0
  /\ stage \in {"off", "idle"} => child.proc = NoContext
  /\ stage = "append" => child.id \in Ids /\ child.proc \in Processors /\ child.typ \in Types
  /\ stage \in {"procs", "append"} => todo \subseteq Processors
  /\ stage = "sinks" => todo \subseteq Sinks

(* An id belongs to one append, and has no past before its commit. *)
IdsShape ==
  /\ writing \cap written = {}
  /\ stage = "append" => child.id \notin writing
  /\ stage = "append" /\ child.id \in written => child.id \in reused
  /\ \A id \in Ids \ written : chain[id] = {}
  /\ \A id \in writing : rows[id] = NoContext /\ pending[id] = NoContext

(* Whoever has a context has the right one, or one that is too small. *)
ContextsAgree ==
  /\ \A id \in Ids : pending[id] # NoContext => pending[id] = rows[id]
  /\ \A id \in written \ reused : rows[id] # NoContext => rows[id] \subseteq chain[id]
  /\ ContextSurvives
  /\ Delivering /\ stage # "append" => pending[cur] = NoContext
  /\ stage = "append" /\ child.id # cur => pending[cur] = NoContext
  /\ stage = "append" => rows[child.id] = seen \cup {child.proc}
  /\ Delivering /\ cur \notin reused => seen \subseteq chain[cur]
  /\ stage \in {"procs", "append", "sinks"} /\ cur \notin exposed \cup reused => seen = chain[cur]
  /\ stage \in {"procs", "append"} => todo \cap seen = {}

Done(m, id) == Matches(m, typ[id]) => m \in chain[id] \/ <<m, id>> \in handled \cup absent

(* What the loop has passed, or is about to pass, is handled. *)
Progress ==
  /\ \A id \in written \ (late \cup reused) : id <= mark \/ id <= saved =>
       \A m \in Modules : Done(m, id)
  /\ Delivering => \A id \in written \ late : id > mark => cur <= id
  /\ stage \in {"procs", "append"} /\ cur \notin reused =>
       \A p \in Processors \ todo : Done(p, cur)
  /\ stage = "sinks" /\ cur \notin reused => \A m \in Modules \ todo : Done(m, cur)
  /\ stage = "dispatched" /\ cur \notin reused => \A m \in Modules : Done(m, cur)

IInv == TypeOK /\ LoopShape /\ IdsShape /\ ContextsAgree /\ Progress

-----------------------------------------------------------------------------
(* Ids are positive, so that no revision is below an unset watermark. *)
LEMMA IdsAreNumbers == Ids \subseteq Nat \ {0}
  BY BoundsAssumption DEF Ids

(* The record of no derived revision is one of its type. *)
LEMMA NoChildIsChild == NoChild \in Child
  BY BoundsAssumption DEF NoChild, Child

USE DEF Up, Delivering

(* What NoDelivery leaves in the loop's variables. *)
LEMMA NoDeliveryTypes ==
  ASSUME NoDelivery
  PROVE  /\ cur' = 0 /\ seen' = {} /\ persisted' \in BOOLEAN /\ todo' = {} /\ lost' = {}
         /\ child' \in Child
  BY NoChildIsChild DEF NoDelivery

(* The initial state satisfies the invariant. *)
LEMMA InitIInv == Init => IInv
  <1> SUFFICES ASSUME Init PROVE IInv
    OBVIOUS
  <1>1. TypeOK
    <2>1. persisted \in BOOLEAN
      BY DEF Init
    <2>2. /\ clock = 0 /\ faults = 0 /\ saved = 0 /\ mark = 0 /\ cur = 0 /\ stage = "off"
          /\ child = NoChild
      BY DEF Init
    <2>3. /\ writing = {} /\ written = {} /\ late = {} /\ exposed = {} /\ reused = {} /\ seen = {}
          /\ todo = {} /\ lost = {} /\ registered = {} /\ broken = {} /\ handled = {} /\ absent = {}
      BY DEF Init
    <2>4. /\ typ \in [Ids -> {NoType} \cup Types]
          /\ rows \in [Ids -> Context] /\ pending \in [Ids -> Context]
          /\ chain \in [Ids -> SUBSET Processors]
      BY DEF Init, Context
    <2> QED
      BY <2>1, <2>2, <2>3, <2>4, NoChildIsChild, BoundsAssumption DEF TypeOK, Stages
  <1>2. LoopShape /\ IdsShape
    BY DEF Init, LoopShape, IdsShape, NoChild
  <1>3. ContextsAgree
    BY DEF Init, ContextsAgree, ContextSurvives
  <1>4. Progress
    BY IdsAreNumbers DEF Init, Progress
  <1> QED
    BY <1>1, <1>2, <1>3, <1>4 DEF IInv

(* Tick preserves the invariant: nothing in it reads the clock. *)
LEMMA TickIInv == ASSUME IInv, Tick PROVE IInv'
  <1> USE DEF IInv, Tick, context, loop, hosting, history
  <1>1. TypeOK'
    BY BoundsAssumption DEF TypeOK
  <1>2. LoopShape'
    BY DEF LoopShape
  <1>3. IdsShape'
    BY DEF IdsShape
  <1>4. ContextsAgree'
    BY DEF ContextsAgree, ContextSurvives
  <1>5. Progress'
    BY DEF Progress, Done
  <1> QED
    BY <1>1, <1>2, <1>3, <1>4, <1>5

(* BeginAppend preserves the invariant: a fresh id has no context. *)
LEMMA BeginAppendIInv == ASSUME IInv, NEW id \in Ids, BeginAppend(id) PROVE IInv'
  <1> USE DEF IInv, BeginAppend, context, loop, hosting, history
  <1>1. TypeOK'
    BY DEF TypeOK
  <1>2. LoopShape'
    BY DEF LoopShape
  <1>3. IdsShape'
    BY DEF IdsShape, Fresh, ContextsAgree
  <1>4. ContextsAgree'
    BY DEF ContextsAgree, ContextSurvives
  <1>5. Progress'
    BY DEF Progress, Done
  <1> QED
    BY <1>1, <1>2, <1>3, <1>4, <1>5

(* CommitAppend preserves the invariant: a revision the loop is past is late. *)
LEMMA CommitAppendIInv ==
  ASSUME IInv, NEW id \in Ids, NEW t \in Types, CommitAppend(id, t)
  PROVE  IInv'
  <1> USE DEF IInv, CommitAppend, context, loop, hosting, history
  <1>1. TypeOK'
    BY DEF TypeOK
  <1>2. LoopShape'
    BY DEF LoopShape
  <1>3. IdsShape'
    BY DEF IdsShape
  <1>4. ContextsAgree'
    BY DEF ContextsAgree, ContextSurvives, IdsShape
  <1>5. Progress'
    BY IdsAreNumbers DEF Progress, Done, TypeOK, LoopShape, IdsShape, Behind
  <1> QED
    BY <1>1, <1>2, <1>3, <1>4, <1>5

(* AbortAppend preserves the invariant: an id is given up. *)
LEMMA AbortAppendIInv == ASSUME IInv, NEW id \in Ids, AbortAppend(id) PROVE IInv'
  <1> USE DEF IInv, AbortAppend, context, loop, hosting, history
  <1>1. TypeOK'
    BY DEF TypeOK
  <1>2. LoopShape'
    BY DEF LoopShape
  <1>3. IdsShape'
    BY DEF IdsShape
  <1>4. ContextsAgree'
    BY DEF ContextsAgree, ContextSurvives
  <1>5. Progress'
    BY DEF Progress, Done
  <1> QED
    BY <1>1, <1>2, <1>3, <1>4, <1>5

(* Register preserves the invariant. *)
LEMMA RegisterIInv == ASSUME IInv, NEW m \in Modules, Register(m) PROVE IInv'
  <1> USE DEF IInv, Register, journal, context, loop, history
  <1>1. TypeOK'
    BY DEF TypeOK
  <1>2. LoopShape'
    BY DEF LoopShape
  <1>3. IdsShape'
    BY DEF IdsShape
  <1>4. ContextsAgree'
    BY DEF ContextsAgree, ContextSurvives
  <1>5. Progress'
    BY DEF Progress, Done
  <1> QED
    BY <1>1, <1>2, <1>3, <1>4, <1>5

(* ModuleDies preserves the invariant. *)
LEMMA ModuleDiesIInv == ASSUME IInv, NEW m \in Modules, ModuleDies(m) PROVE IInv'
  <1> USE DEF IInv, ModuleDies, journal, context, history
  <1>1. TypeOK'
    BY BoundsAssumption DEF TypeOK, Fault
  <1>2. LoopShape'
    BY DEF LoopShape
  <1>3. IdsShape'
    BY DEF IdsShape
  <1>4. ContextsAgree'
    BY DEF ContextsAgree, ContextSurvives
  <1>5. Progress'
    BY DEF Progress, Done
  <1> QED
    BY <1>1, <1>2, <1>3, <1>4, <1>5

(* Unregister preserves the invariant: no snapshot is touched. *)
LEMMA UnregisterIInv == ASSUME IInv, NEW m \in Modules, Unregister(m) PROVE IInv'
  <1> USE DEF IInv, Unregister, journal, context, loop, history
  <1>1. TypeOK'
    BY DEF TypeOK
  <1>2. LoopShape'
    BY DEF LoopShape
  <1>3. IdsShape'
    BY DEF IdsShape
  <1>4. ContextsAgree'
    BY DEF ContextsAgree, ContextSurvives
  <1>5. Progress'
    BY DEF Progress, Done
  <1> QED
    BY <1>1, <1>2, <1>3, <1>4, <1>5

(* Fetch preserves the invariant: the context it finds is the whole chain. *)
LEMMA FetchIInv == ASSUME IInv, NEW id \in Ids, Fetch(id) PROVE IInv'
  <1> USE DEF IInv, Fetch, journal, hosting
  <1>1. TypeOK'
    BY DEF TypeOK, Context, Stages, Modules, SeenOf, HasContext, Bindings, Missing
  <1>2. LoopShape'
    BY DEF LoopShape, Bindings, NextRevision
  <1>3. IdsShape'
    BY DEF IdsShape
  <1>4. ContextsAgree'
    <2>1. id \in Ids /\ id \in written /\ id > saved
      BY IdsAreNumbers DEF NextRevision, TypeOK, LoopShape
    <2>2. SeenOf(id) = IF rows[id] = NoContext THEN {} ELSE rows[id]
      BY DEF ContextsAgree, SeenOf
    <2>3. /\ \A i \in Ids : pending'[i] # NoContext => pending'[i] = rows'[i]
          /\ pending'[id] = NoContext
      BY DEF ContextsAgree, TypeOK
    <2>4. id \notin reused => SeenOf(id) \subseteq chain[id]
      BY <2>1, <2>2 DEF ContextsAgree
    <2>5. id \notin exposed \cup reused => SeenOf(id) = chain[id]
      <3>1. CASE chain[id] = {}
        BY <2>4, <3>1
      <3>2. CASE chain[id] # {}
        BY <2>1, <2>2, SentinelAssumption DEF ContextsAgree, ContextSurvives, TypeOK
      <3> QED
        BY <3>1, <3>2
    <2>6. todo' \cap seen' = {}
      BY DEF Bindings
    <2> QED
      BY <2>3, <2>4, <2>5, <2>6 DEF ContextsAgree, ContextSurvives
  <1>5. Progress'
    BY DEF Progress, ContextsAgree, Done, SeenOf, Bindings, Missing, NextRevision
  <1> QED
    BY <1>1, <1>2, <1>3, <1>4, <1>5

(* Derive preserves the invariant: the row is written before the revision. *)
LEMMA DeriveIInv ==
  ASSUME IInv, NEW p \in Processors, NEW id \in Ids, NEW t \in Types, Derive(p, id, t)
  PROVE  IInv'
  <1> USE DEF IInv, Derive, journal, hosting
  <1>1. TypeOK'
    BY BoundsAssumption DEF TypeOK, Context, Stages, Child, Fault, WithSeen
  <1>2. LoopShape'
    BY DEF LoopShape, Calling
  <1>3. IdsShape'
    BY DEF IdsShape, Fresh
  <1>4. ContextsAgree'
    BY DEF ContextsAgree, ContextSurvives, TypeOK, WithSeen, Calling
  <1>5. Progress'
    BY DEF Progress, Done, Calling
  <1> QED
    BY <1>1, <1>2, <1>3, <1>4, <1>5

(* SaveContextFails preserves the invariant: memory loses an entry, which  *)
(* the row still holds.                                                    *)
LEMMA SaveContextFailsIInv ==
  ASSUME IInv, NEW p \in Processors, NEW id \in Ids, SaveContextFails(p, id)
  PROVE  IInv'
  <1> USE DEF IInv, SaveContextFails, journal, hosting, history
  <1>1. TypeOK'
    <2>1. pending' \in [Ids -> Context]
      BY DEF TypeOK, Context
    <2> QED
      BY <2>1, NoDeliveryTypes, BoundsAssumption DEF TypeOK, Stages, Retry, Fault
  <1>2. LoopShape'
    BY DEF LoopShape, NoChild, Retry, Calling, NoDelivery
  <1>3. IdsShape'
    BY DEF TypeOK, IdsShape, Retry
  <1>4. ContextsAgree'
    BY DEF ContextsAgree, ContextSurvives, TypeOK, Retry
  <1>5. Progress'
    BY DEF Progress, Done, Retry
  <1> QED
    BY <1>1, <1>2, <1>3, <1>4, <1>5

(* WriteDerived preserves the invariant: the row is the new chain. *)
LEMMA WriteDerivedIInv == ASSUME IInv, WriteDerived PROVE IInv'
  <1> USE DEF IInv, WriteDerived, context, hosting
  <1>1. TypeOK'
    BY DEF TypeOK, Stages, Child, LoopShape
  <1>2. LoopShape'
    BY DEF LoopShape
  <1>3. IdsShape'
    BY DEF IdsShape
  <1>4. ContextsAgree'
    <2> DEFINE new == child.id
    <2>1. new \in Ids /\ new # cur /\ cur \in written /\ cur \in Ids
      BY DEF LoopShape, TypeOK
    <2>2. /\ chain'[new] = chain[cur] \cup {child.proc}
          /\ \A i \in Ids : i # new => chain'[i] = chain[i]
      BY <2>1 DEF TypeOK
    <2>3. new \notin exposed' \cup reused' => rows[new] = chain'[new]
      BY <2>2 DEF ContextsAgree
    <2>4. ContextSurvives'
      BY <2>3 DEF ContextsAgree, ContextSurvives
    <2> QED
      BY <2>1, <2>2, <2>4 DEF ContextsAgree
  <1>5. Progress'
    BY IdsAreNumbers DEF Progress, Done, TypeOK, LoopShape, Behind
  <1> QED
    BY <1>1, <1>2, <1>3, <1>4, <1>5

(* FailDerived preserves the invariant: the id that loses its row has no   *)
(* revision, or is reused.                                                 *)
LEMMA FailDerivedIInv == ASSUME IInv, FailDerived PROVE IInv'
  <1> USE DEF IInv, FailDerived, journal, hosting, history
  <1>1. TypeOK'
    <2>1. rows' \in [Ids -> Context] /\ pending' \in [Ids -> Context]
      BY DEF TypeOK, Context
    <2>2. faults' \in 0..MaxFaults
      BY BoundsAssumption DEF TypeOK, Fault
    <2> QED
      BY <2>1, <2>2, NoDeliveryTypes DEF TypeOK, Stages, Retry
  <1>2. LoopShape'
    BY DEF LoopShape, NoChild, Retry, NoDelivery
  <1>3. IdsShape'
    BY DEF TypeOK, IdsShape, Retry
  <1>4. ContextsAgree'
    BY DEF ContextsAgree, ContextSurvives, TypeOK, IdsShape, Retry
  <1>5. Progress'
    BY DEF Progress, Done, Retry
  <1> QED
    BY <1>1, <1>2, <1>3, <1>4, <1>5

(* Processed preserves the invariant. *)
LEMMA ProcessedIInv == ASSUME IInv, NEW p \in Processors, Processed(p) PROVE IInv'
  <1> USE DEF IInv, Processed, journal, context, hosting
  <1>1. TypeOK'
    BY NoChildIsChild DEF TypeOK, LoopShape, Calling
  <1>2. LoopShape'
    BY DEF LoopShape, NoChild, Calling
  <1>3. IdsShape'
    BY IdsAreNumbers DEF TypeOK, IdsShape, NoChild
  <1>4. ContextsAgree'
    BY DEF ContextsAgree, ContextSurvives, Calling
  <1>5. Progress'
    BY DEF Progress, Done
  <1> QED
    BY <1>1, <1>2, <1>3, <1>4, <1>5

(* CallFails preserves the invariant: the watermark stays. *)
LEMMA CallFailsIInv == ASSUME IInv, NEW m \in Modules, CallFails(m) PROVE IInv'
  <1> USE DEF IInv, CallFails, journal, context, hosting, history
  <1>1. TypeOK'
    BY NoDeliveryTypes, BoundsAssumption DEF TypeOK, Stages, Retry, Fault
  <1>2. LoopShape'
    BY DEF LoopShape, NoChild, Retry, Calling, NoDelivery
  <1>3. IdsShape'
    BY DEF IdsShape, Retry
  <1>4. ContextsAgree'
    BY DEF ContextsAgree, ContextSurvives, Retry
  <1>5. Progress'
    BY DEF Progress, Done, Retry
  <1> QED
    BY <1>1, <1>2, <1>3, <1>4, <1>5

(* ToSinks preserves the invariant: the processors are done. *)
LEMMA ToSinksIInv == ASSUME IInv, ToSinks PROVE IInv'
  <1> USE DEF IInv, ToSinks, journal, context, hosting
  <1>1. TypeOK'
    BY DEF TypeOK, Stages, Modules, LoopShape, Bindings, Missing
  <1>2. LoopShape'
    BY DEF LoopShape, Bindings
  <1>3. IdsShape'
    BY DEF IdsShape
  <1>4. ContextsAgree'
    BY DEF ContextsAgree, ContextSurvives
  <1>5. Progress'
    BY DEF Progress, ContextsAgree, Done, Modules, Bindings, Missing
  <1> QED
    BY <1>1, <1>2, <1>3, <1>4, <1>5

(* Handle preserves the invariant. *)
LEMMA HandleIInv == ASSUME IInv, NEW m \in Sinks, Handle(m) PROVE IInv'
  <1> USE DEF IInv, Handle, journal, context, hosting
  <1>1. TypeOK'
    BY DEF TypeOK, LoopShape
  <1>2. LoopShape'
    BY DEF LoopShape
  <1>3. IdsShape'
    BY DEF IdsShape
  <1>4. ContextsAgree'
    BY DEF ContextsAgree, ContextSurvives
  <1>5. Progress'
    BY DEF Progress, Done
  <1> QED
    BY <1>1, <1>2, <1>3, <1>4, <1>5

(* Finish preserves the invariant: a revision without its row is exposed. *)
LEMMA FinishIInv == ASSUME IInv, Finish PROVE IInv'
  <1> USE DEF IInv, Finish, journal, delivery, hosting
  <1>1. TypeOK'
    BY DEF TypeOK, Context, Stages, LoopShape
  <1>2. LoopShape'
    BY DEF LoopShape
  <1>3. IdsShape'
    BY DEF IdsShape
  <1>4. ContextsAgree'
    BY DEF ContextsAgree, ContextSurvives
  <1>5. Progress'
    BY DEF Progress, Done
  <1> QED
    BY <1>1, <1>2, <1>3, <1>4, <1>5

(* FinishFails preserves the invariant: the watermark stays. *)
LEMMA FinishFailsIInv == ASSUME IInv, FinishFails PROVE IInv'
  <1> USE DEF IInv, FinishFails, journal, context, hosting, history
  <1>1. TypeOK'
    BY NoDeliveryTypes, BoundsAssumption DEF TypeOK, Stages, Retry, Fault
  <1>2. LoopShape'
    BY DEF LoopShape, NoChild, Retry, NoDelivery
  <1>3. IdsShape'
    BY DEF IdsShape, Retry
  <1>4. ContextsAgree'
    BY DEF ContextsAgree, ContextSurvives, Retry
  <1>5. Progress'
    BY DEF Progress, Done, Retry
  <1> QED
    BY <1>1, <1>2, <1>3, <1>4, <1>5

(* SaveMark preserves the invariant: all modules are done with cur. *)
LEMMA SaveMarkIInv == ASSUME IInv, SaveMark PROVE IInv'
  <1> USE DEF IInv, SaveMark, journal, context, hosting
  <1>1. TypeOK'
    BY NoDeliveryTypes DEF TypeOK, Stages
  <1>2. LoopShape'
    BY DEF TypeOK, LoopShape, NoChild, NoDelivery
  <1>3. IdsShape'
    BY DEF IdsShape
  <1>4. ContextsAgree'
    BY IdsAreNumbers DEF ContextsAgree, ContextSurvives, TypeOK, LoopShape, IdsShape
  <1>5. Progress'
    BY IdsAreNumbers DEF Progress, Done, TypeOK
  <1> QED
    BY <1>1, <1>2, <1>3, <1>4, <1>5

(* RunEnds preserves the invariant: the watermark in memory may be ahead. *)
LEMMA RunEndsIInv == ASSUME IInv, RunEnds PROVE IInv'
  <1> USE DEF IInv, RunEnds, journal, context, hosting, history
  <1>1. TypeOK'
    BY NoDeliveryTypes, BoundsAssumption DEF TypeOK, Stages, Fault
  <1>2. LoopShape'
    BY DEF TypeOK, LoopShape, NoDelivery
  <1>3. IdsShape'
    BY DEF IdsShape
  <1>4. ContextsAgree'
    BY DEF ContextsAgree, ContextSurvives
  <1>5. Progress'
    BY IdsAreNumbers DEF Progress, Done, TypeOK
  <1> QED
    BY <1>1, <1>2, <1>3, <1>4, <1>5

(* Crash preserves the invariant: what memory held is in the rows. *)
LEMMA CrashIInv == ASSUME IInv, Crash PROVE IInv'
  <1> USE DEF IInv, Crash, history
  <1>1. TypeOK'
    BY NoDeliveryTypes, BoundsAssumption DEF TypeOK, Context, Stages, Fault
  <1>2. LoopShape'
    BY DEF LoopShape, NoChild, NoDelivery
  <1>3. IdsShape'
    BY DEF IdsShape
  <1>4. ContextsAgree'
    BY DEF ContextsAgree, ContextSurvives
  <1>5. Progress'
    BY IdsAreNumbers DEF Progress, Done, TypeOK
  <1> QED
    BY <1>1, <1>2, <1>3, <1>4, <1>5

(* Start preserves the invariant. *)
LEMMA StartIInv == ASSUME IInv, Start PROVE IInv'
  <1> USE DEF IInv, Start, journal, context, delivery, hosting, history
  <1>1. TypeOK'
    BY DEF TypeOK, Stages
  <1>2. LoopShape'
    BY DEF TypeOK, LoopShape
  <1>3. IdsShape'
    BY DEF IdsShape
  <1>4. ContextsAgree'
    BY DEF ContextsAgree, ContextSurvives
  <1>5. Progress'
    BY DEF Progress, Done
  <1> QED
    BY <1>1, <1>2, <1>3, <1>4, <1>5

-----------------------------------------------------------------------------
(* Every step of the router, of the modules and of the daemon preserves    *)
(* the invariant.                                                          *)
LEMMA NextIInv == IInv /\ [Next]_vars => IInv'
  <1> SUFFICES ASSUME IInv, [Next]_vars PROVE IInv'
    OBVIOUS
  <1>1. CASE Step
    BY <1>1, FetchIInv, DeriveIInv, SaveContextFailsIInv, WriteDerivedIInv, FailDerivedIInv,
       ProcessedIInv, CallFailsIInv, ToSinksIInv, HandleIInv, FinishIInv, FinishFailsIInv,
       SaveMarkIInv, RunEndsIInv DEF Step
  <1>2. CASE Tick \/ Crash \/ Start
    BY <1>2, TickIInv, CrashIInv, StartIInv
  <1>3. CASE \E id \in Ids : \/ BeginAppend(id) \/ AbortAppend(id)
                              \/ \E t \in Types : CommitAppend(id, t)
    BY <1>3, BeginAppendIInv, AbortAppendIInv, CommitAppendIInv
  <1>4. CASE \E m \in Modules : Register(m) \/ ModuleDies(m) \/ Unregister(m)
    BY <1>4, RegisterIInv, ModuleDiesIInv, UnregisterIInv
  <1>5. CASE UNCHANGED vars
    BY <1>5 DEF IInv, vars, TypeOK, LoopShape, IdsShape, ContextsAgree, ContextSurvives,
                Progress, Done, Matches
  <1> QED
    BY <1>1, <1>2, <1>3, <1>4, <1>5 DEF Next

(* The invariant holds in every reachable state. *)
THEOREM RouterInvariant == Spec => []IInv
  BY InitIInv, NextIInv, PTL DEF Spec

(* Every variable of the router keeps its type. *)
THEOREM RouterTypeCorrect == Spec => []TypeOK
  <1>1. IInv => TypeOK
    BY DEF IInv
  <1> QED
    BY <1>1, RouterInvariant, PTL

(* The persisted routing context of a derived revision survives every      *)
(* error, retry, death and restart until its dispatch completes.           *)
THEOREM ContextAlwaysSurvives == Spec => []ContextSurvives
  <1>1. IInv => ContextSurvives
    BY DEF IInv, ContextsAgree
  <1> QED
    BY <1>1, RouterInvariant, PTL

(* No revision whose context survived reaches a processor it was derived   *)
(* through, whatever the graph of subscriptions looks like.                *)
THEOREM NoLoopEver == Spec => []NoLoop
  <1>1. IInv => NoLoop
    BY DEF IInv, NoLoop, ContextsAgree
  <1> QED
    BY <1>1, RouterInvariant, PTL

(* The watermark passes nothing that a module should have had, except      *)
(* revisions committed behind it and reused ids: dispatch is at least once *)
(* for everything else that was registered.                                *)
THEOREM PassedAlwaysHandled == Spec => []PassedIsHandled
  <1>1. IInv => PassedIsHandled
    BY DEF IInv, PassedIsHandled, Progress, Done
  <1> QED
    BY <1>1, RouterInvariant, PTL
=============================================================================

--------------------------- MODULE TelegramProofs ---------------------------
(***************************************************************************)
(* What one chat of the Telegram source keeps, for every set of handlers,  *)
(* records, targets and fields and every number of updates: the inductive  *)
(* invariant IInv, and the properties of TelegramBot that follow from it.  *)
(***************************************************************************)
EXTENDS TelegramBot, TLAPS

(* A session asks for fields once it has a type; one of a fast path has    *)
(* its type from the start and no record.                                  *)
SessionShape(x) ==
  /\ x.mode = "fast" <=> x.ref = NoRef
  /\ x.mode = "fast" \/ x.idx >= 0 => x.typ # NoTarget

(* What a handler holds, per place; r is at[h]. *)
HandlerShape(r) ==
  /\ r.sess # 0 => r.ref = heap[r.sess].ref
  /\ r.pc \in {"free", "route", "draft", "capture", "start", "adopt"} => r.sess = 0
  /\ r.pc \in {"route", "draft", "capture", "start"} => r.ref = NoRef
  /\ r.pc \in {"adopt", "begin"} => r.ref # NoRef
  /\ r.pc \in {"begin", "answer", "advance", "prompt", "content"} => r.sess # 0
  /\ r.pc \in {"start", "begin", "advance", "prompt", "append"} => r.typ # NoTarget
  /\ r.pc = "content" => heap[r.sess].mode = "fast"
  /\ r.pc \in {"answer", "advance", "prompt"} => heap[r.sess].idx >= 0
  /\ r.pc = "advance" => r.read >= 0
  /\ r.pc = "finish" /\ r.sess # 0 => heap[r.sess].typ # NoTarget
  /\ r.pc \in {"finish", "append"} /\ r.sess = 0 => r.ref # NoRef /\ r.typ # NoTarget

Shape ==
  /\ \A s \in 1..Len(heap) : SessionShape(heap[s])
  /\ \A h \in Handlers : HandlerShape(at[h])

(* Whatever two handlers hold at a time is noted as shared. *)
SharingNoted ==
  \A h, g \in Handlers : h # g => Subjects(at[h]) \cap Subjects(at[g]) \subseteq shared

(* Session x has a value for each required field among the first n. *)
Covers(x, n) ==
  \A i \in DOMAIN FieldsOf[x.typ] :
    i <= n /\ FieldsOf[x.typ][i].required => FieldsOf[x.typ][i].name \in x.got

(* A handler that has its session to itself works on what the session has, *)
(* and leaves no required field behind it.                                 *)
HandlerCovers(r) ==
  LET x == heap[r.sess]
  IN  r.sess # 0 /\ r.sess \notin shared =>
        /\ r.pc \in {"prompt", "advance"} => r.typ = x.typ
        /\ r.pc = "advance" => r.read = x.idx /\ Covers(x, r.read + 1)
        /\ r.pc = "finish" => Required(x.typ) \subseteq x.got
        /\ r.pc = "append" => Required(r.typ) \subseteq r.got

Answered ==
  /\ \A s \in 1..Len(heap) :
       s \notin shared /\ heap[s].typ # NoTarget => Covers(heap[s], heap[s].idx)
  /\ \A h \in Handlers : HandlerCovers(at[h])
  /\ \A v \in revised : v.sess # 0 /\ v.sess \notin shared => Required(v.typ) \subseteq v.got

(* The completeness of a record tells how often it was classified, and     *)
(* whoever is about to append has seen it as it is.                        *)
Counted ==
  \A r \in Refs \ contended :
    /\ count[r] = IF records[r] = "complete" THEN 1 ELSE 0
    /\ \A h \in Handlers : at[h].pc = "append" /\ at[h].ref = r => records[r] = "incomplete"

(* The record of a session that is, or may yet become, the chat's is open, *)
(* or the session is about to go.                                          *)
SessionOpen ==
  current # 0 =>
    LET x == heap[current]
    IN  x.ref # NoRef /\ {current, x.ref} \cap shared = {} =>
          \/ records[x.ref] = "incomplete"
          \/ \E h \in Handlers : at[h].pc = "clear" /\ at[h].ref = x.ref

HandlerOpen(r) ==
  /\ r.sess # 0 \/ r.pc = "adopt"
  /\ r.pc # "clear" /\ r.ref # NoRef /\ Subjects(r) \cap shared = {}
  => records[r.ref] = "incomplete"

Open == SessionOpen /\ \A h \in Handlers : HandlerOpen(at[h])

IInv == TypeOK /\ Shape /\ SharingNoted /\ Answered /\ Counted /\ Open

-----------------------------------------------------------------------------
(* A handler that is free is one. *)
LEMMA FreeIsHandler == Free \in Handler
  BY DEF Free, Handler, Places

(* The first state satisfies the invariant: nothing has happened. *)
LEMMA InitIInv == Init => IInv
  <1> SUFFICES ASSUME Init PROVE IInv
    OBVIOUS
  <1>1. heap = <<>> /\ Len(heap) = 0 /\ current = 0 /\ \A h \in Handlers : at[h] = Free
    BY DEF Init
  <1>2. TypeOK
    <2>1. heap \in Seq(Session) /\ current \in 0..Len(heap) /\ updates \in 0..MaxUpdates
      BY <1>1, NoneAssumption DEF Init
    <2>2. at \in [Handlers -> Handler] /\ \A h \in Handlers : at[h].sess \in 0..Len(heap)
      BY <1>1, FreeIsHandler DEF Init, Free
    <2>3. records \in [Refs -> Completeness] /\ count \in [Refs -> Nat]
      BY DEF Init, Completeness
    <2> QED
      BY <2>1, <2>2, <2>3 DEF Init, TypeOK
  <1>3. Shape /\ SharingNoted /\ Answered
    BY <1>1 DEF Init, Shape, HandlerShape, SharingNoted, Subjects, Answered, HandlerCovers, Free
  <1>4. Counted /\ Open
    BY <1>1 DEF Init, Counted, Open, SessionOpen, HandlerOpen, Free
  <1> QED
    BY <1>2, <1>3, <1>4 DEF IInv

-----------------------------------------------------------------------------
(* A handler goes on: the others stay, and what it shares is noted. *)
LEMMA GoOnFacts ==
  ASSUME TypeOK, SharingNoted, NEW h \in Handlers, NEW r \in Handler, GoOn(h, r)
  PROVE  /\ at' \in [Handlers -> Handler]
         /\ at'[h] = r
         /\ \A g \in Handlers \ {h} : at'[g] = at[g]
         /\ shared \subseteq shared' /\ shared' \subseteq shared \cup Subjects(r)
         /\ \A g \in Handlers \ {h} : Subjects(r) \cap Subjects(at[g]) \subseteq shared'
         /\ SharingNoted'
  <1>1. /\ at' \in [Handlers -> Handler]
        /\ at'[h] = r
        /\ \A g \in Handlers \ {h} : at'[g] = at[g]
    BY DEF TypeOK, GoOn
  <1>2. /\ shared \subseteq shared' /\ shared' \subseteq shared \cup Subjects(r)
        /\ \A g \in Handlers \ {h} : Subjects(r) \cap Subjects(at[g]) \subseteq shared'
    BY DEF GoOn
  <1>3. SharingNoted'
    <2> SUFFICES ASSUME NEW g \in Handlers, NEW k \in Handlers, g # k,
                        NEW x \in Subjects(at'[g]) \cap Subjects(at'[k])
                 PROVE  x \in shared'
      BY DEF SharingNoted, Subjects
    <2>1. CASE g # h /\ k # h
      BY <1>1, <1>2, <2>1 DEF SharingNoted
    <2>2. CASE g = h
      BY <1>1, <1>2, <2>2
    <2>3. CASE k = h
      BY <1>1, <1>2, <2>3
    <2> QED
      BY <2>1, <2>2, <2>3
  <1> QED
    BY <1>1, <1>2, <1>3

(* What no step undoes of a session. *)
Grown(x, y) ==
  /\ y.mode = x.mode /\ y.ref = x.ref
  /\ x.typ # NoTarget => y.typ # NoTarget
  /\ x.idx >= 0 => y.idx >= 0

(* Handler h changes its own session at most. *)
HeapGrows(h) ==
  /\ heap' \in Seq(Session) /\ Len(heap) <= Len(heap')
  /\ \A s \in 1..Len(heap) :
       Grown(heap[s], heap'[s]) /\ (heap'[s] # heap[s] => s = at[h].sess)

(* Updates of a session's fields are sessions. *)
LEMMA SessionTyped ==
  ASSUME NEW x \in Session, NEW t \in Targets, NEW i \in Int
  PROVE  [x EXCEPT !.typ = t, !.idx = i] \in Session
  BY DEF Session

(* The same, of its place. *)
LEMMA SessionMoved ==
  ASSUME NEW x \in Session, NEW i \in Int
  PROVE  [x EXCEPT !.idx = i] \in Session
  BY DEF Session

(* The same, of its values. *)
LEMMA SessionAnswered ==
  ASSUME NEW x \in Session, NEW got \in SUBSET FieldNames
  PROVE  [x EXCEPT !.got = got] \in Session
  BY DEF Session

(* The three things a step does with the sessions: nothing, *)
LEMMA HeapSame ==
  ASSUME TypeOK, UNCHANGED heap, NEW h
  PROVE  HeapGrows(h)
  BY DEF TypeOK, HeapGrows, Grown

(* a new one, *)
LEMMA HeapAppended ==
  ASSUME TypeOK, NEW x \in Session, heap' = Append(heap, x), NEW h
  PROVE  HeapGrows(h) /\ Len(heap') = Len(heap) + 1 /\ heap'[Len(heap) + 1] = x
  <1>1. Len(heap) \in Nat
    BY DEF TypeOK
  <1>2. /\ heap' \in Seq(Session) /\ Len(heap') = Len(heap) + 1
        /\ \A s \in 1..Len(heap) : heap'[s] = heap[s]
        /\ heap'[Len(heap) + 1] = x
    BY DEF TypeOK
  <1> QED
    BY <1>1, <1>2 DEF HeapGrows, Grown

(* or a change of the handler's own. *)
LEMMA HeapChanged ==
  ASSUME TypeOK, NEW h \in Handlers, at[h].sess # 0, NEW y \in Session,
         heap' = [heap EXCEPT ![at[h].sess] = y], Grown(heap[at[h].sess], y)
  PROVE  /\ HeapGrows(h) /\ Len(heap') = Len(heap)
         /\ heap'[at[h].sess] = y
         /\ \A s \in 1..Len(heap) \ {at[h].sess} : heap'[s] = heap[s]
  <1>1. Len(heap) \in Nat /\ at[h].sess \in 1..Len(heap)
    BY DEF TypeOK
  <1>2. /\ heap' \in Seq(Session) /\ Len(heap') = Len(heap)
        /\ heap'[at[h].sess] = y
        /\ \A s \in 1..Len(heap) \ {at[h].sess} : heap'[s] = heap[s]
    BY <1>1 DEF TypeOK
  <1> QED
    BY <1>1, <1>2 DEF HeapGrows, Grown

(* The other handlers keep what they hold. *)
LEMMA OthersKept ==
  ASSUME IInv, NEW h \in Handlers, NEW r \in Handler, GoOn(h, r), HeapGrows(h),
         NEW g \in Handlers \ {h}
  PROVE  HandlerShape(at[g])' /\ HandlerCovers(at[g])'
  <1>1. at'[g] = at[g] /\ at[g] \in Handler /\ shared \subseteq shared'
    BY GoOnFacts DEF IInv, TypeOK
  <1>2. HandlerShape(at[g]) /\ HandlerCovers(at[g])
    BY DEF IInv, Shape, Answered
  <1>3. at[g].sess \in 0..Len(heap) /\ Len(heap) \in Nat
    BY DEF IInv, TypeOK
  <1>4. CASE at[g].sess = 0
    BY <1>1, <1>2, <1>4 DEF HandlerShape, HandlerCovers
  <1>5. CASE at[g].sess # 0
    <2>1. at[g].sess \in 1..Len(heap)
      BY <1>3, <1>5
    <2>2. Grown(heap[at[g].sess], heap'[at[g].sess])
      BY <2>1 DEF HeapGrows
    <2>3. HandlerShape(at[g])'
      BY <1>1, <1>2, <1>5, <2>2 DEF HandlerShape, Grown
    <2>4. HandlerCovers(at[g])'
      <3>1. CASE heap'[at[g].sess] = heap[at[g].sess]
        BY <1>1, <1>2, <3>1 DEF HandlerCovers, Covers
      <3>2. CASE heap'[at[g].sess] # heap[at[g].sess]
        <4>1. at[g].sess = at[h].sess
          BY <2>1, <3>2 DEF HeapGrows
        <4>2. at[g].sess \in Subjects(at[g]) \cap Subjects(at[h])
          BY <1>5, <4>1 DEF Subjects
        <4>3. at[g].sess \in shared
          BY <4>2 DEF IInv, SharingNoted
        <4> QED
          BY <1>1, <4>3 DEF HandlerCovers
      <3> QED
        BY <3>1, <3>2
    <2> QED
      BY <2>3, <2>4
  <1> QED
    BY <1>4, <1>5

(* A step that leaves the records and the chat's session alone, or makes   *)
(* the handler's own session the chat's, keeps the chat's session open.    *)
LEMMA SessionKeptOpen ==
  ASSUME IInv, NEW h \in Handlers, NEW r \in Handler, GoOn(h, r), HeapGrows(h),
         UNCHANGED records,
         at[h].pc # "clear",
         current' \in {0, current, at[h].sess}
  PROVE  SessionOpen'
  <1> USE DEF IInv, TypeOK
  <1>1. /\ at'[h] = r /\ shared \subseteq shared'
        /\ \A g \in Handlers \ {h} : at'[g] = at[g]
    BY GoOnFacts
  <1>2. SUFFICES ASSUME current' # 0, heap'[current'].ref # NoRef,
                        {current', heap'[current'].ref} \cap shared' = {}
                 PROVE  \/ records[heap'[current'].ref] = "incomplete"
                        \/ \E g \in Handlers :
                             at'[g].pc = "clear" /\ at'[g].ref = heap'[current'].ref
    BY DEF SessionOpen
  <1>3. current' \in 1..Len(heap) /\ Len(heap) \in Nat
    BY <1>2
  <1>4. heap'[current'].ref = heap[current'].ref
    BY <1>3 DEF HeapGrows, Grown
  <1>5. CASE current' = current
    <2>1. \/ records[heap[current].ref] = "incomplete"
          \/ \E g \in Handlers : at[g].pc = "clear" /\ at[g].ref = heap[current].ref
      BY <1>1, <1>2, <1>4, <1>5 DEF Open, SessionOpen
    <2> QED
      BY <1>1, <1>4, <1>5, <2>1
  <1>6. CASE current' = at[h].sess
    <2>1. HandlerOpen(at[h]) /\ HandlerShape(at[h])
      BY DEF Open, Shape
    <2> QED
      BY <1>1, <1>2, <1>4, <1>6, <2>1 DEF HandlerOpen, HandlerShape, Subjects
  <1> QED
    BY <1>2, <1>5, <1>6

(* What a step of a handler does to the types. *)
LEMMA StepTypes ==
  ASSUME TypeOK, NEW h \in Handlers, NEW r \in Handler, GoOn(h, r), HeapGrows(h),
         r.sess \in 0..Len(heap'), current' \in 0..Len(heap'), updates' \in 0..MaxUpdates,
         records' \in [Refs -> Completeness], count' \in [Refs -> Nat], contended' \subseteq Refs,
         revised' \subseteq
           [sess: 0..Len(heap'), ref: Refs, typ: Targets, got: SUBSET FieldNames],
         UNCHANGED refused
  PROVE  TypeOK'
  <1>1. Len(heap) \in Nat /\ Len(heap') \in Nat /\ Len(heap) <= Len(heap')
    BY DEF TypeOK, HeapGrows
  <1>2. at' \in [Handlers -> Handler] /\ \A g \in Handlers : at'[g].sess \in 0..Len(heap')
    BY <1>1 DEF TypeOK, GoOn
  <1>3. shared' \subseteq Refs \cup (1..Len(heap')) /\ refused' \subseteq 1..Len(heap')
    <2>1. r.ref \in Refs \cup {NoRef}
      BY DEF Handler
    <2> QED
      BY <1>1, <2>1 DEF TypeOK, GoOn, Subjects
  <1> QED
    BY <1>1, <1>2, <1>3 DEF TypeOK, HeapGrows

(* What was appended names sessions there still are. *)
LEMMA RevisedKept ==
  ASSUME TypeOK, NEW h, HeapGrows(h), UNCHANGED revised
  PROVE  revised' \subseteq
           [sess: 0..Len(heap'), ref: Refs, typ: Targets, got: SUBSET FieldNames]
  <1>1. Len(heap) \in Nat /\ Len(heap') \in Nat /\ Len(heap) <= Len(heap')
    BY DEF TypeOK, HeapGrows
  <1> QED
    BY <1>1 DEF TypeOK

(* A step keeps the shapes and the answers, if what it leaves the handler  *)
(* with, what it makes of its session and what it appends fit.             *)
LEMMA StepShape ==
  ASSUME IInv, NEW h \in Handlers, NEW r \in Handler, GoOn(h, r), HeapGrows(h),
         HandlerShape(r)', HandlerCovers(r)',
         \A s \in 1..Len(heap') : (s \in 1..Len(heap) /\ heap'[s] = heap[s]) \/
           /\ SessionShape(heap'[s])
           /\ s \notin shared' /\ heap'[s].typ # NoTarget => Covers(heap'[s], heap'[s].idx),
         \A v \in revised' \ revised :
           v.sess # 0 /\ v.sess \notin shared => Required(v.typ) \subseteq v.got
  PROVE  Shape' /\ Answered'
  <1>1. /\ at'[h] = r /\ shared \subseteq shared'
        /\ \A g \in Handlers \ {h} : at'[g] = at[g]
    BY GoOnFacts DEF IInv
  <1>2. Shape'
    <2>1. \A g \in Handlers : HandlerShape(at[g])'
      BY <1>1, OthersKept
    <2>2. \A s \in 1..Len(heap') : SessionShape(heap'[s])
      BY DEF IInv, Shape
    <2> QED
      BY <2>1, <2>2 DEF Shape
  <1>3. Answered'
    <2>1. \A g \in Handlers : HandlerCovers(at[g])'
      BY <1>1, OthersKept
    <2>2. \A s \in 1..Len(heap') :
            s \notin shared' /\ heap'[s].typ # NoTarget => Covers(heap'[s], heap'[s].idx)
      BY <1>1 DEF IInv, Answered
    <2>3. \A v \in revised' : v.sess # 0 /\ v.sess \notin shared' => Required(v.typ) \subseteq v.got
      BY <1>1 DEF IInv, Answered
    <2> QED
      BY <2>1, <2>2, <2>3 DEF Answered
  <1> QED
    BY <1>2, <1>3

(* A step of a handler that leaves the records alone keeps the invariant. *)
LEMMA StepKeeps ==
  ASSUME IInv, NEW h \in Handlers, NEW r \in Handler, GoOn(h, r), HeapGrows(h),
         UNCHANGED <<records, revised, count, contended, refused>>,
         r.sess \in 0..Len(heap'), current' \in 0..Len(heap'), updates' \in 0..MaxUpdates,
         HandlerShape(r)', HandlerCovers(r)', HandlerOpen(r)', SessionOpen',
         r.pc = "append" /\ r.ref # NoRef => records[r.ref] = "incomplete",
         \A s \in 1..Len(heap') : (s \in 1..Len(heap) /\ heap'[s] = heap[s]) \/
           /\ SessionShape(heap'[s])
           /\ s \notin shared' /\ heap'[s].typ # NoTarget => Covers(heap'[s], heap'[s].idx)
  PROVE  IInv'
  <1>1. /\ at'[h] = r /\ shared \subseteq shared' /\ SharingNoted'
        /\ \A g \in Handlers \ {h} : at'[g] = at[g]
    BY GoOnFacts DEF IInv
  <1>2. Shape' /\ Answered'
    BY StepShape
  <1>3. Counted'
    BY <1>1, NoneAssumption DEF IInv, Counted
  <1>4. \A g \in Handlers : HandlerOpen(at[g])'
    <2>1. \A g \in Handlers \ {h} : HandlerOpen(at[g])'
      BY <1>1 DEF IInv, Open, HandlerOpen
    <2> QED
      BY <1>1, <2>1
  <1>5. TypeOK'
    BY StepTypes, RevisedKept DEF IInv, TypeOK
  <1> QED
    BY <1>1, <1>2, <1>3, <1>4, <1>5 DEF IInv, Open

(* A handler that ends keeps nothing. *)
LEMMA FreeFits == HandlerShape(Free)' /\ HandlerCovers(Free)' /\ HandlerOpen(Free)'
  BY DEF HandlerShape, HandlerCovers, HandlerOpen, Free

(* A handler that holds on to its session keeps it open. *)
LEMMA HeldIsOpen ==
  ASSUME IInv, NEW h \in Handlers, NEW r \in Handler, GoOn(h, r), at[h].pc # "clear",
         UNCHANGED records, at[h].sess # 0, r.sess = at[h].sess, r.ref = at[h].ref
  PROVE  HandlerOpen(r)'
  <1>1. shared \subseteq shared'
    BY GoOnFacts DEF IInv
  <1>2. HandlerOpen(at[h])
    BY DEF IInv, Open
  <1> QED
    BY <1>1, <1>2 DEF HandlerOpen, Subjects

(* A handler that takes the chat's session takes one whose record is open. *)
LEMMA TakenIsOpen ==
  ASSUME IInv, NEW h \in Handlers, NEW r \in Handler, GoOn(h, r), at[h].pc # "clear",
         UNCHANGED records,
         current # 0, r.sess = current, r.ref = heap[current].ref
  PROVE  HandlerOpen(r)'
  <1>1. /\ shared \subseteq shared'
        /\ \A g \in Handlers \ {h} : Subjects(r) \cap Subjects(at[g]) \subseteq shared'
    BY GoOnFacts DEF IInv
  <1>2. SUFFICES ASSUME r.ref # NoRef, Subjects(r) \cap shared' = {}
                 PROVE  records[r.ref] = "incomplete"
    BY DEF HandlerOpen
  <1>3. ASSUME NEW g \in Handlers, at[g].pc = "clear", at[g].ref = r.ref
        PROVE  FALSE
    <2>1. g # h
      BY <1>3
    <2>2. r.ref \in Subjects(r) \cap Subjects(at[g])
      BY <1>2, <1>3 DEF Subjects
    <2> QED
      BY <1>1, <1>2, <2>1, <2>2
  <1> QED
    BY <1>1, <1>2, <1>3 DEF IInv, Open, SessionOpen, Subjects

(* A step that ends a handler and leaves sessions and records alone. *)
LEMMA DoneIInv ==
  ASSUME IInv, NEW h \in Handlers, Done(h), at[h].pc # "clear" \/ current' = 0,
         current' \in {0, current},
         UNCHANGED <<records, heap, updates, revised, count, contended, refused>>
  PROVE  IInv'
  <1>1. GoOn(h, Free) /\ Free \in Handler
    BY FreeIsHandler DEF Done
  <1>2. HeapGrows(h)
    BY HeapSame DEF IInv
  <1>3. SessionOpen'
    <2>1. CASE current' = 0
      BY <2>1 DEF SessionOpen
    <2>2. CASE at[h].pc # "clear"
      BY <1>1, <1>2, <2>2, SessionKeptOpen
    <2> QED
      BY <2>1, <2>2
  <1>4. /\ Free.sess \in 0..Len(heap') /\ current' \in 0..Len(heap') /\ updates' \in 0..MaxUpdates
        /\ Free.pc # "append"
    BY DEF IInv, TypeOK, Free
  <1>5. \A s \in 1..Len(heap') : s \in 1..Len(heap) /\ heap'[s] = heap[s]
    OBVIOUS
  <1> QED
    BY <1>1, <1>2, <1>3, <1>4, <1>5, FreeFits, StepKeeps

(* A step that leaves the sessions as they are and the records too. *)
LEMMA HeldIInv ==
  ASSUME IInv, NEW h \in Handlers, NEW r \in Handler, GoOn(h, r), at[h].pc # "clear",
         updates' \in 0..MaxUpdates, r.sess \in 0..Len(heap),
         HandlerShape(r), HandlerCovers(r), HandlerOpen(r)',
         r.pc = "append" /\ r.ref # NoRef => records[r.ref] = "incomplete",
         UNCHANGED <<records, heap, current, revised, count, contended, refused>>
  PROVE  IInv'
  <1>1. HeapGrows(h)
    BY HeapSame DEF IInv
  <1>2. SessionOpen'
    BY <1>1, SessionKeptOpen
  <1>3. shared \subseteq shared'
    BY GoOnFacts DEF IInv
  <1>4. HandlerShape(r)' /\ HandlerCovers(r)'
    BY <1>3 DEF HandlerShape, HandlerCovers
  <1>5. r.sess \in 0..Len(heap') /\ current' \in 0..Len(heap')
    BY DEF IInv, TypeOK
  <1>6. \A s \in 1..Len(heap') : s \in 1..Len(heap) /\ heap'[s] = heap[s]
    OBVIOUS
  <1> QED
    BY <1>1, <1>2, <1>4, <1>5, <1>6, StepKeeps

(* A handler that takes a session. *)
LEMMA HoldIsHandler ==
  ASSUME TypeOK, NEW s \in 1..Len(heap), NEW place \in Places
  PROVE  /\ Hold(s, place) \in Handler
         /\ Hold(s, place).pc = place /\ Hold(s, place).sess = s
         /\ Hold(s, place).ref = heap[s].ref
  <1>1. heap[s] \in Session /\ Len(heap) \in Nat
    BY DEF TypeOK
  <1>2. s \in Nat /\ heap[s].ref \in Refs \cup {NoRef}
    BY <1>1 DEF Session
  <1>3. Hold(s, place) \in Handler
    BY <1>2, FreeIsHandler DEF Hold, Handler
  <1> QED
    BY <1>3 DEF Hold, Free

(* A handler that moves on. *)
LEMMA GoToIsHandler ==
  ASSUME TypeOK, NEW h \in Handlers, NEW place \in Places
  PROVE  [at[h] EXCEPT !.pc = place] \in Handler
  BY DEF TypeOK, Handler

(* The fields of a target, and what it means to cover them. *)
LEMMA FieldFacts ==
  ASSUME NEW t \in Targets
  PROVE  /\ FieldsOf[t] \in Seq([name: STRING, required: BOOLEAN])
         /\ Len(FieldsOf[t]) \in Nat /\ DOMAIN FieldsOf[t] = 1..Len(FieldsOf[t])
         /\ \A i \in DOMAIN FieldsOf[t] : FieldsOf[t][i].name \in FieldNames
  <1>1. FieldsOf[t] \in Seq([name: STRING, required: BOOLEAN])
    BY FieldsAssumption
  <1>2. ASSUME NEW i \in DOMAIN FieldsOf[t]
        PROVE  FieldsOf[t][i].name \in FieldNames
    <2>1. FieldsOf[t][i].name \in {FieldsOf[t][j].name : j \in DOMAIN FieldsOf[t]}
      OBVIOUS
    <2>2. {FieldsOf[t][j].name : j \in DOMAIN FieldsOf[t]}
            \in {{FieldsOf[u][j].name : j \in DOMAIN FieldsOf[u]} : u \in Targets}
      OBVIOUS
    <2> QED
      BY <2>1, <2>2 DEF FieldNames
  <1> QED
    BY <1>1, <1>2

(* fieldDefaultsFromDraft gives a value to a field there is. *)
LEMMA DefaultsAreFields == \A text : Defaults(text) \in SUBSET FieldNames
  <1>1. TextField \in FieldNames
    BY DEF FieldNames
  <1> QED
    BY <1>1 DEF Defaults

(* Past the last field, every required one has a value. *)
LEMMA CoversAll ==
  ASSUME NEW x, x.typ \in Targets, NEW n \in Int, Covers(x, n), n >= Len(FieldsOf[x.typ])
  PROVE  Required(x.typ) \subseteq x.got
  BY FieldFacts DEF Covers, Required

(* Past one more field, which has a value or is not required. *)
LEMMA CoversNext ==
  ASSUME NEW x, x.typ \in Targets, NEW n \in Int, n >= 0, Covers(x, n),
         n < Len(FieldsOf[x.typ]) /\ FieldsOf[x.typ][n + 1].required =>
           FieldsOf[x.typ][n + 1].name \in x.got
  PROVE  Covers(x, n + 1)
  <1>0. Len(FieldsOf[x.typ]) \in Nat /\ DOMAIN FieldsOf[x.typ] = 1..Len(FieldsOf[x.typ])
    BY FieldFacts
  <1> SUFFICES ASSUME NEW i \in DOMAIN FieldsOf[x.typ], i <= n + 1, FieldsOf[x.typ][i].required
               PROVE  FieldsOf[x.typ][i].name \in x.got
    BY DEF Covers
  <1>1. CASE i <= n
    BY <1>1 DEF Covers
  <1>2. CASE i = n + 1
    BY <1>0, <1>2
  <1> QED
    BY <1>0, <1>1, <1>2

(* Nothing is behind the first field, or if there are none. *)
LEMMA CoversNone ==
  ASSUME NEW x, x.typ \in Targets, NEW n \in Int, n <= 0 \/ FieldsOf[x.typ] = <<>>
  PROVE  Covers(x, n)
  BY FieldFacts DEF Covers

-----------------------------------------------------------------------------
(* A message is admitted: its handler holds no session yet. *)
LEMMA AdmitContentIInv ==
  ASSUME IInv, NEW h \in Handlers, NEW text \in BOOLEAN, AdmitContent(h, text)
  PROVE  IInv'
  <1>0. [Free EXCEPT !.pc = "route", !.text = text] \in Handler
    BY FreeIsHandler DEF Handler, Places
  <1>1. PICK r \in Handler : r = [Free EXCEPT !.pc = "route", !.text = text]
    BY <1>0
  <1>2. /\ r.pc = "route" /\ r.sess = 0 /\ r.ref = NoRef
    BY <1>1 DEF Free
  <1>3. HandlerShape(r) /\ HandlerCovers(r) /\ HandlerOpen(r)'
    BY <1>2 DEF HandlerShape, HandlerCovers, HandlerOpen
  <1>4. GoOn(h, r) /\ at[h].pc # "clear" /\ updates' \in 0..MaxUpdates /\ r.sess \in 0..Len(heap)
    BY <1>1, <1>2, NoneAssumption DEF AdmitContent, Receive, IInv, TypeOK
  <1> QED
    BY <1>2, <1>3, <1>4, HeldIInv DEF AdmitContent

(* A fast-path command is admitted: its handler has a target. *)
LEMMA FastPathIInv ==
  ASSUME IInv, NEW h \in Handlers, NEW t \in FastPaths, NEW args \in BOOLEAN, FastPath(h, t, args)
  PROVE  IInv'
  <1>0. [Free EXCEPT !.pc = "start", !.typ = t, !.text = args] \in Handler
    BY FreeIsHandler, TargetsAssumption DEF Handler, Places
  <1>1. PICK r \in Handler : r = [Free EXCEPT !.pc = "start", !.typ = t, !.text = args]
    BY <1>0
  <1>2. r.pc = "start" /\ r.sess = 0 /\ r.ref = NoRef /\ r.typ # NoTarget
    BY <1>1, TargetsAssumption, NoneAssumption DEF Free
  <1>3. HandlerShape(r) /\ HandlerCovers(r) /\ HandlerOpen(r)'
    BY <1>2 DEF HandlerShape, HandlerCovers, HandlerOpen
  <1>4. GoOn(h, r) /\ at[h].pc # "clear" /\ updates' \in 0..MaxUpdates /\ r.sess \in 0..Len(heap)
    BY <1>1, <1>2, NoneAssumption DEF FastPath, Receive, IInv, TypeOK
  <1> QED
    BY <1>2, <1>3, <1>4, HeldIInv DEF FastPath

(* /classify: its handler has a record and a target, and no session. *)
LEMMA ClassifyCommandIInv ==
  ASSUME IInv, NEW h \in Handlers, NEW c \in Refs, NEW t \in Targets, ClassifyCommand(h, c, t)
  PROVE  IInv'
  <1>0. [Free EXCEPT !.pc = "finish", !.ref = c, !.typ = t] \in Handler
    BY FreeIsHandler DEF Handler, Places
  <1>1. PICK r \in Handler : r = [Free EXCEPT !.pc = "finish", !.ref = c, !.typ = t]
    BY <1>0
  <1>2. r.pc = "finish" /\ r.sess = 0 /\ r.ref # NoRef /\ r.typ # NoTarget
    BY <1>1, NoneAssumption DEF Free
  <1>3. HandlerShape(r) /\ HandlerCovers(r) /\ HandlerOpen(r)'
    BY <1>2 DEF HandlerShape, HandlerCovers, HandlerOpen
  <1>4. GoOn(h, r) /\ at[h].pc # "clear" /\ updates' \in 0..MaxUpdates /\ r.sess \in 0..Len(heap)
    BY <1>1, <1>2, NoneAssumption DEF ClassifyCommand, Receive, IInv, TypeOK
  <1> QED
    BY <1>2, <1>3, <1>4, HeldIInv DEF ClassifyCommand

(* A key of the keyboard: its handler has the chat's session and a target. *)
LEMMA TapIInv ==
  ASSUME IInv, NEW h \in Handlers, NEW t \in Offered, Tap(h, t)
  PROVE  IInv'
  <1>0. current \in 1..Len(heap) /\ heap[current] \in Session /\ heap[current].ref # NoRef
    BY DEF Tap, IInv, TypeOK
  <1>6. /\ Hold(current, "begin") \in Handler
        /\ Hold(current, "begin").pc = "begin" /\ Hold(current, "begin").sess = current
        /\ Hold(current, "begin").ref = heap[current].ref
    BY <1>0, HoldIsHandler DEF Places, IInv
  <1>7. [Hold(current, "begin") EXCEPT !.typ = t] \in Handler /\ t # NoTarget
    BY <1>6, TargetsAssumption, NoneAssumption DEF Handler
  <1>1. PICK r \in Handler : r = [Hold(current, "begin") EXCEPT !.typ = t]
    BY <1>7
  <1>2. r.pc = "begin" /\ r.sess = current /\ r.ref = heap[current].ref /\ r.typ # NoTarget
    BY <1>1, <1>6, <1>7 DEF Handler
  <1>3. HandlerShape(r) /\ HandlerCovers(r)
    BY <1>0, <1>2 DEF HandlerShape, HandlerCovers
  <1>4. GoOn(h, r) /\ at[h].pc # "clear" /\ updates' \in 0..MaxUpdates /\ r.sess \in 0..Len(heap)
    BY <1>0, <1>1, <1>2, NoneAssumption DEF Tap, Receive, IInv, TypeOK
  <1>5. HandlerOpen(r)'
    BY <1>0, <1>2, <1>4, TakenIsOpen DEF Tap
  <1> QED
    BY <1>2, <1>3, <1>4, <1>5, HeldIInv DEF Tap

(* /skip: the field passed over is not a required one. *)
LEMMA SkipIInv ==
  ASSUME IInv, NEW h \in Handlers, Skip(h)
  PROVE  IInv'
  <1>0. /\ current \in 1..Len(heap) /\ heap[current] \in Session
        /\ SessionShape(heap[current])
    BY DEF Skip, IInv, TypeOK, Shape
  <1>1. heap[current].idx \in Int /\ heap[current].idx >= 0 /\ heap[current].typ \in Targets
    BY <1>0 DEF Skip, SessionShape, Session
  <1>9. /\ Hold(current, "advance") \in Handler
        /\ Hold(current, "advance").pc = "advance" /\ Hold(current, "advance").sess = current
        /\ Hold(current, "advance").ref = heap[current].ref
    BY <1>0, HoldIsHandler DEF Places, IInv
  <1>2. [Hold(current, "advance") EXCEPT !.typ = heap[current].typ, !.read = heap[current].idx]
          \in Handler
    BY <1>1, <1>9 DEF Handler
  <1>3. PICK r \in Handler :
          r = [Hold(current, "advance") EXCEPT !.typ = heap[current].typ, !.read = heap[current].idx]
    BY <1>2
  <1>4. /\ r.pc = "advance" /\ r.sess = current /\ r.ref = heap[current].ref
        /\ r.typ = heap[current].typ /\ r.read = heap[current].idx
    BY <1>3, <1>9 DEF Handler
  <1>5. HandlerShape(r)
    BY <1>0, <1>1, <1>4, NoneAssumption DEF HandlerShape
  <1>6. HandlerCovers(r)
    <2>1. CASE current \in shared
      BY <1>4, <2>1 DEF HandlerCovers
    <2>2. CASE current \notin shared
      <3>1. Covers(heap[current], heap[current].idx)
        BY <1>0, <1>1, <2>2, NoneAssumption DEF IInv, Answered
      <3>2. Covers(heap[current], heap[current].idx + 1)
        BY <1>1, <3>1, CoversNext DEF Skip
      <3> QED
        BY <1>4, <3>2 DEF HandlerCovers
    <2> QED
      BY <2>1, <2>2
  <1>7. GoOn(h, r) /\ at[h].pc # "clear" /\ updates' \in 0..MaxUpdates /\ r.sess \in 0..Len(heap)
    BY <1>0, <1>3, <1>4, NoneAssumption DEF Skip, Receive, IInv, TypeOK
  <1>8. HandlerOpen(r)'
    BY <1>0, <1>4, <1>7, TakenIsOpen DEF Skip
  <1> QED
    BY <1>4, <1>5, <1>6, <1>7, <1>8, HeldIInv DEF Skip

(* A message finds its session, or none. *)
LEMMA RouteIInv ==
  ASSUME IInv, NEW h \in Handlers, Route(h)
  PROVE  IInv'
  <1> USE DEF IInv
  <1>1. at[h] \in Handler /\ HandlerShape(at[h]) /\ at[h].pc = "route" /\ updates \in 0..MaxUpdates
    BY DEF TypeOK, Shape, Route
  <1>2. ASSUME current # 0, NEW place \in {"content", "answer"},
               place = "content" => heap[current].mode = "fast",
               place = "answer" => heap[current].idx >= 0,
               GoOn(h, [Hold(current, place) EXCEPT !.text = at[h].text])
        PROVE  IInv'
    <2>1. current \in 1..Len(heap)
      BY <1>2 DEF TypeOK
    <2>8. /\ Hold(current, place) \in Handler
          /\ Hold(current, place).pc = place /\ Hold(current, place).sess = current
          /\ Hold(current, place).ref = heap[current].ref
      BY <2>1, HoldIsHandler DEF Places
    <2>2. [Hold(current, place) EXCEPT !.text = at[h].text] \in Handler
      BY <1>1, <2>8 DEF Handler
    <2>3. PICK r \in Handler : r = [Hold(current, place) EXCEPT !.text = at[h].text]
      BY <2>2
    <2>4. r.pc = place /\ r.sess = current /\ r.ref = heap[current].ref
      BY <2>3, <2>8 DEF Handler
    <2>5. HandlerShape(r) /\ HandlerCovers(r)
      BY <1>2, <2>1, <2>4 DEF HandlerShape, HandlerCovers
    <2>6. GoOn(h, r) /\ at[h].pc # "clear" /\ updates' \in 0..MaxUpdates /\ r.sess \in 0..Len(heap)
      BY <1>1, <1>2, <2>1, <2>3, <2>4 DEF Route
    <2>7. HandlerOpen(r)'
      BY <1>2, <2>4, <2>6, TakenIsOpen DEF Route
    <2> QED
      BY <2>4, <2>5, <2>6, <2>7, HeldIInv DEF Route
  <1>3. CASE GoTo(h, "draft")
    <2>1. PICK r \in Handler : r = [at[h] EXCEPT !.pc = "draft"]
      BY GoToIsHandler DEF Places
    <2>2. r.pc = "draft" /\ r.sess = 0 /\ r.ref = NoRef
      BY <1>1, <2>1 DEF HandlerShape, Handler
    <2>3. HandlerShape(r) /\ HandlerCovers(r) /\ HandlerOpen(r)'
      BY <2>2 DEF HandlerShape, HandlerCovers, HandlerOpen
    <2>4. GoOn(h, r) /\ r.sess \in 0..Len(heap)
      BY <1>3, <2>1, <2>2 DEF GoTo, TypeOK
    <2> QED
      BY <1>1, <2>2, <2>3, <2>4, HeldIInv DEF Route
  <1> QED
    BY <1>2, <1>3 DEF Route

(* The file is stored, or the handler gives up. *)
LEMMA DraftIInv ==
  ASSUME IInv, NEW h \in Handlers, Draft(h)
  PROVE  IInv'
  <1>1. at[h] \in Handler /\ HandlerShape(at[h]) /\ at[h].pc = "draft" /\ updates \in 0..MaxUpdates
    BY DEF IInv, TypeOK, Shape, Draft
  <1>2. CASE Done(h)
    BY <1>1, <1>2, DoneIInv DEF Draft
  <1>3. CASE GoTo(h, "capture")
    <2>1. PICK r \in Handler : r = [at[h] EXCEPT !.pc = "capture"]
      BY GoToIsHandler DEF Places, IInv
    <2>2. r.pc = "capture" /\ r.sess = 0 /\ r.ref = NoRef
      BY <1>1, <2>1 DEF HandlerShape, Handler
    <2>3. HandlerShape(r) /\ HandlerCovers(r) /\ HandlerOpen(r)'
      BY <2>2 DEF HandlerShape, HandlerCovers, HandlerOpen
    <2>4. GoOn(h, r) /\ r.sess \in 0..Len(heap)
      BY <1>3, <2>1, <2>2 DEF GoTo, TypeOK, IInv
    <2> QED
      BY <1>1, <2>2, <2>3, <2>4, HeldIInv DEF Draft
  <1> QED
    BY <1>2, <1>3 DEF Draft

(* A record that was absent is now incomplete: nobody was about to append  *)
(* to it, and no session is about it.                                      *)
LEMMA CaptureIInv ==
  ASSUME IInv, NEW h \in Handlers, Capture(h)
  PROVE  IInv'
  <1> USE DEF IInv
  <1>1. at[h] \in Handler /\ HandlerShape(at[h]) /\ at[h].pc = "capture"
    BY DEF TypeOK, Shape, Capture
  <1>2. CASE Done(h) /\ UNCHANGED records
    BY <1>1, <1>2, DoneIInv DEF Capture
  <1>3. ASSUME NEW c \in Refs, records[c] = "absent",
               records' = [records EXCEPT ![c] = "incomplete"],
               GoOn(h, [at[h] EXCEPT !.pc = "adopt", !.ref = c])
        PROVE  IInv'
    <2>1. [at[h] EXCEPT !.pc = "adopt", !.ref = c] \in Handler
      BY <1>1 DEF Handler, Places
    <2>2. PICK r \in Handler : r = [at[h] EXCEPT !.pc = "adopt", !.ref = c]
      BY <2>1
    <2>3. r.pc = "adopt" /\ r.ref = c /\ r.sess = 0 /\ c # NoRef
      BY <1>1, <2>2, NoneAssumption DEF HandlerShape, Handler
    <2>4. GoOn(h, r) /\ HeapGrows(h)
      BY <1>3, <2>2, HeapSame DEF Capture
    <2>5. /\ at'[h] = r /\ shared \subseteq shared' /\ SharingNoted'
          /\ \A g \in Handlers \ {h} : at'[g] = at[g]
      BY <2>4, GoOnFacts
    <2>6. /\ records' \in [Refs -> Completeness] /\ records'[c] = "incomplete"
          /\ \A x \in Refs \ {c} : records'[x] = records[x]
      BY <1>3 DEF TypeOK, Completeness
    <2>7. TypeOK'
      <3>1. revised' \subseteq [sess: 0..Len(heap'), ref: Refs, typ: Targets, got: SUBSET FieldNames]
        BY DEF Capture, TypeOK
      <3>2. /\ r.sess \in 0..Len(heap') /\ current' \in 0..Len(heap') /\ updates' \in 0..MaxUpdates
            /\ count' \in [Refs -> Nat] /\ contended' \subseteq Refs /\ UNCHANGED refused
        <4>1. UNCHANGED <<heap, current, updates, count, contended, refused>>
          BY DEF Capture
        <4>2. Len(heap) \in Nat
          BY DEF TypeOK
        <4> QED
          BY <2>3, <4>1, <4>2 DEF TypeOK
      <3>3. TypeOK
        OBVIOUS
      <3> QED
        BY <2>4, <2>6, <3>1, <3>2, <3>3, StepTypes
    <2>8. Shape' /\ Answered'
      <3>1. HandlerShape(r)' /\ HandlerCovers(r)'
        BY <2>3 DEF HandlerShape, HandlerCovers
      <3> QED
        BY <2>4, <3>1, StepShape DEF Capture
    <2>9. Counted'
      <3>1. count' = count /\ contended' = contended
        BY DEF Capture
      <3> SUFFICES ASSUME NEW x \in Refs \ contended
                   PROVE  /\ count[x] = IF records'[x] = "complete" THEN 1 ELSE 0
                          /\ \A g \in Handlers :
                               at'[g].pc = "append" /\ at'[g].ref = x => records'[x] = "incomplete"
        BY <3>1 DEF Counted
      <3>2. /\ count[x] = IF records[x] = "complete" THEN 1 ELSE 0
            /\ \A g \in Handlers : at[g].pc = "append" /\ at[g].ref = x => records[x] = "incomplete"
        BY DEF Counted
      <3> QED
        BY <1>3, <2>3, <2>5, <2>6, <3>2
    <2>10. SessionOpen'
      <3>1. heap' = heap /\ current' = current
        BY DEF Capture
      <3>2. SUFFICES ASSUME current # 0, heap[current].ref # NoRef,
                            {current, heap[current].ref} \cap shared' = {}
                     PROVE  \/ records'[heap[current].ref] = "incomplete"
                            \/ \E g \in Handlers :
                                 at'[g].pc = "clear" /\ at'[g].ref = heap[current].ref
        BY <3>1 DEF SessionOpen
      <3>3. heap[current].ref \in Refs
        <4>1. heap[current] \in Session
          BY <3>2 DEF TypeOK
        <4> QED
          BY <3>2, <4>1 DEF Session
      <3>4. \/ records[heap[current].ref] = "incomplete"
            \/ \E g \in Handlers : at[g].pc = "clear" /\ at[g].ref = heap[current].ref
        BY <2>5, <3>2 DEF Open, SessionOpen
      <3> QED
        BY <1>1, <2>5, <2>6, <3>3, <3>4
    <2>11. ASSUME NEW g \in Handlers
           PROVE  HandlerOpen(at[g])'
      <3>1. CASE g = h
        BY <2>3, <2>5, <2>6, <3>1 DEF HandlerOpen
      <3>2. CASE g # h
        <4>1. at'[g] = at[g] /\ HandlerOpen(at[g]) /\ at[g] \in Handler
          BY <2>5, <3>2 DEF Open, TypeOK
        <4> QED
          BY <2>5, <2>6, <4>1 DEF HandlerOpen, Handler
      <3> QED
        BY <3>1, <3>2
    <2> QED
      BY <2>5, <2>7, <2>8, <2>9, <2>10, <2>11 DEF Open
  <1> QED
    BY <1>2, <1>3 DEF Capture

(* The record becomes the chat's session: it is open. *)
LEMMA AdoptIInv ==
  ASSUME IInv, NEW h \in Handlers, Adopt(h)
  PROVE  IInv'
  <1> USE DEF IInv
  <1>1. at[h] \in Handler /\ HandlerShape(at[h]) /\ HandlerOpen(at[h]) /\ at[h].pc = "adopt"
    BY DEF TypeOK, Shape, Open, Adopt
  <1>2. at[h].sess = 0 /\ at[h].ref \in Refs /\ at[h].ref # NoRef
    BY <1>1 DEF HandlerShape, Handler
  <1>3. NewSession("classify", at[h].ref, NoTarget, FALSE, Defaults(at[h].text), TRUE) \in Session
    BY <1>2, DefaultsAreFields DEF NewSession, Session
  <1>4. PICK x \in Session :
          x = NewSession("classify", at[h].ref, NoTarget, FALSE, Defaults(at[h].text), TRUE)
    BY <1>3
  <1>5. x.mode = "classify" /\ x.ref = at[h].ref /\ x.typ = NoTarget /\ x.idx = -1
    BY <1>4 DEF NewSession
  <1>6. heap' = Append(heap, x) /\ current' = Len(heap) + 1
    BY <1>4 DEF Adopt, SetNew
  <1>7. HeapGrows(h) /\ Len(heap') = Len(heap) + 1 /\ heap'[Len(heap) + 1] = x
    BY <1>6, HeapAppended
  <1>8. Len(heap) \in Nat /\ current' \in 0..Len(heap') /\ updates' \in 0..MaxUpdates
    BY <1>6, <1>7 DEF Adopt, TypeOK
  <1>9. GoOn(h, Free) /\ Free \in Handler
    BY FreeIsHandler DEF Adopt, Done
  <1>10. shared \subseteq shared'
    BY <1>9, GoOnFacts
  <1>11. SessionOpen'
    BY <1>1, <1>2, <1>5, <1>6, <1>7, <1>10 DEF SessionOpen, HandlerOpen, Subjects, Adopt
  <1>12. \A s \in 1..Len(heap') : (s \in 1..Len(heap) /\ heap'[s] = heap[s]) \/
           (SessionShape(heap'[s]) /\ heap'[s].typ = NoTarget)
    <2>1. \A s \in 1..Len(heap) : heap'[s] = heap[s]
      BY <1>6, <1>8 DEF TypeOK
    <2>2. \A s \in 1..Len(heap') : s \in 1..Len(heap) \/ s = Len(heap) + 1
      BY <1>7, <1>8
    <2>3. SessionShape(x)
      BY <1>2, <1>5 DEF SessionShape
    <2> SUFFICES ASSUME NEW s \in 1..Len(heap')
                 PROVE  (s \in 1..Len(heap) /\ heap'[s] = heap[s]) \/
                          (SessionShape(heap'[s]) /\ heap'[s].typ = NoTarget)
      OBVIOUS
    <2>4. CASE s = Len(heap) + 1
      BY <1>5, <1>7, <2>3, <2>4
    <2>5. CASE s \in 1..Len(heap)
      BY <2>1, <2>5
    <2> QED
      BY <2>2, <2>4, <2>5
  <1>13. Free.pc # "append" /\ Free.sess \in 0..Len(heap')
    BY <1>7, <1>8 DEF Free
  <1> QED
    BY <1>7, <1>8, <1>9, <1>11, <1>12, <1>13, FreeFits, StepKeeps DEF Adopt

(* A handler goes on with the session it has changed to y. *)
LEMMA OwnSessionIInv ==
  ASSUME IInv, NEW h \in Handlers, NEW r \in Handler, NEW y \in Session, GoOn(h, r),
         at[h].sess # 0, at[h].pc # "clear", r.pc # "append",
         r = Free \/ (r.sess = at[h].sess /\ r.ref = at[h].ref),
         heap' = [heap EXCEPT ![at[h].sess] = y], Grown(heap[at[h].sess], y),
         current' \in {current, at[h].sess},
         UNCHANGED <<records, updates, revised, count, contended, refused>>,
         SessionShape(y), at[h].sess \notin shared /\ y.typ # NoTarget => Covers(y, y.idx),
         r = Free \/ (HandlerShape(r)' /\ HandlerCovers(r)')
  PROVE  IInv'
  <1> USE DEF IInv
  <1>1. /\ HeapGrows(h) /\ Len(heap') = Len(heap) /\ heap'[at[h].sess] = y
        /\ \A s \in 1..Len(heap) \ {at[h].sess} : heap'[s] = heap[s]
    BY HeapChanged
  <1>2. SessionOpen'
    BY <1>1, SessionKeptOpen
  <1>3. HandlerShape(r)' /\ HandlerCovers(r)' /\ HandlerOpen(r)'
    BY FreeFits, HeldIsOpen
  <1>4. Free.sess = 0 /\ at[h].sess \in 0..Len(heap) /\ Len(heap) \in Nat
    BY DEF Free, TypeOK
  <1>5. r.sess \in 0..Len(heap') /\ current' \in 0..Len(heap') /\ updates' \in 0..MaxUpdates
    BY <1>1, <1>4 DEF TypeOK
  <1>6. shared \subseteq shared'
    BY GoOnFacts
  <1>7. \A s \in 1..Len(heap') : (s \in 1..Len(heap) /\ heap'[s] = heap[s]) \/
           /\ SessionShape(heap'[s])
           /\ s \notin shared' /\ heap'[s].typ # NoTarget => Covers(heap'[s], heap'[s].idx)
    BY <1>1, <1>6
  <1> QED
    BY <1>1, <1>2, <1>3, <1>5, <1>7, StepKeeps

(* A handler's own session. *)
LEMMA OwnSession ==
  ASSUME IInv, NEW h \in Handlers, at[h].sess # 0
  PROVE  LET x == heap[at[h].sess]
         IN  /\ at[h] \in Handler /\ at[h].sess \in 1..Len(heap) /\ Len(heap) \in Nat
             /\ HandlerShape(at[h]) /\ HandlerCovers(at[h]) /\ at[h].ref = x.ref
             /\ x \in Session /\ SessionShape(x)
             /\ x.typ \in Targets \cup {NoTarget} /\ x.idx \in Int /\ x.got \subseteq FieldNames
             /\ at[h].sess \notin shared /\ x.typ # NoTarget => Covers(x, x.idx)
  <1>1. /\ at[h] \in Handler /\ at[h].sess \in 1..Len(heap) /\ Len(heap) \in Nat
        /\ heap[at[h].sess] \in Session
    BY DEF IInv, TypeOK
  <1>2. HandlerShape(at[h]) /\ HandlerCovers(at[h]) /\ SessionShape(heap[at[h].sess])
    BY <1>1 DEF IInv, Shape, Answered
  <1>3. at[h].ref = heap[at[h].sess].ref
    BY <1>2 DEF HandlerShape
  <1> QED
    BY <1>1, <1>2, <1>3 DEF IInv, Answered, Session

(* A type is chosen: no field of it is behind the session. *)
LEMMA BeginIInv ==
  ASSUME IInv, NEW h \in Handlers, Begin(h)
  PROVE  IInv'
  <1> USE DEF IInv
  <1> DEFINE s == at[h].sess
             t == at[h].typ
  <1>1. at[h] \in Handler /\ HandlerShape(at[h]) /\ at[h].pc = "begin"
    BY DEF TypeOK, Shape, Begin
  <1>2. /\ s # 0 /\ s \in 1..Len(heap) /\ heap[s] \in Session /\ t \in Targets
        /\ at[h].ref # NoRef /\ at[h].ref = heap[s].ref /\ 0 \in Int
    BY <1>1 DEF HandlerShape, Handler, TypeOK
  <1>3. [heap[s] EXCEPT !.typ = t, !.idx = 0] \in Session
    BY <1>2, SessionTyped
  <1>4. PICK y \in Session : y = [heap[s] EXCEPT !.typ = t, !.idx = 0]
    BY <1>3
  <1>5. y.mode = heap[s].mode /\ y.ref = heap[s].ref /\ y.typ = t /\ y.idx = 0 /\ y.got = heap[s].got
    BY <1>2, <1>4 DEF Session
  <1>6. heap' = [heap EXCEPT ![s] = y]
    BY <1>2, <1>4 DEF Begin, TypeOK
  <1>7. Grown(heap[s], y) /\ SessionShape(y) /\ Covers(y, y.idx)
    <2>1. SessionShape(heap[s])
      BY <1>2 DEF Shape
    <2>2. t # NoTarget
      BY <1>2, NoneAssumption
    <2>3. Covers(y, 0)
      BY <1>2, <1>5, CoversNone
    <2> QED
      BY <1>5, <2>1, <2>2, <2>3 DEF Grown, SessionShape
  <1>8. heap'[s] = y
    BY <1>2, <1>6 DEF TypeOK
  <1>9. ASSUME NEW place \in {"finish", "prompt"}, GoTo(h, place),
               place = "finish" => FieldsOf[t] = <<>>
        PROVE  IInv'
    <2>1. PICK r \in Handler : r = [at[h] EXCEPT !.pc = place]
      BY GoToIsHandler DEF Places
    <2>2. r.pc = place /\ r.sess = s /\ r.ref = at[h].ref /\ r.typ = t
      BY <1>1, <2>1 DEF Handler
    <2>3. HandlerShape(r)'
      BY <1>2, <1>5, <1>8, <2>2, NoneAssumption DEF HandlerShape
    <2>4. HandlerCovers(r)'
      <3>1. CASE place = "prompt"
        BY <1>5, <1>8, <2>2, <3>1 DEF HandlerCovers
      <3>2. CASE place = "finish"
        <4>1. Covers(y, Len(FieldsOf[y.typ])) /\ Len(FieldsOf[y.typ]) \in Int
          BY <1>2, <1>5, <1>9, <3>2, CoversNone
        <4>2. Required(y.typ) \subseteq y.got
          BY <1>2, <1>5, <4>1, CoversAll
        <4> QED
          BY <1>8, <2>2, <3>2, <4>2 DEF HandlerCovers
      <3> QED
        BY <1>9, <3>1, <3>2
    <2>5. GoOn(h, r)
      BY <1>9, <2>1 DEF GoTo
    <2> QED
      BY <1>1, <1>2, <1>6, <1>7, <2>2, <2>3, <2>4, <2>5, OwnSessionIInv DEF Begin
  <1> QED
    BY <1>9 DEF Begin

(* The next field is asked for: those passed over are not required. *)
LEMMA PromptIInv ==
  ASSUME IInv, NEW h \in Handlers, Prompt(h)
  PROVE  IInv'
  <1> USE DEF IInv
  <1> DEFINE s == at[h].sess
             fields == FieldsOf[at[h].typ]
  <1>1. at[h] \in Handler /\ HandlerShape(at[h]) /\ HandlerCovers(at[h]) /\ at[h].pc = "prompt"
    BY DEF TypeOK, Shape, Answered, Prompt
  <1>2. /\ s # 0 /\ s \in 1..Len(heap) /\ heap[s] \in Session /\ at[h].typ \in Targets
        /\ SessionShape(heap[s]) /\ heap[s].idx \in Int /\ heap[s].idx >= 0
        /\ at[h].ref = heap[s].ref
    <2>1. s # 0 /\ at[h].typ \in Targets /\ heap[s].idx >= 0
      BY <1>1 DEF HandlerShape, Handler
    <2> QED
      BY <2>1, OwnSession
  <1>3. PICK j \in heap[s].idx..(heap[s].idx + Len(fields)) :
          /\ Asks(heap[s], fields, j)
          /\ heap' = [heap EXCEPT ![s].idx = j]
          /\ IF j < Len(fields) THEN Done(h) ELSE GoTo(h, "finish")
    BY DEF Prompt
  <1>4. Len(fields) \in Nat /\ DOMAIN fields = 1..Len(fields) /\ j \in Int /\ j >= heap[s].idx
    BY <1>2, FieldFacts
  <1>5. [heap[s] EXCEPT !.idx = j] \in Session
    BY <1>2, <1>4, SessionMoved
  <1>6. PICK y \in Session : y = [heap[s] EXCEPT !.idx = j]
    BY <1>5
  <1>7. /\ y.mode = heap[s].mode /\ y.ref = heap[s].ref /\ y.typ = heap[s].typ
        /\ y.idx = j /\ y.got = heap[s].got
    BY <1>2, <1>6 DEF Session
  <1>8. heap' = [heap EXCEPT ![s] = y] /\ heap'[s] = y
    BY <1>2, <1>3, <1>6 DEF TypeOK
  <1>9. Grown(heap[s], y) /\ SessionShape(y)
    BY <1>2, <1>4, <1>7 DEF Grown, SessionShape
  <1>10. s \notin shared => y.typ = at[h].typ /\ Covers(y, j)
    <2>1. SUFFICES ASSUME s \notin shared
                   PROVE  y.typ = at[h].typ /\ Covers(y, j)
      OBVIOUS
    <2>2. y.typ = at[h].typ
      BY <1>1, <1>2, <1>7, <2>1 DEF HandlerCovers
    <2>3. Covers(heap[s], heap[s].idx)
      BY <1>2, <1>7, <2>1, <2>2, NoneAssumption DEF Answered
    <2>4. ASSUME NEW i \in 1..Len(fields), i <= j, fields[i].required
          PROVE  fields[i].name \in y.got
      <3>1. CASE i <= heap[s].idx
        BY <1>4, <1>7, <2>2, <2>3, <2>4, <3>1 DEF Covers
      <3>2. CASE i > heap[s].idx
        <4>1. i - 1 \in heap[s].idx..(j - 1) /\ i - 1 < Len(fields) /\ (i - 1) + 1 = i
          BY <1>2, <1>4, <2>4, <3>2
        <4>2. ~fields[(i - 1) + 1].required
          BY <1>3, <4>1 DEF Asks
        <4> QED
          BY <2>4, <4>1, <4>2
      <3> QED
        BY <1>2, <3>1, <3>2
    <2> QED
      BY <1>4, <2>2, <2>4 DEF Covers
  <1>11. CASE Done(h)
    BY <1>1, <1>2, <1>7, <1>8, <1>9, <1>10, <1>11, FreeIsHandler, OwnSessionIInv
    DEF Prompt, Done, Free
  <1>12. CASE j >= Len(fields) /\ GoTo(h, "finish")
    <2>1. PICK r \in Handler : r = [at[h] EXCEPT !.pc = "finish"]
      BY GoToIsHandler DEF Places
    <2>2. r.pc = "finish" /\ r.sess = s /\ r.ref = at[h].ref
      BY <1>1, <2>1 DEF Handler
    <2>3. HandlerShape(r)'
      BY <1>2, <1>7, <1>8, <2>2 DEF HandlerShape, SessionShape
    <2>4. GoOn(h, r)
      BY <1>12, <2>1 DEF GoTo
    <2>5. HandlerCovers(r)'
      <3>1. shared \subseteq shared'
        BY <2>4, GoOnFacts
      <3>2. s \notin shared => Required(y.typ) \subseteq y.got
        BY <1>2, <1>4, <1>10, <1>12, CoversAll
      <3> QED
        BY <1>8, <2>2, <3>1, <3>2 DEF HandlerCovers
    <2> QED
      BY <1>1, <1>2, <1>7, <1>8, <1>9, <1>10, <2>2, <2>3, <2>4, <2>5, OwnSessionIInv DEF Prompt
  <1> QED
    BY <1>3, <1>4, <1>11, <1>12

(* An answer: the field that is passed has a value, or is not required. *)
LEMMA AnswerIInv ==
  ASSUME IInv, NEW h \in Handlers, Answer(h)
  PROVE  IInv'
  <1> DEFINE s == at[h].sess
             i == heap[s].idx
             fields == FieldsOf[heap[s].typ]
             given == IF at[h].text THEN {fields[i + 1].name} ELSE {}
  <1>1. at[h].pc = "answer" /\ s # 0
    BY DEF Answer, HandlerShape, IInv, Shape
  <1>2. /\ at[h] \in Handler /\ s \in 1..Len(heap) /\ heap[s] \in Session
        /\ i \in Int /\ i >= 0 /\ heap[s].typ \in Targets /\ heap[s].got \subseteq FieldNames
        /\ at[h].ref = heap[s].ref /\ SessionShape(heap[s])
        /\ s \notin shared => Covers(heap[s], i)
    BY <1>1, OwnSession, NoneAssumption DEF HandlerShape, SessionShape
  <1>3. CASE Done(h) /\ UNCHANGED heap
    BY <1>1, <1>3, DoneIInv DEF Answer
  <1>4. ASSUME i < Len(fields), at[h].text \/ ~fields[i + 1].required,
               GoOn(h, [at[h] EXCEPT !.pc = "advance", !.typ = heap[s].typ, !.read = i]),
               heap' = [heap EXCEPT ![s].got = @ \cup given]
        PROVE  IInv'
    <2>1. given \in SUBSET FieldNames
      <3>0. Len(fields) \in Nat /\ DOMAIN fields = 1..Len(fields)
        BY <1>2, FieldFacts
      <3>1. i + 1 \in 1..Len(fields) /\ DOMAIN fields = 1..Len(fields)
        <4>1. i < Len(fields)
          BY <1>4
        <4> QED
          BY <1>2, <3>0, <4>1
      <3>2. fields[i + 1].name \in FieldNames
        BY <1>2, <3>1, FieldFacts
      <3> QED
        BY <3>2
    <2> HIDE DEF given
    <2>2. [heap[s] EXCEPT !.got = heap[s].got \cup given] \in Session
      <3>1. heap[s].got \cup given \in SUBSET FieldNames
        BY <1>2, <2>1
      <3> QED
        BY <1>2, <3>1, SessionAnswered
    <2>3. PICK y \in Session : y = [heap[s] EXCEPT !.got = heap[s].got \cup given]
      BY <2>2
    <2>4. /\ y.mode = heap[s].mode /\ y.ref = heap[s].ref /\ y.typ = heap[s].typ
          /\ y.idx = i /\ y.got = heap[s].got \cup given
      BY <1>2, <2>3 DEF Session
    <2>5. heap' = [heap EXCEPT ![s] = y] /\ heap'[s] = y
      <3>1. heap' = [heap EXCEPT ![s] = y]
        BY <1>4, <2>3
      <3> QED
        BY <1>2, <3>1 DEF IInv, TypeOK
    <2>6. Grown(heap[s], y) /\ SessionShape(y)
      BY <1>2, <2>4 DEF Grown, SessionShape
    <2>7. s \notin shared => Covers(y, i) /\ Covers(y, i + 1)
      <3>1. s \notin shared => Covers(y, i)
        BY <1>2, <2>4 DEF Covers
      <3>2. fields[i + 1].required => fields[i + 1].name \in y.got
        BY <1>4, <2>4 DEF given
      <3> QED
        BY <1>2, <2>4, <3>1, <3>2, CoversNext
    <2>8. [at[h] EXCEPT !.pc = "advance", !.typ = heap[s].typ, !.read = i] \in Handler
      BY <1>2 DEF Handler, Places
    <2>9. PICK r \in Handler : r = [at[h] EXCEPT !.pc = "advance", !.typ = heap[s].typ, !.read = i]
      BY <2>8
    <2>10. r.pc = "advance" /\ r.sess = s /\ r.ref = at[h].ref /\ r.typ = heap[s].typ /\ r.read = i
      BY <1>2, <2>9 DEF Handler
    <2>11. HandlerShape(r)'
      BY <1>1, <1>2, <2>4, <2>5, <2>10, NoneAssumption DEF HandlerShape
    <2>12. GoOn(h, r) /\ shared \subseteq shared'
      BY <1>4, <2>9, GoOnFacts DEF IInv
    <2>13. HandlerCovers(r)'
      BY <2>4, <2>5, <2>7, <2>10, <2>12 DEF HandlerCovers
    <2> QED
      BY <1>1, <1>2, <2>4, <2>5, <2>6, <2>7, <2>10, <2>11, <2>12, <2>13, OwnSessionIInv DEF Answer
  <1> QED
    BY <1>3, <1>4 DEF Answer

(* The step past a field: by one, as the handler is alone with its session. *)
LEMMA AdvanceIInv ==
  ASSUME IInv, NEW h \in Handlers, Advance(h)
  PROVE  IInv'
  <1> DEFINE s == at[h].sess
             fields == FieldsOf[at[h].typ]
  <1>1. at[h].pc = "advance" /\ s # 0
    BY DEF Advance, HandlerShape, IInv, Shape
  <1>2. /\ at[h] \in Handler /\ s \in 1..Len(heap) /\ heap[s] \in Session
        /\ heap[s].idx \in Int /\ heap[s].idx >= 0 /\ heap[s].typ \in Targets
        /\ at[h].read \in Int /\ at[h].read >= 0 /\ at[h].typ \in Targets
        /\ at[h].ref = heap[s].ref /\ SessionShape(heap[s])
        /\ s \notin shared => /\ at[h].typ = heap[s].typ /\ at[h].read = heap[s].idx
                              /\ Covers(heap[s], at[h].read + 1)
    BY <1>1, OwnSession, NoneAssumption DEF HandlerShape, HandlerCovers, SessionShape, Handler
  <1>3. PICK i \in {heap[s].idx + 1, at[h].read + 1} :
          /\ heap' = [heap EXCEPT ![s].idx = i]
          /\ GoTo(h, IF i >= Len(fields) THEN "finish" ELSE "prompt")
    BY DEF Advance
  <1>4. i \in Int /\ i >= 0 /\ (s \notin shared => Covers(heap[s], i))
    BY <1>2
  <1>5. [heap[s] EXCEPT !.idx = i] \in Session
    BY <1>2, <1>4, SessionMoved
  <1>6. PICK y \in Session : y = [heap[s] EXCEPT !.idx = i]
    BY <1>5
  <1>7. /\ y.mode = heap[s].mode /\ y.ref = heap[s].ref /\ y.typ = heap[s].typ
        /\ y.idx = i /\ y.got = heap[s].got
    BY <1>2, <1>6 DEF Session
  <1>8. heap' = [heap EXCEPT ![s] = y] /\ heap'[s] = y
    BY <1>2, <1>3, <1>6 DEF IInv, TypeOK
  <1>9. Grown(heap[s], y) /\ SessionShape(y) /\ (s \notin shared => Covers(y, y.idx))
    BY <1>2, <1>4, <1>7, NoneAssumption DEF Grown, SessionShape, Covers
  <1>10. ASSUME NEW place \in {"finish", "prompt"}, GoTo(h, place),
                place = "finish" => i >= Len(fields)
         PROVE  IInv'
    <2>1. PICK r \in Handler : r = [at[h] EXCEPT !.pc = place]
      BY GoToIsHandler DEF Places, IInv
    <2>2. r.pc = place /\ r.sess = s /\ r.ref = at[h].ref /\ r.typ = at[h].typ
      BY <1>2, <2>1 DEF Handler
    <2>3. HandlerShape(r)'
      BY <1>1, <1>2, <1>4, <1>7, <1>8, <2>2, NoneAssumption DEF HandlerShape
    <2>4. GoOn(h, r) /\ shared \subseteq shared'
      BY <1>10, <2>1, GoOnFacts DEF GoTo, IInv
    <2>5. HandlerCovers(r)'
      <3>1. s \notin shared /\ place = "finish" => Required(y.typ) \subseteq y.got
        BY <1>2, <1>4, <1>7, <1>9, <1>10, CoversAll
      <3> QED
        BY <1>2, <1>7, <1>8, <2>2, <2>4, <3>1 DEF HandlerCovers
    <2> QED
      BY <1>1, <1>2, <1>7, <1>8, <1>9, <2>2, <2>3, <2>4, <2>5, OwnSessionIInv DEF Advance
  <1> QED
    BY <1>3, <1>10

(* A fast path's session: it has its target, and no field behind it. *)
LEMMA StartIInv ==
  ASSUME IInv, NEW h \in Handlers, Start(h)
  PROVE  IInv'
  <1> USE DEF IInv
  <1>1. at[h] \in Handler /\ HandlerShape(at[h]) /\ at[h].pc = "start"
    BY DEF TypeOK, Shape, Start
  <1>2. at[h].sess = 0 /\ at[h].typ \in Targets
    BY <1>1 DEF HandlerShape, Handler
  <1>3. NewSession("fast", NoRef, at[h].typ, ~at[h].text, {}, FALSE) \in Session
    BY <1>1, <1>2 DEF NewSession, Session, Handler
  <1>4. PICK x \in Session : x = NewSession("fast", NoRef, at[h].typ, ~at[h].text, {}, FALSE)
    BY <1>3
  <1>5. x.mode = "fast" /\ x.ref = NoRef /\ x.typ = at[h].typ /\ x.idx = -1
    BY <1>4 DEF NewSession
  <1>6. heap' = Append(heap, x) /\ current' = Len(heap) + 1
    BY <1>4 DEF Start, SetNew
  <1>7. HeapGrows(h) /\ Len(heap') = Len(heap) + 1 /\ heap'[Len(heap) + 1] = x
    BY <1>6, HeapAppended
  <1>8. Len(heap) \in Nat /\ current' \in 0..Len(heap') /\ updates' \in 0..MaxUpdates
    BY <1>6, <1>7 DEF Start, TypeOK
  <1>9. SessionOpen'
    BY <1>5, <1>6, <1>7 DEF SessionOpen
  <1>10. SessionShape(x) /\ Covers(x, x.idx)
    BY <1>2, <1>5, CoversNone, NoneAssumption DEF SessionShape
  <1>11. ASSUME NEW s \in 1..Len(heap')
         PROVE  (s \in 1..Len(heap) /\ heap'[s] = heap[s]) \/
                  (SessionShape(heap'[s]) /\ Covers(heap'[s], heap'[s].idx))
    <2>1. CASE s = Len(heap) + 1
      BY <1>7, <1>10, <2>1
    <2>2. CASE s \in 1..Len(heap)
      BY <1>6, <1>8, <2>2 DEF TypeOK
    <2> QED
      BY <1>7, <1>8, <2>1, <2>2
  <1>12. ASSUME NEW r \in Handler, GoOn(h, r), r.pc # "append", r.sess \in 0..Len(heap'),
                HandlerShape(r)', HandlerCovers(r)', HandlerOpen(r)'
         PROVE  IInv'
    BY <1>7, <1>8, <1>9, <1>11, <1>12, StepKeeps DEF Start
  <1>13. CASE Done(h)
    <2>1. Free.sess \in 0..Len(heap') /\ Free.pc # "append"
      BY <1>7, <1>8 DEF Free
    <2> QED
      BY <1>12, <1>13, <2>1, FreeFits, FreeIsHandler DEF Done
  <1>14. CASE GoOn(h, [Free EXCEPT !.pc = "content", !.sess = Len(heap) + 1, !.text = TRUE])
    <2>1. PICK n \in Nat : n = Len(heap) + 1
      BY <1>8
    <2>2. [Free EXCEPT !.pc = "content", !.sess = n, !.text = TRUE] \in Handler
      BY FreeIsHandler DEF Handler, Places
    <2>3. PICK r \in Handler : r = [Free EXCEPT !.pc = "content", !.sess = n, !.text = TRUE]
      BY <2>2
    <2>4. r.pc = "content" /\ r.sess = Len(heap) + 1 /\ r.ref = NoRef
      BY <2>1, <2>3 DEF Free
    <2>5. HandlerShape(r)' /\ HandlerCovers(r)' /\ HandlerOpen(r)'
      BY <1>5, <1>7, <1>8, <2>4 DEF HandlerShape, HandlerCovers, HandlerOpen
    <2>6. GoOn(h, r) /\ r.sess \in 0..Len(heap')
      BY <1>7, <1>8, <1>14, <2>1, <2>3, <2>4
    <2> QED
      BY <1>12, <2>4, <2>5, <2>6
  <1> QED
    BY <1>13, <1>14 DEF Start

(* The content of a fast path: it starts over with the fields. *)
LEMMA FastPathContentIInv ==
  ASSUME IInv, NEW h \in Handlers, FastPathContent(h)
  PROVE  IInv'
  <1> DEFINE s == at[h].sess
             t == heap[s].typ
             i == IF FieldsOf[t] = <<>> THEN heap[s].idx ELSE 0
             place == IF FieldsOf[t] = <<>> THEN "finish" ELSE "prompt"
             kept == Defaults(at[h].text)
  <1>1. at[h].pc = "content" /\ s # 0
    BY DEF FastPathContent, HandlerShape, IInv, Shape
  <1>2. /\ at[h] \in Handler /\ s \in 1..Len(heap) /\ heap[s] \in Session
        /\ heap[s].idx \in Int /\ t \in Targets /\ heap[s].mode = "fast"
        /\ at[h].ref = heap[s].ref /\ SessionShape(heap[s])
    BY <1>1, OwnSession, NoneAssumption DEF HandlerShape, SessionShape
  <1>3. i \in Int /\ kept \in SUBSET FieldNames /\ place \in {"finish", "prompt"}
        /\ (place = "prompt" => i = 0) /\ (i # 0 => FieldsOf[t] = <<>>)
        /\ (place = "finish" => FieldsOf[t] = <<>>) /\ (heap[s].idx >= 0 => i >= 0)
    BY <1>2, DefaultsAreFields
  <1>4. CASE Done(h) /\ UNCHANGED <<heap, current>>
    BY <1>1, <1>4, DoneIInv DEF FastPathContent
  <1>5. ASSUME heap' = [heap EXCEPT ![s] =
                  [@ EXCEPT !.draft = TRUE, !.awaiting = FALSE, !.got = kept, !.idx = i]],
               current' = s,
               GoOn(h, [at[h] EXCEPT !.typ = t, !.pc = place])
        PROVE  IInv'
    <2> HIDE DEF i, kept, place
    <2>1. [heap[s] EXCEPT !.draft = TRUE, !.awaiting = FALSE, !.got = kept, !.idx = i] \in Session
      BY <1>2, <1>3 DEF Session
    <2>2. PICK y \in Session :
            y = [heap[s] EXCEPT !.draft = TRUE, !.awaiting = FALSE, !.got = kept, !.idx = i]
      BY <2>1
    <2>3. y.mode = heap[s].mode /\ y.ref = heap[s].ref /\ y.typ = t /\ y.idx = i /\ y.got = kept
      BY <1>2, <2>2 DEF Session
    <2>4. heap' = [heap EXCEPT ![s] = y] /\ heap'[s] = y
      <3>1. heap' = [heap EXCEPT ![s] = y]
        BY <1>5, <2>2
      <3> QED
        BY <1>2, <3>1 DEF IInv, TypeOK
    <2>5. Grown(heap[s], y) /\ SessionShape(y) /\ Covers(y, y.idx)
      <3>1. Covers(y, i)
        BY <1>2, <1>3, <2>3, CoversNone
      <3> QED
        BY <1>2, <1>3, <2>3, <3>1, NoneAssumption DEF Grown, SessionShape
    <2>6. [at[h] EXCEPT !.typ = t, !.pc = place] \in Handler
      BY <1>2, <1>3 DEF Handler, Places
    <2>7. PICK r \in Handler : r = [at[h] EXCEPT !.typ = t, !.pc = place]
      BY <2>6
    <2>8. r.pc = place /\ r.sess = s /\ r.ref = at[h].ref /\ r.typ = t
      BY <1>2, <2>7 DEF Handler
    <2>9. HandlerShape(r)'
      BY <1>1, <1>2, <1>3, <2>3, <2>4, <2>8, NoneAssumption DEF HandlerShape
    <2>10. HandlerCovers(r)'
      <3>1. place = "finish" => Required(y.typ) \subseteq y.got
        <4>1. place = "finish" => Covers(y, Len(FieldsOf[t])) /\ Len(FieldsOf[t]) \in Int
          BY <1>2, <1>3, <2>3, CoversNone
        <4> QED
          BY <1>2, <2>3, <4>1, CoversAll
      <3> QED
        BY <1>3, <2>3, <2>4, <2>8, <3>1 DEF HandlerCovers
    <2> QED
      BY <1>1, <1>2, <1>3, <1>5, <2>4, <2>5, <2>7, <2>8, <2>9, <2>10, OwnSessionIInv
      DEF FastPathContent
  <1> QED
    BY <1>4, <1>5 DEF FastPathContent

(* What is to be appended is what the session has: every required field. *)
LEMMA FinishIInv ==
  ASSUME IInv, NEW h \in Handlers, Finish(h)
  PROVE  IInv'
  <1> USE DEF IInv
  <1>1. at[h] \in Handler /\ HandlerShape(at[h]) /\ at[h].pc = "finish"
    BY DEF TypeOK, Shape, Finish
  <1>2. at[h].ref # NoRef => records[at[h].ref] = "incomplete"
    BY DEF Finish
  <1>3. /\ updates' \in 0..MaxUpdates /\ at[h].sess \in 0..Len(heap)
        /\ UNCHANGED <<records, heap, current, revised, count, contended, refused>>
    BY DEF Finish, TypeOK
  <1>4. CASE at[h].sess = 0
    <2>1. PICK r \in Handler : r = [at[h] EXCEPT !.pc = "append"]
      BY GoToIsHandler DEF Places
    <2>2. r.pc = "append" /\ r.sess = 0 /\ r.ref = at[h].ref /\ r.typ = at[h].typ
      BY <1>1, <1>4, <2>1 DEF Handler
    <2>3. HandlerShape(r) /\ HandlerCovers(r) /\ HandlerOpen(r)'
      BY <1>1, <1>4, <2>2 DEF HandlerShape, HandlerCovers, HandlerOpen
    <2>4. GoOn(h, r)
      BY <1>4, <2>1 DEF Finish, Order
    <2> QED
      BY <1>1, <1>2, <1>3, <1>4, <2>2, <2>3, <2>4, HeldIInv
  <1>5. CASE at[h].sess # 0
    <2> DEFINE x == heap[at[h].sess]
    <2>1. /\ x \in Session /\ x.typ \in Targets /\ x.got \in SUBSET FieldNames
          /\ at[h].ref = x.ref /\ HandlerCovers(at[h])
      BY <1>1, <1>5, OwnSession DEF HandlerShape
    <2>2. [at[h] EXCEPT !.typ = x.typ, !.got = x.got] \in Handler
      BY <1>1, <2>1 DEF Handler
    <2>3. PICK o \in Handler : o = [at[h] EXCEPT !.typ = x.typ, !.got = x.got]
      BY <2>2
    <2>4. o.sess = at[h].sess /\ o.ref = at[h].ref /\ o.typ = x.typ /\ o.got = x.got
      BY <1>1, <2>3 DEF Handler
    <2>5. [o EXCEPT !.pc = "append"] \in Handler
      BY DEF Handler, Places
    <2>6. PICK r \in Handler : r = [o EXCEPT !.pc = "append"]
      BY <2>5
    <2>7. /\ r.pc = "append" /\ r.sess = at[h].sess /\ r.ref = at[h].ref
          /\ r.typ = x.typ /\ r.got = x.got
      BY <2>4, <2>6 DEF Handler
    <2>8. HandlerShape(r)
      BY <1>5, <2>1, <2>7, NoneAssumption DEF HandlerShape
    <2>9. HandlerCovers(r)
      BY <1>1, <2>1, <2>7 DEF HandlerCovers
    <2>10. GoOn(h, r)
      BY <1>5, <2>3, <2>6 DEF Finish, Order
    <2>11. HandlerOpen(r)'
      BY <1>1, <1>3, <1>5, <2>7, <2>10, HeldIsOpen
    <2> QED
      BY <1>1, <1>2, <1>3, <2>7, <2>8, <2>9, <2>10, <2>11, HeldIInv
  <1> QED
    BY <1>4, <1>5

(* A revision is appended: of a record nobody has classified, unless it    *)
(* changed since it was read.                                              *)
LEMMA AppendRevisionIInv ==
  ASSUME IInv, NEW h \in Handlers, AppendRevision(h)
  PROVE  IInv'
  <1> USE DEF IInv
  <1>1. /\ at[h] \in Handler /\ HandlerShape(at[h]) /\ HandlerCovers(at[h])
        /\ at[h].pc = "append" /\ at[h].typ \in Targets
    BY DEF TypeOK, Shape, Answered, AppendRevision, HandlerShape, Handler
  <1>2. PICK c \in Refs :
          /\ IF at[h].ref = NoRef THEN records[c] = "absent" ELSE c = at[h].ref
          /\ records' = [records EXCEPT ![c] = "complete"]
          /\ count' = [count EXCEPT ![c] = @ + 1]
          /\ revised' = revised \cup
               {[sess |-> at[h].sess, ref |-> c, typ |-> at[h].typ, got |-> at[h].got]}
          /\ contended' = contended \cup
               {x \in {c} : \E g \in Handlers \ {h} : at[g].pc = "append" /\ at[g].ref = x}
    BY DEF AppendRevision
  <1>3. UNCHANGED <<heap, current, updates, refused>> /\ GoTo(h, "clear")
    BY DEF AppendRevision
  <1>4. PICK r \in Handler : r = [at[h] EXCEPT !.pc = "clear"]
    BY GoToIsHandler DEF Places
  <1>5. r.pc = "clear" /\ r.sess = at[h].sess /\ r.ref = at[h].ref
    BY <1>1, <1>4 DEF Handler
  <1>6. GoOn(h, r) /\ HeapGrows(h)
    BY <1>3, <1>4, HeapSame DEF GoTo
  <1>7. /\ at'[h] = r /\ shared \subseteq shared' /\ SharingNoted'
        /\ \A g \in Handlers \ {h} : at'[g] = at[g]
    BY <1>6, GoOnFacts
  <1>8. /\ records' \in [Refs -> Completeness] /\ records'[c] = "complete"
        /\ \A x \in Refs \ {c} : records'[x] = records[x]
    BY <1>2 DEF TypeOK, Completeness
  <1>9. /\ count' \in [Refs -> Nat] /\ count'[c] = count[c] + 1
        /\ \A x \in Refs \ {c} : count'[x] = count[x]
    BY <1>2 DEF TypeOK
  <1>10. TypeOK'
    <2>1. at[h].sess \in 0..Len(heap) /\ at[h].got \in SUBSET FieldNames
      BY <1>1 DEF TypeOK, Handler
    <2>2. revised' \subseteq [sess: 0..Len(heap'), ref: Refs, typ: Targets, got: SUBSET FieldNames]
      BY <1>1, <1>2, <1>3, <2>1 DEF TypeOK
    <2>3. contended' \subseteq Refs
      BY <1>2 DEF TypeOK
    <2>4. r.sess \in 0..Len(heap') /\ current' \in 0..Len(heap') /\ updates' \in 0..MaxUpdates
      BY <1>3, <1>5, <2>1 DEF TypeOK
    <2>5. TypeOK
      OBVIOUS
    <2> QED
      BY <1>3, <1>6, <1>8, <1>9, <2>2, <2>3, <2>4, <2>5, StepTypes
  <1>11. Shape' /\ Answered'
    <2>1. HandlerShape(r)' /\ HandlerCovers(r)'
      BY <1>1, <1>3, <1>5 DEF HandlerShape, HandlerCovers
    <2>2. \A v \in revised' \ revised :
            v.sess # 0 /\ v.sess \notin shared => Required(v.typ) \subseteq v.got
      BY <1>1, <1>2 DEF HandlerCovers
    <2>3. \A s \in 1..Len(heap') : s \in 1..Len(heap) /\ heap'[s] = heap[s]
      BY <1>3
    <2> QED
      BY <1>6, <2>1, <2>2, <2>3, StepShape
  <1>12. Counted'
    <2> SUFFICES ASSUME NEW x \in Refs \ contended'
                 PROVE  /\ count'[x] = IF records'[x] = "complete" THEN 1 ELSE 0
                        /\ \A g \in Handlers :
                             at'[g].pc = "append" /\ at'[g].ref = x => records'[x] = "incomplete"
      BY DEF Counted
    <2>1. /\ x \in Refs \ contended
          /\ count[x] = IF records[x] = "complete" THEN 1 ELSE 0
          /\ \A g \in Handlers : at[g].pc = "append" /\ at[g].ref = x => records[x] = "incomplete"
      BY <1>2 DEF Counted
    <2>2. CASE x # c
      BY <1>5, <1>7, <1>8, <1>9, <2>1, <2>2
    <2>3. CASE x = c
      <3>1. records[c] # "complete"
        BY <1>1, <1>2, <2>1, <2>3
      <3>2. \A g \in Handlers \ {h} : ~(at[g].pc = "append" /\ at[g].ref = c)
        BY <1>2, <2>3
      <3> QED
        BY <1>5, <1>7, <1>8, <1>9, <2>1, <2>3, <3>1, <3>2
    <2> QED
      BY <2>2, <2>3
  <1>13. SessionOpen'
    <2> SUFFICES ASSUME current # 0, heap[current].ref # NoRef,
                        {current, heap[current].ref} \cap shared' = {}
                 PROVE  \/ records'[heap[current].ref] = "incomplete"
                        \/ \E g \in Handlers :
                             at'[g].pc = "clear" /\ at'[g].ref = heap[current].ref
      BY <1>3 DEF SessionOpen
    <2>1. heap[current].ref \in Refs
      <3>1. heap[current] \in Session
        BY DEF TypeOK
      <3> QED
        BY <3>1 DEF Session
    <2>2. \/ records[heap[current].ref] = "incomplete"
          \/ \E g \in Handlers : at[g].pc = "clear" /\ at[g].ref = heap[current].ref
      BY <1>7 DEF Open, SessionOpen
    <2>3. CASE heap[current].ref = at[h].ref
      BY <1>5, <1>7, <2>3
    <2>4. CASE heap[current].ref # at[h].ref /\ records[heap[current].ref] = "incomplete"
      BY <1>2, <1>8, <2>1, <2>4
    <2>5. CASE \E g \in Handlers : at[g].pc = "clear" /\ at[g].ref = heap[current].ref
      BY <1>1, <1>7, <2>5
    <2> QED
      BY <2>2, <2>3, <2>4, <2>5
  <1>14. ASSUME NEW g \in Handlers
         PROVE  HandlerOpen(at[g])'
    <2>1. CASE g = h
      BY <1>5, <1>7, <2>1 DEF HandlerOpen
    <2>2. CASE g # h
      <3>1. at'[g] = at[g] /\ HandlerOpen(at[g]) /\ at[g] \in Handler
        BY <1>7, <2>2 DEF Open, TypeOK
      <3> SUFFICES ASSUME at[g].sess # 0 \/ at[g].pc = "adopt", at[g].pc # "clear",
                          at[g].ref # NoRef, Subjects(at[g]) \cap shared' = {}
                   PROVE  records'[at[g].ref] = "incomplete"
        BY <3>1 DEF HandlerOpen
      <3>2. at[g].ref \in Refs /\ records[at[g].ref] = "incomplete"
        BY <1>7, <3>1 DEF HandlerOpen, Handler
      <3>3. at[g].ref # at[h].ref
        <4>1. SUFFICES ASSUME at[g].ref = at[h].ref
                       PROVE  at[g].ref \in shared
          BY <1>7 DEF Subjects
        <4>2. at[g].ref \in Subjects(at[g]) \cap Subjects(at[h])
          BY <4>1 DEF Subjects
        <4> QED
          BY <2>2, <4>2 DEF SharingNoted
      <3>4. at[g].ref # c
        BY <1>2, <3>2, <3>3
      <3> QED
        BY <1>8, <3>2, <3>4
    <2> QED
      BY <2>1, <2>2
  <1> QED
    BY <1>7, <1>10, <1>11, <1>12, <1>13, <1>14 DEF Open

(* A session may go at any time, and an update be refused. *)
LEMMA FrameIInv ==
  ASSUME IInv, UNCHANGED <<records, heap, at, revised, count, shared, contended>>,
         current' \in {0, current}, updates' \in 0..MaxUpdates, refused' \subseteq 1..Len(heap)
  PROVE  IInv'
  <1> USE DEF IInv
  <1>1. TypeOK'
    <2>1. current' \in 0..Len(heap) /\ heap' = heap
      BY DEF TypeOK
    <2> QED
      BY <2>1 DEF TypeOK
  <1>2. Shape' /\ SharingNoted' /\ Answered' /\ Counted'
    BY DEF Shape, HandlerShape, SharingNoted, Answered, HandlerCovers, Counted
  <1>3. Open'
    <2>1. SessionOpen'
      BY DEF Open, SessionOpen
    <2>2. \A h \in Handlers : HandlerOpen(at[h])'
      BY DEF Open, HandlerOpen
    <2> QED
      BY <2>1, <2>2 DEF Open
  <1> QED
    BY <1>1, <1>2, <1>3

(* RefuseContent preserves the invariant. *)
LEMMA RefuseContentIInv ==
  ASSUME IInv, RefuseContent
  PROVE  IInv'
  <1>1. current \in 1..Len(heap)
    BY DEF RefuseContent, Busy, IInv, TypeOK
  <1>2. updates' \in 0..MaxUpdates
    BY NoneAssumption DEF RefuseContent, IInv, TypeOK
  <1>3. refused' \subseteq 1..Len(heap)
    BY <1>1 DEF RefuseContent, IInv, TypeOK
  <1> QED
    BY <1>2, <1>3, FrameIInv DEF RefuseContent

(* EndSession preserves the invariant. *)
LEMMA EndSessionIInv ==
  ASSUME IInv, EndSession
  PROVE  IInv'
  <1>1. updates' \in 0..MaxUpdates /\ refused' \subseteq 1..Len(heap)
    BY DEF EndSession, history, IInv, TypeOK
  <1> QED
    BY <1>1, FrameIInv DEF EndSession, history

(* A crash takes the handlers and the session; sessions made so far stay   *)
(* as they were, out of reach.                                             *)
LEMMA CrashIInv ==
  ASSUME IInv, Crash
  PROVE  IInv'
  <1> USE DEF IInv
  <1>1. /\ UNCHANGED <<records, heap, updates, revised, count, shared, contended, refused>>
        /\ current' = 0 /\ at' = [h \in Handlers |-> Free]
    BY DEF Crash, history
  <1>2. \A h \in Handlers : at'[h] = Free
    BY <1>1
  <1>3. TypeOK'
    <2>1. at' \in [Handlers -> Handler] /\ \A h \in Handlers : at'[h].sess \in 0..Len(heap')
      BY <1>1, <1>2, FreeIsHandler DEF TypeOK, Free
    <2>2. current' \in 0..Len(heap') /\ heap' \in Seq(Session)
      BY <1>1 DEF TypeOK
    <2> QED
      BY <1>1, <2>1, <2>2 DEF TypeOK
  <1>4. SharingNoted' /\ Counted'
    BY <1>1, <1>2 DEF SharingNoted, Subjects, Counted, Free
  <1>5. Shape' /\ Answered'
    <2>1. \A h \in Handlers : HandlerShape(at[h])' /\ HandlerCovers(at[h])'
      BY <1>2 DEF HandlerShape, HandlerCovers, Free
    <2>2. (\A s \in 1..Len(heap) : SessionShape(heap[s])) /\ Answered
      BY DEF Shape
    <2> QED
      BY <1>1, <2>1, <2>2 DEF Shape, Answered
  <1>6. Open'
    BY <1>1, <1>2, FreeFits DEF Open, SessionOpen
  <1> QED
    BY <1>3, <1>4, <1>5, <1>6

(* Another client changes a record: it is noted as shared. *)
LEMMA ElsewhereIInv ==
  ASSUME IInv, NEW c \in Refs, NEW v \in {"complete", "deleted"}, Elsewhere(c, v)
  PROVE  IInv'
  <1> USE DEF IInv
  <1>1. /\ UNCHANGED <<heap, current, at, updates, revised, refused>>
        /\ records[c] = "incomplete" /\ shared' = shared \cup {c}
        /\ contended' = contended \cup
             {x \in {c} : \E g \in Handlers : at[g].pc = "append" /\ at[g].ref = x}
    BY DEF Elsewhere
  <1>2. /\ records' \in [Refs -> Completeness] /\ records'[c] = v
        /\ \A x \in Refs \ {c} : records'[x] = records[x]
    BY DEF Elsewhere, TypeOK, Completeness
  <1>3. /\ count' \in [Refs -> Nat]
        /\ count'[c] = IF v = "complete" THEN count[c] + 1 ELSE count[c]
        /\ \A x \in Refs \ {c} : count'[x] = count[x]
    BY DEF Elsewhere, TypeOK
  <1>4. TypeOK'
    BY <1>1, <1>2, <1>3 DEF TypeOK
  <1>5. Shape' /\ SharingNoted'
    BY <1>1 DEF Shape, HandlerShape, SharingNoted
  <1>6. Answered'
    BY <1>1 DEF Answered, HandlerCovers
  <1>7. Counted'
    <2> SUFFICES ASSUME NEW x \in Refs \ contended'
                 PROVE  /\ count'[x] = IF records'[x] = "complete" THEN 1 ELSE 0
                        /\ \A g \in Handlers :
                             at[g].pc = "append" /\ at[g].ref = x => records'[x] = "incomplete"
      BY <1>1 DEF Counted
    <2>1. /\ x \in Refs \ contended
          /\ count[x] = IF records[x] = "complete" THEN 1 ELSE 0
          /\ \A g \in Handlers : at[g].pc = "append" /\ at[g].ref = x => records[x] = "incomplete"
      BY <1>1 DEF Counted
    <2>2. CASE x # c
      BY <1>2, <1>3, <2>1, <2>2
    <2>3. CASE x = c
      <3>1. \A g \in Handlers : ~(at[g].pc = "append" /\ at[g].ref = c)
        BY <1>1, <2>3
      <3> QED
        BY <1>1, <1>2, <1>3, <2>1, <2>3, <3>1
    <2> QED
      BY <2>2, <2>3
  <1>8. SessionOpen'
    <2> SUFFICES ASSUME current # 0, heap[current].ref # NoRef,
                        {current, heap[current].ref} \cap shared' = {}
                 PROVE  \/ records'[heap[current].ref] = "incomplete"
                        \/ \E g \in Handlers :
                             at[g].pc = "clear" /\ at[g].ref = heap[current].ref
      BY <1>1 DEF SessionOpen
    <2>1. heap[current].ref \in Refs \ {c}
      <3>1. heap[current] \in Session
        BY DEF TypeOK
      <3> QED
        BY <1>1, <3>1 DEF Session
    <2> QED
      BY <1>1, <1>2, <2>1 DEF Open, SessionOpen
  <1>9. ASSUME NEW g \in Handlers
        PROVE  HandlerOpen(at[g])'
    <2>1. HandlerOpen(at[g]) /\ at[g] \in Handler
      BY DEF Open, TypeOK
    <2> QED
      BY <1>1, <1>2, <2>1 DEF HandlerOpen, Handler, Subjects
  <1> QED
    BY <1>4, <1>5, <1>6, <1>7, <1>8, <1>9 DEF Open

-----------------------------------------------------------------------------
(* Every step of a handler preserves the invariant. *)
LEMMA StepIInv ==
  ASSUME IInv, NEW h \in Handlers, Step(h)
  PROVE  IInv'
  <1>1. CASE Fail(h)
    BY <1>1, DoneIInv DEF Fail
  <1>2. CASE Clear(h)
    BY <1>2, DoneIInv DEF Clear
  <1> QED
    BY <1>1, <1>2, RouteIInv, DraftIInv, CaptureIInv, AdoptIInv, BeginIInv, PromptIInv, AnswerIInv,
       AdvanceIInv, StartIInv, FastPathContentIInv, FinishIInv, AppendRevisionIInv DEF Step

(* Every step of the specification preserves the invariant. *)
LEMMA NextIInv == IInv /\ [Next]_vars => IInv'
  <1> SUFFICES ASSUME IInv, [Next]_vars PROVE IInv'
    OBVIOUS
  <1>1. CASE UNCHANGED vars
    <2>1. updates' \in 0..MaxUpdates /\ refused' \subseteq 1..Len(heap)
      BY <1>1 DEF vars, history, IInv, TypeOK
    <2> QED
      BY <1>1, <2>1, FrameIInv DEF vars, history
  <1>2. CASE Next
    <2>1. CASE \E h \in Handlers : Step(h)
      BY <2>1, StepIInv
    <2>2. CASE \E h \in Handlers, text \in BOOLEAN : AdmitContent(h, text)
      BY <2>2, AdmitContentIInv
    <2>3. CASE \E h \in Handlers, t \in Offered : Tap(h, t)
      BY <2>3, TapIInv
    <2>4. CASE \E h \in Handlers, t \in FastPaths, args \in BOOLEAN : FastPath(h, t, args)
      BY <2>4, FastPathIInv
    <2>5. CASE \E h \in Handlers, r \in Refs, t \in Targets : ClassifyCommand(h, r, t)
      BY <2>5, ClassifyCommandIInv
    <2>6. CASE \E r \in Refs, c \in {"complete", "deleted"} : Elsewhere(r, c)
      BY <2>6, ElsewhereIInv
    <2>7. CASE \E h \in Handlers : Skip(h)
      BY <2>7, SkipIInv
    <2>8. CASE RefuseContent \/ EndSession \/ Crash
      BY <2>8, RefuseContentIInv, EndSessionIInv, CrashIInv
    <2> QED
      BY <1>2, <2>1, <2>2, <2>3, <2>4, <2>5, <2>6, <2>7, <2>8 DEF Next
  <1> QED
    BY <1>1, <1>2

(* Every reachable state satisfies the invariant. *)
THEOREM TelegramInvariant == Spec => []IInv
  BY InitIInv, NextIInv, PTL DEF Spec

(* The chat's state keeps its types: a handler's session is one there is,  *)
(* and what is appended has a record and a target of the configuration.    *)
THEOREM TelegramTypesCorrect == Spec => []TypeOK
  <1>1. IInv => TypeOK
    BY DEF IInv
  <1> QED
    BY <1>1, TelegramInvariant, PTL

(* A revision made from a session has a value for every required field of  *)
(* its type, unless two parties worked on the session or its record at     *)
(* once (promptNextField, handleSkip, handleFieldAnswer).                  *)
THEOREM RequiredFieldsAnswered == Spec => []RequiredAnswered
  <1>1. IInv => RequiredAnswered
    BY DEF IInv, Answered, RequiredAnswered
  <1> QED
    BY <1>1, TelegramInvariant, PTL

(* A record is given a type once, and not after it was deleted, unless it  *)
(* changed between Classify's read and its append.                         *)
THEOREM RecordsClassifiedOnce == Spec => []ClassifiedOnce
  <1>1. IInv => ClassifiedOnce
    BY DEF IInv, Counted, ClassifiedOnce
  <1> QED
    BY <1>1, TelegramInvariant, PTL

(* A quiet chat that is busy with a record has one that waits for its type *)
(* (activePendingID, Classify, sessions.clear).                            *)
THEOREM QuietChatIsOpen == Spec => []BusyMeansOpen
  <1>1. IInv => BusyMeansOpen
    BY DEF IInv, Open, SessionOpen, BusyMeansOpen
  <1> QED
    BY <1>1, TelegramInvariant, PTL
=============================================================================

---------------------------- MODULE TelegramBot ----------------------------
(***************************************************************************)
(* One chat of the Telegram source: capturing what the user sends, asking  *)
(* for its type and fields, and classifying the record (handlers.go,       *)
(* session.go, pkg/classify).  The bot library runs every update in a      *)
(* goroutine of its own.  The session store's mutex guards the map only:   *)
(* two handlers may hold the same *session and both change it.             *)
(*                                                                         *)
(* A step of a handler ends where it takes the mutex or calls the core.    *)
(* What it reads and writes in between is one step, except FieldIndex++,   *)
(* whose operand may be stale (Advance).                                   *)
(***************************************************************************)
EXTENDS Integers, Sequences, FiniteSets

CONSTANTS
  Handlers,    \* goroutines that may handle an update of the chat
  Refs,        \* references the core gives to new records
  Targets,     \* target types the configuration names
  Offered,     \* those on the keyboard: [[bot.types]]
  FastPaths,   \* those of a fast-path command: [[bot.commands]]
  FieldsOf,    \* per target, the fields it asks for
  TextField,   \* the field a message's own text is the default of: "text"
  MaxUpdates,  \* bound on the updates of the chat
  NoRef, NoTarget

ASSUME TargetsAssumption == Offered \subseteq Targets /\ FastPaths \subseteq Targets
ASSUME FieldsAssumption  == \A t \in Targets : FieldsOf[t] \in Seq([name: STRING, required: BOOLEAN])
ASSUME NoneAssumption    == NoRef \notin Refs /\ NoTarget \notin Targets /\ MaxUpdates \in Nat

VARIABLES
  records,   \* per reference, the completeness of its record in the journal
  heap,      \* every session made so far, reachable or not
  current,   \* sessions[chatID]: an index of heap, 0 when there is none
  at,        \* per handler, where it is and what it holds
  updates,   \* updates received
  (* History, read by the properties only. *)
  revised,   \* what sessions and /classify have appended
  count,     \* per reference, how many of those revisions it got
  shared,    \* sessions and records that two parties worked on at once
  contended, \* records that changed between a Classify's read and its append
  refused    \* sessions that waited for a field when a message was refused

history == <<revised, count, shared, contended, refused>>
vars == <<records, heap, current, at, updates, history>>

Completeness == {"absent", "incomplete", "complete", "deleted"}
FieldNames == {TextField} \cup UNION {{FieldsOf[t][i].name : i \in DOMAIN FieldsOf[t]} : t \in Targets}
Session ==
  [mode: {"classify", "fast"}, ref: Refs \cup {NoRef}, typ: Targets \cup {NoTarget},
   awaiting: BOOLEAN, idx: Int, got: SUBSET FieldNames, draft: BOOLEAN]
Places == {"free", "route", "draft", "capture", "adopt", "start", "content", "begin", "answer",
           "advance", "prompt", "finish", "append", "clear"}
Handler ==
  [pc: Places, sess: Nat, ref: Refs \cup {NoRef}, typ: Targets \cup {NoTarget},
   got: SUBSET FieldNames, text: BOOLEAN, read: Int]
Free == [pc |-> "free", sess |-> 0, ref |-> NoRef, typ |-> NoTarget,
         got |-> {}, text |-> FALSE, read |-> 0]

TypeOK ==
  /\ records \in [Refs -> Completeness]
  /\ heap \in Seq(Session) /\ current \in 0..Len(heap)
  /\ at \in [Handlers -> Handler]
  /\ \A h \in Handlers : at[h].sess \in 0..Len(heap)
  /\ updates \in 0..MaxUpdates
  /\ revised \subseteq [sess: 0..Len(heap), ref: Refs, typ: Targets, got: SUBSET FieldNames]
  /\ count \in [Refs -> Nat]
  /\ shared \subseteq Refs \cup (1..Len(heap)) /\ contended \subseteq Refs
  /\ refused \subseteq 1..Len(heap)

Init ==
  /\ records = [r \in Refs |-> "absent"]
  /\ heap = <<>> /\ current = 0
  /\ at = [h \in Handlers |-> Free] /\ updates = 0
  /\ revised = {} /\ count = [r \in Refs |-> 0]
  /\ shared = {} /\ contended = {} /\ refused = {}

-----------------------------------------------------------------------------
(* activePendingID. *)
Busy == current # 0 /\ (heap[current].mode = "fast" \/ heap[current].ref # NoRef)

Subjects(r) == ({r.sess} \ {0}) \cup ({r.ref} \ {NoRef})

(* Handler h goes on as r; what it shares with another handler is noted.   *)
GoOn(h, r) ==
  /\ at' = [at EXCEPT ![h] = r]
  /\ shared' = shared \cup {x \in Subjects(r) : \E g \in Handlers \ {h} : x \in Subjects(at[g])}

Done(h) == GoOn(h, Free)
GoTo(h, place) == GoOn(h, [at[h] EXCEPT !.pc = place])

(* handleUpdate starts a handler. *)
Receive(h, r) ==
  /\ at[h].pc = "free" /\ updates < MaxUpdates
  /\ updates' = updates + 1
  /\ GoOn(h, r)

Hold(s, place) == [Free EXCEPT !.pc = place, !.sess = s, !.ref = heap[s].ref]

NewSession(mode, ref, typ, awaiting, got, draft) ==
  [mode |-> mode, ref |-> ref, typ |-> typ, awaiting |-> awaiting, idx |-> -1,
   got |-> got, draft |-> draft]

(* sessions.set with a session of its own. *)
SetNew(s) == heap' = Append(heap, s) /\ current' = Len(heap) + 1

(* fieldDefaultsFromDraft. *)
Defaults(text) == IF text THEN {TextField} ELSE {}

(* promptNextField: the next field to ask for; optional ones that have a   *)
(* value already are passed over.                                          *)
Asks(s, fields, j) ==
  /\ j >= s.idx
  /\ j < Len(fields) => fields[j + 1].required \/ fields[j + 1].name \notin s.got
  /\ \A i \in s.idx..(j - 1) :
       i < Len(fields) /\ ~fields[i + 1].required /\ fields[i + 1].name \in s.got

-----------------------------------------------------------------------------
(* The user has been asked for a field of session s and nothing runs.      *)
Prompting(s) ==
  /\ \A h \in Handlers : at[h].pc = "free"
  /\ heap[s].typ # NoTarget
  /\ heap[s].idx \in 0..Len(FieldsOf[heap[s].typ]) - 1

(* handleContent, the busy check: the chat has a session, whatever it is   *)
(* waiting for, and the message is refused.                                *)

RefuseContent ==
  /\ Busy /\ updates < MaxUpdates
  /\ updates' = updates + 1
  /\ refused' = refused \cup {s \in {current} : Prompting(s)}
  /\ UNCHANGED <<records, heap, current, at, revised, count, shared, contended>>

AdmitContent(h, text) ==
  /\ ~Busy
  /\ Receive(h, [Free EXCEPT !.pc = "route", !.text = text])
  /\ UNCHANGED <<records, heap, current, revised, count, contended, refused>>

(* handleContent, after it: the session is read again, and may be there.   *)
Route(h) ==
  LET held(place) == [Hold(current, place) EXCEPT !.text = at[h].text]
  IN  /\ at[h].pc = "route"
      /\ \/ /\ current # 0 /\ heap[current].mode = "fast" /\ heap[current].awaiting
            /\ GoOn(h, held("content"))
         \/ /\ current # 0 /\ ~heap[current].awaiting /\ heap[current].idx >= 0
            /\ GoOn(h, held("answer"))
         \/ /\ current # 0 => ~heap[current].awaiting /\ heap[current].idx < 0
            /\ GoTo(h, "draft")
      /\ UNCHANGED <<records, heap, current, updates, revised, count, contended, refused>>

(* buildDraft: a file is downloaded and put into the blob store, which may *)
(* fail.                                                                   *)
Draft(h) ==
  /\ at[h].pc = "draft"
  /\ Done(h) \/ GoTo(h, "capture")
  /\ UNCHANGED <<records, heap, current, updates, revised, count, contended, refused>>

(* Capture: it is stored as an incomplete record, unless the append fails, *)
Capture(h) ==
  /\ at[h].pc = "capture"
  /\ \/ Done(h) /\ UNCHANGED records
     \/ \E r \in Refs :
          /\ records[r] = "absent"
          /\ records' = [records EXCEPT ![r] = "incomplete"]
          /\ GoOn(h, [at[h] EXCEPT !.pc = "adopt", !.ref = r])
  /\ UNCHANGED <<heap, current, updates, revised, count, contended, refused>>

(* ... and becomes the chat's session, in place of any other.              *)
Adopt(h) ==
  /\ at[h].pc = "adopt"
  /\ SetNew(NewSession("classify", at[h].ref, NoTarget, FALSE, Defaults(at[h].text), TRUE))
  /\ Done(h)
  /\ UNCHANGED <<records, updates, revised, count, contended, refused>>

(* handleCallback: a key of the type keyboard, of this or an older capture. *)
Tap(h, t) ==
  /\ current # 0 /\ heap[current].ref # NoRef
  /\ Receive(h, [Hold(current, "begin") EXCEPT !.typ = t])
  /\ UNCHANGED <<records, heap, current, revised, count, contended, refused>>

(* beginClassifyFields. *)
Begin(h) ==
  LET s == at[h].sess
      t == at[h].typ
  IN  /\ at[h].pc = "begin"
      /\ heap' = [heap EXCEPT ![s].typ = t, ![s].idx = 0]
      /\ current' = s
      /\ GoTo(h, IF FieldsOf[t] = <<>> THEN "finish" ELSE "prompt")
      /\ UNCHANGED <<records, updates, revised, count, contended, refused>>

(* promptNextField: the user is asked, or nothing is left to ask.          *)
Prompt(h) ==
  LET s == at[h].sess
      fields == FieldsOf[at[h].typ]
  IN  /\ at[h].pc = "prompt"
      /\ \E j \in heap[s].idx..(heap[s].idx + Len(fields)) :
           /\ Asks(heap[s], fields, j)
           /\ heap' = [heap EXCEPT ![s].idx = j]
           /\ IF j < Len(fields) THEN Done(h) ELSE GoTo(h, "finish")
      /\ UNCHANGED <<records, current, updates, revised, count, contended, refused>>

(* handleFieldAnswer, up to FieldIndex++; a caption is not an answer.      *)
Answer(h) ==
  LET s == at[h].sess
      i == heap[s].idx
      fields == FieldsOf[heap[s].typ]
  IN  /\ at[h].pc = "answer"
      /\ IF i < Len(fields) /\ (at[h].text \/ ~fields[i + 1].required)
         THEN /\ GoOn(h, [at[h] EXCEPT !.pc = "advance", !.typ = heap[s].typ, !.read = i])
              /\ heap' = [heap EXCEPT ![s].got =
                            @ \cup (IF at[h].text THEN {fields[i + 1].name} ELSE {})]
         ELSE Done(h) /\ UNCHANGED heap
      /\ UNCHANGED <<records, current, updates, revised, count, contended, refused>>

(* Mutant: a required field can be skipped. *)
SkipAny(h) ==
  LET i == heap[current].idx
      t == heap[current].typ
  IN  /\ current # 0 /\ i >= 0 /\ i < Len(FieldsOf[t])
      /\ Receive(h, [Hold(current, "advance") EXCEPT !.typ = t, !.read = i])
      /\ UNCHANGED <<records, heap, current, revised, count, contended, refused>>

(* handleSkip, up to FieldIndex++. *)
Skip(h) ==
  LET i == heap[current].idx
      t == heap[current].typ
  IN  /\ current # 0 /\ i >= 0 /\ i < Len(FieldsOf[t])
      /\ ~FieldsOf[t][i + 1].required
      /\ Receive(h, [Hold(current, "advance") EXCEPT !.typ = t, !.read = i])
      /\ UNCHANGED <<records, heap, current, revised, count, contended, refused>>

(* FieldIndex++ and sessions.set.  The increment is not synchronised: it   *)
(* adds one to the value of now or to the one read before.                 *)
Advance(h) ==
  LET s == at[h].sess
  IN  /\ at[h].pc = "advance"
      /\ \E i \in {heap[s].idx + 1, at[h].read + 1} :
           /\ heap' = [heap EXCEPT ![s].idx = i]
           /\ GoTo(h, IF i >= Len(FieldsOf[at[h].typ]) THEN "finish" ELSE "prompt")
      /\ current' = s
      /\ UNCHANGED <<records, updates, revised, count, contended, refused>>

-----------------------------------------------------------------------------
(* startFastPath: the busy check ... *)
FastPath(h, t, args) ==
  /\ ~Busy
  /\ Receive(h, [Free EXCEPT !.pc = "start", !.typ = t, !.text = args])
  /\ UNCHANGED <<records, heap, current, revised, count, contended, refused>>

(* ... and the session, which takes the command's arguments as content.    *)
Start(h) ==
  /\ at[h].pc = "start"
  /\ SetNew(NewSession("fast", NoRef, at[h].typ, ~at[h].text, {}, FALSE))
  /\ IF at[h].text
     THEN GoOn(h, [Free EXCEPT !.pc = "content", !.sess = Len(heap) + 1, !.text = TRUE])
     ELSE Done(h)
  /\ UNCHANGED <<records, updates, revised, count, contended, refused>>

(* handleFastPathContent; a file may not be readable.                      *)
FastPathContent(h) ==
  LET s == at[h].sess
      t == heap[s].typ
  IN  /\ at[h].pc = "content"
      /\ \/ ~at[h].text /\ Done(h) /\ UNCHANGED <<heap, current>>
         \/ /\ heap' = [heap EXCEPT ![s] =
                  [@ EXCEPT !.draft = TRUE, !.awaiting = FALSE, !.got = Defaults(at[h].text),
                            !.idx = IF FieldsOf[t] = <<>> THEN heap[s].idx ELSE 0]]
            /\ current' = s
            /\ GoOn(h, [at[h] EXCEPT !.typ = t,
                            !.pc = IF FieldsOf[t] = <<>> THEN "finish" ELSE "prompt"])
      /\ UNCHANGED <<records, updates, revised, count, contended, refused>>

-----------------------------------------------------------------------------
(* /classify <ref> <type>: no session is involved, and no field.           *)
ClassifyCommand(h, r, t) ==
  /\ Receive(h, [Free EXCEPT !.pc = "finish", !.ref = r, !.typ = t])
  /\ UNCHANGED <<records, heap, current, revised, count, contended, refused>>

(* Mutant: the type of the session is not passed on. *)
OrderUntyped(h) ==
  IF at[h].sess = 0 THEN at[h]
  ELSE [at[h] EXCEPT !.typ = NoTarget, !.got = heap[at[h].sess].got]

(* What is to be appended: of the command, or of the session as it is now. *)
Order(h) ==
  IF at[h].sess = 0 THEN at[h]
  ELSE [at[h] EXCEPT !.typ = heap[at[h].sess].typ, !.got = heap[at[h].sess].got]

(* Mutant: the completeness of the record is not looked at. *)
FinishUnchecked(h) ==
  /\ at[h].pc = "finish"
  /\ IF at[h].ref # NoRef THEN records[at[h].ref] # "absent" ELSE heap[at[h].sess].draft
  /\ GoOn(h, [Order(h) EXCEPT !.pc = "append"])
  /\ UNCHANGED <<records, heap, current, updates, revised, count, contended, refused>>

(* Classify reads the record, which must be incomplete (finishFastPath:    *)
(* there must be a draft); the revision is built from what is read.        *)
Finish(h) ==
  /\ at[h].pc = "finish"
  /\ IF at[h].ref # NoRef THEN records[at[h].ref] = "incomplete" ELSE heap[at[h].sess].draft
  /\ GoOn(h, [Order(h) EXCEPT !.pc = "append"])
  /\ UNCHANGED <<records, heap, current, updates, revised, count, contended, refused>>

(* ErrNotFound, ErrNotIncomplete, or an error of the core: the user is     *)
(* told, and the session stays as it is.                                   *)
Fail(h) ==
  /\ at[h].pc \in {"finish", "append"}
  /\ Done(h)
  /\ UNCHANGED <<records, heap, current, updates, revised, count, contended, refused>>

(* AppendRevision: of the record that was read, or of a new one.  The core *)
(* takes an apply to a record in any state.                                *)
AppendRevision(h) ==
  LET fast == at[h].ref = NoRef
  IN  /\ at[h].pc = "append"
      /\ \E r \in Refs :
           /\ IF fast THEN records[r] = "absent" ELSE r = at[h].ref
           /\ records' = [records EXCEPT ![r] = "complete"]
           /\ count' = [count EXCEPT ![r] = @ + 1]
           /\ revised' = revised \cup
                {[sess |-> at[h].sess, ref |-> r, typ |-> at[h].typ, got |-> at[h].got]}
           /\ contended' = contended \cup
                {x \in {r} : \E g \in Handlers \ {h} : at[g].pc = "append" /\ at[g].ref = x}
      /\ GoTo(h, "clear")
      /\ UNCHANGED <<heap, current, updates, refused>>

(* Mutant: the session is not cleared after success. *)
ClearForgotten(h) ==
  /\ at[h].pc = "clear"
  /\ Done(h)
  /\ UNCHANGED <<records, heap, current, updates, revised, count, contended, refused>>

(* sessions.clear: the chat's session goes, whichever it is by now.        *)
Clear(h) ==
  /\ at[h].pc = "clear"
  /\ current' = 0
  /\ Done(h)
  /\ UNCHANGED <<records, heap, updates, revised, count, contended, refused>>

-----------------------------------------------------------------------------
(* /cancel, or expireLocked: nothing touched the session for its TTL.      *)
EndSession ==
  /\ current # 0 /\ current' = 0
  /\ UNCHANGED <<records, heap, at, updates, history>>

(* Another client of the core (MCP, HTTP) classifies or deletes a record.  *)
Elsewhere(r, c) ==
  /\ records[r] = "incomplete"
  /\ records' = [records EXCEPT ![r] = c]
  /\ shared' = shared \cup {r}
  /\ contended' = contended \cup
       {x \in {r} : \E g \in Handlers : at[g].pc = "append" /\ at[g].ref = x}
  /\ count' = [count EXCEPT ![r] = IF c = "complete" THEN @ + 1 ELSE @]
  /\ UNCHANGED <<heap, current, at, updates, revised, refused>>

(* The module dies (the Go runtime ends it when two handlers write one map *)
(* of collected fields at a time) and is started again: sessions are gone. *)
Crash ==
  /\ current' = 0
  /\ at' = [h \in Handlers |-> Free]
  /\ UNCHANGED <<records, heap, updates, history>>

Step(h) ==
  \/ Route(h)
  \/ Draft(h)
  \/ Capture(h)
  \/ Adopt(h)
  \/ Begin(h)
  \/ Prompt(h)
  \/ Answer(h)
  \/ Advance(h)
  \/ Start(h)
  \/ FastPathContent(h)
  \/ Finish(h)
  \/ Fail(h)
  \/ AppendRevision(h)
  \/ Clear(h)

Next ==
  \/ \E h \in Handlers : Step(h)
  \/ RefuseContent
  \/ \E h \in Handlers, text \in BOOLEAN : AdmitContent(h, text)
  \/ \E h \in Handlers, t \in Offered : Tap(h, t)
  \/ \E h \in Handlers : Skip(h)
  \/ \E h \in Handlers, t \in FastPaths, args \in BOOLEAN : FastPath(h, t, args)
  \/ \E h \in Handlers, r \in Refs, t \in Targets : ClassifyCommand(h, r, t)
  \/ EndSession
  \/ \E r \in Refs, c \in {"complete", "deleted"} : Elsewhere(r, c)
  \/ Crash

Spec == Init /\ [][Next]_vars

-----------------------------------------------------------------------------
Required(t) == {FieldsOf[t][i].name : i \in {j \in DOMAIN FieldsOf[t] : FieldsOf[t][j].required}}

(* A revision made from a session has a value for every required field of  *)
(* its type, whatever was skipped, defaulted from the message, asked again *)
(* after another tap, or answered by a late message: unless two parties    *)
(* worked on the session or its record at once (promptNextField,           *)
(* handleSkip, handleFieldAnswer).                                         *)
RequiredAnswered ==
  \A v \in revised :
    (v.sess # 0 /\ {v.sess, v.ref} \cap shared = {}) => Required(v.typ) \subseteq v.got

(* A record is given a type once, by whichever of the chat's sessions, a   *)
(* /classify or another client comes first.  Classify checks and appends   *)
(* in two calls, so the exceptions are the records that changed between.   *)
ClassifiedOnce ==
  \A r \in Refs \ contended : count[r] <= 1 /\ (records[r] = "deleted" => count[r] = 0)

(* When no handler runs, a chat that is busy with a record has one that    *)
(* still waits for its type: errors, cancellations, late taps and other    *)
(* sessions never leave the chat refusing messages on account of a record  *)
(* that is done.  Again two parties at once may.                           *)
BusyMeansOpen ==
  (current # 0 /\ \A h \in Handlers : at[h].pc = "free") =>
    LET s == heap[current]
    IN  s.ref # NoRef /\ {current, s.ref} \cap shared = {} => records[s.ref] = "incomplete"

(* docs/getting-started/telegram.md: "Answer any field prompts, or /skip   *)
(* optional fields."  A message sent while the chat waits for a field is   *)
(* its answer, and is not refused.                                         *)
AnswersTaken == refused = {}
=============================================================================

--------------------------- MODULE OpeningProofs ---------------------------
(***************************************************************************)
(* What the migrations do to the revisions an opening finds, for every     *)
(* database of an earlier version, every set of revisions and every number *)
(* of errors and crashes: the types of all the variables, the rows that    *)
(* are kept, and the sequences by which a record is replayed.              *)
(***************************************************************************)
EXTENDS StorageProofs, FiniteSetTheorems, FunctionTheorems, WellFoundedInduction

(* The tables a step of Open relies on: the DDL before it has made them.   *)
OpenShape ==
  /\ JournalTypeOK
  /\ pc \in Late => "revisions" \in schema
  /\ pc \in Late \ {"records"} => "record_revisions" \in schema
  /\ pc \in {"backfill", "configure", "open"} => "revisions_fts" \in schema

(* The variables beside the journal's. *)
RestShape ==
  /\ orphans \in BOOLEAN /\ dirs \subseteq Putters
  /\ found \in Databases

(* The steps of Open after the one that renames the events. *)
Past == {"ordering", "producer", "references", "schema"} \cup Late

(* Old tables are those that were found.  Where no error has hidden the    *)
(* table of the events, it is gone once its migration is past, and never   *)
(* stands beside one of the revisions.                                     *)
EventsShape ==
  /\ "events" \in schema =>
       "events" \in found.schema /\ (~PreRecords => "events.operation" \in cols)
  /\ "events" \in schema \ overlooked => "revisions" \notin schema /\ pc \notin Past

(* What was found of a table is under one of its two names, and under the  *)
(* old one only while the events are.                                      *)
KeptUnder(t) ==
  overlooked \cap {"events", t, Renamed[t]} = {} =>
    /\ Held(t, Renamed[t]) \subseteq rows[t] \cup rows[Renamed[t]]
    /\ "events" \notin schema => rows[Renamed[t]] = {}

KeptTables == {"revisions", "record_revisions", "revision_dispatch"}

KeptInv == EventsShape /\ (~PreRecords => \A t \in KeptTables : KeptUnder(t))

(* Where there is no sequence, every revision is one that was found. *)
FoundInv ==
  /\ "sequence" \in cols => "revisions" \in schema
  /\ rows["events"] \subseteq found.rows["events"]
  /\ "sequence" \notin cols => rows["revisions"] \subseteq Held("revisions", "events")

(* Ordered, of every state with sequences. *)
InOrder(r, s) ==
  /\ seq[r] # seq[s]
  /\ s \in Held("revisions", "events") /\ seq[r] < seq[s] /\ found.seq[s] = 0
       => r \in Held("revisions", "events") /\ Precedes(r, s)

OrderInv == "sequence" \in cols => \A r \in rows["revisions"] :
  /\ seq[r] > 0
  /\ \A s \in rows["revisions"] : (RecordOf[r] = RecordOf[s] /\ r # s) => InOrder(r, s)

-----------------------------------------------------------------------------
(* A finite set of numbers has a greatest element: a smallest subset that  *)
(* had none would have one less an element.                                *)
LEMMA Greatest ==
  ASSUME NEW S, S \subseteq Int, IsFiniteSet(S), S # {}
  PROVE  Max(S) \in S /\ \A y \in S : Max(S) >= y
  <1> DEFINE HasMax(U) == \E x \in U : \A y \in U : x >= y
             Without == {U \in FiniteSubsetsOf(S) : U # {} /\ ~HasMax(U)}
  <1>1. Without = {}
    <2> SUFFICES ASSUME Without # {} PROVE FALSE
      OBVIOUS
    <2>1. PICK U \in Without : \A V \in Without : <<V, U>> \notin StrictSubsetOrdering(S)
      <3> HIDE DEF Without
      <3>1. Without \subseteq FiniteSubsetsOf(S)
        BY DEF Without
      <3> QED
        BY <3>1, FS_StrictSubsetOrderingWellFounded, WFMin
    <2>2. U \subseteq S /\ IsFiniteSet(U) /\ U # {} /\ ~HasMax(U)
      BY DEF FiniteSubsetsOf
    <2> HIDE DEF HasMax
    <2>3. PICK x \in U : TRUE
      BY <2>2
    <2> DEFINE V == U \ {x}
    <2>4. IsFiniteSet(V) /\ V \subseteq S /\ V # U
      BY <2>2, <2>3, FS_RemoveElement
    <2>5. V = {} \/ HasMax(V)
      <3>1. <<V, U>> \notin StrictSubsetOrdering(S) \/ V \notin Without
        BY <2>1
      <3>2. <<V, U>> \in StrictSubsetOrdering(S)
        BY <2>2, <2>4 DEF StrictSubsetOrdering
      <3>3. V \in FiniteSubsetsOf(S)
        BY <2>4 DEF FiniteSubsetsOf
      <3> QED
        BY <3>1, <3>2, <3>3
    <2>6. HasMax(U)
      <3>1. CASE V = {}
        <4>1. \A y \in U : x >= y
          BY <3>1, <2>2, <2>3
        <4> QED
          BY <4>1, <2>3 DEF HasMax
      <3>2. CASE HasMax(V)
        <4>1. PICK m \in V : \A y \in V : m >= y
          BY <3>2 DEF HasMax
        <4>2. m \in U /\ m \in Int /\ x \in Int /\ \A y \in U : y \in Int
          BY <2>2, <2>3
        <4>3. CASE x >= m
          <5>1. \A y \in U : x >= y
            BY <4>1, <4>2, <4>3
          <5> QED
            BY <5>1, <2>3 DEF HasMax
        <4>4. CASE m >= x
          <5>1. \A y \in U : m >= y
            BY <4>1, <4>2, <4>4
          <5> QED
            BY <5>1, <4>2 DEF HasMax
        <4> QED
          BY <4>2, <4>3, <4>4
      <3> QED
        BY <3>1, <3>2, <2>5
    <2> QED
      BY <2>2, <2>6
  <1>2. HasMax(S)
    <2>1. S \in FiniteSubsetsOf(S)
      BY DEF FiniteSubsetsOf
    <2> QED
      BY <1>1, <2>1
  <1> QED
    BY <1>2 DEF Max

(* What a new revision of a record comes after. *)
LEMMA NextSequenceIsLast ==
  ASSUME JournalTypeOK, NEW r \in Ids
  PROVE  /\ NextSequence(r) \in Nat \ {0}
         /\ \A s \in rows["revisions"] : RecordOf[s] = RecordOf[r] => seq[s] < NextSequence(r)
  <1> DEFINE Mine == {x \in rows["revisions"] : RecordOf[x] = RecordOf[r]}
             Numbers == {0} \cup {seq[s] : s \in Mine}
  <1>1. Mine \subseteq Ids /\ IsFiniteSet(Mine)
    <2>1. Mine \subseteq Ids
      BY TableNames DEF JournalTypeOK
    <2> QED
      BY <2>1, IdsAssumption, FS_Subset
  <1>2. IsFiniteSet({seq[s] : s \in Mine})
    <2> DEFINE f == [s \in Mine |-> seq[s]]
               T == {seq[s] : s \in Mine}
    <2>1. f \in [Mine -> T] /\ \A t \in T : \E s \in Mine : f[s] = t
      <3> HIDE DEF Mine
      <3> QED
        OBVIOUS
    <2>2. f \in Surjection(Mine, T)
      <3> HIDE DEF f, T, Mine
      <3> QED
        BY <2>1 DEF Surjection
    <2>3. IsFiniteSet(T)
      <3> HIDE DEF f, T, Mine
      <3> QED
        BY <2>2, <1>1, FS_Surjection
    <2> QED
      BY <2>3
  <1>3. IsFiniteSet(Numbers) /\ Numbers \subseteq Nat /\ 0 \in Numbers
    <2>1. IsFiniteSet({0})
      BY FS_Singleton
    <2>2. Numbers \subseteq Nat
      BY <1>1 DEF JournalTypeOK
    <2>3. IsFiniteSet(Numbers)
      <3> DEFINE T == {seq[s] : s \in Mine}
      <3>1. IsFiniteSet(T)
        BY <1>2
      <3> HIDE DEF T
      <3>2. IsFiniteSet({0} \cup T)
        BY <2>1, <3>1, FS_Union
      <3> QED
        BY <3>2 DEF T
    <2> QED
      BY <2>2, <2>3
  <1>4. Max(Numbers) \in Numbers /\ \A y \in Numbers : Max(Numbers) >= y
    <2> HIDE DEF Numbers
    <2>1. Numbers \subseteq Int /\ Numbers # {}
      BY <1>3
    <2> QED
      BY <2>1, <1>3, Greatest
  <1>5. NextSequence(r) = 1 + Max(Numbers)
    BY DEF NextSequence
  <1>6. \A s \in rows["revisions"] : RecordOf[s] = RecordOf[r] => seq[s] \in Numbers
    OBVIOUS
  <1> HIDE DEF Numbers, Mine
  <1>7. Max(Numbers) \in Nat
    BY <1>3, <1>4
  <1>8. \A y \in Numbers : y \in Nat /\ y < 1 + Max(Numbers)
    BY <1>3, <1>4, <1>7
  <1>9. 1 + Max(Numbers) \in Nat \ {0}
    BY <1>7
  <1> QED
    BY <1>5, <1>6, <1>8, <1>9

-----------------------------------------------------------------------------
(* The types of the journal's variables.  An error of a query is one more  *)
(* fault.                                                                  *)
LEMMA OverlookShape ==
  ASSUME JournalTypeOK, NEW hidden, Overlook(hidden), IsFiniteSet(hidden)
  PROVE  overlooked' \subseteq Tables /\ faults' \in 0 .. MaxFaults /\ overlooked \subseteq overlooked'
  BY FS_CardinalityType, FaultsAssumption DEF JournalTypeOK, Overlook

(* A step that changes no table. *)
LEMMA FrameOpenShape ==
  ASSUME OpenShape, UNCHANGED tables, faults' \in 0 .. MaxFaults, overlooked' \subseteq Tables,
         pc' \in Steps \cup {"closed", "open"},
         pc' \in Late => pc \in Late,
         pc' \in Late \ {"records"} => pc \in Late \ {"records"},
         pc' \in {"backfill", "configure", "open"} => pc \in {"backfill", "configure", "open"}
  PROVE  OpenShape'
  BY DEF OpenShape, JournalTypeOK, tables

LEMMA HiddenFinite ==
  ASSUME NEW hidden,
         hidden \subseteq {"revisions", "record_heads"} \cup {Renamed[t] : t \in DOMAIN Renamed}
  PROVE  IsFiniteSet(hidden)
  <1>1. \A t \in DOMAIN Renamed :
          Renamed[t] \in {"events", "record_events", "event_dispatch", "events_fts"}
    BY RenamedFacts
  <1> DEFINE S == {"revisions", "record_heads", "events", "record_events", "event_dispatch",
                   "events_fts"}
  <1>2. hidden \subseteq S
    BY <1>1
  <1>3. IsFiniteSet(S)
    <2>1. S = ((((({} \cup {"revisions"}) \cup {"record_heads"}) \cup {"events"})
                 \cup {"record_events"}) \cup {"event_dispatch"}) \cup {"events_fts"}
      OBVIOUS
    <2> HIDE DEF S
    <2> QED
      BY <2>1, FS_EmptySet, FS_AddElement
  <1> HIDE DEF S
  <1> QED
    BY <1>2, <1>3, FS_Subset

LEMMA PreRecordsOpenShape ==
  ASSUME OpenShape, NEW hidden, IsFiniteSet(hidden), MigratePreRecordsShape(hidden)
  PROVE  OpenShape'
  <1>1. overlooked' \subseteq Tables /\ faults' \in 0 .. MaxFaults
    BY OverlookShape DEF OpenShape, MigratePreRecordsShape
  <1>2. pc' = "rename" /\ pc' \in Steps
    BY DEF MigratePreRecordsShape, Skip, Goto, Steps
  <1>3. CASE UNCHANGED tables
    BY <1>1, <1>2, <1>3, FrameOpenShape DEF Late
  <1>4. CASE ~UNCHANGED tables
    <2>1. /\ schema' = schema \ {"events", "events_fts"} /\ UNCHANGED <<cols, seq>>
          /\ rows' = [rows EXCEPT !["events"] = {}, !["events_fts"] = {}]
      BY <1>4 DEF MigratePreRecordsShape, Skip
    <2>2. rows' \in [Tables -> SUBSET Ids] /\ \A t \in Tables \ schema' : rows'[t] = {}
      BY <2>1, TableNames DEF OpenShape, JournalTypeOK
    <2> QED
      BY <1>1, <1>2, <2>1, <2>2 DEF OpenShape, JournalTypeOK, Late
  <1> QED
    BY <1>3, <1>4

(* The tables that the renaming sees, and their new names. *)
Seen(hidden) == {old \in {Renamed[t] : t \in DOMAIN Renamed} : Exists(old, hidden)}
Named(hidden) == {t \in DOMAIN Renamed : Renamed[t] \in Seen(hidden)}

(* What the renaming does where it does anything. *)
LEMMA RenameEffect ==
  ASSUME NEW hidden, MigrateEventsToRevisions(hidden), ~UNCHANGED tables
  PROVE  /\ "events" \in Seen(hidden) /\ Named(hidden) \cap schema = {}
         /\ "events.operation" \in cols
         /\ schema' = (schema \ Seen(hidden)) \cup Named(hidden)
         /\ cols' = cols \ {"events.operation"} /\ pc' = "ordering" /\ seq' = seq
         /\ "revisions" \in Named(hidden) /\ "revisions" \notin schema
         /\ rows' = [t \in Tables |->
                       IF t \in Seen(hidden) THEN {}
                       ELSE IF t \in Named(hidden)
                         THEN IF t = "revisions_fts" THEN rows["events"] ELSE rows[Renamed[t]]
                       ELSE rows[t]]
  <1>1. /\ "events" \in Seen(hidden) /\ Named(hidden) \cap schema = {}
        /\ "events.operation" \in cols
        /\ schema' = (schema \ Seen(hidden)) \cup Named(hidden)
        /\ cols' = cols \ {"events.operation"} /\ pc' = "ordering" /\ seq' = seq
        /\ rows' = RenamedRows(Seen(hidden))
    BY DEF MigrateEventsToRevisions, Skip, Abort, Goto, Seen, Named
  <1>2. "revisions" \in Named(hidden)
    BY <1>1, RenamedFacts DEF Named
  <1> QED
    BY <1>1, <1>2 DEF RenamedRows, Named

LEMMA RenameOpenShape ==
  ASSUME OpenShape, NEW hidden, IsFiniteSet(hidden), MigrateEventsToRevisions(hidden)
  PROVE  OpenShape'
  <1> DEFINE seen == Seen(hidden)
             named == Named(hidden)
  <1>1. overlooked' \subseteq Tables /\ faults' \in 0 .. MaxFaults
    BY OverlookShape DEF OpenShape, MigrateEventsToRevisions
  <1>2. pc' \in {"ordering", "closed"}
    BY DEF MigrateEventsToRevisions, Skip, Abort, Goto
  <1>3. CASE UNCHANGED tables
    BY <1>1, <1>2, <1>3, FrameOpenShape DEF Late, Steps
  <1>4. CASE ~UNCHANGED tables
    <2>1. /\ schema' = (schema \ seen) \cup named
          /\ cols' = cols \ {"events.operation"} /\ seq' = seq
          /\ rows' = [t \in Tables |->
                        IF t \in seen THEN {}
                        ELSE IF t \in named
                          THEN IF t = "revisions_fts" THEN rows["events"] ELSE rows[Renamed[t]]
                        ELSE rows[t]]
      BY <1>4, RenameEffect
    <2>2. named \subseteq Tables /\ \A t \in named : Renamed[t] \in Tables
      BY TableNames DEF Named
    <2> HIDE DEF seen, named
    <2>3. rows' \in [Tables -> SUBSET Ids]
      <3>1. rows \in [Tables -> SUBSET Ids] /\ "events" \in Tables
        BY TableNames DEF OpenShape, JournalTypeOK
      <3> QED
        BY <2>1, <2>2, <3>1
    <2>4. ASSUME NEW t \in Tables \ schema' PROVE rows'[t] = {}
      BY <2>1, <2>4 DEF OpenShape, JournalTypeOK
    <2>5. schema' \subseteq Tables /\ cols' \subseteq Columns /\ seq' \in [Ids -> Nat]
      BY <2>1, <2>2 DEF OpenShape, JournalTypeOK
    <2>6. pc' \in Steps \cup {"closed", "open"} /\ pc' \notin Late
      BY <1>2 DEF Steps, Late
    <2> QED
      BY <1>1, <2>3, <2>4, <2>5, <2>6 DEF OpenShape, JournalTypeOK, Late
  <1> QED
    BY <1>3, <1>4

(* Every revision has at least its own place, and there are finitely many. *)
LEMMA NumberedShape ==
  ASSUME JournalTypeOK
  PROVE  Numbered \in [Ids -> Nat] /\ \A r \in rows["revisions"] : Numbered[r] > 0
  <1>1. rows["revisions"] \subseteq Ids
    BY TableNames DEF JournalTypeOK
  <1>2. ASSUME NEW r \in rows["revisions"]
        PROVE  Numbered[r] \in Nat /\ Numbered[r] > 0
    <2> DEFINE Before == {s \in rows["revisions"] : Precedes(s, r)}
    <2>1. Before \subseteq Ids /\ IsFiniteSet(Before)
      <3>1. Before \in SUBSET Ids
        BY <1>1
      <3> HIDE DEF Before
      <3> QED
        BY <3>1, IdsAssumption, FS_Subset
    <2>2. r \in Before
      <3>1. r \in Nat
        BY <1>1, <1>2, IdsAssumption
      <3>2. r <= r
        BY <3>1
      <3>3. Precedes(r, r)
        BY <3>2 DEF Precedes
      <3> QED
        BY <3>3
    <2>3. Cardinality(Before) \in Nat /\ Cardinality(Before) # 0
      <3> HIDE DEF Before
      <3> QED
        BY <2>1, <2>2, FS_CardinalityType, FS_EmptySet
    <2>4. Numbered[r] = Cardinality(Before)
      BY <1>1 DEF Numbered
    <2> HIDE DEF Before
    <2> QED
      BY <2>3, <2>4
  <1>3. \A r \in Ids : Numbered[r] \in Nat
    <2>1. \A r \in Ids \ rows["revisions"] : Numbered[r] = seq[r]
      BY DEF Numbered
    <2> QED
      BY <1>2, <2>1 DEF JournalTypeOK
  <1>4. Numbered = [r \in Ids |-> Numbered[r]]
    BY DEF Numbered
  <1> QED
    BY <1>2, <1>3, <1>4

LEMMA ColumnsOpenShape ==
  ASSUME OpenShape, NEW hidden, IsFiniteSet(hidden),
         MigrateReplayOrdering(hidden) \/ MigrateProducer(hidden) \/ MigrateReferences(hidden)
  PROVE  OpenShape'
  <1>1. overlooked' \subseteq Tables /\ faults' \in 0 .. MaxFaults
    BY OverlookShape DEF OpenShape, MigrateReplayOrdering, MigrateProducer, MigrateReferences
  <1>2. pc' \in {"producer", "references", "schema", "closed"} /\ UNCHANGED <<schema, rows>>
    BY DEF MigrateReplayOrdering, MigrateProducer, MigrateReferences, Skip, Abort, Goto, tables
  <1>3. cols' \subseteq Columns
    BY DEF MigrateReplayOrdering, MigrateProducer, MigrateReferences, Skip, Abort, tables, OpenShape,
       JournalTypeOK, Columns, RevisionColumns
  <1>4. seq' = seq \/ seq' = Numbered
    BY DEF MigrateReplayOrdering, MigrateProducer, MigrateReferences, Skip, Abort, tables
  <1>5. seq' \in [Ids -> Nat]
    BY <1>4, NumberedShape DEF OpenShape, JournalTypeOK
  <1> QED
    BY <1>1, <1>2, <1>3, <1>5 DEF OpenShape, JournalTypeOK, Late, Steps

(* A block of DDL makes the tables it names, in their order. *)
LEMMA CreateOpenShape ==
  ASSUME OpenShape, NEW step, NEW names, NEW made, NEW next, Create(step, names, made, next),
         \A i \in 1 .. made : names[i] \in NewTables, next \in Steps
  PROVE  /\ JournalTypeOK'
         /\ schema' = schema \cup {names[i] : i \in 1 .. made}
         /\ pc' \in {next, "closed"} /\ pc = step
         /\ pc' = next => made = Len(names)
         /\ UNCHANGED <<rows, seq, overlooked>> /\ cols \subseteq cols'
  <1> DEFINE new == {names[i] : i \in 1 .. made} \ schema
  <1>1. /\ faults' = faults + (IF made < Len(names) THEN 1 ELSE 0) /\ faults' <= MaxFaults
        /\ schema' = schema \cup new
        /\ cols' = cols \cup UNION {ColumnsOf(t) : t \in new}
        /\ UNCHANGED <<rows, seq, overlooked>>
    BY DEF Create
  <1>2. new \subseteq Tables
    BY DEF Tables
  <1>3. UNION {ColumnsOf(t) : t \in new} \subseteq Columns
    BY DEF ColumnsOf, Columns
  <1>4. faults' \in 0 .. MaxFaults
    BY <1>1, FaultsAssumption DEF OpenShape, JournalTypeOK
  <1>5. pc' \in {next, "closed"} /\ pc = step /\ (pc' = next => made = Len(names))
    BY DEF Create, Goto, Steps
  <1> QED
    BY <1>1, <1>2, <1>3, <1>4, <1>5 DEF OpenShape, JournalTypeOK

(* The four blocks, and what each has made when it goes on. *)
LEMMA CreateTablesOpenShape ==
  ASSUME OpenShape, CreateTables
  PROVE  /\ OpenShape'
         /\ \E new \in SUBSET NewTables : schema' = schema \cup new
         /\ pc \in Past /\ UNCHANGED <<rows, seq, overlooked>> /\ cols \subseteq cols'
  <1>1. CASE SchemaDDL
    <2>1. PICK made \in 0 .. 1 : Create("schema", <<"revisions">>, made, "records")
      BY <1>1 DEF SchemaDDL
    <2> DEFINE names == <<"revisions">>
    <2>2. \A i \in 1 .. made : names[i] \in NewTables
      BY RenamedFacts DEF NewTables
    <2>3. /\ JournalTypeOK' /\ schema' = schema \cup {names[i] : i \in 1 .. made}
          /\ pc' \in {"records", "closed"} /\ pc = "schema" /\ (pc' = "records" => made = Len(names))
          /\ UNCHANGED <<rows, seq, overlooked>> /\ cols \subseteq cols'
      BY <2>1, <2>2, CreateOpenShape DEF Steps
    <2>4. pc' = "records" => "revisions" \in schema'
      <3>1. ASSUME pc' = "records" PROVE "revisions" \in schema'
        <4>1. 1 \in 1 .. made /\ names[1] = "revisions"
          BY <2>3, <3>1
        <4> QED
          BY <2>3, <4>1
      <3> QED
        BY <3>1
    <2> QED
      BY <2>2, <2>3, <2>4 DEF OpenShape, Late, Past
  <1>2. CASE RecordsSchemaDDL
    <2>1. PICK made \in 0 .. 3 :
            Create("records", <<"record_heads", "record_revisions", "records_fts">>, made, "routing")
      BY <1>2 DEF RecordsSchemaDDL
    <2> DEFINE names == <<"record_heads", "record_revisions", "records_fts">>
    <2>2. \A i \in 1 .. made : names[i] \in NewTables
      <3>1. \A i \in 1 .. 3 : names[i] \in {"record_heads", "record_revisions", "records_fts"}
        OBVIOUS
      <3> QED
        BY <3>1, RenamedFacts DEF NewTables
    <2>3. /\ JournalTypeOK' /\ schema' = schema \cup {names[i] : i \in 1 .. made}
          /\ pc' \in {"routing", "closed"} /\ pc = "records" /\ (pc' = "routing" => made = Len(names))
          /\ UNCHANGED <<rows, seq, overlooked>> /\ cols \subseteq cols'
      BY <2>1, <2>2, CreateOpenShape DEF Steps
    <2>4. pc' = "routing" => "record_revisions" \in schema'
      <3>1. ASSUME pc' = "routing" PROVE "record_revisions" \in schema'
        <4>1. 2 \in 1 .. made /\ names[2] = "record_revisions"
          BY <2>3, <3>1
        <4> QED
          BY <2>3, <4>1
      <3> QED
        BY <3>1
    <2> QED
      BY <2>2, <2>3, <2>4 DEF OpenShape, Late, Past
  <1>3. CASE RoutingSchemaDDL
    <2>1. PICK made \in 0 .. 2 :
            Create("routing", <<"router_state", "revision_dispatch">>, made, "fts")
      BY <1>3 DEF RoutingSchemaDDL
    <2> DEFINE names == <<"router_state", "revision_dispatch">>
    <2>2. \A i \in 1 .. made : names[i] \in NewTables
      <3>1. \A i \in 1 .. 2 : names[i] \in {"router_state", "revision_dispatch"}
        OBVIOUS
      <3> QED
        BY <3>1, RenamedFacts DEF NewTables
    <2>3. /\ JournalTypeOK' /\ schema' = schema \cup {names[i] : i \in 1 .. made}
          /\ pc' \in {"fts", "closed"} /\ pc = "routing"
          /\ UNCHANGED <<rows, seq, overlooked>> /\ cols \subseteq cols'
      BY <2>1, <2>2, CreateOpenShape DEF Steps
    <2> QED
      BY <2>2, <2>3 DEF OpenShape, Late, Past
  <1>4. CASE FtsSchemaDDL
    <2>1. PICK made \in 0 .. 1 : Create("fts", <<"revisions_fts">>, made, "backfill")
      BY <1>4 DEF FtsSchemaDDL
    <2> DEFINE names == <<"revisions_fts">>
    <2>2. \A i \in 1 .. made : names[i] \in NewTables
      BY RenamedFacts DEF NewTables
    <2>3. /\ JournalTypeOK' /\ schema' = schema \cup {names[i] : i \in 1 .. made}
          /\ pc' \in {"backfill", "closed"} /\ pc = "fts" /\ (pc' = "backfill" => made = Len(names))
          /\ UNCHANGED <<rows, seq, overlooked>> /\ cols \subseteq cols'
      BY <2>1, <2>2, CreateOpenShape DEF Steps
    <2>4. pc' = "backfill" => "revisions_fts" \in schema'
      <3>1. ASSUME pc' = "backfill" PROVE "revisions_fts" \in schema'
        <4>1. 1 \in 1 .. made /\ names[1] = "revisions_fts"
          BY <2>3, <3>1
        <4> QED
          BY <2>3, <4>1
      <3> QED
        BY <3>1
    <2> QED
      BY <2>2, <2>3, <2>4 DEF OpenShape, Late, Past
  <1> QED
    BY <1>1, <1>2, <1>3, <1>4 DEF CreateTables

LEMMA RestOpenShape ==
  ASSUME OpenShape,
         BeginOpen \/ MigrateFTS \/ ConfigureDB \/ Interrupt \/ UNCHANGED journalVars
  PROVE  OpenShape'
  <1>1. CASE BeginOpen
    BY <1>1, FrameOpenShape DEF BeginOpen, Skip, Goto, Steps, Late, OpenShape, JournalTypeOK
  <1>2. CASE MigrateFTS
    <2>1. rows' \in [Tables -> SUBSET Ids]
      BY <1>2, TableNames DEF MigrateFTS, OpenShape, JournalTypeOK
    <2>2. \A t \in Tables \ schema' : rows'[t] = {}
      BY <1>2, TableNames DEF MigrateFTS, OpenShape, JournalTypeOK
    <2> QED
      BY <1>2, <2>1, <2>2 DEF MigrateFTS, Goto, Steps, Late, OpenShape, JournalTypeOK
  <1>3. CASE ConfigureDB
    BY <1>3, FrameOpenShape DEF ConfigureDB, Skip, Goto, Steps, Late, OpenShape, JournalTypeOK
  <1>4. CASE Interrupt
    <2>1. faults' \in 0 .. MaxFaults
      BY <1>4, FaultsAssumption DEF Interrupt, OpenShape, JournalTypeOK
    <2> QED
      BY <1>4, <2>1, FrameOpenShape DEF Interrupt, Abort, Goto, Late, OpenShape, JournalTypeOK
  <1>5. CASE UNCHANGED journalVars
    BY <1>5 DEF journalVars, OpenShape, JournalTypeOK
  <1> QED
    BY <1>1, <1>2, <1>3, <1>4, <1>5

LEMMA AppendOpenShape ==
  ASSUME OpenShape, NEW r \in Ids, AppendRevision(r) PROVE OpenShape'
  <1>1. NextSequence(r) \in Nat
    BY NextSequenceIsLast DEF OpenShape
  <1>2. seq' \in [Ids -> Nat]
    BY <1>1 DEF AppendRevision, OpenShape, JournalTypeOK
  <1>3. rows' \in [Tables -> SUBSET Ids]
    BY TableNames DEF AppendRevision, OpenShape, JournalTypeOK
  <1>4. {"revisions", "record_revisions", "revisions_fts"} \subseteq schema /\ schema' = schema
    BY DEF AppendRevision, OpenShape, Late
  <1>5. \A t \in Tables \ schema' : rows'[t] = {}
    BY <1>4, TableNames DEF AppendRevision, OpenShape, JournalTypeOK
  <1> QED
    BY <1>2, <1>3, <1>5 DEF AppendRevision, OpenShape, JournalTypeOK

(* What a step of the storage is to the journal. *)
LEMMA JournalSteps ==
  ASSUME [Next]_storageVars
  PROVE  /\ found' = found
         /\ \/ \E hidden : IsFiniteSet(hidden) /\ MigratePreRecordsShape(hidden)
            \/ \E hidden : IsFiniteSet(hidden) /\ MigrateEventsToRevisions(hidden)
            \/ \E hidden : IsFiniteSet(hidden) /\
                 (MigrateReplayOrdering(hidden) \/ MigrateProducer(hidden)
                    \/ MigrateReferences(hidden))
            \/ CreateTables
            \/ BeginOpen \/ MigrateFTS \/ ConfigureDB \/ Interrupt \/ UNCHANGED journalVars
            \/ \E r \in Ids : AppendRevision(r)
  <1>1. CASE Opening
    <2>1. found' = found /\ OpenStep
      BY <1>1 DEF Opening
    <2>2. CASE Migrate
      BY <2>1, <2>2, HiddenFinite DEF Migrate
    <2> QED
      BY <2>1, <2>2 DEF OpenStep
  <1>2. CASE \E r \in Ids : HandleRecords(r) \/ \E w \in Putters : AppendWithBlob(w, r)
    BY <1>2 DEF HandleRecords, AppendWithBlob
  <1>3. CASE Crash
    BY <1>3 DEF Crash
  <1>4. CASE \/ \E w \in Putters : Putting(w) \/ HandlePutBlob(w)
             \/ UNCHANGED storageVars
    BY <1>4 DEF Putting, HandlePutBlob, storageVars
  <1> QED
    BY <1>1, <1>2, <1>3, <1>4 DEF Next

LEMMA NextOpenShape ==
  ASSUME OpenShape, [Next]_storageVars PROVE OpenShape'
  BY JournalSteps, PreRecordsOpenShape, RenameOpenShape, ColumnsOpenShape, CreateTablesOpenShape,
     RestOpenShape, AppendOpenShape

(* The variables beside the journal's. *)
LEMMA NextRestShape ==
  ASSUME BlobInv, RestShape, [Next]_storageVars PROVE RestShape'
  <1>1. found' = found
    BY JournalSteps
  <1>2. CASE UNCHANGED <<orphans, dirs>>
    BY <1>1, <1>2 DEF RestShape
  <1>3. ASSUME NEW w \in Putters, Putting(w) PROVE RestShape'
    BY <1>1, <1>3 DEF RestShape, Putting, BeginPut, PutStep, Write, Known, CreateCommit, Stage, Commit,
       RemoveDir, ForgetPut, PutFails, files
  <1>4. CASE Crash
    BY <1>1, <1>4 DEF RestShape, Crash, BlobCrash
  <1> QED
    BY <1>2, <1>3, <1>4 DEF Next, Opening, HandlePutBlob, AppendWithBlob, HandleRecords, storageVars,
       blobVars, files

LEMMA InitOpenShape == Init => OpenShape /\ RestShape
  <1> SUFFICES ASSUME Init PROVE OpenShape /\ RestShape
    OBVIOUS
  <1>1. PICK d \in Databases : schema = d.schema /\ rows = d.rows /\ cols = d.cols /\ seq = d.seq
    BY DEF Init, JournalInit
  <1>2. d \in [schema : SUBSET Tables, cols : SUBSET Columns, rows : [Tables -> SUBSET Ids],
               seq : [Ids -> Nat]]
    BY DatabasesAssumption
  <1>3. found = d
    BY <1>1, <1>2 DEF Init
  <1>4. \A t \in Tables \ schema : rows[t] = {}
    BY <1>1, DatabasesAssumption
  <1>5. pc = "closed" /\ overlooked = {} /\ faults \in 0 .. MaxFaults
    BY FaultsAssumption DEF Init, JournalInit
  <1>6. OpenShape
    BY <1>1, <1>2, <1>4, <1>5 DEF OpenShape, JournalTypeOK, Late
  <1>7. RestShape
    BY <1>3 DEF RestShape, Init, BlobInit
  <1> QED
    BY <1>6, <1>7

LEMMA ShapesInvariant == Spec => [](OpenShape /\ RestShape)
  <1>1. Init => OpenShape /\ RestShape
    BY InitOpenShape
  <1>2. OpenShape /\ RestShape /\ StorageInv /\ [Next]_storageVars => (OpenShape /\ RestShape)'
    BY NextOpenShape, NextRestShape DEF StorageInv
  <1> QED
    BY <1>1, <1>2, StorageInvariant, PTL DEF Spec

(* Every variable of the storage has its type, in every reachable state:   *)
(* the sequences that are counted, and those that come after the greatest, *)
(* are numbers (migrate.go:199-242, store.go:238-247).                     *)
THEOREM StorageTypesCorrect == Spec => []TypeOK
  <1>1. OpenShape /\ RestShape /\ StorageInv => TypeOK
    BY DEF OpenShape, RestShape, StorageInv, BlobInv, PutShape, BlobsShape, RefsInv, TypeOK,
       BlobTypeOK, File
  <1> QED
    BY <1>1, ShapesInvariant, StorageInvariant, PTL

-----------------------------------------------------------------------------
(* A step that takes no table away and no row, and makes none of the old   *)
(* tables.                                                                 *)
LEMMA FrameKeptInv ==
  ASSUME KeptInv, found' = found, overlooked \subseteq overlooked', cols \subseteq cols',
         "events" \in schema' => "events" \in schema,
         "events" \in schema => "events" \in schema',
         "events" \in schema' \ overlooked' => "revisions" \notin schema' /\ pc' \notin Past,
         \A t \in KeptTables : rows[t] \subseteq rows'[t] /\ rows'[Renamed[t]] = rows[Renamed[t]]
  PROVE  KeptInv'
  BY DEF KeptInv, EventsShape, KeptUnder, KeptTables, Held, PreRecords

(* Only a database from before records is wiped. *)
LEMMA PreRecordsKeptInv ==
  ASSUME KeptInv, OpenShape, NEW hidden, MigratePreRecordsShape(hidden), found' = found
  PROVE  KeptInv'
  <1>1. overlooked \subseteq overlooked' /\ pc' \notin Past
    BY DEF MigratePreRecordsShape, Overlook, Skip, Goto, Past, Late
  <1>2. CASE UNCHANGED tables
    BY <1>1, <1>2, FrameKeptInv DEF tables, KeptInv, EventsShape
  <1>3. CASE ~UNCHANGED tables
    <2>1. /\ "events" \in schema /\ "events.operation" \notin cols
          /\ schema' = schema \ {"events", "events_fts"}
      BY <1>3 DEF MigratePreRecordsShape, Skip, Exists
    <2>2. PreRecords
      BY <2>1 DEF KeptInv, EventsShape
    <2>3. PreRecords'
      BY <2>2 DEF PreRecords
    <2>4. EventsShape'
      BY <2>1, <2>3 DEF EventsShape
    <2> QED
      BY <2>3, <2>4 DEF KeptInv
  <1> QED
    BY <1>2, <1>3

(* The renaming leaves the events' table only where it did not see it, or  *)
(* saw that of the revisions beside it.                                    *)
LEMMA RenameSkipsKeptInv ==
  ASSUME KeptInv, OpenShape, NEW hidden, MigrateEventsToRevisions(hidden), found' = found,
         UNCHANGED tables
  PROVE  KeptInv'
  <1>1. overlooked' = overlooked \cup (hidden \cap schema)
    BY DEF MigrateEventsToRevisions, Overlook
  <1>2. ~("events" \in schema /\ "events" \in overlooked') =>
          ("events" \in schema => "revisions" \notin schema)
    BY <1>1 DEF KeptInv, EventsShape
  <1>3. "events" \in schema \ overlooked' => pc' = "closed"
    <2> SUFFICES ASSUME "events" \in schema \ overlooked' PROVE pc' = "closed"
      OBVIOUS
    <2>1. "events" \in Seen(hidden) /\ ~Exists("revisions", hidden)
      BY <1>1, <1>2, RenamedFacts DEF Seen, Exists
    <2>2. \/ Abort
          \/ pc' = "ordering" /\ rows' = RenamedRows(Seen(hidden))
               /\ schema' = (schema \ Seen(hidden)) \cup Named(hidden)
      BY <2>1 DEF MigrateEventsToRevisions, Goto, Seen, Named
    <2>3. CASE schema' = (schema \ Seen(hidden)) \cup Named(hidden)
      <3>1. "revisions" \in Named(hidden)
        BY <2>1, RenamedFacts DEF Named
      <3> QED
        BY <2>3, <3>1, <1>2 DEF tables
    <2> QED
      BY <2>2, <2>3 DEF Abort, Goto
  <1>4. "events" \in schema' \ overlooked' => "revisions" \notin schema' /\ pc' \notin Past
    BY <1>2, <1>3 DEF tables, Past, Late
  <1> QED
    BY <1>1, <1>4, FrameKeptInv DEF tables

(* The renaming takes the rows of every table it should with them: a table *)
(* whose old name it does not see, and that no error hid, has no rows.     *)
LEMMA RenameKeptInv ==
  ASSUME KeptInv, OpenShape, NEW hidden, MigrateEventsToRevisions(hidden), found' = found
  PROVE  KeptInv'
  <1>1. CASE UNCHANGED tables
    BY <1>1, RenameSkipsKeptInv
  <1>2. CASE ~UNCHANGED tables
    <2> DEFINE seen == Seen(hidden)
               named == Named(hidden)
    <2>1. /\ "events" \in seen /\ named \cap schema = {}
          /\ schema' = (schema \ seen) \cup named
          /\ rows' = [t \in Tables |->
                        IF t \in seen THEN {}
                        ELSE IF t \in named
                          THEN IF t = "revisions_fts" THEN rows["events"] ELSE rows[Renamed[t]]
                        ELSE rows[t]]
      BY <1>2, RenameEffect
    <2>2. overlooked' = overlooked \cup (hidden \cap schema)
      BY DEF MigrateEventsToRevisions, Overlook
    <2>3. "events" \notin schema'
      BY <2>1, RenamedFacts DEF Named
    <2>4. EventsShape'
      BY <2>3 DEF EventsShape
    <2>5. ASSUME ~PreRecords', NEW t \in KeptTables PROVE KeptUnder(t)'
      <3> SUFFICES ASSUME overlooked' \cap {"events", t, Renamed[t]} = {}
                   PROVE  /\ Held(t, Renamed[t]) \subseteq rows'[t] \cup rows'[Renamed[t]]
                          /\ rows'[Renamed[t]] = {}
        BY DEF KeptUnder, Held
      <3>1. Held(t, Renamed[t]) \subseteq rows[t] \cup rows[Renamed[t]]
        BY <2>2, <2>5 DEF KeptInv, KeptUnder, PreRecords
      <3>2. /\ t \in DOMAIN Renamed /\ t \in Tables /\ Renamed[t] \in Tables
            /\ t # "revisions_fts" /\ t \notin seen /\ Renamed[t] \notin named
        BY TableNames, RenamedFacts DEF KeptTables, Seen, Named
      <3>3. Renamed[t] \in seen <=> t \in named
        BY <3>2 DEF Named
      <3>4. rows'[t] = (IF t \in named THEN rows[Renamed[t]] ELSE rows[t])
        BY <2>1, <3>2
      <3>5. rows'[Renamed[t]] = (IF Renamed[t] \in seen THEN {} ELSE rows[Renamed[t]])
        BY <2>1, <3>2
      <3>6. CASE t \in named
        <4>1. rows[t] = {}
          BY <2>1, <3>2, <3>6 DEF OpenShape, JournalTypeOK
        <4> QED
          BY <3>1, <3>3, <3>4, <3>5, <3>6, <4>1
      <3>7. CASE t \notin named
        <4>1. Renamed[t] \notin schema
          <5>1. ~Exists(Renamed[t], hidden)
            BY <3>2, <3>3, <3>7 DEF Seen
          <5> QED
            BY <5>1, <2>2 DEF Exists
        <4>2. rows[Renamed[t]] = {}
          BY <4>1, <3>2 DEF OpenShape, JournalTypeOK
        <4> QED
          BY <3>1, <3>3, <3>4, <3>5, <3>7, <4>2
      <3> QED
        BY <3>6, <3>7
    <2> QED
      BY <2>4, <2>5 DEF KeptInv
  <1> QED
    BY <1>1, <1>2

LEMMA NextKeptInv ==
  ASSUME KeptInv, OpenShape, [Next]_storageVars PROVE KeptInv'
  <1>1. found' = found
    BY JournalSteps
  <1>2. ASSUME NEW hidden,
               MigrateReplayOrdering(hidden) \/ MigrateProducer(hidden) \/ MigrateReferences(hidden)
        PROVE  KeptInv'
    <2>1. overlooked \subseteq overlooked' /\ UNCHANGED <<schema, rows>> /\ cols \subseteq cols'
      BY <1>2 DEF MigrateReplayOrdering, MigrateProducer, MigrateReferences, Overlook, Skip, Abort,
         tables
    <2>2. pc \in Past
      BY <1>2 DEF MigrateReplayOrdering, MigrateProducer, MigrateReferences, Past
    <2> QED
      BY <1>1, <2>1, <2>2, FrameKeptInv DEF KeptInv, EventsShape
  <1>3. CASE CreateTables
    <2>1. PICK new \in SUBSET NewTables : schema' = schema \cup new
      BY <1>3, CreateTablesOpenShape
    <2>2. "events" \notin NewTables
      BY RenamedFacts DEF NewTables
    <2>3. pc \in Past /\ UNCHANGED <<rows, seq, overlooked>> /\ cols \subseteq cols'
      BY <1>3, CreateTablesOpenShape
    <2> QED
      BY <1>1, <2>1, <2>2, <2>3, FrameKeptInv DEF KeptInv, EventsShape
  <1>4. CASE BeginOpen \/ Interrupt
    <2>1. UNCHANGED <<overlooked, schema, rows, cols>> /\ pc' \notin Past
      BY <1>4 DEF BeginOpen, Interrupt, Skip, Abort, Goto, tables, Past, Late
    <2> QED
      BY <1>1, <2>1, FrameKeptInv DEF KeptInv, EventsShape
  <1>5. CASE MigrateFTS
    <2>1. UNCHANGED <<overlooked, schema, cols>> /\ pc \in Past
      BY <1>5 DEF MigrateFTS, Past, Late
    <2>2. \A t \in KeptTables : rows'[t] = rows[t] /\ rows'[Renamed[t]] = rows[Renamed[t]]
      BY <1>5, RenamedFacts DEF MigrateFTS, KeptTables
    <2> QED
      BY <1>1, <2>1, <2>2, FrameKeptInv DEF KeptInv, EventsShape
  <1>6. CASE ConfigureDB \/ UNCHANGED journalVars
    <2>1. UNCHANGED <<overlooked, schema, rows, cols>> /\ (pc' \in Past => pc \in Past)
      BY <1>6 DEF ConfigureDB, Skip, Goto, tables, journalVars, Past, Late
    <2> QED
      BY <1>1, <2>1, FrameKeptInv DEF KeptInv, EventsShape
  <1>7. ASSUME NEW r \in Ids, AppendRevision(r) PROVE KeptInv'
    <2>1. UNCHANGED <<overlooked, schema, cols, pc>>
      BY <1>7 DEF AppendRevision
    <2>2. \A t \in KeptTables : rows[t] \subseteq rows'[t] /\ rows'[Renamed[t]] = rows[Renamed[t]]
      BY <1>7, RenamedFacts, TableNames DEF AppendRevision, KeptTables, OpenShape, JournalTypeOK
    <2> QED
      BY <1>1, <2>1, <2>2, FrameKeptInv DEF KeptInv, EventsShape
  <1> QED
    BY <1>1, <1>2, <1>3, <1>4, <1>5, <1>6, <1>7, JournalSteps, PreRecordsKeptInv, RenameKeptInv

LEMMA InitKeptInv == Init => KeptInv
  <1> SUFFICES ASSUME Init PROVE KeptInv
    OBVIOUS
  <1>1. PICK d \in Databases : schema = d.schema /\ rows = d.rows /\ cols = d.cols /\ seq = d.seq
    BY DEF Init, JournalInit
  <1>2. /\ found.schema = schema /\ found.rows = rows /\ found.cols = cols
        /\ pc = "closed" /\ overlooked = {}
    BY DEF Init, JournalInit
  <1>3. IF "events" \in schema THEN "revisions" \notin schema
        ELSE \A t \in DOMAIN Renamed : rows[Renamed[t]] = {}
    BY <1>1, DatabasesAssumption
  <1>4. KeptTables \subseteq DOMAIN Renamed
    BY RenamedFacts DEF KeptTables
  <1>5. EventsShape
    BY <1>2, <1>3 DEF EventsShape, PreRecords, Past, Late
  <1>6. \A t \in KeptTables : KeptUnder(t)
    BY <1>2, <1>3, <1>4 DEF KeptUnder, Held
  <1> QED
    BY <1>5, <1>6 DEF KeptInv

LEMMA KeptInvariant == Spec => []KeptInv
  <1>1. Init => KeptInv
    BY InitKeptInv
  <1>2. KeptInv /\ OpenShape /\ [Next]_storageVars => KeptInv'
    BY NextKeptInv
  <1> QED
    BY <1>1, <1>2, ShapesInvariant, PTL DEF Spec

(* An open journal has every revision, link and dispatch row the database  *)
(* was found with, for every database of an earlier version and every      *)
(* number of openings that were cut short, unless the rows are from before *)
(* records or an error hid their table from a migration                    *)
(* (migrate.go:12-124).                                                    *)
THEOREM RevisionsAreKept == Spec => []RevisionsKept
  <1>1. KeptInv => RevisionsKept
    BY DEF KeptInv, EventsShape, KeptUnder, KeptTables, RevisionsKept, Past, Late
  <1> QED
    BY <1>1, KeptInvariant, PTL

-----------------------------------------------------------------------------
(* The place of a revision in its record. *)
LEMMA NumberedInOrder ==
  ASSUME JournalTypeOK, NEW r \in rows["revisions"], NEW s \in rows["revisions"],
         RecordOf[r] = RecordOf[s], r # s
  PROVE  Numbered[r] # Numbered[s] /\ (Numbered[r] < Numbered[s] => Precedes(r, s))
  <1> DEFINE Before(x) == {y \in rows["revisions"] : Precedes(y, x)}
  <1>1. rows["revisions"] \subseteq Ids
    BY TableNames DEF JournalTypeOK
  <1>2. \A x \in rows["revisions"] :
          IsFiniteSet(Before(x)) /\ Numbered[x] = Cardinality(Before(x)) /\ Numbered[x] \in Nat
    <2> TAKE x \in rows["revisions"]
    <2>1. Before(x) \in SUBSET Ids
      BY <1>1
    <2>2. IsFiniteSet(Before(x))
      <3> HIDE DEF Before
      <3> QED
        BY <2>1, IdsAssumption, FS_Subset
    <2>3. Numbered[x] = Cardinality(Before(x))
      BY <1>1 DEF Numbered
    <2> QED
      BY <1>1, <2>2, <2>3, NumberedShape
  <1>3. \A x, y \in rows["revisions"] :
          (Precedes(x, y) /\ x # y /\ RecordOf[x] = RecordOf[y]) => Numbered[x] < Numbered[y]
    <2> SUFFICES ASSUME NEW x \in rows["revisions"], NEW y \in rows["revisions"],
                        Precedes(x, y), x # y
                 PROVE  Numbered[x] < Numbered[y]
      OBVIOUS
    <2>1. /\ x \in Nat /\ y \in Nat /\ TimeOf[x] \in Int /\ TimeOf[y] \in Int
      BY <1>1, IdsAssumption
    <2>2. Before(x) \in SUBSET Before(y)
      <3> SUFFICES ASSUME NEW z \in rows["revisions"], Precedes(z, x) PROVE Precedes(z, y)
        OBVIOUS
      <3>1. z \in Nat /\ TimeOf[z] \in Int
        BY <1>1, IdsAssumption
      <3> QED
        BY <2>1, <3>1 DEF Precedes
    <2>3. y \in Before(y) /\ y \notin Before(x)
      <3>1. Precedes(y, y)
        <4>1. y <= y
          BY <2>1
        <4> QED
          BY <4>1 DEF Precedes
      <3>2. ~Precedes(y, x)
        BY <2>1 DEF Precedes
      <3> QED
        BY <3>1, <3>2
    <2>4. Cardinality(Before(x)) <= Cardinality(Before(y))
            /\ Cardinality(Before(x)) # Cardinality(Before(y))
      <3>1. IsFiniteSet(Before(y))
        BY <1>2
      <3> HIDE DEF Before
      <3> QED
        BY <2>2, <2>3, <3>1, FS_Subset
    <2> HIDE DEF Before
    <2> QED
      BY <1>2, <2>4
  <1>4. Precedes(r, s) \/ Precedes(s, r)
    <2>1. r \in Nat /\ s \in Nat /\ TimeOf[r] \in Int /\ TimeOf[s] \in Int
      BY <1>1, IdsAssumption
    <2> QED
      BY <2>1 DEF Precedes
  <1>5. Numbered[r] \in Nat /\ Numbered[s] \in Nat
    BY <1>2
  <1> HIDE DEF Before
  <1> QED
    BY <1>3, <1>4, <1>5

(* A step that leaves the rows and the numbers of the revisions alone.     *)
LEMMA FrameOrderInv ==
  ASSUME FoundInv, OrderInv, OpenShape, found' = found, UNCHANGED seq,
         rows'["revisions"] = rows["revisions"], rows'["events"] \subseteq rows["events"],
         "revisions" \in schema => "revisions" \in schema',
         "sequence" \in cols <=> "sequence" \in cols'
  PROVE  FoundInv' /\ OrderInv'
  <1>1. FoundInv'
    BY DEF FoundInv, Held
  <1>2. OrderInv'
    BY DEF OrderInv, InOrder, Held
  <1> QED
    BY <1>1, <1>2

(* The revisions that are numbered are those that were found, and each has *)
(* its place.                                                              *)
LEMMA OrderingOrderInv ==
  ASSUME FoundInv, OrderInv, OpenShape, JournalInv, found' = found, NEW hidden,
         MigrateReplayOrdering(hidden)
  PROVE  FoundInv' /\ OrderInv'
  <1>1. CASE UNCHANGED tables
    BY <1>1, FrameOrderInv DEF tables
  <1>2. CASE ~UNCHANGED tables
    <2>1. /\ "revisions" \in schema /\ "sequence" \notin cols
          /\ cols' = cols \cup {"sequence"} /\ seq' = Numbered /\ UNCHANGED <<schema, rows>>
      BY <1>2 DEF MigrateReplayOrdering, Exists, Skip
    <2>2. rows["revisions"] \subseteq Held("revisions", "events")
      BY <2>1 DEF FoundInv
    <2>3. FoundInv'
      BY <2>1 DEF FoundInv
    <2>4. \A r \in rows["revisions"] : seq'[r] > 0
      BY <2>1, NumberedShape DEF OpenShape
    <2>5. ASSUME NEW r \in rows["revisions"], NEW s \in rows["revisions"],
                 RecordOf[r] = RecordOf[s], r # s
          PROVE  InOrder(r, s)'
      <3>1. seq'[r] # seq'[s] /\ (seq'[r] < seq'[s] => Precedes(r, s))
        BY <2>1, <2>5, NumberedInOrder DEF OpenShape
      <3>2. r \in Held("revisions", "events")'
        BY <2>2 DEF Held
      <3> QED
        BY <3>1, <3>2 DEF InOrder, Precedes
    <2> QED
      BY <2>1, <2>3, <2>4, <2>5 DEF OrderInv
  <1> QED
    BY <1>1, <1>2

(* A new revision comes after all of its record, and none of them is it.   *)
LEMMA AppendOrderInv ==
  ASSUME FoundInv, OrderInv, OpenShape, RestShape, found' = found, NEW n \in Ids, AppendRevision(n)
  PROVE  FoundInv' /\ OrderInv'
  <1>1. /\ "sequence" \in cols /\ UNCHANGED <<cols, schema>> /\ n \in NewIds
        /\ n \notin rows["revisions"]
    BY IdsAssumption DEF AppendRevision, Writable, RevisionColumns
  <1>2. rows'["revisions"] = rows["revisions"] \cup {n} /\ rows'["events"] = rows["events"]
    BY TableNames DEF AppendRevision, OpenShape, JournalTypeOK
  <1>3. FoundInv'
    BY <1>1, <1>2 DEF FoundInv
  <1>4. n \notin Held("revisions", "events")
    BY <1>1, DatabasesAssumption, TableNames DEF RestShape, Held
  <1>5. rows["revisions"] \subseteq Ids /\ seq \in [Ids -> Nat]
    BY TableNames DEF OpenShape, JournalTypeOK
  <1>6. seq'[n] = NextSequence(n) /\ \A r \in rows["revisions"] : seq'[r] = seq[r]
    BY <1>1, <1>5 DEF AppendRevision
  <1>7. /\ NextSequence(n) \in Nat \ {0}
        /\ \A s \in rows["revisions"] : RecordOf[s] = RecordOf[n] => seq[s] < NextSequence(n)
    BY NextSequenceIsLast DEF OpenShape
  <1>8. \A r \in rows'["revisions"] : seq'[r] > 0
    BY <1>1, <1>2, <1>6, <1>7 DEF OrderInv
  <1>9. ASSUME NEW r \in rows'["revisions"], NEW s \in rows'["revisions"],
               RecordOf[r] = RecordOf[s], r # s
        PROVE  InOrder(r, s)'
    <2>1. CASE r = n
      <3>1. s \in rows["revisions"] /\ seq'[s] < seq'[r] /\ seq'[s] \in Nat /\ seq'[r] \in Nat
        BY <1>2, <1>5, <1>6, <1>7, <1>9, <2>1
      <3>2. seq'[r] # seq'[s] /\ ~(seq'[r] < seq'[s])
        BY <3>1
      <3> QED
        BY <3>2 DEF InOrder
    <2>2. CASE s = n
      <3>1. r \in rows["revisions"] /\ seq'[r] < seq'[s] /\ seq'[s] \in Nat /\ seq'[r] \in Nat
        BY <1>2, <1>5, <1>6, <1>7, <1>9, <2>2
      <3>2. seq'[r] # seq'[s] /\ s \notin Held("revisions", "events")'
        BY <1>4, <2>2, <3>1 DEF Held
      <3> QED
        BY <3>2 DEF InOrder
    <2>3. CASE r # n /\ s # n
      <3>1. InOrder(r, s)
        BY <1>1, <1>2, <1>9, <2>3 DEF OrderInv
      <3>2. seq'[r] = seq[r] /\ seq'[s] = seq[s]
        BY <1>2, <1>6, <2>3
      <3> QED
        BY <3>1, <3>2 DEF InOrder, Held, Precedes
    <2> QED
      BY <2>1, <2>2, <2>3
  <1>10. OrderInv'
    BY <1>8, <1>9 DEF OrderInv
  <1> QED
    BY <1>3, <1>10

(* The rows that are renamed have no sequence yet. *)
LEMMA RenameOrderInv ==
  ASSUME FoundInv, OrderInv, OpenShape, found' = found, NEW hidden,
         MigrateEventsToRevisions(hidden)
  PROVE  FoundInv' /\ OrderInv'
  <1>1. CASE UNCHANGED tables
    BY <1>1, FrameOrderInv DEF tables
  <1>2. CASE ~UNCHANGED tables
    <2>1. /\ "events" \in Seen(hidden) /\ "revisions" \in Named(hidden)
          /\ "revisions" \notin schema /\ cols' = cols \ {"events.operation"}
          /\ rows' = [t \in Tables |->
                        IF t \in Seen(hidden) THEN {}
                        ELSE IF t \in Named(hidden)
                          THEN IF t = "revisions_fts" THEN rows["events"] ELSE rows[Renamed[t]]
                        ELSE rows[t]]
      BY <1>2, RenameEffect
    <2>2. "sequence" \notin cols'
      BY <2>1 DEF FoundInv
    <2>3. "revisions" \notin Seen(hidden)
      BY RenamedFacts DEF Seen
    <2>4. rows'["revisions"] = rows["events"] /\ rows'["events"] = {}
      BY <2>1, <2>3, TableNames, RenamedFacts
    <2>5. FoundInv'
      BY <2>2, <2>4 DEF FoundInv, Held
    <2>6. OrderInv'
      BY <2>2 DEF OrderInv
    <2> QED
      BY <2>5, <2>6
  <1> QED
    BY <1>1, <1>2

(* A table of revisions that is made is made with its columns and empty.   *)
LEMMA CreateOrderInv ==
  ASSUME FoundInv, OrderInv, OpenShape, found' = found, CreateTables
  PROVE  FoundInv' /\ OrderInv'
  <1>1. schema \subseteq schema' /\ UNCHANGED <<rows, seq>> /\ cols \subseteq cols'
    BY CreateTablesOpenShape
  <1>2. CASE "sequence" \in cols <=> "sequence" \in cols'
    BY <1>1, <1>2, FrameOrderInv
  <1>3. CASE "sequence" \notin cols /\ "sequence" \in cols'
    <2>1. "revisions" \in schema' \ schema
      <3>1. PICK step, names, made, next : Create(step, names, made, next)
        BY DEF CreateTables, SchemaDDL, RecordsSchemaDDL, RoutingSchemaDDL, FtsSchemaDDL
      <3> DEFINE new == {names[i] : i \in 1 .. made} \ schema
      <3>2. schema' = schema \cup new /\ cols' = cols \cup UNION {ColumnsOf(t) : t \in new}
        BY <3>1 DEF Create
      <3> HIDE DEF new
      <3>3. PICK t \in new : "sequence" \in ColumnsOf(t)
        BY <1>3, <3>2
      <3>4. t = "revisions"
        BY <3>3 DEF ColumnsOf
      <3>5. new \cap schema = {}
        BY DEF new
      <3> QED
        BY <3>2, <3>4, <3>5
    <2>2. rows'["revisions"] = {}
      BY <1>1, <2>1, TableNames DEF OpenShape, JournalTypeOK
    <2>3. FoundInv'
      BY <1>1, <1>3, <2>1 DEF FoundInv
    <2>4. OrderInv'
      BY <2>2 DEF OrderInv
    <2> QED
      BY <2>3, <2>4
  <1> QED
    BY <1>1, <1>2, <1>3

LEMMA NextOrderInv ==
  ASSUME FoundInv, OrderInv, OpenShape, RestShape, JournalInv, [Next]_storageVars
  PROVE  FoundInv' /\ OrderInv'
  <1>1. found' = found
    BY JournalSteps
  <1>2. ASSUME NEW hidden, MigratePreRecordsShape(hidden) PROVE FoundInv' /\ OrderInv'
    <2>1. UNCHANGED <<cols, seq>> /\ ("revisions" \in schema => "revisions" \in schema')
      BY <1>2 DEF MigratePreRecordsShape, Skip, tables
    <2>2. rows'["revisions"] = rows["revisions"] /\ rows'["events"] \subseteq rows["events"]
      BY <1>2, TableNames DEF MigratePreRecordsShape, Skip, tables, OpenShape, JournalTypeOK
    <2> QED
      BY <1>1, <2>1, <2>2, FrameOrderInv
  <1>3. ASSUME NEW hidden, MigrateProducer(hidden) \/ MigrateReferences(hidden)
        PROVE  FoundInv' /\ OrderInv'
    <2>1. UNCHANGED <<schema, rows, seq>> /\ ("sequence" \in cols <=> "sequence" \in cols')
      BY <1>3 DEF MigrateProducer, MigrateReferences, Skip, Abort, tables
    <2> QED
      BY <1>1, <2>1, FrameOrderInv
  <1>4. CASE BeginOpen \/ MigrateFTS \/ ConfigureDB \/ Interrupt \/ UNCHANGED journalVars
    <2>1. UNCHANGED <<schema, cols, seq>>
      BY <1>4 DEF BeginOpen, MigrateFTS, ConfigureDB, Interrupt, Skip, Abort, tables, journalVars
    <2>2. rows' = rows \/ rows' = [rows EXCEPT !["revisions_fts"] = rows["revisions"]]
      BY <1>4 DEF BeginOpen, MigrateFTS, ConfigureDB, Interrupt, Skip, Abort, tables, journalVars
    <2>3. rows'["revisions"] = rows["revisions"] /\ rows'["events"] = rows["events"]
      BY <2>2, TableNames DEF OpenShape, JournalTypeOK
    <2> QED
      BY <1>1, <2>1, <2>3, FrameOrderInv
  <1> QED
    BY <1>1, <1>2, <1>3, <1>4, JournalSteps, RenameOrderInv, OrderingOrderInv, CreateOrderInv,
       AppendOrderInv

LEMMA InitOrderInv == Init => FoundInv /\ OrderInv
  <1> SUFFICES ASSUME Init PROVE FoundInv /\ OrderInv
    OBVIOUS
  <1>1. PICK d \in Databases : schema = d.schema /\ rows = d.rows /\ cols = d.cols /\ seq = d.seq
    BY DEF Init, JournalInit
  <1>2. found.rows = rows /\ found.seq = seq
    BY DEF Init
  <1>3. "sequence" \in cols =>
          /\ "revisions" \in schema
          /\ \A r \in rows["revisions"] : seq[r] > 0
          /\ \A r, s \in rows["revisions"] :
               (RecordOf[r] = RecordOf[s] /\ r # s) => seq[r] # seq[s]
    BY <1>1, DatabasesAssumption
  <1>4. FoundInv
    BY <1>2, <1>3 DEF FoundInv, Held
  <1>5. \A s \in rows["revisions"] : "sequence" \in cols => found.seq[s] # 0
    BY <1>2, <1>3
  <1>6. OrderInv
    BY <1>3, <1>5 DEF OrderInv, InOrder
  <1> QED
    BY <1>4, <1>6

LEMMA OrderInvariant == Spec => [](FoundInv /\ OrderInv)
  <1>1. Init => FoundInv /\ OrderInv
    BY InitOrderInv
  <1>2. FoundInv /\ OrderInv /\ OpenShape /\ RestShape /\ StorageInv /\ [Next]_storageVars
          => (FoundInv /\ OrderInv)'
    BY NextOrderInv DEF StorageInv
  <1> QED
    BY <1>1, <1>2, ShapesInvariant, StorageInvariant, PTL DEF Spec

(* In an open journal no two revisions of a record have one sequence, the  *)
(* ones found without are numbered by their event times, and new ones come *)
(* after them, for every database of an earlier version and every number   *)
(* of openings that were cut short (migrate.go:199-242,                    *)
(* store.go:238-247).                                                      *)
THEOREM RevisionsAreOrdered == Spec => []Ordered
  <1>1. FoundInv /\ OrderInv => Ordered
    BY DEF OrderInv, InOrder, Ordered
  <1> QED
    BY <1>1, OrderInvariant, PTL
=============================================================================

---------------------------- MODULE JournalOpen ----------------------------
(***************************************************************************)
(* Opening the journal's database (internal/journal: Open, migrate.go,     *)
(* fts.go): the five migrations, the four blocks of DDL, the backfill of   *)
(* the full-text index.  Each is its own transaction, and a database may   *)
(* be left between any two of them and opened again.                       *)
(*                                                                         *)
(* A table is the set of the revisions its rows name.  The wait for the    *)
(* lock (busy_timeout) is set last, so that the queries of the migrations  *)
(* run without it; where the code asks whether a table exists, an error    *)
(* reads as "no".                                                          *)
(***************************************************************************)
EXTENDS FiniteSets, Integers, Sequences, FiniteSetsExt

CONSTANTS
  Ids,        \* revision ids, numbers in the order of ULIDs
  NewIds,     \* the ones appended from now on
  RecordOf,   \* [Ids -> records]
  TimeOf,     \* [Ids -> event times]
  Databases,  \* the databases found: what earlier versions have left
  MaxFaults   \* errors and crashes

VARIABLES
  pc,          \* "closed", the step of Open that is next, or "open"
  schema,      \* tables that exist
  rows,        \* per table, the revisions its rows name
  cols,        \* later columns that exist, by table
  seq,         \* per revision, its sequence; 0 by default
  overlooked,  \* history: tables an error hid from a migration
  faults       \* faults so far, of MaxFaults

journalVars == <<pc, schema, rows, cols, seq, overlooked, faults>>
tables == <<schema, rows, cols, seq>>

Renamed == [revisions |-> "events", record_revisions |-> "record_events",
            revision_dispatch |-> "event_dispatch", revisions_fts |-> "events_fts"]
NewTables == DOMAIN Renamed \cup {"record_heads", "records_fts", "router_state"}
Tables == NewTables \cup {Renamed[t] : t \in DOMAIN Renamed}
RevisionColumns == {"sequence", "producer", "references"}
Columns == RevisionColumns \cup {"events.operation", "record_heads.references"}
Steps == {"pre-records", "rename", "ordering", "producer", "references",
          "schema", "records", "routing", "fts", "backfill", "configure"}

ASSUME IdsAssumption ==
  Ids \subseteq Nat /\ IsFiniteSet(Ids) /\ NewIds \subseteq Ids /\ TimeOf \in [Ids -> Int]

ASSUME FaultsAssumption == MaxFaults \in Nat

(* A database was written by some version of this code: a table has rows   *)
(* when it exists, none of them is new, and a search index is empty or     *)
(* complete.  The tables have their old names or their new ones, and the   *)
(* other old tables come with that of the events.  A number is that of a   *)
(* revision, and where revisions are numbered they all are, and differ     *)
(* within a record.                                                        *)
ASSUME DatabasesAssumption == \A d \in Databases :
  /\ d \in [schema : SUBSET Tables, cols : SUBSET Columns, rows : [Tables -> SUBSET Ids],
            seq : [Ids -> Nat]]
  /\ \A t \in Tables : d.rows[t] \cap NewIds = {} /\ (t \notin d.schema => d.rows[t] = {})
  /\ d.rows["revisions_fts"] \in {{}, d.rows["revisions"]}
  /\ IF "events" \in d.schema THEN "revisions" \notin d.schema
     ELSE \A t \in DOMAIN Renamed : d.rows[Renamed[t]] = {}
  /\ \A r \in Ids : d.seq[r] # 0 => r \in d.rows["revisions"] /\ "sequence" \in d.cols
  /\ "sequence" \in d.cols =>
       /\ "revisions" \in d.schema
       /\ \A r \in d.rows["revisions"] : d.seq[r] > 0
       /\ \A r, s \in d.rows["revisions"] :
            (RecordOf[r] = RecordOf[s] /\ r # s) => d.seq[r] # d.seq[s]

JournalTypeOK ==
  /\ pc \in Steps \cup {"closed", "open"}
  /\ schema \subseteq Tables /\ cols \subseteq Columns
  /\ rows \in [Tables -> SUBSET Ids] /\ \A t \in Tables \ schema : rows[t] = {}
  /\ seq \in [Ids -> Nat]
  /\ overlooked \subseteq Tables /\ faults \in 0 .. MaxFaults

JournalInit ==
  /\ \E found \in Databases :
       schema = found.schema /\ rows = found.rows /\ cols = found.cols /\ seq = found.seq
  /\ pc = "closed" /\ overlooked = {} /\ faults = 0

-----------------------------------------------------------------------------
(* tableExists and tableExistsTx: `hidden' are the tables whose query      *)
(* fails now.                                                              *)
Exists(t, hidden) == t \in schema \ hidden

Overlook(hidden) ==
  /\ faults' = faults + Cardinality(hidden) /\ faults' <= MaxFaults
  /\ overlooked' = overlooked \cup (hidden \cap schema)

Goto(step) == pc' = step
Skip(step) == Goto(step) /\ UNCHANGED tables
Abort == Goto("closed") /\ UNCHANGED tables

BeginOpen ==
  /\ pc = "closed"
  /\ Skip("pre-records")
  /\ UNCHANGED <<overlooked, faults>>

(* Databases from before records are wiped. *)
MigratePreRecordsShape(hidden) ==
  /\ pc = "pre-records" /\ hidden \subseteq {"events"}
  /\ Overlook(hidden)
  /\ IF Exists("events", hidden) /\ "events.operation" \notin cols
       THEN /\ schema' = schema \ {"events", "events_fts"}
            /\ rows' = [rows EXCEPT !["events"] = {}, !["events_fts"] = {}]
            /\ Goto("rename") /\ UNCHANGED <<cols, seq>>
       ELSE Skip("rename")

(* Mutant: the rows are copied, and the old tables keep theirs. *)
RenamedRowsCopied(seen) ==
  [t \in Tables |->
     IF t \in DOMAIN Renamed /\ Renamed[t] \in seen
       THEN IF t = "revisions_fts" THEN rows["events"] ELSE rows[Renamed[t]]
     ELSE rows[t]]

(* Mutant: the links of the records stay in the table of the old name.     *)
RenamedRowsOnly(seen) ==
  [t \in Tables |->
     IF t \in seen \/ t = "record_events" THEN {}
     ELSE IF t \in {"revisions", "revisions_fts"} /\ Renamed[t] \in seen
       THEN rows["events"]
     ELSE rows[t]]

(* The tables that have a new name; events_fts is made again, not renamed. *)
RenamedRows(seen) ==
  [t \in Tables |->
     IF t \in seen THEN {}
     ELSE IF t \in DOMAIN Renamed /\ Renamed[t] \in seen
       THEN IF t = "revisions_fts" THEN rows["events"] ELSE rows[Renamed[t]]
     ELSE rows[t]]

(* In one transaction: it fails as a whole when a name is taken, or the    *)
(* index on the operation cannot be made.                                  *)
MigrateEventsToRevisions(hidden) ==
  LET seen == {old \in {Renamed[t] : t \in DOMAIN Renamed} : Exists(old, hidden)}
      named == {t \in DOMAIN Renamed : Renamed[t] \in seen} IN
  /\ pc = "rename"
  /\ hidden \subseteq {"revisions"} \cup {Renamed[t] : t \in DOMAIN Renamed}
  /\ Overlook(hidden)
  /\ IF "events" \notin seen \/ Exists("revisions", hidden) THEN Skip("ordering")
     ELSE IF named \cap schema # {} \/ "events.operation" \notin cols THEN Abort
     ELSE /\ schema' = (schema \ seen) \cup named
          /\ rows' = RenamedRows(seen)
          /\ cols' = cols \ {"events.operation"}
          /\ Goto("ordering") /\ UNCHANGED seq

(* Mutant: the columns are added and their rows left with the default.     *)
Unnumbered == seq

(* Every revision gets its place in its record, by event time and then id. *)
Precedes(r, s) ==
  /\ RecordOf[r] = RecordOf[s]
  /\ TimeOf[r] < TimeOf[s] \/ (TimeOf[r] = TimeOf[s] /\ r <= s)
Numbered == [r \in Ids |->
  IF r \in rows["revisions"] THEN Cardinality({s \in rows["revisions"] : Precedes(s, r)}) ELSE seq[r]]

(* Mutant: the revisions are numbered at every start. *)
MigrateReplayOrderingAgain(hidden) ==
  /\ pc = "ordering" /\ hidden \subseteq {"revisions"}
  /\ Overlook(hidden)
  /\ IF Exists("revisions", hidden)
       THEN /\ cols' = cols \cup {"sequence"} /\ seq' = Numbered
            /\ Goto("producer") /\ UNCHANGED <<schema, rows>>
       ELSE Skip("producer")

MigrateReplayOrdering(hidden) ==
  /\ pc = "ordering" /\ hidden \subseteq {"revisions"}
  /\ Overlook(hidden)
  /\ IF Exists("revisions", hidden) /\ "sequence" \notin cols
       THEN /\ cols' = cols \cup {"sequence"} /\ seq' = Numbered
            /\ Goto("producer") /\ UNCHANGED <<schema, rows>>
       ELSE Skip("producer")

MigrateProducer(hidden) ==
  /\ pc = "producer" /\ hidden \subseteq {"revisions"}
  /\ Overlook(hidden)
  /\ IF Exists("revisions", hidden) /\ "producer" \notin cols
       THEN /\ cols' = cols \cup {"producer"}
            /\ Goto("references") /\ UNCHANGED <<schema, rows, seq>>
       ELSE Skip("references")

(* Mutant: the heads are not given the column. *)
MigrateReferencesOfRevisions(hidden) ==
  /\ pc = "references" /\ hidden \subseteq {"revisions", "record_heads"}
  /\ Overlook(hidden)
  /\ IF Exists("revisions", hidden) /\ "references" \notin cols
       THEN /\ cols' = cols \cup {"references"}
            /\ Goto("schema") /\ UNCHANGED <<schema, rows, seq>>
       ELSE Skip("schema")

(* Only the revisions are asked for the column.  Heads that have it (the   *)
(* DDL below makes them so) refuse a second one, and the transaction with  *)
(* it: a duplicate column.                                                 *)
MigrateReferences(hidden) ==
  LET added == {"references"} \cup
        (IF Exists("record_heads", hidden) THEN {"record_heads.references"} ELSE {}) IN
  /\ pc = "references" /\ hidden \subseteq {"revisions", "record_heads"}
  /\ Overlook(hidden)
  /\ IF ~Exists("revisions", hidden) \/ "references" \in cols THEN Skip("schema")
     ELSE IF added \cap cols # {} THEN Abort
     ELSE /\ cols' = cols \cup added
          /\ Goto("schema") /\ UNCHANGED <<schema, rows, seq>>

-----------------------------------------------------------------------------
(* CREATE ... IF NOT EXISTS, statement by statement, each on its own: an   *)
(* error or a crash leaves the tables made so far.                         *)
ColumnsOf(t) == IF t = "revisions" THEN RevisionColumns
                ELSE IF t = "record_heads" THEN {"record_heads.references"} ELSE {}

Create(step, names, made, next) ==
  LET new == {names[i] : i \in 1 .. made} \ schema IN
  /\ pc = step
  /\ faults' = faults + (IF made < Len(names) THEN 1 ELSE 0) /\ faults' <= MaxFaults
  /\ schema' = schema \cup new
  /\ cols' = cols \cup UNION {ColumnsOf(t) : t \in new}
  (* the index on the sequence of an older table that lacks it *)
  /\ Goto(IF made = Len(names) /\ ("revisions" \in new \/ step # "schema" \/ "sequence" \in cols)
            THEN next ELSE "closed")
  /\ UNCHANGED <<rows, seq, overlooked>>

SchemaDDL == \E made \in 0 .. 1 : Create("schema", <<"revisions">>, made, "records")
RecordsSchemaDDL == \E made \in 0 .. 3 :
  Create("records", <<"record_heads", "record_revisions", "records_fts">>, made, "routing")
RoutingSchemaDDL == \E made \in 0 .. 2 :
  Create("routing", <<"router_state", "revision_dispatch">>, made, "fts")
FtsSchemaDDL == \E made \in 0 .. 1 : Create("fts", <<"revisions_fts">>, made, "backfill")

(* Mutant: a new index is taken to be complete. *)
MigrateFTSNever ==
  /\ pc = "backfill"
  /\ Skip("configure")
  /\ UNCHANGED <<overlooked, faults>>

(* An index with a row in it is taken to be complete. *)
MigrateFTS ==
  /\ pc = "backfill"
  /\ Goto("configure")
  /\ rows' = IF rows["revisions_fts"] = {}
               THEN [rows EXCEPT !["revisions_fts"] = rows["revisions"]] ELSE rows
  /\ UNCHANGED <<schema, cols, seq, overlooked, faults>>

ConfigureDB ==
  /\ pc = "configure"
  /\ Skip("open")
  /\ UNCHANGED <<overlooked, faults>>

(* A statement of the step fails and its transaction is rolled back, or    *)
(* the process dies.                                                       *)
Interrupt ==
  /\ pc # "closed" /\ faults < MaxFaults
  /\ Abort
  /\ faults' = faults + 1
  /\ UNCHANGED overlooked

-----------------------------------------------------------------------------
(* A statement that names a column which is not there is refused.          *)
Writable == RevisionColumns \cup {"record_heads.references"} \subseteq cols

NextSequence(r) ==
  1 + Max({0} \cup {seq[s] : s \in {x \in rows["revisions"] : RecordOf[x] = RecordOf[r]}})

(* The transaction of an append: the revision, its search row, its link.   *)
AppendRevision(r) ==
  /\ pc = "open" /\ Writable
  /\ r \in NewIds /\ \A s \in rows["revisions"] : s < r
  /\ rows' = [rows EXCEPT !["revisions"] = @ \cup {r}, !["revisions_fts"] = @ \cup {r},
                          !["record_revisions"] = @ \cup {r}]
  /\ seq' = [seq EXCEPT ![r] = NextSequence(r)]
  /\ UNCHANGED <<pc, schema, cols, overlooked, faults>>

(* What a query for a text that they all have returns: a join of the       *)
(* revisions with their search rows.                                       *)
Query == rows["revisions"] \cap rows["revisions_fts"]

Migrate ==
  /\ pc \in {"pre-records", "rename", "ordering", "producer", "references"}
  /\ \E hidden \in SUBSET ({"revisions", "record_heads"} \cup {Renamed[t] : t \in DOMAIN Renamed}) :
       \/ MigratePreRecordsShape(hidden) \/ MigrateEventsToRevisions(hidden)
       \/ MigrateReplayOrdering(hidden) \/ MigrateProducer(hidden) \/ MigrateReferences(hidden)
CreateTables == SchemaDDL \/ RecordsSchemaDDL \/ RoutingSchemaDDL \/ FtsSchemaDDL
OpenStep == BeginOpen \/ Migrate \/ CreateTables \/ MigrateFTS \/ ConfigureDB
=============================================================================

----------------------------- MODULE MCStorage -----------------------------
(* Databases of earlier versions for the run of Storage: one record with   *)
(* two revisions whose event times are not in the order of their ids.      *)
EXTENDS Storage, TLC

MCIds == 1 .. 4
MCNewIds == {3, 4}
MCRecordOf == [r \in MCIds |-> "a"]
MCTimeOf == <<7, 5, 6, 6>>

OldRows == {1, 2}
Rows(names) == [t \in Tables |-> IF t \in names THEN OldRows ELSE {}]
Unsequenced == [r \in MCIds |-> 0]
Sequenced == [Unsequenced EXCEPT ![1] = 1, ![2] = 2]

Database(names, columns, filled, sequence) ==
  [schema |-> names, cols |-> columns, rows |-> Rows(filled), seq |-> sequence]

Events == {"events", "record_events", "event_dispatch"}
Revisions == NewTables \ {"record_heads", "records_fts", "router_state"}

MCDatabases == {
  Database({}, {}, {}, Unsequenced),
  Database({"events"}, {}, {"events"}, Unsequenced),
  Database(Events, {"events.operation"}, Events, Unsequenced),
  Database(Events \cup {"events_fts", "record_heads"}, {"events.operation"},
           Events \cup {"events_fts"}, Unsequenced),
  Database({"revisions"}, {}, {"revisions"}, Unsequenced),
  Database(NewTables, {}, Revisions, Unsequenced),
  Database(NewTables, {"sequence", "producer"}, Revisions, Sequenced)}
=============================================================================

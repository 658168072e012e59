# Trove in TLA+

Trove is a personal event journal: a Go daemon that keeps an append-only log of
revisions in one SQLite database, projects records from it, and routes every
revision to plug-in modules that may derive further ones. This directory holds
TLA+ models of its core, the TLC runs that check them on small instances, and
proofs that TLAPS checks for every instance.

    tlc -workers 2 -config RecordStore.cfg MCRecordStore.tla
    tlc -workers 2 -config Host.cfg MCModuleHost.tla
    tlapm RouterProofs.tla

Paths below are relative to `src/`.

## The system

```
 sources (telegram, mqtt, http ingest)      processors, sinks     queries (MCP, HTTP, CLI)
        |  AppendRevision                        ^   |                     |
        v                                        |   | derived             v
  write service --> journal store <---------- event router          query service
   (validation)      one transaction:           watermark,            read only
        |            revision + head +          dispatch contexts
        v            link + search row              |
   blob store                                       | calls
                                                    v
  requests --> gateway ------ registries <---- supervisors: one per module,
   (HTTP, tools)  routes of    (HTTP, MCP,       start, bind, run, unbind, kill,
                  the start     events)          wait, start again
```

| component | code | state | operations | what makes it correct |
|---|---|---|---|---|
| journal store | `internal/journal/store.go`, `store_tx.go`, `records_schema.go` | tables `revisions`, `revisions_fts` | append in a transaction with a hook, prune at start | sequences of a record are unique; a revision and its projections are committed together or not at all |
| record index | `internal/records`, `internal/references` | tables `record_heads`, `record_revisions`, `records_fts` | fold one revision, rebuild all | a head is the fold of its history; links and the search index agree with heads |
| write service | `internal/modules/write.go`, `convert.go` | none | validate, append, read back the head | what it lets through can be folded |
| event router | `internal/modules/router.go`, `dispatch.go`, `internal/journal/routing.go` | watermark in the table `router_state`, contexts in the table `revision_dispatch` and in memory | deliver, append what is derived, save the watermark | nothing is skipped, no processor sees its own output, progress |
| registries, hosting | `internal/modules/revision_registry.go`, `plugin_host.go`, `runtime.go`, `supervisor.go` | bindings by name, processes, where each supervisor is | start, bind, run, unbind, kill, wait | a binding leads to the last start; a module that is dead comes back; a stop leaves nothing |
| migrations | `internal/journal/migrate.go`, `fts.go` | tables and columns that exist | five migrations, DDL, backfill | nothing is lost, wherever an opening was cut short before |
| gateway | `internal/gateway`, `http_registry.go`, `mcp_registry.go`, `authref.go` | the routes of the start | match, authorize, look up, call | a request reaches the module that declared the route, after the validator of that route |
| manifests, settings, command lines | `internal/modules/manifest.go`, `discover.go`, `settings.go`, `cli.go`, ... | files, read again at each start | discover, validate, collect, check | one name, one owner; no file of settings is left behind |
| type catalog | `internal/types` | the catalog, made at the start | register, match, validate | modules agree on the types they share |
| query | `internal/query` | none | read | - |
| blob store | `internal/blob` | content-addressed files | put, get | a ref names its whole content; no partial file is seen |
| Telegram source, classification | `modules/telegram-source`, `pkg/classify` | a session for each chat | capture, choose a type, fields, fast path | a capture is classified once, with what its type requires, and no chat is stuck |
| MQTT source | `modules/mqtt-source` | connection, subscriptions | connect, receive | - |
| HTTP ingest, HTTP gateway, MCP query, type-catalog modules, SDK | `modules/*`, `pkg/trovemodule` | none of their own | one call each | a reference given out resolves |
| daemon | `cmd/trove/main.go` | the start order | open, prune, check, start the router, start the modules, stop | - |

What is hard in it: writers meet in one SQLite database with deferred
transactions; the router keeps one fact in memory and in two tables that are
not written together; modules register, die and are restarted beside the loop
that calls them; ids are drawn before they are committed; retention deletes
from five tables and goes by times that sources supply; manifests change under
the supervisors that read them; an opening is eleven steps, of which any
may be the last; two handlers of a chat hold one session and no lock.
`PROJECT.json` lists
these hazards one by one at their lines, with the properties that cover them.

## Modules

| module | models | extends |
|---|---|---|
| `RecordFold` | the fold of one revision over a head, as operators | |
| `RecordStore` | appends, retention, crashes, over the store's tables | `RecordFold` |
| `RecordLog` | abstract: an append-only history for each record and its view | `RecordFold` |
| `RecordRebuild` | the offline rebuild, and the replay as reference definition | `RecordStore` |
| `RecordStoreProofs` | theorems about `RecordStore` and `RecordRebuild` | `RecordRebuild`, `LoopLemmas` |
| `Router` | the routing loop, its contexts and its surroundings | |
| `RouterProofs` | theorems about `Router` | `Router`, `TLAPS` |
| `Manifests` | manifests, discovery, tables, route matching, the type catalog, as operators | |
| `ModuleHost` | the daemon's start, supervisors, registries, requests, the stop | `Manifests` |
| `HostProofs` | theorems about `ModuleHost` and the refinement of `Hosting` | `ModuleHost`, `TLAPS` |
| `CatalogProofs` | the theorem about the type catalog | `HostProofs`, `LoopLemmas` |
| `Hosting` | abstract: what the router relies on of the host | |
| `JournalOpen` | the migrations of a database found, and appends to it | |
| `BlobStore` | concurrent puts, file by file | |
| `ContentStore` | abstract: contents that are there whole or not at all | |
| `Storage` | both stores on disk, their callers, crashes | `JournalOpen`, `BlobStore` |
| `StorageProofs` | theorems about `Storage`: blobs, references, search, stable numbers | `Storage`, `TLAPS` |
| `OpeningProofs` | theorems about the migrations: rows kept, numbers in order | `StorageProofs` |
| `TelegramBot` | one chat of the Telegram source, and classification | |
| `TelegramProofs` | theorems about `TelegramBot` | `TelegramBot`, `TLAPS` |
| `LoopLemmas` | general facts about loops written as recursive functions | `TLAPS` |
| `MCRecordStore`, `MCRouter`, `MCModuleHost`, `MCStorage`, `MCTelegramBot` | constants for TLC | |

### RecordFold

`FoldHead` is `foldHead` (`internal/records/materialize.go`): payload merge,
then transforms, then type, edges and completeness, for each of the four
operations; `FoldFails` gathers its errors. A JSON body is a function from a
few fields to values, with `Absent` for a missing key. A payload can also `Keep`
a key, so that RFC 7386's three cases are told apart; nested objects are not
modelled. Transforms are `remove` patches, which is the kind whose success
depends on the body. An edge list is the set of its edges; an unlink with an
empty relation removes every edge to its target, as `Subtract` does.

### RecordStore

One variable for each table, and for each writer the phase of its transaction.

| action | code |
|---|---|
| `BeginAppend` | `prepareAppend`, `BEGIN`, `SELECT MAX(sequence)`; takes the read snapshot |
| `InsertRevision` | the `INSERT`; takes the write lock, and is refused on a stale snapshot (WAL mode, deferred transactions) |
| `CommitAppend` | the materializer's hook and `COMMIT` |
| `AbortAppend` | any error on the way, rolled back |
| `Restart` | a stop or a crash at any point, then `PruneBefore`, or none (its error is only logged) |

What an open transaction has written is invisible to the others, so that the
statements between `INSERT` and `COMMIT` are one step. `stale` holds the
writers whose snapshot is older than the last commit.
The journal is append-only except for retention; ids are usually fresh ULIDs,
but a processor may supply one, and `BeginAppend` allows one that exists.

`RecordLog` says what all this amounts to with retention off: an append takes
the next position of one history and folds one request into its view, in one
step. `ImplementsLog` is the refinement, with the histories read off the rows.

`RecordRebuild` adds `RebuildAll`, which wipes the projections and replays the
journal. The same replay is the reference definition for `HeadIsReplay`.

### Router

`stage` is the place the loop has reached: `idle` (waiting, or about to query),
`procs` (calling processors), `append` (writing what one derived), `sinks`,
`dispatched` (the row is deleted, the watermark is not yet saved), `dead` (Run
has returned), `off` (the daemon is down).

| action | code |
|---|---|
| `Fetch` | `QueryAfter`, `LoadAndDelete` from `pending` or a load of the row, the processors' snapshot |
| `Derive`, `SaveContextFails`, `WriteDerived`, `FailDerived` | `appendDerived`: context first, then the append, or the drop of the context |
| `Processed`, `ToSinks`, `Handle` | `dispatch` |
| `CallFails` | an error of a module or of the policy: the delivery is given up and retried |
| `Finish`, `FinishFails`, `SaveMark`, `RunEnds` | the end of `deliver` and of the loop's body in `Run` |
| `BeginAppend`, `CommitAppend`, `AbortAppend` | appends of the host's other modules: the id is drawn, later it is committed |
| `Register`, `ModuleDies`, `Unregister` | `StartSource`, the end of a process, `handle.Close` |
| `Crash`, `Start`, `Tick` | the daemon, and the clock that ULIDs begin with |

Ids are numbers in the order of `id > ?`. Ids of one millisecond come in any
order, since a ULID goes on with random bits; ids of a later millisecond are
larger. Processors are called in any order: the code iterates over a Go map.
The watch channel only ends a wait early, and polling ends it anyway, so that
the loop may query at any time. `RootID` travels with `Seen` and decides
nothing in the host. The `claims` map is never found occupied by the one
goroutine there is.

Six history variables say what happened and steer nothing: `chain` (the
processors a revision came through), `handled`, `absent` (a matching module was
not registered when the revision was dispatched), `late` (committed when the
loop was already past it), `exposed` (its row is deleted and the watermark not
saved, and the derivatives of a redelivery in that state), `reused` (a
processor named an id that exists).

### ModuleHost, Manifests, Hosting

`Manifests` is what the daemon computes from module files before it starts
anything: valid kinds, discovery (the first manifest of a name wins, a
directory overrides a built-in module, a path that cannot be read drops the built-in ones),
the tables of routes, tools, commands and validators with their conflicts, the
matching of a request, and the type catalog.

`ModuleHost` runs it. `disk` is what the files are now, `scanned` what the scan
saw, `declared` what `runDaemon` read for its tables, `manifest[p]` what the
last start of module `p` read: the code reads the file again each time, and
these four may differ.

| action | code |
|---|---|
| `Edit` | somebody writes a manifest |
| `Discover`, `StartCommand`, `EndCommand` | `main`, up to a module's command line |
| `Launch`, `Refuse` | `runDaemon`: its checks, the settings files, the catalog, the gateway |
| `Supervise`, `Start`, `StartFails`, `RegisterModule` | `RunModules`, `StartSource` |
| `GetsReady`, `Dies`, `RunReturns` | the module's process |
| `RunEnds`, `Leave`, `Close`, `Restart`, `GiveUp` | the rest of `superviseModule` and of the goroutine `StartSource` leaves |
| `Request`, `GetValidator`, `Allow`, `GetHandler`, `Answer`, `CallTool`, `EndRequest` | `Gateway.handle`, `authorize`, `CallMCPTool`: each lookup is a step |
| `Stop`, `Exit` | the signal, and the return of `RunModules` |

A module is bound in up to three registries one after the other; nobody reads
two of them, and binding is one step. Waits have no length. A command line that
fails before its process has started changes nothing but the settings files.

`Hosting` is the event registry as `Router` uses it: bound once, dead under its
binding, unbound before it is bound again. In the mapping a binding counts as
broken from the moment its process is dead, or its `Run` has returned and it is
about to be unbound (`RunReturns`, `Leave`). `Router`'s own hosting actions are
the tolerant side of this: it allows whatever `Hosting` does, and more.

### JournalOpen, BlobStore, Storage

A table is the set of revisions its rows name; a column is there or not. `pc`
is the step of `Open` that is next. The migrations, the four blocks of DDL (statement by
statement, since they run outside a transaction) and the backfill each leave a
database in which the next start begins again. `hidden` is the set of tables
whose existence a query could not find out: `tableExists` reads an error as
"no". A step that cannot be done aborts, and the next start meets it again:
`MigrateEventsToRevisions` where a new name is taken, `MigrateReferences` where
the heads already have the column that the revisions lack.

`BlobStore` follows `Put` through its directory, its data file, the empty commit file
and two renames. A content stands for its bytes, its hash and its path.

`Storage` puts them under one process: the daemon opens the journal, workers
put a content and append a revision that names it, an HTTP client is answered
with a reference and sends it back in a later request, perhaps to a later
process. Nothing in the code checks that a reference resolves; `RefsResolve`
says that those it gave out do. A crash is of the process: files that were
written stay written. Nothing is said about a loss of power, since the code
does not sync.

### TelegramBot

`heap` holds every session ever made, `current` is the chat's entry in the
session store, and each of `at[h]` is a handler: the place in its code and the
session it holds. The bot library runs handlers in goroutines, and the session
store's mutex guards the map and not the sessions in it, so that two handlers
may hold one session and neither may be the current one. A step ends where a handler takes the mutex or
calls the core. `FieldIndex++` may use a stale operand.

| action | code |
|---|---|
| `RefuseContent`, `AdmitContent`, `Route` | `handleContent`: the busy check, and the second look |
| `Draft`, `Capture`, `Adopt` | `buildDraft`, `handleCapture` |
| `Tap`, `Begin`, `Prompt`, `Answer`, `Skip`, `Advance` | the type keyboard and the fields |
| `FastPath`, `Start`, `FastPathContent` | `startFastPath`, `handleFastPathContent` |
| `ClassifyCommand`, `Finish`, `Fail`, `AppendRevision`, `Clear` | `handleClassifyCommand`, `finishClassify`, `finishFastPath`, `Classify` |
| `EndSession`, `Elsewhere`, `Crash` | `/cancel` and expiry, other clients of the core, the end of the module |

## Runs

| run | constants | checks | shows |
|---|---|---|---|
| `RecordStore` | 2 writers, 2 records, 3 ids, 7 requests, no retention | `HeadIsReplay`, `SearchComplete`, `RebuildReproduces`, `ImplementsLog` | whatever two writers, aborts, crashes and rebuilds do, each projection is the fold of the journal, and the whole is an append-only log |
| `RecordRetention` | the same, times on both sides of a cutoff | `SequenceUnique`, `OneLinkPerRevision`, `ReplayOrderIsVersionOrder`, `NextVersionFree`, `HeadsAreBacked`, `SearchSound` | retention may cut anything out of a history, its newest revision included, and numbering, links, heads and search stay consistent |
| `RecordRebuild` | as `RecordStore` | `RebuildAlwaysReproduces`, violated | a journal with one untyped revision cannot be rebuilt |
| `Router` | 2 processors in a cycle, 1 sink, 3 ids of one millisecond, 2 faults: crash, module error, database error | `ContextSurvives`, `NoLoop`, `PassedIsHandled` | contexts outlive crashes and errors, no loop forms, nothing is skipped, up to the exceptions named below |
| `RouterLive` | all modules watched, 2 ids of two milliseconds, 2 faults: crash, module error, death, reused id | `EventuallyPassed`, `ContextSurvives`, `PassedIsHandled` | the watermark passes every revision that is not late; a processor that names an existing id harms that revision and its derivatives, and no other |
| `RouterLoop` | | `LoopPrevented`, violated | see the first exception |
| `RouterStartup` | | `EveryRevisionDispatched`, violated | the router runs before modules have registered |
| `RouterDeath` | nothing watched | `CrashIsolated`, violated | a dead processor holds up everybody |
| `Telegram` | 2 handlers, 4 updates, 2 records, a type without fields and one with an optional and a required field | `RequiredAnswered`, `ClassifiedOnce`, `BusyMeansOpen` | no revision lacks a required field, no record is classified twice, no chat stays busy with a record that is done |
| `TelegramFields` | the same | `AnswersTaken`, violated | a chat that waits for a field refuses the message that answers it |
| `Host` | 7 setups of two directories and a built-in module, 1 edit, 2 faults: settings, path, listen, start, death, return | `LatestBinding`, `RunningIsBound`, `ServedByOwner`, `CleanExit`, `CatalogAgrees`, `ImplementsHosting`, `Recovers`, `Stops` | bindings lead to live starts, requests to their owners, dead modules come back, a stop leaves nothing, and the router's assumptions hold |
| `Storage` | 7 databases of earlier versions, 2 old revisions and 2 new ones, 2 workers, 3 faults | `RevisionsKept`, `Searchable`, `Ordered`, `SequenceStable`, `RefsResolve`, `TempsRemoved`, `ImplementsContentStore`, `EventuallyOpens` | no path of migrations, errors and crashes loses, renumbers or hides a revision, and every reference resolves |

The exceptions in the router's properties are behaviours of the code, kept
visible as sets and not as weaker models:

- `exposed`: `deliver` deletes the context's row before `Run` saves the
  watermark. A crash between the two redelivers without the context, and the
  processor is given what it derived. The documentation promises otherwise
  (`docs/planning/processors-sinks.md`, "restart catch-up preserves loop
  prevention"): the finding of `RouterLoop`.
- `reused`: a processor that answers with the id of an existing revision makes
  its append fail, and the failure path drops that id's context. The delivery
  is retried until the processor answers something else.
- `late`: an id that is committed after the loop has passed a larger one is
  never fetched.
- `absent`: a module that is not registered at the time of dispatch gets
  nothing; the finding of `RouterStartup`.

Those of the other models are made the same way:

- `renamed` (`ModuleHost`): a name that a module has taken which had another at
  the scan. Names are compared at the scan only, and two modules of one
  name overwrite and delete each other's bindings.
- `DeclaredTwice`, `DeclaredAsUser` (`ModuleHost`): `Register` compares a type
  with the entry that is in place only, and does not compare what one source
  declares twice, nor anything with the source "user"
  (`internal/types/catalog.go:28`). A module that declares a type twice, two
  modules of one name, and a module that is called "user" therefore escape the
  conflict that `docs/concepts/type-catalog.md` promises, and may hide a third
  module's. `CatalogAgrees` names these cases; an earlier form of it
  that did not held in the run and could not be proved.
- `overlooked` (`JournalOpen`): a table that an error hid from a migration. The
  DDL then makes an empty one of the new name, and the old one is never looked
  at again. Databases from before records are wiped on purpose
  (`PreRecords`).
- `HeadsAhead` (`Storage`): the state in which opening fails for good. When an
  error hides `revisions` from `migrateReferences`, the step is skipped, and on
  a database without `record_heads` the DDL makes that table with the column
  `references`. Every later start then finds the revisions without it, and
  adds it to the heads a second time (`migrate.go:310`): a duplicate column, a
  rollback, and `Open` returns the error. `EventuallyOpens` excepts this
  state, only after a hidden error; stated without the exception
  (`[]<>(pc = "open")`) it is violated in the run `Storage`, and already with
  two faults, the error and one interruption.
- `shared` and `contended` (`TelegramBot`): a session or a record that two
  handlers, or a handler and another client, worked on at once, and a record
  that changed between `Classify`'s read and its append. There a required
  field may be passed by two `/skip`s, a record classified twice, a finished
  session put back.
- `orphans` (`BlobStore`): temporary files of a crash stay for good.
- A refused start may leave settings files (`os.Exit` runs no deferred call);
  `CleanExit` speaks of daemons that have run.

### Bounds

Three ids make every pair of appends to one record with a third one after
them, or two records that pass each other; a fold looks at one predecessor, so
that a fourth revision shows nothing new of it. Requests were chosen so that two do
not commute, one fails on some bodies, and each operation occurs. `MaxVersion`
is above what three ids can reach without retention, and with it allows
an id to be pruned and used again. Symmetry is over ids and writers, which the
model only compares for equality; no run with symmetry checks liveness.

Three ids in the router make a revision, one derived from it, and one
derived from that by the other processor, which is what a loop takes; or
a derived revision beside one a source commits late. `MaxDerived` = 1 bounds the
answers of one call and, with `PerTick` ids to a millisecond, keeps the run
small. Two faults make a crash during the recovery from an error. `RouterLive`
has an id in each of two milliseconds, so that `Tick` and deaths are in it
and a liveness check stays cheap.

In the chat, four updates make a capture, a tap, a `/skip` and one that comes
late or races with one of these; a third handler adds a second pair that
races, which no property tells from the first. Handlers and records
are symmetric.

The setups of `Host` hold each kind of module, an override of a built-in
module, two types in conflict, two modules with one route and an invalid
manifest; one of the edits gives a module the name of another. Two faults
make a death during the recovery from a failed start. Modules do not
interact but in registries and tables by their names, which two of them show.

The databases of `Storage` are one empty, one from before records, and one of each
later shape of the schema, with two revisions whose event times are not in the
order of their ids; the new ones have times between and equal to theirs. Three
faults make a crash in an opening that goes on after a crash that followed an
error. Blobs run with one content and two workers: contents share nothing.
Two contents with two faults passed as well, and the theorems hold for any set.

The configuration of `Host` says `CHECK_DEADLOCK FALSE` because a daemon exits;
router configurations say `CHECK_DEADLOCK FALSE`: `Run` really ends after a
failed save of the watermark, and the ids, milliseconds and faults of an
instance are used up. The record store's `Restart` is always possible.

### Fairness

`FairSpec` assumes weak fairness of the loop's steps: `Run` is one goroutine
that never blocks for ever except in a call to a module, and a call is taken to
return, with an answer or an error. `Start` is fair: a daemon
that nobody starts again routes nothing, and the property is about one that is. `Unregister` of a watched module is fair: `moduleClient.Run` is then a
call that returns when the process dies, and the supervisor closes the
handle. Nothing else is: sources need not append, modules need not register,
nothing needs to fail. Faults are bounded by `MaxFaults`, since a module
that always returns an error is retried for ever, which the code means to do.

`Host` assumes weak fairness of each supervisor's steps (a goroutine that waits
on channels and timers) and of the exit. Modules need not get ready, die or
answer, requests need not come or end, nobody needs to stop the daemon; and
`RunEnds` of a module that has no call to wait for is enabled by a stop only,
so that `Stops` and `Recovers` do not rest on what the module does.

`Storage` assumes only that `Open` goes on and that a daemon that was closed is
opened again (`WF(Opening)`). No put needs to finish. `TelegramBot` has no
liveness property: users need not answer.

## Proofs

Seven modules prove all safety properties and refinements that the passing runs check,
from inductive invariants with one lemma for each action. They assume what the constants' ASSUMEs say, and nothing about
sizes: any number of writers, records, modules, handlers, contents, faults. The
ASSUMEs that are more than types are these, and TLC evaluates them in
every run:

- `DatabasesAssumption`: an earlier version's database has rows only in tables
  it has, and a search index that is empty or complete, which is what the
  code of each version writes in a transaction.
- `SetupsAssumption`: the built-in modules have names of their own.
- `SeenAssumption`: `SeenToExit`, the abstract host's set of names whose
  processes are watched, has each name that needs to be in it.
- `PlacesAssumption`: built-in modules come after the directories.

**RecordStore.** All theorems are about `RebuildSpec`, the store with retention
and rebuilds. `StoreInvariant` is `[]SInv`. The properties are not
inductive: they speak of committed rows, and what threatens them is a
transaction that is open. `SInv` adds that at most one writer holds the lock,
and it with a fresh snapshot; that the sequence a fresh transaction has read is one more than
the last; that a link's version lies below its head's; that the order of
sequences is that of versions, through what retention removed; and that the
rows are valid requests. A rebuild keeps all this although after retention
sequences have gaps, and it numbers the versions anew: `HistoryShape` shows
that the ranks of a record's sequences put its revisions in an order
without gaps, which needs that they are finitely many, which the links say;
`ReplayShape` shows that the replay of valid requests is a head with one
version for each. `RebuildRestoresSearch` says in addition that a rebuild
brings back the search rows that retention took.

With `Cutoffs = {}` (`retention_days = 0`, the default)
more is true, and needs a second invariant, `RInv`: sequences have
no gap and equal versions, and there is a *story* of each record, a head per
version that begins with no row and goes on by the fold of one revision each,
to the head that is in the table. A commit makes the story longer by one. So no
induction over histories is needed in the invariant; `ReplayIsForced` shows
once that whatever is the fold at every place is what `Replay` computes. From
this follow `HeadsAreReplays`, `RebuildsReproduce`, `RebuildChangesNothing`
and the refinement `StoreImplementsLog`, in which a rebuild is a stutter.

**Router.** `RouterInvariant` is `Spec => []IInv`. `NoLoop` needs that `seen`
is the whole chain of `cur` unless the revision is exposed or reused, which
needs that the row has survived (`ContextSurvives`), which needs that the row
and `pending` agree, and that an id that is being written belongs to one
append only (`IdsShape`). `PassedIsHandled` needs `Progress`: what a snapshot
did not contain has been handled, was absent or is in the chain.

**ModuleHost.** `HostInvariant` has seven parts. `ScanShape`: one module
per name. `TableShape`: what the start read is valid and its validators
exist. `LifeShape`, `StageShape`, `LaunchShape`: where supervisors, processes and settings
files are at each point of the daemon's life. `RegistriesShape`: each of the three
registries leads to modules of its kind that run, and to each of them whose
name is its own. `RequestShape`: what a request that is under way has been told,
at each of its places, which is why deaths and restarts in between
cannot send it to another module. `HostImplementsHosting` has one lemma for
each action, and one hypothesis, `[]EventNamesKept`: no module that takes events runs under
a name that was taken after the scan. Without it two modules unbind each other, which
the router's model tolerates and `Hosting` does not; the setups of the run satisfy it.

**Type catalog.** `ModulesAgreeOnTypes` is about what two nested loops of
`Register` leave behind. They are recursive functions in `Manifests`, so
that they can be reasoned about, and the proof is by a least counterexample:
`LoopLemmas` derives from the least number principle that the function
of a loop exists and that what each round keeps holds after all. An
operator cannot be a parameter of a lemma here; sets of rounds take its place.

**Storage.** `StorageInvariant` is `Spec => []StorageInv`, three parts that
share little. `BlobInv` says what a put's two files hold at each of its places;
from it follows that the rename to a destination only ever brings a whole file.
`RefsInv` says that what has a reference is stored, and needs that nothing takes a
content away. `JournalInv` says that the search index is empty or complete and
complete when `Open` is past the backfill; that a number belongs to a revision
in a table that has the column; and that the table of revisions exists from the
second block of DDL on. That is why the backfill may trust an index with one
row, and why the renumbering of a repeated opening finds nothing to number.

`OpeningProofs` adds the history of an opening. `KeptInv` says where the rows
that were found are while the migrations go on: under one of a table's
two names, and under the old one only while the old events are there,
unless an error hid a table. `OrderInv` is `Ordered` for every state in which
there are sequences; that the numbering by event times keeps it rests on
`Greatest`, that a finite set of numbers has a greatest one.

**TelegramBot.** `TelegramInvariant` says for each place of a handler what it
holds (`Shape`), that whatever two handlers hold at a time is noted
(`SharingNoted`), that a session no two have worked on has a value for every
required field it has passed (`Answered`), that the completeness of a record
tells how often it was classified (`Counted`), and that the session of the
chat has an open record or is about to go (`Open`).

| theorem | establishes |
|---|---|
| `TypeCorrect`, `RouterTypeCorrect`, `HostTypesCorrect`, `StorageTypesCorrect`, `TelegramTypesCorrect` | `TypeOK` of each model |
| `SequencesAreUnique`, `LinksMatchRevisions`, `ReplayOrderCorrect`, `NextVersionAlwaysFree`, `HeadsBacked`, `SearchIsSound` | the properties of `RecordRetention` |
| `RebuildRestoresSearch` | after any rebuild each live head can be found |
| `SearchIsComplete`, `HeadsAreReplays`, `RebuildsReproduce`, `StoreImplementsLog` | the properties of `RecordStore`, without retention |
| `RebuildChangesNothing` | a rebuild changes no table, without retention |
| `ContextAlwaysSurvives`, `NoLoopEver`, `PassedAlwaysHandled` | the properties of `Router` |
| `BindingsAreOfTheLatest`, `RunningModulesAreBound`, `AnsweredByTheOwner`, `ExitIsClean` | `LatestBinding`, `RunningIsBound`, `ServedByOwner`, `CleanExit` |
| `HostImplementsHosting` | the refinement `ImplementsHosting`, while event names are kept |
| `OneProcessAtATime` | a module's process starts only when the one before it is gone |
| `ModulesAgreeOnTypes` | `CatalogAgrees` |
| `RevisionsAreKept`, `RevisionsAreOrdered` | `RevisionsKept`, `Ordered` |
| `EveryRevisionFound`, `SequencesStay` | `Searchable`, `SequenceStable` |
| `ReferencesResolve`, `PutLeavesNothing` | `RefsResolve`, `TempsRemoved` |
| `FilesImplementContents` | the refinement `ImplementsContentStore` |
| `RequiredFieldsAnswered`, `RecordsClassifiedOnce`, `QuietChatIsOpen` | `RequiredAnswered`, `ClassifiedOnce`, `BusyMeansOpen` |

Checked by TLC only: liveness under fairness (`EventuallyPassed`, `Recovers`,
`Stops`, `EventuallyOpens`), which TLAPS cannot prove because it has no
ENABLED; and the refinement of `Hosting` without its hypothesis, in the
instance of `Host`.

## Not modelled

- Queries (`internal/query`, the MCP query module): read-only conversions and
  filters over rows that the journal's models have.
- The work of libraries on documents: JSON schema compilation and validation,
  JSON patch beyond `remove`, TOML.
- The MQTT source: the connection and its retries are the client library's,
  and what is left is an append for each message and a map that a health report
  is made of.
- The generated gRPC code in `internal/modules/rpc`, about 30 % of the lines of
  the implementation, and the plumbing around it in the SDK.
- `Range` and `Enumerate` of the blob store change nothing, and `Enumerate` has
  no caller.
- `busy_timeout` and the pool of connections: a writer that does not get the
  lock waits or aborts.
- The cycles of the routing graph: the code only logs a warning about them.
- Requests in flight when the gateway shuts down: `Serve` returns at once, and
  the process may exit before they are answered; the model ends them at
  `Exit`.
- Texts, headers, ranking, logging, the length of waits.

## Plan

Done: the record store, the router, the module host, the stores on disk and
the Telegram chat, with all their safety properties and refinements proved.

1. Retention at a start and the router over one journal: which revisions are
   pruned before they were dispatched.
2. The steps to liveness that can be proved without ENABLED: what a fair step
   of the router's loop and of a supervisor brings nearer, as action
   properties with a measure.
3. Pure algorithms against reference definitions: the paging of queries, the
   routing graph's cycle search.

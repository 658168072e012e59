----------------------------- MODULE ModuleHost -----------------------------
(***************************************************************************)
(* The daemon around the router (cmd/trove/main.go): it discovers modules, *)
(* checks what they declare, opens the HTTP gateway and keeps one          *)
(* supervisor per module (supervisor.go), which starts the module's        *)
(* process, binds it in the registries, waits for the client's Run to      *)
(* return, unbinds it, kills it and starts it again (runtime.go).  Beside  *)
(* that, requests find their module through the routes of the start and    *)
(* the registries of the moment (gateway.go, services.go).                 *)
(*                                                                         *)
(* A supervisor reads its module's manifest again at every start.  The     *)
(* routes, tools and validators are those that were read when the daemon   *)
(* started.  A start binds a module in up to three registries, one after   *)
(* another; no reader looks at two of them, and binding is one step here.  *)
(* Waits have no length: the backoff is only a step of its own.            *)
(***************************************************************************)
EXTENDS Manifests, Integers

CONSTANTS
  Setups,          \* what the disk may hold when the daemon starts, by place
  Versions,        \* per directory, what somebody may write there later
  SeenToExit,      \* names of modules whose process the supervisor sees end
  DefaultAuth,     \* http.auth.validator
  Requests,        \* HTTP requests: method and url
  Faults,          \* the kinds of fault that may happen
  MaxFaults, MaxEdits, \* bounds: faults, files written while the daemon runs
  NoBinding, NoPlace

Mods == ToSet(Places)

ASSUME BoundsAssumption == MaxFaults \in Nat /\ MaxEdits \in Nat

VARIABLES
  disk,       \* per place, its manifest file
  scanned,    \* per place, the manifest of the scan
  declared,   \* per place, the manifest that the tables and checks are made of
  daemon,     \* "off", "found", "command", "up", "stopping", "exited", "refused"
  gateway,    \* "off", "serving", "failed", "closed"
  overlays,   \* temporary settings files exist
  stage,      \* per place, where its supervisor is
  manifest,   \* per place, the manifest it was started with last
  proc,       \* per place, its process: "none", "up", "ready", "dead"
  launches,   \* per place, the number of its processes so far
  http, mcp, events,  \* the registries: per name, place and launch
  req,        \* the request being served, until its answer has gone
  renamed,    \* history: names taken by modules that had another at the scan
  faults, edits

tables == <<scanned, declared>>
registries == <<http, mcp, events>>
bounds == <<faults, edits>>
vars == <<disk, scanned, declared, daemon, gateway, overlays, stage, manifest, proc, launches,
          http, mcp, events, req, renamed, faults, edits>>

Manifest == (UNION {{s[p] : p \in Mods} : s \in Setups}) \cup (UNION {Versions[p] : p \in Dirs})
Names == {m.name : m \in Manifest \ {Gone, Broken}}

(* The built-in modules have names of their own (bundled.go). *)
ASSUME SetupsAssumption ==
  \A s \in Setups :
    /\ s = [p \in Mods |-> s[p]]
    /\ \A p, q \in Mods \cap BuiltIn : p # q => s[p].name # s[q].name

ASSUME ManifestsAssumption ==
  \A m \in Manifest \ {Gone, Broken} : m.types \in Seq(ToSet(m.types))

(* What SeenToExit means. *)
ASSUME SeenAssumption ==
  \A m \in Manifest : (Parses(m) /\ SeesExit(m) /\ InEvents(m)) => m.name \in SeenToExit

ASSUME NothingAssumption == NoBinding \notin Mods \X Nat /\ NoPlace \notin Mods

Live == daemon \in {"up", "stopping"}
Supervisor == {"listed", "load", "register", "run", "leave", "close", "backoff", "end"}

Idle == [step |-> "idle", place |-> NoPlace, name |-> NoBinding, ref |-> NoValidator,
         client |-> NoBinding, consent |-> NoPlace]

Binding == {NoBinding} \cup (Mods \X (1..(MaxFaults + 1)))

TypeOK ==
  /\ disk \in [Mods -> Manifest]
  /\ scanned \in [Mods -> Manifest \cup {Gone}] /\ declared \in [Mods -> Manifest \cup {Gone}]
  /\ daemon \in {"off", "found", "command", "up", "stopping", "exited", "refused"}
  /\ gateway \in {"off", "serving", "failed", "closed"}
  /\ overlays \in BOOLEAN
  /\ stage \in [Mods -> Supervisor]
  /\ manifest \in [Mods -> Manifest \cup {Gone}]
  /\ proc \in [Mods -> {"none", "up", "ready", "dead"}]
  /\ launches \in [Mods -> 0..(MaxFaults + 1)]
  /\ \A r \in {http, mcp, events} : r \in [Names -> Binding]
  /\ req.step \in {"idle", "authorize", "validate", "lookup", "handle", "tool", "done"}
  /\ req.place \in Mods \cup {NoPlace} /\ req.consent \in Mods \cup {NoPlace}
  /\ req.client \in Binding
  /\ renamed \subseteq Names
  /\ faults \in 0..MaxFaults /\ edits \in 0..MaxEdits

Init ==
  /\ disk \in Setups
  /\ scanned = [p \in Mods |-> Gone] /\ declared = [p \in Mods |-> Gone]
  /\ daemon = "off" /\ gateway = "off" /\ overlays = FALSE
  /\ stage = [p \in Mods |-> "end"]
  /\ manifest = [p \in Mods |-> Gone]
  /\ proc = [p \in Mods |-> "none"] /\ launches = [p \in Mods |-> 0]
  /\ http = [n \in Names |-> NoBinding]
  /\ mcp = [n \in Names |-> NoBinding]
  /\ events = [n \in Names |-> NoBinding]
  /\ req = Idle /\ renamed = {} /\ faults = 0 /\ edits = 0

-----------------------------------------------------------------------------
Fault(kind) == kind \in Faults /\ faults < MaxFaults /\ faults' = faults + 1 /\ UNCHANGED edits

(* Somebody writes a manifest, or removes it. *)
Edit(p, m) ==
  /\ daemon \notin {"exited", "refused"}
  /\ edits < MaxEdits /\ edits' = edits + 1
  /\ m # disk[p]
  /\ disk' = [disk EXCEPT ![p] = m]
  /\ UNCHANGED <<tables, daemon, gateway, overlays, stage, manifest, proc, launches, registries,
                 req, renamed, faults>>

(* The manifest of a discovered place, read now. *)
Read(p) == Loaded(p, scanned[p], disk[p])
FoundNow == Found(scanned)

(* A discovery that fails is logged, and the daemon goes on. *)
Discover ==
  /\ daemon = "off"
  /\ daemon' = "found"
  /\ \/ scanned' = Scan(disk, Dirs) /\ UNCHANGED bounds
     \/ Fault("path") /\ \E lost \in Dirs : scanned' = Scan(disk, Dirs \ {lost})
  /\ UNCHANGED <<disk, declared, gateway, overlays, stage, manifest, proc, launches, registries,
                 req, renamed>>

-----------------------------------------------------------------------------
(* NewSettingsStore writes a file for every module that trove.toml has     *)
(* settings for; when one cannot be written, those before it stay.         *)
WriteOverlays == overlays' = TRUE
WriteOverlaysFails == Fault("settings") /\ overlays' \in BOOLEAN

(* SettingsStore.Close. *)
RemoveOverlays == overlays' = FALSE

(* A command line with a module's command: nothing but that module runs.   *)
(* Its manifest is found by the name that the scan gave it.                *)
StartCommand(c, p, q) ==
  /\ daemon = "found"
  /\ \A r \in FoundNow : ~Unloadable(r, disk[r])
  /\ LET man == [r \in Mods |-> Read(r)] IN
       /\ ~Duplicated(Commands(FoundNow, man))
       /\ <<p, c>> \in Commands(FoundNow, man)
       /\ q \in FoundNow /\ scanned[q].name = man[p].name
       /\ HasCommands(man[q])
       /\ BuildCatalog(FoundNow, man) # Broken
       /\ \/ /\ WriteOverlays
             /\ daemon' = "command"
             /\ manifest' = [manifest EXCEPT ![q] = man[q]]
             /\ proc' = [proc EXCEPT ![q] = "up"]
             /\ launches' = [launches EXCEPT ![q] = @ + 1]
             /\ UNCHANGED bounds
          \/ /\ WriteOverlaysFails
             /\ daemon' = "refused"
             /\ UNCHANGED <<manifest, proc, launches>>
  /\ UNCHANGED <<disk, tables, gateway, stage, registries, req, renamed>>

(* It answers or fails; the process is killed, the settings files removed. *)
EndCommand ==
  /\ daemon = "command"
  /\ daemon' = "exited"
  /\ RemoveOverlays
  /\ proc' = [p \in Mods |-> "none"]
  /\ UNCHANGED <<disk, tables, gateway, stage, manifest, launches, registries, req, renamed,
                 bounds>>

-----------------------------------------------------------------------------
(* What runDaemon checks before it writes the settings files. *)
Consistent(man) ==
  LET routes == Routes(FoundNow, man) IN
    /\ \A p \in FoundNow : ~Unloadable(p, disk[p])
    /\ ~DuplicateRoutes(routes)
    /\ ~Duplicated(Tools(FoundNow, man))
    /\ ~DuplicateRefs(FoundNow, man)
    /\ AuthConfigured(DefaultAuth, routes, DeclaredRefs(FoundNow, man))

Reread == [p \in Mods |-> IF scanned[p] = Gone THEN Gone ELSE Read(p)]

(* Every check passes: the gateway listens, RunModules lists its modules.  *)
Launch ==
  /\ daemon = "found"
  /\ Consistent(Reread)
  /\ BuildCatalog(FoundNow, Reread) # Broken
  /\ daemon' = "up"
  /\ declared' = Reread
  /\ renamed' = {Reread[p].name : p \in {q \in FoundNow : Reread[q].name # scanned[q].name}}
  /\ WriteOverlays
  /\ stage' = [p \in Mods |-> IF p \in FoundNow THEN "listed" ELSE "end"]
  /\ \/ gateway' = "serving" /\ UNCHANGED bounds
     \/ gateway' = "failed" /\ Fault("listen")
  /\ UNCHANGED <<disk, scanned, manifest, proc, launches, registries, req>>

(* os.Exit(1).  It runs no deferred call: settings files that were written *)
(* before a type conflict stay.                                            *)
Refuse ==
  /\ daemon = "found"
  /\ \/ ~Consistent(Reread) /\ UNCHANGED <<overlays, bounds>>
     \/ Consistent(Reread) /\ WriteOverlaysFails
     \/ /\ Consistent(Reread) /\ BuildCatalog(FoundNow, Reread) = Broken
        /\ WriteOverlays /\ UNCHANGED bounds
  /\ daemon' = "refused"
  /\ UNCHANGED <<disk, tables, gateway, stage, manifest, proc, launches, registries, req,
                 renamed>>

-----------------------------------------------------------------------------
(* One supervisor.  RunModules reads the manifest before it starts one; a  *)
(* manifest that cannot be read now is given up for good.                  *)
Supervise(p) ==
  /\ Live /\ stage[p] = "listed"
  /\ \A i, k \in DOMAIN Places : Places[k] = p /\ i < k => stage[Places[i]] # "listed"
  /\ stage' = [stage EXCEPT ![p] =
       IF ~Unloadable(p, disk[p]) /\ Supervised(Read(p)) THEN "load" ELSE "end"]
  /\ UNCHANGED <<disk, tables, daemon, gateway, overlays, manifest, proc, launches, registries,
                 req, renamed, bounds>>

(* StartSource reads the manifest and starts the process.                  *)
Start(p) ==
  /\ daemon = "up" /\ stage[p] = "load"
  /\ ~Unloadable(p, disk[p])
  /\ manifest' = [manifest EXCEPT ![p] = Read(p)]
  /\ renamed' = renamed \cup {n \in {Read(p).name} : n # scanned[p].name}
  /\ proc' = [proc EXCEPT ![p] = "up"]
  /\ launches' = [launches EXCEPT ![p] = @ + 1]
  /\ stage' = [stage EXCEPT ![p] = "register"]
  /\ UNCHANGED <<disk, tables, daemon, gateway, overlays, registries, req, bounds>>

(* Mutant: a module that cannot be started is given up. *)
StartFailsForGood(p) ==
  /\ daemon = "up" /\ stage[p] = "load"
  /\ \/ Unloadable(p, disk[p]) /\ UNCHANGED bounds
     \/ Fault("start")
  /\ stage' = [stage EXCEPT ![p] = "end"]
  /\ UNCHANGED <<disk, tables, daemon, gateway, overlays, manifest, proc, launches, registries,
                 req, renamed>>

(* There is no file to execute, or no handshake with its process, which is *)
(* then killed.                                                            *)
ExecFails == Fault("start")

(* No manifest, or no process. *)
StartFails(p) ==
  /\ daemon = "up" /\ stage[p] = "load"
  /\ \/ Unloadable(p, disk[p]) /\ UNCHANGED bounds
     \/ ExecFails
  /\ stage' = [stage EXCEPT ![p] = "backoff"]
  /\ UNCHANGED <<disk, tables, daemon, gateway, overlays, manifest, proc, launches, registries,
                 req, renamed>>

Bind(registry, p) == [registry EXCEPT ![manifest[p].name] = <<p, launches[p]>>]
Unbind(registry, p) == [registry EXCEPT ![manifest[p].name] = NoBinding]

(* Mutant: only modules with routes are bound for the gateway. *)
RegisterRoutes(p) ==
  /\ stage[p] = "register"
  /\ http' = IF HasRoutes(manifest[p]) THEN Bind(http, p) ELSE http
  /\ mcp' = IF InMCP(manifest[p]) THEN Bind(mcp, p) ELSE mcp
  /\ events' = IF InEvents(manifest[p]) THEN Bind(events, p) ELSE events
  /\ stage' = [stage EXCEPT ![p] = "run"]
  /\ UNCHANGED <<disk, tables, daemon, gateway, overlays, manifest, proc, launches, req,
                 renamed, bounds>>

RegisterModule(p) ==
  /\ stage[p] = "register"
  /\ http' = IF InHTTP(manifest[p]) THEN Bind(http, p) ELSE http
  /\ mcp' = IF InMCP(manifest[p]) THEN Bind(mcp, p) ELSE mcp
  /\ events' = IF InEvents(manifest[p]) THEN Bind(events, p) ELSE events
  /\ stage' = [stage EXCEPT ![p] = "run"]
  /\ UNCHANGED <<disk, tables, daemon, gateway, overlays, manifest, proc, launches, req,
                 renamed, bounds>>

(* LoadModuleConfig: the file that the environment names has to be there.  *)
LoadModuleConfig == overlays

(* The module's own Run has read its settings; before that it refuses what *)
(* it is asked over HTTP.                                                  *)
GetsReady(p) ==
  /\ stage[p] = "run" /\ proc[p] = "up" /\ InHTTP(manifest[p])
  /\ LoadModuleConfig
  /\ proc' = [proc EXCEPT ![p] = "ready"]
  /\ UNCHANGED <<disk, tables, daemon, gateway, overlays, stage, manifest, launches, registries,
                 req, renamed, bounds>>

(* A process that is going to be killed anyway need not die. *)
Dies(p) ==
  /\ proc[p] \in {"up", "ready"} /\ stage[p] \in {"register", "run"}
  /\ Fault("death")
  /\ proc' = [proc EXCEPT ![p] = "dead"]
  /\ UNCHANGED <<disk, tables, daemon, gateway, overlays, stage, manifest, launches, registries,
                 req, renamed>>

(* Mutant: the wait of a module without a call does not end with ctx. *)
RunEndsByCall(p) ==
  /\ stage[p] = "run" /\ SeesExit(manifest[p])
  /\ proc[p] = "dead" \/ daemon = "stopping"
  /\ stage' = [stage EXCEPT ![p] = "leave"]
  /\ UNCHANGED <<disk, tables, daemon, gateway, overlays, manifest, proc, launches, registries,
                 req, renamed, bounds>>

(* Mutant: the Run of a module without a call does not wait. *)
RunEndsAtOnce(p) ==
  /\ stage[p] = "run"
  /\ proc[p] = "dead" \/ daemon = "stopping" \/ ~SeesExit(manifest[p])
  /\ stage' = [stage EXCEPT ![p] = "leave"]
  /\ UNCHANGED <<disk, tables, daemon, gateway, overlays, manifest, proc, launches, registries,
                 req, renamed, bounds>>

(* moduleClient.Run returns: the call to the process has ended, or the     *)
(* daemon stops.  For a module that only takes events there is no call.    *)
RunEnds(p) ==
  /\ stage[p] = "run"
  /\ \/ SeesExit(manifest[p]) /\ proc[p] = "dead"
     \/ daemon = "stopping"
  /\ stage' = [stage EXCEPT ![p] = "leave"]
  /\ UNCHANGED <<disk, tables, daemon, gateway, overlays, manifest, proc, launches, registries,
                 req, renamed, bounds>>

(* The module's Run returns in a process that goes on. *)
RunReturns(p) ==
  /\ stage[p] = "run" /\ SeesExit(manifest[p]) /\ proc[p] \in {"up", "ready"}
  /\ Fault("return")
  /\ proc' = [proc EXCEPT ![p] = "up"]
  /\ stage' = [stage EXCEPT ![p] = "leave"]
  /\ UNCHANGED <<disk, tables, daemon, gateway, overlays, manifest, launches, registries, req,
                 renamed>>

(* Mutant: unbound under the name of the scan. *)
LeaveScanned(p) ==
  /\ stage[p] = "leave"
  /\ http' = [http EXCEPT ![scanned[p].name] = NoBinding]
  /\ mcp' = [mcp EXCEPT ![scanned[p].name] = NoBinding]
  /\ events' = [events EXCEPT ![scanned[p].name] = NoBinding]
  /\ stage' = [stage EXCEPT ![p] = "close"]
  /\ UNCHANGED <<disk, tables, daemon, gateway, overlays, manifest, proc, launches, req,
                 renamed, bounds>>

(* The deferred calls of the goroutine that waited for Run. *)
Leave(p) ==
  /\ stage[p] = "leave"
  /\ http' = IF InHTTP(manifest[p]) THEN Unbind(http, p) ELSE http
  /\ mcp' = IF InMCP(manifest[p]) THEN Unbind(mcp, p) ELSE mcp
  /\ events' = IF InEvents(manifest[p]) THEN Unbind(events, p) ELSE events
  /\ stage' = [stage EXCEPT ![p] = "close"]
  /\ UNCHANGED <<disk, tables, daemon, gateway, overlays, manifest, proc, launches, req,
                 renamed, bounds>>

(* Mutant: the process is left to end by itself. *)
CloseKeeps(p) ==
  /\ stage[p] = "close"
  /\ proc' = [proc EXCEPT ![p] = IF @ = "dead" THEN "none" ELSE @]
  /\ stage' = [stage EXCEPT ![p] = IF daemon = "stopping" THEN "end" ELSE "backoff"]
  /\ UNCHANGED <<disk, tables, daemon, gateway, overlays, manifest, launches, registries, req,
                 renamed, bounds>>

(* handle.Close kills the process.  Between two starts, and after a stop,  *)
(* nothing of the module is left.                                          *)
Close(p) ==
  /\ stage[p] = "close"
  /\ proc' = [proc EXCEPT ![p] = "none"]
  /\ stage' = [stage EXCEPT ![p] = IF daemon = "stopping" THEN "end" ELSE "backoff"]
  /\ UNCHANGED <<disk, tables, daemon, gateway, overlays, manifest, launches, registries, req,
                 renamed, bounds>>

(* Time passes, and the module is started again. *)
Restart(p) ==
  /\ daemon = "up" /\ stage[p] = "backoff"
  /\ stage' = [stage EXCEPT ![p] = "load"]
  /\ UNCHANGED <<disk, tables, daemon, gateway, overlays, manifest, proc, launches, registries,
                 req, renamed, bounds>>

(* The loop and the backoff see that the daemon stops. *)
GiveUp(p) ==
  /\ daemon = "stopping" /\ stage[p] \in {"load", "backoff"}
  /\ stage' = [stage EXCEPT ![p] = "end"]
  /\ UNCHANGED <<disk, tables, daemon, gateway, overlays, manifest, proc, launches, registries,
                 req, renamed, bounds>>

-----------------------------------------------------------------------------
(* SIGTERM.  ctx ends; Serve returns at once, whatever is being served.    *)
Stop ==
  /\ daemon = "up"
  /\ daemon' = "stopping"
  /\ gateway' = IF gateway = "serving" THEN "closed" ELSE gateway
  /\ UNCHANGED <<disk, tables, overlays, stage, manifest, proc, launches, registries, req,
                 renamed, bounds>>

(* RunModules has returned, the settings files are removed. *)
Exit ==
  /\ daemon = "stopping" /\ \A p \in Mods : stage[p] = "end"
  /\ daemon' = "exited"
  /\ RemoveOverlays
  /\ req' = Idle
  /\ UNCHANGED <<disk, tables, gateway, stage, manifest, proc, launches, registries,
                 renamed, bounds>>

-----------------------------------------------------------------------------
(* The tables that runDaemon made when it started. *)
DeclaredRoutes == IF Live THEN Routes(FoundNow, declared) ELSE {}
DeclaredTools == IF Live THEN Tools(FoundNow, declared) ELSE {}

(* A call through a client reaches the process it was made for. *)
Reaches(client, state) == proc[client[1]] \in state /\ launches[client[1]] = client[2]

(* A request arrives and has a route. *)
Request(r) ==
  /\ gateway = "serving" /\ req = Idle
  /\ \E entry \in DeclaredRoutes :
       LET ref == ResolveRouteAuth(entry.route.auth, DefaultAuth)
       IN /\ Matched(DeclaredRoutes, entry, r)
          /\ req' = [Idle EXCEPT !.place = entry.place, !.name = entry.name, !.ref = ref,
                                !.step = IF ref = NoValidator THEN "lookup" ELSE "authorize"]
  /\ UNCHANGED <<disk, tables, daemon, gateway, overlays, stage, manifest, proc, launches,
                 registries, renamed, bounds>>

(* A module calls a tool: the table names the module that has it.          *)
CallTool(p, t) ==
  /\ Live /\ req = Idle
  /\ <<p, t>> \in DeclaredTools
  /\ mcp[declared[p].name] # NoBinding
  /\ req' = [Idle EXCEPT !.place = p, !.name = declared[p].name, !.step = "tool",
                         !.client = mcp[declared[p].name]]
  /\ UNCHANGED <<disk, tables, daemon, gateway, overlays, stage, manifest, proc, launches,
                 registries, renamed, bounds>>

Served == <<disk, tables, daemon, gateway, overlays, stage, manifest, proc, launches,
            registries, renamed, bounds>>

(* Mutant: no validator is there, and the request goes on without. *)
GetValidatorOpen ==
  /\ req.step = "authorize"
  /\ req' = [req EXCEPT !.client = http[req.ref.module],
                        !.step = IF http[req.ref.module] = NoBinding THEN "lookup" ELSE "validate"]
  /\ UNCHANGED Served

(* authorize: the validator's module is the one bound now, *)
GetValidator ==
  /\ req.step = "authorize"
  /\ http[req.ref.module] # NoBinding
  /\ req' = [req EXCEPT !.step = "validate", !.client = http[req.ref.module]]
  /\ UNCHANGED Served

(* What a module may answer: the validator allows nothing, and the routes  *)
(* are not served, until Run has read the settings.                        *)
ValidateAuth(client) == Reaches(client, {"ready"}) /\ HasAuth(manifest[client[1]])
HandleHTTP(client) == Reaches(client, {"ready"}) /\ HasRoutes(manifest[client[1]])
CallsTool(client) == Reaches(client, {"up", "ready"}) /\ HasTools(manifest[client[1]])

(* and it has to allow the request. *)
Allow ==
  /\ req.step = "validate"
  /\ ValidateAuth(req.client)
  /\ req' = [req EXCEPT !.step = "lookup", !.client = NoBinding, !.consent = req.client[1]]
  /\ UNCHANGED Served

(* The body is read; then the module is looked up. *)
GetHandler ==
  /\ req.step = "lookup"
  /\ http[req.name] # NoBinding
  /\ req' = [req EXCEPT !.step = "handle", !.client = http[req.name]]
  /\ UNCHANGED Served

(* HandleHTTP or CallTool returns a response. *)
Answer ==
  /\ \/ req.step = "handle" /\ HandleHTTP(req.client)
     \/ req.step = "tool" /\ CallsTool(req.client)
  /\ req' = [req EXCEPT !.step = "done"]
  /\ UNCHANGED Served

(* It ends with an error: no binding, a dead process, a validator that     *)
(* denies, a body that is too large, a client that has gone; or its answer *)
(* has been sent.                                                          *)
EndRequest ==
  /\ req # Idle
  /\ req' = Idle
  /\ UNCHANGED Served

-----------------------------------------------------------------------------
Supervision(p) ==
  \/ Supervise(p) \/ Start(p) \/ StartFails(p) \/ RegisterModule(p) \/ RunEnds(p)
  \/ Leave(p) \/ Close(p) \/ Restart(p) \/ GiveUp(p)

Commanded == UNION {m.commands : m \in Manifest \ {Gone, Broken}}
Tooled == UNION {m.tools : m \in Manifest \ {Gone, Broken}}

Next ==
  \/ \E p \in Dirs : \E m \in Versions[p] : Edit(p, m)
  \/ Discover
  \/ \E c \in Commanded, p, q \in Mods : StartCommand(c, p, q)
  \/ EndCommand
  \/ Launch \/ Refuse
  \/ \E p \in Mods : Supervision(p) \/ GetsReady(p) \/ Dies(p) \/ RunReturns(p)
  \/ Stop \/ Exit
  \/ \E r \in Requests : Request(r)
  \/ \E p \in Mods, t \in Tooled : CallTool(p, t)
  \/ GetValidator \/ Allow \/ GetHandler \/ Answer \/ EndRequest

Spec == Init /\ [][Next]_vars

(* Supervisors run, a wait ends, the daemon exits when nothing holds it.   *)
(* Nothing is assumed of modules, requests, or whoever stops the daemon.   *)
FairSpec == Spec /\ WF_vars(Exit) /\ \A p \in Mods : WF_vars(Supervision(p))

-----------------------------------------------------------------------------
(* A name in a registry leads to the last process of a module that was     *)
(* started under that name and has not been closed, whatever names its     *)
(* manifest has had and however often it was restarted (StartSource).      *)
LatestBinding ==
  \A r \in {http, mcp, events}, n \in Names : r[n] # NoBinding =>
    LET p == r[n][1] IN
      r[n][2] = launches[p] /\ stage[p] \in {"run", "leave"} /\ manifest[p].name = n

(* A module that runs can be reached for everything its manifest declares. *)
(* The exception is a name that a module has taken which had another when  *)
(* the daemon scanned: names are compared only then, and two modules of    *)
(* one name overwrite and delete each other's bindings.                    *)
RunningIsBound ==
  \A p \in Mods : (stage[p] = "run" /\ manifest[p].name \notin renamed) =>
    LET m == manifest[p] IN
      /\ m.routes # <<>> \/ m.validators # {} => http[m.name] = <<p, launches[p]>>
      /\ m.tools # {} => mcp[m.name] = <<p, launches[p]>>
      /\ m.consumes # {} => events[m.name] = <<p, launches[p]>>

(* An answer comes from the module that declared the route or the tool     *)
(* when the daemon started, and a route with a validator was allowed by    *)
(* the module that declared that validator, through restarts of both while *)
(* the request is under way (Gateway.handle).  Names taken since the scan  *)
(* are again the exception.                                                *)
ServedByOwner ==
  req.step = "done" =>
    /\ req.name \notin renamed => req.client[1] = req.place
    /\ req.ref # NoValidator =>
         /\ req.consent # NoPlace
         /\ req.ref.module \notin renamed =>
              /\ req.ref.module = declared[req.consent].name
              /\ req.ref.capability \in declared[req.consent].validators

(* When the daemon has exited no process that it started is left, and no   *)
(* settings file; until then a process finds its settings file, however    *)
(* late it was started.  A daemon that refuses to start for a type         *)
(* conflict does leave the files (os.Exit skips settingsStore.Close).      *)
CleanExit ==
  /\ daemon = "exited" => overlays = FALSE /\ \A p \in Mods : proc[p] = "none"
  /\ \A p \in Mods : proc[p] # "none" => overlays

(* Two modules of one name, or one module, declare a type differently: for *)
(* Register they are one source, and it does not compare them.             *)
DeclaredTwice(uri) ==
  \E p, q \in FoundNow : declared[p].name = declared[q].name /\
    \E s \in ToSet(declared[p].types), t \in ToSet(declared[q].types) :
      s.uri = uri /\ t.uri = uri /\ s.schema # t.schema

(* A module named "user" declares it: Register takes that for the user.    *)
DeclaredAsUser(uri) ==
  \E p \in FoundNow : declared[p].name = "user" /\ \E t \in ToSet(declared[p].types) : t.uri = uri

(* While the daemon is up, the catalog has every type that a module        *)
(* declares, with the module's schema or with the user's, so that no two   *)
(* modules mean different things by it: but for the two cases above.       *)
CatalogAgrees ==
  Live => \A p \in FoundNow : \A t \in ToSet(declared[p].types) :
    \/ \E e \in BuildCatalog(FoundNow, declared) :
         e.uri = t.uri /\ (e.source = "user" \/ e.schema = t.schema)
    \/ DeclaredTwice(t.uri) \/ DeclaredAsUser(t.uri)

(* The event registry keeps the promises that the router relies on, while  *)
(* no module takes the name of an event-routing module that runs.          *)
EventUp == daemon = "up"
EventBound == IF EventUp THEN {n \in Names : events[n] # NoBinding} ELSE {}
EventBroken ==
  {n \in EventBound : proc[events[n][1]] = "dead" \/ stage[events[n][1]] = "leave"}

H == INSTANCE Hosting WITH
  Modules <- Names, Watched <- SeenToExit, up <- EventUp, registered <- EventBound, broken <- EventBroken

ImplementsHosting == H!Spec

(* A module that the daemon supervises runs again after every death and    *)
(* failed start, until the daemon stops or while its manifest cannot be    *)
(* read.  Only a module that takes nothing but events stays dead.          *)
Recovers ==
  \A p \in Mods : (daemon = "up" /\ stage[p] \notin {"listed", "end"}) ~>
    \/ stage[p] = "run" /\ (proc[p] # "dead" \/ ~SeesExit(manifest[p]))
    \/ daemon # "up" \/ Unloadable(p, disk[p])

(* A daemon that is told to stop exits, wherever its supervisors are.      *)
Stops == daemon = "stopping" ~> daemon = "exited"
=============================================================================

----------------------------- MODULE Manifests -----------------------------
(***************************************************************************)
(* Module manifests and what the daemon computes from them before it       *)
(* starts a module: which manifests are valid (manifest.go), which modules *)
(* are discovered (discover.go), the tables of routes, tools, commands and *)
(* validators and the checks on them, how a request finds its route and    *)
(* its validator (gateway.go, authref.go), and the type catalog            *)
(* (types/build.go, types/catalog.go).                                     *)
(*                                                                         *)
(* A module has a place: a directory of the scanned paths, or one of the   *)
(* built-in modules.  A manifest is a record: name, kind, provides and     *)
(* consumes (sets of type patterns), routes (a sequence of method, path    *)
(* and auth), validators, tools and commands (sets of names) and types (a  *)
(* sequence of uri and schema).  A path is its segments between slashes    *)
(* and whether a slash ends it.                                            *)
(***************************************************************************)
EXTENDS SequencesExt

CONSTANTS
  Places,          \* directories in the order of the scan, then built-in modules
  BuiltIn,         \* the places that are built into the binary
  Gone, Broken,    \* no manifest file; a file that is not a manifest
  Everything,      \* the type pattern "*"
  Reserved,        \* the commands of the binary itself
  Inherit, NoAuth, \* route auth "inherit" and "none"
  NoValidator,     \* http.auth.validator is not set
  Wildcards,       \* path segments {name}
  Upper,           \* the upper case of a method
  Builtins, UserTypes \* types of the builtin directory, and of [[types]]

Dirs == {p \in ToSet(Places) : p \notin BuiltIn}

(* Discover appends the built-in modules to what it found in directories.  *)
ASSUME PlacesAssumption ==
  /\ Places \in Seq(ToSet(Places))
  /\ \A i, k \in DOMAIN Places : (Places[i] \in BuiltIn /\ Places[k] \notin BuiltIn) => k < i

ASSUME TypesAssumption ==
  Builtins \in Seq(ToSet(Builtins)) /\ UserTypes \in Seq(ToSet(UserTypes))

-----------------------------------------------------------------------------
(* What a manifest asks for. *)
HasRoutes(m) == m.routes # <<>>
HasAuth(m) == m.validators # {}
HasTools(m) == m.tools # {}
HasCommands(m) == m.commands # {}
EventRoutes(m) == m.consumes # {}

(* What each kind must and must not declare. *)
ValidKind(m) ==
  CASE m.kind = "source" -> m.provides # {} /\ ~EventRoutes(m)
    [] m.kind = "sink" -> m.provides = {} /\ EventRoutes(m)
    [] m.kind = "processor" ->
         \/ EventRoutes(m)
         \/ /\ HasRoutes(m) \/ HasTools(m) \/ HasCommands(m) \/ HasAuth(m)
            /\ m.provides = {}
    [] OTHER -> FALSE

ValidManifest(m) ==
  /\ ValidKind(m)
  /\ Everything \notin m.provides \cup m.consumes
  /\ m.commands \cap Reserved = {}

(* ParseManifestFile succeeds. *)
Parses(file) == file \notin {Gone, Broken} /\ ValidManifest(file)

(* loadModuleManifest fails; what it returns otherwise: the file as it is  *)
(* now, or the manifest of the scan for a built-in module and when there   *)
(* is no file any more.                                                    *)
Unloadable(p, file) == p \notin BuiltIn /\ file # Gone /\ ~Parses(file)
Loaded(p, scanned, file) == IF p \in BuiltIn \/ file = Gone THEN scanned ELSE file

(* A manifest whose module is started and kept running. *)
Supervised(m) ==
  m.kind = "source" \/ HasRoutes(m) \/ HasAuth(m) \/ HasTools(m) \/ EventRoutes(m)

(* Its client calls Run in the process, and sees the process end. *)
SeesExit(m) ==
  m.kind = "source" \/ HasRoutes(m) \/ HasTools(m) \/ HasAuth(m) \/ HasCommands(m)

(* The registries it is bound in. *)
InHTTP(m) == HasRoutes(m) \/ HasAuth(m)
InMCP(m) == HasTools(m)
InEvents(m) == m.kind \in {"processor", "sink"} /\ EventRoutes(m)

-----------------------------------------------------------------------------
(* Discover: the first valid manifest of each name, in the order of the    *)
(* scan; a built-in module when no directory has its name.  A path that    *)
(* cannot be read makes it return before the built-in modules are added.   *)
Discovered(disk, readable) ==
  {i \in DOMAIN Places :
     /\ Parses(disk[Places[i]])
     /\ IF Places[i] \in BuiltIn THEN Dirs \subseteq readable ELSE Places[i] \in readable
     /\ \A k \in 1..(i - 1) : (Places[k] \in readable /\ Parses(disk[Places[k]])) =>
          disk[Places[k]].name # disk[Places[i]].name}

Scan(disk, readable) ==
  [p \in ToSet(Places) |->
     IF \E i \in Discovered(disk, readable) : Places[i] = p THEN disk[p] ELSE Gone]

(* The discovered places; their order is that of Places. *)
Found(scanned) == {p \in ToSet(Places) : scanned[p] # Gone}

-----------------------------------------------------------------------------
(* The tables, from the manifests of a set of places.  A route stands at   *)
(* the position of its place and its own position in the manifest.         *)
Routes(mods, man) ==
  UNION {{[at |-> <<i, k>>, place |-> Places[i], name |-> man[Places[i]].name,
           route |-> man[Places[i]].routes[k]] : k \in DOMAIN man[Places[i]].routes} :
         i \in {j \in DOMAIN Places : Places[j] \in mods}}

Earlier(e, f) == e.at[1] < f.at[1] \/ (e.at[1] = f.at[1] /\ e.at[2] < f.at[2])

(* One entry for each place and item that its manifest has. *)
Entries(mods, items) == UNION {{<<p, x>> : x \in items[p]} : p \in mods}

Tools(mods, man) == Entries(mods, [p \in mods |-> man[p].tools])
Commands(mods, man) == Entries(mods, [p \in mods |-> man[p].commands])

(* Two entries for one item. *)
Duplicated(entries) == \E e, f \in entries : e[1] # f[1] /\ e[2] = f[2]

(* Two routes of one method, in upper case, and one path as it is written: *)
(* CollectHTTPRoutes and, stricter, ValidateRoutes.                        *)
DuplicateRoutes(routes) ==
  \E e, f \in routes :
    /\ e # f
    /\ Upper[e.route.method] = Upper[f.route.method]
    /\ e.route.path = f.route.path

DeclaredRefs(mods, man) ==
  UNION {{[module |-> man[p].name, capability |-> v] : v \in man[p].validators} : p \in mods}

(* Two modules of one name declare one validator (names may have changed   *)
(* since the scan).                                                        *)
DuplicateRefs(mods, man) ==
  \E p, q \in mods :
    p # q /\ man[p].name = man[q].name /\ man[p].validators \cap man[q].validators # {}

(* Every validator that the configuration or a route names is declared. *)
AuthConfigured(default, routes, refs) ==
  /\ default \in refs \cup {NoValidator}
  /\ \A e \in routes : e.route.auth \in refs \cup {Inherit, NoAuth}

-----------------------------------------------------------------------------
(* Segment by segment; slashes at the ends do not count. *)
MatchPattern(path, url) ==
  /\ Len(path.segments) = Len(url)
  /\ \A i \in DOMAIN url : path.segments[i] \in Wildcards \cup {url[i]}

Covers(entry, request) ==
  /\ Upper[entry.route.method] = Upper[request.method]
  /\ MatchPattern(entry.route.path, request.url)

(* The first route that matches. *)
Matched(routes, entry, request) ==
  /\ Covers(entry, request)
  /\ \A other \in routes : Earlier(other, entry) => ~Covers(other, request)

(* The validator of a route, or NoValidator when the check is skipped. *)
ResolveRouteAuth(auth, default) ==
  CASE auth = Inherit -> default
    [] auth = NoAuth -> NoValidator
    [] OTHER -> auth

-----------------------------------------------------------------------------
(* Mutant: a conflict is not an error. *)
RegisterOver(catalog, e) == {prev \in catalog : prev.uri # e.uri} \cup {e}

(* Catalog.Register: the last entry of a URI wins; a different schema is a *)
(* conflict unless one source declares both, or one of the two is "user".  *)
Register(catalog, e) ==
  IF catalog # Broken /\ \A prev \in catalog :
       (prev.uri = e.uri /\ prev.schema # e.schema) =>
         prev.source = "user" \/ e.source = "user" \/ prev.source = e.source
  THEN {prev \in catalog : prev.uri # e.uri} \cup {e}
  ELSE Broken

(* The entries of a list of types, one after another. *)
Declaration(type, source) == [uri |-> type.uri, schema |-> type.schema, source |-> source]

RegisterAll(catalog, types, source) ==
  LET after[i \in 0..Len(types)] ==
        IF i = 0 THEN catalog ELSE Register(after[i - 1], Declaration(types[i], source))
  IN  after[Len(types)]

(* The module loop of BuildCatalog, over the modules in the order found.   *)
RegisterModules(catalog, mods, man) ==
  LET after[i \in 0..Len(Places)] ==
        IF i = 0 THEN catalog
        ELSE IF Places[i] \in mods
          THEN RegisterAll(after[i - 1], man[Places[i]].types, man[Places[i]].name)
          ELSE after[i - 1]
  IN  after[Len(Places)]

(* The builtin directory, the modules, then the user's types. *)
BuildCatalog(mods, man) ==
  RegisterAll(RegisterModules(RegisterAll({}, Builtins, "builtin"), mods, man), UserTypes, "user")
=============================================================================

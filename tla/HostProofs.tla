----------------------------- MODULE HostProofs -----------------------------
(***************************************************************************)
(* Proofs about ModuleHost.  The inductive invariant says what Discover    *)
(* leaves behind (one module per name), what the tables of the start are   *)
(* made of, where supervisors, processes and settings files are at each    *)
(* point of the daemon's life, that each of the three registries leads to  *)
(* the running modules and to nothing else, and what a request under way   *)
(* knows about the modules that it has met.                                *)
(***************************************************************************)
EXTENDS ModuleHost, TLAPS

-----------------------------------------------------------------------------
(* What the scan found has names of its own, and built-in manifests never  *)
(* change.                                                                 *)
ScanShape ==
  /\ \E s \in Setups : \A p \in Mods \cap BuiltIn : disk[p] = s[p]
  /\ \A p \in FoundNow : Parses(scanned[p])
  /\ \A p, q \in FoundNow : scanned[p].name = scanned[q].name => p = q

(* A module has the name of its scan, or one that is known to be taken.    *)
KeepsName(p, m) == m.name = scanned[p].name \/ m.name \in renamed

(* The tables are made of valid manifests, and every validator that they   *)
(* name is declared.                                                       *)
TableShape ==
  Live =>
    /\ \A p \in FoundNow : declared[p] \in Manifest /\ Parses(declared[p])
    /\ \A p \in FoundNow : KeepsName(p, declared[p])
    /\ AuthConfigured(DefaultAuth, Routes(FoundNow, declared), DeclaredRefs(FoundNow, declared))

(* The stages in which a module's process has been started.                *)
Started == {"register", "run", "leave", "close"}
(* Those in which it is bound.                                             *)
BoundStage == {"run", "leave"}

(* The life of the daemon.                                                 *)
LifeShape ==
  /\ ~Live => \A p \in Mods : stage[p] = "end"
  /\ daemon \in {"off", "found"} => \A p \in Mods : launches[p] = 0 /\ proc[p] = "none"
  /\ \A p \in Mods : (proc[p] # "none" /\ daemon # "command") => stage[p] \in Started
  /\ (Live \/ daemon = "command") => overlays = TRUE
  /\ daemon = "exited" => overlays = FALSE
  /\ gateway = "serving" => daemon = "up"

(* A supervised module was scanned; one that was started has a manifest    *)
(* that could be read.                                                     *)
StageShape ==
  \A p \in Mods :
    /\ stage[p] # "end" => p \in FoundNow
    /\ stage[p] \in Started =>
         /\ manifest[p] \in Manifest /\ Parses(manifest[p])
         /\ KeepsName(p, manifest[p])
         /\ launches[p] >= 1

(* Every launch but the first follows a fault.                             *)
LaunchShape ==
  \A p \in Mods :
    /\ launches[p] <= faults + 1
    /\ (daemon = "up" /\ (stage[p] \in {"listed", "load", "backoff", "leave", "close"} \/ proc[p] = "dead"))
         => launches[p] <= faults
    /\ (daemon = "up" /\ stage[p] = "leave") => SeesExit(manifest[p])

(* A registry leads to the modules of its kind that run, and to each one   *)
(* whose name is its own.                                                  *)
Leads(r, kind, stg, man, lau) ==
  \A n \in Names : r[n] # NoBinding =>
    \E p \in kind : r[n] = <<p, lau[p]>> /\ stg[p] \in BoundStage /\ man[p].name = n

Reached(r, kind, stg, man, lau, ren) ==
  \A p \in kind : (stg[p] \in BoundStage /\ man[p].name \notin ren) => r[man[p].name] = <<p, lau[p]>>

Registry(r, kind, stg, man, lau, ren) ==
  r \in [Names -> Binding] /\ Leads(r, kind, stg, man, lau) /\ Reached(r, kind, stg, man, lau, ren)

OfHTTP(man) == {p \in Mods : Parses(man[p]) /\ InHTTP(man[p])}
OfMCP(man) == {p \in Mods : Parses(man[p]) /\ InMCP(man[p])}
OfEvents(man) == {p \in Mods : Parses(man[p]) /\ InEvents(man[p])}

RegistriesShape ==
  /\ Registry(http, OfHTTP(manifest), stage, manifest, launches, renamed)
  /\ Registry(mcp, OfMCP(manifest), stage, manifest, launches, renamed)
  /\ Registry(events, OfEvents(manifest), stage, manifest, launches, renamed)

(* The place declared the validator that the request needs.                *)
Vouches(q, p) ==
  q.ref.module \notin renamed =>
    /\ q.ref.module = declared[p].name
    /\ q.ref.capability \in declared[p].validators

Steps == {"idle", "authorize", "validate", "lookup", "handle", "tool", "done"}
Refs == {NoValidator} \cup (UNION {{[module |-> m.name, capability |-> v] : v \in m.validators} :
                                    m \in Manifest \ {Gone, Broken}})
Serving == [step : Steps, place : Mods \cup {NoPlace}, name : Names \cup {NoBinding}, ref : Refs,
            client : Binding, consent : Mods \cup {NoPlace}]

(* What the request under way has been told, at each of its steps.         *)
UnderWay(q) ==
  /\ Live
  /\ q.step # "idle"
  /\ q.place \in FoundNow /\ q.name = declared[q.place].name
  /\ q.ref # NoValidator => q.ref \in DeclaredRefs(FoundNow, declared)
  /\ q.step \in {"authorize", "validate"} => q.ref # NoValidator
  /\ q.step = "tool" => q.ref = NoValidator
  /\ q.step = "validate" => q.client # NoBinding /\ Vouches(q, q.client[1])
  /\ (q.step \in {"lookup", "handle", "done"} /\ q.ref # NoValidator) =>
       q.consent \in Mods /\ Vouches(q, q.consent)
  /\ (q.step \in {"handle", "tool", "done"} /\ q.name \notin renamed) => q.client[1] = q.place

RequestShape == req \in Serving /\ (req # Idle => UnderWay(req))

IInv ==
  /\ TypeOK /\ ScanShape /\ TableShape /\ LifeShape /\ StageShape /\ LaunchShape
  /\ RegistriesShape /\ RequestShape

-----------------------------------------------------------------------------
(* A valid manifest is a manifest, and its name is one of Names.           *)
LEMMA ValidManifests ==
  ASSUME NEW m \in Manifest \cup {Gone}, Parses(m)
  PROVE  m \in Manifest \ {Gone, Broken} /\ m.name \in Names
  BY DEF Parses, Names

(* A module that takes events is bound for them.                           *)
LEMMA ConsumersAreRouted ==
  ASSUME NEW m, Parses(m), m.consumes # {}
  PROVE  InEvents(m)
  BY DEF Parses, ValidManifest, ValidKind, InEvents, EventRoutes

(* What loadModuleManifest returns for a discovered place, when it does    *)
(* not fail.                                                               *)
LEMMA ReadIsValid ==
  ASSUME TypeOK, ScanShape, NEW p \in FoundNow, ~Unloadable(p, disk[p])
  PROVE  p \in Mods /\ Read(p) \in Manifest /\ Parses(Read(p)) /\ Read(p).name \in Names
<1>1. p \in Mods /\ scanned[p] # Gone /\ Parses(scanned[p])
  BY DEF ScanShape, FoundNow, Found, Mods
<1>2. scanned[p] \in Manifest /\ disk[p] \in Manifest
  BY <1>1 DEF TypeOK
<1>3. Read(p) \in Manifest /\ Parses(Read(p))
  BY <1>1, <1>2 DEF Read, Loaded, Unloadable
<1>4. QED
  BY <1>1, <1>3, ValidManifests

-----------------------------------------------------------------------------
(* What a step leaves alone.                                               *)

(* The scan stays true when somebody writes in a directory.                *)
LEMMA ScanKept ==
  ASSUME ScanShape, UNCHANGED scanned, \A p \in Mods \cap BuiltIn : disk'[p] = disk[p]
  PROVE  ScanShape'
  BY DEF ScanShape, FoundNow, Found

(* The tables of the start last as long as the daemon.                     *)
LEMMA TableKept ==
  ASSUME TableShape, UNCHANGED tables, Live' => Live, renamed \subseteq renamed'
  PROVE  TableShape'
  BY DEF TableShape, tables, FoundNow, Found, KeepsName

(* A request that no step of its own touches keeps what it knows.          *)
LEMMA RequestKept ==
  ASSUME RequestShape, UNCHANGED <<tables, req>>, Live => Live', renamed \subseteq renamed'
  PROVE  RequestShape'
  BY DEF RequestShape, UnderWay, Vouches, tables, FoundNow, Found

(* A registry is right about the same modules while those that are bound   *)
(* keep their stage, manifest and process.                                 *)
LEMMA RegistryKept ==
  ASSUME NEW r, NEW kind, NEW stg, NEW man, NEW lau, NEW ren,
         NEW kind2, NEW stg2, NEW man2, NEW lau2, NEW ren2,
         Registry(r, kind, stg, man, lau, ren),
         kind \subseteq Mods, kind2 \subseteq Mods,
         \A p \in Mods : stg2[p] \in BoundStage <=> stg[p] \in BoundStage,
         \A p \in Mods : stg[p] \in BoundStage =>
           /\ man2[p] = man[p] /\ lau2[p] = lau[p]
           /\ p \in kind2 <=> p \in kind
           /\ man[p].name \in ren => man[p].name \in ren2
  PROVE  Registry(r, kind2, stg2, man2, lau2, ren2)
<1>1. Leads(r, kind2, stg2, man2, lau2)
  BY DEF Registry, Leads
<1>2. Reached(r, kind2, stg2, man2, lau2, ren2)
  BY DEF Registry, Reached
<1>3. QED
  BY <1>1, <1>2 DEF Registry

(* All three of them, when a step binds nothing and unbinds nothing.       *)
LEMMA RegistriesKept ==
  ASSUME RegistriesShape, UNCHANGED registries,
         \A p \in Mods : stage'[p] \in BoundStage <=> stage[p] \in BoundStage,
         \A p \in Mods : stage[p] \in BoundStage =>
           /\ manifest'[p] = manifest[p] /\ launches'[p] = launches[p]
           /\ manifest[p].name \in renamed => manifest[p].name \in renamed'
  PROVE  RegistriesShape'
<1>1. Registry(http', OfHTTP(manifest'), stage', manifest', launches', renamed')
  <2>1. http' = http /\ Registry(http, OfHTTP(manifest), stage, manifest, launches, renamed)
    BY DEF RegistriesShape, registries
  <2>2. OfHTTP(manifest) \subseteq Mods /\ OfHTTP(manifest') \subseteq Mods
    BY DEF OfHTTP
  <2>3. \A p \in Mods : manifest'[p] = manifest[p] => (p \in OfHTTP(manifest') <=> p \in OfHTTP(manifest))
    BY DEF OfHTTP
  <2>4. QED
    BY <2>1, <2>2, <2>3, RegistryKept
<1>2. Registry(mcp', OfMCP(manifest'), stage', manifest', launches', renamed')
  <2>1. mcp' = mcp /\ Registry(mcp, OfMCP(manifest), stage, manifest, launches, renamed)
    BY DEF RegistriesShape, registries
  <2>2. OfMCP(manifest) \subseteq Mods /\ OfMCP(manifest') \subseteq Mods
    BY DEF OfMCP
  <2>3. \A p \in Mods : manifest'[p] = manifest[p] => (p \in OfMCP(manifest') <=> p \in OfMCP(manifest))
    BY DEF OfMCP
  <2>4. QED
    BY <2>1, <2>2, <2>3, RegistryKept
<1>3. Registry(events', OfEvents(manifest'), stage', manifest', launches', renamed')
  <2>1. events' = events /\ Registry(events, OfEvents(manifest), stage, manifest, launches, renamed)
    BY DEF RegistriesShape, registries
  <2>2. OfEvents(manifest) \subseteq Mods /\ OfEvents(manifest') \subseteq Mods
    BY DEF OfEvents
  <2>3. \A p \in Mods : manifest'[p] = manifest[p] => (p \in OfEvents(manifest') <=> p \in OfEvents(manifest))
    BY DEF OfEvents
  <2>4. QED
    BY <2>1, <2>2, <2>3, RegistryKept
<1>4. QED
  BY <1>1, <1>2, <1>3 DEF RegistriesShape

-----------------------------------------------------------------------------
(* Binding and unbinding.                                                  *)

(* Two modules that run under one name have one of them taken since the    *)
(* scan.                                                                   *)
LEMMA NamesAreTaken ==
  ASSUME ScanShape, StageShape,
         NEW p \in Mods, NEW q \in Mods, p # q,
         stage[p] \in Started, stage[q] \in Started, manifest[p].name = manifest[q].name
  PROVE  manifest[p].name \in renamed
<1>1. p \in FoundNow /\ q \in FoundNow
  BY DEF StageShape, Started
<1>2. KeepsName(p, manifest[p]) /\ KeepsName(q, manifest[q])
  BY DEF StageShape
<1>3. scanned[p].name # scanned[q].name
  BY <1>1 DEF ScanShape
<1>4. QED
  BY <1>2, <1>3 DEF KeepsName

(* A module of the registry's kind is bound under its name; one of another *)
(* kind is not.  Whoever had the name before has lost it.                  *)
LEMMA RegistryBinds ==
  ASSUME NEW r, NEW kind, NEW stg, NEW man, NEW lau, NEW ren, NEW p \in Mods,
         Registry(r, kind, stg, man, lau, ren), kind \subseteq Mods,
         stg \in [Mods -> Supervisor], stg[p] = "register",
         man[p].name \in Names, <<p, lau[p]>> \in Binding,
         \A q \in kind : (q # p /\ stg[q] \in BoundStage /\ man[q].name = man[p].name) =>
           man[p].name \in ren
  PROVE  Registry(IF p \in kind THEN [r EXCEPT ![man[p].name] = <<p, lau[p]>>] ELSE r,
                  kind, [stg EXCEPT ![p] = "run"], man, lau, ren)
<1> DEFINE r2 == IF p \in kind THEN [r EXCEPT ![man[p].name] = <<p, lau[p]>>] ELSE r
           stg2 == [stg EXCEPT ![p] = "run"]
<1>1. r \in [Names -> Binding] /\ r2 \in [Names -> Binding]
  BY DEF Registry
<1>2. stg2[p] \in BoundStage /\ stg[p] \notin BoundStage /\ \A q \in Mods : q # p => stg2[q] = stg[q]
  BY DEF BoundStage
<1>3. ASSUME NEW n \in Names
      PROVE  r2[n] = IF p \in kind /\ n = man[p].name THEN <<p, lau[p]>> ELSE r[n]
  BY <1>1
<1> HIDE DEF r2, stg2
<1>4. Leads(r2, kind, stg2, man, lau)
  <2> SUFFICES ASSUME NEW n \in Names, r2[n] # NoBinding
               PROVE  \E q \in kind : r2[n] = <<q, lau[q]>> /\ stg2[q] \in BoundStage /\ man[q].name = n
    BY DEF Leads
  <2>1. CASE p \in kind /\ n = man[p].name
    BY <2>1, <1>2, <1>3
  <2>2. CASE ~(p \in kind /\ n = man[p].name)
    <3>1. r2[n] = r[n]
      BY <2>2, <1>3
    <3>2. PICK q \in kind : r[n] = <<q, lau[q]>> /\ stg[q] \in BoundStage /\ man[q].name = n
      BY <3>1 DEF Registry, Leads
    <3>3. QED
      BY <3>1, <3>2, <1>2
  <2>3. QED
    BY <2>1, <2>2
<1>5. Reached(r2, kind, stg2, man, lau, ren)
  <2> SUFFICES ASSUME NEW q \in kind, stg2[q] \in BoundStage, man[q].name \notin ren
               PROVE  r2[man[q].name] = <<q, lau[q]>>
    BY DEF Reached
  <2>1. CASE q = p
    BY <2>1, <1>3
  <2>2. CASE q # p
    <3>1. stg[q] \in BoundStage /\ r[man[q].name] = <<q, lau[q]>>
      BY <2>2, <1>2 DEF Registry, Reached
    <3>2. man[q].name # man[p].name
      BY <2>2, <3>1
    <3>3. CASE man[q].name \in Names
      BY <3>1, <3>2, <3>3, <1>3
    <3>4. CASE man[q].name \notin Names
      BY <3>1, <3>2, <3>4, <1>1 DEF r2
    <3>5. QED
      BY <3>3, <3>4
  <2>3. QED
    BY <2>1, <2>2
<1>6. QED
  BY <1>1, <1>4, <1>5 DEF Registry, r2, stg2

(* What a module of the registry's kind leaves behind.                     *)
LEMMA RegistryUnbinds ==
  ASSUME NEW r, NEW kind, NEW stg, NEW man, NEW lau, NEW ren, NEW p \in Mods,
         Registry(r, kind, stg, man, lau, ren), kind \subseteq Mods,
         stg \in [Mods -> Supervisor], stg[p] = "leave",
         man[p].name \in Names,
         \A q \in kind : (q # p /\ stg[q] \in BoundStage /\ man[q].name = man[p].name) =>
           man[p].name \in ren
  PROVE  Registry(IF p \in kind THEN [r EXCEPT ![man[p].name] = NoBinding] ELSE r,
                  kind, [stg EXCEPT ![p] = "close"], man, lau, ren)
<1> DEFINE r2 == IF p \in kind THEN [r EXCEPT ![man[p].name] = NoBinding] ELSE r
           stg2 == [stg EXCEPT ![p] = "close"]
<1>1. r \in [Names -> Binding] /\ r2 \in [Names -> Binding]
  BY DEF Registry, Binding
<1>2. stg2[p] \notin BoundStage /\ \A q \in Mods : q # p => stg2[q] = stg[q]
  BY DEF BoundStage
<1>3. ASSUME NEW n \in Names
      PROVE  r2[n] = IF p \in kind /\ n = man[p].name THEN NoBinding ELSE r[n]
  BY <1>1
<1> HIDE DEF r2, stg2
<1>4. Leads(r2, kind, stg2, man, lau)
  <2> SUFFICES ASSUME NEW n \in Names, r2[n] # NoBinding
               PROVE  \E q \in kind : r2[n] = <<q, lau[q]>> /\ stg2[q] \in BoundStage /\ man[q].name = n
    BY DEF Leads
  <2>1. ~(p \in kind /\ n = man[p].name) /\ r2[n] = r[n]
    BY <1>3
  <2>2. PICK q \in kind : r[n] = <<q, lau[q]>> /\ stg[q] \in BoundStage /\ man[q].name = n
    BY <2>1 DEF Registry, Leads
  <2>3. q # p
    BY <2>1, <2>2
  <2>4. QED
    BY <2>1, <2>2, <2>3, <1>2
<1>5. Reached(r2, kind, stg2, man, lau, ren)
  <2> SUFFICES ASSUME NEW q \in kind, stg2[q] \in BoundStage, man[q].name \notin ren
               PROVE  r2[man[q].name] = <<q, lau[q]>>
    BY DEF Reached
  <2>1. q # p /\ stg[q] \in BoundStage /\ r[man[q].name] = <<q, lau[q]>>
    BY <1>2 DEF Registry, Reached
  <2>2. man[q].name # man[p].name
    BY <2>1
  <2>3. CASE man[q].name \in Names
    BY <2>1, <2>2, <2>3, <1>3
  <2>4. CASE man[q].name \notin Names
    BY <2>1, <2>2, <2>4, <1>1 DEF r2
  <2>5. QED
    BY <2>3, <2>4
<1>6. QED
  BY <1>1, <1>4, <1>5 DEF Registry, r2, stg2

-----------------------------------------------------------------------------
(* One supervisor and its process.                                         *)

(* One supervisor starts, or its module needs none.                        *)
LEMMA SuperviseStep ==
  ASSUME IInv, NEW p \in Mods, Supervise(p)
  PROVE  IInv'
<1>1. TypeOK'
  BY DEF IInv, TypeOK, Supervise, Supervisor, tables, registries, bounds
<1>2. UNCHANGED <<tables, registries, req, renamed>> /\ UNCHANGED <<disk, manifest, launches>>
  BY DEF Supervise, tables, registries, bounds
<1>3. ScanShape' /\ TableShape' /\ RequestShape'
  BY <1>2, ScanKept, TableKept, RequestKept DEF IInv, Supervise, Live, tables
<1>4. LifeShape'
  BY DEF IInv, LifeShape, Supervise, TypeOK, Live, Started, tables, registries, bounds
<1>5. StageShape'
  BY <1>2 DEF IInv, StageShape, Supervise, TypeOK, Started, tables, FoundNow, Found, KeepsName
<1>6. LaunchShape'
  BY <1>2 DEF IInv, LaunchShape, Supervise, TypeOK, bounds
<1>7. RegistriesShape'
  BY <1>2, RegistriesKept DEF IInv, Supervise, TypeOK, BoundStage
<1>8. QED
  BY <1>1, <1>3, <1>4, <1>5, <1>6, <1>7 DEF IInv

(* A start fails.                                                          *)
LEMMA StartFailsStep ==
  ASSUME IInv, NEW p \in Mods, StartFails(p)
  PROVE  IInv'
<1>1. TypeOK'
  BY BoundsAssumption DEF IInv, TypeOK, StartFails, Fault, ExecFails, Supervisor, tables, registries, bounds
<1>2. UNCHANGED <<tables, registries, req, renamed>> /\ UNCHANGED <<disk, manifest, launches>>
  BY DEF StartFails, Fault, ExecFails, tables, registries, bounds
<1>3. ScanShape' /\ TableShape' /\ RequestShape'
  BY <1>2, ScanKept, TableKept, RequestKept DEF IInv, StartFails, Live, tables
<1>4. LifeShape'
  BY DEF IInv, LifeShape, StartFails, Fault, ExecFails, TypeOK, Live, Started, tables, registries, bounds
<1>5. StageShape'
  BY <1>2 DEF IInv, StageShape, StartFails, Fault, ExecFails, TypeOK, Started, tables, FoundNow, Found, KeepsName
<1>6. LaunchShape'
  BY <1>2 DEF IInv, LaunchShape, StartFails, Fault, ExecFails, TypeOK, bounds
<1>7. RegistriesShape'
  BY <1>2, RegistriesKept DEF IInv, StartFails, Fault, ExecFails, TypeOK, BoundStage
<1>8. QED
  BY <1>1, <1>3, <1>4, <1>5, <1>6, <1>7 DEF IInv

(* The wait for Run ends.                                                  *)
LEMMA RunEndsStep ==
  ASSUME IInv, NEW p \in Mods, RunEnds(p)
  PROVE  IInv'
<1>1. TypeOK'
  BY DEF IInv, TypeOK, RunEnds, Supervisor, tables, registries, bounds
<1>2. UNCHANGED <<tables, registries, req, renamed>> /\ UNCHANGED <<disk, manifest, launches>>
  BY DEF RunEnds, tables, registries, bounds
<1>3. ScanShape' /\ TableShape' /\ RequestShape'
  BY <1>2, ScanKept, TableKept, RequestKept DEF IInv, RunEnds, Live, tables
<1>4. LifeShape'
  BY DEF IInv, LifeShape, RunEnds, TypeOK, Live, Started, tables, registries, bounds
<1>5. StageShape'
  BY <1>2 DEF IInv, StageShape, RunEnds, TypeOK, Started, tables, FoundNow, Found, KeepsName
<1>6. LaunchShape'
  BY <1>2 DEF IInv, LaunchShape, RunEnds, TypeOK, bounds
<1>7. RegistriesShape'
  BY <1>2, RegistriesKept DEF IInv, RunEnds, TypeOK, BoundStage
<1>8. QED
  BY <1>1, <1>3, <1>4, <1>5, <1>6, <1>7 DEF IInv

(* The process is killed.                                                  *)
LEMMA CloseStep ==
  ASSUME IInv, NEW p \in Mods, Close(p)
  PROVE  IInv'
<1>1. TypeOK'
  BY DEF IInv, TypeOK, Close, Supervisor, tables, registries, bounds
<1>2. UNCHANGED <<tables, registries, req, renamed>> /\ UNCHANGED <<disk, manifest, launches>>
  BY DEF Close, tables, registries, bounds
<1>3. ScanShape' /\ TableShape' /\ RequestShape'
  BY <1>2, ScanKept, TableKept, RequestKept DEF IInv, Close, Live, tables
<1>4. LifeShape'
  BY DEF IInv, LifeShape, Close, TypeOK, Live, Started, tables, registries, bounds
<1>5. StageShape'
  BY <1>2 DEF IInv, StageShape, Close, TypeOK, Started, tables, FoundNow, Found, KeepsName
<1>6. LaunchShape'
  BY <1>2 DEF IInv, LaunchShape, Close, TypeOK, bounds
<1>7. RegistriesShape'
  BY <1>2, RegistriesKept DEF IInv, Close, TypeOK, BoundStage
<1>8. QED
  BY <1>1, <1>3, <1>4, <1>5, <1>6, <1>7 DEF IInv

(* The backoff is over.                                                    *)
LEMMA RestartStep ==
  ASSUME IInv, NEW p \in Mods, Restart(p)
  PROVE  IInv'
<1>1. TypeOK'
  BY DEF IInv, TypeOK, Restart, Supervisor, tables, registries, bounds
<1>2. UNCHANGED <<tables, registries, req, renamed>> /\ UNCHANGED <<disk, manifest, launches>>
  BY DEF Restart, tables, registries, bounds
<1>3. ScanShape' /\ TableShape' /\ RequestShape'
  BY <1>2, ScanKept, TableKept, RequestKept DEF IInv, Restart, Live, tables
<1>4. LifeShape'
  BY DEF IInv, LifeShape, Restart, TypeOK, Live, Started, tables, registries, bounds
<1>5. StageShape'
  BY <1>2 DEF IInv, StageShape, Restart, TypeOK, Started, tables, FoundNow, Found, KeepsName
<1>6. LaunchShape'
  BY <1>2 DEF IInv, LaunchShape, Restart, TypeOK, bounds
<1>7. RegistriesShape'
  BY <1>2, RegistriesKept DEF IInv, Restart, TypeOK, BoundStage
<1>8. QED
  BY <1>1, <1>3, <1>4, <1>5, <1>6, <1>7 DEF IInv

(* The loop sees that the daemon stops.                                    *)
LEMMA GiveUpStep ==
  ASSUME IInv, NEW p \in Mods, GiveUp(p)
  PROVE  IInv'
<1>1. TypeOK'
  BY DEF IInv, TypeOK, GiveUp, Supervisor, tables, registries, bounds
<1>2. UNCHANGED <<tables, registries, req, renamed>> /\ UNCHANGED <<disk, manifest, launches>>
  BY DEF GiveUp, tables, registries, bounds
<1>3. ScanShape' /\ TableShape' /\ RequestShape'
  BY <1>2, ScanKept, TableKept, RequestKept DEF IInv, GiveUp, Live, tables
<1>4. LifeShape'
  BY DEF IInv, LifeShape, GiveUp, TypeOK, Live, Started, tables, registries, bounds
<1>5. StageShape'
  BY <1>2 DEF IInv, StageShape, GiveUp, TypeOK, Started, tables, FoundNow, Found, KeepsName
<1>6. LaunchShape'
  BY <1>2 DEF IInv, LaunchShape, GiveUp, TypeOK, bounds
<1>7. RegistriesShape'
  BY <1>2, RegistriesKept DEF IInv, GiveUp, TypeOK, BoundStage
<1>8. QED
  BY <1>1, <1>3, <1>4, <1>5, <1>6, <1>7 DEF IInv

(* The process has read its settings.                                      *)
LEMMA GetsReadyStep ==
  ASSUME IInv, NEW p \in Mods, GetsReady(p)
  PROVE  IInv'
<1>1. TypeOK'
  BY DEF IInv, TypeOK, GetsReady, LoadModuleConfig, Supervisor, tables, registries, bounds
<1>2. UNCHANGED <<tables, registries, req, renamed>> /\ UNCHANGED <<disk, manifest, launches>>
  BY DEF GetsReady, LoadModuleConfig, tables, registries, bounds
<1>3. ScanShape' /\ TableShape' /\ RequestShape'
  BY <1>2, ScanKept, TableKept, RequestKept DEF IInv, GetsReady, Live, tables
<1>4. LifeShape'
  BY DEF IInv, LifeShape, GetsReady, LoadModuleConfig, TypeOK, Live, Started, tables, registries, bounds
<1>5. StageShape'
  BY <1>2 DEF IInv, StageShape, GetsReady, LoadModuleConfig, TypeOK, Started, tables, FoundNow, Found, KeepsName
<1>6. LaunchShape'
  BY <1>2 DEF IInv, LaunchShape, GetsReady, LoadModuleConfig, TypeOK, bounds
<1>7. RegistriesShape'
  BY <1>2, RegistriesKept DEF IInv, GetsReady, LoadModuleConfig, TypeOK, BoundStage
<1>8. QED
  BY <1>1, <1>3, <1>4, <1>5, <1>6, <1>7 DEF IInv

(* The process dies.                                                       *)
LEMMA DiesStep ==
  ASSUME IInv, NEW p \in Mods, Dies(p)
  PROVE  IInv'
<1>1. TypeOK'
  BY BoundsAssumption DEF IInv, TypeOK, Dies, Fault, Supervisor, tables, registries, bounds
<1>2. UNCHANGED <<tables, registries, req, renamed>> /\ UNCHANGED <<disk, manifest, launches>>
  BY DEF Dies, Fault, tables, registries, bounds
<1>3. ScanShape' /\ TableShape' /\ RequestShape'
  BY <1>2, ScanKept, TableKept, RequestKept DEF IInv, Dies, Live, tables
<1>4. LifeShape'
  BY DEF IInv, LifeShape, Dies, Fault, TypeOK, Live, Started, tables, registries, bounds
<1>5. StageShape'
  BY <1>2 DEF IInv, StageShape, Dies, Fault, TypeOK, Started, tables, FoundNow, Found, KeepsName
<1>6. LaunchShape'
  BY <1>2 DEF IInv, LaunchShape, Dies, Fault, TypeOK, bounds
<1>7. RegistriesShape'
  BY <1>2, RegistriesKept DEF IInv, Dies, Fault, TypeOK, BoundStage
<1>8. QED
  BY <1>1, <1>3, <1>4, <1>5, <1>6, <1>7 DEF IInv

(* Run returns in a process that goes on.                                  *)
LEMMA RunReturnsStep ==
  ASSUME IInv, NEW p \in Mods, RunReturns(p)
  PROVE  IInv'
<1>1. TypeOK'
  BY BoundsAssumption DEF IInv, TypeOK, RunReturns, Fault, Supervisor, tables, registries, bounds
<1>2. UNCHANGED <<tables, registries, req, renamed>> /\ UNCHANGED <<disk, manifest, launches>>
  BY DEF RunReturns, Fault, tables, registries, bounds
<1>3. ScanShape' /\ TableShape' /\ RequestShape'
  BY <1>2, ScanKept, TableKept, RequestKept DEF IInv, RunReturns, Live, tables
<1>4. LifeShape'
  BY DEF IInv, LifeShape, RunReturns, Fault, TypeOK, Live, Started, tables, registries, bounds
<1>5. StageShape'
  BY <1>2 DEF IInv, StageShape, RunReturns, Fault, TypeOK, Started, tables, FoundNow, Found, KeepsName
<1>6. LaunchShape'
  BY <1>2 DEF IInv, LaunchShape, RunReturns, Fault, TypeOK, bounds
<1>7. RegistriesShape'
  BY <1>2, RegistriesKept DEF IInv, RunReturns, Fault, TypeOK, BoundStage
<1>8. QED
  BY <1>1, <1>3, <1>4, <1>5, <1>6, <1>7 DEF IInv

-----------------------------------------------------------------------------
(* The scan.                                                               *)

(* Discover finds one module of each name: a second directory is left out, *)
(* and a built-in module whose name a directory has.                       *)
LEMMA DiscoveredNames ==
  ASSUME NEW dk, NEW readable, readable \subseteq Dirs,
         NEW s \in Setups, \A p \in Mods \cap BuiltIn : dk[p] = s[p],
         NEW i \in Discovered(dk, readable), NEW k \in Discovered(dk, readable),
         dk[Places[i]].name = dk[Places[k]].name
  PROVE  Places[i] = Places[k]
<1>1. /\ i \in DOMAIN Places /\ k \in DOMAIN Places
      /\ Parses(dk[Places[i]]) /\ Parses(dk[Places[k]])
      /\ Places[i] \in BuiltIn \/ Places[i] \in readable
      /\ Places[k] \in BuiltIn \/ Places[k] \in readable
  BY DEF Discovered
<1>2. /\ \A j \in 1..(i - 1) : (Places[j] \in readable /\ Parses(dk[Places[j]])) =>
           dk[Places[j]].name # dk[Places[i]].name
      /\ \A j \in 1..(k - 1) : (Places[j] \in readable /\ Parses(dk[Places[j]])) =>
           dk[Places[j]].name # dk[Places[k]].name
  BY DEF Discovered
<1>3. DOMAIN Places = 1..Len(Places) /\ Len(Places) \in Nat
  BY PlacesAssumption
<1>4. Places[i] \in Mods /\ Places[k] \in Mods
  BY <1>1 DEF Mods, ToSet
<1>5. readable \cap BuiltIn = {}
  BY DEF Dirs
<1>6. CASE Places[i] \in BuiltIn /\ Places[k] \in BuiltIn
  <2>1. s[Places[i]].name = s[Places[k]].name
    BY <1>4, <1>6
  <2>2. QED
    BY <2>1, <1>4, <1>6, SetupsAssumption
<1>7. CASE Places[i] \notin BuiltIn /\ Places[k] \in BuiltIn
  <2>1. i < k
    BY <1>1, <1>7, PlacesAssumption
  <2>2. i \in 1..(k - 1) /\ Places[i] \in readable
    BY <2>1, <1>1, <1>3, <1>7
  <2>3. QED
    BY <2>2, <1>1, <1>2
<1>8. CASE Places[i] \in BuiltIn /\ Places[k] \notin BuiltIn
  <2>1. k < i
    BY <1>1, <1>8, PlacesAssumption
  <2>2. k \in 1..(i - 1) /\ Places[k] \in readable
    BY <2>1, <1>1, <1>3, <1>8
  <2>3. QED
    BY <2>2, <1>1, <1>2
<1>9. CASE Places[i] \notin BuiltIn /\ Places[k] \notin BuiltIn
  <2>1. Places[i] \in readable /\ Places[k] \in readable
    BY <1>1, <1>9
  <2>2. i \in Int /\ k \in Int /\ i >= 1 /\ k >= 1
    BY <1>1, <1>3
  <2>3. CASE i < k
    <3>1. i \in 1..(k - 1)
      BY <2>2, <2>3
    <3>2. QED
      BY <3>1, <2>1, <1>1, <1>2
  <2>4. CASE k < i
    <3>1. k \in 1..(i - 1)
      BY <2>2, <2>4
    <3>2. QED
      BY <3>1, <2>1, <1>1, <1>2
  <2>5. QED
    BY <2>2, <2>3, <2>4
<1>10. QED
  BY <1>6, <1>7, <1>8, <1>9

(* What the scan leaves: valid manifests with names of their own.          *)
LEMMA ScanIsSound ==
  ASSUME NEW dk \in [Mods -> Manifest], NEW readable, readable \subseteq Dirs,
         NEW s \in Setups, \A p \in Mods \cap BuiltIn : dk[p] = s[p]
  PROVE  /\ Scan(dk, readable) \in [Mods -> Manifest \cup {Gone}]
         /\ \A p \in Found(Scan(dk, readable)) : Parses(Scan(dk, readable)[p])
         /\ \A p, q \in Found(Scan(dk, readable)) :
              Scan(dk, readable)[p].name = Scan(dk, readable)[q].name => p = q
<1>1. Scan(dk, readable) \in [Mods -> Manifest \cup {Gone}]
  BY DEF Scan, Mods
<1>2. ASSUME NEW p \in Found(Scan(dk, readable))
      PROVE  \E i \in Discovered(dk, readable) : Places[i] = p /\ Scan(dk, readable)[p] = dk[p]
  <2>1. p \in ToSet(Places) /\ Scan(dk, readable)[p] # Gone
    BY DEF Found
  <2>2. QED
    BY <2>1 DEF Scan
<1>3. ASSUME NEW p \in Found(Scan(dk, readable))
      PROVE  Parses(Scan(dk, readable)[p])
  BY <1>2 DEF Discovered
<1>4. ASSUME NEW p \in Found(Scan(dk, readable)), NEW q \in Found(Scan(dk, readable)),
             Scan(dk, readable)[p].name = Scan(dk, readable)[q].name
      PROVE  p = q
  <2>1. PICK i \in Discovered(dk, readable) : Places[i] = p /\ Scan(dk, readable)[p] = dk[p]
    BY <1>2
  <2>2. PICK k \in Discovered(dk, readable) : Places[k] = q /\ Scan(dk, readable)[q] = dk[q]
    BY <1>2
  <2>3. dk[Places[i]].name = dk[Places[k]].name
    BY <1>4, <2>1, <2>2
  <2>4. QED
    BY <2>1, <2>2, <2>3, DiscoveredNames
<1>5. QED
  BY <1>1, <1>3, <1>4

(* The daemon discovers its modules.                                       *)
LEMMA DiscoverStep ==
  ASSUME IInv, Discover
  PROVE  IInv'
<1>1. PICK readable \in SUBSET Dirs : scanned' = Scan(disk, readable)
  BY DEF Discover, Fault
<1>2. PICK s \in Setups : \A p \in Mods \cap BuiltIn : disk[p] = s[p]
  BY DEF IInv, ScanShape
<1>3. disk \in [Mods -> Manifest]
  BY DEF IInv, TypeOK
<1>4. /\ scanned' \in [Mods -> Manifest \cup {Gone}]
      /\ \A p \in Found(scanned') : Parses(scanned'[p])
      /\ \A p, q \in Found(scanned') : scanned'[p].name = scanned'[q].name => p = q
  BY <1>1, <1>2, <1>3, ScanIsSound
<1>5. /\ UNCHANGED <<disk, declared, gateway, overlays, stage, manifest, proc, launches, registries,
                     req, renamed>>
      /\ daemon = "off" /\ daemon' = "found" /\ ~Live /\ ~Live'
  BY DEF Discover, Live
<1>6. TypeOK'
  BY <1>4, BoundsAssumption DEF IInv, TypeOK, Discover, Fault, bounds, registries
<1>7. ScanShape'
  BY <1>2, <1>4, <1>5 DEF ScanShape, FoundNow
<1>8. TableShape' /\ RequestShape'
  BY <1>5 DEF IInv, TableShape, RequestShape, UnderWay
<1>9. LifeShape'
  BY <1>5 DEF IInv, LifeShape
<1>10. StageShape' /\ LaunchShape'
  <2>1. \A p \in Mods : stage[p] = "end" /\ launches[p] = 0 /\ stage'[p] = "end" /\ launches'[p] = 0
    BY <1>5 DEF IInv, LifeShape
  <2>2. StageShape'
    BY <2>1 DEF StageShape, Started
  <2>3. faults' \in Nat
    BY <1>6, BoundsAssumption DEF TypeOK
  <2>4. LaunchShape'
    BY <1>5, <2>1, <2>3 DEF LaunchShape
  <2>5. QED
    BY <2>2, <2>4
<1>11. RegistriesShape'
  BY <1>5, RegistriesKept DEF IInv
<1>12. QED
  BY <1>6, <1>7, <1>8, <1>9, <1>10, <1>11 DEF IInv

-----------------------------------------------------------------------------
(* The daemon as a whole.                                                  *)

(* Somebody writes a manifest.                                             *)
LEMMA EditStep ==
  ASSUME IInv, NEW p \in Dirs, NEW m \in Versions[p], Edit(p, m)
  PROVE  IInv'
<1>1. /\ UNCHANGED <<tables, daemon, gateway, overlays, stage, manifest, proc, launches, registries,
                     req, renamed, faults>>
      /\ disk' = [disk EXCEPT ![p] = m]
  BY DEF Edit
<1>2. p \in Mods /\ p \notin BuiltIn
  BY DEF Dirs, Mods
<1>3. m \in Manifest
  BY DEF Manifest
<1>4. TypeOK'
  BY <1>1, <1>2, <1>3, BoundsAssumption DEF IInv, TypeOK, Edit, tables, registries
<1>5. ScanShape'
  BY <1>1, <1>2, ScanKept DEF IInv, TypeOK, tables
<1>6. TableShape' /\ RequestShape'
  BY <1>1, TableKept, RequestKept DEF IInv, Live
<1>7. LifeShape'
  BY <1>1 DEF IInv, LifeShape, Live
<1>8. StageShape'
  BY <1>1 DEF IInv, StageShape, tables, FoundNow, Found, KeepsName
<1>9. LaunchShape'
  BY <1>1 DEF IInv, LaunchShape
<1>10. RegistriesShape'
  BY <1>1, RegistriesKept DEF IInv
<1>11. QED
  BY <1>4, <1>5, <1>6, <1>7, <1>8, <1>9, <1>10 DEF IInv

(* A command runs one module, and nothing else is started.                 *)
LEMMA StartCommandStep ==
  ASSUME IInv, NEW c, NEW p \in Mods, NEW q \in Mods, StartCommand(c, p, q)
  PROVE  IInv'
<1>1. /\ daemon = "found" /\ ~Live /\ ~Live'
      /\ UNCHANGED <<disk, tables, gateway, stage, registries, req, renamed>>
      /\ q \in FoundNow /\ ~Unloadable(q, disk[q])
  BY DEF StartCommand, Live, WriteOverlays, WriteOverlaysFails
<1>2. \A r \in Mods : stage[r] = "end" /\ launches[r] = 0 /\ proc[r] = "none"
  BY <1>1 DEF IInv, LifeShape
<1>3. ASSUME overlays' = TRUE, daemon' = "command",
             manifest' = [manifest EXCEPT ![q] = Read(q)],
             proc' = [proc EXCEPT ![q] = "up"],
             launches' = [launches EXCEPT ![q] = @ + 1],
             UNCHANGED bounds
      PROVE  TypeOK' /\ LifeShape' /\ LaunchShape'
  <2>1. Read(q) \in Manifest
    BY <1>1, ReadIsValid DEF IInv
  <2>2. TypeOK'
    BY <1>1, <1>2, <1>3, <2>1, BoundsAssumption DEF IInv, TypeOK, tables, registries, bounds
  <2>3. LifeShape'
    BY <1>1, <1>2, <1>3 DEF IInv, LifeShape
  <2>4. LaunchShape'
    BY <1>1, <1>2, <1>3, BoundsAssumption DEF IInv, TypeOK, LaunchShape, bounds
  <2>5. QED
    BY <2>2, <2>3, <2>4
<1>4. ASSUME overlays' \in BOOLEAN, daemon' = "refused", Fault("settings"),
             UNCHANGED <<manifest, proc, launches>>
      PROVE  TypeOK' /\ LifeShape' /\ LaunchShape'
  <2>1. TypeOK'
    BY <1>1, <1>4, BoundsAssumption DEF IInv, TypeOK, tables, registries, Fault
  <2>2. LifeShape'
    BY <1>1, <1>2, <1>4 DEF IInv, LifeShape
  <2>3. LaunchShape'
    BY <1>1, <1>2, <1>4, <2>1, BoundsAssumption DEF TypeOK, LaunchShape
  <2>4. QED
    BY <2>1, <2>2, <2>3
<1>5. TypeOK' /\ LifeShape' /\ LaunchShape'
  <2>1. \/ /\ overlays' = TRUE /\ daemon' = "command"
           /\ manifest' = [manifest EXCEPT ![q] = Read(q)]
           /\ proc' = [proc EXCEPT ![q] = "up"]
           /\ launches' = [launches EXCEPT ![q] = @ + 1]
           /\ UNCHANGED bounds
        \/ /\ overlays' \in BOOLEAN /\ daemon' = "refused" /\ Fault("settings")
           /\ UNCHANGED <<manifest, proc, launches>>
    BY DEF StartCommand, WriteOverlays, WriteOverlaysFails
  <2>2. QED
    BY <1>3, <1>4, <2>1
<1>6. ScanShape' /\ TableShape' /\ RequestShape'
  BY <1>1, ScanKept DEF IInv, tables, TableShape, RequestShape, UnderWay
<1>7. StageShape'
  BY <1>1, <1>2 DEF StageShape, Started
<1>8. RegistriesShape'
  BY <1>1, <1>2, RegistriesKept DEF IInv, BoundStage
<1>9. QED
  BY <1>5, <1>6, <1>7, <1>8 DEF IInv

(* The command has ended.                                                  *)
LEMMA EndCommandStep ==
  ASSUME IInv, EndCommand
  PROVE  IInv'
<1>1. /\ daemon = "command" /\ daemon' = "exited" /\ ~Live /\ ~Live' /\ overlays' = FALSE
      /\ proc' = [p \in Mods |-> "none"]
      /\ UNCHANGED <<disk, tables, gateway, stage, manifest, launches, registries, req, renamed,
                     bounds>>
  BY DEF EndCommand, Live, RemoveOverlays
<1>2. \A p \in Mods : stage[p] = "end"
  BY <1>1 DEF IInv, LifeShape
<1>3. TypeOK'
  BY <1>1 DEF IInv, TypeOK, tables, registries, bounds
<1>4. LifeShape'
  BY <1>1 DEF IInv, LifeShape
<1>5. LaunchShape'
  BY <1>1 DEF IInv, LaunchShape, bounds
<1>6. ScanShape' /\ TableShape' /\ RequestShape'
  BY <1>1, ScanKept DEF IInv, tables, TableShape, RequestShape, UnderWay
<1>7. StageShape'
  BY <1>1, <1>2 DEF StageShape, Started
<1>8. RegistriesShape'
  BY <1>1, RegistriesKept DEF IInv
<1>9. QED
  BY <1>3, <1>4, <1>5, <1>6, <1>7, <1>8 DEF IInv

(* The daemon does not start.                                              *)
LEMMA RefuseStep ==
  ASSUME IInv, Refuse
  PROVE  IInv'
<1>1. /\ daemon = "found" /\ daemon' = "refused" /\ ~Live /\ ~Live'
      /\ UNCHANGED <<disk, tables, gateway, stage, manifest, proc, launches, registries, req,
                     renamed>>
  BY DEF Refuse, Live
<1>2. overlays' \in BOOLEAN /\ faults' \in 0..MaxFaults /\ edits' = edits
  <2>1. \/ UNCHANGED <<overlays, bounds>>
        \/ overlays' \in BOOLEAN /\ Fault("settings")
        \/ overlays' = TRUE /\ UNCHANGED bounds
    BY DEF Refuse, WriteOverlays, WriteOverlaysFails
  <2>2. overlays \in BOOLEAN /\ faults \in 0..MaxFaults
    BY DEF IInv, TypeOK
  <2>3. overlays' \in BOOLEAN
    BY <2>1, <2>2
  <2>4. faults' \in 0..MaxFaults /\ edits' = edits
    BY <2>1, <2>2, BoundsAssumption DEF Fault, bounds
  <2>5. QED
    BY <2>3, <2>4
<1>3. \A p \in Mods : stage[p] = "end" /\ launches[p] = 0 /\ proc[p] = "none"
  BY <1>1 DEF IInv, LifeShape
<1>4. TypeOK'
  BY <1>1, <1>2 DEF IInv, TypeOK, tables, registries
<1>5. LifeShape'
  BY <1>1, <1>3 DEF IInv, LifeShape
<1>6. LaunchShape'
  BY <1>1, <1>2, <1>3, BoundsAssumption DEF LaunchShape
<1>7. ScanShape' /\ TableShape' /\ RequestShape'
  BY <1>1, ScanKept DEF IInv, tables, TableShape, RequestShape, UnderWay
<1>8. StageShape'
  BY <1>1, <1>3 DEF StageShape, Started
<1>9. RegistriesShape'
  BY <1>1, RegistriesKept DEF IInv
<1>10. QED
  BY <1>4, <1>5, <1>6, <1>7, <1>8, <1>9 DEF IInv

(* The tables that a start makes are sound: what was read again is valid,  *)
(* and has the name of the scan, or one that is noted as taken.            *)
LEMMA RereadIsSound ==
  ASSUME IInv, Consistent(Reread)
  PROVE  /\ Reread \in [Mods -> Manifest \cup {Gone}]
         /\ \A p \in FoundNow : /\ Reread[p] \in Manifest /\ Parses(Reread[p])
                                /\ Reread[p].name \in Names
         /\ AuthConfigured(DefaultAuth, Routes(FoundNow, Reread), DeclaredRefs(FoundNow, Reread))
<1>1. \A p \in FoundNow : ~Unloadable(p, disk[p])
  BY DEF Consistent
<1>2. \A p \in FoundNow : /\ p \in Mods /\ Reread[p] = Read(p)
                          /\ Read(p) \in Manifest /\ Parses(Read(p)) /\ Read(p).name \in Names
  BY <1>1, ReadIsValid DEF IInv, Reread, FoundNow, Found, Mods
<1>3. \A p \in Mods : p \notin FoundNow => Reread[p] = Gone
  BY DEF Reread, FoundNow, Found, Mods
<1>4. Reread \in [Mods -> Manifest \cup {Gone}]
  BY <1>2, <1>3 DEF Reread
<1>5. AuthConfigured(DefaultAuth, Routes(FoundNow, Reread), DeclaredRefs(FoundNow, Reread))
  BY DEF Consistent
<1>6. QED
  BY <1>2, <1>4, <1>5

(* The daemon starts.                                                      *)
LEMMA LaunchStep ==
  ASSUME IInv, Launch
  PROVE  IInv'
<1>1. /\ daemon = "found" /\ daemon' = "up" /\ ~Live /\ Live' /\ overlays' = TRUE
      /\ UNCHANGED <<disk, scanned, manifest, proc, launches, registries, req>>
      /\ Consistent(Reread) /\ declared' = Reread
      /\ renamed' = {Reread[p].name : p \in {q \in FoundNow : Reread[q].name # scanned[q].name}}
      /\ stage' = [p \in Mods |-> IF p \in FoundNow THEN "listed" ELSE "end"]
  BY DEF Launch, Live, WriteOverlays
<1>2. gateway' \in {"serving", "failed"} /\ faults' \in 0..MaxFaults /\ edits' = edits
  BY BoundsAssumption DEF Launch, IInv, TypeOK, Fault, bounds
<1>3. \A p \in Mods : stage[p] = "end" /\ launches[p] = 0 /\ proc[p] = "none"
  BY <1>1 DEF IInv, LifeShape
<1>4. FoundNow' = FoundNow /\ FoundNow \subseteq Mods
  BY <1>1 DEF FoundNow, Found, Mods
<1>5. /\ Reread \in [Mods -> Manifest \cup {Gone}]
      /\ \A p \in FoundNow : /\ Reread[p] \in Manifest /\ Parses(Reread[p])
                             /\ Reread[p].name \in Names
      /\ AuthConfigured(DefaultAuth, Routes(FoundNow, Reread), DeclaredRefs(FoundNow, Reread))
  BY <1>1, RereadIsSound
<1>6. renamed' \subseteq Names
  BY <1>1, <1>5
<1> HIDE DEF Reread
<1>7. TypeOK'
  BY <1>1, <1>2, <1>5, <1>6 DEF IInv, TypeOK, Supervisor, registries
<1>8. ScanShape'
  BY <1>1, ScanKept DEF IInv
<1>9. TableShape'
  BY <1>1, <1>4, <1>5 DEF TableShape, KeepsName
<1>10. LifeShape'
  BY <1>1, <1>2, <1>3 DEF LifeShape
<1>11. StageShape'
  BY <1>1, <1>4 DEF StageShape, Started
<1>12. LaunchShape'
  BY <1>1, <1>2, <1>3, BoundsAssumption DEF LaunchShape
<1>13. RegistriesShape'
  BY <1>1, <1>3, RegistriesKept DEF IInv, BoundStage
<1>14. RequestShape'
  BY <1>1 DEF IInv, RequestShape, UnderWay
<1>15. QED
  BY <1>7, <1>8, <1>9, <1>10, <1>11, <1>12, <1>13, <1>14 DEF IInv

(* The daemon is told to stop.                                             *)
LEMMA StopStep ==
  ASSUME IInv, Stop
  PROVE  IInv'
<1>1. /\ daemon = "up" /\ daemon' = "stopping" /\ Live /\ Live'
      /\ gateway' = IF gateway = "serving" THEN "closed" ELSE gateway
      /\ UNCHANGED <<disk, tables, overlays, stage, manifest, proc, launches, registries, req,
                     renamed, bounds>>
  BY DEF Stop, Live
<1>2. TypeOK'
  BY <1>1 DEF IInv, TypeOK, tables, registries, bounds
<1>3. ScanShape' /\ TableShape' /\ RequestShape'
  BY <1>1, ScanKept, TableKept, RequestKept DEF IInv, tables
<1>4. LifeShape'
  BY <1>1 DEF IInv, LifeShape
<1>5. StageShape'
  BY <1>1 DEF IInv, StageShape, tables, FoundNow, Found, KeepsName
<1>6. LaunchShape'
  BY <1>1 DEF IInv, LaunchShape, bounds
<1>7. RegistriesShape'
  BY <1>1, RegistriesKept DEF IInv
<1>8. QED
  BY <1>2, <1>3, <1>4, <1>5, <1>6, <1>7 DEF IInv

(* It exits, with every supervisor at its end.                             *)
LEMMA ExitStep ==
  ASSUME IInv, Exit
  PROVE  IInv'
<1>1. /\ daemon = "stopping" /\ daemon' = "exited" /\ ~Live' /\ overlays' = FALSE
      /\ \A p \in Mods : stage[p] = "end"
      /\ req' = Idle
      /\ UNCHANGED <<disk, tables, gateway, stage, manifest, proc, launches, registries, renamed,
                     bounds>>
  BY DEF Exit, Live, RemoveOverlays
<1>2. Idle \in Serving
  BY DEF Idle, Serving, Steps, Binding, Refs
<1>3. TypeOK'
  BY <1>1 DEF IInv, TypeOK, tables, registries, bounds, Idle, Binding
<1>4. ScanShape' /\ TableShape' /\ RequestShape'
  BY <1>1, <1>2, ScanKept DEF IInv, tables, TableShape, RequestShape
<1>5. LifeShape'
  BY <1>1 DEF IInv, LifeShape, Started
<1>6. StageShape'
  BY <1>1 DEF StageShape, Started
<1>7. LaunchShape'
  BY <1>1 DEF IInv, LaunchShape, bounds
<1>8. RegistriesShape'
  BY <1>1, RegistriesKept DEF IInv
<1>9. QED
  BY <1>3, <1>4, <1>5, <1>6, <1>7, <1>8 DEF IInv

-----------------------------------------------------------------------------
(* Start, bind, unbind.                                                    *)

(* A module's process is started with the manifest of the moment.          *)
LEMMA StartStep ==
  ASSUME IInv, NEW p \in Mods, Start(p)
  PROVE  IInv'
<1>1. /\ daemon = "up" /\ stage[p] = "load" /\ ~Unloadable(p, disk[p]) /\ Live /\ Live'
      /\ manifest' = [manifest EXCEPT ![p] = Read(p)]
      /\ renamed' = renamed \cup {n \in {Read(p).name} : n # scanned[p].name}
      /\ proc' = [proc EXCEPT ![p] = "up"]
      /\ launches' = [launches EXCEPT ![p] = @ + 1]
      /\ stage' = [stage EXCEPT ![p] = "register"]
      /\ UNCHANGED <<disk, tables, daemon, gateway, overlays, registries, req, bounds>>
  BY DEF Start, Live
<1>2. p \in FoundNow
  BY <1>1 DEF IInv, StageShape
<1>3. Read(p) \in Manifest /\ Parses(Read(p)) /\ Read(p).name \in Names
  BY <1>1, <1>2, ReadIsValid DEF IInv
<1>4. renamed \subseteq renamed' /\ renamed' \subseteq Names
  BY <1>1, <1>3 DEF IInv, TypeOK
<1>5. Read(p).name = scanned[p].name \/ Read(p).name \in renamed'
  BY <1>1
<1>6. launches[p] \in Nat /\ faults \in Nat /\ faults <= MaxFaults /\ launches[p] <= faults
  BY <1>1, BoundsAssumption DEF IInv, TypeOK, LaunchShape
<1> HIDE DEF Read
<1>7. TypeOK'
  <2>1. launches' \in [Mods -> 0..(MaxFaults + 1)]
    BY <1>1, <1>6, BoundsAssumption DEF IInv, TypeOK
  <2>2. QED
    BY <1>1, <1>3, <1>4, <2>1 DEF IInv, TypeOK, Supervisor, tables, registries, bounds
<1>8. ScanShape' /\ TableShape' /\ RequestShape'
  BY <1>1, <1>4, ScanKept, TableKept, RequestKept DEF IInv, tables
<1>9. LifeShape'
  BY <1>1 DEF IInv, LifeShape, Live, TypeOK, Started
<1>10. StageShape'
  <2> SUFFICES ASSUME NEW q \in Mods
               PROVE  /\ stage'[q] # "end" => q \in FoundNow
                      /\ stage'[q] \in Started =>
                           /\ manifest'[q] \in Manifest /\ Parses(manifest'[q])
                           /\ manifest'[q].name = scanned[q].name \/ manifest'[q].name \in renamed'
                           /\ launches'[q] >= 1
    BY <1>1 DEF StageShape, KeepsName, tables, FoundNow, Found
  <2>1. CASE q = p
    BY <2>1, <1>1, <1>2, <1>3, <1>5, <1>6 DEF IInv, TypeOK
  <2>2. CASE q # p
    BY <2>2, <1>1, <1>4 DEF IInv, TypeOK, StageShape, KeepsName
  <2>3. QED
    BY <2>1, <2>2
<1>11. LaunchShape'
  BY <1>1, <1>6 DEF IInv, TypeOK, LaunchShape, bounds
<1>12. RegistriesShape'
  <2>1. \A q \in Mods : stage'[q] \in BoundStage <=> stage[q] \in BoundStage
    BY <1>1 DEF IInv, TypeOK, BoundStage
  <2>2. \A q \in Mods : stage[q] \in BoundStage => q # p
    BY <1>1 DEF BoundStage
  <2>3. \A q \in Mods : q # p => manifest'[q] = manifest[q] /\ launches'[q] = launches[q]
    BY <1>1 DEF IInv, TypeOK
  <2>4. QED
    BY <1>1, <1>4, <2>1, <2>2, <2>3, RegistriesKept DEF IInv
<1>13. QED
  BY <1>7, <1>8, <1>9, <1>10, <1>11, <1>12 DEF IInv

(* It is bound in every registry of its kind.                              *)
LEMMA RegisterStep ==
  ASSUME IInv, NEW p \in Mods, RegisterModule(p)
  PROVE  IInv'
<1>1. /\ stage[p] = "register" /\ stage' = [stage EXCEPT ![p] = "run"]
      /\ UNCHANGED <<disk, tables, daemon, gateway, overlays, manifest, proc, launches, req,
                     renamed, bounds>>
  BY DEF RegisterModule
<1>2. /\ manifest[p] \in Manifest /\ Parses(manifest[p]) /\ manifest[p].name \in Names
      /\ launches[p] \in 1..(MaxFaults + 1)
  <2>1. manifest[p] \in Manifest /\ Parses(manifest[p]) /\ launches[p] >= 1
    BY <1>1 DEF IInv, StageShape, Started
  <2>2. launches[p] \in 0..(MaxFaults + 1)
    BY DEF IInv, TypeOK
  <2>3. QED
    BY <2>1, <2>2, ValidManifests, BoundsAssumption
<1>3. <<p, launches[p]>> \in Binding
  BY <1>2 DEF Binding
<1>4. \A q \in Mods : (q # p /\ stage[q] \in BoundStage /\ manifest[q].name = manifest[p].name) =>
        manifest[p].name \in renamed
  BY <1>1, NamesAreTaken DEF IInv, BoundStage, Started
<1>5. stage \in [Mods -> Supervisor]
  BY DEF IInv, TypeOK
<1>6. RegistriesShape'
  <2>1. /\ OfHTTP(manifest) \subseteq Mods /\ OfMCP(manifest) \subseteq Mods
        /\ OfEvents(manifest) \subseteq Mods
        /\ p \in OfHTTP(manifest) <=> InHTTP(manifest[p])
        /\ p \in OfMCP(manifest) <=> InMCP(manifest[p])
        /\ p \in OfEvents(manifest) <=> InEvents(manifest[p])
    BY <1>2 DEF OfHTTP, OfMCP, OfEvents
  <2>2. Registry(http', OfHTTP(manifest), stage', manifest, launches, renamed)
    <3>1. http' = IF p \in OfHTTP(manifest)
                  THEN [http EXCEPT ![manifest[p].name] = <<p, launches[p]>>] ELSE http
      BY <2>1 DEF RegisterModule, Bind
    <3>2. Registry(http, OfHTTP(manifest), stage, manifest, launches, renamed)
      BY DEF IInv, RegistriesShape
    <3>3. QED
      BY <1>1, <1>2, <1>3, <1>4, <1>5, <2>1, <3>1, <3>2, RegistryBinds
  <2>3. Registry(mcp', OfMCP(manifest), stage', manifest, launches, renamed)
    <3>1. mcp' = IF p \in OfMCP(manifest)
                 THEN [mcp EXCEPT ![manifest[p].name] = <<p, launches[p]>>] ELSE mcp
      BY <2>1 DEF RegisterModule, Bind
    <3>2. Registry(mcp, OfMCP(manifest), stage, manifest, launches, renamed)
      BY DEF IInv, RegistriesShape
    <3>3. QED
      BY <1>1, <1>2, <1>3, <1>4, <1>5, <2>1, <3>1, <3>2, RegistryBinds
  <2>4. Registry(events', OfEvents(manifest), stage', manifest, launches, renamed)
    <3>1. events' = IF p \in OfEvents(manifest)
                    THEN [events EXCEPT ![manifest[p].name] = <<p, launches[p]>>] ELSE events
      BY <2>1 DEF RegisterModule, Bind
    <3>2. Registry(events, OfEvents(manifest), stage, manifest, launches, renamed)
      BY DEF IInv, RegistriesShape
    <3>3. QED
      BY <1>1, <1>2, <1>3, <1>4, <1>5, <2>1, <3>1, <3>2, RegistryBinds
  <2>5. QED
    BY <1>1, <2>2, <2>3, <2>4 DEF RegistriesShape
<1>7. TypeOK'
  BY <1>1, <1>6 DEF IInv, TypeOK, Supervisor, tables, bounds, RegistriesShape, Registry
<1>8. ScanShape' /\ TableShape' /\ RequestShape'
  BY <1>1, ScanKept, TableKept, RequestKept DEF IInv, tables, Live
<1>9. LifeShape'
  BY <1>1 DEF IInv, LifeShape, Live, TypeOK, Started
<1>10. StageShape'
  BY <1>1 DEF IInv, StageShape, TypeOK, Started, tables, FoundNow, Found, KeepsName
<1>11. LaunchShape'
  BY <1>1 DEF IInv, TypeOK, LaunchShape, bounds
<1>12. QED
  BY <1>6, <1>7, <1>8, <1>9, <1>10, <1>11 DEF IInv

(* It is unbound in every registry of its kind.                            *)
LEMMA LeaveStep ==
  ASSUME IInv, NEW p \in Mods, Leave(p)
  PROVE  IInv'
<1>1. /\ stage[p] = "leave" /\ stage' = [stage EXCEPT ![p] = "close"]
      /\ UNCHANGED <<disk, tables, daemon, gateway, overlays, manifest, proc, launches, req,
                     renamed, bounds>>
  BY DEF Leave
<1>2. manifest[p] \in Manifest /\ Parses(manifest[p]) /\ manifest[p].name \in Names
  <2>1. manifest[p] \in Manifest /\ Parses(manifest[p])
    BY <1>1 DEF IInv, StageShape, Started
  <2>2. QED
    BY <2>1, ValidManifests
<1>3. \A q \in Mods : (q # p /\ stage[q] \in BoundStage /\ manifest[q].name = manifest[p].name) =>
        manifest[p].name \in renamed
  BY <1>1, NamesAreTaken DEF IInv, BoundStage, Started
<1>4. stage \in [Mods -> Supervisor]
  BY DEF IInv, TypeOK
<1>5. RegistriesShape'
  <2>1. /\ OfHTTP(manifest) \subseteq Mods /\ OfMCP(manifest) \subseteq Mods
        /\ OfEvents(manifest) \subseteq Mods
        /\ p \in OfHTTP(manifest) <=> InHTTP(manifest[p])
        /\ p \in OfMCP(manifest) <=> InMCP(manifest[p])
        /\ p \in OfEvents(manifest) <=> InEvents(manifest[p])
    BY <1>2 DEF OfHTTP, OfMCP, OfEvents
  <2>2. Registry(http', OfHTTP(manifest), stage', manifest, launches, renamed)
    <3>1. http' = IF p \in OfHTTP(manifest)
                  THEN [http EXCEPT ![manifest[p].name] = NoBinding] ELSE http
      BY <2>1 DEF Leave, Unbind
    <3>2. Registry(http, OfHTTP(manifest), stage, manifest, launches, renamed)
      BY DEF IInv, RegistriesShape
    <3>3. QED
      BY <1>1, <1>2, <1>3, <1>4, <2>1, <3>1, <3>2, RegistryUnbinds
  <2>3. Registry(mcp', OfMCP(manifest), stage', manifest, launches, renamed)
    <3>1. mcp' = IF p \in OfMCP(manifest)
                 THEN [mcp EXCEPT ![manifest[p].name] = NoBinding] ELSE mcp
      BY <2>1 DEF Leave, Unbind
    <3>2. Registry(mcp, OfMCP(manifest), stage, manifest, launches, renamed)
      BY DEF IInv, RegistriesShape
    <3>3. QED
      BY <1>1, <1>2, <1>3, <1>4, <2>1, <3>1, <3>2, RegistryUnbinds
  <2>4. Registry(events', OfEvents(manifest), stage', manifest, launches, renamed)
    <3>1. events' = IF p \in OfEvents(manifest)
                    THEN [events EXCEPT ![manifest[p].name] = NoBinding] ELSE events
      BY <2>1 DEF Leave, Unbind
    <3>2. Registry(events, OfEvents(manifest), stage, manifest, launches, renamed)
      BY DEF IInv, RegistriesShape
    <3>3. QED
      BY <1>1, <1>2, <1>3, <1>4, <2>1, <3>1, <3>2, RegistryUnbinds
  <2>5. QED
    BY <1>1, <2>2, <2>3, <2>4 DEF RegistriesShape
<1>6. TypeOK'
  BY <1>1, <1>5 DEF IInv, TypeOK, Supervisor, tables, bounds, RegistriesShape, Registry
<1>7. ScanShape' /\ TableShape' /\ RequestShape'
  BY <1>1, ScanKept, TableKept, RequestKept DEF IInv, tables, Live
<1>8. LifeShape'
  BY <1>1 DEF IInv, LifeShape, Live, TypeOK, Started
<1>9. StageShape'
  BY <1>1 DEF IInv, StageShape, TypeOK, Started, tables, FoundNow, Found, KeepsName
<1>10. LaunchShape'
  BY <1>1 DEF IInv, TypeOK, LaunchShape, bounds
<1>11. QED
  BY <1>5, <1>6, <1>7, <1>8, <1>9, <1>10 DEF IInv

-----------------------------------------------------------------------------
(* Requests.                                                               *)

(* A step that is only about the request leaves the rest as it was.        *)
LEMMA OnlyTheRequest ==
  ASSUME IInv, UNCHANGED Served, RequestShape'
  PROVE  IInv'
<1>1. UNCHANGED <<disk, tables, daemon, gateway, overlays, stage, manifest, proc, launches,
                  registries, renamed, bounds>>
  BY DEF Served
<1>2. TypeOK'
  <2>1. req' \in Serving
    BY DEF RequestShape
  <2>2. /\ req'.step \in Steps
        /\ req'.place \in Mods \cup {NoPlace} /\ req'.consent \in Mods \cup {NoPlace}
        /\ req'.client \in Binding
    BY <2>1 DEF Serving
  <2>3. QED
    BY <1>1, <2>2 DEF IInv, TypeOK, Steps, tables, registries, bounds
<1>3. ScanShape' /\ TableShape'
  BY <1>1, ScanKept, TableKept DEF IInv, tables, Live
<1>4. LifeShape'
  BY <1>1 DEF IInv, LifeShape, Live
<1>5. StageShape'
  BY <1>1 DEF IInv, StageShape, tables, FoundNow, Found, KeepsName
<1>6. LaunchShape'
  BY <1>1 DEF IInv, LaunchShape, bounds
<1>7. RegistriesShape'
  BY <1>1, RegistriesKept DEF IInv
<1>8. QED
  BY <1>2, <1>3, <1>4, <1>5, <1>6, <1>7 DEF IInv

(* While the daemon lives, what a discovered module declared is valid.     *)
LEMMA DeclaredIsValid ==
  ASSUME IInv, Live, NEW p \in FoundNow
  PROVE  /\ p \in Mods /\ declared[p] \in Manifest \ {Gone, Broken} /\ Parses(declared[p])
         /\ declared[p].name \in Names /\ KeepsName(p, declared[p])
<1>1. p \in Mods
  BY DEF FoundNow, Found, Mods
<1>2. declared[p] \in Manifest /\ Parses(declared[p]) /\ KeepsName(p, declared[p])
  BY DEF IInv, TableShape
<1>3. QED
  BY <1>1, <1>2, ValidManifests

(* A declared validator is one of a discovered module.                     *)
LEMMA RefIsDeclared ==
  ASSUME IInv, Live, NEW ref \in DeclaredRefs(FoundNow, declared)
  PROVE  /\ ref \in Refs
         /\ \E p \in FoundNow : ref.module = declared[p].name /\ ref.capability \in declared[p].validators
<1>1. PICK p \in FoundNow :
        ref \in {[module |-> declared[p].name, capability |-> v] : v \in declared[p].validators}
  BY DEF DeclaredRefs
<1>2. PICK v \in declared[p].validators : ref = [module |-> declared[p].name, capability |-> v]
  BY <1>1
<1>3. declared[p] \in Manifest \ {Gone, Broken}
  BY DeclaredIsValid
<1>4. ref \in Refs
  BY <1>1, <1>3 DEF Refs
<1>5. ref.module = declared[p].name /\ ref.capability = v
  BY <1>2
<1>6. QED
  BY <1>4, <1>5

(* Whom a registry leads to under a name that nobody took since the scan:  *)
(* the one discovered module that declared itself under it.                *)
LEMMA BoundIsOwner ==
  ASSUME IInv, Live, NEW r, NEW kind \in SUBSET Mods,
         Registry(r, kind, stage, manifest, launches, renamed),
         NEW n \in Names, r[n] # NoBinding
  PROVE  /\ r[n] \in Binding /\ r[n][1] \in Mods
         /\ \A p \in FoundNow : (n = declared[p].name /\ n \notin renamed) => r[n][1] = p
<1>1. PICK c \in kind : r[n] = <<c, launches[c]>> /\ stage[c] \in BoundStage /\ manifest[c].name = n
  BY DEF Registry, Leads
<1>2. r[n] \in Binding /\ r[n][1] = c /\ c \in Mods
  BY <1>1 DEF Registry
<1>3. c \in FoundNow /\ KeepsName(c, manifest[c])
  BY <1>1 DEF IInv, StageShape, BoundStage, Started
<1>4. ASSUME NEW p \in FoundNow, n = declared[p].name, n \notin renamed
      PROVE  c = p
  <2>1. scanned[c].name = n
    BY <1>1, <1>3, <1>4 DEF KeepsName
  <2>2. scanned[p].name = n
    BY <1>4, DeclaredIsValid DEF KeepsName
  <2>3. QED
    BY <2>1, <2>2, <1>3 DEF IInv, ScanShape
<1>5. QED
  BY <1>2, <1>4

(* A request arrives.                                                      *)
LEMMA RequestStep ==
  ASSUME IInv, NEW r \in Requests, Request(r)
  PROVE  IInv'
<1>1. gateway = "serving" /\ req = Idle /\ UNCHANGED Served
  BY DEF Request, Served
<1>2. Live /\ Live' /\ FoundNow' = FoundNow /\ UNCHANGED <<declared, renamed>>
  BY <1>1 DEF IInv, LifeShape, Live, Served, tables, FoundNow, Found
<1>3. PICK entry \in Routes(FoundNow, declared) :
        req' = [Idle EXCEPT !.place = entry.place, !.name = entry.name,
                            !.ref = ResolveRouteAuth(entry.route.auth, DefaultAuth),
                            !.step = IF ResolveRouteAuth(entry.route.auth, DefaultAuth) = NoValidator
                                     THEN "lookup" ELSE "authorize"]
  BY <1>2 DEF Request, DeclaredRoutes
<1> DEFINE ref == ResolveRouteAuth(entry.route.auth, DefaultAuth)
<1>4. entry.place \in FoundNow /\ entry.name = declared[entry.place].name
  <2>1. PICK i \in {j \in DOMAIN Places : Places[j] \in FoundNow} :
          entry \in {[at |-> <<i, k>>, place |-> Places[i], name |-> declared[Places[i]].name,
                      route |-> declared[Places[i]].routes[k]] : k \in DOMAIN declared[Places[i]].routes}
    BY DEF Routes
  <2>2. entry.place = Places[i] /\ entry.name = declared[Places[i]].name
    BY <2>1
  <2>3. QED
    BY <2>1, <2>2
<1>5. ref = NoValidator \/ ref \in DeclaredRefs(FoundNow, declared)
  <2>1. AuthConfigured(DefaultAuth, Routes(FoundNow, declared), DeclaredRefs(FoundNow, declared))
    BY <1>2 DEF IInv, TableShape
  <2>2. /\ DefaultAuth \in DeclaredRefs(FoundNow, declared) \cup {NoValidator}
        /\ entry.route.auth \in DeclaredRefs(FoundNow, declared) \cup {Inherit, NoAuth}
    BY <2>1 DEF AuthConfigured
  <2>3. QED
    BY <2>2 DEF ResolveRouteAuth
<1>6. ref \in Refs
  BY <1>2, <1>5, RefIsDeclared DEF Refs
<1>7. entry.place \in Mods /\ entry.name \in Names
  BY <1>2, <1>4, DeclaredIsValid
<1> HIDE DEF ref
<1>8. /\ req'.step = (IF ref = NoValidator THEN "lookup" ELSE "authorize")
      /\ req'.place = entry.place /\ req'.name = entry.name /\ req'.ref = ref
      /\ req'.client = NoBinding /\ req'.consent = NoPlace
      /\ req' = [step |-> req'.step, place |-> req'.place, name |-> req'.name, ref |-> req'.ref,
                 client |-> req'.client, consent |-> req'.consent]
  BY <1>3 DEF Idle, ref
<1>9. req' \in Serving
  BY <1>6, <1>7, <1>8 DEF Serving, Steps, Binding
<1>10. UnderWay(req)'
  BY <1>2, <1>4, <1>5, <1>8 DEF UnderWay
<1>11. RequestShape'
  BY <1>9, <1>10 DEF RequestShape
<1>12. QED
  BY <1>1, <1>11, OnlyTheRequest

(* A module calls a tool.                                                  *)
LEMMA CallToolStep ==
  ASSUME IInv, NEW p \in Mods, NEW t, CallTool(p, t)
  PROVE  IInv'
<1>1. Live /\ UNCHANGED Served /\ mcp[declared[p].name] # NoBinding
      /\ <<p, t>> \in Tools(FoundNow, declared)
      /\ req' = [Idle EXCEPT !.place = p, !.name = declared[p].name, !.step = "tool",
                             !.client = mcp[declared[p].name]]
  BY DEF CallTool, Served, DeclaredTools
<1>2. Live' /\ FoundNow' = FoundNow /\ UNCHANGED <<declared, renamed>>
  BY <1>1 DEF Live, Served, tables, FoundNow, Found
<1>3. p \in FoundNow
  <2>1. PICK q \in FoundNow :
          <<p, t>> \in {<<q, x>> : x \in [o \in FoundNow |-> declared[o].tools][q]}
    BY <1>1 DEF Tools, Entries
  <2>2. QED
    BY <2>1
<1>4. declared[p].name \in Names
  BY <1>1, <1>3, DeclaredIsValid
<1>5. mcp[declared[p].name] \in Binding
      /\ (declared[p].name \notin renamed => mcp[declared[p].name][1] = p)
  <2>1. Registry(mcp, OfMCP(manifest), stage, manifest, launches, renamed)
    BY DEF IInv, RegistriesShape
  <2>2. OfMCP(manifest) \in SUBSET Mods
    BY DEF OfMCP
  <2>3. QED
    BY <1>1, <1>3, <1>4, <2>1, <2>2, BoundIsOwner
<1>6. /\ req'.step = "tool" /\ req'.place = p /\ req'.name = declared[p].name
      /\ req'.ref = NoValidator /\ req'.client = mcp[declared[p].name] /\ req'.consent = NoPlace
      /\ req' = [step |-> req'.step, place |-> req'.place, name |-> req'.name, ref |-> req'.ref,
                 client |-> req'.client, consent |-> req'.consent]
  BY <1>1 DEF Idle
<1>7. req' \in Serving
  BY <1>4, <1>5, <1>6 DEF Serving, Steps, Refs
<1>8. UnderWay(req)'
  BY <1>1, <1>2, <1>3, <1>5, <1>6 DEF UnderWay
<1>9. RequestShape'
  BY <1>7, <1>8 DEF RequestShape
<1>10. QED
  BY <1>1, <1>9, OnlyTheRequest

(* The steps of a request that is under way change no more than its step,  *)
(* its client and who consented.                                           *)
LEMMA RequestGoesOn ==
  ASSUME IInv, UNCHANGED Served, req # Idle
  PROVE  /\ Live /\ Live' /\ FoundNow' = FoundNow /\ UNCHANGED <<declared, renamed>>
         /\ req \in Serving /\ UnderWay(req)
<1>1. req \in Serving /\ UnderWay(req)
  BY DEF IInv, RequestShape
<1>2. Live
  BY <1>1 DEF UnderWay
<1>3. QED
  BY <1>1, <1>2 DEF Live, Served, tables, FoundNow, Found

(* The module that is bound under a validator's name vouches for it.       *)
LEMMA GetValidatorStep ==
  ASSUME IInv, GetValidator
  PROVE  IInv'
<1>1. /\ req.step = "authorize" /\ http[req.ref.module] # NoBinding /\ UNCHANGED Served
      /\ req' = [req EXCEPT !.step = "validate", !.client = http[req.ref.module]]
  BY DEF GetValidator
<1>2. req # Idle
  BY <1>1 DEF Idle
<1>3. /\ Live /\ Live' /\ FoundNow' = FoundNow /\ UNCHANGED <<declared, renamed>>
      /\ req \in Serving /\ UnderWay(req)
  BY <1>1, <1>2, RequestGoesOn
<1>4. req.ref # NoValidator /\ req.ref \in DeclaredRefs(FoundNow, declared)
  BY <1>1, <1>3 DEF UnderWay
<1>5. PICK q \in FoundNow :
        req.ref.module = declared[q].name /\ req.ref.capability \in declared[q].validators
  BY <1>3, <1>4, RefIsDeclared
<1>6. req.ref.module \in Names
  BY <1>3, <1>5, DeclaredIsValid
<1> DEFINE client == http[req.ref.module]
<1>7. client \in Binding /\ (req.ref.module \notin renamed => client[1] = q)
  <2>1. Registry(http, OfHTTP(manifest), stage, manifest, launches, renamed)
    BY DEF IInv, RegistriesShape
  <2>2. OfHTTP(manifest) \in SUBSET Mods
    BY DEF OfHTTP
  <2>3. QED
    BY <1>1, <1>3, <1>5, <1>6, <2>1, <2>2, BoundIsOwner
<1>8. /\ req'.step = "validate" /\ req'.place = req.place /\ req'.name = req.name
      /\ req'.ref = req.ref /\ req'.client = client /\ req'.consent = req.consent
  BY <1>1, <1>3 DEF Serving
<1>9. req' \in Serving
  BY <1>1, <1>3, <1>7 DEF Serving, Steps
<1>10. client # NoBinding
  BY <1>1
<1> HIDE DEF client
<1>11. UnderWay(req)'
  BY <1>3, <1>4, <1>5, <1>7, <1>8, <1>10 DEF UnderWay, Vouches
<1>12. RequestShape'
  BY <1>9, <1>11 DEF RequestShape
<1>13. QED
  BY <1>1, <1>12, OnlyTheRequest

(* It allows the request.                                                  *)
LEMMA AllowStep ==
  ASSUME IInv, Allow
  PROVE  IInv'
<1>1. /\ req.step = "validate" /\ UNCHANGED Served
      /\ req' = [req EXCEPT !.step = "lookup", !.client = NoBinding, !.consent = req.client[1]]
  BY DEF Allow
<1>2. req # Idle
  BY <1>1 DEF Idle
<1>3. /\ Live /\ Live' /\ FoundNow' = FoundNow /\ UNCHANGED <<declared, renamed>>
      /\ req \in Serving /\ UnderWay(req)
  BY <1>1, <1>2, RequestGoesOn
<1>4. req.client # NoBinding /\ Vouches(req, req.client[1])
  BY <1>1, <1>3 DEF UnderWay
<1>5. req.client[1] \in Mods
  BY <1>3, <1>4 DEF Serving, Binding
<1>6. NoBinding \in Binding
  BY DEF Binding
<1> DEFINE q == req.client[1]
<1>7. /\ req'.step = "lookup" /\ req'.place = req.place /\ req'.name = req.name
      /\ req'.ref = req.ref /\ req'.client = NoBinding /\ req'.consent = q
  BY <1>1, <1>3 DEF Serving
<1>8. req' \in Serving
  BY <1>1, <1>3, <1>5, <1>6 DEF Serving, Steps
<1> HIDE DEF q
<1>9. UnderWay(req)'
  BY <1>3, <1>4, <1>5, <1>7 DEF UnderWay, Vouches, q
<1>10. RequestShape'
  BY <1>8, <1>9 DEF RequestShape
<1>11. QED
  BY <1>1, <1>10, OnlyTheRequest

(* Its handler is looked up.                                               *)
LEMMA GetHandlerStep ==
  ASSUME IInv, GetHandler
  PROVE  IInv'
<1>1. /\ req.step = "lookup" /\ http[req.name] # NoBinding /\ UNCHANGED Served
      /\ req' = [req EXCEPT !.step = "handle", !.client = http[req.name]]
  BY DEF GetHandler
<1>2. req # Idle
  BY <1>1 DEF Idle
<1>3. /\ Live /\ Live' /\ FoundNow' = FoundNow /\ UNCHANGED <<declared, renamed>>
      /\ req \in Serving /\ UnderWay(req)
  BY <1>1, <1>2, RequestGoesOn
<1>4. req.place \in FoundNow /\ req.name = declared[req.place].name /\ req.name \in Names
  BY <1>3, DeclaredIsValid DEF UnderWay
<1> DEFINE client == http[req.name]
<1>5. client \in Binding /\ (req.name \notin renamed => client[1] = req.place)
  <2>1. Registry(http, OfHTTP(manifest), stage, manifest, launches, renamed)
    BY DEF IInv, RegistriesShape
  <2>2. OfHTTP(manifest) \in SUBSET Mods
    BY DEF OfHTTP
  <2>3. QED
    BY <1>1, <1>3, <1>4, <2>1, <2>2, BoundIsOwner
<1>6. /\ req'.step = "handle" /\ req'.place = req.place /\ req'.name = req.name
      /\ req'.ref = req.ref /\ req'.client = client /\ req'.consent = req.consent
  BY <1>1, <1>3 DEF Serving
<1>7. req' \in Serving
  BY <1>1, <1>3, <1>5 DEF Serving, Steps
<1> HIDE DEF client
<1>8. UnderWay(req)'
  BY <1>1, <1>3, <1>5, <1>6 DEF UnderWay, Vouches
<1>9. RequestShape'
  BY <1>7, <1>8 DEF RequestShape
<1>10. QED
  BY <1>1, <1>9, OnlyTheRequest

(* It answers.                                                             *)
LEMMA AnswerStep ==
  ASSUME IInv, Answer
  PROVE  IInv'
<1>1. /\ req.step \in {"handle", "tool"} /\ UNCHANGED Served
      /\ req' = [req EXCEPT !.step = "done"]
  BY DEF Answer
<1>2. req # Idle
  BY <1>1 DEF Idle
<1>3. /\ Live /\ Live' /\ FoundNow' = FoundNow /\ UNCHANGED <<declared, renamed>>
      /\ req \in Serving /\ UnderWay(req)
  BY <1>1, <1>2, RequestGoesOn
<1>4. /\ req'.step = "done" /\ req'.place = req.place /\ req'.name = req.name
      /\ req'.ref = req.ref /\ req'.client = req.client /\ req'.consent = req.consent
  BY <1>1, <1>3 DEF Serving
<1>5. req' \in Serving
  BY <1>1, <1>3 DEF Serving, Steps
<1>6. UnderWay(req)'
  BY <1>1, <1>3, <1>4 DEF UnderWay, Vouches
<1>7. RequestShape'
  BY <1>5, <1>6 DEF RequestShape
<1>8. QED
  BY <1>1, <1>7, OnlyTheRequest

(* It ends.                                                                *)
LEMMA EndRequestStep ==
  ASSUME IInv, EndRequest
  PROVE  IInv'
<1>1. UNCHANGED Served /\ req' = Idle
  BY DEF EndRequest
<1>2. Idle \in Serving
  BY DEF Idle, Serving, Steps, Binding, Refs
<1>3. RequestShape'
  BY <1>1, <1>2 DEF RequestShape
<1>4. QED
  BY <1>1, <1>3, OnlyTheRequest
-----------------------------------------------------------------------------
(* The invariant.                                                          *)

(* It holds when the daemon has not started.                               *)
LEMMA InitIsSound == Init => IInv
<1> SUFFICES ASSUME Init
             PROVE  IInv
  OBVIOUS
<1>1. disk \in Setups /\ disk = [p \in Mods |-> disk[p]]
  BY SetupsAssumption DEF Init
<1>2. disk \in [Mods -> Manifest]
  <2>1. \A p \in Mods : disk[p] \in Manifest
    BY <1>1 DEF Manifest
  <2>2. QED
    BY <1>1, <2>1
<1>3. /\ daemon = "off" /\ ~Live /\ req = Idle /\ gateway = "off" /\ renamed = {}
      /\ \A p \in Mods : /\ scanned[p] = Gone /\ stage[p] = "end" /\ proc[p] = "none"
                         /\ launches[p] = 0
  BY DEF Init, Live
<1>4. NoBinding \in Binding /\ Idle \in Serving
  BY DEF Idle, Serving, Steps, Binding, Refs
<1>5. TypeOK
  <2>1. /\ http = [n \in Names |-> NoBinding] /\ mcp = [n \in Names |-> NoBinding]
        /\ events = [n \in Names |-> NoBinding]
    BY DEF Init
  <2>2. \A r \in {http, mcp, events} : r \in [Names -> Binding]
    BY <2>1, <1>4
  <2>3. req.step = "idle" /\ req.place = NoPlace /\ req.consent = NoPlace /\ req.client \in Binding
    BY <1>3, <1>4 DEF Idle
  <2>4. faults \in 0..MaxFaults /\ edits \in 0..MaxEdits
    BY BoundsAssumption DEF Init
  <2>5. launches \in [Mods -> 0..(MaxFaults + 1)]
    BY BoundsAssumption DEF Init
  <2>6. overlays \in BOOLEAN
    BY DEF Init
  <2>7. QED
    BY <1>2, <1>3, <2>2, <2>3, <2>4, <2>5, <2>6 DEF Init, TypeOK, Supervisor
<1>6. ScanShape
  BY <1>1, <1>3 DEF ScanShape, FoundNow, Found, Mods
<1>7. TableShape /\ LifeShape /\ StageShape /\ RequestShape
  BY <1>3, <1>4 DEF TableShape, LifeShape, StageShape, Started, RequestShape
<1>8. LaunchShape
  BY <1>3 DEF LaunchShape, Init
<1>9. RegistriesShape
  BY <1>3, <1>4 DEF Init, RegistriesShape, Registry, Leads, Reached, BoundStage,
                    OfHTTP, OfMCP, OfEvents
<1>10. QED
  BY <1>5, <1>6, <1>7, <1>8, <1>9 DEF IInv

(* Every step keeps it.                                                    *)
LEMMA StepIsSound == IInv /\ [Next]_vars => IInv'
<1> SUFFICES ASSUME IInv, [Next]_vars
             PROVE  IInv'
  OBVIOUS
<1>1. ASSUME NEW p \in Mods, Supervision(p)
      PROVE  IInv'
  BY <1>1, SuperviseStep, StartStep, StartFailsStep, RegisterStep, RunEndsStep, LeaveStep,
     CloseStep, RestartStep, GiveUpStep DEF Supervision
<1>2. ASSUME NEW p \in Mods, GetsReady(p) \/ Dies(p) \/ RunReturns(p)
      PROVE  IInv'
  BY <1>2, GetsReadyStep, DiesStep, RunReturnsStep
<1>3. ASSUME \E p \in Dirs : \E m \in Versions[p] : Edit(p, m)
      PROVE  IInv'
  BY <1>3, EditStep
<1>4. ASSUME \E c \in Commanded, p, q \in Mods : StartCommand(c, p, q)
      PROVE  IInv'
  BY <1>4, StartCommandStep
<1>5. ASSUME Discover \/ EndCommand \/ Launch \/ Refuse \/ Stop \/ Exit
      PROVE  IInv'
  BY <1>5, DiscoverStep, EndCommandStep, LaunchStep, RefuseStep, StopStep, ExitStep
<1>6. ASSUME \/ \E r \in Requests : Request(r)
             \/ \E p \in Mods, t \in Tooled : CallTool(p, t)
      PROVE  IInv'
  BY <1>6, RequestStep, CallToolStep
<1>7. ASSUME GetValidator \/ Allow \/ GetHandler \/ Answer \/ EndRequest
      PROVE  IInv'
  BY <1>7, GetValidatorStep, AllowStep, GetHandlerStep, AnswerStep, EndRequestStep
<1>8. ASSUME UNCHANGED vars
      PROVE  IInv'
  <2>1. UNCHANGED Served /\ RequestShape'
    BY <1>8, RequestKept
       DEF vars, Served, tables, registries, bounds, IInv, Live
  <2>2. QED
    BY <2>1, OnlyTheRequest
<1>9. QED
  BY <1>1, <1>2, <1>3, <1>4, <1>5, <1>6, <1>7, <1>8 DEF Next

(* The inductive invariant holds in every state that the daemon reaches.   *)
THEOREM HostInvariant == Spec => []IInv
<1>1. QED
  BY InitIsSound, StepIsSound, PTL DEF Spec

-----------------------------------------------------------------------------
(* What the runs check.                                                    *)

(* Every variable keeps its type; in particular a module is launched at    *)
(* most once more than there are faults: no supervisor starts a process    *)
(* while its last one has nothing wrong with it.                           *)
THEOREM HostTypesCorrect == Spec => []TypeOK
<1>1. IInv => TypeOK
  BY DEF IInv
<1>2. QED
  BY <1>1, HostInvariant, PTL

(* Supervisors and registries (StartSource): a binding leads to the last   *)
(* process of a module that runs under that name, for any number of        *)
(* restarts, faults and changes of the manifests on the disk.              *)
THEOREM BindingsAreOfTheLatest == Spec => []LatestBinding
<1>1. ASSUME IInv
      PROVE  LatestBinding
  <2> SUFFICES ASSUME NEW r \in {http, mcp, events}, NEW n \in Names, r[n] # NoBinding
               PROVE  /\ r[n][2] = launches[r[n][1]]
                      /\ stage[r[n][1]] \in {"run", "leave"}
                      /\ manifest[r[n][1]].name = n
    BY DEF LatestBinding
  <2>1. \E kind : Leads(r, kind, stage, manifest, launches)
    BY <1>1 DEF IInv, RegistriesShape, Registry
  <2>2. PICK p : r[n] = <<p, launches[p]>> /\ stage[p] \in BoundStage /\ manifest[p].name = n
    BY <2>1 DEF Leads
  <2>3. QED
    BY <2>2 DEF BoundStage
<1>2. QED
  BY <1>1, HostInvariant, PTL

(* A module that runs under a name of its own is bound in every registry   *)
(* that its manifest asks for.                                             *)
THEOREM RunningModulesAreBound == Spec => []RunningIsBound
<1>1. ASSUME IInv
      PROVE  RunningIsBound
  <2> SUFFICES ASSUME NEW p \in Mods, stage[p] = "run", manifest[p].name \notin renamed
               PROVE  LET m == manifest[p] IN
                        /\ m.routes # <<>> \/ m.validators # {} => http[m.name] = <<p, launches[p]>>
                        /\ m.tools # {} => mcp[m.name] = <<p, launches[p]>>
                        /\ m.consumes # {} => events[m.name] = <<p, launches[p]>>
    BY DEF RunningIsBound
  <2>1. Parses(manifest[p]) /\ stage[p] \in BoundStage
    BY <1>1 DEF IInv, StageShape, Started, BoundStage
  <2>2. /\ Reached(http, OfHTTP(manifest), stage, manifest, launches, renamed)
        /\ Reached(mcp, OfMCP(manifest), stage, manifest, launches, renamed)
        /\ Reached(events, OfEvents(manifest), stage, manifest, launches, renamed)
    BY <1>1 DEF IInv, RegistriesShape, Registry
  <2>3. ASSUME manifest[p].routes # <<>> \/ manifest[p].validators # {}
        PROVE  http[manifest[p].name] = <<p, launches[p]>>
    <3>1. p \in OfHTTP(manifest)
      BY <2>1, <2>3 DEF OfHTTP, InHTTP, HasRoutes, HasAuth
    <3>2. QED
      BY <2>1, <2>2, <3>1 DEF Reached
  <2>4. ASSUME manifest[p].tools # {}
        PROVE  mcp[manifest[p].name] = <<p, launches[p]>>
    <3>1. p \in OfMCP(manifest)
      BY <2>1, <2>4 DEF OfMCP, InMCP, HasTools
    <3>2. QED
      BY <2>1, <2>2, <3>1 DEF Reached
  <2>5. ASSUME manifest[p].consumes # {}
        PROVE  events[manifest[p].name] = <<p, launches[p]>>
    <3>1. p \in OfEvents(manifest)
      BY <2>1, <2>5, ConsumersAreRouted DEF OfEvents
    <3>2. QED
      BY <2>1, <2>2, <3>1 DEF Reached
  <2>6. QED
    BY <2>3, <2>4, <2>5
<1>2. QED
  BY <1>1, HostInvariant, PTL

(* Gateway.handle: an answer comes from the module that declared the route *)
(* or the tool, and a route with a validator was allowed by a module that  *)
(* declared that validator.                                                *)
THEOREM AnsweredByTheOwner == Spec => []ServedByOwner
<1>1. ASSUME IInv
      PROVE  ServedByOwner
  <2> SUFFICES ASSUME req.step = "done"
               PROVE  /\ req.name \notin renamed => req.client[1] = req.place
                      /\ req.ref # NoValidator =>
                           /\ req.consent # NoPlace
                           /\ req.ref.module \notin renamed =>
                                /\ req.ref.module = declared[req.consent].name
                                /\ req.ref.capability \in declared[req.consent].validators
    BY DEF ServedByOwner
  <2>1. req # Idle
    BY DEF Idle
  <2>2. UnderWay(req)
    BY <1>1, <2>1 DEF IInv, RequestShape
  <2>3. req.name \notin renamed => req.client[1] = req.place
    BY <2>2 DEF UnderWay
  <2>4. req.ref # NoValidator => req.consent \in Mods /\ Vouches(req, req.consent)
    BY <2>2 DEF UnderWay
  <2>5. QED
    BY <2>3, <2>4, NothingAssumption DEF Vouches
<1>2. QED
  BY <1>1, HostInvariant, PTL

(* No process and no settings file is left when the daemon has exited, and *)
(* no process is without its settings file before.                         *)
THEOREM ExitIsClean == Spec => []CleanExit
<1>1. ASSUME IInv
      PROVE  CleanExit
  <2>1. LifeShape
    BY <1>1 DEF IInv
  <2>2. ASSUME NEW p \in Mods, proc[p] # "none"
        PROVE  daemon = "command" \/ Live
    BY <2>1, <2>2 DEF LifeShape, Started
  <2>3. daemon = "exited" => overlays = FALSE /\ \A p \in Mods : proc[p] = "none"
    BY <2>1, <2>2 DEF LifeShape, Live
  <2>4. \A p \in Mods : proc[p] # "none" => overlays = TRUE
    BY <2>1, <2>2 DEF LifeShape
  <2>5. QED
    BY <2>3, <2>4 DEF CleanExit
<1>2. QED
  BY <1>1, HostInvariant, PTL

-----------------------------------------------------------------------------
(* What the router relies on.                                              *)

(* No module that takes events runs under a name that was taken since the  *)
(* scan: under it, two modules delete each other's bindings.               *)
EventNamesKept ==
  \A p \in Mods : (stage[p] \in Started /\ InEvents(manifest[p])) => manifest[p].name \notin renamed

(* Whom the event registry leads to.                                       *)
LEMMA EventsLead ==
  ASSUME IInv, NEW n \in Names, events[n] # NoBinding
  PROVE  \E c \in OfEvents(manifest) :
           events[n] = <<c, launches[c]>> /\ stage[c] \in BoundStage /\ manifest[c].name = n
  BY DEF IInv, RegistriesShape, Registry, Leads

(* The status that the promise is about: dead, or about to be unbound.     *)
Failing(p) == proc[p] = "dead" \/ stage[p] = "leave"

(* A step that binds nothing and lets no module fail is not seen.          *)
LEMMA QuietStep ==
  ASSUME IInv, EventUp, EventUp', UNCHANGED events,
         \A p \in OfEvents(manifest) : stage[p] \in BoundStage => (Failing(p)' <=> Failing(p))
  PROVE  UNCHANGED H!vars
<1>1. EventBound' = EventBound
  BY DEF EventBound
<1>2. ASSUME NEW n \in EventBound
      PROVE  Failing(events[n][1])' <=> Failing(events[n][1])
  <2>1. n \in Names /\ events[n] # NoBinding
    BY DEF EventBound
  <2>2. PICK c \in OfEvents(manifest) : events[n] = <<c, launches[c]>> /\ stage[c] \in BoundStage
    BY <2>1, EventsLead
  <2>3. events[n][1] = c /\ events'[n][1] = c
    BY <2>2
  <2>4. QED
    BY <2>2, <2>3 DEF Failing
<1>3. EventBroken = {n \in EventBound : Failing(events[n][1])}
  BY DEF EventBroken, Failing
<1>4. EventBroken' = {n \in EventBound : Failing(events[n][1])'}
  BY <1>1 DEF EventBroken, Failing
<1>5. EventBroken' = EventBroken
  BY <1>2, <1>3, <1>4
<1>6. QED
  BY <1>1, <1>5 DEF H!vars

(* One module fails: it dies under its binding, or is not bound.           *)
LEMMA FailureIsDeath ==
  ASSUME IInv, EventUp, EventUp', UNCHANGED events,
         NEW q \in Mods, ~Failing(q), Failing(q)',
         \A p \in Mods : p # q => (Failing(p)' <=> Failing(p))
  PROVE  [H!Next]_H!vars
<1>1. EventBound' = EventBound
  BY DEF EventBound
<1>2. ASSUME NEW n \in EventBound
      PROVE  /\ events[n][1] \in Mods /\ manifest[events[n][1]].name = n
             /\ events[n][1] # q => (Failing(events[n][1])' <=> Failing(events[n][1]))
  <2>1. n \in Names /\ events[n] # NoBinding
    BY DEF EventBound
  <2>2. PICK c \in OfEvents(manifest) : events[n] = <<c, launches[c]>> /\ manifest[c].name = n
    BY <2>1, EventsLead
  <2>3. events[n][1] = c /\ events'[n][1] = c /\ c \in Mods
    BY <2>2 DEF OfEvents
  <2>4. QED
    BY <2>2, <2>3 DEF Failing
<1>3. EventBroken = {n \in EventBound : Failing(events[n][1])}
  BY DEF EventBroken, Failing
<1>4. EventBroken' = {n \in EventBound : Failing(events[n][1])'}
  BY <1>1 DEF EventBroken, Failing
<1>5. CASE \E n \in EventBound : events[n][1] = q
  <2>1. PICK n \in EventBound : events[n][1] = q
    BY <1>5
  <2>2. n \in Names /\ n \notin EventBroken
    BY <2>1, <1>3 DEF EventBound
  <2>3. \A k \in EventBound : events[k][1] = q => k = n
    BY <2>1, <1>2
  <2>4. Failing(events[n][1])'
    BY <2>1 DEF Failing
  <2>5. EventBroken' = EventBroken \cup {n}
    BY <1>2, <1>3, <1>4, <2>1, <2>3, <2>4
  <2>6. H!ModuleDies(n)
    BY <1>1, <2>1, <2>2, <2>5 DEF H!ModuleDies
  <2>7. QED
    BY <2>2, <2>6 DEF H!Next
<1>6. CASE \A n \in EventBound : events[n][1] # q
  <2>1. EventBroken' = EventBroken
    BY <1>2, <1>3, <1>4, <1>6
  <2>2. QED
    BY <1>1, <2>1 DEF H!vars
<1>7. QED
  BY <1>5, <1>6

(* The daemon starts with an empty registry.                               *)
LEMMA LaunchIsStart ==
  ASSUME IInv, Launch
  PROVE  H!Start
<1>1. daemon = "found" /\ daemon' = "up" /\ UNCHANGED events /\ ~Live
  BY DEF Launch, registries, Live
<1>2. \A n \in Names : events[n] = NoBinding
  <2> SUFFICES ASSUME NEW n \in Names, events[n] # NoBinding
               PROVE  FALSE
    OBVIOUS
  <2>1. PICK c \in OfEvents(manifest) : stage[c] \in BoundStage
    BY EventsLead
  <2>2. QED
    BY <1>1, <2>1 DEF IInv, LifeShape, OfEvents, BoundStage
<1>3. ~EventUp /\ EventUp' /\ EventBound = {} /\ EventBound' = {}
  BY <1>1, <1>2 DEF EventUp, EventBound
<1>4. EventBroken = {} /\ EventBroken' = {}
  BY <1>3 DEF EventBroken
<1>5. QED
  BY <1>3, <1>4 DEF H!Start

(* A module that takes events is bound under a name that nobody has.       *)
LEMMA RegisterIsRegister ==
  ASSUME IInv, EventNamesKept, EventUp, NEW p \in Mods, RegisterModule(p)
  PROVE  [H!Next]_H!vars
<1>1. /\ stage[p] = "register" /\ stage' = [stage EXCEPT ![p] = "run"]
      /\ UNCHANGED <<daemon, manifest, proc, launches>>
      /\ events' = IF InEvents(manifest[p]) THEN Bind(events, p) ELSE events
  BY DEF RegisterModule
<1>2. EventUp'
  BY <1>1 DEF EventUp
<1>3. stage \in [Mods -> Supervisor] /\ events \in [Names -> Binding] /\ launches[p] \in Nat
  BY BoundsAssumption DEF IInv, TypeOK
<1>4. \A q \in Mods : q # p => (Failing(q)' <=> Failing(q))
  BY <1>1, <1>3 DEF Failing
<1>5. CASE ~InEvents(manifest[p])
  <2>1. \A q \in OfEvents(manifest) : q # p /\ q \in Mods
    BY <1>5 DEF OfEvents
  <2>2. UNCHANGED H!vars
    BY <1>1, <1>2, <1>4, <1>5, <2>1, QuietStep
  <2>3. QED
    BY <2>2
<1>6. CASE InEvents(manifest[p])
  <2> DEFINE n == manifest[p].name
  <2>1. n \in Names
    BY <1>1, ValidManifests DEF IInv, StageShape, Started
  <2>2. n \notin renamed
    BY <1>1, <1>6 DEF EventNamesKept, Started
  <2>3. events[n] = NoBinding
    <3> SUFFICES ASSUME events[n] # NoBinding
                 PROVE  FALSE
      OBVIOUS
    <3>1. PICK c \in OfEvents(manifest) : stage[c] \in BoundStage /\ manifest[c].name = n
      BY <2>1, EventsLead
    <3>2. c \in Mods /\ c # p /\ stage[c] \in Started /\ stage[p] \in Started
      BY <1>1, <3>1 DEF OfEvents, BoundStage, Started
    <3>3. QED
      BY <2>2, <3>1, <3>2, NamesAreTaken DEF IInv
  <2>4. events' = [events EXCEPT ![n] = <<p, launches[p]>>]
    BY <1>1, <1>6 DEF Bind
  <2>5. <<p, launches[p]>> # NoBinding
    BY <1>3, NothingAssumption
  <2> HIDE DEF n
  <2>6. events'[n] = <<p, launches[p]>> /\ \A k \in Names : k # n => events'[k] = events[k]
    BY <1>3, <2>1, <2>4
  <2>7. EventBound' = EventBound \cup {n} /\ n \notin EventBound
    BY <1>2, <2>1, <2>3, <2>5, <2>6 DEF EventBound
  <2>8. EventBroken = {k \in EventBound : Failing(events[k][1])}
    BY DEF EventBroken, Failing
  <2>9. EventBroken' = {k \in EventBound' : Failing(events[k][1])'}
    BY DEF EventBroken, Failing
  <2>10. ASSUME NEW k \in EventBound
         PROVE  Failing(events[k][1])' <=> Failing(events[k][1])
    <3>1. k \in Names /\ events[k] # NoBinding /\ k # n
      BY <2>7 DEF EventBound
    <3>2. PICK c \in OfEvents(manifest) : events[k] = <<c, launches[c]>> /\ stage[c] \in BoundStage
      BY <3>1, EventsLead
    <3>3. c \in Mods /\ c # p /\ events[k][1] = c /\ events'[k][1] = c
      BY <1>1, <2>6, <3>1, <3>2 DEF OfEvents, BoundStage
    <3>4. QED
      BY <1>4, <3>3 DEF Failing
  <2>11. EventBroken' \in {EventBroken, EventBroken \cup {n}}
    BY <2>7, <2>8, <2>9, <2>10
  <2>12. H!Register(n)
    BY <1>2, <2>7, <2>11 DEF H!Register
  <2>13. QED
    BY <2>1, <2>12 DEF H!Next
<1>7. QED
  BY <1>5, <1>6

(* While the daemon is up, a module that takes events is only unbound      *)
(* after it has failed, and only if the supervisor can see it fail.        *)
LEMMA LeaveIsUnregister ==
  ASSUME IInv, EventNamesKept, EventUp, NEW p \in Mods, Leave(p)
  PROVE  [H!Next]_H!vars
<1>1. /\ stage[p] = "leave" /\ stage' = [stage EXCEPT ![p] = "close"]
      /\ UNCHANGED <<daemon, manifest, proc, launches>>
      /\ events' = IF InEvents(manifest[p]) THEN Unbind(events, p) ELSE events
  BY DEF Leave
<1>2. EventUp'
  BY <1>1 DEF EventUp
<1>3. stage \in [Mods -> Supervisor] /\ events \in [Names -> Binding] /\ launches[p] \in Nat
  BY BoundsAssumption DEF IInv, TypeOK
<1>4. \A q \in Mods : q # p => (Failing(q)' <=> Failing(q))
  BY <1>1, <1>3 DEF Failing
<1>5. CASE ~InEvents(manifest[p])
  <2>1. \A q \in OfEvents(manifest) : q # p /\ q \in Mods
    BY <1>5 DEF OfEvents
  <2>2. UNCHANGED H!vars
    BY <1>1, <1>2, <1>4, <1>5, <2>1, QuietStep
  <2>3. QED
    BY <2>2
<1>6. CASE InEvents(manifest[p])
  <2> DEFINE n == manifest[p].name
  <2>1. manifest[p] \in Manifest /\ Parses(manifest[p]) /\ n \in Names
    BY <1>1, ValidManifests DEF IInv, StageShape, Started
  <2>2. n \notin renamed
    BY <1>1, <1>6 DEF EventNamesKept, Started
  <2>3. events[n] = <<p, launches[p]>>
    <3>1. p \in OfEvents(manifest) /\ stage[p] \in BoundStage
      BY <1>1, <1>6, <2>1 DEF OfEvents, BoundStage
    <3>2. Reached(events, OfEvents(manifest), stage, manifest, launches, renamed)
      BY DEF IInv, RegistriesShape, Registry
    <3>3. QED
      BY <2>2, <3>1, <3>2 DEF Reached
  <2>4. SeesExit(manifest[p])
    BY <1>1 DEF IInv, LaunchShape, EventUp
  <2>5. n \in SeenToExit
    BY <1>6, <2>1, <2>4, SeenAssumption
  <2>6. events' = [events EXCEPT ![n] = NoBinding]
    BY <1>1, <1>6 DEF Unbind
  <2>7. events[n] # NoBinding
    BY <1>3, <2>3, NothingAssumption
  <2> HIDE DEF n
  <2>8. events'[n] = NoBinding /\ \A k \in Names : k # n => events'[k] = events[k]
    BY <1>3, <2>1, <2>6
  <2>9. n \in EventBound /\ n \in EventBroken
    BY <1>1, <2>1, <2>3, <2>7 DEF EventBound, EventBroken
  <2>10. EventBound' = EventBound \ {n}
    BY <1>2, <2>8 DEF EventBound, EventUp
  <2>11. EventBroken = {k \in EventBound : Failing(events[k][1])}
    BY DEF EventBroken, Failing
  <2>12. EventBroken' = {k \in EventBound' : Failing(events[k][1])'}
    BY DEF EventBroken, Failing
  <2>13. ASSUME NEW k \in EventBound'
         PROVE  Failing(events[k][1])' <=> Failing(events[k][1])
    <3>1. k \in Names /\ events[k] # NoBinding /\ k # n
      BY <2>10 DEF EventBound
    <3>2. PICK c \in OfEvents(manifest) :
            events[k] = <<c, launches[c]>> /\ stage[c] \in BoundStage /\ manifest[c].name = k
      BY <3>1, EventsLead
    <3>3. c \in Mods /\ c # p /\ events[k][1] = c /\ events'[k][1] = c
      BY <2>8, <3>1, <3>2 DEF OfEvents, n
    <3>4. QED
      BY <1>4, <3>3 DEF Failing
  <2>14. EventBroken' = EventBroken \ {n}
    BY <2>10, <2>11, <2>12, <2>13
  <2>15. H!Unregister(n)
    BY <1>2, <2>5, <2>9, <2>10, <2>14 DEF H!Unregister
  <2>16. QED
    BY <2>1, <2>15 DEF H!Next
<1>7. QED
  BY <1>5, <1>6

(* Every step of the daemon is a step of Hosting, or one that the event    *)
(* registry does not show.                                                 *)
LEMMA StepIsHosted ==
  ASSUME IInv, EventNamesKept, [Next]_vars
  PROVE  [H!Next]_H!vars
<1>1. CASE ~EventUp'
  <2>1. EventBound' = {} /\ EventBroken' = {}
    BY <1>1 DEF EventBound, EventBroken
  <2>2. H!Stop
    BY <1>1, <2>1 DEF H!Stop
  <2>3. QED
    BY <2>2 DEF H!Next
<1>2. CASE ~EventUp /\ EventUp'
  <2>1. daemon # "up" /\ daemon' = "up"
    BY <1>2 DEF EventUp
  <2>2. ASSUME NEW p \in Mods, Supervision(p) \/ GetsReady(p) \/ Dies(p) \/ RunReturns(p)
        PROVE  FALSE
    BY <2>1, <2>2
       DEF Supervision, Supervise, Start, StartFails, RegisterModule, RunEnds, Leave, Close,
           Restart, GiveUp, GetsReady, Dies, RunReturns
  <2>3. /\ ~\E p \in Dirs : \E m \in Versions[p] : Edit(p, m)
        /\ ~\E c \in Commanded, p, q \in Mods : StartCommand(c, p, q)
        /\ ~\E r \in Requests : Request(r)
        /\ ~\E p \in Mods, t \in Tooled : CallTool(p, t)
    BY <2>1 DEF Edit, StartCommand, Request, CallTool
  <2>4. ~Discover /\ ~EndCommand /\ ~Refuse /\ ~Stop /\ ~Exit
    BY <2>1 DEF Discover, EndCommand, Refuse, Stop, Exit
  <2>5. ~(GetValidator \/ Allow \/ GetHandler \/ Answer \/ EndRequest) /\ ~(UNCHANGED vars)
    BY <2>1 DEF GetValidator, Allow, GetHandler, Answer, EndRequest, Served, vars
  <2>6. Launch
    BY <2>2, <2>3, <2>4, <2>5 DEF Next
  <2>7. QED
    BY <2>6, LaunchIsStart DEF H!Next
<1>3. ASSUME EventUp, EventUp'
      PROVE  [H!Next]_H!vars
  <2>1. /\ daemon = "up" /\ daemon' = "up" /\ stage \in [Mods -> Supervisor]
        /\ proc \in [Mods -> {"none", "up", "ready", "dead"}]
        /\ OfEvents(manifest) \subseteq Mods
    BY <1>3 DEF EventUp, IInv, TypeOK, OfEvents
  <2>2. ASSUME UNCHANGED <<stage, proc, registries>>
        PROVE  UNCHANGED H!vars
    BY <1>3, <2>2, QuietStep DEF Failing, registries
  <2>3. ASSUME NEW p \in Dirs, NEW m \in Versions[p], Edit(p, m)
        PROVE  UNCHANGED H!vars
    BY <2>2, <2>3 DEF Edit
  <2>4. ~Discover /\ ~EndCommand /\ ~Refuse /\ ~Stop /\ ~Exit /\ ~Launch
    BY <2>1 DEF Discover, EndCommand, Refuse, Stop, Exit, Launch
  <2>5. ~\E c \in Commanded, p, q \in Mods : StartCommand(c, p, q)
    BY <2>1 DEF StartCommand
  <2>6. ASSUME \/ \E r \in Requests : Request(r)
               \/ \E p \in Mods, t \in Tooled : CallTool(p, t)
        PROVE  UNCHANGED H!vars
    BY <2>2, <2>6 DEF Request, CallTool
  <2>7. ASSUME GetValidator \/ Allow \/ GetHandler \/ Answer \/ EndRequest
        PROVE  UNCHANGED H!vars
    BY <2>2, <2>7 DEF GetValidator, Allow, GetHandler, Answer, EndRequest, Served
  <2>8. ASSUME NEW p \in Mods, Supervise(p) \/ StartFails(p) \/ Restart(p) \/ Close(p) \/ Start(p)
        PROVE  UNCHANGED H!vars
    <3>1. UNCHANGED events
      BY <2>8 DEF Supervise, StartFails, Restart, Close, Start, registries
    <3>2. stage[p] \in {"listed", "load", "backoff", "close"}
      BY <2>8 DEF Supervise, StartFails, Restart, Close, Start
    <3>3. \A q \in Mods : q # p => stage'[q] = stage[q] /\ proc'[q] = proc[q]
      BY <2>1, <2>8 DEF Supervise, StartFails, Restart, Close, Start
    <3>4. \A q \in OfEvents(manifest) : stage[q] \in BoundStage => (Failing(q)' <=> Failing(q))
      BY <2>1, <3>2, <3>3 DEF Failing, BoundStage
    <3>5. QED
      BY <1>3, <3>1, <3>4, QuietStep
  <2>9. ASSUME NEW p \in Mods, GetsReady(p) \/ RunEnds(p)
        PROVE  UNCHANGED H!vars
    <3>1. UNCHANGED events
      BY <2>9 DEF GetsReady, RunEnds, registries
    <3>2. \A q \in Mods : q # p => stage'[q] = stage[q] /\ proc'[q] = proc[q]
      BY <2>1, <2>9 DEF GetsReady, RunEnds
    <3>3. Failing(p)' <=> Failing(p)
      BY <2>1, <2>9 DEF GetsReady, RunEnds, Failing
    <3>4. \A q \in OfEvents(manifest) : stage[q] \in BoundStage => (Failing(q)' <=> Failing(q))
      BY <2>1, <3>2, <3>3 DEF Failing
    <3>5. QED
      BY <1>3, <3>1, <3>4, QuietStep
  <2>10. ASSUME NEW p \in Mods, Dies(p) \/ RunReturns(p)
         PROVE  [H!Next]_H!vars
    <3>1. UNCHANGED events
      BY <2>10 DEF Dies, RunReturns, registries
    <3>2. \A q \in Mods : q # p => (Failing(q)' <=> Failing(q))
      BY <2>1, <2>10 DEF Dies, RunReturns, Failing
    <3>3. ~Failing(p) /\ Failing(p)'
      BY <2>1, <2>10 DEF Dies, RunReturns, Failing
    <3>4. QED
      BY <1>3, <3>1, <3>2, <3>3, FailureIsDeath
  <2>11. ASSUME NEW p \in Mods, RegisterModule(p) \/ Leave(p)
         PROVE  [H!Next]_H!vars
    BY <1>3, <2>11, RegisterIsRegister, LeaveIsUnregister
  <2>12. ASSUME NEW p \in Mods, GiveUp(p)
         PROVE  FALSE
    BY <2>1, <2>12 DEF GiveUp
  <2>13. ASSUME NEW p \in Mods, Supervision(p) \/ GetsReady(p) \/ Dies(p) \/ RunReturns(p)
         PROVE  [H!Next]_H!vars
    BY <2>8, <2>9, <2>10, <2>11, <2>12, <2>13 DEF Supervision
  <2>14. ASSUME UNCHANGED vars
         PROVE  UNCHANGED H!vars
    BY <2>2, <2>14 DEF vars, registries
  <2>15. QED
    BY <2>3, <2>4, <2>5, <2>6, <2>7, <2>13, <2>14 DEF Next
<1>4. QED
  BY <1>1, <1>2, <1>3

(* The module host keeps the promises of Hosting, on which the router's    *)
(* proofs rest, as long as no module that takes events runs under a name   *)
(* that was taken since the scan.                                          *)
THEOREM HostImplementsHosting == (Spec /\ []EventNamesKept) => ImplementsHosting
<1>1. ASSUME Init
      PROVE  H!Init
  <2>1. ~EventUp
    BY <1>1 DEF Init, EventUp
  <2>2. EventBound = {} /\ EventBroken = {}
    BY <2>1 DEF EventBound, EventBroken
  <2>3. QED
    BY <2>1, <2>2 DEF H!Init
<1>2. QED
  BY <1>1, HostInvariant, StepIsHosted, PTL DEF Spec, ImplementsHosting, H!Spec

(* A module never has two processes: a supervisor, and a command, only     *)
(* start one when the module's last process has been killed.               *)
OneProcess == \A p \in Mods : launches'[p] # launches[p] => proc[p] = "none"

THEOREM OneProcessAtATime == Spec => [][OneProcess]_vars
<1>1. ASSUME IInv, [Next]_vars
      PROVE  [OneProcess]_vars
  <2> SUFFICES ASSUME NEW p \in Mods, launches'[p] # launches[p]
               PROVE  proc[p] = "none"
    BY DEF OneProcess
  <2>1. launches \in [Mods -> 0..(MaxFaults + 1)]
    BY <1>1 DEF IInv, TypeOK
  <2>2. (\E q \in Mods : Start(q)) \/ \E c \in Commanded, q, r \in Mods : StartCommand(c, q, r)
    <3>1. ASSUME UNCHANGED launches
          PROVE  FALSE
      BY <3>1
    <3>2. ASSUME NEW q \in Mods,
                 \/ Supervise(q) \/ StartFails(q) \/ RegisterModule(q) \/ RunEnds(q) \/ Leave(q)
                 \/ Close(q) \/ Restart(q) \/ GiveUp(q) \/ GetsReady(q) \/ Dies(q) \/ RunReturns(q)
          PROVE  FALSE
      BY <3>1, <3>2 DEF Supervise, StartFails, RegisterModule, RunEnds, Leave, Close, Restart,
                        GiveUp, GetsReady, Dies, RunReturns
    <3>3. /\ ~\E q \in Dirs : \E m \in Versions[q] : Edit(q, m)
          /\ ~\E r \in Requests : Request(r)
          /\ ~\E q \in Mods, t \in Tooled : CallTool(q, t)
      BY <3>1 DEF Edit, Request, CallTool
    <3>4. ~Discover /\ ~EndCommand /\ ~Refuse /\ ~Stop /\ ~Exit /\ ~Launch
      BY <3>1 DEF Discover, EndCommand, Refuse, Stop, Exit, Launch
    <3>5. ~(GetValidator \/ Allow \/ GetHandler \/ Answer \/ EndRequest) /\ ~(UNCHANGED vars)
      BY <3>1 DEF GetValidator, Allow, GetHandler, Answer, EndRequest, Served, vars
    <3>6. QED
      BY <1>1, <3>2, <3>3, <3>4, <3>5 DEF Next, Supervision
  <2>3. ASSUME NEW q \in Mods, Start(q)
        PROVE  proc[p] = "none"
    <3>1. q = p
      BY <2>1, <2>3 DEF Start
    <3>2. stage[p] = "load" /\ daemon = "up"
      BY <2>3, <3>1 DEF Start
    <3>3. QED
      BY <1>1, <3>2 DEF IInv, LifeShape, Started
  <2>4. ASSUME NEW c \in Commanded, NEW q \in Mods, NEW r \in Mods, StartCommand(c, q, r)
        PROVE  proc[p] = "none"
    BY <1>1, <2>4 DEF StartCommand, IInv, LifeShape
  <2>5. QED
    BY <2>2, <2>3, <2>4
<1>2. QED
  BY <1>1, HostInvariant, PTL DEF Spec
=============================================================================

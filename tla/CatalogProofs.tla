---------------------------- MODULE CatalogProofs ----------------------------
(***************************************************************************)
(* Proofs about the type catalog that the daemon of ModuleHost builds at   *)
(* its start.  The catalog is two nested loops of Register, written as     *)
(* recursive functions; the lemmas say what each Register, each module's   *)
(* turn and each loop make of a catalog.                                   *)
(***************************************************************************)
EXTENDS HostProofs, LoopLemmas

-----------------------------------------------------------------------------
(* Everything that somebody declares, and the catalogs made of it.         *)
Lists(mods, man) == {<<Builtins, "builtin">>, <<UserTypes, "user">>}
                      \cup {<<man[p].types, man[p].name>> : p \in mods}
Declarations(mods, man) ==
  UNION {{Declaration(l[1][i], l[2]) : i \in DOMAIN l[1]} : l \in Lists(mods, man)}
Catalogs(mods, man) == (SUBSET Declarations(mods, man)) \cup {Broken}

(* What Register makes of a catalog is a catalog.                          *)
LEMMA RegisterType ==
  ASSUME NEW mods, NEW man, NEW c \in Catalogs(mods, man), NEW d \in Declarations(mods, man)
  PROVE  Register(c, d) \in Catalogs(mods, man)
<1>1. CASE Register(c, d) = Broken
  BY <1>1 DEF Catalogs
<1>2. CASE c # Broken /\ Register(c, d) = {prev \in c : prev.uri # d.uri} \cup {d}
  BY <1>2 DEF Catalogs
<1>3. QED
  BY <1>1, <1>2 DEF Register

(* One list of types: what is true of the catalog before it, and kept by   *)
(* each Register, is true after it.                                        *)
LEMMA RegisterAllKeeps ==
  ASSUME NEW types, Len(types) \in Nat, NEW source, NEW D, NEW catalog \in D,
         \A c \in D : \A i \in 1 .. Len(types) : Register(c, Declaration(types[i], source)) \in D,
         NEW J, catalog \in J[0],
         \A c \in D : \A i \in 1 .. Len(types) :
           c \in J[i - 1] => Register(c, Declaration(types[i], source)) \in J[i]
  PROVE  /\ RegisterAll(catalog, types, source) \in D
         /\ RegisterAll(catalog, types, source) \in J[Len(types)]
  <1> DEFINE n == Len(types)
             Tells(f) == f = [i \in 0 .. n |-> IF i = 0 THEN catalog
                                ELSE Register(f[i - 1], Declaration(types[i], source))]
             after == CHOOSE f : Tells(f)
             round == [i \in 1 .. n |-> [c \in D |-> Register(c, Declaration(types[i], source))]]
  <1>1. RegisterAll(catalog, types, source) = after[n]
    BY DEF RegisterAll
  <1>2. round \in Rounds(n, D)
    BY DEF Rounds
  <1>3. PICK f \in [0 .. n -> D] : Runs(f, n, catalog, round)
    <2>1. n \in Nat /\ catalog \in D
      OBVIOUS
    <2> HIDE DEF round, n
    <2> QED
      BY <1>2, <2>1, LoopExists
  <1>4. Tells(f)
    <2>1. \A i \in 1 .. n : i - 1 \in 0 .. n /\ f[i - 1] \in D
      OBVIOUS
    <2>2. \A i \in 1 .. n : f[i] = Register(f[i - 1], Declaration(types[i], source))
      BY <1>3, <2>1 DEF Runs
    <2>3. \A i \in 0 .. n : f[i] = IF i = 0 THEN catalog
                                   ELSE Register(f[i - 1], Declaration(types[i], source))
      <3>1. \A i \in 0 .. n : i # 0 => i \in 1 .. n
        OBVIOUS
      <3> QED
        BY <3>1, <2>2, <1>3 DEF Runs
    <2>4. f = [i \in 0 .. n |-> f[i]]
      OBVIOUS
    <2> QED
      BY <2>3, <2>4
  <1>5. Tells(after)
    <2> HIDE DEF Tells
    <2> QED
      BY <1>4
  <1> HIDE DEF after
  <1>6. after[0] = catalog
    <2>1. 0 \in 0 .. n
      OBVIOUS
    <2> QED
      BY <1>5, <2>1
  <1>7. \A i \in 1 .. n : after[i] = Register(after[i - 1], Declaration(types[i], source))
    <2>1. \A i \in 1 .. n : i \in 0 .. n /\ i # 0
      OBVIOUS
    <2> QED
      BY <1>5, <2>1
  <1> HIDE DEF Tells, round
  <1>8. after[n] \in D /\ after[n] \in J[n]
    <2> DEFINE S == {i \in 0 .. n : after[i] \in D /\ after[i] \in J[i]}
    <2>1. 0 \in S /\ \A i \in 1 .. n : i - 1 \in S => i \in S
      BY <1>6, <1>7
    <2>2. \A i \in 0 .. n : i \in S
      <3> HIDE DEF S
      <3> QED
        BY <2>1, EveryRound
    <2> QED
      BY <2>2
  <1> QED
    BY <1>1, <1>8

(* One module's turn in the loop of BuildCatalog.                          *)
Turn(c, i, mods, man) ==
  IF Places[i] \in mods THEN RegisterAll(c, man[Places[i]].types, man[Places[i]].name) ELSE c

(* The loop over the modules: what is true before it, and kept by each     *)
(* module's turn, is true after it.                                        *)
LEMMA RegisterModulesKeeps ==
  ASSUME NEW mods, NEW man, NEW D, NEW catalog \in D,
         \A c \in D : \A i \in 1 .. Len(Places) : Turn(c, i, mods, man) \in D,
         NEW J, catalog \in J[0],
         \A c \in D : \A i \in 1 .. Len(Places) :
           c \in J[i - 1] => Turn(c, i, mods, man) \in J[i]
  PROVE  RegisterModules(catalog, mods, man) \in J[Len(Places)]
  <1> DEFINE n == Len(Places)
             Tells(f) == f = [i \in 0 .. n |-> IF i = 0 THEN catalog
                                ELSE IF Places[i] \in mods
                                  THEN RegisterAll(f[i - 1], man[Places[i]].types, man[Places[i]].name)
                                  ELSE f[i - 1]]
             after == CHOOSE f : Tells(f)
             round == [i \in 1 .. n |-> [c \in D |-> Turn(c, i, mods, man)]]
  <1>0. n \in Nat
    BY PlacesAssumption
  <1>1. RegisterModules(catalog, mods, man) = after[n]
    BY DEF RegisterModules
  <1>2. round \in Rounds(n, D)
    BY DEF Rounds
  <1>3. PICK f \in [0 .. n -> D] : Runs(f, n, catalog, round)
    <2>1. n \in Nat /\ catalog \in D
      BY <1>0
    <2> HIDE DEF round, n
    <2> QED
      BY <1>2, <2>1, LoopExists
  <1>4. Tells(f)
    <2>1. \A i \in 1 .. n : i - 1 \in 0 .. n /\ f[i - 1] \in D
      BY <1>0
    <2>2. \A i \in 1 .. n : f[i] = Turn(f[i - 1], i, mods, man)
      BY <1>3, <2>1 DEF Runs
    <2>3. \A i \in 0 .. n : f[i] = IF i = 0 THEN catalog
                                   ELSE IF Places[i] \in mods
                                     THEN RegisterAll(f[i - 1], man[Places[i]].types, man[Places[i]].name)
                                     ELSE f[i - 1]
      <3>1. \A i \in 0 .. n : i # 0 => i \in 1 .. n
        BY <1>0
      <3> QED
        BY <3>1, <2>2, <1>3 DEF Runs, Turn
    <2>4. f = [i \in 0 .. n |-> f[i]]
      OBVIOUS
    <2> QED
      BY <2>3, <2>4
  <1>5. Tells(after)
    <2> HIDE DEF Tells
    <2> QED
      BY <1>4
  <1> HIDE DEF after
  <1>6. after[0] = catalog
    <2>1. 0 \in 0 .. n
      BY <1>0
    <2> QED
      BY <1>5, <2>1
  <1>7. \A i \in 1 .. n : after[i] = Turn(after[i - 1], i, mods, man)
    <2>1. \A i \in 1 .. n : i \in 0 .. n /\ i # 0
      BY <1>0
    <2> QED
      BY <1>5, <2>1 DEF Turn
  <1> HIDE DEF Tells, round
  <1>8. after[n] \in J[n]
    <2> DEFINE S == {i \in 0 .. n : after[i] \in D /\ after[i] \in J[i]}
    <2>1. 0 \in S
      BY <1>0, <1>6
    <2>2. ASSUME NEW i \in 1 .. n, i - 1 \in S PROVE i \in S
      <3>1. after[i - 1] \in D /\ after[i - 1] \in J[i - 1] /\ i \in 0 .. n
        BY <2>2, <1>0
      <3> QED
        BY <3>1, <1>7
    <2>3. \A i \in 0 .. n : i \in S
      <3> HIDE DEF S
      <3> QED
        BY <2>1, <2>2, <1>0, EveryRound
    <2> QED
      BY <2>3, <1>0
  <1> QED
    BY <1>1, <1>8

-----------------------------------------------------------------------------
(* What the modules declare.                                               *)
ModuleDeclared(mods, man) ==
  UNION {{Declaration(man[p].types[i], man[p].name) : i \in DOMAIN man[p].types} : p \in mods}

(* No module of the name "user" declares the type, and no two of its       *)
(* declarations by one source differ.                                      *)
Clear(uri, mods, man) ==
  /\ \A d \in ModuleDeclared(mods, man) : d.uri = uri => d.source # "user"
  /\ \A d, e \in ModuleDeclared(mods, man) :
       (d.uri = uri /\ e.uri = uri /\ d.source = e.source) => d.schema = e.schema

(* The catalogs that have the type with this schema from a module; and     *)
(* those that have it with this schema or from the user.                   *)
Holding(uri, schema, mods, man) ==
  {c \in Catalogs(mods, man) :
     c = Broken \/ \E e \in c : e \in ModuleDeclared(mods, man) /\ e.uri = uri /\ e.schema = schema}
Agreeing(uri, schema, mods, man) ==
  {c \in Catalogs(mods, man) :
     c = Broken \/ \E e \in c : e.uri = uri /\ (e.source = "user" \/ e.schema = schema)}

LEMMA ModuleIsDeclared ==
  ASSUME NEW mods, NEW man, NEW d \in ModuleDeclared(mods, man)
  PROVE  d \in Declarations(mods, man)
<1>1. PICK p \in mods : \E i \in DOMAIN man[p].types : d = Declaration(man[p].types[i], man[p].name)
  BY DEF ModuleDeclared
<1>2. <<man[p].types, man[p].name>> \in Lists(mods, man)
  BY DEF Lists
<1> DEFINE l == <<man[p].types, man[p].name>>
<1>3. l[1] = man[p].types /\ l[2] = man[p].name
  OBVIOUS
<1> HIDE DEF l
<1>4. d \in {Declaration(l[1][i], l[2]) : i \in DOMAIN l[1]}
  BY <1>1, <1>3
<1>5. QED
  BY <1>2, <1>4 DEF Declarations, l

(* A declaration that is registered is in the catalog.                     *)
LEMMA RegisterAdds ==
  ASSUME NEW mods, NEW man, NEW c \in Catalogs(mods, man), NEW d \in ModuleDeclared(mods, man)
  PROVE  Register(c, d) \in Holding(d.uri, d.schema, mods, man)
<1>1. Register(c, d) \in Catalogs(mods, man)
  BY ModuleIsDeclared, RegisterType
<1>2. Register(c, d) = Broken \/ d \in Register(c, d)
  BY DEF Register
<1>3. QED
  BY <1>1, <1>2 DEF Holding

(* A later module takes a type over only with the same schema.             *)
LEMMA RegisterHolds ==
  ASSUME NEW mods, NEW man, NEW uri, NEW schema, Clear(uri, mods, man),
         NEW c \in Holding(uri, schema, mods, man), NEW d \in ModuleDeclared(mods, man)
  PROVE  Register(c, d) \in Holding(uri, schema, mods, man)
<1>1. c \in Catalogs(mods, man) /\ Register(c, d) \in Catalogs(mods, man)
  BY ModuleIsDeclared, RegisterType DEF Holding
<1>2. SUFFICES ASSUME Register(c, d) # Broken
      PROVE  \E e \in Register(c, d) :
               e \in ModuleDeclared(mods, man) /\ e.uri = uri /\ e.schema = schema
  BY <1>1 DEF Holding
<1>3. c # Broken /\ Register(c, d) = {prev \in c : prev.uri # d.uri} \cup {d}
  BY <1>2 DEF Register
<1>4. PICK e \in c : e \in ModuleDeclared(mods, man) /\ e.uri = uri /\ e.schema = schema
  BY <1>3 DEF Holding
<1>5. CASE e.uri # d.uri
  BY <1>3, <1>4, <1>5
<1>6. CASE e.uri = d.uri
  <2>1. e.schema = d.schema \/ e.source = "user" \/ d.source = "user" \/ e.source = d.source
    BY <1>2, <1>6 DEF Register
  <2>2. d.schema = schema
    BY <2>1, <1>4, <1>6 DEF Clear
  <2>3. QED
    BY <1>3, <1>4, <1>6, <2>2
<1>7. QED
  BY <1>5, <1>6

(* The user takes a type over with any schema.                             *)
LEMMA RegisterAgrees ==
  ASSUME NEW mods, NEW man, NEW uri, NEW schema,
         NEW c \in Agreeing(uri, schema, mods, man), NEW d \in Declarations(mods, man),
         d.source = "user"
  PROVE  Register(c, d) \in Agreeing(uri, schema, mods, man)
<1>1. c \in Catalogs(mods, man) /\ Register(c, d) \in Catalogs(mods, man)
  BY RegisterType DEF Agreeing
<1>2. SUFFICES ASSUME Register(c, d) # Broken
      PROVE  \E e \in Register(c, d) : e.uri = uri /\ (e.source = "user" \/ e.schema = schema)
  BY <1>1 DEF Agreeing
<1>3. c # Broken /\ Register(c, d) = {prev \in c : prev.uri # d.uri} \cup {d}
  BY <1>2 DEF Register
<1>4. PICK e \in c : e.uri = uri /\ (e.source = "user" \/ e.schema = schema)
  BY <1>3 DEF Agreeing
<1>5. QED
  BY <1>3, <1>4

-----------------------------------------------------------------------------
(* The manifests of modules that are catalogued have lists of types.       *)
Listed(mods, man) == \A p \in mods : man[p].types \in Seq(ToSet(man[p].types))

LEMMA TypeIsDeclared ==
  ASSUME NEW mods, NEW man, Listed(mods, man), NEW p \in mods, NEW i \in 1 .. Len(man[p].types)
  PROVE  /\ Len(man[p].types) \in Nat
         /\ Declaration(man[p].types[i], man[p].name) \in ModuleDeclared(mods, man)
<1>1. man[p].types \in Seq(ToSet(man[p].types))
  BY DEF Listed
<1>2. Len(man[p].types) \in Nat /\ i \in DOMAIN man[p].types
  BY <1>1
<1>3. QED
  BY <1>2 DEF ModuleDeclared

(* A module's types make a catalog of a catalog, and keep the types that   *)
(* other modules have declared.                                            *)
LEMMA ListHolds ==
  ASSUME NEW mods, NEW man, Listed(mods, man), NEW p \in mods, NEW uri, NEW schema,
         Clear(uri, mods, man), NEW c \in Holding(uri, schema, mods, man)
  PROVE  RegisterAll(c, man[p].types, man[p].name) \in Holding(uri, schema, mods, man)
<1> DEFINE types == man[p].types
           D == Holding(uri, schema, mods, man)
           J == [i \in 0 .. Len(types) |-> D]
<1>1. Len(types) \in Nat
  BY DEF Listed
<1>2. \A x \in D : \A i \in 1 .. Len(types) : Register(x, Declaration(types[i], man[p].name)) \in D
  BY TypeIsDeclared, RegisterHolds
<1>3. \A i \in 1 .. Len(types) : J[i] = D /\ J[i - 1] = D
  BY <1>1
<1>4. J[0] = D
  BY <1>1
<1> HIDE DEF J, D, types
<1>5. c \in D
  BY DEF D
<1>6. RegisterAll(c, types, man[p].name) \in D
  BY <1>1, <1>2, <1>3, <1>4, <1>5, RegisterAllKeeps
<1>7. QED
  BY <1>6 DEF D, types

LEMMA ListType ==
  ASSUME NEW mods, NEW man, Listed(mods, man), NEW p \in mods, NEW c \in Catalogs(mods, man)
  PROVE  RegisterAll(c, man[p].types, man[p].name) \in Catalogs(mods, man)
<1> DEFINE types == man[p].types
           D == Catalogs(mods, man)
           J == [i \in 0 .. Len(types) |-> D]
<1>1. Len(types) \in Nat
  BY DEF Listed
<1>2. \A x \in D : \A i \in 1 .. Len(types) : Register(x, Declaration(types[i], man[p].name)) \in D
  BY TypeIsDeclared, ModuleIsDeclared, RegisterType
<1>3. \A i \in 1 .. Len(types) : J[i] = D /\ J[i - 1] = D
  BY <1>1
<1>4. J[0] = D
  BY <1>1
<1> HIDE DEF J, D, types
<1>5. c \in D
  BY DEF D
<1>6. RegisterAll(c, types, man[p].name) \in D
  BY <1>1, <1>2, <1>3, <1>4, <1>5, RegisterAllKeeps
<1>7. QED
  BY <1>6 DEF D, types

(* After a module's turn the catalog has each of its types.                *)
LEMMA ListAdds ==
  ASSUME NEW mods, NEW man, Listed(mods, man), NEW p \in mods, NEW c \in Catalogs(mods, man),
         NEW k \in 1 .. Len(man[p].types), Clear(man[p].types[k].uri, mods, man)
  PROVE  RegisterAll(c, man[p].types, man[p].name)
           \in Holding(man[p].types[k].uri, man[p].types[k].schema, mods, man)
<1> DEFINE types == man[p].types
           uri == types[k].uri
           schema == types[k].schema
           D == Catalogs(mods, man)
           After == Holding(uri, schema, mods, man)
           J == [i \in 0 .. Len(types) |-> IF i < k THEN D ELSE After]
           Registered(x, i) == Register(x, Declaration(types[i], man[p].name))
<1>1. Len(types) \in Nat /\ k \in Nat /\ 1 <= k /\ k <= Len(types)
  BY DEF Listed
<1>2. \A x \in D : \A i \in 1 .. Len(types) : Registered(x, i) \in D
  BY TypeIsDeclared, ModuleIsDeclared, RegisterType
<1>3. \A x \in D : Registered(x, k) \in After
  <2> TAKE x \in D
  <2> DEFINE d == Declaration(types[k], man[p].name)
  <2>1. d \in ModuleDeclared(mods, man) /\ d.uri = uri /\ d.schema = schema
    BY TypeIsDeclared DEF Declaration
  <2> HIDE DEF d
  <2>2. Register(x, d) \in Holding(d.uri, d.schema, mods, man)
    BY <2>1, RegisterAdds
  <2>3. QED
    BY <2>1, <2>2 DEF d
<1>4. \A x \in After : \A i \in 1 .. Len(types) : Registered(x, i) \in After
  BY TypeIsDeclared, RegisterHolds
<1> HIDE DEF D, After, types, Registered
<1>5. \A x \in D : \A i \in 1 .. Len(types) : x \in J[i - 1] => Registered(x, i) \in J[i]
  <2> TAKE x \in D
  <2> TAKE i \in 1 .. Len(types)
  <2> HAVE x \in J[i - 1]
  <2>1. i \in 0 .. Len(types) /\ i - 1 \in 0 .. Len(types)
    BY <1>1
  <2>2. CASE i < k
    BY <2>1, <2>2, <1>2
  <2>3. CASE i = k
    BY <2>1, <2>3, <1>1, <1>3
  <2>4. CASE i > k
    <3>1. x \in After
      BY <2>1, <2>4, <1>1
    <3>2. QED
      BY <2>1, <2>4, <3>1, <1>1, <1>4
  <2>5. QED
    BY <2>2, <2>3, <2>4, <1>1
<1>6. J[0] = D /\ J[Len(types)] = After
  BY <1>1
<1>7. c \in D /\ c \in J[0]
  BY <1>6 DEF D
<1> HIDE DEF J
<1>8. RegisterAll(c, types, man[p].name) \in J[Len(types)]
  BY <1>1, <1>2, <1>5, <1>7, RegisterAllKeeps DEF Registered
<1>9. QED
  BY <1>6, <1>8 DEF After, types

-----------------------------------------------------------------------------
(* The loop over the modules: the catalog has each type of each module.    *)
LEMMA ModulesAdd ==
  ASSUME NEW mods, NEW man, Listed(mods, man), NEW j \in 1 .. Len(Places), Places[j] \in mods,
         NEW k \in 1 .. Len(man[Places[j]].types),
         Clear(man[Places[j]].types[k].uri, mods, man),
         NEW c \in Catalogs(mods, man)
  PROVE  RegisterModules(c, mods, man)
           \in Holding(man[Places[j]].types[k].uri, man[Places[j]].types[k].schema, mods, man)
<1> DEFINE uri == man[Places[j]].types[k].uri
           schema == man[Places[j]].types[k].schema
           D == Catalogs(mods, man)
           G == Holding(uri, schema, mods, man)
           J == [i \in 0 .. Len(Places) |-> IF i < j THEN D ELSE G]
<1>1. Len(Places) \in Nat /\ j \in Nat /\ 1 <= j /\ j <= Len(Places)
  BY PlacesAssumption
<1>2. \A x \in D : \A i \in 1 .. Len(Places) : Turn(x, i, mods, man) \in D
  BY ListType DEF Turn
<1>3. \A x \in D : Turn(x, j, mods, man) \in G
  BY ListAdds DEF Turn
<1>4. \A x \in G : \A i \in 1 .. Len(Places) : Turn(x, i, mods, man) \in G
  BY ListHolds DEF Turn
<1> HIDE DEF D, G
<1>5. \A x \in D : \A i \in 1 .. Len(Places) : x \in J[i - 1] => Turn(x, i, mods, man) \in J[i]
  <2> TAKE x \in D
  <2> TAKE i \in 1 .. Len(Places)
  <2> HAVE x \in J[i - 1]
  <2>1. i \in 0 .. Len(Places) /\ i - 1 \in 0 .. Len(Places)
    BY <1>1
  <2>2. CASE i < j
    BY <2>1, <2>2, <1>2
  <2>3. CASE i = j
    BY <2>1, <2>3, <1>1, <1>3
  <2>4. CASE i > j
    <3>1. x \in G
      BY <2>1, <2>4, <1>1
    <3>2. QED
      BY <2>1, <2>4, <3>1, <1>1, <1>4
  <2>5. QED
    BY <2>2, <2>3, <2>4, <1>1
<1>6. J[0] = D /\ J[Len(Places)] = G
  BY <1>1
<1>7. c \in D /\ c \in J[0]
  BY <1>6 DEF D
<1> HIDE DEF J
<1>8. RegisterModules(c, mods, man) \in J[Len(Places)]
  BY <1>2, <1>5, <1>7, RegisterModulesKeeps
<1>9. QED
  BY <1>6, <1>8 DEF G

(* The builtin types make a catalog.                                       *)
LEMMA BuiltinsType ==
  ASSUME NEW mods, NEW man
  PROVE  RegisterAll({}, Builtins, "builtin") \in Catalogs(mods, man)
<1> DEFINE D == Catalogs(mods, man)
           J == [i \in 0 .. Len(Builtins) |-> D]
<1>1. Len(Builtins) \in Nat /\ DOMAIN Builtins = 1 .. Len(Builtins)
  BY TypesAssumption
<1>2. \A i \in 1 .. Len(Builtins) : Declaration(Builtins[i], "builtin") \in Declarations(mods, man)
  <2> DEFINE l == <<Builtins, "builtin">>
  <2>1. l \in Lists(mods, man) /\ l[1] = Builtins /\ l[2] = "builtin"
    BY DEF Lists
  <2> HIDE DEF l
  <2>2. QED
    BY <1>1, <2>1 DEF Declarations
<1>3. \A x \in D : \A i \in 1 .. Len(Builtins) :
        Register(x, Declaration(Builtins[i], "builtin")) \in D
  BY <1>2, RegisterType
<1>4. \A i \in 1 .. Len(Builtins) : J[i] = D /\ J[i - 1] = D
  BY <1>1
<1>5. J[0] = D /\ {} \in D
  BY <1>1 DEF Catalogs
<1> HIDE DEF J, D
<1>6. RegisterAll({}, Builtins, "builtin") \in D
  BY <1>1, <1>3, <1>4, <1>5, RegisterAllKeeps
<1>7. QED
  BY <1>6 DEF D

(* The user's types: the catalog goes on agreeing with the modules, or has *)
(* the user's type.                                                        *)
LEMMA UserTypesAgree ==
  ASSUME NEW mods, NEW man, NEW uri, NEW schema, NEW c \in Agreeing(uri, schema, mods, man)
  PROVE  RegisterAll(c, UserTypes, "user") \in Agreeing(uri, schema, mods, man)
<1> DEFINE D == Agreeing(uri, schema, mods, man)
           J == [i \in 0 .. Len(UserTypes) |-> D]
<1>1. Len(UserTypes) \in Nat /\ DOMAIN UserTypes = 1 .. Len(UserTypes)
  BY TypesAssumption
<1>2. \A i \in 1 .. Len(UserTypes) :
        /\ Declaration(UserTypes[i], "user") \in Declarations(mods, man)
        /\ Declaration(UserTypes[i], "user").source = "user"
  <2> DEFINE l == <<UserTypes, "user">>
  <2>1. l \in Lists(mods, man) /\ l[1] = UserTypes /\ l[2] = "user"
    BY DEF Lists
  <2> HIDE DEF l
  <2>2. \A i \in 1 .. Len(UserTypes) : Declaration(UserTypes[i], "user") \in Declarations(mods, man)
    BY <1>1, <2>1 DEF Declarations
  <2>3. QED
    BY <2>2 DEF Declaration
<1>3. \A x \in D : \A i \in 1 .. Len(UserTypes) :
        Register(x, Declaration(UserTypes[i], "user")) \in D
  BY <1>2, RegisterAgrees
<1>4. \A i \in 1 .. Len(UserTypes) : J[i] = D /\ J[i - 1] = D
  BY <1>1
<1>5. J[0] = D /\ c \in D
  BY <1>1
<1> HIDE DEF J, D
<1>6. RegisterAll(c, UserTypes, "user") \in D
  BY <1>1, <1>3, <1>4, <1>5, RegisterAllKeeps
<1>7. QED
  BY <1>6 DEF D

(* A catalog that is built without a conflict has every clear type of      *)
(* every module as the module declares it, or as the user does.            *)
LEMMA BuiltCatalogAgrees ==
  ASSUME NEW mods, NEW man, Listed(mods, man), BuildCatalog(mods, man) # Broken,
         NEW p \in mods, p \in ToSet(Places), NEW t \in ToSet(man[p].types),
         Clear(t.uri, mods, man)
  PROVE  \E e \in BuildCatalog(mods, man) :
           e.uri = t.uri /\ (e.source = "user" \/ e.schema = t.schema)
<1>1. PICK j \in 1 .. Len(Places) : p = Places[j]
  BY PlacesAssumption DEF ToSet
<1>2. PICK k \in 1 .. Len(man[p].types) : t = man[p].types[k]
  BY DEF ToSet, Listed
<1> DEFINE c == RegisterAll({}, Builtins, "builtin")
<1>3. c \in Catalogs(mods, man)
  BY BuiltinsType
<1> HIDE DEF c
<1>4. RegisterModules(c, mods, man) \in Holding(t.uri, t.schema, mods, man)
  BY <1>1, <1>2, <1>3, ModulesAdd
<1>5. RegisterModules(c, mods, man) \in Agreeing(t.uri, t.schema, mods, man)
  BY <1>4 DEF Holding, Agreeing
<1>6. BuildCatalog(mods, man) \in Agreeing(t.uri, t.schema, mods, man)
  BY <1>5, UserTypesAgree DEF BuildCatalog, c
<1>7. QED
  BY <1>6 DEF Agreeing

-----------------------------------------------------------------------------
(* The daemon is up only with a catalog.                                   *)
CatalogShape == Live => BuildCatalog(FoundNow, declared) # Broken

LEMMA CatalogShapeHolds == Spec => []CatalogShape
<1>1. Init => CatalogShape
  BY DEF Init, CatalogShape, Live
<1>2. CatalogShape /\ [Next]_vars => CatalogShape'
  <2> SUFFICES ASSUME CatalogShape, [Next]_vars PROVE CatalogShape'
    OBVIOUS
  <2>1. ASSUME UNCHANGED tables, Live' => Live PROVE CatalogShape'
    BY <2>1 DEF CatalogShape, tables, FoundNow
  <2>2. CASE Launch
    <3>1. BuildCatalog(FoundNow, Reread) # Broken /\ declared' = Reread /\ UNCHANGED scanned
      BY <2>2 DEF Launch
    <3>2. FoundNow' = FoundNow
      BY <3>1 DEF FoundNow
    <3>3. QED
      BY <3>1, <3>2 DEF CatalogShape
  <2>3. CASE Discover
    BY <2>3 DEF Discover, CatalogShape, Live
  <2>4. CASE Stop
    BY <2>4, <2>1 DEF Stop, Live, tables
  <2>5. CASE UNCHANGED vars
    BY <2>5, <2>1 DEF vars, tables, Live
  <2>6. CASE EndCommand \/ Refuse \/ Exit \/ \E c \in Commanded, p, q \in Mods : StartCommand(c, p, q)
    BY <2>6, <2>1 DEF EndCommand, Refuse, Exit, StartCommand, Live, tables
  <2>7. CASE \/ \E p \in Dirs : \E m \in Versions[p] : Edit(p, m)
             \/ \E p \in Mods : GetsReady(p) \/ Dies(p) \/ RunReturns(p)
    BY <2>7, <2>1 DEF Edit, GetsReady, Dies, RunReturns, Live, tables
  <2>8. CASE \E p \in Mods : Supervision(p)
    BY <2>8, <2>1
       DEF Supervision, Supervise, Start, StartFails, RegisterModule, RunEnds, Leave, Close,
           Restart, GiveUp, Live, tables
  <2>9. CASE \/ \E r \in Requests : Request(r)
             \/ \E p \in Mods, t \in Tooled : CallTool(p, t)
             \/ GetValidator \/ Allow \/ GetHandler \/ Answer \/ EndRequest
    BY <2>9, <2>1
       DEF Request, CallTool, GetValidator, Allow, GetHandler, Answer, EndRequest, Served, Live, tables
  <2>10. QED
    BY <2>2, <2>3, <2>4, <2>5, <2>6, <2>7, <2>8, <2>9 DEF Next
<1>3. QED
  BY <1>1, <1>2, PTL DEF Spec

(* BuildCatalog and Register: while the daemon is up, the catalog has      *)
(* every type that a module declares, with that module's schema or with    *)
(* the user's, whatever lists of types modules, the user and the builtin   *)
(* directory have.  Only for types that one source declares twice, or a    *)
(* module named "user", Register compares too little.                      *)
THEOREM ModulesAgreeOnTypes == Spec => []CatalogAgrees
<1>1. ASSUME IInv, CatalogShape PROVE CatalogAgrees
  <2> SUFFICES ASSUME Live, NEW p \in FoundNow, NEW t \in ToSet(declared[p].types),
                      ~DeclaredTwice(t.uri), ~DeclaredAsUser(t.uri)
               PROVE  \E e \in BuildCatalog(FoundNow, declared) :
                        e.uri = t.uri /\ (e.source = "user" \/ e.schema = t.schema)
    BY DEF CatalogAgrees
  <2>1. p \in ToSet(Places)
    BY DEF FoundNow, Found
  <2>2. Listed(FoundNow, declared)
    <3> SUFFICES ASSUME NEW q \in FoundNow PROVE declared[q].types \in Seq(ToSet(declared[q].types))
      BY DEF Listed
    <3>1. declared[q] \in Manifest \ {Gone, Broken}
      BY <1>1, ValidManifests DEF IInv, TableShape
    <3>2. QED
      BY <3>1, ManifestsAssumption
  <2>3. Clear(t.uri, FoundNow, declared)
    <3>1. ASSUME NEW d \in ModuleDeclared(FoundNow, declared), d.uri = t.uri
          PROVE  \E q \in FoundNow : \E s \in ToSet(declared[q].types) :
                   d.source = declared[q].name /\ d.schema = s.schema /\ s.uri = t.uri
      <4>1. PICK q \in FoundNow : \E i \in DOMAIN declared[q].types :
              d = Declaration(declared[q].types[i], declared[q].name)
        BY DEF ModuleDeclared
      <4>2. PICK i \in DOMAIN declared[q].types :
              d = Declaration(declared[q].types[i], declared[q].name)
        BY <4>1
      <4>3. declared[q].types[i] \in ToSet(declared[q].types)
        BY DEF ToSet
      <4>4. /\ d.source = declared[q].name
            /\ d.schema = declared[q].types[i].schema
            /\ d.uri = declared[q].types[i].uri
        BY <4>2 DEF Declaration
      <4>5. QED
        BY <3>1, <4>3, <4>4
    <3>2. ASSUME NEW d \in ModuleDeclared(FoundNow, declared), d.uri = t.uri
          PROVE  d.source # "user"
      BY <3>1, <3>2 DEF DeclaredAsUser
    <3>3. ASSUME NEW d \in ModuleDeclared(FoundNow, declared),
                 NEW e \in ModuleDeclared(FoundNow, declared),
                 d.uri = t.uri, e.uri = t.uri, d.source = e.source
          PROVE  d.schema = e.schema
      <4>1. PICK q \in FoundNow : \E s \in ToSet(declared[q].types) :
              d.source = declared[q].name /\ d.schema = s.schema /\ s.uri = t.uri
        BY <3>1, <3>3
      <4>2. PICK r \in FoundNow : \E u \in ToSet(declared[r].types) :
              e.source = declared[r].name /\ e.schema = u.schema /\ u.uri = t.uri
        BY <3>1, <3>3
      <4>3. QED
        BY <3>3, <4>1, <4>2 DEF DeclaredTwice
    <3>4. QED
      BY <3>2, <3>3 DEF Clear
  <2>4. BuildCatalog(FoundNow, declared) # Broken
    BY <1>1 DEF CatalogShape
  <2>5. QED
    BY <2>1, <2>2, <2>3, <2>4, BuiltCatalogAgrees
<1>2. QED
  BY <1>1, HostInvariant, CatalogShapeHolds, PTL
=============================================================================

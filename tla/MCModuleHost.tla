---------------------------- MODULE MCModuleHost ----------------------------
(* Constants for the run of ModuleHost.  d holds the gateway's validator,  *)
(* e a module that takes events, b is built in and serves HTTP routes.     *)
EXTENDS ModuleHost

CONSTANTS d, e, b

Module(name, kind) ==
  [name |-> name, kind |-> kind, provides |-> {}, consumes |-> {}, routes |-> <<>>,
   validators |-> {}, tools |-> {}, commands |-> {}, types |-> <<>>]

Path(segments, slash) == [segments |-> segments, slash |-> slash]
Route(method, path, auth) == [method |-> method, path |-> path, auth |-> auth]
Bearer == [module |-> "gate", capability |-> "bearer"]
Type(uri, schema) == [uri |-> uri, schema |-> schema]

Gate == [Module("gate", "processor") EXCEPT !.validators = {"bearer"}]
Web == [Module("web", "source") EXCEPT
  !.provides = {"note"}, !.commands = {"export"}, !.types = <<Type("note", "s1")>>,
  !.routes = <<Route("POST", Path(<<"in", "x">>, TRUE), Inherit)>>]
Tagger == [Module("tagger", "processor") EXCEPT
  !.consumes = {"note"}, !.provides = {"tag"}, !.tools = {"tags"},
  !.types = <<Type("tag", "s1"), Type("note", "s1")>>]
Filer == [Module("filer", "sink") EXCEPT !.consumes = {"note"}]

(* A directory overrides the built-in module of its name. *)
OwnWeb == [Web EXCEPT !.routes = <<Route("post", Path(<<"in", "{id}">>, FALSE), Bearer),
                                  Route("post", Path(<<"in", "x">>, FALSE), NoAuth)>>]
Conflict == [Tagger EXCEPT !.types = <<Type("note", "s2")>>]
SameRoute == [Tagger EXCEPT !.routes = <<Route("post", Path(<<"in", "x">>, TRUE), Inherit)>>]
Invalid == [Filer EXCEPT !.provides = {"tag"}]

On(x, y) == (d :> x) @@ (e :> y) @@ (b :> Web)

MCPlaces == <<d, e, b>>
MCSetups == {On(Gate, OwnWeb), On(Gone, OwnWeb), On(Gone, Tagger), On(Gone, Filer),
             On(Gone, Conflict), On(Gone, SameRoute), On(Gone, Invalid)}
MCVersions == (d :> {[Gate EXCEPT !.name = "web"]}) @@ (e :> {Broken})
MCRequests == {[method |-> "post", url |-> <<"in", "x">>]}
MCUpper == ("POST" :> "POST") @@ ("post" :> "POST")
MCWildcards == {"{id}"}
MCBuiltins == <<Type("note", "s1")>>
MCUserTypes == <<Type("tag", "s3")>>
=============================================================================

------------------------------- MODULE Service ------------------------------
(***************************************************************************)
(* What the attribute macro `service` (macros/src) makes of a module:      *)
(* under which name the generated client calls a method, under which paths *)
(* a Route constant answers, what its `install` and `direct` functions do  *)
(* with a message, and which declarations are refused.                     *)
(*                                                                         *)
(* A name is a text with the prefix and the letter case that were applied  *)
(* to it.  A service is a record of its attributes and its functions in    *)
(* order; a function (FnDecl) and an entry of a Route (Item) are records   *)
(* of what their attributes say.                                           *)
(***************************************************************************)
EXTENDS Naturals, Sequences

CONSTANTS
    None,   \* an attribute that is not given
    ALL     \* the list of all methods

Text(base) == [prefix |-> None, case |-> None, base |-> base]
Texts(bases) == [k \in 1 .. Len(bases) |-> Text(bases[k])]

-----------------------------------------------------------------------------
(* Functions                                                               *)

\* rename_all is applied while the name is still empty, so an explicit name or
\* else the identifier is taken as it stands; name_prefix is stored and not
\* used.
MethodName(svc, d) == Text(IF d.name = None THEN d.ident ELSE d.name)

\* MethodDef: a function with a return type is a request.
MethodDef(svc, d) ==
    [method |-> d.ident, is_req |-> d.output # None, name |-> MethodName(svc, d),
     routes |-> Texts(d.routes)]

\* handled_methods: no_recv of a function keeps it out, no_recv of the service
\* does not.
HandledMethods(svc) ==
    LET handled == SelectSeq(svc.fns, LAMBDA d : ~d.no_recv) IN
    [k \in 1 .. Len(handled) |-> MethodDef(svc, handled[k])]

IsHandled(svc, ident) ==
    \E k \in 1 .. Len(HandledMethods(svc)) : HandledMethods(svc)[k].method = ident

\* find_method: functions of a module have different names.
FindMethod(svc, ident) ==
    LET defs == HandledMethods(svc) IN
    defs[CHOOSE k \in 1 .. Len(defs) : defs[k].method = ident]

-----------------------------------------------------------------------------
(* Routes                                                                  *)

\* A GenDesc, with the variant of the enum it makes.
Desc(def, variant, routes, no_default_route) ==
    [method |-> def.method, is_req |-> def.is_req, variant |-> variant, name |-> def.name,
     routes |-> routes, no_default_route |-> no_default_route]

\* `method`, `method = Variant`: the routes of the function.
PathDesc(def, item) ==
    Desc(def, IF item.variant = None THEN def.method ELSE item.variant, def.routes, FALSE)

\* `method { .. }`, `method = Variant { .. }`: routes are added, and all of
\* them cleared if there is to be no default route.
StructDesc(route, def, item) ==
    LET no_default == item.no_default_route \/ route.no_default_route IN
    Desc(def, IF item.variant = None THEN def.method ELSE item.variant,
         IF no_default THEN << >> ELSE def.routes \o Texts(item.routes), no_default)

\* ALL, or the listed methods.
GenerateTargets(svc, route) ==
    IF route.items = ALL
    THEN LET defs == HandledMethods(svc) IN
         [k \in 1 .. Len(defs) |-> Desc(defs[k], defs[k].method, defs[k].routes, FALSE)]
    ELSE [k \in 1 .. Len(route.items) |->
            LET item == route.items[k]
                def == FindMethod(svc, item.method)
            IN IF item.braces THEN StructDesc(route, def, item) ELSE PathDesc(def, item)]

\* route_strs: the default route, unless one of the attributes excludes it,
\* and the others.
RouteStrs(route, target) ==
    IF target.no_default_route \/ route.no_default_route
    THEN target.routes ELSE <<target.name>> \o target.routes

\* Places of routes in a list of targets.
Places(route, targets) ==
    UNION {{t} \X (1 .. Len(RouteStrs(route, targets[t]))) : t \in 1 .. Len(targets)}

\* The macro reports an error for a method that is not known and for a path
\* that is there twice; and an arm of `direct` without a pattern is not Rust.
Compiles(svc, route) ==
    /\ route.items # ALL =>
        \A k \in 1 .. Len(route.items) : IsHandled(svc, route.items[k].method)
    /\ LET targets == GenerateTargets(svc, route) IN
        /\ \A p, q \in Places(route, targets) :
            RouteStrs(route, targets[p[1]])[p[2]] = RouteStrs(route, targets[q[1]])[q[2]] => p = q
        /\ route.direct => \A t \in 1 .. Len(targets) : RouteStrs(route, targets[t]) # << >>

-----------------------------------------------------------------------------
(* Messages                                                                *)

\* A message is [method, is_request, parses]: its method name, whether it
\* wants an answer, and whether its parameters are those of the method.

\* What the closure of `install` does with it, once it has been chosen: every
\* error puts the inbound back.
HandlerResult(target, msg) ==
    IF ~target.is_req /\ msg.is_request THEN "RequestOnNotifyHandler"
    ELSE IF msg.parses THEN "Ok" ELSE "ParseError"

\* ___inner_match_index: the first arm that has the path, or 0.
MatchIndex(route, targets, path) ==
    LET arms == {t \in 1 .. Len(targets) :
                    \E k \in 1 .. Len(RouteStrs(route, targets[t])) :
                        RouteStrs(route, targets[t])[k] = path}
    IN IF arms = {} THEN 0 ELSE CHOOSE t \in arms : \A u \in arms : t <= u

\* What `direct`'s route does: it does not ask whether a message for a
\* notification is a request.
DirectResult(route, targets, msg) ==
    IF MatchIndex(route, targets, msg.method) = 0 THEN "RouteFailed"
    ELSE IF msg.parses THEN "Ok" ELSE "ParseError"

-----------------------------------------------------------------------------
(* What the documentation of the macro promises                            *)

\* name_prefix "appends a specified prefix to every method name", rename_all
\* "renames all default method names".
DocName(svc, d) ==
    [prefix |-> svc.name_prefix,
     case |-> IF d.name = None THEN svc.rename_all ELSE None,
     base |-> IF d.name = None THEN d.ident ELSE d.name]

\* route_prefix "appends a specified prefix to every method route".
DocPath(svc, base) == [prefix |-> svc.route_prefix, case |-> None, base |-> base]

FnOf(svc, ident) ==
    svc.fns[CHOOSE k \in 1 .. Len(svc.fns) : svc.fns[k].ident = ident]

\* "Do not generate default route", and no other is excluded.
DocPaths(svc, route, item) ==
    LET d == FnOf(svc, item.method) IN
    (IF item.no_default_route \/ route.no_default_route THEN {} ELSE {DocName(svc, d)})
      \cup {DocPath(svc, d.routes[k]) : k \in 1 .. Len(d.routes)}
      \cup {DocPath(svc, item.routes[k]) : k \in 1 .. Len(item.routes)}
=============================================================================

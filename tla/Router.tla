------------------------------- MODULE Router -------------------------------
(***************************************************************************)
(* RouterBuilder and Router (macros/route.rs), with the `install` of the   *)
(* Route constants of a service.  The builder keeps handlers in a Vec and  *)
(* a map from paths to indices, which are filled by separate calls: a      *)
(* handler is pushed before its paths are known to be free, or a path is   *)
(* entered before the handler is there.  Indices begin at 0, as in the     *)
(* code.  Calls are sequential: the builder is borrowed exclusively.       *)
(***************************************************************************)
EXTENDS Service, FiniteSets

CONSTANTS
    Svc,        \* the service
    Routes,     \* its Route constants
    Custom,     \* handlers pushed by hand: [method, is_req, variant]
    Paths,      \* the paths messages and routes are made of
    Wrapped,    \* 0 - 1, where overflow is not checked
    MaxCalls    \* bound: calls of the builder

ASSUME RoutesAssumption ==
    \A route \in {c \in Routes : Compiles(Svc, c)} :
        LET targets == GenerateTargets(Svc, route) IN
        /\ Len(targets) \in Nat
        /\ \A t \in 1 .. Len(targets) :
            targets[t].name \in Paths /\ targets[t].routes \in Seq(Paths)
ASSUME NoneAssumption == None \notin Routes \cup Nat
ASSUME MaxCallsAssumption == MaxCalls \in Nat /\ Wrapped \in Nat /\ MaxCalls < Wrapped

VARIABLES
    phase,      \* "building", "serving", "panicked"
    funcs,      \* the handlers
    table,      \* the map of the paths, None where there is no entry
    plan,       \* the `install` under way: constant, target, and which of its routes
    calls,      \* how many calls of the builder were made
    promised,   \* history: the handler for which a path was last registered with
                \* Ok, unless that handler was popped or the path refused since
    clean,      \* history: nothing was refused or popped
    installed,  \* history: the constants that were installed
    result      \* the last message routed and what became of it

builderVars == <<funcs, table, promised, clean>>
vars == <<phase, builderVars, plan, calls, installed, result>>

Compiled == {route \in Routes : Compiles(Svc, route)}
Targets(route) == GenerateTargets(Svc, route)
Handlers == Custom \cup UNION {{Targets(c)[t] : t \in 1 .. Len(Targets(c))} : c \in Compiled}

\* A handler pushed by hand takes every message, requests included.
ASSUME HandlersAssumption == None \notin Handlers /\ \A h \in Custom : h.is_req

NoPlan == [route |-> None, target |-> 1, next |-> 0]
NoResult == [msg |-> None, by |-> None, outcome |-> "none", back |-> FALSE]

Messages == [method : Paths, is_request : BOOLEAN, parses : BOOLEAN]

Init ==
    /\ phase = "building"
    /\ funcs = << >>
    /\ table = [p \in Paths |-> None]
    /\ plan = NoPlan
    /\ calls = 0
    /\ promised = [p \in Paths |-> None]
    /\ clean = TRUE
    /\ installed = {}
    /\ result = NoResult

-----------------------------------------------------------------------------
(* The builder                                                             *)

Call ==
    /\ phase = "building" /\ plan = NoPlan
    /\ calls < MaxCalls
    /\ calls' = calls + 1

\* add_route of the maps: `insert` overwrites, and an entry that was there is
\* an error.
AddRoute(p, index) == table' = [table EXCEPT ![p] = index]
IsFree(p) == table[p] = None

PushHandler(h) ==
    /\ Call
    /\ funcs' = Append(funcs, h)
    /\ UNCHANGED <<phase, table, plan, promised, clean, installed, result>>

\* Slip: the index is that of the handler to come.
AddRouteToNext(p) ==
    /\ funcs # << >>
    /\ AddRoute(p, Len(funcs))
    /\ promised' = [promised EXCEPT ![p] = IF IsFree(p) THEN funcs[Len(funcs)] ELSE None]
    /\ clean' = (clean /\ IsFree(p))

\* try_add_route_to_last, with a handler there.
AddRouteToLast(p) ==
    /\ funcs # << >>
    /\ AddRoute(p, Len(funcs) - 1)
    /\ promised' = [promised EXCEPT ![p] = IF IsFree(p) THEN funcs[Len(funcs)] ELSE None]
    /\ clean' = (clean /\ IsFree(p))

TryAddRouteToLast(p) ==
    /\ Call
    /\ AddRouteToLast(p)
    /\ UNCHANGED <<phase, funcs, plan, installed, result>>

\* Slip: the index is signed.
AddRouteSigned(p) ==
    /\ Call
    /\ funcs = << >>
    /\ AddRoute(p, Len(funcs) - 1)
    /\ UNCHANGED <<phase, funcs, plan, promised, clean, installed, result>>

\* The same without a handler: 0 - 1 panics, or where overflow is not checked
\* (a release build) is a very large index.
AddRouteToNone(p) ==
    /\ Call
    /\ funcs = << >>
    /\ \/ phase' = "panicked" /\ UNCHANGED <<table, promised, clean>>
       \/ /\ AddRoute(p, Wrapped)
          /\ promised' = [promised EXCEPT ![p] = None]
          /\ clean' = FALSE
          /\ UNCHANGED phase
    /\ UNCHANGED <<funcs, plan, installed, result>>

\* The routes of the handler stay in the map.
PopHandler ==
    /\ Call
    /\ funcs' = SubSeq(funcs, 1, Len(funcs) - 1)
    /\ promised' = [p \in Paths |-> IF table[p] = Len(funcs) - 1 THEN None ELSE promised[p]]
    /\ clean' = FALSE
    /\ UNCHANGED <<phase, table, plan, installed, result>>

\* Slip: the handler is pushed first, and the index taken after that.
PushThenAddRoute(p, h) ==
    /\ Call
    /\ AddRoute(p, Len(funcs) + 1)
    /\ funcs' = Append(funcs, h)
    /\ promised' = [promised EXCEPT ![p] = IF IsFree(p) THEN h ELSE None]
    /\ clean' = (clean /\ IsFree(p))
    /\ UNCHANGED <<phase, plan, installed, result>>

\* The path first; the handler only if the path was free.
TryAddRoutedHandler(p, h) ==
    /\ Call
    /\ AddRoute(p, Len(funcs))
    /\ funcs' = IF IsFree(p) THEN Append(funcs, h) ELSE funcs
    /\ promised' = [promised EXCEPT ![p] = IF IsFree(p) THEN h ELSE None]
    /\ clean' = (clean /\ IsFree(p))
    /\ UNCHANGED <<phase, plan, installed, result>>

Finish ==
    /\ phase = "building" /\ plan = NoPlan
    /\ phase' = "serving"
    /\ UNCHANGED <<builderVars, plan, calls, installed, result>>

-----------------------------------------------------------------------------
(* install                                                                 *)

PlanTarget == Targets(plan.route)[plan.target]
PlanRoutes == RouteStrs(plan.route, PlanTarget)

Install(c) ==
    /\ Call
    /\ plan' = [route |-> c, target |-> 1, next |-> 0]
    /\ UNCHANGED <<phase, builderVars, installed, result>>

\* The handler of the next target, then its routes.
InstallPush ==
    /\ plan.route # None /\ plan.next = 0 /\ plan.target <= Len(Targets(plan.route))
    /\ funcs' = Append(funcs, PlanTarget)
    /\ plan' = [plan EXCEPT !.next = 1]
    /\ UNCHANGED <<phase, table, promised, clean, calls, installed, result>>

\* A route that is refused is up to on_route_error: IgnoreAndContinue, Panic
\* or Abort, which leaves the rest out.
InstallRoute ==
    /\ plan.route # None /\ plan.next > 0
    /\ plan.next <= Len(PlanRoutes)
    /\ LET p == PlanRoutes[plan.next] IN
        /\ AddRouteToLast(p)
        /\ \/ plan' = [plan EXCEPT !.next = @ + 1] /\ UNCHANGED phase
           \/ ~IsFree(p) /\ phase' = "panicked" /\ UNCHANGED plan
           \/ ~IsFree(p) /\ plan' = NoPlan /\ UNCHANGED phase
    /\ UNCHANGED <<funcs, calls, installed, result>>

InstallNext ==
    /\ plan.route # None /\ plan.next > 0
    /\ plan.next > Len(PlanRoutes)
    /\ plan' = [plan EXCEPT !.target = @ + 1, !.next = 0]
    /\ UNCHANGED <<phase, builderVars, calls, installed, result>>

InstallEnd ==
    /\ plan.route # None /\ plan.next = 0 /\ plan.target > Len(Targets(plan.route))
    /\ plan' = NoPlan
    /\ installed' = installed \cup {plan.route}
    /\ UNCHANGED <<phase, builderVars, calls, result>>

-----------------------------------------------------------------------------
(* Router::route                                                           *)

\* No entry: the inbound is given back.
RouteFails(msg) ==
    /\ phase = "serving"
    /\ table[msg.method] = None
    /\ result' = [msg |-> msg, by |-> None, outcome |-> "RouteFailed", back |-> TRUE]
    /\ UNCHANGED <<phase, builderVars, plan, calls, installed>>

\* The handler is called, and what it has not taken is given back with the
\* error.  A handler pushed by hand takes everything.
RouteTo(msg) ==
    /\ phase = "serving"
    /\ table[msg.method] # None /\ table[msg.method] < Len(funcs)
    /\ LET h == funcs[table[msg.method] + 1]
           outcome == IF h \in Custom THEN "Ok" ELSE HandlerResult(h, msg)
       IN result' = [msg |-> msg, by |-> h, outcome |-> outcome, back |-> outcome # "Ok"]
    /\ UNCHANGED <<phase, builderVars, plan, calls, installed>>

\* An index without a handler: funcs[index] panics.
RoutePanics(msg) ==
    /\ phase = "serving"
    /\ table[msg.method] # None /\ table[msg.method] >= Len(funcs)
    /\ result' = [msg |-> msg, by |-> None, outcome |-> "panic", back |-> FALSE]
    /\ phase' = "panicked"
    /\ UNCHANGED <<builderVars, plan, calls, installed>>

-----------------------------------------------------------------------------
Build ==
    \/ \E h \in Custom : PushHandler(h) \/ \E p \in Paths : TryAddRoutedHandler(p, h)
    \/ \E p \in Paths : TryAddRouteToLast(p) \/ AddRouteToNone(p)
    \/ PopHandler \/ Finish

InstallStep ==
    \/ \E c \in Compiled : Install(c)
    \/ InstallPush \/ InstallRoute \/ InstallNext \/ InstallEnd

Route == \E msg \in Messages : RouteFails(msg) \/ RouteTo(msg) \/ RoutePanics(msg)

Next == Build \/ (phase = "building" /\ InstallStep) \/ Route

Spec == Init /\ [][Next]_vars

-----------------------------------------------------------------------------
(* Properties                                                              *)

Outcomes == {"none", "Ok", "RouteFailed", "RequestOnNotifyHandler", "ParseError", "panic"}

\* Every variable stays in its range.
TypeOK ==
    /\ phase \in {"building", "serving", "panicked"}
    /\ funcs \in Seq(Handlers)
    /\ table \in [Paths -> Nat \cup {None}]
    /\ plan \in [route : Compiled, target : Nat \ {0}, next : Nat] \cup {NoPlan}
    /\ calls \in 0 .. MaxCalls
    /\ promised \in [Paths -> Handlers \cup {None}]
    /\ clean \in BOOLEAN
    /\ installed \subseteq Compiled
    /\ result.outcome \in Outcomes /\ result.by \in Handlers \cup {None}

\* A message whose path was registered with Ok meets the handler of that
\* registration, whatever was pushed, refused or popped in between, and never
\* a panic; a message that was not handled is given back, and a request goes
\* to no notification handler.  (A path that was refused, or whose handler was
\* popped, may lead to a handler pushed later, or panic.)
LeadsRight ==
    result.outcome # "none" =>
        /\ promised[result.msg.method] # None => result.by = promised[result.msg.method]
        /\ result.outcome \notin {"Ok", "panic"} => result.back
        /\ result.outcome = "Ok" /\ result.msg.is_request => result.by.is_req

\* The constants installed in a router where nothing was refused or popped are
\* served as their `direct` function would: the same variant gets a message,
\* with the same outcome, except that `direct` lets requests in to
\* notifications; and the name under which the generated client calls a method
\* with a default route is served.
InstallServes ==
    clean /\ plan = NoPlan => \A c \in installed, msg \in Messages :
        LET targets == Targets(c)
            t == MatchIndex(c, targets, msg.method)
            index == table[msg.method]
        IN /\ t # 0 =>
                /\ index \in 0 .. Len(funcs) - 1
                /\ funcs[index + 1] = targets[t]
                /\ \/ HandlerResult(targets[t], msg) = DirectResult(c, targets, msg)
                   \/ msg.is_request /\ ~targets[t].is_req
           /\ \A u \in 1 .. Len(targets) :
                ~targets[u].no_default_route /\ ~c.no_default_route /\ msg.method = targets[u].name
                    => t = u

-----------------------------------------------------------------------------
(* What the documentation says and the code does not keep                  *)

\* Every path the documentation gives a method of an installed constant leads
\* to that method.
RoutesDocumented ==
    clean /\ plan = NoPlan => \A c \in installed : c.items # ALL =>
        \A k \in 1 .. Len(c.items) : \A p \in DocPaths(Svc, c, c.items[k]) :
            /\ p \in Paths /\ table[p] # None
            /\ funcs[table[p] + 1].method = c.items[k].method
=============================================================================

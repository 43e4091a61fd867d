---------------------------- MODULE Router_proofs ---------------------------
(***************************************************************************)
(* Theorems about the router for any service, any Route constants, paths   *)
(* and handlers.  Beside the types, the inductive invariant says that the  *)
(* map leads to the handler a path was promised (Led), and that the        *)
(* promises of an `install` are kept while the builder stays clean         *)
(* (InstalledInv, PlanInv).                                                *)
(***************************************************************************)
EXTENDS Router, SequenceTheorems, TLAPS

Led ==
    \A p \in Paths : promised[p] # None =>
        /\ table[p] \in 0 .. Len(funcs) - 1
        /\ funcs[table[p] + 1] = promised[p]

\* The routes of target t of constant c are promised to it.
Serves(c, t) ==
    \A k \in 1 .. Len(RouteStrs(c, Targets(c)[t])) :
        promised[RouteStrs(c, Targets(c)[t])[k]] = Targets(c)[t]

InstalledInv ==
    clean => \A c \in installed : \A t \in 1 .. Len(Targets(c)) : Serves(c, t)

PlanInv ==
    plan.route # None =>
        /\ plan.next > 0 =>
            /\ plan.target \in 1 .. Len(Targets(plan.route))
            /\ Len(funcs) > 0 /\ funcs[Len(funcs)] = PlanTarget
        /\ clean => \A t \in 1 .. Len(Targets(plan.route)) : t < plan.target => Serves(plan.route, t)
        /\ clean /\ plan.next > 0 =>
            \A k \in 1 .. Len(PlanRoutes) : k < plan.next => promised[PlanRoutes[k]] = PlanTarget

\* Messages are routed when the builder is finished.
ServingInv == result.outcome # "none" => phase # "building"

IInv == TypeOK /\ Led /\ InstalledInv /\ PlanInv /\ ServingInv /\ LeadsRight

-----------------------------------------------------------------------------
(* Lemmas                                                                  *)

LEMMA Constants ==
    /\ None \notin Nat /\ None \notin Handlers /\ None \notin Compiled /\ Custom \subseteq Handlers
    /\ \A h \in Custom : h.is_req
    /\ \A c \in Compiled : Len(Targets(c)) \in Nat
    /\ \A c \in Compiled : \A t \in 1 .. Len(Targets(c)) :
        Targets(c)[t] \in Handlers /\ RouteStrs(c, Targets(c)[t]) \in Seq(Paths)
    /\ MaxCalls \in Nat /\ Wrapped \in Nat
<1>1. \A c \in Compiled :
        /\ Len(Targets(c)) \in Nat
        /\ \A t \in 1 .. Len(Targets(c)) : RouteStrs(c, Targets(c)[t]) \in Seq(Paths)
  BY RoutesAssumption, ConcatProperties DEF Compiled, Targets, RouteStrs
<1>2. \A c \in Compiled : \A t \in 1 .. Len(Targets(c)) : Targets(c)[t] \in Handlers
  BY DEF Handlers
<1>3. None \notin Compiled /\ Custom \subseteq Handlers
  BY NoneAssumption DEF Compiled, Handlers
<1>4. QED
  BY <1>1, <1>2, <1>3, NoneAssumption, HandlersAssumption, MaxCallsAssumption

\* A route of a target is a path.
LEMMA RoutePath ==
    ASSUME NEW c \in Compiled, NEW t \in 1 .. Len(Targets(c)),
           NEW k \in 1 .. Len(RouteStrs(c, Targets(c)[t]))
    PROVE  RouteStrs(c, Targets(c)[t])[k] \in Paths
<1>1. RouteStrs(c, Targets(c)[t]) \in Seq(Paths)
  BY Constants
<1>2. QED
  BY <1>1, ElementOfSeq

LEMMA InitIInv == Init => IInv
<1> SUFFICES ASSUME Init PROVE IInv
  OBVIOUS
<1>1. TypeOK
  BY EmptySeq, Constants DEF Init, TypeOK, NoResult, Outcomes
<1>2. QED
  BY <1>1, Constants DEF Init, IInv, Led, InstalledInv, PlanInv, ServingInv, LeadsRight,
     NoPlan, NoResult

\* The kinds of steps.
LEMMA Steps ==
    ASSUME [Next]_vars
    PROVE  \/ \E h \in Custom : PushHandler(h)
           \/ \E h \in Custom, p \in Paths : TryAddRoutedHandler(p, h)
           \/ \E p \in Paths : TryAddRouteToLast(p)
           \/ \E p \in Paths : AddRouteToNone(p)
           \/ PopHandler
           \/ Finish
           \/ \E c \in Compiled : Install(c)
           \/ phase = "building" /\ InstallPush
           \/ phase = "building" /\ InstallRoute
           \/ phase = "building" /\ InstallNext
           \/ phase = "building" /\ InstallEnd
           \/ \E msg \in Messages : RouteFails(msg)
           \/ \E msg \in Messages : RouteTo(msg)
           \/ \E msg \in Messages : RoutePanics(msg)
           \/ UNCHANGED vars
BY DEF Next, Build, InstallStep, Route

\* The handler at the end of a Vec that is not empty.
LEMMA LastHandler ==
    ASSUME funcs \in Seq(Handlers), funcs # << >>
    PROVE  Len(funcs) \in Nat \ {0} /\ funcs[Len(funcs)] \in Handlers
<1>1. Len(funcs) \in Nat \ {0}
  BY EmptySeq
<1>2. QED
  BY <1>1, ElementOfSeq

\* The next route of an `install` is a path.
LEMMA PlanPath ==
    ASSUME TypeOK, PlanInv, plan.route # None, plan.next > 0, plan.next <= Len(PlanRoutes)
    PROVE  /\ plan.route \in Compiled /\ plan.target \in 1 .. Len(Targets(plan.route))
           /\ plan.next \in 1 .. Len(PlanRoutes) /\ PlanRoutes[plan.next] \in Paths
           /\ PlanTarget \in Handlers /\ Len(PlanRoutes) \in Nat
<1>1. plan.route \in Compiled /\ plan.target \in 1 .. Len(Targets(plan.route)) /\ plan.next \in Nat
  BY DEF TypeOK, PlanInv, NoPlan
<1>2. PlanRoutes \in Seq(Paths) /\ PlanTarget \in Handlers
  BY <1>1, Constants DEF PlanRoutes, PlanTarget
<1>3. Len(PlanRoutes) \in Nat
  BY <1>2, LenProperties
<1>4. QED
  BY <1>1, <1>2, <1>3, ElementOfSeq

\* What an added route does to the map and the promises.
LEMMA AddRouteToLastDoes ==
    ASSUME TypeOK, Led, NEW p \in Paths, AddRouteToLast(p), funcs' = funcs
    PROVE  /\ table' \in [Paths -> Nat \cup {None}]
           /\ promised' \in [Paths -> Handlers \cup {None}]
           /\ clean' \in BOOLEAN /\ Led'
           /\ clean' => clean /\ IsFree(p)
           /\ clean' => promised'[p] = funcs[Len(funcs)]
           /\ \A q \in Paths : clean' /\ promised[q] # None => promised'[q] = promised[q]
<1>1. /\ table \in [Paths -> Nat \cup {None}] /\ promised \in [Paths -> Handlers \cup {None}]
      /\ clean \in BOOLEAN /\ Len(funcs) \in Nat \ {0} /\ funcs[Len(funcs)] \in Handlers
  BY LastHandler DEF TypeOK, AddRouteToLast
<1>2. /\ table' = [table EXCEPT ![p] = Len(funcs) - 1]
      /\ promised' = [promised EXCEPT ![p] = IF IsFree(p) THEN funcs[Len(funcs)] ELSE None]
      /\ clean' = (clean /\ IsFree(p))
  BY DEF AddRouteToLast, AddRoute
<1>3. /\ table' \in [Paths -> Nat \cup {None}]
      /\ promised' \in [Paths -> Handlers \cup {None}] /\ clean' \in BOOLEAN
  BY <1>1, <1>2 DEF IsFree
<1>4. Led'
  BY <1>1, <1>2 DEF Led
<1>5. IsFree(p) => promised[p] = None
  BY <1>1, Constants DEF Led, IsFree
<1>6. QED
  BY <1>1, <1>2, <1>3, <1>4, <1>5

-----------------------------------------------------------------------------

\* Promises that are kept serve their routes further.
LEMMA ServesKept ==
    ASSUME NEW c \in Compiled, NEW t \in 1 .. Len(Targets(c)), Serves(c, t),
           \A q \in Paths : promised[q] # None => promised'[q] = promised[q]
    PROVE  Serves(c, t)'
<1> SUFFICES ASSUME NEW k \in 1 .. Len(RouteStrs(c, Targets(c)[t]))
             PROVE  promised'[RouteStrs(c, Targets(c)[t])[k]] = Targets(c)[t]
  BY DEF Serves
<1>1. RouteStrs(c, Targets(c)[t])[k] \in Paths /\ Targets(c)[t] # None
  BY RoutePath, Constants
<1>2. promised[RouteStrs(c, Targets(c)[t])[k]] = Targets(c)[t]
  BY DEF Serves
<1>3. QED
  BY <1>1, <1>2

\* A call of the builder disturbs no installed constant while nothing is
\* refused or popped.
LEMMA CallKeeps ==
    ASSUME TypeOK, InstalledInv, plan = NoPlan, plan' = NoPlan, installed' = installed,
           clean' => clean /\ \A q \in Paths : promised[q] # None => promised'[q] = promised[q]
    PROVE  InstalledInv' /\ PlanInv'
<1>1. PlanInv'
  BY DEF PlanInv, NoPlan
<1>2. ASSUME clean', NEW c \in installed, NEW t \in 1 .. Len(Targets(c))
      PROVE  Serves(c, t)'
  BY <1>2, ServesKept DEF InstalledInv, TypeOK
<1>3. QED
  BY <1>1, <1>2 DEF InstalledInv

\* Nothing was routed while the builder is there.
LEMMA NothingRouted ==
    ASSUME TypeOK, ServingInv, phase = "building", result' = result
    PROVE  ServingInv' /\ LeadsRight'
BY DEF ServingInv, LeadsRight, TypeOK

\* A call of the builder, whatever it does to the handlers and the map.
LEMMA CallStep ==
    ASSUME IInv, Call, plan' = plan, installed' = installed, result' = result,
           phase' \in {"building", "panicked"}, funcs' \in Seq(Handlers),
           table' \in [Paths -> Nat \cup {None}], promised' \in [Paths -> Handlers \cup {None}],
           clean' \in BOOLEAN, Led',
           clean' => clean /\ \A q \in Paths : promised[q] # None => promised'[q] = promised[q]
    PROVE  IInv'
<1>1. TypeOK'
  BY Constants DEF IInv, TypeOK, Call
<1>2. InstalledInv' /\ PlanInv'
  BY CallKeeps DEF IInv, Call
<1>3. ServingInv' /\ LeadsRight'
  BY NothingRouted DEF IInv, Call
<1>4. QED
  BY <1>1, <1>2, <1>3 DEF IInv

LEMMA PushStep ==
    ASSUME IInv, NEW h \in Custom, PushHandler(h)
    PROVE  IInv'
<1>1. /\ Call /\ funcs' = Append(funcs, h) /\ h \in Handlers /\ funcs \in Seq(Handlers)
      /\ UNCHANGED <<phase, table, plan, promised, clean, installed, result>>
  BY Constants DEF PushHandler, IInv, TypeOK
<1>2. /\ funcs' \in Seq(Handlers) /\ Len(funcs') = Len(funcs) + 1 /\ Len(funcs) \in Nat
      /\ \A i \in 1 .. Len(funcs) : funcs'[i] = funcs[i]
  BY <1>1, AppendProperties, LenProperties
<1>3. Led'
  BY <1>1, <1>2 DEF Led, IInv
<1>4. QED
  BY <1>1, <1>2, <1>3, CallStep DEF IInv, TypeOK, Call

LEMMA TryAddStep ==
    ASSUME IInv, NEW h \in Custom, NEW p \in Paths, TryAddRoutedHandler(p, h)
    PROVE  IInv'
<1>1. /\ Call /\ table' = [table EXCEPT ![p] = Len(funcs)]
      /\ funcs' = IF IsFree(p) THEN Append(funcs, h) ELSE funcs
      /\ promised' = [promised EXCEPT ![p] = IF IsFree(p) THEN h ELSE None]
      /\ clean' = (clean /\ IsFree(p))
      /\ h \in Handlers /\ funcs \in Seq(Handlers)
      /\ UNCHANGED <<phase, plan, installed, result>>
      /\ table \in [Paths -> Nat \cup {None}] /\ promised \in [Paths -> Handlers \cup {None}]
      /\ clean \in BOOLEAN
  BY Constants DEF TryAddRoutedHandler, AddRoute, IInv, TypeOK
<1>2. /\ Append(funcs, h) \in Seq(Handlers) /\ Len(Append(funcs, h)) = Len(funcs) + 1
      /\ Len(funcs) \in Nat /\ Append(funcs, h)[Len(funcs) + 1] = h
      /\ \A i \in 1 .. Len(funcs) : Append(funcs, h)[i] = funcs[i]
  BY <1>1, AppendProperties, LenProperties
<1>3. IsFree(p) => promised[p] = None
  BY <1>2, Constants DEF IInv, Led, IsFree
<1>4. Led'
  <2>1. CASE IsFree(p)
    BY <1>1, <1>2, <2>1 DEF Led, IInv
  <2>2. CASE ~IsFree(p)
    BY <1>1, <1>2, <2>2 DEF Led, IInv
  <2>3. QED
    BY <2>1, <2>2
<1>5. /\ funcs' \in Seq(Handlers) /\ table' \in [Paths -> Nat \cup {None}]
      /\ promised' \in [Paths -> Handlers \cup {None}] /\ clean' \in BOOLEAN
  BY <1>1, <1>2 DEF IsFree
<1>6. clean' => clean /\ \A q \in Paths : promised[q] # None => promised'[q] = promised[q]
  BY <1>1, <1>3
<1>7. QED
  BY <1>1, <1>4, <1>5, <1>6, CallStep DEF Call

LEMMA TryAddToLastStep ==
    ASSUME IInv, NEW p \in Paths, TryAddRouteToLast(p)
    PROVE  IInv'
<1>1. /\ Call /\ AddRouteToLast(p) /\ UNCHANGED <<phase, funcs, plan, installed, result>>
      /\ funcs \in Seq(Handlers) /\ TypeOK /\ Led
  BY DEF TryAddRouteToLast, IInv, TypeOK
<1>2. /\ table' \in [Paths -> Nat \cup {None}] /\ promised' \in [Paths -> Handlers \cup {None}]
      /\ clean' \in BOOLEAN /\ Led'
      /\ clean' => clean
      /\ \A q \in Paths : clean' /\ promised[q] # None => promised'[q] = promised[q]
  BY <1>1, AddRouteToLastDoes
<1>3. QED
  BY <1>1, <1>2, CallStep DEF Call

LEMMA AddToNoneStep ==
    ASSUME IInv, NEW p \in Paths, AddRouteToNone(p)
    PROVE  IInv'
<1>1. /\ Call /\ UNCHANGED <<funcs, plan, installed, result>>
      /\ table \in [Paths -> Nat \cup {None}] /\ promised \in [Paths -> Handlers \cup {None}]
      /\ funcs \in Seq(Handlers) /\ clean \in BOOLEAN /\ Led
  BY DEF AddRouteToNone, IInv, TypeOK
<1>2. /\ phase' \in {"building", "panicked"} /\ clean' \in BOOLEAN
      /\ table' \in [Paths -> Nat \cup {None}] /\ promised' \in [Paths -> Handlers \cup {None}]
      /\ clean' => clean /\ promised' = promised
  <2>1. CASE phase' = "panicked" /\ UNCHANGED <<table, promised, clean>>
    BY <1>1, <2>1
  <2>2. CASE /\ table' = [table EXCEPT ![p] = Wrapped] /\ phase' = phase
             /\ promised' = [promised EXCEPT ![p] = None] /\ clean' = FALSE
    BY <1>1, <2>2, Constants DEF Call
  <2>3. QED
    BY <2>1, <2>2 DEF AddRouteToNone, AddRoute
<1>3. Led'
  BY <1>1 DEF Led, AddRouteToNone, AddRoute
<1>4. QED
  BY <1>1, <1>2, <1>3, CallStep

LEMMA PopStep ==
    ASSUME IInv, PopHandler
    PROVE  IInv'
<1>1. /\ Call /\ funcs' = SubSeq(funcs, 1, Len(funcs) - 1) /\ clean' = FALSE
      /\ promised' = [p \in Paths |-> IF table[p] = Len(funcs) - 1 THEN None ELSE promised[p]]
      /\ UNCHANGED <<phase, table, plan, installed, result>>
      /\ table \in [Paths -> Nat \cup {None}] /\ promised \in [Paths -> Handlers \cup {None}]
      /\ funcs \in Seq(Handlers) /\ Led
  BY DEF PopHandler, IInv, TypeOK
<1>2. Len(funcs) \in Nat /\ \A i \in 1 .. Len(funcs) - 1 : funcs[i] \in Handlers
  BY <1>1, LenProperties, ElementOfSeq
<1>3. /\ funcs' \in Seq(Handlers)
      /\ Len(funcs') = IF 1 <= Len(funcs) - 1 THEN Len(funcs) - 1 ELSE 0
      /\ \A i \in 1 .. Len(funcs) - 1 : funcs'[i] = funcs[i]
  BY <1>1, <1>2, SubSeqProperties
<1>4. Led'
  BY <1>1, <1>2, <1>3 DEF Led
<1>5. promised' \in [Paths -> Handlers \cup {None}]
  BY <1>1
<1>6. QED
  BY <1>1, <1>3, <1>4, <1>5, CallStep DEF IInv, TypeOK, Call

-----------------------------------------------------------------------------
(* Steps of an `install`, and of a finished router                         *)

LEMMA PlanStep ==
    ASSUME IInv, phase = "building",
           InstallNext \/ InstallEnd \/ \E c \in Compiled : Install(c)
    PROVE  IInv'
<1>1. /\ UNCHANGED <<phase, funcs, table, promised, clean, result>> /\ TypeOK
      /\ InstalledInv /\ PlanInv /\ Led
  BY DEF InstallNext, InstallEnd, Install, builderVars, IInv
<1>2. Led' /\ ServingInv' /\ LeadsRight'
  BY <1>1, NothingRouted DEF Led, IInv
<1>3. CASE \E c \in Compiled : Install(c)
  <2>1. PICK c \in Compiled : Install(c)
    BY <1>3
  <2>2. plan' = [route |-> c, target |-> 1, next |-> 0] /\ installed' = installed
        /\ calls' = calls + 1 /\ calls < MaxCalls
    BY <2>1 DEF Install, Call
  <2>3. TypeOK'
    BY <1>1, <2>2, Constants DEF TypeOK
  <2>4. PlanInv' /\ InstalledInv'
    BY <1>1, <2>2 DEF PlanInv, InstalledInv, Serves
  <2>5. QED
    BY <1>2, <2>3, <2>4 DEF IInv
<1>4. CASE InstallNext
  <2>1. /\ plan.route \in Compiled /\ plan.target \in 1 .. Len(Targets(plan.route))
        /\ plan.next \in Nat /\ plan.next > Len(PlanRoutes) /\ Len(PlanRoutes) \in Nat
        /\ plan' = [plan EXCEPT !.target = @ + 1, !.next = 0]
        /\ calls' = calls /\ installed' = installed
    <3>1. /\ plan.route \in Compiled /\ plan.target \in 1 .. Len(Targets(plan.route))
          /\ plan.next \in Nat
      BY <1>1, <1>4, Constants DEF InstallNext, TypeOK, PlanInv, NoPlan
    <3>2. PlanRoutes \in Seq(Paths)
      BY <3>1, Constants DEF PlanRoutes, PlanTarget
    <3>3. Len(PlanRoutes) \in Nat
      BY <3>2, LenProperties
    <3>4. QED
      BY <1>4, <3>1, <3>3 DEF InstallNext
  <2>0. plan \in [route : Compiled, target : Nat \ {0}, next : Nat]
    BY <1>1, <2>1, Constants DEF TypeOK, NoPlan
  <2>2. /\ plan'.route = plan.route /\ plan'.target = plan.target + 1 /\ plan'.next = 0
        /\ plan' \in [route : Compiled, target : Nat \ {0}, next : Nat]
    <3>1. PICK c \in Compiled, t \in Nat \ {0}, n \in Nat :
            plan = [route |-> c, target |-> t, next |-> n]
      BY <2>0
    <3>2. plan' = [route |-> c, target |-> t + 1, next |-> 0]
      BY <2>1, <3>1
    <3>3. QED
      BY <3>1, <3>2
  <2>3. TypeOK'
    BY <1>1, <2>1, <2>2 DEF TypeOK
  <2>4. clean => Serves(plan.route, plan.target)
    <3>1. SUFFICES ASSUME clean, NEW k \in 1 .. Len(PlanRoutes)
                   PROVE  promised[PlanRoutes[k]] = PlanTarget
      BY DEF Serves, PlanRoutes, PlanTarget
    <3>2. k < plan.next /\ plan.next > 0 /\ plan.route # None
      BY <2>1, Constants
    <3>3. QED
      BY <1>1, <3>1, <3>2 DEF PlanInv
  <2>5. InstalledInv'
    BY <1>1, <2>1 DEF InstalledInv, Serves
  <2>6. PlanInv'
    <3>1. SUFFICES ASSUME clean, NEW t \in 1 .. Len(Targets(plan.route)), t < plan.target + 1
                   PROVE  Serves(plan.route, t)
      BY <1>1, <2>2 DEF PlanInv, Serves
    <3>2. CASE t = plan.target
      BY <2>4, <3>1, <3>2
    <3>3. CASE t # plan.target
      <4>1. t < plan.target /\ plan.route # None
        BY <2>1, <3>1, <3>3, Constants
      <4>2. QED
        BY <1>1, <3>1, <4>1 DEF PlanInv
    <3>4. QED
      BY <3>2, <3>3
  <2>7. QED
    BY <1>2, <2>3, <2>5, <2>6 DEF IInv
<1>5. CASE InstallEnd
  <2>1. /\ plan.route \in Compiled /\ plan.target \in Nat
        /\ plan.target > Len(Targets(plan.route))
        /\ plan' = NoPlan /\ installed' = installed \cup {plan.route} /\ calls' = calls
    BY <1>1, <1>5 DEF InstallEnd, TypeOK, NoPlan
  <2>2. TypeOK'
    BY <1>1, <2>1 DEF TypeOK
  <2>3. PlanInv'
    BY <2>1 DEF PlanInv, NoPlan
  <2>4. clean => \A t \in 1 .. Len(Targets(plan.route)) : Serves(plan.route, t)
    BY <1>1, <2>1, Constants DEF PlanInv
  <2>5. InstalledInv'
    BY <1>1, <2>1, <2>4 DEF InstalledInv, Serves
  <2>6. QED
    BY <1>2, <2>2, <2>3, <2>5 DEF IInv
<1>6. QED
  BY <1>3, <1>4, <1>5

LEMMA InstallPushStep ==
    ASSUME IInv, phase = "building", InstallPush
    PROVE  IInv'
<1>1. /\ plan \in [route : Compiled, target : Nat \ {0}, next : Nat] /\ plan.next = 0
      /\ plan.route \in Compiled /\ plan.target \in 1 .. Len(Targets(plan.route))
      /\ plan' = [plan EXCEPT !.next = 1] /\ funcs' = Append(funcs, PlanTarget)
      /\ UNCHANGED <<phase, table, promised, clean, calls, installed, result>>
      /\ funcs \in Seq(Handlers) /\ InstalledInv /\ PlanInv /\ Led /\ TypeOK
  BY Constants DEF InstallPush, IInv, TypeOK, NoPlan
<1>2. /\ plan' \in [route : Compiled, target : Nat \ {0}, next : Nat]
      /\ plan'.route = plan.route /\ plan'.target = plan.target /\ plan'.next = 1
  BY <1>1
<1>3. PlanTarget \in Handlers /\ PlanTarget' = PlanTarget
  BY <1>1, <1>2, Constants DEF PlanTarget
<1>4. /\ funcs' \in Seq(Handlers) /\ Len(funcs') = Len(funcs) + 1 /\ Len(funcs) \in Nat
      /\ \A i \in 1 .. Len(funcs) : funcs'[i] = funcs[i]
      /\ funcs'[Len(funcs')] = PlanTarget
  BY <1>1, <1>3, AppendProperties, LenProperties
<1>5. TypeOK'
  BY <1>1, <1>2, <1>4 DEF TypeOK
<1>6. Led'
  BY <1>1, <1>4 DEF Led
<1>7. InstalledInv'
  BY <1>1 DEF InstalledInv, Serves
<1>8. PlanInv'
  <2>1. PlanRoutes' \in Seq(Paths)
    BY <1>1, <1>2, Constants DEF PlanRoutes, PlanTarget
  <2>2. \A k \in 1 .. Len(PlanRoutes') : ~(k < plan'.next)
    BY <1>2
  <2>3. clean => \A t \in 1 .. Len(Targets(plan.route)) : t < plan.target => Serves(plan.route, t)
    BY <1>1, Constants DEF PlanInv
  <2>4. PICK c \in Compiled : c = plan.route
    BY <1>1
  <2>5. \A t \in 1 .. Len(Targets(c)) : clean' /\ t < plan'.target => Serves(c, t)'
    BY <1>1, <1>2, <2>3, <2>4 DEF Serves
  <2>6. c = plan'.route
    BY <1>2, <2>4
  <2>7. QED
    BY <1>1, <1>2, <1>3, <1>4, <2>2, <2>4, <2>5, <2>6 DEF PlanInv, Serves
<1>9. QED
  BY <1>1, <1>5, <1>6, <1>7, <1>8, NothingRouted DEF IInv

LEMMA InstallRouteStep ==
    ASSUME IInv, phase = "building", InstallRoute
    PROVE  IInv'
<1> DEFINE p == PlanRoutes[plan.next]
<1>1. /\ TypeOK /\ InstalledInv /\ PlanInv /\ Led
      /\ plan.route # None /\ plan.next > 0 /\ plan.next <= Len(PlanRoutes)
      /\ UNCHANGED <<funcs, calls, installed, result>>
      /\ AddRouteToLast(p)
  BY DEF InstallRoute, IInv
<1>2. /\ plan.route \in Compiled /\ plan.target \in 1 .. Len(Targets(plan.route))
      /\ plan.next \in 1 .. Len(PlanRoutes) /\ p \in Paths
      /\ PlanTarget \in Handlers /\ Len(PlanRoutes) \in Nat
  BY <1>1, PlanPath
<1>3. PICK path \in Paths : path = p
  BY <1>2
<1>4. /\ table' \in [Paths -> Nat \cup {None}] /\ promised' \in [Paths -> Handlers \cup {None}]
      /\ clean' \in BOOLEAN /\ Led'
      /\ clean' => clean /\ IsFree(path)
      /\ clean' => promised'[path] = funcs[Len(funcs)]
      /\ \A q \in Paths : clean' /\ promised[q] # None => promised'[q] = promised[q]
  BY <1>1, <1>3, AddRouteToLastDoes
<1>5. \/ /\ plan' = [plan EXCEPT !.next = @ + 1] /\ phase' = phase
      \/ /\ ~clean' /\ plan' = plan /\ phase' = "panicked"
      \/ /\ ~clean' /\ plan' = NoPlan /\ phase' = phase
  BY <1>3, <1>4 DEF InstallRoute
<1>6. plan \in [route : Compiled, target : Nat \ {0}, next : Nat]
  BY <1>1, <1>2, Constants DEF TypeOK, NoPlan
<1>7. InstalledInv'
  <2>1. ASSUME clean', NEW c \in installed, NEW t \in 1 .. Len(Targets(c))
        PROVE  Serves(c, t)'
    BY <1>1, <1>4, <2>1, ServesKept DEF InstalledInv, TypeOK
  <2>2. QED
    BY <1>1, <2>1 DEF InstalledInv
<1>8. ServingInv' /\ LeadsRight'
  BY <1>1, NothingRouted DEF IInv
<1>9. CASE plan' = [plan EXCEPT !.next = @ + 1] /\ phase' = phase
  <2>1. /\ plan' \in [route : Compiled, target : Nat \ {0}, next : Nat]
        /\ plan'.route = plan.route /\ plan'.target = plan.target /\ plan'.next = plan.next + 1
    BY <1>2, <1>6, <1>9
  <2>2. TypeOK'
    BY <1>1, <1>4, <1>9, <2>1 DEF TypeOK
  <2>3. PlanTarget' = PlanTarget /\ PlanRoutes' = PlanRoutes
    BY <2>1 DEF PlanTarget, PlanRoutes
  <2>0. PICK c \in Compiled : c = plan.route /\ c = plan'.route
    BY <1>2, <2>1
  <2>4. ASSUME clean', NEW t \in 1 .. Len(Targets(c)), t < plan.target
        PROVE  Serves(c, t)'
    <3>1. Serves(c, t)
      BY <1>1, <1>4, <2>0, <2>4 DEF PlanInv
    <3>2. QED
      BY <1>4, <2>4, <3>1, ServesKept
  <2>5. ASSUME clean', NEW k \in 1 .. Len(PlanRoutes), k < plan.next + 1
        PROVE  promised'[PlanRoutes[k]] = PlanTarget
    <3>1. CASE k = plan.next
      BY <1>1, <1>2, <1>3, <1>4, <2>5, <3>1 DEF PlanInv
    <3>2. CASE k # plan.next
      <4>1. promised[PlanRoutes[k]] = PlanTarget
        BY <1>1, <1>2, <1>4, <2>5, <3>2 DEF PlanInv
      <4>2. PlanRoutes[k] \in Paths /\ PlanTarget # None
        BY <1>2, <2>5, RoutePath, Constants DEF PlanRoutes, PlanTarget
      <4>3. QED
        BY <1>4, <2>5, <4>1, <4>2
    <3>3. QED
      BY <3>1, <3>2
  <2>6. PlanInv'
    BY <1>1, <1>2, <2>0, <2>1, <2>3, <2>4, <2>5 DEF PlanInv, Serves
  <2>7. QED
    BY <1>4, <1>7, <1>8, <2>2, <2>6 DEF IInv
<1>10. CASE ~clean' /\ plan' = plan /\ phase' = "panicked"
  <2>1. TypeOK'
    BY <1>1, <1>4, <1>10 DEF TypeOK
  <2>2. PlanInv'
    BY <1>1, <1>10 DEF PlanInv, PlanTarget
  <2>3. QED
    BY <1>4, <1>7, <1>8, <2>1, <2>2 DEF IInv
<1>11. CASE ~clean' /\ plan' = NoPlan /\ phase' = phase
  <2>1. TypeOK'
    BY <1>1, <1>4, <1>11 DEF TypeOK
  <2>2. PlanInv'
    BY <1>11 DEF PlanInv, NoPlan
  <2>3. QED
    BY <1>4, <1>7, <1>8, <2>1, <2>2 DEF IInv
<1>12. QED
  BY <1>5, <1>9, <1>10, <1>11

\* Routing a message, and finishing, leave the builder's part as it is.
LEMMA ServeStep ==
    ASSUME IInv, UNCHANGED <<builderVars, plan, calls, installed>>,
           phase' \in {"serving", "panicked"},
           result'.outcome \in Outcomes, result'.by \in Handlers \cup {None}, LeadsRight'
    PROVE  IInv'
<1>1. TypeOK' /\ Led'
  BY DEF IInv, TypeOK, Led, builderVars
<1>2. InstalledInv' /\ PlanInv'
  BY DEF IInv, InstalledInv, PlanInv, Serves, PlanTarget, PlanRoutes, builderVars
<1>3. QED
  BY <1>1, <1>2 DEF IInv, ServingInv

LEMMA RouteStep ==
    ASSUME IInv, NEW msg \in Messages, RouteFails(msg) \/ RouteTo(msg) \/ RoutePanics(msg)
    PROVE  IInv'
<1> DEFINE p == msg.method
<1>1. /\ p \in Paths /\ funcs \in Seq(Handlers) /\ Len(funcs) \in Nat
      /\ table \in [Paths -> Nat \cup {None}] /\ promised \in [Paths -> Handlers \cup {None}]
      /\ UNCHANGED <<builderVars, plan, calls, installed>> /\ promised' = promised
      /\ Led /\ phase' \in {"serving", "panicked"}
  BY LenProperties DEF Messages, IInv, TypeOK, RouteFails, RouteTo, RoutePanics, builderVars
<1>2. promised[p] # None => table[p] \in 0 .. Len(funcs) - 1 /\ funcs[table[p] + 1] = promised[p]
  BY <1>1 DEF Led
<1>3. CASE RouteFails(msg)
  <2>1. result' = [msg |-> msg, by |-> None, outcome |-> "RouteFailed", back |-> TRUE]
        /\ promised[p] = None
    BY <1>1, <1>2, <1>3, Constants DEF RouteFails
  <2>2. LeadsRight'
    BY <1>1, <2>1 DEF LeadsRight
  <2>3. QED
    BY <1>1, <2>1, <2>2, ServeStep DEF Outcomes
<1>4. CASE RoutePanics(msg)
  <2>1. result' = [msg |-> msg, by |-> None, outcome |-> "panic", back |-> FALSE]
        /\ promised[p] = None
    BY <1>1, <1>2, <1>4 DEF RoutePanics
  <2>2. LeadsRight'
    BY <1>1, <2>1 DEF LeadsRight
  <2>3. QED
    BY <1>1, <2>1, <2>2, ServeStep DEF Outcomes
<1>5. CASE RouteTo(msg)
  <2>1. table[p] \in Nat /\ table[p] + 1 \in 1 .. Len(funcs)
    BY <1>1, <1>5 DEF RouteTo
  <2>2. PICK h \in Handlers : h = funcs[table[p] + 1]
    BY <1>1, <2>1, ElementOfSeq
  <2>3. PICK outcome : outcome = IF h \in Custom THEN "Ok" ELSE HandlerResult(h, msg)
    OBVIOUS
  <2>4. result' = [msg |-> msg, by |-> h, outcome |-> outcome, back |-> outcome # "Ok"]
    BY <1>5, <2>2, <2>3 DEF RouteTo
  <2>5. /\ outcome \in {"Ok", "ParseError", "RequestOnNotifyHandler"}
        /\ outcome = "Ok" /\ msg.is_request => h.is_req
    BY <2>3, Constants DEF HandlerResult
  <2>6. LeadsRight'
    BY <1>1, <1>2, <2>2, <2>4, <2>5 DEF LeadsRight
  <2>7. QED
    BY <1>1, <2>4, <2>5, <2>6, ServeStep DEF Outcomes
<1>6. QED
  BY <1>3, <1>4, <1>5

LEMMA FinishStep ==
    ASSUME IInv, Finish
    PROVE  IInv'
<1>1. /\ UNCHANGED <<builderVars, plan, calls, installed>> /\ result' = result
      /\ phase = "building" /\ phase' = "serving"
  BY DEF Finish
<1>2. LeadsRight'
  BY <1>1, NothingRouted DEF IInv
<1>3. QED
  BY <1>1, <1>2, ServeStep DEF IInv, TypeOK

LEMMA StutterStep ==
    ASSUME IInv, UNCHANGED vars
    PROVE  IInv'
<1>1. TypeOK' /\ Led' /\ ServingInv' /\ LeadsRight'
  BY DEF IInv, TypeOK, Led, ServingInv, LeadsRight, vars, builderVars
<1>2. InstalledInv' /\ PlanInv'
  BY DEF IInv, InstalledInv, PlanInv, Serves, PlanTarget, PlanRoutes, vars, builderVars
<1>3. QED
  BY <1>1, <1>2 DEF IInv

LEMMA Invariant == Spec => []IInv
<1>1. IInv /\ [Next]_vars => IInv'
  <2> SUFFICES ASSUME IInv, [Next]_vars PROVE IInv'
    OBVIOUS
  <2>1. CASE \/ \E h \in Custom : PushHandler(h)
             \/ \E h \in Custom, p \in Paths : TryAddRoutedHandler(p, h)
             \/ \E p \in Paths : TryAddRouteToLast(p)
             \/ \E p \in Paths : AddRouteToNone(p)
             \/ PopHandler
    BY <2>1, PushStep, TryAddStep, TryAddToLastStep, AddToNoneStep, PopStep
  <2>2. CASE /\ phase = "building"
             /\ \/ \E c \in Compiled : Install(c)
                \/ InstallPush \/ InstallRoute \/ InstallNext \/ InstallEnd
    BY <2>2, PlanStep, InstallPushStep, InstallRouteStep
  <2>3. CASE \E msg \in Messages : RouteFails(msg) \/ RouteTo(msg) \/ RoutePanics(msg)
    BY <2>3, RouteStep
  <2>4. CASE Finish \/ UNCHANGED vars
    BY <2>4, FinishStep, StutterStep
  <2>5. QED
    BY <2>1, <2>2, <2>3, <2>4, Steps DEF Install, Call
<1>2. QED
  BY <1>1, InitIInv, PTL DEF Spec

-----------------------------------------------------------------------------
(* Theorems                                                                *)

\* Type correctness: in particular every index in the map is a natural number.
THEOREM TypeCorrect == Spec => []TypeOK
<1>1. IInv => TypeOK
  BY DEF IInv
<1>2. QED
  BY <1>1, Invariant, PTL

\* A path that was registered with Ok leads to its handler, whatever calls of
\* the builder came after.
THEOREM LeadsCorrect == Spec => []LeadsRight
<1>1. IInv => LeadsRight
  BY DEF IInv
<1>2. QED
  BY <1>1, Invariant, PTL

\* Where a constant compiles, the first arm that has a path is the only one.
LEMMA OneArm ==
    ASSUME NEW c \in Compiled, NEW path
    PROVE  LET targets == Targets(c)
               t == MatchIndex(c, targets, path)
               Has(u) == \E k \in 1 .. Len(RouteStrs(c, targets[u])) : RouteStrs(c, targets[u])[k] = path
           IN /\ t # 0 => t \in 1 .. Len(targets) /\ Has(t)
              /\ \A u \in 1 .. Len(targets) : Has(u) => t = u
<1> DEFINE targets == Targets(c)
           Has(u) == \E k \in 1 .. Len(RouteStrs(c, targets[u])) : RouteStrs(c, targets[u])[k] = path
           arms == {t \in 1 .. Len(targets) : Has(t)}
<1>1. MatchIndex(c, targets, path) =
        IF arms = {} THEN 0 ELSE CHOOSE t \in arms : \A u \in arms : t <= u
  BY DEF MatchIndex
<1>2. Len(targets) \in Nat
  BY Constants
<1>3. \A p, q \in Places(c, targets) :
        RouteStrs(c, targets[p[1]])[p[2]] = RouteStrs(c, targets[q[1]])[q[2]] => p = q
  BY DEF Compiled, Compiles, Targets
<1>4. ASSUME NEW t \in arms, NEW u \in arms PROVE t = u
  <2>1. PICK k \in 1 .. Len(RouteStrs(c, targets[t])) : RouteStrs(c, targets[t])[k] = path
    OBVIOUS
  <2>2. PICK l \in 1 .. Len(RouteStrs(c, targets[u])) : RouteStrs(c, targets[u])[l] = path
    OBVIOUS
  <2> HIDE DEF targets
  <2>3. <<t, k>> \in Places(c, targets) /\ <<u, l>> \in Places(c, targets)
    BY DEF Places
  <2>4. QED
    BY <1>3, <2>1, <2>2, <2>3
<1>5. arms # {} => MatchIndex(c, targets, path) \in arms
  <2>1. ASSUME NEW a \in arms PROVE \E t \in arms : \A u \in arms : t <= u
    BY <1>2, <1>4
  <2> HIDE DEF arms
  <2>2. QED
    BY <1>1, <2>1
<1>6. QED
  BY <1>1, <1>4, <1>5

\* What was installed is served: the same variant as by `direct`, and the
\* client's name for every method with a default route.
THEOREM ServesCorrect == Spec => []InstallServes
<1>1. IInv => InstallServes
  <2> SUFFICES ASSUME IInv, clean, NEW c \in installed, NEW msg \in Messages
               PROVE  LET targets == Targets(c)
                          t == MatchIndex(c, targets, msg.method)
                          index == table[msg.method]
                      IN /\ t # 0 =>
                              /\ index \in 0 .. Len(funcs) - 1
                              /\ funcs[index + 1] = targets[t]
                              /\ \/ HandlerResult(targets[t], msg) = DirectResult(c, targets, msg)
                                 \/ msg.is_request /\ ~targets[t].is_req
                         /\ \A u \in 1 .. Len(targets) :
                              /\ ~targets[u].no_default_route /\ ~c.no_default_route
                              /\ msg.method = targets[u].name
                              => t = u
    BY DEF InstallServes
  <2> DEFINE targets == Targets(c)
             t == MatchIndex(c, targets, msg.method)
             Has(u) == \E k \in 1 .. Len(RouteStrs(c, targets[u])) :
                          RouteStrs(c, targets[u])[k] = msg.method
  <2>1. c \in Compiled /\ msg.method \in Paths /\ Len(funcs) \in Nat
    BY LenProperties DEF IInv, TypeOK, Messages
  <2>2. t # 0 => t \in 1 .. Len(targets) /\ Has(t)
    BY <2>1, OneArm
  <2>3. \A u \in 1 .. Len(targets) : Has(u) => t = u
    BY <2>1, OneArm
  <2>4. ASSUME t # 0
        PROVE  table[msg.method] \in 0 .. Len(funcs) - 1 /\ funcs[table[msg.method] + 1] = targets[t]
    <3>1. promised[msg.method] = targets[t]
      BY <2>2, <2>4 DEF IInv, InstalledInv, Serves
    <3>2. targets[t] # None
      BY <2>1, <2>2, <2>4, Constants
    <3>3. QED
      BY <2>1, <3>1, <3>2 DEF IInv, Led
  <2>5. ASSUME t # 0
        PROVE  \/ HandlerResult(targets[t], msg) = DirectResult(c, targets, msg)
               \/ msg.is_request /\ ~targets[t].is_req
    BY <2>5 DEF HandlerResult, DirectResult
  <2>6. ASSUME NEW u \in 1 .. Len(targets), ~targets[u].no_default_route, ~c.no_default_route,
               msg.method = targets[u].name
        PROVE  t = u
    <3>1. RouteStrs(c, targets[u]) = <<targets[u].name>> \o targets[u].routes
      BY <2>6 DEF RouteStrs
    <3>2. targets[u].routes \in Seq(Paths) /\ targets[u].name \in Paths
      BY <2>1, RoutesAssumption DEF Compiled, Targets
    <3>3. Has(u)
      BY <2>6, <3>1, <3>2, LenProperties
    <3>4. QED
      BY <2>3, <3>3
  <2>7. QED
    BY <2>4, <2>5, <2>6
<1>2. QED
  BY <1>1, Invariant, PTL
=============================================================================

------------------------------ MODULE MCRouter ------------------------------
(* Instances of Router for TLC: after the service in tests/macro_wip.rs. *)
EXTENDS Router, TLC

Fn(ident, name, output, routes, no_recv) ==
    [ident |-> ident, name |-> name, output |-> output, routes |-> routes, no_recv |-> no_recv]

Item(method, variant) ==
    [method |-> method, variant |-> variant, braces |-> FALSE, routes |-> << >>,
     no_default_route |-> FALSE]
Braces(method, variant, routes) ==
    [method |-> method, variant |-> variant, braces |-> TRUE, routes |-> routes,
     no_default_route |-> FALSE]

RouteConst(items, no_default_route, direct) ==
    [items |-> items, no_default_route |-> no_default_route, direct |-> direct]

Prods ==
    [fns |-> <<Fn("foo_my_dlfofl", None, None, <<"hey dude">>, FALSE),
               Fn("mono_ser_de_param", None, "i32", << >>, FALSE),
               Fn("tew", None, "i32", << >>, TRUE)>>,
     name_prefix |-> None, route_prefix |-> None, rename_all |-> "camelCase"]

MyRoute == RouteConst(ALL, FALSE, FALSE)
Alias == Braces("mono_ser_de_param", "AliasName", <<"a">>)
OtherRoute == RouteConst(<<Item("foo_my_dlfofl", "OtherAlias"), Alias>>, FALSE, TRUE)
OtherRoute2 == RouteConst(<<Alias>>, TRUE, FALSE)
Twice == RouteConst(<<Item("foo_my_dlfofl", None), Braces("mono_ser_de_param", None, <<"hey dude">>)>>,
                    FALSE, TRUE)
Unknown == RouteConst(<<Item("tew", None)>>, FALSE, FALSE)

AllRoutes == {MyRoute, OtherRoute, OtherRoute2, Twice, Unknown}
OtherRoutes == {OtherRoute, OtherRoute2}

ByHand == {[method |-> "by hand", is_req |-> TRUE]}
AllPaths == {Text(base) : base \in 
    {"foo_my_dlfofl", "mono_ser_de_param", "hey dude", "a", "nobody"}}
=============================================================================

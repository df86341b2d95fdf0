------------------------------ MODULE MCWiring ------------------------------
(* Families of configurations around one of two routed networks, each family
   varying one side of it: addresses, names, links, the rosters.  Names have
   at most eight characters here and addresses four bits. *)
EXTENDS Wiring

MCNameMax == 8
MCNames   == <<<<"a">>, <<"a", "-", "b">>, <<"l", "o", "n", "g", "e", "r", "s">>>>
MCBridges == {<<"br">>}

Link(name, default) ==
  [name |-> name, bridge |-> <<>>, peer |-> "host", address |-> Prefix(5, 2), gateway |-> 4,
   routes |-> <<>>, mac |-> "", default |-> default]
At(ip, if, default)    == [ip |-> ip, interface |-> if, default |-> default]
Edge(host, router, at) == [hostIf |-> host, routerIf |-> router, link |-> at]
Net(gw, gwIf, uplink, attach, flows) ==
  [type |-> "router", gateway |-> gw, gatewayIf |-> gwIf, subnet |-> {}, uplink |-> uplink,
   attach |-> attach, flows |-> flows]
Pairs(attach) == {f \in {<<1, 2>>} : {f[1], f[2]} \subseteq DOMAIN attach}

(* Who is where: rosters of two networks, their gateways and uplinks, and
   the network that has the default routes. *)
Rosters == {<<>>, [c \in {1} |-> 1], [c \in {1, 2} |-> c], [c \in {1, 2} |-> 1], [c \in {2} |-> 3], [c \in {1, 2} |-> c + 2]}
MCAddresses ==
  {[links |-> <<<<>>, <<>>>>,
    nets |-> [n \in {1, 2} |->
                LET at == [c \in DOMAIN r[n] |-> At(r[n][c], <<"e", IF n = 1 THEN "1" ELSE "2">>, n = d)]
                IN  Net(IF n = 1 THEN 8 ELSE g, <<"gw">>,
                        IF n \in e THEN {Edge(<<"up", IF n = 1 THEN "1" ELSE "2">>, <<"up">>, 10 + 2 * n)} ELSE {},
                        at, Pairs(at))]] :
     r \in [{1, 2} -> Rosters], g \in {8, 9, 3}, e \in SUBSET {1, 2}, d \in {1, 2}}

MCNaming ==
  {[links |-> <<<<[Link(<<"c">>, FALSE) EXCEPT !.bridge = <<"br">>, !.peer = ""]>>, <<Link(l, FALSE)>>>>,
    nets |-> [n \in {1} |->
       LET at == [c \in {1, 2} |-> At(c, i, TRUE)]
       IN  Net(8, g, {Edge(h, r, 12)}, at, {<<1, 2>>})]] :
     g \in {<<"gw">>, Lo, <<"vethR", "-", "a">>, <<"/">>, <<>>},
     r \in {<<"up">>, <<"gw">>, Lo, <<"vethR", "-", "a">>, <<"/">>},
     h \in {<<"up">>, <<"br">>, Lo, <<"vethL", "-", "a", "-", "c">>, <<"/">>},
     i \in {<<"e">>, Lo, <<"/">>},
     l \in {<<"c">>, Lo}}

(* Concatenated names: a and b-c against a-b and c, and too long ones. *)
MCHyphens ==
  {[links |-> [c \in s |-> IF c = 3 THEN <<>> ELSE <<Link(IF c = 1 THEN l ELSE <<"c">>, d)>>],
    nets |-> [n \in {1} |-> [Net(8, g, {}, [c \in r |-> At(c, <<"e">>, ~d)], {}) EXCEPT
                !.type = IF sub = {} THEN "router" ELSE "bridge", !.subnet = sub]]] :
     s \in {{1}, {1, 2}, {2, 3}}, r \in {{}, {1}, {1, 2}, {2, 3}},
     l \in {<<"b", "-", "c">>, <<"e">>, <<"t", "o", "o", "-", "l", "o", "n", "g">>},
     d \in BOOLEAN, g \in {<<>>, <<"gw">>}, sub \in {{}, {Prefix(0, 0)}}}

MCLinks ==
  {[links |-> <<<<[Link(<<"c">>, d) EXCEPT !.bridge = b, !.peer = IF b = <<>> THEN "host" ELSE "",
                                           !.address = a, !.gateway = g, !.routes = r, !.mac = m]>>,
               <<>>>>,
    nets |-> [n \in {1} |-> LET at == [c \in k |-> At(c, <<"e">>, c = 2 \/ ~d)]
                            IN  Net(8, <<"gw">>, {}, at, Pairs(at))]] :
     b \in {<<>>, <<"br">>, <<"no">>}, a \in {Prefix(5, 2), Prefix(5, 4)}, g \in {NoAddr, 4, 10},
     r \in {<<>>, <<Prefix(0, 2)>>, <<Prefix(4, 2)>>, <<Prefix(0, 0)>>, <<Prefix(5, 2)>>, <<Prefix(8, 4), Prefix(0, 2)>>},
     m \in {"", "bad"}, d \in BOOLEAN, k \in {{1, 2}, {2}}}

MCTwoLinks ==
  {[links |-> <<<<[Link(<<"c">>, FALSE) EXCEPT !.routes = r, !.mac = "ok"],
                 [Link(<<"d">>, d) EXCEPT !.address = a, !.gateway = g, !.routes = q]>>>>,
    nets |-> [n \in {1} |-> Net(8, <<"gw">>, {}, [c \in k |-> At(c, <<"e">>, ~d)], {})]] :
     a \in {Prefix(6, 2), Prefix(13, 2)}, g \in {NoAddr, 12},
     r \in {<<>>, <<Prefix(12, 2)>>, <<Prefix(0, 0)>>}, q \in {<<>>, <<Prefix(12, 2)>>, <<Prefix(4, 2), Prefix(0, 3)>>},
     d \in BOOLEAN, k \in {{}, {1}}}

MCConfigs == MCAddresses \cup MCNaming \cup MCHyphens \cup MCLinks \cup MCTwoLinks
==============================================================================

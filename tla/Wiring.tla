------------------------------- MODULE Wiring -------------------------------
(***************************************************************************)
(* The plan as the kernel gets it: the netlink requests of clearHostEdge,  *)
(* applyNetwork and applyContainer, in their order, and the kernel's       *)
(* answers.  Nothing fails here by chance (Fabric has that): a request is  *)
(* refused because of what the configuration asked for.  So the question   *)
(* is which configurations that Validate and buildPlan let through can be  *)
(* wired, and where the routes of a wired one lead.                        *)
(***************************************************************************)
EXTENDS Lowering, SequencesExt

CONSTANTS Configs,  \* configurations as decoded, valid or not
          Unusable, \* characters the kernel refuses in a name
          Bridges   \* bridges of the host

Ids(S)    == S \subseteq Nat \ {0} /\ IsFiniteSet(S)
IsList(s) == s \in Seq(Range(s))

Addresses == 0..(Pow[AddrBits] - 1)
Subnets   == [base : Addresses, bits : 0..AddrBits]
NoAddr    == -1

(* Networks and containers are numbered, links and routes are lists. *)
ASSUME WiringAssumption ==
  \A x \in Configs :
    /\ Ids(Networks(x)) /\ Ids(Containers(x)) /\ Containers(x) \subseteq DOMAIN Name
    /\ \A n \in Networks(x) : LET w == x.nets[n]
                              IN  /\ Ids(DOMAIN w.attach) /\ w.gateway \in Addresses
                                  /\ \A c \in DOMAIN w.attach : w.attach[c].ip \in Addresses
                                  /\ \A u, v \in w.uplink : u = v /\ u.link \in Addresses
    /\ \A c \in Containers(x) :
         /\ IsList(x.links[c])
         /\ \A l \in Range(x.links[c]) : /\ l.name \in Seq(STRING) /\ l.address \in Subnets
                                         /\ l.gateway \in Addresses \cup {NoAddr}
                                         /\ l.routes \in Seq(Subnets)

VARIABLES cfg, todo,  \* the plan, and the requests still to make
          ifs,        \* interfaces [ns, name, peer], peer the other end or NoEnd
          addrs,      \* addresses [ns, dev, prefix]
          up,         \* interfaces that are up, <<ns, name>>
          routes,     \* routes added [ns, dst, dev, via, scope]
          refused     \* the kernel refused the request at the head of todo

vars == <<cfg, todo, ifs, addrs, up, routes, refused>>

Host      == <<"host", 0>>
Router(n) == <<"router", n>>
Cont(c)   == <<"container", c>>
Specs(x)  == {Router(n) : n \in Networks(x)} \cup {Cont(c) : c \in Containers(x)}

Lo     == <<"lo">>
NoEnd  == <<Host, <<>>>>

------------------------------------------------------------------------------
(* The requests *)

Del(dev)            == [op |-> "del", ns |-> Host, dev |-> dev]
Add(ns, dev, peer)  == [op |-> "add", ns |-> ns, dev |-> dev, peer |-> peer]
Addr(ns, dev, p)    == [op |-> "addr", ns |-> ns, dev |-> dev, prefix |-> p]
Up(ns, dev)         == [op |-> "up", ns |-> ns, dev |-> dev]
Master(dev, br)     == [op |-> "master", ns |-> Host, dev |-> dev, bridge |-> br]
Mac(ns, dev, m)     == [op |-> "mac", ns |-> ns, dev |-> dev, mac |-> m]
Route(ns, dst, dev, via, scope) ==
  [op |-> "route", ns |-> ns, dst |-> dst, dev |-> dev, via |-> via, scope |-> scope]

If(b, s)         == IF b THEN s ELSE <<>>
InOrder(f)       == FlattenSeq([i \in 1..Max(DOMAIN f \cup {0}) |-> If(i \in DOMAIN f, f[i])])

Uplinked(x)  == {n \in Networks(x) : x.nets[n].uplink # {}}
Uplink(x, n) == CHOOSE u \in x.nets[n].uplink : TRUE

ClearHostEdge(x) == InOrder([n \in Uplinked(x) |-> <<Del(Uplink(x, n).hostIf)>>])
Loopbacks(x) == InOrder([n \in Networks(x) |-> <<Up(Router(n), Lo)>>])
             \o InOrder([c \in Containers(x) |-> <<Up(Cont(c), Lo)>>])

CreateGateway(x, n) ==
  LET r == Router(n)  dev == x.nets[n].gatewayIf
  IN  <<Add(r, dev, NoEnd), Addr(r, dev, Slash32(x.nets[n].gateway)), Up(r, dev)>>

Connect(x, n, c) ==
  LET r == Router(n)  k == Cont(c)  a == x.nets[n].attach[c]  gw == x.nets[n].gateway
  IN  <<Add(r, RouterIf(c), <<k, a.interface>>), Up(r, RouterIf(c)),
        Route(r, Slash32(a.ip), RouterIf(c), NoAddr, "link"),
        Addr(k, a.interface, Slash32(a.ip)), Up(k, a.interface),
        Route(k, Slash32(gw), a.interface, NoAddr, "link")>>
      \o If(OwnsDefault(x, n, c), <<Route(k, Everything, a.interface, gw, "universe")>>)

HostEdgeConnect(x, n) ==
  LET r == Router(n)  u == Uplink(x, n)  at == x.nets[n].attach
  IN  <<Add(Host, u.hostIf, <<r, u.routerIf>>),
        Addr(Host, u.hostIf, Prefix(u.link, AddrBits - 1)), Up(Host, u.hostIf),
        Addr(r, u.routerIf, Prefix(u.link + 1, AddrBits - 1)), Up(r, u.routerIf),
        Route(r, Everything, u.routerIf, u.link, "universe")>>
      \o InOrder([c \in DOMAIN at |-> <<Route(Host, Slash32(at[c].ip), u.hostIf, u.link + 1, "universe")>>])

ApplyNetwork(x, n) == CreateGateway(x, n)
                   \o InOrder([c \in DOMAIN x.nets[n].attach |-> Connect(x, n, c)])
                   \o If(n \in Uplinked(x), HostEdgeConnect(x, n))

LinkConnect(x, c, i) ==
  LET l == x.links[c][i]  h == LinkHostIf(c, l)  k == Cont(c)
  IN  <<Add(Host, h, <<k, l.name>>)>>
      \o If(l.bridge # <<>>, <<Master(h, l.bridge)>>)
      \o <<Up(Host, h)>>
      \o If(l.mac # "", <<Mac(k, l.name, l.mac)>>)
      \o <<Addr(k, l.name, l.address), Up(k, l.name)>>
      \o [j \in DOMAIN l.routes |-> Route(k, l.routes[j], l.name, NoAddr, "universe")]
      \o If(l.default /\ l.gateway # NoAddr, <<Route(k, Everything, l.name, l.gateway, "universe")>>)

ApplyContainer(x, c) == InOrder([i \in DOMAIN x.links[c] |-> LinkConnect(x, c, i)])

ApplyPlan(x) == ClearHostEdge(x) \o Loopbacks(x)
             \o InOrder([n \in Networks(x) |-> ApplyNetwork(x, n)])
             \o InOrder([c \in Containers(x) |-> ApplyContainer(x, c)])

------------------------------------------------------------------------------
(* The kernel *)

Clean(s)       == s # <<>> /\ \A i \in DOMAIN s : s[i] \notin Unusable
Usable(s)      == Clean(s) /\ Len(s) <= NameMax
There(ns, dev) == \E i \in ifs : i.ns = ns /\ i.name = dev
Free(end)      == Usable(end[2]) /\ ~There(end[1], end[2])

(* The route an address with a network brings up with its interface. *)
Connected == {[ns |-> a.ns, dst |-> Masked(a.prefix), dev |-> a.dev, via |-> NoAddr, scope |-> "link"] :
                a \in {b \in addrs : b.prefix.bits < AddrBits /\ <<b.ns, b.dev>> \in up}}
Fib       == routes \cup Connected

(* A next hop must be on the link: a route of link scope leads there.  Whether
   it is an address of the namespace itself is not looked at. *)
OnLink(ns, dev, via) ==
  \E r \in Fib : r.ns = ns /\ r.dev = dev /\ r.scope = "link" /\ Covers(r.dst, via)

Takes(r) ==
  CASE r.op = "del"    -> r.dev # Lo
    [] r.op = "add"    -> Free(<<r.ns, r.dev>>) /\ (r.peer # NoEnd => Free(r.peer))
    [] r.op = "master" -> \E i \in ifs : i.ns = Host /\ i.name = r.bridge /\ i.peer = NoEnd
    [] r.op = "mac"    -> r.mac # "bad"
    [] r.op = "route"  -> /\ Masked(r.dst) = r.dst
                          /\ \A q \in Fib : q.ns = r.ns => q.dst # r.dst
                          /\ r.via # NoAddr => OnLink(r.ns, r.dev, r.via)
    [] OTHER           -> TRUE

(* buildPlan and the preflight have passed it. *)
Preflight(x) == \A c \in Containers(x) : \A i \in DOMAIN x.links[c] :
                   x.links[c][i].bridge \in Bridges \cup {<<>>}
Accepted(x)  == Validate(x) /\ Lowers(x) /\ Preflight(x)

Init == /\ cfg \in {x \in Configs : Accepted(x)}
        /\ todo = ApplyPlan(cfg)
        /\ ifs = {[ns |-> s, name |-> Lo, peer |-> NoEnd] : s \in Specs(cfg) \cup {Host}}
                 \cup {[ns |-> Host, name |-> b, peer |-> NoEnd] : b \in Bridges}
        /\ addrs = {} /\ routes = {}
        /\ up = {<<Host, b>> : b \in Bridges}
        /\ refused = FALSE

Request(op) == /\ todo # <<>> /\ ~refused
               /\ Head(todo).op = op /\ Takes(Head(todo))
               /\ todo' = Tail(todo)
               /\ UNCHANGED <<cfg, refused>>

LinkDel == /\ Request("del")
           /\ ifs' = {i \in ifs : i.ns # Host \/ i.name # Head(todo).dev}
           /\ up' = up \ {<<Host, Head(todo).dev>>}
           /\ UNCHANGED <<addrs, routes>>

LinkAdd == /\ Request("add")
           /\ LET r == Head(todo)
                  near == [ns |-> r.ns, name |-> r.dev, peer |-> r.peer]
                  far  == [ns |-> r.peer[1], name |-> r.peer[2], peer |-> <<r.ns, r.dev>>]
              IN  ifs' = ifs \cup {near} \cup (IF r.peer = NoEnd THEN {} ELSE {far})
           /\ UNCHANGED <<addrs, up, routes>>

AddrAdd == /\ Request("addr")
           /\ addrs' = addrs \cup {[ns |-> Head(todo).ns, dev |-> Head(todo).dev, prefix |-> Head(todo).prefix]}
           /\ UNCHANGED <<ifs, up, routes>>

LinkSetUp == /\ Request("up")
             /\ up' = up \cup {<<Head(todo).ns, Head(todo).dev>>}
             /\ UNCHANGED <<ifs, addrs, routes>>

RouteAdd == /\ Request("route")
            /\ LET r == Head(todo)
               IN  routes' = routes \cup {[ns |-> r.ns, dst |-> r.dst, dev |-> r.dev, via |-> r.via, scope |-> r.scope]}
            /\ UNCHANGED <<ifs, addrs, up>>

(* Membership of a bridge and the hardware address are not looked at again. *)
LinkSetMaster       == Request("master") /\ UNCHANGED <<ifs, addrs, up, routes>>
LinkSetHardwareAddr == Request("mac") /\ UNCHANGED <<ifs, addrs, up, routes>>

Refuse == /\ todo # <<>> /\ ~refused /\ ~Takes(Head(todo))
          /\ refused' = TRUE
          /\ UNCHANGED <<cfg, todo, ifs, addrs, up, routes>>

Next == \/ LinkDel \/ LinkAdd \/ AddrAdd \/ LinkSetUp \/ RouteAdd
        \/ LinkSetMaster \/ LinkSetHardwareAddr \/ Refuse

Spec == Init /\ [][Next]_vars
Wired == todo = <<>>

------------------------------------------------------------------------------
(* Where packets go *)

Local(ns, a) == \E x \in addrs : x.ns = ns /\ x.prefix.base = a
Matching(ns, a) == {r \in Fib : r.ns = ns /\ Covers(r.dst, a)}
Best(ns, a)  == {r \in Matching(ns, a) : \A q \in Matching(ns, a) : q.dst.bits <= r.dst.bits}

(* The namespaces a packet for a may enter next from ns. *)
Hops(ns, a) == IF Local(ns, a) THEN {ns}
               ELSE {i.peer[1] : i \in {j \in ifs : \E r \in Best(ns, a) : j.ns = ns /\ j.name = r.dev}}

(* A link may take an address for its own network, that is its purpose; and
   nothing keeps an address from being given to one container on one network
   and to its peer on another. *)
Captured(c, a) ==
  \/ \E n \in NetsOf(cfg, c) : cfg.nets[n].attach[c].ip = a
  \/ \E i \in DOMAIN cfg.links[c] :
        LET l == cfg.links[c][i]
        IN  Covers(l.address, a) \/ \E j \in DOMAIN l.routes : Covers(l.routes[j], a)

(* Nor is an address kept from the gateways and from the ends of uplinks: who
   has it answers for itself. *)
Taken(a) == \E n \in Networks(cfg) : \/ a = cfg.nets[n].gateway
                                     \/ \E u \in cfg.nets[n].uplink : a \in {u.link, u.link + 1}

------------------------------------------------------------------------------
(* Properties *)

(* Every request is for a namespace that Bootstrap was asked for, so no
   descriptor is missing from the Set (plan.Specs against apply.go:54, 83,
   125). *)
TypeOK == /\ refused \in BOOLEAN
          /\ \A i \in DOMAIN todo : todo[i].ns \in Specs(cfg) \cup {Host}
          /\ \A i \in DOMAIN todo : todo[i].op = "add" => todo[i].peer[1] \in Specs(cfg) \cup {Host}
          /\ \A r \in routes : There(r.ns, r.dev)

(* The two defaults of a container never meet: the rule of one default in
   crossCutting and the sole interface of ownsDefault count the same
   interfaces, though one runs on the configuration and the other in the
   lowering of a network. *)
DefaultUncontested ==
  refused => LET r == Head(todo)
             IN  ~ /\ r.op = "route" /\ r.dst = Everything /\ r.via # NoAddr
                   /\ \E q \in routes : q.ns = r.ns /\ q.dst = Everything /\ q.via # NoAddr

(* In a wired plan a flow's packets go from its source to the router of the
   network and on to its target, at the address the hosts file has for it,
   and the replies go back the same way, when that network has the default
   route of both; and the host reaches each container of an uplinked network
   through its router. *)
Delivered ==
  Wired => \A n \in Networks(cfg) :
    LET at == cfg.nets[n].attach
        Home(c, a) == /\ at[c].default \/ Ifaces(cfg, c) = {<<"net", n>>}
                      /\ ~Captured(c, a) /\ ~Taken(a)
        Through(c, d) == /\ Hops(Cont(c), at[d].ip) = {Router(n)}
                         /\ Hops(Router(n), at[d].ip) = {Cont(d)}
                         /\ Local(Cont(d), at[d].ip)
    IN  /\ \A c \in Containers(cfg) : \A t \in Peers(cfg, c) \ {c} :
             /\ n = Max(PeerNets(cfg, c, t))
             /\ Home(c, at[t].ip) /\ Home(t, at[c].ip)
             => /\ PeerAddr(cfg, c, t) = at[t].ip
                /\ Through(c, t) /\ Through(t, c)
        /\ n \in Uplinked(cfg) => \A c \in DOMAIN at : ~Taken(at[c].ip) =>
             /\ Hops(Host, at[c].ip) = {Router(n)}
             /\ Hops(Router(n), at[c].ip) = {Cont(c)}

(* What Validate would have to ask for, beyond what it does. *)
Apart(S, F(_)) == \A i, j \in S : i # j => F(i) # F(j)

NamesFit(x) ==
  LET AllLinks == UNION {{c} \X DOMAIN x.links[c] : c \in Containers(x)}
      L(p)     == x.links[p[1]][p[2]]
      HostName(p) == LinkHostIf(p[1], L(p))
      HostIfs  == {Uplink(x, n).hostIf : n \in Uplinked(x)}
  IN  /\ Apart(Uplinked(x), LAMBDA n : Uplink(x, n).hostIf)
      /\ Apart(AllLinks, HostName)
      /\ HostIfs \cap ({HostName(p) : p \in AllLinks} \cup {Lo}) = {}
      /\ \A p \in AllLinks : /\ HostName(p) \notin Bridges \ HostIfs
                             /\ L(p).bridge \notin HostIfs
                             /\ L(p).name # Lo /\ Clean(L(p).name) /\ Clean(HostName(p))
      /\ \A n \in Networks(x) :
           LET ends == {RouterIf(c) : c \in DOMAIN x.nets[n].attach}
               own  == {x.nets[n].gatewayIf} \cup {u.routerIf : u \in x.nets[n].uplink}
           IN  /\ own \cap (ends \cup {Lo}) = {}
               /\ Cardinality(own) = 1 + Cardinality(x.nets[n].uplink)
               /\ \A s \in own \cup ends \cup {u.hostIf : u \in x.nets[n].uplink} : Clean(s)
               /\ \A c \in DOMAIN x.nets[n].attach : LET s == x.nets[n].attach[c].interface
                                                    IN  s # Lo /\ Clean(s)

RoutesFit(x) ==
  /\ \A n \in Networks(x) : Apart(DOMAIN x.nets[n].attach, LAMBDA c : x.nets[n].attach[c].ip)
  /\ \A m, n \in Uplinked(x) : m # n =>
       \A c \in DOMAIN x.nets[m].attach, d \in DOMAIN x.nets[n].attach :
          x.nets[m].attach[c].ip # x.nets[n].attach[d].ip
  /\ \A c \in Containers(x) :
       LET ls  == x.links[c]
           gws == {Slash32(x.nets[n].gateway) : n \in NetsOf(x, c)}
           def == {Everything : n \in {m \in NetsOf(x, c) : OwnsDefault(x, m, c)}}
           (* routes link i finds when it adds its j-th *)
           before(i, j) ==
             gws \cup def \cup {Masked(ls[k].address) : k \in {q \in 1..i : ls[q].address.bits < AddrBits}}
                 \cup (UNION {{ls[k].routes[m] : m \in {q \in DOMAIN ls[k].routes : k < i \/ q < j}} : k \in 1..i})
                 \cup {Everything : k \in {q \in 1..(i - 1) : ls[q].default /\ ls[q].gateway # NoAddr}}
       IN  /\ Apart(NetsOf(x, c), LAMBDA n : x.nets[n].gateway)
           /\ \A i \in DOMAIN ls :
                /\ ls[i].mac # "bad"
                /\ \A j \in DOMAIN ls[i].routes : /\ Masked(ls[i].routes[j]) = ls[i].routes[j]
                                                  /\ ls[i].routes[j] \notin before(i, j)
                /\ ls[i].default /\ ls[i].gateway # NoAddr =>
                     /\ Covers(ls[i].address, ls[i].gateway) /\ ls[i].address.bits < AddrBits
                     /\ Everything \notin before(i, Len(ls[i].routes) + 1)

(* A plan is wired to the end exactly when the names and the routes it asks
   for fit together: nothing else that passes validation is refused, and
   nothing that does not fit passes by the kernel, whatever the order. *)
Exact == /\ Wired => NamesFit(cfg) /\ RoutesFit(cfg)
         /\ refused => ~(NamesFit(cfg) /\ RoutesFit(cfg))

(* apply.go:4-6: apply's only errors are runtime faults, never configuration. *)
ApplyTotal == ~refused
==============================================================================

------------------------------- MODULE Policy -------------------------------
(***************************************************************************)
(* What one network's rules do to traffic: the flows of turnip.json, the   *)
(* ruleset and sysctls lowered from them (cmd/turnip/plan.go,              *)
(* internal/dataplane nft.go and hostedge.go), and the connection tracking *)
(* they lean on in the router's namespace.                                 *)
(*                                                                         *)
(* A flow allows one side to open connections; the way back is open only   *)
(* while the kernel remembers that it did.  So what a container can be     *)
(* reached by depends on the rules, on the order they stand in, on what    *)
(* has been forwarded so far, and on the namespace being a new one after   *)
(* every `turnip up`.                                                      *)
(***************************************************************************)
EXTENDS Integers, Sequences, FiniteSets

CONSTANTS Conts,      \* containers attached to the network
          World,      \* peers beyond the uplink
          Listens,    \* addresses of the host
          Ports,      \* transport ports
          Any,        \* an address, a port or a protocol left open
          Files,      \* flow lists a turnip.json may hold
          MaxConns    \* connections the kernel tracks at most

Gateway == "gateway"  \* the router's own address
Uplink  == "uplink"   \* the router's end of the /31

Protos == {"tcp", "udp", "icmp"}
NoPort == 0           \* icmp has none

Flow == [type : {"internal"}, from : Conts, to : Conts, proto : Protos,
         port : Ports \union {Any}]
  \union [type : {"egress"}, from : Conts, protos : {{Any}} \union SUBSET Protos,
          port : Ports \union {Any}]
  \union [type : {"ingress"}, to : Conts, proto : {"tcp", "udp"}, hport : Ports,
          port : Ports, listen : Listens \union {Any}]

ASSUME PolicyAssumption == /\ Files \subseteq Seq(Flow)
                           /\ MaxConns \in Nat
                           /\ NoPort \notin Ports
                           /\ Any \notin Ports /\ Any \notin Listens /\ Any \notin Protos
                           /\ Conts \intersect World = {}
                           /\ {Gateway, Uplink} \intersect (Conts \union World) = {}

VARIABLES flows,      \* the flows `turnip up` last applied
          ct          \* connections tracked in the router's namespace

vars == <<flows, ct>>

Rows(type) == {f \in {flows[i] : i \in DOMAIN flows} : f.type = type}

------------------------------------------------------------------------------
(***************************************************************************)
(* What `turnip up` refuses.                                               *)
(***************************************************************************)

(* crossCutting: host_port collisions, keyed by (listen, proto, host_port). *)
Validated(fs) ==
  \A i, j \in DOMAIN fs :
    /\ fs[i].type = "ingress" /\ fs[j].type = "ingress"
    /\ fs[i].listen = fs[j].listen
    /\ fs[i].proto = fs[j].proto
    /\ fs[i].hport = fs[j].hport
    => i = j

(* buildFlows: internal flows have a transport port. *)
Lowers(fs) == \A i \in DOMAIN fs : fs[i].type = "internal" =>
                                     fs[i].proto # "icmp" /\ fs[i].port # Any

Accepted == {fs \in Files : Validated(fs) /\ Lowers(fs)}

------------------------------------------------------------------------------
(***************************************************************************)
(* The lowering: what of the flows reaches the rules.                      *)
(***************************************************************************)

(* buildFlows: the keys of the allowed_flows map. *)
AllowedFlows == {<<f.from, f.to, f.proto, f.port>> : f \in Rows("internal")}

(* buildEgressAllows: one allow per source, wide or a set of scopes. *)
EgressAllow(c) ==
  LET own == {f \in Rows("egress") : f.from = c}
  IN [all   |-> \E f \in own : f.protos = {Any},
      rules |-> UNION {{<<p, f.port>> : p \in f.protos \ {Any}} : f \in own}]

(* buildIngress: the allows are on the container's port. *)
IngressAllows == {<<f.to, f.proto, f.port>> : f \in Rows("ingress")}

(* buildIngress: one DNAT rule per flow, in their order. *)
Matches(f, addr, proto, hport) == /\ f.type = "ingress"
                                  /\ f.listen \in {Any, addr}
                                  /\ f.proto = proto
                                  /\ f.hport = hport

(* BuildHostNFT: the first rule that matches wins. *)
FirstOf(hits) == IF hits = {} THEN <<>>
                 ELSE LET i == CHOOSE i \in hits : \A j \in hits : i <= j
                      IN <<flows[i].to, flows[i].port>>

(* Variant: the rule does not match on the protocol. *)
Dnat_AnyProto(addr, proto, hport) ==
  FirstOf({i \in DOMAIN flows : \E p \in Protos : Matches(flows[i], addr, p, hport)})

(* Where the host sends what arrives for one of its ports: <<>> if nowhere. *)
Dnat(addr, proto, hport) ==
  FirstOf({i \in DOMAIN flows : Matches(flows[i], addr, proto, hport)})

------------------------------------------------------------------------------
(***************************************************************************)
(* The router: routing, connection tracking, rules.                        *)
(***************************************************************************)
Nodes == Conts \union World

(* A packet names no sender but the one it claims; "first" is a TCP SYN or an
   ICMP request. *)
Packets ==
  {p \in [iif : Conts \union {Uplink}, src : Nodes, sport : Ports \union {NoPort},
          dst : Nodes \union {Gateway}, dport : Ports \union {NoPort},
          proto : Protos, first : BOOLEAN] :
     /\ p.src # p.dst
     /\ p.dst # p.iif
     /\ (p.proto = "icmp") <=> (p.sport = NoPort)
     /\ (p.proto = "icmp") <=> (p.dport = NoPort)
     /\ p.proto = "udp" => p.first}

(* Connect's /32 device routes, HostEdgeConnect's default route. *)
Route(x) == IF x \in Conts THEN x ELSE Uplink

(* Variant: conf.default.rp_filter is left as the host had it. *)
Rpf_Off(p) == TRUE

(* Strict rp_filter: the way back to the source is the way it came. *)
Rpf(p) == p.iif = Route(p.src)

Original(p) == {e \in ct : /\ e.src = p.src /\ e.dst = p.dst /\ e.proto = p.proto
                           /\ e.sport = p.sport /\ e.dport = p.dport}
Reply(p)    == {e \in ct : /\ e.src = p.dst /\ e.dst = p.src /\ e.proto = p.proto
                           /\ e.sport = p.dport /\ e.dport = p.sport}

(* With tcp_loose = 0 a connection is known from its first packet or not. *)
CtState(p) ==
  IF Reply(p) # {} \/ (\E e \in Original(p) : e.replied) THEN "established"
  ELSE IF p.first THEN "new"
  ELSE "invalid"

(* Variant: the rule forgets the interface. *)
EgressRule_AnyInterface(p) ==
  /\ p.src \in Conts
  /\ \/ EgressAllow(p.src).all
     \/ \E r \in EgressAllow(p.src).rules :
          r[1] = p.proto /\ (r[1] = "icmp" \/ r[2] = Any \/ r[2] = p.dport)

EgressRule(p) ==
  /\ Route(p.dst) = Uplink
  /\ p.src \in Conts
  /\ \/ EgressAllow(p.src).all
     \/ \E r \in EgressAllow(p.src).rules :
          r[1] = p.proto /\ (r[1] = "icmp" \/ r[2] = Any \/ r[2] = p.dport)

IngressRule(p) == p.iif = Uplink /\ <<p.dst, p.proto, p.dport>> \in IngressAllows

(* The forward chain, policy drop. *)
Forward(p) == \/ CtState(p) = "established"
              \/ /\ CtState(p) = "new"
                 /\ \/ <<p.src, p.dst, p.proto, p.dport>> \in AllowedFlows
                    \/ EgressRule(p)
                    \/ IngressRule(p)

(* The input chain, policy drop. *)
Input(p) == CtState(p) = "established" \/ p.proto = "icmp"

Accept(p) == Rpf(p) /\ IF p.dst = Gateway THEN Input(p) ELSE Forward(p)

------------------------------------------------------------------------------
Init == flows \in Accepted /\ ct = {}

(* A packet the router accepts; what it drops leaves no trace. *)
Transit(p) ==
  /\ Accept(p)
  /\ IF Original(p) \union Reply(p) = {}
     THEN /\ CtState(p) = "new"
          /\ Cardinality(ct) < MaxConns
          /\ ct' = ct \union {[by |-> p.iif, src |-> p.src, sport |-> p.sport,
                               dst |-> p.dst, dport |-> p.dport, proto |-> p.proto,
                               replied |-> FALSE]}
     ELSE ct' = {IF e \in Reply(p) THEN [e EXCEPT !.replied = TRUE] ELSE e : e \in ct}
  /\ UNCHANGED flows

(* The kernel forgets an idle connection. *)
Expire(e) == /\ e \in ct
             /\ ct' = ct \ {e}
             /\ UNCHANGED flows

(* Variant: the namespace, and what it tracks, is kept. *)
Reload_KeepsNetns(fs) == /\ fs \in Accepted
                         /\ flows' = fs
                         /\ UNCHANGED ct

(* Variant: the configuration is not validated. *)
Reload_Unchecked(fs) == /\ fs \in Files
                        /\ flows' = fs
                        /\ ct' = {}

(* `turnip up` with an edited file: the router's namespace is a new one. *)
Reload(fs) == /\ fs \in Accepted
              /\ flows' = fs
              /\ ct' = {}

Next == \/ \E p \in Packets : Transit(p)
        \/ \E e \in ct : Expire(e)
        \/ \E fs \in Files : Reload(fs)

Spec == Init /\ [][Next]_vars

------------------------------------------------------------------------------
(***************************************************************************)
(* Properties.                                                             *)
(***************************************************************************)

(* What the flows say, row by row and with no rule in sight: may `src` open a
   connection to `port` of `dst`?  (docs/TEST-PLAN.md, sections 3 and 4) *)
Covers(f, c) ==
  CASE f.type = "internal" -> /\ c.src = f.from /\ c.dst = f.to
                              /\ c.proto = f.proto /\ c.dport = f.port
    [] f.type = "egress"   -> /\ c.src = f.from /\ c.dst \in World
                              /\ \/ f.protos = {Any}
                                 \/ /\ c.proto \in f.protos
                                    /\ c.proto = "icmp" \/ f.port \in {Any, c.dport}
    [] f.type = "ingress"  -> /\ c.src \in World /\ c.dst = f.to
                              /\ c.proto = f.proto /\ c.dport = f.port

Declared(c) == \/ c.dst = Gateway /\ c.proto = "icmp"
               \/ \E i \in DOMAIN flows : Covers(flows[i], c)

Conn == [by : Conts \union {Uplink}, src : Nodes, sport : Ports \union {NoPort},
         dst : Nodes \union {Gateway}, dport : Ports \union {NoPort}, proto : Protos,
         replied : BOOLEAN]

TypeOK == flows \in Accepted /\ ct \subseteq Conn

(* Rules and flows agree on who may open what: no row is lost in lowering, none
   is widened by another (nft.go:67-150, plan.go:329-409). *)
Faithful == \A p \in Packets :
              Rpf(p) /\ p.first /\ Original(p) \union Reply(p) = {} =>
                (Accept(p) <=> Declared(p))

(* Who can have sent the packet that opened a connection, whatever name it went
   under: the container behind the interface it came in by, or a peer. *)
Openers(e) == IF e.by = Uplink THEN World ELSE {e.by}

(* Whatever is still open, the flows of today let its opener open: no container
   gets in another's name what its own flows do not give it, nobody outside in
   a container's, and a flow that is removed takes its connections along, though
   the first rule of the chain would let them through (nft.go:89,
   up.go:123-124, plan.go:287-292; docs/TEST-PLAN.md BAD-1, BAD-2, BAD-5). *)
Directional ==
  \A e \in ct : \E x \in Openers(e) : Declared([e EXCEPT !.src = x])

(* A port of the host leads, on each of its addresses, to the container of a row
   that publishes it there, past the router's rules, and nowhere if there is no
   such row: it is the row's own if only one listens there, and one of them
   where crossCutting lets a wildcard listen and a specific one share the port
   (hostedge.go:100-122, nft.go:137-150, validate.go:307-331). *)
Published ==
  \A addr \in Listens, proto \in Protos, hport \in Ports :
    LET rows == {f \in Rows("ingress") : Matches(f, addr, proto, hport)}
    IN IF rows = {} THEN Dnat(addr, proto, hport) = <<>>
       ELSE \E f \in rows :
              /\ Dnat(addr, proto, hport) = <<f.to, f.port>>
              /\ \A w \in World, s \in Ports :
                   Accept([iif |-> Uplink, src |-> w, sport |-> s, dst |-> f.to,
                           dport |-> f.port, proto |-> proto, first |-> TRUE])

------------------------------------------------------------------------------
(* What the repository's documents say of the program, and it does not do. *)

(* hostedge.go:86: "An unspecified Listen (0.0.0.0) matches any host
   address": what a container sends to a peer, and the router lets out, is not
   for an address of the host, and arrives where it is sent
   (docs/TEST-PLAN.md, EG-1 and EG-5). *)
EgressArrives ==
  \A p \in Packets :
    p.dst \in World /\ p.iif \in Conts /\ p.first /\ Accept(p)
      => Dnat(p.dst, p.proto, p.dport) = <<>>
==============================================================================

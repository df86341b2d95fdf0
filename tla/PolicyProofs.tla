---------------------------- MODULE PolicyProofs ----------------------------
(***************************************************************************)
(* Proofs about Policy: for any containers, peers, ports and accepted      *)
(* flows, the rules open what the flows declare and nothing else, and no   *)
(* sequence of packets, expiries and reloads leaves anything else open.    *)
(*                                                                         *)
(* The argument: a packet that opens a connection is a first packet, for   *)
(* which the chain comes down to the three kinds of allow, and each kind   *)
(* is the flows of its type (Faithful); an entry keeps the names of the    *)
(* packet that made it until the flows change, and then it is gone.        *)
(***************************************************************************)
EXTENDS Policy, TLAPS, WellFoundedInduction

(* The rows of a type are flows of that type. *)
LEMMA RowFacts ==
  ASSUME TypeOK
  PROVE  /\ \A f \in Rows("internal") :
              f \in [type : {"internal"}, from : Conts, to : Conts, proto : Protos,
                     port : Ports \union {Any}]
         /\ \A f \in Rows("egress") :
              f \in [type : {"egress"}, from : Conts, protos : {{Any}} \union SUBSET Protos,
                     port : Ports \union {Any}]
         /\ \A f \in Rows("ingress") :
              f \in [type : {"ingress"}, to : Conts, proto : {"tcp", "udp"}, hport : Ports,
                     port : Ports, listen : Listens \union {Any}]
<1>1. flows \in Seq(Flow)
  BY PolicyAssumption DEF TypeOK, Accepted
<1>2. \A i \in DOMAIN flows : flows[i] \in Flow
  BY <1>1
<1> QED BY <1>2 DEF Rows, Flow

(* What the rules see of a packet, and a flow covers, is in four fields. *)
LEMMA CoversSame ==
  ASSUME NEW c, NEW d, c.src = d.src, c.dst = d.dst, c.proto = d.proto, c.dport = d.dport
  PROVE  Declared(c) <=> Declared(d)
BY DEF Declared, Covers

(* A flow declares what a row of one of the three types covers. *)
LEMMA DeclaredByRow ==
  ASSUME TypeOK, NEW c
  PROVE  Declared(c) <=>
           \/ c.dst = Gateway /\ c.proto = "icmp"
           \/ \E f \in Rows("internal") : Covers(f, c)
           \/ \E f \in Rows("egress") : Covers(f, c)
           \/ \E f \in Rows("ingress") : Covers(f, c)
<1>1. flows \in Seq(Flow)
  BY PolicyAssumption DEF TypeOK, Accepted
<1>2. \A i \in DOMAIN flows : flows[i].type \in {"internal", "egress", "ingress"}
  BY <1>1 DEF Flow
<1> QED BY <1>2 DEF Declared, Rows

(* The fields of a packet. *)
LEMMA PacketFacts ==
  ASSUME NEW p \in Packets
  PROVE  /\ p.iif \in Conts \union {Uplink}
         /\ p.src \in Conts \union World
         /\ p.dst \in Conts \union World \union {Gateway}
         /\ p.proto \in Protos /\ p.proto # Any
         /\ p.first \in BOOLEAN
BY PolicyAssumption DEF Packets, Nodes

(* The map: one way, from the flows of type internal. *)
LEMMA InternalRule ==
  ASSUME TypeOK, NEW p \in Packets
  PROVE  <<p.src, p.dst, p.proto, p.dport>> \in AllowedFlows <=>
           \E f \in Rows("internal") : Covers(f, p)
<1>1. \A f \in Rows("internal") : f.type = "internal"
  BY DEF Rows
<1> QED BY <1>1 DEF AllowedFlows, Covers

(* The egress allows: folding the rows of a source loses and widens none. *)
LEMMA EgressRows ==
  ASSUME TypeOK, NEW p \in Packets, p.dst # Gateway
  PROVE  EgressRule(p) <=> \E f \in Rows("egress") : Covers(f, p)
<1>1. \A f \in Rows("egress") : /\ f.type = "egress" /\ f.from \in Conts
                                /\ f.protos = {Any} \/ f.protos \subseteq Protos
  BY RowFacts
<1>2. Any \notin Protos /\ p.proto \in Protos
  BY PolicyAssumption, PacketFacts
<1>3. Route(p.dst) = Uplink <=> p.dst \in World
  BY PacketFacts, PolicyAssumption DEF Route
<1>4. \A f \in Rows("egress") : Covers(f, p) <=>
        /\ p.src = f.from /\ p.dst \in World
        /\ \/ f.protos = {Any}
           \/ p.proto \in f.protos /\ (p.proto = "icmp" \/ f.port \in {Any, p.dport})
  BY <1>1 DEF Covers
<1>5. EgressAllow(p.src).all <=>
        \E f \in Rows("egress") : f.from = p.src /\ f.protos = {Any}
  BY DEF EgressAllow
<1>6. (\E r \in EgressAllow(p.src).rules :
         r[1] = p.proto /\ (r[1] = "icmp" \/ r[2] = Any \/ r[2] = p.dport)) <=>
      \E f \in Rows("egress") :
         /\ f.from = p.src /\ p.proto \in f.protos
         /\ p.proto = "icmp" \/ f.port \in {Any, p.dport}
  <2>1. \A r : r \in EgressAllow(p.src).rules <=>
               \E f \in Rows("egress") : f.from = p.src /\
                 \E q \in f.protos \ {Any} : r = <<q, f.port>>
    BY DEF EgressAllow
  <2>2. ASSUME NEW f \in Rows("egress"), f.from = p.src, p.proto \in f.protos,
               p.proto = "icmp" \/ f.port \in {Any, p.dport}
        PROVE  \E r \in EgressAllow(p.src).rules :
                 r[1] = p.proto /\ (r[1] = "icmp" \/ r[2] = Any \/ r[2] = p.dport)
    <3>1. <<p.proto, f.port>> \in EgressAllow(p.src).rules
      BY <2>1, <2>2, <1>2
    <3> QED BY <3>1, <2>2
  <2>3. ASSUME NEW r \in EgressAllow(p.src).rules,
               r[1] = p.proto /\ (r[1] = "icmp" \/ r[2] = Any \/ r[2] = p.dport)
        PROVE  \E f \in Rows("egress") :
                 /\ f.from = p.src /\ p.proto \in f.protos
                 /\ p.proto = "icmp" \/ f.port \in {Any, p.dport}
    <3>1. PICK f \in Rows("egress") : f.from = p.src /\
                 \E q \in f.protos \ {Any} : r = <<q, f.port>>
      BY <2>1, <2>3
    <3>2. p.proto \in f.protos /\ r[2] = f.port
      BY <3>1, <2>3
    <3> QED BY <3>1, <3>2, <2>3
  <2> QED BY <2>2, <2>3
<1> QED BY <1>1, <1>3, <1>4, <1>5, <1>6 DEF EgressRule

(* The ingress allows: from beyond the uplink, which is where Rpf says a peer
   is. *)
LEMMA IngressRows ==
  ASSUME TypeOK, NEW p \in Packets, Rpf(p)
  PROVE  IngressRule(p) <=> \E f \in Rows("ingress") : Covers(f, p)
<1>1. \A f \in Rows("ingress") : f.type = "ingress"
  BY DEF Rows
<1>2. p.iif = Uplink <=> p.src \in World
  BY PacketFacts, PolicyAssumption DEF Rpf, Route
<1> QED BY <1>1, <1>2 DEF IngressRule, IngressAllows, Covers

(* Nothing of a flow is about the router's own address. *)
LEMMA GatewayRows ==
  ASSUME TypeOK, NEW c, c.dst = Gateway
  PROVE  Declared(c) <=> c.proto = "icmp"
<1>1. /\ \A f \in Rows("internal") : f.type = "internal" /\ f.to \in Conts
      /\ \A f \in Rows("egress") : f.type = "egress"
      /\ \A f \in Rows("ingress") : f.type = "ingress" /\ f.to \in Conts
  BY RowFacts
<1>2. Gateway \notin Conts /\ Gateway \notin World
  BY PolicyAssumption
<1> QED BY <1>1, <1>2, DeclaredByRow DEF Covers

(* Rules and flows agree on every packet that could open a connection. *)
LEMMA FaithfulInv == TypeOK => Faithful
<1> SUFFICES ASSUME TypeOK, NEW p \in Packets, Rpf(p), p.first,
                    Original(p) \union Reply(p) = {}
             PROVE  Accept(p) <=> Declared(p)
  BY DEF Faithful
<1>1. CtState(p) = "new"
  BY DEF CtState
<1>2. CASE p.dst = Gateway
  BY <1>1, <1>2, GatewayRows DEF Accept, Input
<1>3. CASE p.dst # Gateway
  <2>1. Accept(p) <=> \/ <<p.src, p.dst, p.proto, p.dport>> \in AllowedFlows
                      \/ EgressRule(p)
                      \/ IngressRule(p)
    BY <1>1, <1>3 DEF Accept, Forward
  <2> QED BY <2>1, <1>3, InternalRule, EgressRows, IngressRows, DeclaredByRow
<1> QED BY <1>2, <1>3

------------------------------------------------------------------------------
IInv == TypeOK /\ Directional

(* Nothing is tracked in a namespace that is new. *)
LEMMA InitInv == Init => IInv
BY DEF Init, IInv, TypeOK, Directional

(* Whatever name a packet goes under, it is one of its openers': strict
   rp_filter leaves it no other. *)
LEMMA OpenerIsSource ==
  ASSUME NEW p \in Packets, Rpf(p)
  PROVE  p.src \in IF p.iif = Uplink THEN World ELSE {p.iif}
BY PacketFacts, PolicyAssumption DEF Rpf, Route

(* A connection is open to a name as much as its four fields say. *)
LEMMA OpenSame ==
  ASSUME NEW c \in Conn, NEW d, NEW x, c.dst = d.dst, c.proto = d.proto,
         c.dport = d.dport, d.src = x, Declared(d)
  PROVE  Declared([c EXCEPT !.src = x])
<1>1. /\ [c EXCEPT !.src = x].src = x
      /\ [c EXCEPT !.src = x].dst = c.dst
      /\ [c EXCEPT !.src = x].proto = c.proto
      /\ [c EXCEPT !.src = x].dport = c.dport
  BY DEF Conn
<1> QED BY <1>1, CoversSame

(* A packet the router lets through opens what the flows declare, or nothing. *)
LEMMA TransitNext ==
  ASSUME IInv, NEW p \in Packets, Transit(p)
  PROVE  IInv'
<1> USE DEF IInv
<1>1. flows' = flows /\ Accept(p)
  BY DEF Transit
<1>2. \A c : Declared(c)' <=> Declared(c)
  BY <1>1 DEF Declared, Covers
<1>3. CASE Original(p) \union Reply(p) = {}
  <2> DEFINE e == [by |-> p.iif, src |-> p.src, sport |-> p.sport, dst |-> p.dst,
                   dport |-> p.dport, proto |-> p.proto, replied |-> FALSE]
  <2>1. ct' = ct \union {e} /\ CtState(p) = "new"
    BY <1>3 DEF Transit
  <2>2. p.first /\ Rpf(p)
    BY <2>1, <1>1, <1>3 DEF CtState, Accept
  <2>3. Declared(p)
    BY <1>1, <1>3, <2>2, FaithfulInv DEF Faithful
  <2>4. e \in Conn
    BY DEF Packets, Conn
  <2>5. p.src \in Openers(e)
    BY <2>2, OpenerIsSource DEF Openers
  <2>6. Declared([e EXCEPT !.src = p.src])
    BY <2>3, <2>4, OpenSame
  <2> HIDE DEF e
  <2>7. TypeOK'
    BY <1>1, <2>1, <2>4 DEF TypeOK
  <2>8. Directional'
    BY <2>1, <2>5, <2>6, <1>2 DEF Directional
  <2> QED BY <2>7, <2>8
<1>4. CASE Original(p) \union Reply(p) # {}
  <2>1. ct' = {IF e \in Reply(p) THEN [e EXCEPT !.replied = TRUE] ELSE e : e \in ct}
    BY <1>4 DEF Transit
  <2>2. ct \subseteq Conn
    BY DEF TypeOK
  <2>3. \A e \in ct' : e \in Conn /\ \E d \in ct :
          /\ e.by = d.by /\ e.dst = d.dst /\ e.proto = d.proto /\ e.dport = d.dport
    BY <2>1, <2>2 DEF Conn
  <2>4. TypeOK'
    BY <1>1, <2>3 DEF TypeOK
  <2>5. ASSUME NEW e \in ct'
        PROVE  \E x \in Openers(e) : Declared([e EXCEPT !.src = x])
    <3>1. PICK d \in ct : /\ e.by = d.by /\ e.dst = d.dst
                          /\ e.proto = d.proto /\ e.dport = d.dport
      BY <2>3, <2>5
    <3>2. PICK x \in Openers(d) : Declared([d EXCEPT !.src = x])
      BY DEF Directional
    <3>3. d \in Conn /\ e \in Conn
      BY <2>2, <2>3, <2>5
    <3>4. LET g == [d EXCEPT !.src = x]
          IN g.src = x /\ g.dst = d.dst /\ g.proto = d.proto /\ g.dport = d.dport
      BY <3>3 DEF Conn
    <3>5. Declared([e EXCEPT !.src = x])
      BY <3>1, <3>2, <3>3, <3>4, OpenSame
    <3> QED BY <3>1, <3>2, <3>5 DEF Openers
  <2>6. Directional'
    BY <2>5, <1>2 DEF Directional
  <2> QED BY <2>4, <2>6
<1> QED BY <1>3, <1>4

(* Nothing is lost by forgetting. *)
LEMMA Shrinks ==
  ASSUME IInv, flows' = flows, ct' \subseteq ct
  PROVE  IInv'
<1>1. \A c : Declared(c)' <=> Declared(c)
  BY DEF Declared, Covers
<1>2. TypeOK'
  BY DEF IInv, TypeOK
<1>3. Directional'
  BY <1>1 DEF IInv, Directional
<1> QED BY <1>2, <1>3 DEF IInv

(* Expiry takes entries away; reloading, all of them. *)
LEMMA InvNext == IInv /\ [Next]_vars => IInv'
<1> SUFFICES ASSUME IInv, [Next]_vars PROVE IInv'  OBVIOUS
<1>1. ASSUME NEW p \in Packets, Transit(p)  PROVE IInv'
  BY <1>1, TransitNext
<1>2. ASSUME NEW e \in ct, Expire(e)  PROVE IInv'
  BY <1>2, Shrinks DEF Expire
<1>3. ASSUME NEW fs \in Files, Reload(fs)  PROVE IInv'
  BY <1>3 DEF Reload, IInv, TypeOK, Directional
<1>4. CASE UNCHANGED vars
  BY <1>4, Shrinks DEF vars
<1> QED BY <1>1, <1>2, <1>3, <1>4 DEF Next

(* The inductive invariant holds throughout. *)
LEMMA Invariance == Spec => []IInv
BY InitInv, InvNext, PTL DEF Spec

------------------------------------------------------------------------------
(* Only accepted flows are in force, and each tracked connection is one the
   packets of the network can make (plan.go:329-409). *)
THEOREM TypeCorrect == Spec => []TypeOK
BY Invariance, PTL DEF IInv

(* Rules and flows agree on who may open what, for all flows a file may hold
   (nft.go:67-150, plan.go:329-409). *)
THEOREM RulesFaithful == Spec => []Faithful
<1>1. IInv => Faithful
  BY FaithfulInv DEF IInv
<1> QED BY <1>1, Invariance, PTL

(* What is open, the flows in force let its opener open (nft.go:89,
   up.go:123-124, plan.go:287-292). *)
THEOREM OnlyDeclared == Spec => []Directional
BY Invariance, PTL DEF IInv

------------------------------------------------------------------------------
(* A set of numbers has a least one. *)
LEMMA LeastOf ==
  ASSUME NEW S, S \subseteq Nat, S # {}
  PROVE  \E m \in S : \A n \in S : m <= n
<1>1. PICK m \in S : \A n \in S : ~(<<n, m>> \in OpToRel(<, Nat))
  BY NatLessThanWellFounded, WFMin
<1>2. \A n \in S : ~(n < m)
  BY <1>1 DEF OpToRel
<1> QED BY <1>2

(* The rule that wins is a row's that matches. *)
LEMMA DnatRow ==
  ASSUME TypeOK, NEW addr, NEW proto, NEW hport
  PROVE  LET rows == {f \in Rows("ingress") : Matches(f, addr, proto, hport)}
         IN /\ rows = {} => Dnat(addr, proto, hport) = <<>>
            /\ rows # {} => \E f \in rows : Dnat(addr, proto, hport) = <<f.to, f.port>>
<1> DEFINE rows == {f \in Rows("ingress") : Matches(f, addr, proto, hport)}
           hits == {i \in DOMAIN flows : Matches(flows[i], addr, proto, hport)}
           i == CHOOSE i \in hits : \A j \in hits : i <= j
<1>1. flows \in Seq(Flow)
  BY PolicyAssumption DEF TypeOK, Accepted
<1>2. hits \subseteq 1..Len(flows) /\ Len(flows) \in Nat
  BY <1>1
<1>3. \A f \in rows : \E j \in hits : flows[j] = f
  BY DEF Rows
<1>4. \A j \in hits : flows[j] \in rows
  BY DEF Rows, Matches
<1>5. Dnat(addr, proto, hport) = FirstOf(hits)
  BY DEF Dnat
<1>6. CASE rows = {}
  <2>1. hits = {}
    BY <1>4, <1>6
  <2> QED BY <1>5, <1>6, <2>1 DEF FirstOf
<1>7. CASE rows # {}
  <2>1. hits # {}
    BY <1>3, <1>7
  <2>2. \E j \in hits : \A l \in hits : j <= l
    <3>1. hits \subseteq Nat
      BY <1>2
    <3> HIDE DEF hits
    <3> QED BY <2>1, <3>1, LeastOf
  <2>3. i \in hits
    BY <2>2
  <2> HIDE DEF i
  <2>4. Dnat(addr, proto, hport) = <<flows[i].to, flows[i].port>>
    BY <1>5, <2>1 DEF FirstOf, i
  <2> QED BY <1>4, <1>7, <2>3, <2>4
<1> QED BY <1>6, <1>7

(* The router lets in what the host sends on, whatever it tracks. *)
LEMMA LetIn ==
  ASSUME TypeOK, NEW f \in Rows("ingress"), NEW p,
         p.iif = Uplink, p.src \in World, p.dst = f.to, p.dport = f.port,
         p.proto = f.proto, p.first
  PROVE  Accept(p)
<1>1. f.to \in Conts /\ p.dst # Gateway
  BY RowFacts, PolicyAssumption
<1>2. Rpf(p)
  BY PolicyAssumption DEF Rpf, Route
<1>3. CtState(p) \in {"established", "new"}
  BY DEF CtState
<1>4. IngressRule(p)
  BY DEF IngressRule, IngressAllows
<1> QED BY <1>1, <1>2, <1>3, <1>4 DEF Accept, Forward

(* A published port leads to a row that publishes it there, and past the rules,
   for all flows a file may hold (hostedge.go:100-122, nft.go:137-150). *)
THEOREM PublishedReached == Spec => []Published
<1>1. TypeOK => Published
  <2> SUFFICES ASSUME TypeOK, NEW addr \in Listens, NEW proto \in Protos, NEW hport \in Ports,
                      NEW f \in Rows("ingress"), Matches(f, addr, proto, hport),
                      NEW w \in World, NEW s \in Ports
               PROVE  Accept([iif |-> Uplink, src |-> w, sport |-> s, dst |-> f.to,
                              dport |-> f.port, proto |-> proto, first |-> TRUE])
    BY DnatRow DEF Published
  <2>1. f.proto = proto
    BY DEF Matches
  <2> QED BY <2>1, LetIn
<1>2. IInv => TypeOK
  BY DEF IInv
<1> QED BY <1>1, <1>2, Invariance, PTL
==============================================================================

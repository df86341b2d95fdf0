------------------------------ MODULE Lowering ------------------------------
(***************************************************************************)
(* From turnip.json to a plan (internal/config, cmd/turnip/plan.go): what  *)
(* Validate accepts, and what buildPlan makes of it.                       *)
(*                                                                         *)
(* A container is a number, in the order of the names, and Name gives the  *)
(* characters; an interface name is a sequence of characters too, because  *)
(* names are put together with hyphens and cut off at IFNAMSIZ.  A field   *)
(* that may be absent is a set with at most one element.                   *)
(*                                                                         *)
(*   cfg.links[c]  the links of a declared container, in order             *)
(*   cfg.nets[n]   type, gateway, gatewayIf, subnet, uplink, attach (a     *)
(*                 function on the attached containers), flows (the        *)
(*                 internal ones, pairs of containers)                     *)
(***************************************************************************)
EXTENDS Integers, Sequences, FiniteSets, FiniteSetsExt

CONSTANTS Name,      \* the characters of each container's name
          NameMax,   \* characters an interface name may have
          AddrBits   \* bits of an address

ASSUME LoweringAssumption == /\ NameMax \in Nat \ {0}
                             /\ AddrBits \in Nat \ {0, 1}
                             /\ \A c \in DOMAIN Name : Name[c] \in Seq(STRING)
                             /\ \A c, d \in DOMAIN Name : Name[c] = Name[d] => c = d

(* netip.Prefix, kept as written: the host bits may be set. *)
Prefix(a, b) == [base |-> a, bits |-> b]
Pow[i \in Nat] == IF i = 0 THEN 1 ELSE 2 * Pow[i - 1]
Size(p)      == Pow[AddrBits - p.bits]
Covers(p, a) == a \div Size(p) = p.base \div Size(p)
Masked(p)    == [p EXCEPT !.base = (p.base \div Size(p)) * Size(p)]
Slash32(a)   == Prefix(a, AddrBits)
Everything   == Prefix(0, 0)

------------------------------------------------------------------------------
(* Validate *)

(* The length is all that is checked of a name. *)
IfNameOK(s) == Len(s) \in 1..NameMax

LinkOK(l) == /\ IfNameOK(l.name)
             /\ (l.bridge # <<>>) # (l.peer # "")
             /\ l.peer \in {"", "host"}
             /\ l.bridge # <<>> => IfNameOK(l.bridge)

UplinkOK(u) == IfNameOK(u.hostIf) /\ IfNameOK(u.routerIf) /\ u.link % 2 = 0

NetworkOK(n) ==
  /\ n.type \in {"router", "bridge"}
  /\ n.type = "router" => n.subnet = {} /\ n.gatewayIf # <<>>
  /\ n.type = "bridge" => n.subnet # {}
  /\ \A p \in n.subnet : Covers(p, n.gateway)
  /\ n.gatewayIf # <<>> => IfNameOK(n.gatewayIf)
  /\ \A u \in n.uplink : UplinkOK(u)
  /\ \A c \in DOMAIN n.attach : /\ IfNameOK(n.attach[c].interface)
                                /\ \A p \in n.subnet : Covers(p, n.attach[c].ip)
  /\ \A f \in n.flows : n.type = "router" /\ {f[1], f[2]} \subseteq DOMAIN n.attach

Containers(cfg) == DOMAIN cfg.links
Networks(cfg)   == DOMAIN cfg.nets
NetsOf(cfg, c)  == {n \in Networks(cfg) : c \in DOMAIN cfg.nets[n].attach}

LinksOf(cfg, c) == IF c \in Containers(cfg) THEN cfg.links[c] ELSE <<>>

(* The interfaces of a container: its links, then its attachments. *)
Ifaces(cfg, c) == {<<"link", i>> : i \in DOMAIN LinksOf(cfg, c)} \cup {<<"net", n>> : n \in NetsOf(cfg, c)}
IfaceName(cfg, c, i) == IF i[1] = "link" THEN LinksOf(cfg, c)[i[2]].name ELSE cfg.nets[i[2]].attach[c].interface
IfaceDefault(cfg, c, i) == IF i[1] = "link" THEN LinksOf(cfg, c)[i[2]].default ELSE cfg.nets[i[2]].attach[c].default

(* Variant: an attachment may name a container that is not declared. *)
Known_Unchecked(cfg) == TRUE

Known(cfg) == \A n \in Networks(cfg) : DOMAIN cfg.nets[n].attach \subseteq Containers(cfg)

OneDefault(cfg, c) == LET d == Cardinality({i \in Ifaces(cfg, c) : IfaceDefault(cfg, c, i)})
                      IN  d <= 1 /\ (d = 0 => Cardinality(Ifaces(cfg, c)) <= 1)

(* The check of host ports is in Policy. *)
CrossCutting(cfg) ==
  /\ Known(cfg)
  /\ \A c \in Containers(cfg) :
       /\ \A i, j \in Ifaces(cfg, c) : i # j => IfaceName(cfg, c, i) # IfaceName(cfg, c, j)
       /\ OneDefault(cfg, c)

Validate(cfg) == /\ \A c \in Containers(cfg) : \A i \in DOMAIN LinksOf(cfg, c) : LinkOK(LinksOf(cfg, c)[i])
                 /\ \A n \in Networks(cfg) : NetworkOK(cfg.nets[n])
                 /\ CrossCutting(cfg)

------------------------------------------------------------------------------
(* buildPlan *)

LinkHostIf(c, l) == <<"vethL", "-">> \o Name[c] \o <<"-">> \o l.name
RouterIf(c)      == <<"vethR", "-">> \o Name[c]

(* Variant: the router end's name is not measured. *)
RouterIfFits_Unchecked(c) == TRUE

RouterIfFits(c)  == Len(RouterIf(c)) <= NameMax
LinkIfFits(c, l) == Len(LinkHostIf(c, l)) <= NameMax

Lowers(cfg) == /\ \A c \in Containers(cfg) : \A i \in DOMAIN LinksOf(cfg, c) : LinkIfFits(c, LinksOf(cfg, c)[i])
               /\ \A n \in Networks(cfg) : \A c \in DOMAIN cfg.nets[n].attach : RouterIfFits(c)

(* Variant: links are not counted. *)
InterfaceCount_NoLinks(cfg, c) == Cardinality(NetsOf(cfg, c))

InterfaceCount(cfg, c) == Len(LinksOf(cfg, c)) + Cardinality(NetsOf(cfg, c))

(* Variant: only the flag counts. *)
OwnsDefault_Flag(cfg, n, c) == cfg.nets[n].attach[c].default

OwnsDefault(cfg, n, c) == cfg.nets[n].attach[c].default \/ InterfaceCount(cfg, c) = 1

(* /etc/hosts: the peers a flow leads to, at the address of the last network
   that has one, and the container itself on each of its networks. *)
PeerNets(cfg, c, t) == {n \in NetsOf(cfg, c) : <<c, t>> \in cfg.nets[n].flows}
Peers(cfg, c)       == {t \in Containers(cfg) : PeerNets(cfg, c, t) # {}}
PeerAddr(cfg, c, t) == cfg.nets[Max(PeerNets(cfg, c, t))].attach[t].ip
==============================================================================

---------------------------- MODULE FabricProofs ----------------------------
(***************************************************************************)
(* Proofs about Fabric: for any number of networks, containers,            *)
(* configurations and failures, no interface of a router is born outside   *)
(* its policy; what a run may leave for the next one (veths of one run     *)
(* only; after down, and on host ends, only what met an ignored error);    *)
(* an up that reports done is complete; and Fabric implements Lifecycle.   *)
(*                                                                         *)
(* The argument: the loops stay inside the configuration and every         *)
(* descriptor they use was minted by this run (Loops); the namespaces of   *)
(* this run have no interface until their own turn comes (Untouched),      *)
(* because a run takes a generation nothing alive has and interfaces only  *)
(* exist in namespaces that are alive (Rooted); so the settings of the     *)
(* router at hand can be written, and re-derived, before the first         *)
(* interface (Staged).                                                     *)
(***************************************************************************)
EXTENDS Fabric, TLAPS

NetPcs  == Sysctls \union {"gw", "gwup", "ep", "epup", "edge", "edgeup", "hfwd", "hnat"}
ContPcs == {"cont", "link", "linkup"}
Applies == {"lo", "net"} \union NetPcs \union ContPcs

Loops ==
  /\ pc \in {"clear", "flush"} /\ cmd = "up" => run \in Gens
  /\ pc \in {"mint", "pin"} \union Applies => cmd = "up" /\ run \in Gens
  /\ todo \subseteq PathsOf(cfg)
  /\ pc \in {"clear", "net"} \union NetPcs => todo \subseteq RoutersOf(cfg.nets)
  /\ pc \in ContPcs => todo \subseteq ContsOf(cfg.conts)
  /\ pc \in {"flush"} => todo \subseteq RoutersOf(cfg.nets)
  /\ pc \in {"flush"} \union NetPcs => at \in RoutersOf(cfg.nets) /\ at \notin todo
  /\ pc = "pin" => at \in PathsOf(cfg)
  /\ pc \in {"link", "linkup"} => at \in ContsOf(cfg.conts)
  /\ pc \in {"ep", "epup"} => \A c \in eps : <<at[2], c>> \in cfg.att
  /\ pc = "mint" => \A p \in PathsOf(cfg) \ todo : fd[p] = run
  /\ pc = "pin" => \A p \in PathsOf(cfg) \ (todo \union {at}) : fd[p] = run
  /\ pc \in Applies => \A p \in PathsOf(cfg) : fd[p] = run

TInv == TypeOK /\ Loops

USE DEF Router, Container

(* A configuration names networks, containers and paths of the instance. *)
LEMMA ConfigFacts ==
  ASSUME NEW c \in Configs
  PROVE  /\ c.nets \subseteq Nets /\ c.conts \subseteq Conts
         /\ c.att \subseteq c.nets \X c.conts
         /\ c.up \subseteq c.nets /\ c.link \subseteq c.conts
         /\ c.host \in [Nets -> Nat]
         /\ RoutersOf(c.nets) \subseteq PathsOf(c)
         /\ RoutersOf(c.up) \subseteq RoutersOf(c.nets)
         /\ ContsOf(c.conts) \subseteq PathsOf(c)
         /\ PathsOf(c) \subseteq Paths
BY FabricAssumption DEF Config, PathsOf, RoutersOf, ContsOf, Paths

(* The initial state satisfies it. *)
LEMMA InitT == Init => TInv
<1> SUFFICES ASSUME Init PROVE TInv  OBVIOUS
<1>1. TypeOK
  BY DEF Init, TypeOK, Idle, NoFd
<1>2. Loops
  BY DEF Init, Loops, Idle, Sysctls, NetPcs, ContPcs, Applies
<1> QED BY <1>1, <1>2 DEF TInv

(* What the loops name is a namespace. *)
LEMMA HereFacts ==
  ASSUME TInv
  PROVE  /\ pc \in {"mint", "pin"} \union Applies => run \in Gens
         /\ pc \in NetPcs \union {"link", "linkup"} => Here \in Ns /\ at \in Paths
         /\ pc \in NetPcs \union {"flush"} => at[1] = "router" /\ at[2] \in Nets
         /\ pc \in {"link", "linkup"} => at[1] = "container" /\ at[2] \in Conts
         /\ pc \in {"ep", "epup"} => \A c \in eps : <<Container(c), fd[Container(c)]>> \in Ns
         /\ pc = "lo" => \A p \in todo : <<p, fd[p]>> \in Ns
         /\ pc = "net" => \A p \in todo : <<p, fd[p]>> \in Ns
<1> USE DEF TInv, TypeOK, Loops
<1> USE ConfigFacts
<1>1. pc \in {"mint", "pin"} \union Applies => run \in Gens
  OBVIOUS
<1>2. \A p \in PathsOf(cfg) : pc \in Applies => fd[p] \in Gens /\ p \in Paths
  BY DEF Applies, NetPcs, ContPcs, Sysctls, Idle
<1>3. pc \in NetPcs \union {"flush"} => at[1] = "router" /\ at[2] \in Nets
  BY DEF RoutersOf
<1>4. pc \in {"link", "linkup"} => at[1] = "container" /\ at[2] \in Conts
  BY DEF ContsOf
<1>5. pc \in NetPcs \union {"link", "linkup"} => Here \in Ns /\ at \in Paths
  BY <1>2 DEF Here, Ns, Applies, ContPcs
<1>6. pc \in {"ep", "epup"} => \A c \in eps : Container(c) \in PathsOf(cfg)
  BY DEF PathsOf, ContsOf
<1>7. pc \in {"ep", "epup"} => \A c \in eps : <<Container(c), fd[Container(c)]>> \in Ns
  BY <1>6, <1>2 DEF Ns, Applies, NetPcs
<1>8. pc \in {"lo", "net"} => \A p \in todo : <<p, fd[p]>> \in Ns
  BY <1>2 DEF Ns, Applies
<1> QED BY <1>1, <1>3, <1>4, <1>5, <1>7, <1>8

(* Adding an interface keeps what it writes well typed. *)
LEMMA AddTypes ==
  ASSUME TInv, NEW e \in End, NEW f \in End, NEW next, LinkAdd(e, f, next)
  PROVE  /\ dev' \subseteq [a : End, b : End, up : BOOLEAN]
         /\ fd' \in [Paths -> {0} \union Gens]
         /\ pc' \in {"failed", next}
         /\ run' \in Nat /\ todo' \subseteq Paths /\ eps' \subseteq Conts
         /\ at' \in Paths \union {<<"host", 0>>}
<1>1. CASE Taken(e) \/ Taken(f)
  BY <1>1 DEF LinkAdd, Ends, NoFd, TInv, TypeOK
<1>2. CASE ~(Taken(e) \/ Taken(f))
  <2>1. /\ dev' = dev \union {[a |-> e, b |-> f, up |-> FALSE]}
        /\ pc' = next
        /\ UNCHANGED <<loopVars, fd>>
    BY <1>2 DEF LinkAdd
  <2>2. [a |-> e, b |-> f, up |-> FALSE] \in [a : End, b : End, up : BOOLEAN]
    OBVIOUS
  <2> QED BY <2>1, <2>2 DEF loopVars, TInv, TypeOK
<1> QED BY <1>1, <1>2

(* Setting one up keeps it well typed. *)
LEMMA ConfigureTypes ==
  ASSUME TInv, NEW e, NEW next, Configure(e, next)
  PROVE  /\ dev' \subseteq [a : End, b : End, up : BOOLEAN]
         /\ fd' = fd
         /\ pc' = next
BY DEF Configure, TInv, TypeOK

(* Every step preserves it. *)
LEMMA TypeNext == ASSUME TInv, [Next]_vars PROVE TInv'
<1> USE DEF TInv
<1> USE ConfigFacts, HereFacts
<1> USE DEF procVars, loopVars, mountVars, kernVars, hostVars, errVars,
            Idle, Sysctls, NetPcs, ContPcs, Applies
<1>1. CASE ClearLink
  <2>1. TypeOK'
    BY <1>1 DEF ClearLink, Ignored, Take, TypeOK, Loops
  <2>2. Loops'
    BY <1>1 DEF ClearLink, Take, TypeOK, Loops
  <2> QED BY <2>1, <2>2
<1>2. CASE FlushNat
  <2>1. TypeOK'
    BY <1>2 DEF FlushNat, TypeOK, Loops
  <2>2. Loops'
    BY <1>2 DEF FlushNat, TypeOK, Loops
  <2> QED BY <2>1, <2>2
<1>3. CASE Cleared
  <2>1. TypeOK'
    BY <1>3 DEF Cleared, Loop, TypeOK, Loops
  <2>2. Loops'
    BY <1>3 DEF Cleared, Loop, TypeOK, Loops
  <2> QED BY <2>1, <2>2
<1>4. CASE Detach
  <2>1. TypeOK'
    BY <1>4 DEF Detach, Take, TypeOK, Loops
  <2>2. Loops'
    BY <1>4 DEF Detach, Take, TypeOK, Loops
  <2> QED BY <2>1, <2>2
<1>5. CASE Pin
  <2>1. TypeOK'
    BY <1>5 DEF Pin, Inherited, Knobs, Ns, PathsOf, TypeOK, Loops
  <2>2. Loops'
    BY <1>5 DEF Pin, TypeOK, Loops
  <2> QED BY <2>1, <2>2
<1>6. CASE Minted
  <2>1. TypeOK'
    BY <1>6 DEF Minted, Loop, TypeOK, Loops
  <2>2. Loops'
    BY <1>6 DEF Minted, Loop, TypeOK, Loops
  <2> QED BY <2>1, <2>2
<1>7. CASE SetLoUp
  <2>1. TypeOK'
    BY <1>7 DEF SetLoUp, Take, Knobs, TypeOK, Loops
  <2>2. Loops'
    BY <1>7 DEF SetLoUp, Take, Knobs, TypeOK, Loops
  <2> QED BY <2>1, <2>2
<1>8. CASE LoopbacksUp
  <2>1. TypeOK'
    BY <1>8 DEF LoopbacksUp, Loop, TypeOK, Loops
  <2>2. Loops'
    BY <1>8 DEF LoopbacksUp, Loop, TypeOK, Loops
  <2> QED BY <2>1, <2>2
<1>9. CASE LoadNFT
  <2>1. TypeOK'
    BY <1>9 DEF LoadNFT, Take, Knobs, TypeOK, Loops
  <2>2. Loops'
    BY <1>9 DEF LoadNFT, Take, Knobs, TypeOK, Loops
  <2> QED BY <2>1, <2>2
<1>10. CASE WriteSysctl
  <2>1. TypeOK'
    BY <1>10 DEF WriteSysctl, Knobs, AfterSysctl, Rederived, TypeOK, Loops
  <2>2. Loops'
    BY <1>10 DEF WriteSysctl, Knobs, AfterSysctl, Rederived, TypeOK, Loops
  <2> QED BY <2>1, <2>2
<1>11. CASE CreateGateway
  <2>1. GatewayEnd \in End
    BY <1>11 DEF CreateGateway, GatewayEnd, End, TypeOK, Conts, Nets
  <2>2. TypeOK'
    BY <1>11, <2>1, AddTypes DEF CreateGateway, TypeOK
  <2>3. Loops'
    BY <1>11 DEF CreateGateway, LinkAdd, Ends, GatewayEnd, NoFd, TypeOK, Loops
  <2> QED BY <2>2, <2>3
<1>12. CASE GatewayUp
  <2>1. TypeOK'
    BY <1>12, ConfigureTypes DEF GatewayUp, TypeOK
  <2>2. Loops'
    BY <1>12, ConfigureTypes DEF GatewayUp, Loops
  <2> QED BY <2>1, <2>2
<1>13. CASE Connect
  <2>1. PICK c \in eps : LinkAdd(RouterEnd(c), ContEnd(c), "epup")
    BY <1>13 DEF Connect
  <2>2. RouterEnd(c) \in End /\ ContEnd(c) \in End
    BY <1>13 DEF Connect, RouterEnd, ContEnd, End, TypeOK, Conts, Nets
  <2>3. TypeOK'
    BY <1>13, <2>1, <2>2, AddTypes DEF Connect, TypeOK
  <2>4. Loops'
    BY <1>13 DEF Connect, LinkAdd, Ends, RouterEnd, ContEnd, NoFd, TypeOK, Loops
  <2> QED BY <2>3, <2>4
<1>14. CASE EndpointUp
  <2>1. TypeOK'
    BY <1>14, ConfigureTypes DEF EndpointUp, TypeOK
  <2>2. Loops'
    BY <1>14, ConfigureTypes DEF EndpointUp, Loops
  <2> QED BY <2>1, <2>2
<1>15. CASE Connected
  <2>1. TypeOK'
    BY <1>15 DEF Connected, TypeOK, Loops
  <2>2. Loops'
    BY <1>15 DEF Connected, TypeOK, Loops
  <2> QED BY <2>1, <2>2
<1>16. CASE UplinkAdd
  <2>1. HostEnd(at[2]) \in End /\ UplinkEnd \in End
    BY <1>16 DEF UplinkAdd, HostEnd, UplinkEnd, Config, End, TypeOK, Conts, Nets
  <2>2. TypeOK'
    BY <1>16, <2>1, AddTypes DEF UplinkAdd, TypeOK
  <2>3. Loops'
    BY <1>16 DEF UplinkAdd, LinkAdd, Ends, HostEnd, UplinkEnd, NoFd, TypeOK, Loops
  <2> QED BY <2>2, <2>3
<1>17. CASE UplinkUp
  <2>1. TypeOK'
    BY <1>17, ConfigureTypes DEF UplinkUp, TypeOK
  <2>2. Loops'
    BY <1>17, ConfigureTypes DEF UplinkUp, Loops
  <2> QED BY <2>1, <2>2
<1>18. CASE HostForward
  <2>1. TypeOK'
    BY <1>18 DEF HostForward, TypeOK, Loops
  <2>2. Loops'
    BY <1>18 DEF HostForward, TypeOK, Loops
  <2> QED BY <2>1, <2>2
<1>19. CASE HostNat
  <2>1. TypeOK'
    BY <1>19 DEF HostNat, TypeOK, Loops
  <2>2. Loops'
    BY <1>19 DEF HostNat, TypeOK, Loops
  <2> QED BY <2>1, <2>2
<1>20. CASE NetworksDone
  <2>1. TypeOK'
    BY <1>20 DEF NetworksDone, Loop, TypeOK, Loops
  <2>2. Loops'
    BY <1>20 DEF NetworksDone, Loop, TypeOK, Loops
  <2> QED BY <2>1, <2>2
<1>21. CASE WriteHosts
  <2>1. TypeOK'
    BY <1>21 DEF WriteHosts, Take, Loop, ContsOf, TypeOK, Loops
  <2>2. Loops'
    BY <1>21 DEF WriteHosts, Take, Loop, TypeOK, Loops
  <2> QED BY <2>1, <2>2
<1>22. CASE LinkConnect
  <2>1. LinkEnd \in End /\ LinkContEnd \in End
    BY <1>22 DEF LinkConnect, LinkEnd, LinkContEnd, End, TypeOK, Conts, Nets
  <2>2. TypeOK'
    BY <1>22, <2>1, AddTypes DEF LinkConnect, TypeOK
  <2>3. Loops'
    BY <1>22 DEF LinkConnect, LinkAdd, Ends, LinkEnd, LinkContEnd, NoFd, TypeOK, Loops
  <2> QED BY <2>2, <2>3
<1>23. CASE LinkUp
  <2>1. TypeOK'
    BY <1>23, ConfigureTypes DEF LinkUp, TypeOK
  <2>2. Loops'
    BY <1>23, ConfigureTypes DEF LinkUp, Loops
  <2> QED BY <2>1, <2>2
<1>24. CASE UpDone
  <2>1. TypeOK'
    BY <1>24 DEF UpDone, Ends, NoFd, TypeOK, Loops
  <2>2. Loops'
    BY <1>24 DEF UpDone, Ends, NoFd, TypeOK, Loops
  <2> QED BY <2>1, <2>2
<1>25. CASE Unpin
  <2>1. TypeOK'
    BY <1>25 DEF Unpin, Ignored, Take, TypeOK, Loops
  <2>2. Loops'
    BY <1>25 DEF Unpin, Take, TypeOK, Loops
  <2> QED BY <2>1, <2>2
<1>26. CASE DownDone
  <2>1. TypeOK'
    BY <1>26 DEF DownDone, Ends, NoFd, TypeOK, Loops
  <2>2. Loops'
    BY <1>26 DEF DownDone, Ends, NoFd, TypeOK, Loops
  <2> QED BY <2>1, <2>2
<1>27. CASE Operator
  <2>0. PICK m \in {"up", "down"}, c \in Configs : Begin(m, c)
    BY <1>27 DEF Operator
  <2>1. TypeOK'
    <3>1. run' \in Nat
      BY <2>0 DEF Begin, Gens, TypeOK
    <3>2. todo' \subseteq Paths
      BY <2>0 DEF Begin, PathsOf, RoutersOf
    <3>3. /\ pc' = "clear" /\ cmd' \in {"up", "down"} /\ cfg' \in Configs /\ ignored' = {}
          /\ UNCHANGED <<eps, at, fd, pin, files, alive, held, knobs, dev, hfwd, zones, faults>>
      BY <2>0 DEF Begin
    <3> QED BY <3>1, <3>2, <3>3 DEF TypeOK
  <2>2. Loops'
    BY <1>27 DEF Operator, Begin, TypeOK, Loops
  <2> QED BY <2>1, <2>2
<1>28. CASE Abort
  <2>1. TypeOK'
    BY <1>28 DEF Abort, Ends, NoFd, TypeOK, Loops
  <2>2. Loops'
    BY <1>28 DEF Abort, Ends, NoFd, TypeOK, Loops
  <2> QED BY <2>1, <2>2
<1>29. CASE Podman
  <2>1. held' \subseteq Ns
    <3>1. CASE \E c \in Conts : Run(c)
      <4>1. PICK c \in Conts : Run(c)
        BY <3>1
      <4>2. Container(c) \in Paths /\ pin[Container(c)] \in Gens
        BY <4>1 DEF Run, TypeOK, Paths
      <4> QED BY <4>1, <4>2 DEF Run, TypeOK, Ns
    <3>2. CASE \E x \in Ns : Stop(x)
      BY <3>2 DEF Stop, TypeOK
    <3> QED BY <1>29, <3>1, <3>2 DEF Podman
  <2>2. UNCHANGED <<pc, procVars, loopVars, fd, mountVars, alive, knobs, dev, hostVars, errVars>>
    BY <1>29 DEF Podman, Run, Stop
  <2>3. TypeOK'
    BY <2>1, <2>2 DEF TypeOK
  <2>4. Loops'
    BY <2>2 DEF Loops
  <2> QED BY <2>3, <2>4
<1>30. CASE Kernel
  <2>1. TypeOK'
    BY <1>30 DEF Kernel, Reap, TypeOK, Loops
  <2>2. Loops'
    BY <1>30 DEF Kernel, Reap, TypeOK, Loops
  <2> QED BY <2>1, <2>2
<1>40. CASE UNCHANGED vars
  BY <1>40 DEF vars, TypeOK, Loops
<1> QED
  BY <1>1, <1>2, <1>3, <1>4, <1>5, <1>6, <1>7, <1>8, <1>9, <1>10, <1>11, <1>12, <1>13, <1>14, <1>15, <1>16, <1>17, <1>18, <1>19, <1>20, <1>21, <1>22, <1>23, <1>24, <1>25, <1>26, <1>27, <1>28, <1>29, <1>30, <1>40
  DEF Next, Process, Clear, Bootstrap, Apply, Routers, Endpoints, HostEdge, Teardown

(* Type correctness, for every set of configurations: each descriptor and each
   interface belongs to a namespace of the plan (apply.go:27-139). *)
THEOREM TypeCorrect == Spec => []TypeOK
<1>1. TInv /\ [Next]_vars => TInv'
  BY TypeNext
<1> QED BY InitT, <1>1, PTL DEF Spec, TInv

------------------------------------------------------------------------------
(***************************************************************************)
(* Policy before interfaces.                                               *)
(***************************************************************************)

(* Interfaces exist in namespaces that exist, and so do descriptors. *)
Rooted == /\ \A d \in dev : {d.a[1], d.b[1]} \subseteq alive \union {HostNs}
          /\ \A p \in Paths : fd[p] # 0 => <<p, fd[p]>> \in alive

(* Routers whose turn to get interfaces has not come. *)
Pending(p) == \/ pc \in {"clear", "flush"} /\ cmd = "up"
              \/ pc \in {"mint", "pin", "lo"}
              \/ pc \in {"net"} \union NetPcs /\ p \in todo
              \/ pc \in Sysctls \union {"gw"} /\ p = at

Untouched == \A p \in RoutersOf(Nets) : Pending(p) =>
               \A d \in dev : d.a[1] # <<p, run>> /\ d.b[1] # <<p, run>>

Set(k) == <<Here, k>> \in knobs

(* How far the router at hand has come. *)
Staged == /\ pc = "fwd"  => Set("nft")
          /\ pc = "all"  => Set("nft") /\ Set("fwd")
          /\ pc = "tmpl" => Set("nft") /\ Set("fwd") /\ Set("all")
          /\ pc = "ct"   => Set("nft") /\ Set("fwd") /\ Set("all") /\ Set("tmpl")
          /\ pc \in NetPcs \ Sysctls => Hardened(Here)

IInv == TInv /\ Rooted /\ Untouched /\ Staged /\ BornHardened

(* The initial state satisfies it. *)
LEMMA InitI == Init => IInv
<1> SUFFICES ASSUME Init PROVE IInv  OBVIOUS
<1>1. Rooted /\ BornHardened
  BY DEF Init, Rooted, BornHardened, NoFd
<1>2. Untouched /\ Staged
  BY DEF Init, Untouched, Pending, Staged, NetPcs, Sysctls
<1> QED BY <1>1, <1>2, InitT DEF IInv

(* What a step leaves of the interfaces was there, but for one that the
   primitive at hand adds between namespaces that are alive; if one of them is
   a router's, it is the router at hand. *)
Same(d) == \E c \in dev : c.a = d.a /\ c.b = d.b

Fits(x) == \/ x = HostNs
           \/ x \in alive /\ ~IsRouter(x)
           \/ x = Here /\ x \in alive /\ pc \in NetPcs \ Sysctls

Grown(d) == /\ pc' \in {"gwup", "epup", "edgeup", "linkup"}
            /\ UNCHANGED <<cfg, run, todo, at, fd, alive, knobs>>
            /\ Fits(d.a[1]) /\ Fits(d.b[1])

(* LinkAdd adds at most one interface, between ends that were free. *)
LEMMA AddGrows ==
  ASSUME TInv, NEW e, NEW f, NEW next \in {"gwup", "epup", "edgeup", "linkup"},
         LinkAdd(e, f, next), UNCHANGED <<cfg, alive, knobs>>,
         Fits(e[1]), Fits(f[1])
  PROVE  \A d \in dev' : Same(d) \/ Grown(d)
<1> USE DEF Same, Grown
<1>1. CASE Taken(e) \/ Taken(f)
  BY <1>1 DEF LinkAdd
<1>2. CASE ~(Taken(e) \/ Taken(f))
  <2> DEFINE new == [a |-> e, b |-> f, up |-> FALSE]
  <2>1. /\ dev' = dev \union {new}
        /\ pc' = next
        /\ UNCHANGED <<run, todo, at, fd>>
    BY <1>2 DEF LinkAdd, loopVars
  <2>2. Grown(new)
    BY <2>1
  <2> QED BY <2>1, <2>2
<1> QED BY <1>1, <1>2

(* Setting an interface up moves neither of its ends. *)
LEMMA ConfigureSame ==
  ASSUME TInv, NEW e, NEW next, Configure(e, next)
  PROVE  \A d \in dev' : Same(d)
BY DEF Configure, Same, TInv, TypeOK

(* Every interface after a step was there before, or has just been added by
   the process, between namespaces it holds. *)
LEMMA DevNext ==
  ASSUME TInv, Rooted, [Next]_vars
  PROVE  \A d \in dev' : Same(d) \/ Grown(d)
<1> USE HereFacts
<1> USE DEF procVars, loopVars, mountVars, kernVars, hostVars, errVars,
            Idle, Sysctls, NetPcs, ContPcs, Applies
<1>1. pc \in NetPcs \union {"link"} => Here \in alive
  BY DEF Rooted, Here, TInv, TypeOK, Ns, Gens
<1>2. ASSUME pc = "ep", NEW c \in eps  PROVE Fits(ContEnd(c)[1])
  <2> DEFINE x == <<Container(c), fd[Container(c)]>>
  <2>1. Container(c) \in Paths /\ fd[Container(c)] # 0
    <3>1. x \in Ns
      BY <1>2
    <3>2. x \in Paths \X Gens
      BY <3>1 DEF Ns
    <3> QED BY <3>2 DEF Gens
  <2>2. x \in alive
    BY <2>1 DEF Rooted
  <2>3. x[1][1] = "container"
    OBVIOUS
  <2> QED BY <2>2, <2>3 DEF Fits, ContEnd, IsRouter
<1>3. pc = "link" => Fits(Here)
  BY <1>1 DEF Fits, Here, IsRouter
<1>4. pc \in {"gw", "ep", "edge"} => Fits(Here)
  BY <1>1 DEF Fits
<1>5. CASE CreateGateway
  BY <1>5, <1>4, AddGrows DEF CreateGateway, GatewayEnd
<1>6. CASE Connect
  BY <1>6, <1>2, <1>4, AddGrows DEF Connect, RouterEnd
<1>7. CASE UplinkAdd
  BY <1>7, <1>4, AddGrows DEF UplinkAdd, UplinkEnd, HostEnd, Fits
<1>8. CASE LinkConnect
  BY <1>8, <1>3, AddGrows DEF LinkConnect, LinkEnd, LinkContEnd, Fits
<1>9. CASE GatewayUp \/ EndpointUp \/ UplinkUp \/ LinkUp
  BY <1>9, ConfigureSame DEF GatewayUp, EndpointUp, UplinkUp, LinkUp
<1>10. CASE ClearLink \/ Kernel
  BY <1>10 DEF ClearLink, Kernel, Reap, Same
<1>11. CASE \/ FlushNat \/ Cleared \/ Detach \/ Pin \/ Minted \/ SetLoUp \/ LoopbacksUp
             \/ LoadNFT \/ WriteSysctl \/ Connected \/ HostForward \/ HostNat \/ NetworksDone \/ WriteHosts
             \/ UpDone \/ Unpin \/ DownDone \/ Operator \/ Abort \/ Podman \/ UNCHANGED vars
  <2>1. dev' = dev
    BY <1>11 DEF FlushNat, Cleared, Detach, Pin, Minted, SetLoUp, LoopbacksUp, LoadNFT, WriteSysctl, Connected, HostForward, HostNat, NetworksDone, WriteHosts, UpDone, Unpin, DownDone, Operator, Abort, Podman, Loop, Begin, Run, Stop, vars
  <2> QED BY <2>1 DEF Same
<1> QED
  BY <1>5, <1>6, <1>7, <1>8, <1>9, <1>10, <1>11 DEF Next, Process, Clear, Bootstrap, Apply, Routers, Endpoints, HostEdge, Teardown

(* A descriptor, and an interface, keep to namespaces that exist. *)
LEMMA RootedNext ==
  ASSUME TInv, TInv', Rooted, [Next]_vars
  PROVE  Rooted'
<1> USE HereFacts
<1> USE DEF procVars, loopVars, mountVars, kernVars, hostVars, errVars,
            Idle, Sysctls, NetPcs, ContPcs, Applies
<1>1. CASE Kernel
  <2>1. PICK x \in Ns : Reap(x)
    BY <1>1 DEF Kernel
  <2>2. \A p \in Paths : fd[p] # 0 => <<p, fd[p]>> # x
    BY <2>1 DEF Reap
  <2> QED BY <2>1, <2>2 DEF Reap, Rooted
<1>2. CASE ~Kernel
  <2>1. alive \subseteq alive'
    BY <1>2 DEF ClearLink, FlushNat, Cleared, Detach, Pin, Minted, SetLoUp, LoopbacksUp, LoadNFT, WriteSysctl, CreateGateway, GatewayUp, Connect, EndpointUp, Connected, UplinkAdd, UplinkUp, HostForward, HostNat, NetworksDone, WriteHosts, LinkConnect, LinkUp, UpDone, Unpin, DownDone, Operator, Abort, Podman,
       Loop, Begin, Run, Stop, vars, Next, Process, Clear, Bootstrap, Apply, Routers, Endpoints, HostEdge, Teardown
  <2>2. \A d \in dev' : {d.a[1], d.b[1]} \subseteq alive \union {HostNs}
    <3>1. \A d \in dev' : Same(d) => {d.a[1], d.b[1]} \subseteq alive \union {HostNs}
      BY DEF Same, Rooted
    <3>2. \A d \in dev' : Grown(d) => {d.a[1], d.b[1]} \subseteq alive \union {HostNs}
      BY DEF Grown, Fits
    <3> QED BY <3>1, <3>2, DevNext
  <2>3. \A p \in Paths : fd'[p] # 0 => <<p, fd'[p]>> \in alive'
    <3>1. CASE Pin
      BY <3>1 DEF Pin, Rooted, TInv, TypeOK
    <3>2. CASE fd' = fd
      BY <3>2, <2>1 DEF Rooted
    <3>3. CASE fd' = NoFd
      BY <3>3 DEF NoFd
    <3>4. Pin \/ fd' = fd \/ fd' = NoFd
      BY <1>2 DEF ClearLink, FlushNat, Cleared, Detach, Minted, SetLoUp, LoopbacksUp, LoadNFT, WriteSysctl, CreateGateway, GatewayUp, Connect, EndpointUp, Connected, UplinkAdd, UplinkUp, HostForward, HostNat, NetworksDone, WriteHosts, LinkConnect, LinkUp, UpDone, Unpin, DownDone, Operator, Abort, Podman,
         Loop, LinkAdd, Configure, Ends, Begin, Run, Stop, vars, Next, Process, Clear, Bootstrap, Apply, Routers, Endpoints, HostEdge, Teardown
    <3> QED BY <3>1, <3>2, <3>3, <3>4
  <2> QED BY <2>1, <2>2, <2>3 DEF Rooted
<1> QED BY <1>1, <1>2

(* A router the process has not come to yet has no interface of this run. *)
LEMMA UntouchedNext ==
  ASSUME TInv, TInv', Rooted, Untouched, [Next]_vars
  PROVE  Untouched'
<1> USE HereFacts
<1> USE DEF procVars, loopVars, mountVars, kernVars, hostVars, errVars,
            Idle, Sysctls, NetPcs, ContPcs, Applies
<1>1. CASE Operator
  <2> SUFFICES ASSUME cmd' = "up" PROVE Untouched'
    BY <1>1 DEF Operator, Begin, Untouched, Pending
  <2>1. /\ \A x \in alive : x[2] # run'
        /\ dev' = dev
        /\ run' \in Gens
    BY <1>1 DEF Operator, Begin, Free
  <2>2. HostNs[2] # run'
    BY <2>1 DEF HostNs, Gens
  <2>3. \A d \in dev : d.a[1][2] # run' /\ d.b[1][2] # run'
    BY <2>1, <2>2 DEF Rooted
  <2> QED BY <2>1, <2>3 DEF Untouched
<1>2. CASE ~Operator
  <2>1. ASSUME NEW p \in RoutersOf(Nets), Pending(p)'
        PROVE  Pending(p) /\ run' = run
    <3> USE DEF Pending
    <3>1. CASE \/ ClearLink \/ FlushNat \/ Cleared \/ Detach \/ Pin \/ Minted
      BY <3>1, <2>1 DEF ClearLink, FlushNat, Cleared, Detach, Pin, Minted, Take, Loop
    <3>2. CASE \/ SetLoUp \/ LoopbacksUp \/ LoadNFT \/ WriteSysctl
      BY <3>2, <2>1 DEF SetLoUp, LoopbacksUp, LoadNFT, WriteSysctl, Take, Loop, AfterSysctl
    <3>3. CASE CreateGateway \/ Connect \/ UplinkAdd \/ LinkConnect
      BY <3>3, <2>1 DEF CreateGateway, Connect, UplinkAdd, LinkConnect, LinkAdd, Ends
    <3>4. CASE GatewayUp \/ EndpointUp \/ UplinkUp \/ LinkUp
      BY <3>4, <2>1 DEF GatewayUp, EndpointUp, UplinkUp, LinkUp, Configure
    <3>5. CASE Connected \/ HostForward \/ HostNat \/ NetworksDone \/ WriteHosts
      BY <3>5, <2>1 DEF Connected, HostForward, HostNat, NetworksDone, WriteHosts, Take, Loop
    <3>6. CASE UpDone \/ Unpin \/ DownDone \/ Abort \/ Podman \/ Kernel \/ UNCHANGED vars
      BY <3>6, <2>1 DEF UpDone, Unpin, DownDone, Abort, Podman, Kernel, Run, Stop, Reap,
         Take, Ends, vars
    <3> QED
      BY <1>2, <3>1, <3>2, <3>3, <3>4, <3>5, <3>6 DEF Next, Process, Clear, Bootstrap, Apply, Routers, Endpoints, HostEdge, Teardown
  <2>2. ASSUME NEW p \in RoutersOf(Nets), Pending(p)', NEW d \in dev', Grown(d)
        PROVE  d.a[1] # <<p, run>> /\ d.b[1] # <<p, run>>
    <3>1. p[1] = "router"
      BY <2>2 DEF RoutersOf
    <3>2. p # at
      BY <2>2 DEF Grown, Pending, TInv, Loops
    <3>3. IsRouter(<<p, run>>) /\ <<p, run>> # Here /\ <<p, run>> # HostNs
      BY <3>1, <3>2 DEF IsRouter, Here, HostNs
    <3> QED BY <2>2, <3>3 DEF Grown, Fits
  <2>3. ASSUME NEW p \in RoutersOf(Nets), Pending(p)', NEW d \in dev', Same(d)
        PROVE  d.a[1] # <<p, run>> /\ d.b[1] # <<p, run>>
    BY <2>1, <2>3 DEF Same, Untouched
  <2> QED BY <2>1, <2>2, <2>3, DevNext DEF Untouched
<1> QED BY <1>1, <1>2

(* Past each stage of applyNetwork the settings of that stage are in force. *)
LEMMA StagedNext ==
  ASSUME TInv, Staged, [Next]_vars
  PROVE  Staged'
<1> USE HereFacts
<1> USE DEF Here, Set, Hardened
<1> USE DEF procVars, loopVars, mountVars, kernVars, hostVars, errVars,
            Idle, Sysctls, NetPcs, ContPcs, Applies
<1>1. CASE LoadNFT
  BY <1>1 DEF LoadNFT, Take, Staged
<1>2. CASE WriteSysctl
  BY <1>2 DEF WriteSysctl, AfterSysctl, Rederived, Staged
<1>3. CASE CreateGateway \/ Connect \/ UplinkAdd \/ LinkConnect
  BY <1>3 DEF CreateGateway, Connect, UplinkAdd, LinkConnect, LinkAdd, Ends, Staged
<1>4. CASE GatewayUp \/ EndpointUp \/ UplinkUp \/ LinkUp
  BY <1>4 DEF GatewayUp, EndpointUp, UplinkUp, LinkUp, Configure, Staged
<1>5. CASE Connected \/ HostForward \/ HostNat
  BY <1>5 DEF Connected, HostForward, HostNat, Staged
<1>6. CASE Kernel
  BY <1>6 DEF Kernel, Reap, Staged
<1>7. CASE Podman \/ UNCHANGED vars
  BY <1>7 DEF Podman, Run, Stop, vars, Staged
<1>8. CASE \/ ClearLink \/ FlushNat \/ Cleared \/ Detach \/ Pin \/ Minted \/ SetLoUp \/ LoopbacksUp
            \/ NetworksDone \/ WriteHosts \/ UpDone \/ Unpin \/ DownDone \/ Operator \/ Abort
  <2>1. pc' \notin NetPcs
    BY <1>8 DEF ClearLink, FlushNat, Cleared, Detach, Pin, Minted, SetLoUp, LoopbacksUp, NetworksDone, WriteHosts, UpDone, Unpin, DownDone, Operator, Abort, Take, Loop, Ends, Begin
  <2> QED BY <2>1 DEF Staged
<1> QED
  BY <1>1, <1>2, <1>3, <1>4, <1>5, <1>6, <1>7, <1>8 DEF Next, Process, Clear, Bootstrap, Apply, Routers, Endpoints, HostEdge, Teardown

(* A new interface of a router finds it hardened, and no later step of any run
   takes a setting from a router that has one. *)
LEMMA BornNext ==
  ASSUME TInv, Rooted, Untouched, Staged, BornHardened, [Next]_vars
  PROVE  BornHardened'
<1> USE HereFacts
<1> USE DEF BornHardened
<1> USE DEF procVars, loopVars, mountVars, kernVars, hostVars, errVars,
            Idle, Sysctls, NetPcs, ContPcs, Applies
<1>1. CASE WriteSysctl
  <2>1. dev' = dev
    BY <1>1 DEF WriteSysctl
  <2>2. CASE pc = "fwd"
    <3>1. \A d \in dev : d.a[1] # Here /\ d.b[1] # Here
      <4>1. at \in RoutersOf(Nets) /\ fd[at] = run
        BY <2>2, ConfigFacts DEF TInv, TypeOK, Loops, RoutersOf
      <4> QED BY <2>2, <4>1 DEF Untouched, Pending, Here
    <3>2. \A x : x # Here /\ Hardened(x) => Hardened(x)'
      BY <1>1 DEF WriteSysctl, Rederived, Hardened
    <3> QED BY <2>1, <3>1, <3>2
  <2>3. CASE pc # "fwd"
    BY <1>1, <2>1, <2>3 DEF WriteSysctl, Hardened
  <2> QED BY <2>2, <2>3
<1>2. CASE Kernel
  <2>1. PICK x \in Ns : Reap(x)
    BY <1>2 DEF Kernel
  <2>2. \A y : y # x /\ Hardened(y) => Hardened(y)'
    BY <2>1 DEF Reap, Hardened
  <2> QED BY <2>1, <2>2 DEF Reap
<1>3. CASE ~WriteSysctl /\ ~Kernel
  <2>1. knobs \subseteq knobs'
    BY <1>3 DEF ClearLink, FlushNat, Cleared, Detach, Pin, Minted, SetLoUp, LoopbacksUp, LoadNFT, CreateGateway, GatewayUp, Connect, EndpointUp, Connected, UplinkAdd, UplinkUp, HostForward, HostNat, NetworksDone, WriteHosts, LinkConnect, LinkUp, UpDone, Unpin, DownDone, Operator, Abort, Podman,
       Loop, Begin, Run, Stop, vars, Next, Process, Clear, Bootstrap, Apply, Routers, Endpoints, HostEdge, Teardown
  <2>2. \A x : Hardened(x) => Hardened(x)'
    BY <2>1 DEF Hardened
  <2>3. ASSUME NEW d \in dev', Same(d), NEW e \in {d.a, d.b}, IsRouter(e[1])
        PROVE  Hardened(e[1])
    BY <2>3 DEF Same
  <2>4. ASSUME NEW d \in dev', Grown(d), NEW e \in {d.a, d.b}, IsRouter(e[1])
        PROVE  Hardened(e[1])
    <3>1. ~IsRouter(HostNs)
      BY DEF IsRouter, HostNs
    <3>2. e[1] = Here /\ pc \in NetPcs \ Sysctls
      BY <2>4, <3>1 DEF Grown, Fits
    <3> QED BY <3>2 DEF Staged
  <2> QED BY <2>2, <2>3, <2>4, DevNext
<1> QED BY <1>1, <1>2, <1>3

(* The inductive invariant holds throughout. *)
LEMMA Invariance == Spec => []IInv
<1>1. IInv /\ [Next]_vars => IInv'
  <2> SUFFICES ASSUME IInv, [Next]_vars PROVE IInv'
    OBVIOUS
  <2>1. TInv'
    BY TypeNext DEF IInv
  <2> QED
    BY <2>1, RootedNext, UntouchedNext, StagedNext, BornNext DEF IInv
<1> QED BY InitI, <1>1, PTL DEF Spec

(* No interface of a router is born outside its policy (plan.go:281-285). *)
THEOREM InterfacesBornHardened == Spec => []BornHardened
BY Invariance, PTL DEF IInv

------------------------------------------------------------------------------
(* What one run leaves and the next one finds.  No veth joins the namespaces
   of two runs; after `down` nothing of the configuration is left outside
   them, and what `up` finds of the name of an uplink's host end is its own,
   but for what the run met an error at and went on.

   The argument is about where interfaces come from (Adds): each has an end
   in a namespace of the run that made it, host ends are made in one place
   only, and outside applyNetwork and applyContainer there are only ever
   fewer of them, so what clearHostEdge has cleared stays cleared. *)

USE DEF procVars, loopVars, mountVars, kernVars, hostVars, errVars,
        Idle, Sysctls, NetPcs, ContPcs, Applies

(* The interface a step adds, and the step. *)
New(d) ==
  \/ CreateGateway /\ d.a = GatewayEnd /\ d.b = GatewayEnd
  \/ Connect /\ \E c \in eps : d.a = RouterEnd(c) /\ d.b = ContEnd(c)
  \/ UplinkAdd /\ d.a = HostEnd(at[2]) /\ d.b = UplinkEnd
  \/ LinkConnect /\ d.a = LinkEnd /\ d.b = LinkContEnd

(* LinkAdd adds one interface, between the ends it is given. *)
LEMMA AddIs ==
  ASSUME NEW e, NEW f, NEW next, LinkAdd(e, f, next)
  PROVE  \A d \in dev' : Same(d) \/ (d.a = e /\ d.b = f)
BY DEF LinkAdd, Same

(* Interfaces come from the four primitives and nowhere else. *)
LEMMA Adds ==
  ASSUME TInv, [Next]_vars
  PROVE  \A d \in dev' : Same(d) \/ New(d)
<1>1. CASE CreateGateway
  BY <1>1, AddIs DEF CreateGateway, New
<1>2. CASE Connect
  <2>1. PICK c \in eps : LinkAdd(RouterEnd(c), ContEnd(c), "epup")
    BY <1>2 DEF Connect
  <2> QED BY <1>2, <2>1, AddIs DEF New
<1>3. CASE UplinkAdd
  BY <1>3, AddIs DEF UplinkAdd, New
<1>4. CASE LinkConnect
  BY <1>4, AddIs DEF LinkConnect, New
<1>5. CASE GatewayUp \/ EndpointUp \/ UplinkUp \/ LinkUp
  BY <1>5, ConfigureSame DEF GatewayUp, EndpointUp, UplinkUp, LinkUp
<1>6. CASE ClearLink \/ Kernel
  BY <1>6 DEF ClearLink, Kernel, Reap, Same
<1>7. CASE \/ FlushNat \/ Cleared \/ Detach \/ Pin \/ Minted \/ SetLoUp \/ LoopbacksUp
           \/ LoadNFT \/ WriteSysctl \/ Connected \/ HostForward \/ HostNat
           \/ NetworksDone \/ WriteHosts \/ UpDone \/ Unpin \/ DownDone \/ Operator
           \/ Abort \/ Podman \/ UNCHANGED vars
  <2>1. dev' = dev
    BY <1>7 DEF FlushNat, Cleared, Detach, Pin, Minted, SetLoUp, LoopbacksUp, LoadNFT,
         WriteSysctl, Connected, HostForward, HostNat, NetworksDone, WriteHosts, UpDone,
         Unpin, DownDone, Operator, Abort, Podman, Loop, Begin, Run, Stop, vars
  <2> QED BY <2>1 DEF Same
<1> QED
  BY <1>1, <1>2, <1>3, <1>4, <1>5, <1>6, <1>7
  DEF Next, Process, Clear, Bootstrap, Apply, Routers, Endpoints, HostEdge, Teardown

(* The namespaces of a new interface are of this run, but for the init one. *)
LEMMA NewEnds ==
  ASSUME TInv, NEW d, New(d)
  PROVE  /\ d.b[1] \in Ns /\ d.b[1][2] = run
         /\ \/ d.a[1] = HostNs
            \/ d.a[1] \in Ns /\ d.a[1][2] = run
<1> USE HereFacts
<1>1. pc \in NetPcs \union {"link"} => Here \in Ns /\ Here[2] = run
  <2>1. pc \in NetPcs \union {"link"} => at \in PathsOf(cfg)
    BY ConfigFacts DEF TInv, TypeOK, Loops
  <2> QED BY <2>1 DEF Here, TInv, Loops
<1>2. CASE CreateGateway /\ d.a = GatewayEnd /\ d.b = GatewayEnd
  BY <1>2, <1>1 DEF CreateGateway, GatewayEnd
<1>3. CASE Connect /\ \E c \in eps : d.a = RouterEnd(c) /\ d.b = ContEnd(c)
  <2>1. PICK c \in eps : d.a = RouterEnd(c) /\ d.b = ContEnd(c)
    BY <1>3
  <2>2. pc = "ep" /\ <<at[2], c>> \in cfg.att
    BY <1>3 DEF Connect, TInv, Loops
  <2>3. Container(c) \in PathsOf(cfg)
    BY <2>2, ConfigFacts DEF PathsOf, ContsOf, TInv, TypeOK
  <2>4. fd[Container(c)] = run
    BY <2>2, <2>3 DEF TInv, Loops
  <2>5. <<Container(c), fd[Container(c)]>> \in Ns
    BY <2>2
  <2> QED BY <2>1, <2>2, <2>4, <2>5, <1>1 DEF RouterEnd, ContEnd
<1>4. CASE UplinkAdd /\ d.a = HostEnd(at[2]) /\ d.b = UplinkEnd
  BY <1>4, <1>1 DEF UplinkAdd, HostEnd, UplinkEnd
<1>5. CASE LinkConnect /\ d.a = LinkEnd /\ d.b = LinkContEnd
  BY <1>5, <1>1 DEF LinkConnect, LinkEnd, LinkContEnd
<1> QED BY <1>2, <1>3, <1>4, <1>5 DEF New

(* The init namespace is none of the plan's. *)
LEMMA HostNsApart == HostNs \notin Ns
<1>1. HostNs[2] = 0
  BY DEF HostNs
<1>2. \A x \in Ns : x[2] \in 1..Slots
  BY DEF Ns, Gens
<1>3. 0 \notin 1..Slots
  BY FabricAssumption
<1> QED BY <1>1, <1>2, <1>3

------------------------------------------------------------------------------
(***************************************************************************)
(* No veth joins two runs.                                                 *)
(***************************************************************************)

(* A step keeps the two ends of each interface in one run. *)
LEMMA GenerationsNext ==
  ASSUME TInv, Generations, [Next]_vars
  PROVE  Generations'
<1> SUFFICES ASSUME NEW d \in dev', d.a[1] # HostNs, d.b[1] # HostNs
             PROVE  d.a[1][2] = d.b[1][2]
  BY DEF Generations
<1>1. CASE Same(d)
  BY <1>1 DEF Same, Generations
<1>2. CASE New(d)
  BY <1>2, NewEnds
<1> QED BY <1>1, <1>2, Adds

(* A container left over in a namespace that is unpinned is cut off, not half
   connected (netns.go:288-297). *)
THEOREM OneRunPerVeth == Spec => []Generations
<1>1. Init => Generations
  BY DEF Init, Generations
<1>2. TInv /\ Generations /\ [Next]_vars => Generations'
  BY GenerationsNext
<1>3. IInv => TInv
  BY DEF IInv
<1> QED BY <1>1, <1>2, <1>3, Invariance, PTL DEF Spec

------------------------------------------------------------------------------
(***************************************************************************)
(* What is cleared stays cleared.                                          *)
(***************************************************************************)
Gone(n) == ~Taken(HostEnd(n))

(* Gone, or this run could not look it up. *)
Off(n) == Gone(n) \/ <<"host_if", Router(n)>> \in ignored

(* Second ends are in namespaces of the plan: host ends are first ends. *)
Sided == \A d \in dev : d.b[1] \in Ns

Cleaned ==
  /\ pc = "clear" =>
       \A n \in cfg.up : Router(n) \notin todo => Off(n) /\ n \notin zones
  /\ pc = "flush" =>
       /\ Off(at[2])
       /\ \A n \in cfg.up : Router(n) \notin todo \union {at} => Off(n) /\ n \notin zones
  /\ pc = "unpin" \/ (pc = "done" /\ cmd = "down") =>
       \A n \in cfg.up : Off(n) /\ n \notin zones

Released(p) == pin[p] = 0 \/ <<"pin", p>> \in ignored

Unpinned ==
  /\ pc = "unpin" => \A p \in PathsOf(cfg) \ todo : Released(p)
  /\ pc = "done" /\ cmd = "down" => \A p \in PathsOf(cfg) : Released(p)

(* What a run has met it does not forget. *)
LEMMA IgnoredGrows ==
  ASSUME [Next]_vars, ~Operator
  PROVE  ignored \subseteq ignored'
<1>1. CASE ClearLink \/ Unpin \/ Abort
  BY <1>1 DEF ClearLink, Unpin, Abort, Ignored
<1>2. CASE ~(ClearLink \/ Unpin \/ Abort)
  <2>1. ignored' = ignored
    BY <1>2 DEF FlushNat, Cleared, Detach, Pin, Minted, SetLoUp, LoopbacksUp, LoadNFT,
         WriteSysctl, CreateGateway, GatewayUp, Connect, EndpointUp, Connected, UplinkAdd,
         UplinkUp, HostForward, HostNat, NetworksDone, WriteHosts, LinkConnect, LinkUp, UpDone,
         DownDone, Podman, Kernel, Loop, Run, Stop, Reap, vars, Next, Process, Clear, Bootstrap,
         Apply, Routers, Endpoints, HostEdge, Teardown
  <2> QED BY <2>1
<1> QED BY <1>1, <1>2

(* Outside apply there are only ever fewer interfaces. *)
LEMMA DevShrinks ==
  ASSUME TInv, [Next]_vars, pc \notin NetPcs \union ContPcs
  PROVE  dev' \subseteq dev
<1>1. CASE ClearLink \/ Kernel
  BY <1>1 DEF ClearLink, Kernel, Reap
<1>2. CASE \/ FlushNat \/ Cleared \/ Detach \/ Pin \/ Minted \/ SetLoUp \/ LoopbacksUp
           \/ LoadNFT \/ NetworksDone \/ Unpin \/ DownDone \/ Operator
           \/ Abort \/ Podman \/ UNCHANGED vars
  BY <1>2 DEF FlushNat, Cleared, Detach, Pin, Minted, SetLoUp, LoopbacksUp, LoadNFT,
       NetworksDone, Unpin, DownDone, Operator, Abort, Podman, Loop, Begin, Run, Stop, vars
<1> QED
  BY <1>1, <1>2
  DEF Next, Process, Clear, Bootstrap, Apply, Routers, Endpoints, HostEdge, Teardown,
      WriteSysctl, CreateGateway, GatewayUp, Connect, EndpointUp, Connected, UplinkAdd,
      UplinkUp, HostForward, HostNat, WriteHosts, LinkConnect, LinkUp, UpDone

(* Gone is about the interfaces and the host_if of the network only. *)
LEMMA GoneStays ==
  ASSUME dev' \subseteq dev, cfg' = cfg, NEW n, Gone(n)
  PROVE  Gone(n)'
BY DEF Gone, Taken, HostEnd

LEMMA OffStays ==
  ASSUME dev' \subseteq dev, cfg' = cfg, ignored \subseteq ignored', NEW n, Off(n)
  PROVE  Off(n)'
BY GoneStays DEF Off

(* Second ends stay in namespaces of the plan. *)
LEMMA SidedNext ==
  ASSUME TInv, Sided, [Next]_vars
  PROVE  Sided'
<1>1. \A d \in dev' : Same(d) \/ New(d)
  BY Adds
<1> QED BY <1>1, NewEnds DEF Sided, Same

(* Clearing goes on to clear, and nothing undoes it before apply. *)
LEMMA CleanedNext ==
  ASSUME TInv, Sided, Cleaned, [Next]_vars
  PROVE  Cleaned'
<1> USE HereFacts
<1>1. CASE Operator
  BY <1>1 DEF Operator, Begin, Cleaned, RoutersOf
<1>2. CASE ClearLink
  <2>1. PICK p \in todo : /\ Take(p)
                          /\ \/ dev' = {d \in dev : d.a # HostEnd(p[2])} /\ ignored' = ignored
                             \/ dev' = dev /\ ignored' = ignored \union {<<"host_if", p>>}
    BY <1>2 DEF ClearLink, Ignored
  <2>2. /\ pc = "clear" /\ pc' = "flush" /\ cfg' = cfg /\ zones' = zones
        /\ dev' \subseteq dev /\ ignored \subseteq ignored'
    BY <1>2, <2>1 DEF ClearLink
  <2>3. at' = p /\ todo' = todo \ {p}
    BY <2>1 DEF Take
  <2>4. Off(at[2])'
    <3>1. CASE dev' = {d \in dev : d.a # HostEnd(p[2])}
      <4>1. HostEnd(p[2])' = HostEnd(p[2])
        BY <2>2 DEF HostEnd
      <4>2. \A d \in dev' : d.b # HostEnd(p[2])
        BY <2>2, HostNsApart DEF Sided, HostEnd
      <4>3. \A d \in dev' : d.a # HostEnd(p[2])
        BY <3>1
      <4> QED BY <2>3, <4>1, <4>2, <4>3 DEF Off, Gone, Taken, HostEnd
    <3>2. CASE <<"host_if", p>> \in ignored'
      <4>1. p = Router(p[2])
        BY <2>2 DEF TInv, Loops, RoutersOf
      <4> QED BY <2>3, <3>2, <4>1 DEF Off
    <3> QED BY <2>1, <3>1, <3>2
  <2>5. \A n \in cfg.up : Router(n) \notin todo => Off(n)' /\ n \notin zones'
    BY <2>2, OffStays DEF Cleaned
  <2> QED BY <2>2, <2>3, <2>4, <2>5 DEF Cleaned
<1>3. CASE FlushNat
  <2>1. /\ pc = "flush" /\ pc' = "clear" /\ UNCHANGED <<cfg, todo, at, dev, ignored>>
        /\ zones' = zones \ {at[2]}
    BY <1>3 DEF FlushNat
  <2>2. \A n \in cfg.up : Off(n) => Off(n)'
    BY <2>1, OffStays
  <2>3. ASSUME NEW n \in cfg.up, Router(n) \notin todo  PROVE Off(n)' /\ n \notin zones'
    <3>1. CASE Router(n) = at
      <4>1. at[2] = n
        BY <3>1 DEF Router
      <4> QED BY <2>1, <2>2, <4>1 DEF Cleaned
    <3>2. CASE Router(n) # at
      BY <2>1, <2>2, <2>3, <3>2 DEF Cleaned
    <3> QED BY <3>1, <3>2
  <2> QED BY <2>1, <2>3 DEF Cleaned
<1>4. CASE Cleared
  <2>1. pc = "clear" /\ todo = {} /\ pc' \in {"mint", "unpin"} /\ UNCHANGED <<cfg, dev, zones, ignored>>
    BY <1>4 DEF Cleared, Loop
  <2>2. \A n \in cfg.up : Off(n)' /\ n \notin zones'
    BY <2>1, OffStays DEF Cleaned
  <2> QED BY <2>1, <2>2 DEF Cleaned
<1>5. CASE Unpin \/ DownDone
  <2>1. /\ pc = "unpin" /\ pc' \in {"unpin", "done"} /\ UNCHANGED <<cfg, dev, zones>>
        /\ ignored \subseteq ignored'
    BY <1>5 DEF Unpin, DownDone, Ends, Ignored
  <2>2. \A n \in cfg.up : Off(n)' /\ n \notin zones'
    BY <2>1, OffStays DEF Cleaned
  <2> QED BY <2>1, <2>2 DEF Cleaned
<1>6. CASE Kernel \/ Podman \/ UNCHANGED vars
  <2>1. UNCHANGED <<pc, cmd, cfg, todo, at, zones, ignored>> /\ dev' \subseteq dev
    BY <1>6 DEF Kernel, Podman, Reap, Run, Stop, vars
  <2>2. \A n : Off(n) => Off(n)'
    BY <2>1, OffStays
  <2> QED BY <2>1, <2>2 DEF Cleaned
<1>7. CASE Abort \/ Detach \/ Pin \/ Minted \/ SetLoUp \/ LoopbacksUp
  BY <1>7 DEF Abort, Ends, Detach, Pin, Minted, SetLoUp, LoopbacksUp, Loop, Cleaned
<1>8. CASE \/ Routers \/ Endpoints \/ HostEdge \/ NetworksDone \/ WriteHosts
           \/ LinkConnect \/ LinkUp \/ UpDone
  <2>1. pc' \notin {"clear", "flush", "unpin"} /\ (pc' = "done" => cmd' # "down")
    BY <1>8 DEF Routers, Endpoints, HostEdge, LoadNFT, WriteSysctl, AfterSysctl,
         CreateGateway, GatewayUp, Connect, EndpointUp, Connected, UplinkAdd, UplinkUp,
         HostForward, HostNat, NetworksDone, WriteHosts, LinkConnect, LinkUp, UpDone,
         Loop, LinkAdd, Configure, Ends, TInv, Loops
  <2> QED BY <2>1 DEF Cleaned
<1> QED
  BY <1>1, <1>2, <1>3, <1>4, <1>5, <1>6, <1>7, <1>8
  DEF Next, Process, Clear, Bootstrap, Apply, Teardown

(* Unpinning goes on to unpin, and only the next run pins again. *)
LEMMA UnpinnedNext ==
  ASSUME TInv, Unpinned, [Next]_vars
  PROVE  Unpinned'
<1>1. CASE Cleared
  BY <1>1 DEF Cleared, Loop, Unpinned, Released, PathsOf
<1>2. CASE Unpin
  <2>1. PICK p \in todo : /\ Take(p)
                          /\ \/ pin' = [pin EXCEPT ![p] = 0] /\ ignored' = ignored
                             \/ pin' = pin /\ ignored' = ignored \union {<<"pin", p>>}
    BY <1>2 DEF Unpin, Ignored
  <2>2. /\ pc = "unpin" /\ UNCHANGED <<pc, cfg>> /\ todo' = todo \ {p}
        /\ PathsOf(cfg)' = PathsOf(cfg)
    BY <1>2, <2>1 DEF Unpin, Take, PathsOf
  <2>3. pin \in [Paths -> {0} \union Gens] /\ PathsOf(cfg) \subseteq Paths
    BY ConfigFacts DEF TInv, TypeOK
  <2>4. \A q \in PathsOf(cfg) \ todo' : Released(q)'
    BY <2>1, <2>2, <2>3 DEF Unpinned, Released
  <2> QED BY <2>2, <2>4 DEF Unpinned
<1>3. CASE DownDone
  BY <1>3 DEF DownDone, Ends, Unpinned, Released, PathsOf
<1>4. CASE Kernel \/ Podman \/ UNCHANGED vars
  BY <1>4 DEF Kernel, Podman, Reap, Run, Stop, vars, Unpinned, Released, PathsOf
<1>5. CASE ClearLink \/ FlushNat \/ Operator \/ Abort \/ Bootstrap
  BY <1>5 DEF ClearLink, FlushNat, Operator, Begin, Abort, Ends, Bootstrap, Detach, Pin,
       Minted, Loop, Unpinned
<1>6. CASE Apply
  <2>1. pc' # "unpin" /\ (pc' = "done" => cmd' # "down")
    BY <1>6 DEF Apply, SetLoUp, LoopbacksUp, Routers, Endpoints, HostEdge, LoadNFT,
         WriteSysctl, AfterSysctl,
         CreateGateway, GatewayUp, Connect, EndpointUp, Connected, UplinkAdd, UplinkUp,
         HostForward, HostNat, NetworksDone, WriteHosts, LinkConnect, LinkUp, UpDone,
         Loop, LinkAdd, Configure, Ends, TInv, Loops
  <2> QED BY <2>1 DEF Unpinned
<1> QED BY <1>1, <1>2, <1>3, <1>4, <1>5, <1>6 DEF Next, Process, Clear, Teardown

(* After `down` nothing of the configuration is pinned, and its host edge is
   gone, but for what met an error the code ignores (down.go:26-37). *)
THEOREM DownTearsDown == Spec => []TornDown
<1>1. Init => Sided /\ Cleaned /\ Unpinned
  BY DEF Init, Sided, Cleaned, Unpinned
<1>2. TInv /\ Sided /\ Cleaned /\ Unpinned /\ [Next]_vars
        => Sided' /\ Cleaned' /\ Unpinned'
  BY SidedNext, CleanedNext, UnpinnedNext
<1>3. IInv => TInv
  BY DEF IInv
<1>4. Cleaned /\ Unpinned => TornDown
  BY DEF Cleaned, Unpinned, Released, TornDown, Off, Gone
<1> QED BY <1>1, <1>2, <1>3, <1>4, Invariance, PTL DEF Spec

------------------------------------------------------------------------------
(***************************************************************************)
(* What is cleared is free, or taken by this run's own, when its turn      *)
(* comes.                                                                  *)
(***************************************************************************)

(* Whoever has the host_if of network n is of this run, unless this run could
   not look it up. *)
Own(n) == \A d \in dev : HostEnd(n) \in {d.a, d.b} =>
            d.b[1][2] = run \/ <<"host_if", Router(n)>> \in ignored

Edges ==
  /\ pc \in {"mint", "pin", "lo", "net"} \union NetPcs => \A n \in cfg.up : Own(n)
  /\ pc = "edge" => at[2] \in cfg.up

(* Of what this run adds, only the uplinks have host ends, and they are its
   own. *)
LEMMA OwnStays ==
  ASSUME TInv, [Next]_vars, ~Operator, ~LinkConnect, cfg' = cfg, run' = run,
         NEW n, Own(n)
  PROVE  Own(n)'
<1>1. HostEnd(n)' = HostEnd(n) /\ HostEnd(n)[1] = HostNs
  BY DEF HostEnd
<1>2. SUFFICES ASSUME NEW d \in dev', HostEnd(n) \in {d.a, d.b}
               PROVE  d.b[1][2] = run \/ <<"host_if", Router(n)>> \in ignored'
  BY <1>1 DEF Own
<1>3. CASE Same(d)
  BY <1>2, <1>3, IgnoredGrows DEF Same, Own
<1>4. CASE New(d)
  <2>1. CASE CreateGateway \/ Connect
    <3>1. pc \in NetPcs /\ pc # "edge"
      BY <2>1 DEF CreateGateway, Connect
    <3>2. d.a[1] = Here /\ Here \in Ns
      BY <1>4, <3>1, HereFacts DEF New, UplinkAdd, LinkConnect, GatewayEnd, RouterEnd
    <3>3. d.b[1] \in Ns
      BY <1>4, NewEnds
    <3> QED BY <1>1, <1>2, <3>2, <3>3, HostNsApart
  <2>2. CASE UplinkAdd
    <3>1. pc = "edge" /\ d.b = UplinkEnd
      BY <1>4, <2>2 DEF New, UplinkAdd, CreateGateway, Connect, LinkConnect
    <3>2. at \in PathsOf(cfg) /\ fd[at] = run
      BY <3>1, ConfigFacts DEF TInv, TypeOK, Loops
    <3> QED BY <3>1, <3>2 DEF UplinkEnd, Here
  <2> QED BY <1>4, <2>1, <2>2 DEF New
<1> QED BY <1>3, <1>4, Adds

(* A step keeps the host ends free, or taken by this run. *)
LEMMA EdgesNext ==
  ASSUME TInv, Cleaned, Edges, [Next]_vars
  PROVE  Edges'
<1> USE HereFacts
<1>1. CASE Operator \/ Abort \/ ClearLink \/ FlushNat \/ Teardown
  <2>1. pc' \in {"clear", "flush", "unpin", "done", "failed"}
    BY <1>1 DEF Operator, Begin, Abort, ClearLink, FlushNat, Teardown, Unpin, DownDone, Ends
  <2> QED BY <2>1 DEF Edges
<1>2. CASE Cleared
  <2>1. /\ pc = "clear" /\ todo = {} /\ pc' \in {"mint", "unpin"}
        /\ UNCHANGED <<cfg, dev, ignored, run>>
    BY <1>2 DEF Cleared, Loop
  <2>2. \A n \in cfg.up : Off(n)
    BY <2>1 DEF Cleaned
  <2>3. \A n \in cfg.up : Own(n)'
    BY <2>1, <2>2 DEF Off, Gone, Taken, Own, HostEnd
  <2> QED BY <2>1, <2>3 DEF Edges
<1>3. CASE \/ Bootstrap \/ SetLoUp \/ LoopbacksUp \/ LoadNFT \/ WriteSysctl \/ CreateGateway
           \/ GatewayUp \/ Connect \/ EndpointUp \/ Connected \/ HostEdge
  <2>1. pc \in {"mint", "pin", "lo", "net"} \union NetPcs /\ ~Operator /\ ~LinkConnect
    BY <1>3 DEF Bootstrap, Detach, Pin, Minted, SetLoUp, LoopbacksUp, LoadNFT, WriteSysctl,
         CreateGateway, GatewayUp, Connect, EndpointUp, Connected, HostEdge, UplinkAdd,
         UplinkUp, HostForward, HostNat, Loop, Operator, Begin, LinkConnect
  <2>2. cfg' = cfg /\ (pc' = "failed" \/ run' = run)
    BY <1>3 DEF Bootstrap, Detach, Pin, Minted, SetLoUp, LoopbacksUp, LoadNFT, WriteSysctl,
         CreateGateway, GatewayUp, Connect, EndpointUp, Connected, HostEdge, UplinkAdd,
         UplinkUp, HostForward, HostNat, Loop, LinkAdd, Configure, Ends
  <2>3. pc' # "failed" => \A n \in cfg.up : Own(n)'
    BY <2>1, <2>2, OwnStays DEF Edges
  <2>4. pc' = "edge" => Connected
    BY <1>3 DEF Bootstrap, Detach, Pin, Minted, SetLoUp, LoopbacksUp, LoadNFT, WriteSysctl,
         AfterSysctl, CreateGateway, GatewayUp, Connect, EndpointUp, HostEdge, UplinkAdd,
         UplinkUp, HostForward, HostNat, Loop, LinkAdd, Configure, Ends
  <2>5. pc' = "edge" => at'[2] \in cfg'.up
    BY <2>4 DEF Connected
  <2> QED BY <2>2, <2>3, <2>5 DEF Edges
<1>4. CASE NetworksDone \/ WriteHosts \/ LinkConnect \/ LinkUp \/ UpDone
  <2>1. pc' \in {"cont", "link", "linkup", "done", "failed"}
    BY <1>4 DEF NetworksDone, WriteHosts, LinkConnect, LinkUp, UpDone, Loop, LinkAdd,
         Configure, Ends
  <2> QED BY <2>1 DEF Edges
<1>5. CASE Kernel \/ Podman \/ UNCHANGED vars
  <2>1. UNCHANGED <<pc, cfg, run, at, ignored>> /\ dev' \subseteq dev
    BY <1>5 DEF Kernel, Podman, Reap, Run, Stop, vars
  <2>2. \A n : Own(n) => Own(n)'
    BY <2>1 DEF Own, HostEnd
  <2> QED BY <2>1, <2>2 DEF Edges
<1> QED
  BY <1>1, <1>2, <1>3, <1>4, <1>5
  DEF Next, Process, Clear, Apply, Routers, Endpoints

(* What HostEdgeConnect finds of its host_if is never what an earlier run left,
   unless this run failed to look it up (up.go:152-165). *)
THEOREM HostEdgeFree == Spec => []EdgeFree
<1>1. Init => Sided /\ Cleaned /\ Edges
  BY DEF Init, Sided, Cleaned, Edges
<1>2. TInv /\ Sided /\ Cleaned /\ Edges /\ [Next]_vars => Sided' /\ Cleaned' /\ Edges'
  BY SidedNext, CleanedNext, EdgesNext
<1>3. IInv => TInv
  BY DEF IInv
<1>4. TInv /\ Edges => EdgeFree
  <2> SUFFICES ASSUME TInv, Edges, pc = "edge"
               PROVE  Own(at[2]) /\ Router(at[2]) = at
    BY DEF EdgeFree, Own
  <2> QED BY DEF Edges, TInv, Loops, RoutersOf
<1> QED BY <1>1, <1>2, <1>3, <1>4, Invariance, PTL DEF Spec

-----------------------------------------------------------------------------
(***************************************************************************)
(* What `up` reports done is there: the proof of Complete.  And, in the    *)
(* last part, Fabric implements Lifecycle.                                 *)
(*                                                                         *)
(* Each loop has done its work for what it has taken and left behind       *)
(* (Loopbacks, Networks, Containers), at the element at hand as much as    *)
(* its program counter says (AtNetwork); and nothing undoes it, because    *)
(* all of it is in namespaces that are pinned (Pinned), which the kernel   *)
(* does not destroy, or in the init namespace, which only the next run     *)
(* clears.  The invariant speaks of pins, not of descriptors, since it has *)
(* to outlive the process.                                                 *)
(***************************************************************************)

HIDE DEF Router, Container

Finished == pc = "done" /\ cmd = "up"
Working  == pc \in Applies \/ Finished

Pinned == /\ pc = "mint" => \A p \in PathsOf(cfg) \ todo : pin[p] = run
          /\ pc = "pin" => \A p \in PathsOf(cfg) \ (todo \union {at}) : pin[p] = run
          /\ pc \in Applies => \A p \in PathsOf(cfg) : pin[p] = run
          /\ pc = "unpin" => cmd = "down"

NsOf(p)    == <<p, pin[p]>>
Made(e, f) == \E d \in dev : d.a = e /\ d.b = f

(* The ends of what the plan wires, between pinned namespaces. *)
GwEnd(n)      == <<NsOf(Router(n)), <<"gw", 0>>>>
EpEnd(n, c)   == <<NsOf(Router(n)), <<"vethR", c>>>>
EthEnd(n, c)  == <<NsOf(Container(c)), <<"eth", n>>>>
UpEnd(n)      == <<NsOf(Router(n)), <<"uplink", 0>>>>
LanHost(c)    == <<HostNs, <<"vethL", c>>>>
LanEnd(c)     == <<NsOf(Container(c)), <<"lan", 0>>>>

LoUp(p)    == <<NsOf(p), "lo">> \in knobs
GwUp(n)    == Wired(GwEnd(n), GwEnd(n))
EpUp(n, c) == Wired(EpEnd(n, c), EthEnd(n, c))
EdgeUp(n)  == Wired(HostEnd(n), UpEnd(n))
LanUp(c)   == Wired(LanHost(c), LanEnd(c))

NetUp(n) == /\ Hardened(NsOf(Router(n)))
            /\ GwUp(n)
            /\ \A c \in Conts : <<n, c>> \in cfg.att => EpUp(n, c)
            /\ n \in cfg.up => EdgeUp(n) /\ n \in zones /\ hfwd

ContUp(c) == c \in files /\ (c \in cfg.link => LanUp(c))

Loopbacks ==
  /\ pc = "lo" => \A p \in PathsOf(cfg) \ todo : LoUp(p)
  /\ pc \in Applies \ {"lo"} \/ Finished => \A p \in PathsOf(cfg) : LoUp(p)

Networks ==
  /\ pc = "net" => \A n \in cfg.nets : Router(n) \notin todo => NetUp(n)
  /\ pc \in NetPcs => \A n \in cfg.nets : Router(n) \notin todo \union {at} => NetUp(n)
  /\ pc \in ContPcs \/ Finished => \A n \in cfg.nets : NetUp(n)

Late == {"ep", "epup", "edge", "edgeup", "hfwd", "hnat"}

AtNet(n) ==
  /\ pc = "gwup" => Made(GwEnd(n), GwEnd(n))
  /\ pc \in Late => /\ GwUp(n)
                    /\ \A c \in Conts \ eps : <<n, c>> \in cfg.att => EpUp(n, c)
  /\ pc = "epup" => \A c \in eps : First(c) => Made(EpEnd(n, c), EthEnd(n, c))
  /\ pc \in Late \ {"ep", "epup"} => eps = {}
  /\ pc = "edgeup" => Made(HostEnd(n), UpEnd(n))
  /\ pc \in {"hfwd", "hnat"} => EdgeUp(n)
  /\ pc = "hnat" => hfwd

AtNetwork == \A n \in Nets : at = Router(n) => AtNet(n)

Containers ==
  /\ pc = "cont" => \A c \in cfg.conts : Container(c) \notin todo => ContUp(c)
  /\ pc \in {"link", "linkup"} =>
       \A c \in cfg.conts :
         /\ Container(c) \notin todo \union {at} => ContUp(c)
         /\ Container(c) = at => c \in files
         /\ Container(c) = at /\ pc = "linkup" => Made(LanHost(c), LanEnd(c))
  /\ Finished => \A c \in cfg.conts : ContUp(c)

CInv == IInv /\ Pinned /\ Loopbacks /\ Networks /\ AtNetwork /\ Containers

------------------------------------------------------------------------------
(***************************************************************************)
(* What stays.                                                             *)
(***************************************************************************)

(* Until the next run the plan and its pins are as they are. *)
LEMMA Steady ==
  ASSUME TInv, [Next]_vars, Working, ~Operator
  PROVE  UNCHANGED <<cfg, cmd, pin>>
<1>1. CASE Process
  <2>1. ~Clear /\ ~Bootstrap /\ ~Teardown
    BY DEF Working, Finished, Clear, Bootstrap, Teardown, ClearLink, FlushNat, Cleared, Detach,
       Pin, Minted, Unpin, DownDone, Loop
  <2>2. CASE Apply
    BY <2>2 DEF Apply, Routers, Endpoints, HostEdge, SetLoUp, LoopbacksUp, LoadNFT, WriteSysctl,
       CreateGateway, GatewayUp, Connect, EndpointUp, Connected, UplinkAdd, UplinkUp,
       HostForward, HostNat, NetworksDone, WriteHosts, LinkConnect, LinkUp, UpDone, Loop
  <2> QED BY <1>1, <2>1, <2>2 DEF Process
<1>2. CASE Abort \/ Podman \/ Kernel \/ UNCHANGED vars
  BY <1>2 DEF Abort, Podman, Run, Stop, Kernel, Reap, vars
<1> QED BY <1>1, <1>2 DEF Next

(* While a plan is applied no interface of a pinned namespace or of the init
   namespace goes, or goes down. *)
LEMMA DevStays ==
  ASSUME TInv, [Next]_vars, Working, NEW d \in dev,
         \A x \in {d.a[1], d.b[1]} : x \in Ns => pin[x[1]] = x[2]
  PROVE  \E c \in dev' : c.a = d.a /\ c.b = d.b /\ (d.up => c = d)
<1>1. CASE CreateGateway \/ Connect \/ UplinkAdd \/ LinkConnect
  BY <1>1 DEF CreateGateway, Connect, UplinkAdd, LinkConnect, LinkAdd
<1>2. CASE GatewayUp \/ EndpointUp \/ UplinkUp \/ LinkUp
  <2>1. PICK e : dev' = {IF c.a = e THEN [c EXCEPT !.up = TRUE] ELSE c : c \in dev}
    BY <1>2 DEF GatewayUp, EndpointUp, UplinkUp, LinkUp, Configure
  <2>2. PICK c : c = IF d.a = e THEN [d EXCEPT !.up = TRUE] ELSE d
    OBVIOUS
  <2>3. c \in dev'
    BY <2>1, <2>2
  <2>4. c.a = d.a /\ c.b = d.b /\ (d.up => c = d)
    BY <2>2 DEF TInv, TypeOK
  <2> QED BY <2>3, <2>4
<1>3. CASE Kernel
  <2>1. PICK x \in Ns : Reap(x)
    BY <1>3 DEF Kernel
  <2>2. d.a[1] # x /\ d.b[1] # x
    BY <2>1 DEF Reap
  <2> QED BY <2>1, <2>2 DEF Reap
<1>4. CASE \/ FlushNat \/ Cleared \/ Detach \/ Pin \/ Minted \/ SetLoUp \/ LoopbacksUp
           \/ LoadNFT \/ WriteSysctl \/ Connected \/ HostForward \/ HostNat
           \/ NetworksDone \/ WriteHosts \/ UpDone \/ Unpin \/ DownDone \/ Operator
           \/ Abort \/ Podman \/ UNCHANGED vars
  BY <1>4 DEF FlushNat, Cleared, Detach, Pin, Minted, SetLoUp, LoopbacksUp, LoadNFT, WriteSysctl,
     Connected, HostForward, HostNat, NetworksDone, WriteHosts, UpDone, Unpin, DownDone, Operator,
     Abort, Podman, Loop, Begin, Run, Stop, vars
<1>5. ~ClearLink
  BY DEF ClearLink, Working, Finished
<1> QED
  BY <1>1, <1>2, <1>3, <1>4, <1>5
  DEF Next, Process, Clear, Bootstrap, Apply, Routers, Endpoints, HostEdge, Teardown

(* The ends a plan wires: in pinned namespaces, or in the init namespace. *)
Fixed(e) == e[1] = HostNs \/ \E p \in Paths : e[1] = NsOf(p)

LEMMA WiredStays ==
  ASSUME TInv, [Next]_vars, Working, NEW e, NEW f, Fixed(e), Fixed(f)
  PROVE  /\ Wired(e, f) => [a |-> e, b |-> f, up |-> TRUE] \in dev'
         /\ Made(e, f) => \E c \in dev' : c.a = e /\ c.b = f
<1>1. \A x \in {e[1], f[1]} : x \in Ns => pin[x[1]] = x[2]
  <2>1. HostNs \notin Ns
    BY FabricAssumption DEF HostNs, Ns, Gens
  <2> QED BY <2>1 DEF Fixed, NsOf
<1>2. ASSUME Wired(e, f)  PROVE [a |-> e, b |-> f, up |-> TRUE] \in dev'
  <2> DEFINE d == [a |-> e, b |-> f, up |-> TRUE]
  <2>1. d \in dev
    BY <1>2 DEF Wired
  <2>2. PICK c \in dev' : d.up => c = d
    BY <1>1, <2>1, DevStays
  <2> QED BY <2>2
<1>3. ASSUME NEW d \in dev, d.a = e, d.b = f  PROVE \E c \in dev' : c.a = e /\ c.b = f
  BY <1>1, <1>3, DevStays
<1> QED BY <1>2, <1>3 DEF Made

(* Nor does a setting of a pinned namespace, but for those that writing
   ip_forward derives anew. *)
LEMMA KnobsStay ==
  ASSUME TInv, [Next]_vars, Working, NEW p \in Paths, NEW k, <<NsOf(p), k>> \in knobs,
         k \in {"all", "tmpl"} /\ pc = "fwd" => p # at
  PROVE  <<NsOf(p), k>> \in knobs'
<1>1. CASE WriteSysctl
  BY <1>1 DEF WriteSysctl, Rederived, Here, NsOf
<1>2. CASE Kernel
  BY <1>2 DEF Kernel, Reap, NsOf
<1>3. CASE SetLoUp \/ LoadNFT
  BY <1>3 DEF SetLoUp, LoadNFT
<1>4. CASE ~(WriteSysctl \/ Kernel \/ SetLoUp \/ LoadNFT)
  <2>1. knobs \subseteq knobs'
    BY <1>4 DEF ClearLink, FlushNat, Cleared, Detach, Pin, Minted, LoopbacksUp, CreateGateway,
       GatewayUp, Connect, EndpointUp, Connected, UplinkAdd, UplinkUp, HostForward, HostNat,
       NetworksDone, WriteHosts, LinkConnect, LinkUp, UpDone, Unpin, DownDone, Operator, Abort,
       Podman, Loop, Begin, Run, Stop, vars, Next, Process, Clear, Bootstrap, Apply, Routers,
       Endpoints, HostEdge, Teardown
  <2> QED BY <2>1
<1> QED BY <1>1, <1>2, <1>3, <1>4

(* Nor does a zone, a hosts file or the forwarding of the init namespace. *)
LEMMA HostStays ==
  ASSUME [Next]_vars, Working
  PROVE  zones \subseteq zones' /\ (hfwd => hfwd') /\ files \subseteq files'
<1>1. ~FlushNat
  BY DEF FlushNat, Working, Finished
<1>2. CASE HostNat
  BY <1>2 DEF HostNat
<1>3. CASE HostForward
  BY <1>3 DEF HostForward
<1>4. CASE WriteHosts
  BY <1>4 DEF WriteHosts
<1>5. CASE ClearLink \/ Cleared \/ Bootstrap \/ Teardown \/ Operator \/ Abort \/ Podman \/ Kernel
  BY <1>5 DEF ClearLink, Cleared, Bootstrap, Teardown, Detach, Pin, Minted, Unpin, DownDone,
     Operator, Begin, Abort, Podman, Run, Stop, Kernel, Reap, Loop
<1>6. CASE \/ SetLoUp \/ LoopbacksUp \/ Routers \/ Endpoints \/ UplinkAdd \/ UplinkUp
           \/ NetworksDone \/ LinkConnect \/ LinkUp \/ UpDone \/ UNCHANGED vars
  BY <1>6 DEF SetLoUp, LoopbacksUp, Routers, Endpoints, LoadNFT, WriteSysctl, CreateGateway,
     GatewayUp, Connect, EndpointUp, Connected, UplinkAdd, UplinkUp, NetworksDone, LinkConnect,
     LinkUp, UpDone, Loop, vars
<1> QED BY <1>1, <1>2, <1>3, <1>4, <1>5, <1>6 DEF Next, Process, Clear, Apply, HostEdge

(* What is wired stays wired while the plan is applied, and after. *)
LEMMA PairStays ==
  ASSUME TInv, [Next]_vars, Working, ~Operator, NEW e, NEW f, Fixed(e), Fixed(f)
  PROVE  /\ Wired(e, f) => Wired(e, f)'
         /\ Made(e, f) => Made(e, f)'
BY WiredStays DEF Wired, Made

(* The ends are where they were. *)
LEMMA SameEnds ==
  ASSUME TInv, UNCHANGED <<cfg, pin>>
  PROVE  /\ \A n \in Nets : /\ GwEnd(n)' = GwEnd(n) /\ Fixed(GwEnd(n))
                            /\ UpEnd(n)' = UpEnd(n) /\ Fixed(UpEnd(n))
                            /\ HostEnd(n)' = HostEnd(n) /\ Fixed(HostEnd(n))
                            /\ NsOf(Router(n))' = NsOf(Router(n))
         /\ \A c \in Conts : /\ LanHost(c)' = LanHost(c) /\ Fixed(LanHost(c))
                             /\ LanEnd(c)' = LanEnd(c) /\ Fixed(LanEnd(c))
         /\ \A n \in Nets, c \in Conts : /\ EpEnd(n, c)' = EpEnd(n, c) /\ Fixed(EpEnd(n, c))
                                          /\ EthEnd(n, c)' = EthEnd(n, c) /\ Fixed(EthEnd(n, c))
<1>1. \A n \in Nets : Router(n) \in Paths
  BY DEF Paths
<1>2. \A c \in Conts : Container(c) \in Paths
  BY DEF Paths
<1>3. \A n \in Nets : /\ GwEnd(n)' = GwEnd(n) /\ Fixed(GwEnd(n))
                     /\ UpEnd(n)' = UpEnd(n) /\ Fixed(UpEnd(n))
                     /\ HostEnd(n)' = HostEnd(n) /\ Fixed(HostEnd(n))
                     /\ NsOf(Router(n))' = NsOf(Router(n))
  BY <1>1 DEF GwEnd, UpEnd, HostEnd, NsOf, Fixed
<1>4. \A c \in Conts : /\ LanHost(c)' = LanHost(c) /\ Fixed(LanHost(c))
                      /\ LanEnd(c)' = LanEnd(c) /\ Fixed(LanEnd(c))
  BY <1>2 DEF LanHost, LanEnd, NsOf, Fixed
<1>5. \A n \in Nets, c \in Conts : /\ EpEnd(n, c)' = EpEnd(n, c) /\ Fixed(EpEnd(n, c))
                                   /\ EthEnd(n, c)' = EthEnd(n, c) /\ Fixed(EthEnd(n, c))
  BY <1>1, <1>2 DEF EpEnd, EthEnd, NsOf, Fixed
<1> QED BY <1>3, <1>4, <1>5

LEMMA UpStays ==
  ASSUME TInv, [Next]_vars, Working, ~Operator
  PROVE  /\ \A p \in Paths : LoUp(p) => LoUp(p)'
         /\ \A n \in Nets : GwUp(n) => GwUp(n)'
         /\ \A n \in Nets, c \in Conts : EpUp(n, c) => EpUp(n, c)'
         /\ \A n \in Nets : EdgeUp(n) => EdgeUp(n)'
         /\ \A c \in Conts : LanUp(c) => LanUp(c)'
<1>1. UNCHANGED <<cfg, pin>>
  BY Steady
<1>2. ASSUME NEW p \in Paths, LoUp(p)  PROVE LoUp(p)'
  BY <1>1, <1>2, KnobsStay DEF LoUp, NsOf
<1>3. ASSUME NEW n \in Nets  PROVE (GwUp(n) => GwUp(n)') /\ (EdgeUp(n) => EdgeUp(n)')
  BY <1>1, SameEnds, PairStays DEF GwUp, EdgeUp, Wired
<1>4. ASSUME NEW n \in Nets, NEW c \in Conts  PROVE EpUp(n, c) => EpUp(n, c)'
  BY <1>1, SameEnds, PairStays DEF EpUp, Wired
<1>5. ASSUME NEW c \in Conts  PROVE LanUp(c) => LanUp(c)'
  BY <1>1, SameEnds, PairStays DEF LanUp, Wired
<1> QED BY <1>2, <1>3, <1>4, <1>5

LEMMA NetStays ==
  ASSUME TInv, [Next]_vars, Working, ~Operator, NEW n \in Nets, NetUp(n),
         pc = "fwd" => at # Router(n)
  PROVE  NetUp(n)'
<1>1. UNCHANGED <<cfg, pin>>
  BY Steady
<1>2. Router(n) \in Paths
  BY DEF Paths
<1>3. Hardened(NsOf(Router(n)))'
  BY <1>1, <1>2, KnobsStay DEF NetUp, Hardened, NsOf
<1> QED BY <1>1, <1>3, UpStays, HostStays DEF NetUp

LEMMA ContStays ==
  ASSUME TInv, [Next]_vars, Working, ~Operator, NEW c \in Conts, ContUp(c)
  PROVE  ContUp(c)'
BY Steady, UpStays, HostStays DEF ContUp

------------------------------------------------------------------------------
(***************************************************************************)
(* The loops.                                                              *)
(***************************************************************************)

(* While a plan is applied: the steps of applyPlan, failure, and the world. *)
LEMMA Applying ==
  ASSUME TInv, [Next]_vars, pc \in Applies, ~Operator
  PROVE  /\ pc' \in Applies \union {"done", "failed"}
         /\ pc' \in Applies => run' = run
         /\ pc' = "lo" => pc = "lo"
         /\ pc = "lo" /\ ~SetLoUp /\ ~LoopbacksUp =>
              pc' \in {"lo", "failed"} /\ (pc' = "lo" => todo' = todo)
<1>1. ~Clear /\ ~Bootstrap /\ ~Teardown
  BY DEF Clear, Bootstrap, Teardown, ClearLink, FlushNat, Cleared, Detach, Pin, Minted, Unpin,
     DownDone, Loop
<1>2. CASE SetLoUp \/ LoopbacksUp \/ NetworksDone \/ WriteHosts \/ UpDone
  BY <1>2 DEF SetLoUp, LoopbacksUp, NetworksDone, WriteHosts, UpDone, Loop, Ends
<1>3. CASE LoadNFT \/ WriteSysctl \/ Connected \/ HostForward \/ HostNat
  BY <1>3 DEF LoadNFT, WriteSysctl, AfterSysctl, Connected, HostForward, HostNat
<1>4. CASE CreateGateway \/ Connect \/ UplinkAdd \/ LinkConnect
  BY <1>4 DEF CreateGateway, Connect, UplinkAdd, LinkConnect, LinkAdd, Ends
<1>5. CASE GatewayUp \/ EndpointUp \/ UplinkUp \/ LinkUp
  BY <1>5 DEF GatewayUp, EndpointUp, UplinkUp, LinkUp, Configure
<1>6. CASE Abort \/ Podman \/ Kernel \/ UNCHANGED vars
  BY <1>6 DEF Abort, Ends, Podman, Kernel, Run, Stop, Reap, vars
<1> QED
  BY <1>1, <1>2, <1>3, <1>4, <1>5, <1>6
  DEF Next, Process, Apply, Routers, Endpoints, HostEdge

(* After `up` is done, until the next command: the world alone. *)
LEMMA AfterDone ==
  ASSUME [Next]_vars, Finished, ~Operator
  PROVE  UNCHANGED <<pc, cmd, cfg, todo, at>>
<1>1. ~Process /\ ~Abort
  BY DEF Process, Clear, Bootstrap, Apply, Routers, Endpoints, HostEdge, Teardown, ClearLink,
     FlushNat, Cleared, Detach, Pin, Minted, SetLoUp, LoopbacksUp, LoadNFT, WriteSysctl,
     CreateGateway, GatewayUp, Connect, EndpointUp, Connected, UplinkAdd, UplinkUp, HostForward,
     HostNat, NetworksDone, WriteHosts, LinkConnect, LinkUp, UpDone, Unpin, DownDone, Loop,
     Abort, Finished
<1>2. CASE Podman \/ Kernel \/ UNCHANGED vars
  BY <1>2 DEF Podman, Run, Stop, Kernel, Reap, vars
<1> QED BY <1>1, <1>2 DEF Next

(* What a step outside the loops of apply can lead to. *)
LEMMA Elsewhere ==
  ASSUME TInv, Pinned, [Next]_vars, ~Working
  PROVE  /\ pc' \notin NetPcs \union ContPcs \union {"net"}
         /\ ~Finished'
         /\ pc' = "lo" => Minted
<1>1. CASE Process
  <2>1. ~Apply
    BY DEF Working, Apply, Routers, Endpoints, HostEdge, SetLoUp, LoopbacksUp, LoadNFT,
       WriteSysctl, CreateGateway, GatewayUp, Connect, EndpointUp, Connected, UplinkAdd, UplinkUp,
       HostForward, HostNat, NetworksDone, WriteHosts, LinkConnect, LinkUp, UpDone, Loop
  <2>2. CASE Clear \/ Bootstrap \/ Teardown
    BY <2>2 DEF Pinned, Finished, Clear, Bootstrap, Teardown, ClearLink, FlushNat, Cleared,
       Detach, Pin, Minted, Unpin, DownDone, Loop, Ends
  <2> QED BY <1>1, <2>1, <2>2 DEF Process
<1>2. CASE Operator \/ Abort \/ Podman \/ Kernel \/ UNCHANGED vars
  BY <1>2 DEF Working, Finished, Operator, Begin, Abort, Ends, Podman, Run, Stop, Kernel, Reap,
     vars
<1> QED BY <1>1, <1>2 DEF Next

(* A new command starts where nothing is said of the loops. *)
LEMMA Begins ==
  ASSUME Operator
  PROVE  ~Working' /\ pc' \notin {"mint", "pin", "unpin"}
BY DEF Operator, Begin, Working, Finished

LEMMA PinnedNext ==
  ASSUME TInv, TInv', Pinned, [Next]_vars
  PROVE  Pinned'
<1>1. CASE Operator
  BY <1>1, Begins DEF Pinned, Working
<1>2. CASE Cleared
  BY <1>2 DEF Cleared, Loop, Pinned, PathsOf, TInv, TypeOK
<1>3. CASE Detach
  <2>1. PICK p \in todo : Take(p) /\ pin' = [pin EXCEPT ![p] = 0]
    BY <1>3 DEF Detach
  <2>2. pc = "mint" /\ pc' = "pin" /\ todo' = todo \ {p} /\ at' = p /\ UNCHANGED <<cfg, run>>
    BY <1>3, <2>1 DEF Detach, Take
  <2>3. \A q \in PathsOf(cfg) \ todo : pin'[q] = run
    <3>1. PathsOf(cfg) \subseteq Paths
      BY ConfigFacts DEF TInv, TypeOK
    <3> QED BY <2>1, <2>2, <3>1 DEF Pinned, TInv, TypeOK
  <2> QED BY <2>2, <2>3 DEF Pinned, PathsOf
<1>4. CASE Pin
  <2>1. pc = "pin" /\ pc' = "mint" /\ pin' = [pin EXCEPT ![at] = run] /\ UNCHANGED <<cfg, run, todo>>
    BY <1>4 DEF Pin
  <2>2. PathsOf(cfg) \subseteq Paths
    BY ConfigFacts DEF TInv, TypeOK
  <2>3. \A q \in PathsOf(cfg) \ todo : pin'[q] = run
    BY <2>1, <2>2 DEF Pinned, TInv, TypeOK
  <2> QED BY <2>1, <2>3 DEF Pinned, PathsOf
<1>5. CASE Minted
  BY <1>5 DEF Minted, Loop, Pinned, PathsOf
<1>6. CASE pc \in Applies /\ ~Operator
  <2>1. UNCHANGED <<cfg, pin>>
    BY <1>6, Steady DEF Working
  <2>2. pc' \in Applies \union {"done", "failed"} /\ (pc' \in Applies => run' = run)
    BY <1>6, Applying
  <2> QED BY <1>6, <2>1, <2>2 DEF Pinned, PathsOf
<1>7. CASE ClearLink \/ FlushNat \/ Teardown \/ Abort
  <2>1. pc' \notin {"mint", "pin"} \union Applies /\ (pc' = "unpin" => pc = "unpin" /\ cmd' = cmd)
    BY <1>7 DEF ClearLink, FlushNat, Teardown, Unpin, DownDone, Abort, Ends
  <2> QED BY <2>1 DEF Pinned
<1>8. CASE Podman \/ Kernel \/ UNCHANGED vars
  BY <1>8 DEF Podman, Kernel, Run, Stop, Reap, vars, Pinned, PathsOf
<1>9. CASE Apply
  <2>1. pc \in Applies
    BY <1>9 DEF Apply, Routers, Endpoints, HostEdge, SetLoUp, LoopbacksUp,
       LoadNFT, WriteSysctl, CreateGateway, GatewayUp, Connect, EndpointUp, Connected, UplinkAdd,
       UplinkUp, HostForward, HostNat, NetworksDone, WriteHosts, LinkConnect, LinkUp, UpDone,
       Loop
  <2> QED BY <1>1, <1>6, <2>1
<1> QED BY <1>1, <1>2, <1>3, <1>4, <1>5, <1>7, <1>8, <1>9 DEF Next, Process, Clear, Bootstrap

(* The descriptor at hand is of the namespace that is pinned. *)
LEMMA HerePinned ==
  ASSUME TInv, Pinned
  PROVE  /\ pc \in NetPcs \union {"link", "linkup"} => Here = NsOf(at)
         /\ pc \in NetPcs => at = Router(at[2]) /\ at[2] \in cfg.nets
         /\ pc \in {"link", "linkup"} => at = Container(at[2]) /\ at[2] \in cfg.conts
         /\ pc \in {"ep", "epup"} => \A c \in eps : fd[Container(c)] = pin[Container(c)]
         /\ pc \in Applies => \A p \in PathsOf(cfg) : fd[p] = pin[p]
<1>1. pc \in Applies => \A p \in PathsOf(cfg) : fd[p] = pin[p]
  BY DEF Pinned, TInv, Loops
<1>2. pc \in NetPcs => at \in RoutersOf(cfg.nets) /\ at \in PathsOf(cfg)
  BY DEF TInv, Loops, PathsOf
<1>3. pc \in {"link", "linkup"} => at \in ContsOf(cfg.conts) /\ at \in PathsOf(cfg)
  BY DEF TInv, Loops, PathsOf
<1>4. pc \in {"ep", "epup"} => \A c \in eps : Container(c) \in PathsOf(cfg)
  BY ConfigFacts DEF TInv, TypeOK, Loops, PathsOf, ContsOf
<1>5. pc \in NetPcs => at = Router(at[2]) /\ at[2] \in cfg.nets
  BY <1>2 DEF RoutersOf, Router
<1>6. pc \in {"link", "linkup"} => at = Container(at[2]) /\ at[2] \in cfg.conts
  BY <1>3 DEF ContsOf, Container
<1>7. pc \in NetPcs \union {"link", "linkup"} => Here = NsOf(at)
  BY <1>1, <1>2, <1>3 DEF Here, NsOf
<1> QED BY <1>1, <1>4, <1>5, <1>6, <1>7

(* Every loopback the loop has left behind is up. *)
LEMMA LoopbacksNext ==
  ASSUME TInv, TInv', Pinned, Loopbacks, [Next]_vars
  PROVE  Loopbacks'
<1>1. CASE Operator
  BY <1>1, Begins DEF Loopbacks, Working
<1>2. CASE ~Working
  <2>1. CASE Minted
    BY <2>1 DEF Minted, Loop, Loopbacks, PathsOf, Finished
  <2>2. CASE ~Minted
    BY <1>2, <2>2, Elsewhere DEF Loopbacks
  <2> QED BY <2>1, <2>2
<1>3. CASE Working /\ ~Operator
  <2>1. UNCHANGED <<cfg, cmd, pin>> /\ PathsOf(cfg) \subseteq Paths
    BY <1>3, Steady, ConfigFacts DEF TInv, TypeOK
  <2>2. \A p \in PathsOf(cfg) : LoUp(p) => LoUp(p)'
    BY <1>3, <2>1, UpStays
  <2>3. CASE SetLoUp
    <3>1. PICK p \in todo : Take(p) /\ knobs' = knobs \union {<<<<p, fd[p]>>, "lo">>}
      BY <2>3 DEF SetLoUp
    <3>2. pc = "lo" /\ pc' = "lo" /\ todo' = todo \ {p}
      BY <2>3, <3>1 DEF SetLoUp, Take
    <3>3. p \in PathsOf(cfg) /\ fd[p] = pin[p]
      BY <3>2, HerePinned DEF TInv, Loops
    <3>4. LoUp(p)'
      BY <2>1, <3>1, <3>3 DEF LoUp, NsOf
    <3> QED BY <2>1, <2>2, <3>2, <3>4 DEF Loopbacks, PathsOf, Finished
  <2>4. CASE LoopbacksUp
    <3>1. pc = "lo" /\ todo = {} /\ pc' = "net"
      BY <2>4 DEF LoopbacksUp, Loop
    <3> QED BY <2>1, <2>2, <3>1 DEF Loopbacks, PathsOf, Finished
  <2>5. CASE pc \in Applies \ {"lo"} \/ Finished
    <3>1. pc' # "lo"
      <4>1. CASE pc \in Applies
        BY <1>3, <2>5, <4>1, Applying DEF Finished
      <4>2. CASE Finished
        BY <1>3, <4>2, AfterDone DEF Finished
      <4> QED BY <2>5, <4>1, <4>2
    <3>2. \A p \in PathsOf(cfg) : LoUp(p)'
      BY <2>2, <2>5 DEF Loopbacks
    <3> QED BY <2>1, <3>1, <3>2 DEF Loopbacks, PathsOf
  <2>6. CASE pc = "lo" /\ ~SetLoUp /\ ~LoopbacksUp
    <3>1. pc' \in {"lo", "failed"} /\ (pc' = "lo" => todo' = todo)
      BY <1>3, <2>6, Applying
    <3> QED BY <2>1, <2>2, <2>6, <3>1 DEF Loopbacks, PathsOf, Finished
  <2> QED BY <1>3, <2>3, <2>4, <2>5, <2>6 DEF Working
<1> QED BY <1>1, <1>2, <1>3
(* The shape of a step while a plan is applied. *)
LEMMA Flow ==
  ASSUME TInv, [Next]_vars, pc \in Applies, ~Operator, pc' # "failed"
  PROVE  /\ pc = "lo" => pc' \in {"lo", "net"} /\ (pc' = "net" => todo' = RoutersOf(cfg.nets))
         /\ pc = "net" => \/ LoadNFT \/ NetworksDone
                          \/ UNCHANGED <<pc, todo, at>>
         /\ pc \in NetPcs => /\ UNCHANGED <<todo, at>>
                             /\ pc' \in NetPcs \/ (pc' = "net" /\ (Connected \/ HostNat))
         /\ pc = "cont" => \/ WriteHosts
                           \/ UpDone /\ todo = {} /\ pc' = "done"
                           \/ UNCHANGED <<pc, todo, at>>
         /\ pc \in {"link", "linkup"} => UNCHANGED <<todo, at>>
         /\ pc = "link" => pc' \in {"link", "linkup"}
         /\ pc = "linkup" => pc' = "linkup" \/ (pc' = "cont" /\ LinkUp)
<1>1. ~Clear /\ ~Bootstrap /\ ~Teardown
  BY DEF Clear, Bootstrap, Teardown, ClearLink, FlushNat, Cleared, Detach, Pin, Minted, Unpin,
     DownDone, Loop
<1>2. CASE SetLoUp \/ LoopbacksUp \/ LoadNFT \/ NetworksDone
  BY <1>2 DEF SetLoUp, LoopbacksUp, LoadNFT, NetworksDone, Loop
<1>3. CASE WriteSysctl \/ Connected \/ HostForward \/ HostNat
  BY <1>3 DEF WriteSysctl, AfterSysctl, Connected, HostForward, HostNat
<1>4. CASE CreateGateway \/ Connect \/ UplinkAdd \/ LinkConnect
  BY <1>4 DEF CreateGateway, Connect, UplinkAdd, LinkConnect, LinkAdd, Ends
<1>5. CASE GatewayUp \/ EndpointUp \/ UplinkUp \/ LinkUp
  BY <1>5 DEF GatewayUp, EndpointUp, UplinkUp, LinkUp, Configure
<1>6. CASE WriteHosts \/ UpDone
  BY <1>6 DEF WriteHosts, UpDone, Ends
<1>7. CASE Abort \/ Podman \/ Kernel \/ UNCHANGED vars
  BY <1>7 DEF Abort, Ends, Podman, Kernel, Run, Stop, Reap, vars
<1> QED
  BY <1>1, <1>2, <1>3, <1>4, <1>5, <1>6, <1>7
  DEF Next, Process, Apply, Routers, Endpoints, HostEdge

(* From "link" the only way on is LinkConnect. *)
LEMMA LinkStep ==
  ASSUME [Next]_vars, ~Operator, pc = "link", pc' = "linkup"
  PROVE  LinkConnect
<1>1. ~Clear /\ ~Bootstrap /\ ~Teardown /\ ~Abort /\ ~Podman /\ ~Kernel /\ ~UNCHANGED vars
  BY DEF Clear, Bootstrap, Teardown, ClearLink, FlushNat, Cleared, Detach, Pin, Minted, Unpin,
     DownDone, Loop, Abort, Ends, Podman, Run, Stop, Kernel, Reap, vars
<1>2. ~SetLoUp /\ ~LoopbacksUp /\ ~Routers /\ ~Endpoints /\ ~HostEdge
  BY DEF SetLoUp, LoopbacksUp, Loop, Routers, Endpoints, HostEdge, LoadNFT, WriteSysctl,
     CreateGateway, GatewayUp, Connect, EndpointUp, Connected, UplinkAdd, UplinkUp, HostForward,
     HostNat
<1>3. ~NetworksDone /\ ~WriteHosts /\ ~LinkUp /\ ~UpDone
  BY DEF NetworksDone, Loop, WriteHosts, LinkUp, UpDone
<1> QED BY <1>1, <1>2, <1>3 DEF Next, Process, Apply

(* Adding an interface makes it; setting it up wires it. *)
LEMMA Added ==
  ASSUME NEW e, NEW f, NEW next, LinkAdd(e, f, next), pc' # "failed"
  PROVE  /\ \E d \in dev' : d.a = e /\ d.b = f
         /\ pc' = next /\ UNCHANGED <<run, todo, eps, at, fd>>
<1>1. dev' = dev \union {[a |-> e, b |-> f, up |-> FALSE]}
  BY DEF LinkAdd, Ends
<1>2. [a |-> e, b |-> f, up |-> FALSE] \in dev'
  BY <1>1
<1>3. pc' = next /\ UNCHANGED <<run, todo, eps, at, fd>>
  BY DEF LinkAdd, Ends
<1> QED BY <1>2, <1>3

LEMMA Brought ==
  ASSUME TInv, NEW e, NEW f, NEW next, Configure(e, next), Made(e, f)
  PROVE  [a |-> e, b |-> f, up |-> TRUE] \in dev'
<1>1. PICK d \in dev : d.a = e /\ d.b = f
  BY DEF Made
<1>2. PICK c : c = [d EXCEPT !.up = TRUE]
  OBVIOUS
<1>3. c = [a |-> e, b |-> f, up |-> TRUE]
  <2>1. c \in [a : End, b : End, up : BOOLEAN] /\ c.a = e /\ c.b = f /\ c.up = TRUE
    BY <1>1, <1>2 DEF TInv, TypeOK
  <2>2. PICK x \in End, y \in End, u \in BOOLEAN : c = [a |-> x, b |-> y, up |-> u]
    BY <2>1
  <2> QED BY <2>1, <2>2
<1>4. c \in dev'
  BY <1>1, <1>2 DEF Configure
<1> QED BY <1>3, <1>4

(* The network at hand is wired as far as its program counter says. *)
LEMMA AtNext ==
  ASSUME TInv, TInv', Pinned, AtNetwork, [Next]_vars
  PROVE  AtNetwork'
<1>1. CASE pc' \notin {"gwup"} \union Late
  BY <1>1 DEF AtNetwork, AtNet, Late
<1>2. CASE ~Operator /\ pc \in NetPcs /\ pc' \in {"gwup"} \union Late
  <2>1. SUFFICES ASSUME NEW n \in Nets, at' = Router(n)  PROVE AtNet(n)'
    BY DEF AtNetwork
  <2>2. at = Router(n) /\ at[2] = n /\ UNCHANGED <<todo, at>>
    <3>1. UNCHANGED <<todo, at>>
      BY <1>2, Flow DEF Late
    <3> QED BY <2>1, <3>1 DEF Router
  <2>3. AtNet(n) /\ UNCHANGED <<cfg, pin>>
    BY <1>2, <2>2, Steady DEF AtNetwork, Working
  <2>4. Here = NsOf(Router(n))
    BY <1>2, <2>2, HerePinned
  <2>5. /\ GwUp(n) => GwUp(n)'
        /\ \A c \in Conts : EpUp(n, c) => EpUp(n, c)'
        /\ EdgeUp(n) => EdgeUp(n)'
        /\ hfwd => hfwd'
    BY <1>2, UpStays, HostStays DEF Working
  <2>6. CASE WriteSysctl
    BY <1>2, <2>6 DEF WriteSysctl, AfterSysctl, Late
  <2>7. CASE CreateGateway
    <3>1. GatewayEnd = GwEnd(n)
      BY <2>2, <2>4 DEF GatewayEnd, GwEnd
    <3>2. Made(GwEnd(n), GwEnd(n))' /\ pc' = "gwup"
      BY <1>2, <2>3, <2>7, <3>1, Added, SameEnds DEF CreateGateway, Made, Late
    <3> QED BY <3>2 DEF AtNet, Late
  <2>8. CASE GatewayUp
    <3>1. GatewayEnd = GwEnd(n) /\ Made(GwEnd(n), GwEnd(n))
      BY <2>2, <2>3, <2>4, <2>8 DEF GatewayEnd, GwEnd, GatewayUp, AtNet
    <3>2. GwUp(n)'
      BY <2>3, <2>8, <3>1, Brought, SameEnds DEF GatewayUp, GwUp, Wired
    <3>3. pc' = "ep" /\ \A c \in Conts \ eps' : <<n, c>> \notin cfg'.att
      BY <2>2, <2>3, <2>8 DEF GatewayUp, Configure
    <3> QED BY <3>2, <3>3 DEF AtNet, Late
  <2>9. CASE Connect
    <3>1. PICK c \in eps : First(c) /\ LinkAdd(RouterEnd(c), ContEnd(c), "epup")
      BY <2>9 DEF Connect
    <3>2. pc' = "epup" /\ UNCHANGED eps
      BY <1>2, <3>1, Added DEF Late
    <3>3. RouterEnd(c) = EpEnd(n, c) /\ ContEnd(c) = EthEnd(n, c) /\ c \in Conts /\ pc = "ep"
      BY <2>2, <2>4, <2>9, HerePinned
      DEF RouterEnd, ContEnd, EpEnd, EthEnd, NsOf, Connect, TInv, TypeOK
    <3>4. Made(EpEnd(n, c), EthEnd(n, c))'
      BY <1>2, <2>3, <3>1, <3>3, Added, SameEnds DEF Made, Late
    <3>5. \A b \in eps' : First(b)' => b = c
      BY <3>1, <3>2, FabricAssumption DEF First, Conts, TInv, TypeOK
    <3>6. GwUp(n)' /\ \A b \in Conts \ eps' : <<n, b>> \in cfg'.att => EpUp(n, b)'
      BY <2>3, <2>5, <3>2, <3>3 DEF AtNet, Late
    <3> QED BY <3>2, <3>4, <3>5, <3>6 DEF AtNet, Late
  <2>10. CASE EndpointUp
    <3>1. PICK c \in eps : First(c) /\ Configure(RouterEnd(c), "ep") /\ eps' = eps \ {c}
      BY <2>10 DEF EndpointUp
    <3>2. RouterEnd(c) = EpEnd(n, c) /\ c \in Conts /\ pc = "epup" /\ pc' = "ep"
      BY <2>2, <2>4, <2>10, <3>1 DEF RouterEnd, EpEnd, EndpointUp, Configure, TInv, TypeOK
    <3>3. Made(EpEnd(n, c), EthEnd(n, c))
      BY <2>3, <3>1, <3>2 DEF AtNet
    <3>4. EpUp(n, c)'
      BY <2>3, <3>1, <3>2, <3>3, Brought, SameEnds DEF EpUp, Wired
    <3>5. GwUp(n)' /\ \A b \in Conts \ eps : <<n, b>> \in cfg'.att => EpUp(n, b)'
      BY <2>3, <2>5, <3>2 DEF AtNet, Late
    <3> QED BY <3>1, <3>2, <3>4, <3>5 DEF AtNet, Late
  <2>11. CASE Connected
    BY <1>2, <2>3, <2>5, <2>11 DEF Connected, AtNet, Late, loopVars
  <2>12. CASE UplinkAdd
    <3>1. HostEnd(at[2]) = HostEnd(n) /\ UplinkEnd = UpEnd(n) /\ pc = "edge"
      BY <2>2, <2>4, <2>12 DEF UplinkEnd, UpEnd, UplinkAdd
    <3>2. Made(HostEnd(n), UpEnd(n))' /\ pc' = "edgeup" /\ eps' = eps
      BY <1>2, <2>3, <2>12, <3>1, Added, SameEnds DEF UplinkAdd, Made, Late
    <3> QED BY <2>3, <2>5, <3>1, <3>2 DEF AtNet, Late
  <2>13. CASE UplinkUp
    <3>1. HostEnd(at[2]) = HostEnd(n) /\ Made(HostEnd(n), UpEnd(n)) /\ pc = "edgeup"
      BY <2>2, <2>3, <2>13 DEF UplinkUp, AtNet
    <3>2. EdgeUp(n)'
      BY <2>3, <2>13, <3>1, Brought, SameEnds DEF UplinkUp, EdgeUp, Wired
    <3>3. pc' = "hfwd" /\ eps' = eps
      BY <2>13 DEF UplinkUp, Configure, loopVars
    <3> QED BY <2>3, <2>5, <3>1, <3>2, <3>3 DEF AtNet, Late
  <2>14. CASE HostForward
    BY <2>3, <2>5, <2>14 DEF HostForward, AtNet, Late, loopVars
  <2>15. CASE HostNat
    BY <1>2, <2>15 DEF HostNat, Late
  <2>16. CASE Podman \/ Kernel \/ UNCHANGED vars
    <3>1. UNCHANGED <<pc, eps>>
      BY <2>16 DEF Podman, Run, Stop, Kernel, Reap, vars
    <3>2. \A e, f : Fixed(e) /\ Fixed(f) /\ Made(e, f) => Made(e, f)'
      BY <1>2, PairStays DEF Working
    <3>3. /\ Made(GwEnd(n), GwEnd(n)) => Made(GwEnd(n), GwEnd(n))'
          /\ Made(HostEnd(n), UpEnd(n)) => Made(HostEnd(n), UpEnd(n))'
          /\ \A c \in Conts : Made(EpEnd(n, c), EthEnd(n, c)) => Made(EpEnd(n, c), EthEnd(n, c))'
      BY <2>3, <3>2, SameEnds DEF Made
    <3>4. eps \subseteq Conts /\ \A c \in eps : First(c)' <=> First(c)
      BY <3>1 DEF First, TInv, TypeOK
    <3> QED BY <2>3, <2>5, <3>1, <3>3, <3>4 DEF AtNet, Late
  <2>17. ~Clear /\ ~Bootstrap /\ ~Teardown /\ ~Abort /\ ~SetLoUp /\ ~LoopbacksUp /\ ~LoadNFT
    BY <1>2 DEF Clear, Bootstrap, Teardown, ClearLink, FlushNat, Cleared, Detach, Pin, Minted, Unpin,
       DownDone, Loop, Abort, Ends, Late, SetLoUp, LoopbacksUp, LoadNFT
  <2>18. ~NetworksDone /\ ~WriteHosts /\ ~LinkConnect /\ ~LinkUp /\ ~UpDone
    BY <1>2 DEF NetworksDone, Loop, WriteHosts, LinkConnect, LinkUp, UpDone
  <2> QED
    BY <1>2, <2>6, <2>7, <2>8, <2>9, <2>10, <2>11, <2>12, <2>13, <2>14, <2>15, <2>16, <2>17, <2>18
    DEF Next, Process, Apply, Routers, Endpoints, HostEdge
<1>3. (pc \in NetPcs /\ ~Operator) \/ pc' \notin {"gwup"} \union Late
  <2>1. CASE Operator
    BY <2>1, Begins DEF Working, Late
  <2>2. CASE ~Working
    BY <2>2, Elsewhere DEF Late
  <2>3. CASE Finished /\ ~Operator
    BY <2>3, AfterDone DEF Finished, Late
  <2>4. CASE pc \in Applies /\ ~Operator
    BY <2>4, Flow DEF Late, LoadNFT, NetworksDone, Loop, WriteHosts
  <2> QED BY <2>1, <2>2, <2>3, <2>4 DEF Working
<1> QED BY <1>1, <1>2, <1>3

(* The network at hand is done when its last step is. *)
LEMMA AtDone ==
  ASSUME TInv, Pinned, Staged, AtNetwork, [Next]_vars, Connected \/ HostNat, pc' = "net",
         NEW n \in Nets, at = Router(n)
  PROVE  NetUp(n)'
<1>1. pc \in {"ep", "hnat"} /\ ~Operator /\ Working
  BY DEF Connected, HostNat, Operator, Begin, Working
<1>2. AtNet(n) /\ UNCHANGED <<cfg, pin>> /\ at[2] = n
  BY <1>1, Steady DEF AtNetwork, Router
<1>3. Hardened(NsOf(Router(n)))
  BY <1>1, HerePinned DEF Staged
<1>4. GwUp(n) /\ \A c \in Conts : <<n, c>> \in cfg.att => EpUp(n, c)
  <2>1. eps = {}
    BY <1>1, <1>2 DEF AtNet, Late, Connected, HostNat
  <2>2. GwUp(n) /\ \A c \in Conts \ eps : <<n, c>> \in cfg.att => EpUp(n, c)
    BY <1>1, <1>2 DEF AtNet, Late
  <2> QED BY <2>1, <2>2
<1>5. (Hardened(NsOf(Router(n))) /\ knobs' = knobs) => Hardened(NsOf(Router(n)))'
  BY <1>2 DEF Hardened, NsOf
<1>6. knobs' = knobs
  BY DEF Connected, HostNat
<1>7. GwUp(n)' /\ (\A c \in Conts : <<n, c>> \in cfg'.att => EpUp(n, c)') /\ (EdgeUp(n) => EdgeUp(n)')
  BY <1>1, <1>2, <1>4, UpStays
<1>8. n \in cfg'.up => EdgeUp(n)' /\ n \in zones' /\ hfwd'
  BY <1>1, <1>2, <1>7 DEF AtNet, Connected, HostNat
<1> QED BY <1>3, <1>5, <1>6, <1>7, <1>8 DEF NetUp

(* Every network the loop has left behind is up. *)
LEMMA NetworksNext ==
  ASSUME TInv, TInv', Pinned, Staged, AtNetwork, Networks, [Next]_vars
  PROVE  Networks'
<1>1. CASE Operator
  BY <1>1, Begins DEF Networks, Working
<1>2. CASE ~Working
  BY <1>2, Elsewhere DEF Networks
<1>3. CASE Working /\ ~Operator
  <2>1. UNCHANGED <<cfg, cmd, pin>> /\ cfg.nets \subseteq Nets
    BY <1>3, Steady, ConfigFacts DEF TInv, TypeOK
  <2>2. \A n \in cfg.nets : NetUp(n) /\ (pc = "fwd" => at # Router(n)) => NetUp(n)'
    BY <1>3, <2>1, NetStays
  <2>3. CASE pc' = "failed"
    BY <2>3 DEF Networks, Finished
  <2>4. CASE pc = "lo" /\ pc' # "failed"
    BY <1>3, <2>1, <2>4, Flow DEF Networks, Finished, RoutersOf
  <2>5. CASE pc = "net" /\ pc' # "failed"
    <3>1. CASE LoadNFT
      <4>1. PICK p \in todo : Take(p)
        BY <3>1 DEF LoadNFT
      <4>2. pc' = "fwd" /\ todo' = todo \ {p} /\ at' = p
        BY <3>1, <4>1 DEF LoadNFT, Take
      <4> QED BY <2>1, <2>2, <2>5, <4>2 DEF Networks, Finished
    <3>2. CASE NetworksDone
      <4>1. todo = {} /\ pc' = "cont"
        BY <3>2 DEF NetworksDone, Loop
      <4> QED BY <2>1, <2>2, <2>5, <4>1 DEF Networks, Finished
    <3>3. CASE UNCHANGED <<pc, todo, at>>
      BY <2>1, <2>2, <2>5, <3>3 DEF Networks, Finished
    <3> QED BY <1>3, <2>5, <3>1, <3>2, <3>3, Flow
  <2>6. CASE pc \in NetPcs /\ pc' \in NetPcs
    <3>1. UNCHANGED <<todo, at>>
      BY <1>3, <2>6, Flow
    <3> QED BY <2>1, <2>2, <2>6, <3>1 DEF Networks, Finished
  <2>7. CASE pc \in NetPcs /\ pc' = "net" /\ (Connected \/ HostNat)
    <3>1. UNCHANGED <<todo, at>>
      BY <1>3, <2>7, Flow
    <3>2. \A n \in cfg.nets : Router(n) = at => NetUp(n)'
      BY <2>1, <2>7, AtDone
    <3>3. pc # "fwd"
      BY <2>7 DEF Connected, HostNat
    <3> QED BY <2>1, <2>2, <2>7, <3>1, <3>2, <3>3 DEF Networks, Finished
  <2>8. CASE pc \in ContPcs /\ pc' # "failed"
    <3>1. pc' \in ContPcs \union {"done"}
      BY <1>3, <2>8, Flow DEF WriteHosts
    <3> QED BY <2>1, <2>2, <2>8, <3>1 DEF Networks, Finished
  <2>9. CASE Finished
    <3>1. UNCHANGED <<pc, cmd>>
      BY <1>3, <2>9, AfterDone
    <3> QED BY <2>1, <2>2, <2>9, <3>1 DEF Networks, Finished
  <2>10. pc \in NetPcs => pc' \in NetPcs \union {"failed"} \/ (pc' = "net" /\ (Connected \/ HostNat))
    BY <1>3, Flow
  <2> QED BY <1>3, <2>3, <2>4, <2>5, <2>6, <2>7, <2>8, <2>9, <2>10 DEF Working
<1> QED BY <1>1, <1>2, <1>3

(* Every container the loop has left behind has its hosts file and its link. *)
LEMMA ContainersNext ==
  ASSUME TInv, TInv', Pinned, Containers, [Next]_vars
  PROVE  Containers'
<1>1. CASE Operator
  BY <1>1, Begins DEF Containers, Working
<1>2. CASE ~Working
  BY <1>2, Elsewhere DEF Containers
<1>3. CASE Working /\ ~Operator
  <2>1. UNCHANGED <<cfg, cmd, pin>> /\ cfg.conts \subseteq Conts
    BY <1>3, Steady, ConfigFacts DEF TInv, TypeOK
  <2>2. \A c \in cfg.conts : ContUp(c) => ContUp(c)'
    BY <1>3, <2>1, ContStays
  <2>3. files \subseteq files'
    BY <1>3, HostStays
  <2>4. CASE pc' = "failed" \/ pc \in {"lo"} \union NetPcs
    <3>1. pc' = "failed" \/ pc' \in {"lo", "net"} \union NetPcs
      BY <1>3, <2>4, Flow
    <3> QED BY <3>1 DEF Containers, Finished
  <2>5. CASE pc = "net" /\ pc' # "failed"
    BY <1>3, <2>1, <2>5, Flow DEF Containers, Finished, LoadNFT, NetworksDone, Loop, ContsOf
  <2>6. CASE pc = "cont" /\ pc' # "failed"
    <3>1. CASE WriteHosts
      <4>1. PICK p \in todo :
               /\ Take(p) /\ files' = files \union {p[2]}
               /\ pc' = IF p[2] \in cfg.link THEN "link" ELSE "cont"
        BY <3>1 DEF WriteHosts
      <4>2. PICK d \in cfg.conts : p = Container(d)
        BY <2>6, <4>1 DEF TInv, Loops, ContsOf, Container
      <4>3. todo' = todo \ {p} /\ at' = p /\ d \in files' /\ p[2] = d
        BY <4>1, <4>2 DEF Take, Container
      <4>4. \A c \in cfg.conts : Container(c) = p => c = d
        BY <4>2 DEF Container
      <4>5. d \notin cfg.link => ContUp(d)'
        BY <2>1, <4>3 DEF ContUp
      <4> QED BY <2>1, <2>2, <2>6, <4>1, <4>3, <4>4, <4>5 DEF Containers, Finished
    <3>2. CASE todo = {} /\ pc' = "done"
      BY <2>1, <2>2, <2>6, <3>2 DEF Containers, Finished
    <3>3. CASE UNCHANGED <<pc, todo, at>>
      BY <2>1, <2>2, <2>6, <3>3 DEF Containers, Finished
    <3> QED BY <1>3, <2>6, <3>1, <3>2, <3>3, Flow
  <2>7. CASE pc \in {"link", "linkup"} /\ pc' # "failed"
    <3>1. UNCHANGED <<todo, at>>
      BY <1>3, <2>7, Flow
    <3>2. CASE UNCHANGED pc
      <4>1. \A c \in cfg.conts : Made(LanHost(c), LanEnd(c)) => Made(LanHost(c), LanEnd(c))'
        BY <1>3, <2>1, SameEnds, PairStays DEF Made
      <4> QED BY <2>1, <2>2, <2>3, <2>7, <3>1, <3>2, <4>1 DEF Containers, Finished
    <3>3. CASE pc = "link" /\ pc' = "linkup"
      <4>1. LinkConnect
        BY <1>3, <3>3, LinkStep
      <4>2. \A c \in cfg.conts : Container(c) = at => LinkEnd = LanHost(c) /\ LinkContEnd = LanEnd(c)
        BY <3>3, HerePinned DEF LinkEnd, LinkContEnd, LanHost, LanEnd, Container
      <4>3. \A c \in cfg.conts : Container(c) = at => Made(LanHost(c), LanEnd(c))'
        BY <2>1, <3>3, <4>1, <4>2, Added, SameEnds DEF LinkConnect, Made
      <4> QED BY <2>1, <2>2, <2>3, <3>1, <3>3, <4>3 DEF Containers, Finished
    <3>4. CASE pc = "linkup" /\ pc' = "cont" /\ LinkUp
      <4>1. \A c \in cfg.conts : Container(c) = at => LinkEnd = LanHost(c) /\ Made(LanHost(c), LanEnd(c))
        BY <3>4, HerePinned DEF LinkEnd, LanHost, Container, Containers
      <4>2. \A c \in cfg.conts : Container(c) = at => LanUp(c)'
        BY <2>1, <3>4, <4>1, Brought, SameEnds DEF LinkUp, LanUp, Wired
      <4>3. \A c \in cfg.conts : Container(c) = at => ContUp(c)'
        BY <2>1, <2>3, <3>4, <4>2 DEF ContUp, Containers
      <4> QED BY <2>1, <2>2, <3>1, <3>4, <4>3 DEF Containers, Finished
    <3> QED BY <1>3, <2>7, <3>2, <3>3, <3>4, Flow
  <2>8. CASE Finished
    <3>1. UNCHANGED <<pc, cmd>>
      BY <1>3, <2>8, AfterDone
    <3> QED BY <2>1, <2>2, <2>8, <3>1 DEF Containers, Finished
  <2> QED BY <1>3, <2>4, <2>5, <2>6, <2>7, <2>8 DEF Working
<1> QED BY <1>1, <1>2, <1>3

------------------------------------------------------------------------------
(* The initial state satisfies it. *)
LEMMA InitC == Init => Pinned /\ Loopbacks /\ Networks /\ AtNetwork /\ Containers
BY DEF Init, Pinned, Loopbacks, Networks, AtNetwork, AtNet, Containers, Finished, Late

(* When it is done, all of the plan is there. *)
LEMMA AllThere == TInv /\ Loopbacks /\ Networks /\ Containers => Complete
<1> SUFFICES ASSUME TInv, Loopbacks, Networks, Containers, Finished  PROVE Complete
  BY DEF Complete, Finished
<1>1. /\ \A p \in PathsOf(cfg) : LoUp(p)
      /\ \A n \in cfg.nets : NetUp(n)
      /\ \A c \in cfg.conts : ContUp(c)
  BY DEF Loopbacks, Networks, Containers, Finished
<1>2. /\ cfg.att \subseteq cfg.nets \X cfg.conts /\ cfg.up \subseteq cfg.nets
      /\ cfg.link \subseteq cfg.conts /\ cfg.conts \subseteq Conts
  BY ConfigFacts DEF TInv, TypeOK
<1>3. \A nc \in cfg.att : EpUp(nc[1], nc[2])
  BY <1>1, <1>2 DEF NetUp
<1> QED
  BY <1>1, <1>2, <1>3
  DEF Complete, LoUp, NetUp, GwUp, EpUp, EdgeUp, LanUp, ContUp, GwEnd, EpEnd, EthEnd, UpEnd,
      LanHost, LanEnd, NsOf

(* What `up` reports done is there, and stays until the next command
   (up.go:93-98): whatever the configuration, and whatever earlier runs left. *)
THEOREM UpIsComplete == Spec => []Complete
<1>1. CInv /\ IInv' /\ [Next]_vars => CInv'
  BY PinnedNext, LoopbacksNext, NetworksNext, AtNext, ContainersNext DEF CInv, IInv
<1>2. CInv => Complete
  BY AllThere DEF CInv, IInv
<1>3. Init /\ IInv => CInv
  BY InitC DEF CInv
<1> QED BY <1>1, <1>2, <1>3, Invariance, PTL DEF Spec

------------------------------------------------------------------------------
(* Fabric implements Lifecycle.

   To the invariant this adds that settings are those of namespaces that exist
   (so a namespace is born with none, or forwarding where the host does), and
   that the router whose ip_forward is about to be written has not been pinned
   (Fresh): writing it derives other settings anew, which would take a router
   back that had them. *)

Settled == \A k \in knobs : k[1] \in alive

(* Routers whose ip_forward is still to be written. *)
Ahead(p) == \/ pc \in {"clear", "flush"} /\ cmd = "up"
            \/ pc \in {"mint", "pin", "lo"}
            \/ pc \in {"net"} \union NetPcs /\ p \in todo
            \/ pc = "fwd" /\ p = at

Fresh == \A p \in RoutersOf(Nets) : Ahead(p) => <<<<p, run>>, "all">> \notin knobs

(* The settings in force are of namespaces that exist. *)
LEMMA SettledNext ==
  ASSUME TInv, Rooted, Settled, [Next]_vars
  PROVE  Settled'
<1> USE HereFacts
<1>1. CASE LoadNFT \/ SetLoUp
  <2>1. PICK p \in todo, k \in {"nft", "lo"} : /\ knobs' = knobs \union {<<<<p, fd[p]>>, k>>}
                                               /\ pc \in {"lo", "net"}
    BY <1>1 DEF LoadNFT, SetLoUp
  <2>2. p \in PathsOf(cfg) /\ fd[p] = run /\ run # 0
    BY <2>1 DEF TInv, Loops, Gens
  <2>3. <<p, fd[p]>> \in alive
    BY <2>2, ConfigFacts DEF Rooted, TInv, TypeOK
  <2>4. alive' = alive
    BY <1>1 DEF LoadNFT, SetLoUp
  <2> QED BY <2>1, <2>3, <2>4 DEF Settled
<1>2. CASE WriteSysctl
  <2>1. at \in PathsOf(cfg) /\ fd[at] = run /\ run # 0
    BY <1>2, ConfigFacts DEF WriteSysctl, TInv, TypeOK, Loops, Gens
  <2>2. Here \in alive
    BY <2>1, ConfigFacts DEF Rooted, TInv, TypeOK, Here
  <2> QED BY <1>2, <2>2 DEF WriteSysctl, Settled
<1>3. CASE Kernel
  BY <1>3 DEF Kernel, Reap, Settled
<1>4. CASE Pin
  BY <1>4 DEF Pin, Inherited, Settled
<1>5. CASE ~(LoadNFT \/ SetLoUp \/ WriteSysctl \/ Kernel \/ Pin)
  <2>1. knobs' = knobs /\ alive' = alive
    BY <1>5 DEF ClearLink, FlushNat, Cleared, Detach, Minted, LoopbacksUp, CreateGateway,
         GatewayUp, Connect, EndpointUp, Connected, UplinkAdd, UplinkUp, HostForward, HostNat,
         NetworksDone, WriteHosts, LinkConnect, LinkUp, UpDone, Unpin, DownDone, Operator,
         Abort, Podman, Loop, Begin, Run, Stop, vars, Next, Process, Clear, Bootstrap, Apply,
         Routers, Endpoints, HostEdge, Teardown
  <2> QED BY <2>1 DEF Settled
<1> QED BY <1>1, <1>2, <1>3, <1>4, <1>5

(* A router whose turn has not come has not been pinned in this run. *)
LEMMA FreshNext ==
  ASSUME TInv, TInv', Settled, Fresh, [Next]_vars
  PROVE  Fresh'
<1> USE HereFacts
<1>1. CASE Operator
  <2> SUFFICES ASSUME cmd' = "up" PROVE Fresh'
    BY <1>1 DEF Operator, Begin, Fresh, Ahead
  <2>1. (\A x \in alive : x[2] # run') /\ knobs' = knobs
    BY <1>1 DEF Operator, Begin, Free
  <2>2. \A p \in RoutersOf(Nets) : <<p, run'>> \notin alive
    BY <2>1
  <2> QED BY <2>1, <2>2 DEF Settled, Fresh
<1>2. CASE ~Operator
  <2>1. ASSUME NEW p \in RoutersOf(Nets), Ahead(p)'
        PROVE  Ahead(p) /\ run' = run
    <3> USE DEF Ahead
    <3>1. CASE \/ ClearLink \/ FlushNat \/ Cleared \/ Detach \/ Pin \/ Minted
      BY <3>1, <2>1 DEF ClearLink, FlushNat, Cleared, Detach, Pin, Minted, Take, Loop
    <3>2. CASE \/ SetLoUp \/ LoopbacksUp \/ LoadNFT \/ WriteSysctl
      BY <3>2, <2>1 DEF SetLoUp, LoopbacksUp, LoadNFT, WriteSysctl, Take, Loop, AfterSysctl
    <3>3. CASE CreateGateway \/ Connect \/ UplinkAdd \/ LinkConnect
      BY <3>3, <2>1 DEF CreateGateway, Connect, UplinkAdd, LinkConnect, LinkAdd, Ends
    <3>4. CASE GatewayUp \/ EndpointUp \/ UplinkUp \/ LinkUp
      BY <3>4, <2>1 DEF GatewayUp, EndpointUp, UplinkUp, LinkUp, Configure
    <3>5. CASE Connected \/ HostForward \/ HostNat \/ NetworksDone \/ WriteHosts
      BY <3>5, <2>1 DEF Connected, HostForward, HostNat, NetworksDone, WriteHosts, Take, Loop
    <3>6. CASE UpDone \/ Unpin \/ DownDone \/ Abort \/ Podman \/ Kernel \/ UNCHANGED vars
      BY <3>6, <2>1 DEF UpDone, Unpin, DownDone, Abort, Podman, Kernel, Run, Stop, Reap,
         Take, Ends, vars
    <3> QED
      BY <1>2, <3>1, <3>2, <3>3, <3>4, <3>5, <3>6 DEF Next, Process, Clear, Bootstrap, Apply,
         Routers, Endpoints, HostEdge, Teardown
  <2>2. ASSUME NEW p \in RoutersOf(Nets), Ahead(p)', <<<<p, run>>, "all">> \in knobs'
        PROVE  <<<<p, run>>, "all">> \in knobs
    <3>1. CASE WriteSysctl
      <4>1. p # at
        BY <3>1, <2>2 DEF WriteSysctl, AfterSysctl, Ahead, TInv, Loops
      <4> QED BY <3>1, <2>2, <4>1 DEF WriteSysctl, Here
    <3>2. CASE LoadNFT \/ SetLoUp
      BY <3>2, <2>2 DEF LoadNFT, SetLoUp
    <3>3. CASE Kernel
      BY <3>3, <2>2 DEF Kernel, Reap
    <3>4. CASE Pin
      BY <3>4, <2>2 DEF Pin, Inherited
    <3>5. CASE ~(LoadNFT \/ SetLoUp \/ WriteSysctl \/ Kernel \/ Pin)
      <4>1. knobs' = knobs
        BY <3>5 DEF ClearLink, FlushNat, Cleared, Detach, Minted, LoopbacksUp,
             CreateGateway, GatewayUp, Connect, EndpointUp, Connected, UplinkAdd, UplinkUp,
             HostForward, HostNat, NetworksDone, WriteHosts, LinkConnect, LinkUp, UpDone,
             Unpin, DownDone, Operator, Abort, Podman, Loop, Begin, Run, Stop, vars, Next,
             Process, Clear, Bootstrap, Apply, Routers, Endpoints, HostEdge, Teardown
      <4> QED BY <2>2, <4>1
    <3> QED BY <3>1, <3>2, <3>3, <3>4, <3>5
  <2> QED BY <2>1, <2>2 DEF Fresh
<1> QED BY <1>1, <1>2

------------------------------------------------------------------------------
(***************************************************************************)
(* Steps of Fabric as steps of Lifecycle.                                  *)
(***************************************************************************)

(* Without a namespace that comes or goes, and with the policy of each router
   as it is, the stages are as they are. *)
LEMMA StageKept ==
  ASSUME alive' = alive,
         \A x \in RouterNs, k \in Sysctls \union {"nft"} :
           x \in alive => (<<x, k>> \in knobs' <=> <<x, k>> \in knobs)
  PROVE  Stage' = Stage
<1>1. \A x \in RouterNs : Stage'[x] = Stage[x]
  BY DEF Stage, Hardened
<1> QED BY <1>1 DEF Stage, RouterNs

(* Interfaces with the ends they had make the links there were. *)
LEMMA LinksKept ==
  ASSUME \A d \in dev' : Same(d), \A c \in dev : \E d \in dev' : c.a = d.a /\ c.b = d.b
  PROVE  Links' = Links
<1>1. Links' \subseteq Links
  BY DEF Links, Same
<1>2. Links \subseteq Links'
  BY DEF Links
<1> QED BY <1>1, <1>2

(* An interface that is added joins its two namespaces. *)
LEMMA AddJoins ==
  ASSUME NEW e, NEW f, NEW next, LinkAdd(e, f, next)
  PROVE  Links' = Links \/ Links' = Links \union {{e[1], f[1]}}
BY DEF LinkAdd, Links

(* A step that changes neither settings nor interfaces is none of Lifecycle. *)
LEMMA Stutters ==
  ASSUME UNCHANGED <<alive, knobs, dev>>
  PROVE  UNCHANGED Life!vars
<1>1. Stage' = Stage
  BY StageKept
<1>2. Links' = Links
  BY DEF Links
<1> QED BY <1>1, <1>2 DEF Life!vars

(* A namespace is minted bare, whether it forwards or not. *)
LEMMA PinSteps ==
  ASSUME TInv, Settled, Fresh, Pin
  PROVE  [Life!Next]_Life!vars
<1>0. PICK x : x = <<at, run>>
  OBVIOUS
<1>1. /\ alive' = alive \union {x} /\ Links' = Links
      /\ knobs' = knobs \/ knobs' = knobs \union {<<x, "fwd">>}
  BY <1>0 DEF Pin, Inherited, Links
<1>2. x \in Ns
  BY <1>0, ConfigFacts DEF Pin, TInv, TypeOK, Loops, Ns
<1>3. \A y \in RouterNs : y # x => Stage'[y] = Stage[y]
  BY <1>1 DEF Stage, Hardened, RouterNs
<1>4. CASE x \in alive \/ ~IsRouter(x)
  <2>1. \A y \in RouterNs : y = x => Stage'[y] = Stage[y]
    <3> SUFFICES ASSUME x \in RouterNs  PROVE Stage'[x] = Stage[x]
      OBVIOUS
    <3>1. at \in RoutersOf(Nets)
      BY <1>0, ConfigFacts DEF Pin, TInv, TypeOK, Loops, RouterNs, IsRouter, RoutersOf, PathsOf,
         ContsOf, Router, Container
    <3>2. <<x, "all">> \notin knobs
      BY <1>0, <3>1 DEF Pin, Fresh, Ahead
    <3> QED BY <1>1, <1>4, <3>2 DEF Stage, Hardened, RouterNs
  <2>2. Stage' = Stage
    BY <1>3, <2>1 DEF Stage, RouterNs
  <2> QED BY <1>1, <2>2 DEF Life!vars
<1>5. CASE x \notin alive /\ IsRouter(x)
  <2>1. x \in RouterNs
    BY <1>2, <1>5 DEF RouterNs
  <2>2. Stage[x] = "none"
    BY <1>5, <2>1 DEF Stage
  <2>3. \A k \in knobs : k[1] # x
    BY <1>5 DEF Settled
  <2>4. ~Hardened(x)' /\ <<x, "nft">> \notin knobs'
    BY <1>1, <2>3 DEF Hardened
  <2>5. Stage'[x] = "bare"
    BY <1>1, <2>1, <2>4 DEF Stage, RouterNs
  <2>6. Stage' = [Stage EXCEPT ![x] = "bare"]
    BY <1>3, <2>5, <2>1 DEF Stage, RouterNs
  <2>7. Life!Advance(x)
    BY <1>1, <2>2, <2>6 DEF Life!Advance, Life!Successor
  <2> QED BY <2>1, <2>7 DEF Life!Next
<1> QED BY <1>4, <1>5

(* The router at hand gets its ruleset. *)
LEMMA LoadSteps ==
  ASSUME TInv, Rooted, Fresh, LoadNFT
  PROVE  [Life!Next]_Life!vars
<1>1. PICK p \in todo : Take(p) /\ knobs' = knobs \union {<<<<p, fd[p]>>, "nft">>}
  BY DEF LoadNFT
<1> DEFINE x == <<p, fd[p]>>
<1>2. pc = "net" /\ alive' = alive /\ Links' = Links
  BY DEF LoadNFT, Links
<1>3. p \in RoutersOf(Nets) /\ p \in Paths /\ fd[p] = run /\ run \in Gens
  BY <1>2, ConfigFacts DEF TInv, TypeOK, Loops, RoutersOf
<1>4. x \in RouterNs /\ x \in alive
  <2>1. x \in Ns /\ x \in alive
    BY <1>3 DEF Ns, Rooted, Gens
  <2>2. IsRouter(x)
    BY <1>3 DEF IsRouter, RoutersOf, Router
  <2> QED BY <2>1, <2>2 DEF RouterNs
<1>5. <<x, "all">> \notin knobs
  BY <1>2, <1>3 DEF Fresh, Ahead
<1>6. \A y \in RouterNs : y # x => Stage'[y] = Stage[y]
  BY <1>1, <1>2 DEF Stage, Hardened, RouterNs
<1>7. Stage'[x] = "ruled"
  BY <1>1, <1>2, <1>4, <1>5 DEF Stage, Hardened, RouterNs
<1>8. Stage[x] \in {"ruled", "bare"}
  BY <1>4, <1>5 DEF Stage, Hardened
<1>9. CASE Stage[x] = "ruled"
  <2>1. Stage' = Stage
    BY <1>6, <1>7, <1>9 DEF Stage, RouterNs
  <2> QED BY <1>2, <2>1 DEF Life!vars
<1>10. CASE Stage[x] = "bare"
  <2>1. Stage' = [Stage EXCEPT ![x] = "ruled"]
    BY <1>4, <1>6, <1>7 DEF Stage, RouterNs
  <2>2. Life!Advance(x)
    BY <1>2, <1>10, <2>1 DEF Life!Advance, Life!Successor
  <2> QED BY <1>4, <2>2 DEF Life!Next
<1> QED BY <1>8, <1>9, <1>10

(* Where the loop over the networks stands: a router's namespace that is
   there, minted by this run. *)
LEMMA AtRouter ==
  ASSUME TInv, Rooted, pc \in NetPcs
  PROVE  Here \in RouterNs /\ Here \in alive /\ Here[2] = run
<1>1. at \in PathsOf(cfg) /\ at \in Paths /\ at \in RoutersOf(cfg.nets)
  BY ConfigFacts DEF TInv, TypeOK, Loops
<1>2. fd[at] = run /\ run \in Gens
  BY <1>1 DEF TInv, Loops
<1>3. Here \in alive /\ Here \in Ns
  BY <1>1, <1>2 DEF Rooted, Here, Ns, Gens
<1>4. IsRouter(Here)
  BY <1>1 DEF IsRouter, Here, RoutersOf, Router
<1> QED BY <1>2, <1>3, <1>4 DEF RouterNs, Here

(* It gets its pins, and is hardened with the last. *)
LEMMA WriteSteps ==
  ASSUME TInv, Rooted, Staged, Fresh, WriteSysctl
  PROVE  [Life!Next]_Life!vars
<1>1. pc \in Sysctls /\ alive' = alive /\ Links' = Links
  BY DEF WriteSysctl, Links
<1>2. Here \in RouterNs /\ Here \in alive
  BY <1>1, AtRouter
<1>3. \A y \in RouterNs : y # Here => Stage'[y] = Stage[y]
  BY <1>1 DEF WriteSysctl, Rederived, Stage, Hardened, RouterNs
<1>4. CASE pc = "fwd"
  <2>1. <<Here, "all">> \notin knobs
    <3>1. at \in RoutersOf(Nets) /\ fd[at] = run
      BY <1>4, ConfigFacts DEF TInv, TypeOK, Loops, RoutersOf
    <3> QED BY <1>4, <3>1 DEF Fresh, Ahead, Here
  <2>2. knobs' = (knobs \ Rederived) \union {<<Here, "fwd">>}
    BY <1>4 DEF WriteSysctl
  <2>3. <<Here, "all">> \notin knobs' /\ (<<Here, "nft">> \in knobs' <=> <<Here, "nft">> \in knobs)
    BY <2>2 DEF Rederived
  <2>4. Stage'[Here] = Stage[Here]
    BY <1>1, <1>2, <2>1, <2>3 DEF Stage, Hardened, RouterNs
  <2>5. Stage' = Stage
    BY <1>3, <2>4 DEF Stage, RouterNs
  <2> QED BY <1>1, <2>5 DEF Life!vars
<1>5. CASE pc # "fwd"
  <2>1. knobs' = knobs \union {<<Here, pc>>}
    BY <1>5 DEF WriteSysctl
  <2>2. <<Here, "nft">> \in knobs
    BY <1>1, <1>5 DEF Staged, Set
  <2>3. Stage[Here] \in {"ruled", "hardened"}
    BY <1>2, <2>2 DEF Stage
  <2>4. Stage'[Here] \in {"ruled", "hardened"}
    BY <1>1, <1>2, <2>1, <2>2 DEF Stage, RouterNs
  <2>5. Stage[Here] = "hardened" => Stage'[Here] = "hardened"
    BY <1>1, <1>2, <2>1, <2>2 DEF Stage, Hardened, RouterNs
  <2>6. CASE Stage'[Here] = Stage[Here]
    <3>1. Stage' = Stage
      BY <1>3, <2>6 DEF Stage, RouterNs
    <3> QED BY <1>1, <3>1 DEF Life!vars
  <2>7. CASE Stage[Here] = "ruled" /\ Stage'[Here] = "hardened"
    <3>1. Stage' = [Stage EXCEPT ![Here] = "hardened"]
      BY <1>2, <1>3, <2>7 DEF Stage, RouterNs
    <3>2. Life!Advance(Here)
      BY <1>1, <2>7, <3>1 DEF Life!Advance, Life!Successor
    <3> QED BY <1>2, <3>2 DEF Life!Next
  <2> QED BY <2>3, <2>4, <2>5, <2>6, <2>7
<1> QED BY <1>4, <1>5

(* The kernel destroys a namespace with all that is in it. *)
LEMMA ReapSteps ==
  ASSUME NEW x \in Ns, Reap(x)
  PROVE  Life!Next
<1>1. /\ alive' = alive \ {x}
      /\ knobs' = {k \in knobs : k[1] # x}
      /\ dev' = {d \in dev : d.a[1] # x /\ d.b[1] # x}
  BY DEF Reap
<1>2. \A y \in RouterNs : y # x => Stage'[y] = Stage[y]
  BY <1>1 DEF Stage, Hardened, RouterNs
<1>3. \A y \in RouterNs : y = x => Stage'[y] = "none"
  BY <1>1 DEF Stage, RouterNs
<1>4. Stage' = [r \in RouterNs |-> IF r = x THEN "none" ELSE Stage[r]]
  BY <1>2, <1>3 DEF Stage, RouterNs
<1>5. Links' = {l \in Links : x \notin l}
  BY <1>1 DEF Links
<1>6. x \in Life!Namespaces
  BY DEF Life!Namespaces, RouterNs
<1> QED BY <1>4, <1>5, <1>6 DEF Life!Next, Life!Destroy

(* What clearHostEdge cuts, it cuts on the host's side. *)
LEMMA ClearCuts ==
  ASSUME ClearLink
  PROVE  Life!Cut
<1>1. PICK p \in todo : dev' = {d \in dev : d.a # HostEnd(p[2])} \/ dev' = dev
  BY DEF ClearLink
<1>2. UNCHANGED <<alive, knobs>>
  BY DEF ClearLink
<1>3. Stage' = Stage
  BY <1>2, StageKept
<1>4. Links' \subseteq Links
  BY <1>1 DEF Links
<1>5. ASSUME NEW l \in Links \ Links'  PROVE HostNs \in l
  <2>1. PICK d \in dev : l = {d.a[1], d.b[1]}
    BY DEF Links
  <2>2. d \notin dev'
    BY <2>1, <1>5 DEF Links
  <2>3. d.a = HostEnd(p[2])
    BY <1>1, <2>2
  <2> QED BY <2>1, <2>3 DEF HostEnd
<1> QED BY <1>3, <1>4, <1>5 DEF Life!Cut

(* An interface that is added joins a hardened router to the init namespace or
   to a container of its own run, or a container to the init namespace. *)
LEMMA JoinSteps ==
  ASSUME TInv, Rooted, Staged, CreateGateway \/ Connect \/ UplinkAdd \/ LinkConnect
  PROVE  [Life!Next]_Life!vars
<1>1. UNCHANGED <<alive, knobs>>
  BY DEF CreateGateway, Connect, UplinkAdd, LinkConnect
<1>2. Stage' = Stage
  BY <1>1, StageKept
<1>3. ASSUME Links' = Links  PROVE UNCHANGED Life!vars
  BY <1>2, <1>3 DEF Life!vars
<1>4. ASSUME NEW x \in Ns, NEW y \in Ns \union {HostNs},
             \A r \in {x, y} \intersect RouterNs : Stage[r] = "hardened",
             y # HostNs => x[2] = y[2],
             Links' = Links \union {{x, y}}
      PROVE  Life!Next
  <2>1. Life!Join(x, y)
    BY <1>2, <1>4 DEF Life!Join
  <2>2. Life!Namespaces = Ns
    BY DEF Life!Namespaces, RouterNs
  <2> QED BY <1>4, <2>1, <2>2 DEF Life!Next
<1>5. ASSUME pc \in {"gw", "ep", "edge"}
      PROVE  Here \in Ns /\ Here[2] = run /\ Stage[Here] = "hardened"
  BY <1>5, AtRouter DEF Staged, Stage, RouterNs
<1>6. CASE CreateGateway
  <2>1. pc = "gw" /\ (Links' = Links \/ Links' = Links \union {{Here, Here}})
    BY <1>6, AddJoins DEF CreateGateway, GatewayEnd
  <2> QED BY <1>3, <1>4, <1>5, <2>1
<1>7. CASE Connect
  <2>1. PICK c \in eps : LinkAdd(RouterEnd(c), ContEnd(c), "epup")
    BY <1>7 DEF Connect
  <2>2. PICK y : y = <<Container(c), fd[Container(c)]>>
    OBVIOUS
  <2>3. pc = "ep" /\ (Links' = Links \/ Links' = Links \union {{Here, y}})
    BY <1>7, <2>1, <2>2, AddJoins DEF Connect, RouterEnd, ContEnd
  <2>4. y \in Ns /\ y \notin RouterNs
    <3>1. y \in Ns
      BY <2>2, <2>3, HereFacts
    <3> QED BY <2>2, <3>1 DEF RouterNs, IsRouter, Container
  <2>5. y[2] = run
    <3>1. Container(c) \in PathsOf(cfg)
      BY <2>3, ConfigFacts DEF PathsOf, ContsOf, TInv, TypeOK, Loops
    <3> QED BY <2>2, <2>3, <3>1 DEF TInv, Loops
  <2>6. \A r \in {Here, y} \intersect RouterNs : Stage[r] = "hardened"
    BY <1>5, <2>3, <2>4
  <2> QED BY <1>3, <1>4, <1>5, <2>3, <2>4, <2>5, <2>6
<1>8. CASE UplinkAdd
  <2>1. pc = "edge" /\ (Links' = Links \/ Links' = Links \union {{Here, HostNs}})
    BY <1>8, AddJoins DEF UplinkAdd, HostEnd, UplinkEnd
  <2>2. HostNs \notin RouterNs
    BY DEF RouterNs, IsRouter, HostNs
  <2> QED BY <1>3, <1>4, <1>5, <2>1, <2>2
<1>9. CASE LinkConnect
  <2>1. pc = "link" /\ (Links' = Links \/ Links' = Links \union {{Here, HostNs}})
    BY <1>9, AddJoins DEF LinkConnect, LinkEnd, LinkContEnd
  <2>2. Here \in Ns /\ Here \notin RouterNs /\ HostNs \notin RouterNs
    BY <2>1, HereFacts DEF RouterNs, IsRouter, HostNs, Here
  <2> QED BY <1>3, <1>4, <2>1, <2>2
<1> QED BY <1>6, <1>7, <1>8, <1>9

(* Every step of Fabric is one of Lifecycle, or none. *)
LEMMA StepRefines ==
  ASSUME IInv, Settled, Fresh, [Next]_vars
  PROVE  [Life!Next]_Life!vars
<1> USE DEF IInv
<1>1. CASE Pin
  BY <1>1, PinSteps
<1>2. CASE LoadNFT
  BY <1>2, LoadSteps
<1>3. CASE WriteSysctl
  BY <1>3, WriteSteps
<1>4. CASE CreateGateway \/ Connect \/ UplinkAdd \/ LinkConnect
  BY <1>4, JoinSteps
<1>5. CASE ClearLink
  BY <1>5, ClearCuts DEF Life!Next
<1>6. CASE Kernel
  BY <1>6, ReapSteps DEF Kernel
<1>7. CASE SetLoUp
  <2>1. alive' = alive /\ dev' = dev
    BY <1>7 DEF SetLoUp
  <2>2. \A x \in RouterNs, k \in Sysctls \union {"nft"} : <<x, k>> \in knobs' <=> <<x, k>> \in knobs
    BY <1>7 DEF SetLoUp
  <2>3. Stage' = Stage
    BY <2>1, <2>2, StageKept
  <2> QED BY <2>1, <2>3 DEF Life!vars, Links
<1>8. CASE GatewayUp \/ EndpointUp \/ UplinkUp \/ LinkUp
  <2>1. UNCHANGED <<alive, knobs>>
    BY <1>8 DEF GatewayUp, EndpointUp, UplinkUp, LinkUp
  <2>2. PICK e : dev' = {IF d.a = e THEN [d EXCEPT !.up = TRUE] ELSE d : d \in dev}
    BY <1>8 DEF GatewayUp, EndpointUp, UplinkUp, LinkUp, Configure
  <2>3. \A d \in dev : \E c \in dev' : d.a = c.a /\ d.b = c.b
    <3> SUFFICES ASSUME NEW d \in dev  PROVE \E c \in dev' : d.a = c.a /\ d.b = c.b
      OBVIOUS
    <3>1. PICK c : c = IF d.a = e THEN [d EXCEPT !.up = TRUE] ELSE d
      OBVIOUS
    <3>2. c \in dev'
      BY <2>2, <3>1
    <3>3. d.a = c.a /\ d.b = c.b
      BY <3>1 DEF TInv, TypeOK
    <3> QED BY <3>2, <3>3
  <2>4. \A d \in dev' : Same(d)
    BY <2>2 DEF Same, TInv, TypeOK
  <2>5. Links' = Links
    BY <2>3, <2>4, LinksKept
  <2> QED BY <2>1, <2>5, StageKept DEF Life!vars
<1>9. CASE \/ FlushNat \/ Cleared \/ Detach \/ Minted \/ LoopbacksUp \/ Connected
           \/ HostForward \/ HostNat \/ NetworksDone \/ WriteHosts \/ UpDone \/ Unpin
           \/ DownDone \/ Operator \/ Abort \/ Podman \/ UNCHANGED vars
  <2>1. UNCHANGED <<alive, knobs, dev>>
    BY <1>9 DEF FlushNat, Cleared, Detach, Minted, LoopbacksUp, Connected, HostForward, HostNat,
         NetworksDone, WriteHosts, UpDone, Unpin, DownDone, Operator, Abort, Podman, Loop, Begin,
         Run, Stop, vars
  <2> QED BY <2>1, Stutters
<1> QED
  BY <1>1, <1>2, <1>3, <1>4, <1>5, <1>6, <1>7, <1>8, <1>9
  DEF Next, Process, Clear, Bootstrap, Apply, Routers, Endpoints, HostEdge, Teardown

(* Fabric implements Lifecycle, for every plan and every number of failures: a
   router takes the steps of its policy in their order, loses none, and is
   linked after the last (apply.go:48-113, plan.go:276-323). *)
THEOREM Implements == Spec => KeepsOrder
<1>1. Init => Settled /\ Fresh
  BY DEF Init, Settled, Fresh
<1>2. IInv /\ IInv' /\ Settled /\ Fresh /\ [Next]_vars => Settled' /\ Fresh'
  BY SettledNext, FreshNext DEF IInv
<1>3. Init => Life!Init
  BY DEF Init, Life!Init, Stage, Links
<1> QED BY <1>1, <1>2, <1>3, Invariance, StepRefines, PTL DEF Spec, KeepsOrder, Life!Spec
==============================================================================

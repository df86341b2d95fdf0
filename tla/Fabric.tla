------------------------------- MODULE Fabric -------------------------------
(***************************************************************************)
(* `turnip up` and `turnip down` against the host they change              *)
(* (cmd/turnip: up.go, apply.go, down.go; the primitives they call in      *)
(* internal/dataplane).                                                    *)
(*                                                                         *)
(* One turnip process at a time walks its plan; any of its steps may be    *)
(* its last (an error is returned, a kill leaves things as they are:       *)
(* nothing is ever rolled back), or, at a few calls, fail without its      *)
(* noticing; and the next process starts from what it left.  Around it,    *)
(* podman runs containers in the pinned network namespaces, and the kernel *)
(* destroys a namespace nothing refers to some time after its last         *)
(* reference goes.                                                         *)
(*                                                                         *)
(* netns.Bootstrap appears as what Provision.tla promises of it.           *)
(***************************************************************************)
EXTENDS Integers, FiniteSets

CONSTANTS NetCount,   \* networks 1..NetCount, in the order of their names
          ContCount,  \* containers 1..ContCount, likewise
          Configs,    \* the turnip.json files the processes are run with
          Slots,      \* generations of namespaces that exist at one time
          MaxFaults   \* steps that fail, or processes killed, in one behaviour

Nets  == 1..NetCount
Conts == 1..ContCount
Gens  == 1..Slots

Router(n)    == <<"router", n>>
Container(c) == <<"container", c>>
Paths == {Router(n) : n \in Nets} \union {Container(c) : c \in Conts}

(* What a plan keeps of a validated configuration. *)
Config == [nets  : SUBSET Nets,              \* networks declared
           conts : SUBSET Conts,             \* containers declared
           att   : SUBSET (Nets \X Conts),   \* attachments
           up    : SUBSET Nets,              \* networks with an uplink
           host  : [Nets -> Nat],            \* name of each uplink's host_if
           link  : SUBSET Conts]             \* containers with a veth link

ASSUME FabricAssumption ==
  /\ NetCount \in Nat /\ ContCount \in Nat /\ Slots \in Nat /\ MaxFaults \in Nat
  /\ Configs \subseteq Config
  /\ \A c \in Configs : /\ c.att \subseteq c.nets \X c.conts
                        /\ c.up \subseteq c.nets
                        /\ c.link \subseteq c.conts

(* A network namespace: the path it was minted for, and in which run. *)
HostNs == <<<<"host", 0>>, 0>>
Ns     == Paths \X Gens

(* Sysctls in the order routerSysctls lists them, by group: ip_forward,
   conf.all, conf.default (what interfaces are born with), conntrack. *)
Sysctls == {"fwd", "all", "tmpl", "ct"}
Knobs   == Sysctls \union {"nft", "lo"}

VARIABLES
  \* the process
  pc,       \* where it stands
  cmd,      \* "up" or "down"
  cfg,      \* its configuration
  run,      \* the generation of the namespaces it mints
  todo,     \* what the loop it is in has yet to do
  eps,      \* endpoints of the current network yet to connect
  at,       \* the element of the loop it is at
  fd,       \* generation behind its descriptor of each path, 0 without one
  \* podman's mount namespace and the state directory
  pin,      \* generation bind-mounted at each path, 0 without one
  files,    \* containers whose hosts file exists
  \* the kernel
  alive,    \* namespaces that exist
  held,     \* namespaces a running container is in
  knobs,    \* <<namespace, setting>>: the settings in force
  dev,      \* interfaces: a veth is one record, a dummy has equal ends
  hfwd,     \* the init namespace forwards
  zones,    \* networks with a nat zone in the init namespace
  \* the rest
  faults,   \* errors and kills so far
  ignored   \* where this run met an error and went on: no state of the program

procVars  == <<cmd, cfg>>
loopVars  == <<run, todo, eps, at>>
mountVars == <<pin, files>>
hostVars  == <<hfwd, zones>>
kernVars  == <<alive, held, knobs>>
errVars   == <<faults, ignored>>
vars == <<pc, procVars, loopVars, fd, mountVars, kernVars, dev, hostVars, errVars>>

NoFd == [p \in Paths |-> 0]
Here == <<at, fd[at]>>           \* the namespace the loop is at

Idle == {"idle", "done", "failed"}

(* Ends of the interfaces the program makes: namespace and name. *)
GatewayEnd    == <<Here, <<"gw", 0>>>>
RouterEnd(c)  == <<Here, <<"vethR", c>>>>
ContEnd(c)    == <<<<Container(c), fd[Container(c)]>>, <<"eth", at[2]>>>>
HostEnd(n)    == <<HostNs, <<"host_if", cfg.host[n]>>>>
UplinkEnd     == <<Here, <<"uplink", 0>>>>
LinkEnd       == <<HostNs, <<"vethL", at[2]>>>>
LinkContEnd   == <<Here, <<"lan", 0>>>>

Taken(e) == \E d \in dev : d.a = e \/ d.b = e

Init == /\ pc = "idle"
        /\ cmd = "down"
        /\ cfg \in Configs
        /\ run = 1
        /\ todo = {} /\ eps = {} /\ at = <<"host", 0>>
        /\ fd = NoFd
        /\ pin = NoFd /\ files = {}
        /\ alive = {} /\ held = {} /\ knobs = {} /\ dev = {}
        /\ hfwd \in BOOLEAN /\ zones = {}
        /\ faults = 0 /\ ignored = {}

------------------------------------------------------------------------------
(***************************************************************************)
(* Loops.  Each walks a set in the order sortedKeys gives it, routers      *)
(* before containers.                                                      *)
(***************************************************************************)
Before(p, q) == \/ p[1] = "router" /\ q[1] = "container"
                \/ p[1] = q[1] /\ p[2] < q[2]

Take(p) == /\ p \in todo
           /\ \A q \in todo \ {p} : Before(p, q)
           /\ todo' = todo \ {p}
           /\ at' = p

RoutersOf(S)   == {Router(n) : n \in S}
ContsOf(S)     == {Container(c) : c \in S}
PathsOf(c)     == RoutersOf(c.nets) \union ContsOf(c.conts)

(* Leave the loop at `here` for the loop at `there` over S. *)
Loop(here, there, S) == /\ pc = here
                        /\ todo = {}
                        /\ pc' = there
                        /\ todo' = S
                        /\ UNCHANGED <<procVars, run, eps, at, fd, mountVars, kernVars, dev,
                                       hostVars, errVars>>

(* A process that ends takes its descriptors with it, and nothing else. *)
Ends(how) == /\ pc' = how
             /\ fd' = NoFd
             /\ run' = 1 /\ todo' = {} /\ eps' = {} /\ at' = <<"host", 0>>

(***************************************************************************)
(* Starting, and failing.                                                  *)
(***************************************************************************)
Free(g) == \A x \in alive : x[2] # g

(* up, or down: configuration loaded, owner resolved, plan built, anchors
   checked -- all before the first change, so a refusal changes nothing. *)
Begin(m, c) == /\ pc \in Idle
               /\ cmd' = m
               /\ cfg' = c
               /\ IF m = "up"
                  THEN run' \in {g \in Gens : Free(g) /\ \A h \in 1..(g - 1) : ~Free(h)}
                  ELSE run' = run
               /\ todo' = RoutersOf(c.up)
               /\ pc' = "clear"
               /\ ignored' = {}
               /\ UNCHANGED <<eps, at, fd, mountVars, kernVars, dev, hostVars, faults>>

(* The step at hand fails or the process is killed. *)
Abort == /\ pc \notin Idle
         /\ faults < MaxFaults
         /\ faults' = faults + 1
         /\ Ends("failed")
         /\ UNCHANGED <<procVars, mountVars, kernVars, dev, hostVars, ignored>>

(* The call at hand fails, and the process takes no notice. *)
Ignored(x) == /\ faults < MaxFaults
              /\ faults' = faults + 1
              /\ ignored' = ignored \union {x}

------------------------------------------------------------------------------
(***************************************************************************)
(* clearHostEdge: the uplink's host end, then the nat zone, per network    *)
(* that has an uplink in THIS configuration.                               *)
(***************************************************************************)

(* Variant: the veth is left to go with its router's namespace. *)
ClearLink_LeftToKernel ==
  /\ pc = "clear"
  /\ \E p \in todo : Take(p)
  /\ pc' = "flush"
  /\ UNCHANGED <<procVars, run, eps, fd, mountVars, kernVars, dev, hostVars, errVars>>

(* Variant: a veth that is not there is an error. *)
ClearLink_MustExist ==
  /\ pc = "clear"
  /\ \E p \in todo :
       IF \E d \in dev : d.a = HostEnd(p[2])
       THEN /\ Take(p)
            /\ pc' = "flush"
            /\ dev' = {d \in dev : d.a # HostEnd(p[2])}
            /\ UNCHANGED <<run, eps, fd>>
       ELSE Ends("failed") /\ dev' = dev
  /\ UNCHANGED <<procVars, mountVars, kernVars, hostVars, errVars>>

(* Variant: with the veth gone there is nothing left to clear. *)
ClearLink_StopsIfAbsent ==
  /\ pc = "clear"
  /\ \E p \in todo :
       /\ Take(p)
       /\ dev' = {d \in dev : d.a # HostEnd(p[2])}
       /\ pc' = IF dev' = dev THEN "clear" ELSE "flush"
  /\ UNCHANGED <<procVars, run, eps, fd, mountVars, kernVars, hostVars, errVars>>

(* Deleting one end of a veth deletes both.  Whatever error the lookup of the
   host end meets, it counts as absent. *)
ClearLink ==
  /\ pc = "clear"
  /\ \E p \in todo :
       /\ Take(p)
       /\ \/ dev' = {d \in dev : d.a # HostEnd(p[2])} /\ UNCHANGED errVars
          \/ Taken(HostEnd(p[2])) /\ dev' = dev /\ Ignored(<<"host_if", p>>)
  /\ pc' = "flush"
  /\ UNCHANGED <<procVars, run, eps, fd, mountVars, kernVars, hostVars>>

FlushNat ==
  /\ pc = "flush"
  /\ zones' = zones \ {at[2]}
  /\ pc' = "clear"
  /\ UNCHANGED <<procVars, loopVars, fd, mountVars, kernVars, dev, hfwd, errVars>>

Cleared == Loop("clear", IF cmd = "up" THEN "mint" ELSE "unpin", PathsOf(cfg))

------------------------------------------------------------------------------
(***************************************************************************)
(* netns.Bootstrap: Detach and Pin of Provision.tla, for each path.        *)
(***************************************************************************)

(* Variant: a namespace that is pinned already is used as it is. *)
Detach_Adopts ==
  /\ pc = "mint"
  /\ \E p \in todo :
       /\ Take(p)
       /\ IF pin[p] # 0
          THEN pc' = "mint" /\ fd' = [fd EXCEPT ![p] = pin[p]]
          ELSE pc' = "pin" /\ fd' = fd
  /\ UNCHANGED <<procVars, run, eps, mountVars, kernVars, dev, hostVars, errVars>>

(* A lazy unmount: who is inside stays inside.  Its error and the removal's are
   ignored, but then the O_EXCL create that follows fails: that is Abort. *)
Detach ==
  /\ pc = "mint"
  /\ \E p \in todo : Take(p) /\ pin' = [pin EXCEPT ![p] = 0]
  /\ pc' = "pin"
  /\ UNCHANGED <<procVars, run, eps, fd, files, kernVars, dev, hostVars, errVars>>

(* A fresh namespace starts with copies of the init namespace's settings.  Only
   forwarding can so be what a router is given later: turnip never makes the
   other pins in the init namespace. *)
Inherited == IF hfwd THEN {<<<<at, run>>, "fwd">>} ELSE {}

Pin ==
  /\ pc = "pin"
  /\ pin' = [pin EXCEPT ![at] = run]
  /\ fd' = [fd EXCEPT ![at] = run]
  /\ alive' = alive \union {<<at, run>>}
  /\ knobs' = knobs \union Inherited
  /\ pc' = "mint"
  /\ UNCHANGED <<procVars, loopVars, files, held, dev, hostVars, errVars>>

(* Variant: set.Close at once in place of `defer set.Close()`. *)
Minted_ClosesSet ==
  /\ pc = "mint"
  /\ todo = {}
  /\ pc' = "lo"
  /\ todo' = PathsOf(cfg)
  /\ fd' = NoFd
  /\ UNCHANGED <<procVars, run, eps, at, mountVars, kernVars, dev, hostVars, errVars>>

Minted == Loop("mint", "lo", PathsOf(cfg))

------------------------------------------------------------------------------
(***************************************************************************)
(* applyPlan.                                                              *)
(***************************************************************************)
SetLoUp ==
  /\ pc = "lo"
  /\ \E p \in todo : Take(p) /\ knobs' = knobs \union {<<<<p, fd[p]>>, "lo">>}
  /\ UNCHANGED <<pc, procVars, run, eps, fd, mountVars, alive, held, dev, hostVars, errVars>>

LoopbacksUp == Loop("lo", "net", RoutersOf(cfg.nets))

(* applyNetwork: the ruleset first; it also makes the conntrack sysctls
   appear. *)
LoadNFT ==
  /\ pc = "net"
  /\ \E p \in todo : Take(p) /\ knobs' = knobs \union {<<<<p, fd[p]>>, "nft">>}
  /\ pc' = "fwd"
  /\ UNCHANGED <<procVars, run, eps, fd, mountVars, alive, held, dev, hostVars, errVars>>

AfterSysctl == [fwd |-> "all", all |-> "tmpl", tmpl |-> "ct", ct |-> "gw"]

(* Writing ip_forward derives the interface defaults anew. *)
Rederived == {<<Here, "all">>, <<Here, "tmpl">>}

(* Variant: the list puts conf.all and conf.default before ip_forward. *)
WriteSysctl_ForwardSecond ==
  /\ pc \in Sysctls
  /\ pc = "ct" => <<Here, "nft">> \in knobs
  /\ knobs' = CASE pc = "fwd"  -> knobs \union {<<Here, "all">>}
                [] pc = "all"  -> (knobs \ Rederived) \union {<<Here, "fwd">>}
                [] OTHER       -> knobs \union {<<Here, pc>>}
  /\ pc' = AfterSysctl[pc]
  /\ UNCHANGED <<procVars, loopVars, fd, mountVars, alive, held, dev, hostVars, errVars>>

WriteSysctl ==
  /\ pc \in Sysctls
  /\ pc = "ct" => <<Here, "nft">> \in knobs
  /\ knobs' = (IF pc = "fwd" THEN knobs \ Rederived ELSE knobs) \union {<<Here, pc>>}
  /\ pc' = AfterSysctl[pc]
  /\ UNCHANGED <<procVars, loopVars, fd, mountVars, alive, held, dev, hostVars, errVars>>

(***************************************************************************)
(* The interfaces.  Each primitive adds one, which fails if either name is *)
(* taken in its namespace, then addresses it, sets it up and routes by it. *)
(***************************************************************************)
LinkAdd(e, f, next) ==
  IF Taken(e) \/ Taken(f)
  THEN Ends("failed") /\ dev' = dev
  ELSE /\ dev' = dev \union {[a |-> e, b |-> f, up |-> FALSE]}
       /\ pc' = next
       /\ UNCHANGED <<loopVars, fd>>

Configure(e, next) ==
  /\ dev' = {IF d.a = e THEN [d EXCEPT !.up = TRUE] ELSE d : d \in dev}
  /\ pc' = next
  /\ fd' = fd

CreateGateway == /\ pc = "gw"
                 /\ LinkAdd(GatewayEnd, GatewayEnd, "gwup")
                 /\ UNCHANGED <<procVars, mountVars, kernVars, hostVars, errVars>>

GatewayUp == /\ pc = "gwup"
             /\ Configure(GatewayEnd, "ep")
             /\ eps' = {c \in Conts : <<at[2], c>> \in cfg.att}
             /\ UNCHANGED <<procVars, run, todo, at, mountVars, kernVars, hostVars, errVars>>

First(c) == c \in eps /\ \A b \in eps : c <= b

(* dataplane.Connect: the endpoint stays in eps until its second half. *)
Connect == /\ pc = "ep"
           /\ \E c \in eps : First(c) /\ LinkAdd(RouterEnd(c), ContEnd(c), "epup")
           /\ UNCHANGED <<procVars, mountVars, kernVars, hostVars, errVars>>

(* Variant: the loop over the endpoints is left after the first. *)
EndpointUp_OnlyFirst == /\ pc = "epup"
                        /\ \E c \in eps : First(c) /\ Configure(RouterEnd(c), "ep")
                        /\ eps' = {}
                        /\ UNCHANGED <<procVars, run, todo, at, mountVars, kernVars,
                                       hostVars, errVars>>

EndpointUp == /\ pc = "epup"
              /\ \E c \in eps : /\ First(c)
                                /\ Configure(RouterEnd(c), "ep")
                                /\ eps' = eps \ {c}
              /\ UNCHANGED <<procVars, run, todo, at, mountVars, kernVars, hostVars, errVars>>

Connected == /\ pc = "ep"
             /\ eps = {}
             /\ pc' = IF at[2] \in cfg.up THEN "edge" ELSE "net"
             /\ UNCHANGED <<procVars, loopVars, fd, mountVars, kernVars, dev, hostVars,
                            errVars>>

(* HostEdgeConnect. *)
UplinkAdd == /\ pc = "edge"
             /\ LinkAdd(HostEnd(at[2]), UplinkEnd, "edgeup")
             /\ UNCHANGED <<procVars, mountVars, kernVars, hostVars, errVars>>

UplinkUp == /\ pc = "edgeup"
            /\ Configure(HostEnd(at[2]), "hfwd")
            /\ UNCHANGED <<procVars, loopVars, mountVars, kernVars, hostVars, errVars>>

HostForward == /\ pc = "hfwd"
               /\ hfwd' = TRUE
               /\ pc' = "hnat"
               /\ UNCHANGED <<procVars, loopVars, fd, mountVars, kernVars, dev, zones,
                              errVars>>

HostNat == /\ pc = "hnat"
           /\ zones' = zones \union {at[2]}
           /\ pc' = "net"
           /\ UNCHANGED <<procVars, loopVars, fd, mountVars, kernVars, dev, hfwd, errVars>>

NetworksDone == Loop("net", "cont", ContsOf(cfg.conts))

(* applyContainer: the hosts file, then the link. *)
WriteHosts == /\ pc = "cont"
              /\ \E p \in todo : /\ Take(p)
                                 /\ files' = files \union {p[2]}
                                 /\ pc' = IF p[2] \in cfg.link THEN "link" ELSE "cont"
              /\ UNCHANGED <<procVars, run, eps, fd, pin, kernVars, dev, hostVars, errVars>>

LinkConnect == /\ pc = "link"
               /\ LinkAdd(LinkEnd, LinkContEnd, "linkup")
               /\ UNCHANGED <<procVars, mountVars, kernVars, hostVars, errVars>>

LinkUp == /\ pc = "linkup"
          /\ Configure(LinkEnd, "cont")
          /\ UNCHANGED <<procVars, loopVars, mountVars, kernVars, hostVars, errVars>>

UpDone == /\ pc = "cont"
          /\ todo = {}
          /\ Ends("done")
          /\ UNCHANGED <<procVars, mountVars, kernVars, dev, hostVars, errVars>>

------------------------------------------------------------------------------
(* netns.Teardown: unmount and remove each path, whatever is inside and whether
   they succeed or not. *)
Unpin == /\ pc = "unpin"
         /\ \E p \in todo :
              /\ Take(p)
              /\ \/ pin' = [pin EXCEPT ![p] = 0] /\ UNCHANGED errVars
                 \/ pin[p] # 0 /\ pin' = pin /\ Ignored(<<"pin", p>>)
         /\ UNCHANGED <<pc, procVars, run, eps, fd, files, kernVars, dev, hostVars>>

DownDone == /\ pc = "unpin"
            /\ todo = {}
            /\ Ends("done")
            /\ UNCHANGED <<procVars, mountVars, kernVars, dev, hostVars, errVars>>

------------------------------------------------------------------------------
(***************************************************************************)
(* Around the process (external): podman and the kernel.                   *)
(***************************************************************************)

(* podman run --network ns:<path>; a container of that name runs once. *)
Run(c) == /\ pin[Container(c)] # 0
          /\ \A x \in held : x[1] # Container(c)
          /\ held' = held \union {<<Container(c), pin[Container(c)]>>}
          /\ UNCHANGED <<pc, procVars, loopVars, fd, mountVars, alive, knobs, dev,
                         hostVars, errVars>>

Stop(x) == /\ x \in held
           /\ held' = held \ {x}
           /\ UNCHANGED <<pc, procVars, loopVars, fd, mountVars, alive, knobs, dev,
                          hostVars, errVars>>

(* Nothing refers to the namespace: in its own time the kernel destroys it,
   with its settings and its interfaces, both ends of each. *)
Reap(x) == /\ x \in alive
           /\ x \notin held
           /\ pin[x[1]] # x[2]
           /\ fd[x[1]] # x[2]
           /\ alive' = alive \ {x}
           /\ knobs' = {k \in knobs : k[1] # x}
           /\ dev' = {d \in dev : d.a[1] # x /\ d.b[1] # x}
           /\ UNCHANGED <<pc, procVars, loopVars, fd, mountVars, held, hostVars, errVars>>

------------------------------------------------------------------------------
Clear     == ClearLink \/ FlushNat \/ Cleared
Bootstrap == Detach \/ Pin \/ Minted
Routers   == LoadNFT \/ WriteSysctl \/ CreateGateway \/ GatewayUp
Endpoints == Connect \/ EndpointUp \/ Connected
HostEdge  == UplinkAdd \/ UplinkUp \/ HostForward \/ HostNat
Apply     == \/ SetLoUp \/ LoopbacksUp \/ Routers \/ Endpoints \/ HostEdge
             \/ NetworksDone \/ WriteHosts \/ LinkConnect \/ LinkUp \/ UpDone
Teardown  == Unpin \/ DownDone

Process == Clear \/ Bootstrap \/ Apply \/ Teardown
Operator == \E m \in {"up", "down"}, c \in Configs : Begin(m, c)
Podman  == (\E c \in Conts : Run(c)) \/ (\E x \in Ns : Stop(x))
Kernel  == \E x \in Ns : Reap(x)

Next == Process \/ Operator \/ Abort \/ Podman \/ Kernel

(* A process runs on until it ends, the kernel collects each namespace, a
   container ends sooner or later, and the operator tries `up` again. *)
Fairness == /\ WF_vars(Process)
            /\ \A x \in Ns : WF_vars(Reap(x)) /\ WF_vars(Stop(x))
            /\ SF_vars(\E c \in Configs : Begin("up", c))

Spec == Init /\ [][Next]_vars /\ Fairness

------------------------------------------------------------------------------
(***************************************************************************)
(* Properties.                                                             *)
(***************************************************************************)
End == ({HostNs} \union Ns) \X
       ({"gw", "vethR", "eth", "host_if", "uplink", "vethL", "lan"} \X Nat)

TypeOK ==
  /\ pc \in Idle \union Sysctls \union
       {"clear", "flush", "mint", "pin", "lo", "net", "gw", "gwup", "ep", "epup",
        "edge", "edgeup", "hfwd", "hnat", "cont", "link", "linkup", "unpin"}
  /\ cmd \in {"up", "down"}
  /\ cfg \in Configs
  /\ run \in Nat
  /\ todo \subseteq Paths
  /\ eps \subseteq Conts
  /\ at \in Paths \union {<<"host", 0>>}
  /\ fd \in [Paths -> {0} \union Gens]
  /\ pin \in [Paths -> {0} \union Gens]
  /\ files \subseteq Conts
  /\ alive \subseteq Ns
  /\ held \subseteq Ns
  /\ knobs \subseteq Ns \X Knobs
  /\ dev \subseteq [a : End, b : End, up : BOOLEAN]
  /\ hfwd \in BOOLEAN
  /\ zones \subseteq Nets
  /\ faults \in Nat
  /\ ignored \subseteq {"host_if", "pin"} \X Paths

IsRouter(x)  == x[1][1] = "router"
Hardened(x)  == \A k \in Sysctls \union {"nft"} : <<x, k>> \in knobs

(* An interface in a router's namespace -- gateway, fabric veth, uplink -- was
   born under the ruleset and every sysctl pin, whatever order loops, failures
   and later runs put things in (plan.go:281-285, apply.go:57-67). *)
BornHardened == \A d \in dev : \A e \in {d.a, d.b} : IsRouter(e[1]) => Hardened(e[1])

(* A veth never joins namespaces minted by two runs: a container left over in
   an unpinned namespace is cut off, not half connected (netns.go:288-297). *)
Generations ==
  \A d \in dev : d.a[1] # HostNs /\ d.b[1] # HostNs => d.a[1][2] = d.b[1][2]

(* The host_if that HostEdgeConnect is to create is never what an earlier run
   left, finished or not, collected or not, unless this run failed to look it up
   (up.go:152-165, hostedge.go:128-141): only a second uplink of the same file
   that names it too can be in the way. *)
EdgeFree ==
  pc = "edge" => \A d \in dev : HostEnd(at[2]) \in {d.a, d.b} =>
                    d.b[1][2] = run \/ <<"host_if", at>> \in ignored

(* What `up` reports done is there: all of the plan, between the namespaces
   that are pinned now, and it stays until the next command (up.go:93-98). *)
Wired(e, f) == [a |-> e, b |-> f, up |-> TRUE] \in dev

Complete ==
  pc = "done" /\ cmd = "up" =>
    LET R(n) == <<Router(n), pin[Router(n)]>>
        C(c) == <<Container(c), pin[Container(c)]>>
    IN /\ \A p \in PathsOf(cfg) : <<<<p, pin[p]>>, "lo">> \in knobs
       /\ cfg.conts \subseteq files
       /\ \A n \in cfg.nets : Hardened(R(n)) /\ Wired(<<R(n), <<"gw", 0>>>>, <<R(n), <<"gw", 0>>>>)
       /\ \A nc \in cfg.att : Wired(<<R(nc[1]), <<"vethR", nc[2]>>>>,
                                    <<C(nc[2]), <<"eth", nc[1]>>>>)
       /\ \A n \in cfg.up : /\ Wired(HostEnd(n), <<R(n), <<"uplink", 0>>>>)
                            /\ n \in zones
                            /\ hfwd
       /\ \A c \in cfg.link : Wired(<<HostNs, <<"vethL", c>>>>, <<C(c), <<"lan", 0>>>>)

(* What `down` reports scrubbed is scrubbed: nothing of the configuration is
   pinned and its host edge is gone from the init namespace, except where the
   run met an error that the code ignores (down.go:26-37, netns.go:249-258,
   hostedge.go:128-141). *)
TornDown ==
  pc = "done" /\ cmd = "down" =>
    /\ \A p \in PathsOf(cfg) : pin[p] = 0 \/ <<"pin", p>> \in ignored
    /\ \A n \in cfg.up : /\ n \notin zones
                         /\ Taken(HostEnd(n)) => <<"host_if", Router(n)>> \in ignored

(* However often runs are cut short, if that ends then `up` gets through again:
   what they leave behind never blocks it for good (up.go:92-98, "up = down +
   build"). *)
Converges == []<>(pc = "done" /\ cmd = "up")

------------------------------------------------------------------------------
(***************************************************************************)
(* The abstraction.                                                        *)
(***************************************************************************)
RouterNs == {x \in Ns : IsRouter(x)}

Stage == [x \in RouterNs |->
            IF x \notin alive THEN "none"
            ELSE IF Hardened(x) THEN "hardened"
            ELSE IF <<x, "nft">> \in knobs THEN "ruled" ELSE "bare"]

Links == {{d.a[1], d.b[1]} : d \in dev}

Life == INSTANCE Lifecycle WITH Routers <- RouterNs, Guests <- Ns \ RouterNs, Host <- HostNs,
                                RunOf <- [x \in Ns |-> x[2]], stage <- Stage, links <- Links

(* Fabric implements Lifecycle: however loops, failures, later runs and the
   kernel's own time interleave, a router takes the steps of its policy in
   their order, never loses one, and is linked after the last (apply.go:48-113,
   plan.go:276-323). *)
KeepsOrder == Life!Spec

------------------------------------------------------------------------------
(* What the repository's documents say of the program, and it does not do. *)

(* docs/TEST-PLAN.md:207: "`turnip up` twice (idempotent): second run stable". *)
SecondUpStable == pc = "link" => ~Taken(LinkEnd)
==============================================================================

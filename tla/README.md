# turnip in TLA+

turnip is a rootful Go program that builds a routed network for a rootless podman
user out of network namespaces, veth pairs, sysctls and nft rulesets.  This directory holds TLA+
models of it, TLC configurations that check them on small instances, and TLAPS proofs about
them.  Paths below are relative to `src/`.

## 1. The system

| component | code | state | operations | interacts with |
|---|---|---|---|---|
| commands | `cmd/turnip/{main,up,apply,down,probe}.go` | none of its own; what it leaves in the kernel and the state directory | `up`, `down`, `probe` | everything below, once per run, in order |
| lowering | `cmd/turnip/plan.go` | none (pure) | `buildPlan` and its helpers | config in, `Plan` out |
| configuration | `internal/config` | none (pure) | `Parse`, `Validate` | file in, model out |
| descriptor bridge | `internal/netns` `Bootstrap`, `Provision` | socketpair, descriptors, bind-mounts | mint, pin, send, receive, check | a child process under `podman unshare` |
| teardown child | `internal/netns` `Teardown`, `RunTeardown` | bind-mounts | unmount, remove | likewise |
| setns episodes | `internal/netns` `Set.Enter`, `inNetns` | the namespace of one OS thread | enter, run, return | sysctl and nft writes of `apply` |
| dataplane | `internal/dataplane` | interfaces, routes, sysctls | `SetLoUp`, `CreateGateway`, `Connect`, `HostEdgeConnect`, `TeardownHostEdge`, `LinkConnect`, `WriteSysctls`, `BuildNFT`, `BuildHostNFT` | kernel |
| nft | `internal/nftlib` | none | render, `Load` | the `nft` binary |
| probe | `cmd/turnip/probe.go`, `netns.Probe` | none | run a command in a pinned namespace | podman |

**Who acts when.**  `up` loads and validates the file, lowers it to a plan, clears the host edge
an earlier run may have left, has a child mint and pin one namespace per network ("router") and
per container, receives their descriptors, and wires them; `down` clears the host edge and
unpins.  Neither locks anything, neither rolls anything back.  Meanwhile podman starts and stops
containers in the pinned namespaces, and the kernel destroys a namespace, with its interfaces,
*some time after* the last pin, descriptor or process is gone.  Once wired, the kernel forwards
packets by the ruleset and its connection tracking without turnip.

**What is hard.**  (a) the protocol between `Bootstrap` and its child: end of file that needs
three processes to let go, a bounded socket, partial results, kills; (b) runs cut short anywhere
and resumed from whatever is left, with late reaping and running containers; (c) the order in
which ruleset, sysctls and interfaces come; (d) rules that are right one by one but merged and
ordered, and that lean on conntrack state that outlives them; (e) goroutines that the Go runtime
moves between threads while the kernel's "current namespace" belongs to a thread; (f) configurations
that pass validation and that the kernel then refuses half-way; (g) several turnip processes, which
nothing keeps apart.  `PROJECT.json` lists the hazards
at their lines.

**What makes each part correct.**

* bridge: all handles, each on the namespace its path pins, or an error and nothing open; it
  always answers; the child never outlives it.
* up/down: no interface of a router is born before its ruleset and sysctls are in force; no veth
  joins two runs; `up` reports done only when everything is there; `down` leaves neither pins nor
  host edge, unless a call failed whose error it ignores; what failure leaves never blocks the next `up` for good.
* policy: the rules open exactly what the flows declare, and nothing else stays open.
* episodes: every write lands in the namespace meant for it, no thread astray is ever used for
  anything else, no error is lost.
* lowering and validation: what is accepted can be applied, and the routes of what has been applied
  lead where the flows and the hosts files say.
* nft: a batch is never refused for the state it meets, and takes a table from one whole ruleset to
  another.
* pins: whatever overlaps and wherever it is cut short, a path is not blocked for good, and a run
  that was alone has done what it reports.

## 2. The modules

| module | what it is |
|---|---|
| `Namespaces` | numbering of namespaces shared by the next two |
| `Provision` | abstract promise of `netns.Bootstrap`: paths re-pinned one by one in order, one answer, all handles or none |
| `Bootstrap` | the protocol of `Bootstrap`, `recvFDs`, `Provision`, `pinNetns`, with the podman wrapper, OS threads, socket and descriptor table; implements `Provision` |
| `Pins` | `pinNetns` and `RunTeardown` system call by system call on one path, with any number of processes at once |
| `Episode` | `inNetns` and `Set.Enter` under `applyNetwork`, on the threads of the Go runtime |
| `Lifecycle` | abstract promise of `up` and `down` for the namespaces they make: stages in order, links after the last |
| `Fabric` | `up`, `down` and the dataplane primitives against kernel, podman and earlier runs; implements `Lifecycle` |
| `Policy` | one network's rules, sysctls and conntrack against its flows |
| `Lowering` | `Validate` and `buildPlan` as operators: what is accepted, names, default routes, hosts files |
| `Wiring` | the plan as netlink requests in their order, with the kernel's answers and routing tables; `EXTENDS Lowering` |
| `Zones` | abstract promise of `nftlib.Load`: tables are absent or whole |
| `Nft` | the batches of `nftlib`, `BuildNFT` and `BuildHostNFT` as kernel transactions of overlapping processes; implements `Zones` |
| `MC...` | instances for TLC, one beside each module that has runs |
| `BootstrapProofs`, `FabricProofs`, `PolicyProofs`, `EpisodeProofs`, `PinsProofs`, `WiringProofs`, `WiringExactProofs`, `NftProofs` | theorems |

How they fit: `Fabric` takes `Bootstrap` as its abstraction `Provision` (steps `Detach`, `Pin`,
`Minted`), an episode as one step that lands where it should (`Episode` is why), a load of a
ruleset as one step (`Nft` is why), and interfaces by their ends only (`Wiring` has their names,
addresses and routes).  `Policy` takes the wired network that `Fabric` ends with, and `Reload` there
is an `up` that found new namespaces.  `Fabric` has one process at a time; `Pins` and `Nft` have
the two kinds of state that overlapping processes share without any interface of theirs keeping
them apart.

Each module that models code has *variants* in it: `Check_NoCloseAll` stands before `Check` and
is `Check` with a plausible mistake.  Nothing refers to them; `PROJECT.json` names, for each
property of each run, the variant that breaks it, so that no property is there that could not
fail.

### Bootstrap (netns.go:135-189, 262-312, 352-418)

`pc` is the parent's place (`init`, `spawn`, `handoff`, `recv`, `close`, `wait`, `check`, then
`ok`, `err` or `dead`), `cpc` the child's.  `tab` is the descriptors received, `out` the map
`recvFDs` fills, `queue` the socket, `wends` the set of processes that hold the child's end (end
of file is `wends = {}`), `pin` the bind-mounts.  `thr`, `tns` and `locked` are the OS threads
of the child and the goroutine's place on them: `Migrate` moves an unlocked goroutine.  Names
pass through `Wire`, the 256-byte buffer.  `ChildDies`, `PodmanDies`, `ParentDies`,
`SocketpairFails`, `StartFails` and `RecvNoFd` are the failures; a failing system call in the
child and a kill are the same step, since the child's only reaction is to exit.  After
`ParentDies` the model goes on with the orphaned child.

The refinement maps `ok` to the verdict and the map to handles, and everything in between to
steps on `pin`; `dead` counts as a failure without handles.

### Fabric (up.go, apply.go, down.go; dataplane)

`pc` names the step a process is at; `todo`, `eps`, `at` are its loops, which go in the order of
`sortedKeys`.  `pin`, `files`, `dev`, `knobs`, `alive`, `held`, `hfwd`, `zones` are what stays
when it ends.  A namespace is a pair of the path it was minted for and a *generation*, one per
run; `Begin` of an `up` takes the lowest generation nothing alive has (a `down` mints none), so `Slots` bounds how many runs'
leftovers there can be together (a fourth run waits until something has been reaped).
An interface is a record of two ends; `LinkAdd` fails when a name is taken in its namespace.
Each primitive is two steps, adding the interface and configuring it (addresses, up, routes), so
that `Abort` can fall in between.  `Abort` is every error return and every kill at once: the code
returns an error and has no cleanup but `defer set.Close()`.  Two errors it does not return:
`TeardownHostEdge` takes any error of the lookup for absence (`hostedge.go:129`), and `RunTeardown` goes
on when unmount or remove is refused (`netns.go:256-257`).  Those are the second disjuncts of `ClearLink`
and `Unpin`; `ignored` remembers where this run met one, for the properties to speak of, and no action
reads it.  (`pinNetns` ignores the same two, and its exclusive create then fails: `Abort`.)
`MaxFaults` bounds errors and kills together.  `WriteSysctl` writes the list of `routerSysctls` by groups,
and the write of `ip_forward` takes the effect of the later groups back, as the kernel does.

A namespace is not born blank: it copies the init namespace's live settings (`plan.go:277-278`).
`Inherited` is the part of that turnip has to do with: forwarding, which is on in the init namespace since
the host's own settings say so (`Init` leaves it open) or an earlier `up` did (`HostForward`), and which
nothing turns off.  So a router may forward before its ruleset is loaded, and no property says
otherwise; that it has nothing to forward between by then is `BornHardened`.

`Bootstrap` appears in `Fabric` as `Detach` and `Pin` per path, the steps of `Provision`, and
`Minted`.  An orphaned child that re-pins one more path after its parent was killed is left out
here (it is in `Bootstrap`).

`KeepsOrder` maps `Fabric` to `Lifecycle`: `Stage` reads off a router's settings how far it has
come (bare, under its ruleset, hardened), `Links` reads off the interfaces which namespaces are joined.  Everything else is a stutter.

### Policy (plan.go:293-409, nft.go, hostedge.go:85-122)

State is the flow list in force and the tracked connections of the router's namespace.
`AllowedFlows`, `EgressAllow` and `IngressAllows` are the lowering, `Dnat` the first rule of the
host's nat zone that matches an address, protocol and port; `Rpf`, `CtState`,
`Forward` and `Input` the router.  Packets carry any source, so forged ones are among them, and
any place in a connection.  `Transit` lets one through; `Expire` forgets a connection; `Reload` is
`up` with another accepted file, which starts from a new namespace.  `Declared` is what
the flows mean, written without rules, tables or order.  `Directional` asks it about who really sent the
packet that opened a connection (`Openers`, from the interface it came in by) and not about the source
it claimed, so it is false without strict reverse-path filtering.

### Pins (netns.go:250-260, 288-312)

State is the path (`file`), the stack of mounts on it, each with the process that made it and
whether that process was *alone* (nothing else of this module happened since it started), and for
each process the next of its calls.  `Unmount` takes the topmost mount and ignores that there is
none; `Remove` ignores that a mounted file stays; `Create` is exclusive and fails; `Mount` goes on
top of what is there.  `Die` is an error or a kill at any call, `Overlook` any other refusal of unmount or
remove, which the code ignores too.  `LoseMounts` is podman's mount
namespace ending with its pause process (or a reboot with the state directory kept): the mounts
go, the files stay.

### Episode (netns.go:87-97, 314-349; apply.go:53-113)

`ns` is the namespace each thread is in, `on` the thread of the goroutine, `locked`, `orig` (the
saved handle) and `back` are those of `inNetns`, whose deferred functions are actions of their own.
`net`, `stage` and `written` walk through `applyNetwork`: ruleset and sysctls in an episode each,
interfaces by descriptor, then the host edge with no episode, in whatever namespace the thread is.
`landed` records where each write took effect.  `Migrate` moves an unlocked goroutine to any
thread.  Any call may fail, `RestoreFails` included, after which the thread is stuck.

### Lowering and Wiring (validate.go, config.go, plan.go; apply.go, dataplane)

`Lowering` has no state: `Validate` is the conjunction of what the code refuses, and names are
sequences of characters because the code joins them with hyphens and measures the result.
`Wiring` turns an accepted configuration into the sequence of netlink requests of `ApplyPlan`,
after `ClearHostEdge`, and `Request` puts them to the kernel one at a time: `Takes` is what the
kernel answers for a name taken, a name it does not allow, a next hop that is not on a link, a
route that is there.  Here nothing fails by chance, so `refused` is the configuration's doing.
`Hops` follows routing tables (local table first, longest prefix) to the next namespace.

`Exact` compares the outcome with `NamesFit` and `RoutesFit`, conditions on the configuration alone:
they are what `Validate` would have to ask for.  `Delivered` walks from a container through the
router to its peer and back.  It leaves out addresses that a link of the container captures on
purpose (its own network and static routes) and addresses used twice by one container (`Captured`), and
those of gateways and uplink ends (`Taken`): validation lets an attachment have one, and then
the router or the host answers for itself (section 6).

### Nft (nftlib.go:221-335, nft.go:58-104, hostedge.go:94-139)

A batch is a sequence of commands (`add table`, `delete table`, `add chain`, ...), `Exec` is what the
kernel does with one, `Transaction` is the fold of a batch: all of it or nothing.  `Start`, `Commit`,
`Fail`, `Done` are one `Load`; `Fail` may come after the commit, since the `nft` process can be
killed with its answer.  `KeepsPromise` maps the tables to `Zones`.

## 3. Runs

| run | instance | shows |
|---|---|---|
| `bootstrap` | up to 4 Specs, the name of the fourth cut to that of the first, socket of 2 messages | types, `Delivered`, `NoLeak`, `Reaped`, `StopsWhenAbandoned`, `KeepsPromise`, `Returns`, `ChildEnds` |
| `pins` | 3 processes, 2 faults, 3 overlaps | `OnlyOverlapsStack`, `NoPileUp`, `Reported`, `Reclaims` |
| `episode` | 2 networks, the first with an uplink, 2 sysctls, 3 threads | `InPlace`, `Confined`, `Complete`, `StopsStranded` |
| `fabric_single` | 1 network with uplink, 1 container with link, 3 generations, 1 fault | types, `BornHardened`, `Generations`, `Complete`, `KeepsOrder`, `Converges` |
| `fabric_edited` | 2 files: 2 networks sharing a container, then one of them gone and its host_if moved; 2 generations, 1 fault | `EdgeFree`, `Complete`, `TornDown` with loops and across edits |
| `policy` | 2 containers, 1 peer, 2 host addresses, 2 ports, all lists of up to 2 of 11 flows, 2 connections | types, `Faithful`, `Directional`, `Published` |
| `wiring` | some 2,000 accepted configurations in five families (addresses, names, hyphens, a link, two links) | `DefaultUncontested`, `Delivered`, `Exact` |
| `nft` | a router's table, two zones, 2 processes | `NeverRefused`, `KeepsPromise` |
| `fabric_second_up`, `policy_captured`, `pins_stacked`, `wiring_refused` | small instances of the same | a document's or comment's claim the code does not keep (section 6) |

**Why the bounds are enough to be worth running.**  Three Specs give a first, a middle and a
last one, the fourth a name the receive buffer cuts; a socket of two messages makes the child
block.  Two generations are an old run and a
new one, three let the leftovers of one be reaped in the middle of another; one fault cuts one run
at any step, the runs after it start from its leftovers, and runs of `up` and `down` follow each
other without bound.  Two flows are the smallest lists in which one row can widen, hide or shadow
another (the published ones share a port, on every address, on one and on another), and two connections
the smallest set with one to expire beside one that stays.  Three
processes on a path are two that stack their mounts and one that meets the stack; starts that find
nobody else running are unbounded.  Two networks let a router's episodes follow the direct writes
of another, which is where a thread that did not come home would be used.  In `wiring` names have
at most eight characters and addresses four bits: enough for a joined name to be too long or to
meet another one, and for networks inside networks.  The second network's gateway is the first's, one
of its own, or the address of an attachment; a bridge of the host has the name an uplink may ask for.
What a larger instance would show is in the proofs.

`Bootstrap.cfg`, `Episode.cfg`, `Wiring.cfg` and `WiringRefused.cfg` turn deadlock checking off,
since there a call, a run or a plan ends; `Fabric`, `Policy`, `Nft` and `Pins` never stop and
are checked for it.

**Fairness.**  `Bootstrap`: each process that can move does, which is the operating system's
scheduling; no failure is ever obliged to happen.  A `podman` that neither runs its child nor
exits is not considered.  `Fabric`: the process at hand runs on (weak fairness on `Process`); the
kernel collects each namespace and each container ends sooner or later (weak fairness per
namespace; a container that never ends makes the second `up` with a link fail each time, see
`fabric_second_up`); and the operator tries `up` again and again, which needs strong
fairness because a `down` may be started instead.  Faults are finitely many, so `Converges` says
that what they leave does not matter in the end.  `Pins`: each process goes on to its next call
(weak fairness on `Call`), and the operator tries `up` again (strong fairness, since another run
may be started instead); faults and overlaps are finitely many.  The other modules claim no
liveness and have no fairness.

## 4. Proofs

For every number of Specs, networks, containers, ports, flows, connections, threads, sysctls,
processes, overlaps and faults, and every set of configurations that satisfies the modules' ASSUMEs
(distinct Spec names; attachments, uplinks and links of declared networks and containers;
containers, peers and the router's own address distinct; networks, containers and attachments finitely
many and at most one uplink per network, as in a parsed file; container names distinct, as keys of a map
are; addresses within their width, of two bits or more; a router's table no host's zone), and every batch and plan, of any length:

| theorem | says |
|---|---|
| `BootstrapProofs!TypeCorrect`, `DeliversAll`, `LeaksNothing`, `AlwaysReaps`, `Abandoned` | `TypeOK`, `Delivered`, `NoLeak`, `Reaped`, `StopsWhenAbandoned` |
| `BootstrapProofs!Implements` | `Bootstrap` implements `Provision` (`KeepsPromise`) |
| `FabricProofs!TypeCorrect`, `InterfacesBornHardened` | `TypeOK`, `BornHardened` |
| `FabricProofs!OneRunPerVeth`, `DownTearsDown`, `HostEdgeFree` | `Generations`, `TornDown`, `EdgeFree` |
| `FabricProofs!UpIsComplete` | `Complete` |
| `FabricProofs!Implements` | `Fabric` implements `Lifecycle` (`KeepsOrder`) |
| `PolicyProofs!TypeCorrect`, `RulesFaithful`, `OnlyDeclared`, `PublishedReached` | `TypeOK`, `Faithful`, `Directional`, `Published` |
| `EpisodeProofs!TypeCorrect`, `WritesInPlace`, `ThreadsConfined`, `NothingStranded`, `RunsComplete` | `TypeOK`, `InPlace`, `Confined`, `StopsStranded`, `Complete` of `Episode` |
| `PinsProofs!TypeCorrect`, `StackedByOverlap`, `OnePerProcess`, `ReportsTrue` | `TypeOK`, `OnlyOverlapsStack`, `NoPileUp`, `Reported` |
| `WiringProofs!TypeCorrect`, `OneDefaultRoute` | `TypeOK`, `DefaultUncontested` of `Wiring` |
| `WiringExactProofs!AlwaysAnswered` | the kernel's state is what the requests made have brought, and they were taken because of the plan alone |
| `WiringExactProofs!WiredExactly`, `AlwaysDelivered` | `Exact`, `Delivered` of `Wiring` |
| `NftProofs!Unrefused` | `NeverRefused` |
| `NftProofs!Whole` | `Nft` implements `Zones` (`KeepsPromise`) |

*Bootstrap.*  `Delivered` is not inductive: it speaks of the parent's map, and what makes the map
right is the child's loop.  The invariant follows a namespace on its way: `ChildInv` (paths before
`idx` pin this call's namespaces, the thread is locked and in the one just minted), `FlightInv`
(the i-th message, sent or received, is about the i-th Spec and names it), `ArrivedInv` (the
map's entries point at descriptors under the name they were sent with), `HoldInv` (who holds which
end).  All of it rests on the socket keeping order and on the parent's count of names.  For the
refinement, `AheadInv` adds that paths not come to yet are as they were found.

*Fabric.*  An interface is born hardened because its router is, and the router is because its
settings were written before and none is taken back: only `ip_forward` takes settings back, and it is
written in a namespace that has no interface yet.  That is `Untouched`, and it holds because this
run's generation was unused when it began and interfaces are only in namespaces that exist
(`Rooted`).  `Staged` says how far the router at hand is, `Loops` that loops stay in the plan and
that every descriptor they use is of this run.

The proofs about what is left between runs turn on where interfaces come from.
`Adds`: only the four primitives make one, and `NewEnds`: each has an end in a namespace of the run
that makes it, which is `Generations` at once.  A host end is made in its network's own turn only
(`GoneTillTurn`), and outside `applyNetwork` and `applyContainer` there are only ever fewer
interfaces.  So what `clearHostEdge` has taken away stays away, to the end of `down`
(`Cleaned`, `Unpinned`) and to its turn in `up` (`Edges`).  What it failed to look up it has not taken
away, and `ignored` only grows within a run (`IgnoredGrows`, `OffStays`): that is the exception in
`TornDown` and in `EdgeFree`.  The other in `EdgeFree` is an uplink of the same file with the same
`host_if`, which `Uplink.validate` (validate.go:149) allows; it is of this run (`Own`), and the second
`HostEdgeConnect` of such a file fails every time.  TLC's instance has no such file; the theorem covers it.

`Complete` is about the end of `up`, so the invariant says for each loop that its work is done for what
it has taken and left behind (`Loopbacks`, `Networks`, `Containers`), and for the element at hand as
much as `pc` says (`AtNetwork`).  That nothing undoes it again rests on `Pinned`: the kernel destroys
no namespace that is pinned, and nothing of the init namespace goes before the next run.

`Lifecycle` is implemented step by step: `LoadNFT` and the last group of `WriteSysctl` advance a router
by one stage, the others by none, and that none is taken back needs `Fresh` (a router whose `ip_forward` is still to be written
has none of the pins that the write takes back) and `Settled` (settings are those of namespaces that exist,
so a new one has only what it inherits); the four primitives are `Join`, `Reap`
is `Destroy`, `ClearLink` is `Cut`.

*Policy.*  For a first packet the forward chain is three kinds of allow; `InternalRule`,
`EgressRows` and `IngressRows` show each to be the flows of its type, and from that `Faithful`.  An entry is only
made by such a packet, and keeps what it was made with until the flows change, when it is gone.  Who sent it
is the source it claims, or somebody outside for somebody outside, since `Rpf` let it in (`OpenerIsSource`),
and a flow does not tell those outside apart (`OpenSame`): that is `OnlyDeclared`.
`Published` holds for every accepted file, also where validation lets a wildcard row and a row for one
address share a port: the first rule that matches is there by well-foundedness of the natural numbers
(`LeastOf`), it is one of the rows (`DnatRow`), and the router has its allow.  It need not be the row
which names the address (section 6).

*Episode.*  `AInv` ties the thread's namespace, the lock and the saved handle to `pc`; `SoFar`
that everything before the write at hand has landed.

*Pins.*  A file under a mount cannot be removed, so a process that has created the file found no
mount there; what is mounted until it mounts is the work of others that ran at the same time
(`Others`, `Together`).  `Serial` is the case without overlaps.

*Wiring.*  A plan is made by joining lists, and what the proof says of a list survives joining: its
requests are for namespaces that `Bootstrap` was asked for and each route has its interface before it
(`Good`), and it gives a namespace one default route (`Once`) or none (`None`).  `Ordered` carries that to
a family put in the order of its keys, the parts (`GatewayGood` to `ContainerGood`) are gone through once,
and `PlanSound` puts them together.  A container's defaults come from several of its networks and from
its links, that is from different parts of the plan, and that only one of them has one is
`SoleDefault`: `crossCutting` counts the interfaces marked as default, `ownsDefault` gives one also to
an attachment that is its container's only interface, and the two agree because both count links.  The
invariant is the same of the requests still to come, and that the routes made have their interfaces.

*Wiring: Exact.*  That is an equivalence over every configuration, so no one fact about a plan gives
it.  The proof has three parts.  First the kernel's state is got rid of: `History` says that interfaces,
addresses and routes are those of the requests made so far, so whether the j-th is taken is a matter of
the plan alone (`Ok`).  It is when the request is right by itself (`Alone`: its name is usable, its
prefix masked), when nothing before it has the name or the destination it wants (`NoClash`), and when
its next hop is on the link by then (`ServedBy`).  The invariant is `Answered`: what was made passed
for that reason.  Then the plan is taken apart as apply puts it together.  Each
Connect, HostEdgeConnect and LinkConnect is a `Part`: what it has and wants of interfaces and of
routes, and what it asks of itself.  Joining lists, or putting a family in order, adds no clash
but those between parts, so a plan is right when its parts are and no two of them clash (`PlanPart`).
Last, the clashes are compared with the conditions: `NamesTaken` for interfaces (here joined names
matter: distinct container names make distinct router ends, but not distinct host ends of links) and
`RoutesTaken` for routes, where the sole default of the proof above rules out the ones between networks.

*Wiring: Delivered.*  In a wired plan everything asked for is there (`PlanByOp` lists it), and by Exact
it is there once.  So an interface name is the end of one pair (`Neighbors`), and a host route is the
only best one for its address (`OneBest`); a hop is then that of the route the part has added, unless
a local address comes first, and which those are the addresses asked for say.  The conditions of
`Delivered` enter here: no link covers the address (`Captured`), nobody on the way has it (`Taken`),
and the network has the default route.

*Nft.*  A batch is a fold, and `Runs` unfolds it: what a batch of n commands does is what the last
does to what the others left.  From that come two rules, one command more (`OneMore`) and one batch
after another (`OneAfter`), with which `RouterGives` and `HostGives` run `BuildNFT` and `BuildHostNFT`
from any tables whatever to the single ruleset they stand for.  Since nothing is required of the tables
that a batch meets, overlapping and interrupted loads need no invariant about each other.

The library's induction theorems take an operator as parameter, which no prover here instantiates.
`Induction` in both modules says the same of a *set* of numbers, and each use defines the set of lengths
for which its claim holds.

**Model-checked only:** liveness (`Returns`, `ChildEnds`, `Converges`, `Reclaims`), which the
prover does not do.  Every safety invariant, action property and refinement that a passing run checks
is proved, for every configuration.

## 5. Not modelled

* How a node of a ruleset is rendered to JSON, and JSON decoding of the file; ranges of ports and
  MTUs, IPv4-ness.
* Processes that overlap in the host edge and the interfaces: `Pins` has their pins, `Nft` their
  tables.  Veths in the init namespace can then collide, which is one more error return of a
  primitive, and what such a return leaves is `Abort` in `Fabric`.
* Bodies of hosts files other than who is in them at which address; MTUs.
* The init namespace's own connection tracking and forward rules, which are the host's, and a
  `nft flush ruleset` by somebody else.
* Whether the kernel refuses a next hop that is an address of the namespace itself: `OnLink` takes it,
  and `Exact` is relative to that.
* `probe` (changes nothing), Nix packaging, tests.

## 6. Where the documents and the code part

Shown by a run:

* `netns.go:250-251`, teardown always detaches: after overlapping `up`s two namespaces are mounted on
  one path, and one `down` takes one and reports success (`pins_stacked`).
* `docs/TEST-PLAN.md:207`, a second `up` is stable: not with a container link while the old
  namespace lives (`fabric_second_up`).
* `hostedge.go:86`, an unspecified `listen` matches any host address: its rule matches any address at
  all, so what a container sends to a peer on a published port is turned back to the published
  container (`policy_captured`; `docs/TEST-PLAN.md:131` expects it to connect).
* `apply.go:4-6`, apply's only errors are runtime faults, and `docs/ARCHITECTURE.md:230-231`, a bad
  config never half-builds: `NamesFit` and `RoutesFit` in `Wiring` list what validation lets
  through and the kernel refuses (`wiring_refused`).

Met while modelling, without a run of its own:

* `README.md:88-89`, "clean slate every time": `clearHostEdge` and `Bootstrap` visit only what the file
  declares, so a network that has been taken out of it keeps its pinned namespace and its nat zone.
* `docs/CONFIG-SKETCH.md:354-355`, a container on two networks does not forward between them: turnip
  sets nothing in a container's namespace, which copies the host's setting (`Inherited`).  The section
  is marked deferred, but the code builds such containers.
* `docs/CONFIG-SKETCH.md:167`, `listen` is the address the DNAT binds: behind a row for every address a
  row for one of them gets nothing; both pass validation, which compares `listen` as text
  (`validate.go:327`), and the first in the file takes both.
* `docs/ARCHITECTURE.md:104-106` puts sysctls and nft last, as does the comment at `apply.go:48-50`;
  `apply.go:68-73` puts them first, which is what `BornHardened` needs.
* `docs/TEST-PLAN.md:206`, "state dir empty": hosts files stay.
* `docs/CONFIG-SKETCH.md:350-353`, peers of each network by that network's interface, in the deferred
  section: packets for a peer of a network without the default go by the default's router.  `Delivered`
  judges containers on their default network only.
* `docs/ARCHITECTURE.md:60-62`, a sole interface is the default: `plan.go:231` leaves links out, so a
  container whose one interface is a link without `default` has no default route.
* Hosts files name a peer on several networks by one address only (`plan.go:423-440`).
* `apply.go:4-6` once more: an uplink whose `host_if` is the name of a bridge that a link is to join passes
  the preflight, and `clearHostEdge` then deletes that bridge (`up.go:119`, `hostedge.go:128-133`), so
  `LinkConnect` is refused.  `NamesFit` has it as `bridge \notin HostIfs`.
* `validate.go:169-174` does not compare an attachment's address with the gateway or the uplink's link;
  packets for it then end at the router or the host (`Taken`).

## 7. What remains

* Several processes over the whole of `Fabric`, with the host edge and the pins in one model: the
  state space is the product of two runs, and the pins and the tables, where they share state, are
  done.
* IPv4-ness and ranges in `Lowering`, which completes `Validate`.

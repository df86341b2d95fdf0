------------------------------ MODULE Episode ------------------------------
(***************************************************************************)
(* setns episodes (netns.go: Set.Enter, inNetns) under applyNetwork        *)
(* (apply.go), on the threads of the Go runtime.                           *)
(*                                                                         *)
(* /proc/sys, the nft process and the netlink calls of the host edge act   *)
(* in the network namespace of the OS thread the goroutine is on when it   *)
(* makes the call.  Enter moves that thread, and must have it back before  *)
(* the goroutine may leave it or go on.  Gateway and endpoints are made    *)
(* through sockets opened on a descriptor, wherever the thread is.         *)
(***************************************************************************)
EXTENDS Integers

CONSTANTS Threads,   \* OS threads of the process
          Networks,  \* how many networks; they are taken in order
          Uplinked,  \* those with an uplink
          Pins       \* sysctls written in one episode

Nets == 1..Networks
Host == 0            \* the init namespace; the router of network n is n

ASSUME EpisodeAssumption == /\ Networks \in Nat \ {0}
                            /\ Uplinked \subseteq Nets
                            /\ Pins \in Nat \ {0}
                            /\ Threads # {}

(* What applyNetwork writes: ruleset and sysctls in an episode each; gateway
   and endpoints by descriptor; then, with no episode, the uplink's veth,
   ip_forward and the nat zone. *)
Stages     == {"nft", "sysctls", "ends", "veth", "forward", "nat"}
Follows    == [nft |-> "sysctls", sysctls |-> "ends", ends |-> "veth",
               veth |-> "forward", forward |-> "nat"]
Entered(s) == s \in {"nft", "sysctls"}
StagesOf(n) == {s \in Stages : s \in {"nft", "sysctls", "ends"} \/ n \in Uplinked}
Last(n)    == IF n \in Uplinked THEN "nat" ELSE "ends"

Where(n, s) == IF Entered(s) \/ s = "ends" THEN n ELSE Host
Count(s)    == IF s = "sysctls" THEN Pins ELSE 1

VARIABLES
  ns,       \* the namespace each thread is in
  on,       \* the thread the goroutine is on
  locked,   \* runtime.LockOSThread is in force
  pc,       \* where the goroutine stands
  net, stage,
  written,  \* writes of this stage that were made
  orig,     \* the saved handle: the namespace behind it, NoNs when closed
  back,     \* backOnHost
  err,      \* an error is on its way up
  landed    \* which write took effect where

NoNs == -1
Ended == {"done", "failed"}
threadVars == <<ns, on, locked>>
vars == <<threadVars, pc, net, stage, written, orig, back, err, landed>>

Init == /\ ns = [t \in Threads |-> Host]
        /\ on \in Threads
        /\ locked = FALSE
        /\ pc = "call"
        /\ net = 1 /\ stage = "nft" /\ written = 0
        /\ orig = NoNs /\ back = FALSE /\ err = FALSE
        /\ landed = {}

------------------------------------------------------------------------------
Step(here, there) == pc = here /\ pc' = there

(* Whether a stage is in an episode is written in the code. *)
Call == /\ Step("call", IF Entered(stage) THEN "lock" ELSE "fn")
        /\ UNCHANGED <<threadVars, net, stage, written, orig, back, err, landed>>

(* Variant: no LockOSThread. *)
Lock_Skipped == /\ Step("lock", "open")
                /\ UNCHANGED <<threadVars, net, stage, written, orig, back, err, landed>>

Lock == /\ Step("lock", "open")
        /\ locked' = TRUE
        /\ UNCHANGED <<ns, on, net, stage, written, orig, back, err, landed>>

Open == /\ Step("open", "enter")
        /\ orig' = ns[on]
        /\ UNCHANGED <<threadVars, net, stage, written, back, err, landed>>

OpenFails == /\ Step("open", "return")
             /\ locked' = FALSE
             /\ err' = TRUE
             /\ UNCHANGED <<ns, on, net, stage, written, orig, back, landed>>

Enter == /\ Step("enter", "fn")
         /\ ns' = [ns EXCEPT ![on] = Where(net, stage)]
         /\ UNCHANGED <<on, locked, net, stage, written, orig, back, err, landed>>

EnterFails == /\ Step("enter", "close")
              /\ back' = TRUE
              /\ err' = TRUE
              /\ UNCHANGED <<threadVars, net, stage, written, orig, landed>>

AfterFn == IF Entered(stage) THEN "restore" ELSE "return"

(* One write of fn: a sysctl, a batch of nft, netlink requests. *)
Acts == IF stage = "ends" THEN net ELSE ns[on]

Write == /\ pc = "fn"
         /\ written' = written + 1
         /\ landed' = landed \union {<<net, stage, written', Acts>>}
         /\ pc' = IF written' = Count(stage) THEN AfterFn ELSE "fn"
         /\ UNCHANGED <<threadVars, net, stage, orig, back, err>>

WriteFails == /\ Step("fn", AfterFn)
              /\ err' = TRUE
              /\ UNCHANGED <<threadVars, net, stage, written, orig, back, landed>>

(* Variant: what fn returned is lost once the thread is back. *)
Restore_DropsFnErr == /\ Step("restore", "close")
                      /\ ns' = [ns EXCEPT ![on] = orig]
                      /\ back' = TRUE
                      /\ err' = FALSE
                      /\ UNCHANGED <<on, locked, net, stage, written, orig, landed>>

Restore == /\ Step("restore", "close")
           /\ ns' = [ns EXCEPT ![on] = orig]
           /\ back' = TRUE
           /\ UNCHANGED <<on, locked, net, stage, written, orig, err, landed>>

(* Variant: only fn's own error is returned. *)
RestoreFails_Ignored == /\ Step("restore", "close")
                        /\ UNCHANGED <<threadVars, net, stage, written, orig, back, err, landed>>

RestoreFails == /\ Step("restore", "close")
                /\ err' = TRUE
                /\ UNCHANGED <<threadVars, net, stage, written, orig, back, landed>>

(* Variant: close and unlock both wait for backOnHost. *)
Close_OnlyWhenBack == /\ Step("close", "unlock")
                      /\ orig' = IF back THEN NoNs ELSE orig
                      /\ UNCHANGED <<threadVars, net, stage, written, back, err, landed>>

(* The deferred function. *)
Close == /\ Step("close", "unlock")
         /\ orig' = NoNs
         /\ UNCHANGED <<threadVars, net, stage, written, back, err, landed>>

(* Variant: `defer runtime.UnlockOSThread()`. *)
Unlock_Always == /\ Step("unlock", "return")
                 /\ locked' = FALSE
                 /\ UNCHANGED <<ns, on, net, stage, written, orig, back, err, landed>>

Unlock == /\ Step("unlock", "return")
          /\ locked' = (locked /\ ~back)
          /\ UNCHANGED <<ns, on, net, stage, written, orig, back, err, landed>>

(* applyNetwork returns at the first error; so do its callers, up to main. *)
Return ==
  /\ pc = "return"
  /\ written' = 0 /\ back' = FALSE
  /\ CASE err -> pc' = "failed" /\ UNCHANGED <<net, stage>>
       [] ~err /\ stage # Last(net) -> pc' = "call" /\ stage' = Follows[stage] /\ net' = net
       [] ~err /\ stage = Last(net) /\ net < Networks ->
            pc' = "call" /\ stage' = "nft" /\ net' = net + 1
       [] OTHER -> pc' = "done" /\ UNCHANGED <<net, stage>>
  /\ UNCHANGED <<threadVars, orig, err, landed>>

(* External: the scheduler moves a goroutine that is not locked. *)
Migrate == /\ ~locked
           /\ pc \notin Ended
           /\ on' \in Threads \ {on}
           /\ UNCHANGED <<ns, locked, pc, net, stage, written, orig, back, err, landed>>

Next == \/ Call \/ Lock \/ Open \/ OpenFails \/ Enter \/ EnterFails
        \/ Write \/ WriteFails \/ Restore \/ RestoreFails
        \/ Close \/ Unlock \/ Return \/ Migrate

Spec == Init /\ [][Next]_vars

------------------------------------------------------------------------------
(***************************************************************************)
(* Properties.                                                             *)
(***************************************************************************)

(* Types, and the saved handle is open exactly from Open to Close
   (netns.go:326-337). *)
TypeOK ==
  /\ ns \in [Threads -> {Host} \union Nets]
  /\ on \in Threads
  /\ locked \in BOOLEAN
  /\ pc \in Ended \union {"call", "lock", "open", "enter", "fn", "restore", "close",
                          "unlock", "return"}
  /\ net \in Nets
  /\ stage \in StagesOf(net)
  /\ written \in 0..Count(stage)
  /\ orig \in {NoNs, Host} \union Nets
  /\ orig # NoNs <=> Entered(stage) /\ pc \in {"enter", "fn", "restore", "close"}
  /\ back \in BOOLEAN
  /\ err \in BOOLEAN
  /\ landed \subseteq Nets \X Stages \X (1..(1 + Pins)) \X ({Host} \union Nets)

(* Every write takes effect in the namespace it is meant for: a router's own
   ruleset, sysctls and interfaces in its namespace, the host edge in the init namespace
   (apply.go:68-73, 99-108). *)
InPlace == \A w \in landed : w[4] = Where(w[1], w[2])

(* A thread is away from the init namespace only while the goroutine is locked
   to it: nothing else of the process ever runs there (netns.go:314-319). *)
Confined == \A t \in Threads : ns[t] # Host => locked /\ on = t

(* Once the thread is stuck in a router's namespace, with no handle to go back
   by, the run writes nothing more anywhere (netns.go:344-347, apply.go:68-73). *)
Stranded == ns[on] # Host /\ orig # Host
StopsStranded == [][Stranded => landed' = landed]_vars

(* A run that ends without error has made every write, none skipped by an error
   that got lost in an episode (netns.go:343-349, apply.go:53-113). *)
Complete ==
  pc = "done" => \A n \in Nets : \A s \in StagesOf(n) : \A i \in 1..Count(s) :
                   <<n, s, i, Where(n, s)>> \in landed
=============================================================================

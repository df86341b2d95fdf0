------------------------------ MODULE Bootstrap ------------------------------
(***************************************************************************)
(* netns.Bootstrap and its re-exec'd child, netns.Provision                *)
(* (internal/netns/netns.go): the rootful parent makes a SEQPACKET         *)
(* socketpair, starts `podman unshare <self> __provision ...` with one end *)
(* as descriptor 3, and collects (name, fd) messages until end of file;    *)
(* the child mints and pins one namespace per Spec and ships a descriptor  *)
(* of each.                                                                *)
(*                                                                         *)
(* The kernel's part is the socket (a bounded queue, and end of file only  *)
(* once EVERY holder of the child's end is gone), the bind-mounts at the   *)
(* paths, and the namespace each thread of the child is in.  Any system    *)
(* call may fail and any process may be killed.                            *)
(***************************************************************************)
EXTENDS Namespaces, Sequences

CONSTANTS Wire,       \* Wire[w]: what a 256-byte receive buffer keeps of w
          Cap         \* messages the socket holds before a send blocks

(* A cut name is not cut again, so a name too long is never received. *)
ASSUME WireAssumption ==
  /\ Wire \in [Names -> Names]
  /\ \A w \in Names : Wire[Wire[w]] = Wire[w]
  /\ Cap \in Nat \ {0}

VARIABLES
  \* the parent
  pc,       \* where Bootstrap stands
  psock,    \* parentSock is open
  tab,      \* descriptors received so far: the namespace of each, or NoNs
  out,      \* the map recvFDs fills: name -> position in tab, 0 if absent
  bad,      \* recvErr or waitErr is set
  \* the `podman unshare` wrapper
  pod,      \* "none", "run", "done"
  clean,    \* no failure has reached the exit status Wait will see
  \* the child
  cpc,      \* where Provision stands
  idx,      \* the Spec its loop is at
  locked,   \* runtime.LockOSThread was called
  thr,      \* the OS thread its goroutine runs on
  tns,      \* the namespace of each of its threads
  cfd,      \* namespace behind the descriptor it is about to send
  \* the kernel
  count,    \* Specs in this call
  queue,    \* messages sent and not yet received
  wends,    \* processes that hold the child's end of the socketpair
  pin       \* the namespace bind-mounted at each path

parentVars == <<pc, psock, tab, out, bad>>
childVars  == <<cpc, idx, locked, thr, tns, cfd>>
kernelVars == <<count, queue, wends, pin>>
vars == <<parentVars, pod, clean, childVars, kernelVars>>

Threads == {1, 2}
Msg     == [name : Names, ns : NsId]
Returned == {"ok", "err"}
Working  == {"recv", "close", "wait", "check"}

(* Two goroutine threads are enough: one to be moved to. *)
Other(t) == 3 - t

Init == /\ pc = "init"
        /\ psock = FALSE
        /\ tab = <<>>
        /\ out = [w \in Names |-> 0]
        /\ bad = FALSE
        /\ pod = "none"
        /\ clean = TRUE
        /\ cpc = "none"
        /\ idx = 1
        /\ locked = FALSE
        /\ thr = 1
        /\ tns = [t \in Threads |-> HostNs]
        /\ cfd = NoNs
        /\ count \in 0..N
        /\ queue = <<>>
        /\ wends = {}
        /\ pin \in [1..N -> -N..(N + 1)]
        /\ \A k \in 1..N : pin[k] \in {NoNs, Stale(k)}

------------------------------------------------------------------------------
(***************************************************************************)
(* The parent.                                                             *)
(***************************************************************************)

(* Nothing to provision: an empty Set, and no child. *)
NoSpecs == /\ pc = "init"
           /\ count = 0
           /\ pc' = "ok"
           /\ UNCHANGED <<psock, tab, out, bad, pod, clean, childVars, kernelVars>>

Socketpair == /\ pc = "init"
              /\ count > 0
              /\ pc' = "spawn"
              /\ psock' = TRUE
              /\ wends' = {"parent"}
              /\ UNCHANGED <<tab, out, bad, pod, clean, childVars, count, queue, pin>>

SocketpairFails == /\ pc = "init"
                   /\ count > 0
                   /\ pc' = "err"
                   /\ UNCHANGED <<psock, tab, out, bad, pod, clean, childVars, kernelVars>>

(* cmd.Start: the wrapper inherits the child's end as descriptor 3. *)
Start == /\ pc = "spawn"
         /\ pc' = "handoff"
         /\ pod' = "run"
         /\ wends' = wends \union {"podman"}
         /\ UNCHANGED <<psock, tab, out, bad, clean, childVars, count, queue, pin>>

StartFails == /\ pc = "spawn"
              /\ pc' = "err"
              /\ psock' = FALSE
              /\ wends' = wends \ {"parent"}
              /\ UNCHANGED <<tab, out, bad, pod, clean, childVars, count, queue, pin>>

(* Variant: the parent keeps its copy of the child's end. *)
Handoff_KeepsEnd == /\ pc = "handoff"
                    /\ pc' = "recv"
                    /\ UNCHANGED <<psock, tab, out, bad, pod, clean, childVars, kernelVars>>

(* childFile.Close: without it the parent itself would hold off its EOF. *)
Handoff == /\ pc = "handoff"
           /\ pc' = "recv"
           /\ wends' = wends \ {"parent"}
           /\ UNCHANGED <<psock, tab, out, bad, pod, clean, childVars, count, queue, pin>>

(* One turn of recvFDs' loop: the kernel installs a descriptor, the map
   remembers it under the name in the buffer. *)
Recv == /\ pc = "recv"
        /\ queue # <<>>
        /\ tab' = Append(tab, Head(queue).ns)
        /\ out' = [out EXCEPT ![Head(queue).name] = Len(tab) + 1]
        /\ queue' = Tail(queue)
        /\ UNCHANGED <<pc, psock, bad, pod, clean, childVars, count, wends, pin>>

(* The message arrives but its descriptor cannot be installed (the parent's
   descriptor table is full), or its control message does not parse. *)
RecvNoFd == /\ pc = "recv"
            /\ queue # <<>>
            /\ queue' = Tail(queue)
            /\ bad' = TRUE
            /\ pc' = "close"
            /\ UNCHANGED <<psock, tab, out, pod, clean, childVars, count, wends, pin>>

(* n = 0: every holder of the other end is gone. *)
RecvEOF == /\ pc = "recv"
           /\ queue = <<>>
           /\ wends = {}
           /\ pc' = "close"
           /\ UNCHANGED <<psock, tab, out, bad, pod, clean, childVars, kernelVars>>

(* Variant: parentSock stays open while the parent waits. *)
CloseSock_StaysOpen == /\ pc = "close"
                       /\ pc' = "wait"
                       /\ UNCHANGED <<psock, tab, out, bad, pod, clean, childVars, kernelVars>>

(* unix.Close(parentSock): what was never received dies with the socket. *)
CloseSock == /\ pc = "close"
             /\ pc' = "wait"
             /\ psock' = FALSE
             /\ queue' = <<>>
             /\ UNCHANGED <<tab, out, bad, pod, clean, childVars, count, wends, pin>>

(* Variant: after a receive error the child is not waited for. *)
Wait_SkippedOnError == /\ pc = "wait"
                       /\ pod = "done" \/ bad
                       /\ pc' = "check"
                       /\ bad' = (bad \/ ~clean)
                       /\ UNCHANGED <<psock, tab, out, pod, clean, childVars, kernelVars>>

Wait == /\ pc = "wait"
        /\ pod = "done"
        /\ pc' = "check"
        /\ bad' = (bad \/ ~clean)
        /\ UNCHANGED <<psock, tab, out, pod, clean, childVars, kernelVars>>

AllNamed == \A k \in 1..count : out[SpecName[k]] # 0

(* closeAll: every descriptor the map still knows. *)
CloseAll == [i \in 1..Len(tab) |->
               IF \E w \in Names : out[w] = i THEN NoNs ELSE tab[i]]

(* Variant: a failure forgets to close what arrived. *)
Check_NoCloseAll == /\ pc = "check"
                    /\ pc' = IF bad \/ ~AllNamed THEN "err" ELSE "ok"
                    /\ UNCHANGED <<psock, tab, out, bad, pod, clean, childVars, kernelVars>>

(* Variant: the child's exit status is trusted for completeness. *)
Check_NamesTrusted == /\ pc = "check"
                      /\ IF bad
                         THEN pc' = "err" /\ tab' = CloseAll
                         ELSE pc' = "ok" /\ tab' = tab
                      /\ UNCHANGED <<psock, out, bad, pod, clean, childVars, kernelVars>>

Check == /\ pc = "check"
         /\ IF bad \/ ~AllNamed
            THEN pc' = "err" /\ tab' = CloseAll
            ELSE pc' = "ok" /\ tab' = tab
         /\ UNCHANGED <<psock, out, bad, pod, clean, childVars, kernelVars>>

(* The turnip process is killed before Bootstrap returns. *)
ParentDies == /\ pc \notin Returned \union {"dead"}
              /\ pc' = "dead"
              /\ psock' = FALSE
              /\ queue' = <<>>
              /\ wends' = wends \ {"parent"}
              /\ tab' = [i \in 1..Len(tab) |-> NoNs]
              /\ UNCHANGED <<out, bad, pod, clean, childVars, count, pin>>

------------------------------------------------------------------------------
(***************************************************************************)
(* The `podman unshare` wrapper (external): it enters the owner's user and *)
(* mount namespaces, runs the child, and exits with the child's status.    *)
(***************************************************************************)
PodmanSpawns == /\ pod = "run"
                /\ cpc = "none"
                /\ cpc' = "begin"
                /\ wends' = wends \union {"child"}
                /\ UNCHANGED <<parentVars, pod, clean, idx, locked, thr, tns, cfd,
                               count, queue, pin>>

PodmanExits == /\ pod = "run"
               /\ cpc = "exited"
               /\ pod' = "done"
               /\ wends' = wends \ {"podman"}
               /\ UNCHANGED <<parentVars, clean, childVars, count, queue, pin>>

(* It fails before the child exists, or is killed and leaves it an orphan. *)
PodmanDies == /\ pod = "run"
              /\ pod' = "done"
              /\ clean' = FALSE
              /\ wends' = wends \ {"podman"}
              /\ UNCHANGED <<parentVars, childVars, count, queue, pin>>

------------------------------------------------------------------------------
(***************************************************************************)
(* The child: Provision over the Specs.                                    *)
(***************************************************************************)
Alive == cpc \notin {"none", "exited"}

(* Go moves a goroutine between threads whenever it is not locked to one. *)
Migrate == /\ Alive
           /\ ~locked
           /\ thr' = Other(thr)
           /\ UNCHANGED <<parentVars, pod, clean, cpc, idx, locked, tns, cfd, kernelVars>>

(* Variant: no LockOSThread. *)
Lock_Forgotten == /\ cpc = "begin"
                  /\ cpc' = "detach"
                  /\ UNCHANGED <<parentVars, pod, clean, idx, locked, thr, tns, cfd,
                                 kernelVars>>

Lock == /\ cpc = "begin"
        /\ locked' = TRUE
        /\ cpc' = "detach"
        /\ UNCHANGED <<parentVars, pod, clean, idx, thr, tns, cfd, kernelVars>>

(* pinNetns, first half: drop the prior pin, leave an empty mount target. *)
Detach == /\ cpc = "detach"
          /\ pin' = [pin EXCEPT ![idx] = NoNs]
          /\ cpc' = "unshare"
          /\ UNCHANGED <<parentVars, pod, clean, idx, locked, thr, tns, cfd,
                         count, queue, wends>>

Unshare == /\ cpc = "unshare"
           /\ tns' = [tns EXCEPT ![thr] = Fresh(idx)]
           /\ cpc' = "mount"
           /\ UNCHANGED <<parentVars, pod, clean, idx, locked, thr, cfd, kernelVars>>

Mount == /\ cpc = "mount"
         /\ pin' = [pin EXCEPT ![idx] = tns[thr]]
         /\ cpc' = "open"
         /\ UNCHANGED <<parentVars, pod, clean, idx, locked, thr, tns, cfd,
                        count, queue, wends>>

(* Variant: /proc/self, the main thread, in place of /proc/thread-self. *)
Open_MainThread == /\ cpc = "open"
                   /\ cfd' = tns[1]
                   /\ cpc' = "send"
                   /\ UNCHANGED <<parentVars, pod, clean, idx, locked, thr, tns, kernelVars>>

(* Variant: the error of Open is ignored. *)
Open_ErrorIgnored == /\ cpc = "open"
                     /\ cfd' \in {tns[thr], NoNs}
                     /\ cpc' = "send"
                     /\ UNCHANGED <<parentVars, pod, clean, idx, locked, thr, tns, kernelVars>>

Open == /\ cpc = "open"
        /\ cfd' = tns[thr]
        /\ cpc' = "send"
        /\ UNCHANGED <<parentVars, pod, clean, idx, locked, thr, tns, kernelVars>>

(* Variant: the error of sendmsg is ignored. *)
Send_ErrorIgnored ==
  /\ cpc = "send"
  /\ psock => Len(queue) < Cap
  /\ queue' = IF psock THEN Append(queue, [name |-> Wire[SpecName[idx]], ns |-> cfd])
              ELSE queue
  /\ cfd' = NoNs
  /\ IF idx = count
     THEN cpc' = "return" /\ idx' = idx
     ELSE cpc' = "detach" /\ idx' = idx + 1
  /\ UNCHANGED <<parentVars, pod, clean, locked, thr, tns, count, wends, pin>>

(* sendFD blocks while the queue is full; the child then closes its copy. *)
Send == /\ cpc = "send"
        /\ psock
        /\ Len(queue) < Cap
        /\ queue' = Append(queue, [name |-> Wire[SpecName[idx]], ns |-> cfd])
        /\ cfd' = NoNs
        /\ IF idx = count
           THEN cpc' = "return" /\ idx' = idx
           ELSE cpc' = "detach" /\ idx' = idx + 1
        /\ UNCHANGED <<parentVars, pod, clean, locked, thr, tns, count, wends, pin>>

(* Leaving the process drops every descriptor it holds. *)
Exit(status) == /\ cpc' = "exited"
                /\ clean' = (clean /\ status)
                /\ wends' = wends \ {"child"}
                /\ cfd' = NoNs
                /\ UNCHANGED <<parentVars, pod, idx, locked, thr, tns, count, queue, pin>>

Return == cpc = "return" /\ Exit(TRUE)

(* The parent's end is closed: sendmsg fails with EPIPE. *)
SendBroken == cpc = "send" /\ ~psock /\ Exit(FALSE)

(* Any system call of the child fails, or the child is killed. *)
ChildDies == Alive /\ Exit(FALSE)

------------------------------------------------------------------------------
Parent == \/ NoSpecs \/ Socketpair \/ SocketpairFails \/ Start \/ StartFails
          \/ Handoff \/ Recv \/ RecvNoFd \/ RecvEOF \/ CloseSock \/ Wait
          \/ Check \/ ParentDies

Podman == PodmanSpawns \/ PodmanExits \/ PodmanDies

Child == \/ Migrate \/ Lock \/ Detach \/ Unshare \/ Mount \/ Open \/ Send
         \/ Return \/ SendBroken \/ ChildDies

Next == Parent \/ Podman \/ Child

(* Every process that can move does, and none is obliged to fail. *)
Fairness ==
  /\ WF_vars(NoSpecs \/ Socketpair \/ Start \/ Handoff \/ CloseSock \/ Wait \/ Check)
  /\ WF_vars(Recv \/ RecvEOF)
  /\ WF_vars(PodmanSpawns \/ PodmanExits)
  /\ WF_vars(Lock \/ Detach \/ Unshare \/ Mount \/ Open \/ Send \/ Return \/ SendBroken)

Spec == Init /\ [][Next]_vars /\ Fairness

------------------------------------------------------------------------------
(***************************************************************************)
(* Properties.                                                             *)
(***************************************************************************)
TypeOK ==
  /\ pc \in {"init", "spawn", "handoff", "dead"} \union Working \union Returned
  /\ psock \in BOOLEAN
  /\ tab \in Seq(-N..(N + 1))
  /\ out \in [Names -> 0..N]
  /\ bad \in BOOLEAN
  /\ pod \in {"none", "run", "done"}
  /\ clean \in BOOLEAN
  /\ cpc \in {"none", "begin", "detach", "unshare", "mount", "open", "send",
              "return", "exited"}
  /\ idx \in 1..(N + 1)
  /\ locked \in BOOLEAN
  /\ thr \in Threads
  /\ tns \in [Threads -> NsId]
  /\ cfd \in -N..(N + 1)
  /\ count \in 0..N
  /\ queue \in Seq(Msg)
  /\ wends \subseteq {"parent", "podman", "child"}
  /\ pin \in [1..N -> -N..(N + 1)]

(* A Set that Bootstrap returns has exactly the names it was asked for, each
   descriptor open on the namespace pinned at that name's path, and no two
   names share one: whatever was killed, cut short or sent to a full socket
   on the way (netns.go:135-189, "so name<->fd can't misalign"). *)
Delivered ==
  pc = "ok" =>
    /\ {w \in Names : out[w] # 0} = {SpecName[k] : k \in 1..count}
    /\ \A k \in 1..count : /\ out[SpecName[k]] \in 1..Len(tab)
                           /\ tab[out[SpecName[k]]] = Fresh(k)
                           /\ pin[k] = Fresh(k)

(* A Bootstrap that fails leaves the caller nothing to close: neither end of
   the socketpair, nor any descriptor that arrived before the failure.  The
   map is all closeAll knows, so this needs names the buffer does not cut to
   the same prefix (netns.go:174-186). *)
NoLeak ==
  pc = "err" /\ (\A j, k \in 1..count : Wire[SpecName[j]] = Wire[SpecName[k]] => j = k)
    => /\ ~psock
       /\ "parent" \notin wends
       /\ \A i \in 1..Len(tab) : tab[i] = NoNs

(* Bootstrap never answers before it has reaped the wrapper: also on the path
   where receiving failed half way, and however the wrapper ended
   (netns.go:171-181). *)
Reaped == pc \in Returned => pod # "run"

(* Closing the socket stops the child: from then on it may finish the Spec it
   is at, but never reaches the next one (netns.go:172, :279-283). *)
StopsWhenAbandoned == [][~psock /\ Alive => idx' = idx]_vars

(* Bootstrap answers, or its process is killed: neither the receive loop nor
   Wait blocks for ever, full socket or dead child (netns.go:169-173). *)
Returns == <>(pc \in Returned \union {"dead"})

(* No provisioner and no wrapper outlives the call for ever, not even when the
   parent was killed in the middle of it (netns.go:262-266). *)
ChildEnds == <>[](~Alive /\ pod # "run")

------------------------------------------------------------------------------
(* The abstract promise, and how this protocol keeps it. *)
Verdict == CASE pc = "ok"            -> "ok"
             [] pc \in {"err","dead"} -> "err"
             [] OTHER                -> "running"

Handles == IF pc = "ok"
           THEN [w \in {x \in Names : out[x] # 0} |-> tab[out[w]]]
           ELSE [w \in {} |-> NoNs]

Promise == INSTANCE Provision WITH verdict <- Verdict, handles <- Handles

(* Bootstrap implements Provision: the paths are re-pinned in order, one at a
   time, and the answer is all handles or none (netns.go:262-312). *)
KeepsPromise == Promise!Spec
==============================================================================

--------------------------- MODULE BootstrapProofs ---------------------------
(***************************************************************************)
(* Theorems of Bootstrap, for any number of Specs, any names, any buffer   *)
(* size and any socket capacity.                                           *)
(*                                                                         *)
(* Delivered is not inductive.  What makes it true is that, as long as the *)
(* parent receives, the i-th message ever sent is about the i-th Spec: the *)
(* child sends one per turn of its loop and the socket keeps order.  IInv  *)
(* says so in four parts: where the child is in its loop (ChildInv), what  *)
(* is in flight (FlightInv), what has arrived (ArrivedInv), and who holds  *)
(* which end of what (HoldInv).                                            *)
(***************************************************************************)
EXTENDS Bootstrap, TLAPS

Early == {"init", "spawn", "handoff", "recv"}

(* Messages that left the child and are not lost. *)
Sent == Len(tab) + Len(queue)

ChildInv ==
  /\ pod # "none" => count > 0
  /\ cpc # "none" => pod # "none"
  /\ Alive => /\ idx \in 1..count
             /\ \A k \in 1..(idx - 1) : pin[k] = Fresh(k)
  /\ cpc = "none" => idx = 1
  /\ Alive /\ cpc # "begin" => locked
  /\ cpc \in {"mount", "open", "send"} => tns[thr] = Fresh(idx)
  /\ cpc \in {"open", "send"} => pin[idx] = Fresh(idx)
  /\ cpc = "send" => cfd = Fresh(idx)

FlightInv ==
  /\ Sent <= count
  /\ cpc = "none" => Sent = 0
  /\ Alive /\ cpc # "return" => Sent < idx
  /\ cpc = "return" => idx = count
  /\ pc \in Early =>
       /\ Alive => Sent = IF cpc = "return" THEN idx ELSE idx - 1
       /\ \A i \in 1..Len(queue) :
            queue[i] = [name |-> Wire[SpecName[Len(tab) + i]], ns |-> Fresh(Len(tab) + i)]

ArrivedInv ==
  /\ \A k \in 1..Sent : pin[k] = Fresh(k)
  /\ pc \notin {"err", "dead"} => \A i \in 1..Len(tab) : tab[i] = Fresh(i)
  /\ \A w \in Names : /\ out[w] \in 0..Len(tab)
                      /\ out[w] # 0 => Wire[SpecName[out[w]]] = w
  /\ (\A j, k \in 1..count : Wire[SpecName[j]] = Wire[SpecName[k]] => j = k)
       => \A i \in 1..Len(tab) : out[Wire[SpecName[i]]] = i
  /\ pc = "ok" => AllNamed

HoldInv ==
  /\ pc \in {"init", "spawn", "handoff"} => Len(tab) = 0
  /\ pc \in {"init", "spawn"} => pod = "none"
  /\ pc = "check" => pod = "done"
  /\ pc \in Returned => pod # "run"
  /\ psock => pc \in {"spawn", "handoff", "recv", "close"}
  /\ "parent" \in wends => pc \in {"spawn", "handoff"}
  /\ pc \notin {"init", "ok", "err", "dead"} => count > 0

IInv == TypeOK /\ ChildInv /\ FlightInv /\ ArrivedInv /\ HoldInv /\ NoLeak

------------------------------------------------------------------------------
(* The initial states satisfy the invariant. *)
LEMMA InitInv == Init => IInv
<1> SUFFICES ASSUME Init PROVE IInv
  OBVIOUS
<1> USE DEF Init
<1>1. TypeOK
  <2>1. tns \in [Threads -> NsId]
    BY SpecAssumption DEF HostNs, NsId
  <2>2. thr \in Threads
    BY DEF Threads
  <2>3. tab \in Seq(-N..(N + 1)) /\ queue \in Seq(Msg)
    OBVIOUS
  <2>4. out \in [Names -> 0..N]
    BY SpecAssumption
  <2>5. cfd \in -N..(N + 1) /\ idx \in 1..(N + 1) /\ wends \subseteq {"parent", "podman", "child"}
    BY SpecAssumption DEF NoNs
  <2> QED BY <2>1, <2>2, <2>3, <2>4, <2>5 DEF TypeOK
<1>2. ChildInv /\ FlightInv /\ ArrivedInv /\ HoldInv /\ NoLeak
  BY SpecAssumption DEF ChildInv, FlightInv, ArrivedInv, HoldInv, NoLeak, Alive, Early, Sent,
         Returned, NoNs, AllNamed
<1> QED BY <1>1, <1>2 DEF IInv

(* Every step keeps the types. *)
LEMMA TypeNext == IInv /\ [Next]_vars => TypeOK'
<1> SUFFICES ASSUME IInv, [Next]_vars PROVE TypeOK'
  OBVIOUS
<1>0. N \in Nat
  BY SpecAssumption
<1> USE <1>0 DEF IInv, TypeOK, parentVars, childVars, kernelVars, Working, Returned
<1>1. CASE \/ NoSpecs \/ Socketpair \/ SocketpairFails \/ Start \/ StartFails
           \/ Handoff \/ RecvEOF \/ Wait
  <2>1. CASE NoSpecs
    BY <2>1 DEF NoSpecs
  <2>2. CASE Socketpair
    BY <2>2 DEF Socketpair
  <2>3. CASE SocketpairFails
    BY <2>3 DEF SocketpairFails
  <2>4. CASE Start
    BY <2>4 DEF Start
  <2>5. CASE StartFails
    BY <2>5 DEF StartFails
  <2>6. CASE Handoff
    BY <2>6 DEF Handoff
  <2>7. CASE RecvEOF
    BY <2>7 DEF RecvEOF
  <2>8. CASE Wait
    BY <2>8 DEF Wait
  <2> QED BY <1>1, <2>1, <2>2, <2>3, <2>4, <2>5, <2>6, <2>7, <2>8
<1>2. CASE Recv
  <2>1. Len(tab) + 1 \in 1..N
    BY <1>2 DEF Recv, FlightInv, Sent
  <2>2. Head(queue) \in Msg /\ Tail(queue) \in Seq(Msg)
    BY <1>2 DEF Recv
  <2>3. Head(queue).ns \in -N..(N + 1)
    BY <2>2 DEF Msg, NsId
  <2>4. tab' \in Seq(-N..(N + 1))
    BY <1>2, <2>3 DEF Recv
  <2>5. out' \in [Names -> 0..N]
    <3>1. out \in [Names -> 0..N] /\ Len(tab) + 1 \in 0..N
      BY <2>1
    <3>2. out' = [out EXCEPT ![Head(queue).name] = Len(tab) + 1]
      BY <1>2 DEF Recv
    <3> HIDE DEF IInv, TypeOK
    <3> QED BY <3>1, <3>2
  <2> QED BY <1>2, <2>2, <2>4, <2>5 DEF Recv
<1>3. CASE RecvNoFd
  <2>1. queue' \in Seq(Msg)
    BY <1>3 DEF RecvNoFd
  <2> QED BY <1>3, <2>1 DEF RecvNoFd
<1>4. CASE CloseSock
  <2>1. queue' \in Seq(Msg)
    BY <1>4 DEF CloseSock
  <2> QED BY <1>4, <2>1 DEF CloseSock
<1>5. CASE Check
  <2>1. CloseAll \in Seq(-N..(N + 1))
    <3>1. \A i \in 1..Len(tab) :
             (IF \E w \in Names : out[w] = i THEN NoNs ELSE tab[i]) \in -N..(N + 1)
      BY DEF NoNs
    <3> QED BY <3>1 DEF CloseAll
  <2>2. tab' \in Seq(-N..(N + 1)) /\ pc' \in {"ok", "err"}
    BY <1>5, <2>1 DEF Check
  <2> QED BY <1>5, <2>2 DEF Check
<1>6. CASE ParentDies
  <2>1. tab' \in Seq(-N..(N + 1))
    <3>1. NoNs \in -N..(N + 1)
      BY DEF NoNs
    <3> QED BY <1>6, <3>1 DEF ParentDies
  <2>2. queue' \in Seq(Msg)
    BY <1>6 DEF ParentDies
  <2> QED BY <1>6, <2>1, <2>2 DEF ParentDies
<1>7. CASE PodmanSpawns \/ PodmanExits \/ PodmanDies
  <2>1. CASE PodmanSpawns
    BY <2>1 DEF PodmanSpawns
  <2>2. CASE PodmanExits
    BY <2>2 DEF PodmanExits
  <2>3. CASE PodmanDies
    BY <2>3 DEF PodmanDies
  <2> QED BY <1>7, <2>1, <2>2, <2>3
<1>8. CASE Migrate
  <2>1. thr' \in Threads
    BY <1>8 DEF Migrate, Other, Threads
  <2> QED BY <1>8, <2>1 DEF Migrate
<1>9. CASE Lock \/ Open
  <2>1. cfd' \in -N..(N + 1)
    BY <1>9 DEF Lock, Open, NsId
  <2> QED BY <1>9, <2>1 DEF Lock, Open
<1>10. CASE Detach \/ Mount
  <2>1. pin' \in [1..N -> -N..(N + 1)]
    BY <1>10 DEF Detach, Mount, NoNs, NsId
  <2> QED BY <1>10, <2>1 DEF Detach, Mount
<1>11. CASE Unshare
  <2>1. Fresh(idx) \in NsId
    BY <1>11 DEF Unshare, ChildInv, Alive, Fresh, NsId
  <2>2. tns' \in [Threads -> NsId]
    BY <1>11, <2>1 DEF Unshare
  <2> QED BY <1>11, <2>2 DEF Unshare
<1>12. CASE Send
  <2>1. idx \in 1..count /\ cfd = Fresh(idx)
    BY <1>12 DEF Send, ChildInv, Alive
  <2>2. [name |-> Wire[SpecName[idx]], ns |-> cfd] \in Msg
    BY <2>1, SpecAssumption, WireAssumption DEF Msg, NsId, Fresh
  <2>3. queue' \in Seq(Msg)
    BY <1>12, <2>2 DEF Send
  <2>4. idx' \in 1..(N + 1) /\ cpc' \in {"return", "detach"} /\ cfd' \in -N..(N + 1)
    BY <1>12, <2>1 DEF Send, NoNs
  <2> QED BY <1>12, <2>3, <2>4 DEF Send
<1>13. CASE Return \/ SendBroken \/ ChildDies
  <2>1. CASE Return
    BY <2>1 DEF Return, Exit, NoNs
  <2>2. CASE SendBroken
    BY <2>2 DEF SendBroken, Exit, NoNs
  <2>3. CASE ChildDies
    BY <2>3 DEF ChildDies, Exit, NoNs
  <2> QED BY <1>13, <2>1, <2>2, <2>3
<1>14. CASE UNCHANGED vars
  BY <1>14 DEF vars
<1> QED BY <1>1, <1>2, <1>3, <1>4, <1>5, <1>6, <1>7, <1>8, <1>9, <1>10, <1>11, <1>12,
           <1>13, <1>14 DEF Next, Parent, Podman, Child

(* The child's place in its loop. *)
LEMMA ChildNext == IInv /\ [Next]_vars => ChildInv'
<1> SUFFICES ASSUME IInv, [Next]_vars PROVE ChildInv'
  OBVIOUS
<1> USE SpecAssumption DEF IInv, TypeOK, ChildInv, HoldInv, Alive, Fresh,
        parentVars, childVars, kernelVars
<1>1. CASE NoSpecs \/ Socketpair \/ SocketpairFails \/ Start \/ StartFails
  BY <1>1 DEF NoSpecs, Socketpair, SocketpairFails, Start, StartFails
<1>2. CASE \/ Handoff \/ Recv \/ RecvNoFd \/ RecvEOF \/ CloseSock \/ Wait \/ Check
           \/ ParentDies
  BY <1>2 DEF Handoff, Recv, RecvNoFd, RecvEOF, CloseSock, Wait, Check, ParentDies
<1>3. CASE PodmanSpawns \/ PodmanExits \/ PodmanDies
  <2>1. CASE PodmanSpawns
    BY <2>1 DEF PodmanSpawns
  <2>2. CASE PodmanExits \/ PodmanDies
    BY <2>2 DEF PodmanExits, PodmanDies
  <2> QED BY <1>3, <2>1, <2>2
<1>4. CASE Migrate \/ Lock
  BY <1>4 DEF Migrate, Lock
<1>5. CASE Detach
  <2>1. \A k \in 1..(idx - 1) : pin'[k] = pin[k]
    BY <1>5 DEF Detach
  <2> QED BY <1>5, <2>1 DEF Detach
<1>6. CASE Unshare
  BY <1>6 DEF Unshare
<1>7. CASE Mount
  BY <1>7 DEF Mount
<1>8. CASE Open
  BY <1>8 DEF Open
<1>9. CASE Send
  <2>1. /\ idx \in 1..count /\ pin[idx] = idx /\ pin' = pin
        /\ \A k \in 1..(idx - 1) : pin[k] = k
    BY <1>9 DEF Send
  <2>2. IF idx = count THEN idx' = idx ELSE idx' = idx + 1
    BY <1>9 DEF Send
  <2>3. idx' \in 1..count /\ \A k \in 1..(idx' - 1) : pin'[k] = k
    <3>1. count \in Nat
      OBVIOUS
    <3> HIDE DEF TypeOK, ChildInv, HoldInv
    <3> QED BY <2>1, <2>2, <3>1
  <2>4. cpc' \in {"return", "detach"} /\ count' = count /\ locked' = locked /\ pod' = pod
    BY <1>9 DEF Send
  <2>5. locked /\ pod # "none" /\ count > 0
    BY <1>9 DEF Send
  <2> HIDE DEF TypeOK, HoldInv
  <2> QED BY <2>3, <2>4, <2>5
<1>10. CASE Return \/ SendBroken \/ ChildDies
  BY <1>10 DEF Return, SendBroken, ChildDies, Exit
<1>11. CASE UNCHANGED vars
  BY <1>11 DEF vars
<1> QED BY <1>1, <1>2, <1>3, <1>4, <1>5, <1>6, <1>7, <1>8, <1>9, <1>10, <1>11
        DEF Next, Parent, Podman, Child

(* Who holds which end of what. *)
LEMMA HoldNext == IInv /\ [Next]_vars => HoldInv'
<1> SUFFICES ASSUME IInv, [Next]_vars PROVE HoldInv'
  OBVIOUS
<1> USE DEF IInv, HoldInv, Returned, parentVars, childVars, kernelVars
<1>1. CASE NoSpecs \/ Socketpair \/ SocketpairFails \/ Start \/ StartFails \/ Handoff
  BY <1>1 DEF TypeOK, NoSpecs, Socketpair, SocketpairFails, Start, StartFails, Handoff
<1>2. CASE Recv \/ RecvNoFd \/ RecvEOF \/ CloseSock \/ Wait \/ Check \/ ParentDies
  BY <1>2 DEF Recv, RecvNoFd, RecvEOF, CloseSock, Wait, Check, ParentDies
<1>3. CASE PodmanSpawns \/ PodmanExits \/ PodmanDies
  BY <1>3 DEF PodmanSpawns, PodmanExits, PodmanDies
<1>4. CASE Child
  BY <1>4 DEF Child, Migrate, Lock, Detach, Unshare, Mount, Open, Send, Return,
         SendBroken, ChildDies, Exit
<1>5. CASE UNCHANGED vars
  BY <1>5 DEF vars
<1> QED BY <1>1, <1>2, <1>3, <1>4, <1>5 DEF Next, Parent, Podman

(* The i-th message is about the i-th Spec. *)
LEMMA FlightNext == IInv /\ [Next]_vars => FlightInv'
<1> SUFFICES ASSUME IInv, [Next]_vars PROVE FlightInv'
  OBVIOUS
<1> USE DEF IInv, TypeOK, FlightInv, Alive, Early, Sent, parentVars, childVars, kernelVars
<1>1. CASE NoSpecs \/ Socketpair \/ SocketpairFails \/ Start \/ StartFails
  BY <1>1 DEF NoSpecs, Socketpair, SocketpairFails, Start, StartFails
<1>2. CASE Handoff \/ RecvEOF \/ Wait
  BY <1>2 DEF Handoff, RecvEOF, Wait
<1>3. CASE Recv
  <2>1. Len(tab') = Len(tab) + 1 /\ Len(queue') = Len(queue) - 1
    BY <1>3 DEF Recv
  <2>2. \A i \in 1..Len(queue') : queue'[i] = queue[i + 1]
    BY <1>3 DEF Recv
  <2>3. \A i \in 1..Len(queue') :
           queue'[i] = [name |-> Wire[SpecName[Len(tab') + i]], ns |-> Fresh(Len(tab') + i)]
    BY <1>3, <2>1, <2>2 DEF Recv
  <2>4. Sent' = Sent
    BY <1>3, <2>1
  <2>5. UNCHANGED <<pc, cpc, idx, count>>
    BY <1>3 DEF Recv
  <2> HIDE DEF TypeOK, Sent
  <2> QED BY <2>3, <2>4, <2>5
<1>4. CASE RecvNoFd
  <2>1. Len(queue') = Len(queue) - 1
    BY <1>4 DEF RecvNoFd
  <2> QED BY <1>4, <2>1 DEF RecvNoFd, HoldInv, ChildInv
<1>5. CASE CloseSock
  <2>1. Len(queue') = 0 /\ Len(queue) >= 0
    BY <1>5 DEF CloseSock
  <2> QED BY <1>5, <2>1 DEF CloseSock
<1>6. CASE Check
  <2>1. Len(tab') = Len(tab)
    BY <1>6 DEF Check, CloseAll
  <2> QED BY <1>6, <2>1 DEF Check
<1>7. CASE ParentDies
  <2>1. Len(tab') = Len(tab) /\ Len(queue') = 0 /\ Len(queue) >= 0
    BY <1>7 DEF ParentDies
  <2> QED BY <1>7, <2>1 DEF ParentDies
<1>8. CASE PodmanSpawns \/ PodmanExits \/ PodmanDies
  <2>1. CASE PodmanSpawns
    <3>1. Sent = 0 /\ idx = 1 /\ cpc' = "begin" /\ count > 0
      BY <2>1 DEF PodmanSpawns, ChildInv
    <3> QED BY <2>1, <3>1 DEF PodmanSpawns
  <2>2. CASE PodmanExits \/ PodmanDies
    BY <2>2 DEF PodmanExits, PodmanDies
  <2> QED BY <1>8, <2>1, <2>2
<1>9. CASE Migrate \/ Lock \/ Detach \/ Unshare \/ Mount \/ Open
  BY <1>9 DEF Migrate, Lock, Detach, Unshare, Mount, Open
<1>10. CASE Send
  <2>1. Len(queue') = Len(queue) + 1 /\ tab' = tab /\ pc' = pc /\ count' = count
    BY <1>10 DEF Send
  <2>2. Sent < idx /\ idx \in 1..count /\ cfd = Fresh(idx)
    BY <1>10 DEF Send, ChildInv
  <2>3. ASSUME pc \in Early
        PROVE  \A i \in 1..Len(queue') :
                 queue'[i] = [name |-> Wire[SpecName[Len(tab) + i]], ns |-> Fresh(Len(tab) + i)]
    <3>1. Len(tab) + (Len(queue) + 1) = idx
      BY <1>10, <2>3 DEF Send
    <3>2. queue'[Len(queue) + 1] = [name |-> Wire[SpecName[idx]], ns |-> Fresh(idx)]
      BY <1>10, <2>2 DEF Send
    <3>3. \A i \in 1..Len(queue) : queue'[i] = queue[i]
      BY <1>10 DEF Send
    <3>4. \A i \in 1..Len(queue) :
             queue[i] = [name |-> Wire[SpecName[Len(tab) + i]], ns |-> Fresh(Len(tab) + i)]
      BY <2>3
    <3>5. Len(queue) \in Nat
      OBVIOUS
    <3>6. SUFFICES ASSUME NEW i \in 1..(Len(queue) + 1)
                   PROVE  queue'[i] = [name |-> Wire[SpecName[Len(tab) + i]],
                                       ns |-> Fresh(Len(tab) + i)]
      BY <2>1
    <3>7. CASE i \in 1..Len(queue)
      BY <3>3, <3>4, <3>7
    <3>8. CASE i = Len(queue) + 1
      BY <3>1, <3>2, <3>8
    <3> QED BY <3>5, <3>6, <3>7, <3>8
  <2>4. Sent' = Sent + 1
    BY <2>1
  <2>5. IF idx = count THEN cpc' = "return" /\ idx' = idx ELSE cpc' = "detach" /\ idx' = idx + 1
    BY <1>10 DEF Send
  <2>6. pc \in Early => Sent = idx - 1
    BY <1>10 DEF Send
  <2>7. Sent \in Nat /\ count \in Nat
    OBVIOUS
  <2>8. pc \in Early' => pc \in Early
    OBVIOUS
  <2> HIDE DEF TypeOK, Sent
  <2> QED BY <2>1, <2>2, <2>3, <2>4, <2>5, <2>6, <2>7
<1>11. CASE Return \/ SendBroken \/ ChildDies
  BY <1>11 DEF Return, SendBroken, ChildDies, Exit
<1>12. CASE UNCHANGED vars
  BY <1>12 DEF vars
<1> QED BY <1>1, <1>2, <1>3, <1>4, <1>5, <1>6, <1>7, <1>8, <1>9, <1>10, <1>11, <1>12
        DEF Next, Parent, Podman, Child
(* What has arrived, and under which name. *)
LEMMA ArrivedNext == IInv /\ [Next]_vars => ArrivedInv'
<1> SUFFICES ASSUME IInv, [Next]_vars PROVE ArrivedInv'
  OBVIOUS
<1> USE DEF IInv, TypeOK, ArrivedInv, Alive, Early, Sent, AllNamed,
        parentVars, childVars, kernelVars
<1>1. CASE \/ NoSpecs \/ Socketpair \/ SocketpairFails \/ Start \/ StartFails
           \/ Handoff \/ RecvEOF \/ Wait
  <2>1. CASE NoSpecs
    <3>1. AllNamed'
      BY <2>1 DEF NoSpecs
    <3>2. UNCHANGED <<tab, queue, pin, out, count>> /\ pc = "init"
      BY <2>1 DEF NoSpecs
    <3> HIDE DEF TypeOK, AllNamed
    <3> QED BY <3>1, <3>2
  <2>2. CASE Socketpair
    BY <2>2 DEF Socketpair
  <2>3. CASE SocketpairFails
    BY <2>3 DEF SocketpairFails
  <2>4. CASE Start
    BY <2>4 DEF Start
  <2>5. CASE StartFails
    BY <2>5 DEF StartFails
  <2>6. CASE Handoff
    BY <2>6 DEF Handoff
  <2>7. CASE RecvEOF
    BY <2>7 DEF RecvEOF
  <2>8. CASE Wait
    BY <2>8 DEF Wait
  <2> QED BY <1>1, <2>1, <2>2, <2>3, <2>4, <2>5, <2>6, <2>7, <2>8
<1>2. CASE Recv
  <2>1. Len(tab') = Len(tab) + 1 /\ Sent' = Sent /\ UNCHANGED <<pc, count, pin>>
    BY <1>2 DEF Recv
  <2>2. Head(queue) = [name |-> Wire[SpecName[Len(tab) + 1]], ns |-> Fresh(Len(tab) + 1)]
    <3>1. Head(queue) = queue[1] /\ 1 \in 1..Len(queue) /\ pc \in Early
      BY <1>2 DEF Recv
    <3> QED BY <3>1 DEF FlightInv
  <2>3. /\ tab' = Append(tab, Fresh(Len(tab) + 1))
        /\ out' = [out EXCEPT ![Wire[SpecName[Len(tab) + 1]]] = Len(tab) + 1]
    <3>1. /\ tab' = Append(tab, Head(queue).ns)
          /\ out' = [out EXCEPT ![Head(queue).name] = Len(tab) + 1]
      BY <1>2 DEF Recv
    <3>2. /\ Head(queue).ns = Fresh(Len(tab) + 1)
          /\ Head(queue).name = Wire[SpecName[Len(tab) + 1]]
      BY <2>2
    <3> QED BY <3>1, <3>2
  <2>4. Len(tab) + 1 \in 1..count /\ count \in 0..N
    BY <1>2 DEF Recv, FlightInv
  <2>5. \A i \in 1..Len(tab') : tab'[i] = Fresh(i)
    BY <1>2, <2>1, <2>3 DEF Recv
  <2>6. \A w \in Names : /\ out'[w] \in 0..Len(tab')
                         /\ out'[w] # 0 => Wire[SpecName[out'[w]]] = w
    BY <2>1, <2>3
  <2>7. ASSUME \A j, k \in 1..count : Wire[SpecName[j]] = Wire[SpecName[k]] => j = k,
               NEW i \in 1..Len(tab')
        PROVE  out'[Wire[SpecName[i]]] = i
    <3>1. i \in 1..count /\ Wire[SpecName[i]] \in Names
      BY <2>1, <2>4, SpecAssumption, WireAssumption
    <3>2. CASE i = Len(tab) + 1
      BY <2>3, <3>1, <3>2
    <3>3. CASE i # Len(tab) + 1
      BY <2>1, <2>3, <2>4, <2>7, <3>1, <3>3
    <3> QED BY <3>2, <3>3
  <2> QED BY <1>2, <2>1, <2>5, <2>6, <2>7 DEF Recv
<1>3. CASE RecvNoFd \/ CloseSock
  <2>1. Len(queue') \in Nat /\ Len(queue') <= Len(queue) /\ UNCHANGED <<tab, pin, out, count>>
    BY <1>3 DEF RecvNoFd, CloseSock
  <2> QED BY <1>3, <2>1 DEF RecvNoFd, CloseSock
<1>4. CASE Check
  <2>1. Len(tab') = Len(tab)
    BY <1>4 DEF Check, CloseAll
  <2> QED BY <1>4, <2>1 DEF Check
<1>5. CASE ParentDies
  <2>1. Len(tab') = Len(tab) /\ Len(queue') = 0 /\ Len(queue) \in Nat
    BY <1>5 DEF ParentDies
  <2> QED BY <1>5, <2>1 DEF ParentDies
<1>6. CASE PodmanSpawns \/ PodmanExits \/ PodmanDies
  BY <1>6 DEF PodmanSpawns, PodmanExits, PodmanDies
<1>7. CASE Migrate \/ Lock \/ Unshare \/ Open
  BY <1>7 DEF Migrate, Lock, Unshare, Open
<1>8. CASE Detach \/ Mount
  <2>1. Sent < idx
    BY <1>8 DEF Detach, Mount, FlightInv
  <2>2. \A k \in 1..Sent : pin'[k] = pin[k]
    <3>1. idx \in 1..(N + 1) /\ Sent \in Nat /\ pin \in [1..N -> -N..(N + 1)]
      OBVIOUS
    <3>2. \E n : pin' = [pin EXCEPT ![idx] = n]
      BY <1>8 DEF Detach, Mount
    <3>3. \A k \in 1..Sent : k # idx /\ k \in 1..N
      <4>1. Sent <= count /\ count \in 0..N
        BY DEF FlightInv
      <4> HIDE DEF Sent
      <4> QED BY <2>1, <3>1, <4>1, SpecAssumption
    <3> HIDE DEF IInv, TypeOK, ArrivedInv, Sent
    <3> QED BY <3>1, <3>2, <3>3
  <2>3. UNCHANGED <<pc, tab, out, count, queue>>
    BY <1>8 DEF Detach, Mount
  <2> QED BY <2>2, <2>3
<1>9. CASE Send
  <2>1. Len(queue') = Len(queue) + 1 /\ UNCHANGED <<pc, tab, out, count, pin>>
    BY <1>9 DEF Send
  <2>2. Sent < idx /\ idx \in 1..count /\ \A k \in 1..idx : pin[k] = Fresh(k)
    BY <1>9 DEF Send, FlightInv, ChildInv
  <2>3. \A k \in 1..Sent' : pin[k] = Fresh(k)
    BY <2>1, <2>2
  <2> QED BY <2>1, <2>3
<1>10. CASE Return \/ SendBroken \/ ChildDies
  BY <1>10 DEF Return, SendBroken, ChildDies, Exit
<1>11. CASE UNCHANGED vars
  BY <1>11 DEF vars
<1> QED BY <1>1, <1>2, <1>3, <1>4, <1>5, <1>6, <1>7, <1>8, <1>9, <1>10, <1>11
        DEF Next, Parent, Podman, Child

(* A failure leaves nothing open. *)
LEMMA NoLeakNext == IInv /\ [Next]_vars => NoLeak'
<1> SUFFICES ASSUME IInv, [Next]_vars PROVE NoLeak'
  OBVIOUS
<1> USE DEF IInv, NoLeak, HoldInv, Returned, parentVars, childVars, kernelVars
<1>1. CASE NoSpecs \/ Socketpair \/ SocketpairFails \/ Start \/ StartFails \/ Handoff
  BY <1>1 DEF TypeOK, NoSpecs, Socketpair, SocketpairFails, Start, StartFails, Handoff
<1>2. CASE Recv \/ RecvNoFd \/ RecvEOF \/ CloseSock \/ Wait \/ ParentDies
  BY <1>2 DEF Recv, RecvNoFd, RecvEOF, CloseSock, Wait, ParentDies
<1>3. CASE Check
  <2>1. UNCHANGED <<psock, wends, count>> /\ ~psock /\ "parent" \notin wends
    BY <1>3 DEF Check, kernelVars
  <2>2. ASSUME pc' = "err",
               \A j, k \in 1..count : Wire[SpecName[j]] = Wire[SpecName[k]] => j = k
        PROVE  \A i \in 1..Len(tab') : tab'[i] = NoNs
    <3>1. tab' = CloseAll
      BY <1>3, <2>2 DEF Check
    <3>2. \A i \in 1..Len(tab) : Wire[SpecName[i]] \in Names /\ out[Wire[SpecName[i]]] = i
      <4>1. \A i \in 1..Len(tab) : i \in 1..N
        <5>1. Len(tab) \in Nat /\ Len(queue) \in Nat /\ Len(tab) + Len(queue) <= count
          BY DEF TypeOK, FlightInv, Sent
        <5>2. count \in 0..N
          BY DEF TypeOK
        <5> HIDE DEF IInv, NoLeak, HoldInv
        <5> QED BY <5>1, <5>2, SpecAssumption
      <4> QED BY <2>2, <4>1, SpecAssumption, WireAssumption DEF ArrivedInv
    <3>3. Len(tab) \in Nat
      BY DEF TypeOK
    <3> QED BY <3>1, <3>2, <3>3 DEF CloseAll
  <2> QED BY <2>1, <2>2
<1>4. CASE Podman
  BY <1>4 DEF Podman, PodmanSpawns, PodmanExits, PodmanDies
<1>5. CASE Child
  BY <1>5 DEF Child, Migrate, Lock, Detach, Unshare, Mount, Open, Send, Return,
         SendBroken, ChildDies, Exit
<1>6. CASE UNCHANGED vars
  BY <1>6 DEF vars
<1> QED BY <1>1, <1>2, <1>3, <1>4, <1>5, <1>6 DEF Next, Parent

(* The inductive invariant holds throughout. *)
LEMMA Invariance == Spec => []IInv
<1>1. IInv /\ [Next]_vars => IInv'
  BY TypeNext, ChildNext, HoldNext, FlightNext, ArrivedNext, NoLeakNext DEF IInv
<1> QED BY InitInv, <1>1, PTL DEF Spec

------------------------------------------------------------------------------
(* Every variable keeps its type: in particular no descriptor is numbered, and
   no Spec reached, beyond those the call was given (netns.go:271, :358-391). *)
THEOREM TypeCorrect == Spec => []TypeOK
<1>1. IInv => TypeOK
  BY DEF IInv
<1> QED BY Invariance, <1>1, PTL

(* Where the parent returns a Set, flight and arrival make it complete. *)
LEMMA DeliveredInv == IInv => Delivered
<1> SUFFICES ASSUME IInv, pc = "ok"
             PROVE  /\ {w \in Names : out[w] # 0} = {SpecName[k] : k \in 1..count}
                    /\ \A k \in 1..count : /\ out[SpecName[k]] \in 1..Len(tab)
                                           /\ tab[out[SpecName[k]]] = Fresh(k)
                                           /\ pin[k] = Fresh(k)
  BY DEF Delivered
<1>1. count \in 0..N /\ Len(tab) \in Nat /\ Len(tab) <= count /\ Len(tab) <= Sent
  BY DEF IInv, TypeOK, FlightInv, Sent
<1>2. \A k \in 1..Len(tab) : pin[k] = Fresh(k) /\ tab[k] = Fresh(k)
  <2>1. \A k \in 1..Sent : pin[k] = Fresh(k)
    BY DEF IInv, ArrivedInv
  <2>2. \A k \in 1..Len(tab) : tab[k] = Fresh(k)
    BY DEF IInv, ArrivedInv
  <2>3. Sent \in Nat
    BY DEF IInv, TypeOK, Sent
  <2> QED BY <1>1, <2>1, <2>2, <2>3
<1>3. \A w \in Names : out[w] \in 0..Len(tab)
  BY DEF IInv, ArrivedInv
<1>4. \A w \in Names : out[w] # 0 => Wire[SpecName[out[w]]] = w
  BY DEF IInv, ArrivedInv
<1>5. \A k \in 1..count : out[SpecName[k]] # 0
  BY DEF IInv, ArrivedInv, AllNamed
<1>6. \A w \in Names : out[w] # 0 => out[w] \in 1..Len(tab) /\ out[w] \in 1..count
  BY <1>1, <1>3
<1>7. \A k \in 1..count : k \in 1..N /\ SpecName[k] \in Names
  BY <1>1, SpecAssumption
(* A name that was received was not cut, so every name was received whole. *)
<1>8. \A k \in 1..count : Wire[SpecName[k]] = SpecName[k]
  <2> SUFFICES ASSUME NEW k \in 1..count PROVE Wire[SpecName[k]] = SpecName[k]
    OBVIOUS
  <2> DEFINE w == SpecName[k]
  <2>1. w \in Names /\ out[w] # 0
    BY <1>5, <1>7
  <2>2. SpecName[out[w]] \in Names /\ Wire[SpecName[out[w]]] = w
    BY <1>4, <1>6, <1>7, <2>1
  <2> QED BY <2>2, WireAssumption
<1>9. \A w \in Names : out[w] # 0 => SpecName[out[w]] = w
  BY <1>4, <1>6, <1>8
<1>10. \A k \in 1..count : out[SpecName[k]] = k
  <2> SUFFICES ASSUME NEW k \in 1..count PROVE out[SpecName[k]] = k
    OBVIOUS
  <2>1. SpecName[out[SpecName[k]]] = SpecName[k] /\ out[SpecName[k]] \in 1..count
    BY <1>5, <1>6, <1>7, <1>9
  <2> QED BY <1>7, <2>1, SpecAssumption
<1>11. {w \in Names : out[w] # 0} = {SpecName[k] : k \in 1..count}
  BY <1>5, <1>6, <1>7, <1>9
<1>12. \A k \in 1..count : k \in 1..Len(tab)
  BY <1>5, <1>6, <1>7, <1>10
<1> QED BY <1>2, <1>10, <1>11, <1>12

(* Bootstrap returns complete and aligned Sets only, for every number of Specs
   and every way a name can be cut (netns.go:182-188). *)
THEOREM DeliversAll == Spec => []Delivered
BY Invariance, DeliveredInv, PTL

(* A failed Bootstrap leaks neither a socket end nor a descriptor
   (netns.go:174-186). *)
THEOREM LeaksNothing == Spec => []NoLeak
<1>1. IInv => NoLeak
  BY DEF IInv
<1> QED BY Invariance, <1>1, PTL

(* Bootstrap reaps its child on every path (netns.go:171-181). *)
THEOREM AlwaysReaps == Spec => []Reaped
<1>1. IInv => Reaped
  BY DEF IInv, HoldInv, Reaped
<1> QED BY Invariance, <1>1, PTL

(* An abandoned child pins nothing but the Spec it is at
   (netns.go:172, :279-283). *)
THEOREM Abandoned == Spec => StopsWhenAbandoned
<1>1. [Next]_vars => [~psock /\ Alive => idx' = idx]_vars
  BY DEF Next, Parent, Podman, Child, NoSpecs, Socketpair, SocketpairFails, Start,
         StartFails, Handoff, Recv, RecvNoFd, RecvEOF, CloseSock, Wait, Check, ParentDies,
         PodmanSpawns, PodmanExits, PodmanDies, Migrate, Lock, Detach, Unshare, Mount,
         Open, Send, Return, SendBroken, ChildDies, Exit, vars, parentVars, childVars,
         kernelVars
<1> QED BY <1>1, PTL DEF Spec, StopsWhenAbandoned
------------------------------------------------------------------------------
(* Refinement.  Beyond IInv it takes that the paths ahead of the child are as
   the call found them, and the path at hand is empty while it is replaced. *)
Untouched(k) == pin[k] \in {NoNs, Stale(k)}

AheadInv ==
  /\ cpc = "none" => \A k \in 1..N : Untouched(k)
  /\ Alive => \A k \in 1..N : k > idx => Untouched(k)
  /\ cpc \in {"begin", "detach"} => Untouched(idx)
  /\ cpc \in {"unshare", "mount"} => pin[idx] = NoNs

(* Paths the child has not come to are as the call found them. *)
LEMMA AheadNext == IInv /\ AheadInv /\ [Next]_vars => AheadInv'
<1> SUFFICES ASSUME IInv, AheadInv, [Next]_vars PROVE AheadInv'
  OBVIOUS
<1>0. /\ N \in Nat /\ pin \in [1..N -> -N..(N + 1)] /\ count \in 0..N /\ idx \in 1..(N + 1)
      /\ cpc = "none" => idx = 1 
      /\ Alive => idx \in 1..count
      /\ pod # "none" => count > 0
  BY SpecAssumption DEF IInv, TypeOK, ChildInv
<1> USE <1>0 DEF AheadInv, Untouched, Alive, parentVars, childVars, kernelVars
<1>1. CASE UNCHANGED <<pin, cpc, idx>>
  BY <1>1
<1>2. CASE PodmanSpawns
  BY <1>2 DEF PodmanSpawns
<1>3. CASE Lock
  BY <1>3 DEF Lock
<1>4. CASE Detach
  <2>1. \A k \in 1..N : k > idx => pin'[k] = pin[k]
    BY <1>4 DEF Detach
  <2>2. pin'[idx] = NoNs
    BY <1>4 DEF Detach
  <2> QED BY <1>4, <2>1, <2>2 DEF Detach
<1>5. CASE Unshare
  BY <1>5 DEF Unshare
<1>6. CASE Mount
  <2>1. \A k \in 1..N : k > idx => pin'[k] = pin[k]
    BY <1>6 DEF Mount
  <2> QED BY <1>6, <2>1 DEF Mount
<1>7. CASE Open
  BY <1>7 DEF Open
<1>8. CASE Send
  <2>1. /\ pin' = pin /\ idx' \in {idx, idx + 1}
        /\ cpc' = "return" \/ (cpc' = "detach" /\ idx' = idx + 1 /\ idx # count)
    BY <1>8 DEF Send
  <2>2. idx \in 1..count /\ \A k \in 1..N : k > idx => Untouched(k)
    BY <1>8 DEF Send
  <2> HIDE DEF Untouched
  <2>3. \A k \in 1..N : k > idx => Untouched(k)'
    BY <2>1, <2>2 DEF Untouched
  <2>4. cpc' = "detach" => idx' \in 1..N /\ idx' > idx
    BY <2>1, <2>2
  <2>5. \A k \in 1..N : k > idx' => k > idx
    BY <2>1, <2>2
  <2> QED BY <2>1, <2>3, <2>4, <2>5 DEF Untouched
<1>9. CASE Return \/ SendBroken \/ ChildDies
  BY <1>9 DEF Return, SendBroken, ChildDies, Exit
<1> QED
  <2>1. CASE Parent
    BY <1>1, <2>1 DEF Parent, NoSpecs, Socketpair, SocketpairFails, Start, StartFails,
       Handoff, Recv, RecvNoFd, RecvEOF, CloseSock, Wait, Check, ParentDies
  <2>2. CASE PodmanExits \/ PodmanDies \/ Migrate
    BY <1>1, <2>2 DEF PodmanExits, PodmanDies, Migrate
  <2>3. CASE UNCHANGED vars
    BY <1>1, <2>3 DEF vars
  <2> QED BY <2>1, <2>2, <2>3, <1>2, <1>3, <1>4, <1>5, <1>6, <1>7, <1>8, <1>9
          DEF Next, Podman, Child

(* ... throughout. *)
LEMMA Ahead == Spec => []AheadInv
<1>1. Init => AheadInv
  BY DEF Init, AheadInv, Untouched, Alive
<1> QED BY <1>1, Invariance, AheadNext, PTL DEF Spec

(* What the answer "ok" hands over is what the paths pin. *)
LEMMA Answer ==
  ASSUME IInv', Delivered', pc' = "ok", pc \notin {"ok", "err", "dead"}, UNCHANGED <<count, pin>>
  PROVE  Promise!Succeed
<1> USE SpecAssumption
<1>2. count \in 0..N /\ out' \in [Names -> 0..N]
  BY DEF IInv, TypeOK
<1>3. /\ {w \in Names : out'[w] # 0} = {SpecName[k] : k \in 1..count}
      /\ \A k \in 1..count : tab'[out'[SpecName[k]]] = k /\ pin[k] = k
  BY DEF Delivered, Fresh
<1>4. Promise!Done(count + 1)
  BY <1>2, <1>3 DEF Promise!Done, Promise!Fresh
<1>5. Verdict = "running" /\ Verdict' = "ok"
  BY DEF Verdict
<1>6. Handles' = [w \in {SpecName[k] : k \in 1..count} |->
                    pin[CHOOSE k \in 1..count : SpecName[k] = w]]
  <2> DEFINE D == {SpecName[k] : k \in 1..count}
  <2>1. Handles' = [w \in D |-> tab'[out'[w]]]
    BY <1>3 DEF Handles
  <2>2. \A w \in D : tab'[out'[w]] = pin[CHOOSE k \in 1..count : SpecName[k] = w]
    <3> TAKE w \in D
    <3>1. PICK j \in 1..count : w = SpecName[j]
      OBVIOUS
    <3>2. (CHOOSE k \in 1..count : SpecName[k] = w) = j
      BY <1>2, <3>1
    <3> QED BY <1>3, <3>1, <3>2
  <2> QED BY <2>1, <2>2
<1> QED BY <1>4, <1>5, <1>6 DEF Promise!Succeed

(* Every step of the protocol is a step of the abstraction, or none. *)
LEMMA StepRefines ==
  ASSUME IInv, AheadInv, IInv', Delivered', [Next]_vars
  PROVE  [Promise!Next]_Promise!vars
<1>1. IInv /\ AheadInv
  OBVIOUS
<1>2. ASSUME UNCHANGED <<pc, tab, out, count, pin>>
      PROVE  UNCHANGED Promise!vars
  BY <1>2 DEF Promise!vars, Verdict, Handles
<1>3. ASSUME pc \notin {"ok", "err", "dead"}, pc' \notin {"ok", "err", "dead"},
             UNCHANGED <<count, pin>>
      PROVE  UNCHANGED Promise!vars
  BY <1>3 DEF Promise!vars, Verdict, Handles
<1>4. ASSUME pc \notin {"ok", "err", "dead"}, pc' \in {"err", "dead"},
             UNCHANGED <<count, pin>>
      PROVE  Promise!Fail
  BY <1>4 DEF Promise!Fail, Verdict, Handles
<1>5. CASE NoSpecs
  <2>1. pc = "init" /\ pc' = "ok" /\ UNCHANGED <<count, pin>>
    BY <1>5 DEF NoSpecs, kernelVars
  <2> QED BY <2>1, Answer DEF Promise!Next
<1>6. CASE Check
  <2>1. pc = "check" /\ pc' \in {"ok", "err"} /\ UNCHANGED <<count, pin>>
    BY <1>6 DEF Check, kernelVars
  <2> QED BY <2>1, <1>4, Answer DEF Promise!Next
<1>7. CASE SocketpairFails \/ StartFails \/ ParentDies
  <2>1. pc \notin {"ok", "err", "dead"} /\ pc' \in {"err", "dead"} /\ UNCHANGED <<count, pin>>
    BY <1>7 DEF SocketpairFails, StartFails, ParentDies, kernelVars, Returned
  <2> QED BY <2>1, <1>4 DEF Promise!Next
<1>8. CASE \/ Socketpair \/ Start \/ Handoff \/ Recv \/ RecvNoFd \/ RecvEOF
           \/ CloseSock \/ Wait
  <2>1. /\ pc \notin {"ok", "err", "dead"} /\ pc' \notin {"ok", "err", "dead"}
        /\ UNCHANGED <<count, pin>>
    BY <1>8 DEF Socketpair, Start, Handoff, Recv, RecvNoFd, RecvEOF, CloseSock, Wait,
       kernelVars
  <2> QED BY <2>1, <1>3
<1>9. CASE Podman
  BY <1>9, <1>2 DEF Podman, PodmanSpawns, PodmanExits, PodmanDies, parentVars
<1>10. CASE \/ Migrate \/ Lock \/ Unshare \/ Open \/ Send \/ Return \/ SendBroken
            \/ ChildDies
  BY <1>10, <1>2 DEF Migrate, Lock, Unshare, Open, Send, Return, SendBroken, ChildDies,
     Exit, parentVars, kernelVars
<1>11. CASE Detach \/ Mount
  <2>1. /\ UNCHANGED <<pc, tab, out, count>>
        /\ idx \in 1..count
        /\ Promise!Done(idx)
    BY <1>1, <1>11 DEF Detach, Mount, parentVars, IInv, ChildInv, Alive, Promise!Done,
       Promise!Fresh, Fresh
  <2>2. Handles' = Handles /\ Verdict' = Verdict
    BY <2>1 DEF Handles, Verdict
  <2>3. pin \in [1..N -> -N..(N + 1)] /\ idx \in 1..N
    BY <2>1, SpecAssumption DEF IInv, TypeOK
  <2>4. CASE Detach
    <3>1. pin' = [pin EXCEPT ![idx] = NoNs] /\ pin[idx] \in {NoNs, Stale(idx)}
      BY <2>4 DEF Detach, AheadInv, Untouched
    <3>2. CASE pin[idx] = NoNs
      BY <2>1, <2>2, <2>3, <3>1, <3>2 DEF Promise!vars
    <3>3. CASE pin[idx] = Stale(idx)
      BY <2>1, <2>2, <3>1, <3>3 DEF Promise!Next, Promise!Detach, Promise!Stale, Stale,
         Promise!NoNs, NoNs
    <3> QED BY <3>1, <3>2, <3>3
  <2>5. CASE Mount
    <3>1. pin' = [pin EXCEPT ![idx] = Fresh(idx)] /\ pin[idx] = NoNs
      BY <2>5 DEF Mount, AheadInv, IInv, ChildInv
    <3> QED BY <2>1, <2>2, <3>1 DEF Promise!Next, Promise!Pin, Promise!Fresh, Fresh,
            Promise!NoNs, NoNs
  <2> QED BY <1>11, <2>4, <2>5
<1>12. CASE UNCHANGED vars
  BY <1>12, <1>2 DEF vars, parentVars, kernelVars
<1> QED BY <1>5, <1>6, <1>7, <1>8, <1>9, <1>10, <1>11, <1>12 DEF Next, Parent, Child

(* The protocol implements its abstraction, for every value of the constants:
   paths are re-pinned in order and one at a time, and the caller gets all the
   handles or none (netns.go:262-312). *)
THEOREM Implements == Spec => KeepsPromise
<1>1. Init => Promise!Init
  BY DEF Init, Promise!Init, Verdict, Handles, Promise!NoNs, NoNs, Promise!Stale, Stale,
     Promise!Empty
<1> QED BY <1>1, Invariance, Ahead, DeliversAll, StepRefines, PTL DEF Spec, KeepsPromise, Promise!Spec
==============================================================================

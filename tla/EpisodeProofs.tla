--------------------------- MODULE EpisodeProofs ---------------------------
(***************************************************************************)
(* Episode's properties for every number of threads, networks and sysctls. *)
(***************************************************************************)
EXTENDS Episode, TLAPS

(* Where the goroutine is locked, and where its thread is. *)
InEpisode == {"open", "enter", "fn", "restore", "close", "unlock"}

Places ==
  /\ pc \in {"lock", "open", "enter", "restore", "close", "unlock"} => Entered(stage)
  /\ pc \in InEpisode /\ Entered(stage) => locked
  /\ pc \in {"open", "enter"} => ns[on] = Host
  /\ pc \in {"fn", "restore"} /\ Entered(stage) => ns[on] = net
  /\ orig # NoNs => orig = Host
  /\ pc \in {"close", "unlock"} /\ back => ns[on] = Host
  /\ pc \in {"close", "unlock"} /\ ~back => err
  /\ pc \in {"call", "lock", "open", "enter", "fn", "restore"} => ~back
  /\ pc \in {"call", "lock", "done"} => ~locked
  /\ pc \in {"fn", "return"} /\ ~err /\ (Entered(stage) => pc = "return") => ~locked

(* How far the stage is, as long as no error is on its way. *)
Progress ==
  /\ pc \in {"call", "lock", "open", "enter", "fn", "done"} => ~err
  /\ pc \in {"call", "lock", "open", "enter"} => written = 0
  /\ pc = "fn" => written < Count(stage)
  /\ pc \in {"restore", "close", "unlock", "return"} /\ ~err => written = Count(stage)

Rank == [nft |-> 1, sysctls |-> 2, ends |-> 3, veth |-> 4, forward |-> 5, nat |-> 6]

Made(n, s) == \A i \in 1..Count(s) : <<n, s, i, Where(n, s)>> \in landed

(* What has been made so far. *)
SoFar ==
  /\ \A n \in 1..(net - 1) : \A s \in StagesOf(n) : Made(n, s)
  /\ \A s \in StagesOf(net) : Rank[s] < Rank[stage] => Made(net, s)
  /\ \A i \in 1..written : <<net, stage, i, Where(net, stage)>> \in landed
  /\ pc = "done" => net = Networks /\ stage = Last(net) /\ Made(net, stage)

IInv == TypeOK /\ Confined /\ Places /\ Progress /\ InPlace /\ SoFar

(* Types and the goroutine's place hold together. *)
AInv == TypeOK /\ Confined /\ Places /\ Progress

USE DEF Host, NoNs, Ended, Entered, Where

(* Stages of a network. *)
LEMMA StageFacts ==
  ASSUME NEW n \in Nets
  PROVE  /\ "nft" \in StagesOf(n) /\ "sysctls" \in StagesOf(n)
         /\ Last(n) \in StagesOf(n)
         /\ n \in Uplinked => StagesOf(n) = Stages
         /\ n \notin Uplinked => StagesOf(n) = {"nft", "sysctls", "ends"}
BY DEF StagesOf, Stages, Last

(* How many writes a stage has. *)
LEMMA CountFacts == \A s \in Stages : Count(s) \in Nat /\ Count(s) > 0 /\ Count(s) <= 1 + Pins
BY EpisodeAssumption DEF Count

(* A network has a next stage until its last. *)
LEMMA FollowsFacts ==
  ASSUME NEW n \in Nets, NEW s \in StagesOf(n), s # Last(n)
  PROVE  Follows[s] \in StagesOf(n)
BY StageFacts DEF StagesOf, Stages, Last, Follows

(* The initial state. *)
LEMMA InitA == Init => AInv
<1> SUFFICES ASSUME Init PROVE AInv  OBVIOUS
<1> USE DEF Init
<1>0. 1 \in Nets
  BY EpisodeAssumption DEF Nets
<1>1. TypeOK
  <2>1. stage \in StagesOf(net) /\ Count(stage) = 1
    BY <1>0, StageFacts DEF Count
  <2>2. written \in 0..Count(stage)
    BY <2>1
  <2> QED BY <1>0, <2>1, <2>2 DEF TypeOK
<1>2. Confined /\ Places /\ Progress
  BY DEF Confined, Places, Progress, InEpisode
<1> QED BY <1>1, <1>2 DEF AInv

(* Every step keeps types and places. *)
LEMMA NextA == AInv /\ [Next]_vars => AInv'
<1> SUFFICES ASSUME AInv, [Next]_vars PROVE AInv'  OBVIOUS
<1> USE DEF AInv
<1>t. /\ stage \in Stages /\ Count(stage) \in Nat /\ Count(stage) <= 1 + Pins /\ Count(stage) > 0
      /\ written \in Nat /\ net \in Nat /\ net >= 1 /\ net # Host /\ Pins \in Nat /\ Networks \in Nat
  BY CountFacts, EpisodeAssumption DEF TypeOK, StagesOf, Nets
<1> USE <1>t
<1>1. CASE Call
  BY <1>1 DEF Call, Step, threadVars, TypeOK, Confined, Places, Progress, InEpisode
<1>2. CASE Lock
  BY <1>2 DEF Lock, Step, TypeOK, Confined, Places, Progress, InEpisode
<1>3. CASE Open
  BY <1>3 DEF Open, Step, threadVars, TypeOK, Confined, Places, Progress, InEpisode
<1>4. CASE OpenFails
  BY <1>4 DEF OpenFails, Step, TypeOK, Confined, Places, Progress, InEpisode
<1>5. CASE Enter
  BY <1>5 DEF Enter, Step, TypeOK, Confined, Places, Progress, InEpisode
<1>6. CASE EnterFails
  BY <1>6 DEF EnterFails, Step, threadVars, TypeOK, Confined, Places, Progress, InEpisode
<1>7. CASE Write
  <2>1. TypeOK'
    <3>1. Acts \in {Host} \union Nets /\ written + 1 \in 1..(1 + Pins) /\ written + 1 \in 0..Count(stage)
      BY <1>7 DEF Write, Acts, TypeOK, Progress
    <3>2. landed' \subseteq Nets \X Stages \X (1..(1 + Pins)) \X ({Host} \union Nets)
      BY <1>7, <3>1 DEF Write, TypeOK
    <3> QED BY <1>7, <3>1, <3>2 DEF Write, AfterFn, threadVars, TypeOK
  <2>2. Confined' /\ Places' /\ Progress'
    BY <1>7 DEF Write, AfterFn, threadVars, TypeOK, Confined, Places, Progress, InEpisode
  <2> QED BY <2>1, <2>2
<1>8. CASE WriteFails
  BY <1>8 DEF WriteFails, Step, AfterFn, threadVars, TypeOK, Confined, Places, Progress, InEpisode
<1>9. CASE Restore
  BY <1>9 DEF Restore, Step, TypeOK, Confined, Places, Progress, InEpisode
<1>10. CASE RestoreFails
  BY <1>10 DEF RestoreFails, Step, threadVars, TypeOK, Confined, Places, Progress, InEpisode
<1>11. CASE Close
  BY <1>11 DEF Close, Step, threadVars, TypeOK, Confined, Places, Progress, InEpisode
<1>12. CASE Unlock
  BY <1>12 DEF Unlock, Step, TypeOK, Confined, Places, Progress, InEpisode
<1>13. CASE Return
  <2> USE <1>13 DEF Return, threadVars
  <2>1. net' \in Nets /\ stage' \in StagesOf(net')
    BY StageFacts, FollowsFacts DEF TypeOK, Nets
  <2>2. /\ written' = 0 /\ back' = FALSE /\ err' = err /\ UNCHANGED <<ns, on, locked, orig, landed>>
        /\ pc = "return" /\ (IF err THEN pc' = "failed" ELSE pc' \in {"call", "done"})
    BY DEF TypeOK
  <2>3. Count(stage') \in Nat
    BY <2>1, CountFacts DEF StagesOf
  <2>4. written' \in 0..Count(stage') /\ pc' \in Ended \union {"call"}
    BY <2>2, <2>3 DEF TypeOK
  <2>5. orig' = NoNs
    BY <2>2 DEF TypeOK
  <2>6. TypeOK'
    BY <2>1, <2>2, <2>4, <2>5 DEF TypeOK
  <2>7. Confined' /\ Places' /\ Progress'
    BY <2>2 DEF Confined, Places, Progress, InEpisode, TypeOK
  <2> QED BY <2>6, <2>7
<1>14. CASE Migrate
  BY <1>14 DEF Migrate, TypeOK, Confined, Places, Progress, InEpisode
<1>15. CASE UNCHANGED vars
  BY <1>15 DEF vars, threadVars, TypeOK, Confined, Places, Progress, InEpisode
<1> QED BY <1>1, <1>2, <1>3, <1>4, <1>5, <1>6, <1>7, <1>8, <1>9, <1>10, <1>11, <1>12, <1>13, <1>14, <1>15
       DEF Next

(* Every write lands where it is meant to: fn runs in the router's namespace in
   an episode, and else with the thread at home. *)
LEMMA NextPlace == AInv /\ InPlace /\ [Next]_vars => InPlace'
<1> SUFFICES ASSUME AInv, InPlace, [Next]_vars PROVE InPlace'  OBVIOUS
<1>1. CASE Write
  <2>1. Acts = Where(net, stage)
    BY <1>1 DEF Acts, Write, AInv, TypeOK, Confined, Places, Progress
  <2> QED BY <1>1, <2>1 DEF Write, InPlace
<1>2. CASE landed' = landed
  BY <1>2 DEF InPlace
<1>3. [Next]_vars => Write \/ landed' = landed
  BY DEF Next, Call, Lock, Open, OpenFails, Enter, EnterFails, WriteFails, Restore, RestoreFails,
         Close, Unlock, Return, Migrate, vars
<1> QED BY <1>1, <1>2, <1>3

(* What has been made stays made, and a stage is left only when it is. *)
LEMMA NextSoFar == AInv /\ SoFar /\ [Next]_vars => SoFar'
<1> SUFFICES ASSUME AInv, SoFar, [Next]_vars PROVE SoFar'  OBVIOUS
<1>t. stage \in Stages /\ stage \in StagesOf(net) /\ net \in Nets /\ net \in Nat /\ written \in Nat
  BY CountFacts DEF AInv, TypeOK, StagesOf, Nets
<1>1. CASE Write
  <2>1. Acts = Where(net, stage)
    BY <1>1 DEF Acts, Write, AInv, TypeOK, Confined, Places, Progress
  <2>2. landed' = landed \union {<<net, stage, written + 1, Where(net, stage)>>}
        /\ written' = written + 1 /\ net' = net /\ stage' = stage /\ pc' # "done"
    BY <1>1, <2>1 DEF Write, AfterFn
  <2>3. \A i \in 1..(written + 1) : i = written + 1 \/ i \in 1..written
    BY <1>t
  <2> QED BY <1>t, <2>2, <2>3 DEF SoFar, Made
<1>2. CASE Return
  <2>1. landed' = landed /\ written' = 0
    BY <1>2 DEF Return
  <2>2. CASE err
    BY <1>2, <2>1, <2>2 DEF Return, SoFar, Made
  <2>3. CASE ~err
    <3>1. Made(net, stage)
      BY <1>2, <2>3, <1>t DEF Return, AInv, Progress, SoFar, Made
    <3>2. CASE stage # Last(net)
      <4>1. net' = net /\ stage' = Follows[stage] /\ pc' = "call"
        BY <1>2, <2>3, <3>2 DEF Return
      <4>2. \A s \in StagesOf(net) : Rank[s] < Rank[Follows[stage]] => Rank[s] < Rank[stage] \/ s = stage
        BY <1>t, <3>2, StageFacts DEF Stages, Rank, Follows, Last
      <4> QED BY <4>1, <4>2, <3>1, <2>1, <1>t DEF SoFar, Made
    <3>3. CASE stage = Last(net)
      <4>1. \A s \in StagesOf(net) : Rank[s] < Rank[stage] \/ s = stage
        BY <1>t, <3>3, StageFacts DEF Stages, Rank, Last
      <4>2. \A s \in StagesOf(net) : Made(net, s)
        BY <4>1, <3>1 DEF SoFar
      <4>3. CASE net < Networks
        <5>1. net' = net + 1 /\ stage' = "nft" /\ pc' = "call"
          BY <1>2, <2>3, <3>3, <4>3 DEF Return
        <5>2. \A n \in 1..net : n = net \/ n \in 1..(net - 1)
          BY <1>t
        <5>3. \A s \in StagesOf(net + 1) : ~(Rank[s] < Rank["nft"])
          BY DEF StagesOf, Stages, Rank
        <5> QED BY <5>1, <5>2, <5>3, <4>2, <2>1, <1>t DEF SoFar, Made
      <4>4. CASE ~(net < Networks)
        <5>1. net' = net /\ stage' = stage
          BY <1>2, <2>3, <3>3, <4>4 DEF Return
        <5>2. net = Networks
          BY <4>4, <1>t, EpisodeAssumption DEF Nets
        <5> QED BY <5>1, <5>2, <3>3, <4>2, <3>1, <2>1, <1>t DEF SoFar, Made
      <4> QED BY <4>3, <4>4
    <3> QED BY <3>2, <3>3
  <2> QED BY <2>2, <2>3 DEF AInv, TypeOK
<1>3. CASE UNCHANGED <<net, stage, written, landed>> /\ (pc' = "done" => pc = "done")
  BY <1>3 DEF SoFar, Made
<1>4. [Next]_vars => Write \/ Return \/ (UNCHANGED <<net, stage, written, landed>> /\ (pc' = "done" => pc = "done"))
  BY DEF Next, Call, Lock, Open, OpenFails, Enter, EnterFails, WriteFails, AfterFn, Restore, RestoreFails,
         Close, Unlock, Migrate, Step, vars
<1> QED BY <1>1, <1>2, <1>3, <1>4

(* The inductive invariant. *)
LEMMA Invariance == Spec => []IInv
<1>1. Init => IInv
  <2> SUFFICES ASSUME Init PROVE IInv  OBVIOUS
  <2>1. InPlace
    BY DEF Init, InPlace
  <2>2. SoFar
    BY DEF Init, SoFar, Rank, StagesOf, Stages
  <2> QED BY InitA, <2>1, <2>2 DEF IInv, AInv
<1>2. IInv /\ [Next]_vars => IInv'
  BY NextA, NextPlace, NextSoFar DEF IInv, AInv
<1> QED BY <1>1, <1>2, PTL DEF Spec

(* Types, and the lifetime of the saved handle (netns.go:326-337). *)
THEOREM TypeCorrect == Spec => []TypeOK
<1>1. IInv => TypeOK
  BY DEF IInv
<1> QED BY <1>1, Invariance, PTL

(* Every write takes effect in the namespace it is meant for (apply.go:68-73,
   99-108). *)
THEOREM WritesInPlace == Spec => []InPlace
<1>1. IInv => InPlace
  BY DEF IInv
<1> QED BY <1>1, Invariance, PTL

(* No thread is left away from the init namespace where anything but the locked
   goroutine could run (netns.go:314-319). *)
THEOREM ThreadsConfined == Spec => []Confined
<1>1. IInv => Confined
  BY DEF IInv
<1> QED BY <1>1, Invariance, PTL

(* A run whose thread is stuck in a router's namespace writes nothing more
   (netns.go:344-347). *)
THEOREM NothingStranded == Spec => StopsStranded
<1>1. IInv /\ [Next]_vars => (Stranded => landed' = landed)
  <2> SUFFICES ASSUME IInv, [Next]_vars, Stranded PROVE landed' = landed  OBVIOUS
  <2>1. ~Write
    BY DEF Write, Stranded, IInv, TypeOK, Confined, Places, Progress
  <2> QED BY <2>1 DEF Next, Call, Lock, Open, OpenFails, Enter, EnterFails, WriteFails, Restore,
                      RestoreFails, Close, Unlock, Return, Migrate, vars
<1> QED BY <1>1, Invariance, PTL DEF Spec, StopsStranded

(* A run that ends without error has made every write (apply.go:53-113). *)
THEOREM RunsComplete == Spec => []Complete
<1>1. IInv => Complete
  <2> SUFFICES ASSUME IInv, pc = "done", NEW n \in Nets, NEW s \in StagesOf(n) PROVE Made(n, s)
    BY DEF Complete, Made
  <2>1. net = Networks /\ stage = Last(net) /\ Made(net, stage)
    BY DEF IInv, SoFar
  <2>2. n \in 1..(net - 1) \/ n = net
    BY <2>1, EpisodeAssumption DEF Nets
  <2>3. n = net => Rank[s] < Rank[stage] \/ s = stage
    BY <2>1, StageFacts DEF Stages, Rank, Last
  <2> QED BY <2>1, <2>2, <2>3 DEF IInv, SoFar
<1> QED BY <1>1, Invariance, PTL
============================================================================

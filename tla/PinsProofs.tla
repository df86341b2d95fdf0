----------------------------- MODULE PinsProofs -----------------------------
(***************************************************************************)
(* Proofs about Pins: for any number of processes, failures and overlaps.  *)
(*                                                                         *)
(* The argument: a file under a mount cannot be removed, so a process that *)
(* has created the file found no mount there; until it mounts, what is put *)
(* there is the work of others (Others), who ran at the same time and who  *)
(* know it (Together).                                                     *)
(***************************************************************************)
EXTENDS Pins, TLAPS

Others == \A p \in Procs : pc[p] = "mount" => \A i \in DOMAIN mounts : mounts[i].by # p

Together == \A p \in Procs : pc[p] = "mount" /\ mounts # <<>> =>
              ~alone[p] /\ \A i \in DOMAIN mounts : ~mounts[i].alone

Undisturbed == \A p \in Procs : alone[p] => Running \subseteq {p}

Created == \A p \in Procs : pc[p] = "mount" /\ alone[p] => file

Pinning == \A p \in Procs : pc[p] \in {"create", "mount"} => job[p] = "pin"

Serial == overlaps = 0 =>
            /\ \A p, q \in Running : p = q
            /\ Len(mounts) <= 1
            /\ \A p \in Procs : pc[p] = "mount" => mounts = <<>>
            /\ \A p \in Procs : pc[p] \in {"remove", "create"} /\ alone[p] => mounts = <<>>

PInv == /\ TypeOK /\ Others /\ Together /\ Undisturbed /\ Created /\ Serial
        /\ OnlyOverlapsStack /\ NoPileUp /\ Reported

USE DEF Over, Calls, Running

LEMMA InitP == Init => PInv
<1> SUFFICES ASSUME Init PROVE PInv  OBVIOUS
<1>1. TypeOK
  <2>1. alone \in [Procs -> BOOLEAN] /\ file \in BOOLEAN /\ (mounts # <<>> => file)
    BY DEF Init
  <2>2. pc \in [Procs -> {"idle", "done", "failed", "unmount", "remove", "create", "mount"}]
    BY DEF Init
  <2>3. job \in [Procs -> {"pin", "unpin"}] /\ faults \in Nat /\ overlaps \in Nat
    BY DEF Init
  <2>4. mounts \in Seq([by : Procs, alone : BOOLEAN])
    BY DEF Init
  <2> QED BY <2>1, <2>2, <2>3, <2>4 DEF TypeOK
<1>2. mounts = <<>> /\ \A p \in Procs : pc[p] = "idle" /\ ~alone[p]
  BY DEF Init
<1> QED
  BY <1>1, <1>2 DEF PInv, Others, Together, Undisturbed, Created, Serial, OnlyOverlapsStack,
                    NoPileUp, Reported

(* Taking the topmost mount away leaves the others as they are. *)
LEMMA Pop ==
  ASSUME NEW S, NEW s \in Seq(S), s # <<>>
  PROVE  LET t == SubSeq(s, 1, Len(s) - 1)
         IN /\ t \in Seq(S) /\ Len(t) = Len(s) - 1
            /\ DOMAIN t \subseteq DOMAIN s /\ \A i \in DOMAIN t : t[i] = s[i]
<1>1. Len(s) \in Nat \ {0} /\ DOMAIN s = 1..Len(s)
  OBVIOUS
<1> QED BY <1>1

(* Only up creates and mounts. *)
LEMMA PinningNext ==
  ASSUME TypeOK, Pinning, [Next]_vars
  PROVE  Pinning'
<1>1. ASSUME NEW p \in Procs, Call(p)  PROVE Pinning'
  BY <1>1 DEF Call, Unmount, Remove, Create, Mount, Step, Pinning, TypeOK
<1>2. ASSUME NEW p \in Procs, NEW j, Start(p, j)  PROVE Pinning'
  BY <1>2 DEF Start, Pinning, TypeOK
<1>3. CASE LoseMounts \/ (\E p \in Procs : Die(p) \/ Overlook(p)) \/ UNCHANGED vars
  BY <1>3 DEF LoseMounts, Die, Overlook, vars, Pinning, TypeOK
<1> QED BY <1>1, <1>2, <1>3 DEF Next

LEMMA StartNext ==
  ASSUME PInv, NEW p \in Procs, NEW j \in {"pin", "unpin"}, Start(p, j)
  PROVE  PInv'
<1> USE DEF PInv
<1>1. TypeOK'
  BY DEF Start, TypeOK
<1>2. /\ UNCHANGED <<file, mounts>>
      /\ pc'[p] = "unmount" /\ \A q \in Procs \ {p} : pc'[q] = pc[q]
      /\ \A q \in Procs : alone'[q] => q = p /\ Running = {}
      /\ Running = {} => alone'[p] /\ overlaps' = overlaps
      /\ Running # {} => overlaps' # 0
  <2>1. UNCHANGED <<file, mounts>>
    BY DEF Start
  <2>2. pc'[p] = "unmount" /\ \A q \in Procs \ {p} : pc'[q] = pc[q]
    BY DEF Start, TypeOK
  <2>3. \A q \in Procs : alone'[q] <=> q = p /\ Running = {}
    BY DEF Start
  <2>4. (Running = {} => overlaps' = overlaps) /\ (Running # {} => overlaps' # 0)
    BY DEF Start, TypeOK
  <2> QED BY <2>1, <2>2, <2>3, <2>4
<1>3. Others' /\ OnlyOverlapsStack' /\ NoPileUp'
  BY <1>2 DEF Others, OnlyOverlapsStack, NoPileUp
<1>4. Together' /\ Created'
  BY <1>2 DEF Together, Created
<1>5. Undisturbed' /\ Reported'
  BY <1>2 DEF Undisturbed, Reported
<1>6. Serial'
  BY <1>2 DEF Serial
<1> QED BY <1>1, <1>3, <1>4, <1>5, <1>6

LEMMA UnmountNext ==
  ASSUME PInv, NEW p \in Procs, Unmount(p)
  PROVE  PInv'
<1> USE DEF PInv
<1>1. /\ pc[p] = "unmount" /\ pc' = [pc EXCEPT ![p] = "remove"]
      /\ UNCHANGED <<job, alone, file, faults, overlaps>>
  BY DEF Unmount, Step
<1>2. /\ mounts' \in Seq([by : Procs, alone : BOOLEAN])
      /\ Len(mounts') <= Len(mounts)
      /\ DOMAIN mounts' \subseteq DOMAIN mounts /\ \A i \in DOMAIN mounts' : mounts'[i] = mounts[i]
      /\ Len(mounts) <= 1 => mounts' = <<>>
      /\ mounts = <<>> => mounts' = <<>>
  BY Pop DEF Unmount, TypeOK
<1>3. TypeOK'
  BY <1>1, <1>2 DEF TypeOK
<1>4. Others' /\ Together' /\ Undisturbed' /\ Created'
  BY <1>1, <1>2 DEF TypeOK, Others, Together, Undisturbed, Created
<1>5. OnlyOverlapsStack' /\ NoPileUp'
  BY <1>1, <1>2 DEF TypeOK, OnlyOverlapsStack, NoPileUp
<1>6. Serial'
  BY <1>1, <1>2 DEF TypeOK, Serial
<1>7. Reported'
  BY <1>1, <1>2 DEF TypeOK, Undisturbed, Reported
<1> QED BY <1>3, <1>4, <1>5, <1>6, <1>7

LEMMA RemoveNext ==
  ASSUME PInv, NEW p \in Procs, Remove(p)
  PROVE  PInv'
<1> USE DEF PInv
<1>1. /\ pc[p] = "remove" /\ pc' = [pc EXCEPT ![p] = IF job[p] = "pin" THEN "create" ELSE "done"]
      /\ UNCHANGED <<job, alone, mounts, faults, overlaps>>
      /\ file' = (file /\ mounts # <<>>)
  BY DEF Remove, Step
<1>2. TypeOK'
  BY <1>1 DEF TypeOK
<1>3. Others' /\ Together' /\ Undisturbed' /\ OnlyOverlapsStack' /\ NoPileUp'
  BY <1>1 DEF TypeOK, Others, Together, Undisturbed, OnlyOverlapsStack, NoPileUp
<1>4. Created'
  BY <1>1 DEF TypeOK, Undisturbed, Created
<1>5. Serial'
  BY <1>1 DEF TypeOK, Serial
<1>6. Reported'
  <2>1. \A q \in Procs : q # p /\ alone[q] => FALSE
    BY <1>1 DEF Undisturbed
  <2>2. job[p] = "unpin" /\ pc'[p] = "done" /\ alone[p] /\ overlaps = 0 => mounts = <<>> /\ ~file'
    BY <1>1 DEF Serial
  <2>3. pc'[p] = "done" => job[p] = "unpin"
    BY <1>1 DEF TypeOK
  <2> QED BY <1>1, <2>1, <2>2, <2>3 DEF Reported
<1> QED BY <1>2, <1>3, <1>4, <1>5, <1>6

LEMMA CreateNext ==
  ASSUME PInv, NEW p \in Procs, Create(p)
  PROVE  PInv'
<1> USE DEF PInv
<1>1. /\ pc[p] = "create" /\ pc' = [pc EXCEPT ![p] = IF file THEN "failed" ELSE "mount"]
      /\ UNCHANGED <<job, alone, mounts, faults, overlaps>>
      /\ file' = TRUE
      /\ ~file => mounts = <<>>
  BY DEF Create, Step, TypeOK
<1>2. TypeOK'
  BY <1>1 DEF TypeOK
<1>3. Others' /\ Together' /\ Undisturbed' /\ OnlyOverlapsStack' /\ NoPileUp'
  BY <1>1 DEF TypeOK, Others, Together, Undisturbed, OnlyOverlapsStack, NoPileUp
<1>4. Created' /\ Serial'
  BY <1>1 DEF TypeOK, Created, Serial
<1>5. Reported'
  BY <1>1 DEF TypeOK, Undisturbed, Reported
<1> QED BY <1>2, <1>3, <1>4, <1>5

LEMMA MountNext ==
  ASSUME PInv, Pinning, NEW p \in Procs, Mount(p)
  PROVE  PInv'
<1> USE DEF PInv
<1>1. CASE ~file
  <2>1. pc[p] = "mount" /\ pc' = [pc EXCEPT ![p] = "failed"]
        /\ UNCHANGED <<job, alone, mounts, file, faults, overlaps>>
    BY <1>1 DEF Mount, Step
  <2>2. TypeOK' /\ Others' /\ Together' /\ Undisturbed' /\ OnlyOverlapsStack' /\ NoPileUp'
    BY <2>1 DEF TypeOK, Others, Together, Undisturbed, OnlyOverlapsStack, NoPileUp
  <2>3. Created' /\ Serial' /\ Reported'
    BY <2>1 DEF TypeOK, Created, Serial, Reported
  <2> QED BY <2>2, <2>3
<1>2. CASE file
  <2>1. PICK m : m = [by |-> p, alone |-> alone[p]]
    OBVIOUS
  <2>2. /\ pc[p] = "mount" /\ pc' = [pc EXCEPT ![p] = "done"]
        /\ UNCHANGED <<job, alone, file, faults, overlaps>>
        /\ mounts' = Append(mounts, m)
    BY <1>2, <2>1 DEF Mount, Step
  <2>3. m \in [by : Procs, alone : BOOLEAN] /\ m.by = p /\ m.alone = alone[p]
    BY <2>1 DEF TypeOK
  <2>4. /\ mounts' \in Seq([by : Procs, alone : BOOLEAN])
        /\ Len(mounts') = Len(mounts) + 1
        /\ DOMAIN mounts' = DOMAIN mounts \union {Len(mounts) + 1}
        /\ mounts'[Len(mounts) + 1] = m
        /\ \A i \in DOMAIN mounts : mounts'[i] = mounts[i]
        /\ Len(mounts) \in Nat /\ DOMAIN mounts = 1..Len(mounts)
    BY <2>2, <2>3 DEF TypeOK
  <2>5. TypeOK'
    BY <1>2, <2>2, <2>4 DEF TypeOK
  <2>6. Others'
    BY <2>2, <2>3, <2>4 DEF TypeOK, Others
  <2>7. \A q \in Procs : q # p /\ pc[q] = "mount" => ~alone[p] /\ ~alone[q]
    BY <2>2 DEF TypeOK, Undisturbed
  <2>8. Together'
    BY <2>2, <2>3, <2>4, <2>7 DEF TypeOK, Together
  <2>9. Undisturbed' /\ Created'
    BY <2>2 DEF TypeOK, Undisturbed, Created
  <2>10. OnlyOverlapsStack'
    BY <2>2, <2>3, <2>4 DEF TypeOK, Together, OnlyOverlapsStack
  <2>11. NoPileUp'
    BY <2>2, <2>3, <2>4 DEF TypeOK, Others, NoPileUp
  <2>12. Serial'
    BY <2>2, <2>4 DEF TypeOK, Serial, Undisturbed
  <2>13. Reported'
    <3>1. \A q \in Procs : q # p /\ alone[q] => FALSE
      BY <2>2 DEF Undisturbed
    <3>2. alone[p] => mounts = <<>>
      BY <2>2 DEF Together
    <3>3. alone[p] => Len(mounts') = 1 /\ mounts'[1].by = p
      BY <2>2, <2>3, <2>4, <3>2
    <3>4. job[p] = "pin"
      BY <2>2 DEF Pinning
    <3> QED BY <1>2, <2>2, <3>1, <3>3, <3>4 DEF Reported
  <2> QED BY <2>5, <2>6, <2>8, <2>9, <2>10, <2>11, <2>12, <2>13
<1> QED BY <1>1, <1>2 DEF TypeOK

LEMMA EndNext ==
  ASSUME PInv, LoseMounts \/ (\E p \in Procs : Die(p) \/ Overlook(p)) \/ UNCHANGED vars
  PROVE  PInv'
<1> USE DEF PInv
<1>1. CASE LoseMounts
  <2>1. TypeOK'
    BY <1>1 DEF LoseMounts, TypeOK
  <2>2. Others' /\ Together' /\ Undisturbed' /\ Created' /\ Serial' /\ OnlyOverlapsStack' /\ NoPileUp'
        /\ Reported'
    BY <1>1 DEF LoseMounts, TypeOK, Others, Together, Undisturbed, Created, Serial,
                OnlyOverlapsStack, NoPileUp, Reported
  <2> QED BY <2>1, <2>2
<1>2. ASSUME NEW p \in Procs, Die(p)  PROVE PInv'
  <2>1. TypeOK'
    BY <1>2 DEF Die, TypeOK
  <2>2. Others' /\ Together' /\ Undisturbed' /\ Created' /\ Serial' /\ OnlyOverlapsStack' /\ NoPileUp'
        /\ Reported'
    BY <1>2 DEF Die, TypeOK, Others, Together, Undisturbed, Created, Serial,
                OnlyOverlapsStack, NoPileUp, Reported
  <2> QED BY <2>1, <2>2
<1>3. ASSUME NEW p \in Procs, Overlook(p)  PROVE PInv'
  <2>1. TypeOK'
    BY <1>3 DEF Overlook, TypeOK
  <2>2. Others' /\ Together' /\ Undisturbed' /\ Created' /\ OnlyOverlapsStack' /\ NoPileUp'
    BY <1>3 DEF Overlook, TypeOK, Others, Together, Undisturbed, Created, OnlyOverlapsStack, NoPileUp
  <2>3. Serial' /\ Reported'
    BY <1>3 DEF Overlook, TypeOK, Serial, Reported
  <2> QED BY <2>1, <2>2, <2>3
<1>4. CASE UNCHANGED vars
  BY <1>4 DEF vars, TypeOK, Others, Together, Undisturbed, Created, Serial,
              OnlyOverlapsStack, NoPileUp, Reported
<1> QED BY <1>1, <1>2, <1>3, <1>4

(* The inductive invariant holds throughout. *)
LEMMA Invariance == Spec => []PInv
<1>1. PInv /\ Pinning /\ [Next]_vars => (PInv /\ Pinning)'
  <2> SUFFICES ASSUME PInv, Pinning, [Next]_vars  PROVE PInv' /\ Pinning'
    OBVIOUS
  <2>1. Pinning'
    BY PinningNext DEF PInv
  <2>2. PInv'
    BY StartNext, UnmountNext, RemoveNext, CreateNext, MountNext, EndNext DEF Next, Call
  <2> QED BY <2>1, <2>2
<1>2. Init => Pinning
  BY DEF Init, Pinning
<1> QED BY InitP, <1>1, <1>2, PTL DEF Spec

------------------------------------------------------------------------------
(* Whatever is mounted is mounted on a file that is there (netns.go:250-260). *)
THEOREM TypeCorrect == Spec => []TypeOK
BY Invariance, PTL DEF PInv

(* Only runs that overlapped stack their mounts (netns.go:288-296). *)
THEOREM StackedByOverlap == Spec => []OnlyOverlapsStack
BY Invariance, PTL DEF PInv

(* No process has two mounts on one path (netns.go:297-301). *)
THEOREM OnePerProcess == Spec => []NoPileUp
BY Invariance, PTL DEF PInv

(* What a run that nothing interferes with reports is so (netns.go:250-260,
   288-312). *)
THEOREM ReportsTrue == Spec => []Reported
BY Invariance, PTL DEF PInv
==============================================================================

-------------------------------- MODULE Pins --------------------------------
(***************************************************************************)
(* One pin in podman's mount namespace, system call by system call, and    *)
(* the turnip processes that make it and take it away (internal/netns:     *)
(* pinNetns and RunTeardown).                                              *)
(*                                                                         *)
(* A pin is a file with the namespace bind-mounted on it.  Nothing keeps   *)
(* two processes apart: each one's unmount, remove, create and mount fall  *)
(* between those of the others, a bind mount goes on top of one that is    *)
(* there, and a process may end at any call, on an error or killed.  The   *)
(* mounts, not the file, are lost with podman's mount namespace.           *)
(*                                                                         *)
(* Bootstrap.tla and Fabric.tla take the case of one process at a time,    *)
(* where a path has one namespace or none.                                 *)
(***************************************************************************)
EXTENDS Integers, Sequences

CONSTANTS Procs,        \* turnip processes
          MaxFaults,    \* processes that end early, calls refused unnoticed, mount
                        \* namespaces lost
          MaxOverlaps   \* processes started while another is running

ASSUME PinsAssumption == MaxFaults \in Nat /\ MaxOverlaps \in Nat

VARIABLES pc,       \* pc[p]: the call p is at
          job,      \* job[p]: "pin" (up) or "unpin" (down)
          file,     \* the path exists
          mounts,   \* what is mounted on it, the one seen last
          alone,    \* alone[p]: since p started nothing but its calls has
                    \* happened, and none was refused without its noticing
          faults, overlaps

vars == <<pc, job, file, mounts, alone, faults, overlaps>>

Over    == {"idle", "done", "failed"}
Calls   == {"unmount", "remove", "create", "mount"}
Running == {p \in Procs : pc[p] \notin Over}

Init == /\ pc = [p \in Procs |-> "idle"]
        /\ job = [p \in Procs |-> "unpin"]
        /\ file = FALSE /\ mounts = <<>>
        /\ alone = [p \in Procs |-> FALSE]
        /\ faults = 0 /\ overlaps = 0

(* The operator runs up, or down. *)
Start(p, j) ==
  /\ pc[p] \in Over
  /\ Running # {} => overlaps < MaxOverlaps
  /\ overlaps' = IF Running = {} THEN overlaps ELSE overlaps + 1
  /\ pc' = [pc EXCEPT ![p] = "unmount"]
  /\ job' = [job EXCEPT ![p] = j]
  /\ alone' = [q \in Procs |-> q = p /\ Running = {}]
  /\ UNCHANGED <<file, mounts, faults>>

Step(p, here, there) == /\ pc[p] = here
                        /\ pc' = [pc EXCEPT ![p] = there]
                        /\ UNCHANGED <<job, alone, faults, overlaps>>

(* Variant: a path that is not mounted is an error. *)
Unmount_MustBeMounted(p) ==
  /\ Step(p, "unmount", IF mounts = <<>> THEN "failed" ELSE "remove")
  /\ mounts' = IF mounts = <<>> THEN <<>> ELSE SubSeq(mounts, 1, Len(mounts) - 1)
  /\ UNCHANGED file

(* The topmost mount goes; that there is none is no error. *)
Unmount(p) ==
  /\ Step(p, "unmount", "remove")
  /\ mounts' = IF mounts = <<>> THEN <<>> ELSE SubSeq(mounts, 1, Len(mounts) - 1)
  /\ UNCHANGED file

(* Variant: the file is left where it is. *)
Remove_Skipped(p) ==
  /\ Step(p, "remove", IF job[p] = "pin" THEN "create" ELSE "done")
  /\ UNCHANGED <<file, mounts>>

(* Variant: removing the file takes what is mounted on it along. *)
Remove_Forced(p) ==
  /\ Step(p, "remove", IF job[p] = "pin" THEN "create" ELSE "done")
  /\ file' = FALSE
  /\ UNCHANGED mounts

(* A file that is mounted on stays; that is no error either. *)
Remove(p) ==
  /\ Step(p, "remove", IF job[p] = "pin" THEN "create" ELSE "done")
  /\ file' = (file /\ mounts # <<>>)
  /\ UNCHANGED mounts

(* Variant: without O_EXCL. *)
Create_Reuses(p) ==
  /\ Step(p, "create", "mount")
  /\ file' = TRUE
  /\ UNCHANGED mounts

(* O_CREATE|O_EXCL, and a namespace for the thread to pin. *)
Create(p) ==
  /\ Step(p, "create", IF file THEN "failed" ELSE "mount")
  /\ file' = TRUE
  /\ UNCHANGED mounts

(* On top of what is there, unless another process has removed the file. *)
Mount(p) ==
  /\ Step(p, "mount", IF file THEN "done" ELSE "failed")
  /\ mounts' = IF file THEN Append(mounts, [by |-> p, alone |-> alone[p]]) ELSE mounts
  /\ UNCHANGED file

(* The call fails, or the process is killed. *)
Die(p) == /\ p \in Running
          /\ faults < MaxFaults
          /\ faults' = faults + 1
          /\ pc' = [pc EXCEPT ![p] = "failed"]
          /\ UNCHANGED <<job, file, mounts, alone, overlaps>>

(* Unmount or remove is refused for some other reason: p takes no notice. *)
Overlook(p) == /\ pc[p] \in {"unmount", "remove"}
               /\ faults < MaxFaults
               /\ faults' = faults + 1
               /\ pc' = [pc EXCEPT ![p] = IF pc[p] = "unmount" THEN "remove"
                                          ELSE IF job[p] = "pin" THEN "create" ELSE "done"]
               /\ alone' = [alone EXCEPT ![p] = FALSE]
               /\ UNCHANGED <<job, file, mounts, overlaps>>

(* Podman's mount namespace goes, when nobody is in it. *)
LoseMounts == /\ Running = {}
              /\ faults < MaxFaults
              /\ faults' = faults + 1
              /\ mounts' = <<>>
              /\ alone' = [p \in Procs |-> FALSE]
              /\ UNCHANGED <<pc, job, file, overlaps>>

Call(p) == Unmount(p) \/ Remove(p) \/ Create(p) \/ Mount(p)

Next == \/ \E p \in Procs : \/ Call(p) \/ Die(p) \/ Overlook(p)
                       \/ \E j \in {"pin", "unpin"} : Start(p, j)
        \/ LoseMounts

(* A process runs on until it ends, and the operator tries up again. *)
Fairness == \A p \in Procs : WF_vars(Call(p)) /\ SF_vars(Start(p, "pin"))

Spec == Init /\ [][Next]_vars /\ Fairness

------------------------------------------------------------------------------
(***************************************************************************)
(* Properties.                                                             *)
(***************************************************************************)
TypeOK ==
  /\ pc \in [Procs -> Over \union Calls]
  /\ job \in [Procs -> {"pin", "unpin"}]
  /\ file \in BOOLEAN
  /\ mounts \in Seq([by : Procs, alone : BOOLEAN])
  /\ alone \in [Procs -> BOOLEAN]
  /\ faults \in Nat /\ overlaps \in Nat
  /\ mounts # <<>> => file

(* A stack of mounts is the work of runs that overlapped: as long as they come
   one after another, whatever they leave when they are cut short, a path pins
   one namespace or none (netns.go:288-296, "a stale pin from a prior run is
   lazily unmounted + removed first"). *)
OnlyOverlapsStack == \A i \in DOMAIN mounts : Len(mounts) > 1 => ~mounts[i].alone

(* However many overlap and however often, none has two mounts on the path: the
   pile has at most one for each process (netns.go:297-301). *)
NoPileUp == \A i, j \in DOMAIN mounts : mounts[i].by = mounts[j].by => i = j

(* An up that ran alone, with no refusal unnoticed, has pinned its own namespace
   and nothing else, whatever it found; such a down leaves neither pin nor file,
   unless runs overlapped before it (netns.go:250-260, 288-312).  DownUnpins is
   about those. *)
Reported ==
  \A p \in Procs : pc[p] = "done" /\ alone[p] =>
    IF job[p] = "pin" THEN file /\ Len(mounts) = 1 /\ mounts[1].by = p
    ELSE overlaps = 0 => ~file /\ mounts = <<>>

(* What overlapping runs, runs cut short and lost mounts leave never blocks up
   for good (netns.go:250-253, "the next up's pin reclaims it"). *)
Reclaims == []<>(\E p \in Procs : pc[p] = "done" /\ job[p] = "pin" /\ alone[p])

------------------------------------------------------------------------------
(* What a comment says of the program, and it does not do. *)

(* netns.go:250-251: "a lazy unmount always detaches the netns": after a down
   that nothing interferes with none is pinned, whatever runs came before it. *)
DownUnpins ==
  \A p \in Procs : pc[p] = "done" /\ alone[p] /\ job[p] = "unpin" => mounts = <<>>
==============================================================================

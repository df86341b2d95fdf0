------------------------------ MODULE Provision ------------------------------
(***************************************************************************)
(* What a caller of netns.Bootstrap is promised, with no socket, child     *)
(* process or file descriptor in sight:                                    *)
(*                                                                         *)
(*   - the paths are re-pinned one at a time and in order, so at every     *)
(*     moment a prefix of them pins this call's namespaces, at most one    *)
(*     path pins nothing, and the rest is as the call found it;            *)
(*   - the call answers once: with a handle for every name, each on the    *)
(*     namespace its path pins, and then only when every path is pinned;   *)
(*     or with an error and no handle at all.                              *)
(*                                                                         *)
(* Bootstrap.tla implements this specification.                            *)
(***************************************************************************)
EXTENDS Namespaces

VARIABLES count,      \* number of specs of this call
          pin,        \* pin[k]: the namespace bind-mounted at the k-th path
          verdict,    \* "running", "ok" or "err"
          handles     \* the live Set: a function from names to namespaces

vars == <<count, pin, verdict, handles>>

Empty == [w \in {} |-> NoNs]

Done(k) == \A j \in 1..(k - 1) : pin[j] = Fresh(j)

Init == /\ count \in 0..N
        /\ pin \in [1..N -> -N..(N + 1)]
        /\ \A k \in 1..N : pin[k] \in {NoNs, Stale(k)}
        /\ verdict = "running"
        /\ handles = Empty

(* Drop the pin an earlier run left. *)
Detach == \E k \in 1..count :
            /\ Done(k)
            /\ pin[k] = Stale(k)
            /\ pin' = [pin EXCEPT ![k] = NoNs]
            /\ UNCHANGED <<count, verdict, handles>>

(* Pin a namespace nobody else has. *)
Pin == \E k \in 1..count :
         /\ Done(k)
         /\ pin[k] = NoNs
         /\ pin' = [pin EXCEPT ![k] = Fresh(k)]
         /\ UNCHANGED <<count, verdict, handles>>

Succeed == /\ verdict = "running"
           /\ Done(count + 1)
           /\ verdict' = "ok"
           /\ handles' = [w \in {SpecName[k] : k \in 1..count} |->
                            pin[CHOOSE k \in 1..count : SpecName[k] = w]]
           /\ UNCHANGED <<count, pin>>

Fail == /\ verdict = "running"
        /\ verdict' = "err"
        /\ UNCHANGED <<count, pin, handles>>

Next == Detach \/ Pin \/ Succeed \/ Fail

Spec == Init /\ [][Next]_vars
==============================================================================

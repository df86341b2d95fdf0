------------------------------- MODULE Zones -------------------------------
(***************************************************************************)
(* What nftlib.Load promises of the tables of one network namespace: a     *)
(* table is not there or is one of the rulesets wanted for it, whole; a    *)
(* load puts one in place of whatever was there, a teardown removes it,    *)
(* and neither touches a table of another name.                            *)
(***************************************************************************)
CONSTANTS Tables, Absent, Wanted(_)

VARIABLE zone

Init == zone = [t \in Tables |-> Absent]

Put(t)  == \E r \in Wanted(t) : zone' = [zone EXCEPT ![t] = r]
Drop(t) == zone' = [zone EXCEPT ![t] = Absent]

Next == \E t \in Tables : Put(t) \/ Drop(t)
Spec == Init /\ [][Next]_zone
=============================================================================

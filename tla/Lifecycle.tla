----------------------------- MODULE Lifecycle -----------------------------
(***************************************************************************)
(* What `turnip up` and `turnip down` promise of the namespaces they make, *)
(* with no pins, loops, interface names or sysctls in sight:               *)
(*                                                                         *)
(*   - a router comes to be bare -- it may already forward, for then the   *)
(*     host does -- gets its ruleset, then has every pin, and never goes   *)
(*     back: it stays as far as a run took it until it is destroyed;       *)
(*   - it is linked to another namespace only once it has come all the     *)
(*     way, and only to the init namespace or to one of the same run;      *)
(*   - a link goes with one of its ends, or is cut on the host's side.     *)
(*                                                                         *)
(* Fabric.tla implements this specification.                               *)
(***************************************************************************)
CONSTANTS Routers,   \* namespaces that can be a router's
          Guests,    \* namespaces that can be a container's
          Host,      \* the init namespace
          RunOf      \* RunOf[x]: the run that minted x

VARIABLES stage,     \* how far each router has come
          links      \* namespaces joined by an interface: {x, y}, or {x}

vars == <<stage, links>>

Namespaces == Routers \union Guests
Successor  == [none |-> "bare", bare |-> "ruled", ruled |-> "hardened"]

Init == stage = [x \in Routers |-> "none"] /\ links = {}

Advance(x) == /\ stage[x] # "hardened"
              /\ stage' = [stage EXCEPT ![x] = Successor[stage[x]]]
              /\ UNCHANGED links

Join(x, y) == /\ \A r \in {x, y} \intersect Routers : stage[r] = "hardened"
              /\ y # Host => RunOf[x] = RunOf[y]
              /\ links' = links \union {{x, y}}
              /\ UNCHANGED stage

Cut == /\ links' \subseteq links
       /\ \A l \in links \ links' : Host \in l
       /\ UNCHANGED stage

Destroy(x) == /\ stage' = [r \in Routers |-> IF r = x THEN "none" ELSE stage[r]]
              /\ links' = {l \in links : x \notin l}

Next == \/ Cut
        \/ \E x \in Routers : Advance(x)
        \/ \E x \in Namespaces, y \in Namespaces \union {Host} : Join(x, y)
        \/ \E x \in Namespaces : Destroy(x)

Spec == Init /\ [][Next]_vars
==============================================================================

----------------------------- MODULE Namespaces -----------------------------
(***************************************************************************)
(* The vocabulary netns.Bootstrap and its abstraction share: the Specs of  *)
(* one call and the network namespaces they end up on.                     *)
(***************************************************************************)
EXTENDS Integers

CONSTANTS N,          \* most Specs one call is asked for
          Names,      \* every name a Spec, or a message, may carry
          SpecName    \* SpecName[k] is the name of the k-th Spec

(* Spec names key a map ("router:<net>", "container:<name>"): they differ. *)
ASSUME SpecAssumption ==
  /\ N \in Nat
  /\ SpecName \in [1..N -> Names]
  /\ \A j, k \in 1..N : SpecName[j] = SpecName[k] => j = k

(***************************************************************************)
(* Namespaces are numbered by where they come from.                        *)
(***************************************************************************)
HostNs   == 0         \* the init namespace
Fresh(k) == k         \* minted by this call for its k-th Spec
Stale(k) == -k        \* left pinned at the k-th path by an earlier run
NoNs     == N + 1     \* no namespace: an empty path, a closed descriptor

NsId == -N..N
==============================================================================

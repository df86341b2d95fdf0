------------------------------ MODULE MCFabric ------------------------------
(* Configurations of Fabric for TLC. *)
EXTENDS Fabric

Plain(nets, conts, att, up, link) ==
  [nets |-> nets, conts |-> conts, att |-> att, up |-> up,
   host |-> [n \in Nets |-> n], link |-> link]

(* One network with an uplink, one container with a link beside it. *)
MCSingle == {Plain({1}, {1}, {<<1, 1>>}, {1}, {1})}

(* Two networks, one with an uplink, that share a container; a second
   container on one of them. *)
MCShared == Plain({1, 2}, {1, 2}, {<<1, 1>>, <<2, 1>>, <<2, 2>>}, {2}, {})

(* Every uplink of c names the same host interface. *)
OneHostIf(c) == [c EXCEPT !.host = [n \in Nets |-> 1]]

(* The file is edited between runs: a network goes, and its uplink's host
   interface becomes another's. *)
MCEdited == {OneHostIf(MCShared), OneHostIf(Plain({1}, {}, {}, {1}, {}))}
==============================================================================

------------------------------ MODULE MCPolicy ------------------------------
(* A small network for Policy: two containers, one peer, two host addresses. *)
EXTENDS Policy

CONSTANTS a, b, w, h, k

Internal(f, t, pr, po) ==
  [type |-> "internal", from |-> f, to |-> t, proto |-> pr, port |-> po]
Egress(f, ps, po) ==
  [type |-> "egress", from |-> f, protos |-> ps, port |-> po]
Ingress(t, pr, hp, po, l) ==
  [type |-> "ingress", to |-> t, proto |-> pr, hport |-> hp, port |-> po, listen |-> l]

(* Among the published ports: one on every address, the same one on one address
   in another row, and one on two addresses. *)
MCRows == {Internal(a, b, "tcp", 1), Internal(a, b, "udp", 2), Internal(b, a, "udp", 1),
           Internal(a, b, "icmp", 1),
           Egress(a, {"tcp", "icmp"}, 1), Egress(a, {Any}, Any), Egress(b, {"udp"}, Any),
           Ingress(b, "tcp", 1, 2, Any), Ingress(a, "tcp", 1, 1, h),
           Ingress(a, "udp", 1, 1, h), Ingress(b, "udp", 1, 2, k)}

(* Up to two rows, in either order. *)
MCFiles == {<<>>} \union {<<f>> : f \in MCRows}
                  \union {<<f, g>> : f, g \in MCRows}
==============================================================================

------------------------------- MODULE MCNft -------------------------------
(* One router table and two zones; in the program they are in namespaces of
   their own, here together, which leaves them more room to disturb. *)
EXTENDS Nft
MCEdges == {<<>>, <<"egress", "ingress">>}
MCDnats == {<<>>, <<"d2", "d1">>}
=============================================================================

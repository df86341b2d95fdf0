----------------------------- MODULE MCEpisode -----------------------------
(* Two networks, the first with an uplink, so that a router's episodes come
   after the direct writes of another. *)
EXTENDS Episode

MCUplinked == {1}
============================================================================

--------------------------- MODULE MCBuildPublish ---------------------------
(* Small instances of BuildPublish for TLC. *)
EXTENDS BuildPublishInvariant, TLC
CONSTANTS a1, a2, p, q
=============================================================================

--------------------------- MODULE MCPreviewLeases ---------------------------
(* PreviewLeases for TLC: every request comes from one caller, the case in *)
(* which the caps and the bulk revocation of concurrent requests meet.     *)
EXTENDS PreviewLeases, TLC

CONSTANT caller

OneOwner == [c \in Calls |-> caller]

Interchangeable == Permutations(Previews) \cup Permutations(Calls)
=============================================================================

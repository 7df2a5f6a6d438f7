----------------------------- MODULE MCSiteIndex -----------------------------
(* Two files claim slug 2, a file may name any slug as its canonical one,   *)
(* slug 3 is a section list.                                                *)
EXTENDS SiteIndex, TLC

OwnSlugs == 1 :> 1 @@ 2 :> 2 @@ 3 :> 2
PageBodies == {[canon |-> 1, links |-> {2}], [canon |-> 2, links |-> {1, 3}]}

Interchangeable == Permutations(Readers)
=============================================================================

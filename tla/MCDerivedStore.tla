---------------------------- MODULE MCDerivedStore ----------------------------
(* A page in two languages and the French home page; one may ask for a    *)
(* URL of its own, and two for the same one.                               *)
EXTENDS ReadTools

SiteFiles == {[key |-> <<"a">>, label |-> ""], [key |-> <<"a">>, label |-> "fr"], [key |-> <<"_index.fr">>, label |-> "fr"]}
SiteOrder == <<<<"a">>, <<"c">>, <<"fr", "a">>, <<"fr">>>>
SiteTexts == {[draft |-> FALSE, url |-> Null, links |-> {<<"c">>}],
              [draft |-> TRUE, url |-> Null, links |-> {}],
              [draft |-> FALSE, url |-> <<"c">>, links |-> {}]}

Plain(u) == [draft |-> FALSE, url |-> u, links |-> {}, rev |-> 1]
SiteTrees == {[f \in SiteFiles |-> IF f = [key |-> <<"a">>, label |-> "fr"] THEN Plain(<<"c">>) ELSE Plain(Null)]}
=============================================================================

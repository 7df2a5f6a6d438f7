---------------------------- MODULE MCSiteQueries ----------------------------
(* Bundle 1 in two languages of which the French page has no date, bundles  *)
(* 2 and 3 in one; bundle 3, tagged or not, and a draft of bundle 2 arrive   *)
(* by edits.  All but the English page of bundle 1 match the query, and the  *)
(* French page as the last of three, while two rows are read.               *)
EXTENDS SiteQueries, TLC

File(s, k, l, d, t) ==
    [slug |-> s, key |-> k, lang |-> l, date |-> d, terms |-> {"tag", "category"}, text |-> t,
     post |-> k # 3, draft |-> FALSE]

English == File(1, 1, "en", 2, {"tla"})
French == File(2, 1, "fr", 0, {"go", "tla"})
Second == [File(3, 2, "en", 1, {"go", "tla"}) EXCEPT !.terms = {"tag"}]
Redrafted == [Second EXCEPT !.date = 3, !.draft = TRUE]
Third == File(4, 3, "en", 3, {"go", "tla"})
Untagged == [Third EXCEPT !.terms = {}]

Everything == {English, French, Second, Redrafted, Third, Untagged}
Ranking == [p \in Everything |-> (2 * p.slug) % 5]
Opening == <<English, French, Second>>
Home == {[File(9, 9, "en", 1, {}) EXCEPT !.terms = {}]}
=============================================================================

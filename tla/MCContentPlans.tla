--------------------------- MODULE MCContentPlans ---------------------------
EXTENDS ContentPlans, TLC

CONSTANT Main           \* one of the callers

(* The calls are compared for equality only.                               *)
Interchangeable == Permutations(PlanCalls)

(* Bound: either Main is the only caller about and the clock stands, or    *)
(* the page has neither tags nor a translation, and the callers come back  *)
(* to its two contents while the clock runs.  Tags matter to the index,    *)
(* callers and time to the two stores.                                     *)
Alone ==
    /\ \A k \in PlanCalls : call[k].who \in {Main, Nobody}
    /\ \A p \in PlanIds : plans[p].who \in {Main, Nobody}
    /\ \A c \in Callers \ {Main}, x \in Contents : owed[c][x] = Nobody
Plain(x) == TagsOf(x) = {}
Untagged ==
    /\ ~shadowed /\ Plain(file)
    /\ \A p \in PlanIds : Plain(planRows[p].to)
    /\ \A k \in PlanCalls : Plain(call[k].to)
    /\ \A c \in Callers, x \in Contents : owed[c][x] # Nobody => Plain(x)
InScope == (Alone /\ clock = 0) \/ Untagged
=============================================================================

---------------------------- MODULE ContentPlans ----------------------------
(***************************************************************************)
(* plan_content_change, apply_content_plan and rollback_change on one      *)
(* page, with update_page as the third writer: the plan store (single use, *)
(* five minutes), the snapshot store (24 hours), both a map in memory over *)
(* rows of ephemeral_records, and the content lock, for which a call waits *)
(* up to ten seconds after it has looked its plan up.                      *)
(*                                                                         *)
(* A page's content is its tags and whether it is a draft; a revision is a *)
(* hash of the content, so it stands for it.  Of the source index its entry*)
(* of the page is kept, and which page of the slug GetBySlug answers with: *)
(* it knows no language, so it may be the page's translation, which does   *)
(* not change here.  Rate limits, change sets, the recovery journal and    *)
(* idempotency keys (PageMutation) are left out; dry runs stop before the  *)
(* first effect, and a request that asks for the content the page has is   *)
(* left out too.                                                           *)
(***************************************************************************)
EXTENDS Naturals, FiniteSets

CONSTANTS Tags, Draft,        \* marks a content has or not: its tags, draft
          Twin,         \* the content of the page's translation
          LanguageBlind,      \* the tools that take its entry by slug alone
          Callers,      \* a caller is a bearer token (isolationCallerKey)
          PlanIds, PlanCalls,
          Nobody,
          PlanTTL, SnapshotTTL, \* planTTL, snapshotTTL
          MaxSnapshots,       \* snapshotMaxEntries
          MaxClock,
          MaxPlanFaults,      \* bounds the failing writes and the restarts
          MaxBegun            \* bounds the calls begun

ASSUME PlansAssumption ==
    /\ Nobody \notin Callers \cup PlanCalls
    /\ {PlanTTL, SnapshotTTL, MaxClock, MaxPlanFaults, MaxBegun} \subseteq Nat
    /\ MaxSnapshots \in Nat \ {0}
    /\ LanguageBlind \subseteq {"apply", "update"}

PageMarks == Tags \cup {Draft}
Contents == SUBSET PageMarks
NoPlan == [who |-> Nobody, base |-> {}, to |-> {}, retags |-> FALSE, at |-> 0]
NoSnapshot == [who |-> Nobody, at |-> 0]

VARIABLES file,         \* the page
          index,        \* the page as the source index has it
          shadowed,     \* does GetBySlug answer with the translation?
          plans, planRows,   \* plan store: map and rows
          snaps, snapRows,   \* snapshot store, by revision: map and rows
          call, lock,   \* calls in flight; the holder of ContentMu
          clock, planFaults, begun,
          applied,      \* how often each plan has been written (history)
          owed,         \* when each caller last replaced each content (history)
          keeper        \* whose call last retained each content (history)

stores == <<plans, planRows, snaps, snapRows>>
bounds == <<clock, planFaults, begun>>
plansVars == <<file, index, shadowed, plans, planRows, snaps, snapRows, call, lock, clock,
          planFaults, begun, applied, owed, keeper>>

Unbegun == [pc |-> "idle", kind |-> Nobody, who |-> Nobody, plan |-> Nobody, at |-> 0,
         expected |-> {}, to |-> {}, retags |-> FALSE]

PlansInit ==
    /\ file \in Contents /\ index = file /\ shadowed \in BOOLEAN
    /\ plans = [p \in PlanIds |-> NoPlan] /\ planRows = plans
    /\ snaps = [x \in Contents |-> NoSnapshot] /\ snapRows = snaps
    /\ call = [k \in PlanCalls |-> Unbegun] /\ lock = Nobody
    /\ clock = 0 /\ planFaults = 0 /\ begun = 0
    /\ applied = [p \in PlanIds |-> 0]
    /\ owed = [c \in Callers |-> [x \in Contents |-> Nobody]]
    /\ keeper = [x \in Contents |-> Nobody]

PlanFault == planFaults < MaxPlanFaults /\ planFaults' = planFaults + 1 /\ UNCHANGED <<clock, begun>>

-----------------------------------------------------------------------------
(* resolvePlanOperations: an operation that does not apply is rejected and *)
(* leaves the marks alone, the others act on what those before them left.  *)
(* add_tag, remove_tag and set_draft each give or take a mark; the plan has*)
(* tags of its own only if one that applied was about a tag.               *)
TagsOf(c) == c \ {Draft}
Ops == [gives : BOOLEAN, mark : PageMarks]
ApplyOp(r, o) ==
    LET to == IF o.gives THEN r.to \cup {o.mark} ELSE r.to \ {o.mark}
    IN  [to |-> to, retags |-> r.retags \/ TagsOf(to) # TagsOf(r.to)]
ResolvePlanOperations(c, ops) ==
    ApplyOp(ApplyOp([to |-> c, retags |-> FALSE], ops[1]), ops[2])

Lives(e, ttl) == e.who # Nobody /\ clock - e.at <= ttl

(* pruneLocked: what is older than its lifetime goes.                      *)
Prune(store, ttl, none) ==
    [i \in DOMAIN store |-> IF Lives(store[i], ttl) THEN store[i] ELSE none]

(* get: the map first, then the row, and only for the owner.               *)
Lookup(map, rows, i, ttl) == IF Lives(map[i], ttl) THEN map[i] ELSE rows[i]
Retrievable(map, rows, i, ttl, c) ==
    LET e == Lookup(map, rows, i, ttl) IN Lives(e, ttl) /\ e.who = c

FindsPlan(p, c) == Retrievable(plans, planRows, p, PlanTTL, c)
FindsSnapshot(x, c) == Retrievable(snaps, snapRows, x, SnapshotTTL, c)

-----------------------------------------------------------------------------
(* planStore.put: the row first; a failing row keeps nothing.              *)
PutPlan(p, e) ==
    /\ planRows' = [planRows EXCEPT ![p] = e]
    /\ plans' = [Prune(plans, PlanTTL, NoPlan) EXCEPT ![p] = e]

(* plan_content_change: reads the page without the lock, keeps the exact   *)
(* candidate.                                                              *)
Plan(p, c, ops) ==
    LET r == ResolvePlanOperations(file, ops)
        e == [who |-> c, base |-> file, to |-> r.to, retags |-> r.retags, at |-> clock]
    IN  /\ e.to # file
        /\ planRows[p] = NoPlan /\ plans[p] = NoPlan /\ applied[p] = 0
        /\ PutPlan(p, e)
        /\ UNCHANGED <<file, index, shadowed, snaps, snapRows, call, lock, bounds, applied,
                       owed, keeper>>

(* A call up to the content lock.  apply_content_plan has its plan in hand *)
(* by then; update_page and rollback_change name the revision the caller   *)
(* has read.                                                               *)
Begin(k, r) ==
    /\ call[k] = Unbegun /\ r.to # r.expected
    /\ begun < MaxBegun /\ begun' = begun + 1
    /\ call' = [call EXCEPT ![k] = [r EXCEPT !.pc = "wait"]]
    /\ UNCHANGED <<file, index, shadowed, planRows, snaps, snapRows, lock, clock, planFaults,
                   applied, owed, keeper>>

ApplyPlan(k, p, c) ==
    /\ FindsPlan(p, c)
    /\ LET e == Lookup(plans, planRows, p, PlanTTL)
       IN  /\ plans' = [Prune(plans, PlanTTL, NoPlan) EXCEPT ![p] = e]
           /\ Begin(k, [Unbegun EXCEPT !.kind = "apply", !.who = c, !.plan = p,
                                    !.expected = e.base, !.to = e.to, !.retags = e.retags])

RollbackChange(k, c, x) ==
    /\ UNCHANGED plans
    /\ Begin(k, [Unbegun EXCEPT !.kind = "rollback", !.who = c, !.expected = file, !.to = x,
                             !.retags = TRUE])

(* update_page names the tags or leaves them as they are.                  *)
UpdatePage(k, c, x, retags) ==
    /\ UNCHANGED plans
    /\ retags \/ TagsOf(x) = TagsOf(file)
    /\ Begin(k, [Unbegun EXCEPT !.kind = "update", !.who = c, !.expected = file, !.to = x,
                             !.retags = retags])

-----------------------------------------------------------------------------
\* Mutant: the revision was compared before the wait and is not read again.
RevisionStands(k) == TRUE

(* The revision is compared under the lock.                                *)
RevisionMatches(k) == file = call[k].expected

(* trimLocked: the oldest entries leave the map, their rows stay.          *)
Trims(map) ==
    LET kept == {x \in Contents : map[x] # NoSnapshot}
        Oldest(gone) == \A x \in gone, y \in kept \ gone : map[x].at <= map[y].at
        Out == {gone \in SUBSET kept :
                   Cardinality(kept \ gone) =
                       (IF Cardinality(kept) > MaxSnapshots THEN MaxSnapshots ELSE Cardinality(kept))
                   /\ Oldest(gone)}
    IN  {[x \in Contents |-> IF x \in gone THEN NoSnapshot ELSE map[x]] : gone \in Out}

\* Mutant: the row is left to a later save.
PutMemory(x, c) ==
    /\ snaps' \in Trims([Prune(snaps, SnapshotTTL, NoSnapshot) EXCEPT ![x] = [who |-> c, at |-> clock]])
    /\ UNCHANGED snapRows

(* snapshotStore.put: one entry per revision, whoever owned it.            *)
PutSnapshot(x, c) ==
    /\ snaps' \in Trims([Prune(snaps, SnapshotTTL, NoSnapshot) EXCEPT ![x] = [who |-> c, at |-> clock]])
    /\ snapRows' = [snapRows EXCEPT ![x] = [who |-> c, at |-> clock]]

(* The lock is taken, the revision compared, the content to be replaced    *)
(* retained; update_page and rollback_change look nothing else up but the  *)
(* snapshot to restore.                                                    *)
TakeLock(k) ==
    /\ call[k].pc = "wait" /\ lock = Nobody
    /\ RevisionMatches(k)
    /\ call[k].kind = "rollback" => FindsSnapshot(call[k].to, call[k].who)
    /\ PutSnapshot(file, call[k].who)
    /\ keeper' = [keeper EXCEPT ![file] = call[k].who]
    /\ lock' = k
    /\ call' = [call EXCEPT ![k].pc = "write", ![k].at = clock]
    /\ UNCHANGED <<file, index, shadowed, plans, planRows, bounds, applied, owed>>

(* revision_conflict, snapshot_not_found, build_in_progress after ten      *)
(* seconds, persistence_error: the call ends, its plan is preserved.       *)
Refused(k) ==
    /\ call[k].pc = "wait"
    /\ call' = [call EXCEPT ![k] = Unbegun]
    /\ UNCHANGED <<file, index, shadowed, stores, lock, bounds, applied, owed, keeper>>

End(k) == call' = [call EXCEPT ![k] = Unbegun] /\ lock' = Nobody

(* AtomicWriteChecked.  Only apply_content_plan has a plan to consume.     *)
Write(k) ==
    /\ call[k].pc = "write"
    /\ file' = call[k].to
    /\ owed' = [owed EXCEPT ![call[k].who][file] = call[k].at]
    /\ IF call[k].kind = "apply"
       THEN /\ applied' = [applied EXCEPT ![call[k].plan] = @ + 1]
            /\ call' = [call EXCEPT ![k].pc = "consume"]
       ELSE /\ call' = [call EXCEPT ![k].pc = "sync"]
            /\ UNCHANGED applied
    /\ UNCHANGED <<index, shadowed, stores, lock, bounds, keeper>>

WriteFails(k) ==
    /\ call[k].pc = "write"
    /\ PlanFault
    /\ End(k)
    /\ UNCHANGED <<file, index, shadowed, stores, applied, owed, keeper>>

(* planStore.consume: the row first; when it cannot be deleted the plan    *)
(* stays.                                                                  *)
ConsumePlan(p) ==
    \/ /\ plans' = [Prune(plans, PlanTTL, NoPlan) EXCEPT ![p] = NoPlan]
       /\ planRows' = [planRows EXCEPT ![p] = NoPlan]
       /\ UNCHANGED bounds
    \/ /\ PlanFault
       /\ plans' = Prune(plans, PlanTTL, NoPlan)
       /\ UNCHANGED planRows

(* consumeAppliedContentPlan: either way the call goes on, and answers     *)
(* partial_success with a plan that stayed.                                *)
Consume(k) ==
    /\ call[k].pc = "consume"
    /\ ConsumePlan(call[k].plan)
    /\ call' = [call EXCEPT ![k].pc = "sync"]
    /\ UNCHANGED <<file, index, shadowed, snaps, snapRows, lock, applied, owed, keeper>>

(* The entry a call starts from.                                           *)
StartEntry(k) == IF shadowed /\ call[k].kind \in LanguageBlind THEN Twin ELSE index

\* Mutant: the index entry keeps the tags it had, as it keeps the draft mark.
EntryKeepsTags(k) == TagsOf(StartEntry(k)) \cup (call[k].to \cap {Draft})

(* The entry after a call: its tags are set only if the call has tags, and *)
(* apply_content_plan sets no draft mark.                                  *)
AppliedEntry(k) ==
    LET tags  == IF call[k].retags THEN call[k].to ELSE StartEntry(k)
        draft == IF call[k].kind = "apply" THEN StartEntry(k) ELSE call[k].to
    IN  TagsOf(tags) \cup (draft \cap {Draft})

(* The index is brought up to date, the answer recorded, the lock given    *)
(* back.                                                                   *)
Sync(k) ==
    /\ call[k].pc = "sync"
    /\ index' = AppliedEntry(k)
    /\ End(k)
    /\ UNCHANGED <<file, shadowed, stores, bounds, applied, owed, keeper>>

-----------------------------------------------------------------------------
(* list_page_snapshots: rows of the caller that have not expired, and what *)
(* is in the map for it.                                                   *)
ListEphemeralRecords(c) ==
    {x \in Contents : snapRows[x].who = c /\ Lives(snapRows[x], SnapshotTTL)}

ListSnapshots(c) ==
    ListEphemeralRecords(c)
        \cup {x \in Contents : snaps[x].who = c /\ Lives(snaps[x], SnapshotTTL)}

-----------------------------------------------------------------------------
(* The process dies; startup reads the index from the pages and sorts them *)
(* by slug alone, so that either translation may come last.                *)
ServerRestart ==
    /\ PlanFault
    /\ plans' = [p \in PlanIds |-> NoPlan] /\ snaps' = [x \in Contents |-> NoSnapshot]
    /\ call' = [k \in PlanCalls |-> Unbegun] /\ lock' = Nobody
    /\ index' = file /\ shadowed' \in BOOLEAN
    /\ UNCHANGED <<file, planRows, snapRows, applied, owed, keeper>>

Tick ==
    /\ clock < MaxClock
    /\ clock' = clock + 1
    /\ UNCHANGED <<file, index, shadowed, stores, call, lock, planFaults, begun, applied,
                   owed, keeper>>

PlansNext ==
    \/ \E c \in Callers : \/ \E p \in PlanIds, ops \in Ops \X Ops : Plan(p, c, ops)
                          \/ \E k \in PlanCalls : \/ \E p \in PlanIds : ApplyPlan(k, p, c)
                                                  \/ \E x \in Contents :
                                                        \/ RollbackChange(k, c, x)
                                                        \/ \E retags \in BOOLEAN : UpdatePage(k, c, x, retags)
    \/ \E k \in PlanCalls : TakeLock(k) \/ Refused(k) \/ Write(k) \/ WriteFails(k) \/ Consume(k) \/ Sync(k)
    \/ ServerRestart \/ Tick

PlansSpec == PlansInit /\ [][PlansNext]_plansVars

-----------------------------------------------------------------------------
(* No edit is lost: whatever waited for the lock in between, a call        *)
(* replaces exactly the content its plan was computed from, or the one its *)
(* caller has read.                                                        *)
NoEditLost ==
    [][file' # file => \E k \in PlanCalls : /\ call[k].pc = "write"
                                            /\ file = call[k].expected
                                            /\ file' = call[k].to]_plansVars

(* What was replaced within 24 hours is listed and can be restored, across *)
(* evictions from the map, failing writes and restarts: by the last caller *)
(* whose call retained it, and by no other.                                *)
SnapshotsHaveOneKeeper ==
    \A x \in Contents :
        /\ \A c \in Callers : FindsSnapshot(x, c) \/ x \in ListSnapshots(c) => c = keeper[x]
        /\ (\E c \in Callers : owed[c][x] # Nobody /\ clock - owed[c][x] <= SnapshotTTL) =>
              keeper[x] \in Callers /\ FindsSnapshot(x, keeper[x]) /\ x \in ListSnapshots(keeper[x])

(* "Caller-isolated, 24h-retained" (docs/tools.md): whoever replaced a     *)
(* content finds it listed and can restore it until then.  With several    *)
(* callers the code does not keep this: another's call takes the snapshot  *)
(* over (README, section 6).                                               *)
SnapshotsAreKept ==
    \A c \in Callers, x \in Contents :
        (owed[c][x] # Nobody /\ clock - owed[c][x] <= SnapshotTTL) =>
            FindsSnapshot(x, c) /\ x \in ListSnapshots(c)

(* Whichever of the three tools wrote last, and whatever became of its     *)
(* plan, the index has the page's tags when the lock is free, or those of  *)
(* the translation GetBySlug answers with, and never others.               *)
TagsAreIndexed ==
    lock = Nobody => \/ TagsOf(index) = TagsOf(file)
                     \/ shadowed /\ TagsOf(index) = TagsOf(Twin)

(* "The server must not claim a clean success when the committed primary   *)
(* state and the derived/read/public state diverge"                        *)
(* (docs/partial-failure-matrix.md): the index has the page's tags.  The   *)
(* code does not keep this for a page with a translation (README, 6).      *)
TagsAreThePages == lock = Nobody => TagsOf(index) = TagsOf(file)

(* rollback_change.go says of the index entry that every field ends up     *)
(* reassigned; apply_content_plan leaves the draft mark as it was until    *)
(* the index is next read from the pages (no run checks this; README,      *)
(* section 6).                                                             *)
DraftsAreIndexed == lock = Nobody => index = file

(* "A plan is single-use": no plan is written twice.  No run checks this:  *)
(* the code does not keep it (README, section 6).                          *)
PlanAppliedOnce == \A p \in PlanIds : applied[p] <= 1
=============================================================================

--------------------------- MODULE BundleMutation ---------------------------
(***************************************************************************)
(* The calls that change several translations of one page bundle at once:  *)
(* plan_bundle_change and apply_bundle_plan, rollback_bundle,              *)
(* create_bundle, delete_bundle; with the plans and snapshots they keep,   *)
(* the files written one by one, the rollback in the process when a write  *)
(* fails, and what the next start makes of a bundle the process left torn. *)
(*                                                                         *)
(* As in PageMutation a revision is the content it names; the revision of  *)
(* a bundle is the contents of all its files.                              *)
(***************************************************************************)
EXTENDS Naturals

CONSTANTS
  Clients,        \* the calls that can be open at one time
  Callers,        \* who makes them; one caller may have several calls open
  CallerOf,       \* the caller of each call
  Langs, Assets,  \* the translation files of the bundle, and its other files
  Contents,       \* what a file can hold
  Blank,          \* the content of an empty file
  Absent,         \* no such file
  Keys, NoKey,    \* idempotency keys, and a call without one
  NoClient,       \* nobody holds the content lock
  NoPlan,         \* the plan of a call that applies none
  Unused,         \* an idempotency key nothing is recorded under
  Asks,           \* what each call can ask for
  InitialDisks,   \* what the bundle may hold when the history starts
  MaxCalls,       \* bound: calls made
  MaxCrashes,     \* bound: process deaths
  MaxTroubles     \* bound: failed SQLite writes, failed file operations, and changes
                  \* made by other tools, together

Mutating  == {"apply_bundle_plan", "rollback_bundle", "create_bundle", "delete_bundle"}
Tools     == Mutating \cup {"plan_bundle_change"}
Files     == Langs \cup Assets
Revisions == Contents \cup {Absent}
Bundles   == [Files -> Revisions]
Partial   == UNION {[L -> Revisions] : L \in SUBSET Langs}
Slots     == Callers \X Mutating \X Keys
Plans     == [id : Nat, client : Callers, base : Bundles, seen : Partial, after : Partial]
Requests  == [tool : Tools, key : Keys \cup {NoKey}, files : Partial,
              plan : Plans \cup {NoPlan}, to : Bundles, expected : Bundles]
Empty     == [f \in Files |-> Absent]
Nothing   == [l \in {} |-> Absent]

ASSUME FilesDiffer ==
  /\ Langs \cap Assets = {} /\ Absent \notin Contents /\ Blank \in Contents
  /\ NoKey \notin Keys /\ NoClient \notin Clients /\ Unused \notin Requests

ASSUME CallsHaveCallers == CallerOf \in [Clients -> Callers]

ASSUME AsksAreValid ==
  /\ \A c \in Clients : \A a \in Asks[c] :
       a.tool \in Tools /\ a.files \in Partial /\ a.key \in Keys \cup {NoKey}
  /\ InitialDisks \subseteq Bundles

ASSUME BoundsAreFinite ==
  MaxCalls \in Nat /\ MaxCrashes \in Nat /\ MaxTroubles \in Nat

VARIABLES
  disk,      \* durable: the content of each file
  shadow,    \* durable: the rows derived from the translations
  plans,     \* durable: plans neither consumed nor expired
  kept,      \* durable: snapshots, at most one for each bundle revision
  journal,   \* durable: recovery entries neither committed nor reconciled
  idem,      \* durable: the request recorded under each idempotency key
  idx,       \* volatile: the in-memory source index
  lock,      \* volatile: the holder of ContentMu
  phase, todo, resolved, landed,  \* volatile: startup and its journal entries
  pc, req, loc, ans,  \* per open call: where it is, what it asks for, the handler's
                      \* locals, and the last answer
  made,      \* history: the plans handed out
  applied,   \* history: how often a keyed call has changed the bundle
  overlapped, \* history: the keys that two open calls have both found unused
  damaged,   \* history: has a failure left something that nothing repairs
  ops, calls, edits, crashes, failures   \* counters, each with a bound

startup == <<phase, todo, resolved, landed>>
counts  == <<ops, calls, edits, crashes, failures>>
vars    == <<disk, shadow, plans, kept, journal, idem, idx, lock, startup, pc, req, loc,
             ans, made, applied, overlapped, damaged, counts>>

Only(b, L) == [l \in L |-> b[l]]
Over(w, b) == [f \in DOMAIN b |-> IF f \in DOMAIN w THEN w[f] ELSE b[f]]
Present    == {l \in Langs : disk[l] # Absent}  \* BundleTranslations
IsBundle   == Present # {}    \* resolveBundleDir
Gone       == Present = {}    \* ~bundleHasRemainingLangFiles
Revision   == disk            \* BundleRevision: equal if and only if every file is

\* The handler's locals: the translations as they were and as they will be, those
\* written so far, and the journal entry.
NoEntry  == [id |-> 0]
NoLocals == [before |-> Nothing, after |-> Nothing, done |-> {}, entry |-> NoEntry]

Init ==
  /\ disk \in InitialDisks
  /\ shadow = Only(disk, Langs) /\ idx = shadow
  /\ plans = {} /\ kept = {} /\ journal = {} /\ made = {}
  /\ idem = [s \in Slots |-> Unused] /\ applied = [s \in Slots |-> 0]
  /\ overlapped = {}
  /\ lock = NoClient
  /\ phase = "up" /\ todo = {} /\ resolved = {} /\ landed = {}
  /\ pc = [c \in Clients |-> "idle"]
  /\ req = [c \in Clients |-> Unused]
  /\ loc = [c \in Clients |-> NoLocals]
  /\ ans = [c \in Clients |-> "none"]
  /\ damaged = FALSE
  /\ ops = 0 /\ calls = 0 /\ edits = 0 /\ crashes = 0 /\ failures = 0

---------------------------------------------------------------------------
\* Helpers of the handlers.

Keyed(r)    == r.key # NoKey
Slot(c)     == <<CallerOf[c], req[c].tool, req[c].key>>
Recorded(c) == Keyed(req[c]) /\ idem[Slot(c)] # Unused
Troubled    == edits + failures >= MaxTroubles
Fails       == ~Troubled /\ failures' = failures + 1
Goto(c, label) == pc' = [pc EXCEPT ![c] = label]
Lifecycle(r)   == r.tool \in {"create_bundle", "delete_bundle"}
LocksFirst(r)  == Lifecycle(r) /\ Keyed(r)
\* A keyed apply or rollback has found its key unused, and does not look again.
PastKey(c) ==
  pc[c] \notin {"idle", "read", "admit"} /\ Keyed(req[c]) /\ ~Lifecycle(req[c])

\* The handler returns: the deferred unlock runs and the locals are gone.
Answer(c, a) ==
  /\ Goto(c, "idle")
  /\ ans' = [ans EXCEPT ![c] = a]
  /\ loc' = [loc EXCEPT ![c] = NoLocals]
  /\ lock' = IF lock = c THEN NoClient ELSE lock

AnswerOnly(c, a) ==
  /\ Answer(c, a)
  /\ UNCHANGED <<disk, shadow, plans, kept, journal, idem, idx, startup, req, made,
                 applied, overlapped, damaged, counts>>

\* The handler goes on to `label` with new locals and changes nothing shared.
Proceed(c, label, locals) ==
  /\ Goto(c, label)
  /\ loc' = [loc EXCEPT ![c] = locals]
  /\ UNCHANGED <<disk, shadow, plans, kept, journal, idem, idx, lock, startup, req, ans,
                 made, applied, overlapped, damaged, counts>>

---------------------------------------------------------------------------
\* A call arrives whose arguments pass the checks at the head of its handler: one the
\* client asks for in terms of what it can know (a plan it was given, a revision a
\* snapshot was filed under, the bundle as it is now), or a call its caller has made
\* before, again: answered, lost, or still open.
Call(a) == [tool |-> a.tool, key |-> a.key, files |-> a.files,
            plan |-> NoPlan, to |-> Empty, expected |-> Empty]
Calls(a) ==
  CASE a.tool \in {"plan_bundle_change", "create_bundle"} -> {Call(a)}
    [] a.tool = "apply_bundle_plan" -> {[Call(a) EXCEPT !.plan = p] : p \in made}
    [] a.tool = "rollback_bundle" ->
         {[Call(a) EXCEPT !.to = s.rev, !.expected = Revision] : s \in kept}
    [] a.tool = "delete_bundle" -> {[Call(a) EXCEPT !.files = Only(disk, DOMAIN a.files)]}
Again(c) == {r \in {req[d] : d \in {e \in Clients : CallerOf[e] = CallerOf[c]}} :
               r # Unused /\ r.tool \in Mutating}

Submit(c) ==
  /\ phase = "up" /\ pc[c] = "idle" /\ calls < MaxCalls
  /\ calls' = calls + 1
  /\ \E r \in (UNION {Calls(a) : a \in Asks[c]}) \cup Again(c) :
       /\ req' = [req EXCEPT ![c] = r]
       /\ Goto(c, IF r.tool \notin Mutating THEN "read"
                  ELSE IF LocksFirst(r) THEN "lock" ELSE "admit")
  /\ ans' = [ans EXCEPT ![c] = "none"]
  /\ UNCHANGED <<disk, shadow, plans, kept, journal, idem, idx, lock, startup, loc, made,
                 applied, overlapped, damaged, ops, edits, crashes, failures>>

\* plan_bundle_change reads the translations one by one, without the lock ...
PlanRead(c) ==
  /\ pc[c] = "read"
  /\ \E l \in DOMAIN req[c].files \ DOMAIN loc[c].before :
       IF disk[l] = Absent THEN AnswerOnly(c, "not_found")
       ELSE Proceed(c, "read", [loc[c] EXCEPT !.before =
              [m \in DOMAIN @ \cup {l} |-> IF m = l THEN disk[l] ELSE @[m]]])

\* bundlePlanStore.put, get; bundleSnapshotStore.get
Put(p)      == plans' = plans \cup {p}
Holds(c, p) == p \in plans /\ p.client = CallerOf[c]
Found(c)    == {s \in kept : s.rev = req[c].to /\ s.client = CallerOf[c]}

\* ... and then takes the revision of the bundle the plan will be applied to.
PlanMake(c) ==
  LET p == [id |-> ops + 1, client |-> CallerOf[c], base |-> Revision,
            seen |-> loc[c].before, after |-> req[c].files]
  IN /\ pc[c] = "read" /\ DOMAIN loc[c].before = DOMAIN req[c].files
     /\ ops' = ops + 1
     /\ Put(p) /\ made' = made \cup {p}
     /\ Answer(c, "planned")
     /\ UNCHANGED <<disk, shadow, kept, journal, idem, idx, startup, req, applied,
                    overlapped, damaged, calls, edits, crashes, failures>>

\* The time to live of a plan, or of a snapshot, is over, or its store is full.
ExpirePlan     == \E p \in plans : plans' = plans \ {p} /\ UNCHANGED kept
ExpireSnapshot == \E s \in kept : kept' = kept \ {s} /\ UNCHANGED plans
Expire ==
  /\ phase = "up"
  /\ ExpirePlan \/ ExpireSnapshot
  /\ UNCHANGED <<disk, shadow, journal, idem, idx, lock, startup, pc, req, loc, ans, made,
                 applied, overlapped, damaged, counts>>

\* The key is known: the recorded answer, or idempotency_conflict. rollback_bundle
\* looks for the bundle first.
ConsultsKey(c) ==
  pc[c] = "admit" /\ (req[c].tool = "rollback_bundle" => IsBundle)
Replay(c) ==
  /\ ConsultsKey(c) /\ Recorded(c)
  /\ AnswerOnly(c, IF idem[Slot(c)] = req[c] THEN "replayed" ELSE "idempotency_conflict")

\* A refusal that leaves nothing behind: no quota left, a store that cannot be read
\* or written, a content the policy forbids by now.
Refuse(c) ==
  pc[c] \in {"read", "admit", "check", "snapshot", "begin"} /\ AnswerOnly(c, "refused")

\* The call goes on to the lock. Its key was unused, and is not looked up again.
Wait(c, locals) ==
  /\ Goto(c, "lock")
  /\ loc' = [loc EXCEPT ![c] = locals]
  /\ overlapped' = overlapped \cup
       {s \in {Slot(c)} : \E d \in Clients \ {c} : PastKey(d) /\ Slot(d) = s}
  /\ UNCHANGED <<disk, shadow, plans, kept, journal, idem, idx, lock, startup, req, ans,
                 made, applied, damaged, counts>>

\* apply_bundle_plan looks the plan up, and leaves it there, before it locks.
ApplyAdmit(c) ==
  /\ pc[c] = "admit" /\ req[c].tool = "apply_bundle_plan" /\ ~Recorded(c)
  /\ IF Holds(c, req[c].plan)
     THEN Wait(c, [loc[c] EXCEPT !.after = req[c].plan.after])
     ELSE AnswerOnly(c, "plan_not_found")

RollbackAdmit(c) ==
  /\ pc[c] = "admit" /\ req[c].tool = "rollback_bundle"
  /\ IF ~IsBundle THEN AnswerOnly(c, "not_a_bundle")
     ELSE ~Recorded(c) /\ Wait(c, loc[c])

\* create_bundle and delete_bundle look at the files under the lock when the call has
\* a key, before it when it has none.
AfterAdmit(c, label) == IF lock = c THEN label ELSE "lock"
CreateAdmit(c) ==
  /\ pc[c] = "admit" /\ req[c].tool = "create_bundle" /\ ~Recorded(c)
  /\ IF DOMAIN req[c].files \cap Present # {} THEN AnswerOnly(c, "already_exists")
     ELSE Proceed(c, AfterAdmit(c, "begin"),
                  [loc[c] EXCEPT !.after = req[c].files,
                                 !.before = [l \in DOMAIN req[c].files |-> Absent]])
DeleteAdmit(c) ==
  /\ pc[c] = "admit" /\ req[c].tool = "delete_bundle" /\ ~Recorded(c)
  /\ IF ~(DOMAIN req[c].files \subseteq Present) THEN AnswerOnly(c, "not_found")
     ELSE IF Only(disk, DOMAIN req[c].files) # req[c].files
     THEN AnswerOnly(c, "revision_conflict")
     ELSE Proceed(c, AfterAdmit(c, "check"),
                  [loc[c] EXCEPT !.before = req[c].files,
                                 !.after = [l \in DOMAIN req[c].files |-> Absent]])

\* TryLock succeeds within the ten seconds the handler polls, or does not.
AcquireLock(c) ==
  /\ pc[c] = "lock" /\ lock = NoClient
  /\ lock' = c
  /\ Goto(c, IF LocksFirst(req[c]) THEN "admit"
             ELSE IF req[c].tool = "create_bundle" THEN "begin" ELSE "check")
  /\ UNCHANGED <<disk, shadow, plans, kept, journal, idem, idx, startup, req, loc, ans,
                 made, applied, overlapped, damaged, counts>>
LockTimeout(c) == pc[c] = "lock" /\ lock # NoClient /\ AnswerOnly(c, "build_in_progress")

\* Under the lock: the bundle is still the one the plan was made for.
ApplyCheck(c) ==
  /\ pc[c] = "check" /\ req[c].tool = "apply_bundle_plan"
  /\ IF Revision # req[c].plan.base THEN AnswerOnly(c, "bundle_conflict")
     ELSE Proceed(c, "snapshot", [loc[c] EXCEPT !.before = Only(disk, DOMAIN loc[c].after)])

\* The bundle is the one the caller expects, and its snapshot of the revision asked
\* for is there. An empty file is no valid page.
RollbackCheck(c) ==
  LET same == Revision = req[c].expected
  IN /\ pc[c] = "check" /\ req[c].tool = "rollback_bundle"
     /\ \/ ~same /\ AnswerOnly(c, "bundle_conflict")
        \/ same /\ Found(c) = {} /\ AnswerOnly(c, "snapshot_not_found")
        \/ /\ same
           /\ \E s \in Found(c) :
                IF \E l \in DOMAIN s.files : s.files[l] = Blank
                THEN AnswerOnly(c, "validation_error")
                ELSE Proceed(c, "snapshot",
                       [loc[c] EXCEPT !.after = s.files,
                                      !.before = Only(disk, DOMAIN s.files)])

\* delete_bundle reads its files again.
DeleteCheck(c) ==
  /\ pc[c] = "check" /\ req[c].tool = "delete_bundle"
  /\ IF Only(disk, DOMAIN req[c].files) # req[c].files
     THEN AnswerOnly(c, "revision_conflict") ELSE Proceed(c, "begin", loc[c])

---------------------------------------------------------------------------
\* captureBundleTranslations: a missing file is captured as an empty one.
Captured(w) == [l \in DOMAIN w |-> IF w[l] = Absent THEN Blank ELSE w[l]]

\* What the call replaces is filed under the revision the bundle has.
Snapshot(c) ==
  /\ pc[c] = "snapshot"
  /\ kept' = {s \in kept : s.rev # Revision} \cup
             {[rev |-> Revision, client |-> CallerOf[c], files |-> Captured(loc[c].before)]}
  /\ Goto(c, "begin")
  /\ UNCHANGED <<disk, shadow, plans, journal, idem, idx, lock, startup, req, loc, ans,
                 made, applied, overlapped, damaged, counts>>

\* The recovery journal records every file before and after.
Cleans(c) == req[c].tool = "delete_bundle" /\ Present \subseteq DOMAIN req[c].files
Begin(c) ==
  LET e == [id |-> ops + 1, client |-> c, req |-> req[c], before |-> loc[c].before,
            after |-> loc[c].after, cleanup |-> Cleans(c)]
  IN /\ pc[c] = "begin"
     /\ ops' = ops + 1
     /\ journal' = journal \cup {e}
     /\ loc' = [loc EXCEPT ![c].entry = e]
     /\ Goto(c, "write")
     /\ UNCHANGED <<disk, shadow, plans, kept, idem, idx, lock, startup, req, ans, made,
                    applied, overlapped, damaged, calls, edits, crashes, failures>>

\* The files are written, or unlinked, one by one; a create never replaces a file.
AfterWrite(r) ==
  CASE r.tool = "apply_bundle_plan" -> "consume"
    [] r.tool = "delete_bundle" -> "tidy"
    [] OTHER -> "reconcile"
Exists(c, l) == req[c].tool = "create_bundle" /\ disk[l] # Absent
Remaining(c) == DOMAIN loc[c].after \ loc[c].done
\* A keyed call has changed the bundle once more.
Effect(c) ==
  applied' = IF Keyed(req[c]) /\ loc[c].before # loc[c].after
             THEN [applied EXCEPT ![Slot(c)] = @ + 1] ELSE applied
WriteFile(c) ==
  /\ pc[c] = "write"
  /\ \E l \in Remaining(c) :
       /\ ~Exists(c, l)
       /\ disk' = [disk EXCEPT ![l] = loc[c].after[l]]
       /\ loc' = [loc EXCEPT ![c].done = @ \cup {l}]
       /\ IF Remaining(c) = {l} THEN Goto(c, AfterWrite(req[c])) /\ Effect(c)
                                ELSE UNCHANGED <<pc, applied>>
  /\ UNCHANGED <<shadow, plans, kept, journal, idem, idx, lock, startup, req, ans, made,
                 overlapped, damaged, counts>>

\* A file cannot be written, or a create finds it there: the call undoes its writes.
WriteFails(c) ==
  /\ pc[c] = "write"
  /\ Fails \/ ((\E l \in Remaining(c) : Exists(c, l)) /\ UNCHANGED failures)
  /\ Goto(c, "undo")
  /\ UNCHANGED <<disk, shadow, plans, kept, journal, idem, idx, lock, startup, req, loc,
                 ans, made, applied, overlapped, damaged, ops, calls, edits, crashes>>

\* One file is put back: a created one removed, a deleted one written, any other one
\* as it was captured. A failure to do so is ignored or logged.
PutBack(c, l) ==
  IF Lifecycle(req[c]) THEN loc[c].before[l] ELSE Captured(loc[c].before)[l]
Undo(c) ==
  /\ pc[c] = "undo"
  /\ \E l \in loc[c].done :
       /\ loc' = [loc EXCEPT ![c].done = @ \ {l}]
       /\ \/ /\ disk' = [disk EXCEPT ![l] = PutBack(c, l)]
             /\ damaged' = (damaged \/ PutBack(c, l) # loc[c].before[l])
             /\ UNCHANGED failures
          \/ Fails /\ damaged' = TRUE /\ UNCHANGED disk
  /\ UNCHANGED <<shadow, plans, kept, journal, idem, idx, lock, startup, pc, req, ans,
                 made, applied, overlapped, ops, calls, edits, crashes>>
\* The journal keeps the entry of a call that changed nothing.
RolledBack(c) == pc[c] = "undo" /\ loc[c].done = {} /\ AnswerOnly(c, "rolled_back")

\* The last translation is gone: os.RemoveAll of the bundle directory.
Tidy(c) ==
  /\ pc[c] = "tidy"
  /\ disk' = IF Gone THEN Empty ELSE disk
  /\ Goto(c, "reconcile")
  /\ UNCHANGED <<shadow, plans, kept, journal, idem, idx, lock, startup, req, loc, ans,
                 made, applied, overlapped, damaged, counts>>
TidyFails(c) ==
  /\ pc[c] = "tidy" /\ Gone /\ Fails
  /\ Answer(c, "delete_error") /\ damaged' = TRUE
  /\ UNCHANGED <<disk, shadow, plans, kept, journal, idem, idx, startup, req, made,
                 applied, overlapped, ops, calls, edits, crashes>>

\* The plan is consumed; a failure to do so is a warning.
Consume(c) ==
  /\ pc[c] = "consume"
  /\ \/ plans' = plans \ {req[c].plan} /\ UNCHANGED failures
     \/ Fails /\ UNCHANGED plans
  /\ Goto(c, "reconcile")
  /\ UNCHANGED <<disk, shadow, kept, journal, idem, idx, lock, startup, req, loc, ans,
                 made, applied, overlapped, damaged, ops, calls, edits, crashes>>

\* The index, then the derived rows; a failed row update is only a warning.
\* Mutant: every delete drops the whole bundle from the copy.
DerivedWholeBundle(c, copy) ==
  IF req[c].tool = "delete_bundle" THEN Only(Empty, Langs) ELSE Over(loc[c].after, copy)
Derived(c, copy) ==
  IF req[c].tool = "delete_bundle" /\ Gone THEN Only(Empty, Langs)
  ELSE Over(loc[c].after, copy)
Reconcile(c) ==
  /\ pc[c] = "reconcile"
  /\ idx' = Derived(c, idx)
  /\ \/ shadow' = Derived(c, shadow) /\ UNCHANGED failures
     \/ Fails /\ UNCHANGED shadow
  /\ Goto(c, "stage")
  /\ UNCHANGED <<disk, plans, kept, journal, idem, lock, startup, req, loc, ans, made,
                 applied, overlapped, damaged, ops, calls, edits, crashes>>

\* stageResult stores the answer in the journal entry, or the call ends.
Stage(c) == pc[c] = "stage" /\ Proceed(c, "remember", loc[c])
StageFails(c) ==
  /\ pc[c] = "stage" /\ Fails
  /\ Answer(c, "persistence_error")
  /\ UNCHANGED <<disk, shadow, plans, kept, journal, idem, idx, startup, req, made,
                 applied, overlapped, damaged, ops, calls, edits, crashes>>

\* remember records the answer under the caller's key; a failure is a warning.
Remember(c) ==
  /\ pc[c] = "remember"
  /\ \/ /\ idem' = IF Keyed(req[c]) THEN [idem EXCEPT ![Slot(c)] = req[c]] ELSE idem
        /\ UNCHANGED failures
     \/ Keyed(req[c]) /\ Fails /\ UNCHANGED idem
  /\ Goto(c, "commit")
  /\ UNCHANGED <<disk, shadow, plans, kept, journal, idx, lock, startup, req, loc, ans,
                 made, applied, overlapped, damaged, ops, calls, edits, crashes>>

\* The entry is marked committed (a failure is a warning) and the call succeeds.
Commit(c) ==
  /\ pc[c] = "commit"
  /\ \/ journal' = journal \ {loc[c].entry} /\ UNCHANGED failures
     \/ Fails /\ UNCHANGED journal
  /\ Answer(c, "success")
  /\ UNCHANGED <<disk, shadow, plans, kept, idem, idx, startup, req, made, applied,
                 overlapped, damaged, ops, calls, edits, crashes>>

---------------------------------------------------------------------------
\* Another tool that takes the content lock (PageMutation opens it up) writes or
\* removes one file; with the last translation goes the bundle.
EditPage ==
  /\ phase = "up" /\ lock = NoClient /\ ~Troubled
  /\ edits' = edits + 1
  /\ \E f \in Files, v \in Revisions \ {Blank} :
       LET b == [disk EXCEPT ![f] = v]
       IN  /\ b # disk /\ (f \in Assets => Present # {})
           /\ disk' = IF \E l \in Langs : b[l] # Absent THEN b ELSE Empty
           /\ idx' = Over(Only(disk', Langs \cap {f}), idx)
           /\ shadow' = Over(Only(disk', Langs \cap {f}), shadow)
  /\ UNCHANGED <<plans, kept, journal, idem, lock, startup, pc, req, loc, ans, made,
                 applied, overlapped, damaged, ops, calls, crashes, failures>>

\* The process dies: what is in memory is gone, open calls never hear an answer. An
\* entry that has outlived its call will be taken for one that was under way, and a
\* file that a create found there for one that it wrote.
Outlived(e)   == \A c \in Clients : loc[c].entry # e
FoundThere(e) == \E l \in Remaining(e.client) : Exists(e.client, l)
Crash ==
  /\ phase # "down" /\ crashes < MaxCrashes
  /\ crashes' = crashes + 1
  /\ phase' = "down" /\ todo' = {} /\ resolved' = {} /\ landed' = {}
  /\ lock' = NoClient /\ idx' = Only(Empty, Langs)
  /\ pc' = [c \in Clients |-> "idle"]
  /\ loc' = [c \in Clients |-> NoLocals]
  /\ ans' = [c \in Clients |-> IF pc[c] = "idle" THEN ans[c] ELSE "lost"]
  /\ damaged' = (damaged \/ (phase = "up" /\ \E e \in journal : Outlived(e) \/ FoundThere(e)))
  /\ UNCHANGED <<disk, shadow, plans, kept, journal, idem, req, made, applied, overlapped,
                 ops, calls, edits, failures>>

StartupFrame ==
  UNCHANGED <<plans, kept, lock, pc, req, loc, ans, made, applied, overlapped, ops, calls,
              edits, crashes>>

\* NewSourceIndex reads the content tree; PendingRecovery lists the journal.
BootIndex ==
  /\ phase = "down"
  /\ phase' = "prepare" /\ todo' = journal /\ idx' = Only(disk, Langs)
  /\ UNCHANGED <<disk, shadow, journal, idem, resolved, landed, damaged, failures>>
  /\ StartupFrame

\* reconcileBundleFiles: each file is in the state before or after the write, all of
\* them in one, or some in each.
\* Mutant: one file after the write makes the write a landed one.
SomeAfter(e) == \E l \in DOMAIN e.after : disk[l] = e.after[l]
AsBefore(e) == \A l \in DOMAIN e.after : disk[l] = e.before[l]
AsAfter(e)  == \A l \in DOMAIN e.after : disk[l] = e.after[l]
Known(e)    == \A l \in DOMAIN e.after : disk[l] \in {e.before[l], e.after[l]}
Torn(e)     == Known(e) /\ ~AsBefore(e) /\ ~AsAfter(e)
Landed(e)   == ~AsBefore(e) /\ AsAfter(e)
Sweeps(e)   == Landed(e) /\ e.cleanup
First(e)    == e \in todo /\ \A f \in todo : e.id <= f.id

\* A bundle in one of the two states is left alone, but for the removal of a deleted
\* bundle's directory; if that fails, or a file is foreign, the entry stays pending.
Resolves(e) == Known(e)
PrepareEntry(e) ==
  /\ phase = "prepare" /\ First(e) /\ ~Torn(e)
  /\ todo' = todo \ {e}
  /\ \/ /\ resolved' = IF Resolves(e) THEN resolved \cup {e} ELSE resolved
        /\ landed' = IF Landed(e) THEN landed \cup {e} ELSE landed
        /\ disk' = IF Sweeps(e) THEN Empty ELSE disk
        /\ UNCHANGED <<damaged, failures>>
     \/ Sweeps(e) /\ Fails /\ damaged' = TRUE /\ UNCHANGED <<resolved, landed, disk>>
  /\ UNCHANGED <<shadow, journal, idem, idx, phase>> /\ StartupFrame

\* A torn bundle is put back to the state before the write, file by file.
RestoreFile(e) ==
  /\ phase = "prepare" /\ First(e) /\ Torn(e)
  /\ \/ /\ \E l \in DOMAIN e.before :
             disk[l] # e.before[l] /\ disk' = [disk EXCEPT ![l] = e.before[l]]
        /\ UNCHANGED <<todo, damaged, failures>>
     \/ todo' = todo \ {e} /\ Fails /\ damaged' = TRUE /\ UNCHANGED disk
  /\ UNCHANGED <<shadow, journal, idem, idx, phase, resolved, landed>> /\ StartupFrame

\* The index is read again when recovery reports a change; a repair cut short reports
\* none. When the read fails the server serves what it has and commits nothing.
PrepareDone ==
  /\ phase = "prepare" /\ todo = {}
  /\ \/ /\ phase' = "sync" /\ UNCHANGED <<resolved, landed, failures>>
        /\ idx' = Only(disk, Langs) \/ (damaged /\ failures > 0 /\ UNCHANGED idx)
     \/ /\ phase' = "up" /\ resolved' = {} /\ landed' = {}
        /\ Fails /\ UNCHANGED idx
  /\ UNCHANGED <<disk, shadow, journal, idem, todo, damaged>> /\ StartupFrame

\* StartupSync rebuilds the derived rows from the index. When it fails the server serves all the
\* same and the reconciliation is not committed.
StartupSync ==
  /\ phase = "sync"
  /\ \/ /\ phase' = "commit" /\ todo' = resolved /\ shadow' = idx
        /\ UNCHANGED <<resolved, landed, failures>>
     \/ /\ phase' = "up" /\ todo' = {} /\ resolved' = {} /\ landed' = {}
        /\ Fails /\ UNCHANGED shadow
  /\ UNCHANGED <<disk, journal, idem, idx, damaged>> /\ StartupFrame

\* commitRecoveryReconciliation: a landed keyed call is recorded as the success it
\* was, and the entry is reconciled. Either write may fail.
\* Mutant: the landed call is not recorded.
RecordNothing(e) == idem
RecordLanded(e) ==
  IF e \in landed /\ Keyed(e.req)
  THEN [idem EXCEPT ![<<CallerOf[e.client], e.req.tool, e.req.key>>] = e.req] ELSE idem
ReconcileEntry(e) ==
  /\ phase = "commit" /\ First(e)
  /\ todo' = todo \ {e}
  /\ \/ idem' = RecordLanded(e) /\ journal' = journal \ {e} /\ UNCHANGED failures
     \/ idem' \in {idem, RecordLanded(e)} /\ Fails /\ UNCHANGED journal
  /\ UNCHANGED <<disk, shadow, idx, phase, resolved, landed, damaged>> /\ StartupFrame
BootDone ==
  /\ phase = "commit" /\ todo = {}
  /\ phase' = "up" /\ resolved' = {} /\ landed' = {}
  /\ UNCHANGED <<disk, shadow, journal, idem, idx, todo, damaged, failures>> /\ StartupFrame

---------------------------------------------------------------------------
Admission(c) ==
  \/ Submit(c) \/ PlanRead(c) \/ PlanMake(c) \/ Replay(c) \/ Refuse(c) \/ ApplyAdmit(c)
  \/ RollbackAdmit(c) \/ CreateAdmit(c) \/ DeleteAdmit(c) \/ AcquireLock(c) \/ LockTimeout(c)
  \/ ApplyCheck(c) \/ RollbackCheck(c) \/ DeleteCheck(c)
Mutation(c) ==
  \/ Snapshot(c) \/ Begin(c) \/ WriteFile(c) \/ WriteFails(c) \/ Undo(c) \/ RolledBack(c)
  \/ Tidy(c) \/ TidyFails(c) \/ Consume(c) \/ Reconcile(c) \/ Stage(c) \/ StageFails(c)
  \/ Remember(c) \/ Commit(c)
Startup ==
  \/ BootIndex \/ PrepareDone \/ StartupSync \/ BootDone
  \/ \E e \in todo : PrepareEntry(e) \/ RestoreFile(e) \/ ReconcileEntry(e)

\* The bound on calls is reached and every call was answered.
Rest ==
  /\ calls = MaxCalls /\ phase = "up" /\ \A c \in Clients : pc[c] = "idle"
  /\ UNCHANGED vars

Next == Crash \/ Startup \/ Expire \/ EditPage \/ Rest
        \/ \E c \in Clients : Admission(c) \/ Mutation(c)

\* A handler that has started runs on, its poll loop ends by its deadline, and a
\* process that died is started again. Calls, edits and crashes happen or not.
Answering(c) == Mutation(c) \/ (pc[c] # "idle" /\ Admission(c))
Fairness == WF_vars(Startup) /\ \A c \in Clients : WF_vars(Answering(c))

Spec == Init /\ [][Next]_vars /\ Fairness

---------------------------------------------------------------------------
Labels == {"idle", "read", "admit", "lock", "check", "snapshot", "begin", "write", "undo",
           "tidy", "consume", "reconcile", "stage", "remember", "commit"}
Taken  == {"tidy", "consume", "reconcile", "stage", "remember", "commit"}
Entries == [id : Nat, client : Clients, req : Requests, before : Partial, after : Partial,
            cleanup : BOOLEAN]
Locals  == [before : Partial, after : Partial, done : SUBSET Langs,
            entry : Entries \cup {NoEntry}]
Snapshots == [rev : Bundles, client : Callers,
              files : UNION {[L -> Contents] : L \in SUBSET Langs}]
Answers == {"none", "lost", "planned", "refused", "not_found", "replayed",
            "idempotency_conflict", "plan_not_found", "not_a_bundle", "already_exists",
            "revision_conflict", "build_in_progress", "bundle_conflict",
            "snapshot_not_found", "validation_error", "rolled_back", "delete_error",
            "persistence_error", "success"}

\* Type invariant.
TypeOK ==
  /\ disk \in Bundles /\ shadow \in [Langs -> Revisions] /\ idx \in [Langs -> Revisions]
  /\ plans \subseteq made /\ made \subseteq Plans /\ kept \subseteq Snapshots
  /\ journal \subseteq Entries /\ idem \in [Slots -> Requests \cup {Unused}]
  /\ lock \in Clients \cup {NoClient}
  /\ phase \in {"down", "prepare", "sync", "commit", "up"}
  /\ todo \subseteq Entries /\ resolved \subseteq Entries /\ landed \subseteq Entries
  /\ pc \in [Clients -> Labels] /\ ans \in [Clients -> Answers]
  /\ req \in [Clients -> Requests \cup {Unused}]
  /\ loc \in [Clients -> Locals]
  /\ applied \in [Slots -> Nat] /\ overlapped \subseteq Slots /\ damaged \in BOOLEAN
  /\ ops \in Nat /\ calls \in Nat /\ edits \in Nat /\ crashes \in Nat /\ failures \in Nat

\* As long as nothing has failed or misled recovery, a keyed call changes the bundle at
\* most once, however often its caller retries it and wherever the process died meanwhile;
\* with create_bundle and delete_bundle also while the call is still open, with
\* apply_bundle_plan and rollback_bundle unless a retry has found the key unused before
\* the open call recorded its answer.
ExactlyOnce ==
  failures = 0 /\ ~damaged => \A s \in Slots \ overlapped : applied[s] <= 1

\* apply_bundle_plan: "Single-use; `idempotency_key` safely replays".  No run checks this:
\* the code does not keep it for overlapping calls (README, section 6).
KeyActsOnce == failures = 0 /\ ~damaged => \A s \in Slots : applied[s] <= 1

\* Whenever the server serves and nobody holds the content lock, the source index and
\* the derived rows agree with the translations, unless a failed write was reported.
CopiesAgreeWithSource ==
  phase = "up" /\ lock = NoClient /\ failures = 0 =>
    idx = Only(disk, Langs) /\ shadow = Only(disk, Langs)

\* A snapshot holds, for each of its translations, what the bundle held at the revision
\* it is filed under: rollback_bundle never gives a translation any other content.
SnapshotsHoldTheirRevision ==
  \A s \in kept : s.files = Captured(Only(s.rev, DOMAIN s.files))

\* While the server serves and nothing has failed or misled it, a pending journal entry belongs to
\* the call that holds the lock, or to a create that found one of its files there.
PendingMeansInFlight ==
  phase = "up" /\ failures = 0 /\ ~damaged => \A e \in journal :
    \/ lock = e.client /\ loc[e.client].entry = e
    \/ e.req.tool = "create_bundle" /\ ~Keyed(e.req)

\* What the server keeps beside the files agrees with them: index, rows, snapshots and
\* journal.
RecordsAgree == CopiesAgreeWithSource /\ SnapshotsHoldTheirRevision /\ PendingMeansInFlight

\* apply_bundle_plan: "Fails whole with `bundle_conflict` if the bundle changed since
\* the plan": it replaces no translation but in the state the plan was computed from.
\* No run checks this: the code does not keep it (README, section 6).
PlanSawWhatItReplaces ==
  [][\A c \in Clients : pc[c] = "write" /\ req[c].tool = "apply_bundle_plan" =>
       \A l \in DOMAIN req[c].plan.seen :
         disk'[l] # disk[l] => disk[l] = req[c].plan.seen[l]]_vars

\* The implemented abstract specification: while files are being written or undone, and
\* after a crash in the middle of that, the bundle is the one before the call; the
\* directory of a bundle whose last translation is gone is gone.
Writers == {c \in Clients : pc[c] \in {"write", "undo"}}
Whole ==
  CASE \E c \in Writers : TRUE ->
         LET c == CHOOSE c \in Writers : TRUE IN Over(Only(loc[c].before, loc[c].done), disk)
    [] phase # "up" /\ \E e \in journal : Torn(e) ->
         Over((CHOOSE e \in journal : Torn(e)).before, disk)
    [] \/ phase # "up" /\ \E e \in journal : Sweeps(e)
       \/ Gone /\ \E c \in Clients : pc[c] = "tidy" -> Empty
    [] OTHER -> disk
Outcome(a) ==
  CASE a \in {"success", "replayed", "planned"} -> "ok"
    [] a \in {"persistence_error", "delete_error"} -> "unsure"
    [] a \in {"none", "lost"} -> a
    [] OTHER -> "error"
OpenCalls == [c \in Clients |-> IF pc[c] = "idle" THEN Unused ELSE req[c]]
Service == INSTANCE BundleService WITH
  store <- Whole, call <- OpenCalls, taken <- {c \in Clients : pc[c] \in Taken},
  outcome <- [c \in Clients |-> Outcome(ans[c])], serving <- phase = "up"

\* Every call changes all of its translations in one step or none, in the state it
\* names, whatever write fails and wherever the process dies, and says which; until an
\* undo or a repair fails, or a start finds an entry that outlived its call.
ImplementsService == Service!Spec
=============================================================================

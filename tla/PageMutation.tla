--------------------------- MODULE PageMutation ---------------------------
(***************************************************************************)
(* create_page, update_page and delete_page on one page bundle             *)
(* (content/<slug>/index.md and its translations), with the content lock   *)
(* that serialises them, the recovery journal and the idempotency journal  *)
(* in SQLite, the in-memory source index, the derived database rows, and   *)
(* the reconciliation the server runs when it starts again after a crash.  *)
(*                                                                         *)
(* A revision is a hash of the file's bytes, so a revision is modelled by  *)
(* the content it names; Absent is both "no file" and the blank revision.  *)
(* Bundles do not share files, so one bundle stands for each of them.      *)
(***************************************************************************)
EXTENDS Naturals

CONSTANTS
  Clients,        \* callers (an idempotency key belongs to one caller)
  Langs,          \* the language files of the bundle
  Default,        \* the file index.md, and the request's blank `lang`
  Contents,       \* what a file can hold
  Absent,         \* no such file; the blank revision
  Bundle,         \* the bundle directory, as the path a journal entry names
  Keys, NoKey,    \* idempotency keys, and a call without one
  NoClient,       \* nobody holds the content lock
  Unused,         \* an idempotency key nothing is recorded under
  Requests,       \* the calls that passed input validation
  Asks,           \* the ones each client makes
  InitialDisks,   \* what the bundle may hold when the history starts
  MaxCalls,       \* bound: calls made
  MaxCrashes,     \* bound: process deaths
  MaxFailures     \* bound: failed SQLite writes and failed file operations

Tools     == {"create_page", "update_page", "delete_page"}
Revisions == Contents \cup {Absent}
Paths     == Langs \cup {Bundle}
Slots     == Clients \X Tools \X Keys

ASSUME NamesDiffer ==
  /\ Default \in Langs /\ Bundle \notin Langs
  /\ Absent \notin Contents /\ NoKey \notin Keys /\ NoClient \notin Clients
  /\ Unused \notin Requests

ASSUME RequestsAreValid ==
  /\ Requests \subseteq [tool : Tools, lang : Langs, content : Revisions,
                         expected : Revisions, key : Keys \cup {NoKey}]
  /\ \A r \in Requests : (r.content = Absent) <=> (r.tool = "delete_page")
  /\ Asks \in [Clients -> SUBSET Requests]
  /\ InitialDisks \subseteq [Langs -> Revisions]

ASSUME BoundsAreNatural ==
  MaxCalls \in Nat /\ MaxCrashes \in Nat /\ MaxFailures \in Nat

VARIABLES
  disk,      \* durable: the content of each language file
  dir,       \* durable: does the bundle directory exist
  shadow,    \* durable: the rows SyncSourcePage derives from the source
  journal,   \* durable: recovery entries neither committed nor reconciled
  idem,      \* durable: the request recorded under each idempotency key
  idx,       \* volatile: the in-memory source index
  lock,      \* volatile: the holder of ContentMu
  phase,     \* volatile: how far the process has come since it started
  todo, resolved, landed,  \* volatile: journal entries during startup
  pc, req, loc, ans,       \* per client: where its call is, the call, the
                           \* handler's locals, and the last answer
  applied,   \* history: how often a keyed call has changed the source
  ops, calls, crashes, failures   \* counters, each with a bound

startup == <<phase, todo, resolved, landed>>
vars    == <<disk, dir, shadow, journal, idem, idx, lock, startup, pc, req, loc,
             ans, applied, ops, calls, crashes, failures>>

Entries == [id : Nat, client : Clients, req : Requests, path : Paths,
            before : Revisions, after : Revisions, cleanup : BOOLEAN]
Empty   == [l \in Langs |-> Absent]
Present == {l \in Langs : disk[l] # Absent}
Indexed == {l \in Langs : idx[l] # Absent}

\* The handler's locals: the resolved source file (Bundle: none was found), the
\* revision read under the lock, whether the whole bundle went, the journal entry.
NoEntry  == [id |-> 0]
NoLocals == [src |-> Bundle, base |-> Absent, full |-> FALSE, entry |-> NoEntry]

Degraded == failures > 0

Init ==
  /\ disk \in InitialDisks
  /\ dir \in BOOLEAN /\ (Present # {} => dir)
  /\ shadow = disk /\ idx = disk
  /\ journal = {} /\ idem = [s \in Slots |-> Unused]
  /\ lock = NoClient
  /\ phase = "up" /\ todo = {} /\ resolved = {} /\ landed = {}
  /\ pc = [c \in Clients |-> "idle"]
  /\ req = [c \in Clients |-> Unused]
  /\ loc = [c \in Clients |-> NoLocals]
  /\ ans = [c \in Clients |-> "none"]
  /\ applied = [s \in Slots |-> 0]
  /\ ops = 0 /\ calls = 0 /\ crashes = 0 /\ failures = 0

---------------------------------------------------------------------------
\* Helpers of the handlers.

Keyed(r)   == r.key # NoKey
Slot(c)    == <<c, req[c].tool, req[c].key>>
Recorded(c) == Keyed(req[c]) /\ idem[Slot(c)] # Unused

Goto(c, label) == pc' = [pc EXCEPT ![c] = label]

\* Mutant: an error return that forgets the unlock.
AnswerWithoutUnlock(c, a) ==
  /\ Goto(c, "idle")
  /\ ans' = [ans EXCEPT ![c] = a]
  /\ loc' = [loc EXCEPT ![c] = NoLocals]
  /\ lock' = IF lock = c /\ a = "success" THEN NoClient ELSE lock

\* The handler returns: the deferred Unlock runs and the locals are gone.
Answer(c, a) ==
  /\ Goto(c, "idle")
  /\ ans' = [ans EXCEPT ![c] = a]
  /\ loc' = [loc EXCEPT ![c] = NoLocals]
  /\ lock' = IF lock = c THEN NoClient ELSE lock

\* The client's call answers and nothing it shares with the others changes.
AnswerOnly(c, a) ==
  /\ Answer(c, a)
  /\ UNCHANGED <<disk, dir, shadow, journal, idem, idx, startup, req, applied, ops,
                 calls, crashes, failures>>

\* The handler goes on to `label` with new locals and changes nothing shared.
Proceed(c, label, locals) ==
  /\ Goto(c, label)
  /\ loc' = [loc EXCEPT ![c] = locals]
  /\ UNCHANGED <<disk, dir, shadow, journal, idem, idx, lock, startup, req, ans,
                 applied, ops, calls, crashes, failures>>

\* ResolvePageSource: an explicit language names one file; a blank one matches
\* every language file, and is an error unless exactly one exists.
Matches(lang) == IF lang = Default THEN Present ELSE Present \cap {lang}
ResolvesTo(lang, f) == Matches(lang) = {f}
Unresolved(lang) == \A f \in Langs : ~ResolvesTo(lang, f)

\* A write to SQLite, or a file operation, fails.
Fails   == failures < MaxFailures /\ failures' = failures + 1

\* A keyed call has changed the source once more.
Effect(c) ==
  applied' = IF Keyed(req[c]) THEN [applied EXCEPT ![Slot(c)] = @ + 1] ELSE applied

---------------------------------------------------------------------------
\* A call arrives. An unkeyed delete_page looks at the bundle before it takes
\* the lock; every other mutation takes the lock first.
Submit(c) ==
  /\ phase = "up" /\ pc[c] = "idle" /\ calls < MaxCalls
  /\ calls' = calls + 1
  /\ \E r \in Asks[c] :
       /\ req' = [req EXCEPT ![c] = r]
       /\ Goto(c, IF r.tool = "delete_page" /\ ~Keyed(r) THEN "inspect" ELSE "lock")
  /\ ans' = [ans EXCEPT ![c] = "none"]
  /\ UNCHANGED <<disk, dir, shadow, journal, idem, idx, lock, startup, loc, applied,
                 ops, crashes, failures>>

\* TryLock succeeds within the ten seconds the handler polls.
AcquireLock(c) ==
  /\ pc[c] = "lock" /\ lock = NoClient
  /\ lock' = c
  /\ Goto(c, IF req[c].tool = "delete_page" /\ ~Keyed(req[c]) THEN "check" ELSE "admit")
  /\ UNCHANGED <<disk, dir, shadow, journal, idem, idx, startup, req, loc, ans,
                 applied, ops, calls, crashes, failures>>

\* The lock was held for ten seconds: build_in_progress.
LockTimeout(c) ==
  /\ pc[c] = "lock" /\ lock # NoClient
  /\ AnswerOnly(c, "build_in_progress")

\* update_page resolves the file and asks the index for the page before it
\* looks at the idempotency key; create_page and delete_page look at once.
UpdateFinds(c) == Indexed # {} /\ ~Unresolved(req[c].lang)
ConsultsKey(c) ==
  pc[c] = "admit" /\ (req[c].tool = "update_page" => UpdateFinds(c))

\* The key is known: the recorded answer, or idempotency_conflict.
Replay(c) ==
  /\ ConsultsKey(c) /\ Recorded(c)
  /\ AnswerOnly(c, IF idem[Slot(c)] = req[c] THEN "replayed" ELSE "idempotency_conflict")

\* A refusal that leaves nothing behind: no quota left, the idempotency lookup,
\* the rollback snapshot or the journal intent could not be stored or read, or
\* create_page or update_page met a symbolic link (delete_page looks for one when its
\* intent is in the journal: WriteFails).
Refuse(c) ==
  /\ pc[c] \in {"inspect", "admit", "begin"}
  /\ AnswerOnly(c, "refused")

CreateAdmit(c) ==
  /\ pc[c] = "admit" /\ req[c].tool = "create_page" /\ ~Recorded(c)
  /\ Proceed(c, "begin", [loc[c] EXCEPT !.src = req[c].lang])

UpdateNotFound(c) ==
  /\ pc[c] = "admit" /\ req[c].tool = "update_page" /\ ~UpdateFinds(c)
  /\ AnswerOnly(c, "not_found")

\* replayUpdatePage missed: read the file and hold expected_revision against it.
UpdateAdmit(c) ==
  /\ ConsultsKey(c) /\ req[c].tool = "update_page" /\ ~Recorded(c)
  /\ \E f \in Langs :
       /\ ResolvesTo(req[c].lang, f)
       /\ IF req[c].expected = disk[f]
          THEN Proceed(c, "begin", [loc[c] EXCEPT !.src = f, !.base = disk[f]])
          ELSE AnswerOnly(c, IF req[c].expected = Absent THEN "invalid_params"
                                                         ELSE "revision_conflict")

\* delete_page looks at the bundle: under the lock when the call has a key,
\* before the lock when it has none.
Inspects(c) ==
  /\ pc[c] = "inspect" \/ (pc[c] = "admit" /\ ~Recorded(c))
  /\ req[c].tool = "delete_page"
AfterInspect(c) == IF pc[c] = "inspect" THEN "lock" ELSE "check"

DeleteNotFound(c) ==
  /\ Inspects(c)
  /\ ~dir \/ (Unresolved(req[c].lang) /\ Matches(req[c].lang) # {})
          \/ (req[c].lang # Default /\ Matches(req[c].lang) = {})
  /\ AnswerOnly(c, "not_found")

DeleteInspect(c) ==
  /\ Inspects(c) /\ dir
  /\ \E f \in Langs :
       /\ ResolvesTo(req[c].lang, f)
       /\ IF req[c].expected = Absent
          THEN AnswerOnly(c, "invalid_params")
          ELSE Proceed(c, AfterInspect(c), [loc[c] EXCEPT !.src = f])

\* A directory without any source file, and no language asked for.
DeleteInspectSourceless(c) ==
  /\ Inspects(c) /\ dir
  /\ req[c].lang = Default /\ Present = {}
  /\ Proceed(c, AfterInspect(c), [loc[c] EXCEPT !.src = Bundle])

\* Under the lock: the revision of the file resolved before, or blank.
\* Mutant: the expected revision is not compared.
DeleteCheckNothing(c) ==
  LET f == loc[c].src
      current == IF f = Bundle THEN Absent ELSE disk[f]
  IN /\ pc[c] = "check"
     /\ IF f # Bundle /\ current = Absent THEN AnswerOnly(c, "read_error")
        ELSE Proceed(c, "begin", [loc[c] EXCEPT !.base = current])
DeleteCheck(c) ==
  LET f == loc[c].src
      current == IF f = Bundle THEN Absent ELSE disk[f]
  IN /\ pc[c] = "check"
     /\ IF f # Bundle /\ current = Absent THEN AnswerOnly(c, "read_error")
        ELSE IF req[c].expected # current THEN AnswerOnly(c, "revision_conflict")
        ELSE Proceed(c, "begin", [loc[c] EXCEPT !.base = current])

---------------------------------------------------------------------------
\* A delete of the last language file also removes the bundle directory.
\* Mutant: every delete does.
CleansAlways(c) == req[c].tool = "delete_page"
Cleans(c) == req[c].tool = "delete_page" /\ Present = {loc[c].src}

\* The recovery journal records the intent before the source changes.
Begin(c) ==
  LET e == [id |-> ops + 1, client |-> c, req |-> req[c], path |-> loc[c].src,
            before |-> loc[c].base, after |-> req[c].content,
            cleanup |-> Cleans(c)]
  IN /\ pc[c] = "begin"
     /\ ops' = ops + 1
     /\ journal' = journal \cup {e}
     /\ loc' = [loc EXCEPT ![c].entry = e]
     /\ Goto(c, "write")
     /\ UNCHANGED <<disk, dir, shadow, idem, idx, lock, startup, req, ans, applied,
                    calls, crashes, failures>>

WriteFrame(c) ==
  UNCHANGED <<shadow, journal, idem, idx, lock, startup, req, ans, ops, calls,
              crashes, failures>>

\* AtomicCreateChecked: an exclusive link, so an existing file is never replaced.
CreateWrite(c) ==
  /\ pc[c] = "write" /\ req[c].tool = "create_page" /\ disk[loc[c].src] = Absent
  /\ disk' = [disk EXCEPT ![loc[c].src] = req[c].content]
  /\ dir' = TRUE
  /\ Effect(c) /\ Goto(c, "reconcile") /\ UNCHANGED loc /\ WriteFrame(c)

\* already_exists: the journal keeps the intent of a write that never happened.
CreateExists(c) ==
  /\ pc[c] = "write" /\ req[c].tool = "create_page" /\ disk[loc[c].src] # Absent
  /\ AnswerOnly(c, "already_exists")

UpdateWrite(c) ==
  /\ pc[c] = "write" /\ req[c].tool = "update_page"
  /\ disk' = [disk EXCEPT ![loc[c].src] = req[c].content]
  /\ Effect(c) /\ Goto(c, "reconcile") /\ UNCHANGED <<dir, loc>> /\ WriteFrame(c)

\* os.Remove of the resolved language file.
DeleteUnlink(c) ==
  LET last == Present \ {loc[c].src} = {}
  IN /\ pc[c] = "write" /\ req[c].tool = "delete_page" /\ loc[c].src # Bundle
     /\ disk' = [disk EXCEPT ![loc[c].src] = Absent]
     /\ loc' = [loc EXCEPT ![c].full = last]
     /\ Goto(c, IF last THEN "tidy" ELSE "reconcile")
     /\ Effect(c) /\ UNCHANGED dir /\ WriteFrame(c)

\* No language file is left: os.RemoveAll of the bundle directory.
DeleteTidy(c) ==
  /\ pc[c] = "tidy"
  /\ disk' = Empty /\ dir' = FALSE
  /\ Goto(c, "reconcile") /\ UNCHANGED <<applied, loc>> /\ WriteFrame(c)

\* There was no source file when the call looked: os.RemoveAll at once.
DeleteBundleDir(c) ==
  /\ pc[c] = "write" /\ req[c].tool = "delete_page" /\ loc[c].src = Bundle
  /\ disk' = Empty /\ dir' = FALSE
  /\ loc' = [loc EXCEPT ![c].full = TRUE]
  /\ Effect(c) /\ Goto(c, "reconcile") /\ WriteFrame(c)

\* The write, the unlink or the directory removal fails, or delete_page finds a
\* symbolic link where its file was: the call answers with an error and the journal
\* keeps its entry. A create may have made the directory.
WriteFails(c) ==
  /\ pc[c] \in {"write", "tidy"} /\ Fails
  /\ Answer(c, IF req[c].tool = "delete_page" THEN "delete_error" ELSE "write_error")
  /\ dir' = (dir \/ req[c].tool = "create_page")
  /\ UNCHANGED <<disk, shadow, journal, idem, idx, startup, req, applied, ops, calls,
                 crashes>>

---------------------------------------------------------------------------
\* What the call makes of a derived copy of the source: the index, or the rows.
\* Mutant: a delete drops every language of the bundle from the copy.
DerivedWholeBundle(c, copy) ==
  IF req[c].tool = "delete_page" THEN Empty
  ELSE [copy EXCEPT ![loc[c].src] = req[c].content]
Derived(c, copy) ==
  IF req[c].tool = "delete_page"
  THEN IF loc[c].full THEN Empty ELSE [copy EXCEPT ![loc[c].src] = Absent]
  ELSE [copy EXCEPT ![loc[c].src] = req[c].content]

\* The index, then the derived rows; a failed row update is only a warning.
Reconcile(c) ==
  /\ pc[c] = "reconcile"
  /\ idx' = Derived(c, idx)
  /\ \/ shadow' = Derived(c, shadow) /\ UNCHANGED failures
     \/ Fails /\ UNCHANGED shadow
  /\ Goto(c, "stage")
  /\ UNCHANGED <<disk, dir, journal, idem, lock, startup, req, loc, ans, applied, ops,
                 calls, crashes>>

\* stageResult stores the answer in the journal entry; a failure ends the call
\* with persistence_error although the source has changed.
Stage(c) == pc[c] = "stage" /\ Proceed(c, "remember", loc[c])
StageFails(c) ==
  /\ pc[c] = "stage" /\ Fails
  /\ Answer(c, "persistence_error")
  /\ UNCHANGED <<disk, dir, shadow, journal, idem, idx, startup, req, applied, ops,
                 calls, crashes>>

\* remember records the answer under the caller's key; a failure is a warning.
Remember(c) ==
  /\ pc[c] = "remember"
  /\ \/ /\ idem' = IF Keyed(req[c]) THEN [idem EXCEPT ![Slot(c)] = req[c]] ELSE idem
        /\ UNCHANGED failures
     \/ Keyed(req[c]) /\ Fails /\ UNCHANGED idem
  /\ Goto(c, "commit")
  /\ UNCHANGED <<disk, dir, shadow, journal, idx, lock, startup, req, loc, ans, applied,
                 ops, calls, crashes>>

\* The entry is marked committed (a failure is a warning) and the call succeeds.
Commit(c) ==
  /\ pc[c] = "commit"
  /\ \/ journal' = journal \ {loc[c].entry} /\ UNCHANGED failures
     \/ Fails /\ UNCHANGED journal
  /\ Answer(c, "success")
  /\ UNCHANGED <<disk, dir, shadow, idem, idx, startup, req, applied, ops, calls, crashes>>

---------------------------------------------------------------------------
\* The process dies: what is in memory is gone, open calls never hear an answer.
Crash ==
  /\ phase # "down" /\ crashes < MaxCrashes
  /\ crashes' = crashes + 1
  /\ phase' = "down" /\ todo' = {} /\ resolved' = {} /\ landed' = {}
  /\ lock' = NoClient /\ idx' = Empty
  /\ pc' = [c \in Clients |-> "idle"]
  /\ loc' = [c \in Clients |-> NoLocals]
  /\ ans' = [c \in Clients |-> IF pc[c] = "idle" THEN ans[c] ELSE "lost"]
  /\ UNCHANGED <<disk, dir, shadow, journal, idem, req, applied, ops, calls, failures>>

StartupFrame ==
  UNCHANGED <<lock, pc, req, loc, ans, applied, ops, calls, crashes>>

\* NewSourceIndex reads the content tree; PendingRecovery lists the journal.
BootIndex ==
  /\ phase = "down"
  /\ phase' = "prepare" /\ todo' = journal /\ idx' = disk
  /\ UNCHANGED <<disk, dir, shadow, journal, idem, resolved, landed, failures>> /\ StartupFrame

\* The observed file is in the state before or after the write. A directory
\* cannot be read as a file: its entry stays pending while it exists.
Resolves(e) == IF e.path = Bundle THEN ~dir ELSE disk[e.path] \in {e.before, e.after}
Landed(e)   == IF e.path = Bundle THEN ~dir ELSE disk[e.path] = e.after

\* prepareMutationRecovery on one entry. A delete that landed finishes its
\* directory removal; if that fails the entry stays pending.
PrepareEntry(e) ==
  /\ phase = "prepare" /\ e \in todo
  /\ todo' = todo \ {e}
  /\ \/ /\ resolved' = IF Resolves(e) THEN resolved \cup {e} ELSE resolved
        /\ landed'   = IF Landed(e) THEN landed \cup {e} ELSE landed
        /\ disk'     = IF Landed(e) /\ e.cleanup THEN Empty ELSE disk
        /\ dir'      = (dir /\ ~(Landed(e) /\ e.cleanup))
        /\ UNCHANGED failures
     \/ /\ Landed(e) /\ e.cleanup /\ Fails
        /\ UNCHANGED <<resolved, landed, disk, dir>>
  /\ UNCHANGED <<shadow, journal, idem, idx, phase>> /\ StartupFrame

\* The index is read again when a cleanup changed the source.
PrepareDone ==
  /\ phase = "prepare" /\ todo = {}
  /\ phase' = "sync" /\ idx' = disk
  /\ UNCHANGED <<disk, dir, shadow, journal, idem, todo, resolved, landed, failures>>
  /\ StartupFrame

\* StartupSync rebuilds the derived rows. When it fails the server serves all
\* the same and the reconciliation is not committed.
StartupSync ==
  /\ phase = "sync"
  /\ \/ /\ phase' = "commit" /\ todo' = resolved /\ shadow' = disk
        /\ UNCHANGED <<resolved, landed, failures>>
     \/ /\ phase' = "up" /\ todo' = {} /\ resolved' = {} /\ landed' = {}
        /\ Fails /\ UNCHANGED shadow
  /\ UNCHANGED <<disk, dir, journal, idem, idx>> /\ StartupFrame

\* commitRecoveryReconciliation on one entry: a landed keyed call is recorded as
\* the success it was, and the entry is reconciled. Either write may fail.
\* Mutant: the landed call is not recorded.
EntrySlot(e) == <<e.client, e.req.tool, e.req.key>>
RecordNothing(e) == idem
RecordLanded(e) ==
  IF e \in landed /\ Keyed(e.req) THEN [idem EXCEPT ![EntrySlot(e)] = e.req] ELSE idem
ReconcileEntry(e) ==
  /\ phase = "commit" /\ e \in todo
  /\ todo' = todo \ {e}
  /\ \/ idem' = RecordLanded(e) /\ journal' = journal \ {e} /\ UNCHANGED failures
     \/ idem' \in {idem, RecordLanded(e)} /\ Fails /\ UNCHANGED journal
  /\ UNCHANGED <<disk, dir, shadow, idx, phase, resolved, landed>> /\ StartupFrame

BootDone ==
  /\ phase = "commit" /\ todo = {}
  /\ phase' = "up" /\ resolved' = {} /\ landed' = {}
  /\ UNCHANGED <<disk, dir, shadow, journal, idem, idx, todo, failures>> /\ StartupFrame

---------------------------------------------------------------------------
Admission(c) ==
  \/ Submit(c) \/ AcquireLock(c) \/ LockTimeout(c) \/ Replay(c) \/ Refuse(c)
  \/ CreateAdmit(c) \/ UpdateNotFound(c) \/ UpdateAdmit(c)
  \/ DeleteNotFound(c) \/ DeleteInspect(c) \/ DeleteInspectSourceless(c) \/ DeleteCheck(c)
Mutation(c) ==
  \/ Begin(c) \/ CreateWrite(c) \/ CreateExists(c) \/ UpdateWrite(c)
  \/ DeleteUnlink(c) \/ DeleteTidy(c) \/ DeleteBundleDir(c) \/ WriteFails(c)
  \/ Reconcile(c) \/ Stage(c) \/ StageFails(c) \/ Remember(c) \/ Commit(c)
Startup ==
  \/ BootIndex \/ PrepareDone \/ StartupSync \/ BootDone
  \/ \E e \in todo : PrepareEntry(e) \/ ReconcileEntry(e)

\* The bound on calls is reached and every call was answered.
Rest ==
  /\ calls = MaxCalls /\ phase = "up" /\ \A c \in Clients : pc[c] = "idle"
  /\ UNCHANGED vars

Next == Crash \/ Startup \/ Rest \/ \E c \in Clients : Admission(c) \/ Mutation(c)

\* A handler that has started runs on, its poll loop ends by its deadline, and
\* a process that died is started again. Calls and crashes happen or not.
Answering(c) ==
  Mutation(c) \/ (pc[c] # "idle" /\ Admission(c))
Fairness == WF_vars(Startup) /\ \A c \in Clients : WF_vars(Answering(c))

Spec == Init /\ [][Next]_vars /\ Fairness

---------------------------------------------------------------------------
Labels  == {"idle", "inspect", "lock", "admit", "check", "begin", "write", "tidy",
            "reconcile", "stage", "remember", "commit"}
Holding == {"admit", "check", "begin", "write", "tidy", "reconcile", "stage",
            "remember", "commit"}   \* where a handler owns ContentMu
Taken   == {"tidy", "reconcile", "stage", "remember", "commit"}  \* after the write
Locals  == [src : Paths, base : Revisions, full : BOOLEAN,
            entry : Entries \cup {NoEntry}]
Answers == {"none", "lost", "build_in_progress", "replayed", "idempotency_conflict",
            "refused", "not_found", "invalid_params", "revision_conflict",
            "read_error", "already_exists", "write_error", "delete_error",
            "persistence_error", "success"}

\* Type invariant.
TypeOK ==
  /\ disk \in [Langs -> Revisions] /\ dir \in BOOLEAN
  /\ shadow \in [Langs -> Revisions] /\ idx \in [Langs -> Revisions]
  /\ journal \subseteq Entries
  /\ idem \in [Slots -> Requests \cup {Unused}]
  /\ lock \in Clients \cup {NoClient}
  /\ phase \in {"down", "prepare", "sync", "commit", "up"}
  /\ todo \subseteq Entries /\ resolved \subseteq Entries /\ landed \subseteq Entries
  /\ pc \in [Clients -> Labels]
  /\ req \in [Clients -> Requests \cup {Unused}]
  /\ \A c \in Clients : pc[c] # "idle" => req[c] \in Requests
  /\ loc \in [Clients -> Locals]
  /\ ans \in [Clients -> Answers]
  /\ applied \in [Slots -> Nat]
  /\ ops \in Nat /\ calls \in Nat /\ crashes \in Nat /\ failures \in Nat

\* As long as no database write and no file operation has failed, a keyed call
\* changes the source at most once, however often it is retried and wherever the
\* process died meanwhile (create_page, update_page, delete_page: "safely replay
\* the exact same ... after a timeout or uncertain delivery").
ExactlyOnce == ~Degraded => \A s \in Slots : applied[s] <= 1

\* What is recorded under an idempotency key stays: no later call replaces it by
\* another request. Startup may, for the tools whose journal entries can outlive
\* their call (see Stale), and never for update_page.
KnownStays ==
  [][~Degraded' => \A s \in Slots : idem[s] # Unused =>
       idem'[s] = idem[s] \/ (phase = "commit" /\ s[2] # "update_page")]_vars

\* Whenever the server serves and nobody holds the content lock, the source index
\* and the derived rows agree with the files, after any history of mutations,
\* crashes and restarts without a failed write.
CopiesAgreeWithSource ==
  phase = "up" /\ lock = NoClient /\ ~Degraded => idx = disk /\ shadow = disk

\* An entry that may outlive its call: that of a create that found its file there,
\* and that of a delete which saw no source file.
Stale(e) == e.req.tool = "create_page" \/ e.path = Bundle

\* The recovery journal keeps no intent that could still act: while the server
\* serves, a pending entry belongs to the call that holds the lock, to a create
\* that found its file there, or to the removal of a directory without a source
\* file that startup found still there. No other entry outlives its call.
PendingMeansInFlight ==
  phase = "up" /\ ~Degraded => \A e \in journal :
    Stale(e) \/ (lock = e.client /\ loc[e.client].entry = e)

\* Starting again never changes a page: startup only finishes the removal of a
\* directory that holds none.
RestartKeepsPages == [][phase # "up" /\ ~Degraded' => disk' = disk]_vars

\* A handler that holds the content lock gives it back on every path, so that
\* nothing keeps the other mutations and the builds out.
LockIsFreed == \A c \in Clients : lock = c ~> lock # c

\* What the code says of itself and does not keep (no run checks these; README, section 6).

\* delete_page: "Non-dry-run calls require `expected_revision` ... unless the page
\* has no source file to protect": no delete removes a file without its revision.
DeleteShowsRevision ==
  [][\A c \in Clients : pc[c] = "write" /\ req[c].tool = "delete_page" =>
       \A l \in Langs : disk[l] # disk'[l] => disk[l] = req[c].expected]_vars

\* delete_page: "other translations are left untouched": what startup finishes for
\* a delete takes no page away, whatever happened since the delete.
RestartSparesPages ==
  [][phase # "up" => \A l \in Langs : disk[l] # Absent => disk'[l] = disk[l]]_vars

\* The implemented abstract specification.
Outcome(a) ==
  CASE a \in {"success", "replayed"} -> "ok"
    [] a \in {"none", "lost"} -> a
    [] OTHER -> "error"
OpenCalls == [c \in Clients |-> IF pc[c] = "idle" THEN Unused ELSE req[c]]
Effects   == {c \in Clients : pc[c] \in Taken}
Outcomes  == [c \in Clients |-> Outcome(ans[c])]
Service == INSTANCE PageService WITH store <- disk, call <- OpenCalls, effect <- Effects,
                                     known <- idem, outcome <- Outcomes,
                                     degraded <- Degraded

\* Every step of the handlers, of a crash and of startup is a step the callers
\* were promised, or one they cannot see.
ImplementsService == Service!Spec
=============================================================================

---------------------------- MODULE BuildPublish ----------------------------
(***************************************************************************)
(* build_site and publish_changes: the guard against building another      *)
(* change set's pages, the build under the content lock, the two renames   *)
(* that install its output, the post-build reload of the indexes with its  *)
(* time limit, and the verdict "published". Beside the builds, agents edit *)
(* pages through the server, the author edits the content tree behind its  *)
(* back, and the process may die at any step.                              *)
(*                                                                         *)
(* A tree maps each page to the version it holds. Every write makes a new  *)
(* version, so two trees are equal exactly when their hashes are, and a    *)
(* version's number orders modification times.                             *)
(***************************************************************************)
EXTENDS Naturals

CONSTANTS
  Pages,        \* pages of the site
  Agents,       \* callers; each works in one change set of its own
  Author,       \* who edits the content tree without this server
  Nobody,       \* no change set has touched a page; the lock is free
  NoTree,       \* a directory that does not exist; a blank revision
  InitialPages, \* the pages that exist and are published at the start
  MaxWrites,    \* bound: versions written and pages deleted
  MaxCalls,     \* bound: calls of build_site or publish_changes
  MaxFaults     \* bound: process deaths, failed renames, removals and database
                \* writes, and post-build callbacks that use up their thirty seconds

ASSUME NamesDiffer ==
  /\ Author \notin Agents /\ Nobody \notin Agents
  /\ InitialPages \subseteq Pages

ASSUME BoundsAreNatural ==
  MaxWrites \in Nat /\ MaxCalls \in Nat /\ MaxFaults \in Nat

Versions == [n : Nat, by : Agents \cup {Author}]
Absent   == [n |-> 0, by |-> Author]       \* the page does not exist
Trees    == [Pages -> Versions]
Blank    == [p \in Pages |-> Absent]
ASSUME NoTreeIsNoTree == NoTree \notin Trees

VARIABLES
  disk,      \* durable: the content tree
  public,    \* durable: the published tree, or NoTree
  backup,    \* durable: the previous published tree the swap set aside
  idx,       \* volatile: the source index
  pending,   \* volatile: pages the source index marks BuildPending
  listed,    \* volatile: pages the public site index lists
  owner,     \* volatile: the change set that last mutated a page
  lock,      \* volatile: the build that holds ContentMu
  up,        \* does the process run
  late,      \* volatile: reloads that run on after their build gave up on them
  pc, loc, ans,  \* per agent: where its call is, its locals, its last answer
  unguarded, \* history: pages that lost their mark or their owner unpublished
  writes, calls, crashes, timeouts, failures   \* counters, each with a bound

durable == <<disk, public, backup>>
memory  == <<idx, pending, listed, owner>>
counters == <<writes, calls, crashes, timeouts, failures>>
vars == <<durable, memory, lock, up, late, pc, loc, ans, unguarded, counters>>

\* A reload of the indexes: how far it is, and the pages it has read.
NoReload == [at |-> "done", read |-> Blank]

\* The locals of a call: acknowledged change sets, what the guard saw, what was
\* edited or unguarded since, the expected revisions, the revision and output
\* of the build, the pages still to render, the reload, whether all went well.
NoLocals == [ack |-> {}, saw |-> {}, excused |-> {}, want |-> NoTree,
             wantPublic |-> NoTree, rev |-> Blank, out |-> Blank, todo |-> {},
             hadOld |-> FALSE, reload |-> NoReload, clean |-> TRUE]

Init ==
  /\ disk = [p \in Pages |-> IF p \in InitialPages THEN [n |-> 1, by |-> Author] ELSE Absent]
  /\ public = disk /\ backup = NoTree
  /\ idx = disk /\ pending = {} /\ listed = InitialPages
  /\ owner = [p \in Pages |-> Nobody]
  /\ lock = Nobody /\ up = TRUE /\ late = {}
  /\ pc = [a \in Agents |-> "idle"]
  /\ loc = [a \in Agents |-> NoLocals]
  /\ ans = [a \in Agents |-> "none"]
  /\ unguarded = {}
  /\ writes = 1 /\ calls = 0 /\ crashes = 0 /\ timeouts = 0 /\ failures = 0

---------------------------------------------------------------------------
\* A rename, a removal or a database write fails.
Faults == crashes + timeouts + failures
Fails  == Faults < MaxFaults /\ failures' = failures + 1

InTree(t, p) == t # NoTree /\ t[p] # Absent
PagesOf(t)   == {p \in Pages : t[p] # Absent}

\* Pages marked pending whose current version is not in the published tree:
\* clearing their marks takes them out of the guard's sight.
Unpublished == {p \in pending : public = NoTree \/ public[p] # disk[p]}

Goto(a, label) == pc' = [pc EXCEPT ![a] = label]
SetLoc(a, l)   == loc' = [loc EXCEPT ![a] = l]

\* The handler returns; a build's deferred Unlock has run by then.
Answer(a, text) ==
  /\ Goto(a, "idle") /\ SetLoc(a, NoLocals)
  /\ ans' = [ans EXCEPT ![a] = text]
  /\ lock' = IF lock = a THEN Nobody ELSE lock

\* An error of the code `code`; which one it was makes no difference afterwards.
Error(a, code) == Answer(a, "error")

\* Calls between their look at the pending pages and the lock.
Looked(a) == pc[a] \in {"judge", "lock"}

\* The page is edited after the guard of a call has looked.
ExcuseSince(p) ==
  loc' = [a \in Agents |-> IF Looked(a) THEN [loc[a] EXCEPT !.excused = @ \cup {p}] ELSE loc[a]]

---------------------------------------------------------------------------
\* Mutations. The handlers of create_page and update_page run under the content
\* lock (module PageMutation); here one is a step. Its mutation is attributed to
\* the change set last, and not at all when staging its result fails.
Edit(a, p) ==
  LET v == [n |-> writes + 1, by |-> a]
  IN /\ up /\ lock = Nobody /\ writes < MaxWrites
     /\ disk[p] = Absent \/ idx[p] # Absent
     /\ writes' = writes + 1
     /\ disk' = [disk EXCEPT ![p] = v]
     /\ idx' = [idx EXCEPT ![p] = v]
     /\ pending' = pending \cup {p}
     /\ \/ /\ owner' = [owner EXCEPT ![p] = a]
           /\ unguarded' = unguarded \ {p} /\ UNCHANGED failures
        \/ Fails /\ unguarded' = unguarded \cup {p} /\ UNCHANGED owner
     /\ ExcuseSince(p)
     /\ UNCHANGED <<public, backup, listed, lock, up, late, pc, ans, calls, crashes, timeouts>>

\* delete_page of a whole bundle also takes the page out of the public tree
\* (unless that removal fails) and out of the public index.
Delete(a, p) ==
  /\ up /\ lock = Nobody /\ disk[p] # Absent /\ writes < MaxWrites
  /\ writes' = writes + 1
  /\ disk' = [disk EXCEPT ![p] = Absent]
  /\ idx' = [idx EXCEPT ![p] = Absent]
  /\ pending' = pending \ {p} /\ listed' = listed \ {p}
  /\ owner' = [owner EXCEPT ![p] = a]
  /\ \/ public' = (IF public = NoTree THEN NoTree ELSE [public EXCEPT ![p] = Absent])
        /\ UNCHANGED failures
     \/ InTree(public, p) /\ Fails /\ UNCHANGED public
  /\ UNCHANGED <<backup, lock, up, late, pc, loc, ans, unguarded, calls, crashes, timeouts>>

\* The author writes a page over SSH or git: no lock, no index, no owner.
OutsideEdit(p) ==
  /\ writes < MaxWrites
  /\ writes' = writes + 1
  /\ disk' = [disk EXCEPT ![p] = [n |-> writes + 1, by |-> Author]]
  /\ UNCHANGED <<public, backup, memory, lock, up, late, pc, loc, ans, unguarded, calls,
                 crashes, timeouts, failures>>

---------------------------------------------------------------------------
\* A call of build_site or publish_changes arrives, with or without the
\* revisions its caller has read and the other change sets it acknowledges.
Request(a) ==
  /\ up /\ pc[a] = "idle" /\ calls < MaxCalls
  /\ calls' = calls + 1
  /\ Goto(a, "look")
  /\ \E ack \in {{a}, Agents}, expecting \in BOOLEAN :
       SetLoc(a, [NoLocals EXCEPT !.ack = ack,
                                  !.want = IF expecting THEN disk ELSE NoTree,
                                  !.wantPublic = IF expecting THEN public ELSE NoTree])
  /\ ans' = [ans EXCEPT ![a] = "none"]
  /\ UNCHANGED <<durable, memory, lock, up, late, unguarded, writes, crashes, timeouts, failures>>

\* The guard reads the pending pages under the read lock, and only those.
Look(a) ==
  /\ pc[a] = "look" /\ lock = Nobody
  /\ Goto(a, "judge")
  /\ SetLoc(a, [loc[a] EXCEPT !.saw = pending, !.excused = unguarded])
  /\ UNCHANGED <<durable, memory, lock, up, late, ans, unguarded, counters>>

\* Without the lock it asks for the owner of each page it saw.
\* Mutant: only pages of callers without a change set are foreign.
ForeignNever(a) == {p \in loc[a].saw : owner[p] = Nobody}
Foreign(a) == {p \in loc[a].saw : owner[p] # Nobody /\ owner[p] \notin loc[a].ack}

\* The step changes nothing but the call itself and the lock.
SharedUnchanged == UNCHANGED <<durable, memory, up, late, unguarded, counters>>

Judge(a) ==
  /\ pc[a] = "judge"
  /\ IF Foreign(a) # {} THEN Error(a, "foreign_change_set_present")
     ELSE Goto(a, "lock") /\ SetLoc(a, [loc[a] EXCEPT !.saw = {}]) /\ UNCHANGED <<lock, ans>>
  /\ SharedUnchanged

\* runBuild tries the content lock once.
TakeLock(a) ==
  /\ pc[a] = "lock"
  /\ IF lock = Nobody THEN lock' = a /\ Goto(a, "prepare") /\ UNCHANGED <<loc, ans>>
                      ELSE Error(a, "build_in_progress")
  /\ SharedUnchanged

---------------------------------------------------------------------------
\* The build, under the lock. prepare first reads the source index again, which
\* drops every BuildPending mark.
Prepare(a) ==
  /\ pc[a] = "prepare"
  /\ idx' = disk /\ pending' = {}
  /\ unguarded' = unguarded \cup Unpublished
  /\ Goto(a, "hash")
  /\ UNCHANGED <<durable, listed, owner, lock, up, late, loc, ans, counters>>

\* The source and public revisions against what the caller expected.
\* Mutant: the public revision is not compared.
ConflictOfSource(a) == loc[a].want \notin {NoTree, disk}
Conflict(a) == loc[a].want \notin {NoTree, disk} \/ loc[a].wantPublic \notin {NoTree, public}

Hash(a) ==
  /\ pc[a] = "hash"
  /\ IF Conflict(a) THEN Error(a, "revision_conflict")
     ELSE /\ Goto(a, "render") /\ UNCHANGED <<lock, ans>>
          /\ SetLoc(a, [loc[a] EXCEPT !.rev = disk, !.todo = Pages])
  /\ SharedUnchanged

\* Hugo renders the pages one by one, each as it finds it, into a new directory.
Render(a, p) ==
  /\ pc[a] = "render" /\ p \in loc[a].todo
  /\ SetLoc(a, [loc[a] EXCEPT !.out[p] = disk[p], !.todo = @ \ {p}])
  /\ UNCHANGED <<pc, lock, ans>> /\ SharedUnchanged

\* The index cannot be read, a directory is not writable, a callback before the
\* build fails, Hugo fails or runs out of time: the new directory is removed.
BuildFails(a) ==
  /\ pc[a] \in {"prepare", "hash", "render"}
  /\ Error(a, "build_error")
  /\ SharedUnchanged

\* verifySourceStability: the source still has the revision it had before.
\* Mutant: only the pages that existed before are compared.
StableOld(a) == \A p \in PagesOf(loc[a].rev) : disk[p] = loc[a].rev[p]
Stable(a) == disk = loc[a].rev

Verify(a) ==
  /\ pc[a] = "render" /\ loc[a].todo = {}
  /\ IF Stable(a) THEN Goto(a, "swapout") /\ UNCHANGED <<lock, loc, ans>>
                  ELSE Error(a, "source_changed_during_build")
  /\ SharedUnchanged

\* swapBuildOutput renames the published tree away ...
\* Mutant: it removes the published tree instead.
SwapOutRemoves(a) ==
  /\ pc[a] = "swapout" /\ public # NoTree
  /\ public' = NoTree
  /\ SetLoc(a, [loc[a] EXCEPT !.hadOld = TRUE])
  /\ Goto(a, "swapin")
  /\ UNCHANGED <<disk, backup, memory, lock, up, late, ans, unguarded, counters>>
SwapOut(a) ==
  /\ pc[a] = "swapout" /\ public # NoTree
  /\ backup' = public /\ public' = NoTree
  /\ SetLoc(a, [loc[a] EXCEPT !.hadOld = TRUE])
  /\ Goto(a, "swapin")
  /\ UNCHANGED <<disk, memory, lock, up, late, ans, unguarded, counters>>
\* ... unless there is none.
\* Mutant: that is not provided for.
SwapOutStuck(a) == FALSE
SwapOutNothing(a) ==
  /\ pc[a] = "swapout" /\ public = NoTree
  /\ Goto(a, "swapin")
  /\ UNCHANGED <<lock, loc, ans>> /\ SharedUnchanged
SwapOutFails(a) ==
  /\ pc[a] = "swapout" /\ Fails
  /\ Error(a, "output_swap")
  /\ UNCHANGED <<durable, memory, up, late, unguarded, writes, calls, crashes, timeouts>>

\* Then it renames the new one to its place.
SwapIn(a) ==
  /\ pc[a] = "swapin"
  /\ public' = loc[a].out
  /\ SetLoc(a, [loc[a] EXCEPT !.ack = {}, !.excused = {}, !.out = Blank])
  /\ Goto(a, "cleanup")
  /\ UNCHANGED <<disk, backup, memory, lock, up, late, ans, unguarded, counters>>

\* If it cannot, it renames the old one back, which may fail as well.
SwapInFails(a) ==
  /\ pc[a] = "swapin" /\ Fails
  /\ Error(a, "output_swap")
  /\ \/ loc[a].hadOld /\ public' = backup /\ backup' = NoTree
     \/ UNCHANGED <<public, backup>>
  /\ UNCHANGED <<disk, memory, up, late, unguarded, writes, calls, crashes, timeouts>>

\* The old tree is removed; if that fails, or the swap cannot be recorded in the
\* recovery journal, the build goes on with a warning.
Cleanup(a) ==
  LET reloading(clean) ==
        SetLoc(a, [NoLocals EXCEPT !.rev = loc[a].rev, !.reload.at = "site", !.clean = clean])
  IN /\ pc[a] = "cleanup"
     /\ \/ backup' = (IF loc[a].hadOld THEN NoTree ELSE backup)
           /\ reloading(TRUE) /\ UNCHANGED failures
        \/ Fails /\ UNCHANGED backup /\ reloading(FALSE)
     /\ Goto(a, "callbacks")
     /\ UNCHANGED <<disk, public, memory, lock, up, late, ans, unguarded, writes, calls,
                    crashes, timeouts>>

---------------------------------------------------------------------------
\* The index_reload callback, a goroutine of its own: the public index, then the
\* source tree is read, then the source index is replaced by what was read, then
\* every mark is cleared. `next` is the reload after the step.
Dropping == pending' = {} /\ unguarded' = unguarded \cup Unpublished
ReloadStep(r, next) ==
  \/ /\ r.at = "site" /\ public # NoTree
     /\ listed' = PagesOf(public)
     /\ next = [r EXCEPT !.at = "read"]
     /\ UNCHANGED <<idx, pending, unguarded>>
  \/ /\ r.at = "read"
     /\ next = [at |-> "install", read |-> disk]
     /\ UNCHANGED <<idx, pending, listed, unguarded>>
  \/ /\ r.at = "install"
     /\ idx' = r.read /\ Dropping
     /\ next = [at |-> "clear", read |-> Blank]
     /\ UNCHANGED listed
  \/ /\ r.at = "clear" /\ Dropping
     /\ next = NoReload
     /\ UNCHANGED <<idx, listed>>

\* The states a reload can step to (the source is read as it is now).
Nexts(r) ==
  {[r EXCEPT !.at = "read"], [at |-> "install", read |-> disk],
   [at |-> "clear", read |-> Blank], NoReload}

RunReload(a) ==
  /\ pc[a] = "callbacks"
  /\ \E next \in Nexts(loc[a].reload) :
       /\ ReloadStep(loc[a].reload, next)
       /\ SetLoc(a, [loc[a] EXCEPT !.reload = next])
  /\ UNCHANGED <<durable, owner, lock, up, late, pc, ans, counters>>

\* A reload whose build has stopped waiting for it runs on, without the lock. It
\* ends when the public tree is not there.
RunLate ==
  \/ \E r \in late : \E next \in Nexts(r) :
       /\ ReloadStep(r, next)
       /\ late' = (late \ {r}) \cup (IF next = NoReload THEN {} ELSE {next})
       /\ UNCHANGED <<durable, owner, lock, up, pc, loc, ans, counters>>
  \/ \E r \in late :
       /\ r.at = "site" /\ public = NoTree
       /\ late' = late \ {r}
       /\ UNCHANGED <<durable, memory, lock, up, pc, loc, ans, unguarded, counters>>

\* The callbacks share thirty seconds. When they are over the build stops
\* waiting, skips the rest and reports partial_success.
TimesOut(a) ==
  /\ pc[a] = "callbacks" /\ Faults < MaxFaults
  /\ timeouts' = timeouts + 1
  /\ late' = late \cup ({loc[a].reload} \ {NoReload})
  /\ SetLoc(a, [loc[a] EXCEPT !.reload = NoReload, !.clean = FALSE])
  /\ Goto(a, "complete")
  /\ UNCHANGED <<durable, memory, lock, up, ans, unguarded, writes, calls, crashes, failures>>

\* The callback ends with an error: partial_success.
CallbackFails(a) ==
  /\ pc[a] = "callbacks" /\ loc[a].reload.at \in {"site", "read"} /\ Fails
  /\ SetLoc(a, [loc[a] EXCEPT !.reload = NoReload, !.clean = FALSE])
  /\ Goto(a, "complete")
  /\ UNCHANGED <<durable, memory, lock, up, late, ans, unguarded, writes, calls, crashes, timeouts>>

CallbacksDone(a) ==
  /\ pc[a] = "callbacks" /\ loc[a].reload = NoReload
  /\ Goto(a, "complete")
  /\ UNCHANGED <<lock, loc, ans>> /\ SharedUnchanged

\* OnBuildComplete (a failure makes the build partial), then the unlock. A
\* build_site call answers, a publish_changes call goes on to verify.
Complete(a) ==
  /\ pc[a] = "complete" /\ lock' = Nobody
  /\ \E failed \in BOOLEAN :
       /\ IF failed THEN Fails ELSE UNCHANGED failures
       /\ LET clean == loc[a].clean /\ ~failed
          IN \/ Answer(a, "built")
             \/ /\ Goto(a, "poll") /\ UNCHANGED ans
                /\ SetLoc(a, [loc[a] EXCEPT !.clean = clean])
  /\ UNCHANGED <<durable, memory, up, late, unguarded, writes, calls, crashes, timeouts>>

---------------------------------------------------------------------------
\* verify_publication's reading of one page: listed, not pending, and its source
\* file not newer than its public file (a missing file is not newer).
Newer(p) == disk[p] # Absent /\ InTree(public, p) /\ disk[p].n > public[p].n
Fresh(p) == p \in listed /\ (idx[p] # Absent => p \notin pending /\ ~Newer(p))

\* The page asked for may be any; a page that is not fresh, or whose URL does not
\* answer, is reported build_succeeded_unverified, an unknown one is an error.
\* Mutant: a fresh page is reported published without reading the source again.
PollPublishes(a) ==
  /\ pc[a] = "poll"
  /\ \/ /\ loc[a].clean /\ \E p \in Pages : Fresh(p)
        /\ Answer(a, "published")
     \/ Answer(a, "built")
     \/ Error(a, "content_not_found")
  /\ SharedUnchanged
Poll(a) ==
  /\ pc[a] = "poll"
  /\ \/ /\ loc[a].clean /\ \E p \in Pages : Fresh(p)
        /\ Goto(a, "confirm") /\ UNCHANGED <<lock, loc, ans>>
     \/ Answer(a, "built")
     \/ Error(a, "content_not_found")
  /\ SharedUnchanged

\* The verdict stands only if the source still has the revision that was built.
Confirm(a) ==
  /\ pc[a] = "confirm"
  /\ Answer(a, IF disk = loc[a].rev THEN "published" ELSE "built")
  /\ SharedUnchanged

---------------------------------------------------------------------------
\* The process dies and its memory with it. It starts again only when the
\* public tree is there: NewIndex fails without it and the process exits.
Crash ==
  /\ up /\ Faults < MaxFaults
  /\ crashes' = crashes + 1
  /\ up' = FALSE /\ lock' = Nobody /\ late' = {}
  /\ idx' = Blank /\ pending' = {} /\ listed' = {}
  /\ owner' = [p \in Pages |-> Nobody]
  /\ pc' = [a \in Agents |-> "idle"]
  /\ loc' = [a \in Agents |-> NoLocals]
  /\ ans' = [a \in Agents |-> IF pc[a] = "idle" THEN ans[a] ELSE "none"]
  /\ unguarded' = unguarded \cup Unpublished
  /\ UNCHANGED <<durable, writes, calls, timeouts, failures>>

Restart ==
  /\ ~up /\ public # NoTree
  /\ up' = TRUE
  /\ idx' = disk /\ listed' = PagesOf(public)
  /\ UNCHANGED <<durable, pending, owner, lock, late, pc, loc, ans, unguarded, counters>>

Guarding(a) == Look(a) \/ Judge(a) \/ TakeLock(a)
Building(a) ==
  \/ Prepare(a) \/ Hash(a) \/ BuildFails(a) \/ Verify(a)
  \/ \E p \in Pages : Render(a, p)
Swapping(a) ==
  \/ SwapOut(a) \/ SwapOutNothing(a) \/ SwapOutFails(a)
  \/ SwapIn(a) \/ SwapInFails(a) \/ Cleanup(a)
Finishing(a) ==
  \/ RunReload(a) \/ TimesOut(a) \/ CallbackFails(a) \/ CallbacksDone(a) \/ Complete(a)
  \/ Poll(a) \/ Confirm(a)
Running(a) == Guarding(a) \/ Building(a) \/ Swapping(a) \/ Finishing(a)

\* The bounds are reached and nothing is open, or the server cannot start again.
Rest ==
  /\ \A a \in Agents : pc[a] = "idle"
  /\ calls = MaxCalls \/ ~up
  /\ UNCHANGED vars

Next ==
  \/ \E a \in Agents : Request(a) \/ Running(a) \/ \E p \in Pages : Edit(a, p) \/ Delete(a, p)
  \/ \E p \in Pages : OutsideEdit(p)
  \/ RunLate \/ Crash \/ Restart \/ Rest

\* A call that has started runs on: Hugo and the callbacks have time limits, and
\* the read lock the guard waits for is granted in turn.
Fairness == \A a \in Agents : WF_vars(Running(a))

Spec == Init /\ [][Next]_vars /\ Fairness

---------------------------------------------------------------------------
Labels   == {"idle", "look", "judge", "lock", "prepare", "hash", "render", "swapout", "swapin",
             "cleanup", "callbacks", "complete", "poll", "confirm"}
Reloads  == [at : {"done", "site", "read", "install", "clear"}, read : Trees]
Locals   == [ack : SUBSET Agents, saw : SUBSET Pages, excused : SUBSET Pages,
             want : Trees \cup {NoTree}, wantPublic : Trees \cup {NoTree},
             rev : Trees, out : Trees, todo : SUBSET Pages, hadOld : BOOLEAN,
             reload : Reloads, clean : BOOLEAN]
Answers  == {"none", "error", "built", "published"}

\* Type invariant.
TypeOK ==
  /\ disk \in Trees /\ public \in Trees \cup {NoTree} /\ backup \in Trees \cup {NoTree}
  /\ idx \in Trees /\ pending \subseteq Pages /\ listed \subseteq Pages
  /\ owner \in [Pages -> Agents \cup {Nobody}] /\ lock \in Agents \cup {Nobody}
  /\ up \in BOOLEAN /\ late \subseteq Reloads
  /\ pc \in [Agents -> Labels] /\ loc \in [Agents -> Locals] /\ ans \in [Agents -> Answers]
  /\ unguarded \subseteq Pages
  /\ writes \in Nat /\ calls \in Nat /\ crashes \in Nat /\ timeouts \in Nat /\ failures \in Nat

\* build_site "guards against publishing a different change-set's in-flight edits":
\* a page of a change set the caller did not acknowledge becomes public through a
\* build only if it was edited after the guard looked, or had by then lost its
\* mark or its owner record.
GuardedPublication ==
  [][\A a \in Agents : pc[a] = "swapin" /\ pc'[a] = "cleanup" =>
       \A p \in Pages :
         public'[p].by \in Agents \ loc[a].ack /\ (backup # NoTree => public'[p] # backup[p])
           => p \in loc[a].excused]_vars

\* A build that swaps its output in has rendered the source of one moment, although
\* pages are rendered one by one while the author may be writing.
PromotedIsStable == \A a \in Agents : pc[a] \in {"swapout", "swapin"} => loc[a].out = loc[a].rev

\* A caller that gave the revisions it had read gets exactly that source published,
\* over exactly that public tree (unless a failed swap or a deletion took it away).
PublishesWhatWasRead ==
  \A a \in Agents : pc[a] = "cleanup" =>
    /\ loc[a].want \in {NoTree, public}
    /\ loc[a].wantPublic # NoTree => loc[a].hadOld /\ backup = loc[a].wantPublic

\* Until a new tree is in place the old one still exists, across failed swaps,
\* failed restores, crashes and later builds.
OldTreeRetained == public = NoTree => backup # NoTree

\* publish_changes answers "published" only while the public tree, if it is there,
\* is the source: edits, deletions and builds by others during the verification
\* are noticed. (A deletion that could not clean the public tree can undo a creation
\* unnoticed.)
PublishedMeansLive ==
  [][\A a \in Agents : ans'[a] = "published" /\ ans[a] # "published" /\ failures = 0 =>
       public \in {NoTree, disk}]_vars

\* Every call is answered or dies with the process, so that the content lock is
\* given back.
CallsAreAnswered == \A a \in Agents : pc[a] # "idle" ~> pc[a] = "idle"

\* What the code says of itself and does not keep (no run checks these; README, section 6).

\* change_set_guard.go: "nothing but a full server restart clears BuildPending": an
\* agent's page that is not published yet is marked pending.
MarkedUntilPublished ==
  up /\ lock = Nobody /\ crashes = 0 /\ timeouts = 0 =>
    \A p \in Pages :
      disk[p].by \in Agents /\ (public # NoTree => public[p] # disk[p]) => p \in pending

\* server.go: "The public swap is an atomic directory rename", so a process that
\* died leaves one of "two observable outcomes (old complete tree or new complete tree)".
OldOrNewTree == ~up => public # NoTree
=============================================================================

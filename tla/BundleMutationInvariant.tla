----------------------- MODULE BundleMutationInvariant -----------------------
(***************************************************************************)
(* The inductive invariant of BundleMutation, in named parts.  TLC checks  *)
(* it on the small instance; BundleMutationProofs proves it for every one. *)
(***************************************************************************)
EXTENDS BundleMutation

\* Where a handler is under the content lock whatever its tool.
Held == {"check", "snapshot", "begin", "write", "undo"} \cup Taken
\* ... has an entry in the recovery journal,
Journaled == {"write", "undo"} \cup Taken
\* ... and has changed files that the copies do not show yet.
Ahead == {"tidy", "consume", "reconcile"}

\* The premise of what holds while nothing has failed: no failed call to the store or
\* the files, and no start that took a journal entry for another call's.
Sound == failures = 0 /\ ~damaged

\* No handler runs before the server serves; startup works on nothing afterwards.
PhaseInv ==
  /\ phase # "up" => \A c \in Clients : pc[c] = "idle"
  /\ phase \in {"down", "sync", "up"} => todo = {}
  /\ phase \in {"down", "up"} => resolved = {} /\ landed = {}
  /\ phase \in {"prepare", "commit"} => todo \subseteq journal
  /\ phase \in {"prepare", "sync"} => resolved \subseteq journal
  /\ landed \subseteq resolved

\* The content lock is held exactly by the handler inside its critical section.
LockOf(c) == lock = c <=> pc[c] \in Held \/ (pc[c] = "admit" /\ LocksFirst(req[c]))

\* The call of a handler, by where it is.
ToolOf(c) ==
  /\ pc[c] # "idle" => req[c] \in Requests
  /\ pc[c] \notin {"idle", "read"} => req[c].tool \in Mutating
  /\ pc[c] = "check" => req[c].tool # "create_bundle"
  /\ pc[c] = "snapshot" => req[c].tool \in {"apply_bundle_plan", "rollback_bundle"}
  /\ pc[c] = "tidy" => req[c].tool = "delete_bundle"

\* A handler without an entry has written nothing; the translations it works on are
\* captured before it begins, and all written once its call has taken effect.
LocalsOf(c) ==
  /\ pc[c] \notin Journaled => loc[c].done = {} /\ loc[c].entry = NoEntry
  /\ pc[c] \in Held \ {"check"} =>
       DOMAIN loc[c].before = DOMAIN loc[c].after /\ loc[c].done \subseteq DOMAIN loc[c].after
  /\ pc[c] \in Taken => loc[c].done = DOMAIN loc[c].after

\* A create starts from no file, a delete ends with none.
LifecycleOf(c) ==
  pc[c] \in Held \/ (pc[c] = "lock" /\ ~Keyed(req[c])) =>
    /\ Lifecycle(req[c]) => DOMAIN loc[c].before = DOMAIN loc[c].after
    /\ req[c].tool = "create_bundle" =>
         \A l \in DOMAIN loc[c].before : loc[c].before[l] = Absent
    /\ req[c].tool = "delete_bundle" =>
         loc[c].before = req[c].files /\ \A l \in DOMAIN loc[c].after : loc[c].after[l] = Absent

\* Only a create without a key looks for its files outside the lock.
Blindly(r) == r.tool = "create_bundle" /\ ~Keyed(r)

\* Under the lock the files are as the handler left them: those it has written as after
\* the write, the others as it captured them.
Placed(c) == \A l \in DOMAIN loc[c].after :
  IF l \in loc[c].done THEN disk[l] = loc[c].after[l]
  ELSE disk[l] = loc[c].before[l] \/ Blindly(req[c])
WriteOf(c) ==
  /\ pc[c] = "undo" /\ failures = 0 => Blindly(req[c])
  /\ pc[c] \in (Held \ {"check", "undo"}) \/ (pc[c] = "undo" /\ failures = 0) => Placed(c)

\* A call that acts has found its key unused, and nobody but a call that overlaps it
\* has recorded it since; then it records it.
KeyOf(c) ==
  /\ pc[c] \in Held \ {"commit"} \/ (pc[c] = "lock" /\ ~LocksFirst(req[c])) =>
       ~Recorded(c) \/ Slot(c) \in overlapped
  /\ pc[c] = "commit" /\ Keyed(req[c]) /\ failures = 0 => Recorded(c)

HandlerInv(c) ==
  LockOf(c) /\ ToolOf(c) /\ LocalsOf(c) /\ LifecycleOf(c) /\ WriteOf(c) /\ KeyOf(c)

\* Two calls under one key that have both found it unused are known to overlap.
OverlapInv == \A c, d \in Clients :
  c # d /\ PastKey(c) /\ PastKey(d) /\ Slot(c) = Slot(d) => Slot(c) \in overlapped

\* A handler's journal entry is its own.
OwnInv == \A c \in Clients : pc[c] \in Journaled =>
  LET e == loc[c].entry
  IN  /\ e \in journal /\ e.client = c /\ e.req = req[c]
      /\ e.before = loc[c].before /\ e.after = loc[c].after

\* What a journal entry says of its call.
EntryInv == \A e \in journal \cup todo \cup resolved \cup landed :
  /\ e.id > 0 /\ DOMAIN e.before = DOMAIN e.after
  /\ e.req.tool \in Mutating
  /\ e.cleanup => \A l \in DOMAIN e.after : e.after[l] = Absent

\* A pending entry is that of the call in flight, or of a create that found a file there.
\* After a crash it is alone, its files are as before or as after the write, and startup
\* is about to resolve it.
FlightInv == Sound => \A e \in journal :
  /\ phase = "up" =>
       \/ lock = e.client /\ pc[e.client] \in Journaled /\ loc[e.client].entry = e
       \/ Blindly(e.req)
  /\ phase # "up" => Known(e) /\ \A f \in journal : f = e
  /\ phase = "prepare" => e \in todo \cup resolved
  /\ phase = "sync" => e \in resolved
  /\ phase = "commit" => e \in todo

\* The copies differ from the files only by what the call in flight has written.
CopyInv == failures = 0 =>
  /\ phase \in {"sync", "commit"} => idx = Only(disk, Langs)
  /\ phase \in {"commit", "up"} => shadow = idx
  /\ phase = "up" /\ (\A c \in Clients : pc[c] \notin {"write", "undo"} \cup Ahead) =>
       idx = Only(disk, Langs)
  /\ \A c \in Clients : pc[c] \in {"write", "undo"} => \A l \in Langs :
       idx[l] = IF l \in loc[c].done THEN loc[c].before[l] ELSE disk[l]
  /\ \A c \in Clients : pc[c] \in Ahead => Over(loc[c].after, idx) = Only(disk, Langs)

\* The key a journal entry's call was made under.
EntrySlot(e) == <<CallerOf[e.client], e.req.tool, e.req.key>>

\* A keyed call that changed the bundle is known under its key, or is in flight, or
\* startup is about to record it.
Accounted(s) ==
  \/ idem[s] # Unused
  \/ \E c \in Clients : pc[c] \in Taken /\ Keyed(req[c]) /\ Slot(c) = s
                        /\ loc[c].before # loc[c].after
  \/ \E e \in journal :
       /\ phase # "up" /\ Keyed(e.req) /\ EntrySlot(e) = s /\ Landed(e)
       /\ phase = "prepare" => e \in todo \cup landed
       /\ phase = "sync" => e \in landed
       /\ phase = "commit" => e \in todo \cap landed
OnceInv == Sound => \A s \in Slots \ overlapped : applied[s] <= 1 /\ (applied[s] = 1 => Accounted(s))

IInv ==
  /\ TypeOK /\ PhaseInv /\ \A c \in Clients : HandlerInv(c)
  /\ OverlapInv /\ OwnInv /\ EntryInv /\ FlightInv /\ CopyInv /\ SnapshotsHoldTheirRevision /\ OnceInv
-----------------------------------------------------------------------------
\* What the refinement of BundleService rests on besides.

\* The bundle the callers see while the files of a call are written or undone.
Seen(c) == Over(Only(loc[c].before, loc[c].done), disk)

\* A handler writes what its request asks for ...
ClaimOf(c) ==
  /\ pc[c] = "read" => req[c].tool = "plan_bundle_change"
  /\ pc[c] \in Held \cup {"lock"} /\ req[c].tool = "apply_bundle_plan" =>
       req[c].plan \in Plans /\ loc[c].after = req[c].plan.after
  /\ pc[c] \in Held \ {"check"} /\ req[c].tool = "rollback_bundle" =>
       \A l \in DOMAIN loc[c].after : loc[c].after[l] = req[c].to[l] /\ req[c].to[l] # Absent
  /\ pc[c] \in Held \/ (pc[c] = "lock" /\ ~Keyed(req[c])) =>
       /\ req[c].tool = "create_bundle" => loc[c].after = req[c].files
       /\ req[c].tool = "delete_bundle" => \A l \in DOMAIN req[c].files : req[c].files[l] # Absent

\* ... to the bundle that the request names; an undo that has not failed finds the files
\* it puts back as the handler left them.
BaseOf(c) ==
  /\ pc[c] \in {"snapshot", "begin", "write"} \/ (pc[c] = "undo" /\ ~damaged) =>
       /\ req[c].tool = "apply_bundle_plan" => Seen(c) = req[c].plan.base
       /\ req[c].tool = "rollback_bundle" => Seen(c) = req[c].expected
  /\ pc[c] = "undo" /\ ~damaged => Placed(c)

\* The entry asks for the directory of a bundle to be removed if no translation stays.
SweepOf(c) ==
  /\ pc[c] \in Journaled =>
       (loc[c].entry.cleanup <=> /\ req[c].tool = "delete_bundle"
                                 /\ \A l \in Langs \ DOMAIN loc[c].after : disk[l] = Absent)
  /\ pc[c] \in Taken => DOMAIN loc[c].after # {}
  /\ pc[c] \in Taken \ {"tidy"} /\ loc[c].entry.cleanup => disk = Empty

\* When the process has died, the journal holds the entry of one call, whose files are
\* all as before or as after the write; startup settles it before the server serves.
Settled(e) == ~Torn(e) /\ (Sweeps(e) => disk = Empty)
TornInv == phase # "up" /\ ~damaged => \A e \in journal :
  /\ Known(e) /\ \A f \in journal : f = e
  /\ phase \in {"sync", "commit"} \/ (phase = "prepare" /\ e \notin todo) => Settled(e)

RInv == TornInv /\ \A c \in Clients : ClaimOf(c) /\ BaseOf(c) /\ SweepOf(c)
=============================================================================

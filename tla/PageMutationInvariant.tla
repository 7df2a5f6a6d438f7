------------------------ MODULE PageMutationInvariant ----------------------
(***************************************************************************)
(* The inductive invariant of PageMutation, in named parts.  TLC checks it *)
(* on the small instance; PageMutationProofs proves it for every instance. *)
(***************************************************************************)
EXTENDS PageMutation

\* Where a handler has an entry in the recovery journal.
Journaled == {"write", "tidy", "reconcile", "stage", "remember", "commit"}
\* ... and where it has not recorded its key yet.
Unrecorded == {"check", "begin", "write", "tidy", "reconcile", "stage", "remember"}

\* The content lock is held exactly by the handler inside its critical section.
LockInv == \A c \in Clients : pc[c] \in Holding <=> lock = c

\* No handler runs before the server serves; startup works on nothing afterwards.
PhaseInv ==
  /\ phase # "up" => \A c \in Clients : pc[c] = "idle"
  /\ phase \in {"down", "sync", "up"} => todo = {}
  /\ phase \in {"down", "up"} => resolved = {} /\ landed = {}
  /\ phase = "prepare" => todo \subseteq journal
  /\ phase \in {"prepare", "sync"} => resolved \subseteq journal
  /\ phase = "commit" => todo \subseteq journal

\* The file a handler resolved is one its request may name.
Aims(r, src) ==
  \/ src \in Langs /\ r.lang \in {Default, src}
     /\ IF r.tool = "create_page" THEN src = r.lang ELSE r.expected # Absent
  \/ src = Bundle /\ r.tool = "delete_page" /\ r.lang = Default
AimInv == \A c \in Clients :
  /\ pc[c] \in {"begin"} \cup Journaled => Aims(req[c], loc[c].src)
  /\ pc[c] = "inspect" => req[c].tool = "delete_page" /\ ~Keyed(req[c])
  /\ pc[c] = "check" => Aims(req[c], loc[c].src) /\ req[c].tool = "delete_page"
  /\ pc[c] = "lock" /\ req[c].tool = "delete_page" /\ ~Keyed(req[c]) =>
       Aims(req[c], loc[c].src)

\* The revision compared with expected_revision is still that of the file.
BaseInv == \A c \in Clients :
  pc[c] \in {"begin", "write"} /\ req[c].tool # "create_page" =>
    /\ loc[c].base = req[c].expected
    /\ loc[c].src \in Langs => loc[c].base = disk[loc[c].src]
    /\ loc[c].src = Bundle => loc[c].base = Absent

\* A call that acts has found its key unused.
KeyInv == \A c \in Clients :
  /\ pc[c] \in Unrecorded => ~Recorded(c)
  /\ pc[c] = "commit" /\ Keyed(req[c]) /\ ~Degraded => idem[Slot(c)] = req[c]

\* A bundle that lost its last language file has none, nor one without directory.
TidyInv ==
  /\ ~dir => disk = Empty
  /\ \A c \in Clients : pc[c] = "tidy" =>
       disk = Empty /\ loc[c].full /\ req[c].tool = "delete_page" /\ loc[c].src \in Langs

\* What a journal entry says of its call.
EntryInv == \A e \in journal \cup todo \cup resolved \cup landed :
  /\ e.after = e.req.content
  /\ Aims(e.req, e.path)
  /\ e.cleanup => e.path \in Langs /\ e.req.tool = "delete_page"

\* A handler's journal entry is its own.
OwnInv == \A c \in Clients : pc[c] \in Journaled =>
  LET e == loc[c].entry
  IN /\ e \in journal
     /\ e.client = c /\ e.req = req[c] /\ e.path = loc[c].src /\ e.before = loc[c].base
     /\ pc[c] \in Taken /\ ~Degraded => Landed(e)

\* A pending entry that may still act is that of the call in flight, or startup
\* is about to resolve it; the file it names is as before or as after the write.
Live(e) == ~Stale(e)
FlightInv == ~Degraded => \A e \in journal : Live(e) =>
  /\ disk[e.path] \in {e.before, e.after}
  /\ e.cleanup => \A l \in Langs \ {e.path} : disk[l] = Absent
  /\ phase = "up" =>
       lock = e.client /\ pc[e.client] \in Journaled /\ loc[e.client].entry = e
  /\ phase = "prepare" => e \in todo \cup resolved
  /\ phase = "sync" => e \in resolved
  /\ phase = "commit" => e \in todo
  /\ \A f \in journal : Live(f) => f = e

\* What startup holds for landed has landed.
LandedInv == \A e \in landed :
  /\ e \in resolved
  /\ ~Degraded => Landed(e)

\* The copies differ from the source only by the write of the call in flight.
CopyInv == ~Degraded =>
  /\ phase \in {"sync", "commit"} => idx = disk
  /\ phase = "commit" => shadow = disk
  /\ phase = "up" /\ (\A c \in Clients : pc[c] \notin {"tidy", "reconcile"}) =>
       idx = disk /\ shadow = disk
  /\ \A c \in Clients : pc[c] = "reconcile" =>
       Derived(c, idx) = disk /\ Derived(c, shadow) = disk

\* A keyed call that changed the source is known under its key, or is in flight,
\* or startup is about to record it.
Accounted(s) ==
  \/ idem[s] # Unused
  \/ \E c \in Clients : pc[c] \in Taken /\ Keyed(req[c]) /\ Slot(c) = s
  \/ \E e \in journal :
       /\ phase # "up" /\ Keyed(e.req) /\ EntrySlot(e) = s /\ Landed(e)
       /\ phase = "prepare" => e \in todo \cup landed
       /\ phase = "sync" => e \in landed
       /\ phase = "commit" => e \in todo \cap landed
OnceInv == ~Degraded => \A s \in Slots :
  applied[s] <= 1 /\ (applied[s] = 1 => Accounted(s))

\* What is known under the key of a pending update is that update.
RecordInv == ~Degraded => \A e \in journal :
  e.req.tool = "update_page" /\ Keyed(e.req) => idem[EntrySlot(e)] \in {Unused, e.req}

IInv ==
  /\ TypeOK /\ LockInv /\ PhaseInv /\ AimInv /\ BaseInv /\ KeyInv /\ TidyInv
  /\ EntryInv /\ OwnInv /\ FlightInv /\ LandedInv /\ CopyInv /\ OnceInv /\ RecordInv
=============================================================================

---------------------------- MODULE PreviewLeases ----------------------------
(***************************************************************************)
(* previewstore.Store and the tools that use it.  A preview is an entry in *)
(* memory, a lease row in SQLite and a directory with Hugo's output; the   *)
(* three are made and removed one after the other, under different locks.  *)
(* An entry URL carries a token that a browser exchanges for a session     *)
(* cookie; the exchange works until a request came with the cookie.        *)
(*                                                                         *)
(* The preview id stands for the directory and the entry token as well; of *)
(* the session token only whether there is one matters.                    *)
(***************************************************************************)
EXTENDS Naturals, FiniteSets

CONSTANTS Previews,        \* ids, drawn at random: none is drawn twice
          Calls, Owner,    \* create_preview requests and who sends them
          Visitors,        \* browsers
          None,
          MaxPerCaller,    \* cap on a caller's active previews
          MaxDisk,         \* cap on all previews together, in previews of equal size
          Verify,          \* cfg.PreviewExternalVerification
          MaxFaults,       \* bound on failing statements
          MaxRestarts      \* bound on restarts

Owners == {Owner[c] : c \in Calls}

Leases == [owner : Owners, session : BOOLEAN, activated : BOOLEAN, recovered : BOOLEAN]

ASSUME PreviewAssumption ==
    /\ None \notin Previews \cup Owners /\ None \notin Leases
    /\ IsFiniteSet(Calls)
    /\ MaxPerCaller \in Nat \ {0} /\ MaxDisk \in Nat \ {0} /\ MaxFaults \in Nat
    /\ MaxRestarts \in Nat
    /\ Verify \in BOOLEAN

VARIABLES entries,   \* Store.entries
          rows,      \* table preview_leases: the owner of each lease
          dirs,      \* directories under the preview root
          removals,  \* directories a call has still to remove
          expired,   \* previews past their ExpiresAt
          calls,     \* what each request has in its hands
          drawn,     \* ids drawn so far (history)
          visits,    \* fetches between the two critical sections of GetBySession
          answered,  \* previews whose entry URL was returned (history)
          fetched,   \* previews a browser has come back to with its session (history)
          overtaken, \* rows removed by a bulk revocation before the entry was made (history)
          faults, restarts

shared == <<entries, rows, dirs, removals, expired>>
browser == <<visits, fetched>>
vars == <<entries, rows, dirs, removals, expired, calls, visits,
          drawn, answered, fetched, overtaken, faults, restarts>>

Idle == [pc |-> "idle", p |-> None]

Init ==
    /\ entries = [p \in Previews |-> None]
    /\ rows = [p \in Previews |-> None]
    /\ dirs = {} /\ removals = {} /\ expired = {}
    /\ calls = [c \in Calls |-> Idle]
    /\ visits = [v \in Visitors |-> None]
    /\ drawn = {} /\ answered = {} /\ fetched = {} /\ overtaken = {}
    /\ faults = 0 /\ restarts = 0

Listed == {p \in Previews : entries[p] # None}
Active == Listed \ expired
OwnedBy(o) == {p \in Listed : entries[p].owner = o}

Fails == faults < MaxFaults /\ faults' = faults + 1

(* One statement on the lease table: it takes effect, or fails and nothing *)
(* of the operation happens.                                               *)
Without(f, gone) == [p \in Previews |-> IF p \in gone THEN None ELSE f[p]]

\* Mutant: the entry is dropped and its row forgotten.
DropForgetsRow(gone) ==
    /\ entries' = Without(entries, gone)
    /\ removals' = removals \cup gone
    /\ UNCHANGED <<rows, dirs, expired>>

(* The row first, then the entry, under the store's mutex; the directory   *)
(* is removed by the same call after it has given the mutex back.          *)
Drop(gone) ==
    /\ rows' = Without(rows, gone)
    /\ entries' = Without(entries, gone)
    /\ removals' = removals \cup gone
    /\ UNCHANGED <<dirs, expired>>

RemoveDir(p) ==
    /\ p \in removals
    /\ dirs' = dirs \ {p} /\ removals' = removals \ {p}
    /\ UNCHANGED <<entries, rows, expired, calls, browser, drawn, answered, overtaken, faults, restarts>>

(* Any access to an expired entry drops it: Lookup, GetByToken,            *)
(* GetBySession, EstablishSession and the lists.  When the row cannot be   *)
(* deleted the entry stays and the access is refused all the same.         *)
DropExpired(p) ==
    /\ p \in Listed \cap expired
    /\ Drop({p})
    /\ UNCHANGED <<calls, browser, drawn, answered, overtaken, faults, restarts>>

-----------------------------------------------------------------------------
(* create_preview.                                                         *)

To(c, pc) == calls' = [calls EXCEPT ![c].pc = pc]
Ends(c) == calls' = [calls EXCEPT ![c] = Idle]

(* SweepPersistent stops at the first row it cannot delete and the tool    *)
(* answers persistence_error.                                              *)
SweepFirst(c) ==
    /\ calls[c] = Idle
    /\ \/ /\ Drop(Listed \cap expired)
          /\ calls' = [calls EXCEPT ![c] = [pc |-> "swept", p |-> None]]
          /\ UNCHANGED faults
       \/ /\ Fails
          /\ \E some \in SUBSET (Listed \cap expired) :
                some # Listed \cap expired /\ Drop(some)
          /\ UNCHANGED calls
    /\ UNCHANGED <<browser, drawn, answered, overtaken, restarts>>

Admitted(c) ==
    /\ Cardinality(OwnedBy(Owner[c]) \ expired) < MaxPerCaller
    /\ Cardinality(Active) < MaxDisk

(* The caps are read once, before the lock and the build.                  *)
CheckCaps(c) ==
    /\ calls[c].pc = "swept"
    /\ IF Admitted(c) THEN To(c, "admitted") ELSE Ends(c)
    /\ UNCHANGED <<shared, browser, drawn, answered, overtaken, faults, restarts>>

(* NewDir and the drawing of the id under ContentMu.RLock.  Nothing here    *)
(* depends on who holds the lock: a mutation that keeps it for ten seconds *)
(* turns the call away with build_in_progress.                             *)
StartBuild(c, p) ==
    /\ calls[c].pc = "admitted"
    /\ \/ /\ p \notin drawn
          /\ drawn' = drawn \cup {p}
          /\ dirs' = dirs \cup {p}
          /\ calls' = [calls EXCEPT ![c].pc = "building", ![c].p = p]
       \/ Ends(c) /\ UNCHANGED <<dirs, drawn>>
    /\ UNCHANGED <<entries, rows, removals, expired, browser, answered, overtaken, faults, restarts>>

(* Hugo fails, the pages cannot be normalised, or an id cannot be drawn.   *)
BuildFails(c) ==
    /\ calls[c].pc = "building"
    /\ dirs' = dirs \ {calls[c].p}
    /\ Ends(c)
    /\ UNCHANGED <<entries, rows, removals, expired, browser, drawn, answered, overtaken, faults, restarts>>

\* Mutant: a failing statement is logged and the preview registered.
PutRowOrLog(c) ==
    /\ calls[c].pc = "building"
    /\ \/ rows' = [rows EXCEPT ![calls[c].p] = Owner[c]] /\ UNCHANGED faults
       \/ Fails /\ UNCHANGED rows
    /\ To(c, "rowed")
    /\ UNCHANGED <<entries, dirs, removals, expired, browser, drawn, answered, overtaken, restarts>>

(* Put, first half: the row is written without the store's mutex.          *)
PutRow(c) ==
    LET p == calls[c].p
    IN  /\ calls[c].pc = "building"
        /\ \/ /\ rows' = [rows EXCEPT ![p] = Owner[c]]
              /\ To(c, "rowed")
              /\ UNCHANGED <<dirs, faults>>
           \/ /\ Fails
              /\ dirs' = dirs \ {p}
              /\ Ends(c)
              /\ UNCHANGED rows
        /\ UNCHANGED <<entries, removals, expired, browser, drawn, answered, overtaken, restarts>>

NewEntry(c) == [owner |-> Owner[c], session |-> FALSE, activated |-> FALSE, recovered |-> FALSE]

(* Put, second half: the entry under the mutex.                            *)
PutEntry(c) ==
    /\ calls[c].pc = "rowed"
    /\ entries' = [entries EXCEPT ![calls[c].p] = NewEntry(c)]
    /\ To(c, IF Verify THEN "verifying" ELSE "ready")
    /\ UNCHANGED <<rows, dirs, removals, expired, browser, drawn, answered, overtaken, faults, restarts>>

(* The entry URL is returned, the read lock given back.                    *)
Answer(c) ==
    /\ calls[c].pc = "ready"
    /\ answered' = answered \cup {calls[c].p}
    /\ Ends(c)
    /\ UNCHANGED <<shared, browser, drawn, overtaken, faults, restarts>>

-----------------------------------------------------------------------------
(* Sessions.                                                               *)

(* EstablishSession with the right token: refused when a request came with *)
(* the session it minted; otherwise the session there is is handed out     *)
(* again, or a first one drawn.                                            *)
Exchangeable(p) ==
    /\ p \in Active /\ ~entries[p].recovered
    /\ ~ (entries[p].session /\ entries[p].activated)

Establish(p) == entries' = [entries EXCEPT ![p].session = TRUE]

(* verifyExternalPreview: an entry request and content requests through    *)
(* the public ingress.  Whatever comes of them, the probe's session is     *)
(* reset by a deferred call.                                               *)
ProbeExchange(c) ==
    LET p == calls[c].p
    IN  /\ calls[c].pc = "verifying" /\ Exchangeable(p)
        /\ Establish(p)
        /\ To(c, "probing")
        /\ UNCHANGED <<rows, dirs, removals, expired, visits, drawn, answered, fetched,
                       overtaken, faults, restarts>>

ProbeFetch(c) ==
    LET p == calls[c].p
    IN  /\ calls[c].pc = "probing" /\ p \in Active
        /\ entries[p].session
        /\ entries' = [entries EXCEPT ![p].activated = TRUE]
        /\ To(c, "probed")
        /\ UNCHANGED <<rows, dirs, removals, expired, browser, drawn, answered, overtaken, faults, restarts>>

\* Mutant: the reset leaves the mark that the session was used.
ResetKeepsMark(e) == [e EXCEPT !.session = FALSE]

Reset(e) == [e EXCEPT !.session = FALSE, !.activated = FALSE]

ProbeReset(c) ==
    LET p == calls[c].p
    IN  /\ calls[c].pc = "probed"
        /\ entries' = IF p \in Listed THEN [entries EXCEPT ![p] = Reset(@)] ELSE entries
        /\ To(c, "ready")
        /\ UNCHANGED <<rows, dirs, removals, expired, browser, drawn, answered, overtaken, faults, restarts>>

(* The probe fails at any point: its session is reset and the preview is   *)
(* revoked.  When the row cannot be deleted the entry stays, unanswered.   *)
ProbeFails(c) ==
    LET p == calls[c].p
    IN  /\ calls[c].pc \in {"verifying", "probing", "probed"}
        /\ \/ p \in Listed /\ Drop({p}) /\ UNCHANGED faults
           \/ p \notin Listed /\ UNCHANGED <<shared, faults>>
           \/ /\ p \in Listed /\ Fails
              /\ entries' \in {entries, [entries EXCEPT ![p] = Reset(@)]}
              /\ UNCHANGED <<rows, dirs, removals, expired>>
        /\ Ends(c)
        /\ UNCHANGED <<browser, drawn, answered, overtaken, restarts>>

(* HTTPHandler: a browser opens the entry URL without a cookie that works. *)
OpenEntry(p) ==
    /\ p \in answered /\ Exchangeable(p)
    /\ Establish(p)
    /\ UNCHANGED <<rows, dirs, removals, expired, calls, visits, drawn, answered, fetched,
                   overtaken, faults, restarts>>

(* GetBySession, first critical section: the stored session is compared    *)
(* after the mutex was given back.                                         *)
FetchCompare(v, p) ==
    /\ visits[v] = None
    /\ p \in answered \cap Active /\ entries[p].session
    /\ visits' = [visits EXCEPT ![v] = p]
    /\ UNCHANGED <<shared, calls, drawn, answered, fetched, overtaken, faults, restarts>>

(* Second one: the mark is set on the entry, which may have left the map   *)
(* in between, before the request is answered: with the file, a redirect   *)
(* or a 404, the mark is the same.                                         *)
FetchServe(v) ==
    LET p == visits[v]
    IN  /\ p # None
        /\ entries' = IF p \in Listed THEN [entries EXCEPT ![p].activated = TRUE] ELSE entries
        /\ fetched' = fetched \cup {p}
        /\ visits' = [visits EXCEPT ![v] = None]
        /\ UNCHANGED <<rows, dirs, removals, expired, calls, drawn, answered,
                       overtaken, faults, restarts>>

-----------------------------------------------------------------------------
(* revoke_preview and revoke_all_previews, each under the store's mutex.   *)
(* The bulk one deletes every row of the owner, and the entries there are. *)

Revoke(p) ==
    /\ p \in Listed
    /\ Drop({p})
    /\ UNCHANGED <<calls, browser, drawn, answered, overtaken, faults, restarts>>

RevokeAll(o) ==
    /\ OwnedBy(o) # {} \/ \E p \in Previews : rows[p] = o
    /\ rows' = [p \in Previews |-> IF rows[p] = o THEN None ELSE rows[p]]
    /\ entries' = Without(entries, OwnedBy(o))
    /\ removals' = removals \cup OwnedBy(o)
    /\ overtaken' = overtaken \cup {p \in Previews : rows[p] = o /\ entries[p] = None}
    /\ UNCHANGED <<dirs, expired, calls, browser, drawn, answered, faults, restarts>>

Expire(p) ==
    /\ p \notin expired /\ (entries[p] # None \/ rows[p] # None)
    /\ expired' = expired \cup {p}
    /\ UNCHANGED <<entries, rows, dirs, removals, calls, browser, drawn, answered,
                   overtaken, faults, restarts>>

-----------------------------------------------------------------------------
(* What the tools tell without changing anything but what has expired.     *)

PreviewAccessStatus(e) == IF e.recovered THEN "restart_invalidated" ELSE "active"

(* list_previews: the caller's own, a clean URL only for those a browser   *)
(* can still be let into.                                                  *)
ListOwned(o) ==
    {[id |-> p, access_status |-> PreviewAccessStatus(entries[p])] :
        p \in OwnedBy(o) \ expired}

ListPreviews(o) == {i.id : i \in {j \in ListOwned(o) : j.access_status = "active"}}

(* get_storage_health: directories no live preview backs.                  *)
ExpiredPreviewResidue == dirs \ Active

-----------------------------------------------------------------------------
(* The process dies; NewPersistent reconciles the rows with the directory. *)
(* A lease that is alive comes back without its tokens; rows of expired    *)
(* leases or without a directory go, and so do directories without a row.  *)

Restored == {p \in Previews : rows[p] # None /\ p \in dirs /\ p \notin expired}

Restart ==
    /\ restarts < MaxRestarts /\ restarts' = restarts + 1
    /\ entries' = [p \in Previews |-> IF p \in Restored
                      THEN [owner |-> rows[p], session |-> FALSE, activated |-> FALSE,
                            recovered |-> TRUE]
                      ELSE None]
    /\ rows' = [p \in Previews |-> IF p \in Restored THEN rows[p] ELSE None]
    /\ dirs' = Restored
    /\ removals' = {}
    /\ calls' = [c \in Calls |-> Idle]
    /\ visits' = [v \in Visitors |-> None]
    /\ overtaken' = {}
    /\ UNCHANGED <<expired, drawn, answered, fetched, faults>>

Create(c) ==
    \/ SweepFirst(c) \/ CheckCaps(c) \/ BuildFails(c)
    \/ \E p \in Previews : StartBuild(c, p)
    \/ PutRow(c) \/ PutEntry(c) \/ Answer(c)
    \/ ProbeExchange(c) \/ ProbeFetch(c) \/ ProbeReset(c) \/ ProbeFails(c)

Next ==
    \/ \E c \in Calls : Create(c)
    \/ \E p \in Previews : RemoveDir(p) \/ DropExpired(p) \/ OpenEntry(p) \/ Revoke(p) \/ Expire(p)
    \/ \E v \in Visitors, p \in Previews : FetchCompare(v, p)
    \/ \E v \in Visitors : FetchServe(v)
    \/ \E o \in Owners : RevokeAll(o)
    \/ Restart

Spec == Init /\ [][Next]_vars

-----------------------------------------------------------------------------
(* The caps are soft: concurrent calls may exceed them, each by the one    *)
(* preview it had in hand when it was admitted, and by no more.            *)
SoftCap ==
    \A o \in Owners :
        Cardinality(OwnedBy(o) \ expired)
            < MaxPerCaller + Cardinality({c \in Calls : Owner[c] = o})

(* An entry has its directory and, unless a bulk revocation came between   *)
(* the two halves of Put, its lease row with the same owner; a row without *)
(* an entry is one a call has in its hands.  A directory get_storage_health*)
(* calls safe to remove is an expired preview's or about to be removed,    *)
(* unless create_preview is still filling it.                              *)
InHand == {calls[c].p : c \in Calls}

EntriesOwnTheirFiles ==
    /\ \A p \in Listed : p \in dirs \/ p \in removals
    /\ \A p \in Listed : p \notin overtaken => rows[p] = entries[p].owner
    /\ \A p \in Previews : rows[p] # None => p \in Listed \cup InHand
    /\ ExpiredPreviewResidue \ InHand \subseteq (Listed \cap expired) \cup removals

(* A preview that was revoked, dropped as expired or given up never comes  *)
(* back, not by a restart between the steps that remove it either.         *)
GoneStaysGone ==
    [][\A p \in drawn \ (Listed \cup InHand) : entries'[p] = None]_vars

(* From the answer of create_preview until a browser comes back with its   *)
(* session, the entry URL of a preview its owner finds with a URL in       *)
(* list_previews can be opened: the probe's own session does not spend it. *)
(* A preview that outlived a restart is listed without one.                *)
EntryStaysUsable ==
    \A o \in Owners : \A p \in (answered \cap ListPreviews(o)) \ fetched :
        Exchangeable(p) \/ \E v \in Visitors : visits[v] = p

(* Once a browser has come back with its session, the entry URL is good    *)
(* for no further one, and a restart does not revive it.                   *)
LinkIsSpent == \A p \in fetched \cap Listed : ~Exchangeable(p)

(* The entry URL opens for a browser until one has come back with its      *)
(* session, then for none.                                                 *)
LinksOpenOnce == EntryStaysUsable /\ LinkIsSpent

(* Entries, rows and directories account for each other and exceed the cap *)
(* by no more than the calls in flight.                                    *)
LeasesAreAccountedFor == SoftCap /\ EntriesOwnTheirFiles
=============================================================================

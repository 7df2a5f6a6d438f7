---------------------------- MODULE PageService ----------------------------
(***************************************************************************)
(* What create_page, update_page and delete_page promise their callers     *)
(* about one page bundle, without lock, journal, index or startup code:    *)
(* a call takes effect at most once, in one step, only on the revision it  *)
(* names, and the answer tells whether it did.  PageMutation implements it.*)
(***************************************************************************)
CONSTANTS Clients, Langs, Default, Contents, Absent, NoKey, Unused, Tools, Keys, Requests

VARIABLES
  store,     \* the content of each language file
  call,      \* the open call of each client, or Unused
  effect,    \* the clients whose open call has taken effect
  known,     \* the request whose success is recorded under each key
  outcome,   \* what the client heard last
  degraded   \* has a database write or a file operation ever failed

vars  == <<store, call, effect, known, outcome, degraded>>
Empty == [l \in Langs |-> Absent]
Slot(c) == <<c, call[c].tool, call[c].key>>

\* The store is as the request wants it.
Satisfied(r) == \E l \in Langs : store[l] = r.content

Init ==
  /\ store \in [Langs -> Contents \cup {Absent}]
  /\ call = [c \in Clients |-> Unused]
  /\ effect = {}
  /\ known = [s \in Clients \X Tools \X Keys |-> Unused]
  /\ outcome = [c \in Clients |-> "none"]
  /\ degraded = FALSE

Open(c) ==
  /\ call[c] = Unused
  /\ \E r \in Requests : call' = [call EXCEPT ![c] = r]
  /\ outcome' = [outcome EXCEPT ![c] = "none"]
  /\ UNCHANGED <<store, effect, known, degraded>>

\* A page is created where there is none, replaced or removed where it holds the
\* revision the caller expects.
Creates(r) ==
  /\ r.tool = "create_page" /\ store[r.lang] = Absent
  /\ store' = [store EXCEPT ![r.lang] = r.content]
Rewrites(r) ==
  /\ r.tool \in {"update_page", "delete_page"} /\ r.expected # Absent
  /\ \E l \in Langs :
       /\ r.lang \in {Default, l}
       /\ store[l] = r.expected
       /\ store' = [store EXCEPT ![l] = r.content]
\* A delete without a revision, of a directory that held no source file when the
\* call looked, removes whatever is there when it acts.
Sweeps(r) ==
  /\ r.tool = "delete_page" /\ r.expected = Absent /\ r.lang = Default
  /\ store' = Empty

\* The call takes effect, once, and never when its key is already known.
Take(c) ==
  /\ call[c] # Unused /\ c \notin effect
  /\ call[c].key # NoKey => known[Slot(c)] = Unused
  /\ Creates(call[c]) \/ Rewrites(call[c]) \/ Sweeps(call[c])
  /\ effect' = effect \cup {c}
  /\ UNCHANGED <<call, known, outcome, degraded>>

\* The success becomes known under the caller's key.
Learn(c) ==
  /\ c \in effect /\ call[c].key # NoKey
  /\ known' = [known EXCEPT ![Slot(c)] = call[c]]
  /\ UNCHANGED <<store, call, effect, outcome, degraded>>

\* Success is answered to a call that took effect and, when it has a key, is
\* known; a replay to a call already known; an error to a call without effect.
\* Only after a failure may an answer be less than that.
Answers(c, a) ==
  \/ a = "ok" /\ c \in effect /\ (call[c].key # NoKey => known[Slot(c)] = call[c])
  \/ a = "ok" /\ c \notin effect /\ call[c].key # NoKey /\ known[Slot(c)] = call[c]
  \/ a = "error" /\ c \notin effect
  \/ degraded' /\ c \in effect
Close(c) ==
  /\ call[c] # Unused
  /\ \E a \in {"ok", "error"} :
       Answers(c, a) /\ outcome' = [outcome EXCEPT ![c] = a]
  /\ call' = [call EXCEPT ![c] = Unused]
  /\ effect' = effect \ {c}
  /\ degraded' \in {degraded, TRUE}
  /\ UNCHANGED <<store, known>>

\* The server dies: the open calls are lost, with their effect or without.
Die ==
  /\ outcome' = [c \in Clients |-> IF call[c] = Unused THEN outcome[c] ELSE "lost"]
  /\ call' = [c \in Clients |-> Unused]
  /\ effect' = {}
  /\ UNCHANGED <<store, known, degraded>>

\* Startup finds that a lost call left the store as it wanted, and records it.
Settle ==
  /\ \E s \in Clients \X Tools \X Keys, r \in Requests :
       /\ s[2] = r.tool /\ s[3] = r.key
       /\ Satisfied(r) \/ degraded
       /\ known' = [known EXCEPT ![s] = r]
  /\ degraded' \in {degraded, TRUE}
  /\ UNCHANGED <<store, call, effect, outcome>>

\* After a failure, startup may take a directory for the rest of a delete.
Degrade == degraded' = TRUE /\ UNCHANGED <<store, call, effect, known, outcome>>
Lose ==
  /\ degraded /\ store' = Empty
  /\ UNCHANGED <<call, effect, known, outcome, degraded>>

Next ==
  \/ Die \/ Settle \/ Degrade \/ Lose
  \/ \E c \in Clients : Open(c) \/ Take(c) \/ Learn(c) \/ Close(c)

Spec == Init /\ [][Next]_vars
=============================================================================

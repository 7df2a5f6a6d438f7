---------------------------- MODULE BundleService ----------------------------
(***************************************************************************)
(* What apply_bundle_plan, rollback_bundle, create_bundle and delete_bundle *)
(* promise about the files of one page bundle: a call changes all of its   *)
(* translations in one step or none, only in the state it names, and its   *)
(* answer tells which; a server that is down changes nothing.              *)
(* BundleMutation implements it.                                           *)
(***************************************************************************)
CONSTANTS Clients, Langs, Files, Revisions, Absent, NoKey, Unused

VARIABLES
  store,     \* the content of each file of the bundle
  call,      \* the open call of each client, or Unused
  taken,     \* the clients whose open call has taken effect
  outcome,   \* what each client heard last
  serving,   \* is the server up
  damaged    \* has a failure left something that nothing repairs

vars == <<store, call, taken, outcome, serving, damaged>>

Empty == [f \in Files |-> Absent]
With(w) == [f \in Files |-> IF f \in DOMAIN w THEN w[f] ELSE store[f]]
Without(L) == LET rest == With([l \in L |-> Absent])
              IN  IF \E l \in Langs : rest[l] # Absent THEN rest ELSE Empty

Init ==
  /\ store \in [Files -> Revisions]
  /\ call = [c \in Clients |-> Unused]
  /\ taken = {}
  /\ outcome = [c \in Clients |-> "none"]
  /\ serving = TRUE /\ damaged = FALSE

\* A plan is applied to the bundle it was made for.
Applies(r) == store = r.plan.base /\ store' = With(r.plan.after)
\* A rollback, from the bundle its caller expects, gives some translations back
\* what they held at the revision it names.
RollsBack(r) ==
  /\ store = r.expected
  /\ \E L \in SUBSET {l \in Langs : r.to[l] # Absent} :
       L # {} /\ store' = With([l \in L |-> r.to[l]])
\* A bundle is created where none of its translations is; a delete removes the
\* revisions it names, and with the last translation the whole bundle.
Creates(r) == (\A l \in DOMAIN r.files : store[l] = Absent) /\ store' = With(r.files)
Deletes(r) ==
  /\ \A l \in DOMAIN r.files : store[l] = r.files[l]
  /\ store' = Without(DOMAIN r.files)

Effect(r) ==
  \/ r.tool = "apply_bundle_plan" /\ Applies(r)
  \/ r.tool = "rollback_bundle"   /\ RollsBack(r)
  \/ r.tool = "create_bundle"     /\ Creates(r)
  \/ r.tool = "delete_bundle"     /\ Deletes(r)

Open(c) ==
  /\ serving /\ call[c] = Unused
  /\ call'[c] # Unused /\ call' = [call EXCEPT ![c] = call'[c]]
  /\ outcome' = [outcome EXCEPT ![c] = "none"]
  /\ UNCHANGED <<store, taken, serving, damaged>>

Take(c) ==
  /\ serving /\ call[c] # Unused /\ c \notin taken
  /\ Effect(call[c])
  /\ taken' = taken \cup {c}
  /\ UNCHANGED <<call, outcome, serving, damaged>>

\* Success is answered to a call that took effect, to a plan, and to a replay; an
\* error to one that did not; what happened after the effect can leave it unsure.
Answers(c, a) ==
  \/ a = "ok"     /\ (c \in taken \/ call[c].tool = "plan_bundle_change" \/ call[c].key # NoKey)
  \/ a = "error"  /\ c \notin taken
  \/ a = "unsure" /\ c \in taken
Close(c) ==
  /\ serving /\ call[c] # Unused
  /\ \E a \in {"ok", "error", "unsure"} :
       Answers(c, a) /\ outcome' = [outcome EXCEPT ![c] = a]
  /\ call' = [call EXCEPT ![c] = Unused]
  /\ taken' = taken \ {c}
  /\ UNCHANGED <<store, serving, damaged>>

\* Another tool changes one file, or removes the bundle.
Edit ==
  /\ serving
  /\ \/ \E f \in Files, v \in Revisions : store' = [store EXCEPT ![f] = v]
     \/ store' = Empty
  /\ UNCHANGED <<call, taken, outcome, serving, damaged>>

\* The server dies. A call it takes along may have taken effect, whole.
Die ==
  /\ serving' = FALSE
  /\ UNCHANGED store \/ \E c \in Clients \ taken : call[c] # Unused /\ Effect(call[c])
  /\ outcome' = [c \in Clients |-> IF call[c] = Unused THEN outcome[c] ELSE "lost"]
  /\ call' = [c \in Clients |-> Unused] /\ taken' = {}
  /\ UNCHANGED damaged
Serve == serving' = TRUE /\ UNCHANGED <<store, call, taken, outcome, damaged>>

\* After a failure that nothing repairs, nothing is promised.
Damage == damaged'

Next ==
  \/ Edit \/ Die \/ Serve \/ Damage
  \/ \E c \in Clients : Open(c) \/ Take(c) \/ Close(c)

Spec == Init /\ [][Next]_vars
=============================================================================

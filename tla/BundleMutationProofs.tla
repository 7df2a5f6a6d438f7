------------------------ MODULE BundleMutationProofs ------------------------
(***************************************************************************)
(* The inductive invariant of BundleMutation holds for any number of       *)
(* clients, translations, contents, keys, calls, crashes and failures, and *)
(* with it what the module says of keyed calls and of the server's         *)
(* records, and that BundleMutation implements BundleService.              *)
(***************************************************************************)
EXTENDS BundleMutationInvariant, TLAPS

\* What is written for some translations is a function on them.
LEMMA PartialFacts ==
  ASSUME NEW w \in Partial
  PROVE  /\ DOMAIN w \subseteq Langs
         /\ \A l \in DOMAIN w : w[l] \in Revisions
         /\ w = [l \in DOMAIN w |-> w[l]]
  BY DEF Partial

LEMMA PartialIntro ==
  ASSUME NEW L \in SUBSET Langs, NEW w \in [L -> Revisions]
  PROVE  w \in Partial
  BY DEF Partial

\* The parts a bundle is read in, and what the copies become, have their types.
LEMMA OnlyType ==
  ASSUME NEW b \in Bundles, NEW L \in SUBSET Langs
  PROVE  Only(b, L) \in Partial /\ Only(b, L) \in [L -> Revisions]
<1>1. Only(b, L) \in [L -> Revisions]
  BY DEF Only, Bundles, Files
<1> QED
  BY <1>1, PartialIntro

LEMMA OverType ==
  ASSUME NEW b \in [Langs -> Revisions], NEW w \in Partial
  PROVE  Over(w, b) \in [Langs -> Revisions]
  BY PartialFacts DEF Over

LEMMA CapturedType ==
  ASSUME NEW w \in Partial
  PROVE  /\ Captured(w) \in UNION {[L -> Contents] : L \in SUBSET Langs}
         /\ Captured(w) \in Partial
         /\ DOMAIN Captured(w) = DOMAIN w
<1>1. Captured(w) \in [DOMAIN w -> Contents]
  BY PartialFacts, FilesDiffer DEF Captured, Revisions
<1>2. DOMAIN w \in SUBSET Langs
  BY PartialFacts
<1>3. Captured(w) \in [DOMAIN w -> Revisions]
  BY <1>1 DEF Revisions
<1> QED
  BY <1>1, <1>2, <1>3, PartialIntro

\* What a snapshot keeps can be written.
LEMMA SnapshotIsPartial ==
  ASSUME NEW s \in Snapshots
  PROVE  s.files \in Partial /\ s.rev \in Bundles
<1>1. PICK L \in SUBSET Langs : s.files \in [L -> Contents]
  BY DEF Snapshots
<1>2. s.files \in [L -> Revisions]
  BY <1>1 DEF Revisions
<1> QED
  BY <1>2, PartialIntro DEF Snapshots

\* The empty locals, and locals with a field replaced, are locals.
LEMMA LocalsUpdate ==
  /\ NoLocals \in Locals
  /\ \A l \in Locals :
       /\ \A w \in Partial : [l EXCEPT !.before = w] \in Locals /\ [l EXCEPT !.after = w] \in Locals
       /\ \A v, w \in Partial : [l EXCEPT !.after = v, !.before = w] \in Locals
       /\ \A v, w \in Partial : [l EXCEPT !.before = v, !.after = w] \in Locals
       /\ \A d \in SUBSET Langs : [l EXCEPT !.done = d] \in Locals
       /\ \A e \in Entries : [l EXCEPT !.entry = e] \in Locals
<1>1. Nothing \in [{} -> Revisions]
  BY DEF Nothing
<1>2. Nothing \in Partial
  BY <1>1, PartialIntro
<1> QED
  BY <1>2 DEF Locals, NoLocals

\* A return from the handler, and a step that only moves it on, keep the types.
LEMMA AnswerOnlyType ==
  ASSUME TypeOK, NEW c \in Clients, NEW a \in Answers, AnswerOnly(c, a)
  PROVE  TypeOK'
  BY LocalsUpdate DEF TypeOK, AnswerOnly, Answer, Goto, startup, counts, Labels

LEMMA ProceedType ==
  ASSUME TypeOK, NEW c \in Clients, NEW label \in Labels, NEW l \in Locals,
         Proceed(c, label, l)
  PROVE  TypeOK'
  BY DEF TypeOK, Proceed, Goto, startup, counts

\* A request the client makes is one of its asks, about something it can know.
LEMMA CallsType ==
  ASSUME TypeOK, NEW c \in Clients, NEW a \in Asks[c], NEW r \in Calls(a)
  PROVE  r \in Requests
<1> USE AsksAreValid
<1>1. Empty \in Bundles
  BY DEF Empty, Bundles, Revisions
<1>2. a.tool \in Tools /\ a.files \in Partial /\ a.key \in Keys \cup {NoKey}
  OBVIOUS
<1>3. Call(a) \in Requests
  BY <1>1, <1>2 DEF Call, Requests
<1>4. CASE a.tool \in {"plan_bundle_change", "create_bundle"}
  BY <1>3, <1>4 DEF Calls
<1>5. CASE a.tool = "apply_bundle_plan"
  <2>1. PICK p \in made : r = [Call(a) EXCEPT !.plan = p]
    BY <1>5 DEF Calls
  <2> QED
    BY <1>3, <2>1 DEF TypeOK, Requests
<1>6. CASE a.tool = "rollback_bundle"
  <2>1. PICK s \in kept : r = [Call(a) EXCEPT !.to = s.rev, !.expected = Revision]
    BY <1>6 DEF Calls
  <2>2. s.rev \in Bundles /\ disk \in Bundles
    BY DEF TypeOK, Snapshots
  <2> QED
    BY <1>3, <2>1, <2>2 DEF Requests, Revision
<1>7. CASE a.tool = "delete_bundle"
  <2>1. r = [Call(a) EXCEPT !.files = Only(disk, DOMAIN a.files)]
    BY <1>7 DEF Calls
  <2>2. Only(disk, DOMAIN a.files) \in Partial
    BY <1>2, OnlyType, PartialFacts DEF TypeOK
  <2> QED
    BY <1>3, <2>1, <2>2 DEF Requests
<1> QED
  BY <1>2, <1>4, <1>5, <1>6, <1>7 DEF Tools, Mutating

---------------------------------------------------------------------------
\* A step of one handler outside the stretch that its journal entry covers: nothing
\* shared changes but the lock, which the handler may take or give back.
QuietStep(c) ==
  /\ phase = "up" /\ pc[c] \notin Journaled /\ pc'[c] \notin Journaled
  /\ \A d \in Clients \ {c} : pc'[d] = pc[d] /\ req'[d] = req[d] /\ loc'[d] = loc[d]
  /\ \/ lock' = lock
     \/ lock = NoClient /\ lock' = c
     \/ lock = c /\ lock' = NoClient
  /\ overlapped \subseteq overlapped'
  /\ UNCHANGED <<disk, shadow, journal, idem, idx, startup, applied, damaged, failures>>

\* A step of one call that does not find its key unused in it adds no overlap.
LEMMA OverlapKept ==
  ASSUME OverlapInv, NEW c \in Clients,
         \A d \in Clients \ {c} : pc'[d] = pc[d] /\ req'[d] = req[d],
         overlapped \subseteq overlapped',
         PastKey(c)' => PastKey(c) /\ req'[c] = req[c]
  PROVE  OverlapInv'
<1>1. ASSUME NEW d \in Clients, PastKey(d)'
      PROVE  PastKey(d) /\ Slot(d)' = Slot(d)
  BY <1>1 DEF PastKey, Slot, Keyed, Lifecycle
<1> QED
  BY <1>1 DEF OverlapInv

\* Such a step keeps the invariant if it keeps what it says of the handler itself.
LEMMA QuietInv ==
  ASSUME IInv, NEW c \in Clients, QuietStep(c), TypeOK', HandlerInv(c)',
         SnapshotsHoldTheirRevision', OverlapInv'
  PROVE  IInv'
<1>1. PhaseInv'
  BY DEF IInv, QuietStep, PhaseInv, startup
<1>2. ASSUME NEW d \in Clients PROVE HandlerInv(d)'
  <2>1. CASE d = c
    BY <2>1
  <2>2. CASE d # c
    <3>1. HandlerInv(d) /\ pc'[d] = pc[d] /\ req'[d] = req[d] /\ loc'[d] = loc[d]
      BY <2>2 DEF IInv, QuietStep
    <3>2. lock' = d <=> lock = d
      BY <2>2, FilesDiffer DEF QuietStep
    <3>3. /\ disk' = disk /\ idem' = idem /\ failures' = failures
          /\ overlapped \subseteq overlapped'
      BY DEF QuietStep
    <3>4. LockOf(d)' /\ ToolOf(d)' /\ LocalsOf(d)' /\ LifecycleOf(d)'
      BY <3>1, <3>2
      DEF HandlerInv, LockOf, ToolOf, LocalsOf, LifecycleOf, Lifecycle, LocksFirst, Keyed
    <3>5. WriteOf(d)' /\ KeyOf(d)'
      BY <3>1, <3>3
      DEF HandlerInv, WriteOf, Placed, KeyOf, Blindly, Keyed, LocksFirst, Lifecycle, Recorded, Slot
    <3> QED
      BY <3>4, <3>5 DEF HandlerInv
  <2> QED
    BY <2>1, <2>2
<1>3. OwnInv'
  BY DEF IInv, QuietStep, OwnInv
<1>4. EntryInv'
  BY DEF IInv, QuietStep, EntryInv, startup
<1>5. FlightInv'
  <2> SUFFICES ASSUME Sound', NEW e \in journal PROVE
        \/ /\ lock' = e.client /\ pc'[e.client] \in Journaled
           /\ loc'[e.client].entry = e
        \/ Blindly(e.req)
    BY DEF FlightInv, QuietStep, startup
  <2>1. Sound /\ phase = "up"
    BY DEF Sound, QuietStep
  <2>2. CASE lock = e.client /\ pc[e.client] \in Journaled /\ loc[e.client].entry = e
    <3>1. e.client # c /\ e.client \in Clients
      BY <2>2 DEF QuietStep, IInv, TypeOK, Entries
    <3> QED
      BY <2>2, <3>1, FilesDiffer DEF QuietStep
  <2> QED
    BY <2>1, <2>2 DEF IInv, FlightInv
<1>6. CopyInv'
  <2> SUFFICES ASSUME failures = 0 PROVE CopyInv'
    BY DEF CopyInv, QuietStep
  <2>1. pc[c] \notin {"write", "undo"} \cup Ahead /\ pc'[c] \notin {"write", "undo"} \cup Ahead
    BY DEF QuietStep, Journaled, Taken, Ahead
  <2>2. \A d \in Clients : pc'[d] \in {"write", "undo"} \cup Ahead =>
          pc'[d] = pc[d] /\ loc'[d] = loc[d]
    BY <2>1 DEF QuietStep
  <2>3. \A d \in Clients : pc[d] \in {"write", "undo"} \cup Ahead => pc'[d] = pc[d]
    BY <2>1 DEF QuietStep
  <2>4. disk' = disk /\ idx' = idx /\ shadow' = shadow /\ phase = "up" /\ phase' = "up"
    BY DEF QuietStep, startup
  <2> QED
    BY <2>2, <2>3, <2>4 DEF IInv, CopyInv
<1>7. OnceInv'
  <2> SUFFICES ASSUME Sound', NEW s \in Slots, s \notin overlapped, applied[s] = 1
               PROVE  Accounted(s)'
    BY DEF OnceInv, QuietStep, IInv, Sound
  <2>1. Accounted(s) /\ phase = "up"
    BY DEF IInv, OnceInv, Sound, QuietStep
  <2>2. ASSUME NEW d \in Clients, pc[d] \in Taken, Keyed(req[d]), Slot(d) = s,
               loc[d].before # loc[d].after
        PROVE  Accounted(s)'
    <3>1. d # c
      BY <2>2 DEF QuietStep, Journaled
    <3> QED
      BY <2>2, <3>1 DEF Accounted, QuietStep, Slot
  <2> QED
    BY <2>1, <2>2 DEF Accounted, QuietStep
<1> QED
  BY <1>1, <1>2, <1>3, <1>4, <1>5, <1>6, <1>7 DEF IInv

\* A handler runs only while the server serves, and has a request.
LEMMA Running ==
  ASSUME IInv, NEW c \in Clients, pc[c] # "idle"
  PROVE  phase = "up" /\ req[c] \in Requests /\ loc[c] \in Locals
  BY DEF IInv, PhaseInv, HandlerInv, ToolOf, TypeOK

\* A handler that returns before it has begun leaves the invariant.
LEMMA AnswerQuiet ==
  ASSUME IInv, NEW c \in Clients, NEW a \in Answers, AnswerOnly(c, a),
         pc[c] # "idle", pc[c] \notin Journaled
  PROVE  IInv'
<1>1. TypeOK'
  BY AnswerOnlyType DEF IInv
<1>2. QuietStep(c)
  BY Running DEF AnswerOnly, Answer, Goto, QuietStep, counts, IInv, TypeOK, Journaled, Taken
<1>3. pc'[c] = "idle" /\ loc'[c] = NoLocals /\ lock' = IF lock = c THEN NoClient ELSE lock
  BY DEF AnswerOnly, Answer, Goto, IInv, TypeOK
<1>4. HandlerInv(c)'
  BY <1>3, FilesDiffer
  DEF HandlerInv, LockOf, ToolOf, LocalsOf, LifecycleOf, WriteOf, Placed, KeyOf, Held, Journaled,
      Taken, NoLocals
<1>5. SnapshotsHoldTheirRevision'
  BY DEF AnswerOnly, IInv, SnapshotsHoldTheirRevision
<1>6. OverlapInv'
  BY <1>2, <1>3, OverlapKept DEF IInv, QuietStep, PastKey
<1> QED
  BY <1>1, <1>2, <1>4, <1>5, <1>6, QuietInv

\* A handler that moves on before it has begun leaves the invariant if it keeps its own.
LEMMA ProceedQuiet ==
  ASSUME IInv, NEW c \in Clients, NEW label \in Labels \ Journaled, NEW l \in Locals,
         Proceed(c, label, l), pc[c] # "idle", pc[c] \notin Journaled, HandlerInv(c)',
         label = "read" \/ Lifecycle(req[c]) \/ pc[c] = "check"
  PROVE  IInv'
<1>1. TypeOK'
  BY ProceedType DEF IInv
<1>2. QuietStep(c)
  BY Running DEF Proceed, Goto, QuietStep, counts, IInv, TypeOK
<1>3. SnapshotsHoldTheirRevision'
  BY DEF Proceed, IInv, SnapshotsHoldTheirRevision
<1>4. pc'[c] = label /\ req' = req
  BY DEF Proceed, Goto, IInv, TypeOK
<1>5. OverlapInv'
  BY <1>2, <1>4, OverlapKept DEF IInv, QuietStep, PastKey, Lifecycle
<1> QED
  BY <1>1, <1>2, <1>3, <1>5, QuietInv

\* A call that goes on to the lock with its key unused is known to overlap every other
\* one that has got as far under that key.
LEMMA WaitQuiet ==
  ASSUME IInv, NEW c \in Clients, NEW l \in Locals, Wait(c, l), pc[c] = "admit",
         req[c].tool \in {"apply_bundle_plan", "rollback_bundle"}, ~Recorded(c),
         l.done = loc[c].done, l.entry = loc[c].entry
  PROVE  IInv'
<1>1. /\ pc' = [pc EXCEPT ![c] = "lock"] /\ loc' = [loc EXCEPT ![c] = l] /\ req' = req
      /\ lock' = lock /\ idem' = idem /\ disk' = disk /\ failures' = failures
      /\ pc'[c] = "lock" /\ loc'[c] = l /\ overlapped \subseteq overlapped'
  BY DEF Wait, Goto, IInv, TypeOK, counts
<1>2. req[c] \in Requests /\ phase = "up"
  BY Running
<1>3. ASSUME NEW d \in Clients \ {c}, PastKey(d), Slot(d) = Slot(c)
      PROVE  Slot(c) \in overlapped' /\ Slot(c) \in Slots
  <2>1. Slot(c) \in overlapped'
    BY <1>3 DEF Wait
  <2>2. Keyed(req[c])
    BY <1>3 DEF PastKey, Keyed, Slot
  <2> QED
    BY <1>2, <2>1, <2>2, CallsHaveCallers DEF Slot, Slots, Keyed, Requests, Mutating
<1>4. TypeOK'
  <2>1. overlapped' \subseteq Slots
    BY <1>3 DEF Wait, IInv, TypeOK
  <2>2. pc' \in [Clients -> Labels] /\ loc' \in [Clients -> Locals]
    BY <1>1 DEF IInv, TypeOK, Labels
  <2> QED
    BY <2>1, <2>2 DEF Wait, IInv, TypeOK, startup, counts
<1>5. QuietStep(c)
  BY <1>1, <1>2 DEF Wait, QuietStep, counts, IInv, TypeOK, Journaled, Taken
<1>6. HandlerInv(c)'
  BY <1>1, <1>2
  DEF IInv, HandlerInv, LockOf, ToolOf, LocalsOf, LifecycleOf, WriteOf, Placed, KeyOf, Held,
      Journaled, Taken, Lifecycle, Recorded, Slot, LocksFirst, Mutating
<1>7. OverlapInv'
  <2> SUFFICES ASSUME NEW d \in Clients, NEW e \in Clients, d # e, PastKey(d)', PastKey(e)',
                      Slot(d)' = Slot(e)'
               PROVE  Slot(d)' \in overlapped'
    BY DEF OverlapInv
  <2>1. \A f \in Clients : Slot(f)' = Slot(f) /\ (f # c /\ PastKey(f)' => PastKey(f))
    BY <1>1 DEF Slot, PastKey, IInv, TypeOK
  <2>2. CASE d # c /\ e # c
    BY <2>1, <2>2, <1>1 DEF IInv, OverlapInv
  <2>3. CASE d = c \/ e = c
    BY <2>1, <2>3, <1>3
  <2> QED
    BY <2>2, <2>3
<1>8. SnapshotsHoldTheirRevision'
  BY DEF Wait, IInv, SnapshotsHoldTheirRevision
<1> QED
  BY <1>4, <1>5, <1>6, <1>7, <1>8, QuietInv

\* What the handler has after it moved on.
LEMMA Proceeded ==
  ASSUME TypeOK, NEW c \in Clients, NEW label, NEW l, Proceed(c, label, l)
  PROVE  /\ pc'[c] = label /\ loc'[c] = l /\ req' = req /\ lock' = lock /\ idem' = idem
         /\ disk' = disk /\ failures' = failures /\ overlapped' = overlapped
  BY DEF TypeOK, Proceed, Goto, counts

LEMMA SubmitInv ==
  ASSUME IInv, NEW c \in Clients, Submit(c)
  PROVE  IInv'
<1>1. PICK r \in (UNION {Calls(a) : a \in Asks[c]}) \cup Again(c) :
        /\ req' = [req EXCEPT ![c] = r]
        /\ Goto(c, IF r.tool \notin Mutating THEN "read"
                   ELSE IF LocksFirst(r) THEN "lock" ELSE "admit")
  BY DEF Submit
<1>2. r \in Requests
  <2>1. CASE r \in Again(c)
    BY <2>1 DEF Again, IInv, TypeOK
  <2>2. CASE r \notin Again(c)
    <3>1. PICK a \in Asks[c] : r \in Calls(a)
      BY <1>1, <2>2
    <3> QED
      BY <3>1, CallsType DEF IInv
  <2> QED
    BY <2>1, <2>2
<1>3. req'[c] = r /\ pc'[c] \in {"read", "lock", "admit"} /\ loc' = loc
  BY <1>1 DEF Submit, Goto, IInv, TypeOK
<1>4. TypeOK'
  <2>1. pc' \in [Clients -> Labels] /\ req' \in [Clients -> Requests \cup {Unused}]
    BY <1>1, <1>2 DEF Goto, IInv, TypeOK, Labels
  <2>2. ans' \in [Clients -> Answers] /\ calls' \in Nat
    BY DEF Submit, IInv, TypeOK, Answers
  <2> QED
    BY <2>1, <2>2 DEF Submit, IInv, TypeOK, startup
<1>5. QuietStep(c)
  BY <1>1, <1>3 DEF Submit, Goto, QuietStep, IInv, TypeOK, Journaled, Taken
<1>6. /\ r.tool \notin Mutating => pc'[c] = "read"
      /\ r.tool \in Mutating => pc'[c] = IF LocksFirst(r) THEN "lock" ELSE "admit"
  BY <1>1 DEF Goto, IInv, TypeOK
<1>7. pc[c] = "idle" /\ lock' = lock /\ lock # c /\ loc[c].done = {} /\ loc[c].entry = NoEntry
  BY DEF Submit, IInv, HandlerInv, LockOf, LocalsOf, Held, Journaled, Taken
<1>8. HandlerInv(c)'
  BY <1>2, <1>3, <1>6, <1>7
  DEF HandlerInv, LockOf, ToolOf, LocalsOf, LifecycleOf, WriteOf, Placed, KeyOf, Held, Journaled,
      Taken,
      LocksFirst, Lifecycle, Keyed, Mutating
<1>9. SnapshotsHoldTheirRevision'
  BY DEF Submit, IInv, SnapshotsHoldTheirRevision
<1>10. OverlapInv'
  BY <1>3, <1>5, <1>6, OverlapKept DEF IInv, QuietStep, PastKey, LocksFirst
<1> QED
  BY <1>4, <1>5, <1>8, <1>9, <1>10, QuietInv

\* The plan: its translations are read one by one, and it is filed.
LEMMA PlanReadInv ==
  ASSUME IInv, NEW c \in Clients, PlanRead(c)
  PROVE  IInv'
<1>1. PICK l \in DOMAIN req[c].files \ DOMAIN loc[c].before :
        IF disk[l] = Absent THEN AnswerOnly(c, "not_found")
        ELSE Proceed(c, "read", [loc[c] EXCEPT !.before =
               [m \in DOMAIN @ \cup {l} |-> IF m = l THEN disk[l] ELSE @[m]]])
  BY DEF PlanRead
<1>2. pc[c] = "read" /\ pc[c] \notin Journaled
  BY DEF PlanRead, Journaled, Taken
<1>3. CASE disk[l] = Absent
  BY <1>1, <1>2, <1>3, AnswerQuiet DEF Answers
<1>4. CASE disk[l] # Absent
  <2> DEFINE w == [m \in DOMAIN loc[c].before \cup {l} |->
                     IF m = l THEN disk[l] ELSE loc[c].before[m]]
             k == [loc[c] EXCEPT !.before = w]
  <2>1. Proceed(c, "read", k)
    BY <1>1, <1>4
  <2>2. req[c].files \in Partial /\ loc[c].before \in Partial /\ loc[c] \in Locals
    BY <1>2, Running DEF Requests, Locals
  <2>3. l \in Langs /\ disk[l] \in Revisions
    BY <2>2, PartialFacts DEF IInv, TypeOK, Bundles, Files
  <2>4. DOMAIN loc[c].before \cup {l} \in SUBSET Langs
    BY <2>2, <2>3, PartialFacts
  <2>5. w \in [DOMAIN loc[c].before \cup {l} -> Revisions]
    BY <2>2, <2>3, PartialFacts
  <2>6. k \in Locals
    BY <2>2, <2>4, <2>5, PartialIntro, LocalsUpdate
  <2>7. k.done = loc[c].done /\ k.entry = loc[c].entry
    BY <2>2 DEF Locals
  <2> HIDE DEF k
  <2>8. HandlerInv(c)'
    BY <1>2, <2>1, <2>7, Proceeded
    DEF HandlerInv, LockOf, ToolOf, LocalsOf, LifecycleOf, WriteOf, Placed, KeyOf, Held,
        Journaled, Taken, IInv
  <2> QED
    BY <1>2, <2>1, <2>6, <2>8, ProceedQuiet DEF Labels
<1> QED
  BY <1>3, <1>4

LEMMA PlanMakeInv ==
  ASSUME IInv, NEW c \in Clients, PlanMake(c)
  PROVE  IInv'
<1> DEFINE p == [id |-> ops + 1, client |-> CallerOf[c], base |-> Revision,
                 seen |-> loc[c].before, after |-> req[c].files]
<1>1. pc[c] = "read" /\ phase = "up"
  BY Running DEF PlanMake
<1>2. p \in Plans
  BY <1>1, Running, CallsHaveCallers DEF Plans, Revision, Requests, Locals, IInv, TypeOK
<1>3. /\ ops' = ops + 1 /\ plans' = plans \cup {p} /\ made' = made \cup {p}
      /\ Answer(c, "planned")
  BY DEF PlanMake, Put
<1> HIDE DEF p
<1>4. pc'[c] = "idle" /\ loc'[c] = NoLocals /\ lock' = IF lock = c THEN NoClient ELSE lock
  BY <1>3 DEF Answer, Goto, IInv, TypeOK
<1>5. TypeOK'
  <2>1. plans' \subseteq made' /\ made' \subseteq Plans /\ ops' \in Nat
    BY <1>2, <1>3 DEF IInv, TypeOK
  <2>2. pc' \in [Clients -> Labels] /\ ans' \in [Clients -> Answers] /\ loc' \in [Clients -> Locals]
        /\ lock' \in Clients \cup {NoClient}
    BY <1>3, LocalsUpdate DEF Answer, Goto, IInv, TypeOK, Labels, Answers
  <2> QED
    BY <2>1, <2>2 DEF PlanMake, IInv, TypeOK, startup
<1>6. QuietStep(c)
  BY <1>1, <1>3 DEF PlanMake, Answer, Goto, QuietStep, IInv, TypeOK, Journaled, Taken
<1>7. HandlerInv(c)'
  BY <1>4, FilesDiffer
  DEF HandlerInv, LockOf, ToolOf, LocalsOf, LifecycleOf, WriteOf, Placed, KeyOf, Held, Journaled,
      Taken, NoLocals
<1>8. SnapshotsHoldTheirRevision'
  BY DEF PlanMake, IInv, SnapshotsHoldTheirRevision
<1>9. OverlapInv'
  BY <1>4, <1>6, OverlapKept DEF IInv, QuietStep, PastKey
<1> QED
  BY <1>5, <1>6, <1>7, <1>8, <1>9, QuietInv

\* The admission of each tool, the lock, and the checks under it.
LEMMA ApplyAdmitInv ==
  ASSUME IInv, NEW c \in Clients, ApplyAdmit(c)
  PROVE  IInv'
<1>1. pc[c] = "admit" /\ req[c].tool = "apply_bundle_plan" /\ ~Recorded(c)
  BY DEF ApplyAdmit
<1>2. CASE Holds(c, req[c].plan)
  <2> DEFINE k == [loc[c] EXCEPT !.after = req[c].plan.after]
  <2>1. Wait(c, k)
    BY <1>2 DEF ApplyAdmit
  <2>2. req[c].plan.after \in Partial /\ loc[c] \in Locals
    BY <1>1, <1>2, Running DEF Holds, IInv, TypeOK, Plans
  <2>3. k \in Locals /\ k.done = loc[c].done /\ k.entry = loc[c].entry
    BY <2>2, LocalsUpdate DEF Locals
  <2> HIDE DEF k
  <2> QED
    BY <1>1, <2>1, <2>3, WaitQuiet
<1>3. CASE ~Holds(c, req[c].plan)
  BY <1>1, <1>3, AnswerQuiet DEF ApplyAdmit, Answers, Journaled, Taken
<1> QED
  BY <1>2, <1>3

LEMMA RollbackAdmitInv ==
  ASSUME IInv, NEW c \in Clients, RollbackAdmit(c)
  PROVE  IInv'
<1>1. pc[c] = "admit" /\ req[c].tool = "rollback_bundle"
  BY DEF RollbackAdmit
<1>2. CASE IsBundle
  BY <1>1, <1>2, Running, WaitQuiet DEF RollbackAdmit
<1>3. CASE ~IsBundle
  BY <1>1, <1>3, AnswerQuiet DEF RollbackAdmit, Answers, Journaled, Taken
<1> QED
  BY <1>2, <1>3

\* A create or delete with a key holds the lock when it is admitted, one without does not.
LEMMA Admitted ==
  ASSUME IInv, NEW c \in Clients, pc[c] = "admit", Lifecycle(req[c])
  PROVE  (lock = c <=> Keyed(req[c])) /\ loc[c].done = {} /\ loc[c].entry = NoEntry
  BY DEF IInv, HandlerInv, LockOf, ToolOf, LocalsOf, LifecycleOf, WriteOf, Placed, KeyOf, Held,
     Journaled,
        Taken, LocksFirst

LEMMA CreateAdmitInv ==
  ASSUME IInv, NEW c \in Clients, CreateAdmit(c)
  PROVE  IInv'
<1>1. pc[c] = "admit" /\ req[c].tool = "create_bundle" /\ ~Recorded(c) /\ Lifecycle(req[c])
  BY DEF CreateAdmit, Lifecycle
<1>2. CASE DOMAIN req[c].files \cap Present # {}
  BY <1>1, <1>2, AnswerQuiet DEF CreateAdmit, Answers, Journaled, Taken
<1>3. CASE DOMAIN req[c].files \cap Present = {}
  <2> DEFINE w == [l \in DOMAIN req[c].files |-> Absent]
             k == [loc[c] EXCEPT !.after = req[c].files, !.before = w]
  <2>1. Proceed(c, AfterAdmit(c, "begin"), k)
    BY <1>3 DEF CreateAdmit
  <2>2. req[c].files \in Partial /\ loc[c] \in Locals
    BY <1>1, Running DEF Requests
  <2>3. w \in Partial
    <3>1. DOMAIN req[c].files \in SUBSET Langs /\ w \in [DOMAIN req[c].files -> Revisions]
      BY <2>2, PartialFacts DEF Revisions
    <3> QED
      BY <3>1, PartialIntro
  <2>4. /\ k \in Locals /\ k.done = {} /\ k.entry = NoEntry
        /\ k.after = req[c].files /\ k.before = w
    BY <1>1, <2>2, <2>3, LocalsUpdate, Admitted DEF Locals
  <2>5. \A l \in DOMAIN w : l \in Langs /\ w[l] = Absent /\ disk[l] = Absent
    BY <1>3, <2>2, PartialFacts DEF Present
  <2>6. DOMAIN w = DOMAIN req[c].files
    OBVIOUS
  <2> HIDE DEF k, w
  <2>7. HandlerInv(c)'
    BY <1>1, <2>1, <2>4, <2>5, <2>6, Proceeded, Admitted
    DEF IInv, HandlerInv, LockOf, ToolOf, LocalsOf, LifecycleOf, WriteOf, Placed, KeyOf, Held,
        Journaled,
        Taken, Lifecycle, Recorded, Slot, LocksFirst, AfterAdmit, Blindly, Keyed
  <2>8. AfterAdmit(c, "begin") \in Labels \ Journaled
    BY DEF AfterAdmit, Labels, Journaled, Taken
  <2> QED
    BY <1>1, <2>1, <2>4, <2>7, <2>8, ProceedQuiet DEF Journaled, Taken
<1> QED
  BY <1>2, <1>3

LEMMA DeleteAdmitInv ==
  ASSUME IInv, NEW c \in Clients, DeleteAdmit(c)
  PROVE  IInv'
<1>1. pc[c] = "admit" /\ req[c].tool = "delete_bundle" /\ ~Recorded(c) /\ Lifecycle(req[c])
  BY DEF DeleteAdmit, Lifecycle
<1>2. CASE ~(DOMAIN req[c].files \subseteq Present)
  BY <1>1, <1>2, AnswerQuiet DEF DeleteAdmit, Answers, Journaled, Taken
<1>3. CASE DOMAIN req[c].files \subseteq Present /\ Only(disk, DOMAIN req[c].files) # req[c].files
  BY <1>1, <1>3, AnswerQuiet DEF DeleteAdmit, Answers, Journaled, Taken
<1>4. CASE DOMAIN req[c].files \subseteq Present /\ Only(disk, DOMAIN req[c].files) = req[c].files
  <2> DEFINE w == [l \in DOMAIN req[c].files |-> Absent]
             k == [loc[c] EXCEPT !.before = req[c].files, !.after = w]
  <2>1. Proceed(c, AfterAdmit(c, "check"), k)
    BY <1>4 DEF DeleteAdmit
  <2>2. req[c].files \in Partial /\ loc[c] \in Locals
    BY <1>1, Running DEF Requests
  <2>3. w \in Partial
    <3>1. DOMAIN req[c].files \in SUBSET Langs /\ w \in [DOMAIN req[c].files -> Revisions]
      BY <2>2, PartialFacts DEF Revisions
    <3> QED
      BY <3>1, PartialIntro
  <2>4. /\ k \in Locals /\ k.done = {} /\ k.entry = NoEntry
        /\ k.before = req[c].files /\ k.after = w
    BY <1>1, <2>2, <2>3, LocalsUpdate, Admitted DEF Locals
  <2>5. (\A l \in DOMAIN w : w[l] = Absent) /\ DOMAIN w = DOMAIN req[c].files
    OBVIOUS
  <2> HIDE DEF k, w
  <2>6. HandlerInv(c)'
    BY <1>1, <2>1, <2>4, <2>5, Proceeded, Admitted
    DEF IInv, HandlerInv, LockOf, ToolOf, LocalsOf, LifecycleOf, WriteOf, Placed, KeyOf, Held,
        Journaled,
        Taken, Lifecycle, Recorded, Slot, LocksFirst, AfterAdmit, Blindly, Keyed
  <2>7. AfterAdmit(c, "check") \in Labels \ Journaled
    BY DEF AfterAdmit, Labels, Journaled, Taken
  <2> QED
    BY <1>1, <2>1, <2>4, <2>6, <2>7, ProceedQuiet DEF Journaled, Taken
<1> QED
  BY <1>2, <1>3, <1>4

LEMMA AcquireLockInv ==
  ASSUME IInv, NEW c \in Clients, AcquireLock(c)
  PROVE  IInv'
<1>1. /\ pc[c] = "lock" /\ lock = NoClient /\ lock' = c
      /\ pc'[c] = IF LocksFirst(req[c]) THEN "admit"
                  ELSE IF req[c].tool = "create_bundle" THEN "begin" ELSE "check"
      /\ req' = req /\ loc' = loc /\ disk' = disk /\ idem' = idem /\ failures' = failures
      /\ overlapped' = overlapped
  BY DEF AcquireLock, Goto, IInv, TypeOK, counts
<1>2. TypeOK'
  BY DEF AcquireLock, Goto, IInv, TypeOK, Labels, startup, counts
<1>3. QuietStep(c)
  BY <1>1, Running DEF AcquireLock, Goto, QuietStep, IInv, TypeOK, Journaled, Taken, counts
<1>4. req[c].tool = "create_bundle" /\ ~LocksFirst(req[c]) => Blindly(req[c])
  BY DEF LocksFirst, Lifecycle, Blindly
<1>5. HandlerInv(c)'
  BY <1>1, <1>4
  DEF IInv, HandlerInv, LockOf, ToolOf, LocalsOf, LifecycleOf, WriteOf, Placed, KeyOf, Held,
      Journaled, Taken,
      Lifecycle, Recorded, Slot, LocksFirst, Blindly, Keyed
<1>6. SnapshotsHoldTheirRevision'
  BY DEF AcquireLock, IInv, SnapshotsHoldTheirRevision
<1>7. OverlapInv'
  BY <1>1, <1>3, OverlapKept DEF IInv, QuietStep, PastKey
<1> QED
  BY <1>2, <1>3, <1>5, <1>6, <1>7, QuietInv

LEMMA ApplyCheckInv ==
  ASSUME IInv, NEW c \in Clients, ApplyCheck(c)
  PROVE  IInv'
<1>1. pc[c] = "check" /\ req[c].tool = "apply_bundle_plan"
  BY DEF ApplyCheck
<1>2. CASE Revision # req[c].plan.base
  BY <1>1, <1>2, AnswerQuiet DEF ApplyCheck, Answers, Journaled, Taken
<1>3. CASE Revision = req[c].plan.base
  <2> DEFINE w == Only(disk, DOMAIN loc[c].after)
             k == [loc[c] EXCEPT !.before = w]
  <2>1. Proceed(c, "snapshot", k)
    BY <1>3 DEF ApplyCheck
  <2>2. loc[c] \in Locals /\ loc[c].after \in Partial
    BY <1>1, Running DEF Locals
  <2>3. w \in Partial
    BY <2>2, OnlyType, PartialFacts DEF IInv, TypeOK
  <2>4. k \in Locals /\ k.done = loc[c].done /\ k.entry = loc[c].entry /\ k.after = loc[c].after
        /\ k.before = w
    BY <2>2, <2>3, LocalsUpdate DEF Locals
  <2>5. DOMAIN w = DOMAIN loc[c].after /\ \A l \in DOMAIN w : w[l] = disk[l]
    BY DEF Only
  <2> HIDE DEF k, w
  <2>6. HandlerInv(c)'
    BY <1>1, <2>1, <2>4, <2>5, Proceeded
    DEF IInv, HandlerInv, LockOf, ToolOf, LocalsOf, LifecycleOf, WriteOf, Placed, KeyOf, Held,
        Journaled, Taken,
        Lifecycle, Recorded, Slot, LocksFirst, Blindly, Keyed
  <2> QED
    BY <1>1, <2>1, <2>4, <2>6, ProceedQuiet DEF Labels, Journaled, Taken
<1> QED
  BY <1>2, <1>3

LEMMA RollbackCheckInv ==
  ASSUME IInv, NEW c \in Clients, RollbackCheck(c)
  PROVE  IInv'
<1>1. pc[c] = "check" /\ req[c].tool = "rollback_bundle"
  BY DEF RollbackCheck
<1>2. ASSUME NEW a \in Answers, AnswerOnly(c, a) PROVE IInv'
  BY <1>1, <1>2, AnswerQuiet DEF Journaled, Taken
<1>3. ASSUME NEW s \in Found(c),
             Proceed(c, "snapshot", [loc[c] EXCEPT !.after = s.files,
                                                   !.before = Only(disk, DOMAIN s.files)])
      PROVE  IInv'
  <2> DEFINE w == Only(disk, DOMAIN s.files)
             k == [loc[c] EXCEPT !.after = s.files, !.before = w]
  <2>1. Proceed(c, "snapshot", k)
    BY <1>3
  <2>2. loc[c] \in Locals /\ s.files \in Partial
    BY <1>1, Running, SnapshotIsPartial DEF Found, IInv, TypeOK
  <2>3. w \in Partial
    BY <2>2, OnlyType, PartialFacts DEF IInv, TypeOK
  <2>4. k \in Locals /\ k.done = loc[c].done /\ k.entry = loc[c].entry /\ k.after = s.files
        /\ k.before = w
    BY <2>2, <2>3, LocalsUpdate DEF Locals
  <2>5. DOMAIN w = DOMAIN s.files /\ \A l \in DOMAIN w : w[l] = disk[l]
    BY DEF Only
  <2> HIDE DEF k, w
  <2>6. HandlerInv(c)'
    BY <1>1, <2>1, <2>4, <2>5, Proceeded
    DEF IInv, HandlerInv, LockOf, ToolOf, LocalsOf, LifecycleOf, WriteOf, Placed, KeyOf, Held,
        Journaled, Taken,
        Lifecycle, Recorded, Slot, LocksFirst, Blindly, Keyed
  <2> QED
    BY <1>1, <2>1, <2>4, <2>6, ProceedQuiet DEF Labels, Journaled, Taken
<1> QED
  BY <1>2, <1>3 DEF RollbackCheck, Answers

LEMMA DeleteCheckInv ==
  ASSUME IInv, NEW c \in Clients, DeleteCheck(c)
  PROVE  IInv'
<1>1. pc[c] = "check" /\ req[c].tool = "delete_bundle"
  BY DEF DeleteCheck
<1>2. CASE Only(disk, DOMAIN req[c].files) # req[c].files
  BY <1>1, <1>2, AnswerQuiet DEF DeleteCheck, Answers, Journaled, Taken
<1>3. CASE Only(disk, DOMAIN req[c].files) = req[c].files
  <2>1. Proceed(c, "begin", loc[c])
    BY <1>3 DEF DeleteCheck
  <2>2. loc[c].before = req[c].files /\ DOMAIN loc[c].before = DOMAIN loc[c].after
        /\ \A l \in DOMAIN loc[c].after : loc[c].after[l] = Absent
    BY <1>1 DEF IInv, HandlerInv, LifecycleOf, Lifecycle, Held
  <2>3. \A l \in DOMAIN loc[c].after : disk[l] = loc[c].before[l]
    BY <1>3, <2>2 DEF Only
  <2>4. HandlerInv(c)'
    BY <1>1, <2>1, <2>2, <2>3, Proceeded
    DEF IInv, HandlerInv, LockOf, ToolOf, LocalsOf, LifecycleOf, WriteOf, Placed, KeyOf, Held,
        Journaled, Taken,
        Lifecycle, Recorded, Slot, LocksFirst, Blindly, Keyed
  <2> QED
    BY <1>1, <2>1, <2>4, Running, ProceedQuiet DEF Labels, Journaled, Taken
<1> QED
  BY <1>2, <1>3

\* Every step before the handler begins keeps the invariant.
LEMMA AdmissionInv ==
  ASSUME IInv, NEW c \in Clients, Admission(c)
  PROVE  IInv'
<1>1. CASE Replay(c)
  BY <1>1, AnswerQuiet DEF Replay, ConsultsKey, Answers, Journaled, Taken
<1>2. CASE Refuse(c)
  BY <1>2, AnswerQuiet DEF Refuse, Answers, Journaled, Taken
<1>3. CASE LockTimeout(c)
  BY <1>3, AnswerQuiet DEF LockTimeout, Answers, Journaled, Taken
<1> QED
  BY <1>1, <1>2, <1>3, SubmitInv, PlanReadInv, PlanMakeInv, ApplyAdmitInv, RollbackAdmitInv,
     CreateAdmitInv, DeleteAdmitInv, AcquireLockInv, ApplyCheckInv, RollbackCheckInv, DeleteCheckInv
  DEF Admission

---------------------------------------------------------------------------
\* A step of the handler that holds the lock; no other handler is under it.
HolderStep(c) ==
  /\ pc[c] \in Held
  /\ \A d \in Clients \ {c} : pc'[d] = pc[d] /\ loc'[d] = loc[d]
  /\ lock' \in {lock, NoClient}
  /\ \A s \in Slots : idem'[s] # idem[s] => s = Slot(c)
  /\ failures' >= failures /\ (damaged => damaged')
  /\ UNCHANGED <<req, startup, overlapped>>

LEMMA Alone ==
  ASSUME IInv, NEW c \in Clients, pc[c] \in Held
  PROVE  /\ lock = c /\ phase = "up" /\ lock # NoClient
         /\ \A d \in Clients \ {c} : pc[d] \notin Held
         /\ req[c] \in Requests /\ req[c].tool \in Mutating /\ loc[c] \in Locals
         /\ Keyed(req[c]) => Slot(c) \in Slots
<1>1. lock = c /\ \A d \in Clients \ {c} : pc[d] \notin Held
  BY DEF IInv, HandlerInv, LockOf
<1>2. pc[c] \notin {"idle", "read"}
  BY DEF Held, Taken
<1>3. phase = "up" /\ req[c] \in Requests /\ req[c].tool \in Mutating /\ loc[c] \in Locals
  BY <1>2, Running DEF IInv, HandlerInv, ToolOf
<1> QED
  BY <1>1, <1>3, FilesDiffer, CallsHaveCallers DEF Slot, Slots, Requests, Keyed

\* Such a step keeps what the invariant says of the other handlers and of startup.
LEMMA HolderOthers ==
  ASSUME IInv, NEW c \in Clients, HolderStep(c), TypeOK'
  PROVE  PhaseInv' /\ OverlapInv' /\ \A d \in Clients \ {c} : HandlerInv(d)'
<1>1. PhaseInv'
  BY Alone DEF IInv, HolderStep, PhaseInv, startup
<1>3. OverlapInv'
  <2>1. pc[c] \notin {"idle", "read", "admit"}
    BY DEF HolderStep, Held, Taken
  <2>2. PastKey(c)' => PastKey(c)
    BY <2>1 DEF PastKey, HolderStep, Keyed, Lifecycle
  <2> QED
    BY <2>2, OverlapKept DEF IInv, HolderStep
<1>2. ASSUME NEW d \in Clients \ {c} PROVE HandlerInv(d)'
  <2>1. HandlerInv(d) /\ pc'[d] = pc[d] /\ req' = req /\ loc'[d] = loc[d] /\ pc[d] \notin Held
    BY Alone DEF IInv, HolderStep
  <2>2. lock # d /\ lock' # d
    BY Alone, FilesDiffer DEF HolderStep
  <2>3. LockOf(d)' /\ ToolOf(d)' /\ LocalsOf(d)' /\ LifecycleOf(d)' /\ WriteOf(d)'
    BY <2>1, <2>2
    DEF HandlerInv, LockOf, ToolOf, LocalsOf, LifecycleOf, WriteOf, Placed, Lifecycle, LocksFirst,
        Keyed, Held
  <2>4. KeyOf(d)'
    <3>1. CASE pc[d] = "lock" /\ ~LocksFirst(req[d])
      <4>1. /\ ~Recorded(d) \/ Slot(d) \in overlapped
            /\ req[d] \in Requests /\ req[d].tool \in Mutating /\ ~LocksFirst(req[d])
        BY <2>1, <3>1 DEF HandlerInv, KeyOf, ToolOf
      <4>2. Keyed(req[d]) => Slot(d) \in Slots
        BY <4>1, CallsHaveCallers DEF Slot, Slots, Requests, Keyed
      \* Only a call under the same key can have recorded it: the two overlap.
      <4>3. ASSUME Keyed(req[d]), Slot(d) = Slot(c) PROVE Slot(d) \in overlapped
        <5>1. PastKey(d)
          BY <3>1, <4>1, <4>3 DEF PastKey, LocksFirst
        <5>2. PastKey(c)
          BY <4>1, <4>3, <5>1 DEF PastKey, Slot, Keyed, Lifecycle, HolderStep, Held, Taken
        <5> QED
          BY <5>1, <5>2, <4>3 DEF IInv, OverlapInv
      <4>4. Slot(d)' = Slot(d) /\ req' = req /\ overlapped' = overlapped
        BY DEF HolderStep, Slot
      <4> QED
        BY <2>1, <3>1, <4>1, <4>2, <4>3, <4>4 DEF KeyOf, Recorded, HolderStep, Keyed
    <3> QED
      BY <2>1, <3>1 DEF KeyOf, LocksFirst, Lifecycle, Keyed, Held, Taken
  <2> QED
    BY <2>3, <2>4 DEF HandlerInv
<1> QED
  BY <1>1, <1>2, <1>3

\* ... and, unless the call takes effect in it, that every keyed effect is accounted for,
\* if the call that returns has recorded its own.
LEMMA HolderOnce ==
  ASSUME IInv, NEW c \in Clients, HolderStep(c), applied' = applied,
         idem' = idem \/ (Recorded(c)' /\ Keyed(req[c])),
         Sound' => \/ pc[c] \notin Taken
                   \/ ~Keyed(req[c]) \/ Recorded(c)'
                   \/ pc'[c] \in Taken /\ loc'[c].before = loc[c].before
                                       /\ loc'[c].after = loc[c].after
  PROVE  OnceInv'
<1> SUFFICES ASSUME Sound', NEW s \in Slots, s \notin overlapped, applied[s] = 1
             PROVE  Accounted(s)'
  <2>1. Sound' => Sound
    BY DEF Sound, HolderStep, IInv, TypeOK
  <2> QED
    BY <2>1 DEF OnceInv, IInv, HolderStep
<1>1. Sound /\ phase = "up"
  BY Alone DEF Sound, HolderStep, IInv, TypeOK
<1>2. Accounted(s)
  BY <1>1 DEF IInv, OnceInv
<1>3. CASE idem[s] # Unused
  <2>1. Slot(c)' = Slot(c)
    BY DEF HolderStep, Slot
  <2>2. CASE idem'[s] = idem[s]
    BY <1>3, <2>2 DEF Accounted
  <2>3. CASE idem'[s] # idem[s]
    <3>1. s = Slot(c) /\ req' = req
      BY <2>3 DEF HolderStep
    <3>2. Recorded(c)'
      BY <2>3
    <3>3. idem'[s] # Unused
      BY <3>1, <3>2 DEF Recorded, Slot
    <3> QED
      BY <3>3 DEF Accounted
  <2> QED
    BY <2>2, <2>3
<1>4. CASE \E d \in Clients : pc[d] \in Taken /\ Keyed(req[d]) /\ Slot(d) = s
                              /\ loc[d].before # loc[d].after
  <2>1. pc[c] \in Taken /\ Keyed(req[c]) /\ Slot(c) = s /\ loc[c].before # loc[c].after
    BY <1>4, Alone DEF Held, HolderStep
  <2>2. req' = req
    BY DEF HolderStep
  <2> QED
    BY <2>1, <2>2 DEF Accounted, Recorded, Slot
<1> QED
  BY <1>1, <1>2, <1>3, <1>4 DEF Accounted

\* While the handler goes on, its entry is where it was and every other one too.
LEMMA HolderFlight ==
  ASSUME IInv, NEW c \in Clients, HolderStep(c), pc[c] \in Journaled,
         Sound' => \/ journal' = journal \ {loc[c].entry}
                   \/ journal' = journal /\ pc'[c] \in Journaled /\ lock' = lock
                                         /\ loc'[c].entry = loc[c].entry
                   \/ journal' = journal /\ Blindly(req[c])
  PROVE  FlightInv'
<1> SUFFICES ASSUME Sound', NEW e \in journal'
             PROVE  \/ lock' = e.client /\ pc'[e.client] \in Journaled /\ loc'[e.client].entry = e
                    \/ Blindly(e.req)
  BY Alone DEF FlightInv, HolderStep, startup
<1>1. Sound /\ phase = "up" /\ e \in journal
  BY Alone DEF Sound, HolderStep, IInv, TypeOK
<1>2. \/ lock = e.client /\ pc[e.client] \in Journaled /\ loc[e.client].entry = e
      \/ Blindly(e.req)
  BY <1>1 DEF IInv, FlightInv
<1>3. lock = c /\ loc[c].entry.client = c /\ loc[c].entry.req = req[c]
  BY Alone DEF IInv, OwnInv, Held, Journaled
<1> QED
  BY <1>2, <1>3

\* The entry of the handler, and what the copies show beside its writes.
LEMMA HolderOwn ==
  ASSUME IInv, NEW c \in Clients, HolderStep(c),
         pc'[c] \in Journaled =>
           LET e == loc'[c].entry
           IN  /\ e \in journal' /\ e.client = c /\ e.req = req[c]
               /\ e.before = loc'[c].before /\ e.after = loc'[c].after
  PROVE  OwnInv'
<1> SUFFICES ASSUME NEW d \in Clients, pc'[d] \in Journaled PROVE d = c
  BY DEF OwnInv, HolderStep
<1> QED
  BY Alone DEF HolderStep, Held, Journaled

CopyOf(c) == failures = 0 =>
  /\ shadow = idx
  /\ pc[c] \notin {"write", "undo"} \cup Ahead => idx = Only(disk, Langs)
  /\ pc[c] \in {"write", "undo"} => \A l \in Langs :
       idx[l] = IF l \in loc[c].done THEN loc[c].before[l] ELSE disk[l]
  /\ pc[c] \in Ahead => Over(loc[c].after, idx) = Only(disk, Langs)

LEMMA HolderCopy ==
  ASSUME IInv, NEW c \in Clients, pc[c] \in Held
  PROVE  CopyOf(c) /\ (HolderStep(c) /\ CopyOf(c)' => CopyInv')
<1>1. phase = "up" /\ \A d \in Clients \ {c} : pc[d] \notin {"write", "undo"} \cup Ahead
  BY Alone DEF Held, Taken, Ahead
<1>2. CopyOf(c)
  BY <1>1 DEF CopyOf, IInv, CopyInv
<1>3. ASSUME HolderStep(c), CopyOf(c)' PROVE CopyInv'
  <2>1. phase' = "up" /\ \A d \in Clients \ {c} : pc'[d] \notin {"write", "undo"} \cup Ahead
    BY <1>1, <1>3 DEF HolderStep, startup
  <2> QED
    BY <2>1, <1>3 DEF CopyOf, CopyInv
<1> QED
  BY <1>2, <1>3

\* What the call replaces is filed under the revision the bundle has.
LEMMA SnapshotInv ==
  ASSUME IInv, NEW c \in Clients, Snapshot(c)
  PROVE  IInv'
<1> DEFINE s == [rev |-> Revision, client |-> CallerOf[c], files |-> Captured(loc[c].before)]
           w == loc[c].before
<1>1. /\ pc[c] = "snapshot" /\ pc'[c] = "begin" /\ pc[c] \in Held
      /\ kept' = {t \in kept : t.rev # Revision} \cup {s}
      /\ UNCHANGED <<disk, lock, req, loc, idem, failures, overlapped>>
  BY DEF Snapshot, Goto, IInv, TypeOK, counts, Held
<1>2. w \in Partial /\ disk \in Bundles
  BY <1>1, Alone DEF Locals, IInv, TypeOK
<1>3. s \in Snapshots
  BY <1>2, CapturedType, CallsHaveCallers DEF Snapshots, Revision
<1>4. TypeOK'
  BY <1>1, <1>3 DEF Snapshot, Goto, IInv, TypeOK, Labels, startup, counts
<1>5. w = Only(disk, DOMAIN w)
  <2>1. \A l \in DOMAIN w : disk[l] = w[l]
    BY <1>1 DEF IInv, HandlerInv, LocalsOf, WriteOf, Placed, ToolOf, Blindly, Held, Journaled, Taken
  <2> QED
    BY <1>2, <2>1, PartialFacts DEF Only
<1>6. s.files = Captured(Only(s.rev, DOMAIN s.files))
  BY <1>2, <1>5, CapturedType DEF Revision
<1>7. SnapshotsHoldTheirRevision'
  BY <1>1, <1>6 DEF SnapshotsHoldTheirRevision, IInv
<1>8. QuietStep(c)
  BY <1>1, Alone DEF Snapshot, Goto, QuietStep, IInv, TypeOK, Journaled, Taken, counts
<1>9. HandlerInv(c)'
  BY <1>1
  DEF IInv, HandlerInv, LockOf, ToolOf, LocalsOf, LifecycleOf, WriteOf, Placed, KeyOf, Held,
      Journaled, Taken,
      Lifecycle, Recorded, Slot, LocksFirst, Blindly, Keyed
<1>10. OverlapInv'
  BY <1>1, <1>8, OverlapKept DEF IInv, QuietStep, PastKey
<1> QED
  BY <1>4, <1>7, <1>8, <1>9, <1>10, QuietInv

\* The recovery journal takes the entry of the call.
LEMMA BeginInv ==
  ASSUME IInv, NEW c \in Clients, Begin(c)
  PROVE  IInv'
<1> DEFINE e == [id |-> ops + 1, client |-> c, req |-> req[c], before |-> loc[c].before,
                 after |-> loc[c].after, cleanup |-> Cleans(c)]
           k == [loc[c] EXCEPT !.entry = e]
<1>1. /\ pc[c] = "begin" /\ pc'[c] = "write" /\ pc[c] \in Held
      /\ pc' = [pc EXCEPT ![c] = "write"] /\ loc' = [loc EXCEPT ![c].entry = e]
      /\ journal' = journal \cup {e} /\ ops' = ops + 1
      /\ UNCHANGED <<disk, shadow, plans, kept, idem, idx, lock, startup, req, ans, made,
                     applied, overlapped, damaged, calls, edits, crashes, failures>>
  BY DEF Begin, Goto, IInv, TypeOK, Held
<1>2. /\ req[c] \in Requests /\ req[c].tool \in Mutating /\ loc[c] \in Locals
      /\ phase = "up" /\ lock = c
  BY <1>1, Alone
<1>3. e \in Entries /\ e.id > 0 /\ e.id # 0
  BY <1>2 DEF Entries, Locals, Cleans, IInv, TypeOK
<1>4. loc'[c] = k /\ loc' = [loc EXCEPT ![c] = k]
  BY <1>1 DEF IInv, TypeOK
<1>5. /\ k \in Locals /\ k.done = loc[c].done /\ k.entry = e /\ k.before = loc[c].before
      /\ k.after = loc[c].after
  BY <1>2, <1>3, LocalsUpdate DEF Locals
<1>6. /\ DOMAIN loc[c].before = DOMAIN loc[c].after /\ loc[c].done = {}
      /\ req[c].tool = "delete_bundle" => \A l \in DOMAIN loc[c].after : loc[c].after[l] = Absent
  BY <1>1 DEF IInv, HandlerInv, LocalsOf, LifecycleOf, Held, Journaled, Taken
<1>7. /\ e.client = c /\ e.req = req[c] /\ e.before = loc[c].before /\ e.after = loc[c].after
      /\ e.cleanup => req[c].tool = "delete_bundle"
  BY DEF Cleans
<1> HIDE DEF e, k
<1>8. TypeOK'
  BY <1>1, <1>3, <1>4, <1>5 DEF IInv, TypeOK, Labels, startup
<1>9. HolderStep(c)
  BY <1>1, <1>4 DEF HolderStep, IInv, TypeOK
<1>10. HandlerInv(c)'
  BY <1>1, <1>4, <1>5, <1>6
  DEF IInv, HandlerInv, LockOf, ToolOf, LocalsOf, LifecycleOf, WriteOf, Placed, KeyOf, Held,
      Journaled, Taken,
      Lifecycle, Recorded, Slot, LocksFirst, Blindly, Keyed
<1>11. OwnInv'
  BY <1>1, <1>4, <1>5, <1>7, <1>9, HolderOwn
<1>12. EntryInv'
  BY <1>1, <1>2, <1>3, <1>6, <1>7 DEF IInv, EntryInv, startup
<1>13. FlightInv'
  <2> SUFFICES ASSUME Sound', NEW f \in journal'
               PROVE  \/ lock' = f.client /\ pc'[f.client] \in Journaled /\ loc'[f.client].entry = f
                      \/ Blindly(f.req)
    BY <1>1, <1>2 DEF FlightInv, startup
  <2>1. CASE f = e
    BY <2>1, <1>1, <1>2, <1>4, <1>5, <1>7 DEF Journaled
  <2>2. CASE f \in journal
    <3>1. Sound /\ phase = "up"
      BY <1>1, <1>2 DEF Sound
    <3> QED
      BY <2>2, <3>1, <1>1, <1>2 DEF IInv, FlightInv, Journaled, Taken
  <2> QED
    BY <2>1, <2>2, <1>1
<1>14. CopyInv'
  <2>1. CopyOf(c)'
    BY <1>1, <1>4, <1>5, <1>6, HolderCopy DEF CopyOf, Ahead, Only
  <2> QED
    BY <2>1, <1>1, <1>9, HolderCopy
<1>15. SnapshotsHoldTheirRevision'
  BY <1>1 DEF IInv, SnapshotsHoldTheirRevision
<1>16. OnceInv'
  BY <1>1, <1>9, HolderOnce DEF Taken
<1> QED
  BY <1>8, <1>9, <1>10, <1>11, <1>12, <1>13, <1>14, <1>15, <1>16, HolderOthers DEF IInv

\* One file is written; with the last one the call takes effect.
LEMMA WriteFileInv ==
  ASSUME IInv, NEW c \in Clients, WriteFile(c)
  PROVE  IInv'
<1>1. PICK l \in Remaining(c) :
        /\ ~Exists(c, l)
        /\ disk' = [disk EXCEPT ![l] = loc[c].after[l]]
        /\ loc' = [loc EXCEPT ![c].done = @ \cup {l}]
        /\ IF Remaining(c) = {l} THEN Goto(c, AfterWrite(req[c])) /\ Effect(c)
                                 ELSE UNCHANGED <<pc, applied>>
  BY DEF WriteFile
<1> DEFINE k == [loc[c] EXCEPT !.done = @ \cup {l}]
<1>2. /\ pc[c] = "write" /\ pc[c] \in Held /\ pc[c] \in Journaled
      /\ UNCHANGED <<shadow, plans, kept, journal, idem, idx, lock, startup, req, ans, made,
                     overlapped, damaged, ops, calls, edits, crashes, failures>>
  BY DEF WriteFile, Held, Journaled, counts
<1>3. /\ req[c] \in Requests /\ req[c].tool \in Mutating /\ loc[c] \in Locals
      /\ phase = "up" /\ lock = c /\ (Keyed(req[c]) => Slot(c) \in Slots)
  BY <1>2, Alone
<1>4. loc'[c] = k /\ loc' = [loc EXCEPT ![c] = k]
  BY <1>1 DEF IInv, TypeOK
<1>5. /\ l \in DOMAIN loc[c].after /\ l \notin loc[c].done
      /\ DOMAIN loc[c].after \subseteq Langs
      /\ loc[c].after[l] \in Revisions
  BY <1>1, <1>3, PartialFacts DEF Remaining, Locals
<1>6. /\ k \in Locals /\ k.done = loc[c].done \cup {l} /\ k.entry = loc[c].entry
      /\ k.before = loc[c].before /\ k.after = loc[c].after
  BY <1>3, <1>5 DEF Locals
<1>7. /\ DOMAIN loc[c].before = DOMAIN loc[c].after /\ loc[c].done \subseteq DOMAIN loc[c].after
      /\ \A m \in DOMAIN loc[c].after :
           IF m \in loc[c].done THEN disk[m] = loc[c].after[m]
           ELSE disk[m] = loc[c].before[m] \/ Blindly(req[c])
      /\ Blindly(req[c]) => \A m \in DOMAIN loc[c].before : loc[c].before[m] = Absent
  BY <1>2 DEF IInv, HandlerInv, LocalsOf, WriteOf, Placed, LifecycleOf, Blindly, Held
<1>8. /\ \A m \in Files : disk'[m] = IF m = l THEN loc[c].after[l] ELSE disk[m]
      /\ l \in Files /\ disk' \in Bundles
  BY <1>1, <1>5 DEF IInv, TypeOK, Bundles, Files
\* What the file held was what the handler had captured.
<1>9. disk[l] = loc[c].before[l]
  BY <1>1, <1>5, <1>7 DEF Exists, Blindly
<1>10. CASE Remaining(c) # {l}
  <2>1. pc' = pc /\ applied' = applied
    BY <1>1, <1>10
  <2> HIDE DEF k
  <2>2. TypeOK'
    BY <1>2, <1>4, <1>6, <1>8, <2>1 DEF IInv, TypeOK, startup
  <2>3. HolderStep(c)
    BY <1>2, <1>4, <2>1 DEF HolderStep, IInv, TypeOK
  <2>4. HandlerInv(c)'
    <3>1. WriteOf(c)'
      BY <1>2, <1>4, <1>5, <1>6, <1>7, <1>8, <2>1 DEF WriteOf, Placed, Files, Blindly, Keyed
    <3> QED
      BY <1>2, <1>4, <1>5, <1>6, <1>7, <2>1, <3>1
      DEF IInv, HandlerInv, LockOf, ToolOf, LocalsOf, LifecycleOf, KeyOf, Held, Journaled, Taken,
          Lifecycle, Recorded, Slot, LocksFirst, Keyed
  <2>5. OwnInv'
    BY <1>2, <1>4, <1>6, <2>3, HolderOwn DEF IInv, OwnInv
  <2>6. EntryInv' /\ SnapshotsHoldTheirRevision'
    BY <1>2 DEF IInv, EntryInv, SnapshotsHoldTheirRevision, startup
  <2>7. FlightInv'
    BY <1>2, <1>4, <1>6, <2>1, <2>3, HolderFlight
  <2>8. CopyInv'
    <3>1. CopyOf(c)'
      BY <1>2, <1>4, <1>5, <1>6, <1>8, <1>9, <2>1, HolderCopy DEF CopyOf, Files, Ahead
    <3> QED
      BY <3>1, <1>2, <2>3, HolderCopy
  <2>9. OnceInv'
    BY <1>2, <2>1, <2>3, HolderOnce DEF Taken
  <2> QED
    BY <2>2, <2>3, <2>4, <2>5, <2>6, <2>7, <2>8, <2>9, HolderOthers DEF IInv
<1>11. CASE Remaining(c) = {l}
  <2> DEFINE label == AfterWrite(req[c])
  <2>1. pc' = [pc EXCEPT ![c] = label] /\ Effect(c)
    BY <1>1, <1>11 DEF Goto
  <2>2. label \in Ahead /\ label \in Taken /\ label \in Labels
        /\ (label = "tidy" => req[c].tool = "delete_bundle")
    BY DEF AfterWrite, Ahead, Taken, Labels
  <2> HIDE DEF k, label
  <2>3. pc'[c] = label
    BY <2>1 DEF IInv, TypeOK
  <2>4. k.done = DOMAIN loc[c].after
    BY <1>5, <1>6, <1>7, <1>11 DEF Remaining
  <2>5. TypeOK'
    <3>1. applied' \in [Slots -> Nat]
      <4>1. applied \in [Slots -> Nat]
        BY DEF IInv, TypeOK
      <4>2. Keyed(req[c]) => [applied EXCEPT ![Slot(c)] = @ + 1] \in [Slots -> Nat]
        BY <1>3, <4>1
      <4> QED
        BY <2>1, <4>1, <4>2 DEF Effect
    <3> QED
      BY <1>2, <1>4, <1>6, <1>8, <2>1, <2>2, <3>1 DEF IInv, TypeOK, startup
  <2>6. HolderStep(c)
    BY <1>2, <1>4, <2>1 DEF HolderStep, IInv, TypeOK
  <2>7. label \in Held /\ label \in Journaled /\ label # "commit"
    BY <2>2 DEF Held, Journaled, Ahead
  <2>8. \A m \in DOMAIN loc[c].after : disk'[m] = loc[c].after[m]
    BY <1>5, <1>7, <1>8, <2>4, <1>6 DEF Files
  <2>9. HandlerInv(c)'
    <3>1. WriteOf(c)'
      BY <1>4, <1>6, <2>2, <2>3, <2>4, <2>8 DEF WriteOf, Placed, Ahead
    <3>2. LockOf(c)' /\ ToolOf(c)' /\ LocalsOf(c)'
      BY <1>2, <1>3, <1>4, <1>6, <1>7, <2>2, <2>3, <2>4, <2>7
      DEF LockOf, ToolOf, LocalsOf, Ahead
    <3>3. LifecycleOf(c)'
      BY <1>2, <1>4, <1>6, <2>3, <2>7 DEF IInv, HandlerInv, LifecycleOf, Lifecycle
    <3>4. KeyOf(c)'
      BY <1>2, <1>3, <2>3, <2>7 DEF IInv, HandlerInv, KeyOf, Recorded, Slot, Keyed, Held
    <3> QED
      BY <3>1, <3>2, <3>3, <3>4 DEF HandlerInv
  <2>10. OwnInv'
    BY <1>2, <1>4, <1>6, <2>6, HolderOwn DEF IInv, OwnInv
  <2>11. EntryInv' /\ SnapshotsHoldTheirRevision'
    BY <1>2 DEF IInv, EntryInv, SnapshotsHoldTheirRevision, startup
  <2>12. FlightInv'
    BY <1>2, <1>4, <1>6, <2>3, <2>6, <2>7, HolderFlight
  <2>13. CopyInv'
    <3>1. ASSUME failures = 0 PROVE Over(loc[c].after, idx) = Only(disk', Langs) /\ shadow = idx
      <4>1. /\ shadow = idx
            /\ \A m \in Langs : idx[m] = IF m \in loc[c].done THEN loc[c].before[m] ELSE disk[m]
        BY <3>1, <1>2, HolderCopy DEF CopyOf
      <4>2. DOMAIN idx = Langs
        BY DEF IInv, TypeOK
      <4>3. \A m \in Langs : (IF m \in DOMAIN loc[c].after THEN loc[c].after[m] ELSE idx[m]) = disk'[m]
        BY <4>1, <2>8, <1>5, <1>7, <1>8 DEF Files
      <4> QED
        BY <4>1, <4>2, <4>3 DEF Over, Only
    <3>2. CopyOf(c)'
      BY <3>1, <1>2, <1>4, <1>6, <2>2, <2>3 DEF CopyOf, Ahead
    <3> QED
      BY <3>2, <1>2, <2>6, HolderCopy
  <2>14. OnceInv'
    <3> SUFFICES ASSUME Sound', NEW s \in Slots, s \notin overlapped
                 PROVE  applied'[s] <= 1 /\ (applied'[s] = 1 => Accounted(s)')
      BY <1>2 DEF OnceInv
    <3>1. Sound /\ applied[s] <= 1 /\ (applied[s] = 1 => Accounted(s))
      BY <1>2 DEF Sound, IInv, OnceInv
    <3>2. \A d \in Clients : pc[d] \notin Taken
      BY <1>2, Alone DEF Held, Taken
    <3>3. Accounted(s) => idem[s] # Unused
      BY <1>3, <3>2 DEF Accounted
    <3>4. CASE Keyed(req[c]) /\ loc[c].before # loc[c].after /\ s = Slot(c)
      <4>1. ~Recorded(c)
        BY <1>2, <3>4 DEF IInv, HandlerInv, KeyOf, Held
      <4>2. applied[s] = 0
        BY <3>1, <3>3, <3>4, <4>1 DEF Recorded, IInv, TypeOK
      <4>3. applied'[s] = 1
        BY <2>1, <3>4, <4>2 DEF Effect, IInv, TypeOK
      <4>4. pc'[c] \in Taken /\ Keyed(req'[c]) /\ Slot(c)' = s /\ loc'[c].before # loc'[c].after
        BY <1>2, <1>4, <1>6, <2>2, <2>3, <3>4 DEF Slot
      <4> QED
        BY <4>3, <4>4 DEF Accounted
    <3>5. CASE ~(Keyed(req[c]) /\ loc[c].before # loc[c].after /\ s = Slot(c))
      <4>1. applied'[s] = applied[s]
        BY <2>1, <3>5 DEF Effect, IInv, TypeOK
      <4> QED
        BY <3>1, <3>3, <4>1, <1>2 DEF Accounted
    <3> QED
      BY <3>4, <3>5
  <2> QED
    BY <2>5, <2>6, <2>9, <2>10, <2>11, <2>12, <2>13, <2>14, HolderOthers DEF IInv
<1> QED
  BY <1>10, <1>11

\* A write fails, or a create finds a file there.
LEMMA WriteFailsInv ==
  ASSUME IInv, NEW c \in Clients, WriteFails(c)
  PROVE  IInv'
<1>1. /\ pc[c] = "write" /\ pc[c] \in Held /\ pc[c] \in Journaled /\ pc' = [pc EXCEPT ![c] = "undo"]
      /\ pc'[c] = "undo" /\ "undo" \in Held /\ "undo" \in Journaled
      /\ UNCHANGED <<disk, shadow, plans, kept, journal, idem, idx, lock, startup, req, loc,
                     ans, made, applied, overlapped, damaged, ops, calls, edits, crashes>>
  BY DEF WriteFails, Held, Journaled, Goto, IInv, TypeOK
<1>2. /\ failures' \in Nat /\ failures' >= failures
      /\ failures' = 0 => \E l \in Remaining(c) : Exists(c, l)
  BY DEF WriteFails, Fails, IInv, TypeOK
<1>3. TypeOK'
  BY <1>1, <1>2 DEF IInv, TypeOK, startup, Labels
<1>4. HolderStep(c)
  BY <1>1, <1>2 DEF HolderStep, IInv, TypeOK
<1>5. failures' = 0 => failures = 0
  BY <1>2 DEF IInv, TypeOK
<1>6. failures' = 0 => Blindly(req[c])
  <2> SUFFICES ASSUME failures' = 0 PROVE Blindly(req[c])
    OBVIOUS
  <2>1. PICK l \in Remaining(c) : Exists(c, l)
    BY <1>2
  <2>2. disk[l] = loc[c].before[l] \/ Blindly(req[c])
    BY <1>1, <2>1 DEF IInv, HandlerInv, WriteOf, Placed, Remaining, Held
  <2>3. loc[c].before[l] = Absent
    BY <1>1, <2>1 DEF IInv, HandlerInv, LocalsOf, LifecycleOf, Exists, Remaining, Held
  <2> QED
    BY <2>1, <2>2, <2>3 DEF Exists
<1>7. HandlerInv(c)'
  <2>1. WriteOf(c)'
    BY <1>1, <1>5, <1>6 DEF IInv, HandlerInv, WriteOf, Placed, Held, Taken, Blindly, Keyed
  <2> QED
    BY <1>1, <1>5, <2>1
    DEF IInv, HandlerInv, LockOf, ToolOf, LocalsOf, LifecycleOf, KeyOf, Held, Journaled, Taken,
        Lifecycle, Recorded, Slot, LocksFirst, Keyed
<1>8. OwnInv'
  BY <1>1, <1>4, HolderOwn DEF IInv, OwnInv
<1>9. EntryInv' /\ SnapshotsHoldTheirRevision'
  BY <1>1 DEF IInv, EntryInv, SnapshotsHoldTheirRevision, startup
<1>10. FlightInv'
  BY <1>1, <1>4, HolderFlight
<1>11. CopyInv'
  <2>1. CopyOf(c)'
    BY <1>1, <1>5, HolderCopy DEF CopyOf, Ahead
  <2> QED
    BY <2>1, <1>1, <1>4, HolderCopy
<1>12. OnceInv'
  BY <1>1, <1>4, HolderOnce DEF Taken
<1> QED
  BY <1>3, <1>4, <1>7, <1>8, <1>9, <1>10, <1>11, <1>12, HolderOthers DEF IInv

\* One file is put back, or cannot be.
LEMMA UndoInv ==
  ASSUME IInv, NEW c \in Clients, Undo(c)
  PROVE  IInv'
<1>1. PICK l \in loc[c].done :
        /\ loc' = [loc EXCEPT ![c].done = @ \ {l}]
        /\ \/ /\ disk' = [disk EXCEPT ![l] = PutBack(c, l)]
              /\ damaged' = (damaged \/ PutBack(c, l) # loc[c].before[l])
              /\ UNCHANGED failures
           \/ Fails /\ damaged' = TRUE /\ UNCHANGED disk
  BY DEF Undo
<1> DEFINE k == [loc[c] EXCEPT !.done = @ \ {l}]
<1>2. /\ pc[c] = "undo" /\ pc[c] \in Held /\ pc[c] \in Journaled
      /\ UNCHANGED <<shadow, plans, kept, journal, idem, idx, lock, startup, pc, req, ans,
                     made, applied, overlapped, ops, calls, edits, crashes>>
  BY DEF Undo, Held, Journaled
<1>3. loc[c] \in Locals
  BY <1>2, Alone
<1>4. loc'[c] = k /\ loc' = [loc EXCEPT ![c] = k]
  BY <1>1 DEF IInv, TypeOK
<1>5. /\ k \in Locals /\ k.done = loc[c].done \ {l} /\ k.entry = loc[c].entry
      /\ k.before = loc[c].before /\ k.after = loc[c].after
  BY <1>3 DEF Locals
<1> HIDE DEF k
<1>6. /\ DOMAIN loc[c].before = DOMAIN loc[c].after /\ loc[c].done \subseteq DOMAIN loc[c].after
      /\ l \in DOMAIN loc[c].before /\ loc[c].before \in Partial
  BY <1>2, <1>3 DEF IInv, HandlerInv, LocalsOf, Held, Taken, Locals
<1>7. l \in Langs /\ loc[c].before[l] \in Revisions /\ PutBack(c, l) \in Revisions
  BY <1>6, PartialFacts, CapturedType DEF PutBack
<1>8. /\ failures' \in Nat /\ failures' >= failures /\ damaged' \in BOOLEAN /\ (damaged => damaged')
      /\ disk' \in Bundles
  <2>1. failures' \in Nat /\ failures' >= failures
    BY <1>1 DEF Fails, IInv, TypeOK
  <2>2. damaged' \in BOOLEAN /\ (damaged => damaged')
    BY <1>1 DEF IInv, TypeOK
  <2>3. [disk EXCEPT ![l] = PutBack(c, l)] \in Bundles /\ disk \in Bundles
    BY <1>7 DEF IInv, TypeOK, Bundles, Files
  <2>4. disk' = [disk EXCEPT ![l] = PutBack(c, l)] \/ disk' = disk
    BY <1>1
  <2> QED
    BY <2>1, <2>2, <2>3, <2>4
<1>9. TypeOK'
  BY <1>2, <1>4, <1>5, <1>8 DEF IInv, TypeOK, startup
<1>10. HolderStep(c)
  BY <1>2, <1>4, <1>8 DEF HolderStep, IInv, TypeOK
\* Before the first failure only a create undoes, and puts its files back as they were.
<1>11. failures' = 0 => /\ failures = 0 /\ Blindly(req[c])
                        /\ disk' = [disk EXCEPT ![l] = loc[c].before[l]]
  <2>1. failures' = 0 => failures = 0
    BY <1>8 DEF IInv, TypeOK
  <2>2. failures = 0 => Blindly(req[c])
    BY <1>2 DEF IInv, HandlerInv, WriteOf, Placed
  <2>3. failures \in Nat /\ (Fails => failures' = failures + 1)
    BY DEF Fails, IInv, TypeOK
  <2>4. failures' = 0 => disk' = [disk EXCEPT ![l] = PutBack(c, l)]
    BY <1>1, <2>3
  <2>5. Blindly(req[c]) => PutBack(c, l) = loc[c].before[l]
    BY DEF Blindly, PutBack, Lifecycle
  <2> QED
    BY <2>1, <2>2, <2>4, <2>5
<1>12. HandlerInv(c)'
  <2>1. WriteOf(c)'
    <3> SUFFICES ASSUME failures' = 0
                 PROVE  Blindly(req[c]) /\ \A m \in k.done : disk'[m] = loc[c].after[m]
      BY <1>2, <1>4, <1>5 DEF WriteOf, Placed, Blindly, Keyed, Held, Taken
    <3>1. ASSUME NEW m \in k.done PROVE disk'[m] = disk[m]
      <4>1. m # l /\ m \in Files
        BY <1>5, <1>6, <3>1, PartialFacts DEF Files
      <4> QED
        BY <1>11, <4>1 DEF IInv, TypeOK, Bundles
    <3>2. \A m \in loc[c].done : disk[m] = loc[c].after[m]
      BY <1>2, <1>6, <1>11 DEF IInv, HandlerInv, WriteOf, Placed
    <3> QED
      BY <1>5, <1>11, <3>1, <3>2
  <2> QED
    BY <1>2, <1>4, <1>5, <1>6, <1>11, <2>1
    DEF IInv, HandlerInv, LockOf, ToolOf, LocalsOf, LifecycleOf, KeyOf, Held, Journaled, Taken,
        Lifecycle, Recorded, Slot, LocksFirst, Keyed
<1>13. OwnInv'
  BY <1>2, <1>4, <1>5, <1>10, HolderOwn DEF IInv, OwnInv
<1>14. EntryInv' /\ SnapshotsHoldTheirRevision'
  BY <1>2 DEF IInv, EntryInv, SnapshotsHoldTheirRevision, startup
<1>15. FlightInv'
  BY <1>2, <1>4, <1>5, <1>10, HolderFlight
<1>16. CopyInv'
  <2>1. CopyOf(c)'
    <3> SUFFICES ASSUME failures' = 0, NEW m \in Langs
                 PROVE  idx[m] = IF m \in k.done THEN k.before[m] ELSE disk'[m]
      BY <1>2, <1>4, <1>5, <1>11, HolderCopy DEF CopyOf, Ahead
    <3>1. idx[m] = IF m \in loc[c].done THEN loc[c].before[m] ELSE disk[m]
      BY <1>2, <1>11, HolderCopy DEF CopyOf
    <3>2. disk'[m] = IF m = l THEN loc[c].before[l] ELSE disk[m]
      BY <1>11 DEF IInv, TypeOK, Bundles, Files
    <3> QED
      BY <3>1, <3>2, <1>5
  <2> QED
    BY <2>1, <1>2, <1>10, HolderCopy
<1>17. OnceInv'
  BY <1>2, <1>10, HolderOnce DEF Taken
<1> QED
  BY <1>9, <1>10, <1>12, <1>13, <1>14, <1>15, <1>16, <1>17, HolderOthers DEF IInv

\* What a handler is after it returned.
LEMMA Returned ==
  ASSUME IInv, NEW c \in Clients, NEW a \in Answers, Answer(c, a), pc[c] \in Held, req' = req
  PROVE  /\ pc'[c] = "idle" /\ loc'[c] = NoLocals /\ lock' = NoClient
         /\ pc' = [pc EXCEPT ![c] = "idle"] /\ loc' = [loc EXCEPT ![c] = NoLocals]
         /\ pc' \in [Clients -> Labels] /\ loc' \in [Clients -> Locals] /\ ans' \in [Clients -> Answers]
         /\ HandlerInv(c)'
<1>1. /\ pc'[c] = "idle" /\ loc'[c] = NoLocals /\ lock' = NoClient
      /\ pc' = [pc EXCEPT ![c] = "idle"] /\ loc' = [loc EXCEPT ![c] = NoLocals]
      /\ pc' \in [Clients -> Labels] /\ loc' \in [Clients -> Locals] /\ ans' \in [Clients -> Answers]
  BY LocalsUpdate, Alone DEF Answer, Goto, IInv, TypeOK, Labels
<1>2. HandlerInv(c)'
  BY <1>1, FilesDiffer
  DEF HandlerInv, LockOf, ToolOf, LocalsOf, LifecycleOf, WriteOf, Placed, KeyOf, Held, Journaled,
      Taken,
      NoLocals
<1> QED
  BY <1>1, <1>2

LEMMA RolledBackInv ==
  ASSUME IInv, NEW c \in Clients, RolledBack(c)
  PROVE  IInv'
<1>1. /\ pc[c] = "undo" /\ pc[c] \in Held /\ pc[c] \in Journaled /\ loc[c].done = {}
      /\ Answer(c, "rolled_back") /\ "rolled_back" \in Answers
      /\ UNCHANGED <<disk, shadow, plans, kept, journal, idem, idx, startup, req, made,
                     applied, overlapped, damaged, ops, calls, edits, crashes, failures>>
  BY DEF RolledBack, AnswerOnly, counts, Held, Journaled, Answers
<1>2. TypeOK'
  BY AnswerOnlyType DEF RolledBack, IInv, Answers
<1>3. HolderStep(c)
  BY <1>1, Returned DEF HolderStep, IInv, TypeOK
<1>4. OwnInv'
  BY <1>1, <1>3, Returned, HolderOwn DEF Journaled, Taken
<1>5. EntryInv' /\ SnapshotsHoldTheirRevision'
  BY <1>1 DEF IInv, EntryInv, SnapshotsHoldTheirRevision, startup
<1>6. FlightInv'
  <2>1. failures = 0 => Blindly(req[c])
    BY <1>1 DEF IInv, HandlerInv, WriteOf, Placed
  <2> QED
    BY <1>1, <1>3, <2>1, HolderFlight DEF Sound
<1>7. CopyInv'
  <2>1. ASSUME failures = 0 PROVE shadow = idx /\ idx = Only(disk, Langs)
    <3>1. shadow = idx /\ \A l \in Langs : idx[l] = disk[l]
      BY <1>1, <2>1, HolderCopy DEF CopyOf
    <3> QED
      BY <3>1 DEF Only, IInv, TypeOK
  <2>2. CopyOf(c)'
    BY <1>1, <2>1, Returned DEF CopyOf, Ahead
  <2> QED
    BY <2>2, <1>1, <1>3, HolderCopy
<1>8. OnceInv'
  BY <1>1, <1>3, HolderOnce DEF Taken
<1> QED
  BY <1>1, <1>2, <1>3, <1>4, <1>5, <1>6, <1>7, <1>8, Returned, HolderOthers DEF IInv

\* Once the call has taken effect its handler goes on to the next step ...
LEMMA TakenGoesOn ==
  ASSUME IInv, NEW c \in Clients, pc[c] \in Taken, NEW label \in Taken \ {"tidy"}, Goto(c, label),
         UNCHANGED <<lock, req, loc, journal, kept, startup, applied, overlapped>>,
         \A m \in DOMAIN loc[c].after : disk'[m] = disk[m],
         HolderStep(c), idem' = idem \/ (Recorded(c)' /\ Keyed(req[c])),
         TypeOK', KeyOf(c)', CopyOf(c)'
  PROVE  IInv'
<1>1. pc'[c] = label /\ pc[c] \in Held /\ pc'[c] \in Held /\ pc[c] \in Journaled /\ pc'[c] \in Journaled
  BY DEF Goto, IInv, TypeOK, Held, Journaled
<1>2. HandlerInv(c)'
  <2>1. WriteOf(c)'
    BY <1>1 DEF IInv, HandlerInv, WriteOf, Placed, LocalsOf, Held, Taken, Blindly, Keyed
  <2>2. LockOf(c)' /\ ToolOf(c)' /\ LocalsOf(c)' /\ LifecycleOf(c)'
    BY <1>1
    DEF IInv, HandlerInv, LockOf, ToolOf, LocalsOf, LifecycleOf, Held, Journaled, Taken,
        Lifecycle, LocksFirst, Keyed
  <2> QED
    BY <2>1, <2>2 DEF HandlerInv
<1>3. OwnInv'
  BY <1>1, HolderOwn DEF IInv, OwnInv
<1>4. EntryInv' /\ SnapshotsHoldTheirRevision'
  BY DEF IInv, EntryInv, SnapshotsHoldTheirRevision, startup
<1>5. FlightInv'
  BY <1>1, HolderFlight
<1>6. CopyInv'
  BY <1>1, HolderCopy
<1>7. OnceInv'
  BY <1>1, HolderOnce
<1> QED
  BY <1>2, <1>3, <1>4, <1>5, <1>6, <1>7, HolderOthers DEF IInv

\* ... or returns, after a failure or with its key recorded and its entry committed.
LEMMA TakenReturns ==
  ASSUME IInv, NEW c \in Clients, pc[c] \in Taken, NEW a \in Answers, Answer(c, a),
         UNCHANGED <<disk, shadow, plans, kept, idem, idx, startup, req, made, applied,
                     overlapped, ops, calls, edits, crashes>>,
         damaged' \in BOOLEAN, damaged => damaged',
         \/ failures' = failures + 1 /\ journal' = journal
         \/ /\ failures' = failures /\ pc[c] = "commit"
            /\ journal' = journal \ {loc[c].entry}
  PROVE  IInv'
<1>1. pc[c] \in Held /\ pc[c] \in Journaled
  BY DEF Held, Journaled
<1>2. failures' \in Nat /\ failures' >= failures /\ (failures' = 0 => failures = 0)
  BY DEF IInv, TypeOK
<1>3. TypeOK'
  BY <1>1, <1>2, Returned, FilesDiffer DEF IInv, TypeOK, startup
<1>4. HolderStep(c)
  BY <1>1, <1>2, Returned DEF HolderStep, IInv, TypeOK
<1>5. OwnInv'
  BY <1>1, <1>4, Returned, HolderOwn DEF Journaled, Taken
<1>6. EntryInv' /\ SnapshotsHoldTheirRevision'
  BY DEF IInv, EntryInv, SnapshotsHoldTheirRevision, startup
<1>7. Sound' => pc[c] = "commit" /\ failures = 0 /\ journal' = journal \ {loc[c].entry}
  BY DEF Sound, IInv, TypeOK
<1>8. FlightInv'
  BY <1>1, <1>4, <1>7, HolderFlight
<1>9. CopyInv'
  <2>1. failures' = 0 => pc[c] = "commit" /\ failures = 0
    BY DEF IInv, TypeOK
  <2>2. CopyOf(c)'
    BY <1>1, <2>1, Returned, HolderCopy DEF CopyOf, Ahead
  <2> QED
    BY <2>2, <1>1, <1>4, HolderCopy
<1>10. OnceInv'
  <2>1. Sound' => ~Keyed(req[c]) \/ Recorded(c)'
    BY <1>7 DEF IInv, HandlerInv, KeyOf, Recorded, Slot
  <2> QED
    BY <1>4, <2>1, HolderOnce
<1> QED
  BY <1>1, <1>3, <1>4, <1>5, <1>6, <1>8, <1>9, <1>10, Returned, HolderOthers DEF IInv

LEMMA TidyInv ==
  ASSUME IInv, NEW c \in Clients, Tidy(c)
  PROVE  IInv'
<1>1. /\ pc[c] = "tidy" /\ pc[c] \in Taken /\ pc[c] \in Held /\ Goto(c, "reconcile")
      /\ pc'[c] = "reconcile"
      /\ disk' = IF Gone THEN Empty ELSE disk
      /\ UNCHANGED <<shadow, plans, kept, journal, idem, idx, lock, startup, req, loc, ans,
                     made, applied, overlapped, damaged, ops, calls, edits, crashes, failures>>
  BY DEF Tidy, Taken, Held, counts, Goto, IInv, TypeOK
<1>2. Empty \in Bundles
  BY DEF Empty, Bundles, Revisions
<1>3. \A m \in Langs : disk'[m] = disk[m]
  BY <1>1 DEF Gone, Present, Empty, Files
<1>4. TypeOK'
  BY <1>1, <1>2 DEF Goto, IInv, TypeOK, Labels, startup
<1>5. HolderStep(c)
  BY <1>1 DEF HolderStep, Goto, IInv, TypeOK
<1>6. DOMAIN loc[c].after \subseteq Langs
  BY <1>1, Alone, PartialFacts DEF Locals
<1>7. KeyOf(c)'
  BY <1>1 DEF IInv, HandlerInv, KeyOf, Held, Taken, Recorded, Slot, Keyed
<1>8. CopyOf(c)'
  <2>1. Only(disk', Langs) = Only(disk, Langs)
    BY <1>3 DEF Only
  <2> QED
    BY <1>1, <2>1, HolderCopy DEF CopyOf, Ahead
<1> QED
  BY <1>1, <1>3, <1>4, <1>5, <1>6, <1>7, <1>8, TakenGoesOn DEF Taken

LEMMA TidyFailsInv ==
  ASSUME IInv, NEW c \in Clients, TidyFails(c)
  PROVE  IInv'
  BY TakenReturns DEF TidyFails, Fails, Taken, Answers, IInv, TypeOK

LEMMA ConsumeInv ==
  ASSUME IInv, NEW c \in Clients, Consume(c)
  PROVE  IInv'
<1>1. /\ pc[c] = "consume" /\ pc[c] \in Taken /\ pc[c] \in Held /\ Goto(c, "reconcile")
      /\ pc'[c] = "reconcile" /\ plans' \subseteq plans
      /\ failures' \in Nat /\ failures' >= failures
      /\ UNCHANGED <<disk, shadow, kept, journal, idem, idx, lock, startup, req, loc, ans,
                     made, applied, overlapped, damaged, ops, calls, edits, crashes>>
  BY DEF Consume, Taken, Held, Goto, Fails, IInv, TypeOK
<1>2. TypeOK'
  BY <1>1 DEF Goto, IInv, TypeOK, Labels, startup
<1>3. HolderStep(c)
  BY <1>1 DEF HolderStep, Goto, IInv, TypeOK
<1>4. KeyOf(c)'
  BY <1>1 DEF IInv, HandlerInv, KeyOf, Held, Taken, Recorded, Slot, Keyed
<1>5. failures' = 0 => failures = 0
  BY <1>1 DEF IInv, TypeOK
<1>6. CopyOf(c)'
  BY <1>1, <1>5, HolderCopy DEF CopyOf, Ahead
<1> QED
  BY <1>1, <1>2, <1>3, <1>4, <1>6, TakenGoesOn DEF Taken

\* The index and the rows become what the files are.
LEMMA ReconcileInv ==
  ASSUME IInv, NEW c \in Clients, Reconcile(c)
  PROVE  IInv'
<1>1. /\ pc[c] = "reconcile" /\ pc[c] \in Taken /\ pc[c] \in Held /\ Goto(c, "stage")
      /\ pc'[c] = "stage" /\ idx' = Derived(c, idx)
      /\ shadow' \in {shadow, Derived(c, shadow)}
      /\ failures' \in Nat /\ failures' >= failures
      /\ failures' = 0 => failures = 0 /\ shadow' = Derived(c, shadow)
      /\ UNCHANGED <<disk, plans, kept, journal, idem, lock, startup, req, loc, ans, made,
                     applied, overlapped, damaged, ops, calls, edits, crashes>>
  BY DEF Reconcile, Taken, Held, Goto, Fails, IInv, TypeOK
<1>2. ASSUME NEW b \in [Langs -> Revisions] PROVE Derived(c, b) \in [Langs -> Revisions]
  <2>1. Only(Empty, Langs) \in [Langs -> Revisions]
    BY DEF Only, Empty, Revisions, Files
  <2>2. Over(loc[c].after, b) \in [Langs -> Revisions]
    BY <1>1, Alone, OverType DEF Locals
  <2> QED
    BY <2>1, <2>2 DEF Derived
<1>3. TypeOK'
  BY <1>1, <1>2 DEF Goto, IInv, TypeOK, Labels, startup
<1>4. HolderStep(c)
  BY <1>1 DEF HolderStep, Goto, IInv, TypeOK
<1>5. KeyOf(c)'
  BY <1>1 DEF IInv, HandlerInv, KeyOf, Held, Taken, Recorded, Slot, Keyed
<1>6. CopyOf(c)'
  <2>1. ASSUME failures = 0 PROVE Derived(c, idx) = Only(disk, Langs)
    <3>1. CASE req[c].tool = "delete_bundle" /\ Gone
      BY <3>1 DEF Derived, Gone, Present, Only, Empty, Files
    <3>2. CASE ~(req[c].tool = "delete_bundle" /\ Gone)
      BY <3>2, <1>1, <2>1, HolderCopy DEF Derived, CopyOf, Ahead
    <3> QED
      BY <3>1, <3>2
  <2>2. failures = 0 => shadow = idx
    BY <1>1, HolderCopy DEF CopyOf
  <2> QED
    BY <1>1, <2>1, <2>2 DEF CopyOf, Ahead
<1> QED
  BY <1>1, <1>3, <1>4, <1>5, <1>6, TakenGoesOn DEF Taken

LEMMA StageInv ==
  ASSUME IInv, NEW c \in Clients, Stage(c)
  PROVE  IInv'
<1>1. /\ pc[c] = "stage" /\ pc[c] \in Taken /\ pc[c] \in Held /\ Goto(c, "remember")
      /\ pc'[c] = "remember" /\ loc' = loc
      /\ UNCHANGED <<disk, shadow, plans, kept, journal, idem, idx, lock, startup, req, ans,
                     made, applied, overlapped, damaged, ops, calls, edits, crashes, failures>>
  BY DEF Stage, Proceed, Taken, Held, Goto, IInv, TypeOK, counts
<1>2. TypeOK'
  BY <1>1 DEF Goto, IInv, TypeOK, Labels, startup
<1>3. HolderStep(c)
  BY <1>1 DEF HolderStep, Goto, IInv, TypeOK
<1>4. KeyOf(c)'
  BY <1>1 DEF IInv, HandlerInv, KeyOf, Held, Taken, Recorded, Slot, Keyed
<1>5. CopyOf(c)'
  BY <1>1, HolderCopy DEF CopyOf, Ahead
<1> QED
  BY <1>1, <1>2, <1>3, <1>4, <1>5, TakenGoesOn DEF Taken

LEMMA StageFailsInv ==
  ASSUME IInv, NEW c \in Clients, StageFails(c)
  PROVE  IInv'
  BY TakenReturns DEF StageFails, Fails, Taken, Answers, IInv, TypeOK

\* The answer is recorded under the caller's key.
LEMMA RememberInv ==
  ASSUME IInv, NEW c \in Clients, Remember(c)
  PROVE  IInv'
<1>1. /\ pc[c] = "remember" /\ pc[c] \in Taken /\ pc[c] \in Held /\ Goto(c, "commit")
      /\ pc'[c] = "commit"
      /\ idem' = idem \/ (Keyed(req[c]) /\ idem' = [idem EXCEPT ![Slot(c)] = req[c]])
      /\ failures' \in Nat /\ failures' >= failures
      /\ failures' = 0 => failures = 0
           /\ (Keyed(req[c]) => idem' = [idem EXCEPT ![Slot(c)] = req[c]])
      /\ UNCHANGED <<disk, shadow, plans, kept, journal, idx, lock, startup, req, loc, ans,
                     made, applied, overlapped, damaged, ops, calls, edits, crashes>>
  BY DEF Remember, Taken, Held, Goto, Fails, IInv, TypeOK
<1>2. req[c] \in Requests /\ req[c] # Unused /\ (Keyed(req[c]) => Slot(c) \in Slots)
  BY <1>1, Alone, FilesDiffer
<1>3. idem' \in [Slots -> Requests \cup {Unused}]
  <2>1. idem \in [Slots -> Requests \cup {Unused}]
    BY DEF IInv, TypeOK
  <2> QED
    BY <1>1, <1>2, <2>1
<1>4. /\ \A s \in Slots : idem'[s] # idem[s] => s = Slot(c)
      /\ idem' = idem \/ (Keyed(req[c]) /\ idem'[Slot(c)] = req[c])
      /\ failures' = 0 /\ Keyed(req[c]) => idem'[Slot(c)] = req[c]
  <2>1. idem \in [Slots -> Requests \cup {Unused}]
    BY DEF IInv, TypeOK
  <2> QED
    BY <1>1, <1>2, <2>1
<1>5. Slot(c)' = Slot(c) /\ (Keyed(req[c])' <=> Keyed(req[c]))
  BY <1>1 DEF Slot, Keyed
<1>6. idem' = idem \/ (Recorded(c)' /\ Keyed(req[c]))
  BY <1>2, <1>4, <1>5 DEF Recorded
<1>7. TypeOK'
  BY <1>1, <1>3 DEF Goto, IInv, TypeOK, Labels, startup
<1>8. HolderStep(c)
  BY <1>1, <1>4 DEF HolderStep, Goto, IInv, TypeOK
<1>9. KeyOf(c)'
  BY <1>1, <1>2, <1>4, <1>5 DEF KeyOf, Recorded, Held
<1>10. CopyOf(c)'
  BY <1>1, HolderCopy DEF CopyOf, Ahead
<1> QED
  BY <1>1, <1>6, <1>7, <1>8, <1>9, <1>10, TakenGoesOn DEF Taken

LEMMA CommitInv ==
  ASSUME IInv, NEW c \in Clients, Commit(c)
  PROVE  IInv'
<1>1. \/ failures' = failures + 1 /\ journal' = journal
      \/ failures' = failures /\ pc[c] = "commit" /\ journal' = journal \ {loc[c].entry}
  BY DEF Commit, Fails
<1> QED
  BY <1>1, TakenReturns DEF Commit, Taken, Answers, IInv, TypeOK

\* Every step of a handler that has the lock keeps the invariant.
LEMMA MutationInv ==
  ASSUME IInv, NEW c \in Clients, Mutation(c)
  PROVE  IInv'
  BY SnapshotInv, BeginInv, WriteFileInv, WriteFailsInv, UndoInv, RolledBackInv, TidyInv,
     TidyFailsInv, ConsumeInv, ReconcileInv, StageInv, StageFailsInv, RememberInv, CommitInv
  DEF Mutation

---------------------------------------------------------------------------
\* Another tool's write, with the lock free; the copies follow it.
LEMMA EditPageInv ==
  ASSUME IInv, EditPage
  PROVE  IInv'
<1>1. PICK f \in Files, v \in Revisions \ {Blank} :
        LET b == [disk EXCEPT ![f] = v]
        IN  /\ b # disk /\ (f \in Assets => Present # {})
            /\ disk' = IF \E l \in Langs : b[l] # Absent THEN b ELSE Empty
            /\ idx' = Over(Only(disk', Langs \cap {f}), idx)
            /\ shadow' = Over(Only(disk', Langs \cap {f}), shadow)
  BY DEF EditPage
<1>2. /\ phase = "up" /\ lock = NoClient /\ edits' = edits + 1
      /\ UNCHANGED <<plans, kept, journal, idem, lock, startup, pc, req, loc, ans, made,
                     applied, overlapped, damaged, ops, calls, crashes, failures>>
  BY DEF EditPage
<1>3. \A c \in Clients : pc[c] \notin Held
  BY <1>2, FilesDiffer DEF IInv, HandlerInv, LockOf
<1> DEFINE b == [disk EXCEPT ![f] = v]
<1>4. /\ b \in Bundles /\ Empty \in Bundles /\ disk' \in Bundles
      /\ \A g \in Files : b[g] = IF g = f THEN v ELSE disk[g]
  BY <1>1 DEF IInv, TypeOK, Bundles, Empty, Revisions
<1>5. disk' = IF \E l \in Langs : b[l] # Absent THEN b ELSE Empty
  BY <1>1
<1> HIDE DEF b
<1>6. Langs \cap {f} \in SUBSET Langs /\ Only(disk', Langs \cap {f}) \in Partial
  BY <1>4, OnlyType
<1>7. TypeOK'
  <2>1. idx' \in [Langs -> Revisions] /\ shadow' \in [Langs -> Revisions]
    BY <1>1, <1>6, OverType DEF IInv, TypeOK
  <2>2. edits' \in Nat
    BY <1>2 DEF IInv, TypeOK
  <2> QED
    BY <1>2, <1>4, <2>1, <2>2 DEF IInv, TypeOK, startup
<1>8. ASSUME NEW c \in Clients PROVE HandlerInv(c)'
  BY <1>2, <1>3
  DEF IInv, HandlerInv, LockOf, ToolOf, LocalsOf, LifecycleOf, WriteOf, Placed, KeyOf, Held,
      Journaled, Taken,
      Lifecycle, Recorded, Slot, LocksFirst, Blindly, Keyed
<1>9. PhaseInv' /\ EntryInv' /\ OverlapInv' /\ SnapshotsHoldTheirRevision'
  BY <1>2 DEF IInv, PhaseInv, EntryInv, OverlapInv, PastKey, Slot, SnapshotsHoldTheirRevision, startup
<1>10. OwnInv'
  BY <1>2, <1>3 DEF OwnInv, Held, Journaled
<1>11. FlightInv'
  BY <1>2 DEF IInv, FlightInv, Sound, startup
<1>12. CopyInv'
  <2> SUFFICES ASSUME failures = 0 PROVE idx' = Only(disk', Langs) /\ shadow' = idx'
    BY <1>2, <1>3 DEF CopyInv, Held, Taken, Ahead, startup
  <2>1. shadow = idx /\ idx = Only(disk, Langs)
    BY <1>2, <1>3 DEF IInv, CopyInv, Held, Taken, Ahead
  <2>2. shadow' = idx'
    BY <1>1, <2>1
  \* Without translations the bundle held none but the one removed.
  <2>3. ASSUME NEW l \in Langs, l # f PROVE disk'[l] = disk[l]
    BY <1>4, <1>5, <2>3 DEF Files, Empty
  <2>4. idx' = [l \in Langs |-> IF l \in Langs \cap {f} THEN disk'[l] ELSE idx[l]]
    BY <1>1, <2>1 DEF Over, Only
  <2>5. \A l \in Langs : idx[l] = disk[l]
    BY <2>1 DEF Only
  <2>6. \A l \in Langs : (IF l \in Langs \cap {f} THEN disk'[l] ELSE idx[l]) = disk'[l]
    BY <2>3, <2>5
  <2> QED
    BY <2>2, <2>4, <2>6 DEF Only
<1>13. OnceInv'
  BY <1>2 DEF IInv, OnceInv, Sound, Accounted, Slot, startup
<1> QED
  BY <1>7, <1>8, <1>9, <1>10, <1>11, <1>12, <1>13 DEF IInv

\* A plan or a snapshot goes.
LEMMA ExpireInv ==
  ASSUME IInv, Expire
  PROVE  IInv'
<1>1. /\ plans' \subseteq plans /\ kept' \subseteq kept
      /\ UNCHANGED <<disk, shadow, journal, idem, idx, lock, startup, pc, req, loc, ans, made,
                     applied, overlapped, damaged, ops, calls, edits, crashes, failures>>
  BY DEF Expire, ExpirePlan, ExpireSnapshot, counts
<1>2. TypeOK'
  BY <1>1 DEF IInv, TypeOK, startup
<1>3. ASSUME NEW c \in Clients PROVE HandlerInv(c)'
  BY <1>1
  DEF IInv, HandlerInv, LockOf, ToolOf, LocalsOf, LifecycleOf, WriteOf, Placed, KeyOf, Held,
      Journaled, Taken,
      Lifecycle, Recorded, Slot, LocksFirst, Blindly, Keyed
<1>4. /\ PhaseInv' /\ EntryInv' /\ OwnInv' /\ SnapshotsHoldTheirRevision'
      /\ OverlapInv'
  BY <1>1
  DEF IInv, PhaseInv, EntryInv, OwnInv, SnapshotsHoldTheirRevision, OverlapInv, PastKey, Slot, startup
<1>5. FlightInv' /\ CopyInv'
  BY <1>1 DEF IInv, FlightInv, CopyInv, Sound, Known, startup
<1>6. OnceInv'
  <2>1. \A s \in Slots : Accounted(s) => Accounted(s)'
    BY <1>1 DEF Accounted, Slot, Landed, AsBefore, AsAfter, startup
  <2> QED
    BY <1>1, <2>1 DEF IInv, OnceInv, Sound
<1> QED
  BY <1>2, <1>3, <1>4, <1>5, <1>6 DEF IInv

\* The process dies.  What it leaves is the entry of the call in flight, with its files
\* before or after the write, or the history says that recovery may be misled.
LEMMA CrashInv ==
  ASSUME IInv, Crash
  PROVE  IInv'
<1>1. /\ phase' = "down" /\ todo' = {} /\ resolved' = {} /\ landed' = {}
      /\ lock' = NoClient /\ idx' = Only(Empty, Langs) /\ crashes' = crashes + 1
      /\ pc' = [c \in Clients |-> "idle"]
      /\ loc' = [c \in Clients |-> NoLocals]
      /\ ans' = [c \in Clients |-> IF pc[c] = "idle" THEN ans[c] ELSE "lost"]
      /\ damaged' = (damaged \/ (phase = "up" /\ \E e \in journal : Outlived(e) \/ FoundThere(e)))
      /\ UNCHANGED <<disk, shadow, plans, kept, journal, idem, req, made, applied, overlapped,
                     ops, calls, edits, failures>>
  BY DEF Crash
<1>2. TypeOK'
  <2>1. idx' \in [Langs -> Revisions]
    BY <1>1 DEF Only, Empty, Revisions, Files
  <2>2. ans' \in [Clients -> Answers] /\ loc' \in [Clients -> Locals] /\ pc' \in [Clients -> Labels]
    BY <1>1, LocalsUpdate DEF IInv, TypeOK, Answers, Labels
  <2>3. damaged' \in BOOLEAN
    BY <1>1 DEF IInv, TypeOK
  <2> QED
    BY <1>1, <2>1, <2>2, <2>3 DEF IInv, TypeOK
<1>3. ASSUME NEW c \in Clients PROVE HandlerInv(c)'
  BY <1>1, FilesDiffer
  DEF HandlerInv, LockOf, ToolOf, LocalsOf, LifecycleOf, WriteOf, Placed, KeyOf, Held, Journaled,
      Taken,
      NoLocals
<1>4. /\ PhaseInv' /\ EntryInv' /\ OwnInv' /\ SnapshotsHoldTheirRevision' /\ CopyInv'
      /\ OverlapInv'
  BY <1>1
  DEF IInv, PhaseInv, EntryInv, OwnInv, SnapshotsHoldTheirRevision, CopyInv, Journaled, Taken,
      Ahead, OverlapInv, PastKey
\* The only entry is that of the handler that had the lock.
<1>5. ASSUME Sound', phase = "up", NEW e \in journal
      PROVE  /\ lock \in Clients /\ pc[lock] \in Journaled /\ e = loc[lock].entry /\ Known(e)
             /\ pc[lock] \in Taken => AsAfter(e)
  <2>1. ~Outlived(e) /\ ~FoundThere(e) /\ failures = 0
    BY <1>1, <1>5 DEF Sound
  <2>2. PICK c \in Clients : loc[c].entry = e
    BY <2>1 DEF Outlived
  <2>3. e.id # 0
    BY DEF IInv, EntryInv, TypeOK, Entries
  <2>4. pc[c] \in Journaled
    BY <2>2, <2>3 DEF IInv, HandlerInv, LocalsOf, NoEntry
  <2>5. pc[c] \in Held /\ lock = c
    BY <2>4, Alone DEF Held, Journaled
  <2>6. /\ e.client = c /\ e.req = req[c] /\ e.before = loc[c].before /\ e.after = loc[c].after
    BY <2>2, <2>4 DEF IInv, OwnInv
  <2>7. \A l \in DOMAIN loc[c].after :
          IF l \in loc[c].done THEN disk[l] = loc[c].after[l]
          ELSE disk[l] = loc[c].before[l] \/ Blindly(req[c])
    BY <2>1, <2>4, <2>5 DEF IInv, HandlerInv, WriteOf, Placed, Held, Journaled, Taken
  <2>8. Blindly(req[c]) => \A l \in DOMAIN loc[c].after : loc[c].before[l] = Absent
    BY <2>5 DEF IInv, HandlerInv, LifecycleOf, Lifecycle, Blindly
  <2>9. Blindly(req[c]) => \A l \in DOMAIN loc[c].after \ loc[c].done : disk[l] = Absent
    BY <2>1, <2>6 DEF FoundThere, Exists, Remaining, Blindly
  <2>10. Known(e)
    BY <2>6, <2>7, <2>8, <2>9 DEF Known
  <2>11. pc[c] \in Taken => AsAfter(e)
    BY <2>6, <2>7 DEF IInv, HandlerInv, LocalsOf, AsAfter
  <2> QED
    BY <2>2, <2>4, <2>5, <2>10, <2>11
<1>6. Sound' => Sound
  BY <1>1 DEF Sound
<1>7. FlightInv'
  <2> SUFFICES ASSUME Sound', NEW e \in journal PROVE Known(e) /\ \A f \in journal : f = e
    BY <1>1 DEF FlightInv, Known
  <2>1. CASE phase = "up"
    BY <2>1, <1>5
  <2>2. CASE phase # "up"
    BY <2>2, <1>6 DEF IInv, FlightInv
  <2> QED
    BY <2>1, <2>2
<1>8. OnceInv'
  <2> SUFFICES ASSUME Sound', NEW s \in Slots, s \notin overlapped, applied[s] = 1
               PROVE  Accounted(s)'
    BY <1>1, <1>6 DEF IInv, OnceInv
  <2>1. Accounted(s)
    BY <1>6 DEF IInv, OnceInv
  <2>2. CASE idem[s] # Unused
    BY <2>2, <1>1 DEF Accounted
  <2>3. ASSUME NEW c \in Clients, pc[c] \in Taken, Keyed(req[c]), Slot(c) = s,
               loc[c].before # loc[c].after
        PROVE  Accounted(s)'
    <3>1. pc[c] \in Held /\ pc[c] \in Journaled
      BY <2>3 DEF Held, Journaled
    <3>2. phase = "up" /\ lock = c /\ loc[c] \in Locals
      BY <3>1, Alone
    <3>3. PICK e \in journal :
            /\ e = loc[c].entry /\ e.client = c /\ e.req = req[c]
            /\ e.before = loc[c].before /\ e.after = loc[c].after
      BY <3>1 DEF IInv, OwnInv
    <3>4. AsAfter(e)
      BY <1>5, <2>3, <3>2, <3>3
    <3>5. DOMAIN loc[c].before = DOMAIN loc[c].after
      BY <3>1 DEF IInv, HandlerInv, LocalsOf, Held, Taken, Journaled
    <3>6. PICK l \in DOMAIN loc[c].after : loc[c].before[l] # loc[c].after[l]
      <4>1. /\ loc[c].before = [l \in DOMAIN loc[c].before |-> loc[c].before[l]]
            /\ loc[c].after = [l \in DOMAIN loc[c].after |-> loc[c].after[l]]
        BY <3>2, PartialFacts DEF Locals
      <4> QED
        BY <2>3, <3>5, <4>1
    <3>7. Landed(e)
      BY <3>3, <3>4, <3>6 DEF Landed, AsBefore, AsAfter
    <3>8. Landed(e)'
      BY <1>1, <3>7 DEF Landed, AsBefore, AsAfter
    <3>9. EntrySlot(e) = s /\ Keyed(e.req)
      BY <2>3, <3>3 DEF Slot, EntrySlot
    <3> QED
      BY <1>1, <3>3, <3>8, <3>9 DEF Accounted
  <2>4. CASE \E e \in journal : /\ phase # "up" /\ Keyed(e.req) /\ Landed(e)
                                /\ EntrySlot(e) = s
    BY <2>4, <1>1 DEF Accounted, Landed, AsBefore, AsAfter
  <2> QED
    BY <2>1, <2>2, <2>3, <2>4 DEF Accounted
<1> QED
  BY <1>2, <1>3, <1>4, <1>7, <1>8 DEF IInv

---------------------------------------------------------------------------
\* Startup: no handler runs, and the entries are as they were.
LEMMA StartupOthers ==
  ASSUME IInv, StartupFrame, phase # "up"
  PROVE  /\ \A c \in Clients : pc'[c] = "idle" /\ pc[c] = "idle" /\ HandlerInv(c)'
         /\ OwnInv' /\ OverlapInv' /\ SnapshotsHoldTheirRevision'
<1>1. UNCHANGED <<plans, kept, lock, pc, req, loc, ans, made, applied, overlapped, ops, calls,
                  edits, crashes>>
  BY DEF StartupFrame
<1>2. ASSUME NEW c \in Clients PROVE pc'[c] = "idle" /\ pc[c] = "idle" /\ HandlerInv(c)'
  BY <1>1
  DEF IInv, PhaseInv, HandlerInv, LockOf, ToolOf, LocalsOf, LifecycleOf, WriteOf, Placed, KeyOf,
      Held, Journaled, Taken
<1> QED
  BY <1>1, <1>2
  DEF IInv, OwnInv, OverlapInv, PastKey, SnapshotsHoldTheirRevision, Journaled, Taken

\* What an effect is accounted by when no handler runs.
Awaits(s, e) ==
  /\ e \in journal /\ phase # "up" /\ Keyed(e.req)
  /\ EntrySlot(e) = s /\ Landed(e)
  /\ phase = "prepare" => e \in todo \cup landed
  /\ phase = "sync" => e \in landed
  /\ phase = "commit" => e \in todo \cap landed
LEMMA StartupOnce ==
  ASSUME IInv, StartupFrame, phase # "up", Sound' => Sound,
         ASSUME Sound, Sound', NEW s \in Slots, NEW e, Awaits(s, e)
         PROVE  idem'[s] # Unused \/ Awaits(s, e)',
         Sound' => \A s \in Slots : idem[s] # Unused => idem'[s] # Unused
  PROVE  OnceInv'
<1> SUFFICES ASSUME Sound', Sound, NEW s \in Slots, s \notin overlapped, applied[s] = 1
             PROVE  Accounted(s)'
  BY DEF OnceInv, IInv, StartupFrame
<1>1. \A c \in Clients : pc[c] \notin Taken
  BY DEF IInv, PhaseInv, Taken
<1>2. Accounted(s)
  BY DEF IInv, OnceInv
<1>3. CASE idem[s] # Unused
  BY <1>3 DEF Accounted
<1>4. ASSUME NEW e, Awaits(s, e) PROVE Accounted(s)'
  BY <1>4 DEF Accounted, Awaits
<1> QED
  BY <1>1, <1>2, <1>3, <1>4 DEF Accounted, Awaits

\* The content tree is read and the journal is listed.
LEMMA BootIndexInv ==
  ASSUME IInv, BootIndex
  PROVE  IInv'
<1>1. /\ phase = "down" /\ phase' = "prepare" /\ todo' = journal /\ idx' = Only(disk, Langs)
      /\ UNCHANGED <<disk, shadow, journal, idem, resolved, landed, damaged, failures>>
      /\ StartupFrame
  BY DEF BootIndex
<1>2. TypeOK'
  BY <1>1, OnlyType DEF IInv, TypeOK, StartupFrame
<1>3. PhaseInv' /\ EntryInv'
  BY <1>1, StartupOthers DEF IInv, PhaseInv, EntryInv
<1>4. FlightInv'
  BY <1>1 DEF IInv, FlightInv, Sound, Known
<1>5. CopyInv'
  BY <1>1, StartupOthers DEF CopyInv, Ahead
<1>6. OnceInv'
  BY <1>1, StartupOnce DEF Sound, Awaits, Landed, AsBefore, AsAfter
<1> QED
  BY <1>1, <1>2, <1>3, <1>4, <1>5, <1>6, StartupOthers DEF IInv

\* An entry is found with its files in one of the two states: it is the only one, and
\* a landed one stays landed when its directory is swept.
LEMMA PrepareEntryInv ==
  ASSUME IInv, NEW e \in todo, PrepareEntry(e)
  PROVE  IInv'
<1>1. /\ phase = "prepare" /\ ~Torn(e) /\ todo' = todo \ {e}
      /\ \/ /\ resolved' = IF Resolves(e) THEN resolved \cup {e} ELSE resolved
            /\ landed' = IF Landed(e) THEN landed \cup {e} ELSE landed
            /\ disk' = IF Sweeps(e) THEN Empty ELSE disk
            /\ UNCHANGED <<damaged, failures>>
         \/ Sweeps(e) /\ Fails /\ damaged' = TRUE /\ UNCHANGED <<resolved, landed, disk>>
      /\ UNCHANGED <<shadow, journal, idem, idx, phase>> /\ StartupFrame
  BY DEF PrepareEntry
<1>2. Empty \in Bundles /\ e \in Entries /\ e \in journal
  BY <1>1 DEF Empty, Bundles, Revisions, IInv, TypeOK, PhaseInv
<1>3. Landed(e) => Known(e)
  BY DEF Landed, AsAfter, Known
<1>4. /\ failures' \in Nat /\ damaged' \in BOOLEAN
      /\ resolved' \in {resolved, resolved \cup {e}} /\ landed' \in {landed, landed \cup {e}}
      /\ landed' \subseteq resolved' /\ disk' \in {disk, Empty}
  <2>1. landed \subseteq resolved
    BY DEF IInv, PhaseInv
  <2>2. failures \in Nat /\ damaged \in BOOLEAN
    BY DEF IInv, TypeOK
  <2>3. CASE Sweeps(e) /\ Fails /\ damaged' = TRUE /\ UNCHANGED <<resolved, landed, disk>>
    BY <2>1, <2>2, <2>3 DEF Fails
  <2>4. CASE /\ resolved' = IF Resolves(e) THEN resolved \cup {e} ELSE resolved
             /\ landed' = IF Landed(e) THEN landed \cup {e} ELSE landed
             /\ disk' = IF Sweeps(e) THEN Empty ELSE disk
             /\ UNCHANGED <<damaged, failures>>
    BY <2>1, <2>2, <2>4, <1>3 DEF Resolves
  <2> QED
    BY <2>3, <2>4, <1>1
<1>5. TypeOK'
  BY <1>1, <1>2, <1>4 DEF IInv, TypeOK, StartupFrame
<1>6. PhaseInv' /\ EntryInv'
  BY <1>1, <1>2, <1>4, StartupOthers DEF IInv, PhaseInv, EntryInv
<1>7. Sound' => /\ Sound /\ Known(e)
                /\ resolved' = resolved \cup {e}
                /\ landed' = IF Landed(e) THEN landed \cup {e} ELSE landed
                /\ disk' = IF Sweeps(e) THEN Empty ELSE disk
  <2>1. Sound' => ~(damaged' = TRUE)
    BY DEF Sound
  <2>2. Sound' => /\ UNCHANGED <<damaged, failures>>
                  /\ resolved' = IF Resolves(e) THEN resolved \cup {e} ELSE resolved
                  /\ landed' = IF Landed(e) THEN landed \cup {e} ELSE landed
                  /\ disk' = IF Sweeps(e) THEN Empty ELSE disk
    BY <1>1, <2>1
  <2>3. Sound' => Sound
    BY <2>2 DEF Sound
  <2>4. Sound => Known(e)
    BY <1>1, <1>2 DEF IInv, FlightInv
  <2> QED
    BY <2>2, <2>3, <2>4 DEF Resolves
\* Sweeping removes nothing the delete had not.
<1>8. Sweeps(e) => /\ \A l \in DOMAIN e.after : l \in Files /\ Empty[l] = e.after[l] /\ disk[l] = e.after[l]
  <2>1. DOMAIN e.after \subseteq Langs
    BY <1>2, PartialFacts DEF Entries
  <2> QED
    BY <1>2, <2>1 DEF Sweeps, Landed, AsAfter, IInv, EntryInv, Empty, Files
<1>9. FlightInv'
  <2> SUFFICES ASSUME Sound', NEW f \in journal
               PROVE  Known(f)' /\ (\A g \in journal : g = f) /\ f \in todo' \cup resolved'
    BY <1>1 DEF FlightInv
  <2>1. Known(f) /\ (\A g \in journal : g = f)
    BY <1>1, <1>7 DEF IInv, FlightInv
  <2>2. f = e
    BY <1>2, <2>1
  <2>3. Known(f)'
    BY <2>1, <2>2, <1>7, <1>8 DEF Known
  <2> QED
    BY <2>1, <2>2, <2>3, <1>7
<1>10. CopyInv'
  BY <1>1, StartupOthers DEF CopyInv, Ahead
<1>11. OnceInv'
  <2>1. ASSUME Sound, Sound', NEW s \in Slots, NEW f, Awaits(s, f) PROVE Awaits(s, f)'
    <3>1. f = e /\ Landed(e)
      BY <1>1, <1>2, <2>1 DEF Awaits, IInv, FlightInv
    <3>2. AsAfter(f)' /\ ~AsBefore(f)'
      BY <1>7, <1>8, <2>1, <3>1 DEF AsAfter, AsBefore, Landed
    <3> QED
      BY <1>1, <1>7, <2>1, <3>1, <3>2 DEF Awaits, Landed
  <2> QED
    BY <1>1, <1>7, <2>1, StartupOnce
<1> QED
  BY <1>1, <1>5, <1>6, <1>9, <1>10, <1>11, StartupOthers DEF IInv

\* A torn bundle is put back, file by file.
LEMMA RestoreFileInv ==
  ASSUME IInv, NEW e \in todo, RestoreFile(e)
  PROVE  IInv'
<1>1. /\ phase = "prepare" /\ Torn(e)
      /\ \/ /\ \E l \in DOMAIN e.before :
                 disk[l] # e.before[l] /\ disk' = [disk EXCEPT ![l] = e.before[l]]
            /\ UNCHANGED <<todo, damaged, failures>>
         \/ todo' = todo \ {e} /\ Fails /\ damaged' = TRUE /\ UNCHANGED disk
      /\ UNCHANGED <<shadow, journal, idem, idx, phase, resolved, landed>> /\ StartupFrame
  BY DEF RestoreFile
<1>2. /\ e \in Entries /\ e \in journal /\ e.before \in Partial /\ DOMAIN e.before = DOMAIN e.after
  BY <1>1 DEF IInv, TypeOK, PhaseInv, EntryInv, Entries
<1>3. /\ failures' \in Nat /\ damaged' \in BOOLEAN /\ todo' \subseteq todo
  <2>1. failures \in Nat /\ damaged \in BOOLEAN
    BY DEF IInv, TypeOK
  <2>2. todo' = todo \/ todo' = todo \ {e}
    BY <1>1
  <2>3. damaged' = TRUE \/ damaged' = damaged
    BY <1>1
  <2>4. failures' = failures \/ failures' = failures + 1
    BY <1>1 DEF Fails
  <2>5. damaged' \in BOOLEAN
    BY <2>1, <2>3
  <2>6. failures' \in Nat
    BY <2>1, <2>4
  <2> QED
    BY <2>2, <2>5, <2>6
<1>4. disk' \in Bundles
  <2>1. ASSUME NEW l \in DOMAIN e.before PROVE [disk EXCEPT ![l] = e.before[l]] \in Bundles
    <3>1. l \in Files /\ e.before[l] \in Revisions
      BY <1>2, PartialFacts DEF Files
    <3> QED
      BY <3>1 DEF IInv, TypeOK, Bundles
  <2> QED
    BY <1>1, <2>1 DEF IInv, TypeOK
<1>5. TypeOK'
  BY <1>1, <1>3, <1>4 DEF IInv, TypeOK, StartupFrame
<1>6. PhaseInv' /\ EntryInv'
  BY <1>1, <1>3, StartupOthers DEF IInv, PhaseInv, EntryInv
<1>7. Sound' => /\ Sound /\ todo' = todo
                /\ \E l \in DOMAIN e.before :
                     disk[l] # e.before[l] /\ disk' = [disk EXCEPT ![l] = e.before[l]]
  <2>1. Sound' => ~(damaged' = TRUE)
    BY DEF Sound
  <2> QED
    BY <1>1, <2>1 DEF Sound
<1>8. FlightInv'
  <2> SUFFICES ASSUME Sound', NEW f \in journal
               PROVE  Known(f)' /\ (\A g \in journal : g = f) /\ f \in todo' \cup resolved'
    BY <1>1 DEF FlightInv
  <2>1. Known(f) /\ (\A g \in journal : g = f) /\ f \in todo \cup resolved
    BY <1>1, <1>7 DEF IInv, FlightInv
  <2>2. f = e
    BY <1>2, <2>1
  <2>3. PICK l \in DOMAIN e.before : disk' = [disk EXCEPT ![l] = e.before[l]]
    BY <1>7
  <2>4. \A m \in DOMAIN e.after : disk'[m] = disk[m] \/ disk'[m] = e.before[m]
    <3>1. \A m \in DOMAIN e.after : m \in Files
      BY <1>2, PartialFacts DEF Files
    <3> QED
      BY <2>3, <3>1 DEF IInv, TypeOK, Bundles
  <2>5. Known(f)'
    BY <2>1, <2>2, <2>4 DEF Known
  <2> QED
    BY <2>1, <2>5, <1>1, <1>7
<1>9. CopyInv'
  BY <1>1, StartupOthers DEF CopyInv, Ahead
<1>10. OnceInv'
  <2>1. ASSUME Sound, NEW s \in Slots, NEW f, Awaits(s, f) PROVE FALSE
    BY <1>1, <1>2, <2>1 DEF Awaits, IInv, FlightInv, Landed, Torn
  <2> QED
    BY <1>1, <1>7, <2>1, StartupOnce
<1> QED
  BY <1>1, <1>5, <1>6, <1>8, <1>9, <1>10, StartupOthers DEF IInv

\* The index is read again, then the rows are; when a read fails the server serves.
LEMMA PrepareDoneInv ==
  ASSUME IInv, PrepareDone
  PROVE  IInv'
<1>1. /\ phase = "prepare" /\ todo = {}
      /\ \/ /\ phase' = "sync" /\ UNCHANGED <<resolved, landed, failures>>
            /\ idx' = Only(disk, Langs) \/ (damaged /\ failures > 0 /\ UNCHANGED idx)
         \/ /\ phase' = "up" /\ resolved' = {} /\ landed' = {}
            /\ Fails /\ UNCHANGED idx
      /\ UNCHANGED <<disk, shadow, journal, idem, todo, damaged>> /\ StartupFrame
  BY DEF PrepareDone
<1>2. failures' \in Nat /\ (failures' = 0 => failures = 0 /\ phase' = "sync" /\ idx' = Only(disk, Langs))
  BY <1>1 DEF Fails, IInv, TypeOK
<1>3. Sound' => Sound /\ phase' = "sync" /\ UNCHANGED <<resolved, landed>>
  BY <1>1, <1>2 DEF Sound
<1>4. TypeOK'
  <2>1. idx' \in [Langs -> Revisions]
    BY <1>1, OnlyType DEF IInv, TypeOK
  <2> QED
    BY <1>1, <1>2, <2>1 DEF IInv, TypeOK, StartupFrame
<1>5. PhaseInv' /\ EntryInv'
  BY <1>1, StartupOthers DEF IInv, PhaseInv, EntryInv
<1>6. FlightInv'
  BY <1>1, <1>3 DEF IInv, FlightInv, Known
<1>7. CopyInv'
  BY <1>1, <1>2, StartupOthers DEF CopyInv, Ahead
<1>8. OnceInv'
  BY <1>1, <1>3, StartupOnce DEF Awaits, Landed, AsBefore, AsAfter
<1> QED
  BY <1>1, <1>4, <1>5, <1>6, <1>7, <1>8, StartupOthers DEF IInv

LEMMA StartupSyncInv ==
  ASSUME IInv, StartupSync
  PROVE  IInv'
<1>1. /\ phase = "sync"
      /\ \/ /\ phase' = "commit" /\ todo' = resolved /\ shadow' = idx
            /\ UNCHANGED <<resolved, landed, failures>>
         \/ /\ phase' = "up" /\ todo' = {} /\ resolved' = {} /\ landed' = {}
            /\ Fails /\ UNCHANGED shadow
      /\ UNCHANGED <<disk, journal, idem, idx, damaged>> /\ StartupFrame
  BY DEF StartupSync
<1>2. failures' \in Nat /\ (failures' = 0 => failures = 0 /\ phase' = "commit" /\ shadow' = idx)
  BY <1>1 DEF Fails, IInv, TypeOK
<1>3. Sound' => Sound /\ phase' = "commit" /\ todo' = resolved /\ landed' = landed
  BY <1>1, <1>2 DEF Sound
<1>4. TypeOK'
  BY <1>1, <1>2 DEF IInv, TypeOK, StartupFrame
<1>5. PhaseInv' /\ EntryInv'
  BY <1>1, StartupOthers DEF IInv, PhaseInv, EntryInv
<1>6. FlightInv'
  BY <1>1, <1>3 DEF IInv, FlightInv, Known
<1>7. CopyInv'
  BY <1>1, <1>2, StartupOthers DEF IInv, CopyInv, Ahead
<1>8. OnceInv'
  BY <1>1, <1>3, StartupOnce DEF Awaits, Landed, AsBefore, AsAfter, IInv, PhaseInv
<1> QED
  BY <1>1, <1>4, <1>5, <1>6, <1>7, <1>8, StartupOthers DEF IInv

\* A landed keyed call is recorded, and its entry leaves the journal.
LEMMA ReconcileEntryInv ==
  ASSUME IInv, NEW e \in todo, ReconcileEntry(e)
  PROVE  IInv'
<1>1. /\ phase = "commit" /\ todo' = todo \ {e}
      /\ \/ idem' = RecordLanded(e) /\ journal' = journal \ {e} /\ UNCHANGED failures
         \/ idem' \in {idem, RecordLanded(e)} /\ Fails /\ UNCHANGED journal
      /\ UNCHANGED <<disk, shadow, idx, phase, resolved, landed, damaged>> /\ StartupFrame
  BY DEF ReconcileEntry
<1>2. /\ e \in Entries /\ e \in journal /\ e.req \in Requests /\ e.req # Unused
      /\ Keyed(e.req) => EntrySlot(e) \in Slots
  BY <1>1, FilesDiffer, CallsHaveCallers
  DEF IInv, TypeOK, PhaseInv, EntryInv, Entries, Slots, Requests, Keyed, EntrySlot
<1>3. idem \in [Slots -> Requests \cup {Unused}]
  BY DEF IInv, TypeOK
<1>4. /\ RecordLanded(e) \in [Slots -> Requests \cup {Unused}]
      /\ \A s \in Slots : idem[s] # Unused => RecordLanded(e)[s] # Unused
      /\ e \in landed /\ Keyed(e.req) => RecordLanded(e)[EntrySlot(e)] # Unused
  BY <1>2, <1>3 DEF RecordLanded, EntrySlot
<1>5. failures' \in Nat /\ (failures' = 0 => failures = 0 /\ idem' = RecordLanded(e) /\ journal' = journal \ {e})
  BY <1>1 DEF Fails, IInv, TypeOK
<1>6. Sound' => Sound /\ idem' = RecordLanded(e) /\ journal' = journal \ {e}
  BY <1>1, <1>5 DEF Sound
<1>7. TypeOK'
  <2>1. journal' \subseteq journal /\ idem' \in {idem, RecordLanded(e)}
    BY <1>1
  <2> QED
    BY <1>1, <1>3, <1>4, <1>5, <2>1 DEF IInv, TypeOK, StartupFrame
<1>8. PhaseInv' /\ EntryInv'
  BY <1>1, StartupOthers DEF IInv, PhaseInv, EntryInv
<1>9. FlightInv'
  BY <1>1, <1>6 DEF IInv, FlightInv, Known
<1>10. CopyInv'
  BY <1>1, <1>5, StartupOthers DEF IInv, CopyInv, Ahead
<1>11. OnceInv'
  <2>1. ASSUME Sound, Sound', NEW s \in Slots, NEW f, Awaits(s, f)
        PROVE  idem'[s] # Unused
    <3>1. f = e /\ f \in landed /\ Keyed(f.req) /\ EntrySlot(f) = s
      BY <1>1, <1>2, <2>1 DEF Awaits, IInv, FlightInv
    <3> QED
      BY <1>4, <1>6, <2>1, <3>1
  <2> QED
    BY <1>1, <1>4, <1>6, <2>1, StartupOnce
<1> QED
  BY <1>1, <1>7, <1>8, <1>9, <1>10, <1>11, StartupOthers DEF IInv

\* The server serves: nothing is pending any more.
LEMMA BootDoneInv ==
  ASSUME IInv, BootDone
  PROVE  IInv'
<1>1. /\ phase = "commit" /\ todo = {} /\ phase' = "up" /\ resolved' = {} /\ landed' = {}
      /\ UNCHANGED <<disk, shadow, journal, idem, idx, todo, damaged, failures>> /\ StartupFrame
  BY DEF BootDone
<1>2. TypeOK'
  BY <1>1 DEF IInv, TypeOK, StartupFrame
<1>3. PhaseInv' /\ EntryInv'
  BY <1>1, StartupOthers DEF IInv, PhaseInv, EntryInv
<1>4. Sound' => Sound /\ journal = {}
  BY <1>1 DEF IInv, FlightInv, Sound
<1>5. FlightInv'
  BY <1>1, <1>4 DEF FlightInv
<1>6. CopyInv'
  BY <1>1, StartupOthers DEF IInv, CopyInv, Ahead
<1>7. OnceInv'
  BY <1>1, <1>4, StartupOnce DEF Awaits
<1> QED
  BY <1>1, <1>2, <1>3, <1>5, <1>6, <1>7, StartupOthers DEF IInv

\* The invariant holds at the start,
LEMMA InitInv == ASSUME Init PROVE IInv
<1>1. disk \in Bundles /\ Only(disk, Langs) \in [Langs -> Revisions]
  BY AsksAreValid, OnlyType DEF Init
<1>2. TypeOK
  BY <1>1, LocalsUpdate DEF Init, TypeOK, Labels, Answers
<1>3. ASSUME NEW c \in Clients PROVE HandlerInv(c)
  BY FilesDiffer
  DEF Init, NoLocals, HandlerInv, LockOf, ToolOf, LocalsOf, LifecycleOf, WriteOf, Placed, KeyOf,
      Held, Journaled, Taken
<1>4. PhaseInv /\ EntryInv /\ FlightInv /\ SnapshotsHoldTheirRevision
  BY DEF Init, PhaseInv, EntryInv, FlightInv, SnapshotsHoldTheirRevision
<1>5. OwnInv /\ CopyInv /\ OverlapInv
  BY DEF Init, OwnInv, CopyInv, OverlapInv, PastKey, Journaled, Taken, Ahead
<1>6. OnceInv
  BY DEF Init, OnceInv
<1> QED
  BY <1>2, <1>3, <1>4, <1>5, <1>6 DEF IInv

\* a step that changes nothing keeps it,
LEMMA StutterInv == ASSUME IInv, UNCHANGED vars PROVE IInv'
<1>1. ASSUME NEW c \in Clients PROVE HandlerInv(c)'
  BY DEF vars, startup, counts, IInv, Lifecycle, LocksFirst, Keyed, Blindly, Recorded, Slot,
     HandlerInv, LockOf, ToolOf, LocalsOf, LifecycleOf, WriteOf, Placed, KeyOf, Held, Journaled, Taken
<1>2. /\ TypeOK' /\ PhaseInv' /\ OwnInv' /\ EntryInv' /\ CopyInv' /\ SnapshotsHoldTheirRevision'
      /\ OverlapInv'
  BY DEF vars, startup, counts, IInv, TypeOK, PhaseInv, OwnInv, EntryInv, CopyInv,
         SnapshotsHoldTheirRevision, OverlapInv, PastKey, Slot, Keyed, Lifecycle
<1>3. FlightInv'
  BY DEF vars, startup, counts, IInv, FlightInv, Sound, Known
<1>4. OnceInv'
  <2>1. \A s \in Slots : Accounted(s) => Accounted(s)'
    BY DEF vars, startup, counts, Accounted, Slot, Landed, AsBefore, AsAfter
  <2> QED
    BY <2>1 DEF vars, counts, IInv, OnceInv, Sound
<1> QED
  BY <1>1, <1>2, <1>3, <1>4 DEF IInv

\* and so does every step.
LEMMA NextInv == ASSUME IInv, [Next]_vars PROVE IInv'
<1>1. CASE Startup
  BY <1>1, BootIndexInv, PrepareDoneInv, StartupSyncInv, BootDoneInv, PrepareEntryInv,
     RestoreFileInv, ReconcileEntryInv DEF Startup
<1>2. CASE \E c \in Clients : Admission(c) \/ Mutation(c)
  BY <1>2, AdmissionInv, MutationInv
<1>3. CASE Rest
  BY <1>3, StutterInv DEF Rest
<1> QED
  BY <1>1, <1>2, <1>3, CrashInv, ExpireInv, EditPageInv, StutterInv DEF Next

\* The inductive invariant: locks, entries, files and copies stand to one another as the
\* code of the bundle calls and of the start supposes.
THEOREM BundleInvariant == Spec => []IInv
<1>1. Init => IInv
  BY InitInv
<1>2. IInv /\ [Next]_vars => IInv'
  BY NextInv
<1> QED
  BY <1>1, <1>2, PTL DEF Spec

\* As long as nothing has failed or misled recovery, a keyed call changes the bundle at
\* most once, for any number of calls open at a time, retries and crashes; an apply or a
\* rollback unless two open calls have both found its key unused.
THEOREM BundleCallsExactlyOnce == Spec => []ExactlyOnce
<1>1. IInv => ExactlyOnce
  BY DEF IInv, OnceInv, Sound, ExactlyOnce
<1> QED
  BY <1>1, BundleInvariant, PTL

\* The index and the rows agree with the files whenever the lock is free, a snapshot holds
\* what the bundle held, and a pending entry is that of the call in flight.
THEOREM BundleRecordsAgree == Spec => []RecordsAgree
<1>1. ASSUME IInv PROVE RecordsAgree
  <2>1. ASSUME phase = "up", lock = NoClient, failures = 0
        PROVE  idx = Only(disk, Langs) /\ shadow = Only(disk, Langs)
    <3>1. \A c \in Clients : pc[c] \notin Held
      BY <1>1, <2>1, FilesDiffer DEF IInv, HandlerInv, LockOf
    <3> QED
      BY <1>1, <2>1, <3>1 DEF IInv, CopyInv, Held, Taken, Ahead
  <2>2. PendingMeansInFlight
    BY <1>1 DEF IInv, FlightInv, Sound, PendingMeansInFlight, Blindly
  <2> QED
    BY <1>1, <2>1, <2>2 DEF RecordsAgree, CopiesAgreeWithSource, IInv
<1> QED
  BY <1>1, BundleInvariant, PTL

---------------------------------------------------------------------------
(* BundleMutation implements BundleService: RInv holds besides IInv, and   *)
(* under both every step is one of the service or invisible.               *)

\* Before it has begun a handler leaves the files, the journal and the others alone;
LEMMA AdmissionIsQuiet ==
  ASSUME IInv, NEW c \in Clients, Admission(c)
  PROVE  QuietStep(c)
<1>1. ASSUME NEW a, AnswerOnly(c, a), pc[c] # "idle", pc[c] \notin Journaled PROVE QuietStep(c)
  BY <1>1, Running DEF AnswerOnly, Answer, Goto, QuietStep, counts, IInv, TypeOK, Journaled, Taken
<1>2. ASSUME NEW a, NEW label, label \notin Journaled, Proceed(c, label, a),
             pc[c] # "idle", pc[c] \notin Journaled
      PROVE  QuietStep(c)
  BY <1>2, Running DEF Proceed, Goto, QuietStep, counts, IInv, TypeOK
<1>3. pc[c] \in {"idle", "read", "admit", "lock", "check", "snapshot", "begin"} =>
        pc[c] \notin Journaled
  BY DEF Journaled, Taken
<1>4. \A label \in {"read", "admit", "lock", "check", "snapshot", "begin"} : label \notin Journaled
  BY DEF Journaled, Taken
<1>5. CASE Submit(c)
  BY <1>5, <1>3, <1>4 DEF Submit, Goto, QuietStep, counts, IInv, TypeOK
<1>6. CASE PlanMake(c)
  BY <1>6, <1>3, <1>4, Running
  DEF PlanMake, Answer, Goto, QuietStep, counts, IInv, TypeOK, Journaled, Taken
<1>7. CASE AcquireLock(c)
  BY <1>7, <1>3, <1>4, Running DEF AcquireLock, Goto, QuietStep, counts, IInv, TypeOK
<1>8. CASE PlanRead(c) \/ Replay(c) \/ Refuse(c) \/ LockTimeout(c)
  BY <1>8, <1>1, <1>2, <1>3, <1>4 DEF PlanRead, Replay, ConsultsKey, Refuse, LockTimeout
<1>11. ASSUME NEW a, Wait(c, a), pc[c] # "idle", pc[c] \notin Journaled PROVE QuietStep(c)
  BY <1>4, <1>11, Running DEF Wait, Goto, QuietStep, counts, IInv, TypeOK
<1>9. CASE ApplyAdmit(c) \/ RollbackAdmit(c) \/ ApplyCheck(c) \/ RollbackCheck(c) \/ DeleteCheck(c)
  BY <1>9, <1>1, <1>2, <1>3, <1>4, <1>11
  DEF ApplyAdmit, RollbackAdmit, ApplyCheck, RollbackCheck, DeleteCheck
<1>10. CASE CreateAdmit(c) \/ DeleteAdmit(c)
  BY <1>10, <1>1, <1>2, <1>3, <1>4 DEF CreateAdmit, DeleteAdmit, AfterAdmit
<1> QED
  BY <1>5, <1>6, <1>7, <1>8, <1>9, <1>10 DEF Admission

\* afterwards it holds the lock.
LEMMA MutationIsHeld ==
  ASSUME IInv, NEW c \in Clients, Mutation(c)
  PROVE  /\ pc[c] \in Held
         /\ \A d \in Clients \ {c} : pc'[d] = pc[d] /\ loc'[d] = loc[d]
         /\ UNCHANGED <<req, startup>>
<1>1. /\ "snapshot" \in Held /\ "begin" \in Held /\ "write" \in Held /\ "undo" \in Held
      /\ Taken \subseteq Held
  BY DEF Held
<1>2. CASE Snapshot(c) \/ Begin(c) \/ WriteFails(c) \/ Undo(c)
  BY <1>1, <1>2 DEF Snapshot, Begin, WriteFails, Undo, Goto, IInv, TypeOK
<1>3. CASE WriteFile(c)
  BY <1>1, <1>3 DEF WriteFile, Goto, IInv, TypeOK, counts
<1>4. CASE RolledBack(c)
  BY <1>1, <1>4 DEF RolledBack, AnswerOnly, Answer, Goto, IInv, TypeOK, counts
<1>5. CASE Tidy(c) \/ Consume(c) \/ Reconcile(c) \/ Remember(c)
  BY <1>1, <1>5 DEF Tidy, Consume, Reconcile, Remember, Goto, IInv, TypeOK, counts, Taken
<1>6. CASE Stage(c)
  BY <1>1, <1>6 DEF Stage, Proceed, Goto, IInv, TypeOK, counts, Taken
<1>7. CASE TidyFails(c) \/ StageFails(c) \/ Commit(c)
  BY <1>1, <1>7 DEF TidyFails, StageFails, Commit, Answer, Goto, IInv, TypeOK, counts, Taken
<1> QED
  BY <1>2, <1>3, <1>4, <1>5, <1>6, <1>7 DEF Mutation

\* What RInv says of one handler, and how a step leaves it for the others.
HandlerR(c) == ClaimOf(c) /\ BaseOf(c) /\ SweepOf(c)
LEMMA OthersR ==
  ASSUME IInv, RInv, NEW c \in Clients, NEW d \in Clients \ {c},
         pc'[d] = pc[d], req'[d] = req[d], loc'[d] = loc[d],
         UNCHANGED <<disk, damaged>> \/ pc[c] \in Held
  PROVE  HandlerR(d)'
<1>1. HandlerR(d)
  BY DEF RInv, HandlerR
<1>2. ClaimOf(d)'
  BY <1>1 DEF HandlerR, ClaimOf, Keyed
<1>3. CASE UNCHANGED <<disk, damaged>>
  BY <1>1, <1>2, <1>3 DEF HandlerR, BaseOf, SweepOf, Seen, Placed, Blindly, Keyed
<1>4. CASE pc[c] \in Held
  <2>1. pc'[d] \notin Held
    BY <1>4, Alone
  <2> QED
    BY <1>2, <2>1 DEF HandlerR, BaseOf, SweepOf, Held, Journaled, Taken
<1> QED
  BY <1>3, <1>4

\* A step that leaves the files and the others alone asks only about the handler itself.
LEMMA QuietR ==
  ASSUME IInv, RInv, NEW c \in Clients, QuietStep(c), HandlerR(c)'
  PROVE  RInv'
<1>1. phase' = "up"
  BY DEF QuietStep, startup
<1>2. TornInv'
  BY <1>1 DEF TornInv
<1>3. ASSUME NEW d \in Clients PROVE HandlerR(d)'
  <2>1. CASE d # c
    BY <2>1, OthersR DEF QuietStep
  <2> QED
    BY <2>1
<1> QED
  BY <1>2, <1>3 DEF RInv, HandlerR

\* Of a handler that has returned or not begun RInv says nothing.
LEMMA IdleR ==
  ASSUME NEW c, pc'[c] \in {"idle", "admit"}
  PROVE  HandlerR(c)'
  BY DEF HandlerR, ClaimOf, BaseOf, SweepOf, Held, Journaled, Taken

\* Before anything is written the callers see the files.
LEMMA SeenFirst ==
  ASSUME NEW b \in Bundles, NEW w
  PROVE  Over(Only(w, {}), b) = b
<1>1. DOMAIN Only(w, {}) = {}
  BY DEF Only
<1> QED
  BY <1>1 DEF Over, Bundles

\* A handler comes to its first write with what its request asks for.
LEMMA AdmissionR ==
  ASSUME IInv, RInv, IInv', NEW c \in Clients, Admission(c)
  PROVE  RInv'
<1>1. QuietStep(c) /\ TypeOK /\ HandlerR(c) /\ HandlerInv(c)
  BY AdmissionIsQuiet DEF IInv, RInv, HandlerR
<1>2. ASSUME NEW a, AnswerOnly(c, a) PROVE HandlerR(c)'
  BY <1>1, <1>2, IdleR DEF AnswerOnly, Answer, Goto, TypeOK
<1>3. ASSUME NEW label, NEW l, Proceed(c, label, l)
      PROVE  pc'[c] = label /\ loc'[c] = l /\ req' = req /\ disk' = disk /\ damaged' = damaged /\ lock' = lock
  BY <1>1, <1>3 DEF Proceed, Goto, TypeOK, counts
<1>16. ASSUME NEW l, Wait(c, l)
       PROVE  pc'[c] = "lock" /\ loc'[c] = l /\ req' = req /\ disk' = disk /\ damaged' = damaged /\ lock' = lock
  BY <1>1, <1>16 DEF Wait, Goto, TypeOK, counts
<1>4. CASE Submit(c)
  <2>1. /\ pc'[c] \in {"read", "lock", "admit"} /\ (pc'[c] = "lock" => LocksFirst(req'[c]))
        /\ pc'[c] = "read" => req'[c].tool \notin Mutating
    BY <1>1, <1>4 DEF Submit, Goto, TypeOK
  <2>2. pc'[c] = "read" => req'[c].tool = "plan_bundle_change"
    BY <2>1 DEF IInv, HandlerInv, ToolOf, Requests, Tools
  <2>3. HandlerR(c)'
    BY <2>1, <2>2
    DEF HandlerR, ClaimOf, BaseOf, SweepOf, Held, Journaled, Taken, LocksFirst, Lifecycle
  <2> QED
    BY <1>1, <2>3, QuietR
<1>5. CASE PlanRead(c)
  <2>1. ASSUME NEW l, Proceed(c, "read", l) PROVE HandlerR(c)'
    BY <1>1, <1>3, <1>5, <2>1
    DEF PlanRead, HandlerR, ClaimOf, BaseOf, SweepOf, Held, Journaled, Taken
  <2> QED
    BY <1>1, <1>2, <1>5, <2>1, QuietR DEF PlanRead
<1>6. CASE PlanMake(c)
  BY <1>1, <1>6, QuietR, IdleR DEF PlanMake, Answer, Goto, TypeOK
<1>7. CASE Replay(c) \/ Refuse(c) \/ LockTimeout(c)
  BY <1>1, <1>2, <1>7, QuietR DEF Replay, Refuse, LockTimeout
<1>8. CASE ApplyAdmit(c)
  <2>1. ASSUME Holds(c, req[c].plan), Wait(c, [loc[c] EXCEPT !.after = req[c].plan.after])
        PROVE  HandlerR(c)'
    <3>1. req[c].plan \in Plans
      BY <1>1, <2>1 DEF Holds, TypeOK
    <3>2. pc'[c] = "lock" /\ loc'[c].after = req[c].plan.after /\ req'[c] = req[c]
      BY <1>1, <1>16, <2>1 DEF TypeOK, Locals
    <3> QED
      BY <1>8, <3>1, <3>2 DEF ApplyAdmit, HandlerR, ClaimOf, BaseOf, SweepOf, Held, Journaled, Taken
  <2> QED
    BY <1>1, <1>2, <1>8, <2>1, QuietR DEF ApplyAdmit
<1>9. CASE RollbackAdmit(c)
  <2>1. ASSUME Wait(c, loc[c]) PROVE HandlerR(c)'
    BY <1>16, <1>9, <2>1
    DEF RollbackAdmit, HandlerR, ClaimOf, BaseOf, SweepOf, Held, Journaled, Taken
  <2> QED
    BY <1>1, <1>2, <1>9, <2>1, QuietR DEF RollbackAdmit
<1>10. CASE CreateAdmit(c)
  <2> DEFINE l == [loc[c] EXCEPT !.after = req[c].files,
                                 !.before = [m \in DOMAIN req[c].files |-> Absent]]
  <2>1. ASSUME Proceed(c, AfterAdmit(c, "begin"), l) PROVE HandlerR(c)'
    <3>1. pc'[c] \in {"lock", "begin"} /\ loc'[c] = l /\ req'[c] = req[c]
      BY <1>3, <2>1 DEF AfterAdmit
    <3>2. l.after = req[c].files
      BY <1>1 DEF TypeOK, Locals
    <3>3. loc'[c].after = req[c].files
      BY <3>1, <3>2
    <3> HIDE DEF l
    <3> QED
      BY <1>10, <3>1, <3>3
      DEF CreateAdmit, HandlerR, ClaimOf, BaseOf, SweepOf, Held, Journaled, Taken
  <2> QED
    BY <1>1, <1>2, <1>10, <2>1, QuietR DEF CreateAdmit
<1>11. CASE DeleteAdmit(c)
  <2> DEFINE l == [loc[c] EXCEPT !.before = req[c].files,
                                 !.after = [m \in DOMAIN req[c].files |-> Absent]]
  <2>1. ASSUME Proceed(c, AfterAdmit(c, "check"), l), DOMAIN req[c].files \subseteq Present,
               Only(disk, DOMAIN req[c].files) = req[c].files
        PROVE  HandlerR(c)'
    <3>1. pc'[c] \in {"lock", "check"} /\ req'[c] = req[c]
      BY <1>1, <1>3, <2>1 DEF AfterAdmit
    <3>2. \A m \in DOMAIN req[c].files : req[c].files[m] # Absent
      BY <2>1 DEF Only, Present
    <3> QED
      BY <1>11, <3>1, <3>2
      DEF DeleteAdmit, HandlerR, ClaimOf, BaseOf, SweepOf, Held, Journaled, Taken
  <2> QED
    BY <1>1, <1>2, <1>11, <2>1, QuietR DEF DeleteAdmit
<1>12. CASE AcquireLock(c)
  <2>1. /\ pc[c] = "lock" /\ UNCHANGED <<loc, req, disk, damaged>>
        /\ pc'[c] = IF LocksFirst(req[c]) THEN "admit"
                    ELSE IF req[c].tool = "create_bundle" THEN "begin" ELSE "check"
    BY <1>1, <1>12 DEF AcquireLock, Goto, TypeOK
  <2>2. HandlerR(c)'
    BY <1>1, <2>1
    DEF HandlerR, ClaimOf, BaseOf, SweepOf, Held, Journaled, Taken, LocksFirst, Lifecycle, Keyed
  <2> QED
    BY <1>1, <2>2, QuietR
<1>13. CASE ApplyCheck(c)
  <2> DEFINE l == [loc[c] EXCEPT !.before = Only(disk, DOMAIN loc[c].after)]
  <2>1. ASSUME Revision = req[c].plan.base, Proceed(c, "snapshot", l) PROVE HandlerR(c)'
    <3>1. loc[c].done = {} /\ disk \in Bundles
      BY <1>1, <1>13 DEF ApplyCheck, HandlerInv, LocalsOf, Journaled, Taken, TypeOK
    <3>2. /\ pc'[c] = "snapshot" /\ req'[c] = req[c] /\ disk' = disk /\ loc'[c] = l
          /\ l.after = loc[c].after /\ l.done = {}
      BY <1>1, <1>3, <2>1, <3>1 DEF TypeOK, Locals
    <3>3. Seen(c)' = req[c].plan.base
      BY <2>1, <3>1, <3>2, SeenFirst DEF Seen, Revision
    <3> QED
      BY <1>1, <1>13, <3>2, <3>3
      DEF ApplyCheck, HandlerR, ClaimOf, BaseOf, SweepOf, Held, Journaled, Taken
  <2> QED
    BY <1>1, <1>2, <1>13, <2>1, QuietR DEF ApplyCheck
<1>14. CASE RollbackCheck(c)
  <2>1. ASSUME Revision = req[c].expected, NEW s \in Found(c), \A l \in DOMAIN s.files : s.files[l] # Blank,
               Proceed(c, "snapshot", [loc[c] EXCEPT !.after = s.files,
                                                     !.before = Only(disk, DOMAIN s.files)])
        PROVE  HandlerR(c)'
    <3> DEFINE l == [loc[c] EXCEPT !.after = s.files, !.before = Only(disk, DOMAIN s.files)]
    <3>1. loc[c].done = {} /\ disk \in Bundles
      BY <1>1, <1>14 DEF RollbackCheck, HandlerInv, LocalsOf, Journaled, Taken, TypeOK
    <3>2. /\ pc'[c] = "snapshot" /\ req'[c] = req[c] /\ disk' = disk /\ loc'[c] = l
          /\ l.after = s.files /\ l.done = {}
      BY <1>1, <1>3, <2>1, <3>1 DEF TypeOK, Locals
    <3>3. Seen(c)' = req[c].expected
      BY <2>1, <3>1, <3>2, SeenFirst DEF Seen, Revision
    <3>4. s.files = Captured(Only(req[c].to, DOMAIN s.files))
      BY <2>1 DEF Found, IInv, SnapshotsHoldTheirRevision
    <3>5. \A m \in DOMAIN s.files : s.files[m] = req[c].to[m] /\ req[c].to[m] # Absent
      BY <2>1, <3>4 DEF Captured, Only
    <3>6. loc'[c].after = s.files
      BY <3>2
    <3> HIDE DEF l
    <3> QED
      BY <1>1, <1>14, <3>2, <3>3, <3>5, <3>6
      DEF RollbackCheck, HandlerR, ClaimOf, BaseOf, SweepOf, Held, Journaled, Taken
  <2> QED
    BY <1>1, <1>2, <1>14, <2>1, QuietR DEF RollbackCheck
<1>15. CASE DeleteCheck(c)
  <2>1. ASSUME Proceed(c, "begin", loc[c]) PROVE HandlerR(c)'
    BY <1>1, <1>3, <1>15, <2>1
    DEF DeleteCheck, HandlerR, ClaimOf, BaseOf, SweepOf, Held, Journaled, Taken
  <2> QED
    BY <1>1, <1>2, <1>15, <2>1, QuietR DEF DeleteCheck
<1> QED
  BY <1>4, <1>5, <1>6, <1>7, <1>8, <1>9, <1>10, <1>11, <1>12, <1>13, <1>14, <1>15 DEF Admission

\* A handler under the lock: its locals fit together, and its files are as it left them.
LEMMA HeldFiles ==
  ASSUME IInv, RInv, NEW c \in Clients, pc[c] \in Held \ {"check"}, pc[c] = "undo" => ~damaged
  PROVE  /\ loc[c] \in Locals /\ disk \in Bundles
         /\ DOMAIN loc[c].before = DOMAIN loc[c].after
         /\ DOMAIN loc[c].after \subseteq Langs /\ loc[c].done \subseteq DOMAIN loc[c].after
         /\ \A l \in DOMAIN loc[c].after : loc[c].before[l] \in Revisions /\ loc[c].after[l] \in Revisions
         /\ Placed(c)
<1>1. HandlerInv(c) /\ HandlerR(c) /\ TypeOK
  BY DEF IInv, RInv, HandlerR
<1>2. loc[c] \in Locals /\ loc[c].before \in Partial /\ loc[c].after \in Partial
  BY <1>1, Alone DEF Locals
<1>3. Placed(c)
  BY <1>1 DEF HandlerInv, WriteOf, HandlerR, BaseOf
<1> QED
  BY <1>1, <1>2, <1>3, PartialFacts DEF HandlerInv, LocalsOf, TypeOK

\* While the handler writes a file that was as captured, or puts it back, the callers see
\* the same bundle.
LEMMA SeenStays ==
  ASSUME NEW b \in Bundles, NEW d \in Bundles, NEW w \in Partial,
         NEW m \in SUBSET Langs, NEW n \in SUBSET Langs,
         m \subseteq DOMAIN w, n \subseteq DOMAIN w, NEW l \in Langs,
         \A f \in Files \ {l} : b[f] = d[f] /\ (f \in m <=> f \in n),
         l \in m => l \in n \/ d[l] = w[l],
         l \notin m => b[l] = w[l] /\ (l \in n \/ d[l] = b[l])
  PROVE  Over(Only(w, n), d) = Over(Only(w, m), b)
<1>1. DOMAIN Only(w, n) = n /\ DOMAIN Only(w, m) = m /\ DOMAIN b = Files /\ DOMAIN d = Files
  BY DEF Only, Bundles
<1>2. ASSUME NEW f \in Files
      PROVE  (IF f \in n THEN w[f] ELSE d[f]) = (IF f \in m THEN w[f] ELSE b[f])
  BY DEF Files
<1> QED
  BY <1>1, <1>2 DEF Over, Only

\* A step of the handler that holds the lock.
LEMMA HeldR ==
  ASSUME IInv, RInv, NEW c \in Clients, Mutation(c), HandlerR(c)'
  PROVE  RInv'
<1>1. pc[c] \in Held /\ phase' = phase /\ phase = "up"
  BY MutationIsHeld, Alone DEF startup
<1>2. TornInv'
  BY <1>1 DEF TornInv
<1>3. ASSUME NEW d \in Clients PROVE HandlerR(d)'
  <2>1. CASE d # c
    BY <1>1, <2>1, OthersR, MutationIsHeld
  <2> QED
    BY <2>1
<1> QED
  BY <1>2, <1>3 DEF RInv, HandlerR

\* The journal entry names what is written and what is swept.
LEMMA BeginR ==
  ASSUME IInv, RInv, NEW c \in Clients, Begin(c)
  PROVE  HandlerR(c)'
<1> DEFINE e == [id |-> ops + 1, client |-> c, req |-> req[c], before |-> loc[c].before,
                 after |-> loc[c].after, cleanup |-> Cleans(c)]
<1>1. /\ pc[c] = "begin" /\ pc'[c] = "write" /\ pc[c] \in Held \ {"check"}
      /\ loc' = [loc EXCEPT ![c].entry = e]
      /\ UNCHANGED <<req, disk, damaged>>
  BY DEF Begin, Goto, IInv, TypeOK, Held
<1>2. HandlerR(c) /\ HandlerInv(c) /\ loc \in [Clients -> Locals]
  BY DEF IInv, RInv, HandlerR, TypeOK
<1>3. /\ loc'[c].entry = e /\ loc'[c].before = loc[c].before /\ loc'[c].after = loc[c].after
      /\ loc'[c].done = loc[c].done
  BY <1>1, <1>2 DEF Locals
<1>4. e.cleanup = Cleans(c)
  OBVIOUS
<1> HIDE DEF e
<1>5. req[c].tool = "delete_bundle" => DOMAIN loc[c].after = DOMAIN req[c].files
  BY <1>1, <1>2 DEF HandlerInv, LifecycleOf, Lifecycle
<1>6. ClaimOf(c)'
  BY <1>1, <1>2, <1>3 DEF HandlerR, ClaimOf, Held
<1>7. BaseOf(c)'
  BY <1>1, <1>2, <1>3 DEF HandlerR, BaseOf, Seen
<1>8. SweepOf(c)'
  BY <1>1, <1>3, <1>4, <1>5 DEF SweepOf, Cleans, Present, Taken
<1> QED
  BY <1>6, <1>7, <1>8 DEF HandlerR

\* What the callers see does not change as long as a file remains to be written.
LEMMA WriteSeen ==
  ASSUME IInv, RInv, NEW c \in Clients, WriteFile(c)
  PROVE  /\ Seen(c)' = Seen(c) /\ UNCHANGED <<req, damaged, journal, ans>>
         /\ loc'[c].before = loc[c].before /\ loc'[c].after = loc[c].after /\ loc'[c].entry = loc[c].entry
         /\ \E l \in Remaining(c) :
              /\ ~Exists(c, l) /\ disk[l] = loc[c].before[l]
              /\ \A f \in Files : disk'[f] = IF f = l THEN loc[c].after[l] ELSE disk[f]
              /\ \/ Remaining(c) = {l} /\ pc' = [pc EXCEPT ![c] = AfterWrite(req[c])]
                 \/ Remaining(c) # {l} /\ pc' = pc
<1>1. PICK l \in Remaining(c) :
        /\ ~Exists(c, l)
        /\ disk' = [disk EXCEPT ![l] = loc[c].after[l]]
        /\ loc' = [loc EXCEPT ![c].done = @ \cup {l}]
        /\ IF Remaining(c) = {l} THEN Goto(c, AfterWrite(req[c])) ELSE pc' = pc
  BY DEF WriteFile
<1>2. /\ pc[c] = "write" /\ pc[c] \in Held \ {"check"} /\ pc[c] # "undo"
      /\ UNCHANGED <<req, damaged, journal, ans>>
  BY DEF WriteFile, Held
<1>3. /\ loc[c] \in Locals /\ disk \in Bundles /\ DOMAIN loc[c].before = DOMAIN loc[c].after
      /\ DOMAIN loc[c].after \subseteq Langs /\ loc[c].done \subseteq DOMAIN loc[c].after
      /\ \A m \in DOMAIN loc[c].after : loc[c].before[m] \in Revisions /\ loc[c].after[m] \in Revisions
      /\ Placed(c)
  BY <1>2, HeldFiles
<1>4. /\ loc'[c].before = loc[c].before /\ loc'[c].after = loc[c].after /\ loc'[c].entry = loc[c].entry
      /\ loc'[c].done = loc[c].done \cup {l}
  BY <1>1, <1>3 DEF IInv, TypeOK, Locals
<1>5. l \in DOMAIN loc[c].after /\ l \notin loc[c].done /\ l \in Langs /\ l \in Files
  BY <1>1, <1>3 DEF Remaining, Files
<1>6. disk[l] = loc[c].before[l]
  <2>1. Blindly(req[c]) => loc[c].before[l] = Absent
    BY <1>2, <1>3, <1>5 DEF IInv, HandlerInv, LifecycleOf, Blindly
  <2> QED
    BY <1>1, <1>3, <1>5, <2>1 DEF Placed, Exists, Blindly
<1>7. \A f \in Files : disk'[f] = IF f = l THEN loc[c].after[l] ELSE disk[f]
  BY <1>1, <1>3, <1>5 DEF Bundles
<1>8. disk' \in Bundles
  BY <1>1, <1>3, <1>5 DEF Bundles
<1>9. Seen(c)' = Seen(c)
  <2>1. loc[c].before \in Partial
    BY <1>3 DEF Locals
  <2>2. PICK d : d = disk'
    OBVIOUS
  <2>3. PICK n : n = loc[c].done \cup {l}
    OBVIOUS
  <2>4. Over(Only(loc[c].before, n), d) = Over(Only(loc[c].before, loc[c].done), disk)
    BY <1>3, <1>5, <1>6, <1>7, <1>8, <2>1, <2>2, <2>3, SeenStays
  <2> QED
    BY <1>4, <2>2, <2>3, <2>4 DEF Seen
<1> QED
  BY <1>1, <1>2, <1>4, <1>6, <1>7, <1>9 DEF Goto

\* Writing a file leaves the base in sight of the callers until the last.
LEMMA WriteFileR ==
  ASSUME IInv, RInv, NEW c \in Clients, WriteFile(c)
  PROVE  HandlerR(c)'
<1>1. /\ Seen(c)' = Seen(c) /\ UNCHANGED <<req, damaged, journal, ans>>
      /\ loc'[c].before = loc[c].before /\ loc'[c].after = loc[c].after /\ loc'[c].entry = loc[c].entry
  BY WriteSeen
<1>2. PICK l \in Remaining(c) :
        /\ \A f \in Files : disk'[f] = IF f = l THEN loc[c].after[l] ELSE disk[f]
        /\ \/ Remaining(c) = {l} /\ pc' = [pc EXCEPT ![c] = AfterWrite(req[c])]
           \/ Remaining(c) # {l} /\ pc' = pc
  BY WriteSeen
<1>3. /\ pc[c] = "write" /\ pc[c] \in Held \ {"check"} /\ HandlerR(c) /\ HandlerInv(c)
      /\ req[c].tool \in Mutating /\ pc \in [Clients -> Labels]
  BY DEF WriteFile, Held, IInv, RInv, HandlerR, TypeOK, HandlerInv, ToolOf
<1>4. /\ pc'[c] = "write" \/ pc'[c] = AfterWrite(req[c])
      /\ AfterWrite(req[c]) \in {"tidy", "consume", "reconcile"}
      /\ AfterWrite(req[c]) # "tidy" => req[c].tool # "delete_bundle"
  BY <1>2, <1>3 DEF AfterWrite
<1>5. l \in DOMAIN loc[c].after
  BY DEF Remaining
<1>6. \A f \in Langs \ DOMAIN loc[c].after : disk'[f] = disk[f]
  BY <1>2, <1>5 DEF Files
<1>7. ClaimOf(c)'
  BY <1>1, <1>3, <1>4 DEF HandlerR, ClaimOf, Held, Taken
<1>8. BaseOf(c)'
  BY <1>1, <1>3, <1>4 DEF HandlerR, BaseOf
<1>9. SweepOf(c)'
  BY <1>1, <1>3, <1>4, <1>5, <1>6 DEF HandlerR, SweepOf, Journaled, Taken
<1> QED
  BY <1>7, <1>8, <1>9 DEF HandlerR

\* A file that is put back as it was leaves what the callers see.
LEMMA UndoSeen ==
  ASSUME IInv, RInv, NEW c \in Clients, Undo(c), ~damaged'
  PROVE  /\ Seen(c)' = Seen(c) /\ Placed(c)' /\ ~damaged
         /\ \A f \in Langs \ DOMAIN loc[c].after : disk'[f] = disk[f]
<1>1. PICK l \in loc[c].done :
        /\ loc' = [loc EXCEPT ![c].done = @ \ {l}]
        /\ disk' = [disk EXCEPT ![l] = PutBack(c, l)] /\ PutBack(c, l) = loc[c].before[l]
        /\ ~damaged
  BY DEF Undo
<1>2. pc[c] = "undo" /\ pc[c] \in Held \ {"check"} /\ req' = req
  BY DEF Undo, Held
<1>3. /\ loc[c] \in Locals /\ disk \in Bundles /\ DOMAIN loc[c].before = DOMAIN loc[c].after
      /\ DOMAIN loc[c].after \subseteq Langs /\ loc[c].done \subseteq DOMAIN loc[c].after
      /\ \A m \in DOMAIN loc[c].after : loc[c].before[m] \in Revisions /\ loc[c].after[m] \in Revisions
      /\ Placed(c)
  BY <1>1, <1>2, HeldFiles
<1>4. /\ loc'[c].before = loc[c].before /\ loc'[c].after = loc[c].after
      /\ loc'[c].done = loc[c].done \ {l}
  BY <1>1, <1>3 DEF IInv, TypeOK, Locals
<1>5. l \in DOMAIN loc[c].after /\ l \in Langs /\ l \in Files
  BY <1>1, <1>3 DEF Files
<1>6. disk' \in Bundles /\ \A f \in Files : disk'[f] = IF f = l THEN loc[c].before[l] ELSE disk[f]
  BY <1>1, <1>3, <1>5 DEF Bundles
<1>7. Seen(c)' = Seen(c)
  <2>1. loc[c].before \in Partial
    BY <1>3 DEF Locals
  <2>2. PICK d : d = disk'
    OBVIOUS
  <2>3. PICK n : n = loc[c].done \ {l}
    OBVIOUS
  <2>4. /\ d \in Bundles /\ d[l] = loc[c].before[l] /\ \A f \in Files \ {l} : d[f] = disk[f]
        /\ n \subseteq DOMAIN loc[c].before /\ n \in SUBSET Langs /\ l \notin n
        /\ loc[c].done \subseteq DOMAIN loc[c].before /\ loc[c].done \in SUBSET Langs
        /\ \A f \in Files \ {l} : f \in n <=> f \in loc[c].done
    BY <1>3, <1>5, <1>6, <2>2, <2>3
  <2>5. Over(Only(loc[c].before, loc[c].done), disk) = Over(Only(loc[c].before, n), d)
    BY <1>1, <1>3, <1>5, <2>1, <2>4, SeenStays
  <2> QED
    BY <1>4, <2>2, <2>3, <2>5 DEF Seen
<1>8. Placed(c)'
  BY <1>2, <1>3, <1>4, <1>5, <1>6 DEF Placed, Files, Blindly, Keyed
<1> QED
  BY <1>1, <1>5, <1>6, <1>7, <1>8 DEF Files

\* So does putting files back.
LEMMA UndoR ==
  ASSUME IInv, RInv, NEW c \in Clients, Undo(c)
  PROVE  HandlerR(c)'
<1>1. /\ pc[c] = "undo" /\ pc'[c] = "undo" /\ pc[c] \in Held \ {"check"} /\ HandlerR(c) /\ req' = req
  BY DEF Undo, Held, RInv, HandlerR
<1>2. PICK l \in loc[c].done : /\ loc' = [loc EXCEPT ![c].done = @ \ {l}]
                               /\ disk' \in {disk, [disk EXCEPT ![l] = PutBack(c, l)]}
  BY DEF Undo
<1>3. /\ loc'[c].before = loc[c].before /\ loc'[c].after = loc[c].after /\ loc'[c].entry = loc[c].entry
  BY <1>1, <1>2, Alone DEF IInv, TypeOK, Locals
<1>4. l \in DOMAIN loc[c].after /\ disk \in Bundles
  BY <1>1, <1>2 DEF IInv, HandlerInv, LocalsOf, Held, Taken, TypeOK
<1>5. \A f \in Langs \ DOMAIN loc[c].after : disk'[f] = disk[f]
  BY <1>2, <1>4 DEF Bundles, Files
<1>6. ClaimOf(c)'
  BY <1>1, <1>3 DEF HandlerR, ClaimOf
<1>7. BaseOf(c)'
  BY <1>1, UndoSeen DEF HandlerR, BaseOf
<1>8. SweepOf(c)'
  BY <1>1, <1>3, <1>5 DEF HandlerR, SweepOf, Taken
<1> QED
  BY <1>6, <1>7, <1>8 DEF HandlerR

\* A bundle whose translations are gone is removed.
LEMMA TidyR ==
  ASSUME IInv, RInv, NEW c \in Clients, Tidy(c)
  PROVE  HandlerR(c)'
<1>1. /\ pc[c] = "tidy" /\ pc'[c] = "reconcile" /\ pc[c] \in Held /\ HandlerR(c) /\ HandlerInv(c)
      /\ disk' = IF Gone THEN Empty ELSE disk
      /\ UNCHANGED <<req, loc, damaged>>
  BY DEF Tidy, Goto, IInv, RInv, HandlerR, TypeOK, Held, Taken
<1>2. \A l \in DOMAIN loc[c].after : disk[l] = Absent
  BY <1>1 DEF HandlerInv, ToolOf, LocalsOf, LifecycleOf, WriteOf, Placed, Held, Taken, Lifecycle
<1>3. Gone <=> \A l \in Langs : disk[l] = Absent
  BY DEF Gone, Present
<1>4. \A l \in Langs : Empty[l] = Absent
  BY DEF Empty, Files
<1>5. SweepOf(c)'
  BY <1>1, <1>2, <1>3, <1>4 DEF HandlerR, SweepOf, Journaled, Taken
<1>6. ClaimOf(c)' /\ BaseOf(c)'
  BY <1>1 DEF HandlerR, ClaimOf, BaseOf, Held, Taken
<1> QED
  BY <1>5, <1>6 DEF HandlerR

\* Each step under the lock keeps RInv.
LEMMA MutationR ==
  ASSUME IInv, RInv, IInv', NEW c \in Clients, Mutation(c)
  PROVE  RInv'
<1>1. TypeOK /\ HandlerR(c) /\ HandlerInv(c)
  BY DEF IInv, RInv, HandlerR
<1>2. ASSUME NEW a, Answer(c, a) PROVE HandlerR(c)'
  BY <1>1, <1>2, IdleR DEF Answer, Goto, TypeOK
<1>3. CASE Snapshot(c)
  <2>1. pc[c] = "snapshot" /\ pc'[c] = "begin" /\ UNCHANGED <<req, loc, disk, damaged>>
    BY <1>1, <1>3 DEF Snapshot, Goto, TypeOK
  <2>2. HandlerR(c)'
    BY <1>1, <2>1 DEF HandlerR, ClaimOf, BaseOf, SweepOf, Seen, Held, Journaled, Taken
  <2> QED
    BY <2>2, HeldR
<1>4. CASE WriteFails(c)
  <2>1. pc[c] = "write" /\ pc'[c] = "undo" /\ UNCHANGED <<req, loc, disk, damaged>>
    BY <1>1, <1>4 DEF WriteFails, Goto, TypeOK
  <2>2. Placed(c)
    BY <1>1, <2>1 DEF HandlerInv, WriteOf, Held
  <2>3. Placed(c)' /\ Seen(c)' = Seen(c)
    BY <2>1, <2>2 DEF Placed, Seen, Blindly, Keyed
  <2>4. HandlerR(c)'
    BY <1>1, <2>1, <2>3 DEF HandlerR, ClaimOf, BaseOf, SweepOf, Held, Journaled, Taken
  <2> QED
    BY <2>4, HeldR
<1>5. CASE Consume(c) \/ Reconcile(c) \/ Stage(c) \/ Remember(c)
  <2>1. /\ pc[c] \in Taken \ {"tidy"} /\ pc'[c] \in Taken \ {"tidy"}
        /\ UNCHANGED <<req, loc, disk, damaged>>
    BY <1>1, <1>5 DEF Consume, Reconcile, Stage, Proceed, Remember, Goto, TypeOK, Taken
  <2>2. HandlerR(c)'
    BY <1>1, <2>1 DEF HandlerR, ClaimOf, BaseOf, SweepOf, Held, Journaled, Taken
  <2> QED
    BY <2>2, HeldR
<1>6. CASE RolledBack(c) \/ TidyFails(c) \/ StageFails(c) \/ Commit(c)
  BY <1>2, <1>6, HeldR DEF RolledBack, AnswerOnly, TidyFails, StageFails, Commit
<1> QED
  BY <1>3, <1>4, <1>5, <1>6, BeginR, WriteFileR, UndoR, TidyR, HeldR DEF Mutation

\* A crash that misleads nobody leaves only the entry of the handler that had the lock,
\* with its files as before or as after the write.
OwnerOf(e, c) ==
  /\ pc[c] \in Journaled /\ loc[c].entry = e /\ e.client = c /\ e.req = req[c]
  /\ e.before = loc[c].before /\ e.after = loc[c].after
LEMMA EntryLeft ==
  ASSUME IInv, RInv, Crash, ~damaged', phase = "up", NEW e \in journal
  PROVE  /\ Known(e)
         /\ \E c \in Clients : /\ OwnerOf(e, c)
                               /\ pc[c] \in Taken => AsAfter(e)
                               /\ \A l \in DOMAIN e.after \ loc[c].done : disk[l] = e.before[l]
                               /\ \A l \in loc[c].done : disk[l] = e.after[l]
<1>1. ~Outlived(e) /\ ~FoundThere(e) /\ ~damaged
  BY DEF Crash
<1>2. PICK c \in Clients : loc[c].entry = e
  BY <1>1 DEF Outlived
<1>3. e.id # 0
  BY DEF IInv, EntryInv, TypeOK, Entries
<1>4. pc[c] \in Journaled
  BY <1>2, <1>3 DEF IInv, HandlerInv, LocalsOf, NoEntry
<1>5. OwnerOf(e, c) /\ pc[c] \in Held \ {"check"}
  BY <1>2, <1>4 DEF IInv, OwnInv, OwnerOf, Held, Journaled, Taken
<1>6. Placed(c) /\ loc[c].done \subseteq DOMAIN loc[c].after
  BY <1>1, <1>5, HeldFiles
<1>7. Blindly(req[c]) => \A l \in DOMAIN loc[c].after : loc[c].before[l] = Absent
  BY <1>5 DEF IInv, HandlerInv, LocalsOf, LifecycleOf, Lifecycle, Blindly
<1>8. Blindly(req[c]) => \A l \in DOMAIN loc[c].after \ loc[c].done : disk[l] = Absent
  BY <1>1, <1>5 DEF FoundThere, Exists, Remaining, Blindly, OwnerOf
<1>9. \A l \in DOMAIN e.after \ loc[c].done : disk[l] = e.before[l]
  BY <1>5, <1>6, <1>7, <1>8 DEF Placed, OwnerOf
<1>10. \A l \in loc[c].done : disk[l] = e.after[l]
  BY <1>5, <1>6 DEF Placed, OwnerOf
<1>11. Known(e)
  BY <1>5, <1>6, <1>9, <1>10 DEF Known, OwnerOf
<1>12. pc[c] \in Taken => AsAfter(e)
  BY <1>5, <1>10 DEF IInv, HandlerInv, LocalsOf, AsAfter, OwnerOf
<1> QED
  BY <1>5, <1>9, <1>10, <1>11, <1>12

\* A crash leaves at most one entry, with files that are before or after.
LEMMA CrashR ==
  ASSUME IInv, RInv, Crash
  PROVE  RInv'
<1>1. /\ phase' = "down" /\ (~damaged' => ~damaged) /\ UNCHANGED <<disk, journal>>
      /\ \A c \in Clients : pc'[c] = "idle"
  BY DEF Crash
<1>2. ASSUME NEW c \in Clients PROVE HandlerR(c)'
  BY <1>1, IdleR
<1>3. TornInv'
  <2> SUFFICES ASSUME ~damaged', NEW e \in journal PROVE Known(e) /\ \A f \in journal : f = e
    BY <1>1 DEF TornInv, Known
  <2>1. CASE phase = "up"
    <3>1. \A f \in journal : \E c \in Clients : OwnerOf(f, c)
      BY <2>1, EntryLeft
    <3>2. \A c \in Clients : pc[c] \in Journaled => lock = c
      BY Alone DEF Held, Journaled
    <3> QED
      BY <2>1, <3>1, <3>2, EntryLeft DEF OwnerOf
  <2>2. CASE phase # "up"
    BY <1>1, <2>2 DEF RInv, TornInv
  <2> QED
    BY <2>1, <2>2
<1> QED
  BY <1>2, <1>3 DEF RInv, HandlerR

\* Startup settles the entry that is left.
LEMMA StartupR ==
  ASSUME IInv, RInv, StartupFrame, phase # "up", TornInv'
  PROVE  RInv'
<1>1. \A c \in Clients : pc'[c] = "idle"
  BY StartupOthers
<1> QED
  BY <1>1, IdleR DEF RInv, HandlerR

\* Sweeping a deleted bundle does not change what its entry is taken for;
LEMMA PrepareKeeps ==
  ASSUME IInv, RInv, NEW e \in todo, PrepareEntry(e), ~damaged'
  PROVE  /\ e \in journal /\ (\A f \in journal : f = e) /\ ~damaged /\ ~Torn(e)
         /\ disk' = IF Sweeps(e) THEN Empty ELSE disk
         /\ Known(e)' /\ ~Torn(e)' /\ (Sweeps(e)' <=> Sweeps(e))
<1>1. /\ phase = "prepare" /\ ~Torn(e) /\ e \in journal /\ ~damaged
      /\ disk' = IF Sweeps(e) THEN Empty ELSE disk
  BY DEF PrepareEntry, IInv, PhaseInv
<1>2. Sweeps(e) => \A l \in DOMAIN e.after : e.after[l] = Absent /\ disk[l] = Absent /\ l \in Files
  <2>1. DOMAIN e.after \subseteq Langs
    BY PartialFacts DEF IInv, TypeOK, Entries
  <2> QED
    BY <1>1, <2>1 DEF Sweeps, Landed, AsAfter, IInv, EntryInv, Files
<1>3. Known(e) /\ \A g \in journal : g = e
  BY <1>1 DEF RInv, TornInv
<1>4. \A l \in DOMAIN e.after : disk'[l] = disk[l]
  BY <1>1, <1>2 DEF Empty
<1>5. Known(e)' /\ (AsBefore(e)' <=> AsBefore(e)) /\ (AsAfter(e)' <=> AsAfter(e))
  <2>1. DOMAIN e.before = DOMAIN e.after
    BY <1>1 DEF IInv, EntryInv
  <2> QED
    BY <1>3, <1>4, <2>1 DEF Known, AsBefore, AsAfter
<1>6. (Torn(e)' <=> Torn(e)) /\ (Sweeps(e)' <=> Sweeps(e))
  BY <1>3, <1>5 DEF Torn, Sweeps, Landed
<1> QED
  BY <1>1, <1>3, <1>5, <1>6

\* so it settles the entry;
LEMMA PrepareEntryR ==
  ASSUME IInv, RInv, NEW e \in todo, PrepareEntry(e)
  PROVE  RInv'
<1>1. phase = "prepare" /\ phase' = "prepare" /\ journal' = journal /\ StartupFrame
  BY DEF PrepareEntry
<1>2. TornInv'
  <2> SUFFICES ASSUME ~damaged', NEW f \in journal
               PROVE  Known(f)' /\ (\A g \in journal : g = f) /\ Settled(f)'
    BY <1>1 DEF TornInv
  <2> QED
    BY PrepareKeeps DEF Settled
<1> QED
  BY <1>1, <1>2, StartupR

\* putting a file back leaves the bundle that the torn one is taken for.
LEMMA RestoreFileR ==
  ASSUME IInv, RInv, NEW e \in todo, RestoreFile(e)
  PROVE  RInv'
<1>1. /\ phase = "prepare" /\ phase' = "prepare" /\ Torn(e) /\ e \in journal
      /\ ~damaged' => /\ ~damaged /\ todo' = todo
                      /\ \E l \in DOMAIN e.before : disk' = [disk EXCEPT ![l] = e.before[l]]
      /\ journal' = journal /\ StartupFrame
  BY DEF RestoreFile, IInv, PhaseInv
<1>2. TornInv'
  <2> SUFFICES ASSUME ~damaged', NEW f \in journal
               PROVE  Known(f)' /\ (\A g \in journal : g = f) /\ f \in todo'
    BY <1>1 DEF TornInv
  <2>1. Known(f) /\ f = e /\ \A g \in journal : g = f
    BY <1>1 DEF RInv, TornInv
  <2>2. PICK l \in DOMAIN e.before : disk' = [disk EXCEPT ![l] = e.before[l]]
    BY <1>1
  <2>3. Known(f)'
    <3>1. \A m \in DOMAIN e.after : m \in Files
      BY PartialFacts DEF IInv, TypeOK, Entries, Files
    <3>2. \A m \in DOMAIN e.after : disk'[m] = disk[m] \/ disk'[m] = e.before[m]
      BY <2>2, <3>1 DEF IInv, TypeOK, Bundles
    <3> QED
      BY <2>1, <3>2 DEF Known
  <2> QED
    BY <1>1, <2>1, <2>3
<1> QED
  BY <1>1, <1>2, StartupR

\* Settling the last entries and coming up change no file.
LEMMA ReconcileEntryR ==
  ASSUME IInv, RInv, NEW e \in todo, ReconcileEntry(e)
  PROVE  RInv'
<1>1. /\ phase = "commit" /\ phase' = "commit" /\ journal' \subseteq journal
      /\ UNCHANGED <<disk, damaged>> /\ StartupFrame
  BY DEF ReconcileEntry
<1>2. TornInv'
  BY <1>1 DEF RInv, TornInv, Settled, Known, Torn, Sweeps, Landed, AsBefore, AsAfter
<1> QED
  BY <1>1, <1>2, StartupR

\* Nor do the other steps of startup.
LEMMA BootR ==
  ASSUME IInv, RInv, BootIndex \/ PrepareDone \/ StartupSync \/ BootDone
  PROVE  RInv'
<1>1. /\ UNCHANGED <<disk, journal, damaged>> /\ StartupFrame /\ phase # "up"
      /\ \/ phase' = "prepare" /\ todo' = journal
         \/ phase = "prepare" /\ todo = {} /\ phase' = "sync"
         \/ phase = "sync" /\ phase' = "commit"
         \/ phase' = "up"
  BY DEF BootIndex, PrepareDone, StartupSync, BootDone
<1>2. TornInv'
  BY <1>1 DEF RInv, TornInv, Settled, Known, Torn, Sweeps, Landed, AsBefore, AsAfter
<1> QED
  BY <1>1, <1>2, StartupR

\* The steps of others.
LEMMA ExpireR ==
  ASSUME IInv, RInv, Expire
  PROVE  RInv'
<1>1. UNCHANGED <<disk, phase, pc, req, loc, damaged>> /\ phase = "up"
  BY DEF Expire, startup
<1> QED
  BY <1>1 DEF RInv, TornInv, ClaimOf, BaseOf, SweepOf, Seen, Placed, Blindly, Keyed

\* Another tool's write comes when no handler of a bundle has the lock.
LEMMA EditPageR ==
  ASSUME IInv, RInv, EditPage
  PROVE  RInv'
<1>1. UNCHANGED <<phase, pc, req, loc, damaged>> /\ phase = "up" /\ lock = NoClient
  BY DEF EditPage, startup
<1>2. \A c \in Clients : pc[c] \notin Held
  BY <1>1, Alone
<1> QED
  BY <1>1, <1>2 DEF RInv, TornInv, ClaimOf, BaseOf, SweepOf, Keyed, Held, Journaled, Taken

\* RInv holds at first and is kept by every step.
LEMMA InitR == ASSUME Init PROVE RInv
  BY DEF Init, RInv, TornInv, ClaimOf, BaseOf, SweepOf, Held, Journaled, Taken

\* Every step keeps RInv, given IInv before and after it.
LEMMA NextR == ASSUME IInv, RInv, IInv', [Next]_vars PROVE RInv'
<1>1. CASE Startup
  BY <1>1, BootR, PrepareEntryR, RestoreFileR, ReconcileEntryR DEF Startup
<1>2. CASE \E c \in Clients : Admission(c) \/ Mutation(c)
  BY <1>2, AdmissionR, MutationR
<1>3. CASE UNCHANGED vars
  BY <1>3 DEF vars, startup, RInv, TornInv, ClaimOf, BaseOf, SweepOf, Seen, Placed, Blindly, Keyed,
     Settled, Known, Torn, Sweeps, Landed, AsBefore, AsAfter
<1> QED
  BY <1>1, <1>2, <1>3, CrashR, ExpireR, EditPageR DEF Next, Rest

---------------------------------------------------------------------------
\* What Whole is: in the handler's writes, while it tidies up, otherwise while the server
\* serves, and while it does not.
Showing == {"write", "undo", "tidy"}
Shows ==
  /\ \A c \in Clients : pc[c] \in {"write", "undo"} => Whole = Seen(c)
  /\ \A c \in Clients : pc[c] = "tidy" => Whole = IF Gone THEN Empty ELSE disk
  /\ phase = "up" /\ (\A c \in Clients : pc[c] \notin Showing) => Whole = disk
  /\ phase # "up" =>
       /\ \A e \in journal : (\A f \in journal : f = e) =>
            Whole = IF Torn(e) THEN Over(e.before, disk) ELSE IF Sweeps(e) THEN Empty ELSE disk
       /\ journal = {} => Whole = disk
\* What the callers see of the files is what Shows says.
LEMMA WholeShows == ASSUME IInv PROVE Shows
<1>1. ASSUME NEW c \in Clients, pc[c] \in Showing
      PROVE  phase = "up" /\ \A d \in Clients : pc[d] \in Showing => d = c
  BY <1>1, Alone DEF Showing, Held, Taken
<1>2. ASSUME NEW c \in Clients, pc[c] \in {"write", "undo"} PROVE Whole = Seen(c)
  <2>1. Writers = {c}
    BY <1>1, <1>2 DEF Writers, Showing
  <2>2. (CHOOSE d \in Writers : TRUE) = c
    BY <2>1
  <2>3. phase = "up" /\ \A d \in Clients : pc[d] # "tidy"
    BY <1>1, <1>2 DEF Showing
  <2> QED
    BY <2>1, <2>2, <2>3 DEF Whole, Seen
<1>3. ASSUME NEW c \in Clients, pc[c] = "tidy" PROVE Whole = IF Gone THEN Empty ELSE disk
  <2>1. Writers = {} /\ phase = "up"
    BY <1>1, <1>3 DEF Writers, Showing
  <2> QED
    BY <1>3, <2>1 DEF Whole
<1>4. phase = "up" /\ (\A c \in Clients : pc[c] \notin Showing) => Whole = disk
  BY DEF Whole, Writers, Showing
<1>5. ASSUME phase # "up"
      PROVE  /\ \A e \in journal : (\A f \in journal : f = e) =>
                  Whole = IF Torn(e) THEN Over(e.before, disk) ELSE IF Sweeps(e) THEN Empty ELSE disk
             /\ journal = {} => Whole = disk
  <2>1. \A c \in Clients : pc[c] = "idle"
    BY <1>5 DEF IInv, PhaseInv
  <2>2. Writers = {} /\ \A c \in Clients : pc[c] # "tidy"
    BY <2>1 DEF Writers
  <2>3. journal = {} => Whole = disk
    BY <2>2 DEF Whole
  <2>4. ASSUME NEW e \in journal, \A f \in journal : f = e
        PROVE  Whole = IF Torn(e) THEN Over(e.before, disk) ELSE IF Sweeps(e) THEN Empty ELSE disk
    <3>1. CASE Torn(e)
      <4>1. (CHOOSE f \in journal : Torn(f)) = e
        BY <2>4, <3>1
      <4>2. ~\E f \in journal : Sweeps(f)
        BY <2>4, <3>1 DEF Torn, Sweeps, Landed
      <4> QED
        BY <1>5, <2>2, <3>1, <4>1, <4>2 DEF Whole
    <3>2. CASE ~Torn(e)
      <4>1. (\E f \in journal : Sweeps(f)) <=> Sweeps(e)
        BY <2>4
      <4>2. ~\E f \in journal : Torn(f)
        BY <2>4, <3>2
      <4> QED
        BY <1>5, <2>2, <3>2, <4>1, <4>2 DEF Whole
    <3> QED
      BY <3>1, <3>2
  <2> QED
    BY <2>3, <2>4
<1> QED
  BY <1>2, <1>3, <1>4, <1>5 DEF Shows

\* The outcome of an answer is what the callers of BundleService see.
LEMMA OutcomeOfAnswer ==
  /\ \A a \in {"success", "replayed", "planned"} : Outcome(a) = "ok"
  /\ \A a \in {"persistence_error", "delete_error"} : Outcome(a) = "unsure"
  /\ \A a \in {"none", "lost"} : Outcome(a) = a
  /\ \A a \in Answers \ {"success", "replayed", "planned", "persistence_error", "delete_error",
                        "none", "lost"} :
       Outcome(a) = "error"
  BY DEF Outcome, Answers

\* A handler that runs has an open call.
LEMMA OpenCall ==
  ASSUME IInv, NEW c \in Clients
  PROVE  /\ pc[c] = "idle" => OpenCalls[c] = Unused
         /\ pc[c] # "idle" => OpenCalls[c] = req[c] /\ OpenCalls[c] # Unused /\ phase = "up"
  BY Running, FilesDiffer DEF OpenCalls

\* A step that moves a handler on, short of its last write, is invisible.
LEMMA InvisibleStep ==
  ASSUME UNCHANGED <<phase, damaged, ans>>, Whole' = Whole,
         \A c \in Clients : (pc'[c] = "idle" <=> pc[c] = "idle")
                            /\ (pc'[c] \in Taken <=> pc[c] \in Taken)
                            /\ (pc[c] # "idle" => req'[c] = req[c])
  PROVE  UNCHANGED Service!vars
<1>1. OpenCalls' = OpenCalls
  BY DEF OpenCalls
<1>2. {c \in Clients : pc[c] \in Taken}' = {c \in Clients : pc[c] \in Taken}
  OBVIOUS
<1>3. [c \in Clients |-> Outcome(ans[c])]' = [c \in Clients |-> Outcome(ans[c])]
  BY DEF Outcome
<1> QED
  BY <1>1, <1>2, <1>3 DEF Service!vars

\* A return from the handler closes the call.
LEMMA AnswerCloses ==
  ASSUME IInv, NEW c \in Clients, pc[c] # "idle", NEW a \in Answers \ {"none", "lost"}, Answer(c, a),
         UNCHANGED <<req, phase, damaged>>, Whole' = Whole,
         Service!Answers(c, Outcome(a))
  PROVE  Service!Close(c)
<1>1. /\ OpenCalls' = [OpenCalls EXCEPT ![c] = Unused] /\ OpenCalls[c] # Unused /\ phase = "up"
  BY OpenCall DEF OpenCalls, Answer, Goto, IInv, TypeOK
<1>2. {d \in Clients : pc[d] \in Taken}' = {d \in Clients : pc[d] \in Taken} \ {c}
  BY DEF Answer, Goto, IInv, TypeOK, Taken
<1>3. [d \in Clients |-> Outcome(ans[d])]' = [[d \in Clients |-> Outcome(ans[d])] EXCEPT ![c] = Outcome(a)]
  BY DEF Answer, IInv, TypeOK
<1>4. Outcome(a) \in {"ok", "error", "unsure"}
  BY OutcomeOfAnswer
<1> QED
  BY <1>1, <1>2, <1>3, <1>4 DEF Service!Close

\* Admission opens a call, closes it without effect, or is invisible.
LEMMA AdmissionRefines ==
  ASSUME IInv, RInv, IInv', Shows, Shows', NEW c \in Clients, Admission(c)
  PROVE  [Service!Next]_Service!vars
<1>1. QuietStep(c) /\ TypeOK /\ HandlerInv(c)
  BY AdmissionIsQuiet DEF IInv
<1>2. /\ UNCHANGED <<disk, journal, phase, damaged>> /\ phase = "up"
      /\ pc[c] \notin Taken /\ pc'[c] \notin Taken
      /\ pc[c] \notin Showing /\ pc'[c] \notin Showing
      /\ \A d \in Clients \ {c} : pc'[d] = pc[d] /\ req'[d] = req[d] /\ loc'[d] = loc[d]
  BY <1>1 DEF QuietStep, startup, Journaled, Showing, Taken
<1>3. Whole' = Whole
  <2>1. CASE \E d \in Clients : pc[d] \in Showing
    <3>1. PICK d \in Clients : pc[d] \in Showing
      BY <2>1
    <3>2. d # c /\ Seen(d)' = Seen(d) /\ (Gone' <=> Gone) /\ pc'[d] = pc[d]
      BY <1>2, <3>1 DEF Seen, Gone, Present
    <3> QED
      BY <1>2, <3>1, <3>2 DEF Shows, Showing
  <2>2. CASE \A d \in Clients : pc[d] \notin Showing
    <3>1. \A d \in Clients : pc'[d] \notin Showing
      BY <1>2, <2>2
    <3> QED
      BY <1>2, <2>2, <3>1 DEF Shows
  <2> QED
    BY <2>1, <2>2
<1>4. ASSUME UNCHANGED <<req, ans>>, pc[c] # "idle", pc'[c] # "idle"
      PROVE  [Service!Next]_Service!vars
  BY <1>2, <1>3, <1>4, InvisibleStep
<1>5. ASSUME NEW a \in Answers \ {"none", "lost"}, Answer(c, a), pc[c] # "idle", req' = req,
             a \in {"planned", "replayed"} \/ Outcome(a) = "error",
             a = "planned" => req[c].tool = "plan_bundle_change",
             a = "replayed" => Keyed(req[c])
      PROVE  [Service!Next]_Service!vars
  <2>1. OpenCalls[c] = req[c]
    BY <1>5, OpenCall
  <2>2. Service!Answers(c, Outcome(a))
    BY <1>2, <1>5, <2>1, OutcomeOfAnswer DEF Service!Answers, Keyed
  <2>3. Service!Close(c)
    BY <1>2, <1>3, <1>5, <2>2, AnswerCloses
  <2> QED
    BY <2>3 DEF Service!Next
<1>6. ASSUME NEW a \in Answers \ {"none", "lost", "success", "planned", "replayed",
                                  "persistence_error", "delete_error"},
             AnswerOnly(c, a), pc[c] # "idle"
      PROVE  [Service!Next]_Service!vars
  BY <1>5, <1>6, OutcomeOfAnswer DEF AnswerOnly
<1>7. ASSUME NEW label, label # "idle", NEW l, Proceed(c, label, l), pc[c] # "idle"
      PROVE  [Service!Next]_Service!vars
  <2>1. pc'[c] # "idle" /\ UNCHANGED <<req, ans>>
    BY <1>1, <1>7 DEF Proceed, Goto, TypeOK
  <2> QED
    BY <1>4, <1>7, <2>1
<1>16. ASSUME NEW l, Wait(c, l), pc[c] # "idle"
       PROVE  [Service!Next]_Service!vars
  <2>1. pc'[c] # "idle" /\ UNCHANGED <<req, ans>>
    BY <1>1, <1>16 DEF Wait, Goto, TypeOK
  <2> QED
    BY <1>4, <1>16, <2>1
<1>8. CASE Submit(c)
  <2>1. PICK r : req' = [req EXCEPT ![c] = r]
    BY <1>8 DEF Submit
  <2>2. pc[c] = "idle" /\ pc'[c] # "idle" /\ ans' = [ans EXCEPT ![c] = "none"]
    BY <1>1, <1>8 DEF Submit, Goto, TypeOK
  <2>3. req'[c] # Unused
    BY <2>2, FilesDiffer DEF IInv, HandlerInv, ToolOf
  <2>4. OpenCalls[c] = Unused /\ OpenCalls' = [OpenCalls EXCEPT ![c] = req'[c]] /\ OpenCalls'[c] = req'[c]
    BY <1>1, <1>2, <2>1, <2>2 DEF OpenCalls, TypeOK
  <2>5. {d \in Clients : pc[d] \in Taken}' = {d \in Clients : pc[d] \in Taken}
    BY <1>2
  <2>6. [d \in Clients |-> Outcome(ans[d])]' = [[d \in Clients |-> Outcome(ans[d])] EXCEPT ![c] = "none"]
    BY <1>1, <2>2, OutcomeOfAnswer DEF TypeOK
  <2>7. Service!Open(c)
    BY <1>2, <1>3, <2>3, <2>4, <2>5, <2>6 DEF Service!Open
  <2> QED
    BY <2>7 DEF Service!Next
<1>9. CASE PlanMake(c)
  <2>1. pc[c] = "read" /\ Answer(c, "planned") /\ req' = req
    BY <1>9 DEF PlanMake
  <2>2. req[c].tool = "plan_bundle_change"
    BY <2>1 DEF RInv, ClaimOf
  <2> QED
    BY <1>5, <2>1, <2>2, OutcomeOfAnswer DEF Answers
<1>10. CASE AcquireLock(c)
  <2>1. pc[c] = "lock" /\ pc'[c] # "idle" /\ UNCHANGED <<req, ans>>
    BY <1>1, <1>10 DEF AcquireLock, Goto, TypeOK
  <2> QED
    BY <1>4, <2>1
<1>11. CASE Replay(c)
  <2>1. pc[c] = "admit" /\ Keyed(req[c]) /\ req' = req
    BY <1>11 DEF Replay, ConsultsKey, Recorded, AnswerOnly
  <2>2. Answer(c, "replayed") \/ Answer(c, "idempotency_conflict")
    BY <1>11 DEF Replay, AnswerOnly
  <2> QED
    BY <1>5, <2>1, <2>2, OutcomeOfAnswer DEF Answers
<1>12. CASE PlanRead(c) \/ Refuse(c) \/ LockTimeout(c)
  BY <1>6, <1>7, <1>12 DEF PlanRead, Refuse, LockTimeout, Answers
<1>13. CASE ApplyAdmit(c) \/ RollbackAdmit(c) \/ ApplyCheck(c)
  BY <1>6, <1>7, <1>13, <1>16 DEF ApplyAdmit, RollbackAdmit, ApplyCheck, Answers
<1>14. CASE RollbackCheck(c) \/ DeleteCheck(c)
  BY <1>6, <1>7, <1>14 DEF RollbackCheck, DeleteCheck, Answers
<1>15. CASE CreateAdmit(c) \/ DeleteAdmit(c)
  BY <1>6, <1>7, <1>15 DEF CreateAdmit, DeleteAdmit, AfterAdmit, Answers
<1> QED
  BY <1>8, <1>9, <1>10, <1>11, <1>12, <1>13, <1>14, <1>15 DEF Admission

\* With the last file written, or found written after a crash, the call has taken effect in
\* the bundle its request names.
LEMMA TakesEffect ==
  ASSUME IInv, RInv, NEW c \in Clients, pc[c] \in {"write", "undo"}, pc[c] = "undo" => ~damaged,
         NEW b \in Bundles,
         \A f \in Files : b[f] = IF f \in DOMAIN loc[c].after THEN loc[c].after[f] ELSE disk[f],
         DOMAIN loc[c].after # {},
         \A l \in DOMAIN loc[c].after \ loc[c].done : disk[l] = loc[c].before[l],
         Whole = Seen(c),
         Whole' = IF req[c].tool = "delete_bundle" /\ (\A l \in Langs : b[l] = Absent) THEN Empty ELSE b
  PROVE  Service!Effect(req[c])
<1> DEFINE w == loc[c].after
<1>1. pc[c] \in Held \ {"check"} /\ req[c].tool \in Mutating
  BY Alone DEF Held
<1>2. /\ disk \in Bundles /\ DOMAIN loc[c].before = DOMAIN w /\ DOMAIN w \subseteq Langs
      /\ loc[c].done \subseteq DOMAIN w
      /\ \A l \in DOMAIN w : loc[c].before[l] \in Revisions /\ w[l] \in Revisions
  BY <1>1, HeldFiles
<1>3. HandlerInv(c) /\ HandlerR(c)
  BY DEF IInv, RInv, HandlerR
<1>4. \A f \in Files : Whole[f] = IF f \in DOMAIN w THEN loc[c].before[f] ELSE disk[f]
  BY <1>2 DEF Seen, Over, Only, Bundles
<1>5. b = [f \in Files |-> IF f \in DOMAIN w THEN w[f] ELSE Whole[f]]
  BY <1>4 DEF Bundles
<1>6. CASE req[c].tool = "apply_bundle_plan"
  <2>1. w = req[c].plan.after /\ Whole = req[c].plan.base
    BY <1>1, <1>3, <1>6 DEF HandlerR, ClaimOf, BaseOf
  <2>2. Whole' = b
    BY <1>6
  <2>3. Service!With(req[c].plan.after) = b
    BY <1>5, <2>1 DEF Service!With
  <2>4. Service!Applies(req[c])
    BY <2>1, <2>2, <2>3 DEF Service!Applies
  <2> QED
    BY <1>6, <2>4 DEF Service!Effect
<1>7. CASE req[c].tool = "rollback_bundle"
  <2>1. /\ Whole = req[c].expected
        /\ \A l \in DOMAIN w : w[l] = req[c].to[l] /\ req[c].to[l] # Absent
    BY <1>1, <1>3, <1>7 DEF HandlerR, ClaimOf, BaseOf
  <2>2. Whole' = b
    BY <1>7
  <2>3. DOMAIN w \in SUBSET {l \in Langs : req[c].to[l] # Absent}
    BY <1>2, <2>1
  <2>4. Service!With([l \in DOMAIN w |-> req[c].to[l]]) = b
    BY <1>5, <2>1 DEF Service!With
  <2>5. Service!RollsBack(req[c])
    BY <2>1, <2>2, <2>3, <2>4 DEF Service!RollsBack
  <2> QED
    BY <1>7, <2>5 DEF Service!Effect
<1>8. CASE req[c].tool = "create_bundle"
  <2>1. w = req[c].files /\ \A l \in DOMAIN w : loc[c].before[l] = Absent
    BY <1>1, <1>2, <1>3, <1>8 DEF HandlerR, ClaimOf, HandlerInv, LifecycleOf
  <2>2. Whole' = b
    BY <1>8
  <2>3. Service!With(req[c].files) = b
    BY <1>5, <2>1 DEF Service!With
  <2>4. \A l \in DOMAIN req[c].files : Whole[l] = Absent
    BY <1>2, <1>4, <2>1 DEF Files
  <2>5. Service!Creates(req[c])
    BY <2>2, <2>3, <2>4 DEF Service!Creates
  <2> QED
    BY <1>8, <2>5 DEF Service!Effect
<1>9. CASE req[c].tool = "delete_bundle"
  <2>1. loc[c].before = req[c].files /\ \A l \in DOMAIN w : w[l] = Absent
    BY <1>1, <1>3, <1>9 DEF HandlerInv, LifecycleOf
  <2>2. Service!With([l \in DOMAIN req[c].files |-> Absent]) = b
    BY <1>2, <1>5, <2>1 DEF Service!With
  <2>3. \A l \in DOMAIN req[c].files : Whole[l] = req[c].files[l]
    BY <1>2, <1>4, <2>1 DEF Files
  <2>4. Whole' = Service!Without(DOMAIN req[c].files)
    BY <1>9, <2>2 DEF Service!Without, Service!Empty, Empty
  <2>5. Service!Deletes(req[c])
    BY <2>3, <2>4 DEF Service!Deletes
  <2> QED
    BY <1>9, <2>5 DEF Service!Effect
<1> QED
  BY <1>1, <1>6, <1>7, <1>8, <1>9 DEF Mutating

\* With the last file the call takes effect; the writes before it are invisible.
LEMMA WriteFileRefines ==
  ASSUME IInv, RInv, Shows, Shows', NEW c \in Clients, WriteFile(c)
  PROVE  [Service!Next]_Service!vars
<1>1. /\ Seen(c)' = Seen(c) /\ UNCHANGED <<req, damaged, journal, ans>>
      /\ loc'[c].before = loc[c].before /\ loc'[c].after = loc[c].after
  BY WriteSeen
<1>2. PICK l \in Remaining(c) :
        /\ ~Exists(c, l) /\ disk[l] = loc[c].before[l]
        /\ \A f \in Files : disk'[f] = IF f = l THEN loc[c].after[l] ELSE disk[f]
        /\ \/ Remaining(c) = {l} /\ pc' = [pc EXCEPT ![c] = AfterWrite(req[c])]
           \/ Remaining(c) # {l} /\ pc' = pc
  BY WriteSeen
<1>3. /\ pc[c] = "write" /\ pc[c] \in Held \ {"check"} /\ phase = "up" /\ phase' = "up"
      /\ pc \in [Clients -> Labels] /\ Whole = Seen(c) /\ req[c].tool \in Mutating
  BY Alone DEF WriteFile, Held, startup, IInv, TypeOK, Shows
<1>4. /\ disk \in Bundles /\ loc[c].done \subseteq DOMAIN loc[c].after /\ Placed(c)
      /\ DOMAIN loc[c].after \subseteq Langs
      /\ \A m \in DOMAIN loc[c].after : loc[c].before[m] \in Revisions /\ loc[c].after[m] \in Revisions
  BY <1>3, HeldFiles
<1>5. CASE pc' = pc
  <2>1. Whole' = Whole
    BY <1>1, <1>3, <1>5 DEF Shows
  <2> QED
    BY <1>1, <1>3, <1>5, <2>1, InvisibleStep
<1>6. CASE Remaining(c) = {l} /\ pc' = [pc EXCEPT ![c] = AfterWrite(req[c])]
  <2>1. /\ pc'[c] = AfterWrite(req[c]) /\ pc'[c] \in Taken
        /\ pc'[c] \in {"tidy", "consume", "reconcile"}
        /\ pc'[c] = "tidy" <=> req[c].tool = "delete_bundle"
    BY <1>3, <1>6 DEF AfterWrite, Taken
  <2>2. \A d \in Clients \ {c} : pc[d] \notin Held /\ pc'[d] = pc[d]
    BY <1>3, <1>6, Alone
  <2>3. PICK b : b = disk'
    OBVIOUS
  <2>4. b \in Bundles
    <3>1. disk' = [disk EXCEPT ![l] = loc[c].after[l]]
      <4>1. PICK m \in Remaining(c) : disk' = [disk EXCEPT ![m] = loc[c].after[m]]
        BY DEF WriteFile
      <4> QED
        BY <1>6, <4>1
    <3>2. l \in DOMAIN loc[c].after
      BY DEF Remaining
    <3> QED
      BY <1>4, <2>3, <3>1, <3>2 DEF Bundles, Files
  <2>5. Whole' = IF req[c].tool = "delete_bundle" /\ (\A m \in Langs : b[m] = Absent) THEN Empty ELSE b
    <3>1. CASE req[c].tool = "delete_bundle"
      <4>1. Gone' <=> \A m \in Langs : b[m] = Absent
        BY <2>3 DEF Gone, Present
      <4> QED
        BY <2>1, <2>3, <3>1, <4>1 DEF Shows
    <3>2. CASE req[c].tool # "delete_bundle"
      <4>1. \A d \in Clients : pc'[d] \notin Showing
        BY <2>1, <2>2, <3>2 DEF Showing, Held, Taken
      <4> QED
        BY <1>3, <2>3, <3>2, <4>1 DEF Shows
    <3> QED
      BY <3>1, <3>2
  <2>6. l \in DOMAIN loc[c].after /\ l \notin loc[c].done /\ loc[c].done \cup {l} = DOMAIN loc[c].after
    BY <1>4, <1>6 DEF Remaining
  <2>7. \A f \in Files : b[f] = IF f \in DOMAIN loc[c].after THEN loc[c].after[f] ELSE disk[f]
    BY <1>2, <1>4, <2>3, <2>6 DEF Placed
  <2>8. Service!Effect(req[c])
    <3>1. \A m \in DOMAIN loc[c].after \ loc[c].done : disk[m] = loc[c].before[m]
      BY <1>2, <2>6
    <3> QED
      BY <1>3, <2>4, <2>5, <2>6, <2>7, <3>1, TakesEffect
  <2>9. OpenCalls[c] = req[c] /\ OpenCalls[c] # Unused /\ OpenCalls' = OpenCalls
    BY <1>1, <1>3, <1>6, <2>1, <2>2, OpenCall DEF OpenCalls, Taken
  <2>10. {d \in Clients : pc[d] \in Taken}' = {d \in Clients : pc[d] \in Taken} \cup {c}
    BY <2>1, <2>2
  <2>11. [d \in Clients |-> Outcome(ans[d])]' = [d \in Clients |-> Outcome(ans[d])]
    BY <1>1
  <2>12. c \notin {d \in Clients : pc[d] \in Taken}
    BY <1>3 DEF Taken
  <2>13. Service!Take(c)
    BY <1>1, <1>3, <2>8, <2>9, <2>10, <2>11, <2>12 DEF Service!Take
  <2> QED
    BY <2>13 DEF Service!Next
<1> QED
  BY <1>2, <1>5, <1>6


\* The other steps of the handler that holds the lock.
LEMMA MutationRefines ==
  ASSUME IInv, RInv, IInv', RInv', Shows, Shows', NEW c \in Clients, Mutation(c)
  PROVE  [Service!Next]_Service!vars
<1>1. /\ TypeOK /\ HandlerInv(c) /\ pc[c] \in Held /\ pc[c] # "idle" /\ phase = "up" /\ phase' = "up"
      /\ req' = req
      /\ \A d \in Clients \ {c} : pc[d] \notin Held /\ pc'[d] = pc[d]
  BY MutationIsHeld, Alone DEF IInv, startup, Held, Taken
<1>2. OpenCalls[c] = req[c]
  BY <1>1, OpenCall
<1>3. pc[c] \notin Showing => Whole = disk
  BY <1>1 DEF Shows, Showing, Held, Taken
<1>4. pc'[c] \notin Showing => Whole' = disk'
  BY <1>1 DEF Shows, Showing, Held, Taken
<1>5. ASSUME UNCHANGED <<damaged, ans>>, pc'[c] # "idle", pc'[c] \in Taken <=> pc[c] \in Taken, Whole' = Whole
      PROVE  [Service!Next]_Service!vars
  BY <1>1, <1>5, InvisibleStep
<1>6. ASSUME NEW a \in Answers \ {"none", "lost"}, Answer(c, a), damaged' = damaged, Whole' = Whole,
             \/ a = "rolled_back" /\ pc[c] \notin Taken
             \/ a \in {"success", "persistence_error"} /\ pc[c] \in Taken
      PROVE  [Service!Next]_Service!vars
  <2>1. Service!Answers(c, Outcome(a))
    BY <1>6, OutcomeOfAnswer DEF Service!Answers
  <2>2. Service!Close(c)
    BY <1>1, <1>6, <2>1, AnswerCloses
  <2> QED
    BY <2>2 DEF Service!Next
<1>7. ASSUME damaged' PROVE [Service!Next]_Service!vars
  BY <1>7 DEF Service!Next, Service!Damage
<1>8. CASE Snapshot(c)
  <2>1. pc[c] = "snapshot" /\ pc'[c] = "begin" /\ UNCHANGED <<disk, damaged, ans>>
    BY <1>1, <1>8 DEF Snapshot, Goto, TypeOK
  <2> QED
    BY <1>3, <1>4, <1>5, <2>1 DEF Showing, Taken
<1>9. CASE Begin(c)
  <2>1. pc[c] = "begin" /\ pc'[c] = "write" /\ UNCHANGED <<disk, damaged, ans>>
    BY <1>1, <1>9 DEF Begin, Goto, TypeOK
  <2>2. loc'[c].done = {}
    BY <1>1, <1>9 DEF Begin, TypeOK, Locals, HandlerInv, LocalsOf, Journaled, Taken
  <2>3. Whole' = disk
    BY <1>1, <2>1, <2>2, SeenFirst DEF Shows, Seen, TypeOK
  <2> QED
    BY <1>3, <1>5, <2>1, <2>3 DEF Showing, Taken
<1>10. CASE WriteFile(c)
  BY <1>10, WriteFileRefines
<1>11. CASE WriteFails(c)
  <2>1. pc[c] = "write" /\ pc'[c] = "undo" /\ UNCHANGED <<disk, loc, damaged, ans>>
    BY <1>1, <1>11 DEF WriteFails, Goto, TypeOK
  <2>2. Whole' = Whole
    BY <2>1 DEF Shows, Seen
  <2> QED
    BY <1>5, <2>1, <2>2 DEF Taken
<1>12. CASE Undo(c)
  <2>1. pc[c] = "undo" /\ pc'[c] = "undo" /\ ans' = ans
    BY <1>12 DEF Undo
  <2>2. ASSUME ~damaged' PROVE Whole' = Whole /\ damaged' = damaged
    BY <1>1, <1>12, <2>1, <2>2, UndoSeen DEF Shows, IInv, TypeOK
  <2> QED
    BY <1>5, <1>7, <2>1, <2>2
<1>13. CASE RolledBack(c)
  <2>1. pc[c] = "undo" /\ loc[c].done = {} /\ Answer(c, "rolled_back") /\ UNCHANGED <<disk, damaged>>
    BY <1>13 DEF RolledBack, AnswerOnly
  <2>2. Whole = disk
    BY <1>1, <2>1, SeenFirst DEF Shows, Seen, TypeOK
  <2>3. pc'[c] = "idle"
    BY <1>1, <2>1 DEF Answer, Goto, TypeOK
  <2> QED
    BY <1>4, <1>6, <2>1, <2>2, <2>3 DEF Showing, Taken, Answers
<1>14. CASE Tidy(c)
  <2>1. /\ pc[c] = "tidy" /\ pc'[c] = "reconcile" /\ UNCHANGED <<damaged, ans>>
        /\ disk' = IF Gone THEN Empty ELSE disk
    BY <1>1, <1>14 DEF Tidy, Goto, TypeOK
  <2>2. Whole = disk'
    BY <2>1 DEF Shows
  <2> QED
    BY <1>4, <1>5, <2>1, <2>2 DEF Showing, Taken
<1>15. CASE TidyFails(c)
  BY <1>7, <1>15 DEF TidyFails
<1>16. CASE Consume(c) \/ Reconcile(c) \/ Stage(c) \/ Remember(c)
  <2>1. /\ pc[c] \in Taken \ {"tidy"} /\ pc'[c] \in Taken \ {"tidy"}
        /\ UNCHANGED <<disk, damaged, ans>>
    BY <1>1, <1>16 DEF Consume, Reconcile, Stage, Proceed, Remember, Goto, TypeOK, Taken
  <2> QED
    BY <1>3, <1>4, <1>5, <2>1 DEF Showing, Taken
<1>17. CASE StageFails(c) \/ Commit(c)
  <2>1. /\ pc[c] \in Taken \ {"tidy"} /\ UNCHANGED <<disk, damaged>>
        /\ Answer(c, "success") \/ Answer(c, "persistence_error")
    BY <1>17 DEF StageFails, Commit, Taken
  <2>2. pc'[c] = "idle"
    BY <1>1, <2>1 DEF Answer, Goto, TypeOK
  <2> QED
    BY <1>3, <1>4, <1>6, <2>1, <2>2 DEF Showing, Taken, Answers
<1> QED
  BY <1>8, <1>9, <1>10, <1>11, <1>12, <1>13, <1>14, <1>15, <1>16, <1>17 DEF Mutation

\* What the callers see of a bundle that the process leaves torn: the bundle before the
\* call; one that is whole counts as written if a file shows it.
LEMMA CrashShows ==
  ASSUME IInv, RInv, RInv', Shows, Shows', Crash, ~damaged'
  PROVE  \/ Whole' = Whole
         \/ \E c \in Clients : pc[c] \notin Taken /\ pc[c] # "idle" /\ Service!Effect(req[c])
<1>1. /\ phase' = "down" /\ ~damaged /\ UNCHANGED <<disk, journal>>
  BY DEF Crash
<1>2. CASE journal = {}
  <2>1. Whole' = disk
    BY <1>1, <1>2 DEF Shows
  <2>2. \A c \in Clients : pc[c] \notin Showing
    BY <1>2 DEF IInv, OwnInv, Showing, Journaled, Taken
  <2> QED
    BY <1>2, <2>1, <2>2 DEF Shows
<1>3. ASSUME NEW e \in journal
      PROVE  \/ Whole' = Whole
             \/ \E c \in Clients : pc[c] \notin Taken /\ pc[c] # "idle" /\ Service!Effect(req[c])
  <2>1. (Torn(e)' <=> Torn(e)) /\ (Sweeps(e)' <=> Sweeps(e))
    BY <1>1 DEF Torn, Sweeps, Landed, Known, AsBefore, AsAfter
  <2>2. \A f \in journal : f = e
    BY <1>1, <1>3 DEF RInv, TornInv
  <2>3. Whole' = IF Torn(e) THEN Over(e.before, disk) ELSE IF Sweeps(e) THEN Empty ELSE disk
    <3>1. \A f \in journal' : f = e
      BY <1>1, <2>2
    <3> QED
      BY <1>1, <1>3, <2>1, <3>1 DEF Shows
  <2>4. CASE phase # "up"
    BY <1>3, <2>2, <2>3, <2>4 DEF Shows
  <2>5. CASE phase = "up"
    <3>1. PICK c \in Clients : /\ OwnerOf(e, c)
                               /\ pc[c] \in Taken => AsAfter(e)
                               /\ \A l \in DOMAIN e.after \ loc[c].done : disk[l] = e.before[l]
                               /\ \A l \in loc[c].done : disk[l] = e.after[l]
      BY <2>5, EntryLeft
    <3>2. /\ pc[c] \in Held \ {"check"} /\ pc[c] \in Journaled /\ HandlerInv(c) /\ HandlerR(c)
          /\ e.req = req[c] /\ e.before = loc[c].before /\ e.after = loc[c].after /\ e = loc[c].entry
      BY <3>1 DEF OwnerOf, IInv, RInv, HandlerR, Held, Journaled, Taken
    <3>3. /\ disk \in Bundles /\ DOMAIN loc[c].before = DOMAIN loc[c].after
          /\ DOMAIN loc[c].after \subseteq Langs /\ loc[c].done \subseteq DOMAIN loc[c].after
      BY <1>1, <3>2, HeldFiles
    <3>4. e.cleanup => \A l \in DOMAIN e.after : e.after[l] = Absent
      BY DEF IInv, EntryInv
    <3>5. e.cleanup <=> req[c].tool = "delete_bundle" /\ \A l \in Langs \ DOMAIN e.after : disk[l] = Absent
      BY <3>2 DEF HandlerR, SweepOf
    <3>6. req[c].tool = "delete_bundle" => /\ \A l \in DOMAIN e.after : e.after[l] = Absent
                                           /\ \A l \in DOMAIN e.before : e.before[l] # Absent
      BY <3>2 DEF HandlerInv, LifecycleOf, HandlerR, ClaimOf
    <3>7. CASE pc[c] \in Taken
      <4>1. AsAfter(e) /\ ~Torn(e)
        BY <3>1, <3>7 DEF Torn
      <4>2. CASE pc[c] = "tidy"
        <5>1. req[c].tool = "delete_bundle" /\ DOMAIN e.after # {}
          BY <3>2, <4>2 DEF HandlerInv, ToolOf, HandlerR, SweepOf, Taken
        <5>2. ~AsBefore(e)
          BY <3>2, <3>3, <3>6, <4>1, <5>1 DEF AsBefore, AsAfter
        <5>3. Sweeps(e) <=> Gone
          BY <3>3, <3>2, <3>5, <3>6, <4>1, <5>1, <5>2 DEF Sweeps, Landed, AsAfter, Gone, Present
        <5> QED
          BY <2>3, <4>1, <4>2, <5>3 DEF Shows
      <4>3. CASE pc[c] # "tidy"
        <5>1. Whole = disk
          BY <2>5, <3>2, <3>7, <4>3, Alone DEF Shows, Showing, Held, Taken
        <5>2. Sweeps(e) => disk = Empty
          BY <3>2, <3>7, <4>3 DEF HandlerR, SweepOf, Sweeps
        <5> QED
          BY <2>3, <4>1, <5>1, <5>2
      <4> QED
        BY <4>2, <4>3
    <3>8. CASE pc[c] \notin Taken
      <4>1. pc[c] \in {"write", "undo"} /\ Whole = Seen(c)
        BY <3>2, <3>8 DEF Journaled, Shows
      <4>2. \A f \in Files : Seen(c)[f] = IF f \in DOMAIN e.before THEN e.before[f] ELSE disk[f]
        BY <3>1, <3>2, <3>3 DEF Seen, Over, Only, Bundles
      <4>3. Seen(c) = Over(e.before, disk)
        BY <3>3, <4>2 DEF Seen, Over, Bundles
      <4>4. CASE Torn(e)
        BY <2>3, <4>1, <4>3, <4>4
      <4>5. CASE AsBefore(e)
        <5>1. Over(e.before, disk) = disk
          BY <3>2, <3>3, <4>5 DEF Over, AsBefore, Bundles
        <5> QED
          BY <2>3, <4>1, <4>3, <4>5, <5>1 DEF Torn, Sweeps, Landed
      <4>6. CASE ~Torn(e) /\ ~AsBefore(e)
        <5>1. AsAfter(e) /\ Landed(e)
          BY <2>5, <4>6, EntryLeft DEF Torn, Landed
        <5>2. \A f \in Files : disk[f] = IF f \in DOMAIN loc[c].after THEN loc[c].after[f] ELSE disk[f]
          BY <3>2, <5>1 DEF AsAfter
        <5>3. DOMAIN loc[c].after # {}
          BY <3>2, <4>6 DEF AsBefore
        <5>4. Whole' = IF req[c].tool = "delete_bundle" /\ (\A l \in Langs : disk[l] = Absent) THEN Empty ELSE disk
          BY <2>3, <3>2, <3>3, <3>5, <3>6, <4>6, <5>1 DEF Sweeps, AsAfter
        <5>5. Service!Effect(req[c])
          BY <1>1, <3>1, <3>2, <3>3, <4>1, <5>2, <5>3, <5>4, TakesEffect
        <5> QED
          BY <3>8, <4>1, <5>5
      <4> QED
        BY <4>4, <4>5, <4>6
    <3> QED
      BY <3>7, <3>8
  <2> QED
    BY <2>4, <2>5
<1> QED
  BY <1>2, <1>3

LEMMA CrashRefines ==
  ASSUME IInv, RInv, RInv', Shows, Shows', Crash
  PROVE  [Service!Next]_Service!vars
<1>1. CASE damaged'
  BY <1>1 DEF Service!Next, Service!Damage
<1>2. CASE ~damaged'
  <2>1. OpenCalls' = [c \in Clients |-> Unused]
    BY DEF Crash, OpenCalls
  <2>2. {c \in Clients : pc[c] \in Taken}' = {}
    BY DEF Crash, Taken
  <2>3. [c \in Clients |-> Outcome(ans[c])]' =
          [c \in Clients |-> IF OpenCalls[c] = Unused THEN [d \in Clients |-> Outcome(ans[d])][c] ELSE "lost"]
    <3>1. \A c \in Clients : Outcome(ans'[c]) = IF pc[c] = "idle" THEN Outcome(ans[c]) ELSE "lost"
      BY OutcomeOfAnswer DEF Crash
    <3> QED
      BY <3>1, OpenCall
  <2>4. damaged' = damaged
    BY <1>2 DEF Crash, IInv, TypeOK
  <2>5. \/ Whole' = Whole
        \/ \E c \in Clients \ {d \in Clients : pc[d] \in Taken} :
             OpenCalls[c] # Unused /\ Service!Effect(OpenCalls[c])
    <3>1. CASE \E c \in Clients : pc[c] \notin Taken /\ pc[c] # "idle" /\ Service!Effect(req[c])
      <4>1. PICK c \in Clients : pc[c] \notin Taken /\ pc[c] # "idle" /\ Service!Effect(req[c])
        BY <3>1
      <4>2. OpenCalls[c] = req[c] /\ OpenCalls[c] # Unused
        BY <4>1, OpenCall
      <4> QED
        BY <4>1, <4>2
    <3> QED
      BY <1>2, <3>1, CrashShows
  <2>6. Service!Die
    BY <2>1, <2>2, <2>3, <2>4, <2>5 DEF Service!Die, Crash
  <2> QED
    BY <2>6 DEF Service!Next
<1> QED
  BY <1>1, <1>2

\* Startup never changes what the callers see, and serves it when it is settled.
LEMMA StartupStep ==
  ASSUME IInv, IInv', phase # "up", StartupFrame, ~damaged, ~damaged', Whole' = Whole
  PROVE  [Service!Next]_Service!vars
<1>1. UNCHANGED <<pc, req, ans>> /\ damaged' = damaged
  BY DEF StartupFrame, IInv, TypeOK
<1>2. OpenCalls' = OpenCalls
  BY <1>1 DEF OpenCalls
<1>3. {c \in Clients : pc[c] \in Taken}' = {c \in Clients : pc[c] \in Taken}
  BY <1>1
<1>4. [c \in Clients |-> Outcome(ans[c])]' = [c \in Clients |-> Outcome(ans[c])]
  BY <1>1
<1>5. CASE phase' = "up"
  <2>1. Service!Serve
    BY <1>1, <1>2, <1>3, <1>4, <1>5 DEF Service!Serve
  <2> QED
    BY <2>1 DEF Service!Next
<1>6. CASE phase' # "up"
  BY <1>1, <1>2, <1>3, <1>4, <1>6 DEF Service!vars
<1> QED
  BY <1>5, <1>6

\* A bundle that is settled is what the callers see.
LEMMA SettledShows ==
  ASSUME RInv, Shows, phase # "up", ~damaged, \A e \in journal : Settled(e)
  PROVE  Whole = disk
<1>1. CASE journal = {}
  BY <1>1 DEF Shows
<1>2. ASSUME NEW e \in journal PROVE Whole = disk
  <2>1. \A f \in journal : f = e
    BY <1>2 DEF RInv, TornInv
  <2> QED
    BY <1>2, <2>1 DEF Shows, Settled
<1> QED
  BY <1>1, <1>2

\* A step that leaves files and journal does not change what the callers see.
LEMMA SameShown ==
  ASSUME RInv, RInv', Shows, Shows', ~damaged, UNCHANGED <<disk, journal>>, phase # "up", phase' # "up"
  PROVE  Whole' = Whole
<1>1. CASE journal = {}
  BY <1>1 DEF Shows
<1>2. ASSUME NEW e \in journal PROVE Whole' = Whole
  <2>1. \A f \in journal : f = e
    BY <1>2 DEF RInv, TornInv
  <2>2. (Torn(e)' <=> Torn(e)) /\ (Sweeps(e)' <=> Sweeps(e))
    BY DEF Torn, Sweeps, Landed, Known, AsBefore, AsAfter
  <2>3. \A f \in journal' : f = e
    BY <2>1
  <2> QED
    BY <1>2, <2>1, <2>2, <2>3 DEF Shows
<1> QED
  BY <1>1, <1>2

LEMMA StartupRefines ==
  ASSUME IInv, RInv, IInv', RInv', Shows, Shows', Startup
  PROVE  [Service!Next]_Service!vars
<1>1. CASE damaged'
  BY <1>1 DEF Service!Next, Service!Damage
<1>2. CASE ~damaged'
  <2>1. CASE BootIndex \/ PrepareDone \/ StartupSync \/ BootDone
    <3>1. UNCHANGED <<disk, journal, damaged>> /\ StartupFrame /\ phase # "up"
      BY <2>1 DEF BootIndex, PrepareDone, StartupSync, BootDone
    <3>2. CASE phase' # "up"
      BY <1>2, <3>1, <3>2, SameShown, StartupStep
    <3>3. CASE phase' = "up"
      <4>1. phase \in {"sync", "commit"} \/ (phase = "prepare" /\ todo = {})
        BY <2>1, <3>3 DEF BootIndex, PrepareDone, StartupSync, BootDone
      <4>2. \A e \in journal : Settled(e)
        BY <1>2, <3>1, <4>1 DEF RInv, TornInv
      <4>3. Whole = disk
        BY <1>2, <3>1, <4>2, SettledShows
      <4>4. \A c \in Clients : pc'[c] \notin Showing
        BY <3>1, StartupOthers DEF Showing
      <4>5. Whole' = disk
        BY <3>1, <3>3, <4>4 DEF Shows
      <4> QED
        BY <1>2, <3>1, <4>3, <4>5, StartupStep
    <3> QED
      BY <3>2, <3>3
  <2>2. ASSUME NEW e \in todo, PrepareEntry(e)
        PROVE  [Service!Next]_Service!vars
    <3>1. /\ e \in journal /\ (\A f \in journal : f = e) /\ ~damaged /\ ~Torn(e)
          /\ disk' = IF Sweeps(e) THEN Empty ELSE disk
          /\ ~Torn(e)' /\ (Sweeps(e)' <=> Sweeps(e))
      BY <1>2, <2>2, PrepareKeeps
    <3>2. journal' = journal /\ phase # "up" /\ phase' # "up" /\ StartupFrame
      BY <2>2 DEF PrepareEntry
    <3>3. Whole = IF Sweeps(e) THEN Empty ELSE disk
      BY <3>1, <3>2 DEF Shows
    <3>4. \A f \in journal' : f = e
      BY <3>1, <3>2
    <3>5. Whole' = IF Sweeps(e) THEN Empty ELSE disk'
      BY <3>1, <3>2, <3>4 DEF Shows
    <3> QED
      BY <1>2, <3>1, <3>2, <3>3, <3>5, StartupStep
  <2>3. ASSUME NEW e \in todo, RestoreFile(e)
        PROVE  [Service!Next]_Service!vars
    <3>1. /\ e \in journal /\ Torn(e) /\ ~damaged /\ journal' = journal
          /\ phase # "up" /\ phase' # "up" /\ StartupFrame
          /\ \E l \in DOMAIN e.before : disk[l] # e.before[l] /\ disk' = [disk EXCEPT ![l] = e.before[l]]
      BY <1>2, <2>3 DEF RestoreFile, IInv, PhaseInv
    <3>2. PICK l \in DOMAIN e.before : disk[l] # e.before[l] /\ disk' = [disk EXCEPT ![l] = e.before[l]]
      BY <3>1
    <3>3. /\ \A f \in journal : f = e
          /\ \A f \in journal' : f = e
      BY <3>1 DEF RInv, TornInv
    <3>4. DOMAIN e.before = DOMAIN e.after /\ DOMAIN e.after \subseteq Langs /\ disk \in Bundles
      BY <3>1, PartialFacts DEF IInv, EntryInv, TypeOK, Entries
    <3>5. /\ DOMAIN disk' = Files /\ DOMAIN disk = Files /\ l \in Files
          /\ \A f \in Files : disk'[f] = IF f = l THEN e.before[l] ELSE disk[f]
      BY <3>2, <3>4 DEF Bundles, Files
    <3>6. Over(e.before, disk') = Over(e.before, disk)
      BY <3>5 DEF Over
    <3>7. Whole = Over(e.before, disk)
      BY <3>1, <3>3 DEF Shows
    <3>8. Whole' = Over(e.before, disk')
      <4>1. CASE Torn(e)'
        <5>1. PICK d : d = disk'
          OBVIOUS
        <5>2. Whole' = Over(e.before, d)
          BY <3>1, <3>3, <4>1, <5>1 DEF Shows
        <5> QED
          BY <5>1, <5>2
      <4>2. CASE ~Torn(e)'
        <5>1. Known(e)'
          BY <1>2, <3>1 DEF RInv, TornInv
        <5>2. ~AsAfter(e)'
          <6>1. disk[l] = e.after[l] /\ disk'[l] = e.before[l]
            BY <3>1, <3>2, <3>4, <3>5 DEF Torn, Known
          <6> QED
            BY <3>2, <3>4, <6>1 DEF AsAfter
        <5>3. AsBefore(e)'
          BY <4>2, <5>1, <5>2 DEF Torn
        <5>4. Whole' = disk'
          BY <3>1, <3>3, <4>2, <5>2 DEF Shows, Sweeps, Landed
        <5>5. \A f \in DOMAIN e.before : disk'[f] = e.before[f]
          BY <3>4, <5>3 DEF AsBefore
        <5>6. disk' \in Bundles
          BY DEF IInv, TypeOK
        <5>7. Over(e.before, disk') = disk'
          BY <5>5, <5>6 DEF Over, Bundles
        <5> QED
          BY <5>4, <5>7
      <4> QED
        BY <4>1, <4>2
    <3> QED
      BY <1>2, <3>1, <3>6, <3>7, <3>8, StartupStep
  <2>4. ASSUME NEW e \in todo, ReconcileEntry(e)
        PROVE  [Service!Next]_Service!vars
    <3>1. /\ phase = "commit" /\ phase' = "commit" /\ journal' \subseteq journal
          /\ UNCHANGED <<disk, damaged>> /\ StartupFrame
      BY <2>4 DEF ReconcileEntry
    <3>2. Whole = disk
      BY <1>2, <3>1, SettledShows DEF RInv, TornInv
    <3>3. Whole' = disk
      <4>1. CASE journal' = {}
        BY <3>1, <4>1 DEF Shows
      <4>2. ASSUME NEW f \in journal' PROVE Whole' = disk
        <5>1. (\A g \in journal' : g = f) /\ Settled(f)'
          BY <1>2, <3>1, <4>2 DEF RInv, TornInv
        <5> QED
          BY <3>1, <4>2, <5>1 DEF Shows, Settled
      <4> QED
        BY <4>1, <4>2
    <3> QED
      BY <1>2, <3>1, <3>2, <3>3, StartupStep
  <2> QED
    BY <2>1, <2>2, <2>3, <2>4 DEF Startup
<1> QED
  BY <1>1, <1>2

\* Another tool's write is an edit; a plan or a snapshot that expires is not seen.
LEMMA OthersRefine ==
  ASSUME IInv, RInv, RInv', Shows, Shows', EditPage \/ Expire \/ UNCHANGED vars
  PROVE  [Service!Next]_Service!vars
<1>1. /\ UNCHANGED <<phase, pc, req, loc, ans, damaged>> /\ OpenCalls' = OpenCalls
      /\ {c \in Clients : pc[c] \in Taken}' = {c \in Clients : pc[c] \in Taken}
      /\ [c \in Clients |-> Outcome(ans[c])]' = [c \in Clients |-> Outcome(ans[c])]
  BY DEF EditPage, Expire, vars, startup, OpenCalls
<1>2. CASE EditPage
  <2>1. /\ phase = "up" /\ lock = NoClient
        /\ \E f \in Files, v \in Revisions : disk' = [disk EXCEPT ![f] = v] \/ disk' = Empty
    BY <1>2 DEF EditPage
  <2>2. \A c \in Clients : pc[c] \notin Showing
    BY <2>1, Alone DEF Showing, Held, Taken
  <2>3. Whole = disk /\ Whole' = disk'
    BY <1>1, <2>1, <2>2 DEF Shows
  <2>4. Service!Edit
    BY <1>1, <2>1, <2>3 DEF Service!Edit, Service!Empty, Empty
  <2> QED
    BY <2>4 DEF Service!Next
<1>3. CASE Expire \/ UNCHANGED vars
  <2>1. UNCHANGED <<disk, journal>>
    BY <1>3 DEF Expire, vars
  <2>2. CASE damaged
    BY <1>1, <2>2 DEF Service!Next, Service!Damage
  <2>3. CASE ~damaged /\ phase # "up"
    <3>1. Whole' = Whole
      BY <1>1, <2>1, <2>3, SameShown
    <3> QED
      BY <1>1, <3>1 DEF Service!vars
  <2>4. CASE phase = "up"
    <3>1. Whole' = Whole
      <4>1. CASE \E c \in Clients : pc[c] \in Showing
        <5>1. PICK c \in Clients : pc[c] \in Showing
          BY <4>1
        <5>2. Seen(c)' = Seen(c) /\ (Gone' <=> Gone) /\ pc'[c] = pc[c]
          BY <1>1, <2>1 DEF Seen, Gone, Present
        <5> QED
          BY <2>1, <5>1, <5>2 DEF Shows, Showing
      <4>2. CASE \A c \in Clients : pc[c] \notin Showing
        BY <1>1, <2>1, <2>4, <4>2 DEF Shows
      <4> QED
        BY <4>1, <4>2
    <3> QED
      BY <1>1, <3>1 DEF Service!vars
  <2> QED
    BY <2>2, <2>3, <2>4
<1> QED
  BY <1>2, <1>3

\* Whatever the number of callers, translations, keys, crashes and failures: a call changes
\* all of its translations in one step or none, in the state it names, and says which, until
\* a failure leaves something that nothing repairs.
THEOREM BundleRefinement == Spec => ImplementsService
<1>1. Init => RInv
  BY InitR
<1>2. IInv /\ IInv' /\ RInv /\ [Next]_vars => RInv'
  BY NextR
<1>3. IInv => Shows
  BY WholeShows
<1>4. Init => Service!Init
  <2> SUFFICES ASSUME Init PROVE Service!Init
    OBVIOUS
  <2>1. IInv /\ Shows
    BY InitInv, WholeShows
  <2>2. Whole = disk /\ disk \in [Files -> Revisions]
    BY <2>1 DEF Init, Shows, Showing, IInv, TypeOK, Bundles
  <2>3. OpenCalls = [c \in Clients |-> Unused]
    BY DEF Init, OpenCalls
  <2>4. {c \in Clients : pc[c] \in Taken} = {}
    BY DEF Init, Taken
  <2>5. [c \in Clients |-> Outcome(ans[c])] = [c \in Clients |-> "none"]
    BY OutcomeOfAnswer DEF Init
  <2>6. (phase = "up") = TRUE /\ damaged = FALSE
    BY DEF Init
  <2> QED
    BY <2>2, <2>3, <2>4, <2>5, <2>6 DEF Service!Init
<1>5. IInv /\ IInv' /\ RInv /\ RInv' /\ Shows /\ Shows' /\ [Next]_vars => [Service!Next]_Service!vars
  <2> SUFFICES ASSUME IInv, IInv', RInv, RInv', Shows, Shows', [Next]_vars
               PROVE  [Service!Next]_Service!vars
    OBVIOUS
  <2>1. CASE \E c \in Clients : Admission(c) \/ Mutation(c)
    BY <2>1, AdmissionRefines, MutationRefines
  <2> QED
    BY <2>1, CrashRefines, StartupRefines, OthersRefine DEF Next, Rest
<1> QED
  BY <1>1, <1>2, <1>3, <1>4, <1>5, BundleInvariant, PTL DEF Spec, ImplementsService, Service!Spec
=============================================================================

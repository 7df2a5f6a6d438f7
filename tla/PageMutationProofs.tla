------------------------- MODULE PageMutationProofs ------------------------
(***************************************************************************)
(* The inductive invariant of PageMutation holds for any number of clients,*)
(* languages, contents, keys, calls, crashes and failures, with it every   *)
(* safety property of the module, and the refinement of PageService.       *)
(***************************************************************************)
EXTENDS PageMutationInvariant, TLAPS

\* A record of the handler's locals stays one when a field is replaced.
LEMMA LocalsUpdate ==
  ASSUME NEW l \in Locals
  PROVE  /\ \A s \in Paths : [l EXCEPT !.src = s] \in Locals
         /\ \A b \in Revisions : [l EXCEPT !.base = b] \in Locals
         /\ \A s \in Paths, b \in Revisions : [l EXCEPT !.src = s, !.base = b] \in Locals
         /\ \A f \in BOOLEAN : [l EXCEPT !.full = f] \in Locals
         /\ \A e \in Entries : [l EXCEPT !.entry = e] \in Locals
  BY DEF Locals

\* A handler that has not begun has locals too.
LEMMA NoLocalsType == NoLocals \in Locals
  BY DEF Locals, NoLocals, NoEntry, Paths, Revisions

\* The types are kept by a return from the handler.
LEMMA AnswerOnlyType ==
  ASSUME TypeOK, NEW c \in Clients, NEW a \in Answers, AnswerOnly(c, a)
  PROVE  TypeOK'
  BY NoLocalsType DEF TypeOK, AnswerOnly, Answer, Goto, startup, Labels

\* ... and by a step that only moves the handler on.
LEMMA ProceedType ==
  ASSUME TypeOK, NEW c \in Clients, NEW label \in Labels \ {"idle"}, NEW l \in Locals,
         pc[c] # "idle", Proceed(c, label, l)
  PROVE  TypeOK'
  BY DEF TypeOK, Proceed, Goto, startup, Labels

\* The admission steps keep the types.
LEMMA AdmissionType ==
  ASSUME TypeOK, NEW c \in Clients, Admission(c)
  PROVE  TypeOK'
<1> USE NamesDiffer, RequestsAreValid
<1>1. CASE Submit(c)
  <2>1. PICK r \in Asks[c] :
          /\ req' = [req EXCEPT ![c] = r]
          /\ Goto(c, IF r.tool = "delete_page" /\ ~Keyed(r) THEN "inspect" ELSE "lock")
    BY <1>1 DEF Submit
  <2>2. r \in Requests
    OBVIOUS
  <2>3. pc' \in [Clients -> Labels]
    BY <2>1 DEF Goto, TypeOK, Labels
  <2>4. req' \in [Clients -> Requests \cup {Unused}]
    BY <2>1, <2>2 DEF TypeOK
  <2>5. \A d \in Clients : pc'[d] # "idle" => req'[d] \in Requests
    BY <2>1, <2>2 DEF Goto, TypeOK
  <2>6. ans' \in [Clients -> Answers]
    BY <1>1 DEF Submit, TypeOK, Answers
  <2> QED
    BY <1>1, <2>3, <2>4, <2>5, <2>6 DEF Submit, TypeOK, startup
<1>2. CASE AcquireLock(c)
  BY <1>2 DEF AcquireLock, TypeOK, Goto, Labels, startup
<1>3. CASE LockTimeout(c)
  BY <1>3, AnswerOnlyType DEF LockTimeout, Answers
<1>4. CASE Replay(c)
  BY <1>4, AnswerOnlyType DEF Replay, Answers
<1>5. CASE Refuse(c)
  BY <1>5, AnswerOnlyType DEF Refuse, Answers
<1>6. CASE CreateAdmit(c)
  <2>1. req[c].lang \in Paths /\ loc[c] \in Locals /\ pc[c] # "idle"
    BY <1>6 DEF CreateAdmit, TypeOK, Paths
  <2> QED
    BY <1>6, <2>1, LocalsUpdate, ProceedType DEF CreateAdmit, Labels
<1>7. CASE UpdateNotFound(c)
  BY <1>7, AnswerOnlyType DEF UpdateNotFound, Answers
<1>8. CASE UpdateAdmit(c)
  <2>1. PICK f \in Langs :
          IF req[c].expected = disk[f]
          THEN Proceed(c, "begin", [loc[c] EXCEPT !.src = f, !.base = disk[f]])
          ELSE AnswerOnly(c, IF req[c].expected = Absent THEN "invalid_params"
                                                         ELSE "revision_conflict")
    BY <1>8 DEF UpdateAdmit
  <2>2. f \in Paths /\ disk[f] \in Revisions /\ loc[c] \in Locals /\ pc[c] # "idle"
    BY <1>8 DEF UpdateAdmit, ConsultsKey, TypeOK, Paths
  <2>3. CASE req[c].expected = disk[f]
    BY <2>1, <2>2, <2>3, LocalsUpdate, ProceedType DEF Labels
  <2>4. CASE req[c].expected # disk[f]
    BY <2>1, <2>4, AnswerOnlyType DEF Answers
  <2> QED
    BY <2>3, <2>4
<1>9. CASE DeleteNotFound(c)
  BY <1>9, AnswerOnlyType DEF DeleteNotFound, Answers
<1>10. CASE DeleteInspect(c)
  <2>1. PICK f \in Langs :
          IF req[c].expected = Absent
          THEN AnswerOnly(c, "invalid_params")
          ELSE Proceed(c, AfterInspect(c), [loc[c] EXCEPT !.src = f])
    BY <1>10 DEF DeleteInspect
  <2>2. f \in Paths /\ loc[c] \in Locals /\ pc[c] # "idle"
    BY <1>10 DEF DeleteInspect, Inspects, TypeOK, Paths
  <2>3. AfterInspect(c) \in Labels \ {"idle"}
    BY DEF AfterInspect, Labels
  <2>4. CASE req[c].expected = Absent
    BY <2>1, <2>4, AnswerOnlyType DEF Answers
  <2>5. CASE req[c].expected # Absent
    BY <2>1, <2>2, <2>3, <2>5, LocalsUpdate, ProceedType
  <2> QED
    BY <2>4, <2>5
<1>11. CASE DeleteInspectSourceless(c)
  <2>1. Bundle \in Paths /\ loc[c] \in Locals /\ pc[c] # "idle"
    BY <1>11 DEF DeleteInspectSourceless, Inspects, TypeOK, Paths
  <2>2. AfterInspect(c) \in Labels \ {"idle"}
    BY DEF AfterInspect, Labels
  <2> QED
    BY <1>11, <2>1, <2>2, LocalsUpdate, ProceedType DEF DeleteInspectSourceless
<1>12. CASE DeleteCheck(c)
  <2> DEFINE f == loc[c].src
             current == IF f = Bundle THEN Absent ELSE disk[f]
  <2>1. f \in Paths /\ loc[c] \in Locals /\ current \in Revisions
    BY DEF TypeOK, Locals, Paths, Revisions
  <2>2. CASE f # Bundle /\ current = Absent
    BY <1>12, <2>2, AnswerOnlyType DEF DeleteCheck, Answers
  <2>3. CASE ~(f # Bundle /\ current = Absent) /\ req[c].expected # current
    BY <1>12, <2>3, AnswerOnlyType DEF DeleteCheck, Answers
  <2>4. CASE ~(f # Bundle /\ current = Absent) /\ req[c].expected = current
    <3>1. Proceed(c, "begin", [loc[c] EXCEPT !.base = current]) /\ pc[c] # "idle"
      BY <1>12, <2>4 DEF DeleteCheck
    <3> QED
      BY <3>1, <2>1, LocalsUpdate, ProceedType DEF Labels
  <2> QED
    BY <2>2, <2>3, <2>4
<1> QED
  BY <1>1, <1>2, <1>3, <1>4, <1>5, <1>6, <1>7, <1>8, <1>9, <1>10, <1>11, <1>12
  DEF Admission

\* A journal entry written by the handler has the entry's type.
LEMMA BeginType ==
  ASSUME TypeOK, NEW c \in Clients, Begin(c)
  PROVE  TypeOK'
<1>1. PICK e : /\ e = [id |-> ops + 1, client |-> c, req |-> req[c], path |-> loc[c].src,
                       before |-> loc[c].base, after |-> req[c].content, cleanup |-> Cleans(c)]
               /\ journal' = journal \cup {e}
               /\ loc' = [loc EXCEPT ![c].entry = e]
  BY DEF Begin
<1>2. req[c] \in Requests /\ loc[c] \in Locals
  BY DEF Begin, TypeOK
<1>3. req[c].content \in Revisions
  BY <1>2, RequestsAreValid
<1>4. loc[c].src \in Paths /\ loc[c].base \in Revisions
  BY <1>2 DEF Locals
<1>5. Cleans(c) \in BOOLEAN /\ ops + 1 \in Nat
  BY DEF Cleans, TypeOK
<1>6. e \in Entries
  BY <1>1, <1>2, <1>3, <1>4, <1>5 DEF Entries
<1>7. loc' = [loc EXCEPT ![c] = [loc[c] EXCEPT !.entry = e]]
  BY <1>1 DEF TypeOK
<1>8. loc' \in [Clients -> Locals]
  BY <1>2, <1>6, <1>7, LocalsUpdate DEF TypeOK
<1> QED
  BY <1>1, <1>5, <1>6, <1>8 DEF TypeOK, Begin, Goto, startup, Labels

\* A return from the handler leaves the types of what it sets.
LEMMA AnswerType ==
  ASSUME TypeOK, NEW c \in Clients, NEW a \in Answers, Answer(c, a), req' = req
  PROVE  /\ pc' \in [Clients -> Labels]
         /\ ans' \in [Clients -> Answers]
         /\ loc' \in [Clients -> Locals]
         /\ lock' \in Clients \cup {NoClient}
         /\ \A d \in Clients : pc'[d] # "idle" => req'[d] \in Requests
  BY NoLocalsType DEF TypeOK, Answer, Goto, Labels

\* ... and a step inside it, which keeps the request.
LEMMA GotoType ==
  ASSUME TypeOK, NEW c \in Clients, NEW label \in Labels, Goto(c, label), req' = req,
         pc[c] # "idle"
  PROVE  /\ pc' \in [Clients -> Labels]
         /\ \A d \in Clients : pc'[d] # "idle" => req'[d] \in Requests
  BY DEF TypeOK, Goto

\* Replacing the bundle-removed flag keeps the locals' type.
LEMMA FullType ==
  ASSUME TypeOK, NEW c \in Clients, NEW f \in BOOLEAN, loc' = [loc EXCEPT ![c].full = f]
  PROVE  loc' \in [Clients -> Locals]
<1>1. loc' = [loc EXCEPT ![c] = [loc[c] EXCEPT !.full = f]]
  BY DEF TypeOK
<1>2. loc[c] \in Locals
  BY DEF TypeOK
<1>3. [loc[c] EXCEPT !.full = f] \in Locals
  BY <1>2, LocalsUpdate
<1> QED
  BY <1>1, <1>3 DEF TypeOK

\* The count of a keyed call's effects stays a count.
LEMMA EffectType ==
  ASSUME TypeOK, NEW c \in Clients, pc[c] # "idle", Effect(c)
  PROVE  applied' \in [Slots -> Nat]
<1>1. req[c] \in Requests
  BY DEF TypeOK
<1>2. CASE Keyed(req[c])
  <2>1. Slot(c) \in Slots
    BY <1>1, <1>2, RequestsAreValid DEF Slot, Slots, Keyed
  <2>2. applied' = [applied EXCEPT ![Slot(c)] = @ + 1]
    BY <1>2 DEF Effect
  <2> QED
    BY <2>1, <2>2 DEF TypeOK
<1>3. CASE ~Keyed(req[c])
  BY <1>3 DEF Effect, TypeOK
<1> QED
  BY <1>2, <1>3

\* The copies stay functions from languages to revisions.
LEMMA DerivedType ==
  ASSUME TypeOK, NEW c \in Clients, pc[c] # "idle", NEW copy \in [Langs -> Revisions]
  PROVE  Derived(c, copy) \in [Langs -> Revisions]
<1>1. req[c] \in Requests
  BY DEF TypeOK
<1>2. req[c].content \in Revisions
  BY <1>1, RequestsAreValid
<1> QED
  BY <1>2 DEF Derived, Empty, Revisions

\* The mutation steps keep the types.
LEMMA MutationType ==
  ASSUME TypeOK, NEW c \in Clients, Mutation(c)
  PROVE  TypeOK'
<1> USE NamesDiffer, RequestsAreValid
<1>1. CASE Begin(c)
  BY <1>1, BeginType
<1>2. CASE CreateWrite(c)
  <2>1. pc[c] # "idle" /\ req[c] \in Requests
    BY <1>2 DEF CreateWrite, TypeOK
  <2>2. disk' \in [Langs -> Revisions]
    BY <1>2, <2>1 DEF CreateWrite, TypeOK
  <2> QED
    BY <1>2, <2>1, <2>2, EffectType, GotoType
    DEF CreateWrite, WriteFrame, TypeOK, Labels, startup
<1>3. CASE CreateExists(c)
  BY <1>3, AnswerOnlyType DEF CreateExists, Answers
<1>4. CASE UpdateWrite(c)
  <2>1. pc[c] # "idle" /\ req[c] \in Requests
    BY <1>4 DEF UpdateWrite, TypeOK
  <2>2. disk' \in [Langs -> Revisions]
    BY <1>4, <2>1 DEF UpdateWrite, TypeOK
  <2> QED
    BY <1>4, <2>1, <2>2, EffectType, GotoType
    DEF UpdateWrite, WriteFrame, TypeOK, Labels, startup
<1>5. CASE DeleteUnlink(c)
  <2> DEFINE last == Present \ {loc[c].src} = {}
  <2>1. pc[c] # "idle" /\ last \in BOOLEAN
    BY <1>5 DEF DeleteUnlink
  <2>2. disk' \in [Langs -> Revisions]
    BY <1>5 DEF DeleteUnlink, TypeOK, Revisions
  <2>3. loc' \in [Clients -> Locals]
    BY <1>5, <2>1, FullType DEF DeleteUnlink
  <2>4. Goto(c, IF last THEN "tidy" ELSE "reconcile")
    BY <1>5 DEF DeleteUnlink
  <2>5. (IF last THEN "tidy" ELSE "reconcile") \in Labels
    BY DEF Labels
  <2> QED
    BY <1>5, <2>1, <2>2, <2>3, <2>4, <2>5, EffectType, GotoType
    DEF DeleteUnlink, WriteFrame, TypeOK, startup
<1>6. CASE DeleteTidy(c)
  <2>1. disk' \in [Langs -> Revisions]
    BY <1>6 DEF DeleteTidy, Empty, Revisions
  <2> QED
    BY <1>6, <2>1, GotoType DEF DeleteTidy, WriteFrame, TypeOK, Labels, startup
<1>7. CASE DeleteBundleDir(c)
  <2>1. pc[c] # "idle"
    BY <1>7 DEF DeleteBundleDir
  <2>2. disk' \in [Langs -> Revisions]
    BY <1>7 DEF DeleteBundleDir, Empty, Revisions
  <2>3. loc' \in [Clients -> Locals]
    BY <1>7, FullType DEF DeleteBundleDir
  <2> QED
    BY <1>7, <2>1, <2>2, <2>3, EffectType, GotoType
    DEF DeleteBundleDir, WriteFrame, TypeOK, Labels, startup
<1>8. CASE WriteFails(c)
  <2>1. req' = req /\ Fails
    BY <1>8 DEF WriteFails
  <2>2. PICK a \in Answers : Answer(c, a)
    BY <1>8 DEF WriteFails, Answers
  <2>3. dir' \in BOOLEAN
    BY <1>8 DEF WriteFails, TypeOK
  <2> QED
    BY <1>8, <2>1, <2>2, <2>3, AnswerType DEF WriteFails, Fails, TypeOK, startup
<1>9. CASE Reconcile(c)
  <2>1. pc[c] # "idle"
    BY <1>9 DEF Reconcile
  <2>2. idx' \in [Langs -> Revisions]
    BY <1>9, <2>1, DerivedType DEF Reconcile, TypeOK
  <2>3. shadow' \in [Langs -> Revisions]
    BY <1>9, <2>1, DerivedType DEF Reconcile, TypeOK
  <2>4. failures' \in Nat
    BY <1>9 DEF Reconcile, Fails, TypeOK
  <2> QED
    BY <1>9, <2>1, <2>2, <2>3, <2>4, GotoType DEF Reconcile, TypeOK, Labels, startup
<1>10. CASE Stage(c)
  <2>1. loc[c] \in Locals /\ pc[c] # "idle"
    BY <1>10 DEF Stage, TypeOK
  <2> QED
    BY <1>10, <2>1, ProceedType DEF Stage, Labels
<1>11. CASE StageFails(c)
  <2>1. req' = req /\ Answer(c, "persistence_error") /\ "persistence_error" \in Answers
    BY <1>11 DEF StageFails, Answers
  <2> QED
    BY <1>11, <2>1, AnswerType DEF StageFails, Fails, TypeOK, startup
<1>12. CASE Remember(c)
  <2>1. pc[c] # "idle" /\ req[c] \in Requests
    BY <1>12 DEF Remember, TypeOK
  <2>2. idem' \in [Slots -> Requests \cup {Unused}]
    <3>1. CASE idem' = idem
      BY <3>1 DEF TypeOK
    <3>2. CASE Keyed(req[c]) /\ idem' = [idem EXCEPT ![Slot(c)] = req[c]]
      BY <2>1, <3>2 DEF TypeOK
    <3> QED
      BY <1>12, <3>1, <3>2 DEF Remember
  <2>3. failures' \in Nat
    BY <1>12 DEF Remember, Fails, TypeOK
  <2> QED
    BY <1>12, <2>1, <2>2, <2>3, GotoType DEF Remember, TypeOK, Labels, startup
<1>13. CASE Commit(c)
  <2>1. req' = req /\ Answer(c, "success") /\ "success" \in Answers
    BY <1>13 DEF Commit, Answers
  <2>2. journal' \subseteq Entries /\ failures' \in Nat
    BY <1>13 DEF Commit, Fails, TypeOK
  <2> QED
    BY <1>13, <2>1, <2>2, AnswerType DEF Commit, TypeOK, startup
<1> QED
  BY <1>1, <1>2, <1>3, <1>4, <1>5, <1>6, <1>7, <1>8, <1>9, <1>10, <1>11, <1>12, <1>13
  DEF Mutation

\* What startup records for an entry has the type of the idempotency records.
LEMMA RecordLandedType ==
  ASSUME TypeOK, NEW e \in Entries
  PROVE  RecordLanded(e) \in [Slots -> Requests \cup {Unused}]
  BY DEF RecordLanded, TypeOK, Entries

\* Death and startup keep the types.
LEMMA StartupType ==
  ASSUME TypeOK, Crash \/ Startup
  PROVE  TypeOK'
<1> USE NamesDiffer, RequestsAreValid
<1>0. Empty \in [Langs -> Revisions]
  BY DEF Empty, Revisions
<1>1. CASE Crash
  BY <1>0, <1>1, NoLocalsType DEF Crash, TypeOK, Labels, Answers, startup
<1>2. CASE BootIndex
  BY <1>2 DEF BootIndex, StartupFrame, TypeOK
<1>3. CASE PrepareDone
  BY <1>3 DEF PrepareDone, StartupFrame, TypeOK
<1>4. CASE StartupSync
  BY <1>4 DEF StartupSync, Fails, StartupFrame, TypeOK
<1>5. CASE BootDone
  BY <1>5 DEF BootDone, StartupFrame, TypeOK
<1>6. ASSUME NEW e \in todo, PrepareEntry(e)
      PROVE  TypeOK'
  <2>1. /\ todo' \subseteq Entries /\ resolved' \subseteq Entries
        /\ landed' \subseteq Entries
    BY <1>6 DEF PrepareEntry, TypeOK
  <2>2. disk' \in [Langs -> Revisions] /\ failures' \in Nat
    BY <1>0, <1>6 DEF PrepareEntry, Fails, TypeOK
  <2>3. dir' \in BOOLEAN
    <3>1. dir' = (dir /\ ~(Landed(e) /\ e.cleanup)) \/ dir' = dir
      BY <1>6 DEF PrepareEntry
    <3> QED
      BY <3>1 DEF TypeOK
  <2> QED
    BY <1>6, <2>1, <2>2, <2>3 DEF PrepareEntry, StartupFrame, TypeOK
<1>7. ASSUME NEW e \in todo, ReconcileEntry(e)
      PROVE  TypeOK'
  <2>1. todo' \subseteq Entries /\ journal' \subseteq Entries /\ failures' \in Nat
    BY <1>7 DEF ReconcileEntry, Fails, TypeOK
  <2>2. e \in Entries
    BY DEF TypeOK
  <2>3. idem' \in [Slots -> Requests \cup {Unused}]
    BY <1>7, <2>2, RecordLandedType DEF ReconcileEntry, TypeOK
  <2> QED
    BY <1>7, <2>1, <2>3 DEF ReconcileEntry, StartupFrame, TypeOK
<1> QED
  BY <1>1, <1>2, <1>3, <1>4, <1>5, <1>6, <1>7 DEF Startup

\* The types hold at the start ...
LEMMA InitType == Init => TypeOK
<1> SUFFICES ASSUME Init
             PROVE  TypeOK
  OBVIOUS
<1>1. disk \in [Langs -> Revisions]
  BY RequestsAreValid DEF Init
<1> QED
  BY <1>1, NoLocalsType, NamesDiffer DEF Init, TypeOK, Labels, Answers

\* ... and every step keeps them.
LEMMA StepType == TypeOK /\ [Next]_vars => TypeOK'
<1> SUFFICES ASSUME TypeOK, [Next]_vars
             PROVE  TypeOK'
  OBVIOUS
<1>1. CASE Crash \/ Startup
  BY <1>1, StartupType
<1>2. CASE UNCHANGED vars
  BY <1>2 DEF vars, startup, TypeOK
<1>3. ASSUME NEW c \in Clients, Admission(c) \/ Mutation(c)
      PROVE  TypeOK'
  BY <1>3, AdmissionType, MutationType
<1> QED
  BY <1>1, <1>2, <1>3 DEF Next, Rest

\* Every state of every history has the types of TypeOK.
THEOREM TypeCorrect == Spec => []TypeOK
  BY InitType, StepType, PTL DEF Spec

---------------------------------------------------------------------------
\* What the groups of actions leave alone.

\* Admission changes no durable state, runs outside the journaled part of the
\* handler, and touches nobody else's call.
LEMMA AdmissionFrame ==
  ASSUME TypeOK, NEW c \in Clients, Admission(c)
  PROVE  /\ UNCHANGED <<disk, dir, shadow, journal, idem, idx, phase, todo, resolved,
                        landed, applied, failures>>
         /\ pc[c] \notin Journaled \cup {"begin"} \/ (pc[c] = "begin" /\ pc'[c] = "idle")
         /\ pc'[c] \notin Journaled
         /\ pc[c] # "idle" => req' = req
         /\ \A d \in Clients \ {c} :
              pc'[d] = pc[d] /\ req'[d] = req[d] /\ loc'[d] = loc[d]
  BY DEF TypeOK, Journaled, Admission, Submit, AcquireLock, LockTimeout, Replay, Refuse,
     CreateAdmit, UpdateNotFound, UpdateAdmit, DeleteNotFound, DeleteInspect,
     DeleteInspectSourceless, DeleteCheck, AnswerOnly, Answer, Proceed, Goto, startup,
     ConsultsKey, Inspects, AfterInspect, Labels

\* A mutation step is taken by the holder of the lock, in a serving process, and
\* touches nobody else's call.
LEMMA MutationFrame ==
  ASSUME TypeOK, LockInv, PhaseInv, NEW c \in Clients, Mutation(c)
  PROVE  /\ lock = c /\ phase = "up"
         /\ \A d \in Clients \ {c} : pc[d] \notin Holding
         /\ UNCHANGED <<req, phase, todo, resolved, landed, calls, crashes>>
         /\ \A d \in Clients \ {c} :
              pc'[d] = pc[d] /\ req'[d] = req[d] /\ loc'[d] = loc[d]
<1>1. pc[c] \in Holding /\ pc[c] # "idle"
  BY DEF Mutation, Begin, CreateWrite, CreateExists, UpdateWrite, DeleteUnlink, DeleteTidy,
     DeleteBundleDir, WriteFails, Reconcile, Stage, StageFails, Remember, Commit, Holding
<1>2. UNCHANGED <<req, phase, todo, resolved, landed, calls, crashes>>
  BY DEF Mutation, Begin, CreateWrite, CreateExists, UpdateWrite, DeleteUnlink, DeleteTidy,
     DeleteBundleDir, WriteFails, Reconcile, Stage, StageFails, Remember, Commit,
     AnswerOnly, Proceed, WriteFrame, startup
<1>3. \A d \in Clients \ {c} : pc'[d] = pc[d] /\ loc'[d] = loc[d]
  BY DEF TypeOK, Mutation, Begin, CreateWrite, CreateExists, UpdateWrite, DeleteUnlink,
     DeleteTidy, DeleteBundleDir, WriteFails, Reconcile, Stage, StageFails, Remember,
     Commit, AnswerOnly, Answer, Proceed, Goto, WriteFrame
<1> QED
  BY <1>1, <1>2, <1>3 DEF LockInv, PhaseInv

\* Startup steps happen while no handler runs, and leave the handlers alone.
LEMMA StartupFrameHolds ==
  ASSUME PhaseInv, Startup
  PROVE  /\ phase # "up" /\ (\A c \in Clients : pc[c] = "idle")
         /\ UNCHANGED <<lock, pc, req, loc, ans, applied, ops, calls, crashes>>
<1>1. phase # "up" /\ UNCHANGED <<lock, pc, req, loc, ans, applied, ops, calls, crashes>>
  BY DEF Startup, BootIndex, PrepareDone, StartupSync, BootDone, PrepareEntry,
     ReconcileEntry, StartupFrame
<1> QED
  BY <1>1 DEF PhaseInv

---------------------------------------------------------------------------
\* The content lock is held exactly in the critical section.
LEMMA LockKept ==
  ASSUME TypeOK, LockInv, PhaseInv, [Next]_vars
  PROVE  LockInv'
<1>1. CASE Crash
  BY <1>1, NamesDiffer DEF Crash, LockInv, Holding
<1>2. CASE Startup
  BY <1>2, StartupFrameHolds DEF LockInv
<1>3. ASSUME NEW c \in Clients, Admission(c)
      PROVE  LockInv'
  <2>1. CASE Submit(c)
    BY <1>3, <2>1, NamesDiffer DEF Submit, Goto, Holding, LockInv, TypeOK
  <2>2. CASE AcquireLock(c)
    BY <1>3, <2>2, NamesDiffer DEF AcquireLock, Goto, Holding, LockInv, TypeOK
  <2>3. ASSUME NEW a, AnswerOnly(c, a)
        PROVE  LockInv'
    BY <2>3, NamesDiffer DEF AnswerOnly, Answer, Goto, Holding, LockInv, TypeOK
  <2>4. ASSUME NEW label, NEW l, Proceed(c, label, l), pc[c] \in Holding <=> label \in Holding
        PROVE  LockInv'
    BY <2>4 DEF Proceed, Goto, Holding, LockInv, TypeOK
  <2>5. CASE LockTimeout(c) \/ Replay(c) \/ Refuse(c) \/ UpdateNotFound(c) \/ DeleteNotFound(c)
    BY <2>3, <2>5 DEF LockTimeout, Replay, Refuse, UpdateNotFound, DeleteNotFound
  <2>6. CASE CreateAdmit(c) \/ UpdateAdmit(c)
    BY <2>3, <2>4, <2>6 DEF CreateAdmit, UpdateAdmit, ConsultsKey, Holding
  <2>7. CASE DeleteInspect(c) \/ DeleteInspectSourceless(c)
    BY <2>3, <2>4, <2>7 DEF DeleteInspect, DeleteInspectSourceless, Inspects, AfterInspect,
       Holding
  <2>8. CASE DeleteCheck(c)
    BY <2>3, <2>4, <2>8 DEF DeleteCheck, Holding
  <2> QED
    BY <1>3, <2>1, <2>2, <2>5, <2>6, <2>7, <2>8 DEF Admission
<1>4. ASSUME NEW c \in Clients, Mutation(c)
      PROVE  LockInv'
  BY <1>4, NamesDiffer DEF TypeOK, LockInv, Mutation, Begin, CreateWrite, CreateExists,
     UpdateWrite, DeleteUnlink, DeleteTidy, DeleteBundleDir, WriteFails, Reconcile, Stage,
     StageFails, Remember, Commit, AnswerOnly, Answer, Proceed, Goto, WriteFrame, Holding,
     Labels
<1>5. CASE UNCHANGED vars
  BY <1>5 DEF vars, LockInv
<1> QED
  BY <1>1, <1>2, <1>3, <1>4, <1>5 DEF Next, Rest

\* Handlers run only in a serving process; startup's sets are empty outside it.
LEMMA PhaseKept ==
  ASSUME TypeOK, LockInv, PhaseInv, [Next]_vars
  PROVE  PhaseInv'
<1>1. CASE Crash
  BY <1>1 DEF Crash, PhaseInv
<1>2. CASE Startup
  <2>1. \A c \in Clients : pc'[c] = "idle"
    BY <1>2, StartupFrameHolds
  <2>2. CASE BootIndex
    BY <2>1, <2>2 DEF BootIndex, PhaseInv
  <2>3. CASE PrepareDone
    BY <2>1, <2>3 DEF PrepareDone, PhaseInv
  <2>4. CASE StartupSync
    BY <2>1, <2>4 DEF StartupSync, PhaseInv
  <2>5. CASE BootDone
    BY <2>1, <2>5 DEF BootDone, PhaseInv
  <2>6. ASSUME NEW e \in todo, PrepareEntry(e)
        PROVE  PhaseInv'
    BY <2>1, <2>6 DEF PrepareEntry, PhaseInv
  <2>7. ASSUME NEW e \in todo, ReconcileEntry(e)
        PROVE  PhaseInv'
    BY <2>1, <2>7 DEF ReconcileEntry, PhaseInv
  <2> QED
    BY <1>2, <2>2, <2>3, <2>4, <2>5, <2>6, <2>7 DEF Startup
<1>3. ASSUME NEW c \in Clients, Admission(c)
      PROVE  PhaseInv'
  <2>1. phase = "up"
    BY <1>3 DEF PhaseInv, Admission, Submit, AcquireLock, LockTimeout, Replay, Refuse,
       CreateAdmit, UpdateNotFound, UpdateAdmit, DeleteNotFound, DeleteInspect,
       DeleteInspectSourceless, DeleteCheck, ConsultsKey, Inspects
  <2> QED
    BY <1>3, <2>1, AdmissionFrame DEF PhaseInv
<1>4. ASSUME NEW c \in Clients, Mutation(c)
      PROVE  PhaseInv'
  BY <1>4, MutationFrame DEF PhaseInv
<1>5. CASE UNCHANGED vars
  BY <1>5 DEF vars, startup, PhaseInv
<1> QED
  BY <1>1, <1>2, <1>3, <1>4, <1>5 DEF Next, Rest

---------------------------------------------------------------------------
\* A language that resolves to a file is blank or that file's, and it exists.
LEMMA ResolvesFile ==
  ASSUME NEW lang, NEW f \in Langs, ResolvesTo(lang, f)
  PROVE  lang \in {Default, f} /\ disk[f] # Absent
<1>1. f \in Matches(lang)
  BY DEF ResolvesTo
<1> QED
  BY <1>1 DEF Matches, Present

\* A handler only acts on a file its request may name.
LEMMA AimKept ==
  ASSUME TypeOK, LockInv, PhaseInv, AimInv, [Next]_vars
  PROVE  AimInv'
<1> USE NamesDiffer, RequestsAreValid
<1>1. CASE Crash
  BY <1>1 DEF Crash, AimInv, Journaled
<1>2. CASE Startup
  BY <1>2, StartupFrameHolds DEF AimInv, Journaled
<1>3. ASSUME NEW c \in Clients, Admission(c)
      PROVE  AimInv'
  <2> DEFINE Part(d) ==
        /\ pc[d] \in {"begin"} \cup Journaled => Aims(req[d], loc[d].src)
        /\ pc[d] = "inspect" => req[d].tool = "delete_page" /\ ~Keyed(req[d])
        /\ pc[d] = "check" => Aims(req[d], loc[d].src) /\ req[d].tool = "delete_page"
        /\ pc[d] = "lock" /\ req[d].tool = "delete_page" /\ ~Keyed(req[d]) =>
             Aims(req[d], loc[d].src)
  <2>1. \A d \in Clients \ {c} : Part(d)'
    BY <1>3, AdmissionFrame DEF AimInv
  <2>2. pc[c] # "idle" => req[c] \in Requests /\ loc[c] \in Locals
    BY DEF TypeOK
  <2>3. CASE Submit(c)
    <3>1. PICK r \in Asks[c] :
            /\ req' = [req EXCEPT ![c] = r]
            /\ Goto(c, IF r.tool = "delete_page" /\ ~Keyed(r) THEN "inspect" ELSE "lock")
      BY <2>3 DEF Submit
    <3>2. Part(c)'
      BY <3>1 DEF Goto, TypeOK, Journaled
    <3> QED
      BY <2>1, <3>2 DEF AimInv
  <2>4. CASE AcquireLock(c)
    <3>1. Part(c)'
      BY <2>4 DEF AcquireLock, Goto, TypeOK, AimInv, Journaled
    <3> QED
      BY <2>1, <3>1 DEF AimInv
  <2>5. ASSUME NEW a, AnswerOnly(c, a)
        PROVE  AimInv'
    <3>1. pc'[c] = "idle"
      BY <2>5 DEF AnswerOnly, Answer, Goto, TypeOK
    <3> QED
      BY <2>1, <3>1 DEF AimInv, Journaled
  <2>6. ASSUME NEW label \in {"lock", "check", "begin"}, NEW l, Proceed(c, label, l),
               Aims(req[c], l.src), label = "check" => req[c].tool = "delete_page"
        PROVE  AimInv'
    <3>1. pc'[c] = label /\ loc'[c] = l /\ req' = req
      BY <2>6 DEF Proceed, Goto, TypeOK
    <3>2. Part(c)'
      BY <2>6, <3>1 DEF Journaled
    <3> QED
      BY <2>1, <3>2 DEF AimInv
  <2>7. CASE LockTimeout(c) \/ Replay(c) \/ Refuse(c) \/ UpdateNotFound(c) \/ DeleteNotFound(c)
    BY <2>5, <2>7 DEF LockTimeout, Replay, Refuse, UpdateNotFound, DeleteNotFound
  <2>8. CASE CreateAdmit(c)
    <3>1. [loc[c] EXCEPT !.src = req[c].lang].src = req[c].lang /\ req[c].lang \in Langs
      BY <2>2, <2>8 DEF CreateAdmit, Locals
    <3> QED
      BY <2>6, <2>8, <3>1 DEF CreateAdmit, Aims
  <2>9. CASE UpdateAdmit(c)
    <3>1. PICK f \in Langs :
            /\ ResolvesTo(req[c].lang, f)
            /\ IF req[c].expected = disk[f]
               THEN Proceed(c, "begin", [loc[c] EXCEPT !.src = f, !.base = disk[f]])
               ELSE AnswerOnly(c, IF req[c].expected = Absent THEN "invalid_params"
                                                              ELSE "revision_conflict")
      BY <2>9 DEF UpdateAdmit
    <3>2. CASE req[c].expected = disk[f]
      <4> DEFINE l == [loc[c] EXCEPT !.src = f, !.base = disk[f]]
      <4>1. l.src = f
        BY <2>2, <2>9 DEF UpdateAdmit, ConsultsKey, Locals
      <4>2. Aims(req[c], l.src)
        BY <2>9, <3>1, <3>2, <4>1, ResolvesFile DEF UpdateAdmit, Aims
      <4>3. Proceed(c, "begin", l)
        BY <3>1, <3>2
      <4> QED
        BY <2>6, <4>2, <4>3
    <3> QED
      BY <2>5, <3>1, <3>2
  <2>10. CASE DeleteInspect(c)
    <3>1. PICK f \in Langs :
            /\ ResolvesTo(req[c].lang, f)
            /\ IF req[c].expected = Absent
               THEN AnswerOnly(c, "invalid_params")
               ELSE Proceed(c, AfterInspect(c), [loc[c] EXCEPT !.src = f])
      BY <2>10 DEF DeleteInspect
    <3>2. CASE req[c].expected # Absent
      <4> DEFINE l == [loc[c] EXCEPT !.src = f]
      <4>1. l.src = f
        BY <2>2, <2>10 DEF DeleteInspect, Inspects, Locals
      <4>2. Aims(req[c], l.src) /\ req[c].tool = "delete_page"
        BY <2>10, <3>1, <3>2, <4>1, ResolvesFile DEF DeleteInspect, Inspects, Aims
      <4>3. Proceed(c, AfterInspect(c), l) /\ AfterInspect(c) \in {"lock", "check"}
        BY <3>1, <3>2 DEF AfterInspect
      <4> QED
        BY <2>6, <4>2, <4>3
    <3> QED
      BY <2>5, <3>1, <3>2
  <2>11. CASE DeleteInspectSourceless(c)
    <3> DEFINE l == [loc[c] EXCEPT !.src = Bundle]
    <3>1. l.src = Bundle
      BY <2>2, <2>11 DEF DeleteInspectSourceless, Inspects, Locals
    <3>2. Aims(req[c], l.src) /\ req[c].tool = "delete_page"
      BY <2>11, <3>1 DEF DeleteInspectSourceless, Inspects, Aims
    <3>3. Proceed(c, AfterInspect(c), l) /\ AfterInspect(c) \in {"lock", "check"}
      BY <2>11 DEF DeleteInspectSourceless, AfterInspect
    <3> QED
      BY <2>6, <3>2, <3>3
  <2>12. CASE DeleteCheck(c)
    <3> DEFINE f == loc[c].src
               current == IF f = Bundle THEN Absent ELSE disk[f]
               l == [loc[c] EXCEPT !.base = current]
    <3>1. Aims(req[c], f) /\ l.src = f
      BY <2>2, <2>12 DEF DeleteCheck, AimInv, Locals
    <3>2. (\E a : AnswerOnly(c, a)) \/ Proceed(c, "begin", l)
      BY <2>12 DEF DeleteCheck
    <3> QED
      BY <2>5, <2>6, <3>1, <3>2
  <2> QED
    BY <1>3, <2>3, <2>4, <2>7, <2>8, <2>9, <2>10, <2>11, <2>12 DEF Admission
<1>4. ASSUME NEW c \in Clients, Mutation(c)
      PROVE  AimInv'
  <2>1. pc'[c] \in Journaled \cup {"idle"}
    BY <1>4 DEF TypeOK, Mutation, Begin, CreateWrite, CreateExists, UpdateWrite,
       DeleteUnlink, DeleteTidy, DeleteBundleDir, WriteFails, Reconcile, Stage, StageFails,
       Remember, Commit, AnswerOnly, Answer, Proceed, Goto, Journaled
  <2>2. pc'[c] # "idle" => loc'[c].src = loc[c].src
    BY <1>4 DEF TypeOK, Locals, Mutation, Begin, CreateWrite, CreateExists, UpdateWrite,
       DeleteUnlink, DeleteTidy, DeleteBundleDir, WriteFails, Reconcile, Stage, StageFails,
       Remember, Commit, AnswerOnly, Answer, Proceed, Goto, WriteFrame
  <2>3. pc[c] \in Journaled \cup {"begin"}
    BY <1>4 DEF Mutation, Begin, CreateWrite, CreateExists, UpdateWrite, DeleteUnlink,
       DeleteTidy, DeleteBundleDir, WriteFails, Reconcile, Stage, StageFails, Remember,
       Commit, Journaled
  <2> QED
    BY <1>4, <2>1, <2>2, <2>3, MutationFrame DEF AimInv, Journaled
<1>5. CASE UNCHANGED vars
  BY <1>5 DEF vars, AimInv
<1> QED
  BY <1>1, <1>2, <1>3, <1>4, <1>5 DEF Next, Rest

---------------------------------------------------------------------------
\* Where a mutation step leaves the handler.
LEMMA MutationLabels ==
  ASSUME TypeOK, NEW c \in Clients, Mutation(c)
  PROVE  /\ pc[c] \in Journaled \cup {"begin"}
         /\ pc'[c] \in Journaled \cup {"idle"}
         /\ pc'[c] = "write" => Begin(c)
  BY DEF TypeOK, Mutation, Begin, CreateWrite, CreateExists, UpdateWrite,
     DeleteUnlink, DeleteTidy, DeleteBundleDir, WriteFails, Reconcile, Stage, StageFails,
     Remember, Commit, AnswerOnly, Answer, Proceed, Goto, Journaled

\* The revision the caller expects is that of the file until the write.
LEMMA BaseKept ==
  ASSUME TypeOK, LockInv, PhaseInv, AimInv, BaseInv, [Next]_vars
  PROVE  BaseInv'
<1> USE NamesDiffer, RequestsAreValid
<1>1. CASE Crash
  BY <1>1 DEF Crash, BaseInv
<1>2. CASE Startup
  BY <1>2, StartupFrameHolds DEF BaseInv
<1>3. ASSUME NEW c \in Clients, Admission(c)
      PROVE  BaseInv'
  <2> DEFINE Part(d) ==
        pc[d] \in {"begin", "write"} /\ req[d].tool # "create_page" =>
          /\ loc[d].base = req[d].expected
          /\ loc[d].src \in Langs => loc[d].base = disk[loc[d].src]
          /\ loc[d].src = Bundle => loc[d].base = Absent
  <2>1. disk' = disk /\ \A d \in Clients \ {c} : Part(d)'
    BY <1>3, AdmissionFrame DEF BaseInv
  <2>2. CASE pc'[c] \notin {"begin", "write"}
    BY <2>1, <2>2 DEF BaseInv
  <2>3. CASE pc'[c] \in {"begin", "write"}
    <3>1. CreateAdmit(c) \/ UpdateAdmit(c) \/ DeleteCheck(c)
      BY <1>3, <2>3 DEF TypeOK, Admission, Submit, AcquireLock, LockTimeout, Replay, Refuse,
         UpdateNotFound, DeleteNotFound, DeleteInspect, DeleteInspectSourceless, AnswerOnly,
         Answer, Proceed, Goto, AfterInspect
    <3>2. loc[c] \in Locals /\ req' = req
      BY <3>1, <1>3, AdmissionFrame DEF TypeOK, CreateAdmit, UpdateAdmit, ConsultsKey, DeleteCheck
    <3>3. CASE CreateAdmit(c)
      BY <2>1, <3>2, <3>3 DEF CreateAdmit, BaseInv
    <3>4. CASE UpdateAdmit(c)
      <4>1. PICK f \in Langs :
              /\ req[c].expected = disk[f]
              /\ loc' = [loc EXCEPT ![c] = [loc[c] EXCEPT !.src = f, !.base = disk[f]]]
        BY <2>3, <3>4 DEF UpdateAdmit, AnswerOnly, Answer, Proceed, Goto, TypeOK
      <4>2. loc'[c].src = f /\ loc'[c].base = disk[f]
        BY <3>2, <4>1 DEF TypeOK, Locals
      <4> QED
        BY <2>1, <3>2, <4>1, <4>2 DEF BaseInv
    <3>5. CASE DeleteCheck(c)
      <4> DEFINE f == loc[c].src
                 current == IF f = Bundle THEN Absent ELSE disk[f]
      <4>1. req[c].expected = current
        BY <2>3, <3>5 DEF DeleteCheck, AnswerOnly, Answer, Goto, TypeOK
      <4>2. loc' = [loc EXCEPT ![c] = [loc[c] EXCEPT !.base = current]]
        BY <2>3, <3>5 DEF DeleteCheck, AnswerOnly, Answer, Proceed, Goto, TypeOK
      <4>3. loc'[c].src = f /\ loc'[c].base = current
        BY <3>2, <4>2 DEF TypeOK, Locals
      <4>4. Part(c)'
        BY <2>1, <3>2, <4>1, <4>3
      <4> QED
        BY <2>1, <4>4 DEF BaseInv
    <3> QED
      BY <3>1, <3>3, <3>4, <3>5
  <2> QED
    BY <2>2, <2>3
<1>4. ASSUME NEW c \in Clients, Mutation(c)
      PROVE  BaseInv'
  <2>1. \A d \in Clients \ {c} : pc'[d] \notin {"begin", "write"}
    BY <1>4, MutationFrame DEF Holding
  <2>2. CASE pc'[c] = "write"
    <3>1. Begin(c)
      BY <1>4, <2>2, MutationLabels
    <3>2. /\ pc[c] = "begin" /\ UNCHANGED <<disk, req>>
          /\ loc'[c].src = loc[c].src /\ loc'[c].base = loc[c].base
      BY <3>1 DEF Begin, TypeOK, Locals
    <3> QED
      BY <2>1, <2>2, <3>2 DEF BaseInv
  <2>3. CASE pc'[c] # "write"
    BY <1>4, <2>1, <2>3, MutationLabels DEF BaseInv, Journaled
  <2> QED
    BY <2>2, <2>3
<1>5. CASE UNCHANGED vars
  BY <1>5 DEF vars, BaseInv
<1> QED
  BY <1>1, <1>2, <1>3, <1>4, <1>5 DEF Next, Rest

---------------------------------------------------------------------------
\* Only Remember and startup record under a key.
LEMMA KeyKept ==
  ASSUME TypeOK, LockInv, PhaseInv, AimInv, KeyInv, [Next]_vars
  PROVE  KeyInv'
<1> USE NamesDiffer, RequestsAreValid
<1>1. CASE Crash
  BY <1>1 DEF Crash, KeyInv, Unrecorded
<1>2. CASE Startup
  BY <1>2, StartupFrameHolds DEF KeyInv, Unrecorded
<1>3. ASSUME NEW c \in Clients, Admission(c)
      PROVE  KeyInv'
  <2>1. UNCHANGED <<idem, failures>>
    BY <1>3, AdmissionFrame
  <2>2. \A d \in Clients \ {c} :
           pc'[d] = pc[d] /\ (Recorded(d) <=> Recorded(d)') /\ Slot(d)' = Slot(d)
                          /\ req'[d] = req[d]
    BY <1>3, <2>1, AdmissionFrame DEF Recorded, Slot
  <2>3. pc'[c] \notin Journaled /\ (pc[c] # "idle" => req' = req)
    BY <1>3, AdmissionFrame
  <2>4. pc'[c] \in Unrecorded => ~Recorded(c)'
    <3>1. CASE pc[c] = "idle"
      BY <1>3, <3>1 DEF Admission, Submit, AcquireLock, LockTimeout, Replay, Refuse,
         CreateAdmit, UpdateNotFound, UpdateAdmit, ConsultsKey, DeleteNotFound,
         DeleteInspect, DeleteInspectSourceless, Inspects, DeleteCheck, Goto, Unrecorded,
         TypeOK
    <3>2. CASE pc[c] # "idle" /\ ~Recorded(c)
      BY <2>1, <2>3, <3>2 DEF Recorded, Slot
    <3>3. CASE pc[c] # "idle" /\ Recorded(c)
      <4>1. pc[c] \notin Unrecorded
        BY <3>3 DEF KeyInv
      <4>2. pc'[c] \notin {"check", "begin"}
        BY <1>3, <3>3, <4>1 DEF Admission, Submit, AcquireLock, LockTimeout, Replay, Refuse,
           CreateAdmit, UpdateNotFound, UpdateAdmit, ConsultsKey, DeleteNotFound,
           DeleteInspect, DeleteInspectSourceless, Inspects, AfterInspect, DeleteCheck,
           AnswerOnly, Answer, Proceed, Goto, TypeOK, Recorded, Unrecorded
      <4> QED
        BY <2>3, <4>2 DEF Unrecorded, Journaled
    <3> QED
      BY <3>1, <3>2, <3>3
  <2>5. pc'[c] # "commit"
    BY <2>3 DEF Journaled
  <2> QED
    BY <2>1, <2>2, <2>4, <2>5 DEF KeyInv, Degraded
<1>4. ASSUME NEW c \in Clients, Mutation(c)
      PROVE  KeyInv'
  <2>1. \A d \in Clients \ {c} : pc'[d] \notin Unrecorded \cup {"commit"}
    BY <1>4, MutationFrame DEF Unrecorded, Holding
  <2>2. CASE Remember(c)
    <3>1. pc'[c] = "commit"
      BY <2>2 DEF Remember, Goto, TypeOK
    <3>2. Keyed(req[c]) /\ ~Degraded' => idem'[Slot(c)] = req[c]
      <4>1. Keyed(req[c]) => Slot(c) \in Slots
        BY <2>2 DEF Remember, Slot, Slots, Keyed, TypeOK
      <4> QED
        BY <2>2, <4>1 DEF Remember, Degraded, Fails, TypeOK
    <3>3. req' = req /\ Slot(c)' = Slot(c)
      BY <1>4, MutationFrame DEF Slot
    <3> QED
      BY <2>1, <3>1, <3>2, <3>3 DEF KeyInv, Unrecorded
  <2>3. CASE ~Remember(c)
    <3>1. idem' = idem /\ req' = req
      BY <1>4, <2>3, MutationFrame DEF Mutation, Begin, CreateWrite, CreateExists,
         UpdateWrite, DeleteUnlink, DeleteTidy, DeleteBundleDir, WriteFails, Reconcile,
         Stage, StageFails, Commit, AnswerOnly, Proceed, WriteFrame
    <3>2. pc'[c] # "commit" /\ (pc'[c] \in Unrecorded => pc[c] \in Unrecorded)
      BY <1>4, <2>3 DEF TypeOK, Mutation, Begin, CreateWrite, CreateExists, UpdateWrite,
         DeleteUnlink, DeleteTidy, DeleteBundleDir, WriteFails, Reconcile, Stage, StageFails,
         Commit, AnswerOnly, Answer, Proceed, Goto, Unrecorded
    <3> QED
      BY <2>1, <3>1, <3>2 DEF KeyInv, Recorded, Slot
  <2> QED
    BY <2>2, <2>3
<1>5. CASE UNCHANGED vars
  BY <1>5 DEF vars, KeyInv, Recorded, Slot, Degraded
<1> QED
  BY <1>1, <1>2, <1>3, <1>4, <1>5 DEF Next, Rest

---------------------------------------------------------------------------
\* A bundle that lost its last file, or its directory, holds no file.
LEMMA TidyKept ==
  ASSUME TypeOK, LockInv, PhaseInv, AimInv, BaseInv, TidyInv, [Next]_vars
  PROVE  TidyInv'
<1> USE NamesDiffer, RequestsAreValid
<1>1. CASE Crash
  BY <1>1 DEF Crash, TidyInv
<1>2. CASE Startup
  <2>1. ~dir' => disk' = Empty
    BY <1>2 DEF TidyInv, TypeOK, Startup, BootIndex, PrepareDone, StartupSync, BootDone,
       PrepareEntry, ReconcileEntry
  <2> QED
    BY <1>2, <2>1, StartupFrameHolds DEF TidyInv
<1>3. ASSUME NEW c \in Clients, Admission(c)
      PROVE  TidyInv'
  BY <1>3, AdmissionFrame DEF TidyInv, Journaled
<1>4. ASSUME NEW c \in Clients, Mutation(c)
      PROVE  TidyInv'
  <2>1. \A d \in Clients \ {c} : pc'[d] # "tidy"
    BY <1>4, MutationFrame DEF Holding
  <2>2. CASE CreateWrite(c)
    <3>1. dir' = TRUE /\ pc'[c] = "reconcile"
      BY <2>2 DEF CreateWrite, Goto, TypeOK
    <3> QED
      BY <2>1, <3>1 DEF TidyInv
  <2>3. CASE UpdateWrite(c)
    <3>1. loc[c].src \in Langs /\ disk[loc[c].src] # Absent
      BY <2>3 DEF UpdateWrite, AimInv, BaseInv, Aims, Journaled
    <3>2. dir
      BY <3>1 DEF TidyInv, Empty
    <3>3. dir' = dir /\ pc'[c] = "reconcile"
      BY <2>3 DEF UpdateWrite, Goto, TypeOK
    <3> QED
      BY <2>1, <3>2, <3>3 DEF TidyInv
  <2>4. CASE DeleteUnlink(c)
    <3> DEFINE last == Present \ {loc[c].src} = {}
    <3>1. /\ disk' = [disk EXCEPT ![loc[c].src] = Absent] /\ dir' = dir
          /\ req' = req /\ req[c].tool = "delete_page"
          /\ pc'[c] = IF last THEN "tidy" ELSE "reconcile"
          /\ loc[c].src \in Langs
      BY <2>4 DEF DeleteUnlink, Goto, TypeOK, AimInv, Aims, Journaled, WriteFrame
    <3>2. loc'[c].full = last /\ loc'[c].src = loc[c].src
      BY <2>4 DEF DeleteUnlink, TypeOK, Locals
    <3>3. last => disk' = Empty
      <4>1. last => \A l \in Langs : l # loc[c].src => disk[l] = Absent
        BY DEF Present
      <4>2. last => \A l \in Langs : disk'[l] = Absent
        BY <3>1, <4>1 DEF TypeOK
      <4>3. disk' = [l \in Langs |-> disk'[l]]
        BY <3>1 DEF TypeOK
      <4> QED
        BY <4>2, <4>3 DEF Empty
    <3>4. ~dir' => disk' = Empty
      BY <3>1 DEF TidyInv, Empty
    <3> QED
      BY <2>1, <3>1, <3>2, <3>3, <3>4 DEF TidyInv
  <2>5. CASE DeleteTidy(c) \/ DeleteBundleDir(c)
    BY <2>1, <2>5 DEF DeleteTidy, DeleteBundleDir, Goto, TypeOK, TidyInv
  <2>6. CASE ~(CreateWrite(c) \/ UpdateWrite(c) \/ DeleteUnlink(c) \/ DeleteTidy(c)
                \/ DeleteBundleDir(c))
    <3>1. disk' = disk /\ (dir => dir')
      <4>1. CASE WriteFails(c)
        BY <4>1 DEF WriteFails
      <4>2. CASE ~WriteFails(c)
        BY <1>4, <2>6, <4>2 DEF Mutation, Begin, CreateExists, Reconcile, Stage,
           StageFails, Remember, Commit, AnswerOnly, Proceed
      <4> QED
        BY <4>1, <4>2
    <3>2. pc'[c] # "tidy"
      BY <1>4, <2>6 DEF TypeOK, Mutation, Begin, CreateExists, WriteFails, Reconcile, Stage,
         StageFails, Remember, Commit, AnswerOnly, Answer, Proceed, Goto
    <3> QED
      BY <2>1, <3>1, <3>2 DEF TidyInv
  <2> QED
    BY <2>2, <2>3, <2>4, <2>5, <2>6
<1>5. CASE UNCHANGED vars
  BY <1>5 DEF vars, TidyInv
<1> QED
  BY <1>1, <1>2, <1>3, <1>4, <1>5 DEF Next, Rest

\* The journal only grows by Begin's entry.
LEMMA JournalGrows ==
  ASSUME TypeOK, NEW c \in Clients, Mutation(c)
  PROVE  \/ journal' = journal \/ journal' = journal \ {loc[c].entry}
         \/ Begin(c) /\ journal' = journal \cup {loc'[c].entry}
  BY DEF TypeOK, Mutation, Begin, CreateWrite, CreateExists, UpdateWrite, DeleteUnlink,
     DeleteTidy, DeleteBundleDir, WriteFails, Reconcile, Stage, StageFails, Remember,
     Commit, AnswerOnly, Proceed, WriteFrame, Locals

\* What Begin puts into the journal and into the handler's locals.
LEMMA BegunEntry ==
  ASSUME TypeOK, NEW c \in Clients, Begin(c)
  PROVE  LET e == loc'[c].entry
         IN /\ e.client = c /\ e.req = req[c] /\ e.path = loc[c].src
            /\ e.before = loc[c].base /\ e.after = req[c].content
            /\ e.cleanup = Cleans(c)
            /\ loc'[c].src = loc[c].src /\ loc'[c].base = loc[c].base
            /\ pc[c] = "begin" /\ pc'[c] = "write" /\ req' = req /\ disk' = disk
            /\ journal' = journal \cup {e} /\ phase' = phase
  BY DEF TypeOK, Begin, Locals, Goto, startup

\* Every journal entry describes the call that wrote it.
LEMMA EntryKept ==
  ASSUME TypeOK, LockInv, PhaseInv, AimInv, EntryInv, [Next]_vars
  PROVE  EntryInv'
<1> DEFINE Sound(e) ==
      /\ e.after = e.req.content
      /\ Aims(e.req, e.path)
      /\ e.cleanup => e.path \in Langs /\ e.req.tool = "delete_page"
    Held == journal \cup todo \cup resolved \cup landed
<1>1. ASSUME Held' \subseteq Held
      PROVE  EntryInv'
  BY <1>1 DEF EntryInv
<1>2. CASE Crash
  BY <1>1, <1>2 DEF Crash
<1>3. CASE Startup
  BY <1>1, <1>3 DEF Startup, BootIndex, PrepareDone, StartupSync, BootDone, PrepareEntry,
     ReconcileEntry
<1>4. ASSUME NEW c \in Clients, Admission(c)
      PROVE  EntryInv'
  BY <1>1, <1>4, AdmissionFrame
<1>5. ASSUME NEW c \in Clients, Mutation(c)
      PROVE  EntryInv'
  <2>1. UNCHANGED <<todo, resolved, landed>>
    BY <1>5, MutationFrame
  <2>2. CASE Begin(c)
    <3> DEFINE e == loc'[c].entry
    <3>1. /\ journal' = journal \cup {e} /\ e.after = e.req.content
          /\ e.req = req[c] /\ e.path = loc[c].src /\ e.cleanup = Cleans(c)
          /\ pc[c] = "begin"
      BY <2>2, BegunEntry
    <3>2. Aims(e.req, e.path)
      BY <3>1 DEF AimInv
    <3>3. e.cleanup => e.path \in Langs /\ e.req.tool = "delete_page"
      BY <3>1 DEF Cleans, Present
    <3> QED
      BY <2>1, <3>1, <3>2, <3>3 DEF EntryInv
  <2>3. CASE ~Begin(c)
    BY <1>1, <1>5, <2>1, <2>3, JournalGrows
  <2> QED
    BY <2>2, <2>3
<1>6. CASE UNCHANGED vars
  BY <1>1, <1>6 DEF vars, startup
<1> QED
  BY <1>2, <1>3, <1>4, <1>5, <1>6 DEF Next, Rest

---------------------------------------------------------------------------
\* A write leaves the file, or the directory, as its journal entry says.
LEMMA WriteLands ==
  ASSUME TypeOK, LockInv, PhaseInv, AimInv, TidyInv, NEW c \in Clients, NEW e,
         Mutation(c), pc[c] = "write", pc'[c] # "idle",
         e.path = loc[c].src, e.after = req[c].content
  PROVE  Landed(e)'
<1> USE NamesDiffer, RequestsAreValid
<1>1. Aims(req[c], loc[c].src) /\ req[c] \in Requests
  BY DEF AimInv, Journaled, TypeOK
<1>2. CASE CreateWrite(c) \/ UpdateWrite(c)
  <2>1. loc[c].src \in Langs
    BY <1>1, <1>2 DEF Aims, CreateWrite, UpdateWrite
  <2>2. disk' = [disk EXCEPT ![loc[c].src] = req[c].content]
    BY <1>2 DEF CreateWrite, UpdateWrite
  <2> QED
    BY <2>1, <2>2 DEF Landed, TypeOK
<1>3. CASE DeleteUnlink(c)
  <2>1. loc[c].src \in Langs /\ req[c].content = Absent
    BY <1>1, <1>3 DEF Aims, DeleteUnlink
  <2>2. disk' = [disk EXCEPT ![loc[c].src] = Absent]
    BY <1>3 DEF DeleteUnlink
  <2> QED
    BY <2>1, <2>2 DEF Landed, TypeOK
<1>4. CASE DeleteBundleDir(c)
  BY <1>4 DEF DeleteBundleDir, Landed
<1>5. CASE CreateExists(c) \/ WriteFails(c)
  BY <1>5 DEF CreateExists, WriteFails, AnswerOnly, Answer, Goto, TypeOK
<1> QED
  BY <1>2, <1>3, <1>4, <1>5 DEF Mutation, Begin, DeleteTidy, Reconcile, Stage, StageFails,
     Remember, Commit

\* After the write the files only change by the end of a bundle's removal.
LEMMA AfterWrite ==
  ASSUME TypeOK, TidyInv, NEW c \in Clients, Mutation(c), pc[c] \in Taken
  PROVE  disk' = disk /\ (~dir => ~dir')
<1>1. CASE DeleteTidy(c)
  BY <1>1 DEF DeleteTidy, TidyInv
<1>2. CASE WriteFails(c)
  <2>1. req[c].tool = "delete_page"
    BY <1>2 DEF WriteFails, TidyInv, Taken
  <2> QED
    BY <1>2, <2>1 DEF WriteFails
<1>3. CASE ~DeleteTidy(c) /\ ~WriteFails(c)
  BY <1>3 DEF Taken, Mutation, Begin, CreateWrite, CreateExists, UpdateWrite,
     DeleteUnlink, DeleteBundleDir, Reconcile, Stage, StageFails, Remember, Commit,
     AnswerOnly, Proceed
<1> QED
  BY <1>1, <1>2, <1>3

\* Between Begin and the answer, the journal and the handler's entry are kept.
LEMMA EntryStays ==
  ASSUME TypeOK, NEW c \in Clients, Mutation(c), ~Begin(c), pc'[c] # "idle"
  PROVE  /\ journal' = journal
         /\ loc'[c].entry = loc[c].entry /\ loc'[c].src = loc[c].src
         /\ loc'[c].base = loc[c].base
  BY DEF TypeOK, Locals, Mutation, CreateWrite, CreateExists, UpdateWrite,
     DeleteUnlink, DeleteTidy, DeleteBundleDir, WriteFails, Reconcile, Stage, StageFails,
     Remember, Commit, AnswerOnly, Answer, Proceed, Goto, WriteFrame

\* Every step of a handler past Begin starts past Begin; failures only grow.
LEMMA MutationOrder ==
  ASSUME TypeOK, NEW c \in Clients, Mutation(c)
  PROVE  /\ Begin(c) <=> pc[c] = "begin"
         /\ pc'[c] \in Taken => pc[c] \in Taken \cup {"write"}
         /\ Degraded => Degraded'
  BY DEF TypeOK, Taken, Mutation, Begin, CreateWrite, CreateExists, UpdateWrite,
     DeleteUnlink, DeleteTidy, DeleteBundleDir, WriteFails, Reconcile, Stage, StageFails,
     Remember, Commit, AnswerOnly, Answer, Proceed, Goto, WriteFrame, Fails, Degraded

\* A handler's journal entry is its own and tells what it did.
LEMMA OwnKept ==
  ASSUME TypeOK, LockInv, PhaseInv, AimInv, TidyInv, EntryInv, OwnInv, [Next]_vars
  PROVE  OwnInv'
<1>1. CASE Crash
  BY <1>1 DEF Crash, OwnInv, Journaled
<1>2. CASE Startup
  BY <1>2, StartupFrameHolds DEF OwnInv, Journaled
<1>3. ASSUME NEW c \in Clients, Admission(c)
      PROVE  OwnInv'
  <2>1. \A e : Landed(e) => Landed(e)'
    BY <1>3, AdmissionFrame DEF Landed
  <2> QED
    BY <1>3, <2>1, AdmissionFrame DEF OwnInv, Degraded
<1>4. ASSUME NEW c \in Clients, Mutation(c)
      PROVE  OwnInv'
  <2>1. \A d \in Clients \ {c} : pc'[d] \notin Journaled
    BY <1>4, MutationFrame DEF Holding, Journaled
  <2>2. CASE pc'[c] = "idle"
    BY <2>1, <2>2 DEF OwnInv, Journaled
  <2>3. CASE Begin(c)
    <3>1. /\ loc'[c].entry.client = c /\ loc'[c].entry.req = req'[c]
          /\ loc'[c].entry.path = loc'[c].src /\ loc'[c].entry.before = loc'[c].base
          /\ loc'[c].entry \in journal' /\ pc'[c] = "write"
      BY <2>3, BegunEntry
    <3> QED
      BY <2>1, <3>1 DEF OwnInv, Taken
  <2>4. CASE ~Begin(c) /\ pc'[c] # "idle"
    <3>1. PICK e : e = loc[c].entry
      OBVIOUS
    <3>2. /\ pc[c] \in Journaled /\ e \in journal
          /\ e.client = c /\ e.req = req[c] /\ e.path = loc[c].src /\ e.before = loc[c].base
          /\ pc[c] \in Taken /\ ~Degraded => Landed(e)
      BY <1>4, <2>4, <3>1, MutationOrder, MutationLabels DEF OwnInv
    <3>3. e.after = req[c].content
      BY <3>2 DEF EntryInv
    <3>4. pc'[c] \in Taken /\ ~Degraded' => Landed(e)'
      <4>1. CASE pc[c] = "write"
        BY <1>4, <2>4, <3>2, <3>3, <4>1, WriteLands
      <4>2. CASE pc[c] \in Taken
        BY <1>4, <3>2, <4>2, AfterWrite, MutationOrder DEF Landed
      <4> QED
        BY <1>4, <4>1, <4>2, MutationOrder
    <3>5. /\ journal' = journal /\ req' = req /\ loc'[c].entry = e
          /\ loc'[c].src = loc[c].src /\ loc'[c].base = loc[c].base
      BY <1>4, <2>4, <3>1, EntryStays, MutationFrame
    <3> QED
      BY <2>1, <3>2, <3>4, <3>5 DEF OwnInv
  <2> QED
    BY <2>2, <2>3, <2>4
<1>5. CASE UNCHANGED vars
  BY <1>5 DEF vars, OwnInv, Landed, Degraded
<1> QED
  BY <1>1, <1>2, <1>3, <1>4, <1>5 DEF Next, Rest

---------------------------------------------------------------------------
\* As long as nothing fails, startup changes no file: the only entry that makes it
\* remove a directory is that of a delete whose file is gone already.
LEMMA PrepareSpares ==
  ASSUME TypeOK, PhaseInv, EntryInv, FlightInv, NEW e \in todo, PrepareEntry(e), ~Degraded
  PROVE  disk' = disk /\ (~dir => ~dir')
<1> USE NamesDiffer, RequestsAreValid
<1>0. ~dir => ~dir'
  <2>1. dir' = (dir /\ ~(Landed(e) /\ e.cleanup)) \/ dir' = dir
    BY DEF PrepareEntry
  <2> QED
    BY <2>1
<1>1. CASE Landed(e) /\ e.cleanup
  <2>1. e \in journal /\ e \in Entries
    BY DEF PrepareEntry, PhaseInv, TypeOK
  <2>2. e.path \in Langs /\ e.req.tool = "delete_page" /\ e.after = e.req.content
    BY <1>1, <2>1 DEF EntryInv
  <2>3. Live(e)
    BY <2>2 DEF Live, Stale
  <2>4. \A l \in Langs \ {e.path} : disk[l] = Absent
    BY <1>1, <2>1, <2>3 DEF FlightInv
  <2>5. e.after = Absent
    BY <2>1, <2>2 DEF Entries
  <2>6. disk[e.path] = Absent
    BY <1>1, <2>2, <2>5 DEF Landed
  <2>7. disk = Empty
    BY <2>4, <2>6 DEF TypeOK, Empty
  <2>8. disk' = Empty \/ disk' = disk
    BY DEF PrepareEntry
  <2> QED
    BY <1>0, <2>7, <2>8
<1>2. CASE ~(Landed(e) /\ e.cleanup)
  BY <1>0, <1>2 DEF PrepareEntry
<1> QED
  BY <1>1, <1>2

\* Failures are never forgotten.
LEMMA FailuresGrow ==
  ASSUME TypeOK, [Next]_vars
  PROVE  Degraded => Degraded'
<1>1. CASE Crash \/ Startup
  BY <1>1 DEF Crash, Startup, BootIndex, PrepareDone, StartupSync, BootDone, PrepareEntry,
     ReconcileEntry, Fails, Degraded, TypeOK
<1>2. ASSUME NEW c \in Clients, Admission(c) \/ Mutation(c)
      PROVE  Degraded => Degraded'
  BY <1>2, AdmissionFrame, MutationOrder DEF Degraded
<1>3. CASE UNCHANGED vars
  BY <1>3 DEF vars, Degraded
<1> QED
  BY <1>1, <1>2, <1>3 DEF Next, Rest

\* What startup holds for landed has landed.
LEMMA LandedKept ==
  ASSUME TypeOK, LockInv, PhaseInv, EntryInv, FlightInv, LandedInv, [Next]_vars
  PROVE  LandedInv'
<1>1. CASE Crash
  BY <1>1 DEF Crash, LandedInv
<1>2. CASE BootIndex \/ PrepareDone \/ StartupSync \/ BootDone
  <2>1. disk' = disk /\ dir' = dir /\ landed' \subseteq landed
    BY <1>2 DEF BootIndex, PrepareDone, StartupSync, BootDone
  <2>2. landed' = {} \/ resolved' = resolved
    BY <1>2 DEF BootIndex, PrepareDone, StartupSync, BootDone
  <2> QED
    BY <2>1, <2>2, FailuresGrow DEF LandedInv, Landed
<1>3. ASSUME NEW e \in todo, PrepareEntry(e)
      PROVE  LandedInv'
  <2>1. \A f : ~Degraded' /\ Landed(f) => Landed(f)'
    BY <1>3, PrepareSpares, FailuresGrow DEF Landed
  <2>2. landed' \subseteq landed \cup {e} /\ resolved \subseteq resolved'
    BY <1>3 DEF PrepareEntry
  <2>3. e \in landed' => e \in landed \/ (Landed(e) /\ e \in resolved')
    <3>1. Landed(e) => Resolves(e)
      BY DEF Landed, Resolves
    <3>2. CASE Landed(e)
      BY <1>3, <3>1, <3>2 DEF PrepareEntry
    <3>3. CASE ~Landed(e)
      BY <1>3, <3>3 DEF PrepareEntry
    <3> QED
      BY <3>2, <3>3
  <2> QED
    BY <2>1, <2>2, <2>3, FailuresGrow DEF LandedInv
<1>4. ASSUME NEW e \in todo, ReconcileEntry(e)
      PROVE  LandedInv'
  BY <1>4, FailuresGrow DEF ReconcileEntry, LandedInv, Landed
<1>5. ASSUME NEW c \in Clients, Admission(c)
      PROVE  LandedInv'
  BY <1>5, AdmissionFrame DEF LandedInv, Landed, Degraded
<1>6. ASSUME NEW c \in Clients, Mutation(c)
      PROVE  LandedInv'
  BY <1>6, MutationFrame DEF LandedInv, PhaseInv
<1>7. CASE UNCHANGED vars
  BY <1>7 DEF vars, startup, LandedInv, Landed, Degraded
<1> QED
  BY <1>1, <1>2, <1>3, <1>4, <1>5, <1>6, <1>7 DEF Next, Rest, Startup

\* The file named by the entry of the call in flight is as before or as after its
\* write, and alone when the call is to remove the directory.
LEMMA WriteInFlight ==
  ASSUME TypeOK, LockInv, PhaseInv, AimInv, TidyInv, NEW c \in Clients, NEW e,
         Mutation(c), ~Begin(c), e.path = loc[c].src, e.path \in Langs,
         e.req = req[c], e.after = req[c].content,
         e.cleanup => req[c].tool = "delete_page",
         disk[e.path] \in {e.before, e.after},
         e.cleanup => \A l \in Langs \ {e.path} : disk[l] = Absent
  PROVE  /\ disk'[e.path] \in {e.before, e.after}
         /\ e.cleanup => \A l \in Langs \ {e.path} : disk'[l] = Absent
<1>1. CASE CreateWrite(c) \/ UpdateWrite(c)
  BY <1>1 DEF CreateWrite, UpdateWrite, TypeOK
<1>2. CASE DeleteUnlink(c)
  <2>1. req[c].content = Absent
    BY <1>2, RequestsAreValid DEF DeleteUnlink, TypeOK
  <2> QED
    BY <1>2, <2>1 DEF DeleteUnlink, TypeOK
<1>3. CASE pc[c] \in Taken
  BY <1>3, AfterWrite
<1>4. CASE CreateExists(c) \/ WriteFails(c)
  BY <1>4 DEF CreateExists, WriteFails, AnswerOnly
<1>5. CASE DeleteBundleDir(c)
  BY <1>5, NamesDiffer DEF DeleteBundleDir
<1> QED
  BY <1>1, <1>2, <1>3, <1>4, <1>5 DEF Mutation, DeleteTidy, Reconcile, Stage, StageFails,
     Remember, Commit, Taken

\* Startup deals with every pending entry of a call that was in flight.
LEMMA FlightStartup ==
  ASSUME TypeOK, LockInv, PhaseInv, EntryInv, FlightInv, Startup, ~Degraded'
  PROVE  FlightInv'
<1> USE NamesDiffer
<1>0. ~Degraded /\ phase # "up" /\ \A e \in journal : Live(e) => Live(e)'
  BY FailuresGrow, StartupFrameHolds DEF Next, Live, Stale
<1>1. CASE BootIndex
  BY <1>0, <1>1 DEF BootIndex, FlightInv, Live, Stale
<1>2. CASE PrepareDone
  BY <1>0, <1>2 DEF PrepareDone, FlightInv, Live, Stale
<1>3. CASE StartupSync
  BY <1>0, <1>3 DEF StartupSync, Fails, Degraded, TypeOK, FlightInv, Live, Stale
<1>4. CASE BootDone
  BY <1>0, <1>4 DEF BootDone, FlightInv, Live, Stale
<1>5. ASSUME NEW e \in todo, PrepareEntry(e)
      PROVE  FlightInv'
  <2>1. disk' = disk
    BY <1>0, <1>5, PrepareSpares
  <2>2. /\ phase = "prepare" /\ phase' = "prepare" /\ journal' = journal
        /\ todo' = todo \ {e} /\ resolved \subseteq resolved'
    BY <1>5 DEF PrepareEntry
  <2>3. Resolves(e) => e \in resolved'
    BY <1>0, <1>5 DEF PrepareEntry, Fails, Degraded, TypeOK
  <2>4. e \in journal /\ Live(e) => Resolves(e)
    BY <1>0 DEF FlightInv, Resolves, Live, Stale
  <2> QED
    BY <1>0, <2>1, <2>2, <2>3, <2>4 DEF FlightInv, Live, Stale
<1>6. ASSUME NEW e \in todo, ReconcileEntry(e)
      PROVE  FlightInv'
  <2>1. /\ phase = "commit" /\ phase' = "commit" /\ todo' = todo \ {e} /\ disk' = disk
        /\ journal' = journal \ {e}
    BY <1>0, <1>6 DEF ReconcileEntry, Fails, Degraded, TypeOK
  <2> QED
    BY <1>0, <2>1 DEF FlightInv, Live, Stale
<1> QED
  BY <1>1, <1>2, <1>3, <1>4, <1>5, <1>6 DEF Startup

\* The journal's live entry is that of the call in flight.
LEMMA FlightKept ==
  ASSUME TypeOK, LockInv, PhaseInv, AimInv, BaseInv, TidyInv, EntryInv, OwnInv,
         FlightInv, LockInv', [Next]_vars
  PROVE  FlightInv'
<1> USE NamesDiffer, RequestsAreValid
<1> SUFFICES ASSUME ~Degraded'
             PROVE  FlightInv'
  BY DEF FlightInv
<1>0. ~Degraded
  BY FailuresGrow
<1>1. CASE Crash
  BY <1>0, <1>1 DEF Crash, FlightInv, Live, Stale
<1>2. CASE Startup
  BY <1>2, FlightStartup
<1>3. ASSUME NEW c \in Clients, Admission(c)
      PROVE  FlightInv'
  <2>1. ASSUME NEW e \in journal, Live(e), phase = "up"
        PROVE  lock' = e.client /\ pc'[e.client] \in Journaled /\ loc'[e.client].entry = e
    <3>1. /\ lock = e.client /\ pc[e.client] \in Journaled /\ loc[e.client].entry = e
          /\ e.client \in Clients
      BY <1>0, <2>1 DEF FlightInv, TypeOK, Entries
    <3>2. e.client # c
      BY <1>3, <3>1, AdmissionFrame DEF Journaled
    <3>3. pc'[e.client] = pc[e.client] /\ loc'[e.client] = loc[e.client]
      BY <1>3, <3>1, <3>2, AdmissionFrame
    <3> QED
      BY <3>1, <3>3 DEF LockInv, Holding, Journaled
  <2>2. UNCHANGED <<disk, journal, phase, todo, resolved>>
    BY <1>3, AdmissionFrame
  <2> QED
    BY <1>0, <2>1, <2>2 DEF FlightInv, Live, Stale
<1>4. ASSUME NEW c \in Clients, Mutation(c)
      PROVE  FlightInv'
  <2>1. lock = c /\ phase = "up" /\ phase' = "up" /\ req' = req
    BY <1>4, MutationFrame
  <2>2. ASSUME NEW e \in journal, Live(e)
        PROVE  /\ e.client = c /\ pc[c] \in Journaled /\ loc[c].entry = e
               /\ e.req = req[c] /\ e.path = loc[c].src /\ e.after = req[c].content
               /\ e.path \in Langs /\ e.req.tool # "create_page"
               /\ e.cleanup => req[c].tool = "delete_page"
    <3>1. e.client = c /\ pc[c] \in Journaled /\ loc[c].entry = e
      BY <1>0, <2>1, <2>2 DEF FlightInv
    <3>2. e.req = req[c] /\ e.path = loc[c].src
      BY <3>1 DEF OwnInv
    <3>3. e.after = e.req.content /\ Aims(e.req, e.path)
          /\ (e.cleanup => e.req.tool = "delete_page")
      BY DEF EntryInv
    <3> QED
      BY <2>2, <3>1, <3>2, <3>3 DEF Aims, Live, Stale
  <2>3. CASE Begin(c)
    <3>1. PICK e : e = loc'[c].entry
      OBVIOUS
    <3>2. /\ e.client = c /\ e.req = req[c] /\ e.path = loc[c].src
          /\ e.before = loc[c].base /\ e.after = req[c].content /\ e.cleanup = Cleans(c)
          /\ pc[c] = "begin" /\ pc'[c] = "write" /\ disk' = disk
          /\ journal' = journal \cup {e}
      BY <2>3, <3>1, BegunEntry
    <3>3. \A f \in journal : ~Live(f)
      BY <2>2, <3>2 DEF Journaled
    <3>4. lock' = c
      BY <2>1, <2>3 DEF Begin
    <3>5. Live(e) => disk[e.path] = e.before
      <4>1. Aims(req[c], loc[c].src)
        BY <3>2 DEF AimInv
      <4> QED
        BY <3>2, <4>1 DEF BaseInv, Aims, Live, Stale
    <3>6. e.cleanup => \A l \in Langs \ {e.path} : disk[l] = Absent
      BY <3>2 DEF Cleans, Present
    <3> QED
      BY <2>1, <3>1, <3>2, <3>3, <3>4, <3>5, <3>6 DEF FlightInv, Live, Stale, Journaled
  <2>4. CASE ~Begin(c) /\ pc'[c] = "idle"
    <3>1. CreateExists(c) \/ Commit(c)
      BY <1>0, <1>4, <2>4 DEF TypeOK, Degraded, Fails, Mutation, CreateWrite, UpdateWrite,
         DeleteUnlink, DeleteTidy, DeleteBundleDir, WriteFails, Reconcile, Stage, StageFails,
         Remember, Proceed, Goto
    <3>2. CASE CreateExists(c)
      <4>1. journal' = journal /\ req[c].tool = "create_page"
        BY <3>2 DEF CreateExists, AnswerOnly
      <4>2. \A e \in journal : ~Live(e)
        BY <2>2, <4>1
      <4> QED
        BY <4>1, <4>2 DEF FlightInv, Live, Stale
    <3>3. CASE Commit(c)
      <4>1. journal' = journal \ {loc[c].entry}
        BY <1>0, <3>3 DEF Commit, Degraded, Fails, TypeOK
      <4>2. \A e \in journal' : ~Live(e)
        BY <2>2, <4>1
      <4> QED
        BY <4>2 DEF FlightInv, Live, Stale
    <3> QED
      BY <3>1, <3>2, <3>3
  <2>5. CASE ~Begin(c) /\ pc'[c] # "idle"
    <3>1. journal' = journal /\ loc'[c].entry = loc[c].entry /\ pc'[c] \in Journaled
      BY <1>4, <2>5, EntryStays, MutationLabels
    <3>2. lock' = c
      BY <3>1 DEF LockInv, Holding, Journaled
    <3>3. ASSUME NEW e \in journal, Live(e)
          PROVE  /\ disk'[e.path] \in {e.before, e.after}
                 /\ e.cleanup => \A l \in Langs \ {e.path} : disk'[l] = Absent
      <4>1. /\ disk[e.path] \in {e.before, e.after}
            /\ e.cleanup => \A l \in Langs \ {e.path} : disk[l] = Absent
        BY <1>0, <3>3 DEF FlightInv
      <4> QED
        BY <1>4, <2>2, <2>5, <3>3, <4>1, WriteInFlight
    <3>4. \A e, f \in journal : Live(e) /\ Live(f) => f = e
      BY <1>0 DEF FlightInv
    <3> QED
      BY <2>1, <2>2, <3>1, <3>2, <3>3, <3>4 DEF FlightInv, Live, Stale
  <2> QED
    BY <2>3, <2>4, <2>5
<1>5. CASE UNCHANGED vars
  BY <1>0, <1>5 DEF vars, startup, FlightInv, Live, Stale
<1> QED
  BY <1>1, <1>2, <1>3, <1>4, <1>5 DEF Next, Rest

---------------------------------------------------------------------------
\* The copies follow the source.
LEMMA CopyKept ==
  ASSUME TypeOK, LockInv, PhaseInv, AimInv, TidyInv, EntryInv, FlightInv, CopyInv,
         [Next]_vars
  PROVE  CopyInv'
<1> USE NamesDiffer, RequestsAreValid
<1> SUFFICES ASSUME ~Degraded'
             PROVE  CopyInv'
  BY DEF CopyInv
<1>0. ~Degraded
  BY FailuresGrow
<1>1. CASE Crash
  BY <1>0, <1>1 DEF Crash, CopyInv
<1>2. CASE Startup
  <2>1. \A c \in Clients : pc'[c] = "idle"
    BY <1>2, StartupFrameHolds
  <2>2. CASE BootIndex \/ PrepareDone \/ BootDone
    BY <1>0, <2>1, <2>2 DEF BootIndex, PrepareDone, BootDone, CopyInv
  <2>3. CASE StartupSync
    BY <1>0, <2>1, <2>3 DEF StartupSync, CopyInv, Fails, Degraded, TypeOK
  <2>4. ASSUME NEW e \in todo, PrepareEntry(e)
        PROVE  CopyInv'
    BY <2>1, <2>4 DEF PrepareEntry, CopyInv
  <2>5. ASSUME NEW e \in todo, ReconcileEntry(e)
        PROVE  CopyInv'
    BY <1>0, <2>1, <2>5 DEF ReconcileEntry, CopyInv
  <2> QED
    BY <1>2, <2>2, <2>3, <2>4, <2>5 DEF Startup
<1>3. ASSUME NEW c \in Clients, Admission(c)
      PROVE  CopyInv'
  <2>1. \A d \in Clients : pc'[d] \in {"tidy", "reconcile"} <=> pc[d] \in {"tidy", "reconcile"}
    BY <1>3, AdmissionFrame DEF Journaled
  <2>2. \A d \in Clients : pc'[d] = "reconcile" =>
           pc[d] = "reconcile" /\ req'[d] = req[d] /\ loc'[d] = loc[d]
    BY <1>3, AdmissionFrame DEF Journaled
  <2>3. UNCHANGED <<disk, idx, shadow, phase>>
    BY <1>3, AdmissionFrame
  <2> QED
    BY <1>0, <2>1, <2>2, <2>3 DEF CopyInv, Derived
<1>4. ASSUME NEW c \in Clients, Mutation(c)
      PROVE  CopyInv'
  <2>1. /\ phase = "up" /\ phase' = "up" /\ req' = req
        /\ \A d \in Clients \ {c} : pc[d] \notin {"tidy", "reconcile"}
        /\ \A d \in Clients \ {c} : pc'[d] \notin {"tidy", "reconcile"}
    BY <1>4, MutationFrame DEF Holding
  <2>2. CASE CreateWrite(c) \/ UpdateWrite(c)
    <3>1. idx = disk /\ shadow = disk
      BY <1>0, <2>1, <2>2 DEF CopyInv, CreateWrite, UpdateWrite
    <3>2. /\ disk' = [disk EXCEPT ![loc[c].src] = req[c].content]
          /\ UNCHANGED <<idx, shadow, loc>> /\ pc'[c] = "reconcile"
          /\ req[c].tool # "delete_page"
      BY <2>2 DEF CreateWrite, UpdateWrite, WriteFrame, Goto, TypeOK, CopyInv
    <3> QED
      BY <2>1, <3>1, <3>2 DEF CopyInv, Derived
  <2>3. CASE DeleteUnlink(c)
    <3>1. idx = disk /\ shadow = disk
      BY <1>0, <2>1, <2>3 DEF CopyInv, DeleteUnlink
    <3>2. /\ disk' = [disk EXCEPT ![loc[c].src] = Absent]
          /\ UNCHANGED <<idx, shadow>> /\ req[c].tool = "delete_page"
          /\ pc'[c] = IF Present \ {loc[c].src} = {} THEN "tidy" ELSE "reconcile"
      BY <2>3 DEF DeleteUnlink, WriteFrame, Goto, TypeOK
    <3>3. loc'[c].src = loc[c].src /\ loc'[c].full = (Present \ {loc[c].src} = {})
      BY <2>3 DEF DeleteUnlink, TypeOK, Locals
    <3> QED
      BY <2>1, <3>1, <3>2, <3>3 DEF CopyInv, Derived
  <2>4. CASE DeleteTidy(c) \/ DeleteBundleDir(c)
    <3>1. disk' = Empty /\ pc'[c] = "reconcile" /\ req[c].tool = "delete_page"
      BY <2>4 DEF DeleteTidy, DeleteBundleDir, Goto, TypeOK, TidyInv
    <3>2. loc'[c].full
      BY <2>4 DEF DeleteTidy, DeleteBundleDir, TypeOK, Locals, TidyInv
    <3> QED
      BY <2>1, <3>1, <3>2 DEF CopyInv, Derived
  <2>5. CASE Reconcile(c)
    <3>1. /\ idx' = Derived(c, idx) /\ shadow' = Derived(c, shadow) /\ disk' = disk
          /\ pc[c] = "reconcile" /\ pc'[c] = "stage"
      BY <1>0, <2>5 DEF Reconcile, Fails, Degraded, Goto, TypeOK
    <3>2. idx' = disk /\ shadow' = disk
      BY <1>0, <3>1 DEF CopyInv
    <3> QED
      BY <2>1, <3>1, <3>2 DEF CopyInv
  <2>6. CASE ~(CreateWrite(c) \/ UpdateWrite(c) \/ DeleteUnlink(c) \/ DeleteTidy(c)
                \/ DeleteBundleDir(c) \/ Reconcile(c))
    <3>1. Begin(c) \/ CreateExists(c) \/ Stage(c) \/ Remember(c) \/ Commit(c)
      BY <1>0, <1>4, <2>6
      DEF Mutation, WriteFails, StageFails, Fails, Degraded, TypeOK
    <3>2. UNCHANGED <<disk, idx, shadow>> /\ pc[c] \notin {"tidy", "reconcile"}
          /\ pc'[c] \notin {"tidy", "reconcile"}
      BY <3>1 DEF Begin, CreateExists, Stage, Remember, Commit, AnswerOnly, Answer, Proceed,
         Goto, TypeOK
    <3> QED
      BY <1>0, <2>1, <3>2 DEF CopyInv
  <2> QED
    BY <2>2, <2>3, <2>4, <2>5, <2>6
<1>5. CASE UNCHANGED vars
  BY <1>0, <1>5 DEF vars, startup, CopyInv, Derived
<1> QED
  BY <1>1, <1>2, <1>3, <1>4, <1>5 DEF Next, Rest

---------------------------------------------------------------------------
\* A key is a key's slot, and a recorded request is not Unused.
LEMMA SlotOfCall ==
  ASSUME TypeOK, NEW c \in Clients, pc[c] # "idle", Keyed(req[c])
  PROVE  Slot(c) \in Slots /\ req[c] # Unused /\ Slot(c)[2] = req[c].tool
  BY NamesDiffer, RequestsAreValid DEF TypeOK, Slot, Slots, Keyed

\* ... and so has a journal entry.
LEMMA SlotOfEntry ==
  ASSUME NEW e \in Entries, Keyed(e.req)
  PROVE  EntrySlot(e) \in Slots /\ e.req # Unused /\ EntrySlot(e)[2] = e.req.tool
  BY NamesDiffer, RequestsAreValid DEF Entries, EntrySlot, Slots, Keyed

\* What startup records never clears a key.
LEMMA RecordKeeps ==
  ASSUME TypeOK, NEW e \in Entries
  PROVE  /\ \A s \in Slots : idem[s] # Unused => RecordLanded(e)[s] # Unused
         /\ e \in landed /\ Keyed(e.req) => RecordLanded(e)[EntrySlot(e)] = e.req
         /\ \A s \in Slots : RecordLanded(e)[s] # idem[s] => Keyed(e.req) /\ s = EntrySlot(e)
  BY SlotOfEntry DEF TypeOK, RecordLanded

\* Startup loses no keyed call that changed the source.
LEMMA OnceStartup ==
  ASSUME TypeOK, LockInv, PhaseInv, EntryInv, FlightInv, LandedInv, OnceInv, Startup,
         ~Degraded'
  PROVE  OnceInv'
<1>0. ~Degraded /\ applied' = applied /\ \A c \in Clients : pc[c] = "idle"
  BY FailuresGrow, StartupFrameHolds DEF Next
<1> SUFFICES ASSUME NEW s \in Slots, Accounted(s)
             PROVE  Accounted(s)'
  BY <1>0 DEF OnceInv
<1>1. CASE idem[s] # Unused
  <2>1. CASE idem' = idem
    BY <1>1, <2>1 DEF Accounted
  <2>2. CASE idem' # idem
    <3>1. PICK e \in todo : idem' = RecordLanded(e)
      BY <2>2 DEF Startup, BootIndex, PrepareDone, StartupSync, BootDone, PrepareEntry,
         ReconcileEntry
    <3>2. e \in Entries
      BY DEF TypeOK
    <3> QED
      BY <1>1, <3>1, <3>2, RecordKeeps DEF Accounted
  <2> QED
    BY <2>1, <2>2
<1>2. CASE idem[s] = Unused
  <2>1. PICK e \in journal :
          /\ phase # "up" /\ Keyed(e.req) /\ EntrySlot(e) = s /\ Landed(e)
          /\ phase = "prepare" => e \in todo \cup landed
          /\ phase = "sync" => e \in landed
          /\ phase = "commit" => e \in todo \cap landed
    BY <1>0, <1>2 DEF Accounted, Taken
  <2>2. CASE BootIndex
    BY <2>1, <2>2 DEF BootIndex, Accounted, Landed
  <2>3. CASE PrepareDone
    BY <2>1, <2>3 DEF PrepareDone, Accounted, Landed
  <2>4. CASE StartupSync
    <3>1. /\ phase = "sync" /\ phase' = "commit" /\ todo' = resolved
          /\ UNCHANGED <<landed, journal, disk, dir>>
      BY <1>0, <2>4 DEF StartupSync, Fails, Degraded, TypeOK
    <3> QED
      BY <2>1, <3>1 DEF LandedInv, Accounted, Landed
  <2>5. CASE BootDone
    BY <2>1, <2>5 DEF BootDone
  <2>6. ASSUME NEW f \in todo, PrepareEntry(f)
        PROVE  Accounted(s)'
    <3>1. Landed(e)'
      BY <1>0, <2>1, <2>6, PrepareSpares DEF Landed
    <3>2. /\ phase = "prepare" /\ phase' = "prepare" /\ journal' = journal
          /\ todo' = todo \ {f}
      BY <2>6 DEF PrepareEntry
    <3>3. landed' = IF Landed(f) THEN landed \cup {f} ELSE landed
      BY <1>0, <2>6 DEF PrepareEntry, Fails, Degraded, TypeOK
    <3>4. e \in todo' \cup landed'
      BY <2>1, <3>2, <3>3
    <3> QED
      BY <2>1, <3>1, <3>2, <3>4 DEF Accounted
  <2>7. ASSUME NEW f \in todo, ReconcileEntry(f)
        PROVE  Accounted(s)'
    <3>1. /\ phase = "commit" /\ phase' = "commit" /\ UNCHANGED <<disk, dir, landed>>
          /\ todo' = todo \ {f} /\ journal' = journal \ {f} /\ idem' = RecordLanded(f)
      BY <1>0, <2>7 DEF ReconcileEntry, Fails, Degraded, TypeOK
    <3>2. CASE f = e
      <4>1. e \in Entries /\ e.req # Unused
        BY <2>1, SlotOfEntry DEF TypeOK
      <4>2. idem'[s] = e.req
        BY <2>1, <3>1, <3>2, <4>1, RecordKeeps
      <4> QED
        BY <4>1, <4>2 DEF Accounted
    <3>3. CASE f # e
      BY <2>1, <3>1, <3>3 DEF Accounted, Landed
    <3> QED
      BY <3>2, <3>3
  <2> QED
    BY <2>2, <2>3, <2>4, <2>5, <2>6, <2>7 DEF Startup
<1> QED
  BY <1>1, <1>2

\* A handler changes the source for a keyed call only when no other attempt of that
\* call has, and does not return before the key is known.
LEMMA OnceMutation ==
  ASSUME TypeOK, LockInv, PhaseInv, KeyInv, TidyInv, OwnInv, OnceInv,
         NEW c \in Clients, Mutation(c), ~Degraded, ~Degraded'
  PROVE  OnceInv'
<1>1. /\ phase = "up" /\ req' = req
      /\ \A d \in Clients \ {c} : pc[d] \notin Taken
  BY MutationFrame DEF Holding, Taken
<1>2. CASE CreateWrite(c) \/ UpdateWrite(c) \/ DeleteUnlink(c) \/ DeleteBundleDir(c)
  <2>1. pc[c] = "write" /\ pc'[c] \in Taken /\ idem' = idem /\ Effect(c)
    BY <1>2 DEF CreateWrite, UpdateWrite, DeleteUnlink, DeleteBundleDir, WriteFrame, Goto,
       Taken, TypeOK
  <2>2. \A s \in Slots : Accounted(s) => Accounted(s)'
    BY <1>1, <2>1 DEF Accounted, Taken
  <2>3. CASE ~Keyed(req[c])
    BY <2>1, <2>2, <2>3 DEF OnceInv, Effect
  <2>4. CASE Keyed(req[c])
    <3>1. Slot(c) \in Slots /\ applied' = [applied EXCEPT ![Slot(c)] = @ + 1]
      BY <2>1, <2>4, SlotOfCall DEF Effect
    <3>2. idem[Slot(c)] = Unused
      BY <2>1, <2>4 DEF KeyInv, Recorded, Unrecorded
    <3>3. ~Accounted(Slot(c))
      BY <1>1, <2>1, <3>2 DEF Accounted, Taken
    <3>4. applied[Slot(c)] = 0
      BY <3>1, <3>3 DEF OnceInv, TypeOK
    <3>5. Accounted(Slot(c))'
      BY <1>1, <2>1, <2>4 DEF Accounted, Slot
    <3>6. Slot(c)' = Slot(c)
      BY <1>1 DEF Slot
    <3>7. ASSUME NEW s \in Slots
          PROVE  applied'[s] <= 1 /\ (applied'[s] = 1 => Accounted(s)')
      <4>1. CASE s = Slot(c)
        BY <3>1, <3>4, <3>5, <3>6, <4>1 DEF TypeOK
      <4>2. CASE s # Slot(c)
        <5>1. applied'[s] = applied[s]
          BY <3>1, <4>2 DEF TypeOK
        <5> QED
          BY <2>2, <5>1 DEF OnceInv
      <4> QED
        BY <4>1, <4>2
    <3> QED
      BY <3>7 DEF OnceInv
  <2> QED
    BY <2>3, <2>4
<1>3. CASE Remember(c)
  <2>1. /\ applied' = applied /\ pc'[c] = "commit"
        /\ idem' = IF Keyed(req[c]) THEN [idem EXCEPT ![Slot(c)] = req[c]] ELSE idem
    BY <1>3 DEF Remember, Fails, Degraded, TypeOK, Goto
  <2>2. Keyed(req[c]) => Slot(c) \in Slots /\ req[c] # Unused
    BY <1>3, SlotOfCall DEF Remember
  <2>3. ASSUME NEW s \in Slots, Accounted(s)
        PROVE  Accounted(s)'
    <3>1. idem[s] # Unused => idem'[s] # Unused
      BY <2>1, <2>2 DEF TypeOK
    <3> QED
      BY <1>1, <2>1, <2>3, <3>1 DEF Accounted, Taken, Slot
  <2> QED
    BY <2>1, <2>3 DEF OnceInv
<1>4. CASE Commit(c)
  <2>1. applied' = applied /\ idem' = idem
    BY <1>4 DEF Commit
  <2>2. Keyed(req[c]) => idem[Slot(c)] # Unused
    BY <1>4, SlotOfCall DEF Commit, KeyInv
  <2>3. ASSUME NEW s \in Slots, Accounted(s)
        PROVE  Accounted(s)'
    BY <1>1, <2>1, <2>2, <2>3 DEF Accounted
  <2> QED
    BY <2>1, <2>3 DEF OnceInv
<1>5. CASE CreateExists(c) \/ Begin(c) \/ DeleteTidy(c) \/ Reconcile(c) \/ Stage(c)
  <2>1. applied' = applied /\ idem' = idem /\ (pc[c] \in Taken => pc'[c] \in Taken)
    BY <1>5 DEF CreateExists, Begin, DeleteTidy, Reconcile, Stage, AnswerOnly, Proceed,
       WriteFrame, Goto, Taken, TypeOK
  <2>2. ASSUME NEW s \in Slots, Accounted(s)
        PROVE  Accounted(s)'
    BY <1>1, <2>1, <2>2 DEF Accounted, Slot
  <2> QED
    BY <2>1, <2>2 DEF OnceInv
<1>6. ~WriteFails(c) /\ ~StageFails(c)
  BY DEF WriteFails, StageFails, Fails, Degraded, TypeOK
<1> QED
  BY <1>2, <1>3, <1>4, <1>5, <1>6 DEF Mutation

\* A keyed call that changed the source is accounted for.
LEMMA OnceKept ==
  ASSUME TypeOK, LockInv, PhaseInv, KeyInv, TidyInv, EntryInv, OwnInv, FlightInv,
         LandedInv, OnceInv, [Next]_vars
  PROVE  OnceInv'
<1> SUFFICES ASSUME ~Degraded'
             PROVE  OnceInv'
  BY DEF OnceInv
<1>0. ~Degraded
  BY FailuresGrow
<1>1. CASE Crash
  <2>1. UNCHANGED <<disk, dir, journal, idem, applied>> /\ phase' = "down"
    BY <1>1 DEF Crash
  <2>2. ASSUME NEW s \in Slots, Accounted(s)
        PROVE  Accounted(s)'
    <3>1. CASE idem[s] # Unused
      BY <2>1, <3>1 DEF Accounted
    <3>2. ASSUME NEW c \in Clients, pc[c] \in Taken, Keyed(req[c]), Slot(c) = s
          PROVE  Accounted(s)'
      <4>1. PICK e : e = loc[c].entry
        OBVIOUS
      <4>2. e \in journal /\ e.client = c /\ e.req = req[c] /\ Landed(e)
        BY <1>0, <3>2, <4>1 DEF OwnInv, Taken, Journaled
      <4>3. Keyed(e.req) /\ EntrySlot(e) = s
        BY <3>2, <4>2 DEF EntrySlot, Slot
      <4> QED
        BY <2>1, <4>2, <4>3 DEF Accounted, Landed
    <3>3. ASSUME NEW e \in journal, Keyed(e.req), EntrySlot(e) = s, Landed(e)
          PROVE  Accounted(s)'
      BY <2>1, <3>3 DEF Accounted, Landed
    <3> QED
      BY <2>2, <3>1, <3>2, <3>3 DEF Accounted
  <2> QED
    BY <1>0, <2>1, <2>2 DEF OnceInv
<1>2. CASE Startup
  BY <1>2, OnceStartup
<1>3. ASSUME NEW c \in Clients, Admission(c)
      PROVE  OnceInv'
  <2>1. /\ UNCHANGED <<disk, dir, journal, idem, applied, phase, todo, landed>>
        /\ \A d \in Clients : pc[d] \in Taken => pc'[d] \in Taken /\ req'[d] = req[d]
    BY <1>3, AdmissionFrame DEF Taken, Journaled
  <2>2. ASSUME NEW s \in Slots, Accounted(s)
        PROVE  Accounted(s)'
    BY <2>1, <2>2 DEF Accounted, Slot, Landed
  <2> QED
    BY <1>0, <2>1, <2>2 DEF OnceInv
<1>4. ASSUME NEW c \in Clients, Mutation(c)
      PROVE  OnceInv'
  BY <1>0, <1>4, OnceMutation
<1>5. CASE UNCHANGED vars
  BY <1>0, <1>5 DEF vars, startup, OnceInv, Accounted, Slot, Landed
<1> QED
  BY <1>1, <1>2, <1>3, <1>4, <1>5 DEF Next, Rest

---------------------------------------------------------------------------
\* The key of a pending update is unused or that update's.
LEMMA RecordKept ==
  ASSUME TypeOK, LockInv, PhaseInv, AimInv, KeyInv, EntryInv, OwnInv, FlightInv,
         RecordInv, [Next]_vars
  PROVE  RecordInv'
<1> USE NamesDiffer, RequestsAreValid
<1> SUFFICES ASSUME ~Degraded'
             PROVE  RecordInv'
  BY DEF RecordInv
<1>0. ~Degraded
  BY FailuresGrow
<1>1. ASSUME NEW e \in journal, e.req.tool = "update_page"
      PROVE  Live(e)
  BY <1>1 DEF EntryInv, Aims, Live, Stale
<1>2. ASSUME idem' = idem, journal' \subseteq journal
      PROVE  RecordInv'
  BY <1>0, <1>2 DEF RecordInv
<1>3. CASE Crash \/ UNCHANGED vars
  BY <1>2, <1>3 DEF Crash, vars
<1>4. CASE Startup
  <2>1. CASE BootIndex \/ PrepareDone \/ StartupSync \/ BootDone
    BY <1>2, <2>1 DEF BootIndex, PrepareDone, StartupSync, BootDone
  <2>2. ASSUME NEW e \in todo, PrepareEntry(e)
        PROVE  RecordInv'
    BY <1>2, <2>2 DEF PrepareEntry
  <2>3. ASSUME NEW f \in todo, ReconcileEntry(f)
        PROVE  RecordInv'
    <3>1. idem' = RecordLanded(f) /\ journal' = journal \ {f} /\ f \in journal
      BY <1>0, <2>3 DEF ReconcileEntry, Fails, Degraded, TypeOK, PhaseInv
    <3>2. ASSUME NEW e \in journal', e.req.tool = "update_page", Keyed(e.req)
          PROVE  idem'[EntrySlot(e)] \in {Unused, e.req}
      <4>1. e \in journal /\ e # f /\ e \in Entries /\ f \in Entries
        BY <3>1 DEF TypeOK
      <4>2. CASE idem'[EntrySlot(e)] = idem[EntrySlot(e)]
        BY <1>0, <3>2, <4>1, <4>2 DEF RecordInv
      <4>3. CASE idem'[EntrySlot(e)] # idem[EntrySlot(e)]
        <5>1. Keyed(f.req) /\ EntrySlot(e) = EntrySlot(f)
          BY <3>1, <3>2, <4>1, <4>3, SlotOfEntry, RecordKeeps
        <5>2. f.req.tool = "update_page"
          BY <3>2, <4>1, <5>1, SlotOfEntry
        <5>3. Live(e) /\ Live(f)
          BY <1>1, <3>1, <3>2, <4>1, <5>2
        <5> QED
          BY <1>0, <3>1, <4>1, <5>3 DEF FlightInv
      <4> QED
        BY <4>2, <4>3
    <3> QED
      BY <3>2 DEF RecordInv
  <2> QED
    BY <1>4, <2>1, <2>2, <2>3 DEF Startup
<1>5. ASSUME NEW c \in Clients, Admission(c)
      PROVE  RecordInv'
  BY <1>2, <1>5, AdmissionFrame
<1>6. ASSUME NEW c \in Clients, Mutation(c)
      PROVE  RecordInv'
  <2>1. CASE Begin(c)
    <3>1. PICK e : e = loc'[c].entry
      OBVIOUS
    <3>2. /\ journal' = journal \cup {e} /\ e.client = c /\ e.req = req[c]
          /\ pc[c] = "begin" /\ idem' = idem
      BY <2>1, <3>1, BegunEntry DEF Begin
    <3>3. Keyed(e.req) => idem'[EntrySlot(e)] = Unused
      BY <3>2 DEF KeyInv, Recorded, Unrecorded, Slot, EntrySlot
    <3> QED
      BY <1>0, <3>2, <3>3 DEF RecordInv
  <2>2. CASE Remember(c)
    <3>1. /\ journal' = journal /\ pc[c] = "remember"
          /\ idem' = IF Keyed(req[c]) THEN [idem EXCEPT ![Slot(c)] = req[c]] ELSE idem
      BY <1>0, <2>2 DEF Remember, Fails, Degraded, TypeOK
    <3>2. ASSUME NEW e \in journal, e.req.tool = "update_page", Keyed(e.req)
          PROVE  idem'[EntrySlot(e)] \in {Unused, e.req}
      <4>1. lock = c /\ phase = "up"
        BY <1>6, MutationFrame
      <4>2. e.client = c /\ loc[c].entry = e
        BY <1>0, <1>1, <3>2, <4>1 DEF FlightInv
      <4>3. e.req = req[c]
        BY <3>1, <4>2 DEF OwnInv, Journaled
      <4>4. EntrySlot(e) = Slot(c) /\ Slot(c) \in Slots
        BY <3>1, <3>2, <4>2, <4>3, SlotOfCall DEF EntrySlot, Slot
      <4> QED
        BY <3>1, <3>2, <4>3, <4>4 DEF TypeOK
    <3> QED
      BY <3>1, <3>2 DEF RecordInv
  <2>3. CASE ~Begin(c) /\ ~Remember(c)
    <3>1. idem' = idem
      BY <1>6, <2>3 DEF Mutation, CreateWrite, CreateExists, UpdateWrite, DeleteUnlink,
         DeleteTidy, DeleteBundleDir, WriteFails, Reconcile, Stage, StageFails, Commit,
         AnswerOnly, Proceed, WriteFrame
    <3>2. journal' \subseteq journal
      BY <1>6, <2>3, JournalGrows
    <3> QED
      BY <1>2, <3>1, <3>2
  <2> QED
    BY <2>1, <2>2, <2>3
<1> QED
  BY <1>3, <1>4, <1>5, <1>6 DEF Next, Rest

---------------------------------------------------------------------------
\* The invariant holds at the start ...
LEMMA InitInvariant == Init => IInv
<1> USE NamesDiffer, RequestsAreValid
<1> SUFFICES ASSUME Init
             PROVE  IInv
  OBVIOUS
<1>1. TypeOK
  BY InitType
<1>2. LockInv /\ PhaseInv /\ AimInv /\ BaseInv /\ KeyInv /\ OwnInv
  BY DEF Init, LockInv, PhaseInv, AimInv, BaseInv, KeyInv, OwnInv, Holding, Journaled,
     Unrecorded
<1>3. TidyInv
  <2>1. ~dir => \A l \in Langs : disk[l] = Absent
    BY DEF Init, Present
  <2>2. ~dir => disk = Empty
    BY <1>1, <2>1 DEF TypeOK, Empty
  <2> QED
    BY <2>2 DEF Init, TidyInv
<1>4. EntryInv /\ FlightInv /\ LandedInv /\ CopyInv /\ OnceInv /\ RecordInv
  BY DEF Init, EntryInv, FlightInv, LandedInv, CopyInv, OnceInv, RecordInv
<1> QED
  BY <1>1, <1>2, <1>3, <1>4 DEF IInv

\* ... and every step keeps it.
LEMMA StepInvariant == IInv /\ [Next]_vars => IInv'
<1> SUFFICES ASSUME IInv, [Next]_vars
             PROVE  IInv'
  OBVIOUS
<1>1. TypeOK' /\ LockInv' /\ PhaseInv'
  BY StepType, LockKept, PhaseKept DEF IInv
<1> QED
  BY <1>1, AimKept, BaseKept, KeyKept, TidyKept, EntryKept, OwnKept, FlightKept, LandedKept,
     CopyKept, OnceKept, RecordKept DEF IInv

\* Every reachable state satisfies the invariant.
THEOREM Invariant == Spec => []IInv
  BY InitInvariant, StepInvariant, PTL DEF Spec

\* A keyed call changes the source at most once (ExactlyOnce).
THEOREM KeyedCallActsOnce == Spec => []ExactlyOnce
<1>1. IInv => ExactlyOnce
  BY DEF IInv, OnceInv, ExactlyOnce
<1> QED
  BY <1>1, Invariant, PTL

\* The index and the derived rows agree with the files whenever nothing runs.
THEOREM CopiesAgree == Spec => []CopiesAgreeWithSource
<1>1. IInv => CopiesAgreeWithSource
  <2> SUFFICES ASSUME IInv, phase = "up", lock = NoClient, ~Degraded
               PROVE  idx = disk /\ shadow = disk
    BY DEF CopiesAgreeWithSource
  <2>1. \A c \in Clients : pc[c] \notin Holding
    BY NamesDiffer DEF IInv, LockInv
  <2> QED
    BY <2>1 DEF IInv, CopyInv, Holding
<1> QED
  BY <1>1, Invariant, PTL

\* No entry of the recovery journal outlives its call but the stale ones.
THEOREM PendingInFlight == Spec => []PendingMeansInFlight
<1>1. IInv => PendingMeansInFlight
  BY DEF IInv, FlightInv, Live, PendingMeansInFlight
<1> QED
  BY <1>1, Invariant, PTL

\* Startup changes no page.
THEOREM RestartKeeps == Spec => RestartKeepsPages
<1>1. IInv /\ [Next]_vars => (phase # "up" /\ ~Degraded' => disk' = disk)
  <2> SUFFICES ASSUME IInv, [Next]_vars, phase # "up", ~Degraded'
               PROVE  disk' = disk
    OBVIOUS
  <2>0. ~Degraded /\ \A c \in Clients : pc[c] = "idle"
    BY FailuresGrow DEF IInv, PhaseInv
  <2>1. CASE Crash \/ UNCHANGED vars
    BY <2>1 DEF Crash, vars
  <2>2. CASE BootIndex \/ PrepareDone \/ StartupSync \/ BootDone
    BY <2>2 DEF BootIndex, PrepareDone, StartupSync, BootDone
  <2>3. ASSUME NEW e \in todo, PrepareEntry(e)
        PROVE  disk' = disk
    BY <2>0, <2>3, PrepareSpares DEF IInv
  <2>4. ASSUME NEW e \in todo, ReconcileEntry(e)
        PROVE  disk' = disk
    BY <2>4 DEF ReconcileEntry
  <2>5. ASSUME NEW c \in Clients, Admission(c)
        PROVE  disk' = disk
    BY <2>5, AdmissionFrame DEF IInv
  <2>6. ASSUME NEW c \in Clients, Mutation(c)
        PROVE  disk' = disk
    BY <2>6, MutationFrame DEF IInv
  <2> QED
    BY <2>1, <2>2, <2>3, <2>4, <2>5, <2>6 DEF Next, Rest, Startup
<1> QED
  BY <1>1, Invariant, PTL DEF Spec, RestartKeepsPages

\* What is recorded under a key stays, and under an update's key for good.
THEOREM KnownKept == Spec => KnownStays
<1> USE NamesDiffer, RequestsAreValid
<1>1. IInv /\ [Next]_vars =>
        (~Degraded' => \A s \in Slots : idem[s] # Unused =>
           idem'[s] = idem[s] \/ (phase = "commit" /\ s[2] # "update_page"))
  <2> SUFFICES ASSUME IInv, [Next]_vars, ~Degraded', NEW s \in Slots, idem[s] # Unused,
                      idem'[s] # idem[s]
               PROVE  phase = "commit" /\ s[2] # "update_page"
    OBVIOUS
  <2>0. TypeOK /\ ~Degraded /\ idem' # idem
    BY FailuresGrow DEF IInv
  <2>1. CASE Startup
    <3>1. PICK e \in todo : ReconcileEntry(e)
      BY <2>0, <2>1 DEF Startup, BootIndex, PrepareDone, StartupSync, BootDone, PrepareEntry
    <3>2. phase = "commit" /\ idem' = RecordLanded(e) /\ e \in journal /\ e \in Entries
      BY <2>0, <3>1 DEF ReconcileEntry, Fails, Degraded, TypeOK, IInv, PhaseInv
    <3>3. Keyed(e.req) /\ s = EntrySlot(e) /\ idem'[s] = e.req
      BY <2>0, <3>2, RecordKeeps DEF RecordLanded
    <3>4. s[2] = e.req.tool
      BY <3>2, <3>3, SlotOfEntry
    <3>5. e.req.tool # "update_page"
      BY <2>0, <3>2, <3>3 DEF IInv, RecordInv
    <3> QED
      BY <3>2, <3>4, <3>5
  <2>2. ASSUME NEW c \in Clients, Mutation(c)
        PROVE  FALSE
    <3>1. Remember(c)
      BY <2>0, <2>2 DEF Mutation, Begin, CreateWrite, CreateExists, UpdateWrite,
         DeleteUnlink, DeleteTidy, DeleteBundleDir, WriteFails, Reconcile, Stage, StageFails,
         Commit, AnswerOnly, Proceed, WriteFrame
    <3>2. Keyed(req[c]) /\ s = Slot(c) /\ pc[c] = "remember"
      BY <2>0, <3>1 DEF Remember, TypeOK
    <3> QED
      BY <3>2 DEF IInv, KeyInv, Recorded, Unrecorded
  <2>3. ASSUME NEW c \in Clients, Admission(c)
        PROVE  FALSE
    BY <2>0, <2>3, AdmissionFrame
  <2>4. CASE Crash \/ UNCHANGED vars
    BY <2>0, <2>4 DEF Crash, vars
  <2> QED
    BY <2>1, <2>2, <2>3, <2>4 DEF Next, Rest
<1> QED
  BY <1>1, Invariant, PTL DEF Spec, KnownStays
-----------------------------------------------------------------------------
(***************************************************************************)
(* PageMutation implements PageService: its initial states are allowed and  *)
(* every step of a handler, of a death and of startup is a step of the     *)
(* service, or one its callers cannot see.                                 *)
(***************************************************************************)


\* The outcome of an answer is what the callers of PageService see.
LEMMA OutcomeOfAnswer ==
  /\ \A a \in {"success", "replayed"} : Outcome(a) = "ok"
  /\ \A a \in Answers \ {"success", "replayed", "none", "lost"} : Outcome(a) = "error"
  /\ \A a \in {"none", "lost"} : Outcome(a) = a
  BY DEF Outcome, Answers

\* Once failed, failed for good.
LEMMA FailureMarks ==
  ASSUME Degraded => Degraded'
  PROVE  Degraded' \in {Degraded, TRUE}
<1>1. Degraded \in BOOLEAN /\ Degraded' \in BOOLEAN
  BY DEF Degraded
<1> QED
  BY <1>1

\* A step that moves a handler on, short of its write, is invisible.
LEMMA InvisibleStep ==
  ASSUME UNCHANGED <<disk, idem, failures, ans>>,
         \A c \in Clients : (pc'[c] = "idle" <=> pc[c] = "idle")
                            /\ (pc'[c] \in Taken <=> pc[c] \in Taken)
                            /\ (pc[c] # "idle" => req'[c] = req[c])
  PROVE  UNCHANGED Service!vars
<1>1. OpenCalls' = OpenCalls
  BY DEF OpenCalls
<1>2. Effects' = Effects
  BY DEF Effects
<1>3. Outcomes' = Outcomes
  BY DEF Outcomes, Outcome
<1> QED
  BY <1>1, <1>2, <1>3 DEF Service!vars, Degraded

\* A return from the handler closes the call.
LEMMA AnswerCloses ==
  ASSUME TypeOK, NEW c \in Clients, pc[c] # "idle",
         NEW a \in Answers \ {"none", "lost"}, Answer(c, a),
         UNCHANGED <<disk, idem, req>>, Degraded => Degraded',
         \/ /\ pc[c] \notin Taken
            /\ a = "replayed" => Keyed(req[c]) /\ idem[Slot(c)] = req[c]
            /\ a # "success"
         \/ /\ pc[c] \in Taken
            /\ a = "success" => Degraded' \/ (Keyed(req[c]) => idem[Slot(c)] = req[c])
            /\ a # "success" => Degraded'
  PROVE  Service!Close(c)
<1>1. OpenCalls[c] = req[c] /\ OpenCalls' = [OpenCalls EXCEPT ![c] = Unused]
  BY DEF OpenCalls, Answer, Goto, TypeOK
<1>2. OpenCalls[c] # Unused
  BY <1>1, NamesDiffer DEF TypeOK
<1>3. (c \in Effects <=> pc[c] \in Taken) /\ Effects' = Effects \ {c}
  BY DEF Effects, Answer, Goto, TypeOK, Taken
<1>4. Outcomes' = [Outcomes EXCEPT ![c] = Outcome(a)]
  BY DEF Outcomes, Answer, TypeOK
<1>5. Outcome(a) \in {"ok", "error"} /\ (Outcome(a) = "ok" <=> a \in {"success", "replayed"})
  BY OutcomeOfAnswer
<1>6. Service!Slot(c) = Slot(c)
  BY <1>1 DEF Service!Slot, Slot
<1>7. Service!Answers(c, Outcome(a))
  BY <1>1, <1>3, <1>5, <1>6 DEF Service!Answers, Keyed
<1>8. Degraded' \in {Degraded, TRUE}
  BY FailureMarks
<1> QED
  BY <1>1, <1>2, <1>3, <1>4, <1>5, <1>7, <1>8 DEF Service!Close

\* Admission opens a call, closes it without effect, or is invisible.
LEMMA AdmissionRefines ==
  ASSUME TypeOK, NEW c \in Clients, Admission(c)
  PROVE  [Service!Next]_Service!vars
<1>1. CASE Submit(c)
  <2>1. PICK r \in Asks[c] :
          /\ req' = [req EXCEPT ![c] = r]
          /\ Goto(c, IF r.tool = "delete_page" /\ ~Keyed(r) THEN "inspect" ELSE "lock")
    BY <1>1 DEF Submit
  <2>2. r \in Requests
    BY RequestsAreValid
  <2>3. OpenCalls[c] = Unused /\ OpenCalls' = [OpenCalls EXCEPT ![c] = r]
    BY <1>1, <2>1 DEF Submit, OpenCalls, Goto, TypeOK
  <2>4. Outcomes' = [Outcomes EXCEPT ![c] = "none"]
    BY <1>1, OutcomeOfAnswer DEF Submit, Outcomes, TypeOK
  <2>5. Effects' = Effects
    BY <1>1, <2>1 DEF Submit, Effects, Goto, TypeOK, Taken
  <2>6. Service!Open(c)
    BY <1>1, <2>2, <2>3, <2>4, <2>5 DEF Service!Open, Submit, Degraded
  <2> QED
    BY <2>6 DEF Service!Next
<1>2. ASSUME NEW a \in Answers \ {"none", "lost", "success"}, AnswerOnly(c, a),
             pc[c] # "idle", pc[c] \notin Taken,
             a = "replayed" => Keyed(req[c]) /\ idem[Slot(c)] = req[c]
      PROVE  [Service!Next]_Service!vars
  <2>1. Service!Close(c)
    BY <1>2, AnswerCloses DEF AnswerOnly, Degraded
  <2> QED
    BY <2>1 DEF Service!Next
<1>3. ASSUME NEW label \in Labels \ ({"idle"} \cup Taken), NEW l, Proceed(c, label, l),
             pc[c] # "idle", pc[c] \notin Taken
      PROVE  [Service!Next]_Service!vars
  <2>1. UNCHANGED Service!vars
    BY <1>3, InvisibleStep DEF Proceed, Goto, TypeOK
  <2> QED
    BY <2>1
<1>4. CASE AcquireLock(c)
  <2>1. UNCHANGED Service!vars
    BY <1>4, InvisibleStep DEF AcquireLock, Goto, TypeOK, Taken
  <2> QED
    BY <2>1
<1>5. CASE Replay(c)
  BY <1>2, <1>5 DEF Replay, ConsultsKey, Recorded, Taken, Answers
<1>6. CASE LockTimeout(c) \/ Refuse(c) \/ UpdateNotFound(c) \/ DeleteNotFound(c)
  BY <1>2, <1>6 DEF LockTimeout, Refuse, UpdateNotFound, DeleteNotFound, Inspects, Taken,
     Answers
<1>7. CASE CreateAdmit(c)
  BY <1>3, <1>7 DEF CreateAdmit, Labels, Taken
<1>8. CASE UpdateAdmit(c)
  BY <1>2, <1>3, <1>8 DEF UpdateAdmit, ConsultsKey, Labels, Taken, Answers
<1>9. CASE DeleteInspect(c) \/ DeleteInspectSourceless(c)
  <2>1. AfterInspect(c) \in Labels \ ({"idle"} \cup Taken)
    BY DEF AfterInspect, Labels, Taken
  <2> QED
    BY <1>2, <1>3, <1>9, <2>1 DEF DeleteInspect, DeleteInspectSourceless, Inspects, Taken,
       Answers
<1>10. CASE DeleteCheck(c)
  BY <1>2, <1>3, <1>10 DEF DeleteCheck, Labels, Taken, Answers
<1> QED
  BY <1>1, <1>4, <1>5, <1>6, <1>7, <1>8, <1>9, <1>10 DEF Admission

\* The write is where a call takes effect.
LEMMA WriteTakes ==
  ASSUME TypeOK, AimInv, BaseInv, KeyInv, TidyInv, NEW c \in Clients, req' = req,
         CreateWrite(c) \/ UpdateWrite(c) \/ DeleteUnlink(c) \/ DeleteBundleDir(c)
  PROVE  Service!Take(c)
<1> USE NamesDiffer, RequestsAreValid
<1>1. /\ pc[c] = "write" /\ pc'[c] \in Taken /\ req[c] \in Requests
      /\ UNCHANGED <<idem, ans, failures>>
      /\ \A d \in Clients \ {c} : pc'[d] = pc[d]
  BY DEF CreateWrite, UpdateWrite, DeleteUnlink, DeleteBundleDir, WriteFrame, Goto, Taken,
     TypeOK
<1>2. OpenCalls[c] = req[c] /\ OpenCalls' = OpenCalls
  BY <1>1 DEF OpenCalls, Taken
<1>3. c \notin Effects /\ Effects' = Effects \cup {c}
  BY <1>1 DEF Effects, Taken
<1>4. Outcomes' = Outcomes /\ Degraded' = Degraded
  BY <1>1 DEF Outcomes, Outcome, Degraded
<1>5. req[c].key # NoKey => idem[Service!Slot(c)] = Unused
  BY <1>1, <1>2 DEF KeyInv, Recorded, Unrecorded, Keyed, Slot, Service!Slot
<1>6. Aims(req[c], loc[c].src)
  BY <1>1 DEF AimInv, Journaled
<1>7. Service!Creates(req[c]) \/ Service!Rewrites(req[c]) \/ Service!Sweeps(req[c])
  <2>1. CASE CreateWrite(c)
    BY <1>6, <2>1 DEF CreateWrite, Aims, Service!Creates
  <2>2. CASE UpdateWrite(c)
    <3>1. /\ loc[c].src \in Langs /\ req[c].lang \in {Default, loc[c].src}
          /\ req[c].expected # Absent /\ disk[loc[c].src] = req[c].expected
      BY <1>6, <2>2 DEF UpdateWrite, Aims, BaseInv
    <3> QED
      BY <2>2, <3>1 DEF UpdateWrite, Service!Rewrites
  <2>3. CASE DeleteUnlink(c)
    <3>1. /\ loc[c].src \in Langs /\ req[c].lang \in {Default, loc[c].src}
          /\ req[c].expected # Absent /\ disk[loc[c].src] = req[c].expected
      BY <1>6, <2>3 DEF DeleteUnlink, Aims, BaseInv
    <3>2. disk' = [disk EXCEPT ![loc[c].src] = req[c].content]
      BY <1>1, <2>3 DEF DeleteUnlink
    <3> QED
      BY <2>3, <3>1, <3>2 DEF DeleteUnlink, Service!Rewrites
  <2>4. CASE DeleteBundleDir(c)
    BY <1>1, <1>6, <2>4 DEF DeleteBundleDir, Aims, BaseInv, Service!Sweeps, Empty,
       Service!Empty
  <2> QED
    BY <2>1, <2>2, <2>3, <2>4
<1>8. OpenCalls[c] # Unused
  BY <1>1, <1>2
<1> QED
  BY <1>1, <1>2, <1>3, <1>4, <1>5, <1>7, <1>8 DEF Service!Take

\* A mutation step takes effect, is learned, closes the call, or is invisible.
LEMMA MutationRefines ==
  ASSUME IInv, NEW c \in Clients, Mutation(c)
  PROVE  [Service!Next]_Service!vars
<1> USE NamesDiffer, RequestsAreValid
<1>0. TypeOK /\ req' = req /\ (Degraded => Degraded')
  BY MutationFrame, MutationOrder DEF IInv
<1>1. CASE CreateWrite(c) \/ UpdateWrite(c) \/ DeleteUnlink(c) \/ DeleteBundleDir(c)
  <2>1. Service!Take(c)
    BY <1>0, <1>1, WriteTakes DEF IInv
  <2> QED
    BY <2>1 DEF Service!Next
<1>2. CASE Begin(c) \/ DeleteTidy(c) \/ Stage(c)
  <2>1. disk' = disk
    BY <1>2 DEF Begin, DeleteTidy, Stage, Proceed, IInv, TidyInv
  <2>2. UNCHANGED Service!vars
    BY <1>0, <1>2, <2>1, InvisibleStep
    DEF Begin, DeleteTidy, Stage, Proceed, WriteFrame, Goto, TypeOK, Taken
  <2> QED
    BY <2>2
<1>3. CASE CreateExists(c)
  <2>1. Service!Close(c)
    BY <1>0, <1>3, AnswerCloses DEF CreateExists, AnswerOnly, Taken, Answers
  <2> QED
    BY <2>1 DEF Service!Next
<1>4. CASE WriteFails(c)
  <2>1. PICK a \in {"delete_error", "write_error"} : Answer(c, a)
    BY <1>4 DEF WriteFails
  <2>2. Degraded'
    BY <1>0, <1>4 DEF WriteFails, Fails, Degraded, TypeOK
  <2>3. Service!Close(c)
    BY <1>0, <1>4, <2>1, <2>2, AnswerCloses DEF WriteFails, Answers
  <2> QED
    BY <2>3 DEF Service!Next
<1>5. CASE Reconcile(c)
  <2>1. disk' = disk /\ idem' = idem /\ pc'[c] = "stage" /\ pc[c] = "reconcile"
    BY <1>0, <1>5 DEF Reconcile, Goto, TypeOK
  <2>2. OpenCalls' = OpenCalls
    BY <1>0, <1>5 DEF Reconcile, Goto, TypeOK, OpenCalls
  <2>3. Effects' = Effects
    BY <1>0, <1>5 DEF Reconcile, Goto, TypeOK, Effects, Taken
  <2>4. Outcomes' = Outcomes
    BY <1>5 DEF Reconcile, Outcomes, Outcome
  <2>5. CASE Degraded' = Degraded
    BY <2>1, <2>2, <2>3, <2>4, <2>5 DEF Service!vars
  <2>6. CASE Degraded' = TRUE
    BY <2>1, <2>2, <2>3, <2>4, <2>6 DEF Service!Next, Service!Degrade
  <2> QED
    BY <1>0, <2>5, <2>6, FailureMarks
<1>6. CASE StageFails(c)
  <2>1. Degraded'
    BY <1>0, <1>6 DEF StageFails, Fails, Degraded, TypeOK
  <2>2. Service!Close(c)
    BY <1>0, <1>6, <2>1, AnswerCloses DEF StageFails, Taken, Answers
  <2> QED
    BY <2>2 DEF Service!Next
<1>7. CASE Remember(c)
  <2>1. OpenCalls' = OpenCalls /\ OpenCalls[c] = req[c]
    BY <1>0, <1>7 DEF Remember, Goto, TypeOK, OpenCalls
  <2>2. Effects' = Effects /\ c \in Effects
    BY <1>0, <1>7 DEF Remember, Goto, TypeOK, Effects, Taken
  <2>3. Outcomes' = Outcomes /\ disk' = disk
    BY <1>7 DEF Remember, Outcomes, Outcome
  <2>4. CASE idem' = [idem EXCEPT ![Slot(c)] = req[c]] /\ Keyed(req[c]) /\ failures' = failures
    <3>1. Service!Learn(c)
      BY <2>1, <2>2, <2>3, <2>4 DEF Service!Learn, Service!Slot, Slot, Keyed, Degraded
    <3> QED
      BY <3>1 DEF Service!Next
  <2>5. CASE idem' = idem /\ failures' = failures
    BY <2>1, <2>2, <2>3, <2>5 DEF Service!vars, Degraded
  <2>6. CASE idem' = idem /\ Fails
    <3>1. Degraded'
      BY <1>0, <2>6 DEF Fails, Degraded, TypeOK
    <3> QED
      BY <2>1, <2>2, <2>3, <2>6, <3>1 DEF Service!Next, Service!Degrade, Degraded
  <2> QED
    BY <1>7, <2>4, <2>5, <2>6 DEF Remember
<1>8. CASE Commit(c)
  <2>1. Degraded' \/ (Keyed(req[c]) => idem[Slot(c)] = req[c])
    BY <1>0, <1>8 DEF Commit, IInv, KeyInv
  <2>2. Service!Close(c)
    BY <1>0, <1>8, <2>1, AnswerCloses DEF Commit, Taken, Answers
  <2> QED
    BY <2>2 DEF Service!Next
<1> QED
  BY <1>1, <1>2, <1>3, <1>4, <1>5, <1>6, <1>7, <1>8 DEF Mutation

\* Death loses the open calls.
LEMMA CrashRefines ==
  ASSUME TypeOK, Crash
  PROVE  Service!Die
<1>1. OpenCalls' = [c \in Clients |-> Unused]
  BY DEF Crash, OpenCalls
<1>2. Effects' = {}
  BY DEF Crash, Effects, Taken
<1>3. Outcomes' = [c \in Clients |-> IF OpenCalls[c] = Unused THEN Outcomes[c] ELSE "lost"]
  <2>1. \A c \in Clients : OpenCalls[c] = Unused <=> pc[c] = "idle"
    <3>1. \A c \in Clients : pc[c] # "idle" => req[c] # Unused
      BY NamesDiffer DEF TypeOK
    <3>2. \A c \in Clients : OpenCalls[c] = IF pc[c] = "idle" THEN Unused ELSE req[c]
      BY DEF OpenCalls
    <3> QED
      BY <3>1, <3>2
  <2>2. \A c \in Clients :
          Outcome(ans'[c]) = IF pc[c] = "idle" THEN Outcome(ans[c]) ELSE "lost"
    BY OutcomeOfAnswer DEF Crash
  <2> QED
    BY <2>1, <2>2 DEF Outcomes
<1> QED
  BY <1>1, <1>2, <1>3 DEF Crash, Service!Die, Degraded

\* Startup settles what the journal says, or is invisible.
LEMMA StartupRefines ==
  ASSUME IInv, [Next]_vars, Startup
  PROVE  [Service!Next]_Service!vars
<1> USE NamesDiffer, RequestsAreValid
<1>1. /\ TypeOK /\ PhaseInv /\ EntryInv /\ FlightInv /\ LandedInv
      /\ Degraded' \in {Degraded, TRUE}
  BY FailuresGrow, FailureMarks DEF IInv
<1>2. OpenCalls' = OpenCalls /\ Effects' = Effects /\ Outcomes' = Outcomes
  BY <1>1, StartupFrameHolds DEF OpenCalls, Effects, Outcomes, Outcome
<1>3. ASSUME disk' = disk, idem' = idem
      PROVE  [Service!Next]_Service!vars
  BY <1>1, <1>2, <1>3 DEF Service!Next, Service!Degrade, Service!vars
<1>4. CASE BootIndex \/ PrepareDone \/ StartupSync \/ BootDone
  BY <1>3, <1>4 DEF BootIndex, PrepareDone, StartupSync, BootDone
<1>5. ASSUME NEW e \in todo, PrepareEntry(e)
      PROVE  [Service!Next]_Service!vars
  <2>1. idem' = idem
    BY <1>5 DEF PrepareEntry
  <2>2. CASE disk' = disk
    BY <1>3, <2>1, <2>2
  <2>3. CASE disk' # disk
    <3>1. Degraded /\ disk' = Empty /\ failures' = failures
      BY <1>1, <1>5, <2>3, PrepareSpares DEF PrepareEntry
    <3>2. Service!Lose
      BY <1>2, <2>1, <3>1 DEF Service!Lose, Service!Empty, Empty, Degraded
    <3> QED
      BY <3>2 DEF Service!Next
  <2> QED
    BY <2>2, <2>3
<1>6. ASSUME NEW e \in todo, ReconcileEntry(e)
      PROVE  [Service!Next]_Service!vars
  <2>1. disk' = disk
    BY <1>6 DEF ReconcileEntry
  <2>2. CASE idem' = idem
    BY <1>3, <2>1, <2>2
  <2>3. CASE idem' # idem
    <3>1. e \in Entries /\ e \in landed /\ Keyed(e.req)
          /\ idem' = [idem EXCEPT ![EntrySlot(e)] = e.req]
      BY <1>1, <1>6, <2>3 DEF ReconcileEntry, RecordLanded, TypeOK
    <3>2. EntrySlot(e) \in Slots /\ e.req \in Requests
      BY <3>1, SlotOfEntry DEF Entries
    <3>3. Degraded \/ Service!Satisfied(e.req)
      <4>1. CASE Degraded
        BY <4>1
      <4>2. CASE ~Degraded
        <5>1. Landed(e) /\ e.after = e.req.content /\ Aims(e.req, e.path)
          BY <1>1, <3>1, <4>2 DEF LandedInv, EntryInv
        <5>2. CASE e.path = Bundle
          <6>1. disk = Empty
            BY <5>1, <5>2 DEF Landed, IInv, TidyInv
          <6>2. e.req.content = Absent
            BY <3>2, <5>1, <5>2 DEF Aims
          <6> QED
            BY <6>1, <6>2 DEF Service!Satisfied, Empty
        <5>3. CASE e.path # Bundle
          BY <5>1, <5>3 DEF Landed, Aims, Service!Satisfied
        <5> QED
          BY <5>2, <5>3
      <4> QED
        BY <4>1, <4>2
    <3>4. EntrySlot(e)[2] = e.req.tool /\ EntrySlot(e)[3] = e.req.key
      BY DEF EntrySlot
    <3>5. Service!Settle
      BY <1>1, <1>2, <2>1, <3>1, <3>2, <3>3, <3>4 DEF Service!Settle, Slots
    <3> QED
      BY <3>5 DEF Service!Next
  <2> QED
    BY <2>2, <2>3
<1> QED
  BY <1>4, <1>5, <1>6 DEF Startup

\* Whatever the number of callers, languages, keys, crashes and failures: the
\* handlers and the startup code keep what PageService promises.
THEOREM Refinement == Spec => ImplementsService
<1>1. Init => Service!Init
  <2> SUFFICES ASSUME Init
               PROVE  Service!Init
    OBVIOUS
  <2>1. disk \in [Langs -> Contents \cup {Absent}]
    BY RequestsAreValid DEF Init, Revisions
  <2>2. OpenCalls = [c \in Clients |-> Unused]
    BY DEF Init, OpenCalls
  <2>3. Effects = {}
    BY DEF Init, Effects, Taken
  <2>4. Outcomes = [c \in Clients |-> "none"]
    BY OutcomeOfAnswer DEF Init, Outcomes
  <2>5. idem = [s \in Clients \X Tools \X Keys |-> Unused]
    BY DEF Init, Slots
  <2>6. Degraded = FALSE
    BY DEF Init, Degraded
  <2> QED
    BY <2>1, <2>2, <2>3, <2>4, <2>5, <2>6 DEF Service!Init
<1>2. IInv /\ [Next]_vars => [Service!Next]_Service!vars
  <2> SUFFICES ASSUME IInv, [Next]_vars
               PROVE  [Service!Next]_Service!vars
    OBVIOUS
  <2>1. TypeOK
    BY DEF IInv
  <2>2. CASE Crash
    BY <2>1, <2>2, CrashRefines DEF Service!Next
  <2>3. CASE Startup
    BY <2>3, StartupRefines
  <2>4. ASSUME NEW c \in Clients, Admission(c)
        PROVE  [Service!Next]_Service!vars
    BY <2>1, <2>4, AdmissionRefines
  <2>5. ASSUME NEW c \in Clients, Mutation(c)
        PROVE  [Service!Next]_Service!vars
    BY <2>5, MutationRefines
  <2>6. CASE UNCHANGED vars
    <3>1. UNCHANGED Service!vars
      BY <2>6 DEF vars, Service!vars, OpenCalls, Effects, Outcomes, Outcome, Degraded
    <3> QED
      BY <3>1
  <2> QED
    BY <2>2, <2>3, <2>4, <2>5, <2>6 DEF Next, Rest
<1> QED
  BY <1>1, <1>2, Invariant, PTL DEF Spec, ImplementsService, Service!Spec
=============================================================================

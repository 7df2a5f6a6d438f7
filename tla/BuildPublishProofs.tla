------------------------ MODULE BuildPublishProofs --------------------------
(***************************************************************************)
(* Builds exclude each other, swap in only what was the source throughout, *)
(* publish what their caller had read, and never leave the site without a  *)
(* tree to return to: for any number of agents, pages, writes, calls and   *)
(* faults.                                                                 *)
(***************************************************************************)
EXTENDS BuildPublishInvariant, TLAPS

---------------------------------------------------------------------------
\* Types.

\* The empty tree and the locals of no call have their types.
LEMMA BlankTypes ==
  /\ Absent \in Versions /\ Blank \in Trees
  /\ NoReload \in Reloads /\ NoLocals \in Locals
<1>1. Absent \in Versions /\ Blank \in Trees
  BY DEF Absent, Versions, Blank, Trees
<1>2. NoReload \in Reloads
  BY <1>1 DEF NoReload, Reloads
<1> QED
  BY <1>1, <1>2 DEF NoLocals, Locals

\* A call's locals keep their type under the updates its steps make.
LEMMA LocalsUpdate ==
  ASSUME NEW l \in Locals
  PROVE  /\ \A S \in SUBSET Pages, E \in SUBSET Pages : [l EXCEPT !.saw = S, !.excused = E] \in Locals
         /\ [l EXCEPT !.saw = {}] \in Locals
         /\ \A t \in Trees : [l EXCEPT !.rev = t, !.todo = Pages] \in Locals
         /\ [l EXCEPT !.hadOld = TRUE] \in Locals
         /\ [l EXCEPT !.ack = {}, !.excused = {}, !.out = Blank] \in Locals
         /\ \A r \in Reloads : [l EXCEPT !.reload = r] \in Locals
         /\ [l EXCEPT !.reload = NoReload, !.clean = FALSE] \in Locals
         /\ \A b \in BOOLEAN : [l EXCEPT !.clean = b] \in Locals
  BY BlankTypes DEF Locals

\* The answer of a call keeps the types of what it sets.
LEMMA AnswerType ==
  ASSUME TypeOK, NEW a \in Agents, NEW text \in Answers, Answer(a, text)
  PROVE  /\ pc' \in [Agents -> Labels] /\ loc' \in [Agents -> Locals]
         /\ ans' \in [Agents -> Answers] /\ lock' \in Agents \cup {Nobody}
  BY BlankTypes DEF TypeOK, Answer, Goto, SetLoc, Labels

\* ... as does an error.
LEMMA ErrorType ==
  ASSUME TypeOK, NEW a \in Agents, NEW code, Error(a, code)
  PROVE  /\ pc' \in [Agents -> Labels] /\ loc' \in [Agents -> Locals]
         /\ ans' \in [Agents -> Answers] /\ lock' \in Agents \cup {Nobody}
<1>1. "error" \in Answers
  BY DEF Answers
<1> QED
  BY <1>1, AnswerType DEF Error

\* ... and a move of the call to another of its labels with other locals.
LEMMA MoveType ==
  ASSUME TypeOK, NEW a \in Agents, NEW label \in Labels, NEW l \in Locals,
         Goto(a, label), loc' = loc \/ SetLoc(a, l)
  PROVE  pc' \in [Agents -> Labels] /\ loc' \in [Agents -> Locals]
  BY DEF TypeOK, Goto, SetLoc

\* A reload leaves the indexes and the pages without a guard in their types.
LEMMA ReloadType ==
  ASSUME TypeOK, NEW r \in Reloads, NEW next \in Nexts(r), ReloadStep(r, next)
  PROVE  /\ next \in Reloads /\ idx' \in Trees
         /\ pending' \subseteq Pages /\ listed' \subseteq Pages /\ unguarded' \subseteq Pages
<1>1. r.read \in Trees /\ disk \in Trees
  BY DEF Reloads, TypeOK
<1>2. next \in Reloads
  BY <1>1, BlankTypes DEF Nexts, Reloads
<1>3. Unpublished \subseteq Pages
  BY DEF Unpublished, TypeOK
<1>4. PagesOf(public) \subseteq Pages
  BY DEF PagesOf
<1> QED
  BY <1>1, <1>2, <1>3, <1>4 DEF ReloadStep, Dropping, TypeOK

\* The steps of the guard keep the types.
LEMMA GuardType ==
  ASSUME TypeOK, NEW a \in Agents, Request(a) \/ Guarding(a)
  PROVE  TypeOK'
<1>0. loc[a] \in Locals
  BY DEF TypeOK
<1>1. CASE Request(a)
  <2>1. PICK ack \in {{a}, Agents}, expecting \in BOOLEAN :
       SetLoc(a, [NoLocals EXCEPT !.ack = ack,
                                  !.want = IF expecting THEN disk ELSE NoTree,
                                  !.wantPublic = IF expecting THEN public ELSE NoTree])
    BY <1>1 DEF Request
  <2>2. [NoLocals EXCEPT !.ack = ack,
                         !.want = IF expecting THEN disk ELSE NoTree,
                         !.wantPublic = IF expecting THEN public ELSE NoTree] \in Locals
    BY BlankTypes DEF Locals, TypeOK
  <2>3. pc' \in [Agents -> Labels] /\ loc' \in [Agents -> Locals]
    BY <1>1, <2>1, <2>2, MoveType DEF Request, Labels
  <2>4. /\ calls' = calls + 1 /\ ans' = [ans EXCEPT ![a] = "none"]
        /\ UNCHANGED <<durable, memory, lock, up, late, unguarded, writes, crashes, timeouts,
                       failures>>
    BY <1>1 DEF Request
  <2> QED
    BY <2>3, <2>4 DEF TypeOK, Answers, durable, memory
<1>2. CASE Look(a)
  <2>1. [loc[a] EXCEPT !.saw = pending, !.excused = unguarded] \in Locals
    BY <1>0, LocalsUpdate DEF TypeOK
  <2>2. pc' \in [Agents -> Labels] /\ loc' \in [Agents -> Locals]
    BY <1>2, <2>1, MoveType DEF Look, Labels
  <2> QED
    BY <1>2, <2>2 DEF Look, TypeOK, durable, memory, counters
<1>3. CASE Judge(a)
  <2>1. [loc[a] EXCEPT !.saw = {}] \in Locals
    BY <1>0, LocalsUpdate
  <2>2. CASE Foreign(a) # {}
    BY <1>3, <2>2, ErrorType DEF Judge, SharedUnchanged, TypeOK, durable, memory, counters
  <2>3. CASE Foreign(a) = {}
    <3>1. pc' \in [Agents -> Labels] /\ loc' \in [Agents -> Locals]
      BY <1>3, <2>1, <2>3, MoveType DEF Judge, Labels
    <3> QED
      BY <1>3, <2>3, <3>1 DEF Judge, SharedUnchanged, TypeOK, durable, memory, counters
  <2> QED
    BY <2>2, <2>3
<1>4. CASE TakeLock(a)
  <2>1. CASE lock # Nobody
    BY <1>4, <2>1, ErrorType DEF TakeLock, SharedUnchanged, TypeOK, durable, memory, counters
  <2>2. CASE lock = Nobody
    BY <1>4, <2>2 DEF TakeLock, Goto, Labels, SharedUnchanged, TypeOK, durable, memory, counters
  <2> QED
    BY <2>1, <2>2
<1> QED
  BY <1>1, <1>2, <1>3, <1>4 DEF Guarding

\* Rendering one page fills it into the output.
LEMMA RenderType ==
  ASSUME TypeOK, NEW a \in Agents, NEW p \in Pages, Render(a, p)
  PROVE  TypeOK'
<1> DEFINE l == [loc[a] EXCEPT !.out = [@ EXCEPT ![p] = disk[p]], !.todo = @ \ {p}]
<1>1. loc[a] \in Locals /\ disk[p] \in Versions
  BY DEF TypeOK, Trees
<1>2. [loc[a].out EXCEPT ![p] = disk[p]] \in Trees
  BY <1>1 DEF Locals, Trees
<1>3. l \in Locals
  BY <1>1, <1>2 DEF Locals
<1>4. SetLoc(a, l)
  BY <1>1 DEF Render, Locals
<1>5. loc' \in [Agents -> Locals]
  BY <1>3, <1>4 DEF SetLoc, TypeOK
<1> QED
  BY <1>5 DEF Render, SharedUnchanged, TypeOK, durable, memory, counters

\* The steps of the build up to the swap keep the types.
LEMMA BuildType ==
  ASSUME TypeOK, NEW a \in Agents, Building(a)
  PROVE  TypeOK'
<1>0. loc[a] \in Locals /\ disk \in Trees
  BY DEF TypeOK
<1>1. CASE Prepare(a)
  <2>1. Unpublished \subseteq Pages
    BY DEF Unpublished, TypeOK
  <2>2. pc' \in [Agents -> Labels]
    BY <1>1 DEF Prepare, Goto, TypeOK, Labels
  <2> QED
    BY <1>1, <2>1, <2>2 DEF Prepare, TypeOK, durable, counters
<1>2. CASE Hash(a)
  <2>1. [loc[a] EXCEPT !.rev = disk, !.todo = Pages] \in Locals
    BY <1>0, LocalsUpdate
  <2>2. CASE Conflict(a)
    BY <1>2, <2>2, ErrorType DEF Hash, SharedUnchanged, TypeOK, durable, memory, counters
  <2>3. CASE ~Conflict(a)
    <3>1. pc' \in [Agents -> Labels] /\ loc' \in [Agents -> Locals]
      BY <1>2, <2>1, <2>3, MoveType DEF Hash, Labels
    <3> QED
      BY <1>2, <2>3, <3>1 DEF Hash, SharedUnchanged, TypeOK, durable, memory, counters
  <2> QED
    BY <2>2, <2>3
<1>3. CASE BuildFails(a)
  BY <1>3, ErrorType DEF BuildFails, SharedUnchanged, TypeOK, durable, memory, counters
<1>4. CASE Verify(a)
  <2>1. CASE ~Stable(a)
    BY <1>4, <2>1, ErrorType DEF Verify, SharedUnchanged, TypeOK, durable, memory, counters
  <2>2. CASE Stable(a)
    BY <1>4, <2>2 DEF Verify, Goto, Labels, SharedUnchanged, TypeOK, durable, memory, counters
  <2> QED
    BY <2>1, <2>2
<1>5. ASSUME NEW p \in Pages, Render(a, p)
      PROVE  TypeOK'
  BY <1>5, RenderType
<1> QED
  BY <1>1, <1>2, <1>3, <1>4, <1>5 DEF Building

\* The steps of the swap keep the types.
LEMMA SwapType ==
  ASSUME TypeOK, NEW a \in Agents, Swapping(a)
  PROVE  TypeOK'
<1>0. /\ loc[a] \in Locals /\ loc[a].out \in Trees /\ loc[a].rev \in Trees
      /\ failures + 1 \in Nat
  BY DEF TypeOK, Locals
<1>1. CASE SwapOut(a)
  <2>1. pc' \in [Agents -> Labels] /\ loc' \in [Agents -> Locals]
    BY <1>0, <1>1, LocalsUpdate, MoveType DEF SwapOut, Labels
  <2> QED
    BY <1>1, <2>1 DEF SwapOut, TypeOK, memory, counters
<1>2. CASE SwapOutNothing(a)
  BY <1>2 DEF SwapOutNothing, Goto, Labels, SharedUnchanged, TypeOK, durable, memory, counters
<1>3. CASE SwapOutFails(a)
  BY <1>0, <1>3, ErrorType DEF SwapOutFails, Fails, TypeOK, durable, memory
<1>4. CASE SwapIn(a)
  <2>1. pc' \in [Agents -> Labels] /\ loc' \in [Agents -> Locals]
    BY <1>0, <1>4, LocalsUpdate, MoveType DEF SwapIn, Labels
  <2> QED
    BY <1>0, <1>4, <2>1 DEF SwapIn, TypeOK, memory, counters
<1>5. CASE SwapInFails(a)
  <2>1. public' \in Trees \cup {NoTree} /\ backup' \in Trees \cup {NoTree}
    BY <1>5 DEF SwapInFails, TypeOK
  <2> QED
    BY <1>0, <1>5, <2>1, ErrorType DEF SwapInFails, Fails, TypeOK, memory
<1>6. CASE Cleanup(a)
  <2>1. ASSUME NEW clean \in BOOLEAN
        PROVE  [NoLocals EXCEPT !.rev = loc[a].rev, !.reload.at = "site", !.clean = clean] \in Locals
    BY <1>0, BlankTypes DEF NoLocals, NoReload, Locals, Reloads
  <2>2. PICK clean \in BOOLEAN :
          SetLoc(a, [NoLocals EXCEPT !.rev = loc[a].rev, !.reload.at = "site", !.clean = clean])
    BY <1>6 DEF Cleanup
  <2>3. pc' \in [Agents -> Labels] /\ loc' \in [Agents -> Locals]
    BY <1>6, <2>1, <2>2, MoveType DEF Cleanup, Labels
  <2>4. failures' \in Nat /\ backup' \in Trees \cup {NoTree}
    BY <1>0, <1>6 DEF Cleanup, Fails, TypeOK
  <2> QED
    BY <1>6, <2>3, <2>4 DEF Cleanup, TypeOK, memory
<1> QED
  BY <1>1, <1>2, <1>3, <1>4, <1>5, <1>6 DEF Swapping

\* The callbacks, the unlock and the verification keep the types.
LEMMA FinishType ==
  ASSUME TypeOK, NEW a \in Agents, Finishing(a)
  PROVE  TypeOK'
<1>0. /\ loc[a] \in Locals /\ loc[a].reload \in Reloads /\ loc[a].clean \in BOOLEAN
      /\ failures + 1 \in Nat /\ timeouts + 1 \in Nat
  BY DEF TypeOK, Locals
<1>1. CASE RunReload(a)
  <2>1. PICK next \in Nexts(loc[a].reload) :
          ReloadStep(loc[a].reload, next) /\ SetLoc(a, [loc[a] EXCEPT !.reload = next])
    BY <1>1 DEF RunReload
  <2>2. /\ next \in Reloads /\ idx' \in Trees
        /\ pending' \subseteq Pages /\ listed' \subseteq Pages /\ unguarded' \subseteq Pages
    BY <1>0, <2>1, ReloadType
  <2>3. loc' \in [Agents -> Locals]
    BY <1>0, <2>1, <2>2, LocalsUpdate DEF SetLoc, TypeOK
  <2>4. UNCHANGED <<durable, owner, lock, up, late, pc, ans, counters>>
    BY <1>1 DEF RunReload
  <2> QED
    BY <2>2, <2>3, <2>4 DEF TypeOK, durable, counters
<1>2. CASE TimesOut(a)
  <2>1. pc' \in [Agents -> Labels] /\ loc' \in [Agents -> Locals]
    BY <1>0, <1>2, LocalsUpdate, MoveType DEF TimesOut, Labels
  <2> QED
    BY <1>0, <1>2, <2>1 DEF TimesOut, TypeOK, durable, memory
<1>3. CASE CallbackFails(a)
  <2>1. pc' \in [Agents -> Labels] /\ loc' \in [Agents -> Locals]
    BY <1>0, <1>3, LocalsUpdate, MoveType DEF CallbackFails, Labels
  <2> QED
    BY <1>0, <1>3, <2>1 DEF CallbackFails, Fails, TypeOK, durable, memory
<1>4. CASE CallbacksDone(a)
  BY <1>4 DEF CallbacksDone, Goto, Labels, SharedUnchanged, TypeOK, durable, memory, counters
<1>5. CASE Complete(a)
  <2>1. PICK failed \in BOOLEAN :
          /\ IF failed THEN Fails ELSE UNCHANGED failures
          /\ LET clean == loc[a].clean /\ ~failed
             IN \/ Answer(a, "built")
                \/ /\ Goto(a, "poll") /\ UNCHANGED ans
                   /\ SetLoc(a, [loc[a] EXCEPT !.clean = clean])
    BY <1>5 DEF Complete
  <2>2. failures' \in Nat
    BY <1>0, <2>1 DEF Fails, TypeOK
  <2>3. CASE Answer(a, "built")
    BY <2>3, <1>5, <2>2, AnswerType DEF Complete, Answers, TypeOK, durable, memory
  <2>4. CASE /\ Goto(a, "poll") /\ UNCHANGED ans
             /\ SetLoc(a, [loc[a] EXCEPT !.clean = loc[a].clean /\ ~failed])
    <3>1. (loc[a].clean /\ ~failed) \in BOOLEAN
      OBVIOUS
    <3>2. [loc[a] EXCEPT !.clean = loc[a].clean /\ ~failed] \in Locals
      BY <1>0, <3>1, LocalsUpdate
    <3>3. pc' \in [Agents -> Labels] /\ loc' \in [Agents -> Locals]
      BY <2>4, <3>2, MoveType DEF Labels
    <3> QED
      BY <1>5, <2>2, <2>4, <3>3 DEF Complete, TypeOK, durable, memory
  <2> QED
    BY <2>1, <2>3, <2>4
<1>6. CASE Poll(a)
  <2>1. /\ pc' \in [Agents -> Labels] /\ loc' \in [Agents -> Locals]
        /\ ans' \in [Agents -> Answers] /\ lock' \in Agents \cup {Nobody}
    <3>1. CASE Goto(a, "confirm") /\ UNCHANGED <<lock, loc, ans>>
      BY <3>1 DEF Goto, TypeOK, Labels
    <3>2. CASE Answer(a, "built")
      BY <3>2, AnswerType DEF Answers
    <3>3. CASE Error(a, "content_not_found")
      BY <3>3, ErrorType
    <3> QED
      BY <1>6, <3>1, <3>2, <3>3 DEF Poll
  <2> QED
    BY <1>6, <2>1 DEF Poll, SharedUnchanged, TypeOK, durable, memory, counters
<1>7. CASE Confirm(a)
  <2>1. (IF disk = loc[a].rev THEN "published" ELSE "built") \in Answers
    BY DEF Answers
  <2> QED
    BY <1>7, <2>1, AnswerType DEF Confirm, SharedUnchanged, TypeOK, durable, memory, counters
<1> QED
  BY <1>1, <1>2, <1>3, <1>4, <1>5, <1>6, <1>7 DEF Finishing

\* Edits by the agents and by the author keep the types.
LEMMA EditType ==
  ASSUME TypeOK, NEW p \in Pages,
         OutsideEdit(p) \/ \E a \in Agents : Edit(a, p) \/ Delete(a, p)
  PROVE  TypeOK'
<1>0. /\ writes + 1 \in Nat /\ failures + 1 \in Nat
      /\ disk \in [Pages -> Versions] /\ idx \in [Pages -> Versions]
  BY DEF TypeOK, Trees
<1>1. CASE OutsideEdit(p)
  <2>1. [n |-> writes + 1, by |-> Author] \in Versions
    BY <1>0 DEF Versions
  <2>2. disk' \in Trees
    BY <1>0, <1>1, <2>1 DEF OutsideEdit, Trees
  <2> QED
    BY <1>0, <1>1, <2>2 DEF OutsideEdit, TypeOK, memory
<1>2. ASSUME NEW a \in Agents, Edit(a, p)
      PROVE  TypeOK'
  <2>1. [n |-> writes + 1, by |-> a] \in Versions
    BY <1>0 DEF Versions
  <2>2. disk' \in Trees /\ idx' \in Trees
    BY <1>0, <1>2, <2>1 DEF Edit, Trees
  <2>3. loc' \in [Agents -> Locals]
    <3> DEFINE Excused(b) == IF Looked(b) THEN [loc[b] EXCEPT !.excused = @ \cup {p}] ELSE loc[b]
    <3>1. ASSUME NEW b \in Agents
          PROVE  Excused(b) \in Locals
      <4>1. loc[b] \in Locals /\ loc[b].excused \cup {p} \in SUBSET Pages
        BY DEF TypeOK, Locals
      <4>2. [loc[b] EXCEPT !.excused = @ \cup {p}] \in Locals
        BY <4>1 DEF Locals
      <4> QED
        BY <4>1, <4>2
    <3>2. loc' = [b \in Agents |-> Excused(b)]
      BY <1>2 DEF Edit, ExcuseSince
    <3> HIDE DEF Excused
    <3> QED
      BY <3>1, <3>2
  <2>4. /\ owner' \in [Pages -> Agents \cup {Nobody}]
        /\ unguarded' \subseteq Pages /\ failures' \in Nat /\ pending' \subseteq Pages
    BY <1>0, <1>2 DEF Edit, Fails, TypeOK
  <2>5. /\ writes' = writes + 1
        /\ UNCHANGED <<public, backup, listed, lock, up, late, pc, ans, calls, crashes, timeouts>>
    BY <1>2 DEF Edit
  <2> QED
    BY <1>0, <2>2, <2>3, <2>4, <2>5 DEF TypeOK
<1>3. ASSUME NEW a \in Agents, Delete(a, p)
      PROVE  TypeOK'
  <2>1. disk' \in Trees /\ idx' \in Trees
    BY <1>0, <1>3, BlankTypes DEF Delete, Trees
  <2>2. public' \in Trees \cup {NoTree}
    <3>1. public # NoTree => [public EXCEPT ![p] = Absent] \in Trees
      BY BlankTypes DEF TypeOK, Trees
    <3>2. public' \in {NoTree, public, [public EXCEPT ![p] = Absent]}
          /\ (public = NoTree => public' = NoTree)
      BY <1>3 DEF Delete
    <3> QED
      BY <3>1, <3>2 DEF TypeOK
  <2>3. /\ owner' \in [Pages -> Agents \cup {Nobody}]
        /\ failures' \in Nat /\ pending' \subseteq Pages /\ listed' \subseteq Pages
    BY <1>0, <1>3 DEF Delete, Fails, TypeOK
  <2>4. /\ writes' = writes + 1
        /\ UNCHANGED <<backup, lock, up, late, pc, loc, ans, unguarded, calls, crashes, timeouts>>
    BY <1>3 DEF Delete
  <2> QED
    BY <1>0, <2>1, <2>2, <2>3, <2>4 DEF TypeOK
<1> QED
  BY <1>1, <1>2, <1>3

\* Late reloads, the death of the process and its start keep the types.
LEMMA ProcessType ==
  ASSUME TypeOK, RunLate \/ Crash \/ Restart \/ Rest
  PROVE  TypeOK'
<1>1. CASE RunLate
  <2>1. ASSUME NEW r \in late, NEW next \in Nexts(r), ReloadStep(r, next),
               late' = (late \ {r}) \cup (IF next = NoReload THEN {} ELSE {next}),
               UNCHANGED <<durable, owner, lock, up, pc, loc, ans, counters>>
        PROVE  TypeOK'
    <3>1. r \in Reloads
      BY <2>1 DEF TypeOK
    <3>2. /\ next \in Reloads /\ idx' \in Trees
          /\ pending' \subseteq Pages /\ listed' \subseteq Pages /\ unguarded' \subseteq Pages
      BY <2>1, <3>1, ReloadType
    <3> QED
      BY <2>1, <3>2 DEF TypeOK, durable, counters
  <2>2. ASSUME NEW r \in late, late' = late \ {r},
               UNCHANGED <<durable, memory, lock, up, pc, loc, ans, unguarded, counters>>
        PROVE  TypeOK'
    BY <2>2 DEF TypeOK, durable, memory, counters
  <2> QED
    BY <1>1, <2>1, <2>2 DEF RunLate
<1>2. CASE Crash
  <2>1. Unpublished \subseteq Pages /\ crashes + 1 \in Nat
    BY DEF Unpublished, TypeOK
  <2>2. ans' \in [Agents -> Answers]
    BY <1>2 DEF Crash, TypeOK, Answers
  <2>3. /\ pc' \in [Agents -> Labels] /\ loc' \in [Agents -> Locals]
        /\ owner' \in [Pages -> Agents \cup {Nobody}] /\ idx' \in Trees
    BY <1>2, BlankTypes DEF Crash, Labels
  <2> QED
    BY <1>2, <2>1, <2>2, <2>3 DEF Crash, TypeOK, durable
<1>3. CASE Restart
  BY <1>3 DEF Restart, TypeOK, PagesOf, durable, counters
<1>4. CASE Rest
  BY <1>4 DEF Rest, vars, TypeOK, durable, memory, counters
<1> QED
  BY <1>1, <1>2, <1>3, <1>4

\* Every step keeps the types.
LEMMA StepType ==
  ASSUME TypeOK, [Next]_vars
  PROVE  TypeOK'
<1>1. CASE UNCHANGED vars
  BY <1>1 DEF vars, TypeOK, durable, memory, counters
<1>2. CASE Next
  <2>1. ASSUME NEW a \in Agents, Running(a)
        PROVE  TypeOK'
    BY <2>1, GuardType, BuildType, SwapType, FinishType DEF Running
  <2> QED
    BY <1>2, <2>1, GuardType, EditType, ProcessType DEF Next
<1> QED
  BY <1>1, <1>2

\* Initially the types are right.
LEMMA InitType == Init => TypeOK
<1> SUFFICES ASSUME Init
             PROVE  TypeOK
  OBVIOUS
<1>1. disk \in Trees
  BY BlankTypes DEF Init, Trees, Versions
<1>2. /\ pc \in [Agents -> Labels] /\ loc \in [Agents -> Locals] /\ ans \in [Agents -> Answers]
      /\ owner \in [Pages -> Agents \cup {Nobody}]
  BY BlankTypes DEF Init, Labels, Answers
<1> QED
  BY <1>1, <1>2, NamesDiffer DEF Init, TypeOK

\* Every variable of the build model keeps its type.
THEOREM TypeCorrect == Spec => []TypeOK
<1>1. TypeOK /\ [Next]_vars => TypeOK'
  BY StepType
<1> QED
  BY <1>1, InitType, PTL DEF Spec

---------------------------------------------------------------------------
\* The inductive invariant.

\* What it says of one call at `label` with the locals `l`.
Sound(label, l) ==
  /\ \A p \in Pages : l.rev[p].n <= writes
  /\ label = "render" =>
       \A p \in Pages \ l.todo : l.out[p] = l.rev[p] \/ disk[p] # l.rev[p]
  /\ label \in Hashed => l.want \in {NoTree, l.rev}
  /\ label \in {"render", "swapout"} => l.wantPublic \in {NoTree, public}
  /\ label \in {"swapin", "cleanup"} /\ l.wantPublic # NoTree =>
       l.hadOld /\ backup = l.wantPublic
  /\ label = "swapin" => backup # NoTree \/ ~l.hadOld
  /\ label \in {"swapout", "swapin"} => l.out = l.rev
  /\ label = "cleanup" => public # NoTree /\ l.want \in {NoTree, public}

\* What it says of the trees alone.
TreesSound ==
  /\ \A p \in Pages : disk[p].n <= writes
  /\ OldTreeRetained

\* The invariant is this, of every call, and the lock.
LEMMA CoreIsSound ==
  Core <=> LockInv /\ TreesSound /\ \A a \in Agents : Sound(pc[a], loc[a])
  BY DEF Core, Sound, TreesSound, ClockInv, RenderInv, ExpectInv, SwapInv, PromotedIsStable,
     PublishesWhatWasRead, Hashed

\* ... and so it is after a step.
LEMMA SoundNext ==
  ASSUME LockInv', TreesSound', \A a \in Agents : Sound(pc[a], loc[a])'
  PROVE  Core'
  BY DEF Core, Sound, TreesSound, ClockInv, RenderInv, ExpectInv, SwapInv, PromotedIsStable,
     PublishesWhatWasRead, Hashed

\* The locals of no call claim nothing.
LEMMA IdleSound == TypeOK => Sound("idle", NoLocals)
  BY DEF Sound, NoLocals, Blank, Absent, Hashed, TypeOK

\* One call moves to `label` with locals `l` and the trees stay.
LEMMA MoveCore ==
  ASSUME BInv, NEW a \in Agents, NEW label, NEW l,
         Goto(a, label), SetLoc(a, l), Sound(label, l), UNCHANGED <<durable, writes>>,
         label \in Locked <=> lock' = a,
         \A b \in Agents \ {a} : lock' = b <=> lock = b
  PROVE  Core'
<1>1. /\ pc'[a] = label /\ loc'[a] = l
      /\ \A b \in Agents \ {a} : pc'[b] = pc[b] /\ loc'[b] = loc[b]
  BY DEF Goto, SetLoc, BInv, TypeOK
<1>2. LockInv'
  BY <1>1 DEF LockInv, BInv, Core
<1>3. TreesSound'
  BY CoreIsSound DEF TreesSound, OldTreeRetained, BInv, durable
<1>4. ASSUME NEW b \in Agents
      PROVE  Sound(pc[b], loc[b])'
  <2>1. Sound(pc[b], loc[b])
    BY CoreIsSound DEF BInv
  <2> QED
    BY <1>1, <2>1 DEF Sound, durable
<1> QED
  BY <1>2, <1>3, <1>4, SoundNext

\* ... as when the call is answered.
LEMMA AnswerCore ==
  ASSUME BInv, NEW a \in Agents, NEW text, Answer(a, text), UNCHANGED <<durable, writes>>
  PROVE  Core'
<1>1. "idle" \notin Locked /\ Nobody # a
  BY NamesDiffer DEF Locked
<1>2. /\ "idle" \in Locked <=> lock' = a
      /\ \A b \in Agents \ {a} : lock' = b <=> lock = b
  BY <1>1, NamesDiffer DEF Answer
<1>3. Sound("idle", NoLocals)
  BY IdleSound DEF BInv
<1> QED
  BY <1>2, <1>3, MoveCore DEF Answer

\* ... or moves with the lock as it is, inside the build or outside it.
LEMMA WalkCore ==
  ASSUME BInv, NEW a \in Agents, NEW label, NEW l,
         Goto(a, label), SetLoc(a, l), Sound(label, l), UNCHANGED <<durable, writes, lock>>,
         label \in Locked <=> pc[a] \in Locked
  PROVE  Core'
<1>1. label \in Locked <=> lock' = a
  BY DEF BInv, Core, LockInv
<1> QED
  BY <1>1, MoveCore

\* A call that has not hashed yet, or has swapped, claims only that its revision is old.
LEMMA FreeSound ==
  ASSUME NEW label, NEW l, label \notin Hashed, label # "cleanup",
         \A p \in Pages : l.rev[p].n <= writes
  PROVE  Sound(label, l)
  BY DEF Sound, Hashed

\* What every step of a call may use.
LEMMA CallFacts ==
  ASSUME BInv, NEW a \in Agents
  PROVE  /\ TypeOK /\ loc[a] \in Locals /\ Sound(pc[a], loc[a])
         /\ \A p \in Pages : loc[a].rev[p].n <= writes
         /\ \A p \in Pages : Blank[p].n <= writes
         /\ pc[a] \in Locked <=> lock = a
         /\ SetLoc(a, loc[a]) <=> loc' = loc
<1>1. TypeOK /\ loc[a] \in Locals /\ (pc[a] \in Locked <=> lock = a)
  BY DEF BInv, TypeOK, Core, LockInv
<1>2. Sound(pc[a], loc[a])
  BY CoreIsSound DEF BInv
<1>3. \A p \in Pages : Blank[p].n <= writes
  BY <1>1 DEF Blank, Absent, TypeOK
<1>4. SetLoc(a, loc[a]) <=> loc' = loc
  BY <1>1 DEF SetLoc, TypeOK
<1> QED
  BY <1>1, <1>2, <1>3, <1>4 DEF Sound

\* The guard and the lock preserve the invariant.
LEMMA GuardCore ==
  ASSUME BInv, NEW a \in Agents, Request(a) \/ Guarding(a)
  PROVE  Core'
<1>1. CASE Request(a)
  <2>1. PICK ack \in {{a}, Agents}, expecting \in BOOLEAN :
       SetLoc(a, [NoLocals EXCEPT !.ack = ack,
                                  !.want = IF expecting THEN disk ELSE NoTree,
                                  !.wantPublic = IF expecting THEN public ELSE NoTree])
    BY <1>1 DEF Request
  <2> DEFINE l == [NoLocals EXCEPT !.ack = ack,
                                   !.want = IF expecting THEN disk ELSE NoTree,
                                   !.wantPublic = IF expecting THEN public ELSE NoTree]
  <2>2. l.rev = Blank
    BY DEF NoLocals
  <2> HIDE DEF l
  <2>3. Sound("look", l)
    BY <2>2, CallFacts, FreeSound DEF Hashed
  <2>4. Goto(a, "look") /\ pc[a] = "idle" /\ UNCHANGED <<durable, writes, lock>>
    BY <1>1 DEF Request
  <2>5. "look" \in Locked <=> pc[a] \in Locked
    BY <2>4 DEF Locked
  <2> QED
    BY <2>1, <2>3, <2>4, <2>5, WalkCore DEF l
<1>2. CASE Look(a)
  <2> DEFINE l == [loc[a] EXCEPT !.saw = pending, !.excused = unguarded]
  <2>1. l.rev = loc[a].rev
    BY CallFacts DEF Locals
  <2> HIDE DEF l
  <2>2. Sound("judge", l)
    BY <2>1, CallFacts, FreeSound DEF Hashed
  <2>3. /\ Goto(a, "judge") /\ SetLoc(a, l) /\ UNCHANGED <<durable, writes, lock>>
        /\ "judge" \in Locked <=> pc[a] \in Locked
    BY <1>2 DEF Look, Locked, counters, l
  <2> QED
    BY <2>2, <2>3, WalkCore
<1>3. CASE Judge(a)
  <2>1. UNCHANGED <<durable, writes>>
    BY <1>3 DEF Judge, SharedUnchanged, counters
  <2>2. CASE Foreign(a) # {}
    BY <1>3, <2>1, <2>2, AnswerCore DEF Judge, Error
  <2>3. CASE Foreign(a) = {}
    <3> DEFINE l == [loc[a] EXCEPT !.saw = {}]
    <3>1. l.rev = loc[a].rev
      BY CallFacts DEF Locals
    <3> HIDE DEF l
    <3>2. Sound("lock", l)
      BY <3>1, CallFacts, FreeSound DEF Hashed
    <3>3. /\ Goto(a, "lock") /\ SetLoc(a, l) /\ UNCHANGED lock
          /\ "lock" \in Locked <=> pc[a] \in Locked
      BY <1>3, <2>3 DEF Judge, Locked, l
    <3> QED
      BY <2>1, <3>2, <3>3, WalkCore
  <2> QED
    BY <2>2, <2>3
<1>4. CASE TakeLock(a)
  <2>1. UNCHANGED <<durable, writes>>
    BY <1>4 DEF TakeLock, SharedUnchanged, counters
  <2>2. CASE lock # Nobody
    BY <1>4, <2>1, <2>2, AnswerCore DEF TakeLock, Error
  <2>3. CASE lock = Nobody
    <3>1. Sound("prepare", loc[a])
      BY CallFacts, FreeSound DEF Hashed
    <3>2. /\ Goto(a, "prepare") /\ SetLoc(a, loc[a]) /\ lock' = a
          /\ "prepare" \in Locked
      BY <1>4, <2>3, CallFacts DEF TakeLock, Locked
    <3>3. \A b \in Agents \ {a} : lock' = b <=> lock = b
      BY <2>3, <3>2, NamesDiffer
    <3> QED
      BY <2>1, <3>1, <3>2, <3>3, MoveCore
  <2> QED
    BY <2>2, <2>3
<1> QED
  BY <1>1, <1>2, <1>3, <1>4 DEF Guarding

\* Rendering a page: it is rendered as it is now, which is as it was hashed or not.
LEMMA RenderCore ==
  ASSUME BInv, NEW a \in Agents, NEW p \in Pages, Render(a, p)
  PROVE  Core'
<1> DEFINE l == [loc[a] EXCEPT !.out[p] = disk[p], !.todo = @ \ {p}]
<1>1. /\ pc[a] = "render" /\ UNCHANGED <<pc, lock, durable, writes>> /\ SetLoc(a, l)
  BY DEF Render, SharedUnchanged, counters
<1>2. /\ l.rev = loc[a].rev /\ l.want = loc[a].want /\ l.wantPublic = loc[a].wantPublic
      /\ l.todo = loc[a].todo \ {p} /\ l.out = [loc[a].out EXCEPT ![p] = disk[p]]
  BY CallFacts DEF Locals
<1>3. \A q \in Pages \ l.todo : l.out[q] = loc[a].rev[q] \/ disk[q] # loc[a].rev[q]
  <2>1. loc[a].out \in [Pages -> Versions]
    BY CallFacts DEF Locals, Trees
  <2>2. \A q \in Pages \ loc[a].todo : loc[a].out[q] = loc[a].rev[q] \/ disk[q] # loc[a].rev[q]
    BY <1>1, CallFacts DEF Sound
  <2> QED
    BY <1>2, <2>1, <2>2
<1>4. Sound("render", l)
  BY <1>1, <1>2, <1>3, CallFacts DEF Sound, Hashed
<1>5. Goto(a, "render")
  BY <1>1, CallFacts DEF Goto, TypeOK
<1> QED
  BY <1>1, <1>4, <1>5, WalkCore

\* The build up to the swap preserves the invariant.
LEMMA BuildCore ==
  ASSUME BInv, NEW a \in Agents, Building(a)
  PROVE  Core'
<1>1. CASE Prepare(a)
  <2>1. /\ Goto(a, "hash") /\ SetLoc(a, loc[a]) /\ UNCHANGED <<durable, writes, lock>>
        /\ "hash" \in Locked <=> pc[a] \in Locked
    BY <1>1, CallFacts DEF Prepare, Locked, counters
  <2>2. Sound("hash", loc[a])
    BY CallFacts, FreeSound DEF Hashed
  <2> QED
    BY <2>1, <2>2, WalkCore
<1>2. CASE Hash(a)
  <2>1. UNCHANGED <<durable, writes>>
    BY <1>2 DEF Hash, SharedUnchanged, counters
  <2>2. CASE Conflict(a)
    BY <1>2, <2>1, <2>2, AnswerCore DEF Hash, Error
  <2>3. CASE ~Conflict(a)
    <3> DEFINE l == [loc[a] EXCEPT !.rev = disk, !.todo = Pages]
    <3>1. /\ l.rev = disk /\ l.todo = Pages
          /\ l.want = loc[a].want /\ l.wantPublic = loc[a].wantPublic
      BY CallFacts DEF Locals
    <3>2. \A p \in Pages : disk[p].n <= writes
      BY DEF BInv, Core, ClockInv
    <3>3. Sound("render", l)
      BY <2>3, <3>1, <3>2 DEF Sound, Conflict
    <3>4. /\ Goto(a, "render") /\ SetLoc(a, l) /\ UNCHANGED lock
          /\ "render" \in Locked <=> pc[a] \in Locked
      BY <1>2, <2>3 DEF Hash, Locked
    <3> QED
      BY <2>1, <3>3, <3>4, WalkCore
  <2> QED
    BY <2>2, <2>3
<1>3. CASE BuildFails(a)
  BY <1>3, AnswerCore DEF BuildFails, Error, SharedUnchanged, counters
<1>4. CASE Verify(a)
  <2>1. UNCHANGED <<durable, writes>>
    BY <1>4 DEF Verify, SharedUnchanged, counters
  <2>2. CASE ~Stable(a)
    BY <1>4, <2>1, <2>2, AnswerCore DEF Verify, Error
  <2>3. CASE Stable(a)
    <3>1. \A p \in Pages : loc[a].out[p] = loc[a].rev[p]
      BY <1>4, <2>3, CallFacts DEF Verify, Stable, Sound
    <3>2. loc[a].out = loc[a].rev
      BY <3>1, CallFacts DEF Locals, Trees
    <3>3. Sound("swapout", loc[a])
      BY <1>4, <3>2, CallFacts DEF Verify, Sound, Hashed
    <3>4. /\ Goto(a, "swapout") /\ SetLoc(a, loc[a]) /\ UNCHANGED lock
          /\ "swapout" \in Locked <=> pc[a] \in Locked
      BY <1>4, <2>3, CallFacts DEF Verify, Locked
    <3> QED
      BY <2>1, <3>3, <3>4, WalkCore
  <2> QED
    BY <2>2, <2>3
<1>5. ASSUME NEW p \in Pages, Render(a, p)
      PROVE  Core'
  BY <1>5, RenderCore
<1> QED
  BY <1>1, <1>2, <1>3, <1>4, <1>5 DEF Building

\* The holder of the lock changes the published tree or the backup: nobody else
\* claims anything of them.
LEMMA HolderCore ==
  ASSUME BInv, NEW a \in Agents, pc[a] \in Locked, NEW label, NEW l,
         Goto(a, label), SetLoc(a, l), UNCHANGED <<disk, writes>>,
         lock' = IF label \in Locked THEN lock ELSE Nobody,
         OldTreeRetained', Sound(pc[a], loc[a])'
  PROVE  Core'
<1>1. /\ pc'[a] = label /\ lock = a
      /\ \A b \in Agents \ {a} : pc'[b] = pc[b] /\ loc'[b] = loc[b] /\ pc[b] \notin Locked
  BY DEF Goto, SetLoc, BInv, TypeOK, Core, LockInv
<1>2. LockInv'
  BY <1>1, NamesDiffer DEF LockInv
<1>3. TreesSound'
  BY CoreIsSound DEF TreesSound, BInv
<1>4. ASSUME NEW b \in Agents
      PROVE  Sound(pc[b], loc[b])'
  <2>1. CASE b = a
    BY <2>1
  <2>2. CASE b # a
    <3>1. \A p \in Pages : loc[b].rev[p].n <= writes
      BY CallFacts
    <3>2. pc[b] \notin Hashed /\ pc[b] # "cleanup"
      BY <1>1, <2>2 DEF Locked, Hashed
    <3> QED
      BY <1>1, <2>2, <3>1, <3>2 DEF Sound, Hashed
  <2> QED
    BY <2>1, <2>2
<1> QED
  BY <1>2, <1>3, <1>4, SoundNext

\* The swap preserves the invariant.
LEMMA SwapCore ==
  ASSUME BInv, NEW a \in Agents, Swapping(a)
  PROVE  Core'
<1>0. /\ pc[a] \in {"swapout", "swapin", "cleanup"} => pc[a] \in Locked
      /\ OldTreeRetained
  BY DEF Locked, BInv, Core
<1>1. CASE SwapOut(a)
  <2> DEFINE l == [loc[a] EXCEPT !.hadOld = TRUE]
  <2>1. /\ l.rev = loc[a].rev /\ l.out = loc[a].out /\ l.hadOld
        /\ l.want = loc[a].want /\ l.wantPublic = loc[a].wantPublic
    BY CallFacts DEF Locals
  <2>2. /\ pc[a] = "swapout" /\ public # NoTree /\ backup' = public /\ public' = NoTree
        /\ Goto(a, "swapin") /\ SetLoc(a, l) /\ UNCHANGED <<disk, writes, lock>>
        /\ "swapin" \in Locked
    BY <1>1 DEF SwapOut, counters, Locked
  <2> HIDE DEF l
  <2>3. pc'[a] = "swapin" /\ loc'[a] = l
    BY <2>2, CallFacts DEF Goto, SetLoc, TypeOK
  <2>4. Sound(pc[a], loc[a])'
    BY <2>1, <2>2, <2>3, CallFacts DEF Sound, Hashed
  <2>5. OldTreeRetained'
    BY <2>2 DEF OldTreeRetained
  <2> QED
    BY <1>0, <2>2, <2>4, <2>5, HolderCore
<1>2. CASE SwapOutNothing(a)
  <2>1. /\ Goto(a, "swapin") /\ SetLoc(a, loc[a]) /\ UNCHANGED <<durable, writes, lock>>
        /\ "swapin" \in Locked <=> pc[a] \in Locked
    BY <1>2, CallFacts DEF SwapOutNothing, SharedUnchanged, counters, Locked
  <2>2. Sound("swapin", loc[a])
    BY <1>0, <1>2, CallFacts DEF SwapOutNothing, Sound, Hashed, OldTreeRetained
  <2> QED
    BY <2>1, <2>2, WalkCore
<1>3. CASE SwapOutFails(a)
  BY <1>3, AnswerCore DEF SwapOutFails, Error
<1>4. CASE SwapIn(a)
  <2> DEFINE l == [loc[a] EXCEPT !.ack = {}, !.excused = {}, !.out = Blank]
  <2>1. /\ l.rev = loc[a].rev /\ l.hadOld = loc[a].hadOld
        /\ l.want = loc[a].want /\ l.wantPublic = loc[a].wantPublic
    BY CallFacts DEF Locals
  <2>2. /\ pc[a] = "swapin" /\ public' = loc[a].out /\ loc[a].out \in Trees
        /\ Goto(a, "cleanup") /\ SetLoc(a, l) /\ UNCHANGED <<disk, backup, writes, lock>>
        /\ "cleanup" \in Locked
    BY <1>4, CallFacts DEF SwapIn, counters, Locked, Locals
  <2> HIDE DEF l
  <2>3. pc'[a] = "cleanup" /\ loc'[a] = l
    BY <2>2, CallFacts DEF Goto, SetLoc, TypeOK
  <2>4. Sound(pc[a], loc[a])'
    BY <2>1, <2>2, <2>3, CallFacts, NoTreeIsNoTree DEF Sound, Hashed
  <2>5. OldTreeRetained'
    BY <2>2, NoTreeIsNoTree DEF OldTreeRetained
  <2> QED
    BY <1>0, <2>2, <2>4, <2>5, HolderCore
<1>5. CASE SwapInFails(a)
  <2>1. /\ pc[a] = "swapin" /\ Goto(a, "idle") /\ SetLoc(a, NoLocals)
        /\ UNCHANGED <<disk, writes>> /\ lock' = IF lock = a THEN Nobody ELSE lock
    BY <1>5 DEF SwapInFails, Error, Answer
  <2>2. /\ pc'[a] = "idle" /\ loc'[a] = NoLocals
        /\ "idle" \notin Locked /\ lock' = Nobody
    BY <1>0, <2>1, CallFacts DEF Goto, SetLoc, TypeOK, Locked
  <2>3. NoLocals.rev = Blank
    BY DEF NoLocals
  <2>4. Sound(pc[a], loc[a])'
    BY <2>1, <2>2, <2>3, CallFacts DEF Sound, Hashed
  <2>5. OldTreeRetained'
    BY <1>0, <1>5, <2>1, CallFacts DEF SwapInFails, OldTreeRetained, Sound
  <2> QED
    BY <1>0, <2>1, <2>2, <2>4, <2>5, HolderCore
<1>6. CASE Cleanup(a)
  <2>1. PICK clean \in BOOLEAN :
          SetLoc(a, [NoLocals EXCEPT !.rev = loc[a].rev, !.reload.at = "site", !.clean = clean])
    BY <1>6 DEF Cleanup
  <2> DEFINE l == [NoLocals EXCEPT !.rev = loc[a].rev, !.reload.at = "site", !.clean = clean]
  <2>2. l.rev = loc[a].rev
    BY DEF NoLocals
  <2>3. /\ pc[a] = "cleanup" /\ Goto(a, "callbacks") /\ "callbacks" \in Locked
        /\ UNCHANGED <<disk, public, writes, lock>>
    BY <1>6 DEF Cleanup, Locked
  <2> HIDE DEF l
  <2>4. pc'[a] = "callbacks" /\ loc'[a] = l
    BY <2>1, <2>3, CallFacts DEF Goto, SetLoc, TypeOK, l
  <2>5. Sound(pc[a], loc[a])'
    BY <2>2, <2>3, <2>4, CallFacts DEF Sound, Hashed
  <2>6. public # NoTree
    BY <2>3, CallFacts DEF Sound
  <2>7. OldTreeRetained'
    BY <2>3, <2>6 DEF OldTreeRetained
  <2> QED
    BY <1>0, <2>1, <2>3, <2>5, <2>7, HolderCore
<1> QED
  BY <1>1, <1>2, <1>3, <1>4, <1>5, <1>6 DEF Swapping

\* The callbacks, the unlock and the verification preserve the invariant.
LEMMA FinishCore ==
  ASSUME BInv, NEW a \in Agents, Finishing(a)
  PROVE  Core'
<1>1. CASE RunReload(a)
  <2>1. PICK next \in Nexts(loc[a].reload) : SetLoc(a, [loc[a] EXCEPT !.reload = next])
    BY <1>1 DEF RunReload
  <2> DEFINE l == [loc[a] EXCEPT !.reload = next]
  <2>2. l.rev = loc[a].rev
    BY CallFacts DEF Locals
  <2> HIDE DEF l
  <2>3. Sound("callbacks", l)
    BY <2>2, CallFacts, FreeSound DEF Hashed
  <2>4. Goto(a, "callbacks") /\ pc[a] = "callbacks" /\ UNCHANGED <<durable, writes, lock>>
    BY <1>1, CallFacts DEF RunReload, Goto, TypeOK, counters
  <2> QED
    BY <2>1, <2>3, <2>4, WalkCore DEF l
<1>2. CASE TimesOut(a) \/ CallbackFails(a)
  <2> DEFINE l == [loc[a] EXCEPT !.reload = NoReload, !.clean = FALSE]
  <2>1. l.rev = loc[a].rev
    BY CallFacts DEF Locals
  <2> HIDE DEF l
  <2>2. Sound("complete", l)
    BY <2>1, CallFacts, FreeSound DEF Hashed
  <2>3. /\ Goto(a, "complete") /\ SetLoc(a, l) /\ UNCHANGED <<durable, writes, lock>>
        /\ "complete" \in Locked <=> pc[a] \in Locked
    BY <1>2 DEF TimesOut, CallbackFails, Locked, l
  <2> QED
    BY <2>2, <2>3, WalkCore
<1>3. CASE CallbacksDone(a)
  <2>1. Sound("complete", loc[a])
    BY CallFacts, FreeSound DEF Hashed
  <2>2. /\ Goto(a, "complete") /\ SetLoc(a, loc[a]) /\ UNCHANGED <<durable, writes, lock>>
        /\ "complete" \in Locked <=> pc[a] \in Locked
    BY <1>3, CallFacts DEF CallbacksDone, SharedUnchanged, counters, Locked
  <2> QED
    BY <2>1, <2>2, WalkCore
<1>4. CASE Complete(a)
  <2>1. /\ pc[a] = "complete" /\ lock' = Nobody /\ UNCHANGED <<durable, writes>>
    BY <1>4 DEF Complete
  <2>2. CASE Answer(a, "built")
    BY <2>1, <2>2, AnswerCore
  <2>3. ASSUME NEW clean \in BOOLEAN,
               Goto(a, "poll"), SetLoc(a, [loc[a] EXCEPT !.clean = clean])
        PROVE  Core'
    <3> DEFINE l == [loc[a] EXCEPT !.clean = clean]
    <3>1. l.rev = loc[a].rev
      BY CallFacts DEF Locals
    <3> HIDE DEF l
    <3>2. Sound("poll", l)
      BY <3>1, CallFacts, FreeSound DEF Hashed
    <3>3. lock = a /\ "poll" \notin Locked
      BY <2>1, CallFacts DEF Locked
    <3>4. /\ "poll" \in Locked <=> lock' = a
          /\ \A b \in Agents \ {a} : lock' = b <=> lock = b
      BY <2>1, <3>3, NamesDiffer
    <3> QED
      BY <2>1, <2>3, <3>2, <3>4, MoveCore DEF l
  <2>4. PICK failed \in BOOLEAN :
          \/ Answer(a, "built")
          \/ Goto(a, "poll") /\ SetLoc(a, [loc[a] EXCEPT !.clean = loc[a].clean /\ ~failed])
    BY <1>4 DEF Complete
  <2>5. (loc[a].clean /\ ~failed) \in BOOLEAN
    OBVIOUS
  <2> QED
    BY <2>2, <2>3, <2>4, <2>5
<1>5. CASE Poll(a)
  <2>1. pc[a] = "poll" /\ UNCHANGED <<durable, writes>>
    BY <1>5 DEF Poll, SharedUnchanged, counters
  <2>2. CASE Goto(a, "confirm") /\ UNCHANGED <<lock, loc, ans>>
    <3>1. Sound("confirm", loc[a])
      BY CallFacts, FreeSound DEF Hashed
    <3>2. SetLoc(a, loc[a]) /\ ("confirm" \in Locked <=> pc[a] \in Locked)
      BY <2>1, <2>2, CallFacts DEF Locked
    <3> QED
      BY <2>1, <2>2, <3>1, <3>2, WalkCore
  <2>3. CASE Answer(a, "built") \/ Error(a, "content_not_found")
    BY <2>1, <2>3, AnswerCore DEF Error
  <2> QED
    BY <1>5, <2>2, <2>3 DEF Poll
<1>6. CASE Confirm(a)
  BY <1>6, AnswerCore DEF Confirm, SharedUnchanged, counters
<1> QED
  BY <1>1, <1>2, <1>3, <1>4, <1>5, <1>6 DEF Finishing

\* Edits preserve the invariant: the agents' wait for the lock, and the author's
\* write is newer than anything that was hashed.
LEMMA EditCore ==
  ASSUME BInv, NEW p \in Pages,
         OutsideEdit(p) \/ \E a \in Agents : Edit(a, p) \/ Delete(a, p)
  PROVE  Core'
<1>0. TypeOK /\ OldTreeRetained /\ writes \in Nat /\ disk \in [Pages -> Versions]
  BY DEF BInv, Core, TypeOK, Trees
<1>1. /\ \A q \in Pages : disk[q].n <= writes
      /\ \A q \in Pages : disk[q].n \in Nat
  BY <1>0 DEF BInv, Core, ClockInv, Versions
<1>2. CASE OutsideEdit(p)
  <2>1. /\ writes' = writes + 1 /\ disk' = [disk EXCEPT ![p] = [n |-> writes + 1, by |-> Author]]
        /\ UNCHANGED <<public, backup, lock, pc, loc>>
    BY <1>2 DEF OutsideEdit
  <2>2. /\ disk'[p].n = writes + 1
        /\ \A q \in Pages \ {p} : disk'[q] = disk[q]
    BY <1>0, <2>1
  <2>3. TreesSound'
    BY <1>0, <1>1, <2>1, <2>2 DEF TreesSound, OldTreeRetained
  <2>4. ASSUME NEW b \in Agents
        PROVE  Sound(pc[b], loc[b])'
    <3>1. \A q \in Pages : loc[b].rev[q].n \in Nat
      BY CallFacts DEF Locals, Trees, Versions
    <3> QED
      BY <1>0, <2>1, <2>2, <3>1, CallFacts DEF Sound
  <2>5. LockInv'
    BY <2>1 DEF LockInv, BInv, Core
  <2> QED
    BY <2>3, <2>4, <2>5, SoundNext
<1>3. ASSUME NEW a \in Agents, Edit(a, p) \/ Delete(a, p)
      PROVE  Core'
  <2>1. lock = Nobody /\ UNCHANGED <<lock, pc, backup>> /\ writes' = writes + 1
    BY <1>3 DEF Edit, Delete
  <2>2. \A b \in Agents : pc[b] \notin Locked
    BY <2>1, NamesDiffer DEF BInv, Core, LockInv
  <2>3. \A q \in Pages : disk'[q].n <= writes + 1
    <3>1. \A q \in Pages : disk'[q] \in {disk[q], Absent, [n |-> writes + 1, by |-> a]}
      BY <1>0, <1>3 DEF Edit, Delete
    <3> QED
      BY <1>0, <1>1, <3>1 DEF Absent
  <2>4. public' = NoTree => public = NoTree
    <3>1. CASE Edit(a, p)
      BY <3>1 DEF Edit
    <3>2. CASE Delete(a, p)
      <4>1. public # NoTree => [public EXCEPT ![p] = Absent] # NoTree
        BY <1>0, BlankTypes, NoTreeIsNoTree DEF TypeOK, Trees
      <4> QED
        BY <3>2, <4>1 DEF Delete
    <3> QED
      BY <1>3, <3>1, <3>2
  <2>5. TreesSound'
    BY <1>0, <2>1, <2>3, <2>4 DEF TreesSound, OldTreeRetained
  <2>6. ASSUME NEW b \in Agents
        PROVE  loc'[b].rev = loc[b].rev
    <3>1. CASE Delete(a, p)
      BY <3>1 DEF Delete
    <3>2. CASE Edit(a, p)
      <4>1. loc'[b] = IF Looked(b) THEN [loc[b] EXCEPT !.excused = @ \cup {p}] ELSE loc[b]
        BY <3>2 DEF Edit, ExcuseSince
      <4>2. [loc[b] EXCEPT !.excused = @ \cup {p}].rev = loc[b].rev
        BY CallFacts DEF Locals
      <4> QED
        BY <4>1, <4>2
    <3> QED
      BY <1>3, <3>1, <3>2
  <2>7. ASSUME NEW b \in Agents
        PROVE  Sound(pc[b], loc[b])'
    <3>1. \A q \in Pages : loc[b].rev[q].n \in Nat /\ loc[b].rev[q].n <= writes
      BY CallFacts DEF Locals, Trees, Versions
    <3>2. \A q \in Pages : loc'[b].rev[q].n <= writes'
      BY <1>0, <2>1, <2>6, <3>1
    <3>3. pc'[b] \notin Hashed /\ pc'[b] # "cleanup"
      BY <2>1, <2>2 DEF Locked, Hashed
    <3> QED
      BY <3>2, <3>3 DEF Sound, Hashed
  <2>8. LockInv'
    BY <2>1, <2>2, NamesDiffer DEF LockInv
  <2> QED
    BY <2>5, <2>7, <2>8, SoundNext
<1> QED
  BY <1>2, <1>3

\* Steps that change no call and neither the trees nor the lock preserve it.
LEMMA AsideCore ==
  ASSUME BInv, UNCHANGED <<durable, writes, lock, pc, loc>>
  PROVE  Core'
  BY DEF BInv, Core, LockInv, ClockInv, RenderInv, ExpectInv, SwapInv, PromotedIsStable,
     PublishesWhatWasRead, OldTreeRetained, durable

\* Late reloads, the death of the process and its start preserve the invariant.
LEMMA ProcessCore ==
  ASSUME BInv, RunLate \/ Crash \/ Restart \/ Rest
  PROVE  Core'
<1>1. CASE RunLate \/ Restart \/ Rest
  BY <1>1, AsideCore DEF RunLate, Restart, Rest, vars, counters
<1>2. CASE Crash
  <2>1. /\ UNCHANGED <<durable, writes>> /\ lock' = Nobody
        /\ \A b \in Agents : pc'[b] = "idle" /\ loc'[b] = NoLocals
    BY <1>2 DEF Crash
  <2>2. LockInv'
    BY <2>1, NamesDiffer DEF LockInv, Locked
  <2>3. TreesSound'
    BY <2>1, CoreIsSound DEF BInv, TreesSound, OldTreeRetained, durable
  <2>4. ASSUME NEW b \in Agents
        PROVE  Sound(pc[b], loc[b])'
    <3>1. NoLocals.rev = Blank
      BY DEF NoLocals
    <3> QED
      BY <2>1, <3>1, CallFacts DEF Sound, Hashed
  <2> QED
    BY <2>2, <2>3, <2>4, SoundNext
<1> QED
  BY <1>1, <1>2

---------------------------------------------------------------------------
\* The theorems.

\* Every step preserves the inductive invariant.
LEMMA StepInvariant == BInv /\ [Next]_vars => BInv'
<1> SUFFICES ASSUME BInv, [Next]_vars
             PROVE  BInv'
  OBVIOUS
<1>1. TypeOK'
  BY StepType DEF BInv
<1>2. CASE UNCHANGED vars
  BY <1>1, <1>2, AsideCore DEF vars, counters, BInv
<1>3. CASE Next
  <2>1. ASSUME NEW a \in Agents, Running(a)
        PROVE  Core'
    BY <2>1, GuardCore, BuildCore, SwapCore, FinishCore DEF Running
  <2>2. Core'
    BY <1>3, <2>1, GuardCore, EditCore, ProcessCore DEF Next
  <2> QED
    BY <1>1, <2>2 DEF BInv
<1> QED
  BY <1>2, <1>3

\* The initial states satisfy it.
LEMMA InitInvariant == Init => BInv
<1> SUFFICES ASSUME Init
             PROVE  BInv
  OBVIOUS
<1>1. TypeOK
  BY InitType
<1>2. \A p \in Pages : disk[p].n <= writes
  <2>1. writes = 1
    BY DEF Init
  <2>2. ASSUME NEW p \in Pages
        PROVE  disk[p].n <= 1
    <3>1. disk[p] = IF p \in InitialPages THEN [n |-> 1, by |-> Author] ELSE Absent
      BY DEF Init
    <3>2. CASE p \in InitialPages
      BY <3>1, <3>2
    <3>3. CASE p \notin InitialPages
      BY <3>1, <3>3 DEF Absent
    <3> QED
      BY <3>2, <3>3
  <2> QED
    BY <2>1, <2>2
<1>3. LockInv
  <2>1. lock = Nobody /\ \A a \in Agents : pc[a] = "idle"
    BY DEF Init
  <2> QED
    BY <2>1, NamesDiffer DEF LockInv, Locked
<1>4. OldTreeRetained
  BY <1>1, NoTreeIsNoTree DEF Init, OldTreeRetained, TypeOK
<1>5. \A a \in Agents : Sound(pc[a], loc[a])
  BY <1>1, IdleSound DEF Init
<1> QED
  BY <1>1, <1>2, <1>3, <1>4, <1>5, CoreIsSound DEF BInv, TreesSound

\* The inductive invariant holds in every reachable state.
THEOREM BuildInvariant == Spec => []BInv
  BY InitInvariant, StepInvariant, PTL DEF Spec

\* The content lock excludes builds from each other.
THEOREM OneBuild ==
  Spec => [](\A a, b \in Agents : pc[a] \in Locked /\ pc[b] \in Locked => a = b)
<1>1. BInv => \A a, b \in Agents : pc[a] \in Locked /\ pc[b] \in Locked => a = b
  BY DEF BInv, Core, LockInv
<1> QED
  BY <1>1, BuildInvariant, PTL

\* What is swapped in was the source from before Hugo ran until after it.
THEOREM PromotedStable == Spec => []PromotedIsStable
<1>1. BInv => PromotedIsStable
  BY DEF BInv, Core
<1> QED
  BY <1>1, BuildInvariant, PTL

\* A caller's expected revisions are those of what it published and replaced.
THEOREM PublishesRead == Spec => []PublishesWhatWasRead
<1>1. BInv => PublishesWhatWasRead
  BY DEF BInv, Core
<1> QED
  BY <1>1, BuildInvariant, PTL

\* The site never loses both its trees.
THEOREM OldTreeKept == Spec => []OldTreeRetained
<1>1. BInv => OldTreeRetained
  BY DEF BInv, Core
<1> QED
  BY <1>1, BuildInvariant, PTL

---------------------------------------------------------------------------
\* What the guard lets through, and what "published" means: GuardInv.

\* What every step may use of the invariant.
LEMMA GuardFacts ==
  ASSUME GInv, NEW a \in Agents
  PROVE  /\ BInv /\ TypeOK /\ MarkInv /\ KeptCurrent
         /\ disk \in [Pages -> Versions] /\ failures \in Nat
         /\ loc[a] \in Locals /\ Sound(pc[a], loc[a])
         /\ Vetted(pc[a], loc[a]) /\ HeldStill(pc[a], loc[a]) /\ Current(pc[a], loc[a])
         /\ pc[a] \in Locked <=> lock = a
         /\ SetLoc(a, loc[a]) <=> loc' = loc
<1>1. BInv /\ GuardInv
  BY DEF GInv
<1>2. TypeOK /\ disk \in [Pages -> Versions] /\ failures \in Nat
  BY <1>1 DEF BInv, TypeOK, Trees
<1> QED
  BY <1>1, <1>2, CallFacts DEF GuardInv

\* The marks say what they said while nothing is marked, unmarked or published.
LEMMA MarksStay ==
  ASSUME MarkInv, UNCHANGED <<disk, owner, pending, unguarded>>, Live' = Live
  PROVE  MarkInv'
  BY DEF MarkInv

\* Marks that are dropped leave behind which pages lost theirs unpublished.
LEMMA MarksDrop ==
  ASSUME MarkInv, UNCHANGED durable, unguarded' = unguarded \cup Unpublished
  PROVE  MarkInv'
<1>1. Live' = Live /\ disk' = disk
  BY DEF Live, durable
<1>2. ASSUME NEW p \in pending, p \in Pages, p \notin Unpublished
      PROVE  Live[p] = disk[p]
  BY <1>2 DEF Unpublished, Live
<1> QED
  BY <1>1, <1>2 DEF MarkInv

\* One call moves to `label` with the locals `l` while the sources, their owners
\* and the live tree stay.
LEMMA GuardMove ==
  ASSUME GInv, NEW a \in Agents, NEW label, NEW l,
         Goto(a, label), SetLoc(a, l),
         UNCHANGED <<disk, owner>>, Live' = Live, MarkInv',
         failures' \in {failures, failures + 1},
         public' = public \/ (pc[a] \in Locked /\ (public' = NoTree \/ failures' # 0)),
         Vetted(label, l),
         label \in Hashed => \A p \in Pages : disk[p] = l.rev[p] \/ disk[p].by = Author,
         label = "swapin" => public' = NoTree,
         label \in Installed => pc[a] \in Installed /\ l.rev = loc[a].rev,
         label \in Hashed => l.rev = disk \/ (pc[a] \in Hashed /\ l.rev = loc[a].rev)
  PROVE  GuardInv'
<1>1. /\ pc'[a] = label /\ loc'[a] = l
      /\ \A b \in Agents \ {a} : pc'[b] = pc[b] /\ loc'[b] = loc[b]
  BY GuardFacts DEF Goto, SetLoc, TypeOK
<1>2. failures' = 0 => failures = 0
  BY GuardFacts
<1>3. ASSUME NEW b \in Agents
      PROVE  Vetted(pc[b], loc[b])'
  <2>1. CASE b = a
    BY <1>1, <2>1 DEF Vetted, News
  <2>2. CASE b # a
    BY <1>1, <2>2, GuardFacts DEF Vetted, News
  <2> QED
    BY <2>1, <2>2
<1>4. ASSUME NEW b \in Agents
      PROVE  HeldStill(pc[b], loc[b])'
  <2>1. CASE b = a
    BY <1>1, <2>1 DEF HeldStill
  <2>2. CASE b # a
    <3>1. HeldStill(pc[b], loc[b])
      BY GuardFacts
    <3>2. pc[b] = "swapin" => pc[b] \in Locked
      BY DEF Locked
    <3>3. pc[b] = "swapin" => public' = NoTree
      BY <2>2, <3>1, <3>2, GuardFacts DEF HeldStill
    <3> QED
      BY <1>1, <2>2, <3>1, <3>3 DEF HeldStill
  <2> QED
    BY <2>1, <2>2
<1>5. ASSUME NEW b \in Agents
      PROVE  Current(pc[b], loc[b])'
  <2>1. CASE b = a
    BY <1>1, <1>2, <2>1, GuardFacts DEF Current
  <2>2. CASE b # a
    BY <1>1, <1>2, <2>2, GuardFacts DEF Current
  <2> QED
    BY <2>1, <2>2
<1>6. KeptCurrent'
  <2> SUFFICES ASSUME NEW b \in Agents, NEW c \in Agents, pc'[b] \in Installed, pc'[c] \in Hashed,
                      NEW p \in Pages, disk'[p] = loc'[b].rev[p]
               PROVE  loc'[c].rev[p] = disk'[p]
    BY DEF KeptCurrent
  <2>1. pc[b] \in Installed /\ loc'[b].rev = loc[b].rev
    BY <1>1
  <2>2. loc'[c].rev = disk \/ (pc[c] \in Hashed /\ loc'[c].rev = loc[c].rev)
    BY <1>1
  <2> QED
    BY <2>1, <2>2, GuardFacts DEF KeptCurrent
<1> QED
  BY <1>3, <1>4, <1>5, <1>6 DEF GuardInv

\* ... as when it is answered,
LEMMA GuardAnswer ==
  ASSUME GInv, NEW a \in Agents, NEW text, Answer(a, text), MarkInv',
         UNCHANGED <<disk, owner>>, Live' = Live, failures' \in {failures, failures + 1},
         public' = public \/ (pc[a] \in Locked /\ failures' # 0)
  PROVE  GuardInv'
<1>1. "idle" \notin Hashed \cup Installed \cup Admitted \cup {"judge", "swapin"}
  BY DEF Hashed, Installed, Admitted
<1>2. Vetted("idle", NoLocals)
  BY <1>1 DEF Vetted
<1>3. Goto(a, "idle") /\ SetLoc(a, NoLocals)
  BY DEF Answer
<1> QED
  BY <1>1, <1>2, <1>3, GuardMove

\* ... or moves on with the revision it has, neither vetted nor hashed yet or no more.
LEMMA GuardWalk ==
  ASSUME GInv, NEW a \in Agents, NEW label, NEW l,
         Goto(a, label), SetLoc(a, l), l.rev = loc[a].rev, MarkInv',
         UNCHANGED <<durable, owner>>, failures' \in {failures, failures + 1},
         label \notin Hashed \cup Admitted \cup {"judge"},
         label \in Installed => pc[a] \in Installed
  PROVE  GuardInv'
<1>1. Live' = Live /\ public' = public /\ disk' = disk
  BY DEF Live, durable
<1>2. Vetted(label, l)
  BY DEF Vetted
<1>3. label # "swapin"
  BY DEF Hashed
<1> QED
  BY <1>1, <1>2, <1>3, GuardMove

\* The guard: what it saw is marked and attributed, and it refuses what is foreign.
LEMMA GuardingGuard ==
  ASSUME GInv, NEW a \in Agents, Request(a) \/ Guarding(a)
  PROVE  GuardInv'
<1>1. UNCHANGED <<disk, public, backup, owner, pending, unguarded, failures>>
  BY DEF Guarding, Request, Look, Judge, TakeLock, SharedUnchanged, durable, memory, counters
<1>2. Live' = Live /\ MarkInv'
  BY <1>1, MarksStay, GuardFacts DEF Live
<1>3. CASE Request(a)
  <2>1. PICK l : SetLoc(a, l)
    BY <1>3 DEF Request
  <2>2. Goto(a, "look")
    BY <1>3 DEF Request
  <2>3. "look" \notin Hashed \cup Installed \cup Admitted \cup {"judge", "swapin"}
    BY DEF Hashed, Installed, Admitted
  <2>4. Vetted("look", l)
    BY <2>3 DEF Vetted
  <2> QED
    BY <1>1, <1>2, <2>1, <2>2, <2>3, <2>4, GuardMove
<1>4. CASE Look(a)
  <2> DEFINE l == [loc[a] EXCEPT !.saw = pending, !.excused = unguarded]
  <2>1. l.saw = pending /\ l.excused = unguarded
    BY GuardFacts DEF Locals
  <2>2. Goto(a, "judge") /\ SetLoc(a, l)
    BY <1>4 DEF Look
  <2> HIDE DEF l
  <2>3. "judge" \notin Hashed \cup Installed \cup Admitted \cup {"swapin"}
    BY DEF Hashed, Installed, Admitted
  <2>4. Vetted("judge", l)
    BY <2>1, <2>3, GuardFacts DEF Vetted, MarkInv
  <2> QED
    BY <1>1, <1>2, <2>2, <2>3, <2>4, GuardMove
<1>5. CASE Judge(a)
  <2>1. CASE Foreign(a) # {}
    BY <1>1, <1>2, <1>5, <2>1, GuardAnswer DEF Judge, Error
  <2>2. CASE Foreign(a) = {}
    <3> DEFINE l == [loc[a] EXCEPT !.saw = {}]
    <3>1. l.ack = loc[a].ack /\ l.excused = loc[a].excused
      BY GuardFacts DEF Locals
    <3>2. pc[a] = "judge" /\ Goto(a, "lock") /\ SetLoc(a, l)
      BY <1>5, <2>2 DEF Judge
    <3> HIDE DEF l
    <3>3. "lock" \notin Hashed \cup Installed \cup {"judge", "swapin"}
      BY DEF Hashed, Installed
    <3>4. ASSUME NEW p \in Pages, disk[p].by \in Agents \ loc[a].ack
          PROVE  Live[p] = disk[p] \/ p \in loc[a].excused
      <4>1. \/ p \in loc[a].excused \/ Live[p] = disk[p]
            \/ p \in loc[a].saw /\ owner[p] = disk[p].by
        BY <3>2, <3>4, GuardFacts DEF Vetted
      <4>2. p \in loc[a].saw => owner[p] = Nobody \/ owner[p] \in loc[a].ack
        BY <2>2 DEF Foreign
      <4> QED
        BY <3>4, <4>1, <4>2, NamesDiffer
    <3>5. News(disk, l) = {}
      BY <3>1, <3>4 DEF News
    <3>6. Vetted("lock", l)
      BY <3>3, <3>5 DEF Vetted
    <3> QED
      BY <1>1, <1>2, <3>2, <3>3, <3>6, GuardMove
  <2> QED
    BY <2>1, <2>2
<1>6. CASE TakeLock(a)
  <2>1. CASE lock # Nobody
    BY <1>1, <1>2, <1>6, <2>1, GuardAnswer DEF TakeLock, Error
  <2>2. CASE lock = Nobody
    <3>1. pc[a] = "lock" /\ Goto(a, "prepare") /\ SetLoc(a, loc[a])
      BY <1>6, <2>2, GuardFacts DEF TakeLock
    <3>2. "prepare" \notin Hashed \cup Installed \cup {"judge", "swapin"}
      BY DEF Hashed, Installed
    <3>3. Vetted("prepare", loc[a])
      BY <3>1, <3>2, GuardFacts DEF Vetted, Admitted
    <3> QED
      BY <1>1, <1>2, <3>1, <3>2, <3>3, GuardMove
  <2> QED
    BY <2>1, <2>2
<1> QED
  BY <1>3, <1>4, <1>5, <1>6 DEF Guarding

\* The build: what is hashed was vetted, and rendering changes no claim.
LEMMA BuildingGuard ==
  ASSUME GInv, NEW a \in Agents, Building(a)
  PROVE  GuardInv'
<1>1. UNCHANGED <<disk, public, backup, owner, failures>> /\ Live' = Live
  BY DEF Building, Prepare, Hash, BuildFails, Verify, Render, SharedUnchanged, durable, memory,
         counters, Live
<1>2. CASE Prepare(a)
  <2>1. pc[a] = "prepare" /\ Goto(a, "hash") /\ SetLoc(a, loc[a])
    BY <1>2, GuardFacts DEF Prepare
  <2>2. MarkInv'
    BY <1>2, MarksDrop, GuardFacts DEF Prepare
  <2>3. "hash" \notin Hashed \cup Installed \cup {"judge", "swapin"}
    BY DEF Hashed, Installed
  <2>4. Vetted("hash", loc[a])
    BY <2>1, <2>3, GuardFacts DEF Vetted, Admitted
  <2> QED
    BY <1>1, <2>1, <2>2, <2>3, <2>4, GuardMove
<1>3. ASSUME UNCHANGED <<pending, unguarded>>
      PROVE  MarkInv'
  BY <1>1, <1>3, MarksStay, GuardFacts
<1>4. CASE Hash(a)
  <2>1. MarkInv'
    BY <1>3, <1>4 DEF Hash, SharedUnchanged, memory
  <2>2. CASE Conflict(a)
    BY <1>1, <1>4, <2>1, <2>2, GuardAnswer DEF Hash, Error
  <2>3. CASE ~Conflict(a)
    <3> DEFINE l == [loc[a] EXCEPT !.rev = disk, !.todo = Pages]
    <3>1. l.rev = disk /\ l.ack = loc[a].ack /\ l.excused = loc[a].excused
      BY GuardFacts DEF Locals
    <3>2. pc[a] = "hash" /\ Goto(a, "render") /\ SetLoc(a, l)
      BY <1>4, <2>3 DEF Hash
    <3> HIDE DEF l
    <3>3. "render" \notin Installed \cup Admitted \cup {"judge", "swapin"}
      BY DEF Installed, Admitted
    <3>4. News(l.rev, l) = {}
      BY <3>1, <3>2, GuardFacts DEF Vetted, News, Admitted
    <3>5. Vetted("render", l)
      BY <3>3, <3>4 DEF Vetted
    <3> QED
      BY <1>1, <2>1, <3>1, <3>2, <3>3, <3>5, GuardMove
  <2> QED
    BY <2>2, <2>3
<1>5. CASE BuildFails(a)
  <2>1. MarkInv'
    BY <1>3, <1>5 DEF BuildFails, SharedUnchanged, memory
  <2> QED
    BY <1>1, <1>5, <2>1, GuardAnswer DEF BuildFails, Error
<1>6. CASE Verify(a)
  <2>1. MarkInv'
    BY <1>3, <1>6 DEF Verify, SharedUnchanged, memory
  <2>2. CASE ~Stable(a)
    BY <1>1, <1>6, <2>1, <2>2, GuardAnswer DEF Verify, Error
  <2>3. CASE Stable(a)
    <3>1. pc[a] = "render" /\ Goto(a, "swapout") /\ SetLoc(a, loc[a])
      BY <1>6, <2>3, GuardFacts DEF Verify
    <3>2. "swapout" \notin Installed \cup Admitted \cup {"judge", "swapin"}
      BY DEF Installed, Admitted
    <3>3. pc[a] \in Hashed
      BY <3>1 DEF Hashed
    <3>4. Vetted("swapout", loc[a]) /\ \A p \in Pages : disk[p] = loc[a].rev[p] \/ disk[p].by = Author
      BY <3>2, <3>3, GuardFacts DEF Vetted, HeldStill
    <3> QED
      BY <1>1, <2>1, <3>1, <3>2, <3>3, <3>4, GuardMove
  <2> QED
    BY <2>2, <2>3
<1>7. ASSUME NEW p \in Pages, Render(a, p)
      PROVE  GuardInv'
  <2>1. MarkInv'
    BY <1>3, <1>7 DEF Render, SharedUnchanged, memory
  <2> DEFINE l == [loc[a] EXCEPT !.out[p] = disk[p], !.todo = @ \ {p}]
  <2>2. l.rev = loc[a].rev /\ l.ack = loc[a].ack /\ l.excused = loc[a].excused
    BY GuardFacts DEF Locals
  <2>3. pc[a] = "render" /\ pc' = pc /\ SetLoc(a, l)
    BY <1>7 DEF Render
  <2> HIDE DEF l
  <2>4. Goto(a, "render")
    BY <2>3, GuardFacts DEF Goto, TypeOK
  <2>5. pc[a] \in Hashed /\ "render" \notin Installed \cup Admitted \cup {"judge", "swapin"}
    BY <2>3 DEF Hashed, Installed, Admitted
  <2>6. /\ Vetted("render", l)
        /\ \A q \in Pages : disk[q] = l.rev[q] \/ disk[q].by = Author
    BY <2>2, <2>5, GuardFacts DEF Vetted, HeldStill, News
  <2> QED
    BY <1>1, <2>1, <2>2, <2>3, <2>4, <2>5, <2>6, GuardMove
<1> QED
  BY <1>2, <1>4, <1>5, <1>6, <1>7 DEF Building
\* The second rename: an agent's page that is hashed is the one on disk, so it is
\* live from now on, and other builds are before their lock or after it.
LEMMA SwapInGuard ==
  ASSUME GInv, NEW a \in Agents, SwapIn(a)
  PROVE  GuardInv'
<1> DEFINE l == [loc[a] EXCEPT !.ack = {}, !.excused = {}, !.out = Blank]
<1>1. /\ pc[a] = "swapin" /\ public' = loc[a].out /\ Goto(a, "cleanup") /\ SetLoc(a, l)
      /\ UNCHANGED <<disk, backup, owner, pending, unguarded, failures>>
  BY DEF SwapIn, memory, counters
<1>2. l.rev = loc[a].rev
  BY GuardFacts DEF Locals
<1> HIDE DEF l
<1>3. /\ pc'[a] = "cleanup" /\ loc'[a] = l
      /\ \A b \in Agents \ {a} : pc'[b] = pc[b] /\ loc'[b] = loc[b]
  BY <1>1, GuardFacts DEF Goto, SetLoc, TypeOK
<1>4. public' = loc[a].rev /\ public' \in Trees /\ Live' = loc[a].rev
  BY <1>1, GuardFacts, NoTreeIsNoTree DEF Sound, Locals, Live
<1>5. \A p \in Pages : disk[p].by \in Agents => Live'[p] = disk[p]
  BY <1>1, <1>4, GuardFacts, NamesDiffer DEF HeldStill, Hashed
<1>6. MarkInv'
  BY <1>1, <1>5 DEF MarkInv
<1>7. ASSUME NEW b \in Agents, b # a
      PROVE  pc[b] \notin Hashed \cup {"prepare", "hash", "cleanup", "callbacks", "complete"}
  BY <1>1, <1>7, GuardFacts DEF Locked, Hashed
<1>8. ASSUME NEW b \in Agents
      PROVE  Vetted(pc[b], loc[b])'
  <2>1. CASE b = a
    BY <1>3, <2>1 DEF Vetted, Admitted, Hashed
  <2>2. CASE b # a
    <3>1. pc[b] = "judge" => \A p \in Pages : disk[p].by \in Agents => Live'[p] = disk[p]
      BY <1>5
    <3>2. pc[b] \in Admitted => News(disk, loc[b])' = {}
      BY <1>1, <1>3, <1>5, <2>2 DEF News
    <3> QED
      BY <1>1, <1>3, <1>7, <2>2, <3>1, <3>2 DEF Vetted
  <2> QED
    BY <2>1, <2>2
<1>9. ASSUME NEW b \in Agents
      PROVE  HeldStill(pc[b], loc[b])'
  <2>1. pc'[b] \notin Hashed
    BY <1>3, <1>7 DEF Hashed
  <2> QED
    BY <2>1 DEF HeldStill, Hashed
<1>10. ASSUME NEW b \in Agents
       PROVE  Current(pc[b], loc[b])'
  <2>1. CASE b = a
    BY <1>1, <1>2, <1>3, <1>4, <2>1 DEF Current
  <2>2. CASE b # a
    <3>1. pc[a] \in Hashed
      BY <1>1 DEF Hashed
    <3> QED
      BY <1>1, <1>3, <1>4, <2>2, <3>1, GuardFacts DEF Current, KeptCurrent
  <2> QED
    BY <2>1, <2>2
<1>11. KeptCurrent'
  <2>1. \A b \in Agents : pc'[b] \notin Hashed
    BY <1>3, <1>7 DEF Hashed
  <2> QED
    BY <2>1 DEF KeptCurrent
<1> QED
  BY <1>6, <1>8, <1>9, <1>10, <1>11 DEF GuardInv

\* The other steps of the swap move trees about and leave the live one what it is.
LEMMA SwappingGuard ==
  ASSUME GInv, NEW a \in Agents, Swapping(a)
  PROVE  GuardInv'
<1>0. OldTreeRetained /\ (pc[a] \in {"swapout", "swapin", "cleanup"} => pc[a] \in Locked)
  BY GuardFacts DEF BInv, Core, Locked
<1>1. UNCHANGED <<disk, owner, pending, unguarded>>
  BY DEF Swapping, SwapOut, SwapOutNothing, SwapOutFails, SwapIn, SwapInFails, Cleanup,
         SharedUnchanged, durable, memory
<1>2. ASSUME Live' = Live
      PROVE  MarkInv'
  BY <1>1, <1>2, MarksStay, GuardFacts
<1>3. ASSUME NEW l, pc[a] = "swapout", Goto(a, "swapin"), SetLoc(a, l), Live' = Live,
             public' = NoTree, failures' = failures,
             l.rev = loc[a].rev, l.ack = loc[a].ack, l.excused = loc[a].excused
      PROVE  GuardInv'
  <2>1. "swapin" \notin Installed \cup Admitted \cup {"judge"} /\ pc[a] \in Hashed
    BY <1>3 DEF Installed, Admitted, Hashed
  <2>2. /\ Vetted("swapin", l)
        /\ \A p \in Pages : disk[p] = l.rev[p] \/ disk[p].by = Author
    BY <1>3, <2>1, GuardFacts DEF Vetted, HeldStill, News
  <2> QED
    BY <1>0, <1>1, <1>2, <1>3, <2>1, <2>2, GuardMove
<1>4. CASE SwapOut(a)
  <2> DEFINE l == [loc[a] EXCEPT !.hadOld = TRUE]
  <2>1. l.rev = loc[a].rev /\ l.ack = loc[a].ack /\ l.excused = loc[a].excused
    BY GuardFacts DEF Locals
  <2>2. /\ pc[a] = "swapout" /\ Goto(a, "swapin") /\ SetLoc(a, l)
        /\ public # NoTree /\ backup' = public /\ public' = NoTree /\ failures' = failures
    BY <1>4 DEF SwapOut, counters
  <2>3. Live' = Live
    BY <2>2 DEF Live
  <2> HIDE DEF l
  <2> QED
    BY <1>3, <2>1, <2>2, <2>3
<1>5. CASE SwapOutNothing(a)
  <2>1. /\ pc[a] = "swapout" /\ Goto(a, "swapin") /\ SetLoc(a, loc[a])
        /\ public = NoTree /\ UNCHANGED <<public, backup, failures>>
    BY <1>5, GuardFacts DEF SwapOutNothing, SharedUnchanged, durable, counters
  <2>2. Live' = Live
    BY <2>1 DEF Live
  <2> QED
    BY <1>3, <2>1, <2>2
<1>6. CASE SwapOutFails(a)
  <2>1. Answer(a, "error") /\ UNCHANGED <<public, backup>> /\ failures' = failures + 1
    BY <1>6 DEF SwapOutFails, Error, Fails, durable
  <2>2. Live' = Live
    BY <2>1 DEF Live
  <2> QED
    BY <1>1, <1>2, <2>1, <2>2, GuardAnswer
<1>7. CASE SwapIn(a)
  BY <1>7, SwapInGuard
<1>8. CASE SwapInFails(a)
  <2>1. /\ pc[a] = "swapin" /\ Answer(a, "error") /\ failures' = failures + 1
        /\ \/ loc[a].hadOld /\ public' = backup /\ backup' = NoTree
           \/ UNCHANGED <<public, backup>>
    BY <1>8 DEF SwapInFails, Error, Fails
  <2>2. public = NoTree /\ (loc[a].hadOld => backup # NoTree) /\ failures' # 0
    BY <2>1, GuardFacts DEF HeldStill, Sound
  <2>3. Live' = Live
    BY <2>1, <2>2 DEF Live
  <2> QED
    BY <1>0, <1>1, <1>2, <2>1, <2>2, <2>3, GuardAnswer
<1>9. CASE Cleanup(a)
  <2>1. PICK clean \in BOOLEAN :
          SetLoc(a, [NoLocals EXCEPT !.rev = loc[a].rev, !.reload.at = "site", !.clean = clean])
    BY <1>9 DEF Cleanup
  <2> DEFINE l == [NoLocals EXCEPT !.rev = loc[a].rev, !.reload.at = "site", !.clean = clean]
  <2>2. l.rev = loc[a].rev
    BY DEF NoLocals
  <2>3. /\ pc[a] = "cleanup" /\ Goto(a, "callbacks") /\ public' = public
        /\ failures' \in {failures, failures + 1}
    BY <1>9 DEF Cleanup, Fails
  <2>4. SetLoc(a, l)
    BY <2>1
  <2> HIDE DEF l
  <2>5. Live' = Live
    BY <2>3, GuardFacts DEF Live, Sound
  <2>6. /\ "callbacks" \notin Hashed \cup Admitted \cup {"judge", "swapin"}
        /\ pc[a] \in Installed
    BY <2>3 DEF Hashed, Installed, Admitted
  <2>7. Vetted("callbacks", l)
    BY <2>6 DEF Vetted
  <2> QED
    BY <1>1, <1>2, <2>2, <2>3, <2>4, <2>5, <2>6, <2>7, GuardMove
<1> QED
  BY <1>4, <1>5, <1>6, <1>7, <1>8, <1>9 DEF Swapping

\* A reload drops the marks or leaves them.
LEMMA ReloadMarks ==
  ASSUME MarkInv, NEW r, NEW next, ReloadStep(r, next), UNCHANGED <<durable, owner>>
  PROVE  MarkInv'
<1>1. CASE Dropping
  BY <1>1, MarksDrop DEF Dropping
<1>2. CASE UNCHANGED <<pending, unguarded>>
  BY <1>2, MarksStay DEF Live, durable
<1> QED
  BY <1>1, <1>2 DEF ReloadStep

\* The callbacks, the unlock and the verification publish nothing.
LEMMA FinishingGuard ==
  ASSUME GInv, NEW a \in Agents, Finishing(a)
  PROVE  GuardInv'
<1>0. UNCHANGED <<durable, owner>> /\ failures' \in {failures, failures + 1}
  BY DEF Finishing, RunReload, TimesOut, CallbackFails, CallbacksDone, Complete, Poll, Confirm,
         SharedUnchanged, Fails, memory, counters
<1>1. Live' = Live /\ UNCHANGED <<disk, public>>
  BY <1>0 DEF Live, durable
<1>2. ASSUME UNCHANGED <<pending, unguarded>>
      PROVE  MarkInv'
  BY <1>0, <1>1, <1>2, MarksStay, GuardFacts
<1>3. \A label \in {"callbacks", "complete", "poll", "confirm"} :
        label \in Installed /\ label \notin Hashed \cup Admitted \cup {"judge"}
  BY DEF Installed, Hashed, Admitted
<1>4. CASE RunReload(a)
  <2>1. PICK next \in Nexts(loc[a].reload) :
          ReloadStep(loc[a].reload, next) /\ SetLoc(a, [loc[a] EXCEPT !.reload = next])
    BY <1>4 DEF RunReload
  <2> DEFINE l == [loc[a] EXCEPT !.reload = next]
  <2>2. l.rev = loc[a].rev
    BY GuardFacts DEF Locals
  <2>3. SetLoc(a, l)
    BY <2>1
  <2> HIDE DEF l
  <2>4. MarkInv'
    BY <1>0, <2>1, ReloadMarks, GuardFacts
  <2>5. pc[a] = "callbacks" /\ Goto(a, "callbacks")
    BY <1>4, GuardFacts DEF RunReload, Goto, TypeOK
  <2> QED
    BY <1>0, <1>3, <2>2, <2>3, <2>4, <2>5, GuardWalk
<1>5. CASE TimesOut(a) \/ CallbackFails(a)
  <2> DEFINE l == [loc[a] EXCEPT !.reload = NoReload, !.clean = FALSE]
  <2>1. l.rev = loc[a].rev
    BY GuardFacts DEF Locals
  <2>2. pc[a] = "callbacks" /\ Goto(a, "complete") /\ SetLoc(a, l) /\ UNCHANGED <<pending, unguarded>>
    BY <1>5 DEF TimesOut, CallbackFails, memory
  <2> HIDE DEF l
  <2> QED
    BY <1>0, <1>2, <1>3, <2>1, <2>2, GuardWalk
<1>6. CASE CallbacksDone(a)
  <2>1. /\ pc[a] = "callbacks" /\ Goto(a, "complete") /\ SetLoc(a, loc[a])
        /\ UNCHANGED <<pending, unguarded>>
    BY <1>6, GuardFacts DEF CallbacksDone, SharedUnchanged, memory
  <2> QED
    BY <1>0, <1>2, <1>3, <2>1, GuardWalk
<1>7. CASE Complete(a)
  <2>1. pc[a] = "complete" /\ UNCHANGED <<pending, unguarded>>
    BY <1>7 DEF Complete, memory
  <2>2. CASE Answer(a, "built")
    BY <1>0, <1>1, <1>2, <2>1, <2>2, GuardAnswer
  <2>3. ASSUME NEW clean, Goto(a, "poll"), SetLoc(a, [loc[a] EXCEPT !.clean = clean])
        PROVE  GuardInv'
    <3> DEFINE l == [loc[a] EXCEPT !.clean = clean]
    <3>1. l.rev = loc[a].rev
      BY GuardFacts DEF Locals
    <3>2. SetLoc(a, l)
      BY <2>3
    <3> HIDE DEF l
    <3> QED
      BY <1>0, <1>2, <1>3, <2>1, <2>3, <3>1, <3>2, GuardWalk
  <2> QED
    BY <1>7, <2>2, <2>3 DEF Complete
<1>8. CASE Poll(a)
  <2>1. pc[a] = "poll" /\ UNCHANGED <<pending, unguarded>>
    BY <1>8 DEF Poll, SharedUnchanged, memory
  <2>2. CASE Goto(a, "confirm") /\ UNCHANGED <<lock, loc, ans>>
    <3>1. SetLoc(a, loc[a])
      BY <2>2, GuardFacts
    <3> QED
      BY <1>0, <1>2, <1>3, <2>1, <2>2, <3>1, GuardWalk
  <2>3. CASE Answer(a, "built") \/ Error(a, "content_not_found")
    BY <1>0, <1>1, <1>2, <2>1, <2>3, GuardAnswer DEF Error
  <2> QED
    BY <1>8, <2>2, <2>3 DEF Poll
<1>9. CASE Confirm(a)
  <2>1. UNCHANGED <<pending, unguarded>>
    BY <1>9 DEF Confirm, SharedUnchanged, memory
  <2> QED
    BY <1>0, <1>1, <1>2, <1>9, <2>1, GuardAnswer DEF Confirm
<1> QED
  BY <1>4, <1>5, <1>6, <1>7, <1>8, <1>9 DEF Finishing

\* A version that is written is newer than any that was hashed.
LEMMA NewVersion ==
  ASSUME GInv, NEW p \in Pages, NEW b \in Agents, NEW who
  PROVE  [n |-> writes + 1, by |-> who] # loc[b].rev[p]
<1>1. loc[b].rev[p].n \in Nat /\ loc[b].rev[p].n <= writes /\ writes \in Nat
  BY GuardFacts, CallFacts DEF Locals, Trees, Versions, TypeOK
<1>2. [n |-> writes + 1, by |-> who].n = writes + 1
  OBVIOUS
<1> QED
  BY <1>1, <1>2

\* The author's write concerns no mark, and no call takes it for what it hashed.
LEMMA OutsideEditGuard ==
  ASSUME GInv, NEW p \in Pages, OutsideEdit(p)
  PROVE  GuardInv'
<1> DEFINE v == [n |-> writes + 1, by |-> Author]
<1>1. /\ disk' = [disk EXCEPT ![p] = v] /\ UNCHANGED <<public, backup, owner, pending, unguarded>>
      /\ UNCHANGED <<pc, loc, failures>>
  BY DEF OutsideEdit, memory
<1>2. v.by = Author /\ \A b \in Agents : v # loc[b].rev[p]
  BY NewVersion
<1> HIDE DEF v
<1>3. TypeOK /\ disk \in [Pages -> Versions] /\ MarkInv /\ KeptCurrent
  BY DEF GInv, BInv, GuardInv, TypeOK, Trees
<1>4. /\ disk'[p] = v /\ \A q \in Pages \ {p} : disk'[q] = disk[q]
      /\ Live' = Live
  BY <1>1, <1>3 DEF Live
<1>5. MarkInv'
  BY <1>1, <1>2, <1>3, <1>4, NamesDiffer DEF MarkInv
<1>6. ASSUME NEW b \in Agents
      PROVE  Vetted(pc[b], loc[b])' /\ HeldStill(pc[b], loc[b])' /\ Current(pc[b], loc[b])'
  <2>1. Vetted(pc[b], loc[b]) /\ HeldStill(pc[b], loc[b]) /\ Current(pc[b], loc[b])
    BY GuardFacts
  <2>2. Vetted(pc[b], loc[b])'
    BY <1>1, <1>2, <1>4, <2>1, NamesDiffer DEF Vetted, News
  <2>3. HeldStill(pc[b], loc[b])'
    BY <1>1, <1>2, <1>4, <2>1 DEF HeldStill
  <2>4. Current(pc[b], loc[b])'
    BY <1>1, <1>2, <1>4, <2>1 DEF Current
  <2> QED
    BY <2>2, <2>3, <2>4
<1>7. KeptCurrent'
  BY <1>1, <1>2, <1>3, <1>4 DEF KeptCurrent
<1> QED
  BY <1>5, <1>6, <1>7 DEF GuardInv

\* While the lock is free nothing is hashed or about to be.
LEMMA FreeLock ==
  ASSUME GInv, lock = Nobody, NEW a \in Agents
  PROVE  pc[a] \notin Hashed \cup {"prepare", "hash"}
  BY GuardFacts, NamesDiffer DEF Locked, Hashed

\* An agent's edit is marked and attributed, or known not to be; calls past their
\* look are excused for it.
LEMMA EditGuard ==
  ASSUME GInv, NEW a \in Agents, NEW p \in Pages, Edit(a, p)
  PROVE  GuardInv'
<1> DEFINE v == [n |-> writes + 1, by |-> a]
<1>1. /\ lock = Nobody /\ disk' = [disk EXCEPT ![p] = v] /\ pending' = pending \cup {p}
      /\ \/ owner' = [owner EXCEPT ![p] = a] /\ unguarded' = unguarded \ {p} /\ failures' = failures
         \/ failures' = failures + 1 /\ unguarded' = unguarded \cup {p} /\ owner' = owner
      /\ ExcuseSince(p) /\ UNCHANGED <<public, backup, pc>>
  BY DEF Edit, Fails
<1>2. v.by = a /\ \A b \in Agents : v # loc[b].rev[p]
  BY NewVersion
<1> HIDE DEF v
<1>3. /\ disk \in [Pages -> Versions] /\ MarkInv /\ owner \in [Pages -> Agents \cup {Nobody}]
      /\ failures \in Nat
  BY DEF GInv, BInv, GuardInv, TypeOK, Trees
<1>4. /\ disk'[p] = v /\ \A q \in Pages \ {p} : disk'[q] = disk[q]
      /\ \A q \in Pages \ {p} : owner'[q] = owner[q]
      /\ Live' = Live /\ (failures' = 0 => failures = 0)
  BY <1>1, <1>3 DEF Live
<1>5. MarkInv'
  <2>1. p \in unguarded' \/ (p \in pending' /\ owner'[p] = disk'[p].by)
    BY <1>1, <1>2, <1>3, <1>4
  <2>2. \A q \in Pages \ {p} : (q \in pending => q \in pending') /\ (q \in unguarded => q \in unguarded')
    BY <1>1
  <2> QED
    BY <1>3, <1>4, <2>1, <2>2 DEF MarkInv
<1>6. \A b \in Agents : pc[b] \notin Hashed \cup {"prepare", "hash"}
  BY <1>1, FreeLock
<1>7. ASSUME NEW b \in Agents
      PROVE  /\ loc'[b].rev = loc[b].rev /\ loc'[b].ack = loc[b].ack /\ loc'[b].saw = loc[b].saw
             /\ pc[b] \in {"judge", "lock"} => loc'[b].excused = loc[b].excused \cup {p}
             /\ pc[b] \notin {"judge", "lock"} => loc'[b].excused = loc[b].excused
  <2>1. loc'[b] = IF Looked(b) THEN [loc[b] EXCEPT !.excused = @ \cup {p}] ELSE loc[b]
    BY <1>1 DEF ExcuseSince
  <2> QED
    BY <2>1, GuardFacts DEF Looked, Locals
<1>8. ASSUME NEW b \in Agents
      PROVE  Vetted(pc[b], loc[b])'
  <2>1. CASE pc[b] \notin {"judge", "lock"}
    <3>1. pc'[b] \notin Hashed \cup Admitted \cup {"judge"}
      BY <1>1, <1>6, <2>1 DEF Admitted
    <3> QED
      BY <3>1 DEF Vetted
  <2>2. CASE pc[b] = "judge"
    <3>1. pc'[b] = "judge" /\ "judge" \notin Hashed \cup Admitted
      BY <1>1, <2>2 DEF Hashed, Admitted
    <3>2. \A q \in Pages : disk'[q].by \in Agents =>
            \/ q \in loc'[b].excused \/ Live'[q] = disk'[q]
            \/ q \in loc'[b].saw /\ owner'[q] = disk'[q].by
      BY <1>4, <1>7, <2>2, GuardFacts DEF Vetted
    <3> QED
      BY <3>1, <3>2 DEF Vetted
  <2>3. CASE pc[b] = "lock"
    <3>1. pc'[b] = "lock" /\ "lock" \notin Hashed
      BY <1>1, <2>3 DEF Hashed
    <3>2. News(disk, loc[b]) = {}
      BY <2>3, GuardFacts DEF Vetted, Admitted
    <3>3. News(disk, loc[b])' = {}
      BY <1>4, <1>7, <2>3, <3>2 DEF News
    <3> QED
      BY <3>1, <3>3 DEF Vetted
  <2> QED
    BY <2>1, <2>2, <2>3
<1>9. ASSUME NEW b \in Agents
      PROVE  HeldStill(pc[b], loc[b])' /\ Current(pc[b], loc[b])'
  <2>1. pc'[b] \notin Hashed /\ pc'[b] # "swapin"
    BY <1>1, <1>6 DEF Hashed
  <2>2. Current(pc[b], loc[b])'
    BY <1>1, <1>2, <1>4, <1>7, GuardFacts DEF Current
  <2> QED
    BY <2>1, <2>2 DEF HeldStill
<1>10. KeptCurrent'
  BY <1>1, <1>6 DEF KeptCurrent
<1> QED
  BY <1>5, <1>8, <1>9, <1>10 DEF GuardInv

\* A deletion takes the page out of both trees, or is a failure.
LEMMA DeleteGuard ==
  ASSUME GInv, NEW a \in Agents, NEW p \in Pages, Delete(a, p)
  PROVE  GuardInv'
<1>1. /\ lock = Nobody /\ disk' = [disk EXCEPT ![p] = Absent] /\ pending' = pending \ {p}
      /\ owner' = [owner EXCEPT ![p] = a]
      /\ \/ /\ public' = (IF public = NoTree THEN NoTree ELSE [public EXCEPT ![p] = Absent])
            /\ failures' = failures
         \/ failures' = failures + 1 /\ public' = public
      /\ UNCHANGED <<backup, pc, loc, unguarded>>
  BY DEF Delete, Fails
<1>2. /\ disk \in [Pages -> Versions] /\ MarkInv /\ owner \in [Pages -> Agents \cup {Nobody}]
      /\ failures \in Nat /\ public \in Trees \cup {NoTree}
  BY DEF GInv, BInv, GuardInv, TypeOK, Trees
<1>3. /\ disk'[p] = Absent /\ \A q \in Pages \ {p} : disk'[q] = disk[q] /\ owner'[q] = owner[q]
      /\ Absent.by \notin Agents
  BY <1>1, <1>2, NamesDiffer DEF Absent
<1>4. public # NoTree => public \in Trees /\ [public EXCEPT ![p] = Absent] # NoTree
  BY <1>2, BlankTypes, NoTreeIsNoTree DEF Trees
<1>5. (public' = NoTree <=> public = NoTree) /\ \A q \in Pages \ {p} : Live'[q] = Live[q]
  BY <1>1, <1>4 DEF Live, Trees
<1>6. failures' = 0 => failures = 0 /\ (public # NoTree => public'[p] = Absent)
  BY <1>1, <1>2, <1>4 DEF Trees
<1>7. MarkInv'
  BY <1>1, <1>2, <1>3, <1>5 DEF MarkInv
<1>8. \A b \in Agents : pc[b] \notin Hashed \cup {"prepare", "hash"}
  BY <1>1, FreeLock
<1>9. ASSUME NEW b \in Agents
      PROVE  Vetted(pc[b], loc[b])' /\ HeldStill(pc[b], loc[b])' /\ Current(pc[b], loc[b])'
  <2>1. pc'[b] \notin Hashed /\ pc'[b] # "swapin"
    BY <1>1, <1>8 DEF Hashed
  <2>2. Vetted(pc[b], loc[b])'
    <3>1. Vetted(pc[b], loc[b])
      BY GuardFacts
    <3>2. pc'[b] \in Admitted => News(disk, loc[b])' = {}
      BY <1>1, <1>3, <1>5, <3>1 DEF Vetted, News
    <3>3. pc'[b] = "judge" => \A q \in Pages : disk'[q].by \in Agents =>
            \/ q \in loc'[b].excused \/ Live'[q] = disk'[q]
            \/ q \in loc'[b].saw /\ owner'[q] = disk'[q].by
      BY <1>1, <1>3, <1>5, <3>1 DEF Vetted
    <3> QED
      BY <2>1, <3>2, <3>3 DEF Vetted
  <2>3. Current(pc[b], loc[b])'
    <3>1. Current(pc[b], loc[b])
      BY GuardFacts
    <3>2. \A q \in Pages \ {p} : public # NoTree => public'[q] = public[q]
      BY <1>1, <1>4 DEF Trees
    <3> QED
      BY <1>1, <1>3, <1>5, <1>6, <3>1, <3>2 DEF Current
  <2> QED
    BY <2>1, <2>2, <2>3 DEF HeldStill
<1>10. KeptCurrent'
  BY <1>1, <1>8 DEF KeptCurrent
<1> QED
  BY <1>7, <1>9, <1>10 DEF GuardInv

\* Late reloads drop marks; a crash ends all calls and drops the marks too.
LEMMA ProcessGuard ==
  ASSUME GInv, RunLate \/ Crash \/ Restart \/ Rest \/ UNCHANGED vars
  PROVE  GuardInv'
<1>0. MarkInv /\ KeptCurrent /\ GuardInv /\ UNCHANGED <<durable, failures>>
  BY DEF GInv, GuardInv, RunLate, Crash, Restart, Rest, vars, counters
<1>1. Live' = Live /\ UNCHANGED <<disk, public, backup>>
  BY <1>0 DEF Live, durable
<1>2. CASE ~Crash
  <2>1. UNCHANGED <<pc, loc, owner>>
    BY <1>2 DEF RunLate, Restart, Rest, vars, memory
  <2>2. MarkInv'
    <3>1. CASE UNCHANGED <<pending, unguarded>>
      BY <1>0, <1>1, <2>1, <3>1, MarksStay
    <3>2. ASSUME NEW r \in late, NEW next \in Nexts(r), ReloadStep(r, next)
          PROVE  MarkInv'
      BY <1>0, <2>1, <3>2, ReloadMarks
    <3> QED
      BY <1>2, <3>1, <3>2 DEF RunLate, Restart, Rest, vars, memory
  <2>3. ASSUME NEW b \in Agents
        PROVE  Vetted(pc[b], loc[b])' /\ HeldStill(pc[b], loc[b])' /\ Current(pc[b], loc[b])'
    BY <1>0, <1>1, <2>1 DEF GuardInv, Vetted, News, HeldStill, Current
  <2>4. KeptCurrent'
    BY <1>0, <1>1, <2>1 DEF KeptCurrent
  <2> QED
    BY <2>2, <2>3, <2>4 DEF GuardInv
<1>3. CASE Crash
  <2>1. /\ \A b \in Agents : pc'[b] = "idle"
        /\ unguarded' = unguarded \cup Unpublished
    BY <1>3 DEF Crash
  <2>2. MarkInv'
    BY <1>0, <2>1, MarksDrop
  <2>3. "idle" \notin Hashed \cup Installed \cup Admitted \cup {"judge", "swapin"}
    BY DEF Hashed, Installed, Admitted
  <2> QED
    BY <2>1, <2>2, <2>3 DEF GuardInv, Vetted, HeldStill, Current, KeptCurrent
<1> QED
  BY <1>2, <1>3

\* Every step preserves the invariant.
LEMMA StepGuard == GInv /\ [Next]_vars => GInv'
<1> SUFFICES ASSUME GInv, [Next]_vars
             PROVE  GuardInv'
  BY StepInvariant DEF GInv
<1>1. ASSUME NEW a \in Agents, Running(a)
      PROVE  GuardInv'
  BY <1>1, GuardingGuard, BuildingGuard, SwappingGuard, FinishingGuard DEF Running
<1> QED
  BY <1>1, GuardingGuard, EditGuard, DeleteGuard, OutsideEditGuard, ProcessGuard DEF Next

\* The pages there are at first are the author's.
LEMMA InitGuard == Init => GInv
<1> SUFFICES ASSUME Init
             PROVE  GuardInv
  BY InitInvariant DEF GInv
<1>1. /\ \A p \in Pages : disk[p].by = Author
      /\ \A a \in Agents : pc[a] = "idle"
  BY DEF Init, Absent
<1>2. "idle" \notin Hashed \cup Installed \cup Admitted \cup {"judge", "swapin"}
  BY DEF Hashed, Installed, Admitted
<1> QED
  BY <1>1, <1>2, NamesDiffer DEF GuardInv, MarkInv, Vetted, HeldStill, Current, KeptCurrent

---------------------------------------------------------------------------
\* In every reachable state a call has been let through for what it is about to
\* publish, and what it has published is live until somebody replaces it.
THEOREM GuardInvariant == Spec => []GInv
  BY InitGuard, StepGuard, PTL DEF Spec

\* A step of a call moves and answers no other.
LEMMA StepOfOne ==
  ASSUME TypeOK, NEW b \in Agents, Request(b) \/ Running(b), NEW a \in Agents \ {b}
  PROVE  pc'[a] = pc[a] /\ ans'[a] = ans[a]
<1>1. ASSUME NEW text, Answer(b, text)
      PROVE  pc'[a] = pc[a] /\ ans'[a] = ans[a]
  BY <1>1 DEF Answer, Goto, TypeOK
<1>2. ASSUME NEW label, Goto(b, label)
      PROVE  pc'[a] = pc[a]
  BY <1>2 DEF Goto, TypeOK
<1>3. CASE Request(b)
  BY <1>2, <1>3 DEF Request, TypeOK
<1>4. CASE Guarding(b)
  BY <1>1, <1>2, <1>4 DEF Guarding, Look, Judge, TakeLock, Error
<1>5. CASE Building(b)
  BY <1>1, <1>2, <1>5 DEF Building, Prepare, Hash, BuildFails, Verify, Render, Error
<1>6. CASE Swapping(b)
  BY <1>1, <1>2, <1>6
  DEF Swapping, SwapOut, SwapOutNothing, SwapOutFails, SwapIn, SwapInFails, Cleanup, Error
<1>7. CASE Finishing(b)
  BY <1>1, <1>2, <1>7
  DEF Finishing, RunReload, TimesOut, CallbackFails, CallbacksDone, Complete, Poll, Confirm, Error
<1> QED
  BY <1>3, <1>4, <1>5, <1>6, <1>7 DEF Running

\* Only the second rename leads a call from "swapin" to "cleanup".
LEMMA InstallsBySwapIn ==
  ASSUME GInv, [Next]_vars, NEW a \in Agents, pc[a] = "swapin", pc'[a] = "cleanup"
  PROVE  SwapIn(a)
<1>1. TypeOK /\ pc' # pc
  BY DEF GInv, BInv, TypeOK
<1>2. PICK b \in Agents : Request(b) \/ Running(b)
  <2>1. ~Crash
    BY DEF Crash
  <2> QED
    BY <1>1, <2>1 DEF Next, Edit, Delete, OutsideEdit, RunLate, Restart, Rest, vars
<1>3. b = a
  BY <1>1, <1>2, StepOfOne
<1>4. SwapIn(a) \/ SwapInFails(a)
  BY <1>2, <1>3
  DEF Request, Running, Guarding, Look, Judge, TakeLock, Building, Prepare, Hash, BuildFails,
      Verify, Render, Swapping, SwapOut, SwapOutNothing, SwapOutFails, Cleanup, Finishing,
      RunReload, TimesOut, CallbackFails, CallbacksDone, Complete, Poll, Confirm
<1>5. SwapInFails(a) => pc'[a] = "idle"
  BY <1>1 DEF SwapInFails, Error, Answer, Goto, TypeOK
<1> QED
  BY <1>4, <1>5

\* Only the comparison at the end of publish_changes answers "published".
LEMMA PublishedByConfirm ==
  ASSUME GInv, [Next]_vars, NEW a \in Agents, ans'[a] = "published", ans[a] # "published"
  PROVE  pc[a] = "confirm" /\ disk = loc[a].rev
<1>1. TypeOK /\ ans' # ans
  BY DEF GInv, BInv, TypeOK
<1>2. PICK b \in Agents : Request(b) \/ Running(b)
  <2>1. ~Crash
    BY DEF Crash
  <2> QED
    BY <1>1, <2>1 DEF Next, Edit, Delete, OutsideEdit, RunLate, Restart, Rest, vars
<1>3. b = a
  BY <1>1, <1>2, StepOfOne
<1>4. ASSUME NEW text, Answer(a, text)
      PROVE  text = "published"
  BY <1>1, <1>4 DEF Answer, TypeOK
<1>5. ~Request(a)
  BY <1>1 DEF Request, TypeOK
<1>6. ~Guarding(a)
  BY <1>1, <1>4 DEF Guarding, Look, Judge, TakeLock, Error
<1>7. ~Building(a)
  BY <1>1, <1>4 DEF Building, Prepare, Hash, BuildFails, Verify, Render, Error
<1>8. ~Swapping(a)
  BY <1>1, <1>4
  DEF Swapping, SwapOut, SwapOutNothing, SwapOutFails, SwapIn, SwapInFails, Cleanup, Error
<1>9. Confirm(a)
  BY <1>1, <1>2, <1>3, <1>4, <1>5, <1>6, <1>7, <1>8
  DEF Running, Finishing, RunReload, TimesOut, CallbackFails, CallbacksDone, Complete, Poll, Error
<1> QED
  BY <1>4, <1>9 DEF Confirm

\* build_site publishes a page of a change set its caller did not acknowledge only
\* if it was edited after the guard looked, or had lost its mark or owner by then.
THEOREM GuardedBuilds == Spec => GuardedPublication
<1>1. GInv /\ [Next]_vars =>
        [\A a \in Agents : pc[a] = "swapin" /\ pc'[a] = "cleanup" =>
           \A p \in Pages :
             public'[p].by \in Agents \ loc[a].ack /\ (backup # NoTree => public'[p] # backup[p])
               => p \in loc[a].excused]_vars
  <2> SUFFICES ASSUME GInv, [Next]_vars, NEW a \in Agents, pc[a] = "swapin", pc'[a] = "cleanup",
                      NEW p \in Pages, public'[p].by \in Agents \ loc[a].ack,
                      backup # NoTree => public'[p] # backup[p]
               PROVE  p \in loc[a].excused
    OBVIOUS
  <2>1. public' = loc[a].rev
    BY InstallsBySwapIn, GuardFacts DEF SwapIn, Sound
  <2>2. Live = backup /\ backup # NoTree
    BY GuardFacts DEF HeldStill, Live, BInv, Core, OldTreeRetained
  <2>3. News(loc[a].rev, loc[a]) = {}
    BY GuardFacts DEF Vetted, Hashed
  <2> QED
    BY <2>1, <2>2, <2>3 DEF News
<1> QED
  BY <1>1, GuardInvariant, PTL DEF Spec, GuardedPublication

\* publish_changes answers "published" only while the public tree, if there is one,
\* is the source, unless a write has failed.
THEOREM PublishedIsLive == Spec => PublishedMeansLive
<1>1. GInv /\ [Next]_vars =>
        [\A a \in Agents : ans'[a] = "published" /\ ans[a] # "published" /\ failures = 0 =>
           public \in {NoTree, disk}]_vars
  <2> SUFFICES ASSUME GInv, [Next]_vars, NEW a \in Agents, ans'[a] = "published",
                      ans[a] # "published", failures = 0, public # NoTree
               PROVE  public = disk
    OBVIOUS
  <2>1. pc[a] \in Installed /\ disk = loc[a].rev
    BY PublishedByConfirm DEF Installed
  <2>2. \A p \in Pages : public[p] = disk[p]
    BY <2>1, GuardFacts DEF Current
  <2>3. public \in [Pages -> Versions] /\ disk \in [Pages -> Versions]
    BY GuardFacts DEF TypeOK, Trees
  <2> QED
    BY <2>2, <2>3
<1> QED
  BY <1>1, GuardInvariant, PTL DEF Spec, PublishedMeansLive
=============================================================================

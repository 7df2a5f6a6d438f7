----------------------------- MODULE AdminProofs -----------------------------
(***************************************************************************)
(* Three stores the server keeps beside the content: the preview leases,   *)
(* the Hugo binary that is run, and the content plans with their snapshots.*)
(*                                                                         *)
(* The three properties of the preview store, for any number of previews,  *)
(* callers, browsers, restarts and failing statements.  An entry, its row  *)
(* and its directory are made and removed one after the other, and between *)
(* the steps only the call or the removal that has the id in its hands     *)
(* accounts for what is out of step: the invariant says which of them does.*)
(***************************************************************************)
EXTENDS PreviewLeases, HugoUpgrade, ContentPlans, FiniteSetTheorems, TLAPS

(* A call before it has drawn an id; while Hugo fills the directory and    *)
(* the row is written; while the public ingress is probed.                 *)
Undrawn == {"idle", "swept", "admitted"}
Making == {"building", "rowed"}
Probes == {"verifying", "probing", "probed"}

TypeOK ==
    /\ entries \in [Previews -> Leases \cup {None}]
    /\ rows \in [Previews -> Owners \cup {None}]
    /\ dirs \subseteq Previews /\ removals \subseteq Previews /\ expired \subseteq Previews
    /\ calls \in [Calls -> [pc : Undrawn \cup Making \cup Probes \cup {"ready"},
                            p : Previews \cup {None}]]
    /\ visits \in [Visitors -> Previews \cup {None}]
    /\ drawn \subseteq Previews /\ overtaken \subseteq Previews
    /\ answered \subseteq Previews /\ fetched \subseteq Previews
    /\ faults \in Nat /\ restarts \in Nat
    /\ IsFiniteSet(drawn)

(* An id is in one call's hands, and not answered while it is.             *)
HandInv ==
    /\ \A c \in Calls : calls[c].pc \in Undrawn <=> calls[c].p = None
    /\ \A c \in Calls : calls[c].p # None => calls[c].p \in drawn \ answered
    /\ \A c, d \in Calls : c # d /\ calls[c].p = calls[d].p => calls[c].p = None

(* What a call has in its hands before there is an entry.                  *)
MakingInv ==
    \A c \in Calls : calls[c].pc \in Making =>
        LET p == calls[c].p
        IN  /\ p \in dirs \ removals /\ entries[p] = None
            /\ calls[c].pc = "building" => rows[p] = None /\ p \notin overtaken
            /\ calls[c].pc = "rowed" /\ p \notin overtaken => rows[p] = Owner[c]

(* A row has an entry, or a call is about to make it.                      *)
RowsInv ==
    /\ \A p \in Listed : p \notin overtaken => rows[p] = entries[p].owner
    /\ \A p \in overtaken : rows[p] = None
    /\ \A p \in Previews : rows[p] # None =>
         p \in Listed \/ \E c \in Calls : calls[c].pc = "rowed" /\ calls[c].p = p

(* A directory has an entry, or a call is filling it, or one is about to   *)
(* remove it.                                                              *)
FilesInv ==
    /\ Listed \subseteq dirs \ removals
    /\ dirs \subseteq Listed \cup removals
                 \cup {p \in Previews : \E c \in Calls : calls[c].pc \in Making /\ calls[c].p = p}
    /\ dirs \cup removals \cup overtaken \cup answered \subseteq drawn

(* The mark that a session was used is a browser's once the entry URL is   *)
(* out; until then it is the probe's, and gone when the probe is.          *)
LinkInv ==
    /\ fetched \subseteq answered
    /\ \A v \in Visitors : visits[v] # None =>
         visits[v] \in answered /\ (visits[v] \in Listed => entries[visits[v]].session)
    /\ \A p \in Listed \cap answered : entries[p].activated => p \in fetched
    /\ \A c \in Calls : calls[c].pc = "ready" /\ calls[c].p \in Listed =>
         ~entries[calls[c].p].activated
    /\ \A p \in Listed \cap fetched :
         entries[p].recovered \/ (entries[p].session /\ entries[p].activated)

(* The previews that count against the cap of owner o, and the calls that  *)
(* were let through and may add one each.                                  *)
Counted(o) == OwnedBy(o) \ expired
Of(o) == {c \in Calls : Owner[c] = o}
Coming(o) == {c \in Of(o) : calls[c].pc \in Making \cup {"admitted"}}

CapInv ==
    \A o \in Owners :
        Cardinality(Counted(o)) + Cardinality(Coming(o)) < MaxPerCaller + Cardinality(Of(o))

IInv == TypeOK /\ HandInv /\ MakingInv /\ RowsInv /\ FilesInv /\ LinkInv /\ CapInv

-----------------------------------------------------------------------------
(* At the start there is nothing.                                          *)
LEMMA InitIInv == Init => IInv
<1> SUFFICES ASSUME Init PROVE IInv
  OBVIOUS
<1> USE PreviewAssumption DEF PreviewAssumption
<1>1. TypeOK
  BY FS_EmptySet DEF Init, TypeOK, Idle, Undrawn
<1>2. Listed = {} BY DEF Init, Listed
<1>3. HandInv /\ MakingInv BY DEF Init, HandInv, MakingInv, Idle, Undrawn, Making
<1>4. RowsInv /\ FilesInv /\ LinkInv BY <1>2 DEF Init, RowsInv, FilesInv, LinkInv
<1>5. CapInv
  <2> SUFFICES ASSUME NEW o \in Owners
               PROVE Cardinality(Counted(o)) + Cardinality(Coming(o))
                       < MaxPerCaller + Cardinality(Of(o))
    BY DEF CapInv
  <2>1. Counted(o) = {} BY <1>2 DEF Counted, OwnedBy
  <2>2. Coming(o) = {} BY DEF Init, Coming, Of, Idle, Making
  <2>3. IsFiniteSet(Of(o)) BY FS_Subset DEF Of
  <2>4. QED BY <2>1, <2>2, <2>3, FS_EmptySet, FS_CardinalityType
<1>6. QED BY <1>1, <1>3, <1>4, <1>5 DEF IInv

-----------------------------------------------------------------------------
(* The previews and the calls that count are finitely many.                *)
LEMMA FiniteCounts ==
  ASSUME TypeOK, FilesInv, NEW o \in Owners
  PROVE  /\ IsFiniteSet(Counted(o)) /\ Cardinality(Counted(o)) \in Nat
         /\ IsFiniteSet(Of(o)) /\ Cardinality(Of(o)) \in Nat
         /\ IsFiniteSet(Coming(o)) /\ Cardinality(Coming(o)) \in Nat
<1>1. Counted(o) \in SUBSET drawn BY DEF FilesInv, Counted, OwnedBy
<1>2. IsFiniteSet(Counted(o)) BY <1>1, FS_Subset DEF TypeOK
<1>3. Of(o) \in SUBSET Calls BY DEF Of
<1>4. IsFiniteSet(Of(o)) BY <1>3, PreviewAssumption, FS_Subset DEF PreviewAssumption
<1>5. Coming(o) \in SUBSET Of(o) BY DEF Coming
<1>6. IsFiniteSet(Coming(o)) BY <1>4, <1>5, FS_Subset
<1>7. QED BY <1>2, <1>4, <1>6, FS_CardinalityType

(* A step that counts nothing more and lets nobody through.                *)
LEMMA CapShrinks ==
  ASSUME TypeOK, FilesInv, CapInv,
         \A o \in Owners : Counted(o)' \subseteq Counted(o) /\ Coming(o)' \subseteq Coming(o)
  PROVE  CapInv'
<1> SUFFICES ASSUME NEW o \in Owners
             PROVE (Cardinality(Counted(o)) + Cardinality(Coming(o))
                     < MaxPerCaller + Cardinality(Of(o)))'
  BY DEF CapInv
<1>1. IsFiniteSet(Counted(o)) /\ IsFiniteSet(Coming(o)) BY FiniteCounts
<1>2. Cardinality(Counted(o)') <= Cardinality(Counted(o)) /\ Cardinality(Counted(o)') \in Nat
  BY <1>1, FS_Subset, FS_CardinalityType
<1>3. Cardinality(Coming(o)') <= Cardinality(Coming(o)) /\ Cardinality(Coming(o)') \in Nat
  BY <1>1, FS_Subset, FS_CardinalityType
<1>4. Cardinality(Counted(o)) + Cardinality(Coming(o)) < MaxPerCaller + Cardinality(Of(o))
  BY DEF CapInv
<1>5. Cardinality(Counted(o)) \in Nat /\ Cardinality(Coming(o)) \in Nat
      /\ Cardinality(Of(o)) \in Nat /\ MaxPerCaller \in Nat
  BY FiniteCounts, PreviewAssumption DEF PreviewAssumption
<1>6. Of(o)' = Of(o) BY DEF Of
<1>7. QED BY <1>2, <1>3, <1>4, <1>5, <1>6

(* A step in which some entries go, with their rows, and some calls that   *)
(* are not making an entry end or begin again.                             *)
Yields(c) ==
    \/ calls'[c] = calls[c]
    \/ calls[c].pc \notin Making /\ calls'[c].pc \in {"idle", "swept"} /\ calls'[c].p = None

LEMMA RemovingKeeps ==
  ASSUME IInv, NEW gone \in SUBSET Listed, Drop(gone),
         calls' \in [Calls -> [pc : Undrawn \cup Making \cup Probes \cup {"ready"},
                               p : Previews \cup {None}]],
         \A c \in Calls : Yields(c), faults' \in Nat,
         UNCHANGED <<browser, drawn, answered, overtaken, restarts>>
  PROVE  IInv'
<1> USE DEF IInv, browser
<1>1. TypeOK'
  <2>1. entries' \in [Previews -> Leases \cup {None}] BY DEF TypeOK, Drop, Without
  <2>2. rows' \in [Previews -> Owners \cup {None}] BY DEF TypeOK, Drop, Without
  <2>3. removals' \subseteq Previews /\ dirs' \subseteq Previews /\ expired' \subseteq Previews
    BY DEF TypeOK, Drop, Listed
  <2>4. QED BY <2>1, <2>2, <2>3 DEF TypeOK
<1>2. Listed' = Listed \ gone /\ \A p \in Listed' : entries'[p] = entries[p] /\ rows'[p] = rows[p]
  BY DEF TypeOK, Drop, Without, Listed
<1>3. \A p \in Previews : rows'[p] # None => p \notin gone /\ rows'[p] = rows[p]
  BY DEF Drop, Without, TypeOK
<1>4. HandInv' BY DEF HandInv, Yields, TypeOK, Undrawn, Making
<1>5. ASSUME NEW c \in Calls, calls'[c].pc \in Making
      PROVE calls'[c] = calls[c] /\ calls[c].p \notin gone /\ calls[c].p \in Previews
  BY <1>5 DEF Yields, MakingInv, Making, Listed, TypeOK, HandInv, Undrawn
<1>6. MakingInv'
  BY <1>5 DEF MakingInv, Drop, Without, TypeOK
<1>7. RowsInv'
  <2>1. \A p \in Listed' : p \notin overtaken' => rows'[p] = entries'[p].owner
    BY <1>2 DEF RowsInv
  <2>2. \A p \in overtaken' : rows'[p] = None BY <1>3 DEF RowsInv, TypeOK
  <2>3. ASSUME NEW p \in Previews, rows'[p] # None, p \notin Listed'
        PROVE \E c \in Calls : calls'[c].pc = "rowed" /\ calls'[c].p = p
    <3>1. PICK c \in Calls : calls[c].pc = "rowed" /\ calls[c].p = p
      BY <1>2, <1>3, <2>3 DEF RowsInv
    <3>2. calls'[c] = calls[c] BY <3>1 DEF Yields, Making
    <3>3. QED BY <3>1, <3>2
  <2>4. QED BY <2>1, <2>2, <2>3 DEF RowsInv
<1>8. FilesInv'
  <2>1. Listed' \subseteq dirs' \ removals' BY <1>2 DEF FilesInv, Drop
  <2>2. ASSUME NEW p \in dirs', p \notin Listed', p \notin removals'
        PROVE p \in Previews /\ \E c \in Calls : calls'[c].pc \in Making /\ calls'[c].p = p
    <3>1. PICK c \in Calls : calls[c].pc \in Making /\ calls[c].p = p
      BY <1>2, <2>2 DEF FilesInv, Drop
    <3>2. calls'[c] = calls[c] BY <3>1 DEF Yields
    <3>3. QED BY <3>1, <3>2, <2>2 DEF Drop, TypeOK
  <2>3. (dirs \cup removals \cup overtaken \cup answered)' \subseteq drawn'
    BY DEF FilesInv, Drop
  <2>4. QED BY <2>1, <2>2, <2>3 DEF FilesInv
<1>9. LinkInv' BY <1>2 DEF LinkInv, Yields, Undrawn
<1>10. CapInv'
  <2>1. ASSUME NEW o \in Owners
        PROVE Counted(o)' \subseteq Counted(o) /\ Coming(o)' \subseteq Coming(o)
    BY <1>2 DEF Counted, OwnedBy, Coming, Of, Yields, Making, Drop
  <2>2. QED BY <2>1, CapShrinks
<1>11. QED BY <1>1, <1>4, <1>6, <1>7, <1>8, <1>9, <1>10

(* A step in which nothing goes is one of those.                           *)
LEMMA NothingGoes ==
  ASSUME TypeOK, UNCHANGED shared
  PROVE  {} \in SUBSET Listed /\ Drop({})
<1>1. Without(rows, {}) = rows /\ Without(entries, {}) = entries BY DEF TypeOK, Without
<1>2. QED BY <1>1 DEF shared, Drop

(* A step that marks entries and moves probes along.                       *)
Probed(c) ==
    \/ Yields(c)
    \/ /\ calls[c].pc \in Probes /\ calls'[c].pc \in Probes \cup {"ready"}
       /\ calls'[c].p = calls[c].p

Marks ==
    /\ entries' \in [Previews -> Leases \cup {None}]
    /\ \A p \in Previews : /\ entries'[p] = None <=> entries[p] = None
                           /\ entries[p] # None => entries'[p].owner = entries[p].owner
    /\ calls' \in [Calls -> [pc : Undrawn \cup Making \cup Probes \cup {"ready"},
                             p : Previews \cup {None}]]
    /\ \A c \in Calls : Probed(c)
    /\ UNCHANGED <<rows, dirs, removals, expired, drawn, answered, overtaken>>

LEMMA MarksKeep ==
  ASSUME IInv, Marks
  PROVE  HandInv' /\ MakingInv' /\ RowsInv' /\ FilesInv' /\ CapInv'
<1> USE DEF IInv, Marks
<1>1. Listed' = Listed BY DEF Listed
<1>2. ASSUME NEW c \in Calls, calls'[c].pc \in Making \/ calls[c].pc \in Making
      PROVE calls'[c] = calls[c]
  BY <1>2 DEF Probed, Yields, Making, Probes
<1>3. HandInv' BY DEF HandInv, Probed, Yields, TypeOK, Undrawn, Making, Probes
<1>4. MakingInv'
  <2> SUFFICES ASSUME NEW c \in Calls, calls'[c].pc \in Making
               PROVE LET p == calls'[c].p
                     IN  /\ p \in dirs' \ removals' /\ entries'[p] = None
                         /\ calls'[c].pc = "building" => rows'[p] = None /\ p \notin overtaken'
                         /\ calls'[c].pc = "rowed" /\ p \notin overtaken' => rows'[p] = Owner[c]
    BY DEF MakingInv
  <2>1. calls'[c] = calls[c] BY <1>2
  <2>2. calls[c].p \in Previews BY <2>1 DEF MakingInv, TypeOK
  <2>3. QED BY <2>1, <2>2 DEF MakingInv
<1>5. RowsInv'
  <2>1. \A p \in Listed' : p \notin overtaken' => rows'[p] = entries'[p].owner
    BY <1>1 DEF RowsInv, Listed
  <2>2. ASSUME NEW p \in Previews, rows'[p] # None, p \notin Listed'
        PROVE \E c \in Calls : calls'[c].pc = "rowed" /\ calls'[c].p = p
    <3>1. PICK c \in Calls : calls[c].pc = "rowed" /\ calls[c].p = p
      BY <1>1, <2>2 DEF RowsInv
    <3>2. calls'[c] = calls[c] BY <1>2, <3>1 DEF Making
    <3>3. QED BY <3>1, <3>2
  <2>3. QED BY <2>1, <2>2 DEF RowsInv
<1>6. FilesInv'
  <2>1. \A c \in Calls : calls[c].pc \in Making => calls'[c] = calls[c] BY <1>2
  <2>2. QED BY <1>1, <2>1 DEF FilesInv
<1>7. CapInv'
  <2>1. \A o \in Owners : Counted(o)' \subseteq Counted(o)
    BY <1>1 DEF Counted, OwnedBy, Listed
  <2>2. \A o \in Owners : Coming(o)' \subseteq Coming(o)
    BY DEF Coming, Of, Probed, Yields, Making, Probes
  <2>3. QED BY <2>1, <2>2, CapShrinks
<1>8. QED BY <1>3, <1>4, <1>5, <1>6, <1>7

(* One field of one entry is set, or several.                              *)
LEMMA OneIsMarked ==
  ASSUME TypeOK, NEW p \in Listed, NEW e \in Leases, e.owner = entries[p].owner,
         entries' = [entries EXCEPT ![p] = e]
  PROVE  /\ entries' \in [Previews -> Leases \cup {None}]
         /\ \A q \in Previews : /\ entries'[q] = None <=> entries[q] = None
                                /\ entries[q] # None => entries'[q].owner = entries[q].owner
         /\ Listed' = Listed /\ entries'[p] = e
         /\ \A q \in Listed : q # p => entries'[q] = entries[q]
  BY PreviewAssumption DEF PreviewAssumption, TypeOK, Listed

(* What the handlers make of an entry.                                     *)
LEMMA MarkedEntries ==
  ASSUME NEW e \in Leases
  PROVE  /\ [e EXCEPT !.session = TRUE] \in Leases
         /\ [e EXCEPT !.activated = TRUE] \in Leases
         /\ Reset(e) \in Leases /\ ~Reset(e).activated
         /\ Reset(e).owner = e.owner /\ [e EXCEPT !.session = TRUE].owner = e.owner
         /\ [e EXCEPT !.activated = TRUE].owner = e.owner
  BY DEF Leases, Reset

-----------------------------------------------------------------------------
(* The actions one by one.                                                 *)
LEMMA RemoveDirKeeps ==
  ASSUME IInv, NEW p \in Previews, RemoveDir(p)
  PROVE  IInv'
<1> USE DEF IInv, RemoveDir, browser
<1>1. TypeOK' BY DEF TypeOK
<1>2. Listed' = Listed BY DEF Listed
<1>3. HandInv' BY DEF HandInv
<1>4. MakingInv' BY DEF MakingInv
<1>5. RowsInv' BY <1>2 DEF RowsInv
<1>6. FilesInv' BY <1>2 DEF FilesInv
<1>7. LinkInv' BY <1>2 DEF LinkInv
<1>8. CapInv' BY CapShrinks DEF Counted, OwnedBy, Listed, Coming, Of
<1>9. QED BY <1>1, <1>3, <1>4, <1>5, <1>6, <1>7, <1>8

LEMMA ExpireKeeps ==
  ASSUME IInv, NEW p \in Previews, Expire(p)
  PROVE  IInv'
<1> USE DEF IInv, Expire, browser
<1>1. TypeOK' BY DEF TypeOK
<1>2. Listed' = Listed BY DEF Listed
<1>3. HandInv' BY DEF HandInv
<1>4. MakingInv' BY DEF MakingInv
<1>5. RowsInv' BY <1>2 DEF RowsInv
<1>6. FilesInv' BY <1>2 DEF FilesInv
<1>7. LinkInv' BY <1>2 DEF LinkInv
<1>8. CapInv' BY CapShrinks DEF Counted, OwnedBy, Listed, Coming, Of
<1>9. QED BY <1>1, <1>3, <1>4, <1>5, <1>6, <1>7, <1>8

LEMMA SweepKeeps ==
  ASSUME IInv, NEW c \in Calls, SweepFirst(c)
  PROVE  IInv'
<1>1. PICK gone \in SUBSET Listed : Drop(gone) BY DEF SweepFirst
<1>2. \A d \in Calls : Yields(d)
  BY DEF IInv, TypeOK, SweepFirst, Yields, Idle, Making
<1>3. calls' \in [Calls -> [pc : Undrawn \cup Making \cup Probes \cup {"ready"},
                            p : Previews \cup {None}]]
  BY DEF IInv, TypeOK, SweepFirst, Undrawn
<1>4. faults' \in Nat BY DEF IInv, TypeOK, SweepFirst, Fails
<1>5. QED BY <1>1, <1>2, <1>3, <1>4, RemovingKeeps DEF SweepFirst

LEMMA DropsKeep ==
  ASSUME IInv, NEW p \in Previews, DropExpired(p) \/ Revoke(p)
  PROVE  IInv'
<1>1. {p} \in SUBSET Listed /\ Drop({p}) BY DEF DropExpired, Revoke
<1>2. QED BY <1>1, RemovingKeeps DEF DropExpired, Revoke, Yields, IInv, TypeOK

(* A call that is let through is the one its owner had in hand.            *)
LEMMA AdmitKeeps ==
  ASSUME IInv, NEW c \in Calls, CheckCaps(c)
  PROVE  IInv'
<1> USE DEF IInv
<1>1. CASE ~Admitted(c)
  <2>1. calls' = [calls EXCEPT ![c] = Idle] BY <1>1 DEF CheckCaps, Ends
  <2>2. calls' \in [Calls -> [pc : Undrawn \cup Making \cup Probes \cup {"ready"},
                              p : Previews \cup {None}]]
    BY <2>1 DEF TypeOK, Idle, Undrawn
  <2>3. \A d \in Calls : Yields(d) BY <2>1 DEF TypeOK, CheckCaps, Yields, Idle, Making
  <2>4. Drop({}) BY NothingGoes DEF CheckCaps
  <2>5. QED BY <2>2, <2>3, <2>4, NothingGoes, RemovingKeeps DEF CheckCaps, TypeOK
<1>2. CASE Admitted(c)
  <2>1. calls' = [calls EXCEPT ![c].pc = "admitted"] BY <1>2 DEF CheckCaps, To
  <2>2. /\ calls[c].pc = "swept" /\ calls'[c].pc = "admitted" /\ calls'[c].p = calls[c].p
        /\ \A d \in Calls : d # c => calls'[d] = calls[d]
    BY <2>1 DEF CheckCaps, TypeOK
  <2>3. UNCHANGED <<entries, rows, dirs, removals, expired, visits, fetched, drawn, answered,
                    overtaken, faults, restarts>>
    BY DEF CheckCaps, shared, browser
  <2>4. TypeOK'
    <3>1. calls' \in [Calls -> [pc : Undrawn \cup Making \cup Probes \cup {"ready"},
                                p : Previews \cup {None}]]
      BY <2>1 DEF TypeOK, Undrawn
    <3>2. QED BY <2>3, <3>1 DEF TypeOK
  <2>5. Listed' = Listed BY <2>3 DEF Listed
  <2>6. HandInv' BY <2>2, <2>3 DEF HandInv, Undrawn
  <2>7. MakingInv' BY <2>2, <2>3 DEF MakingInv, Making
  <2>8. RowsInv' BY <2>2, <2>3, <2>5 DEF RowsInv
  <2>9. FilesInv' BY <2>2, <2>3, <2>5 DEF FilesInv, Making
  <2>10. LinkInv' BY <2>2, <2>3, <2>5 DEF LinkInv
  <2>11. CapInv'
    <3> SUFFICES ASSUME NEW o \in Owners
                 PROVE (Cardinality(Counted(o)) + Cardinality(Coming(o))
                          < MaxPerCaller + Cardinality(Of(o)))'
      BY DEF CapInv
    <3>1. Counted(o)' = Counted(o) /\ Of(o)' = Of(o)
      BY <2>3, <2>5 DEF Counted, OwnedBy, Of
    <3>2. CASE Owner[c] # o
      <4>1. Coming(o)' = Coming(o) BY <2>2, <3>2 DEF Coming, Of
      <4>2. QED BY <3>1, <4>1 DEF CapInv
    <3>3. CASE Owner[c] = o
      <4>1. Cardinality(Counted(o)) < MaxPerCaller
        BY <1>2, <3>3 DEF Admitted, Counted
      <4>2. Coming(o)' \in SUBSET Of(o) BY DEF Coming, Of
      <4>3. IsFiniteSet(Of(o)) /\ Cardinality(Of(o)) \in Nat
            /\ Cardinality(Counted(o)) \in Nat
        BY FiniteCounts
      <4>4. Cardinality(Coming(o)') <= Cardinality(Of(o)) /\ Cardinality(Coming(o)') \in Nat
        BY <4>2, <4>3, FS_Subset, FS_CardinalityType
      <4>5. MaxPerCaller \in Nat BY PreviewAssumption DEF PreviewAssumption
      <4>6. QED BY <3>1, <4>1, <4>3, <4>4, <4>5
    <3>4. QED BY <3>2, <3>3
  <2>12. QED BY <2>4, <2>6, <2>7, <2>8, <2>9, <2>10, <2>11
<1>3. QED BY <1>1, <1>2

(* A drawn id is new: nothing is recorded of it.                           *)
LEMMA StartKeeps ==
  ASSUME IInv, NEW c \in Calls, NEW p \in Previews, StartBuild(c, p)
  PROVE  IInv'
<1> USE DEF IInv
<1>1. CASE Ends(c) /\ UNCHANGED <<dirs, drawn>>
  <2>1. calls' = [calls EXCEPT ![c] = Idle] BY <1>1 DEF Ends
  <2>2. calls' \in [Calls -> [pc : Undrawn \cup Making \cup Probes \cup {"ready"},
                              p : Previews \cup {None}]]
    BY <2>1 DEF TypeOK, Idle, Undrawn
  <2>3. \A d \in Calls : Yields(d) BY <2>1 DEF TypeOK, StartBuild, Yields, Idle, Making
  <2>4. UNCHANGED shared BY <1>1 DEF StartBuild, shared
  <2>5. QED BY <1>1, <2>2, <2>3, <2>4, NothingGoes, RemovingKeeps DEF StartBuild, TypeOK
<1>2. CASE /\ p \notin drawn
           /\ drawn' = drawn \cup {p} /\ dirs' = dirs \cup {p}
           /\ calls' = [calls EXCEPT ![c].pc = "building", ![c].p = p]
  <2>1. /\ calls[c].pc = "admitted" /\ calls'[c].pc = "building" /\ calls'[c].p = p
        /\ \A d \in Calls : d # c => calls'[d] = calls[d]
    BY <1>2 DEF StartBuild, TypeOK
  <2>2. UNCHANGED <<entries, rows, removals, expired, visits, fetched, answered,
                    overtaken, faults, restarts>>
    BY <1>2 DEF StartBuild, browser
  <2>3. TypeOK'
    <3>1. calls' \in [Calls -> [pc : Undrawn \cup Making \cup Probes \cup {"ready"},
                                p : Previews \cup {None}]]
      BY <1>2 DEF TypeOK, Making
    <3>2. IsFiniteSet(drawn') BY <1>2, FS_AddElement DEF TypeOK
    <3>3. QED BY <1>2, <2>2, <3>1, <3>2 DEF TypeOK
  <2>4. Listed' = Listed BY <2>2 DEF Listed
  <2>5. /\ p \notin Listed /\ p \notin dirs /\ p \notin removals /\ p \notin overtaken
        /\ p \notin answered /\ \A d \in Calls : calls[d].p # p
    BY <1>2, PreviewAssumption DEF FilesInv, HandInv, PreviewAssumption
  <2>6. rows[p] = None /\ entries[p] = None BY <2>5 DEF RowsInv, Listed
  <2> drawn' = drawn \cup {p} /\ dirs' = dirs \cup {p} /\ p # None
    BY <1>2, PreviewAssumption DEF PreviewAssumption
  <2>7. HandInv' BY <2>1, <2>2, <2>5 DEF HandInv, Undrawn
  <2>8. MakingInv' BY <2>1, <2>2, <2>5, <2>6 DEF MakingInv
  <2>9. RowsInv' BY <2>1, <2>2, <2>4 DEF RowsInv
  <2>10. FilesInv' BY <2>1, <2>2, <2>4, <2>5 DEF FilesInv, Making
  <2>11. LinkInv' BY <2>1, <2>2, <2>4 DEF LinkInv
  <2>12. CapInv' BY <2>1, <2>2, <2>4, CapShrinks DEF Counted, OwnedBy, Coming, Of, Making
  <2>13. QED BY <2>3, <2>7, <2>8, <2>9, <2>10, <2>11, <2>12
<1>3. QED BY <1>1, <1>2 DEF StartBuild

(* A call that gives up before there is an entry takes its directory away. *)
LEMMA GiveUpKeeps ==
  ASSUME IInv, NEW c \in Calls, calls[c].pc = "building", Ends(c),
         dirs' = dirs \ {calls[c].p}, faults' \in Nat,
         UNCHANGED <<entries, rows, removals, expired, browser, drawn, answered, overtaken,
                     restarts>>
  PROVE  IInv'
<1> USE DEF IInv, browser
<1> DEFINE p == calls[c].p
<1>1. /\ calls'[c] = Idle /\ \A d \in Calls : d # c => calls'[d] = calls[d]
  BY DEF Ends, TypeOK
<1>2. TypeOK'
  <2>1. calls' \in [Calls -> [pc : Undrawn \cup Making \cup Probes \cup {"ready"},
                              p : Previews \cup {None}]]
    BY DEF TypeOK, Ends, Idle, Undrawn
  <2>2. QED BY <2>1 DEF TypeOK
<1>3. Listed' = Listed BY DEF Listed
<1>4. p \in Previews /\ p # None /\ \A d \in Calls : d # c => calls[d].p # p
  BY PreviewAssumption DEF HandInv, TypeOK, Undrawn, PreviewAssumption
<1>5. p \notin Listed /\ p \notin removals /\ rows[p] = None
  BY DEF MakingInv, Making, Listed
<1>6. HandInv' BY <1>1 DEF HandInv, Idle, Undrawn
<1>7. MakingInv' BY <1>1, <1>4 DEF MakingInv, Idle, Making
<1>8. RowsInv' BY <1>1, <1>3 DEF RowsInv
<1>9. FilesInv'
  <2>1. Listed' \subseteq dirs' \ removals' BY <1>3, <1>5 DEF FilesInv
  <2>2. ASSUME NEW q \in dirs', q \notin Listed', q \notin removals'
        PROVE q \in Previews /\ \E d \in Calls : calls'[d].pc \in Making /\ calls'[d].p = q
    <3>1. PICK d \in Calls : calls[d].pc \in Making /\ calls[d].p = q
      BY <1>3, <2>2 DEF FilesInv
    <3>2. d # c BY <2>2, <3>1
    <3>3. QED BY <1>1, <2>2, <3>1, <3>2 DEF TypeOK
  <2>3. QED BY <2>1, <2>2 DEF FilesInv
<1>10. LinkInv' BY <1>1, <1>3 DEF LinkInv, Idle
<1>11. CapInv' BY <1>1, <1>3, CapShrinks DEF Counted, OwnedBy, Coming, Of, Idle, Making
<1>12. QED BY <1>2, <1>6, <1>7, <1>8, <1>9, <1>10, <1>11

(* The row of an id nobody else knows.                                     *)
LEMMA PutRowKeeps ==
  ASSUME IInv, NEW c \in Calls, PutRow(c)
  PROVE  IInv'
<1> USE DEF IInv
<1>1. PICK p \in Previews : p = calls[c].p
  BY DEF PutRow, TypeOK, HandInv, Undrawn
<1>2. CASE Fails /\ dirs' = dirs \ {p} /\ Ends(c) /\ UNCHANGED rows
  BY <1>1, <1>2, GiveUpKeeps DEF PutRow, Fails, TypeOK
<1>3. CASE rows' = [rows EXCEPT ![p] = Owner[c]] /\ To(c, "rowed") /\ UNCHANGED <<dirs, faults>>
  <2>1. /\ calls[c].pc = "building" /\ calls'[c].pc = "rowed" /\ calls'[c].p = p
        /\ \A d \in Calls : d # c => calls'[d] = calls[d]
    BY <1>1, <1>3 DEF PutRow, To, TypeOK
  <2>2. UNCHANGED <<entries, dirs, removals, expired, visits, fetched, drawn, answered,
                    overtaken, faults, restarts>>
    BY <1>3 DEF PutRow, browser
  <2>3. TypeOK'
    <3>1. calls' \in [Calls -> [pc : Undrawn \cup Making \cup Probes \cup {"ready"},
                                p : Previews \cup {None}]]
      BY <1>3 DEF TypeOK, To, Making
    <3>2. rows' \in [Previews -> Owners \cup {None}] BY <1>3 DEF TypeOK, Owners
    <3>3. QED BY <2>2, <3>1, <3>2 DEF TypeOK
  <2>4. Listed' = Listed BY <2>2 DEF Listed
  <2>5. /\ p \notin Listed /\ p \notin removals /\ p \notin overtaken /\ p \in dirs
        /\ p # None /\ \A d \in Calls : d # c => calls[d].p # p
    BY <1>1, <2>1, PreviewAssumption
    DEF MakingInv, HandInv, Making, Listed, PreviewAssumption
  <2>6. rows'[p] = Owner[c] /\ \A q \in Previews : q # p => rows'[q] = rows[q]
    BY <1>3 DEF TypeOK
  <2>7. HandInv' BY <1>1, <2>1, <2>2 DEF HandInv, Undrawn
  <2>8. MakingInv'
    <3> SUFFICES ASSUME NEW d \in Calls, calls'[d].pc \in Making
                 PROVE LET q == calls'[d].p
                       IN  /\ q \in dirs' \ removals' /\ entries'[q] = None
                           /\ calls'[d].pc = "building" => rows'[q] = None /\ q \notin overtaken'
                           /\ calls'[d].pc = "rowed" /\ q \notin overtaken' => rows'[q] = Owner[d]
      BY DEF MakingInv
    <3>1. CASE d = c BY <2>1, <2>2, <2>5, <2>6, <3>1 DEF Listed
    <3>2. CASE d # c
      <4>1. calls'[d] = calls[d] /\ calls[d].p # p BY <2>1, <2>5, <3>2
      <4>2. calls[d].p \in Previews BY <4>1 DEF MakingInv, TypeOK
      <4>3. QED BY <2>2, <2>6, <4>1, <4>2 DEF MakingInv
    <3>3. QED BY <3>1, <3>2
  <2>9. RowsInv'
    <3>1. \A q \in Listed' : q \notin overtaken' => rows'[q] = entries'[q].owner
      BY <2>2, <2>4, <2>5, <2>6 DEF RowsInv, Listed
    <3>2. \A q \in overtaken' : rows'[q] = None BY <2>2, <2>5, <2>6 DEF RowsInv, TypeOK
    <3>3. \A q \in Previews : rows'[q] # None =>
            q \in Listed' \/ \E d \in Calls : calls'[d].pc = "rowed" /\ calls'[d].p = q
      BY <2>1, <2>4, <2>6 DEF RowsInv
    <3>4. QED BY <3>1, <3>2, <3>3 DEF RowsInv
  <2>10. FilesInv' BY <1>1, <2>1, <2>2, <2>4 DEF FilesInv, Making
  <2>11. LinkInv' BY <2>1, <2>2, <2>4 DEF LinkInv
  <2>12. CapInv' BY <2>1, <2>2, <2>4, CapShrinks DEF Counted, OwnedBy, Coming, Of, Making
  <2>13. QED BY <2>3, <2>7, <2>8, <2>9, <2>10, <2>11, <2>12
<1>4. QED BY <1>1, <1>2, <1>3 DEF PutRow

(* The entry takes the place of the call that was coming.                  *)
LEMMA PutEntryKeeps ==
  ASSUME IInv, NEW c \in Calls, PutEntry(c)
  PROVE  IInv'
<1> USE DEF IInv
<1>1. PICK p \in Previews : p = calls[c].p
  BY DEF PutEntry, TypeOK, HandInv, Undrawn
<1>2. PICK s \in {"verifying", "ready"} : To(c, s) BY DEF PutEntry
<1>3. /\ calls[c].pc = "rowed" /\ calls'[c].pc = s /\ calls'[c].p = p
      /\ \A d \in Calls : d # c => calls'[d] = calls[d]
  BY <1>1, <1>2 DEF PutEntry, To, TypeOK
<1>4. UNCHANGED <<rows, dirs, removals, expired, visits, fetched, drawn, answered,
                  overtaken, faults, restarts>>
  BY DEF PutEntry, browser
<1>5. /\ NewEntry(c) \in Leases /\ NewEntry(c) # None /\ NewEntry(c).owner = Owner[c]
      /\ ~NewEntry(c).activated
  <2>1. Owner[c] \in Owners BY DEF Owners
  <2>2. NewEntry(c) \in Leases BY <2>1 DEF NewEntry, Leases
  <2>3. QED BY <2>2, PreviewAssumption DEF NewEntry, PreviewAssumption
<1>6. entries'[p] = NewEntry(c) /\ \A q \in Previews : q # p => entries'[q] = entries[q]
  BY <1>1 DEF PutEntry, TypeOK
<1>7. TypeOK'
  <2>1. calls' \in [Calls -> [pc : Undrawn \cup Making \cup Probes \cup {"ready"},
                              p : Previews \cup {None}]]
    BY <1>2 DEF TypeOK, To, Probes
  <2>2. entries' \in [Previews -> Leases \cup {None}] BY <1>1, <1>5 DEF TypeOK, PutEntry
  <2>3. QED BY <1>4, <2>1, <2>2 DEF TypeOK
<1>8. Listed' = Listed \cup {p} /\ p \notin Listed
  BY <1>1, <1>3, <1>5, <1>6 DEF Listed, MakingInv, Making
<1>9. /\ p \notin removals /\ p \in dirs /\ p # None /\ p \notin answered /\ p \in drawn
      /\ \A d \in Calls : d # c => calls[d].p # p
      /\ p \notin overtaken => rows[p] = Owner[c]
  BY <1>1, <1>3, PreviewAssumption DEF MakingInv, HandInv, Making, PreviewAssumption
<1>10. HandInv' BY <1>1, <1>2, <1>3, <1>4 DEF HandInv, Undrawn
<1>11. MakingInv'
  <2> SUFFICES ASSUME NEW d \in Calls, calls'[d].pc \in Making
               PROVE LET q == calls'[d].p
                     IN  /\ q \in dirs' \ removals' /\ entries'[q] = None
                         /\ calls'[d].pc = "building" => rows'[q] = None /\ q \notin overtaken'
                         /\ calls'[d].pc = "rowed" /\ q \notin overtaken' => rows'[q] = Owner[d]
    BY DEF MakingInv
  <2>1. d # c BY <1>3 DEF Making
  <2>2. calls'[d] = calls[d] /\ calls[d].p # p BY <1>3, <1>9, <2>1
  <2>3. calls[d].p \in Previews BY <2>2 DEF MakingInv, TypeOK
  <2>4. QED BY <1>4, <1>6, <2>2, <2>3 DEF MakingInv
<1>12. RowsInv'
  <2>1. \A q \in Listed' : q \notin overtaken' => rows'[q] = entries'[q].owner
    BY <1>4, <1>5, <1>6, <1>8, <1>9 DEF RowsInv, Listed
  <2>2. \A q \in Previews : rows'[q] # None =>
          q \in Listed' \/ \E d \in Calls : calls'[d].pc = "rowed" /\ calls'[d].p = q
    BY <1>1, <1>3, <1>4, <1>8 DEF RowsInv
  <2>3. QED BY <1>4, <2>1, <2>2 DEF RowsInv
<1>13. FilesInv' BY <1>1, <1>3, <1>4, <1>8, <1>9 DEF FilesInv
<1>14. LinkInv'
  <2>1. \A v \in Visitors : visits[v] # None => visits[v] \in answered /\ visits[v] # p
    BY <1>9 DEF LinkInv
  <2>2. \A v \in Visitors : visits'[v] # None => visits'[v] \in answered'
           /\ (visits'[v] \in Listed' => entries'[visits'[v]].session)
    BY <1>4, <1>6, <1>8, <2>1 DEF LinkInv, TypeOK
  <2>3. \A q \in Listed' \cap answered' : q \in Listed \cap answered /\ entries'[q] = entries[q]
    BY <1>4, <1>6, <1>8, <1>9 DEF Listed
  <2>4. \A d \in Calls : calls'[d].pc = "ready" /\ calls'[d].p \in Listed' =>
           ~entries'[calls'[d].p].activated
    BY <1>3, <1>5, <1>6, <1>8, <1>9 DEF LinkInv, Listed
  <2>5. QED BY <1>4, <2>2, <2>3, <2>4 DEF LinkInv
<1>15. CapInv'
  <2> SUFFICES ASSUME NEW o \in Owners
               PROVE (Cardinality(Counted(o)) + Cardinality(Coming(o))
                        < MaxPerCaller + Cardinality(Of(o)))'
    BY DEF CapInv
  <2>1. Of(o)' = Of(o) BY DEF Of
  <2>2. /\ IsFiniteSet(Counted(o)) /\ Cardinality(Counted(o)) \in Nat
        /\ IsFiniteSet(Coming(o)) /\ Cardinality(Coming(o)) \in Nat
        /\ Cardinality(Of(o)) \in Nat /\ MaxPerCaller \in Nat
    BY FiniteCounts, PreviewAssumption DEF PreviewAssumption
  <2>3. CASE Owner[c] # o
    <3>1. Coming(o)' = Coming(o) BY <1>3, <2>3 DEF Coming, Of
    <3>2. Counted(o)' = Counted(o)
      BY <1>4, <1>5, <1>6, <1>8, <2>3 DEF Counted, OwnedBy, Listed
    <3>3. QED BY <2>1, <3>1, <3>2 DEF CapInv
  <2>4. CASE Owner[c] = o
    <3>1. Coming(o)' = Coming(o) \ {c} /\ c \in Coming(o)
      BY <1>3, <2>4 DEF Coming, Of, Making
    <3>2. Counted(o)' \in SUBSET (Counted(o) \cup {p})
      BY <1>4, <1>6, <1>8 DEF Counted, OwnedBy, Listed
    <3>3. Cardinality(Coming(o)') = Cardinality(Coming(o)) - 1 BY <2>2, <3>1, FS_RemoveElement
    <3>4. IsFiniteSet(Counted(o) \cup {p})
          /\ Cardinality(Counted(o) \cup {p}) <= Cardinality(Counted(o)) + 1
          /\ Cardinality(Counted(o) \cup {p}) \in Nat
      <4>1. /\ IsFiniteSet(Counted(o) \cup {p})
            /\ Cardinality(Counted(o) \cup {p})
                 = IF p \in Counted(o) THEN Cardinality(Counted(o)) ELSE Cardinality(Counted(o)) + 1
        BY <2>2, FS_AddElement
      <4>2. QED BY <2>2, <4>1
    <3>5. Cardinality(Counted(o)') <= Cardinality(Counted(o)) + 1
          /\ Cardinality(Counted(o)') \in Nat
      BY <2>2, <3>2, <3>4, FS_Subset, FS_CardinalityType
    <3>6. Cardinality(Counted(o)) + Cardinality(Coming(o)) < MaxPerCaller + Cardinality(Of(o))
      BY DEF CapInv
    <3>7. QED BY <2>1, <2>2, <3>3, <3>5, <3>6
  <2>5. QED BY <2>3, <2>4
<1>16. QED BY <1>7, <1>10, <1>11, <1>12, <1>13, <1>14, <1>15

(* The preview that is answered has no mark of the probe left.             *)
LEMMA AnswerKeeps ==
  ASSUME IInv, NEW c \in Calls, Answer(c)
  PROVE  IInv'
<1> USE DEF IInv
<1>1. PICK p \in Previews : p = calls[c].p
  BY DEF Answer, TypeOK, HandInv, Undrawn
<1>2. /\ calls[c].pc = "ready" /\ calls'[c] = Idle
      /\ \A d \in Calls : d # c => calls'[d] = calls[d]
  BY DEF Answer, Ends, TypeOK
<1>3. answered' = answered \cup {p}
      /\ UNCHANGED <<entries, rows, dirs, removals, expired, visits, fetched, drawn,
                     overtaken, faults, restarts>>
  BY <1>1 DEF Answer, shared, browser
<1>4. TypeOK'
  <2>1. calls' \in [Calls -> [pc : Undrawn \cup Making \cup Probes \cup {"ready"},
                              p : Previews \cup {None}]]
    BY DEF TypeOK, Answer, Ends, Idle, Undrawn
  <2>2. QED BY <1>3, <2>1 DEF TypeOK
<1>5. Listed' = Listed BY <1>3 DEF Listed
<1>6. p # None /\ p \in drawn /\ \A d \in Calls : d # c => calls[d].p # p
  BY <1>1, PreviewAssumption DEF HandInv, PreviewAssumption
<1>7. HandInv' BY <1>2, <1>3, <1>6 DEF HandInv, Idle, Undrawn
<1>8. MakingInv' BY <1>2, <1>3 DEF MakingInv, Idle, Making
<1>9. RowsInv'
  <2>1. ASSUME NEW q \in Previews, rows'[q] # None, q \notin Listed'
        PROVE \E d \in Calls : calls'[d].pc = "rowed" /\ calls'[d].p = q
    BY <1>2, <1>3, <1>5, <2>1 DEF RowsInv
  <2>2. QED BY <1>3, <1>5, <2>1 DEF RowsInv
<1>10. FilesInv' BY <1>2, <1>3, <1>5, <1>6 DEF FilesInv, Making
<1>11. LinkInv'
  <2>1. \A q \in Listed' \cap answered' : entries'[q].activated => q \in fetched'
    BY <1>1, <1>2, <1>3, <1>5 DEF LinkInv
  <2>2. QED BY <1>2, <1>3, <1>5, <2>1 DEF LinkInv, Idle
<1>12. CapInv' BY <1>2, <1>3, <1>5, CapShrinks DEF Counted, OwnedBy, Coming, Of, Idle, Making
<1>13. QED BY <1>4, <1>7, <1>8, <1>9, <1>10, <1>11, <1>12

(* The probe marks only a preview whose entry URL is not out yet.          *)
LEMMA ProbeMarks ==
  ASSUME IInv, NEW c \in Calls, calls[c].pc \in Probes, NEW e \in Leases,
         NEW s \in Probes \cup {"ready"}, calls[c].p \in Listed,
         To(c, s) \/ Ends(c),
         e.owner = entries[calls[c].p].owner, s = "ready" => ~e.activated,
         entries' = [entries EXCEPT ![calls[c].p] = e], faults' \in Nat,
         UNCHANGED <<rows, dirs, removals, expired, visits, drawn, answered, fetched,
                     overtaken, restarts>>
  PROVE  IInv'
<1> USE DEF IInv
<1>1. PICK p \in Listed : p = calls[c].p OBVIOUS
<1>2. \/ calls'[c].pc = s /\ calls'[c].p = p
      \/ calls'[c] = Idle
  BY <1>1 DEF To, Ends, TypeOK
<1>3. \A d \in Calls : d # c => calls'[d] = calls[d] BY DEF To, Ends, TypeOK
<1>4. calls' \in [Calls -> [pc : Undrawn \cup Making \cup Probes \cup {"ready"},
                            p : Previews \cup {None}]]
  BY DEF To, Ends, TypeOK, Idle, Undrawn
<1>5. /\ entries' \in [Previews -> Leases \cup {None}]
      /\ \A q \in Previews : /\ entries'[q] = None <=> entries[q] = None
                             /\ entries[q] # None => entries'[q].owner = entries[q].owner
      /\ Listed' = Listed /\ entries'[p] = e
      /\ \A q \in Listed : q # p => entries'[q] = entries[q]
  BY <1>1, OneIsMarked
<1>6. \A d \in Calls : Probed(d)
  BY <1>1, <1>2, <1>3 DEF Probed, Yields, Idle, Making, Probes
<1>7. Marks BY <1>4, <1>5, <1>6 DEF Marks
<1>8. TypeOK' BY <1>4, <1>5 DEF TypeOK
<1>9. p # None /\ p \notin answered /\ \A d \in Calls : d # c => calls[d].p # p
  BY <1>1, PreviewAssumption DEF HandInv, Listed, PreviewAssumption
<1>10. LinkInv'
  <2>1. \A v \in Visitors : visits'[v] # None => visits'[v] \in answered'
           /\ (visits'[v] \in Listed' => entries'[visits'[v]].session)
    BY <1>5, <1>9 DEF LinkInv
  <2>2. \A q \in Listed' \cap answered' : entries'[q] = entries[q] /\ q \in Listed
    BY <1>5, <1>9
  <2>3. \A d \in Calls : calls'[d].pc = "ready" /\ calls'[d].p \in Listed' =>
          ~entries'[calls'[d].p].activated
    <3> SUFFICES ASSUME NEW d \in Calls, calls'[d].pc = "ready", calls'[d].p \in Listed'
                 PROVE ~entries'[calls'[d].p].activated
      OBVIOUS
    <3>1. CASE d = c BY <1>2, <1>5, <3>1 DEF Idle
    <3>2. CASE d # c BY <1>3, <1>5, <1>9, <3>2 DEF LinkInv
    <3>3. QED BY <3>1, <3>2
  <2>4. QED BY <2>1, <2>2, <2>3 DEF LinkInv
<1>11. QED BY <1>7, <1>8, <1>10, MarksKeep

LEMMA ListedType ==
  ASSUME TypeOK, NEW p \in Listed
  PROVE  p \in Previews /\ entries[p] \in Leases
  BY DEF TypeOK, Listed

LEMMA ProbesKeep ==
  ASSUME IInv, NEW c \in Calls, ProbeExchange(c) \/ ProbeFetch(c) \/ ProbeReset(c)
  PROVE  IInv'
<1>1. CASE ProbeExchange(c)
  <2>1. calls[c].p \in Listed BY <1>1 DEF ProbeExchange, Exchangeable, Active
  <2>2. PICK e : e = [entries[calls[c].p] EXCEPT !.session = TRUE] OBVIOUS
  <2>3. e \in Leases /\ e.owner = entries[calls[c].p].owner
    BY <2>1, <2>2, ListedType, MarkedEntries DEF IInv
  <2>4. entries' = [entries EXCEPT ![calls[c].p] = e]
    BY <1>1, <2>2 DEF ProbeExchange, Establish
  <2>5. calls[c].pc \in Probes /\ "probing" \in Probes BY <1>1 DEF ProbeExchange, Probes
  <2>6. faults' \in Nat BY <1>1 DEF ProbeExchange, IInv, TypeOK
  <2>7. QED BY <1>1, <2>1, <2>3, <2>4, <2>5, <2>6, ProbeMarks DEF ProbeExchange
<1>2. CASE ProbeFetch(c)
  <2>1. calls[c].p \in Listed BY <1>2 DEF ProbeFetch, Active
  <2>2. PICK e : e = [entries[calls[c].p] EXCEPT !.activated = TRUE] OBVIOUS
  <2>3. e \in Leases /\ e.owner = entries[calls[c].p].owner
    BY <2>1, <2>2, ListedType, MarkedEntries DEF IInv
  <2>4. entries' = [entries EXCEPT ![calls[c].p] = e] BY <1>2, <2>2 DEF ProbeFetch
  <2>5. calls[c].pc \in Probes /\ "probed" \in Probes BY <1>2 DEF ProbeFetch, Probes
  <2>6. faults' \in Nat BY <1>2 DEF ProbeFetch, IInv, TypeOK
  <2>7. QED BY <1>2, <2>1, <2>3, <2>4, <2>5, <2>6, ProbeMarks DEF ProbeFetch, browser
<1>3. CASE ProbeReset(c) /\ calls[c].p \in Listed
  <2>1. PICK e : e = Reset(entries[calls[c].p]) OBVIOUS
  <2>2. e \in Leases /\ e.owner = entries[calls[c].p].owner /\ ~e.activated
    BY <1>3, <2>1, ListedType, MarkedEntries DEF IInv
  <2>3. entries' = [entries EXCEPT ![calls[c].p] = e] BY <1>3, <2>1 DEF ProbeReset
  <2>4. calls[c].pc \in Probes BY <1>3 DEF ProbeReset, Probes
  <2>5. faults' \in Nat BY <1>3 DEF ProbeReset, IInv, TypeOK
  <2>6. QED BY <1>3, <2>2, <2>3, <2>4, <2>5, ProbeMarks DEF ProbeReset, browser
<1>4. CASE ProbeReset(c) /\ calls[c].p \notin Listed
  <2> USE DEF IInv
  <2>1. /\ calls[c].pc = "probed" /\ calls'[c].pc = "ready" /\ calls'[c].p = calls[c].p
        /\ \A d \in Calls : d # c => calls'[d] = calls[d]
    BY <1>4 DEF ProbeReset, To, TypeOK
  <2>2. calls' \in [Calls -> [pc : Undrawn \cup Making \cup Probes \cup {"ready"},
                              p : Previews \cup {None}]]
    BY <1>4 DEF ProbeReset, To, TypeOK
  <2>3. UNCHANGED <<entries, rows, dirs, removals, expired, visits, fetched, drawn,
                    answered, overtaken, faults, restarts>>
    BY <1>4 DEF ProbeReset, browser
  <2>4. Marks
    <3>1. \A d \in Calls : Probed(d) BY <2>1 DEF Probed, Probes, Yields
    <3>2. QED BY <2>2, <2>3, <3>1 DEF Marks, TypeOK
  <2>5. Listed' = Listed BY <2>3 DEF Listed
  <2>6. TypeOK' BY <2>2, <2>3 DEF TypeOK
  <2>7. LinkInv' BY <1>4, <2>1, <2>3, <2>5 DEF LinkInv
  <2>8. QED BY <2>4, <2>6, <2>7, MarksKeep
<1>5. QED BY <1>1, <1>2, <1>3, <1>4

LEMMA ProbeFailsKeeps ==
  ASSUME IInv, NEW c \in Calls, ProbeFails(c)
  PROVE  IInv'
<1> USE DEF IInv
<1>1. calls' \in [Calls -> [pc : Undrawn \cup Making \cup Probes \cup {"ready"},
                            p : Previews \cup {None}]]
  BY DEF ProbeFails, Ends, TypeOK, Idle, Undrawn
<1>2. \A d \in Calls : Yields(d)
  BY DEF ProbeFails, Ends, TypeOK, Idle, Yields, Making
<1>3. faults' \in Nat BY DEF ProbeFails, Fails, TypeOK
<1>4. CASE calls[c].p \in Listed /\ Drop({calls[c].p})
  BY <1>1, <1>2, <1>3, <1>4, RemovingKeeps DEF ProbeFails
<1>5. CASE entries' = entries /\ UNCHANGED <<rows, dirs, removals, expired>>
  BY <1>1, <1>2, <1>3, <1>5, NothingGoes, RemovingKeeps DEF ProbeFails, shared
<1>6. CASE /\ calls[c].p \in Listed
           /\ entries' = [entries EXCEPT ![calls[c].p] = Reset(@)]
           /\ UNCHANGED <<rows, dirs, removals, expired>>
  <2>1. PICK e : e = Reset(entries[calls[c].p]) OBVIOUS
  <2>2. e \in Leases /\ e.owner = entries[calls[c].p].owner /\ ~e.activated
    BY <1>6, <2>1, ListedType, MarkedEntries
  <2>3. entries' = [entries EXCEPT ![calls[c].p] = e] BY <1>6, <2>1
  <2>4. calls[c].pc \in Probes /\ Ends(c) BY DEF ProbeFails, Probes
  <2>5. QED BY <1>3, <1>6, <2>2, <2>3, <2>4, ProbeMarks DEF ProbeFails, browser
<1>7. QED BY <1>4, <1>5, <1>6 DEF ProbeFails, shared

(* A browser opens an entry URL that is out and has not been spent.        *)
LEMMA OpenEntryKeeps ==
  ASSUME IInv, NEW p \in Previews, OpenEntry(p)
  PROVE  IInv'
<1> USE DEF IInv
<1>1. p \in Listed /\ p \in answered /\ ~entries[p].recovered
      /\ ~ (entries[p].session /\ entries[p].activated)
  BY DEF OpenEntry, Exchangeable, Active
<1>2. PICK e : e = [entries[p] EXCEPT !.session = TRUE] OBVIOUS
<1>3. e \in Leases /\ e.owner = entries[p].owner /\ e.session
      /\ e.activated = entries[p].activated
  BY <1>1, <1>2, ListedType, MarkedEntries DEF Leases
<1>4. entries' = [entries EXCEPT ![p] = e] BY <1>2 DEF OpenEntry, Establish
<1>5. /\ entries' \in [Previews -> Leases \cup {None}]
      /\ \A q \in Previews : /\ entries'[q] = None <=> entries[q] = None
                             /\ entries[q] # None => entries'[q].owner = entries[q].owner
      /\ Listed' = Listed /\ entries'[p] = e
      /\ \A q \in Listed : q # p => entries'[q] = entries[q]
  BY <1>1, <1>3, <1>4, OneIsMarked
<1>6. Marks BY <1>5 DEF Marks, OpenEntry, Probed, Yields, TypeOK
<1>7. TypeOK' BY <1>5 DEF OpenEntry, TypeOK
<1>8. LinkInv'
  <2>1. \A q \in Listed : entries[q].session => entries'[q].session BY <1>3, <1>5
  <2>2. \A q \in Listed : entries'[q].activated = entries[q].activated BY <1>3, <1>5
  <2>3. \A q \in Listed \cap fetched : q # p BY <1>1 DEF LinkInv
  <2>4. QED BY <1>5, <2>1, <2>2, <2>3 DEF LinkInv, OpenEntry
<1>9. QED BY <1>6, <1>7, <1>8, MarksKeep

(* Between its two critical sections a fetch holds a preview with a        *)
(* session; what it marks it serves.                                       *)
LEMMA CompareKeeps ==
  ASSUME IInv, NEW v \in Visitors, NEW p \in Previews, FetchCompare(v, p)
  PROVE  IInv'
<1> USE DEF IInv
<1>1. UNCHANGED <<entries, rows, dirs, removals, expired, calls, drawn, answered, fetched,
                  overtaken, faults, restarts>>
  BY DEF FetchCompare, shared
<1>2. Marks BY <1>1 DEF Marks, Probed, Yields, TypeOK
<1>3. TypeOK' BY <1>1 DEF FetchCompare, TypeOK
<1>4. Listed' = Listed BY <1>1 DEF Listed
<1>5. visits'[v] = p /\ \A w \in Visitors : w # v => visits'[w] = visits[w]
  BY DEF FetchCompare, TypeOK
<1>6. p \in answered /\ entries[p].session BY DEF FetchCompare
<1>7. LinkInv' BY <1>1, <1>4, <1>5, <1>6 DEF LinkInv
<1>8. QED BY <1>2, <1>3, <1>7, MarksKeep

LEMMA ServeKeeps ==
  ASSUME IInv, NEW v \in Visitors, FetchServe(v)
  PROVE  IInv'
<1> USE DEF IInv
<1>1. PICK p \in Previews : p = visits[v] BY DEF FetchServe, TypeOK
<1>2. /\ UNCHANGED <<rows, dirs, removals, expired, calls, drawn, answered, overtaken, faults,
                     restarts>>
      /\ fetched' = fetched \cup {p}
  BY <1>1 DEF FetchServe
<1>3. \A w \in Visitors : visits'[w] = IF w = v THEN None ELSE visits[w]
  BY DEF FetchServe, TypeOK
<1>4. p # None /\ p \in answered /\ (p \in Listed => entries[p].session)
  BY <1>1, PreviewAssumption DEF LinkInv, PreviewAssumption
<1>5. \A c \in Calls : calls[c].p # p BY <1>4 DEF HandInv
<1>6. CASE p \notin Listed
  <2>1. entries' = entries BY <1>1, <1>6 DEF FetchServe
  <2>2. Marks BY <1>2, <2>1 DEF Marks, Probed, Yields, TypeOK
  <2>3. TypeOK' BY <1>2, <2>1 DEF FetchServe, TypeOK
  <2>4. Listed' = Listed BY <2>1 DEF Listed
  <2>5. LinkInv' BY <1>2, <1>3, <1>4, <1>6, <2>1, <2>4 DEF LinkInv
  <2>6. QED BY <2>2, <2>3, <2>5, MarksKeep
<1>7. CASE p \in Listed
  <2>1. PICK e : e = [entries[p] EXCEPT !.activated = TRUE] OBVIOUS
  <2>2. e \in Leases /\ e.owner = entries[p].owner /\ e.activated
        /\ e.session = entries[p].session
    BY <1>7, <2>1, ListedType, MarkedEntries DEF Leases
  <2>3. entries' = [entries EXCEPT ![p] = e] BY <1>1, <1>7, <2>1 DEF FetchServe
  <2>4. /\ entries' \in [Previews -> Leases \cup {None}]
        /\ \A q \in Previews : /\ entries'[q] = None <=> entries[q] = None
                               /\ entries[q] # None => entries'[q].owner = entries[q].owner
        /\ Listed' = Listed /\ entries'[p] = e
        /\ \A q \in Listed : q # p => entries'[q] = entries[q]
    BY <1>7, <2>2, <2>3, OneIsMarked
  <2>5. Marks BY <1>2, <2>4 DEF Marks, Probed, Yields, TypeOK
  <2>6. TypeOK'
    <3>1. visits' \in [Visitors -> Previews \cup {None}] BY DEF FetchServe, TypeOK
    <3>2. QED BY <1>2, <2>4, <3>1 DEF TypeOK
  <2>7. LinkInv'
    <3>1. \A w \in Visitors : visits'[w] # None => visits'[w] \in answered'
             /\ (visits'[w] \in Listed' => entries'[visits'[w]].session)
      BY <1>2, <1>3, <1>4, <1>7, <2>2, <2>4 DEF LinkInv
    <3>2. \A q \in Listed' \cap answered' : entries'[q].activated => q \in fetched'
      BY <1>2, <2>4 DEF LinkInv
    <3>3. \A c \in Calls : calls'[c].pc = "ready" /\ calls'[c].p \in Listed' =>
             ~entries'[calls'[c].p].activated
      BY <1>2, <1>5, <2>4 DEF LinkInv
    <3>4. \A q \in Listed' \cap fetched' :
             entries'[q].recovered \/ (entries'[q].session /\ entries'[q].activated)
      BY <1>2, <1>4, <1>7, <2>2, <2>4 DEF LinkInv
    <3>5. QED BY <1>2, <1>4, <3>1, <3>2, <3>3, <3>4 DEF LinkInv
  <2>8. QED BY <2>5, <2>6, <2>7, MarksKeep
<1>8. QED BY <1>6, <1>7

(* The bulk revocation takes every row of the owner, of the calls that     *)
(* have not made their entry too.                                          *)
LEMMA RevokeAllKeeps ==
  ASSUME IInv, NEW o \in Owners, RevokeAll(o)
  PROVE  IInv'
<1> USE DEF IInv
<1> DEFINE late == {p \in Previews : rows[p] = o /\ entries[p] = None}
<1>1. o # None BY PreviewAssumption DEF PreviewAssumption
<1>2. /\ UNCHANGED <<dirs, expired, calls, visits, fetched, drawn, answered, faults, restarts>>
      /\ removals' = removals \cup OwnedBy(o) /\ overtaken' = overtaken \cup late
  BY DEF RevokeAll, browser
<1>3. \A p \in Previews : rows'[p] = IF rows[p] = o THEN None ELSE rows[p]
  BY DEF RevokeAll
<1>4. \A p \in Previews : entries'[p] = IF p \in OwnedBy(o) THEN None ELSE entries[p]
  BY DEF RevokeAll, Without
<1>5. TypeOK'
  <2>1. rows' \in [Previews -> Owners \cup {None}] BY DEF RevokeAll, TypeOK
  <2>2. entries' \in [Previews -> Leases \cup {None}] BY DEF RevokeAll, Without, TypeOK
  <2>3. OwnedBy(o) \subseteq Previews BY DEF OwnedBy, Listed
  <2>4. QED BY <1>2, <2>1, <2>2, <2>3 DEF TypeOK
<1>6. Listed' = Listed \ OwnedBy(o) BY <1>4 DEF Listed
<1>7. ASSUME NEW p \in Listed'
      PROVE p \in Listed /\ entries'[p] = entries[p] /\ rows'[p] = rows[p] /\ p \notin late
  <2>1. p \in Listed /\ p \notin OwnedBy(o) /\ p \in Previews BY <1>6 DEF Listed
  <2>2. entries[p].owner # o BY <2>1 DEF OwnedBy
  <2>3. rows[p] # o BY <1>1, <2>1, <2>2 DEF RowsInv
  <2>4. QED BY <1>3, <1>4, <2>1, <2>3
<1>8. ASSUME NEW p \in late
      PROVE p \in drawn
  <2>1. PICK c \in Calls : calls[c].pc = "rowed" /\ calls[c].p = p
    BY <1>1 DEF RowsInv, Listed
  <2>2. calls[c].p # None BY <2>1, PreviewAssumption DEF PreviewAssumption
  <2>3. QED BY <2>1, <2>2 DEF HandInv
<1>9. HandInv' BY <1>2 DEF HandInv
<1>10. MakingInv'
  <2> SUFFICES ASSUME NEW c \in Calls, calls'[c].pc \in Making
               PROVE LET p == calls'[c].p
                     IN  /\ p \in dirs' \ removals' /\ entries'[p] = None
                         /\ calls'[c].pc = "building" => rows'[p] = None /\ p \notin overtaken'
                         /\ calls'[c].pc = "rowed" /\ p \notin overtaken' => rows'[p] = Owner[c]
    BY DEF MakingInv
  <2>1. PICK p : p = calls[c].p OBVIOUS
  <2>2. calls'[c] = calls[c] BY <1>2
  <2>3. /\ p \in dirs \ removals /\ entries[p] = None
        /\ calls[c].pc = "building" => rows[p] = None /\ p \notin overtaken
        /\ calls[c].pc = "rowed" /\ p \notin overtaken => rows[p] = Owner[c]
    BY <2>1, <2>2 DEF MakingInv
  <2>4. p \in Previews /\ p \notin OwnedBy(o) BY <2>3 DEF TypeOK, OwnedBy, Listed
  <2>5. calls[c].pc = "building" => rows'[p] = None /\ p \notin overtaken'
    BY <1>1, <1>2, <1>3, <2>3, <2>4
  <2>6. calls[c].pc = "rowed" /\ p \notin overtaken' => rows'[p] = Owner[c]
    BY <1>2, <1>3, <2>3, <2>4
  <2>7. p \in dirs' \ removals' /\ entries'[p] = None BY <1>2, <1>4, <2>3, <2>4
  <2>8. QED BY <2>1, <2>2, <2>5, <2>6, <2>7
<1>11. RowsInv'
  <2>1. \A p \in Listed' : p \notin overtaken' => rows'[p] = entries'[p].owner
    BY <1>2, <1>7 DEF RowsInv
  <2>2. \A p \in overtaken' : rows'[p] = None BY <1>2, <1>3 DEF RowsInv, TypeOK
  <2>3. ASSUME NEW p \in Previews, rows'[p] # None
        PROVE p \in Listed' \/ \E c \in Calls : calls'[c].pc = "rowed" /\ calls'[c].p = p
    <3>1. rows[p] # None /\ rows[p] # o BY <1>3, <2>3
    <3>2. p \notin OwnedBy(o) BY <3>1 DEF OwnedBy, RowsInv
    <3>3. QED BY <1>2, <1>6, <3>1, <3>2 DEF RowsInv
  <2>4. QED BY <2>1, <2>2, <2>3 DEF RowsInv
<1>12. FilesInv'
  <2>1. Listed' \subseteq dirs' \ removals' BY <1>2, <1>6 DEF FilesInv
  <2>2. dirs' \subseteq Listed' \cup removals'
           \cup {p \in Previews : \E c \in Calls : calls'[c].pc \in Making /\ calls'[c].p = p}
    BY <1>2, <1>6 DEF FilesInv
  <2>3. OwnedBy(o) \subseteq drawn BY DEF OwnedBy, FilesInv
  <2>4. QED BY <1>2, <1>8, <2>1, <2>2, <2>3 DEF FilesInv
<1>13. LinkInv' BY <1>2, <1>7 DEF LinkInv
<1>14. CapInv'
  <2>1. ASSUME NEW u \in Owners
        PROVE Counted(u)' \subseteq Counted(u) /\ Coming(u)' \subseteq Coming(u)
    BY <1>2, <1>7 DEF Counted, OwnedBy, Coming, Of
  <2>2. QED BY <2>1, CapShrinks
<1>15. QED BY <1>5, <1>9, <1>10, <1>11, <1>12, <1>13, <1>14

(* What comes back has a row and a directory: it was listed, or a call was *)
(* about to list it, one preview for each of the calls that count.         *)
LEMMA RestartKeeps ==
  ASSUME IInv, Restart
  PROVE  IInv'
<1> USE DEF IInv
<1>1. /\ \A c \in Calls : calls'[c] = Idle
      /\ \A v \in Visitors : visits'[v] = None
      /\ removals' = {} /\ overtaken' = {} /\ dirs' = Restored
      /\ UNCHANGED <<expired, drawn, answered, fetched, faults>>
  BY DEF Restart
<1>2. ASSUME NEW p \in Restored
      PROVE /\ p \in Previews /\ entries'[p] \in Leases /\ rows'[p] = rows[p]
            /\ entries'[p].owner = rows[p]
            /\ ~entries'[p].activated /\ entries'[p].recovered
            /\ rows[p] \in Owners /\ p \in dirs /\ p \notin expired
  <2>1. p \in Previews /\ rows[p] \in Owners /\ p \in dirs /\ p \notin expired
    BY DEF Restored, TypeOK
  <2>2. entries'[p] = [owner |-> rows[p], session |-> FALSE, activated |-> FALSE,
                       recovered |-> TRUE]
    BY <2>1 DEF Restart
  <2>3. entries'[p] \in Leases BY <2>1, <2>2 DEF Leases
  <2>4. rows'[p] = rows[p] BY <2>1 DEF Restart
  <2>5. QED BY <2>1, <2>2, <2>3, <2>4
<1>3. \A p \in Previews : p \notin Restored => entries'[p] = None /\ rows'[p] = None
  BY DEF Restart
<1>4. Listed' = Restored
  BY <1>2, <1>3, PreviewAssumption DEF Listed, PreviewAssumption, Restored
<1>5. TypeOK'
  <2>1. entries' \in [Previews -> Leases \cup {None}]
    <3>1. DOMAIN entries' = Previews /\ entries' = [p \in Previews |-> entries'[p]]
      BY DEF Restart
    <3>2. QED BY <1>2, <1>3, <3>1
  <2>2. rows' \in [Previews -> Owners \cup {None}] BY DEF Restart, TypeOK
  <2>3. calls' \in [Calls -> [pc : Undrawn \cup Making \cup Probes \cup {"ready"},
                              p : Previews \cup {None}]]
    BY DEF Restart, Idle, Undrawn
  <2>4. visits' \in [Visitors -> Previews \cup {None}] BY DEF Restart
  <2>5. restarts' \in Nat BY DEF Restart, TypeOK
  <2>6. Restored \subseteq Previews BY DEF Restored
  <2>7. QED BY <1>1, <2>1, <2>2, <2>3, <2>4, <2>5, <2>6 DEF TypeOK
<1>6. HandInv' BY <1>1 DEF HandInv, Idle, Undrawn
<1>7. MakingInv' BY <1>1 DEF MakingInv, Idle, Making
<1>8. RowsInv' BY <1>1, <1>2, <1>3, <1>4 DEF RowsInv
<1>9. FilesInv'
  <2>1. Restored \subseteq drawn BY DEF Restored, FilesInv
  <2>2. QED BY <1>1, <1>4, <2>1 DEF FilesInv
<1>10. LinkInv' BY <1>1, <1>2, <1>4 DEF LinkInv, Idle
<1>11. CapInv'
  <2> SUFFICES ASSUME NEW o \in Owners
               PROVE (Cardinality(Counted(o)) + Cardinality(Coming(o))
                        < MaxPerCaller + Cardinality(Of(o)))'
    BY DEF CapInv
  <2> DEFINE f == [c \in Coming(o) |-> calls[c].p]
             brought == {f[c] : c \in Coming(o)}
  <2>1. /\ IsFiniteSet(Counted(o)) /\ Cardinality(Counted(o)) \in Nat
        /\ IsFiniteSet(Coming(o)) /\ Cardinality(Coming(o)) \in Nat
        /\ Cardinality(Of(o)) \in Nat /\ MaxPerCaller \in Nat
    BY FiniteCounts, PreviewAssumption DEF PreviewAssumption
  <2>2. IsFiniteSet(brought) /\ Cardinality(brought) <= Cardinality(Coming(o))
    <3>1. f \in Surjection(Coming(o), brought) BY DEF Surjection
    <3>2. QED BY <2>1, <3>1, FS_Surjection
  <2>3. Counted(o)' \subseteq Counted(o) \cup brought
    <3> SUFFICES ASSUME NEW p \in Counted(o)', p \notin Counted(o) PROVE p \in brought
      OBVIOUS
    <3>1. p \in Restored BY <1>4 DEF Counted, OwnedBy
    <3>2. rows[p] = o /\ p \in Previews /\ p \notin expired /\ p \in dirs /\ rows[p] # None
      BY <1>2, <3>1, PreviewAssumption DEF Counted, OwnedBy, PreviewAssumption
    <3>3. p \notin Listed BY <3>2 DEF RowsInv, Counted, OwnedBy
    <3>4. PICK c \in Calls : calls[c].pc = "rowed" /\ calls[c].p = p
      BY <3>2, <3>3 DEF RowsInv
    <3>5. p \notin overtaken BY <3>2 DEF RowsInv
    <3>6. Owner[c] = o BY <3>2, <3>4, <3>5 DEF MakingInv, Making
    <3>7. c \in Coming(o) BY <3>4, <3>6 DEF Coming, Of, Making
    <3>8. f[c] = p BY <3>4, <3>7
    <3>9. QED BY <3>7, <3>8
  <2> HIDE DEF brought
  <2>4. Cardinality(brought) \in Nat BY <2>2, FS_CardinalityType
  <2>5. /\ IsFiniteSet(Counted(o) \cup brought)
        /\ Cardinality(Counted(o) \cup brought) \in Nat
        /\ Cardinality(Counted(o) \cup brought) <= Cardinality(Counted(o)) + Cardinality(brought)
    <3>1. /\ IsFiniteSet(Counted(o) \cup brought)
          /\ Cardinality(Counted(o) \cup brought) =
               Cardinality(Counted(o)) + Cardinality(brought) - Cardinality(Counted(o) \cap brought)
      BY <2>1, <2>2, FS_Union
    <3>2. Cardinality(Counted(o) \cap brought) \in Nat
      BY <2>1, FS_Intersection, FS_CardinalityType
    <3>3. Cardinality(Counted(o) \cup brought) \in Nat BY <3>1, FS_CardinalityType
    <3>4. QED BY <2>1, <2>4, <3>1, <3>2, <3>3
  <2>6. Cardinality(Counted(o)') <= Cardinality(Counted(o) \cup brought)
        /\ Cardinality(Counted(o)') \in Nat
    BY <2>3, <2>5, FS_Subset, FS_CardinalityType
  <2>7. Coming(o)' = {} BY <1>1 DEF Coming, Of, Idle, Making
  <2>8. Cardinality(Coming(o)') = 0 BY <2>7, FS_EmptySet
  <2>9. Of(o)' = Of(o) BY DEF Of
  <2>10. Cardinality(Counted(o)) + Cardinality(Coming(o)) < MaxPerCaller + Cardinality(Of(o))
    BY DEF CapInv
  <2>11. QED BY <2>1, <2>2, <2>4, <2>5, <2>6, <2>8, <2>9, <2>10
<1>12. QED BY <1>5, <1>6, <1>7, <1>8, <1>9, <1>10, <1>11

-----------------------------------------------------------------------------
LEMMA NextKeeps ==
  ASSUME IInv, [Next]_vars
  PROVE  IInv'
<1>1. ASSUME NEW c \in Calls, Create(c) PROVE IInv'
  <2>1. CASE BuildFails(c)
    BY <2>1, GiveUpKeeps DEF BuildFails, IInv, TypeOK
  <2>2. QED
    BY <1>1, <2>1, SweepKeeps, AdmitKeeps, StartKeeps, PutRowKeeps, PutEntryKeeps, AnswerKeeps,
       ProbesKeep, ProbeFailsKeeps
    DEF Create
<1>2. CASE UNCHANGED vars
  <2>1. UNCHANGED shared BY <1>2 DEF vars, shared
  <2>2. \A c \in Calls : Yields(c) BY <1>2 DEF vars, Yields
  <2>3. UNCHANGED <<calls, browser, drawn, answered, overtaken, faults, restarts>>
    BY <1>2 DEF vars, browser
  <2>4. QED BY <2>1, <2>2, <2>3, NothingGoes, RemovingKeeps DEF IInv, TypeOK
<1>3. QED
  BY <1>1, <1>2, RemoveDirKeeps, DropsKeep, OpenEntryKeeps, ExpireKeeps, CompareKeeps,
     ServeKeeps, RevokeAllKeeps, RestartKeeps
  DEF Next

(* The types, and what entries, rows, directories, calls and marks say of  *)
(* each other, hold in every reachable state of the preview store.         *)
THEOREM LeaseInvariant == Spec => []IInv
  BY InitIInv, NextKeeps, PTL DEF Spec

(* The caps of create_preview, read before the build, are exceeded by no   *)
(* more than the calls in flight; no step of Store.Put, Revoke, RevokeAll, *)
(* the sweep or NewPersistent leaves an entry, a row or a directory that   *)
(* nobody accounts for.                                                    *)
THEOREM LeasesAccounted == Spec => []LeasesAreAccountedFor
<1>1. ASSUME IInv PROVE SoftCap
  <2> SUFFICES ASSUME NEW o \in Owners
               PROVE Cardinality(OwnedBy(o) \ expired)
                       < MaxPerCaller + Cardinality({c \in Calls : Owner[c] = o})
    BY DEF SoftCap
  <2>1. Cardinality(Counted(o)) + Cardinality(Coming(o)) < MaxPerCaller + Cardinality(Of(o))
    BY <1>1 DEF IInv, CapInv
  <2>2. /\ Cardinality(Counted(o)) \in Nat /\ Cardinality(Coming(o)) \in Nat
        /\ Cardinality(Of(o)) \in Nat /\ MaxPerCaller \in Nat
    BY <1>1, FiniteCounts, PreviewAssumption DEF IInv, PreviewAssumption
  <2>3. Cardinality(Counted(o)) < MaxPerCaller + Cardinality(Of(o)) BY <2>1, <2>2
  <2>4. QED BY <2>3 DEF Counted, Of
<1>2. ASSUME IInv PROVE EntriesOwnTheirFiles
  <2>1. \A p \in Previews : (\E c \in Calls : calls[c].pc \in Making /\ calls[c].p = p)
                              => p \in InHand
    BY DEF InHand
  <2>2. \A p \in Listed : p \in dirs BY <1>2 DEF IInv, FilesInv
  <2>3. \A p \in Listed : p \notin overtaken => rows[p] = entries[p].owner
    BY <1>2 DEF IInv, RowsInv
  <2>4. \A p \in Previews : rows[p] # None => p \in Listed \cup InHand
    BY <1>2, <2>1 DEF IInv, RowsInv, InHand
  <2>5. ExpiredPreviewResidue \ InHand \subseteq (Listed \cap expired) \cup removals
    BY <1>2, <2>1 DEF IInv, FilesInv, ExpiredPreviewResidue, Active
  <2>6. QED BY <2>2, <2>3, <2>4, <2>5 DEF EntriesOwnTheirFiles
<1>3. IInv => LeasesAreAccountedFor BY <1>1, <1>2 DEF LeasesAreAccountedFor
<1>4. QED BY <1>3, LeaseInvariant, PTL

(* An entry URL handed out by create_preview opens until a browser comes   *)
(* back with its session, whatever the probe did with its own, and never   *)
(* after, not after a restart either.                                      *)
THEOREM LinksOpen == Spec => []LinksOpenOnce
<1>1. ASSUME IInv PROVE EntryStaysUsable
  <2> SUFFICES ASSUME NEW o \in Owners,
                      NEW p \in (answered \cap ListPreviews(o)) \ fetched
               PROVE Exchangeable(p)
    BY DEF EntryStaysUsable
  <2>1. PICK j \in ListOwned(o) : j.access_status = "active" /\ j.id = p BY DEF ListPreviews
  <2>2. PICK q \in OwnedBy(o) \ expired :
          j = [id |-> q, access_status |-> PreviewAccessStatus(entries[q])]
    BY DEF ListOwned
  <2>3. q = p /\ PreviewAccessStatus(entries[p]) = "active" BY <2>1, <2>2
  <2>4. ~entries[p].recovered BY <2>3 DEF PreviewAccessStatus
  <2>5. p \in Listed /\ p \in Active BY <2>2, <2>3 DEF OwnedBy, Active
  <2>6. ~entries[p].activated BY <1>1, <2>5 DEF IInv, LinkInv
  <2>7. QED BY <2>4, <2>5, <2>6 DEF Exchangeable
<1>2. IInv => LinkIsSpent BY DEF IInv, LinkInv, LinkIsSpent, Exchangeable
<1>3. IInv => LinksOpenOnce BY <1>1, <1>2 DEF LinksOpenOnce
<1>4. QED BY <1>3, LeaseInvariant, PTL

(* A preview whose entry is gone and that no call has in hand never comes  *)
(* back: NewPersistent restores from rows, and a row without an entry is   *)
(* in somebody's hands.                                                    *)
THEOREM GoneForGood == Spec => GoneStaysGone
<1>1. ASSUME IInv, Next
      PROVE \A p \in drawn \ (Listed \cup InHand) : entries'[p] = None
  <2> SUFFICES ASSUME NEW p \in drawn, p \notin Listed, p \notin InHand
               PROVE entries'[p] = None
    OBVIOUS
  <2>1. p \in Previews /\ entries[p] = None BY <1>1 DEF IInv, TypeOK, Listed
  <2>2. \A c \in Calls : calls[c].p # p BY DEF InHand
  <2>3. CASE Restart
    <3>1. rows[p] = None BY <1>1, <2>1, <2>2 DEF IInv, RowsInv
    <3>2. QED BY <2>1, <2>3, <3>1 DEF Restart, Restored
  <2>4. ASSUME NEW gone, Drop(gone) PROVE entries'[p] = None
    BY <2>1, <2>4 DEF Drop, Without
  <2>5. ASSUME NEW q \in Listed, NEW e, entries' = [entries EXCEPT ![q] = e]
        PROVE entries'[p] = None
    BY <2>1, <2>5
  <2>6. ASSUME NEW c \in Calls, Create(c) PROVE entries'[p] = None
    <3>1. CASE SweepFirst(c) BY <2>4, <3>1 DEF SweepFirst
    <3>2. CASE CheckCaps(c) \/ Answer(c) BY <2>1, <3>2 DEF CheckCaps, Answer, shared
    <3>3. CASE BuildFails(c) \/ PutRow(c) \/ \E q \in Previews : StartBuild(c, q)
      BY <2>1, <3>3 DEF BuildFails, PutRow, StartBuild
    <3>4. CASE PutEntry(c)
      <4>1. entries' = [entries EXCEPT ![calls[c].p] = NewEntry(c)] BY <3>4 DEF PutEntry
      <4>2. QED BY <1>1, <2>1, <2>2, <4>1 DEF IInv, TypeOK
    <3>5. CASE ProbeExchange(c) \/ ProbeFetch(c) \/ ProbeReset(c)
      BY <1>1, <2>1, <2>2, <3>5
      DEF ProbeExchange, ProbeFetch, ProbeReset, Establish, IInv, TypeOK
    <3>6. CASE ProbeFails(c)
      BY <1>1, <2>1, <2>2, <2>4, <3>6 DEF ProbeFails, shared, IInv, TypeOK
    <3>7. QED BY <2>6, <3>1, <3>2, <3>3, <3>4, <3>5, <3>6 DEF Create
  <2>7. ASSUME NEW q \in Previews,
               RemoveDir(q) \/ DropExpired(q) \/ OpenEntry(q) \/ Revoke(q) \/ Expire(q)
        PROVE entries'[p] = None
    <3>1. CASE OpenEntry(q)
      <4>1. q \in Listed BY <3>1 DEF OpenEntry, Exchangeable, Active
      <4>2. QED BY <1>1, <2>1, <3>1, <4>1 DEF OpenEntry, Establish, IInv, TypeOK
    <3>2. QED BY <2>1, <2>4, <2>7, <3>1 DEF RemoveDir, DropExpired, Revoke, Expire
  <2>8. ASSUME NEW v \in Visitors, FetchServe(v) \/ \E q \in Previews : FetchCompare(v, q)
        PROVE entries'[p] = None
    BY <1>1, <2>1, <2>8 DEF FetchServe, FetchCompare, shared, IInv, TypeOK
  <2>9. ASSUME NEW o \in Owners, RevokeAll(o) PROVE entries'[p] = None
    BY <2>1, <2>9 DEF RevokeAll, Without
  <2>10. QED BY <1>1, <2>3, <2>6, <2>7, <2>8, <2>9 DEF Next
<1>2. IInv /\ [Next]_vars =>
        [\A p \in drawn \ (Listed \cup InHand) : entries'[p] = None]_vars
  BY <1>1
<1>3. QED BY <1>2, LeaseInvariant, PTL DEF Spec, GoneStaysGone

-----------------------------------------------------------------------------
(***************************************************************************)
(* Both properties of the upgrade manager, for any set of releases and any *)
(* number of faults.  The link may be put back by the error path of a      *)
(* failed record, and moved back by a rollback days later: what it is      *)
(* moved to must have been fit to run all the time in between.  So the     *)
(* invariant says of every place the old version is kept (the call in      *)
(* flight, the activation record) what it says of the link.                *)
(***************************************************************************)
Version0 == Versions \cup {Absent}
Sum0 == {"official", "altered", Absent}

(* A call that activates, and one that goes back.                          *)
Forward == [pc : {"swap", "record"}, v : Versions, old : Version0, sum : Sum0]
Backward == [pc : {"back", "forget"}, v : Versions]

HugoTypeOK ==
    /\ binary \in [Versions -> Sum0]
    /\ link \in Version0
    /\ record \in [active : Version0, prev : Version0, sum : Sum0]
    /\ op \in {NoCall} \cup Forward \cup Backward
    /\ adopted \subseteq Versions
    /\ moves \subseteq Versions \X Versions
    /\ upgradeFaults \in Nat

(* What may be run: the official binary, or one that was altered under the *)
(* link.                                                                   *)
Known(v) == v \in Staged /\ (binary[v] = "official" \/ v \in adopted)

(* A digest taken of version v when it was the active one.                 *)
TakenOf(v, sum) == sum = "official" \/ v \in adopted

HugoLinkInv == link # Absent => Known(link)

(* An activation in flight: the new binary is official, the old one the    *)
(* one the link points at or pointed at.                                   *)
ForwardInv ==
    op.pc \in {"swap", "record"} =>
        /\ binary[op.v] = "official"
        /\ op.old # Absent => Known(op.old) /\ TakenOf(op.old, op.sum)
        /\ op.pc = "swap" => op.old = link
        /\ op.pc = "record" =>
              /\ link = op.v
              /\ op.old \notin {Absent, op.v} => <<op.old, op.v>> \in moves

(* A rollback in flight is the one the record describes.                   *)
BackwardInv ==
    op.pc \in {"back", "forget"} =>
        /\ op.v = record.prev
        /\ Known(record.prev)
        /\ op.pc = "back" => link = record.active
        /\ record.active # Absent => Known(record.active)

(* What the record says was replaced was replaced, and hashed then.        *)
RecordInv ==
    record.prev # Absent =>
        /\ TakenOf(record.prev, record.sum)
        /\ record.prev # record.active => <<record.prev, record.active>> \in moves

UpgradeInv == HugoTypeOK /\ HugoLinkInv /\ ForwardInv /\ BackwardInv /\ RecordInv

-----------------------------------------------------------------------------
(* Before the first activation there is no link and no record.             *)
LEMMA InitUpgradeInv == HugoInit => UpgradeInv
  BY HugoAssumption
  DEF HugoAssumption, HugoInit, UpgradeInv, HugoTypeOK, HugoLinkInv, ForwardInv,
      BackwardInv, RecordInv, NoRecord, NoCall, Version0, Sum0

(* Between two calls nothing is in flight.                                 *)
LEMMA IdlePc == NoCall.pc = "idle" /\ NoCall \notin Forward /\ NoCall \notin Backward
  BY DEF NoCall, Forward, Backward

(* What a call that ended leaves behind: its parts hold vacuously.         *)
LEMMA UpgradeEnded ==
  ASSUME op' = NoCall
  PROVE  ForwardInv' /\ BackwardInv'
  BY IdlePc DEF ForwardInv, BackwardInv

(* The version that hugo reports is one of the releases.                   *)
LEMMA InstalledVersion == HugoTypeOK => Installed \in Versions
  BY HugoAssumption DEF HugoAssumption, HugoTypeOK, Installed, Version0

(* A newly staged version is known once its binary is the official one,    *)
(* and staging disturbs no other.                                          *)
LEMMA PromoteKeeps ==
  ASSUME NEW v \in Versions, NEW r \in Answers[v], HugoTypeOK, Promote(v, r),
         adopted' = adopted
  PROVE  /\ binary' \in [Versions -> Sum0]
         /\ binary'[v] = "official"
         /\ \A w : Known(w) => Known(w)'
<1>1. r.origin = "official"
  <2>1. Answers[v] = {q \in Releases : Accepted(v, q)} BY DEF Answers
  <2>2. Accepted(v, r) BY <2>1
  <2>3. QED BY <2>2 DEF Accepted, ChecksumAgrees
<1>2. binary' = [binary EXCEPT ![v] = "official"] BY <1>1 DEF Promote
<1>3. v \notin Staged BY DEF Promote
<1>4. binary' \in [Versions -> Sum0] /\ binary'[v] = "official"
  BY <1>2 DEF HugoTypeOK, Sum0
<1>5. ASSUME NEW w, Known(w) PROVE Known(w)'
  <2>1. w # v /\ w \in Versions BY <1>3, <1>5 DEF Known, Staged
  <2>2. binary'[w] = binary[w] BY <1>2, <2>1 DEF HugoTypeOK
  <2>3. QED BY <1>5, <2>1, <2>2 DEF Known, Staged
<1>6. QED BY <1>4, <1>5

(* From the first check on, an activation knows what it replaces.          *)
LEMMA ActivatingInv ==
  ASSUME NEW v \in Versions, HugoTypeOK, HugoLinkInv, op' = Activating(v), binary'[v] = "official",
         UNCHANGED <<link, adopted>>, \A w : Known(w) => Known(w)'
  PROVE  op' \in Forward /\ ForwardInv' /\ BackwardInv'
<1>1. /\ op'.pc = "swap" /\ op'.v = v /\ op'.old = link
      /\ op'.sum = IF link = Absent THEN Absent ELSE binary[link]
  BY DEF Activating
<1>2. op' \in Forward
  BY DEF Activating, Forward, HugoTypeOK, Version0, Sum0
<1>3. link # Absent => Known(link)' /\ TakenOf(link, op.sum)'
  BY <1>1 DEF HugoLinkInv, Known, TakenOf
<1>4. QED BY <1>1, <1>2, <1>3 DEF ForwardInv, BackwardInv

(* The types, one case per action.                                         *)
LEMMA UpgradeTypeStep == HugoTypeOK /\ [HugoNext]_hugoVars => HugoTypeOK'
<1> SUFFICES ASSUME HugoTypeOK, [HugoNext]_hugoVars PROVE HugoTypeOK' OBVIOUS
<1> USE DEF Version0
<1>1. ASSUME NEW v \in Versions, Activate(v) PROVE HugoTypeOK'
  BY <1>1 DEF Activate, Activating, HugoTypeOK, Forward, Sum0
<1>2. ASSUME NEW v \in Versions, Alter(v) PROVE HugoTypeOK'
  <2>1. /\ upgradeFaults' \in Nat
        /\ UNCHANGED <<link, record, op, moves>>
    BY <1>2 DEF Alter, FaultHits, HugoTypeOK
  <2>2. binary' \in [Versions -> Sum0] BY <1>2 DEF Alter, HugoTypeOK, Sum0
  <2>3. adopted' \subseteq Versions BY <1>2 DEF Alter, HugoTypeOK
  <2>4. QED BY <2>1, <2>2, <2>3 DEF HugoTypeOK
<1>3. ASSUME NEW v \in Versions, PruneVersion(v) PROVE HugoTypeOK'
  BY <1>3 DEF PruneVersion, FaultHits, HugoTypeOK, Sum0
<1>4. ASSUME NEW v \in Versions, NEW r \in Answers[v], Stage(v, r) PROVE HugoTypeOK'
  BY <1>4, PromoteKeeps DEF Stage, HugoTypeOK
<1>5. ASSUME NEW r \in Answers[Installed], Bootstrap(r) PROVE HugoTypeOK'
  <2>1. Installed \in Versions BY InstalledVersion
  <2>2. binary' \in [Versions -> Sum0] BY <1>5, <2>1, PromoteKeeps DEF Bootstrap
  <2>3. op' \in Forward BY <1>5, <2>1 DEF Bootstrap, Activating, HugoTypeOK,
                                          Forward, Sum0
  <2>4. QED BY <1>5, <2>2, <2>3 DEF Bootstrap, HugoTypeOK
<1>6. ASSUME Swap PROVE HugoTypeOK'
  <2>1. op \in Forward BY <1>6, IdlePc DEF Swap, HugoTypeOK, Backward
  <2>2. op' \in {NoCall} \cup Forward BY <1>6, <2>1 DEF Swap, Forward
  <2>3. link' \in Version0 /\ moves' \subseteq Versions \X Versions
    BY <1>6, <2>1 DEF Swap, HugoTypeOK, Forward
  <2>4. QED BY <1>6, <2>2, <2>3 DEF Swap, FaultHits, HugoTypeOK
<1>7. ASSUME Record PROVE HugoTypeOK'
  <2>1. op \in Forward BY <1>7, IdlePc DEF Record, HugoTypeOK, Backward
  <2>2. QED BY <1>7, <2>1 DEF Record, FaultHits, HugoTypeOK, Forward
<1>8. ASSUME Rollback PROVE HugoTypeOK'
  <2>1. record.prev \in Versions BY <1>8 DEF Rollback, PreviousIntact, Staged
  <2>2. QED BY <1>8, <2>1 DEF Rollback, HugoTypeOK, Backward
<1>9. ASSUME SwapBack PROVE HugoTypeOK'
  <2>1. op \in Backward BY <1>9, IdlePc DEF SwapBack, HugoTypeOK, Forward
  <2>2. QED BY <1>9, <2>1 DEF SwapBack, FaultHits, HugoTypeOK, Backward
<1>10. ASSUME Forget PROVE HugoTypeOK'
  BY <1>10 DEF Forget, FaultHits, HugoTypeOK, NoRecord, Sum0
<1>11. ASSUME Crash PROVE HugoTypeOK'
  BY <1>11 DEF Crash, FaultHits, HugoTypeOK
<1>12. ASSUME UNCHANGED hugoVars PROVE HugoTypeOK'
  BY <1>12 DEF hugoVars, HugoTypeOK
<1>13. QED
  BY <1>1, <1>2, <1>3, <1>4, <1>5, <1>6, <1>7, <1>8, <1>9, <1>10, <1>11, <1>12 DEF HugoNext

(* Stepping from one place the old version is kept to the next.            *)
LEMMA StepUpgradeInv == UpgradeInv /\ [HugoNext]_hugoVars => UpgradeInv'
<1> SUFFICES ASSUME UpgradeInv, [HugoNext]_hugoVars
             PROVE  HugoLinkInv' /\ ForwardInv' /\ BackwardInv' /\ RecordInv'
  BY UpgradeTypeStep DEF UpgradeInv
<1> USE DEF UpgradeInv
<1>1. ASSUME NEW v \in Versions, Activate(v)
      PROVE  HugoLinkInv' /\ ForwardInv' /\ BackwardInv' /\ RecordInv'
  <2>1. \A w : Known(w) => Known(w)' BY <1>1 DEF Activate, Known, Staged
  <2>2. binary'[v] = "official" BY <1>1 DEF Activate, Verified
  <2>3. ForwardInv' /\ BackwardInv' BY <1>1, <2>1, <2>2, ActivatingInv DEF Activate
  <2>4. QED BY <1>1, <2>1, <2>3 DEF Activate, HugoLinkInv, RecordInv, TakenOf
<1>2. ASSUME NEW v \in Versions, Alter(v)
      PROVE  HugoLinkInv' /\ ForwardInv' /\ BackwardInv' /\ RecordInv'
  <2>1. /\ binary' = [binary EXCEPT ![v] = "altered"]
        /\ adopted \subseteq adopted' /\ (link = v => v \in adopted')
        /\ UNCHANGED <<link, record, op, moves>> /\ op = NoCall
    BY <1>2 DEF Alter
  <2>2. HugoLinkInv'
    <3>1. ASSUME link # Absent PROVE Known(link)'
      <4>1. Known(link) BY <3>1 DEF HugoLinkInv
      <4>2. binary'[link] = IF link = v THEN "altered" ELSE binary[link]
        BY <2>1, <4>1 DEF HugoTypeOK, Known, Staged
      <4>3. binary'[link] # Absent
        <5>1. CASE link = v
          BY <5>1, <4>2, HugoAssumption DEF HugoAssumption
        <5>2. CASE link # v BY <5>2, <4>1, <4>2 DEF Known, Staged
        <5>3. QED BY <5>1, <5>2
      <4>4. QED BY <2>1, <4>1, <4>2, <4>3 DEF Known, Staged
    <3>2. QED BY <3>1, <2>1 DEF HugoLinkInv
  <2>3. QED BY <2>1, <2>2, UpgradeEnded DEF RecordInv, TakenOf
<1>3. ASSUME NEW v \in Versions, PruneVersion(v)
      PROVE  HugoLinkInv' /\ ForwardInv' /\ BackwardInv' /\ RecordInv'
  <2>1. /\ binary' = [binary EXCEPT ![v] = Absent] /\ v # link
        /\ UNCHANGED <<link, record, op, adopted, moves>> /\ op = NoCall
    BY <1>3 DEF PruneVersion
  <2>2. HugoLinkInv' BY <2>1 DEF HugoLinkInv, Known, Staged, HugoTypeOK
  <2>3. QED BY <2>1, <2>2, UpgradeEnded DEF RecordInv, TakenOf
<1>4. ASSUME NEW v \in Versions, NEW r \in Answers[v], Stage(v, r)
      PROVE  HugoLinkInv' /\ ForwardInv' /\ BackwardInv' /\ RecordInv'
  <2>1. \A w : Known(w) => Known(w)' BY <1>4, PromoteKeeps DEF Stage
  <2>2. UNCHANGED <<link, record, op, adopted, moves>> /\ op = NoCall BY <1>4 DEF Stage
  <2>3. QED BY <2>1, <2>2, UpgradeEnded DEF HugoLinkInv, RecordInv, TakenOf
<1>5. ASSUME NEW r \in Answers[Installed], Bootstrap(r)
      PROVE  HugoLinkInv' /\ ForwardInv' /\ BackwardInv' /\ RecordInv'
  <2>1. Installed \in Versions BY InstalledVersion
  <2>2. (\A w : Known(w) => Known(w)') /\ binary'[Installed] = "official"
    BY <1>5, <2>1, PromoteKeeps DEF Bootstrap
  <2>3. ForwardInv' /\ BackwardInv' BY <1>5, <2>1, <2>2, ActivatingInv DEF Bootstrap
  <2>4. QED BY <1>5, <2>2, <2>3 DEF Bootstrap, HugoLinkInv, RecordInv, TakenOf
<1>6. ASSUME Swap
      PROVE  HugoLinkInv' /\ ForwardInv' /\ BackwardInv' /\ RecordInv'
  <2>1. op \in Forward /\ op.pc = "swap" BY <1>6, IdlePc DEF Swap, HugoTypeOK, Backward
  <2>2. UNCHANGED <<binary, record, adopted>> /\ moves \subseteq moves'
    BY <1>6 DEF Swap
  <2>3. \A w : Known(w)' <=> Known(w) BY <2>2 DEF Known, Staged
  <2>4. RecordInv' BY <2>2 DEF RecordInv, TakenOf
  <2>5. CASE op' = NoCall /\ link' = link
    BY <2>3, <2>4, <2>5, UpgradeEnded DEF HugoLinkInv
  <2>6. CASE /\ link' = op.v /\ op' = [op EXCEPT !.pc = "record"]
             /\ moves' = IF link \in {Absent, op.v} THEN moves ELSE moves \cup {<<link, op.v>>}
    <3>1. /\ op'.pc = "record" /\ op'.v = op.v /\ op'.old = op.old /\ op'.sum = op.sum
      BY <2>1, <2>6 DEF Forward
    <3>2. op.old = link /\ binary[op.v] = "official" BY <2>1 DEF ForwardInv
    <3>3. Known(op.v)
      <4>1. op.v \in Versions /\ op.v # Absent BY <2>1, HugoAssumption DEF Forward, HugoAssumption
      <4>2. QED BY <3>2, <4>1, HugoAssumption DEF HugoAssumption, Known, Staged
    <3>4. HugoLinkInv' BY <2>3, <2>6, <3>3 DEF HugoLinkInv
    <3>5. ForwardInv' BY <2>1, <2>2, <2>3, <2>6, <3>1, <3>2 DEF ForwardInv, TakenOf
    <3>6. BackwardInv' BY <3>1 DEF BackwardInv
    <3>7. QED BY <2>4, <3>4, <3>5, <3>6
  <2>7. QED BY <1>6, <2>5, <2>6 DEF Swap
<1>7. ASSUME Record
      PROVE  HugoLinkInv' /\ ForwardInv' /\ BackwardInv' /\ RecordInv'
  <2>1. op \in Forward /\ op.pc = "record" BY <1>7, IdlePc DEF Record, HugoTypeOK,
                                                               Backward
  <2>2. UNCHANGED <<binary, adopted, moves>> /\ op' = NoCall BY <1>7 DEF Record
  <2>3. \A w : Known(w)' <=> Known(w) BY <2>2 DEF Known, Staged
  <2>4. /\ link = op.v
        /\ op.old # Absent => Known(op.old) /\ TakenOf(op.old, op.sum)
        /\ op.old \notin {Absent, op.v} => <<op.old, op.v>> \in moves
    BY <2>1 DEF ForwardInv
  <2>5. link' \in {link, op.old} BY <1>7 DEF Record
  <2>6. HugoLinkInv' BY <2>3, <2>4, <2>5 DEF HugoLinkInv
  <2>7. RecordInv' BY <1>7, <2>2, <2>4 DEF Record, RecordInv, TakenOf
  <2>8. QED BY <2>2, <2>6, <2>7, UpgradeEnded
<1>8. ASSUME Rollback
      PROVE  HugoLinkInv' /\ ForwardInv' /\ BackwardInv' /\ RecordInv'
  <2>1. /\ record.prev # Absent /\ link = record.active
        /\ record.prev \in Staged /\ binary[record.prev] = record.sum
        /\ op' = [pc |-> "back", v |-> record.prev]
        /\ UNCHANGED <<binary, link, record, adopted, moves>>
    BY <1>8 DEF Rollback, Matches, PreviousIntact
  <2>2. Known(record.prev) BY <2>1 DEF RecordInv, TakenOf, Known
  <2>3. record.active # Absent => Known(record.active) BY <2>1 DEF HugoLinkInv
  <2>4. op'.pc = "back" /\ op'.v = record.prev BY <2>1
  <2>5. \A w : Known(w)' <=> Known(w) BY <2>1 DEF Known, Staged
  <2>6. ForwardInv' BY <2>4 DEF ForwardInv
  <2>7. BackwardInv' BY <2>1, <2>2, <2>3, <2>4, <2>5 DEF BackwardInv
  <2>8. QED BY <2>1, <2>5, <2>6, <2>7 DEF HugoLinkInv, RecordInv, TakenOf
<1>9. ASSUME SwapBack
      PROVE  HugoLinkInv' /\ ForwardInv' /\ BackwardInv' /\ RecordInv'
  <2>1. op \in Backward /\ op.pc = "back" BY <1>9, IdlePc DEF SwapBack, HugoTypeOK,
                                                              Forward
  <2>2. UNCHANGED <<binary, record, adopted, moves>> BY <1>9 DEF SwapBack
  <2>3. \A w : Known(w)' <=> Known(w) BY <2>2 DEF Known, Staged
  <2>4. RecordInv' BY <2>2 DEF RecordInv, TakenOf
  <2>5. CASE op' = NoCall /\ link' = link
    BY <2>3, <2>4, <2>5, UpgradeEnded DEF HugoLinkInv
  <2>6. CASE link' = op.v /\ op' = [op EXCEPT !.pc = "forget"]
    <3>1. op'.pc = "forget" /\ op'.v = op.v BY <2>1, <2>6 DEF Backward
    <3>2. HugoLinkInv' BY <2>1, <2>3, <2>6 DEF HugoLinkInv, BackwardInv
    <3>3. ForwardInv' BY <3>1 DEF ForwardInv
    <3>4. BackwardInv' BY <2>1, <2>2, <2>3, <3>1 DEF BackwardInv
    <3>5. QED BY <2>4, <3>2, <3>3, <3>4
  <2>7. QED BY <1>9, <2>5, <2>6 DEF SwapBack
<1>10. ASSUME Forget
      PROVE  HugoLinkInv' /\ ForwardInv' /\ BackwardInv' /\ RecordInv'
  <2>1. UNCHANGED <<binary, adopted, moves>> /\ op' = NoCall BY <1>10 DEF Forget
  <2>2. \A w : Known(w)' <=> Known(w) BY <2>1 DEF Known, Staged
  <2>3. HugoLinkInv' BY <1>10, <2>2 DEF Forget, HugoLinkInv, BackwardInv
  <2>4. RecordInv' BY <1>10, <2>1 DEF Forget, RecordInv, NoRecord, TakenOf
  <2>5. QED BY <2>1, <2>3, <2>4, UpgradeEnded
<1>11. ASSUME Crash
      PROVE  HugoLinkInv' /\ ForwardInv' /\ BackwardInv' /\ RecordInv'
  BY <1>11, UpgradeEnded DEF Crash, HugoLinkInv, RecordInv, Known, Staged, TakenOf
<1>12. ASSUME UNCHANGED hugoVars
      PROVE  HugoLinkInv' /\ ForwardInv' /\ BackwardInv' /\ RecordInv'
  BY <1>12 DEF hugoVars, HugoLinkInv, ForwardInv, BackwardInv, RecordInv, Known,
               Staged, TakenOf
<1>13. QED
  BY <1>1, <1>2, <1>3, <1>4, <1>5, <1>6, <1>7, <1>8, <1>9, <1>10, <1>11, <1>12 DEF HugoNext

-----------------------------------------------------------------------------
(* Every place an old version is kept names one that may be run.           *)
THEOREM UpgradeInvariant == HugoSpec => []UpgradeInv
<1>1. HugoInit => UpgradeInv BY InitUpgradeInv
<1>2. UpgradeInv /\ [HugoNext]_hugoVars => UpgradeInv' BY StepUpgradeInv
<1>3. QED BY <1>1, <1>2, PTL DEF HugoSpec

(* Activation, its error path, rollback and its error path move the link   *)
(* only to a binary that is the official one or was altered while active,  *)
(* however many calls, failures and crashes lie between.                   *)
THEOREM KnownBinaries == HugoSpec => OnlyKnownBinaries
<1>1. UpgradeInv /\ UpgradeInv' /\ [HugoNext]_hugoVars
        => [link' \notin {link, Absent} =>
              link' \in Staged' /\ (binary'[link'] = "official" \/ link' \in adopted)]_hugoVars
  <2> SUFFICES ASSUME UpgradeInv, UpgradeInv', [HugoNext]_hugoVars, link' \notin {link, Absent}
               PROVE  link' \in Staged' /\ (binary'[link'] = "official" \/ link' \in adopted)
    OBVIOUS
  <2>1. Known(link)' BY DEF UpgradeInv, HugoLinkInv
  <2>2. adopted' = adopted
    BY DEF HugoNext, hugoVars, Activate, Alter, PruneVersion, Stage,
           Bootstrap, Swap, Record,
           Rollback, SwapBack, Forget, Crash
  <2>3. QED BY <2>1, <2>2 DEF Known
<1>2. QED BY <1>1, UpgradeInvariant, PTL DEF HugoSpec, OnlyKnownBinaries

(* A rollback leads from the active version to the one it had replaced,    *)
(* whatever failed or crashed between the link's move and the record's.    *)
THEOREM RollbackUndoes == HugoSpec => RollbackUndoesAMove
<1>1. UpgradeInv /\ [HugoNext]_hugoVars
        => [op.pc = "back" /\ link' # link => <<link', link>> \in moves]_hugoVars
  <2> SUFFICES ASSUME UpgradeInv, [HugoNext]_hugoVars, op.pc = "back", link' # link
               PROVE  <<link', link>> \in moves
    OBVIOUS
  <2>1. op # NoCall BY IdlePc
  <2>2. SwapBack
    BY <2>1 DEF HugoNext, hugoVars, Activate, Alter, PruneVersion,
                Stage, Bootstrap, Swap, Record,
                Rollback, SwapBack, Forget, Crash
  <2>3. link' = record.prev /\ link = record.active /\ Known(record.prev)
    BY <2>2 DEF SwapBack, UpgradeInv, BackwardInv
  <2>4. record.prev # Absent BY <2>3, HugoAssumption DEF Known, Staged, HugoAssumption
  <2>5. QED BY <2>3, <2>4 DEF UpgradeInv, RecordInv
<1>2. QED BY <1>1, UpgradeInvariant, PTL DEF HugoSpec, RollbackUndoesAMove

-----------------------------------------------------------------------------
(***************************************************************************)
(* Content plans and snapshots.  No edit is lost, and the index has the    *)
(* tags of the page, for every number of callers, plans and calls.  Both   *)
(* arguments are about the lock: from the comparison of the revision to    *)
(* its last step a call holds it, and every writer holds it.               *)
(***************************************************************************)
Fields == {"pc", "kind", "who", "plan", "at", "expected", "to", "retags"}

(* The calls are records of the fields Begin fills in.                     *)
Shape == DOMAIN call = PlanCalls /\ \A k \in PlanCalls : DOMAIN call[k] = Fields

(* A call past the comparison holds the lock.                              *)
Holds == \A k \in PlanCalls : call[k].pc \in {"write", "consume", "sync"} => lock = k

(* Until it has written, the page is still what it was compared with.      *)
Guarded == \A k \in PlanCalls : call[k].pc = "write" => file = call[k].expected

Safe == Shape /\ Holds /\ Guarded

-----------------------------------------------------------------------------
(* The initial states are safe: no call is in flight.                      *)
LEMMA InitSafe == PlansInit => Safe
  BY DEF PlansInit, Safe, Shape, Holds, Guarded, Unbegun, Fields

(* A call that begins has taken no lock and changes no page.               *)
LEMMA BeginSafe ==
  ASSUME NEW k \in PlanCalls, NEW r, DOMAIN r = Fields, Safe, Begin(k, r)
  PROVE  Safe'
<1>1. call' = [call EXCEPT ![k] = [r EXCEPT !.pc = "wait"]] BY DEF Begin
<1>2. UNCHANGED <<file, lock>> BY DEF Begin
<1>3. [r EXCEPT !.pc = "wait"].pc = "wait" /\ DOMAIN [r EXCEPT !.pc = "wait"] = Fields
  BY DEF Fields
<1>4. DOMAIN call' = PlanCalls BY <1>1 DEF Safe, Shape
<1>5. \A j \in PlanCalls : j # k => call'[j] = call[j] BY <1>1 DEF Safe, Shape
<1>6. call'[k] = [r EXCEPT !.pc = "wait"] BY <1>1 DEF Safe, Shape
<1>7. QED BY <1>2, <1>3, <1>4, <1>5, <1>6 DEF Safe, Shape, Holds, Guarded

(* A call that ends leaves the others alone.                               *)
LEMMA IdleSafe ==
  ASSUME NEW k \in PlanCalls, Safe, call' = [call EXCEPT ![k] = Unbegun]
  PROVE  /\ Shape'
         /\ call'[k].pc = "idle"
         /\ \A j \in PlanCalls : j # k => call'[j] = call[j]
<1>1. DOMAIN Unbegun = Fields /\ Unbegun.pc = "idle" BY DEF Unbegun, Fields
<1>2. DOMAIN call' = PlanCalls BY DEF Safe, Shape
<1>3. call'[k] = Unbegun BY DEF Safe, Shape
<1>4. \A j \in PlanCalls : j # k => call'[j] = call[j] BY DEF Safe, Shape
<1>5. QED BY <1>1, <1>2, <1>3, <1>4 DEF Safe, Shape

(* TakeLock is where a call becomes a holder; nobody else was one.         *)
LEMMA TakeLockSafe ==
  ASSUME NEW k \in PlanCalls, Safe, TakeLock(k)
  PROVE  Safe'
<1>1. /\ lock = Nobody /\ lock' = k /\ file' = file /\ file = call[k].expected
      /\ call' = [call EXCEPT ![k].pc = "write", ![k].at = clock]
  BY DEF TakeLock, RevisionMatches
<1>2. \A j \in PlanCalls : call[j].pc \notin {"write", "consume", "sync"}
  BY <1>1, PlansAssumption DEF Safe, Holds, PlansAssumption
<1>3. DOMAIN call' = PlanCalls BY <1>1 DEF Safe, Shape
<1>4. /\ call'[k].pc = "write" /\ call'[k].expected = call[k].expected
      /\ DOMAIN call'[k] = Fields
  BY <1>1 DEF Safe, Shape, Fields
<1>5. \A j \in PlanCalls : j # k => call'[j] = call[j] BY <1>1 DEF Safe, Shape
<1>6. QED BY <1>1, <1>2, <1>3, <1>4, <1>5 DEF Safe, Shape, Holds, Guarded

(* The holder writes: nobody else is between comparison and write.         *)
LEMMA WriteSafe ==
  ASSUME NEW k \in PlanCalls, Safe, Write(k)
  PROVE  Safe'
<1>1. call[k].pc = "write" /\ lock = k BY DEF Write, Safe, Holds
<1>2. \A j \in PlanCalls : j # k => call[j].pc \notin {"write", "consume", "sync"}
  BY <1>1 DEF Safe, Holds
<1>3. PICK to \in {"consume", "sync"} : call' = [call EXCEPT ![k].pc = to]
  BY DEF Write
<1>4. lock' = lock BY DEF Write
<1>5. DOMAIN call' = PlanCalls BY <1>3 DEF Safe, Shape
<1>6. call'[k].pc = to /\ DOMAIN call'[k] = Fields BY <1>3 DEF Safe, Shape, Fields
<1>7. \A j \in PlanCalls : j # k => call'[j] = call[j] BY <1>3 DEF Safe, Shape
<1>8. QED BY <1>1, <1>2, <1>4, <1>5, <1>6, <1>7 DEF Safe, Shape, Holds, Guarded

(* A call that has written and goes on keeps the lock.                     *)
LEMMA ConsumeSafe ==
  ASSUME NEW k \in PlanCalls, Safe, Consume(k)
  PROVE  Safe'
<1>1. /\ call[k].pc = "consume" /\ call' = [call EXCEPT ![k].pc = "sync"]
      /\ UNCHANGED <<file, lock>>
  BY DEF Consume
<1>2. DOMAIN call' = PlanCalls BY <1>1 DEF Safe, Shape
<1>3. call'[k].pc = "sync" /\ DOMAIN call'[k] = Fields BY <1>1 DEF Safe, Shape, Fields
<1>4. \A j \in PlanCalls : j # k => call'[j] = call[j] BY <1>1 DEF Safe, Shape
<1>5. QED BY <1>1, <1>2, <1>3, <1>4 DEF Safe, Shape, Holds, Guarded

(* Every other step ends a call or touches neither calls, lock nor page.   *)
LEMMA NextSafe == Safe /\ [PlansNext]_plansVars => Safe'
<1> SUFFICES ASSUME Safe, [PlansNext]_plansVars PROVE Safe' OBVIOUS
<1>1. ASSUME NEW c \in Callers, NEW p \in PlanIds, NEW ops \in Ops \X Ops, Plan(p, c, ops)
      PROVE  Safe'
  <2>1. UNCHANGED <<file, call, lock>> BY <1>1 DEF Plan
  <2>2. QED BY <2>1 DEF Safe, Shape, Holds, Guarded
<1>2. ASSUME NEW k \in PlanCalls, NEW c \in Callers, NEW p \in PlanIds, ApplyPlan(k, p, c)
      PROVE  Safe'
  <2> DEFINE e == Lookup(plans, planRows, p, PlanTTL)
             r == [Unbegun EXCEPT !.kind = "apply", !.who = c, !.plan = p,
                               !.expected = e.base, !.to = e.to, !.retags = e.retags]
  <2>1. Begin(k, r) BY <1>2 DEF ApplyPlan
  <2>2. DOMAIN r = Fields BY DEF Unbegun, Fields
  <2> HIDE DEF r
  <2>3. QED BY <2>1, <2>2, BeginSafe
<1>3. ASSUME NEW k \in PlanCalls, NEW c \in Callers, NEW x \in Contents, RollbackChange(k, c, x)
      PROVE  Safe'
  <2> DEFINE r == [Unbegun EXCEPT !.kind = "rollback", !.who = c, !.expected = file, !.to = x,
                               !.retags = TRUE]
  <2>1. Begin(k, r) BY <1>3 DEF RollbackChange
  <2>2. DOMAIN r = Fields BY DEF Unbegun, Fields
  <2> HIDE DEF r
  <2>3. QED BY <2>1, <2>2, BeginSafe
<1>4. ASSUME NEW k \in PlanCalls, NEW c \in Callers, NEW x \in Contents,
             NEW retags \in BOOLEAN, UpdatePage(k, c, x, retags)
      PROVE  Safe'
  <2> DEFINE r == [Unbegun EXCEPT !.kind = "update", !.who = c, !.expected = file, !.to = x,
                               !.retags = retags]
  <2>1. Begin(k, r) BY <1>4 DEF UpdatePage
  <2>2. DOMAIN r = Fields BY DEF Unbegun, Fields
  <2> HIDE DEF r
  <2>3. QED BY <2>1, <2>2, BeginSafe
<1>5. ASSUME NEW k \in PlanCalls, TakeLock(k) PROVE Safe'
  BY <1>5, TakeLockSafe
<1>6. ASSUME NEW k \in PlanCalls, Refused(k) PROVE Safe'
  <2>1. call' = [call EXCEPT ![k] = Unbegun] /\ UNCHANGED <<file, lock>> BY <1>6 DEF Refused
  <2>2. Shape' /\ call'[k].pc = "idle" /\ \A j \in PlanCalls : j # k => call'[j] = call[j]
    BY <2>1, IdleSafe
  <2>3. Holds' BY <2>1, <2>2 DEF Safe, Holds
  <2>4. Guarded' BY <2>1, <2>2 DEF Safe, Guarded
  <2>5. QED BY <2>2, <2>3, <2>4 DEF Safe
<1>7. ASSUME NEW k \in PlanCalls, Write(k) PROVE Safe'
  BY <1>7, WriteSafe
<1>8. ASSUME NEW k \in PlanCalls, WriteFails(k) \/ Sync(k) PROVE Safe'
  <2>1. call' = [call EXCEPT ![k] = Unbegun] /\ file' = file BY <1>8 DEF WriteFails, Sync, End
  <2>2. call[k].pc \in {"write", "consume", "sync"} BY <1>8 DEF WriteFails, Sync
  <2>3. \A j \in PlanCalls : j # k => call[j].pc \notin {"write", "consume", "sync"}
    BY <2>2 DEF Safe, Holds
  <2>4. Shape' /\ call'[k].pc = "idle" /\ \A j \in PlanCalls : j # k => call'[j] = call[j]
    BY <2>1, IdleSafe
  <2>5. Holds' BY <2>3, <2>4 DEF Holds
  <2>6. Guarded' BY <2>3, <2>4 DEF Guarded
  <2>7. QED BY <2>4, <2>5, <2>6 DEF Safe
<1>9. ASSUME ServerRestart PROVE Safe'
  <2>1. call' = [k \in PlanCalls |-> Unbegun] BY <1>9 DEF ServerRestart
  <2>2. QED BY <2>1 DEF Safe, Shape, Holds, Guarded, Unbegun, Fields
<1>10. ASSUME Tick \/ UNCHANGED plansVars PROVE Safe'
  <2>1. UNCHANGED <<file, call, lock>> BY <1>10 DEF Tick, plansVars
  <2>2. QED BY <2>1 DEF Safe, Shape, Holds, Guarded
<1>11. ASSUME NEW k \in PlanCalls, Consume(k) PROVE Safe'
  BY <1>11, ConsumeSafe
<1>12. QED BY <1>1, <1>2, <1>3, <1>4, <1>5, <1>6, <1>7, <1>8, <1>9, <1>10, <1>11 DEF PlansNext

(* Only Write changes the page, and it replaces what was compared.         *)
LEMMA NextLosesNothing ==
  Safe /\ [PlansNext]_plansVars =>
    (file' # file => \E k \in PlanCalls : /\ call[k].pc = "write"
                                          /\ file = call[k].expected
                                          /\ file' = call[k].to)
<1> SUFFICES ASSUME Safe, [PlansNext]_plansVars, file' # file
             PROVE  \E k \in PlanCalls : /\ call[k].pc = "write"
                                         /\ file = call[k].expected
                                         /\ file' = call[k].to
  OBVIOUS
<1>1. ASSUME NEW c \in Callers, NEW k \in PlanCalls
      PROVE  /\ \A p \in PlanIds : ~ApplyPlan(k, p, c)
             /\ \A x \in Contents : ~RollbackChange(k, c, x)
             /\ \A x \in Contents, retags \in BOOLEAN : ~UpdatePage(k, c, x, retags)
  BY DEF ApplyPlan, RollbackChange, UpdatePage, Begin
<1>2. ASSUME NEW c \in Callers, NEW p \in PlanIds, NEW ops \in Ops \X Ops
      PROVE  ~Plan(p, c, ops)
  BY DEF Plan
<1>3. ASSUME NEW k \in PlanCalls
      PROVE  ~TakeLock(k) /\ ~Refused(k) /\ ~WriteFails(k) /\ ~Consume(k) /\ ~Sync(k)
  BY DEF TakeLock, Refused, WriteFails, Consume, Sync
<1>4. ~ServerRestart /\ ~Tick /\ ~UNCHANGED plansVars BY DEF ServerRestart, Tick, plansVars
<1>5. PICK k \in PlanCalls : Write(k) BY <1>1, <1>2, <1>3, <1>4 DEF PlansNext
<1>6. QED BY <1>5 DEF Write, Safe, Guarded

(* apply_content_plan, rollback_change and update_page never overwrite an  *)
(* edit their caller has not seen, however long they waited for the lock.  *)
THEOREM NoEditIsLost == PlansSpec => NoEditLost
<1>1. PlansInit => Safe BY InitSafe
<1>2. Safe /\ [PlansNext]_plansVars => Safe' BY NextSafe
<1>3. Safe /\ [PlansNext]_plansVars =>
        [file' # file => \E k \in PlanCalls : /\ call[k].pc = "write"
                                              /\ file = call[k].expected
                                              /\ file' = call[k].to]_plansVars
  BY NextLosesNothing
<1>4. QED BY <1>1, <1>2, <1>3, PTL DEF PlansSpec, NoEditLost
-----------------------------------------------------------------------------
(* The index.  A call past its write has yet to bring its entry up to date;*)
(* until then the entry has the tags of the page it was compared with, and *)
(* when there is no such call those of the page; or, where GetBySlug       *)
(* answers with the translation, those of the translation.                 *)
Past == {"consume", "sync"}

Written == \A k \in PlanCalls : call[k].pc \in Past => file = call[k].to

Agrees(c) == TagsOf(index) = TagsOf(c) \/ (shadowed /\ TagsOf(index) = TagsOf(Twin))

Synced == /\ \A k \in PlanCalls : call[k].pc \in Past => Agrees(call[k].expected)
          /\ (\A k \in PlanCalls : call[k].pc \notin Past) => Agrees(file)

(* A plan or a call without tags of its own leaves those it has found.     *)
PlansTagged ==
    /\ DOMAIN plans = PlanIds /\ DOMAIN planRows = PlanIds
    /\ \A p \in PlanIds : /\ plans[p].retags \/ TagsOf(plans[p].to) = TagsOf(plans[p].base)
                          /\ planRows[p].retags \/ TagsOf(planRows[p].to) = TagsOf(planRows[p].base)
CallsTagged ==
    \A k \in PlanCalls : call[k].retags \/ TagsOf(call[k].to) = TagsOf(call[k].expected)

Indexed == Written /\ Synced /\ PlansTagged /\ CallsTagged

(* Operations that change no tag leave the tags.                           *)
LEMMA ResolvedTags ==
  ASSUME NEW c, NEW ops
  PROVE  LET r == ResolvePlanOperations(c, ops)
         IN  r.retags \/ TagsOf(r.to) = TagsOf(c)
<1> DEFINE r0 == [to |-> c, retags |-> FALSE]
           r1 == ApplyOp(r0, ops[1])
           r2 == ApplyOp(r1, ops[2])
<1>1. r0.to = c OBVIOUS
<1>2. r1.retags \/ TagsOf(r1.to) = TagsOf(r0.to) BY DEF ApplyOp
<1>3. (r1.retags => r2.retags) /\ (r2.retags \/ TagsOf(r2.to) = TagsOf(r1.to)) BY DEF ApplyOp
<1>4. ResolvePlanOperations(c, ops) = r2 BY DEF ResolvePlanOperations
<1> HIDE DEF r0, r1, r2
<1>5. r2.retags \/ TagsOf(r2.to) = TagsOf(c) BY <1>1, <1>2, <1>3
<1>6. QED BY <1>4, <1>5

(* Pruning takes plans out of the map or leaves them.                      *)
LEMMA PrunedTagged ==
  ASSUME PlansTagged
  PROVE  LET kept == Prune(plans, PlanTTL, NoPlan)
         IN  /\ DOMAIN kept = PlanIds
             /\ \A p \in PlanIds : kept[p].retags \/ TagsOf(kept[p].to) = TagsOf(kept[p].base)
  BY DEF PlansTagged, Prune, NoPlan

(* A plan that is put has tags of its own or leaves those of the page.     *)
LEMMA PlanTagged ==
  ASSUME NEW c \in Callers, NEW p \in PlanIds, NEW ops \in Ops \X Ops, Plan(p, c, ops), PlansTagged
  PROVE  PlansTagged'
<1> DEFINE r == ResolvePlanOperations(file, ops)
           e == [who |-> c, base |-> file, to |-> r.to, retags |-> r.retags, at |-> clock]
           kept == Prune(plans, PlanTTL, NoPlan)
<1>1. planRows' = [planRows EXCEPT ![p] = e] /\ plans' = [kept EXCEPT ![p] = e]
  BY DEF Plan, PutPlan
<1>2. e.retags \/ TagsOf(e.to) = TagsOf(e.base) BY ResolvedTags
<1>3. /\ DOMAIN kept = PlanIds
      /\ \A q \in PlanIds : kept[q].retags \/ TagsOf(kept[q].to) = TagsOf(kept[q].base)
  BY PrunedTagged
<1> HIDE DEF e, kept
<1>4. DOMAIN plans' = PlanIds /\ DOMAIN planRows' = PlanIds BY <1>1, <1>3 DEF PlansTagged
<1>5. \A q \in PlanIds : plans'[q] \in {e, kept[q]} /\ planRows'[q] \in {e, planRows[q]}
  BY <1>1, <1>3 DEF PlansTagged
<1>6. QED BY <1>2, <1>3, <1>4, <1>5 DEF PlansTagged

(* The stores change no other way than by pruning, consuming and dying.    *)
LEMMA StoresTagged ==
  ASSUME PlansTagged,
         \/ UNCHANGED <<plans, planRows>>
         \/ \E p : ConsumePlan(p)
         \/ ServerRestart
  PROVE  PlansTagged'
<1>1. CASE UNCHANGED <<plans, planRows>> BY <1>1 DEF PlansTagged
<1>2. ASSUME NEW p, ConsumePlan(p) PROVE PlansTagged'
  <2> DEFINE kept == Prune(plans, PlanTTL, NoPlan)
  <2>1. /\ DOMAIN kept = PlanIds
        /\ \A q \in PlanIds : kept[q].retags \/ TagsOf(kept[q].to) = TagsOf(kept[q].base)
    BY PrunedTagged
  <2>2. /\ plans' = kept \/ plans' = [kept EXCEPT ![p] = NoPlan]
        /\ planRows' = planRows \/ planRows' = [planRows EXCEPT ![p] = NoPlan]
    BY <1>2 DEF ConsumePlan
  <2> HIDE DEF kept
  <2>3. DOMAIN plans' = PlanIds /\ DOMAIN planRows' = PlanIds BY <2>1, <2>2 DEF PlansTagged
  <2>4. \A q \in PlanIds : plans'[q] \in {NoPlan, kept[q]} /\ planRows'[q] \in {NoPlan, planRows[q]}
    BY <2>1, <2>2 DEF PlansTagged
  <2>5. TagsOf(NoPlan.to) = TagsOf(NoPlan.base) BY DEF NoPlan
  <2>6. QED BY <2>1, <2>3, <2>4, <2>5 DEF PlansTagged
<1>3. CASE ServerRestart BY <1>3 DEF ServerRestart, PlansTagged, NoPlan
<1>4. QED BY <1>1, <1>2, <1>3

(* A step of a call that has not written, before and after, says nothing   *)
(* of page or entry.                                                       *)
LEMMA BeforeWriteIndexed ==
  ASSUME NEW k \in PlanCalls, Indexed, UNCHANGED <<file, index, shadowed>>, PlansTagged',
         call[k].pc \notin Past, call'[k].pc \notin Past,
         call'[k].retags \/ TagsOf(call'[k].to) = TagsOf(call'[k].expected),
         \A j \in PlanCalls : j # k => call'[j] = call[j]
  PROVE  Indexed'
<1>1. Written'
  <2> SUFFICES ASSUME NEW j \in PlanCalls, call'[j].pc \in Past PROVE file' = call'[j].to
    BY DEF Written
  <2>1. j # k OBVIOUS
  <2>2. QED BY <2>1 DEF Indexed, Written
<1>2. \A c : Agrees(c) => Agrees(c)' BY DEF Agrees
<1>3. Synced'
  <2>1. ASSUME NEW j \in PlanCalls, call'[j].pc \in Past PROVE Agrees(call[j].expected)'
    <3>1. j # k /\ call'[j] = call[j] BY <2>1
    <3>2. Agrees(call[j].expected) BY <2>1, <3>1 DEF Indexed, Synced
    <3>3. QED BY <3>1, <3>2 DEF Agrees
  <2>2. ASSUME \A j \in PlanCalls : call'[j].pc \notin Past PROVE Agrees(file)'
    <3>1. \A j \in PlanCalls : call[j].pc \notin Past BY <2>2
    <3>2. Agrees(file) BY <3>1 DEF Indexed, Synced
    <3>3. QED BY <3>2 DEF Agrees
  <2>3. QED BY <2>1, <2>2 DEF Synced
<1>4. CallsTagged' BY DEF Indexed, CallsTagged
<1>5. QED BY <1>1, <1>3, <1>4 DEF Indexed

(* Begin finds its call idle and leaves it waiting.                        *)
LEMMA BeginIndexed ==
  ASSUME NEW k \in PlanCalls, NEW r, DOMAIN r = Fields, Safe, Indexed, Begin(k, r), PlansTagged',
         r.retags \/ TagsOf(r.to) = TagsOf(r.expected)
  PROVE  Indexed'
<1>1. call[k].pc \notin Past BY DEF Begin, Unbegun, Past
<1>2. call' = [call EXCEPT ![k] = [r EXCEPT !.pc = "wait"]] /\ UNCHANGED <<file, index, shadowed>>
  BY DEF Begin
<1> DEFINE w == [r EXCEPT !.pc = "wait"]
<1>3. w.pc = "wait" /\ w.retags = r.retags /\ w.to = r.to /\ w.expected = r.expected
  BY DEF Fields
<1>4. call'[k] = w BY <1>2 DEF Safe, Shape
<1> HIDE DEF w
<1>5. call'[k].pc \notin Past BY <1>3, <1>4 DEF Past
<1>6. call'[k].retags \/ TagsOf(call'[k].to) = TagsOf(call'[k].expected) BY <1>3, <1>4
<1>7. \A j \in PlanCalls : j # k => call'[j] = call[j] BY <1>2 DEF Safe, Shape
<1>8. QED BY <1>1, <1>2, <1>5, <1>6, <1>7, BeforeWriteIndexed

(* The writer's page is the one its call asked for, the entry still that   *)
(* of what it was compared with, and nobody else is past its write.        *)
LEMMA WriteIndexed ==
  ASSUME NEW k \in PlanCalls, Safe, Indexed, Write(k) \/ Consume(k), PlansTagged'
  PROVE  Indexed'
<1>1. call[k].pc \in {"write", "consume"} /\ lock = k BY DEF Write, Consume, Safe, Holds
<1>2. \A j \in PlanCalls : j # k => call[j].pc \notin Past BY <1>1 DEF Safe, Holds, Past
<1>3. PICK to \in Past : call' = [call EXCEPT ![k].pc = to] BY DEF Write, Consume, Past
<1>4. /\ call'[k].pc = to /\ call'[k].to = call[k].to /\ call'[k].expected = call[k].expected
      /\ call'[k].retags = call[k].retags
  BY <1>3 DEF Safe, Shape, Fields
<1>5. \A j \in PlanCalls : j # k => call'[j] = call[j] BY <1>3 DEF Safe, Shape
<1>6. UNCHANGED <<index, shadowed>> BY DEF Write, Consume
<1>7. file' = call[k].to /\ Agrees(call[k].expected)
  <2>1. CASE Write(k)
    <3>1. call[k].pc = "write" /\ file' = call[k].to BY <2>1 DEF Write
    <3>2. \A j \in PlanCalls : call[j].pc \notin Past BY <1>2, <3>1 DEF Past
    <3>3. Agrees(file) /\ file = call[k].expected BY <3>1, <3>2 DEF Indexed, Synced, Safe, Guarded
    <3>4. QED BY <3>1, <3>3
  <2>2. CASE Consume(k) BY <2>2 DEF Consume, Indexed, Written, Synced, Past
  <2>3. QED BY <2>1, <2>2
<1>8. Written' BY <1>2, <1>4, <1>5, <1>7 DEF Written
<1>9. Synced'
  <2>1. Agrees(call[k].expected)' BY <1>4, <1>6, <1>7 DEF Agrees
  <2>2. call'[k].pc \in Past BY <1>4
  <2>3. \A j \in PlanCalls : j # k => call'[j].pc \notin Past BY <1>2, <1>5
  <2>4. QED BY <2>1, <2>2, <2>3 DEF Synced
<1>10. CallsTagged' BY <1>4, <1>5 DEF Indexed, CallsTagged
<1>11. QED BY <1>8, <1>9, <1>10 DEF Indexed

(* The tags of an entry come from the call or from where it started.       *)
LEMMA EntryTags ==
  ASSUME NEW k \in PlanCalls
  PROVE  TagsOf(AppliedEntry(k)) = TagsOf(IF call[k].retags THEN call[k].to ELSE StartEntry(k))
  BY DEF AppliedEntry, TagsOf

(* The entry a call leaves has the tags it wrote, unless it has started    *)
(* from the translation's and set none.                                    *)
LEMMA SyncIndexed ==
  ASSUME NEW k \in PlanCalls, Safe, Indexed, Sync(k)
  PROVE  Indexed'
<1>1. call[k].pc \in Past /\ lock = k BY DEF Sync, Safe, Holds, Past
<1>2. \A j \in PlanCalls : j # k => call[j].pc \notin Past BY <1>1 DEF Safe, Holds, Past
<1>3. file = call[k].to /\ Agrees(call[k].expected) BY <1>1 DEF Indexed, Written, Synced
<1>4. index' = AppliedEntry(k) /\ UNCHANGED <<file, shadowed, plans, planRows>> BY DEF Sync, stores
<1>5. Agrees(file)'
  <2>1. CASE call[k].retags BY <1>3, <1>4, <2>1, EntryTags DEF Agrees
  <2>2. CASE ~call[k].retags
    <3>1. TagsOf(call[k].to) = TagsOf(call[k].expected) BY <2>2 DEF Indexed, CallsTagged
    <3>2. TagsOf(index') = TagsOf(StartEntry(k)) BY <1>4, <2>2, EntryTags
    <3>3. \/ TagsOf(StartEntry(k)) = TagsOf(call[k].expected)
          \/ shadowed /\ TagsOf(StartEntry(k)) = TagsOf(Twin)
      BY <1>3 DEF StartEntry, Agrees
    <3>4. QED BY <1>3, <1>4, <3>1, <3>2, <3>3 DEF Agrees
  <2>3. QED BY <2>1, <2>2
<1>6. call' = [call EXCEPT ![k] = Unbegun] BY DEF Sync, End
<1>7. call'[k] = Unbegun /\ \A j \in PlanCalls : j # k => call'[j] = call[j]
  BY <1>6 DEF Safe, Shape
<1>8. \A j \in PlanCalls : call'[j].pc \notin Past BY <1>2, <1>7 DEF Past, Unbegun
<1>9. Written' /\ Synced' BY <1>5, <1>8 DEF Written, Synced
<1>10. CallsTagged' BY <1>7 DEF Indexed, CallsTagged, Unbegun
<1>11. PlansTagged' BY <1>4, StoresTagged DEF Indexed
<1>12. QED BY <1>9, <1>10, <1>11 DEF Indexed

(* A call takes its plan from the map or from its row, and with it what    *)
(* the plan says of the tags.                                              *)
LEMMA ApplyPlanIndexed ==
  ASSUME NEW k \in PlanCalls, NEW c \in Callers, NEW p \in PlanIds, ApplyPlan(k, p, c),
         Safe, Indexed
  PROVE  Indexed'
<1> DEFINE e == Lookup(plans, planRows, p, PlanTTL)
           r == [Unbegun EXCEPT !.kind = "apply", !.who = c, !.plan = p,
                             !.expected = e.base, !.to = e.to, !.retags = e.retags]
           kept == Prune(plans, PlanTTL, NoPlan)
<1>1. Begin(k, r) /\ plans' = [kept EXCEPT ![p] = e] /\ planRows' = planRows
  BY DEF ApplyPlan, Begin
<1>2. e.retags \/ TagsOf(e.to) = TagsOf(e.base) BY DEF Lookup, Indexed, PlansTagged
<1>3. DOMAIN r = Fields /\ r.retags = e.retags /\ r.to = e.to /\ r.expected = e.base
  BY DEF Unbegun, Fields
<1>4. /\ DOMAIN kept = PlanIds
      /\ \A q \in PlanIds : kept[q].retags \/ TagsOf(kept[q].to) = TagsOf(kept[q].base)
  BY PrunedTagged DEF Indexed
<1> HIDE DEF r, e, kept
<1>5. DOMAIN plans' = PlanIds /\ \A q \in PlanIds : plans'[q] \in {e, kept[q]}
  BY <1>1, <1>4
<1>6. PlansTagged' BY <1>1, <1>2, <1>4, <1>5 DEF Indexed, PlansTagged
<1>7. QED BY <1>1, <1>2, <1>3, <1>6, BeginIndexed

(* One step per action: those of calls before their write, the write and   *)
(* what follows it, and those that touch no call.                          *)
LEMMA NextIndexed == Safe /\ Indexed /\ [PlansNext]_plansVars => Indexed'
<1> SUFFICES ASSUME Safe, Indexed, [PlansNext]_plansVars PROVE Indexed' OBVIOUS
<1>0. UNCHANGED <<plans, planRows>> => PlansTagged' BY StoresTagged DEF Indexed
<1>1. ASSUME NEW k \in PlanCalls, NEW c \in Callers, NEW p \in PlanIds, ApplyPlan(k, p, c)
      PROVE  Indexed'
  BY <1>1, ApplyPlanIndexed
<1>2. ASSUME NEW k \in PlanCalls, NEW c \in Callers, NEW x \in Contents, RollbackChange(k, c, x)
      PROVE  Indexed'
  <2> DEFINE r == [Unbegun EXCEPT !.kind = "rollback", !.who = c, !.expected = file, !.to = x,
                               !.retags = TRUE]
  <2>1. Begin(k, r) BY <1>2 DEF RollbackChange
  <2>2. DOMAIN r = Fields /\ r.retags BY DEF Unbegun, Fields
  <2> HIDE DEF r
  <2>3. PlansTagged' BY <1>0, <1>2 DEF RollbackChange, Begin
  <2>4. QED BY <2>1, <2>2, <2>3, BeginIndexed
<1>3. ASSUME NEW k \in PlanCalls, NEW c \in Callers, NEW x \in Contents,
             NEW retags \in BOOLEAN, UpdatePage(k, c, x, retags)
      PROVE  Indexed'
  <2> DEFINE r == [Unbegun EXCEPT !.kind = "update", !.who = c, !.expected = file, !.to = x,
                               !.retags = retags]
  <2>1. Begin(k, r) /\ (retags \/ TagsOf(x) = TagsOf(file)) BY <1>3 DEF UpdatePage
  <2>2. DOMAIN r = Fields /\ r.retags = retags /\ r.to = x /\ r.expected = file
    BY DEF Unbegun, Fields
  <2> HIDE DEF r
  <2>3. PlansTagged' BY <1>0, <1>3 DEF UpdatePage, Begin
  <2>4. QED BY <2>1, <2>2, <2>3, BeginIndexed
<1>4. ASSUME NEW k \in PlanCalls, TakeLock(k) PROVE Indexed'
  <2>1. call[k].pc = "wait" /\ UNCHANGED <<file, index, shadowed, plans, planRows>>
    BY <1>4 DEF TakeLock
  <2>2. call' = [call EXCEPT ![k].pc = "write", ![k].at = clock] BY <1>4 DEF TakeLock
  <2>3. /\ call'[k].pc = "write" /\ call'[k].retags = call[k].retags
        /\ call'[k].to = call[k].to /\ call'[k].expected = call[k].expected
    BY <2>2 DEF Safe, Shape, Fields
  <2>4. \A j \in PlanCalls : j # k => call'[j] = call[j] BY <2>2 DEF Safe, Shape
  <2>5. call'[k].retags \/ TagsOf(call'[k].to) = TagsOf(call'[k].expected)
    BY <2>3 DEF Indexed, CallsTagged
  <2>6. QED BY <1>0, <2>1, <2>3, <2>4, <2>5, BeforeWriteIndexed DEF Past
<1>5. ASSUME NEW k \in PlanCalls, Refused(k) \/ WriteFails(k) PROVE Indexed'
  <2>1. call[k].pc \in {"wait", "write"} BY <1>5 DEF Refused, WriteFails
  <2>2. UNCHANGED <<file, index, shadowed, plans, planRows>> BY <1>5 DEF Refused, WriteFails, stores
  <2>3. call' = [call EXCEPT ![k] = Unbegun] BY <1>5 DEF Refused, WriteFails, End
  <2>4. call'[k] = Unbegun /\ \A j \in PlanCalls : j # k => call'[j] = call[j]
    BY <2>3 DEF Safe, Shape
  <2>5. call'[k].pc = "idle" /\ TagsOf(call'[k].to) = TagsOf(call'[k].expected)
    BY <2>4 DEF Unbegun
  <2>6. QED BY <1>0, <2>1, <2>2, <2>4, <2>5, BeforeWriteIndexed DEF Past
<1>6. ASSUME NEW k \in PlanCalls, Write(k) PROVE Indexed'
  <2>1. PlansTagged' BY <1>0, <1>6 DEF Write, stores
  <2>2. QED BY <1>6, <2>1, WriteIndexed
<1>7. ASSUME NEW k \in PlanCalls, Consume(k) PROVE Indexed'
  <2>1. ConsumePlan(call[k].plan) BY <1>7 DEF Consume
  <2>2. PlansTagged' BY <2>1, StoresTagged DEF Indexed
  <2>3. QED BY <1>7, <2>2, WriteIndexed
<1>8. ASSUME NEW k \in PlanCalls, Sync(k) PROVE Indexed'
  BY <1>8, SyncIndexed
<1>9. ASSUME ServerRestart PROVE Indexed'
  <2>1. call' = [k \in PlanCalls |-> Unbegun] /\ file' = file /\ index' = file
    BY <1>9 DEF ServerRestart
  <2>2. PlansTagged' BY <1>9, StoresTagged DEF Indexed
  <2>3. Written' BY <2>1 DEF Written, Past, Unbegun
  <2>4. Synced' BY <2>1 DEF Synced, Agrees, Past, Unbegun
  <2>5. CallsTagged' BY <2>1 DEF CallsTagged, Unbegun
  <2>6. QED BY <2>2, <2>3, <2>4, <2>5 DEF Indexed
<1>10. ASSUME NEW c \in Callers, NEW p \in PlanIds, NEW ops \in Ops \X Ops, Plan(p, c, ops)
       PROVE  Indexed'
  <2>1. UNCHANGED <<file, index, shadowed, call>> BY <1>10 DEF Plan
  <2>2. PlansTagged' BY <1>10, PlanTagged DEF Indexed
  <2>3. QED BY <2>1, <2>2 DEF Indexed, Written, Synced, CallsTagged, Agrees
<1>11. ASSUME Tick \/ UNCHANGED plansVars PROVE Indexed'
  <2>1. UNCHANGED <<file, index, shadowed, call, plans, planRows>> BY <1>11 DEF Tick, plansVars, stores
  <2>2. QED BY <1>0, <2>1 DEF Indexed, Written, Synced, CallsTagged, Agrees
<1>12. QED
  BY <1>1, <1>2, <1>3, <1>4, <1>5, <1>6, <1>7, <1>8, <1>9, <1>10, <1>11 DEF PlansNext

(* Whoever wrote last and however the call ended, a free lock means that   *)
(* the index has the tags of the page, or those of the translation where   *)
(* a look-up by slug alone answers with it.                                *)
THEOREM TagsIndexed == PlansSpec => []TagsAreIndexed
<1>1. PlansInit => Safe BY InitSafe
<1>2. PlansInit => Indexed
  <2> SUFFICES ASSUME PlansInit PROVE Indexed OBVIOUS
  <2>1. /\ index = file /\ \A k \in PlanCalls : call[k] = Unbegun
        /\ DOMAIN plans = PlanIds /\ planRows = plans /\ \A p \in PlanIds : plans[p] = NoPlan
    BY DEF PlansInit
  <2>2. Unbegun.pc \notin Past /\ TagsOf(Unbegun.to) = TagsOf(Unbegun.expected)
        /\ TagsOf(NoPlan.to) = TagsOf(NoPlan.base)
    BY DEF Unbegun, NoPlan, Past
  <2>3. Written /\ Synced BY <2>1, <2>2 DEF Written, Synced, Agrees
  <2>4. PlansTagged /\ CallsTagged BY <2>1, <2>2 DEF PlansTagged, CallsTagged
  <2>5. QED BY <2>3, <2>4 DEF Indexed
<1>3. Safe /\ [PlansNext]_plansVars => Safe' BY NextSafe
<1>4. Safe /\ Indexed /\ [PlansNext]_plansVars => Indexed' BY NextIndexed
<1>5. Safe /\ Indexed => TagsAreIndexed
  <2> SUFFICES ASSUME Safe, Indexed, lock = Nobody PROVE Agrees(file)
    BY DEF TagsAreIndexed, Agrees
  <2>1. \A k \in PlanCalls : call[k].pc \notin Past
    BY PlansAssumption DEF Safe, Holds, Past, PlansAssumption
  <2>2. QED BY <2>1 DEF Indexed, Synced
<1>6. QED BY <1>1, <1>2, <1>3, <1>4, <1>5, PTL DEF PlansSpec
-----------------------------------------------------------------------------
(* Snapshots.  They are kept in two stores, and the map may lose what the  *)
(* row keeps.  So the invariant is about the rows: what a caller replaced  *)
(* has one that is no older than the replacement, and what the holder of   *)
(* the lock is about to replace has one already.                           *)

Snapshots == [who : Callers \cup {Nobody}, at : Nat]

(* The content x has a row of somebody that is no older than t.            *)
Row(x, t) == snapRows[x].who \in Callers /\ t \in Nat /\ t <= snapRows[x].at

(* The rows are past and their keeper's, and the map never has what they   *)
(* have not.                                                               *)
Stored ==
    /\ clock \in Nat
    /\ snapRows \in [Contents -> Snapshots]
    /\ snaps \in [Contents -> Snapshots]
    /\ \A x \in Contents : snapRows[x].at <= clock /\ snaps[x] \in {NoSnapshot, snapRows[x]}
    /\ DOMAIN keeper = Contents /\ \A x \in Contents : keeper[x] = snapRows[x].who

(* A call in flight is somebody's; before its write the row is there.      *)
Saved == \A k \in PlanCalls :
    /\ call[k].pc # "idle" => call[k].who \in Callers
    /\ call[k].pc = "write" /\ call[k].expected \in Contents => Row(call[k].expected, call[k].at)

(* What was replaced is owed, and there.                                   *)
Repaid ==
    /\ DOMAIN owed = Callers /\ \A c \in Callers : DOMAIN owed[c] = Contents
    /\ \A c \in Callers, x \in Contents : owed[c][x] # Nobody => Row(x, owed[c][x])

Retained == Stored /\ Saved /\ Repaid
-----------------------------------------------------------------------------
(* Initially there are no rows and nothing is owed.                        *)
LEMMA InitRetained == PlansInit => Retained
<1> SUFFICES ASSUME PlansInit PROVE Retained OBVIOUS
<1>1. NoSnapshot \in Snapshots /\ NoSnapshot.at = 0 /\ NoSnapshot.who = Nobody
  BY DEF NoSnapshot, Snapshots
<1>2. /\ snaps = [x \in Contents |-> NoSnapshot] /\ snapRows = snaps /\ clock = 0
      /\ keeper = [x \in Contents |-> Nobody]
  BY DEF PlansInit
<1>3. Stored BY <1>1, <1>2 DEF Stored
<1>4. Saved BY DEF PlansInit, Saved, Unbegun
<1>5. Repaid BY DEF PlansInit, Repaid
<1>6. QED BY <1>3, <1>4, <1>5 DEF Retained

(* A step that neither saves nor replaces anything: calls may begin, go on *)
(* or end.                                                                 *)
LEMMA QuietRetained ==
  ASSUME Retained, UNCHANGED <<snaps, snapRows, clock, owed, keeper>>,
         \A k \in PlanCalls : \/ call'[k] = call[k]
                              \/ call'[k].pc = "idle"
                              \/ call'[k].pc # "write" /\ call'[k].who \in Callers
  PROVE  Retained'
<1>1. Stored' BY DEF Retained, Stored
<1>2. \A x, t : Row(x, t) => Row(x, t)' BY DEF Row
<1>3. Saved' BY <1>2 DEF Retained, Saved
<1>4. Repaid' BY <1>2 DEF Retained, Repaid
<1>5. QED BY <1>1, <1>3, <1>4 DEF Retained

(* A call that begins is its caller's.                                     *)
LEMMA BeginRetained ==
  ASSUME NEW k \in PlanCalls, NEW r, DOMAIN r = Fields, r.who \in Callers, Safe, Retained, Begin(k, r)
  PROVE  Retained'
<1>1. call' = [call EXCEPT ![k] = [r EXCEPT !.pc = "wait"]] BY DEF Begin
<1>2. UNCHANGED <<snaps, snapRows, clock, owed, keeper>> BY DEF Begin
<1>3. [r EXCEPT !.pc = "wait"].pc = "wait" /\ [r EXCEPT !.pc = "wait"].who = r.who
  BY DEF Fields
<1>4. call'[k] = [r EXCEPT !.pc = "wait"] BY <1>1 DEF Safe, Shape
<1>5. \A j \in PlanCalls : j # k => call'[j] = call[j] BY <1>1 DEF Safe, Shape
<1>6. QED BY <1>2, <1>3, <1>4, <1>5, QuietRetained

(* Pruning and trimming take entries from the map or leave them.           *)
LEMMA TrimmedMap ==
  ASSUME NEW map, NEW kept \in Trims(map)
  PROVE  /\ DOMAIN kept = Contents
         /\ \A x \in Contents : kept[x] \in {NoSnapshot, map[x]}
  BY DEF Trims

(* Saving a snapshot: the row of the content is the newest there is, the   *)
(* others are as they were, and the map has nothing else.                  *)
LEMMA PutSnapshotStored ==
  ASSUME NEW x, NEW c \in Callers, Stored, PutSnapshot(x, c), UNCHANGED clock,
         keeper' = [keeper EXCEPT ![x] = c]
  PROVE  /\ Stored'
         /\ x \in Contents => snapRows'[x] = [who |-> c, at |-> clock]
         /\ \A y \in Contents : y # x => snapRows'[y] = snapRows[y]
<1> DEFINE new == [who |-> c, at |-> clock]
           pruned == Prune(snaps, SnapshotTTL, NoSnapshot)
           map == [pruned EXCEPT ![x] = new]
<1>1. new \in Snapshots /\ NoSnapshot \in Snapshots /\ new.at = clock /\ new.who = c
  BY DEF Stored, Snapshots, NoSnapshot
<1>2. snapRows' = [snapRows EXCEPT ![x] = new] /\ snaps' \in Trims(map)
  BY DEF PutSnapshot
<1>3. DOMAIN pruned = Contents /\ \A y \in Contents : pruned[y] \in {NoSnapshot, snaps[y]}
  BY DEF Prune, Stored
<1> HIDE DEF pruned, new
<1>4. /\ x \in Contents => map[x] = new
      /\ \A y \in Contents : y # x => map[y] = pruned[y]
  BY <1>3
<1> HIDE DEF map
<1>5. DOMAIN snaps' = Contents /\ \A y \in Contents : snaps'[y] \in {NoSnapshot, map[y]}
  BY <1>2, TrimmedMap
<1>6. /\ snapRows' \in [Contents -> Snapshots]
      /\ x \in Contents => snapRows'[x] = new
      /\ \A y \in Contents : y # x => snapRows'[y] = snapRows[y]
  BY <1>1, <1>2 DEF Stored
<1>7. ASSUME NEW y \in Contents
      PROVE  /\ snaps'[y] \in {NoSnapshot, snapRows'[y]}
             /\ snaps'[y] \in Snapshots
             /\ snapRows'[y].at <= clock'
             /\ keeper'[y] = snapRows'[y].who
  <2>1. CASE y = x BY <1>1, <1>4, <1>5, <1>6, <2>1 DEF Stored
  <2>2. CASE y # x BY <1>1, <1>3, <1>4, <1>5, <1>6, <2>2 DEF Stored
  <2>3. QED BY <2>1, <2>2
<1>8. snaps' \in [Contents -> Snapshots]
  <2>1. snaps' = [y \in Contents |-> snaps'[y]] BY <1>2 DEF Trims
  <2>2. QED BY <1>7, <2>1
<1>9. DOMAIN keeper' = Contents BY DEF Stored
<1>10. Stored' BY <1>6, <1>7, <1>8, <1>9 DEF Stored
<1>11. QED BY <1>6, <1>10 DEF new

(* Whoever takes the lock saves what it will replace; older rows of it     *)
(* give way to a newer one.                                                *)
LEMMA TakeLockRetained ==
  ASSUME NEW k \in PlanCalls, Safe, Retained, TakeLock(k)
  PROVE  Retained'
<1>1. /\ call[k].pc = "wait" /\ file = call[k].expected /\ PutSnapshot(file, call[k].who)
      /\ call' = [call EXCEPT ![k].pc = "write", ![k].at = clock]
      /\ keeper' = [keeper EXCEPT ![file] = call[k].who]
      /\ UNCHANGED <<owed, clock>>
  BY DEF TakeLock, RevisionMatches, bounds
<1>2. call[k].who \in Callers BY <1>1 DEF Retained, Saved
<1>3. /\ Stored'
      /\ file \in Contents => snapRows'[file] = [who |-> call[k].who, at |-> clock]
      /\ \A y \in Contents : y # file => snapRows'[y] = snapRows[y]
  BY <1>1, <1>2, PutSnapshotStored DEF Retained
<1>4. /\ clock \in Nat
      /\ \A x \in Contents : snapRows[x].at \in Nat /\ snapRows[x].at <= clock
  BY DEF Retained, Stored, Snapshots
<1>5. ASSUME NEW x \in Contents, NEW t, Row(x, t)
      PROVE  Row(x, t)'
  BY <1>2, <1>3, <1>4, <1>5 DEF Row
<1>6. /\ call'[k].pc = "write" /\ call'[k].at = clock /\ call'[k].who = call[k].who
      /\ call'[k].expected = file
  BY <1>1 DEF Safe, Shape, Fields
<1>7. \A j \in PlanCalls : j # k => call'[j] = call[j] BY <1>1 DEF Safe, Shape
<1>8. Saved'
  <2>1. ASSUME NEW j \in PlanCalls
        PROVE  /\ call'[j].pc # "idle" => call'[j].who \in Callers
               /\ call'[j].pc = "write" /\ call'[j].expected \in Contents
                    => Row(call[j].expected, call[j].at)'
    <3>1. CASE j = k BY <1>1, <1>2, <1>3, <1>4, <1>6, <3>1 DEF Row
    <3>2. CASE j # k BY <1>5, <1>7, <3>2 DEF Retained, Saved, Row
    <3>3. QED BY <3>1, <3>2
  <2>2. QED BY <2>1 DEF Saved
<1>9. Repaid' BY <1>1, <1>5 DEF Retained, Repaid
<1>10. QED BY <1>3, <1>8, <1>9 DEF Retained

(* What a call replaces is what it has saved.                              *)
LEMMA WriteRetained ==
  ASSUME NEW k \in PlanCalls, Safe, Retained, Write(k)
  PROVE  Retained'
<1>1. /\ call[k].pc = "write" /\ owed' = [owed EXCEPT ![call[k].who][file] = call[k].at]
      /\ UNCHANGED <<snaps, snapRows, clock, keeper>>
  BY DEF Write, stores, bounds
<1>2. PICK to \in {"consume", "sync"} : call' = [call EXCEPT ![k].pc = to] BY DEF Write
<1>3. call'[k].pc = to /\ call'[k].who = call[k].who BY <1>2 DEF Safe, Shape, Fields
<1>4. \A j \in PlanCalls : j # k => call'[j] = call[j] BY <1>2 DEF Safe, Shape
<1>5. call[k].who \in Callers /\ file = call[k].expected
  BY <1>1 DEF Retained, Saved, Safe, Guarded
<1>6. \A x, t : Row(x, t) => Row(x, t)' BY <1>1 DEF Row
<1>7. Stored' BY <1>1 DEF Retained, Stored
<1>8. Saved' BY <1>3, <1>4, <1>5, <1>6 DEF Retained, Saved
<1>9. file \in Contents => Row(file, call[k].at) BY <1>1, <1>5 DEF Retained, Saved
<1>10. ASSUME NEW c \in Callers
       PROVE  /\ DOMAIN owed'[c] = Contents
              /\ \A x \in Contents : owed'[c][x] # Nobody => Row(x, owed[c][x])'
  <2>1. DOMAIN owed[c] = Contents /\ \A x \in Contents : owed[c][x] # Nobody => Row(x, owed[c][x])
    BY DEF Retained, Repaid
  <2>2. owed'[c] = IF c = call[k].who THEN [owed[c] EXCEPT ![file] = call[k].at] ELSE owed[c]
    BY <1>1 DEF Retained, Repaid
  <2>3. DOMAIN owed'[c] = Contents
        /\ \A x \in Contents : owed'[c][x] = IF c = call[k].who /\ x = file THEN call[k].at
                                              ELSE owed[c][x]
    BY <2>1, <2>2
  <2>4. \A x \in Contents : owed'[c][x] # Nobody => Row(x, owed'[c][x])
    BY <1>9, <2>1, <2>3
  <2>5. \A x \in Contents : owed'[c][x] # Nobody => Row(x, owed[c][x])'
    BY <1>1, <2>4 DEF Row
  <2>6. QED BY <2>3, <2>5
<1>11. Repaid' BY <1>1, <1>10 DEF Retained, Repaid
<1>12. QED BY <1>7, <1>8, <1>11 DEF Retained

(* Time passes and the process dies; rows stay, and the map is empty then. *)
LEMMA AroundRetained ==
  ASSUME Safe, Retained, Tick \/ ServerRestart
  PROVE  Retained'
<1>1. UNCHANGED <<snapRows, owed, keeper>> BY DEF Tick, ServerRestart, stores
<1>2. \A x, t : Row(x, t) => Row(x, t)' BY <1>1 DEF Row
<1>3. Repaid' BY <1>1, <1>2 DEF Retained, Repaid
<1>4. CASE Tick
  <2>1. clock' = clock + 1 /\ UNCHANGED <<snaps, call>> BY <1>4 DEF Tick, stores
  <2>2. clock \in Nat /\ \A x \in Contents : snapRows[x].at \in Nat /\ snapRows[x].at <= clock
    BY DEF Retained, Stored, Snapshots
  <2>3. Stored' BY <1>1, <2>1, <2>2 DEF Retained, Stored
  <2>4. Saved' BY <1>2, <2>1 DEF Retained, Saved
  <2>5. QED BY <1>3, <2>3, <2>4 DEF Retained
<1>5. CASE ServerRestart
  <2>1. /\ snaps' = [x \in Contents |-> NoSnapshot] /\ clock' = clock
        /\ call' = [k \in PlanCalls |-> Unbegun]
    BY <1>5 DEF ServerRestart, PlanFault
  <2>2. NoSnapshot \in Snapshots BY DEF NoSnapshot, Snapshots
  <2>3. Stored' BY <1>1, <2>1, <2>2 DEF Retained, Stored
  <2>4. Saved' BY <2>1 DEF Saved, Unbegun
  <2>5. QED BY <1>3, <2>3, <2>4 DEF Retained
<1>6. QED BY <1>4, <1>5

(* Every step keeps what is retained.                                      *)
LEMMA NextRetained == Safe /\ Retained /\ [PlansNext]_plansVars => Retained'
<1> SUFFICES ASSUME Safe, Retained, [PlansNext]_plansVars PROVE Retained' OBVIOUS
<1>1. ASSUME NEW c \in Callers, NEW p \in PlanIds, NEW ops \in Ops \X Ops, Plan(p, c, ops)
      PROVE  Retained'
  BY <1>1, QuietRetained DEF Plan, bounds
<1>2. ASSUME NEW k \in PlanCalls, NEW c \in Callers, NEW p \in PlanIds, ApplyPlan(k, p, c)
      PROVE  Retained'
  <2> DEFINE e == Lookup(plans, planRows, p, PlanTTL)
             r == [Unbegun EXCEPT !.kind = "apply", !.who = c, !.plan = p,
                               !.expected = e.base, !.to = e.to, !.retags = e.retags]
  <2>1. Begin(k, r) BY <1>2 DEF ApplyPlan
  <2>2. DOMAIN r = Fields /\ r.who = c BY DEF Unbegun, Fields
  <2> HIDE DEF r
  <2>3. QED BY <2>1, <2>2, BeginRetained
<1>3. ASSUME NEW k \in PlanCalls, NEW c \in Callers, NEW x \in Contents, RollbackChange(k, c, x)
      PROVE  Retained'
  <2> DEFINE r == [Unbegun EXCEPT !.kind = "rollback", !.who = c, !.expected = file, !.to = x,
                               !.retags = TRUE]
  <2>1. Begin(k, r) BY <1>3 DEF RollbackChange
  <2>2. DOMAIN r = Fields /\ r.who = c BY DEF Unbegun, Fields
  <2> HIDE DEF r
  <2>3. QED BY <2>1, <2>2, BeginRetained
<1>4. ASSUME NEW k \in PlanCalls, NEW c \in Callers, NEW x \in Contents,
             NEW retags \in BOOLEAN, UpdatePage(k, c, x, retags)
      PROVE  Retained'
  <2> DEFINE r == [Unbegun EXCEPT !.kind = "update", !.who = c, !.expected = file, !.to = x,
                               !.retags = retags]
  <2>1. Begin(k, r) BY <1>4 DEF UpdatePage
  <2>2. DOMAIN r = Fields /\ r.who = c BY DEF Unbegun, Fields
  <2> HIDE DEF r
  <2>3. QED BY <2>1, <2>2, BeginRetained
<1>5. ASSUME NEW k \in PlanCalls, Refused(k) \/ WriteFails(k) \/ Sync(k)
      PROVE  Retained'
  <2>1. call' = [call EXCEPT ![k] = Unbegun] /\ UNCHANGED <<snaps, snapRows, clock, owed, keeper>>
    BY <1>5 DEF Refused, WriteFails, Sync, End, PlanFault, stores, bounds
  <2>2. call'[k].pc = "idle" /\ \A j \in PlanCalls : j # k => call'[j] = call[j]
    BY <2>1, IdleSafe
  <2>3. QED BY <2>1, <2>2, QuietRetained
<1>6. ASSUME NEW k \in PlanCalls, Consume(k)
      PROVE  Retained'
  <2>1. /\ call[k].pc = "consume" /\ call' = [call EXCEPT ![k].pc = "sync"]
        /\ UNCHANGED <<snaps, snapRows, clock, owed, keeper>>
    BY <1>6 DEF Consume, ConsumePlan, PlanFault, bounds
  <2>2. call'[k].pc = "sync" /\ call'[k].who = call[k].who BY <2>1 DEF Safe, Shape, Fields
  <2>3. \A j \in PlanCalls : j # k => call'[j] = call[j] BY <2>1 DEF Safe, Shape
  <2>4. call[k].who \in Callers BY <2>1 DEF Retained, Saved
  <2>5. QED BY <2>1, <2>2, <2>3, <2>4, QuietRetained
<1>7. ASSUME NEW k \in PlanCalls, TakeLock(k) PROVE Retained'
  BY <1>7, TakeLockRetained
<1>8. ASSUME NEW k \in PlanCalls, Write(k) PROVE Retained'
  BY <1>8, WriteRetained
<1>9. ASSUME Tick \/ ServerRestart PROVE Retained'
  BY <1>9, AroundRetained
<1>10. ASSUME UNCHANGED plansVars PROVE Retained'
  BY <1>10, QuietRetained DEF plansVars
<1>11. QED
  BY <1>1, <1>2, <1>3, <1>4, <1>5, <1>6, <1>7, <1>8, <1>9, <1>10 DEF PlansNext

(* What the map or the row of a content answers, while it is due.          *)
LEMMA RowIsFound ==
  ASSUME Retained, NEW c \in Callers, NEW x \in Contents,
         owed[c][x] # Nobody, clock - owed[c][x] <= SnapshotTTL
  PROVE  keeper[x] \in Callers /\ FindsSnapshot(x, keeper[x]) /\ x \in ListSnapshots(keeper[x])
<1>1. Row(x, owed[c][x]) BY DEF Retained, Repaid
<1>2. /\ clock \in Nat /\ snapRows[x].at \in Nat /\ SnapshotTTL \in Nat
      /\ snaps[x] \in {NoSnapshot, snapRows[x]}
  BY PlansAssumption DEF Retained, Stored, Snapshots, PlansAssumption
<1>3. snapRows[x].who # Nobody BY <1>1, PlansAssumption DEF Row, PlansAssumption
<1>4. Lives(snapRows[x], SnapshotTTL) BY <1>1, <1>2, <1>3 DEF Row, Lives
<1>5. Lookup(snaps, snapRows, x, SnapshotTTL) = snapRows[x]
  BY <1>2 DEF Lookup, Lives, NoSnapshot
<1>6. keeper[x] = snapRows[x].who BY DEF Retained, Stored
<1>7. QED
  BY <1>1, <1>4, <1>5, <1>6
  DEF Row, FindsSnapshot, Retrievable, ListSnapshots, ListEphemeralRecords

(* Whoever finds or lists a content is its keeper: map and row are his.    *)
LEMMA FoundByItsKeeper ==
  ASSUME Retained, NEW c \in Callers, NEW x \in Contents,
         FindsSnapshot(x, c) \/ x \in ListSnapshots(c)
  PROVE  c = keeper[x]
<1>1. keeper[x] = snapRows[x].who /\ snaps[x] \in {NoSnapshot, snapRows[x]}
  BY DEF Retained, Stored
<1>2. NoSnapshot.who # c BY PlansAssumption DEF NoSnapshot, PlansAssumption
<1>3. Lookup(snaps, snapRows, x, SnapshotTTL) \in {snaps[x], snapRows[x]} BY DEF Lookup
<1>4. QED
  BY <1>1, <1>2, <1>3 DEF FindsSnapshot, Retrievable, ListSnapshots, ListEphemeralRecords

(* What was replaced is retained for 24 hours, whatever is evicted, fails  *)
(* or restarts, for the last caller whose call has retained it; no other   *)
(* caller finds or lists it.  There may be any number of callers.          *)
THEOREM SnapshotsSurvive == PlansSpec => []SnapshotsHaveOneKeeper
<1>1. PlansInit => Safe /\ Retained BY InitSafe, InitRetained
<1>2. Safe /\ Retained /\ [PlansNext]_plansVars => (Safe /\ Retained)' BY NextSafe, NextRetained
<1>3. Retained => SnapshotsHaveOneKeeper
  BY RowIsFound, FoundByItsKeeper DEF SnapshotsHaveOneKeeper
<1>4. QED BY <1>1, <1>2, <1>3, PTL DEF PlansSpec
=============================================================================

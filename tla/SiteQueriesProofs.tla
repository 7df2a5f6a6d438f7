-------------------------- MODULE SiteQueriesProofs --------------------------
(***************************************************************************)
(* The three properties of the answers in pages, for any site, any limits, *)
(* any number of edits, builds and failures.  A list is a set in a total   *)
(* order, so that what comes before a page is the number of pages before   *)
(* it.  Of the array and its maps the invariant says where they agree      *)
(* while a writer takes them apart and puts them together again; of a call *)
(* it says what has been told, as the beginning of an answer that nobody   *)
(* has changed, or else which pages are still ahead of the offset.         *)
(***************************************************************************)
EXTENDS SiteQueries, FiniteSetTheorems, SequenceTheorems, TLAPS

TotalOrder(R, S) ==
    /\ \A x, y \in S : x # y => <<x, y>> \in R \/ <<y, x>> \in R
    /\ \A x, y, z \in S : <<x, y>> \in R /\ <<y, z>> \in R => <<x, z>> \in R
    /\ \A x \in S : <<x, x>> \notin R

(* The end of an interval of numbers is determined by the interval.         *)
LEMMA IntervalEnd ==
  ASSUME NEW m \in Nat, NEW n \in Nat, 1 .. m = 1 .. n
  PROVE  m = n
<1>1. CASE m < n
  <2>1. n \in 1 .. n /\ n \notin 1 .. m
    BY <1>1
  <2> QED
    BY <2>1
<1>2. CASE n < m
  <2>1. m \in 1 .. m /\ m \notin 1 .. n
    BY <1>2
  <2> QED
    BY <2>1
<1> QED
  BY <1>1, <1>2

(* A function on the first n numbers is a sequence of n.                   *)
LEMMA LenFun ==
  ASSUME NEW T, NEW n \in Nat, NEW o \in [1 .. n -> T]
  PROVE  o \in Seq(T) /\ Len(o) = n /\ DOMAIN o = 1 .. n
<1>1. o \in Seq(T)
  OBVIOUS
<1>2. DOMAIN o = 1 .. n /\ DOMAIN o = 1 .. Len(o) /\ Len(o) \in Nat
  BY <1>1, LenProperties
<1> QED
  BY <1>1, <1>2, IntervalEnd

(* How many elements come before x, and so where it stands.                 *)
Place(S, R, x) == Cardinality(Below(S, R, x)) + 1

(* Places are different for different elements, and go from 1 to the size   *)
(* of the set without a gap.                                                *)
LEMMA Places ==
  ASSUME NEW S, IsFiniteSet(S), NEW R, TotalOrder(R, S)
  PROVE  /\ Cardinality(S) \in Nat
         /\ \A x \in S : Place(S, R, x) \in 1 .. Cardinality(S)
         /\ \A x, y \in S : Place(S, R, x) < Place(S, R, y) <=> <<x, y>> \in R
         /\ \A x, y \in S : Place(S, R, x) = Place(S, R, y) => x = y
         /\ \A i \in 1 .. Cardinality(S) : \E x \in S : Place(S, R, x) = i
<1>1. Cardinality(S) \in Nat
  BY FS_CardinalityType
<1>2. ASSUME NEW x \in S
      PROVE  IsFiniteSet(Below(S, R, x)) /\ Place(S, R, x) \in 1 .. Cardinality(S)
  <2>1. /\ Below(S, R, x) \in SUBSET (S \ {x}) /\ IsFiniteSet(S \ {x})
        /\ Cardinality(S \ {x}) = Cardinality(S) - 1
    BY FS_RemoveElement DEF Below, TotalOrder
  <2>2. IsFiniteSet(Below(S, R, x)) /\ Cardinality(Below(S, R, x)) <= Cardinality(S) - 1
    BY <2>1, FS_Subset
  <2>3. Cardinality(Below(S, R, x)) \in Nat
    BY <2>2, FS_CardinalityType
  <2> QED
    BY <1>1, <2>2, <2>3 DEF Place
<1>3. ASSUME NEW x \in S, NEW y \in S, <<x, y>> \in R
      PROVE  Place(S, R, x) < Place(S, R, y)
  <2>1. Below(S, R, x) \cup {x} \in SUBSET Below(S, R, y) /\ x \notin Below(S, R, x)
    BY <1>3 DEF Below, TotalOrder
  <2>2. Cardinality(Below(S, R, x) \cup {x}) = Cardinality(Below(S, R, x)) + 1
    BY <1>2, <2>1, FS_AddElement
  <2>3. Cardinality(Below(S, R, x) \cup {x}) <= Cardinality(Below(S, R, y))
    BY <1>2, <2>1, FS_Subset
  <2>4. Cardinality(Below(S, R, x)) \in Nat /\ Cardinality(Below(S, R, y)) \in Nat
    BY <1>2, FS_CardinalityType
  <2> QED
    BY <2>2, <2>3, <2>4 DEF Place
<1>4. ASSUME NEW x \in S, NEW y \in S
      PROVE  /\ Place(S, R, x) < Place(S, R, y) <=> <<x, y>> \in R
             /\ Place(S, R, x) = Place(S, R, y) => x = y
  <2>1. x = y \/ <<x, y>> \in R \/ <<y, x>> \in R
    BY DEF TotalOrder
  <2>2. Place(S, R, x) \in Int /\ Place(S, R, y) \in Int
    BY <1>2
  <2>3. CASE <<x, y>> \in R
    BY <1>3, <2>2, <2>3
  <2>4. CASE <<y, x>> \in R
    <3>1. Place(S, R, y) < Place(S, R, x)
      BY <1>3, <2>4
    <3>2. <<x, y>> \notin R
      BY <2>4 DEF TotalOrder
    <3> QED
      BY <2>2, <3>1, <3>2
  <2>5. CASE x = y
    BY <2>2, <2>5 DEF TotalOrder
  <2> QED
    BY <2>1, <2>3, <2>4, <2>5
<1>5. ASSUME NEW i \in 1 .. Cardinality(S) PROVE \E x \in S : Place(S, R, x) = i
  <2>1. PICK f : f = [x \in S |-> Place(S, R, x)]
    OBVIOUS
  <2>2. f \in [S -> 1 .. Cardinality(S)] /\ \A x \in S : f[x] = Place(S, R, x)
    BY <1>2, <2>1
  <2>3. f \in Injection(S, 1 .. Cardinality(S))
    BY <1>4, <2>2 DEF Injection, IsInjective
  <2>4. IsFiniteSet(1 .. Cardinality(S)) /\ Cardinality(1 .. Cardinality(S)) = Cardinality(S)
    BY <1>1, FS_Interval
  <2>5. f \in Surjection(S, 1 .. Cardinality(S))
    BY <2>3, <2>4, FS_Injection
  <2> QED
    BY <2>2, <2>5 DEF Surjection
<1> QED
  BY <1>1, <1>2, <1>4, <1>5

(* A sequence in order has each element once, where it belongs.             *)
LEMMA OrderedFacts ==
  ASSUME NEW S, IsFiniteSet(S), NEW R, TotalOrder(R, S)
  PROVE  /\ Cardinality(S) \in Nat
         /\ Ordered(S, R) \in [1 .. Cardinality(S) -> S]
         /\ \A x \in S : Place(S, R, x) \in 1 .. Cardinality(S) /\ Ordered(S, R)[Place(S, R, x)] = x
         /\ \A i \in 1 .. Cardinality(S) : Place(S, R, Ordered(S, R)[i]) = i
<1>1. /\ Cardinality(S) \in Nat
      /\ \A x \in S : Place(S, R, x) \in 1 .. Cardinality(S)
      /\ \A x, y \in S : Place(S, R, x) = Place(S, R, y) => x = y
      /\ \A i \in 1 .. Cardinality(S) : \E x \in S : Place(S, R, x) = i
  BY Places
<1>2. ASSUME NEW i \in 1 .. Cardinality(S)
      PROVE  Ordered(S, R)[i] \in S /\ Place(S, R, Ordered(S, R)[i]) = i
  <2>1. PICK z : z = CHOOSE x \in S : Cardinality(Below(S, R, x)) = i - 1
    OBVIOUS
  <2>2. \E x \in S : Cardinality(Below(S, R, x)) = i - 1
    <3>1. PICK x \in S : Place(S, R, x) = i
      BY <1>1
    <3>2. IsFiniteSet(Below(S, R, x))
      BY FS_Subset DEF Below
    <3>3. Cardinality(Below(S, R, x)) \in Nat
      BY <3>2, FS_CardinalityType
    <3>4. Cardinality(Below(S, R, x)) = i - 1
      BY <3>1, <3>3 DEF Place
    <3> QED
      BY <3>4
  <2>3. z \in S /\ Cardinality(Below(S, R, z)) = i - 1
    BY <2>1, <2>2
  <2>4. z = Ordered(S, R)[i]
    BY <2>1 DEF Ordered
  <2>5. i - 1 + 1 = i
    OBVIOUS
  <2> QED
    BY <2>3, <2>4, <2>5 DEF Place
<1>3. Ordered(S, R) \in [1 .. Cardinality(S) -> S]
  <2>1. PICK o : o = Ordered(S, R)
    OBVIOUS
  <2>2. o = [i \in 1 .. Cardinality(S) |-> o[i]]
    BY <2>1 DEF Ordered
  <2>3. \A i \in 1 .. Cardinality(S) : o[i] \in S
    BY <1>2, <2>1
  <2> QED
    BY <2>1, <2>2, <2>3
<1>4. ASSUME NEW x \in S PROVE Ordered(S, R)[Place(S, R, x)] = x
  BY <1>1, <1>2
<1> QED
  BY <1>1, <1>2, <1>3, <1>4

(* The same said of it as a sequence.                                       *)
LEMMA OrderedSeq ==
  ASSUME NEW S, IsFiniteSet(S), NEW R, TotalOrder(R, S)
  PROVE  /\ Ordered(S, R) \in Seq(S)
         /\ Len(Ordered(S, R)) = Cardinality(S)
         /\ ToSet(Ordered(S, R)) = S
         /\ \A i, j \in 1 .. Len(Ordered(S, R)) : Ordered(S, R)[i] = Ordered(S, R)[j] => i = j
<1>1. PICK o : o = Ordered(S, R)
  OBVIOUS
<1>2. PICK n : n = Cardinality(S)
  OBVIOUS
<1>3. /\ n \in Nat /\ o \in [1 .. n -> S]
      /\ \A x \in S : Place(S, R, x) \in 1 .. n /\ o[Place(S, R, x)] = x
      /\ \A i \in 1 .. n : Place(S, R, o[i]) = i
  BY <1>1, <1>2, OrderedFacts
<1>4. o \in Seq(S)
  BY <1>3
<1>5. Len(o) = n /\ DOMAIN o = 1 .. n
  BY <1>3, LenFun
<1>6. ToSet(o) = S
  BY <1>3, <1>5 DEF ToSet
<1>7. \A i, j \in 1 .. n : o[i] = o[j] => i = j
  BY <1>3
<1> QED
  BY <1>1, <1>2, <1>4, <1>5, <1>6, <1>7

-----------------------------------------------------------------------------
(* Pages picked out of a sequence keep their order: p tells where each of   *)
(* them was.                                                                *)
Picks(p, seq, at) ==
    /\ p \in [1 .. Cardinality(at) -> at]
    /\ Picked(seq, at) = [k \in 1 .. Cardinality(at) |-> seq[p[k]]]
    /\ \A j, k \in 1 .. Cardinality(at) : j < k => p[j] < p[k]
    /\ \A i \in at : \E k \in 1 .. Cardinality(at) : p[k] = i
    /\ \A k \in 1 .. Cardinality(at) : Cardinality({j \in at : j < p[k]}) = k - 1

(* What is picked out of a sequence is in the order of the sequence.       *)
LEMMA PickedFacts ==
  ASSUME NEW seq, NEW at \in SUBSET Nat, IsFiniteSet(at)
  PROVE  Cardinality(at) \in Nat /\ \E p : Picks(p, seq, at)
<1>1. PICK R : R = {b \in at \X at : b[1] < b[2]}
  OBVIOUS
<1>2. \A x, y \in at : <<x, y>> \in R <=> x < y
  BY <1>1
<1>3. TotalOrder(R, at)
  BY <1>2 DEF TotalOrder
<1>4. PICK p : p = Ordered(at, R)
  OBVIOUS
<1>5. PICK n : n = Cardinality(at)
  OBVIOUS
<1>6. /\ n \in Nat /\ p \in [1 .. n -> at]
      /\ \A x \in at : Place(at, R, x) \in 1 .. n /\ p[Place(at, R, x)] = x
      /\ \A i \in 1 .. n : Place(at, R, p[i]) = i
  BY <1>3, <1>4, <1>5, OrderedFacts
<1>7. \A x, y \in at : Place(at, R, x) < Place(at, R, y) <=> x < y
  BY <1>2, <1>3, Places
<1>8. \A j, k \in 1 .. n : j < k => p[j] < p[k]
  BY <1>6, <1>7
<1>9. \A i \in at : \E k \in 1 .. n : p[k] = i
  BY <1>6
<1>10. ASSUME NEW k \in 1 .. n PROVE Cardinality({j \in at : j < p[k]}) = k - 1
  <2>1. p[k] \in at /\ Place(at, R, p[k]) = k
    BY <1>6
  <2>2. Below(at, R, p[k]) = {j \in at : j < p[k]}
    BY <1>2, <2>1 DEF Below
  <2>3. Cardinality({j \in at : j < p[k]}) \in Nat
    <3>1. {j \in at : j < p[k]} \in SUBSET at
      OBVIOUS
    <3> QED
      BY <3>1, FS_Subset, FS_CardinalityType
  <2> QED
    BY <2>1, <2>2, <2>3 DEF Place
<1>11. Picked(seq, at) = [k \in 1 .. n |-> seq[p[k]]]
  <2>1. ASSUME NEW k \in 1 .. n
        PROVE  p[k] = Nth(at, k)
    <3>1. \A i \in at : Below(at, R, i) = {j \in at : j < i}
      BY <1>2 DEF Below
    <3>2. p[k] \in at
      BY <1>6
    <3>3. ASSUME NEW i \in at PROVE Cardinality({j \in at : j < i}) = k - 1 <=> i = p[k]
      <4>1. Place(at, R, i) = k <=> i = p[k]
        BY <1>6
      <4>2. Cardinality({j \in at : j < i}) \in Nat
        <5>1. {j \in at : j < i} \in SUBSET at
          OBVIOUS
        <5> QED
          BY <5>1, FS_Subset, FS_CardinalityType
      <4>3. Place(at, R, i) = Cardinality({j \in at : j < i}) + 1
        BY <3>1 DEF Place
      <4> QED
        BY <4>1, <4>2, <4>3
    <3> QED
      BY <3>2, <3>3 DEF Nth
  <2>2. Picked(seq, at) = [k \in 1 .. n |-> seq[Nth(at, k)]]
    BY <1>5 DEF Picked
  <2> QED
    BY <2>1, <2>2
<1> QED
  BY <1>5, <1>6, <1>8, <1>9, <1>10, <1>11 DEF Picks

(* Those of a sequence that are in a set.                                   *)
InOrder(p, o, seq) ==
    /\ p \in [1 .. Len(o) -> 1 .. Len(seq)]
    /\ \A k \in 1 .. Len(o) : o[k] = seq[p[k]]
    /\ \A j, k \in 1 .. Len(o) : j < k => p[j] < p[k]

(* The pages of a sequence that are in a set, and where they were in it.   *)
LEMMA ThoseFacts ==
  ASSUME NEW T, NEW seq \in Seq(T), NEW S
  PROVE  /\ Those(seq, S) \in Seq(T \cap S)
         /\ ToSet(Those(seq, S)) = ToSet(seq) \cap S
         /\ \E p : InOrder(p, Those(seq, S), seq)
<1>1. PICK at : at = {i \in 1 .. Len(seq) : seq[i] \in S}
  OBVIOUS
<1>2. Len(seq) \in Nat /\ DOMAIN seq = 1 .. Len(seq) /\ \A i \in 1 .. Len(seq) : seq[i] \in T
  BY LenProperties
<1>3. at \in SUBSET (1 .. Len(seq)) /\ IsFiniteSet(1 .. Len(seq))
  BY <1>1, <1>2, FS_Interval
<1>4. at \in SUBSET Nat /\ IsFiniteSet(at)
  <2>1. at \in SUBSET Nat
    BY <1>2, <1>3
  <2>2. IsFiniteSet(at)
    BY <1>3, FS_Subset
  <2> QED
    BY <2>1, <2>2
<1>5. PICK n : n = Cardinality(at)
  OBVIOUS
<1>6. n \in Nat
  BY <1>4, <1>5, FS_CardinalityType
<1>7. PICK p :
          /\ p \in [1 .. n -> at]
          /\ Picked(seq, at) = [k \in 1 .. n |-> seq[p[k]]]
          /\ \A j, k \in 1 .. n : j < k => p[j] < p[k]
          /\ \A i \in at : \E k \in 1 .. n : p[k] = i
  <2>1. PICK p : Picks(p, seq, at)
    BY <1>4, PickedFacts
  <2> QED
    BY <1>5, <2>1 DEF Picks
<1>8. Those(seq, S) = Picked(seq, at)
  BY <1>1, <1>2 DEF Those
<1>9. PICK o : o = Those(seq, S)
  OBVIOUS
<1>10. o \in [1 .. n -> T \cap S]
  BY <1>1, <1>2, <1>7, <1>8, <1>9
<1>11. o \in Seq(T \cap S) /\ Len(o) = n /\ DOMAIN o = 1 .. n
  BY <1>6, <1>10, LenFun
<1>12. \A k \in 1 .. n : o[k] = seq[p[k]] /\ p[k] \in 1 .. Len(seq)
  BY <1>3, <1>7, <1>8, <1>9
<1>13. ToSet(o) = ToSet(seq) \cap S
  <2>1. ASSUME NEW x \in ToSet(o) PROVE x \in ToSet(seq) \cap S
    <3>1. PICK k \in 1 .. n : o[k] = x
      BY <1>11, <2>1 DEF ToSet
    <3> QED
      BY <1>2, <1>10, <1>12, <3>1 DEF ToSet
  <2>2. ASSUME NEW x \in ToSet(seq) \cap S PROVE x \in ToSet(o)
    <3>1. PICK i \in 1 .. Len(seq) : seq[i] = x
      BY <1>2, <2>2 DEF ToSet
    <3>2. i \in at
      BY <1>1, <2>2, <3>1
    <3>3. PICK k \in 1 .. n : p[k] = i
      BY <1>7, <3>2
    <3> QED
      BY <1>11, <1>12, <3>1, <3>3 DEF ToSet
  <2> QED
    BY <2>1, <2>2
<1>14. p \in [1 .. n -> 1 .. Len(seq)]
  BY <1>3, <1>7
<1> QED
  BY <1>7, <1>9, <1>11, <1>12, <1>13, <1>14 DEF InOrder

(* The first n of a sequence.                                               *)
LEMMA FirstOfFacts ==
  ASSUME NEW T, NEW seq \in Seq(T), NEW n \in Nat
  PROVE  /\ FirstOf(seq, n) \in Seq(T) /\ Len(seq) \in Nat
         /\ Len(FirstOf(seq, n)) = Smaller(n, Len(seq))
         /\ \A i \in 1 .. Len(FirstOf(seq, n)) : i \in 1 .. Len(seq) /\ FirstOf(seq, n)[i] = seq[i]
         /\ Len(seq) <= n => FirstOf(seq, n) = seq
<1>1. PICK m : m = Smaller(n, Len(seq))
  OBVIOUS
<1>2. Len(seq) \in Nat /\ \A i \in 1 .. Len(seq) : seq[i] \in T
  BY LenProperties
<1>3. m \in Nat /\ m <= Len(seq) /\ m <= n /\ (Len(seq) <= n => m = Len(seq))
  BY <1>1, <1>2 DEF Smaller
<1>4. PICK p : p = SubSeq(seq, 1, m)
  OBVIOUS
<1>5. /\ p \in Seq(T)
      /\ Len(p) = IF 1 <= m THEN m - 1 + 1 ELSE 0
      /\ \A i \in 1 .. m - 1 + 1 : p[i] = seq[1 + i - 1]
  <2>1. 1 \in Int /\ m \in Int /\ \A i \in 1 .. m : seq[i] \in T
    BY <1>2, <1>3
  <2> QED
    BY <1>4, <2>1, SubSeqProperties
<1>6. Len(p) = m /\ \A i \in 1 .. m : i \in 1 .. Len(seq) /\ p[i] = seq[i]
  BY <1>2, <1>3, <1>5
<1>7. Len(seq) <= n => p = seq
  BY <1>3, <1>4, SubSeqFull
<1> QED
  BY <1>1, <1>2, <1>4, <1>5, <1>6, <1>7 DEF FirstOf

-----------------------------------------------------------------------------
(* The invariant *)
AllPages == SourcePages \cup SectionPages

OneEach(S) == \A p, q \in S : p.slug = q.slug => p = q
Distinct(seq, at) == \A i, j \in at : seq[i].slug = seq[j].slug => i = j

WriterPcs == {"idle", "index", "shift", "clear maps", "fill maps", "unlist", "drop row",
              "reload maps", "publish", "sync rows"}
CallPcs == {"idle", "ask", "copy", "look up", "slot", "revision", "done"}

Maps == UNION {[D -> Nat \ {0}] : D \in SUBSET Nat}
Sources == [slots : Seq(SourcePages), len : Nat, at : Maps]
WriterSteps == [pc : WriterPcs, slug : Nat, from : Nat, to : Nat, page : SourcePages \cup {Nothing}]
WriterType(w) == w \in WriterSteps /\ (w.pc = "index" => w.page \in SourcePages)

Walks == ListTools \cup Validations \cup {"search_content"}
Calls == [pc : CallPcs, tool : {Nothing} \cup Walks \cup {"get_page_for_edit"}, limit : Nat, offset : Nat,
          lang : Langs \cup {Nothing}, slug : Nat, got : Seq(AllPages), hits : Seq(SourcePages),
          total : Nat, array : Seq(SourcePages), start : SUBSET AllPages,
          quiet : BOOLEAN, shrunk : BOOLEAN]

(* Every copy has a page once; so has the array in the part of it that is   *)
(* in play, and the maps name the positions of its pages unless a writer is *)
(* between the array and the maps.                                          *)
CopiesInv ==
    /\ files \subseteq SourcePages /\ OneEach(files)
    /\ public \subseteq SourcePages /\ OneEach(public)
    /\ rows \in Seq(SourcePages) /\ Distinct(rows, 1 .. Len(rows))

InPlay(src, w) ==
    IF w.pc = "shift" THEN (1 .. w.to) \cup (w.from .. src.len) ELSE 1 .. src.len
MappedTo(src, n) ==
    /\ DOMAIN src.at = {src.slots[i].slug : i \in 1 .. n}
    /\ \A s \in DOMAIN src.at : src.at[s] \in 1 .. n /\ src.slots[src.at[s]].slug = s
Settled == {"idle", "index", "unlist", "drop row", "publish", "sync rows"}

SourceOK(src, w) ==
    /\ src \in Sources /\ src.len <= Len(src.slots)
    /\ Distinct(src.slots, InPlay(src, w))
    /\ w.pc = "shift" => w.to < w.from /\ w.from <= src.len + 1
    /\ w.pc = "fill maps" => w.from \in 1 .. src.len + 1 /\ MappedTo(src, w.from - 1)
    /\ w.pc = "reload maps" => src.len = Len(src.slots)
    /\ w.pc \in Settled => MappedTo(src, src.len)

SystemInv == CopiesInv /\ WriterType(writer) /\ SourceOK(source, writer)

(* A quiet call has no writer beside it.  What it was told so far is the    *)
(* beginning of the whole answer, which is one that does not change while   *)
(* it is quiet; a lookup that found a position finds the page there.        *)
QuietOK(c, w) == c.pc # "idle" /\ c.quiet => w.pc = "idle" /\ c.array = <<>>

PhaseOK(c, src) ==
    /\ c.pc \in {"ask", "done"} => c.tool \in Walks \cup {"get_page_for_edit"}
    /\ c.pc = "copy" => c.tool \in Validations
    /\ c.pc = "look up" => c.tool = "search_content"
    /\ c.pc \in {"slot", "revision"} => c.tool = "get_page_for_edit"
    /\ c.pc = "slot" => c.total # 0
    /\ c.pc = "copy" =>
          /\ Len(c.hits) <= c.total
          /\ c.total <= IF c.array = <<>> THEN Len(src.slots) ELSE Len(c.array)

Used(src) == SubSeq(src.slots, 1, src.len)
Whole(c, index, src, table) ==
    CASE c.tool \in ListTools -> Listing(c.tool, index)
      [] c.tool = "validate_site" -> Used(src)
      [] c.tool = "invalid_only" -> Those(Used(src), Invalid)
      [] OTHER -> IF Hits(table) # <<>> THEN Found(Hits(table), index, c.lang)
                                        ELSE Scanned(index, c.lang)

WalkOK(c, index, src, table) == c.pc # "idle" /\ c.quiet /\ c.tool \in Walks =>
    /\ c.offset <= Len(Whole(c, index, src, table))
    /\ c.got = SubSeq(Whole(c, index, src, table), 1, c.offset)
    /\ c.pc = "done" => c.offset = Len(Whole(c, index, src, table))
    /\ c.pc = "copy" => c.total = src.len /\ c.hits = SubSeq(src.slots, 1, Len(c.hits))
    /\ c.pc = "look up" => c.hits = Hits(table)

LookupOK(c, src, disk) == c.pc # "idle" /\ c.quiet /\ c.tool = "get_page_for_edit" =>
    /\ c.pc = "ask" => c.got = <<>> /\ c.hits = <<>>
    /\ c.pc = "slot" => c.slug \in DOMAIN src.at /\ c.total = src.at[c.slug]
    /\ c.pc = "revision" => c.slug \in DOMAIN src.at /\ c.got = <<src.slots[src.at[c.slug]]>>
    /\ c.pc = "done" =>
          IF c.slug \in DOMAIN src.at
          THEN /\ c.got = <<src.slots[src.at[c.slug]]>>
               /\ c.hits = SetToSeq({p \in disk : p.slug = c.slug})
          ELSE c.got = <<>> /\ c.hits = <<>>

(* A page that was listed at the start and not told yet is still ahead,     *)
(* though others may have come before it.                                   *)
GrowthOK(c, index) == c.pc # "idle" /\ c.tool \in ListTools /\ ~c.shrunk =>
    /\ c.start \subseteq Pool(c.tool, index)
    /\ \A p \in c.start :
          \/ p \in ToSet(c.got)
          \/ c.pc = "ask" /\ Place(Pool(c.tool, index), OrderOf(c.tool), p) > c.offset

CallInv ==
    /\ call \in Calls /\ QuietOK(call, writer) /\ PhaseOK(call, source)
    /\ WalkOK(call, public, source, rows) /\ LookupOK(call, source, files) /\ GrowthOK(call, public)

IInv == SystemInv /\ CallInv

-----------------------------------------------------------------------------
(* The orders of the lists are total: pages of one list differ in slug.     *)
LEMMA PageFacts ==
  ASSUME NEW p \in AllPages
  PROVE  /\ p.slug \in Nat /\ p.slug # 0 /\ p.key \in Nat /\ p.date \in Nat /\ p.lang \in Langs
         /\ Score(p) \in Nat
         /\ \A q \in AllPages : Shared(p, q) \in Nat /\ InWords(p, q) \in Nat
<1>1. /\ p.slug \in Nat /\ p.slug # 0 /\ p.key \in Nat /\ p.date \in Nat /\ p.lang \in Langs
      /\ IsFiniteSet(p.terms) /\ IsFiniteSet(p.text)
  BY SiteQueriesAssumption DEF AllPages
<1>2. IsFiniteSet(p.text \cap Query)
  BY <1>1, FS_Intersection
<1>3. ASSUME NEW q \in AllPages PROVE IsFiniteSet(p.terms \cap q.terms) /\ IsFiniteSet(p.text \cap q.text)
  BY <1>1, FS_Intersection
<1> QED
  BY <1>1, <1>2, <1>3, FS_CardinalityType DEF Score, Shared, InWords

(* By some number first, and for equal numbers the newest first.            *)
ByNumber(f) == {b \in Pairs : f[b[1]] > f[b[2]] \/ (f[b[1]] = f[b[2]] /\ NewerThan(b[1], b[2]))}

(* Pages that differ in slug are in order by any number, then date.        *)
LEMMA ByNumberTotal ==
  ASSUME NEW S \in SUBSET AllPages, OneEach(S), NEW f \in [AllPages -> Nat]
  PROVE  TotalOrder(ByNumber(f), S)
<1>1. \A p \in S : p \in AllPages /\ f[p] \in Nat /\ p.slug \in Nat /\ p.date \in Nat
  BY PageFacts
<1>2. \A p, q \in S : <<p, q>> \in ByNumber(f) <=>
          f[p] > f[q] \/ (f[p] = f[q] /\ NewerThan(p, q))
  BY <1>1 DEF ByNumber, Pairs, AllPages
<1>3. \A p, q \in S : p # q => p.slug # q.slug
  BY DEF OneEach
<1>4. ASSUME NEW p \in S, NEW q \in S, p # q
      PROVE  <<p, q>> \in ByNumber(f) \/ <<q, p>> \in ByNumber(f)
  BY <1>1, <1>2, <1>3, <1>4 DEF NewerThan
<1>5. ASSUME NEW p \in S, NEW q \in S, NEW r \in S,
             <<p, q>> \in ByNumber(f), <<q, r>> \in ByNumber(f)
      PROVE  <<p, r>> \in ByNumber(f)
  BY <1>1, <1>2, <1>5 DEF NewerThan
<1>6. ASSUME NEW p \in S PROVE <<p, p>> \notin ByNumber(f)
  BY <1>1, <1>2 DEF NewerThan
<1> QED
  BY <1>4, <1>5, <1>6 DEF TotalOrder

(* The orders of the lists and of search_pages.                            *)
LEMMA NewestTotal ==
  ASSUME NEW S \in SUBSET AllPages, OneEach(S)
  PROVE  TotalOrder(Newest, S) /\ TotalOrder(ScoreThenDate, S)
<1>1. PICK f : f = [p \in AllPages |-> 0]
  OBVIOUS
<1>2. PICK g : g = [p \in AllPages |-> Score(p)]
  OBVIOUS
<1>3. f \in [AllPages -> Nat] /\ g \in [AllPages -> Nat]
  BY <1>1, <1>2, PageFacts
<1>4. \A b \in Pairs : b[1] \in AllPages /\ b[2] \in AllPages
  BY DEF Pairs, AllPages
<1>5. ByNumber(f) = Newest
  BY <1>1, <1>4 DEF ByNumber, Newest
<1>6. ByNumber(g) = ScoreThenDate
  BY <1>2, <1>4 DEF ByNumber, ScoreThenDate
<1> QED
  BY <1>3, <1>5, <1>6, ByNumberTotal

(* The orders of get_related_content and suggest_links.                    *)
LEMMA ClosestTotal ==
  ASSUME NEW S \in SUBSET AllPages, OneEach(S), NEW ref \in AllPages
  PROVE  TotalOrder(Closest(ref), S) /\ TotalOrder(Wordiest(ref), S)
<1>1. PICK f : f = [p \in AllPages |-> Shared(p, ref)]
  OBVIOUS
<1>2. PICK g : g = [p \in AllPages |-> InWords(p, ref)]
  OBVIOUS
<1>3. f \in [AllPages -> Nat] /\ g \in [AllPages -> Nat]
  BY <1>1, <1>2, PageFacts
<1>4. \A b \in Pairs : b[1] \in AllPages /\ b[2] \in AllPages
  BY DEF Pairs, AllPages
<1>5. ByNumber(f) = Closest(ref)
  BY <1>1, <1>4 DEF ByNumber, Closest
<1>6. ByNumber(g) = Wordiest(ref)
  BY <1>2, <1>4 DEF ByNumber, Wordiest
<1> QED
  BY <1>3, <1>5, <1>6, ByNumberTotal

(* The order of search_content without the table.                          *)
LEMMA LatestSlugTotal ==
  ASSUME NEW S \in SUBSET AllPages, OneEach(S)
  PROVE  TotalOrder(LatestSlug, S)
<1>1. \A p \in S : p \in AllPages /\ Score(p) \in Nat /\ p.slug \in Nat /\ p.date \in Nat
  BY PageFacts
<1>2. \A p, q \in S : <<p, q>> \in LatestSlug <=>
          \/ Score(p) > Score(q)
          \/ Score(p) = Score(q) /\ p.date > q.date
          \/ Score(p) = Score(q) /\ p.date = q.date /\ p.slug > q.slug
  BY <1>1 DEF LatestSlug, Pairs, AllPages
<1>3. \A p, q \in S : p # q => p.slug # q.slug
  BY DEF OneEach
<1>4. ASSUME NEW p \in S, NEW q \in S, p # q
      PROVE  <<p, q>> \in LatestSlug \/ <<q, p>> \in LatestSlug
  BY <1>1, <1>2, <1>3, <1>4
<1>5. ASSUME NEW p \in S, NEW q \in S, NEW r \in S,
             <<p, q>> \in LatestSlug, <<q, r>> \in LatestSlug
      PROVE  <<p, r>> \in LatestSlug
  BY <1>1, <1>2, <1>5
<1>6. ASSUME NEW p \in S PROVE <<p, p>> \notin LatestSlug
  BY <1>1, <1>2
<1> QED
  BY <1>4, <1>5, <1>6 DEF TotalOrder

(* The order a reload puts the array in.                                   *)
LEMMA ByBundleTotal ==
  ASSUME NEW S \in SUBSET AllPages, OneEach(S)
  PROVE  TotalOrder(ByBundle, S)
<1>1. \A p \in S : p \in AllPages /\ p.slug \in Nat /\ p.key \in Nat
  BY PageFacts
<1>2. \A p, q \in S : <<p, q>> \in ByBundle <=> p.key < q.key \/ (p.key = q.key /\ p.slug < q.slug)
  BY <1>1 DEF ByBundle, Pairs, AllPages
<1>3. \A p, q \in S : p # q => p.slug # q.slug
  BY DEF OneEach
<1>4. ASSUME NEW p \in S, NEW q \in S, p # q
      PROVE  <<p, q>> \in ByBundle \/ <<q, p>> \in ByBundle
  BY <1>1, <1>2, <1>3, <1>4
<1>5. ASSUME NEW p \in S, NEW q \in S, NEW r \in S,
             <<p, q>> \in ByBundle, <<q, r>> \in ByBundle
      PROVE  <<p, r>> \in ByBundle
  BY <1>1, <1>2, <1>5
<1>6. ASSUME NEW p \in S PROVE <<p, p>> \notin ByBundle
  BY <1>1, <1>2
<1> QED
  BY <1>4, <1>5, <1>6 DEF TotalOrder

(* The order of the table's rows.                                          *)
LEMMA ByRankTotal ==
  ASSUME NEW S \in SUBSET SourcePages, OneEach(S)
  PROVE  TotalOrder(ByRank, S)
<1>1. \A p \in S : p \in AllPages /\ p.slug \in Nat /\ Rank[p] \in Nat
  BY PageFacts, SiteQueriesAssumption DEF AllPages
<1>2. \A p, q \in S : <<p, q>> \in ByRank <=>
          Rank[p] < Rank[q] \/ (Rank[p] = Rank[q] /\ p.slug < q.slug)
  BY DEF ByRank
<1>3. \A p, q \in S : p # q => p.slug # q.slug
  BY DEF OneEach
<1>4. ASSUME NEW p \in S, NEW q \in S, p # q
      PROVE  <<p, q>> \in ByRank \/ <<q, p>> \in ByRank
  BY <1>1, <1>2, <1>3, <1>4
<1>5. ASSUME NEW p \in S, NEW q \in S, NEW r \in S,
             <<p, q>> \in ByRank, <<q, r>> \in ByRank
      PROVE  <<p, r>> \in ByRank
  BY <1>1, <1>2, <1>5
<1>6. ASSUME NEW p \in S PROVE <<p, p>> \notin ByRank
  BY <1>1, <1>2
<1> QED
  BY <1>4, <1>5, <1>6 DEF TotalOrder

-----------------------------------------------------------------------------
(* The array and its maps                                                   *)

(* The type of the array, for the leaves.                                   *)
LEMMA SourceFields ==
  ASSUME NEW src \in Sources, src.len <= Len(src.slots)
  PROVE  /\ src.slots \in Seq(SourcePages) /\ Len(src.slots) \in Nat /\ src.len \in Nat
         /\ DOMAIN src.slots = 1 .. Len(src.slots)
         /\ \A i \in 1 .. Len(src.slots) : src.slots[i] \in SourcePages /\ src.slots[i].slug \in Nat
         /\ \A i \in 1 .. src.len : src.slots[i] \in SourcePages /\ src.slots[i].slug \in Nat
         /\ DOMAIN src.at \in SUBSET Nat /\ src.at \in [DOMAIN src.at -> Nat \ {0}]
<1>1. /\ src.slots \in Seq(SourcePages) /\ src.len \in Nat
      /\ src.at \in Maps
  BY DEF Sources
<1>2. Len(src.slots) \in Nat /\ DOMAIN src.slots = 1 .. Len(src.slots)
  BY <1>1, LenProperties
<1>3. \A i \in 1 .. Len(src.slots) : src.slots[i] \in SourcePages
  BY <1>1, <1>2, ElementOfSeq
<1>4. \A p \in SourcePages : p.slug \in Nat
  BY PageFacts DEF AllPages
<1>5. \A i \in 1 .. src.len : i \in 1 .. Len(src.slots)
  BY <1>1, <1>2
<1>6. DOMAIN src.at \in SUBSET Nat /\ src.at \in [DOMAIN src.at -> Nat \ {0}]
  BY <1>1 DEF Maps
<1> QED
  BY <1>1, <1>2, <1>3, <1>4, <1>5, <1>6

(* The types of what a writer has in its hands.                            *)
LEMMA WriterStepFields ==
  ASSUME NEW w, WriterType(w)
  PROVE  /\ w.pc \in WriterPcs /\ w.slug \in Nat /\ w.from \in Nat /\ w.to \in Nat
         /\ w.page \in SourcePages \cup {Nothing}
         /\ w = [pc |-> w.pc, slug |-> w.slug, from |-> w.from, to |-> w.to, page |-> w.page]
  BY DEF WriterType, WriterSteps

(* A file that is written replaces the one of its slug.                    *)
LEMMA WrittenOK ==
  ASSUME CopiesInv, NEW p \in SourcePages, Written(p)
  PROVE  files' \subseteq SourcePages /\ OneEach(files')
<1>1. files' = (files \ FileOf(p.slug)) \cup {p}
  BY DEF Written
<1> QED
  BY <1>1 DEF CopiesInv, OneEach, FileOf

(* A page replaced in its slot, or appended.                                *)
LEMMA UpsertKeepsDistinct ==
  ASSUME NEW src, NEW w, SourceOK(src, w), w.pc = "index", NEW p \in SourcePages,
         NEW src2, src2 = Upserted(src, p)
  PROVE  /\ src2 \in Sources /\ src2.len <= Len(src2.slots)
         /\ Distinct(src2.slots, 1 .. src2.len)
         /\ Len(src.slots) <= Len(src2.slots)
<1>1. src \in Sources /\ src.len <= Len(src.slots) /\ MappedTo(src, src.len) /\ Distinct(src.slots, 1 .. src.len)
  BY DEF SourceOK, Settled, InPlay
<1>2. /\ src.slots \in Seq(SourcePages) /\ Len(src.slots) \in Nat /\ src.len \in Nat
      /\ \A i \in 1 .. src.len : src.slots[i] \in SourcePages /\ src.slots[i].slug \in Nat
      /\ src.at \in Maps
  BY <1>1, SourceFields DEF Sources
<1>3. CASE p.slug \in DOMAIN src.at
  <2>1. PICK i : i = src.at[p.slug]
    OBVIOUS
  <2>2. i \in 1 .. src.len /\ src.slots[i].slug = p.slug
    BY <1>1, <1>3, <2>1 DEF MappedTo
  <2>3. i \in 1 .. Len(src.slots)
    BY <1>1, <1>2, <2>2
  <2>4. PICK t : t = [src.slots EXCEPT ![i] = p]
    OBVIOUS
  <2>5. /\ t \in Seq(SourcePages) /\ Len(t) = Len(src.slots)
        /\ \A j \in 1 .. Len(src.slots) : t[j] = IF j = i THEN p ELSE src.slots[j]
    BY <1>2, <2>3, <2>4, ExceptSeq
  <2>6. src2 = [src EXCEPT !.slots = t]
    BY <1>3, <2>1, <2>4 DEF Upserted
  <2>7. src2 \in Sources /\ src2.slots = t /\ src2.len = src.len
    BY <1>1, <2>5, <2>6 DEF Sources
  <2>8. \A j \in 1 .. src.len : t[j].slug = src.slots[j].slug
    BY <1>1, <1>2, <2>2, <2>5
  <2> QED
    BY <1>1, <1>2, <2>5, <2>7, <2>8 DEF Distinct
<1>4. CASE p.slug \notin DOMAIN src.at
  <2>1. PICK t : t = IF src.len < Len(src.slots) THEN [src.slots EXCEPT ![src.len + 1] = p]
                                                   ELSE Append(src.slots, p)
    OBVIOUS
  <2>2. /\ t \in Seq(SourcePages) /\ src.len + 1 <= Len(t) /\ Len(src.slots) <= Len(t)
        /\ t[src.len + 1] = p
        /\ \A j \in 1 .. src.len : t[j] = src.slots[j]
    <3>1. CASE src.len < Len(src.slots)
      <4>1. src.len + 1 \in 1 .. Len(src.slots) /\ t = [src.slots EXCEPT ![src.len + 1] = p]
        BY <1>2, <2>1, <3>1
      <4>2. /\ t \in Seq(SourcePages) /\ Len(t) = Len(src.slots)
            /\ \A j \in 1 .. Len(src.slots) : t[j] = IF j = src.len + 1 THEN p ELSE src.slots[j]
        BY <1>2, <4>1, ExceptSeq
      <4> QED
        BY <1>2, <4>1, <4>2
    <3>2. CASE ~(src.len < Len(src.slots))
      <4>1. t = Append(src.slots, p) /\ src.len = Len(src.slots)
        BY <1>1, <1>2, <2>1, <3>2
      <4> QED
        BY <1>2, <4>1, AppendProperties
    <3> QED
      BY <3>1, <3>2
  <2>3. src2 = [src EXCEPT !.slots = t, !.len = src.len + 1]
    BY <1>4, <2>1 DEF Upserted
  <2>4. src2 \in Sources /\ src2.slots = t /\ src2.len = src.len + 1
    <3>1. src = [slots |-> src.slots, len |-> src.len, at |-> src.at]
      BY <1>1 DEF Sources
    <3>2. src2 = [slots |-> t, len |-> src.len + 1, at |-> src.at]
      BY <2>3, <3>1
    <3> QED
      BY <1>2, <2>2, <3>2 DEF Sources
  <2>5. \A j \in 1 .. src.len : src.slots[j].slug # p.slug
    BY <1>1, <1>4 DEF MappedTo
  <2>6. \A i, j \in 1 .. src.len + 1 : t[i].slug = t[j].slug => i = j
    <3>1. \A i \in 1 .. src.len + 1 : i \in 1 .. src.len \/ i = src.len + 1
      BY <1>2
    <3> QED
      BY <1>1, <2>2, <2>5, <3>1 DEF Distinct
  <2>7. Distinct(t, 1 .. src.len + 1)
    BY <2>6 DEF Distinct
  <2> QED
    BY <2>2, <2>4, <2>7
<1> QED
  BY <1>3, <1>4

(* update_page in the array.                                               *)
LEMMA UpsertStep ==
  ASSUME SystemInv, Upsert
  PROVE  SystemInv'
<1>1. /\ writer.pc = "index" /\ writer.page \in SourcePages /\ SourceOK(source, writer)
      /\ writer' = [NoWriter EXCEPT !.pc = "clear maps"]
      /\ UNCHANGED <<files, public, rows>>
  BY DEF SystemInv, WriterType, Upsert
<1>2. PICK src : src = source
  OBVIOUS
<1>3. PICK w : w = writer
  OBVIOUS
<1>4. PICK src2 : src2 = source'
  OBVIOUS
<1>5. PICK w2 : w2 = writer'
  OBVIOUS
<1>6. PICK p : p = writer.page
  OBVIOUS
<1>7. src2 = Upserted(src, p)
  BY <1>2, <1>4, <1>6 DEF Upsert
<1>8. /\ src2 \in Sources /\ src2.len <= Len(src2.slots)
      /\ Distinct(src2.slots, 1 .. src2.len)
  BY <1>1, <1>2, <1>3, <1>6, <1>7, UpsertKeepsDistinct
<1>9. w2 = [NoWriter EXCEPT !.pc = "clear maps"]
  BY <1>1, <1>5
<1>10. w2.pc = "clear maps" /\ WriterType(w2)
  BY <1>9 DEF NoWriter, WriterType, WriterSteps, WriterPcs
<1>11. SourceOK(src2, w2)
  BY <1>8, <1>10 DEF SourceOK, InPlay, Settled
<1> QED
  BY <1>1, <1>4, <1>5, <1>10, <1>11 DEF SystemInv, CopiesInv

(* The pages move forward one at a time.  At every moment the front part    *)
(* that has been moved and the rest that has not are disjoint.              *)
LEMMA ShiftSlotStep ==
  ASSUME SystemInv, ShiftSlot
  PROVE  SystemInv'
<1>1. PICK src : src = source
  OBVIOUS
<1>2. PICK w : w = writer
  OBVIOUS
<1>3. PICK src2 : src2 = source'
  OBVIOUS
<1>4. PICK w2 : w2 = writer'
  OBVIOUS
<1>5. /\ w.pc = "shift" /\ w.from <= src.len /\ SourceOK(src, w) /\ WriterType(w)
      /\ UNCHANGED <<files, public, rows>>
  BY <1>1, <1>2 DEF SystemInv, ShiftSlot
<1>6. /\ src \in Sources /\ src.len <= Len(src.slots) /\ w.to < w.from
      /\ Distinct(src.slots, (1 .. w.to) \cup (w.from .. src.len))
  BY <1>5 DEF SourceOK, InPlay
<1>7. w \in WriterSteps /\ w.from \in Nat /\ w.to \in Nat
  BY <1>5, WriterStepFields DEF WriterType
<1>8. src.slots \in Seq(SourcePages) /\ Len(src.slots) \in Nat /\ src.len \in Nat
  BY <1>6, SourceFields
<1>9. CASE src.slots[w.from].slug = w.slug
  <2>1. w2 = [w EXCEPT !.from = @ + 1] /\ src2 = src
    BY <1>1, <1>2, <1>3, <1>4, <1>9 DEF ShiftSlot
  <2>2. w2 \in WriterSteps /\ w2.pc = "shift" /\ w2.from = w.from + 1 /\ w2.to = w.to
    BY <1>5, <1>7, <2>1 DEF WriterSteps
  <2>3. \A i \in (1 .. w.to) \cup (w.from + 1 .. src.len) : i \in (1 .. w.to) \cup (w.from .. src.len)
    BY <1>7, <1>8
  <2>4. Distinct(src2.slots, (1 .. w.to) \cup (w.from + 1 .. src.len))
    BY <1>6, <2>1, <2>3 DEF Distinct
  <2>5. w2.to < w2.from /\ w2.from <= src.len + 1
    BY <1>5, <1>6, <1>7, <1>8, <2>2
  <2>6. SourceOK(src2, w2) /\ WriterType(w2)
    BY <1>6, <2>1, <2>2, <2>4, <2>5 DEF SourceOK, InPlay, Settled, WriterType
  <2> QED
    BY <1>3, <1>4, <1>5, <2>6 DEF SystemInv, CopiesInv
<1>10. CASE src.slots[w.from].slug # w.slug
  <2>0. w2 = [w EXCEPT !.from = @ + 1, !.to = @ + 1]
    BY <1>1, <1>2, <1>4, <1>10 DEF ShiftSlot
  <2>1. src2 = [src EXCEPT !.slots[w.to + 1] = src.slots[w.from]]
    BY <1>1, <1>2, <1>3, <1>10 DEF ShiftSlot
  <2>2. w2 \in WriterSteps /\ w2.pc = "shift" /\ w2.from = w.from + 1 /\ w2.to = w.to + 1
    <3>1. PICK f \in Nat : f = w.from + 1
      BY <1>7
    <3>2. PICK t \in Nat : t = w.to + 1
      BY <1>7
    <3>3. w2 = [w EXCEPT !.from = f, !.to = t]
      BY <2>0, <3>1, <3>2
    <3> QED
      BY <1>5, <1>7, <3>1, <3>2, <3>3 DEF WriterSteps
  <2>3. w.from \in 1 .. Len(src.slots) /\ w.to + 1 \in 1 .. Len(src.slots)
    BY <1>5, <1>6, <1>7, <1>8
  <2>4. src.slots[w.from] \in SourcePages
    BY <1>8, <2>3, ElementOfSeq
  <2>5. PICK t : t = [src.slots EXCEPT ![w.to + 1] = src.slots[w.from]]
    OBVIOUS
  <2>6. /\ t \in Seq(SourcePages) /\ Len(t) = Len(src.slots)
        /\ \A j \in 1 .. Len(src.slots) : t[j] = IF j = w.to + 1 THEN src.slots[w.from] ELSE src.slots[j]
    BY <1>8, <2>3, <2>4, <2>5, ExceptSeq
  <2>7. src2 = [src EXCEPT !.slots = t]
    BY <2>1, <2>5
  <2>8. src2 \in Sources /\ src2.slots = t /\ src2.len = src.len
    BY <1>6, <2>6, <2>7 DEF Sources
  <2>9. ASSUME NEW i \in (1 .. w.to + 1) \cup (w.from + 1 .. src.len)
        PROVE  \/ i = w.to + 1 /\ t[i] = src.slots[w.from]
               \/ /\ i # w.from /\ i \in (1 .. w.to) \cup (w.from .. src.len)
                  /\ t[i] = src.slots[i]
    <3>1. i \in 1 .. Len(src.slots)
      BY <1>6, <1>7, <1>8, <2>3
    <3>2. i = w.to + 1 \/ (i # w.from /\ i \in (1 .. w.to) \cup (w.from .. src.len))
      BY <1>6, <1>7, <1>8
    <3> QED
      BY <2>6, <3>1, <3>2
  <2>10. w.from \in (1 .. w.to) \cup (w.from .. src.len)
    BY <1>5, <1>7, <1>8
  <2>11. Distinct(t, (1 .. w.to + 1) \cup (w.from + 1 .. src.len))
    BY <1>6, <2>9, <2>10 DEF Distinct
  <2>12. w2.to < w2.from /\ w2.from <= src.len + 1
    BY <1>5, <1>6, <1>7, <1>8, <2>2
  <2>13. SourceOK(src2, w2) /\ WriterType(w2)
    BY <1>6, <2>2, <2>6, <2>8, <2>11, <2>12 DEF SourceOK, InPlay, Settled, WriterType
  <2> QED
    BY <1>3, <1>4, <1>5, <2>13 DEF SystemInv, CopiesInv
<1> QED
  BY <1>9, <1>10

(* delete_page shortens the array.                                         *)
LEMMA TruncateStep ==
  ASSUME SystemInv, Truncate
  PROVE  SystemInv'
<1>1. PICK src : src = source
  OBVIOUS
<1>2. PICK w : w = writer
  OBVIOUS
<1>3. PICK src2 : src2 = source'
  OBVIOUS
<1>4. PICK w2 : w2 = writer'
  OBVIOUS
<1>5. /\ w.pc = "shift" /\ w.from > src.len /\ SourceOK(src, w) /\ WriterType(w)
      /\ src2 = [src EXCEPT !.len = w.to]
      /\ w2 = [w EXCEPT !.pc = "clear maps"]
      /\ UNCHANGED <<files, public, rows>>
  BY <1>1, <1>2, <1>3, <1>4 DEF SystemInv, Truncate
<1>6. /\ src \in Sources /\ src.len <= Len(src.slots) /\ w.to < w.from /\ w.from <= src.len + 1
      /\ Distinct(src.slots, (1 .. w.to) \cup (w.from .. src.len))
  BY <1>5 DEF SourceOK, InPlay
<1>7. w \in WriterSteps /\ w.from \in Nat /\ w.to \in Nat
  BY <1>5, WriterStepFields DEF WriterType
<1>8. src.slots \in Seq(SourcePages) /\ Len(src.slots) \in Nat /\ src.len \in Nat
  BY <1>6, SourceFields
<1>9. w2 \in WriterSteps /\ w2.pc = "clear maps"
  BY <1>5, <1>7 DEF WriterSteps, WriterPcs
<1>10. src2 \in Sources /\ src2.slots = src.slots /\ src2.len = w.to
  BY <1>5, <1>6, <1>7 DEF Sources
<1>11. w.to <= Len(src.slots)
  BY <1>6, <1>7, <1>8
<1>12. Distinct(src.slots, 1 .. w.to)
  BY <1>6 DEF Distinct
<1>13. SourceOK(src2, w2) /\ WriterType(w2)
  BY <1>9, <1>10, <1>11, <1>12 DEF SourceOK, InPlay, Settled, WriterType
<1> QED
  BY <1>3, <1>4, <1>5, <1>13 DEF SystemInv, CopiesInv

(* Either then begins the maps anew,                                       *)
LEMMA ClearMapsStep ==
  ASSUME SystemInv, ClearMaps
  PROVE  SystemInv'
<1>1. PICK src : src = source
  OBVIOUS
<1>2. PICK w : w = writer
  OBVIOUS
<1>3. PICK src2 : src2 = source'
  OBVIOUS
<1>4. PICK w2 : w2 = writer'
  OBVIOUS
<1>5. /\ w.pc = "clear maps" /\ SourceOK(src, w) /\ WriterType(w)
      /\ src2 = [src EXCEPT !.at = <<>>]
      /\ w2 = [w EXCEPT !.pc = "fill maps", !.from = 1]
      /\ UNCHANGED <<files, public, rows>>
  BY <1>1, <1>2, <1>3, <1>4 DEF SystemInv, ClearMaps
<1>6. src \in Sources /\ src.len <= Len(src.slots) /\ Distinct(src.slots, 1 .. src.len)
  BY <1>5 DEF SourceOK, InPlay
<1>7. w \in WriterSteps
  BY <1>5 DEF WriterType
<1>8. src.len \in Nat
  BY <1>6, SourceFields
<1>9. w2 \in WriterSteps /\ w2.pc = "fill maps" /\ w2.from = 1
  BY <1>5, <1>7 DEF WriterSteps, WriterPcs
<1>10. <<>> \in Maps /\ DOMAIN <<>> = {}
  <2>1. PICK e : e = <<>>
    OBVIOUS
  <2>2. DOMAIN e = {} /\ e \in [{} -> Nat \ {0}]
    BY <2>1
  <2> QED
    BY <2>1, <2>2 DEF Maps
<1>11. src2 \in Sources /\ src2.slots = src.slots /\ src2.len = src.len /\ src2.at = <<>>
  BY <1>5, <1>6, <1>10 DEF Sources
<1>12. MappedTo(src2, 0)
  <2>1. DOMAIN src2.at = {} /\ 1 .. 0 = {}
    BY <1>10, <1>11
  <2> QED
    BY <2>1 DEF MappedTo
<1>13. w2.from \in 1 .. src2.len + 1 /\ w2.from - 1 = 0
  <2>1. 1 \in 1 .. src.len + 1 /\ 1 - 1 = 0
    BY <1>8
  <2> QED
    BY <1>9, <1>11, <2>1
<1>14. SourceOK(src2, w2) /\ WriterType(w2)
  BY <1>6, <1>9, <1>11, <1>12, <1>13 DEF SourceOK, InPlay, Settled, WriterType
<1> QED
  BY <1>3, <1>4, <1>5, <1>14 DEF SystemInv, CopiesInv

(* and enters the pages one after the other.                               *)
LEMMA FillMapStep ==
  ASSUME SystemInv, FillMap
  PROVE  SystemInv'
<1>1. PICK src : src = source
  OBVIOUS
<1>2. PICK w : w = writer
  OBVIOUS
<1>3. PICK src2 : src2 = source'
  OBVIOUS
<1>4. PICK w2 : w2 = writer'
  OBVIOUS
<1>5. /\ w.pc = "fill maps" /\ SourceOK(src, w) /\ WriterType(w)
      /\ UNCHANGED <<files, public, rows>>
  BY <1>1, <1>2 DEF SystemInv, FillMap
<1>6. /\ src \in Sources /\ src.len <= Len(src.slots) /\ Distinct(src.slots, 1 .. src.len)
      /\ w.from \in 1 .. src.len + 1 /\ MappedTo(src, w.from - 1)
  BY <1>5 DEF SourceOK, InPlay
<1>7. w \in WriterSteps /\ w.from \in Nat
  BY <1>5, WriterStepFields DEF WriterType
<1>8. /\ src.len \in Nat /\ Len(src.slots) \in Nat
      /\ \A i \in 1 .. src.len : src.slots[i].slug \in Nat
      /\ DOMAIN src.at \in SUBSET Nat /\ src.at \in [DOMAIN src.at -> Nat \ {0}]
  BY <1>6, SourceFields
<1>9. CASE w.from <= src.len
  <2>1. PICK s : s = src.slots[w.from].slug
    OBVIOUS
  <2>2. PICK at : at = Mapped(src.at, s, w.from)
    OBVIOUS
  <2>3. src2 = [src EXCEPT !.at = at] /\ w2 = [w EXCEPT !.from = @ + 1]
    BY <1>1, <1>2, <1>3, <1>4, <1>9, <2>1, <2>2 DEF FillMap
  <2>4. w.from \in 1 .. src.len /\ w.from \in Nat \ {0} /\ s \in Nat
    BY <1>6, <1>7, <1>8, <1>9, <2>1
  <2>5. DOMAIN at = DOMAIN src.at \cup {s} /\ \A t \in DOMAIN at : at[t] = IF t = s THEN w.from ELSE src.at[t]
    BY <2>2 DEF Mapped
  <2>6. at \in [DOMAIN src.at \cup {s} -> Nat \ {0}]
    BY <1>8, <2>2, <2>4 DEF Mapped
  <2>7. at \in Maps
    BY <1>8, <2>4, <2>6 DEF Maps
  <2>8. src2 \in Sources /\ src2.slots = src.slots /\ src2.len = src.len /\ src2.at = at
    BY <1>6, <2>3, <2>7 DEF Sources
  <2>9. w2 \in WriterSteps /\ w2.pc = "fill maps" /\ w2.from = w.from + 1
    <3>1. PICK f \in Nat : f = w.from + 1
      BY <1>7
    <3>2. w2 = [w EXCEPT !.from = f]
      BY <2>3, <3>1
    <3> QED
      BY <1>5, <1>7, <3>1, <3>2 DEF WriterSteps
  <2>10. MappedTo(src2, w.from)
    <3>1. \A i \in 1 .. w.from : i \in 1 .. w.from - 1 \/ i = w.from
      BY <1>7
    <3>2. \A i \in 1 .. w.from - 1 : i \in 1 .. w.from
      BY <1>7
    <3>3. DOMAIN at = {src.slots[i].slug : i \in 1 .. w.from}
      <4>1. DOMAIN src.at = {src.slots[i].slug : i \in 1 .. w.from - 1}
        BY <1>6 DEF MappedTo
      <4>2. w.from \in 1 .. w.from
        BY <2>4
      <4> QED
        BY <2>1, <2>5, <3>1, <3>2, <4>1, <4>2
    <3>4. ASSUME NEW t \in DOMAIN at PROVE at[t] \in 1 .. w.from /\ src.slots[at[t]].slug = t
      <4>1. CASE t = s
        BY <2>1, <2>4, <2>5, <4>1
      <4>2. CASE t # s
        <5>1. t \in DOMAIN src.at /\ at[t] = src.at[t]
          BY <2>5, <4>2
        <5> QED
          BY <1>6, <3>2, <5>1 DEF MappedTo
      <4> QED
        BY <4>1, <4>2
    <3> QED
      BY <2>8, <3>3, <3>4 DEF MappedTo
  <2>11. w2.from \in 1 .. src2.len + 1 /\ w2.from - 1 = w.from
    <3>1. w.from + 1 \in 1 .. src.len + 1 /\ w.from + 1 - 1 = w.from
      BY <1>7, <1>8, <1>9
    <3>2. w2.from = w.from + 1
      BY <2>9
    <3>3. src2.len = src.len
      BY <2>8
    <3> QED
      BY <1>7, <1>8, <3>1, <3>2, <3>3
  <2>12. SourceOK(src2, w2) /\ WriterType(w2)
    BY <1>6, <2>8, <2>9, <2>10, <2>11 DEF SourceOK, InPlay, Settled, WriterType
  <2> QED
    BY <1>3, <1>4, <1>5, <2>12 DEF SystemInv, CopiesInv
<1>10. CASE ~(w.from <= src.len)
  <2>1. src2 = src /\ w2 = IF w.slug = 0 THEN NoWriter ELSE [w EXCEPT !.pc = "unlist"]
    BY <1>1, <1>2, <1>3, <1>4, <1>10 DEF FillMap
  <2>2. w.from - 1 = src.len
    BY <1>6, <1>7, <1>8, <1>10
  <2>3. NoWriter \in WriterSteps /\ NoWriter.pc = "idle"
    BY DEF NoWriter, WriterSteps, WriterPcs
  <2>4. [w EXCEPT !.pc = "unlist"] \in WriterSteps /\ [w EXCEPT !.pc = "unlist"].pc = "unlist"
    BY <1>7 DEF WriterSteps, WriterPcs
  <2>5. w2 \in WriterSteps /\ w2.pc \in {"idle", "unlist"}
    BY <2>1, <2>3, <2>4
  <2>6. SourceOK(src2, w2) /\ WriterType(w2)
    BY <1>6, <2>1, <2>2, <2>5 DEF SourceOK, InPlay, Settled, WriterType
  <2> QED
    BY <1>3, <1>4, <1>5, <2>6 DEF SystemInv, CopiesInv
<1> QED
  BY <1>9, <1>10

(* The steps that leave the array alone, and in the maps or without them.   *)
LEMMA SourceKept ==
  ASSUME NEW src, NEW w, SourceOK(src, w), NEW w2,
         w.pc \in Settled, w2.pc \in Settled
  PROVE  SourceOK(src, w2)
<1>1. w.pc # "shift" /\ w2.pc # "shift" /\ w2.pc # "fill maps" /\ w2.pc # "reload maps"
  BY DEF Settled
<1> QED
  BY <1>1 DEF SourceOK, InPlay

(* A writer at rest, and one that has a page to enter.                     *)
LEMMA WriterSet ==
  ASSUME NEW p \in SourcePages
  PROVE  /\ WriterType(NoWriter) /\ NoWriter.pc = "idle"
         /\ [NoWriter EXCEPT !.pc = "index", !.page = p].pc = "index"
         /\ WriterType([NoWriter EXCEPT !.pc = "index", !.page = p])
  BY DEF NoWriter, WriterType, WriterSteps, WriterPcs

(* The same without the page.                                              *)
LEMMA NoWriterType == WriterType(NoWriter) /\ NoWriter.pc = "idle"
  BY DEF NoWriter, WriterType, WriterSteps, WriterPcs

(* A file written by update_page, whoever asked for it,                    *)
LEMMA WriteFileStep ==
  ASSUME SystemInv, NEW p \in SourcePages, writer.pc = "idle", Written(p),
         writer' = [NoWriter EXCEPT !.pc = "index", !.page = p],
         UNCHANGED <<source, public, rows>>
  PROVE  SystemInv'
<1>1. files' \subseteq SourcePages /\ OneEach(files')
  BY WrittenOK DEF SystemInv
<1>2. PICK w2 : w2 = writer'
  OBVIOUS
<1>3. w2.pc = "index" /\ WriterType(w2)
  BY <1>2, WriterSet
<1>4. SourceOK(source, w2)
  <2>1. PICK w : w = writer
    OBVIOUS
  <2>2. w.pc \in Settled /\ w2.pc \in Settled /\ SourceOK(source, w)
    BY <1>3, <2>1 DEF Settled, SystemInv
  <2> QED
    BY <2>2, SourceKept
<1> QED
  BY <1>1, <1>2, <1>3, <1>4 DEF SystemInv, CopiesInv

(* or by an editor on the host,                                            *)
LEMMA EditByHandStep ==
  ASSUME SystemInv, NEW p \in SourcePages, EditByHand(p)
  PROVE  SystemInv'
<1>1. Written(p) /\ UNCHANGED <<source, writer, public, rows>>
  BY DEF EditByHand
<1>2. files' \subseteq SourcePages /\ OneEach(files')
  BY <1>1, WrittenOK DEF SystemInv
<1> QED
  BY <1>1, <1>2 DEF SystemInv, CopiesInv

(* or removed by delete_page.                                              *)
LEMMA DeleteStep ==
  ASSUME SystemInv, NEW s \in SlugsOf(Start), Delete(s)
  PROVE  SystemInv'
<1>1. PICK src : src = source
  OBVIOUS
<1>2. PICK w2 : w2 = writer'
  OBVIOUS
<1>3. /\ writer.pc = "idle" /\ SourceOK(src, writer) /\ s \in DOMAIN src.at
      /\ files' = files \ FileOf(s)
      /\ w2 = [NoWriter EXCEPT !.pc = "shift", !.slug = s, !.from = 1]
      /\ UNCHANGED <<source, public, rows>>
  BY <1>1, <1>2 DEF SystemInv, Delete
<1>4. /\ src \in Sources /\ src.len <= Len(src.slots)
      /\ Distinct(src.slots, 1 .. src.len)
  BY <1>3 DEF SourceOK, InPlay
<1>5. src.len \in Nat /\ DOMAIN src.at \in SUBSET Nat
  BY <1>4, SourceFields
<1>6. s \in Nat
  BY <1>3, <1>5
<1>7. w2 \in WriterSteps /\ w2.pc = "shift" /\ w2.from = 1 /\ w2.to = 0
  BY <1>3, <1>6 DEF NoWriter, WriterSteps, WriterPcs
<1>8. (1 .. 0) \cup (1 .. src.len) = 1 .. src.len /\ 1 <= src.len + 1
  BY <1>5
<1>9. SourceOK(src, w2) /\ WriterType(w2)
  BY <1>4, <1>7, <1>8 DEF SourceOK, InPlay, Settled, WriterType
<1> QED
  BY <1>1, <1>2, <1>3, <1>9 DEF SystemInv, CopiesInv, OneEach

(* delete_page in the public index,                                        *)
LEMMA UnlistStep ==
  ASSUME SystemInv, Unlist
  PROVE  SystemInv'
<1>1. PICK w : w = writer
  OBVIOUS
<1>2. PICK w2 : w2 = writer'
  OBVIOUS
<1>3. /\ w.pc = "unlist" /\ public' \subseteq public
      /\ w2 = NoWriter \/ w2 = [w EXCEPT !.pc = "drop row"]
      /\ UNCHANGED <<files, source, rows>> /\ WriterType(w) /\ SourceOK(source, w)
  BY <1>1, <1>2 DEF Unlist, SystemInv
<1>4. w2.pc \in {"idle", "drop row"} /\ WriterType(w2)
  <2>1. w \in WriterSteps
    BY <1>3 DEF WriterType
  <2>2. CASE w2 = [w EXCEPT !.pc = "drop row"]
    BY <2>1, <2>2 DEF WriterType, WriterSteps, WriterPcs
  <2>3. CASE w2 = NoWriter
    BY <2>3, NoWriterType
  <2> QED
    BY <1>3, <2>2, <2>3
<1>5. SourceOK(source, w2)
  <2>1. w.pc \in Settled /\ w2.pc \in Settled
    BY <1>3, <1>4 DEF Settled
  <2> QED
    BY <1>3, <2>1, SourceKept
<1> QED
  BY <1>2, <1>3, <1>4, <1>5 DEF SystemInv, CopiesInv, OneEach

(* Pages of different slugs that are picked out are of different slugs.     *)
LEMMA ThoseDistinct ==
  ASSUME NEW T, NEW seq \in Seq(T), NEW S, Distinct(seq, 1 .. Len(seq))
  PROVE  /\ Those(seq, S) \in Seq(T \cap S)
         /\ ToSet(Those(seq, S)) = ToSet(seq) \cap S
         /\ Distinct(Those(seq, S), 1 .. Len(Those(seq, S)))
<1>1. /\ Those(seq, S) \in Seq(T \cap S)
      /\ ToSet(Those(seq, S)) = ToSet(seq) \cap S
  BY ThoseFacts
<1>2. PICK o : o = Those(seq, S)
  OBVIOUS
<1>3. PICK p : InOrder(p, o, seq)
  BY <1>2, ThoseFacts
<1>4. Len(o) \in Nat /\ Len(seq) \in Nat
  BY <1>1, <1>2, LenProperties
<1>5. ASSUME NEW j \in 1 .. Len(o), NEW k \in 1 .. Len(o), o[j].slug = o[k].slug PROVE j = k
  <2>1. p[j] = p[k]
    BY <1>3, <1>5 DEF Distinct, InOrder
  <2>2. ~(j < k) /\ ~(k < j)
    <3>1. p[j] \in Nat /\ p[k] \in Nat
      BY <1>3, <1>4 DEF InOrder
    <3> QED
      BY <1>3, <2>1, <3>1 DEF InOrder
  <2> QED
    BY <1>4, <2>2
<1>6. Distinct(o, 1 .. Len(o))
  BY <1>5 DEF Distinct
<1> QED
  BY <1>1, <1>2, <1>6

(* and in the table, where it may fail.                                    *)
LEMMA DropRowStep ==
  ASSUME SystemInv, DropRow
  PROVE  SystemInv'
<1>1. PICK w : w = writer
  OBVIOUS
<1>2. PICK r : r = rows'
  OBVIOUS
<1>3. PICK S : S = {p \in SourcePages : p.slug # writer.slug}
  OBVIOUS
<1>4. /\ w.pc = "drop row" /\ writer' = NoWriter
      /\ r = Those(rows, S) \/ r = rows
      /\ UNCHANGED <<files, source, public>> /\ WriterType(w) /\ SourceOK(source, w)
      /\ rows \in Seq(SourcePages) /\ Distinct(rows, 1 .. Len(rows))
  BY <1>1, <1>2, <1>3 DEF DropRow, SystemInv, CopiesInv
<1>5. r \in Seq(SourcePages) /\ Distinct(r, 1 .. Len(r))
  <2>1. SourcePages \cap S = S /\ S \subseteq SourcePages
    BY <1>3
  <2>2. Those(rows, S) \in Seq(S) /\ Distinct(Those(rows, S), 1 .. Len(Those(rows, S)))
    BY <1>4, <2>1, ThoseDistinct
  <2>3. Those(rows, S) \in Seq(SourcePages)
    BY <2>1, <2>2, SeqMonotonic
  <2> QED
    BY <1>4, <2>2, <2>3
<1>6. SourceOK(source, NoWriter) /\ WriterType(NoWriter)
  <2>1. w.pc \in Settled /\ NoWriter.pc \in Settled
    BY <1>4, NoWriterType DEF Settled
  <2> QED
    BY <1>4, <2>1, SourceKept, NoWriterType
<1> QED
  BY <1>2, <1>4, <1>5, <1>6 DEF SystemInv, CopiesInv

(* Pages of different slugs in an order.                                    *)
LEMMA OrderedDistinct ==
  ASSUME NEW S, IsFiniteSet(S), NEW R, TotalOrder(R, S), OneEach(S)
  PROVE  /\ Ordered(S, R) \in Seq(S) /\ Len(Ordered(S, R)) = Cardinality(S)
         /\ Cardinality(S) \in Nat
         /\ ToSet(Ordered(S, R)) = S
         /\ Distinct(Ordered(S, R), 1 .. Len(Ordered(S, R)))
<1>1. PICK o : o = Ordered(S, R)
  OBVIOUS
<1>2. /\ o \in Seq(S) /\ Len(o) = Cardinality(S) /\ ToSet(o) = S /\ Cardinality(S) \in Nat
      /\ \A i, j \in 1 .. Len(o) : o[i] = o[j] => i = j
  BY <1>1, OrderedSeq, OrderedFacts
<1>3. \A i \in 1 .. Len(o) : o[i] \in S
  BY <1>2, ElementOfSeq
<1>4. Distinct(o, 1 .. Len(o))
  BY <1>2, <1>3 DEF Distinct, OneEach
<1> QED
  BY <1>1, <1>2, <1>4

(* A build reads the array anew,                                           *)
LEMMA ReloadStep ==
  ASSUME SystemInv, Reload
  PROVE  SystemInv'
<1>1. PICK src2 : src2 = source'
  OBVIOUS
<1>2. PICK w2 : w2 = writer'
  OBVIOUS
<1>3. PICK o : o = Ordered(files, ByBundle)
  OBVIOUS
<1>4. PICK n : n = Cardinality(files)
  OBVIOUS
<1>5. /\ src2 = [source EXCEPT !.len = n, !.slots = o]
      /\ w2 = [NoWriter EXCEPT !.pc = "reload maps"]
      /\ UNCHANGED <<files, public, rows>>
      /\ source \in Sources /\ files \subseteq SourcePages /\ OneEach(files)
  BY <1>1, <1>2, <1>3, <1>4 DEF Reload, SystemInv, SourceOK, CopiesInv
<1>6. /\ o \in Seq(files) /\ Len(o) = n /\ n \in Nat
      /\ Distinct(o, 1 .. Len(o))
  <2>1. IsFiniteSet(files)
    BY <1>5, FS_Subset, SiteQueriesAssumption
  <2>2. TotalOrder(ByBundle, files)
    <3>1. files \in SUBSET AllPages
      BY <1>5 DEF AllPages
    <3> QED
      BY <1>5, <3>1, ByBundleTotal
  <2> QED
    BY <1>3, <1>4, <1>5, <2>1, <2>2, OrderedDistinct
<1>7. o \in Seq(SourcePages)
  BY <1>5, <1>6, SeqMonotonic
<1>8. src2 \in Sources /\ src2.slots = o /\ src2.len = n
  BY <1>5, <1>6, <1>7 DEF Sources
<1>9. w2.pc = "reload maps" /\ WriterType(w2)
  BY <1>5 DEF NoWriter, WriterType, WriterSteps, WriterPcs
<1>10. SourceOK(src2, w2)
  <2>1. src2.len = Len(src2.slots) /\ src2.len <= Len(src2.slots)
    BY <1>6, <1>8
  <2>2. Distinct(src2.slots, 1 .. src2.len)
    BY <1>6, <1>8
  <2> QED
    BY <1>8, <1>9, <2>1, <2>2 DEF SourceOK, InPlay, Settled
<1> QED
  BY <1>1, <1>2, <1>5, <1>9, <1>10 DEF SystemInv, CopiesInv

(* The positions of the pages of a sequence.                               *)
LEMMA PositionsMap ==
  ASSUME NEW seq \in Seq(SourcePages)
  PROVE  /\ Positions(seq) \in Maps
         /\ DOMAIN Positions(seq) = {seq[i].slug : i \in 1 .. Len(seq)}
         /\ \A s \in DOMAIN Positions(seq) :
               Positions(seq)[s] \in 1 .. Len(seq) /\ seq[Positions(seq)[s]].slug = s
<1>1. DOMAIN seq = 1 .. Len(seq) /\ Len(seq) \in Nat /\ \A i \in 1 .. Len(seq) : seq[i] \in SourcePages
  BY LenProperties
<1>2. PICK at : at = Positions(seq)
  OBVIOUS
<1>3. PICK D : D = {seq[i].slug : i \in 1 .. Len(seq)}
  OBVIOUS
<1>4. at = [s \in D |-> CHOOSE i \in DOMAIN seq : seq[i].slug = s]
  BY <1>1, <1>2, <1>3 DEF Positions, SlugsOf
<1>5. ASSUME NEW s \in D PROVE at[s] \in 1 .. Len(seq) /\ seq[at[s]].slug = s
  <2>1. \E i \in 1 .. Len(seq) : seq[i].slug = s
    BY <1>3
  <2>2. at[s] = CHOOSE i \in DOMAIN seq : seq[i].slug = s
    BY <1>4
  <2> QED
    BY <1>1, <2>1, <2>2
<1>6. D \in SUBSET Nat
  <2>1. \A p \in SourcePages : p.slug \in Nat
    BY PageFacts DEF AllPages
  <2> QED
    BY <1>1, <1>3, <2>1
<1>7. \A i \in 1 .. Len(seq) : i \in Nat \ {0}
  BY <1>1
<1>8. at \in [D -> Nat \ {0}] /\ DOMAIN at = D
  BY <1>4, <1>5, <1>7
<1>9. at \in Maps
  BY <1>6, <1>8 DEF Maps
<1> QED
  BY <1>2, <1>3, <1>5, <1>8, <1>9

(* then the maps,                                                          *)
LEMMA ReloadMapsStep ==
  ASSUME SystemInv, ReloadMaps
  PROVE  SystemInv'
<1>1. PICK src : src = source
  OBVIOUS
<1>2. PICK w : w = writer
  OBVIOUS
<1>3. PICK src2 : src2 = source'
  OBVIOUS
<1>4. PICK w2 : w2 = writer'
  OBVIOUS
<1>5. PICK at : at = Positions(src.slots)
  OBVIOUS
<1>6. /\ w.pc = "reload maps" /\ SourceOK(src, w) /\ WriterType(w)
      /\ src2 = [src EXCEPT !.at = at]
      /\ w2 = [w EXCEPT !.pc = "publish"]
      /\ UNCHANGED <<files, public, rows>>
  BY <1>1, <1>2, <1>3, <1>4, <1>5 DEF SystemInv, ReloadMaps
<1>7. src \in Sources /\ src.len = Len(src.slots) /\ Distinct(src.slots, 1 .. src.len)
  BY <1>6 DEF SourceOK, InPlay
<1>8. src.slots \in Seq(SourcePages) /\ src.len \in Nat
  BY <1>7 DEF Sources
<1>9. /\ at \in Maps
      /\ DOMAIN at = {src.slots[i].slug : i \in 1 .. Len(src.slots)}
      /\ \A s \in DOMAIN at : at[s] \in 1 .. Len(src.slots) /\ src.slots[at[s]].slug = s
  BY <1>5, <1>8, PositionsMap
<1>10. src2 \in Sources /\ src2.slots = src.slots /\ src2.len = src.len /\ src2.at = at
  BY <1>6, <1>7, <1>9 DEF Sources
<1>11. MappedTo(src2, src2.len)
  BY <1>7, <1>9, <1>10 DEF MappedTo
<1>12. w2.pc = "publish" /\ WriterType(w2)
  BY <1>6 DEF WriterType, WriterSteps, WriterPcs
<1>13. SourceOK(src2, w2)
  BY <1>7, <1>8, <1>10, <1>11, <1>12 DEF SourceOK, InPlay, Settled
<1> QED
  BY <1>3, <1>4, <1>6, <1>12, <1>13 DEF SystemInv, CopiesInv

(* The pages in use are those of the first slots, one for each slug.        *)
LEMMA InUseFacts ==
  ASSUME NEW src, src = source, src \in Sources, src.len <= Len(src.slots)
  PROVE  /\ InUse \in Seq(SourcePages) /\ Len(InUse) = src.len /\ src.len \in Nat
         /\ DOMAIN InUse = 1 .. src.len
         /\ \A i \in 1 .. src.len : InUse[i] = src.slots[i]
         /\ Live \subseteq SourcePages
         /\ Distinct(src.slots, 1 .. src.len) => OneEach(Live) /\ Distinct(InUse, 1 .. Len(InUse))
<1>1. /\ src.len \in Nat
      /\ \A i \in 1 .. src.len : src.slots[i] \in SourcePages
  BY SourceFields
<1>2. PICK u : u = InUse
  OBVIOUS
<1>3. u = SubSeq(src.slots, 1, src.len)
  BY <1>2 DEF InUse
<1>4. /\ u \in Seq(SourcePages)
      /\ Len(u) = IF 1 <= src.len THEN src.len - 1 + 1 ELSE 0
      /\ \A i \in 1 .. src.len - 1 + 1 : u[i] = src.slots[1 + i - 1]
  <2>1. 1 \in Int /\ src.len \in Int
    BY <1>1
  <2> QED
    BY <1>1, <1>3, <2>1, SubSeqProperties
<1>5. Len(u) = src.len /\ \A i \in 1 .. src.len : u[i] = src.slots[i]
  BY <1>1, <1>4
<1>6. DOMAIN u = 1 .. src.len
  BY <1>4, <1>5, LenProperties
<1>7. Live = {src.slots[i] : i \in 1 .. src.len}
  BY <1>2, <1>5, <1>6 DEF Live, ToSet
<1>8. Distinct(src.slots, 1 .. src.len) => OneEach(Live) /\ Distinct(u, 1 .. Len(u))
  BY <1>5, <1>7 DEF Distinct, OneEach
<1> QED
  BY <1>1, <1>2, <1>4, <1>5, <1>6, <1>7, <1>8

(* then the public index,                                                  *)
LEMMA PublishStep ==
  ASSUME SystemInv, Publish
  PROVE  SystemInv'
<1>1. PICK src : src = source
  OBVIOUS
<1>2. PICK w : w = writer
  OBVIOUS
<1>3. PICK w2 : w2 = writer'
  OBVIOUS
<1>4. /\ w.pc = "publish" /\ SourceOK(src, w) /\ WriterType(w)
      /\ w2 = [w EXCEPT !.pc = "sync rows"]
      /\ public' = {p \in Live : ~p.draft}
      /\ UNCHANGED <<files, source, rows>>
  BY <1>1, <1>2, <1>3 DEF SystemInv, Publish
<1>5. src \in Sources /\ src.len <= Len(src.slots) /\ Distinct(src.slots, 1 .. src.len)
  BY <1>4 DEF SourceOK, InPlay
<1>6. Live \subseteq SourcePages /\ OneEach(Live)
  BY <1>1, <1>5, InUseFacts
<1>7. public' \subseteq SourcePages /\ OneEach(public')
  BY <1>4, <1>6 DEF OneEach
<1>8. w2.pc = "sync rows" /\ WriterType(w2)
  BY <1>4 DEF WriterType, WriterSteps, WriterPcs
<1>9. SourceOK(src, w2)
  <2>1. w.pc \in Settled /\ w2.pc \in Settled
    BY <1>4, <1>8 DEF Settled
  <2> QED
    BY <1>4, <2>1, SourceKept
<1> QED
  BY <1>1, <1>3, <1>4, <1>7, <1>8, <1>9 DEF SystemInv, CopiesInv

(* The rows of a set of pages.                                             *)
LEMMA RowsOK ==
  ASSUME NEW S \in SUBSET SourcePages, OneEach(S)
  PROVE  Ordered(S, ByRank) \in Seq(SourcePages)
         /\ Distinct(Ordered(S, ByRank), 1 .. Len(Ordered(S, ByRank)))
<1>1. IsFiniteSet(S)
  BY FS_Subset, SiteQueriesAssumption
<1>2. TotalOrder(ByRank, S)
  BY ByRankTotal
<1>3. /\ Ordered(S, ByRank) \in Seq(S)
      /\ Distinct(Ordered(S, ByRank), 1 .. Len(Ordered(S, ByRank)))
  BY <1>1, <1>2, OrderedDistinct
<1> QED
  BY <1>3, SeqMonotonic

(* then the table.                                                         *)
LEMMA SyncRowsStep ==
  ASSUME SystemInv, SyncRows
  PROVE  SystemInv'
<1>1. PICK w : w = writer
  OBVIOUS
<1>2. PICK r : r = rows'
  OBVIOUS
<1>3. /\ w.pc = "sync rows" /\ writer' = NoWriter
      /\ r = Ordered(public, ByRank) \/ r = rows
      /\ UNCHANGED <<files, source, public>> /\ WriterType(w) /\ SourceOK(source, w)
      /\ rows \in Seq(SourcePages) /\ Distinct(rows, 1 .. Len(rows))
      /\ public \subseteq SourcePages /\ OneEach(public)
  BY <1>1, <1>2 DEF SyncRows, SystemInv, CopiesInv
<1>4. r \in Seq(SourcePages) /\ Distinct(r, 1 .. Len(r))
  BY <1>3, RowsOK
<1>5. SourceOK(source, NoWriter) /\ WriterType(NoWriter)
  <2>1. w.pc \in Settled /\ NoWriter.pc \in Settled
    BY <1>3, NoWriterType DEF Settled
  <2> QED
    BY <1>3, <2>1, SourceKept, NoWriterType
<1> QED
  BY <1>2, <1>3, <1>4, <1>5 DEF SystemInv, CopiesInv

(* What the process starts with.                                           *)
LEMMA SystemStart ==
  ASSUME QueriesInit
  PROVE  SystemInv
<1>1. Start \in Seq(SourcePages) /\ \A i, j \in DOMAIN Start : Start[i].slug = Start[j].slug => i = j
  BY SiteQueriesAssumption
<1>2. Len(Start) \in Nat /\ DOMAIN Start = 1 .. Len(Start) /\ \A i \in 1 .. Len(Start) : Start[i] \in SourcePages
  BY <1>1, LenProperties
<1>3. Distinct(Start, 1 .. Len(Start))
  BY <1>1, <1>2 DEF Distinct
<1>4. ToSet(Start) \subseteq SourcePages /\ OneEach(ToSet(Start))
  BY <1>2, <1>3 DEF ToSet, Distinct, OneEach
<1>5. files \subseteq SourcePages /\ OneEach(files) /\ public \subseteq SourcePages /\ OneEach(public)
  BY <1>4 DEF QueriesInit, OneEach
<1>6. rows \in Seq(SourcePages) /\ Distinct(rows, 1 .. Len(rows))
  BY <1>5, RowsOK DEF QueriesInit
<1>7. PICK at : at = Positions(Start)
  OBVIOUS
<1>8. /\ at \in Maps
      /\ DOMAIN at = {Start[i].slug : i \in 1 .. Len(Start)}
      /\ \A s \in DOMAIN at : at[s] \in 1 .. Len(Start) /\ Start[at[s]].slug = s
  BY <1>1, <1>7, PositionsMap
<1>9. PICK src : src = source
  OBVIOUS
<1>10. src = [slots |-> Start, len |-> Len(Start), at |-> at]
  BY <1>7, <1>9 DEF QueriesInit
<1>11. src \in Sources /\ src.slots = Start /\ src.len = Len(Start) /\ src.at = at
  BY <1>1, <1>2, <1>8, <1>10 DEF Sources
<1>12. MappedTo(src, src.len)
  BY <1>8, <1>11 DEF MappedTo
<1>13. writer = NoWriter
  BY DEF QueriesInit
<1>14. SourceOK(src, NoWriter)
  BY <1>2, <1>3, <1>11, <1>12, NoWriterType DEF SourceOK, InPlay, Settled
<1> QED
  BY <1>5, <1>6, <1>9, <1>13, <1>14, NoWriterType DEF SystemInv, CopiesInv

(* Whatever the agent asks, and whatever a writer does.                     *)
LEMMA SystemStep ==
  ASSUME SystemInv, [QueriesNext]_queriesVars
  PROVE  SystemInv'
<1>1. CASE \E p \in SourcePages : WriteFile(p) \/ EditByHand(p)
  <2>1. PICK p \in SourcePages : WriteFile(p) \/ EditByHand(p)
    BY <1>1
  <2>2. CASE WriteFile(p)
    BY <2>2, WriteFileStep DEF WriteFile
  <2>3. CASE EditByHand(p)
    BY <2>3, EditByHandStep
  <2> QED
    BY <2>1, <2>2, <2>3
<1>2. CASE \E s \in SlugsOf(Start) : Delete(s)
  BY <1>2, DeleteStep
<1>3. CASE Upsert \/ ShiftSlot \/ Truncate \/ ClearMaps \/ FillMap \/ Unlist \/ DropRow
  BY <1>3, UpsertStep, ShiftSlotStep, TruncateStep, ClearMapsStep, FillMapStep, UnlistStep, DropRowStep
<1>4. CASE Building
  BY <1>4, ReloadStep, ReloadMapsStep, PublishStep, SyncRowsStep DEF Building
<1>5. CASE \E p \in SourcePages : UpdateWhatWasRead(p)
  <2>1. PICK p \in SourcePages : UpdateWhatWasRead(p)
    BY <1>5
  <2> QED
    BY <2>1, WriteFileStep DEF UpdateWhatWasRead
<1>6. CASE UNCHANGED <<files, source, writer, public, rows>>
  BY <1>6 DEF SystemInv, CopiesInv
<1>7. Reading => UNCHANGED <<files, source, writer, public, rows>> \/ \E p \in SourcePages : UpdateWhatWasRead(p)
  BY DEF Reading, AskList, AskPage, AnswerList, AskRows, AnswerSearch, StartCopy, CopySlot,
         AnswerValidation, FindSlot, ReadSlot, ReadRevision, MapFault, Hear
<1>8. UNCHANGED queriesVars => UNCHANGED <<files, source, writer, public, rows>>
  BY DEF queriesVars
<1> QED
  BY <1>1, <1>2, <1>3, <1>4, <1>5, <1>6, <1>7, <1>8 DEF QueriesNext, Editing

-----------------------------------------------------------------------------
(* The calls                                                                *)

(* The types of what a call has in its hands.                              *)
LEMMA CallFields ==
  ASSUME NEW c \in Calls
  PROVE  /\ c.pc \in CallPcs /\ c.limit \in Nat /\ c.offset \in Nat /\ c.slug \in Nat /\ c.total \in Nat
         /\ c.got \in Seq(AllPages) /\ c.hits \in Seq(SourcePages) /\ c.array \in Seq(SourcePages)
         /\ c.start \in SUBSET AllPages /\ c.quiet \in BOOLEAN /\ c.shrunk \in BOOLEAN
         /\ Len(c.got) \in Nat /\ Len(c.hits) \in Nat /\ Len(c.array) \in Nat
         /\ c.lang \in Langs \cup {Nothing}
  BY LenProperties DEF Calls

(* What an answer adds to what was told before.                             *)
Page(c, seq) == SubSeq(seq, c.offset + 1, Smaller(c.offset + c.limit, Len(seq)))
(* The pages of an answer are those behind the offset.                     *)
LEMMA PageLength ==
  ASSUME NEW c \in Calls, NEW seq \in Seq(AllPages)
  PROVE  /\ Page(c, seq) \in Seq(AllPages) /\ Len(Page(c, seq)) \in Nat
         /\ \A i \in 1 .. Len(Page(c, seq)) :
               c.offset + i \in 1 .. Len(seq) /\ Page(c, seq)[i] = seq[c.offset + i]
         /\ c.offset <= Len(seq) =>
               Len(Page(c, seq)) = Smaller(c.offset + c.limit, Len(seq)) - c.offset
<1>1. PICK m : m = c.offset + 1
  OBVIOUS
<1>2. PICK n : n = Smaller(c.offset + c.limit, Len(seq))
  OBVIOUS
<1>3. c.offset \in Nat /\ c.limit \in Nat /\ Len(seq) \in Nat
  BY CallFields, LenProperties
<1>4. m \in Int /\ n \in Int /\ n <= Len(seq) /\ m >= 1
  BY <1>1, <1>2, <1>3 DEF Smaller
<1>5. \A i \in m .. n : seq[i] \in AllPages
  <2>1. \A i \in m .. n : i \in 1 .. Len(seq)
    BY <1>3, <1>4
  <2> QED
    BY <2>1, ElementOfSeq
<1>6. PICK g : g = SubSeq(seq, m, n)
  OBVIOUS
<1>7. /\ g \in Seq(AllPages)
      /\ Len(g) = IF m <= n THEN n - m + 1 ELSE 0
      /\ \A i \in 1 .. n - m + 1 : g[i] = seq[m + i - 1]
  BY <1>4, <1>5, <1>6, SubSeqProperties
<1>8. Len(g) \in Nat
  BY <1>7, LenProperties
<1>9. ASSUME NEW i \in 1 .. Len(g) PROVE c.offset + i \in 1 .. Len(seq) /\ g[i] = seq[c.offset + i]
  <2>1. i \in 1 .. n - m + 1 /\ m + i - 1 = c.offset + i
    BY <1>1, <1>3, <1>4, <1>7, <1>8
  <2>2. c.offset + i \in 1 .. Len(seq)
    <3>1. i \in Nat /\ i >= 1 /\ i <= n - m + 1
      BY <1>4, <2>1
    <3>2. i <= n - c.offset
      BY <1>1, <1>3, <1>4, <3>1
    <3>3. c.offset + i <= Len(seq)
      BY <1>3, <1>4, <3>1, <3>2
    <3> QED
      BY <1>3, <3>1, <3>3
  <2>3. PICK k : k = c.offset + i
    OBVIOUS
  <2>4. m + i - 1 = k
    BY <2>1, <2>3
  <2>5. g[i] = seq[k]
    BY <1>7, <2>1, <2>4
  <2> QED
    BY <2>2, <2>3, <2>5
<1>10. ASSUME c.offset <= Len(seq) PROVE Len(g) = n - c.offset
  <2>1. c.offset <= n
    BY <1>2, <1>3, <1>10 DEF Smaller
  <2>2. PICK o \in Nat : o = c.offset
    BY <1>3
  <2>3. PICK l : l = Len(g)
    OBVIOUS
  <2>4. l = IF m <= n THEN n - m + 1 ELSE 0
    BY <1>7, <2>3
  <2>5. m = o + 1 /\ o <= n
    BY <1>1, <2>1, <2>2
  <2>6. l = n - o
    BY <1>4, <2>4, <2>5
  <2> QED
    BY <2>2, <2>3, <2>6
<1>11. Page(c, seq) = g
  BY <1>1, <1>2, <1>6 DEF Page
<1> QED
  BY <1>2, <1>7, <1>8, <1>9, <1>10, <1>11

(* How a call goes on after an answer.                                      *)
LEMMA ToldFields ==
  ASSUME NEW c \in Calls, c = call, NEW seq \in Seq(AllPages), NEW d, d = Told(seq)
  PROVE  /\ d \in Calls
         /\ d.tool = c.tool /\ d.lang = c.lang /\ d.start = c.start /\ d.slug = c.slug
         /\ d.quiet = c.quiet /\ d.shrunk = c.shrunk
         /\ d.hits = <<>> /\ d.array = <<>>
         /\ d.got = c.got \o Page(c, seq) /\ d.offset = c.offset + Len(Page(c, seq))
         /\ d.pc = IF c.offset + Len(Page(c, seq)) < Len(seq) THEN "ask" ELSE "done"
<1>1. PICK g : g = Page(c, seq)
  OBVIOUS
<1>2. PICK n : n = Len(g)
  OBVIOUS
<1>3. PICK got : got = c.got \o g
  OBVIOUS
<1>4. PICK o : o = c.offset + n
  OBVIOUS
<1>5. PICK p : p = IF o < Len(seq) THEN "ask" ELSE "done"
  OBVIOUS
<1>6. /\ g \in Seq(AllPages) /\ n \in Nat /\ c.offset \in Nat /\ c.got \in Seq(AllPages)
  BY <1>1, <1>2, PageLength, CallFields
<1>7. got \in Seq(AllPages) /\ o \in Nat /\ p \in CallPcs
  BY <1>3, <1>4, <1>5, <1>6, ConcatProperties DEF CallPcs
<1>8. <<>> \in Seq(SourcePages)
  OBVIOUS
<1>9. d = [c EXCEPT !.got = got, !.offset = o, !.hits = <<>>, !.array = <<>>, !.pc = p]
  BY <1>1, <1>2, <1>3, <1>4, <1>5 DEF Told, PageOf, HasMore, Page
<1>10. d \in Calls
  BY <1>7, <1>8, <1>9 DEF Calls
<1>11. /\ d.tool = c.tool /\ d.lang = c.lang /\ d.start = c.start /\ d.slug = c.slug
       /\ d.quiet = c.quiet /\ d.shrunk = c.shrunk
       /\ d.hits = <<>> /\ d.array = <<>> /\ d.got = got /\ d.offset = o /\ d.pc = p
  BY <1>9 DEF Calls
<1> QED
  BY <1>1, <1>2, <1>3, <1>4, <1>5, <1>10, <1>11

(* The pages told are those up to the offset, if they were before, and the  *)
(* last answer goes up to the end.                                          *)
LEMMA ToldFacts ==
  ASSUME NEW c \in Calls, c = call, NEW seq \in Seq(AllPages), NEW d, d = Told(seq)
  PROVE  /\ d.pc \in {"ask", "done"}
         /\ d.pc = "done" => d.offset >= Len(seq)
         /\ \A x \in ToSet(c.got) : x \in ToSet(d.got)
         /\ \A i \in 1 .. Len(seq) : c.offset < i /\ i <= d.offset => seq[i] \in ToSet(d.got)
         /\ c.offset <= Len(seq) /\ c.got = SubSeq(seq, 1, c.offset) =>
               d.offset <= Len(seq) /\ d.got = SubSeq(seq, 1, d.offset)
<1>1. PICK g : g = Page(c, seq)
  OBVIOUS
<1>2. /\ g \in Seq(AllPages) /\ Len(g) \in Nat
      /\ \A i \in 1 .. Len(g) : c.offset + i \in 1 .. Len(seq) /\ g[i] = seq[c.offset + i]
      /\ c.offset <= Len(seq) => Len(g) = Smaller(c.offset + c.limit, Len(seq)) - c.offset
  BY <1>1, PageLength
<1>3. /\ d.got = c.got \o g /\ d.offset = c.offset + Len(g)
      /\ d.pc = IF c.offset + Len(g) < Len(seq) THEN "ask" ELSE "done"
  BY <1>1, ToldFields
<1>4. c.offset \in Nat /\ c.limit \in Nat /\ c.got \in Seq(AllPages) /\ Len(c.got) \in Nat /\ Len(seq) \in Nat
  BY CallFields, LenProperties
<1>5. d.pc = "done" => d.offset >= Len(seq)
  BY <1>2, <1>3, <1>4
<1>6. /\ d.got \in Seq(AllPages) /\ Len(d.got) = Len(c.got) + Len(g)
      /\ DOMAIN d.got = 1 .. Len(c.got) + Len(g) /\ DOMAIN c.got = 1 .. Len(c.got)
      /\ \A i \in 1 .. Len(c.got) : d.got[i] = c.got[i]
      /\ \A i \in 1 .. Len(g) : d.got[Len(c.got) + i] = g[i]
  <2>1. c.got \o g \in Seq(AllPages) /\ Len(c.got \o g) = Len(c.got) + Len(g)
    BY <1>2, <1>4, ConcatProperties
  <2>2. \A i \in 1 .. Len(c.got) : d.got[i] = c.got[i]
    BY <1>2, <1>3, <1>4
  <2>3. \A i \in 1 .. Len(g) : d.got[Len(c.got) + i] = g[i]
    BY <1>2, <1>3, <1>4
  <2> QED
    BY <1>3, <1>4, <2>1, <2>2, <2>3, LenProperties
<1>7. \A x \in ToSet(c.got) : x \in ToSet(d.got)
  <2>1. \A i \in 1 .. Len(c.got) : i \in 1 .. Len(c.got) + Len(g)
    BY <1>2, <1>4
  <2> QED
    BY <1>6, <2>1 DEF ToSet
<1>8. ASSUME NEW i \in 1 .. Len(seq), c.offset < i, i <= d.offset PROVE seq[i] \in ToSet(d.got)
  <2>1. PICK j : j = i - c.offset
    OBVIOUS
  <2>2. j \in 1 .. Len(g) /\ c.offset + j = i
    BY <1>2, <1>3, <1>4, <1>8, <2>1
  <2>3. d.got[Len(c.got) + j] = seq[i] /\ Len(c.got) + j \in 1 .. Len(c.got) + Len(g)
    <3>1. d.got[Len(c.got) + j] = g[j] /\ g[j] = seq[c.offset + j]
      BY <1>2, <1>6, <2>2
    <3>2. seq[c.offset + j] = seq[i]
      BY <2>2
    <3>3. Len(c.got) + j \in 1 .. Len(c.got) + Len(g)
      BY <1>2, <1>4, <2>2
    <3> QED
      BY <3>1, <3>2, <3>3
  <2>4. PICK k : k = Len(c.got) + j
    OBVIOUS
  <2>5. k \in DOMAIN d.got /\ d.got[k] = seq[i]
    BY <1>6, <2>3, <2>4
  <2> QED
    BY <2>5 DEF ToSet
<1>9. ASSUME c.offset <= Len(seq), c.got = SubSeq(seq, 1, c.offset)
      PROVE  d.offset <= Len(seq) /\ d.got = SubSeq(seq, 1, d.offset)
  <2>1. d.offset = Smaller(c.offset + c.limit, Len(seq))
    BY <1>2, <1>3, <1>4, <1>9 DEF Smaller
  <2>2. d.offset \in c.offset .. Len(seq) /\ c.offset \in 1 - 1 .. Len(seq) /\ 1 \in 1 .. Len(seq) + 1
    BY <1>4, <1>9, <2>1 DEF Smaller
  <2>3. g = SubSeq(seq, c.offset + 1, d.offset)
    BY <1>1, <2>1 DEF Page
  <2>4. SubSeq(seq, 1, c.offset) \o SubSeq(seq, c.offset + 1, d.offset) = SubSeq(seq, 1, d.offset)
    BY <2>2, ConcatAdjacentSubSeq
  <2>5. d.got = SubSeq(seq, 1, c.offset) \o g
    BY <1>3, <1>9
  <2>6. d.got = SubSeq(seq, 1, d.offset)
    BY <2>3, <2>4, <2>5
  <2>7. d.offset <= Len(seq)
    BY <1>4, <2>2
  <2> QED
    BY <2>6, <2>7
<1> QED
  BY <1>3, <1>5, <1>7, <1>8, <1>9

(* What the lists choose from.                                              *)
LEMMA PoolFacts ==
  ASSUME NEW index \in SUBSET SourcePages, OneEach(index), NEW tool \in ListTools
  PROVE  /\ Pool(tool, index) \in SUBSET AllPages /\ IsFiniteSet(Pool(tool, index))
         /\ OneEach(Pool(tool, index)) /\ TotalOrder(OrderOf(tool), Pool(tool, index))
<1>1. index \cup SectionPages \in SUBSET AllPages /\ OneEach(index \cup SectionPages)
  BY SiteQueriesAssumption DEF AllPages, OneEach
<1>2. Pool(tool, index) \subseteq index \cup SectionPages
  BY DEF Pool, ListTools, ContentPages, Sitemap, RecentPosts, GetFeed, Exported, Scored
<1>3. Pool(tool, index) \in SUBSET AllPages /\ OneEach(Pool(tool, index))
  BY <1>1, <1>2 DEF OneEach
<1>4. IsFiniteSet(AllPages)
  BY SiteQueriesAssumption, FS_Union DEF AllPages
<1>5. IsFiniteSet(Pool(tool, index))
  BY <1>3, <1>4, FS_Subset
<1>6. TotalOrder(OrderOf(tool), Pool(tool, index))
  BY <1>3, NewestTotal DEF OrderOf
<1> QED
  BY <1>3, <1>5, <1>6

(* A list has every page of its pool once.                                 *)
LEMMA ListingFacts ==
  ASSUME NEW index \in SUBSET SourcePages, OneEach(index), NEW tool \in ListTools
  PROVE  /\ Listing(tool, index) \in Seq(AllPages)
         /\ Len(Listing(tool, index)) = Cardinality(Pool(tool, index))
         /\ ToSet(Listing(tool, index)) = Pool(tool, index)
         /\ Distinct(Listing(tool, index), 1 .. Len(Listing(tool, index)))
<1>1. PICK S : S = Pool(tool, index)
  OBVIOUS
<1>2. PICK R : R = OrderOf(tool)
  OBVIOUS
<1>3. S \subseteq AllPages /\ IsFiniteSet(S) /\ OneEach(S) /\ TotalOrder(R, S)
  BY <1>1, <1>2, PoolFacts
<1>4. /\ Ordered(S, R) \in Seq(S) /\ Len(Ordered(S, R)) = Cardinality(S) /\ ToSet(Ordered(S, R)) = S
      /\ Distinct(Ordered(S, R), 1 .. Len(Ordered(S, R)))
  BY <1>3, OrderedDistinct
<1>5. Ordered(S, R) \in Seq(AllPages)
  BY <1>3, <1>4, SeqMonotonic
<1> QED
  BY <1>1, <1>2, <1>4, <1>5 DEF Listing

(* Hits of the table that the index still has, as the index has them.       *)
LEMMA FoundFacts ==
  ASSUME NEW index \in SUBSET SourcePages, OneEach(index), NEW lang,
         NEW hits \in Seq(SourcePages)
  PROVE  /\ Found(hits, index, lang) \in Seq(AllPages)
         /\ ToSet(Found(hits, index, lang)) =
               {p \in index : InLang(p, lang) /\ \E q \in ToSet(hits) : q.slug = p.slug}
         /\ Distinct(hits, 1 .. Len(hits)) =>
               Distinct(Found(hits, index, lang), 1 .. Len(Found(hits, index, lang)))
<1>1. PICK K : K = {p \in SourcePages : p.slug \in {q.slug : q \in index}}
  OBVIOUS
<1>2. PICK known : known = Those(hits, K)
  OBVIOUS
<1>3. PICK current : current = [i \in DOMAIN known |-> CHOOSE q \in index : q.slug = known[i].slug]
  OBVIOUS
<1>4. PICK S : S = {p \in index : InLang(p, lang)}
  OBVIOUS
<1>5. Found(hits, index, lang) = Those(current, S)
  BY <1>1, <1>2, <1>3, <1>4 DEF Found
<1>6. /\ known \in Seq(SourcePages \cap K) /\ ToSet(known) = ToSet(hits) \cap K
      /\ Distinct(hits, 1 .. Len(hits)) => Distinct(known, 1 .. Len(known))
  BY <1>2, ThoseFacts, ThoseDistinct
<1>7. /\ DOMAIN known = 1 .. Len(known) /\ Len(known) \in Nat
      /\ \A i \in 1 .. Len(known) : known[i] \in SourcePages \cap K
  BY <1>6, LenProperties
<1>8. ASSUME NEW i \in 1 .. Len(known)
      PROVE  current[i] \in index /\ current[i].slug = known[i].slug
  <2>1. \E q \in index : q.slug = known[i].slug
    BY <1>1, <1>7
  <2>2. current[i] = CHOOSE q \in index : q.slug = known[i].slug
    BY <1>3, <1>7
  <2> QED
    BY <2>1, <2>2
<1>9. current \in [1 .. Len(known) -> index]
  BY <1>3, <1>7, <1>8
<1>10. current \in Seq(index) /\ Len(current) = Len(known) /\ DOMAIN current = 1 .. Len(known)
  BY <1>7, <1>9, LenFun
<1>11. Distinct(hits, 1 .. Len(hits)) => Distinct(current, 1 .. Len(current))
  BY <1>6, <1>8, <1>10 DEF Distinct
<1>12. PICK f : f = Those(current, S)
  OBVIOUS
<1>13. /\ f \in Seq(index \cap S) /\ ToSet(f) = ToSet(current) \cap S
       /\ Distinct(hits, 1 .. Len(hits)) => Distinct(f, 1 .. Len(f))
  BY <1>10, <1>11, <1>12, ThoseFacts, ThoseDistinct
<1>14. f \in Seq(AllPages)
  <2>1. index \cap S \subseteq AllPages
    BY DEF AllPages
  <2> QED
    BY <1>13, <2>1, SeqMonotonic
<1>15. ToSet(current) = {p \in index : \E q \in ToSet(hits) : q.slug = p.slug}
  <2>1. ASSUME NEW p \in ToSet(current) PROVE p \in index /\ \E q \in ToSet(hits) : q.slug = p.slug
    <3>1. PICK i \in 1 .. Len(known) : current[i] = p
      BY <1>10, <2>1 DEF ToSet
    <3>2. known[i] \in ToSet(known)
      BY <1>7 DEF ToSet
    <3> QED
      BY <1>6, <1>8, <3>1, <3>2
  <2>2. ASSUME NEW p \in index, NEW q \in ToSet(hits), q.slug = p.slug PROVE p \in ToSet(current)
    <3>1. q \in SourcePages
      <4>1. PICK i \in DOMAIN hits : hits[i] = q
        BY DEF ToSet
      <4>2. i \in 1 .. Len(hits)
        BY <4>1, LenProperties
      <4> QED
        BY <4>1, <4>2, ElementOfSeq
    <3>2. q \in ToSet(known)
      BY <1>1, <1>6, <2>2, <3>1
    <3>3. PICK i \in 1 .. Len(known) : known[i] = q
      BY <1>7, <3>2 DEF ToSet
    <3>4. current[i] = p
      BY <1>8, <2>2, <3>3 DEF OneEach
    <3> QED
      BY <1>10, <3>3, <3>4 DEF ToSet
  <2> QED
    BY <2>1, <2>2
<1>16. ToSet(f) = {p \in index : InLang(p, lang) /\ \E q \in ToSet(hits) : q.slug = p.slug}
  BY <1>4, <1>13, <1>15
<1> QED
  BY <1>5, <1>12, <1>13, <1>14, <1>16

(* So has the answer of search_content without the table.                  *)
LEMMA ScannedFacts ==
  ASSUME NEW index \in SUBSET SourcePages, OneEach(index), NEW lang
  PROVE  /\ Scanned(index, lang) \in Seq(AllPages)
         /\ ToSet(Scanned(index, lang)) = {p \in index : InLang(p, lang) /\ p.text \cap Query # {}}
         /\ Distinct(Scanned(index, lang), 1 .. Len(Scanned(index, lang)))
<1>1. PICK S : S = {p \in index : Score(p) > 0 /\ InLang(p, lang)}
  OBVIOUS
<1>2. S \in SUBSET AllPages /\ S \in SUBSET SourcePages /\ OneEach(S)
  BY <1>1 DEF AllPages, OneEach
<1>3. IsFiniteSet(S)
  BY <1>2, FS_Subset, SiteQueriesAssumption
<1>4. /\ Ordered(S, LatestSlug) \in Seq(S) /\ ToSet(Ordered(S, LatestSlug)) = S
      /\ Distinct(Ordered(S, LatestSlug), 1 .. Len(Ordered(S, LatestSlug)))
  BY <1>2, <1>3, LatestSlugTotal, OrderedDistinct
<1>5. Ordered(S, LatestSlug) \in Seq(AllPages)
  BY <1>2, <1>4, SeqMonotonic
<1>6. S = {p \in index : InLang(p, lang) /\ p.text \cap Query # {}}
  <2>1. ASSUME NEW p \in index PROVE Score(p) > 0 <=> p.text \cap Query # {}
    <3>1. IsFiniteSet(p.text \cap Query)
      BY FS_Intersection, SiteQueriesAssumption
    <3>2. Cardinality(p.text \cap Query) \in Nat
          /\ (Cardinality(p.text \cap Query) = 0 <=> p.text \cap Query = {})
      BY <3>1, FS_CardinalityType, FS_EmptySet
    <3> QED
      BY <3>2 DEF Score
  <2> QED
    BY <1>1, <2>1
<1> QED
  BY <1>1, <1>4, <1>5, <1>6 DEF Scanned

(* The whole answer has every page asked for once.                          *)
Asked(c, index, src, table) ==
    CASE c.tool \in ListTools -> Pool(c.tool, index)
      [] c.tool = "validate_site" -> ToSet(Used(src))
      [] c.tool = "invalid_only" -> ToSet(Used(src)) \cap Invalid
      [] OTHER -> {p \in index :
                      /\ InLang(p, c.lang)
                      /\ IF Best(table) # {}
                         THEN \E q \in Best(table) : q.slug = p.slug
                         ELSE p.text \cap Query # {}}

(* The hits of a search are the best rows that match, each once.            *)
LEMMA HitsFacts ==
  ASSUME NEW table \in Seq(SourcePages), Distinct(table, 1 .. Len(table))
  PROVE  /\ Hits(table) \in Seq(SourcePages)
         /\ ToSet(Hits(table)) = Best(table)
         /\ Distinct(Hits(table), 1 .. Len(Hits(table)))
<1>1. MaxHits \in Nat /\ MaxHits # 0
  BY SiteQueriesAssumption
<1>2. PICK at : at = {i \in DOMAIN table : table[i] \in Matches}
  OBVIOUS
<1>3. Len(table) \in Nat /\ DOMAIN table = 1 .. Len(table)
  BY LenProperties
<1>4. at \in SUBSET Nat /\ IsFiniteSet(at)
  <2>1. at \in SUBSET (1 .. Len(table)) /\ IsFiniteSet(1 .. Len(table))
    BY <1>2, <1>3, FS_Interval
  <2>2. at \in SUBSET Nat
    BY <1>3, <2>1
  <2>3. IsFiniteSet(at)
    BY <2>1, FS_Subset
  <2> QED
    BY <2>2, <2>3
<1>5. PICK o : o = Those(table, Matches)
  OBVIOUS
<1>6. /\ o \in Seq(SourcePages) /\ Distinct(o, 1 .. Len(o))
  <2>1. o \in Seq(SourcePages \cap Matches) /\ Distinct(o, 1 .. Len(o))
    BY <1>5, ThoseDistinct
  <2> QED
    BY <2>1, SeqMonotonic
<1>7. PICK n : n = Cardinality(at)
  OBVIOUS
<1>8. PICK p :
          /\ n \in Nat /\ p \in [1 .. n -> at] /\ o = [k \in 1 .. n |-> table[p[k]]]
          /\ \A i \in at : \E k \in 1 .. n : p[k] = i
          /\ \A k \in 1 .. n : Cardinality({j \in at : j < p[k]}) = k - 1
  <2>1. Cardinality(at) \in Nat /\ \E p : Picks(p, table, at)
    BY <1>4, PickedFacts
  <2>2. PICK p : Picks(p, table, at)
    BY <2>1
  <2> QED
    BY <1>2, <1>5, <1>7, <2>1, <2>2 DEF Picks, Those
<1>9. Len(o) = n
  <2>1. DOMAIN o = 1 .. n /\ DOMAIN o = 1 .. Len(o) /\ Len(o) \in Nat
    BY <1>6, <1>8, LenProperties
  <2> QED
    BY <1>8, <2>1, IntervalEnd
<1>10. PICK h : h = FirstOf(o, MaxHits)
  OBVIOUS
<1>11. /\ h \in Seq(SourcePages) /\ Len(h) = Smaller(MaxHits, n)
       /\ \A i \in 1 .. Len(h) : i \in 1 .. Len(o) /\ h[i] = o[i]
  BY <1>1, <1>6, <1>9, <1>10, FirstOfFacts
<1>12. Len(h) \in Nat /\ DOMAIN h = 1 .. Len(h) /\ \A k \in 1 .. n : k \in 1 .. Len(h) <=> k - 1 < MaxHits
  BY <1>1, <1>8, <1>11, LenProperties DEF Smaller
<1>13. Distinct(h, 1 .. Len(h))
  BY <1>6, <1>11 DEF Distinct
<1>14. PICK best : best = {j \in at : Cardinality({k \in at : k < j}) < MaxHits}
  OBVIOUS
<1>15. Best(table) = {table[i] : i \in best}
  BY <1>2, <1>14 DEF Best
<1>16. \A k \in 1 .. n : p[k] \in best <=> k \in 1 .. Len(h)
  BY <1>8, <1>12, <1>14
<1>17. ToSet(h) = Best(table)
  <2>1. ASSUME NEW x \in ToSet(h) PROVE x \in Best(table)
    <3>1. PICK k \in 1 .. Len(h) : h[k] = x
      BY <1>12, <2>1 DEF ToSet
    <3>2. k \in 1 .. n /\ x = table[p[k]]
      BY <1>8, <1>9, <1>11, <3>1
    <3> QED
      BY <1>15, <1>16, <3>1, <3>2
  <2>2. ASSUME NEW x \in Best(table) PROVE x \in ToSet(h)
    <3>1. PICK i \in best : table[i] = x
      BY <1>15, <2>2
    <3>2. PICK k \in 1 .. n : p[k] = i
      BY <1>8, <1>14, <3>1
    <3>3. k \in 1 .. Len(h) /\ h[k] = x
      BY <1>8, <1>11, <1>16, <3>1, <3>2
    <3> QED
      BY <1>12, <3>3 DEF ToSet
  <2> QED
    BY <2>1, <2>2
<1> QED
  BY <1>5, <1>10, <1>11, <1>13, <1>17 DEF Hits

(* So has the whole answer of every tool.                                  *)
LEMMA WholeFacts ==
  ASSUME NEW index \in SUBSET SourcePages, OneEach(index),
         NEW src \in Sources, src.len <= Len(src.slots), Distinct(src.slots, 1 .. src.len),
         NEW table \in Seq(SourcePages), Distinct(table, 1 .. Len(table)),
         NEW c, c.tool \in Walks
  PROVE  /\ Whole(c, index, src, table) \in Seq(AllPages)
         /\ ToSet(Whole(c, index, src, table)) = Asked(c, index, src, table)
         /\ Distinct(Whole(c, index, src, table), 1 .. Len(Whole(c, index, src, table)))
<1>1. /\ Used(src) \in Seq(SourcePages) /\ Distinct(Used(src), 1 .. Len(Used(src)))
  <2>1. src.len \in Nat /\ \A i \in 1 .. src.len : src.slots[i] \in SourcePages
    BY SourceFields
  <2>2. PICK u : u = Used(src)
    OBVIOUS
  <2>3. /\ u \in Seq(SourcePages)
        /\ Len(u) = IF 1 <= src.len THEN src.len - 1 + 1 ELSE 0
        /\ \A i \in 1 .. src.len - 1 + 1 : u[i] = src.slots[1 + i - 1]
    <3>1. 1 \in Int /\ src.len \in Int
      BY <2>1
    <3> QED
      BY <2>1, <2>2, <3>1, SubSeqProperties DEF Used
  <2>4. Len(u) = src.len /\ \A i \in 1 .. src.len : u[i] = src.slots[i]
    BY <2>1, <2>3
  <2>5. Distinct(u, 1 .. Len(u))
    BY <2>4 DEF Distinct
  <2> QED
    BY <2>2, <2>3, <2>5
<1>2. SourcePages \subseteq AllPages
  BY DEF AllPages
<1>3. CASE c.tool \in ListTools
  <2>1. Whole(c, index, src, table) = Listing(c.tool, index)
    BY <1>3 DEF Whole, ListTools
  <2>2. Asked(c, index, src, table) = Pool(c.tool, index)
    BY <1>3 DEF Asked, ListTools
  <2> QED
    BY <1>3, <2>1, <2>2, ListingFacts
<1>4. CASE c.tool = "validate_site"
  <2>1. Whole(c, index, src, table) = Used(src) /\ Asked(c, index, src, table) = ToSet(Used(src))
    BY <1>4 DEF Whole, Asked, ListTools
  <2> QED
    BY <1>1, <1>2, <2>1, SeqMonotonic
<1>5. CASE c.tool = "invalid_only"
  <2>1. /\ Whole(c, index, src, table) = Those(Used(src), Invalid)
        /\ Asked(c, index, src, table) = ToSet(Used(src)) \cap Invalid
    BY <1>5 DEF Whole, Asked, ListTools
  <2>2. /\ Those(Used(src), Invalid) \in Seq(SourcePages \cap Invalid)
        /\ ToSet(Those(Used(src), Invalid)) = ToSet(Used(src)) \cap Invalid
        /\ Distinct(Those(Used(src), Invalid), 1 .. Len(Those(Used(src), Invalid)))
    BY <1>1, ThoseDistinct
  <2>3. SourcePages \cap Invalid \subseteq AllPages
    BY <1>2
  <2>4. Those(Used(src), Invalid) \in Seq(AllPages)
    BY <2>2, <2>3, SeqMonotonic
  <2> QED
    BY <2>1, <2>2, <2>4
<1>6. CASE c.tool = "search_content"
  <2>1. PICK h : h = Hits(table)
    OBVIOUS
  <2>2. h \in Seq(SourcePages) /\ ToSet(h) = Best(table) /\ Distinct(h, 1 .. Len(h))
    BY <2>1, HitsFacts
  <2>3. h \in Seq(SourcePages)
    BY <2>2
  <2>4. ToSet(h) # {} <=> h # <<>>
    <3>1. DOMAIN h = 1 .. Len(h) /\ Len(h) \in Nat /\ (h # <<>> => Len(h) # 0)
      BY <2>3, LenProperties, EmptySeq
    <3>2. CASE h = <<>>
      <4>1. DOMAIN h = {}
        BY <3>2
      <4> QED
        BY <3>2, <4>1 DEF ToSet
    <3>3. CASE h # <<>>
      <4>1. 1 \in DOMAIN h
        BY <3>1, <3>3
      <4> QED
        BY <3>3, <4>1 DEF ToSet
    <3> QED
      BY <3>2, <3>3
  <2>5. /\ Whole(c, index, src, table) = IF h # <<>> THEN Found(h, index, c.lang) ELSE Scanned(index, c.lang)
        /\ Asked(c, index, src, table) =
              {p \in index : /\ InLang(p, c.lang)
                             /\ IF Best(table) # {}
                                THEN \E q \in Best(table) : q.slug = p.slug
                                ELSE p.text \cap Query # {}}
    BY <1>6, <2>1 DEF Whole, Asked, ListTools
  <2>6. CASE h # <<>>
    <3>1. Asked(c, index, src, table) =
              {p \in index : InLang(p, c.lang) /\ \E q \in ToSet(h) : q.slug = p.slug}
      BY <2>2, <2>4, <2>5, <2>6
    <3> QED
      BY <2>2, <2>3, <2>5, <2>6, <3>1, FoundFacts
  <2>7. CASE h = <<>>
    <3>1. Asked(c, index, src, table) = {p \in index : InLang(p, c.lang) /\ p.text \cap Query # {}}
      BY <2>2, <2>4, <2>5, <2>7
    <3> QED
      BY <2>5, <2>7, <3>1, ScannedFacts
  <2> QED
    BY <2>6, <2>7
<1> QED
  BY <1>3, <1>4, <1>5, <1>6 DEF Walks, Validations

(* A list of a site that grows: what was in it is in it, and not earlier.   *)
LEMMA PoolGrows ==
  ASSUME NEW index \in SUBSET SourcePages, OneEach(index),
         NEW after \in SUBSET SourcePages, OneEach(after), index \subseteq after,
         NEW tool \in ListTools
  PROVE  /\ Pool(tool, index) \subseteq Pool(tool, after)
         /\ \A p \in Pool(tool, index) :
               /\ Place(Pool(tool, index), OrderOf(tool), p) \in Nat
               /\ Place(Pool(tool, after), OrderOf(tool), p) \in Nat
               /\ Place(Pool(tool, index), OrderOf(tool), p) <= Place(Pool(tool, after), OrderOf(tool), p)
<1>1. PICK S : S = Pool(tool, index)
  OBVIOUS
<1>2. PICK T : T = Pool(tool, after)
  OBVIOUS
<1>3. PICK R : R = OrderOf(tool)
  OBVIOUS
<1>4. S \subseteq T
  BY <1>1, <1>2 DEF Pool, ListTools, ContentPages, Sitemap, RecentPosts, GetFeed, Exported, Scored
<1>5. IsFiniteSet(T)
  BY <1>2, PoolFacts
<1>6. ASSUME NEW p \in S
      PROVE  Place(S, R, p) \in Nat /\ Place(T, R, p) \in Nat /\ Place(S, R, p) <= Place(T, R, p)
  <2>1. Below(T, R, p) \in SUBSET T /\ Below(S, R, p) \in SUBSET Below(T, R, p)
    BY <1>4 DEF Below
  <2>2. IsFiniteSet(Below(T, R, p))
    BY <1>5, <2>1, FS_Subset
  <2>3. IsFiniteSet(Below(S, R, p)) /\ Cardinality(Below(S, R, p)) <= Cardinality(Below(T, R, p))
    BY <2>1, <2>2, FS_Subset
  <2>4. Cardinality(Below(S, R, p)) \in Nat /\ Cardinality(Below(T, R, p)) \in Nat
    BY <2>2, <2>3, FS_CardinalityType
  <2> QED
    BY <2>3, <2>4 DEF Place
<1> QED
  BY <1>1, <1>2, <1>3, <1>4, <1>6

(* A call that waits loses nothing while the public index only grows.      *)
LEMMA GrowthKept ==
  ASSUME NEW index \in SUBSET SourcePages, OneEach(index),
         NEW after \in SUBSET SourcePages, OneEach(after),
         NEW c \in Calls, GrowthOK(c, index),
         NEW d \in Calls, d.pc = c.pc, d.tool = c.tool, d.start = c.start, d.got = c.got, d.offset = c.offset,
         ~d.shrunk => ~c.shrunk /\ index \subseteq after
  PROVE  GrowthOK(d, after)
<1> SUFFICES ASSUME d.pc # "idle", d.tool \in ListTools, ~d.shrunk
             PROVE  /\ d.start \subseteq Pool(d.tool, after)
                    /\ \A p \in d.start :
                          \/ p \in ToSet(d.got)
                          \/ d.pc = "ask" /\ Place(Pool(d.tool, after), OrderOf(d.tool), p) > d.offset
  BY DEF GrowthOK
<1>1. PICK tool \in ListTools : tool = c.tool
  OBVIOUS
<1>2. /\ c.start \subseteq Pool(tool, index)
      /\ \A p \in c.start :
            \/ p \in ToSet(c.got)
            \/ c.pc = "ask" /\ Place(Pool(tool, index), OrderOf(tool), p) > c.offset
  BY <1>1 DEF GrowthOK
<1>3. /\ Pool(tool, index) \subseteq Pool(tool, after)
      /\ \A p \in Pool(tool, index) :
            /\ Place(Pool(tool, index), OrderOf(tool), p) \in Nat
            /\ Place(Pool(tool, after), OrderOf(tool), p) \in Nat
            /\ Place(Pool(tool, index), OrderOf(tool), p) <= Place(Pool(tool, after), OrderOf(tool), p)
  BY PoolGrows
<1>4. c.offset \in Nat
  BY CallFields
<1>5. ASSUME NEW p \in c.start, Place(Pool(tool, index), OrderOf(tool), p) > c.offset
      PROVE  Place(Pool(tool, after), OrderOf(tool), p) > c.offset
  BY <1>2, <1>3, <1>4, <1>5
<1> QED
  BY <1>1, <1>2, <1>3, <1>5

Disturbance(c, d, index, after) ==
    /\ d \in Calls /\ d.pc = c.pc /\ d.tool = c.tool /\ d.start = c.start /\ d.got = c.got
    /\ d.offset = c.offset /\ d.hits = c.hits /\ d.total = c.total /\ d.array = c.array
    /\ d.quiet = FALSE /\ (~d.shrunk => ~c.shrunk /\ index \subseteq after)

(* What a writer's step changes of a call.                                 *)
LEMMA DisturbedFields ==
  ASSUME NEW c \in Calls, c = call, c.pc # "idle", NEW pub, NEW d, d = Disturbed(pub)
  PROVE  Disturbance(c, d, public, pub)
<1>1. PICK b \in BOOLEAN : b = (c.shrunk \/ ~(public \subseteq pub))
  OBVIOUS
<1>2. d = [c EXCEPT !.quiet = FALSE, !.shrunk = b]
  BY <1>1 DEF Disturbed
<1> QED
  BY <1>1, <1>2 DEF Calls, Disturbance

(* A call that rests, and one that is not quiet.                            *)
LEMMA RestingOK ==
  ASSUME NEW c \in Calls, c.pc = "idle"
  PROVE  /\ \A w : QuietOK(c, w)
         /\ \A src : PhaseOK(c, src)
         /\ \A index, src, table : WalkOK(c, index, src, table)
         /\ \A src, disk : LookupOK(c, src, disk)
         /\ \A index : GrowthOK(c, index)
  BY DEF QuietOK, PhaseOK, WalkOK, LookupOK, GrowthOK

(* A call at rest.                                                         *)
LEMMA RestingIsACall == Resting \in Calls /\ Resting.pc = "idle"
<1>1. <<>> \in Seq(AllPages) /\ <<>> \in Seq(SourcePages)
  OBVIOUS
<1> QED
  BY <1>1 DEF Resting, Calls, CallPcs

(* Of a call beside a writer nothing is said of its answer.                *)
LEMMA UnquietOK ==
  ASSUME NEW c \in Calls, ~c.quiet
  PROVE  /\ \A w : QuietOK(c, w)
         /\ \A index, src, table : WalkOK(c, index, src, table)
         /\ \A src, disk : LookupOK(c, src, disk)
  BY DEF QuietOK, WalkOK, LookupOK

(* A writer's step takes the call's quiet, and leaves the rest.            *)
LEMMA WritersKeepCalls ==
  ASSUME IInv, SystemInv', call' = Disturbed(public'),
         Len(source.slots) \in Nat, Len(source'.slots) \in Nat, Len(source.slots) <= Len(source'.slots)
  PROVE  CallInv'
<1>1. PICK c \in Calls : c = call
  BY DEF IInv, CallInv
<1>2. PICK d : d = call'
  OBVIOUS
<1>3. PICK src : src = source
  OBVIOUS
<1>4. PICK src2 : src2 = source'
  OBVIOUS
<1>5. PICK after : after = public'
  OBVIOUS
<1>6. PICK index : index = public
  OBVIOUS
<1>7. /\ after \in SUBSET SourcePages /\ OneEach(after) /\ index \in SUBSET SourcePages /\ OneEach(index)
      /\ PhaseOK(c, src) /\ GrowthOK(c, index)
  BY <1>1, <1>3, <1>5, <1>6 DEF IInv, SystemInv, CallInv, CopiesInv
<1>8. CASE c.pc = "idle"
  <2>1. d = c
    BY <1>1, <1>2, <1>8 DEF Disturbed
  <2> QED
    BY <1>2, <1>8, <2>1, RestingOK DEF CallInv
<1>9. CASE c.pc # "idle"
  <2>1. /\ d \in Calls /\ d.pc = c.pc /\ d.tool = c.tool /\ d.start = c.start /\ d.got = c.got
        /\ d.offset = c.offset /\ d.hits = c.hits /\ d.total = c.total /\ d.array = c.array
        /\ d.quiet = FALSE /\ (~d.shrunk => ~c.shrunk /\ index \subseteq after)
    <3>1. d = Disturbed(after)
      BY <1>2, <1>5
    <3>2. Disturbance(c, d, public, after)
      BY <1>1, <1>9, <3>1, DisturbedFields
    <3> QED
      BY <1>6, <3>2 DEF Disturbance
  <2>2. GrowthOK(d, after)
    BY <1>1, <1>7, <2>1, GrowthKept
  <2>3. PhaseOK(d, src2)
    <3>1. c.total \in Nat
      BY <1>1, CallFields
    <3>2. Len(src.slots) \in Nat /\ Len(src2.slots) \in Nat /\ Len(src.slots) <= Len(src2.slots)
      BY <1>3, <1>4
    <3>3. c.pc = "copy" => c.total <= IF c.array = <<>> THEN Len(src2.slots) ELSE Len(c.array)
      BY <1>7, <3>1, <3>2 DEF PhaseOK
    <3> QED
      BY <1>7, <2>1, <3>3 DEF PhaseOK
  <2> QED
    BY <1>2, <1>4, <1>5, <2>1, <2>2, <2>3, UnquietOK DEF CallInv
<1> QED
  BY <1>8, <1>9

(* An array is never made shorter in place.                                *)
LEMMA SlotsGrow ==
  ASSUME SystemInv, Upsert \/ ShiftSlot
  PROVE  /\ Len(source.slots) \in Nat /\ Len(source'.slots) \in Nat
         /\ Len(source.slots) <= Len(source'.slots)
<1>1. PICK src : src = source
  OBVIOUS
<1>2. PICK src2 : src2 = source'
  OBVIOUS
<1>3. PICK w : w = writer
  OBVIOUS
<1>4. SourceOK(src, w) /\ WriterType(w)
  BY <1>1, <1>3 DEF SystemInv
<1>5. src \in Sources /\ src.len <= Len(src.slots) /\ src.slots \in Seq(SourcePages) /\ Len(src.slots) \in Nat
      /\ src.len \in Nat
  BY <1>4, SourceFields DEF SourceOK
<1>6. CASE Upsert
  <2>1. w.pc = "index" /\ w.page \in SourcePages /\ src2 = Upserted(src, w.page)
    BY <1>1, <1>2, <1>3, <1>4, <1>6 DEF Upsert, WriterType
  <2>2. src2 \in Sources /\ src2.len <= Len(src2.slots) /\ Len(src.slots) <= Len(src2.slots)
    BY <1>4, <2>1, UpsertKeepsDistinct
  <2>3. Len(src2.slots) \in Nat
    BY <2>2, SourceFields
  <2> QED
    BY <1>1, <1>2, <1>5, <2>2, <2>3
<1>7. CASE ShiftSlot
  <2>1. CASE src2 = src
    BY <1>1, <1>2, <1>5, <2>1
  <2>2. CASE src2 = [src EXCEPT !.slots[w.to + 1] = src.slots[w.from]]
    <3>1. w.from <= src.len /\ w.to < w.from /\ w.from \in Nat /\ w.to \in Nat
      BY <1>1, <1>3, <1>4, <1>7, WriterStepFields DEF ShiftSlot, SourceOK
    <3>2. w.from \in 1 .. Len(src.slots) /\ w.to + 1 \in 1 .. Len(src.slots)
      BY <1>5, <3>1
    <3>3. src.slots[w.from] \in SourcePages
      BY <1>5, <3>2, ElementOfSeq
    <3>4. PICK t : t = [src.slots EXCEPT ![w.to + 1] = src.slots[w.from]]
      OBVIOUS
    <3>5. Len(t) = Len(src.slots)
      BY <1>5, <3>2, <3>3, <3>4, ExceptSeq
    <3>6. src2 = [src EXCEPT !.slots = t]
      BY <2>2, <3>4
    <3>7. src2.slots = t
      BY <1>5, <3>6 DEF Sources
    <3> QED
      BY <1>1, <1>2, <1>5, <3>5, <3>7
  <2> QED
    BY <1>1, <1>2, <1>3, <1>7, <2>1, <2>2 DEF ShiftSlot
<1> QED
  BY <1>6, <1>7

(* So for every step of update_page, delete_page and the editor, and all   *)
(* of a build but the reload.                                              *)
LEMMA WritersStep ==
  ASSUME IInv, SystemInv',
         \/ \E p \in SourcePages : WriteFile(p) \/ EditByHand(p)
         \/ \E s \in SlugsOf(Start) : Delete(s)
         \/ Upsert \/ ShiftSlot \/ Truncate \/ ClearMaps \/ FillMap \/ Unlist \/ DropRow
         \/ ReloadMaps \/ Publish \/ SyncRows
  PROVE  CallInv'
<1>1. Len(source.slots) \in Nat /\ source \in Sources
  BY SourceFields DEF IInv, SystemInv, SourceOK
<1>2. CASE Upsert \/ ShiftSlot
  <2>1. call' = Disturbed(public')
    BY <1>2 DEF Upsert, ShiftSlot
  <2> QED
    BY <1>2, <2>1, SlotsGrow, WritersKeepCalls DEF IInv
<1>3. CASE ~(Upsert \/ ShiftSlot)
  <2>1. call' = Disturbed(public')
    BY <1>3 DEF WriteFile, EditByHand, Delete, Truncate, ClearMaps, FillMap, Unlist, DropRow,
                ReloadMaps, Publish, SyncRows
  <2>2. \/ source' = source
        \/ \E n : source' = [source EXCEPT !.len = n]
        \/ \E at : source' = [source EXCEPT !.at = at]
    BY <1>3 DEF WriteFile, EditByHand, Delete, Truncate, ClearMaps, FillMap, Unlist, DropRow,
                ReloadMaps, Publish, SyncRows
  <2>3. source'.slots = source.slots
    BY <1>1, <2>2 DEF Sources
  <2> QED
    BY <1>1, <2>1, <2>3, WritersKeepCalls
<1> QED
  BY <1>2, <1>3

(* A reload gives the copy that is being made the array it began with.      *)
LEMMA ReloadCallStep ==
  ASSUME IInv, SystemInv', Reload
  PROVE  CallInv'
<1>1. PICK c \in Calls : c = call
  BY DEF IInv, CallInv
<1>2. PICK d : d = call'
  OBVIOUS
<1>3. PICK src : src = source
  OBVIOUS
<1>4. PICK src2 : src2 = source'
  OBVIOUS
<1>5. PICK index : index = public
  OBVIOUS
<1>6. /\ index \in SUBSET SourcePages /\ OneEach(index) /\ PhaseOK(c, src) /\ GrowthOK(c, index)
      /\ src \in Sources /\ src.len <= Len(src.slots)
  BY <1>1, <1>3, <1>5 DEF IInv, SystemInv, CallInv, CopiesInv, SourceOK
<1>7. src.slots \in Seq(SourcePages) /\ Len(src.slots) \in Nat
  BY <1>6, SourceFields
<1>8. PICK e : e = Disturbed(index)
  OBVIOUS
<1>9. d = IF c.pc = "copy" /\ c.array = <<>> THEN [e EXCEPT !.array = src.slots] ELSE e
  BY <1>1, <1>2, <1>3, <1>5, <1>8 DEF Reload
<1>10. CASE c.pc = "idle"
  <2>1. d = c
    BY <1>1, <1>8, <1>9, <1>10 DEF Disturbed
  <2> QED
    BY <1>2, <1>10, <2>1, RestingOK DEF CallInv
<1>11. CASE c.pc # "idle"
  <2>1. Disturbance(c, e, index, index)
    BY <1>1, <1>5, <1>8, <1>11, DisturbedFields
  <2>2. e \in Calls /\ ~e.quiet
    BY <2>1 DEF Disturbance
  <2>3. d \in Calls /\ ~d.quiet
        /\ d.pc = e.pc /\ d.tool = e.tool /\ d.start = e.start /\ d.got = e.got /\ d.offset = e.offset
        /\ d.shrunk = e.shrunk /\ d.hits = e.hits /\ d.total = e.total
        /\ d.array = IF c.pc = "copy" /\ c.array = <<>> THEN src.slots ELSE e.array
    BY <1>7, <1>9, <2>2 DEF Calls
  <2>4. GrowthOK(d, index)
    <3>1. /\ d.pc = c.pc /\ d.tool = c.tool /\ d.start = c.start /\ d.got = c.got /\ d.offset = c.offset
          /\ (~d.shrunk => ~c.shrunk)
      BY <2>1, <2>3 DEF Disturbance
    <3> QED
      BY <1>6, <2>3, <3>1, GrowthKept
  <2>5. PhaseOK(d, src2)
    <3>1. /\ d.pc = c.pc /\ d.tool = c.tool /\ d.hits = c.hits /\ d.total = c.total
          /\ d.array = IF c.pc = "copy" /\ c.array = <<>> THEN src.slots ELSE c.array
      BY <2>1, <2>3 DEF Disturbance
    <3>2. ASSUME c.pc = "copy" PROVE c.total <= IF d.array = <<>> THEN Len(src2.slots) ELSE Len(d.array)
      <4>1. c.total <= IF c.array = <<>> THEN Len(src.slots) ELSE Len(c.array)
        BY <1>6, <3>2 DEF PhaseOK
      <4>2. CASE c.array # <<>>
        BY <3>1, <4>1, <4>2
      <4>3. CASE c.array = <<>> /\ src.slots # <<>>
        BY <3>1, <3>2, <4>1, <4>3
      <4>4. CASE c.array = <<>> /\ src.slots = <<>>
        <5>1. c.total \in Nat /\ Len(src.slots) = 0 /\ d.array = <<>>
          BY <3>1, <3>2, <4>4, CallFields
        <5>2. Len(src2.slots) \in Nat
          BY <1>4, SourceFields DEF SystemInv, SourceOK
        <5> QED
          BY <4>1, <4>4, <5>1, <5>2
      <4> QED
        BY <4>2, <4>3, <4>4
    <3> QED
      BY <1>6, <3>1, <3>2 DEF PhaseOK
  <2>6. public' = index
    BY <1>5 DEF Reload
  <2> QED
    BY <1>2, <1>4, <2>3, <2>4, <2>5, <2>6, UnquietOK DEF CallInv
<1> QED
  BY <1>10, <1>11

Unmoved == UNCHANGED <<files, source, writer, public, rows>>

(* Whatever the tool, an answer takes the call one page further.           *)
LEMMA ToldStep ==
  ASSUME IInv, Unmoved, NEW c \in Calls, c = call, c.pc # "idle", c.tool \in Walks,
         NEW seq \in Seq(AllPages), call' = Told(seq),
         c.quiet => Whole(c, public, source, rows) = seq,
         c.tool \in ListTools => c.pc = "ask" /\ seq = Listing(c.tool, public)
  PROVE  CallInv'
<1>1. PICK d : d = call'
  OBVIOUS
<1>2. d = Told(seq)
  BY <1>1
<1>3. /\ d \in Calls
      /\ d.tool = c.tool /\ d.lang = c.lang /\ d.start = c.start
      /\ d.quiet = c.quiet /\ d.shrunk = c.shrunk /\ d.array = <<>>
  BY <1>2, ToldFields
<1>4. /\ d.pc \in {"ask", "done"}
      /\ d.pc = "done" => d.offset >= Len(seq)
      /\ \A x \in ToSet(c.got) : x \in ToSet(d.got)
      /\ \A i \in 1 .. Len(seq) : c.offset < i /\ i <= d.offset => seq[i] \in ToSet(d.got)
      /\ c.offset <= Len(seq) /\ c.got = SubSeq(seq, 1, c.offset) =>
            d.offset <= Len(seq) /\ d.got = SubSeq(seq, 1, d.offset)
  BY <1>2, ToldFacts
<1>5. d.offset \in Nat /\ c.offset \in Nat /\ Len(seq) \in Nat
  BY <1>3, CallFields, LenProperties
<1>6. /\ QuietOK(c, writer) /\ WalkOK(c, public, source, rows) /\ GrowthOK(c, public)
      /\ public \in SUBSET SourcePages /\ OneEach(public)
  BY DEF IInv, CallInv, SystemInv, CopiesInv
<1>7. QuietOK(d, writer)
  BY <1>3, <1>6 DEF QuietOK
<1>8. PhaseOK(d, source)
  BY <1>3, <1>4 DEF PhaseOK
<1>9. WalkOK(d, public, source, rows)
  <2>1. CASE ~d.quiet
    BY <1>3, <2>1, UnquietOK
  <2>2. CASE d.quiet
    <3>1. c.offset <= Len(seq) /\ c.got = SubSeq(seq, 1, c.offset)
      BY <1>3, <1>6, <2>2 DEF WalkOK
    <3>2. d.offset <= Len(seq) /\ d.got = SubSeq(seq, 1, d.offset)
      BY <1>4, <3>1
    <3>3. d.pc = "done" => d.offset = Len(seq)
      BY <1>4, <1>5, <3>2
    <3>4. Whole(d, public, source, rows) = seq
      <4>1. Whole(d, public, source, rows) = Whole(c, public, source, rows)
        BY <1>3 DEF Whole
      <4> QED
        BY <1>3, <2>2, <4>1
    <3> QED
      BY <1>4, <3>2, <3>3, <3>4 DEF WalkOK
  <2> QED
    BY <2>1, <2>2
<1>10. LookupOK(d, source, files)
  BY <1>3 DEF LookupOK, Walks, ListTools, Validations
<1>11. GrowthOK(d, public)
  <2> SUFFICES ASSUME d.tool \in ListTools, ~d.shrunk
               PROVE  /\ d.start \subseteq Pool(d.tool, public)
                      /\ \A p \in d.start :
                            \/ p \in ToSet(d.got)
                            \/ d.pc = "ask" /\ Place(Pool(d.tool, public), OrderOf(d.tool), p) > d.offset
    BY DEF GrowthOK
  <2>1. PICK tool \in ListTools : tool = c.tool
    BY <1>3
  <2>2. PICK S : S = Pool(tool, public)
    OBVIOUS
  <2>3. PICK R : R = OrderOf(tool)
    OBVIOUS
  <2>4. /\ c.start \subseteq S
        /\ \A p \in c.start : p \in ToSet(c.got) \/ Place(S, R, p) > c.offset
    BY <1>3, <1>6, <2>1, <2>2, <2>3 DEF GrowthOK
  <2>5. seq = Ordered(S, R) /\ IsFiniteSet(S) /\ TotalOrder(R, S)
    BY <1>6, <2>1, <2>2, <2>3, PoolFacts DEF Listing
  <2>6. \A p \in S : Place(S, R, p) \in 1 .. Len(seq) /\ seq[Place(S, R, p)] = p
    BY <2>5, OrderedFacts, OrderedSeq
  <2>7. ASSUME NEW p \in c.start, p \notin ToSet(d.got) PROVE d.pc = "ask" /\ Place(S, R, p) > d.offset
    <3>1. p \in S /\ Place(S, R, p) > c.offset
      BY <1>4, <2>4, <2>7
    <3>2. Place(S, R, p) \in 1 .. Len(seq) /\ seq[Place(S, R, p)] = p
      BY <2>6, <3>1
    <3>3. ~(Place(S, R, p) <= d.offset)
      BY <1>4, <2>7, <3>1, <3>2
    <3> QED
      BY <1>4, <1>5, <3>2, <3>3
  <2> QED
    BY <1>3, <2>1, <2>2, <2>3, <2>4, <2>7
<1> QED
  BY <1>1, <1>3, <1>7, <1>8, <1>9, <1>10, <1>11 DEF CallInv, Unmoved

(* Between two writers the whole answer of a quiet call is as it should be. *)
LEMMA QuietWhole ==
  ASSUME IInv, NEW c, c.tool \in Walks, writer.pc = "idle"
  PROVE  /\ Whole(c, public, source, rows) \in Seq(AllPages)
         /\ ToSet(Whole(c, public, source, rows)) = Asked(c, public, source, rows)
         /\ Distinct(Whole(c, public, source, rows), 1 .. Len(Whole(c, public, source, rows)))
<1>1. /\ public \in SUBSET SourcePages /\ OneEach(public)
      /\ rows \in Seq(SourcePages) /\ Distinct(rows, 1 .. Len(rows))
      /\ source \in Sources /\ source.len <= Len(source.slots) /\ Distinct(source.slots, 1 .. source.len)
  BY DEF IInv, SystemInv, CopiesInv, SourceOK, InPlay
<1> QED
  BY <1>1, WholeFacts

(* A call begins a walk.                                                   *)
LEMMA AskListStep ==
  ASSUME IInv, NEW tool \in Walks, NEW limit \in Limits, NEW lang \in Langs \cup {Nothing},
         AskList(tool, limit, lang)
  PROVE  CallInv'
<1>1. PICK d : d = call'
  OBVIOUS
<1>2. PICK q \in BOOLEAN : q = (writer.pc = "idle")
  OBVIOUS
<1>3. PICK S : S = IF tool \in ListTools THEN Pool(tool, public) ELSE {}
  OBVIOUS
<1>4. public \in SUBSET SourcePages /\ OneEach(public)
  BY DEF IInv, SystemInv, CopiesInv
<1>5. S \subseteq AllPages
  BY <1>3, <1>4, PoolFacts
<1>6. limit \in Nat
  BY SiteQueriesAssumption
<1>7. d = [Resting EXCEPT !.pc = "ask", !.tool = tool, !.limit = limit, !.lang = lang,
                          !.quiet = q, !.start = S]
  BY <1>1, <1>2, <1>3 DEF AskList
<1>8. /\ d.pc = "ask" /\ d.tool = tool /\ d.offset = 0 /\ d.got = <<>> /\ d.hits = <<>> /\ d.array = <<>>
      /\ d.quiet = q /\ d.start = S /\ d.total = 0
  BY <1>7 DEF Resting
<1>9. d \in Calls
  BY <1>5, <1>6, <1>7, RestingIsACall DEF Calls, CallPcs
<1>10. QuietOK(d, writer) /\ PhaseOK(d, source) /\ LookupOK(d, source, files)
  BY <1>2, <1>8 DEF QuietOK, PhaseOK, LookupOK
<1>11. WalkOK(d, public, source, rows)
  <2>1. CASE ~q
    BY <1>8, <1>9, <2>1, UnquietOK
  <2>2. CASE q
    <3>1. Whole(d, public, source, rows) \in Seq(AllPages)
      BY <1>2, <1>8, <2>2, QuietWhole
    <3>2. PICK W : W = Whole(d, public, source, rows)
      OBVIOUS
    <3>3. Len(W) \in Nat
      BY <3>1, <3>2, LenProperties
    <3>4. SubSeq(W, 1, 0) = <<>>
      BY SubSeqEmpty
    <3> QED
      BY <1>8, <3>2, <3>3, <3>4 DEF WalkOK
  <2> QED
    BY <2>1, <2>2
<1>12. GrowthOK(d, public)
  <2> SUFFICES ASSUME tool \in ListTools, NEW p \in S
               PROVE  Place(Pool(tool, public), OrderOf(tool), p) > 0
    BY <1>3, <1>8 DEF GrowthOK
  <2>1. Pool(tool, public) = S /\ IsFiniteSet(S) /\ TotalOrder(OrderOf(tool), S)
    BY <1>3, <1>4, PoolFacts
  <2> QED
    BY <2>1, OrderedFacts
<1>13. UNCHANGED <<files, source, writer, public, rows>>
  BY DEF AskList
<1> QED
  BY <1>1, <1>9, <1>10, <1>11, <1>12, <1>13 DEF CallInv

(* A page of a list.                                                       *)
LEMMA AnswerListStep ==
  ASSUME IInv, AnswerList
  PROVE  CallInv'
<1>1. PICK c \in Calls : c = call
  BY DEF IInv, CallInv
<1>2. c.pc = "ask" /\ c.tool \in ListTools
  BY <1>1 DEF AnswerList
<1>3. PICK seq : seq = Listing(c.tool, public)
  OBVIOUS
<1>4. public \in SUBSET SourcePages /\ OneEach(public)
  BY DEF IInv, SystemInv, CopiesInv
<1>5. seq \in Seq(AllPages)
  BY <1>2, <1>3, <1>4, ListingFacts
<1>6. Whole(c, public, source, rows) = seq
  BY <1>2, <1>3 DEF Whole, ListTools
<1>7. call' = Told(seq) /\ Unmoved
  BY <1>1, <1>3 DEF AnswerList, Unmoved
<1> QED
  BY <1>1, <1>2, <1>3, <1>5, <1>6, <1>7, ToldStep DEF Walks

(* search_content has asked the table,                                     *)
LEMMA AskRowsStep ==
  ASSUME IInv, AskRows
  PROVE  CallInv'
<1>1. PICK c \in Calls : c = call
  BY DEF IInv, CallInv
<1>2. PICK d : d = call'
  OBVIOUS
<1>3. c.pc = "ask" /\ c.tool = "search_content"
  BY <1>1 DEF AskRows
<1>4. PICK h : h = Hits(rows)
  OBVIOUS
<1>5. h \in Seq(SourcePages)
  <2>1. rows \in Seq(SourcePages)
    BY DEF IInv, SystemInv, CopiesInv
  <2>2. Distinct(rows, 1 .. Len(rows))
    BY DEF IInv, SystemInv, CopiesInv
  <2> QED
    BY <1>4, <2>1, <2>2, HitsFacts
<1>6. /\ QuietOK(c, writer) /\ WalkOK(c, public, source, rows)
  BY <1>1 DEF IInv, CallInv
<1>7. Unmoved
  BY DEF AskRows, Unmoved
<1>8. CASE d = [c EXCEPT !.quiet = FALSE, !.pc = "look up"]
  <2>1. d \in Calls /\ ~d.quiet /\ d.pc = "look up" /\ d.tool = "search_content"
    BY <1>3, <1>8 DEF Calls, CallPcs
  <2>2. PhaseOK(d, source) /\ GrowthOK(d, public)
    BY <2>1 DEF PhaseOK, GrowthOK, ListTools
  <2> QED
    BY <1>2, <1>7, <2>1, <2>2, UnquietOK DEF CallInv, Unmoved
<1>9. CASE d = [c EXCEPT !.hits = h, !.pc = "look up"]
  <2>1. /\ d \in Calls /\ d.pc = "look up" /\ d.tool = "search_content" /\ d.hits = h
        /\ d.quiet = c.quiet /\ d.array = c.array /\ d.offset = c.offset /\ d.got = c.got /\ d.lang = c.lang
    BY <1>3, <1>5, <1>9 DEF Calls, CallPcs
  <2>2. PhaseOK(d, source) /\ GrowthOK(d, public) /\ LookupOK(d, source, files) /\ QuietOK(d, writer)
    BY <1>3, <1>6, <2>1 DEF PhaseOK, GrowthOK, ListTools, LookupOK, QuietOK
  <2>3. Whole(d, public, source, rows) = Whole(c, public, source, rows)
    BY <1>3, <2>1 DEF Whole
  <2>4. WalkOK(d, public, source, rows)
    BY <1>3, <1>4, <1>6, <2>1, <2>3 DEF WalkOK, Walks
  <2> QED
    BY <1>2, <1>7, <2>1, <2>2, <2>4 DEF CallInv, Unmoved
<1> QED
  BY <1>1, <1>2, <1>4, <1>8, <1>9 DEF AskRows

(* and looks its hits up.                                                  *)
LEMMA AnswerSearchStep ==
  ASSUME IInv, AnswerSearch
  PROVE  CallInv'
<1>1. PICK c \in Calls : c = call
  BY DEF IInv, CallInv
<1>2. c.pc = "look up" /\ c.tool = "search_content"
  BY <1>1 DEF AnswerSearch, IInv, CallInv, PhaseOK
<1>3. PICK seq : seq = IF c.hits # <<>> THEN Found(c.hits, public, c.lang) ELSE Scanned(public, c.lang)
  OBVIOUS
<1>4. public \in SUBSET SourcePages /\ OneEach(public) /\ WalkOK(c, public, source, rows)
  BY <1>1 DEF IInv, SystemInv, CopiesInv, CallInv
<1>5. seq \in Seq(AllPages)
  BY <1>3, <1>4, CallFields, FoundFacts, ScannedFacts
<1>6. c.quiet => Whole(c, public, source, rows) = seq
  <2>1. c.quiet => c.hits = Hits(rows)
    BY <1>2, <1>4 DEF WalkOK, Walks
  <2> QED
    BY <1>2, <1>3, <2>1 DEF Whole, ListTools
<1>7. call' = Told(seq) /\ Unmoved
  BY <1>1, <1>3 DEF AnswerSearch, Unmoved
<1> QED
  BY <1>1, <1>2, <1>5, <1>6, <1>7, ToldStep DEF Walks, ListTools

(* A copy that is one slot longer.                                         *)
LEMMA SubSeqLonger ==
  ASSUME NEW T, NEW seq \in Seq(T), NEW n \in Nat, n < Len(seq)
  PROVE  Append(SubSeq(seq, 1, n), seq[n + 1]) = SubSeq(seq, 1, n + 1)
<1>1. Len(seq) \in Nat /\ n + 1 \in 1 .. Len(seq) /\ 1 \in 1 .. Len(seq)
  BY LenProperties
<1>2. SubSeq(seq, 1, n + 1) = SubSeq(seq, 1, n + 1 - 1) \o <<seq[n + 1]>>
  BY <1>1, SubSeqRecursiveSecond
<1>3. n + 1 - 1 = n
  OBVIOUS
<1>4. PICK s \in Seq(T) : s = SubSeq(seq, 1, n)
  <2>1. \A i \in 1 .. n : seq[i] \in T
    BY <1>1, ElementOfSeq
  <2>2. 1 \in Int /\ n \in Int
    OBVIOUS
  <2> QED
    BY <2>1, <2>2, SubSeqProperties
<1>5. seq[n + 1] \in T
  BY <1>1, ElementOfSeq
<1>6. Append(s, seq[n + 1]) = s \o <<seq[n + 1]>>
  BY <1>4, <1>5, AppendIsConcat
<1> QED
  BY <1>2, <1>3, <1>4, <1>6

(* validate_site takes the length of the array,                            *)
LEMMA StartCopyStep ==
  ASSUME IInv, StartCopy
  PROVE  CallInv'
<1>1. PICK c \in Calls : c = call
  BY DEF IInv, CallInv
<1>2. PICK d : d = call'
  OBVIOUS
<1>3. c.pc = "ask" /\ c.tool \in Validations /\ Unmoved
  BY <1>1 DEF StartCopy, Unmoved
<1>4. source \in Sources /\ source.len <= Len(source.slots) /\ source.len \in Nat
  BY SourceFields DEF IInv, SystemInv, SourceOK
<1>5. QuietOK(c, writer) /\ WalkOK(c, public, source, rows)
  BY <1>1 DEF IInv, CallInv
<1>6. PICK n \in Nat : n = source.len
  BY <1>4
<1>7. d = [c EXCEPT !.pc = "copy", !.total = n, !.hits = <<>>, !.array = <<>>]
  BY <1>1, <1>2, <1>6 DEF StartCopy
<1>8. /\ d \in Calls /\ d.pc = "copy" /\ d.tool = c.tool /\ d.total = n /\ d.hits = <<>> /\ d.array = <<>>
      /\ d.quiet = c.quiet /\ d.offset = c.offset /\ d.got = c.got /\ d.lang = c.lang
  <2>1. <<>> \in Seq(SourcePages)
    OBVIOUS
  <2> QED
    BY <1>7, <2>1 DEF Calls, CallPcs
<1>9. QuietOK(d, writer) /\ LookupOK(d, source, files) /\ GrowthOK(d, public)
  BY <1>3, <1>5, <1>8 DEF QuietOK, LookupOK, GrowthOK, Validations, ListTools
<1>10. PhaseOK(d, source)
  BY <1>3, <1>4, <1>6, <1>8 DEF PhaseOK
<1>11. WalkOK(d, public, source, rows)
  <2>1. Whole(d, public, source, rows) = Whole(c, public, source, rows)
    BY <1>3, <1>8 DEF Whole
  <2>2. d.hits = SubSeq(source.slots, 1, Len(d.hits))
    BY <1>8, SubSeqEmpty
  <2> QED
    BY <1>3, <1>5, <1>6, <1>8, <2>1, <2>2 DEF WalkOK, Walks
<1> QED
  BY <1>2, <1>3, <1>8, <1>9, <1>10, <1>11 DEF CallInv, Unmoved

(* copies it slot by slot,                                                 *)
LEMMA CopySlotStep ==
  ASSUME IInv, CopySlot
  PROVE  CallInv'
<1>1. PICK c \in Calls : c = call
  BY DEF IInv, CallInv
<1>2. PICK d : d = call'
  OBVIOUS
<1>3. PICK array : array = IF c.array = <<>> THEN source.slots ELSE c.array
  OBVIOUS
<1>4. PICK n : n = Len(c.hits)
  OBVIOUS
<1>5. c.pc = "copy" /\ n < c.total /\ Unmoved /\ d = [c EXCEPT !.hits = Append(c.hits, array[n + 1])]
  BY <1>1, <1>2, <1>3, <1>4 DEF CopySlot, Unmoved
<1>6. /\ QuietOK(c, writer) /\ WalkOK(c, public, source, rows) /\ PhaseOK(c, source)
      /\ source \in Sources /\ source.len <= Len(source.slots)
  BY <1>1 DEF IInv, CallInv, SystemInv, SourceOK
<1>7. array \in Seq(SourcePages) /\ c.total <= Len(array)
  BY <1>3, <1>5, <1>6, CallFields, SourceFields DEF PhaseOK
<1>8. c.tool \in Validations
  BY <1>5, <1>6 DEF PhaseOK
<1>9. n \in Nat /\ c.total \in Nat /\ Len(array) \in Nat /\ c.hits \in Seq(SourcePages)
  BY <1>4, <1>7, CallFields, LenProperties
<1>10. n + 1 \in 1 .. Len(array) /\ n + 1 <= c.total
  BY <1>5, <1>7, <1>9
<1>11. PICK x \in SourcePages : x = array[n + 1]
  BY <1>7, <1>10, ElementOfSeq
<1>12. PICK h : h = Append(c.hits, x)
  OBVIOUS
<1>13. d = [c EXCEPT !.hits = h] /\ h \in Seq(SourcePages) /\ Len(h) = n + 1
  <2>1. h \in Seq(SourcePages) /\ Len(h) = n + 1
    BY <1>4, <1>9, <1>12, AppendProperties
  <2> QED
    BY <1>5, <1>11, <1>12, <2>1
<1>14. /\ d \in Calls /\ d.pc = "copy" /\ d.tool = c.tool /\ d.total = c.total /\ d.hits = h
       /\ d.array = c.array /\ d.quiet = c.quiet /\ d.offset = c.offset /\ d.got = c.got /\ d.lang = c.lang
  BY <1>5, <1>13 DEF Calls
<1>15. QuietOK(d, writer) /\ LookupOK(d, source, files) /\ GrowthOK(d, public)
  BY <1>5, <1>6, <1>8, <1>14 DEF QuietOK, LookupOK, GrowthOK, Validations, ListTools
<1>16. PhaseOK(d, source)
  BY <1>5, <1>6, <1>8, <1>10, <1>13, <1>14 DEF PhaseOK
<1>17. WalkOK(d, public, source, rows)
  <2>1. Whole(d, public, source, rows) = Whole(c, public, source, rows)
    BY <1>14 DEF Whole
  <2>2. ASSUME c.quiet PROVE h = SubSeq(source.slots, 1, Len(h))
    <3>1. array = source.slots
      BY <1>3, <1>5, <1>6, <2>2 DEF QuietOK
    <3>2. c.hits = SubSeq(array, 1, n)
      BY <1>4, <1>5, <1>6, <1>8, <2>2, <3>1 DEF WalkOK, Walks
    <3>3. n < Len(array)
      BY <1>9, <1>10
    <3> QED
      BY <1>7, <1>9, <1>11, <1>12, <1>13, <3>1, <3>2, <3>3, SubSeqLonger
  <2> QED
    BY <1>5, <1>6, <1>8, <1>14, <2>1, <2>2 DEF WalkOK, Walks
<1> QED
  BY <1>2, <1>5, <1>14, <1>15, <1>16, <1>17 DEF CallInv, Unmoved

(* and answers from its copy.                                              *)
LEMMA AnswerValidationStep ==
  ASSUME IInv, AnswerValidation
  PROVE  CallInv'
<1>1. PICK c \in Calls : c = call
  BY DEF IInv, CallInv
<1>2. c.pc = "copy" /\ Len(c.hits) = c.total /\ Unmoved
  BY <1>1 DEF AnswerValidation, Unmoved
<1>3. PhaseOK(c, source) /\ WalkOK(c, public, source, rows)
  BY <1>1 DEF IInv, CallInv
<1>4. c.tool \in Validations
  BY <1>2, <1>3 DEF PhaseOK
<1>5. PICK seq : seq = IF c.tool = "invalid_only" THEN Those(c.hits, Invalid) ELSE c.hits
  OBVIOUS
<1>6. c.hits \in Seq(SourcePages)
  BY CallFields
<1>7. seq \in Seq(AllPages)
  <2>1. SourcePages \subseteq AllPages /\ SourcePages \cap Invalid \subseteq AllPages
    BY DEF AllPages
  <2>2. c.hits \in Seq(AllPages)
    BY <1>6, <2>1, SeqMonotonic
  <2>3. Those(c.hits, Invalid) \in Seq(SourcePages \cap Invalid)
    BY <1>6, ThoseFacts
  <2>4. Those(c.hits, Invalid) \in Seq(AllPages)
    BY <2>1, <2>3, SeqMonotonic
  <2> QED
    BY <1>5, <2>2, <2>4
<1>8. c.quiet => Whole(c, public, source, rows) = seq
  <2>1. c.quiet => c.hits = Used(source)
    BY <1>2, <1>3, <1>4 DEF WalkOK, Walks, Used
  <2> QED
    BY <1>4, <1>5, <2>1 DEF Whole, Validations, ListTools
<1>9. call' = Told(seq)
  BY <1>1, <1>5 DEF AnswerValidation
<1> QED
  BY <1>1, <1>2, <1>4, <1>7, <1>8, <1>9, ToldStep DEF Walks, ListTools, Validations

(* A finite set as a sequence.                                             *)
LEMMA SetToSeqFacts ==
  ASSUME NEW S, IsFiniteSet(S)
  PROVE  SetToSeq(S) \in Seq(S) /\ \A x : S = {x} => SetToSeq(S) = <<x>>
<1>1. PICK n \in Nat : n = Cardinality(S)
  BY FS_CardinalityType
<1>2. \E f \in [1 .. n -> S] : IsInjective(f)
  <2>1. PICK f : f \in Bijection(1 .. n, S)
    BY <1>1, FS_CardinalityType DEF ExistsBijection
  <2>2. f \in [1 .. n -> S] /\ IsInjective(f)
    BY <2>1 DEF Bijection, Injection
  <2> QED
    BY <2>2
<1>3. PICK q : q = SetToSeq(S)
  OBVIOUS
<1>4. q \in [1 .. n -> S]
  BY <1>1, <1>2, <1>3 DEF SetToSeq
<1>5. q \in Seq(S) /\ Len(q) = n
  BY <1>4, LenFun
<1>6. ASSUME NEW x, S = {x} PROVE q = <<x>>
  <2>1. n = 1
    BY <1>1, <1>6, FS_Singleton
  <2>2. q \in [1 .. 1 -> {x}]
    BY <1>4, <1>6, <2>1
  <2> QED
    BY <2>2
<1> QED
  BY <1>3, <1>5, <1>6

(* get_page_for_edit begins,                                               *)
LEMMA AskPageStep ==
  ASSUME IInv, NEW s \in SlugsOf(Start), AskPage(s)
  PROVE  CallInv'
<1>1. PICK d : d = call'
  OBVIOUS
<1>2. PICK q \in BOOLEAN : q = (writer.pc = "idle")
  OBVIOUS
<1>3. s \in Nat
  <2>1. PICK i \in DOMAIN Start : s = Start[i].slug
    BY DEF SlugsOf
  <2>2. Start[i] \in SourcePages
    BY <2>1, SiteQueriesAssumption, ElementOfSeq, LenProperties
  <2> QED
    BY <2>1, <2>2, SiteQueriesAssumption
<1>4. d = [Resting EXCEPT !.pc = "ask", !.tool = "get_page_for_edit", !.slug = s, !.quiet = q]
  BY <1>1, <1>2 DEF AskPage
<1>5. /\ d.pc = "ask" /\ d.tool = "get_page_for_edit" /\ d.got = <<>> /\ d.hits = <<>> /\ d.array = <<>>
      /\ d.quiet = q
  BY <1>4 DEF Resting
<1>6. d \in Calls
  BY <1>3, <1>4, RestingIsACall DEF Calls, CallPcs
<1>7. /\ QuietOK(d, writer) /\ PhaseOK(d, source) /\ LookupOK(d, source, files)
      /\ WalkOK(d, public, source, rows) /\ GrowthOK(d, public)
  BY <1>2, <1>5 DEF QuietOK, PhaseOK, LookupOK, WalkOK, GrowthOK, Walks, Validations, ListTools
<1>8. Unmoved
  BY DEF AskPage, Unmoved
<1> QED
  BY <1>1, <1>6, <1>7, <1>8 DEF CallInv, Unmoved

(* A lookup goes on: no walk and no list is about it.                       *)
LEMMA LookupGoesOn ==
  ASSUME IInv, Unmoved, NEW d \in Calls, d = call', d.tool = "get_page_for_edit",
         d.pc \in {"slot", "revision", "done"}, d.quiet = call.quiet, d.array = call.array, call.pc # "idle",
         d.pc = "slot" => d.total # 0,
         d.quiet => LookupOK(d, source, files)
  PROVE  CallInv'
<1>1. QuietOK(call, writer)
  BY DEF IInv, CallInv
<1>2. QuietOK(d, writer)
  BY <1>1 DEF QuietOK
<1>3. PhaseOK(d, source) /\ WalkOK(d, public, source, rows) /\ GrowthOK(d, public)
  BY DEF PhaseOK, WalkOK, GrowthOK, Walks, Validations, ListTools
<1>4. LookupOK(d, source, files)
  BY DEF LookupOK
<1> QED
  BY <1>2, <1>3, <1>4 DEF CallInv, Unmoved

(* What a quiet lookup reads is in order.                                   *)
LEMMA QuietSource ==
  ASSUME IInv, NEW c, c = call, c.pc # "idle", c.quiet
  PROVE  MappedTo(source, source.len) /\ LookupOK(c, source, files)
<1>1. writer.pc = "idle"
  BY DEF IInv, CallInv, QuietOK
<1> QED
  BY <1>1 DEF IInv, SystemInv, SourceOK, Settled, CallInv

(* asks the map,                                                           *)
LEMMA FindSlotStep ==
  ASSUME IInv, FindSlot
  PROVE  CallInv'
<1>1. PICK c \in Calls : c = call
  BY DEF IInv, CallInv
<1>2. PICK d : d = call'
  OBVIOUS
<1>3. c.pc = "ask" /\ c.tool = "get_page_for_edit" /\ Unmoved
  BY <1>1 DEF FindSlot, Unmoved
<1>4. c.quiet => c.got = <<>> /\ c.hits = <<>>
  BY <1>1, <1>3, QuietSource DEF LookupOK
<1>5. CASE c.slug \in DOMAIN source.at
  <2>1. PICK n : n = source.at[c.slug]
    OBVIOUS
  <2>2. n \in Nat \ {0}
    <3>1. source \in Sources /\ source.len <= Len(source.slots)
      BY DEF IInv, SystemInv, SourceOK
    <3> QED
      BY <1>5, <2>1, <3>1, SourceFields
  <2>3. d = [c EXCEPT !.total = n, !.pc = "slot"]
    BY <1>1, <1>2, <1>5, <2>1 DEF FindSlot
  <2>4. /\ d \in Calls /\ d.tool = c.tool /\ d.pc = "slot" /\ d.total = n /\ d.slug = c.slug
        /\ d.quiet = c.quiet /\ d.array = c.array
    BY <2>2, <2>3 DEF Calls, CallPcs
  <2>5. LookupOK(d, source, files)
    BY <1>5, <2>1, <2>4 DEF LookupOK
  <2> QED
    BY <1>1, <1>2, <1>3, <2>2, <2>4, <2>5, LookupGoesOn
<1>6. CASE c.slug \notin DOMAIN source.at
  <2>1. d = [c EXCEPT !.pc = "done"]
    BY <1>1, <1>2, <1>6 DEF FindSlot
  <2>2. /\ d \in Calls /\ d.tool = c.tool /\ d.pc = "done" /\ d.slug = c.slug
        /\ d.quiet = c.quiet /\ d.array = c.array /\ d.got = c.got /\ d.hits = c.hits
    BY <2>1 DEF Calls, CallPcs
  <2>3. d.quiet => LookupOK(d, source, files)
    BY <1>4, <1>6, <2>2 DEF LookupOK
  <2> QED
    BY <1>1, <1>2, <1>3, <2>2, <2>3, LookupGoesOn
<1> QED
  BY <1>5, <1>6

(* reads the slot,                                                         *)
LEMMA ReadSlotStep ==
  ASSUME IInv, ReadSlot
  PROVE  CallInv'
<1>1. PICK c \in Calls : c = call
  BY DEF IInv, CallInv
<1>2. PICK d : d = call'
  OBVIOUS
<1>3. c.pc = "slot" /\ Unmoved /\ c.tool = "get_page_for_edit" /\ c.total # 0
  BY <1>1 DEF ReadSlot, Unmoved, IInv, CallInv, PhaseOK
<1>4. ASSUME c.quiet
      PROVE  c.slug \in DOMAIN source.at /\ c.total = source.at[c.slug] /\ c.total <= source.len
  <2>1. MappedTo(source, source.len) /\ LookupOK(c, source, files)
    BY <1>1, <1>3, <1>4, QuietSource
  <2>2. c.slug \in DOMAIN source.at /\ c.total = source.at[c.slug]
    BY <1>3, <1>4, <2>1 DEF LookupOK
  <2> QED
    BY <2>1, <2>2 DEF MappedTo
<1>5. c.total \in Nat
  BY CallFields
<1>6. CASE c.total <= source.len
  <2>1. source.slots[c.total] \in SourcePages
    <3>1. source \in Sources /\ source.len <= Len(source.slots)
      BY DEF IInv, SystemInv, SourceOK
    <3>2. source.len \in Nat /\ c.total \in 1 .. source.len
      BY <1>3, <1>5, <1>6, <3>1, SourceFields
    <3> QED
      BY <3>1, <3>2, SourceFields
  <2>2. PICK g \in Seq(AllPages) : g = <<source.slots[c.total]>>
    <3>1. PICK x \in AllPages : x = source.slots[c.total]
      BY <2>1 DEF AllPages
    <3>2. <<x>> \in Seq(AllPages)
      OBVIOUS
    <3> QED
      BY <3>1, <3>2
  <2>3. d = [c EXCEPT !.pc = "revision", !.got = g]
    BY <1>1, <1>2, <1>6, <2>2 DEF ReadSlot
  <2>4. /\ d \in Calls /\ d.tool = c.tool /\ d.pc = "revision" /\ d.got = g /\ d.slug = c.slug
        /\ d.quiet = c.quiet /\ d.array = c.array
    BY <2>3 DEF Calls, CallPcs
  <2>5. d.quiet => LookupOK(d, source, files)
    BY <1>4, <2>2, <2>4 DEF LookupOK
  <2> QED
    BY <1>1, <1>2, <1>3, <2>4, <2>5, LookupGoesOn
<1>7. CASE ~(c.total <= source.len)
  <2>1. d = [c EXCEPT !.pc = "done"]
    BY <1>1, <1>2, <1>7 DEF ReadSlot
  <2>2. d \in Calls /\ d.tool = c.tool /\ d.pc = "done" /\ d.quiet = c.quiet /\ d.array = c.array
    BY <2>1 DEF Calls, CallPcs
  <2>3. ~c.quiet
    BY <1>4, <1>7
  <2> QED
    BY <1>1, <1>2, <1>3, <2>2, <2>3, LookupGoesOn
<1> QED
  BY <1>6, <1>7

(* and the revision of the file.                                           *)
LEMMA ReadRevisionStep ==
  ASSUME IInv, ReadRevision
  PROVE  CallInv'
<1>1. PICK c \in Calls : c = call
  BY DEF IInv, CallInv
<1>2. PICK d : d = call'
  OBVIOUS
<1>3. c.pc = "revision" /\ Unmoved /\ c.tool = "get_page_for_edit"
  BY <1>1 DEF ReadRevision, Unmoved, IInv, CallInv, PhaseOK
<1>4. PICK h : h = SetToSeq(FileOf(c.got[1].slug))
  OBVIOUS
<1>5. h \in Seq(SourcePages)
  <2>1. PICK F : F = FileOf(c.got[1].slug)
    OBVIOUS
  <2>2. F \in SUBSET SourcePages
    <3>1. files \subseteq SourcePages
      BY DEF IInv, SystemInv, CopiesInv
    <3>2. F \subseteq files
      BY <2>1 DEF FileOf
    <3> QED
      BY <3>1, <3>2
  <2>3. IsFiniteSet(F)
    BY <2>2, SiteQueriesAssumption, FS_Subset
  <2>4. h \in Seq(F)
    BY <1>4, <2>1, <2>3, SetToSeqFacts
  <2> QED
    BY <2>2, <2>4, SeqMonotonic
<1>6. d = [c EXCEPT !.pc = "done", !.hits = h]
  BY <1>1, <1>2, <1>4 DEF ReadRevision
<1>7. /\ d \in Calls /\ d.tool = c.tool /\ d.pc = "done" /\ d.hits = h /\ d.slug = c.slug
      /\ d.quiet = c.quiet /\ d.array = c.array /\ d.got = c.got
  BY <1>5, <1>6 DEF Calls, CallPcs
<1>8. ASSUME c.quiet PROVE LookupOK(d, source, files)
  <2>1. MappedTo(source, source.len) /\ LookupOK(c, source, files)
    BY <1>1, <1>3, <1>8, QuietSource
  <2>2. c.slug \in DOMAIN source.at /\ c.got = <<source.slots[source.at[c.slug]]>>
    BY <1>3, <1>8, <2>1 DEF LookupOK
  <2>3. c.got[1].slug = c.slug
    BY <2>1, <2>2 DEF MappedTo
  <2>4. h = SetToSeq({p \in files : p.slug = c.slug})
    BY <1>4, <2>3 DEF FileOf
  <2> QED
    BY <1>7, <2>2, <2>4 DEF LookupOK
<1> QED
  BY <1>1, <1>2, <1>3, <1>7, <1>8, LookupGoesOn

(* A call ends.                                                            *)
LEMMA RestStep ==
  ASSUME IInv, call' = Resting
  PROVE  CallInv'
  BY RestingIsACall, RestingOK DEF CallInv

(* A call that nothing happens to.                                         *)
LEMMA CallKept ==
  ASSUME IInv, Unmoved, call' = call
  PROVE  CallInv'
  BY DEF IInv, CallInv, Unmoved

(* Whatever the agent asks, and whatever a writer does beside it.           *)
LEMMA CallStep ==
  ASSUME IInv, SystemInv', [QueriesNext]_queriesVars
  PROVE  CallInv'
<1>1. CASE Editing
  BY <1>1, WritersStep DEF Editing
<1>2. CASE Building
  BY <1>2, WritersStep, ReloadCallStep DEF Building
<1>3. CASE Reading
  <2>1. ASSUME NEW tool \in Walks, NEW limit \in Limits, NEW lang \in Langs \cup {Nothing},
               AskList(tool, limit, lang)
        PROVE  CallInv'
    BY <2>1, AskListStep
  <2>2. CASE \E limit \in Limits, tool \in ListTools \cup Validations : AskList(tool, limit, Nothing)
    BY <2>1, <2>2 DEF Walks
  <2>3. CASE \E limit \in Limits, lang \in Langs \cup {Nothing} : AskList("search_content", limit, lang)
    BY <2>1, <2>3 DEF Walks
  <2>4. CASE \E s \in SlugsOf(Start) : AskPage(s)
    BY <2>4, AskPageStep
  <2>5. CASE AnswerList \/ AskRows \/ AnswerSearch
    BY <2>5, AnswerListStep, AskRowsStep, AnswerSearchStep
  <2>6. CASE StartCopy \/ CopySlot \/ AnswerValidation
    BY <2>6, StartCopyStep, CopySlotStep, AnswerValidationStep
  <2>7. CASE FindSlot \/ ReadSlot \/ ReadRevision
    BY <2>7, FindSlotStep, ReadSlotStep, ReadRevisionStep
  <2>8. CASE MapFault
    BY <2>8, CallKept DEF MapFault, Unmoved
  <2>9. CASE Hear \/ \E p \in SourcePages : UpdateWhatWasRead(p)
    BY <2>9, RestStep DEF Hear, UpdateWhatWasRead
  <2> QED
    BY <1>3, <2>2, <2>3, <2>4, <2>5, <2>6, <2>7, <2>8, <2>9 DEF Reading
<1>4. CASE UNCHANGED queriesVars
  BY <1>4, CallKept DEF queriesVars, Unmoved
<1> QED
  BY <1>1, <1>2, <1>3, <1>4 DEF QueriesNext

(* The array, its maps, the copies and the calls are always as the         *)
(* invariant says.                                                         *)
THEOREM QueriesInvariant == QueriesSpec => []IInv
<1>1. QueriesInit => IInv
  <2> SUFFICES ASSUME QueriesInit PROVE IInv
    OBVIOUS
  <2>1. call = Resting
    BY DEF QueriesInit
  <2> QED
    BY <2>1, SystemStart, RestingIsACall, RestingOK DEF IInv, CallInv
<1>2. IInv /\ [QueriesNext]_queriesVars => IInv'
  <2> SUFFICES ASSUME IInv, [QueriesNext]_queriesVars PROVE IInv'
    OBVIOUS
  <2>1. SystemInv'
    BY SystemStep DEF IInv
  <2> QED
    BY <2>1, CallStep DEF IInv
<1> QED
  BY <1>1, <1>2, PTL DEF QueriesSpec

-----------------------------------------------------------------------------
(* The properties *)
LEMMA DistinctCount ==
  ASSUME NEW T, NEW seq \in Seq(T), Distinct(seq, 1 .. Len(seq))
  PROVE  Cardinality(SlugsOf(seq)) = Len(seq)
<1>1. PICK n \in Nat : n = Len(seq) /\ DOMAIN seq = 1 .. n
  BY LenProperties
<1>2. PICK f : f = [i \in 1 .. n |-> seq[i].slug]
  OBVIOUS
<1>3. SlugsOf(seq) = {seq[i].slug : i \in 1 .. n}
  BY <1>1 DEF SlugsOf
<1>4. f \in [1 .. n -> SlugsOf(seq)] /\ \A i \in 1 .. n : f[i] = seq[i].slug
  BY <1>2, <1>3
<1>5. f \in Injection(1 .. n, SlugsOf(seq))
  BY <1>1, <1>4 DEF Distinct, Injection, IsInjective
<1>6. f \in Surjection(1 .. n, SlugsOf(seq))
  BY <1>3, <1>4 DEF Surjection
<1>7. ExistsBijection(1 .. n, SlugsOf(seq))
  BY <1>5, <1>6 DEF ExistsBijection, Bijection
<1> QED
  BY <1>1, <1>7, FS_CountingElements

(* A quiet walk was told the whole answer.                                 *)
LEMMA WalksAreExact ==
  ASSUME IInv
  PROVE  QuietWalksAreExact
<1>1. PICK c \in Calls : c = call
  BY DEF IInv, CallInv
<1> SUFFICES ASSUME c.pc = "done", c.tool \in Walks, c.quiet
             PROVE  Cardinality(SlugsOf(c.got)) = Len(c.got) /\ ToSet(c.got) = Wanted
  BY <1>1 DEF QuietWalksAreExact, Done, Walks
<1>2. PICK W : W = Whole(c, public, source, rows)
  OBVIOUS
<1>3. QuietOK(c, writer) /\ WalkOK(c, public, source, rows)
  BY <1>1 DEF IInv, CallInv
<1>4. writer.pc = "idle"
  BY <1>3 DEF QuietOK
<1>5. W \in Seq(AllPages) /\ ToSet(W) = Asked(c, public, source, rows) /\ Distinct(W, 1 .. Len(W))
  BY <1>2, <1>4, QuietWhole
<1>6. c.got = W
  <2>1. c.got = SubSeq(W, 1, Len(W))
    BY <1>2, <1>3 DEF WalkOK
  <2> QED
    BY <1>5, <2>1, SubSeqFull
<1>7. Asked(c, public, source, rows) = Wanted
  <2>1. ToSet(Used(source)) = Live
    BY DEF Used, Live, InUse
  <2> QED
    BY <1>1, <2>1 DEF Asked, Wanted
<1> QED
  BY <1>5, <1>6, <1>7, DistinctCount

(* At its end a walk has nothing ahead of it.                              *)
LEMMA GrowthIsSafe ==
  ASSUME IInv
  PROVE  GrowthSkipsNothing
<1>1. GrowthOK(call, public)
  BY DEF IInv, CallInv
<1> QED
  BY <1>1 DEF GrowthOK, GrowthSkipsNothing, Done

(* Walks miss no page, for any site, any limits and any sequence of edits,  *)
(* builds and failures.                                                     *)
THEOREM WalksAreComplete == QueriesSpec => []WalksMissNothing
<1>1. IInv => WalksMissNothing
  BY WalksAreExact, GrowthIsSafe DEF WalksMissNothing
<1> QED
  BY <1>1, QueriesInvariant, PTL

(* A quiet lookup found the position of its page, and the page there.      *)
LEMMA LookupsAreRight ==
  ASSUME IInv
  PROVE  QuietLookupsFindTheirPage
<1>1. PICK c \in Calls : c = call
  BY DEF IInv, CallInv
<1> SUFFICES ASSUME c.pc = "done", c.tool = "get_page_for_edit", c.quiet
             PROVE  /\ c.slug \in SlugsOf(InUse) <=> c.got # <<>>
                    /\ \A i \in DOMAIN c.got : c.got[i].slug = c.slug
                    /\ Live = files => c.hits = c.got
  BY <1>1 DEF QuietLookupsFindTheirPage, Done
<1>2. MappedTo(source, source.len) /\ LookupOK(c, source, files)
  BY <1>1, QuietSource
<1>3. QuietOK(c, writer) /\ SourceOK(source, writer)
  BY <1>1 DEF IInv, CallInv, SystemInv
<1>4. source \in Sources /\ source.len <= Len(source.slots) /\ Distinct(source.slots, 1 .. source.len)
  BY <1>3 DEF QuietOK, SourceOK, InPlay
<1>5. /\ InUse \in Seq(SourcePages) /\ DOMAIN InUse = 1 .. source.len
      /\ \A i \in 1 .. source.len : InUse[i] = source.slots[i]
      /\ OneEach(Live)
  BY <1>4, InUseFacts
<1>6. SlugsOf(InUse) = DOMAIN source.at
  BY <1>2, <1>5 DEF SlugsOf, MappedTo
<1>7. CASE c.slug \notin DOMAIN source.at
  <2>1. c.got = <<>> /\ c.hits = <<>>
    BY <1>2, <1>7 DEF LookupOK
  <2> QED
    BY <1>6, <1>7, <2>1
<1>8. CASE c.slug \in DOMAIN source.at
  <2>1. PICK x : x = source.slots[source.at[c.slug]]
    OBVIOUS
  <2>2. c.got = <<x>> /\ c.hits = SetToSeq({p \in files : p.slug = c.slug})
    BY <1>2, <1>8, <2>1 DEF LookupOK
  <2>3. x.slug = c.slug /\ x \in Live
    BY <1>2, <1>5, <1>8, <2>1 DEF MappedTo, Live, ToSet
  <2>4. ASSUME Live = files PROVE c.hits = <<x>>
    <3>1. {p \in files : p.slug = c.slug} = {x}
      BY <1>5, <2>3, <2>4 DEF OneEach
    <3>2. IsFiniteSet({x})
      BY FS_Singleton
    <3> QED
      BY <2>2, <3>1, <3>2, SetToSeqFacts
  <2> QED
    BY <1>6, <1>8, <2>2, <2>3, <2>4
<1> QED
  BY <1>7, <1>8

(* A lookup that no writer overlaps finds its page if there is one, and    *)
(* with the revision of its text unless an editor was there since the last *)
(* build.                                                                  *)
THEOREM LookupsFindTheirPages == QueriesSpec => []QuietLookupsFindTheirPage
<1>1. IInv => QuietLookupsFindTheirPage
  BY LookupsAreRight
<1> QED
  BY <1>1, QueriesInvariant, PTL

-----------------------------------------------------------------------------
(* One page for each bundle                                                 *)
(* Of each bundle the first page of a sequence is kept, so as many as there *)
(* are bundles.                                                             *)
LEMMA OnePerKeyCounts ==
  ASSUME NEW seq \in Seq(SourcePages)
  PROVE  /\ Filtered(seq, Nothing, TRUE) \in Seq(SourcePages)
         /\ Len(Filtered(seq, Nothing, TRUE)) = Cardinality({seq[i].key : i \in 1 .. Len(seq)})
<1>1. PICK n \in Nat : n = Len(seq) /\ DOMAIN seq = 1 .. n /\ \A i \in 1 .. n : seq[i] \in SourcePages
  BY LenProperties
<1>2. PICK at : at = {i \in 1 .. n : \A j \in 1 .. n : j < i => seq[j].key # seq[i].key}
  OBVIOUS
<1>3. PICK K : K = {seq[i].key : i \in 1 .. n}
  OBVIOUS
<1>4. Filtered(seq, Nothing, TRUE) = Picked(seq, at)
  <2>1. {i \in DOMAIN seq : InLang(seq[i], Nothing)} = 1 .. n
    BY <1>1 DEF InLang
  <2>2. at = {i \in 1 .. n : TRUE => \A j \in 1 .. n : j < i => seq[j].key # seq[i].key}
    BY <1>2
  <2> QED
    BY <2>1, <2>2 DEF Filtered
<1>5. at \in SUBSET (1 .. n) /\ at \in SUBSET Nat
  BY <1>2
<1>6. IsFiniteSet(at)
  <2>1. IsFiniteSet(1 .. n)
    BY FS_Interval
  <2> QED
    BY <1>5, <2>1, FS_Subset
<1>7. PICK f : f = [i \in at |-> seq[i].key]
  OBVIOUS
<1>8. f \in [at -> K] /\ \A i \in at : f[i] = seq[i].key
  BY <1>3, <1>5, <1>7
<1>9. f \in Injection(at, K)
  <2>1. ASSUME NEW i \in at, NEW j \in at, f[i] = f[j] PROVE i = j
    <3>1. i \in 1 .. n /\ j \in 1 .. n /\ seq[i].key = seq[j].key
      BY <1>5, <1>8, <2>1
    <3>2. ~(i < j) /\ ~(j < i)
      BY <1>2, <3>1
    <3> QED
      BY <3>1, <3>2
  <2> QED
    BY <1>8, <2>1 DEF Injection, IsInjective
<1>10. ASSUME NEW k \in K PROVE \E i \in at : f[i] = k
  <2>1. PICK B : B = {i \in 1 .. n : seq[i].key = k}
    OBVIOUS
  <2>2. IsFiniteSet(B) /\ B # {}
    <3>1. B \in SUBSET (1 .. n)
      BY <2>1
    <3>2. IsFiniteSet(B)
      <4>1. IsFiniteSet(1 .. n)
        BY FS_Interval
      <4> QED
        BY <3>1, <4>1, FS_Subset
    <3> QED
      BY <1>3, <2>1, <3>2
  <2>3. PICK R : R = {b \in B \X B : b[1] < b[2]}
    OBVIOUS
  <2>4. \A x, y \in B : <<x, y>> \in R <=> x < y
    BY <2>3
  <2>5. TotalOrder(R, B)
    BY <2>1, <2>4 DEF TotalOrder
  <2>6. Cardinality(B) \in Nat /\ Cardinality(B) # 0
    BY <2>2, FS_CardinalityType, FS_EmptySet
  <2>7. PICK i \in B : Place(B, R, i) = 1
    <3>1. 1 \in 1 .. Cardinality(B)
      BY <2>6
    <3> QED
      BY <2>2, <2>5, <3>1, Places
  <2>8. ASSUME NEW j \in B, j < i PROVE FALSE
    <3>1. Place(B, R, j) < Place(B, R, i)
      BY <2>2, <2>4, <2>5, <2>8, Places
    <3>2. Place(B, R, j) \in 1 .. Cardinality(B)
      BY <2>2, <2>5, Places
    <3> QED
      BY <2>6, <2>7, <3>1, <3>2
  <2>9. i \in at
    BY <1>2, <2>1, <2>8
  <2> QED
    BY <1>8, <2>1, <2>9
<1>11. f \in Surjection(at, K)
  BY <1>8, <1>10 DEF Surjection
<1>12. Cardinality(at) = Cardinality(K)
  BY <1>6, <1>9, <1>11, FS_Surjection
<1>13. PICK c \in Nat : c = Cardinality(at)
  BY <1>6, FS_CardinalityType
<1>14. Picked(seq, at) \in [1 .. c -> SourcePages]
  <2>1. PICK p : Picks(p, seq, at)
    BY <1>5, <1>6, PickedFacts
  <2>2. p \in [1 .. c -> at] /\ Picked(seq, at) = [k \in 1 .. c |-> seq[p[k]]]
    BY <1>13, <2>1 DEF Picks
  <2>3. \A k \in 1 .. c : seq[p[k]] \in SourcePages
    BY <1>1, <1>5, <2>2
  <2> QED
    BY <2>2, <2>3
<1>15. Picked(seq, at) \in Seq(SourcePages) /\ Len(Picked(seq, at)) = c
  BY <1>14, LenFun
<1> QED
  BY <1>1, <1>3, <1>4, <1>12, <1>13, <1>15

(* A product is not smaller if its first factor is not.                    *)
LEMMA FactorCancels ==
  ASSUME NEW a \in Nat, NEW b \in Nat, NEW h \in Nat \ {0}, a * h <= b * h
  PROVE  a <= b
<1> SUFFICES ASSUME b < a PROVE FALSE
  OBVIOUS
<1>1. PICK d \in Nat : a = b + 1 + d
  <2>1. a - b - 1 \in Nat /\ a = b + 1 + (a - b - 1)
    OBVIOUS
  <2> QED
    BY <2>1
<1>2. a * h = b * h + h + d * h
  BY <1>1
<1>3. d * h \in Nat /\ b * h \in Nat
  OBVIOUS
<1> QED
  BY <1>2, <1>3

(* A bundle has a page for each language at most, so the pages fetched are  *)
(* of as many bundles as were asked for, or all there are.                  *)
LEMMA CutFills ==
  ASSUME Cardinality(Langs) <= Headroom,
         NEW S \in SUBSET SourcePages, OneEach(S), NEW R, TotalOrder(R, S), NEW limit \in Limits
  PROVE  Len(Cut(Ordered(S, R), limit, Nothing, TRUE)) = Smaller(limit, Cardinality({p.key : p \in S}))
<1>1. IsFiniteSet(S)
  BY SiteQueriesAssumption, FS_Subset
<1>2. PICK seq : seq = Ordered(S, R)
  OBVIOUS
<1>3. seq \in Seq(S) /\ ToSet(seq) = S /\ Distinct(seq, 1 .. Len(seq))
  BY <1>1, <1>2, OrderedDistinct
<1>4. seq \in Seq(SourcePages) /\ Len(seq) \in Nat /\ DOMAIN seq = 1 .. Len(seq)
  <2>1. seq \in Seq(SourcePages)
    BY <1>3, SeqMonotonic
  <2> QED
    BY <2>1, LenProperties
<1>5. limit \in Nat \ {0} /\ Headroom \in Nat \ {0}
  BY SiteQueriesAssumption
<1>6. PICK N \in Nat : N = limit * Headroom
  BY <1>5
<1>7. PICK P : P = FirstOf(seq, N)
  OBVIOUS
<1>8. /\ P \in Seq(SourcePages) /\ Len(P) = Smaller(N, Len(seq))
      /\ \A i \in 1 .. Len(P) : i \in 1 .. Len(seq) /\ P[i] = seq[i]
      /\ Len(seq) <= N => P = seq
  BY <1>4, <1>7, FirstOfFacts
<1>9. PICK K : K = {P[i].key : i \in 1 .. Len(P)}
  OBVIOUS
<1>10. PICK A : A = {p.key : p \in S}
  OBVIOUS
<1>11. K \in SUBSET A
  BY <1>3, <1>4, <1>8, <1>9, <1>10 DEF ToSet
<1>12. IsFiniteSet(A) /\ IsFiniteSet(K) /\ Cardinality(K) <= Cardinality(A)
       /\ Cardinality(A) \in Nat /\ Cardinality(K) \in Nat
  <2>1. PICK f : f = [p \in S |-> p.key]
    OBVIOUS
  <2>2. f \in Surjection(S, A)
    BY <1>10, <2>1 DEF Surjection
  <2>3. IsFiniteSet(A)
    BY <1>1, <2>2, FS_Surjection
  <2> QED
    BY <1>11, <2>3, FS_Subset, FS_CardinalityType
<1>13. Len(Cut(seq, limit, Nothing, TRUE)) = Smaller(limit, Cardinality(K))
  <2>1. Cut(seq, limit, Nothing, TRUE) = FirstOf(Filtered(P, Nothing, TRUE), limit)
    BY <1>6, <1>7 DEF Cut, OverfetchLimit
  <2>2. PICK F \in Seq(SourcePages) : F = Filtered(P, Nothing, TRUE) /\ Len(F) = Cardinality(K)
    BY <1>8, <1>9, OnePerKeyCounts
  <2> QED
    BY <1>5, <2>1, <2>2, FirstOfFacts
<1>14. CASE Len(seq) <= N
  <2>1. P = seq
    BY <1>8, <1>14
  <2>2. K = A
    BY <1>3, <1>4, <1>9, <1>10, <2>1 DEF ToSet
  <2> QED
    BY <1>2, <1>10, <1>13, <2>2
<1>15. CASE N < Len(seq)
  <2>1. Len(P) = N
    BY <1>4, <1>8, <1>15 DEF Smaller
  <2>2. PICK g : g = [i \in 1 .. N |-> <<P[i].key, P[i].lang>>]
    OBVIOUS
  <2>3. \A i \in 1 .. N : P[i] \in SourcePages
    BY <1>8, <2>1, ElementOfSeq
  <2>4. g \in [1 .. N -> K \X Langs]
    <3>1. \A i \in 1 .. N : P[i].key \in K /\ P[i].lang \in Langs
      BY <1>9, <2>1, <2>3, SiteQueriesAssumption
    <3> QED
      BY <2>2, <3>1
  <2>5. ASSUME NEW i \in 1 .. N, NEW j \in 1 .. N, g[i] = g[j] PROVE i = j
    <3>1. P[i].key = P[j].key /\ P[i].lang = P[j].lang
      BY <2>2, <2>5
    <3>2. P[i].slug = P[j].slug
      BY <2>3, <3>1, SiteQueriesAssumption
    <3>3. seq[i].slug = seq[j].slug /\ i \in 1 .. Len(seq) /\ j \in 1 .. Len(seq)
      BY <1>8, <2>1, <3>2
    <3> QED
      BY <1>3, <3>3 DEF Distinct
  <2>6. g \in Injection(1 .. N, K \X Langs)
    BY <2>4, <2>5 DEF Injection, IsInjective
  <2>7. PICK l \in Nat : l = Cardinality(Langs) /\ IsFiniteSet(Langs)
    BY SiteQueriesAssumption, FS_CardinalityType
  <2>8. PICK k \in Nat : k = Cardinality(K)
    BY <1>12
  <2>9. IsFiniteSet(K \X Langs) /\ Cardinality(K \X Langs) = k * l
    BY <1>12, <2>7, <2>8, FS_Product
  <2>10. N <= k * l
    <3>1. Cardinality(1 .. N) <= Cardinality(K \X Langs)
      BY <2>6, <2>9, FS_Injection
    <3>2. Cardinality(1 .. N) = N
      BY FS_Interval
    <3> QED
      BY <2>9, <3>1, <3>2
  <2>11. k * l <= k * Headroom
    <3>1. PICK e \in Nat : Headroom = l + e
      <4>1. l <= Headroom /\ Headroom - l \in Nat /\ Headroom = l + (Headroom - l)
        BY <1>5, <2>7
      <4> QED
        BY <4>1
    <3>2. k * Headroom = k * l + k * e
      BY <3>1
    <3>3. k * e \in Nat /\ k * l \in Nat
      OBVIOUS
    <3> QED
      BY <3>2, <3>3
  <2>12. limit <= k
    <3>1. limit * Headroom <= k * Headroom
      <4>1. PICK x \in Nat : x = k * l
        OBVIOUS
      <4>2. PICK y \in Nat : y = k * Headroom
        BY <1>5
      <4> QED
        BY <1>6, <2>10, <2>11, <4>1, <4>2
    <3> QED
      BY <1>5, <3>1, FactorCancels
  <2>13. limit <= Cardinality(K) /\ limit <= Cardinality(A)
    BY <1>5, <1>12, <2>8, <2>12
  <2>14. ASSUME NEW m \in Nat, limit <= m PROVE Smaller(limit, m) = limit
    BY <1>5, <2>14 DEF Smaller
  <2>15. Smaller(limit, Cardinality(K)) = limit /\ Smaller(limit, Cardinality(A)) = limit
    BY <1>12, <2>13, <2>14
  <2> QED
    BY <1>2, <1>10, <1>13, <2>15
<1>16. Len(seq) <= N \/ N < Len(seq)
  BY <1>4
<1> QED
  BY <1>14, <1>15, <1>16

(* one_per_source_key leaves as many bundles as were asked for, or there   *)
(* are, if the headroom is as many times the limit as the site has         *)
(* languages.                                                              *)
THEOREM OnePerKeyIsEnough ==
  ASSUME Cardinality(Langs) <= Headroom
  PROVE  QueriesSpec => []OnePerKeyFillsTheAnswer
<1>1. IInv => OnePerKeyFillsTheAnswer
  <2> SUFFICES ASSUME IInv, NEW ref \in public, NEW limit \in Limits
               PROVE  /\ Len(Related(ref, limit, Nothing, TRUE)) =
                            Smaller(limit, Cardinality({p.key : p \in Candidates(ref)}))
                      /\ Len(Suggested(ref, limit, Nothing, TRUE)) =
                            Smaller(limit, Cardinality({p.key : p \in Suggestible(ref)}))
    BY DEF OnePerKeyFillsTheAnswer
  <2>1. public \in SUBSET SourcePages /\ OneEach(public) /\ ref \in AllPages
    BY DEF IInv, SystemInv, CopiesInv, AllPages
  <2>2. ASSUME NEW S \in SUBSET public
        PROVE  /\ S \in SUBSET SourcePages /\ OneEach(S)
               /\ TotalOrder(Closest(ref), S) /\ TotalOrder(Wordiest(ref), S)
    <3>1. S \in SUBSET SourcePages /\ S \in SUBSET AllPages /\ OneEach(S)
      BY <2>1 DEF OneEach, AllPages
    <3> QED
      BY <2>1, <3>1, ClosestTotal
  <2>3. Candidates(ref) \in SUBSET public /\ Suggestible(ref) \in SUBSET public
    BY DEF Candidates, Suggestible, Others
  <2>4. Len(Related(ref, limit, Nothing, TRUE)) =
            Smaller(limit, Cardinality({p.key : p \in Candidates(ref)}))
    BY <2>2, <2>3, CutFills DEF Related, Ranked
  <2>5. Len(Suggested(ref, limit, Nothing, TRUE)) =
            Smaller(limit, Cardinality({p.key : p \in Suggestible(ref)}))
    <3>1. PICK R : R = IF Candidates(ref) # {} THEN Closest(ref) ELSE Wordiest(ref)
      OBVIOUS
    <3>2. TotalOrder(R, Suggestible(ref))
      BY <2>2, <2>3, <3>1
    <3>3. Suggested(ref, limit, Nothing, TRUE) = Cut(Ordered(Suggestible(ref), R), limit, Nothing, TRUE)
      BY <3>1 DEF Suggested, Suggestions
    <3> QED
      BY <2>2, <2>3, <3>2, <3>3, CutFills
  <2> QED
    BY <2>4, <2>5
<1> QED
  BY <1>1, QueriesInvariant, PTL

=============================================================================

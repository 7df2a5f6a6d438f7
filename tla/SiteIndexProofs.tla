--------------------------- MODULE SiteIndexProofs ---------------------------
(***************************************************************************)
(* What the server derives from the content tree and the rendered site:    *)
(* the three properties of the index in memory (module SiteIndex) and      *)
(* those of the database and of what the read tools make of it (modules    *)
(* DerivedStore, SiteReads and ReadTools), for any files, slugs, readers,  *)
(* edits and failures.                                                     *)
(*                                                                         *)
(* What an entry of the index is worth is a statement about all the files  *)
(* the walk has read and the order it read them in, so the invariant says  *)
(* of every entry which file wins its slot among those read so far; of the *)
(* caches it says that whoever is filling one holds its mutex and reads of *)
(* the index as it is, unless a mutator has still to come by and drop what *)
(* it stores.                                                              *)
(*                                                                         *)
(* The database is brought up to date in steps any of which may fail, so   *)
(* its invariant says how far an undisturbed build has got, what the last  *)
(* record knows of what was shown, and which facts two builds have made    *)
(* true.                                                                   *)
(*                                                                         *)
(* A lookup tries several keys with several labels.  Where nothing of the  *)
(* site is named like a language, only one of the keys can answer, and     *)
(* what is rendered from it is the page it was asked for: the properties   *)
(* of the reads follow, with what a page still tells of its file.          *)
(***************************************************************************)
EXTENDS SiteIndex, ReadTools, FiniteSetTheorems, NaturalsInduction, SequenceTheorems, WellFoundedInduction, TLAPS

-----------------------------------------------------------------------------
(* The invariant                                                            *)

Texts == [canon : Slugs, links : SUBSET Slugs, at : Nat]
Pages == [slug : Slugs, file : Files, links : SUBSET Slugs, date : Nat, title : Nat]
Partial(T) == UNION {[D -> T] : D \in SUBSET Slugs}
Scans == [entries : Seq(Pages), aliases : Partial(Slugs), squat : SUBSET Slugs,
          read : Seq({None} \cup Texts), at : Nat]
Indexes == [entries : Seq(Pages), bySlug : Partial(Nat), aliases : Partial(Slugs), builtAt : Nat,
            read : Seq({None} \cup Texts), gone : SUBSET Slugs]
Links == [from : Slugs, title : Nat, to : Slugs]

TypeOK ==
    /\ clock \in Nat
    /\ disk \in [Files -> {None} \cup Texts]
    /\ index \in Indexes
    /\ mutator \in [pc : {"idle", "scan", "evict reload", "evict edit", "reset"}, scan : Scans]
    /\ backlinks \in [map : {None} \cup SUBSET Links, by : {None} \cup Readers]
    /\ staleness \in [at : Nat, stale : BOOLEAN, basis : Nat, by : {None} \cup Readers]
    /\ reader \in [Readers -> [pc : {"idle", "pages", "resolve", "walk", "answer"},
                               todo : SUBSET Links, found : SUBSET Links,
                               basis : Nat, changed : BOOLEAN]]

(* The entries are of different pages.                                      *)
Distinct(entries) == \A i, j \in DOMAIN entries : entries[i].slug = entries[j].slug => i = j
SlugsOf(entries) == {entries[i].slug : i \in DOMAIN entries}

(* The k-th file of the walk named slug s; the one that gets the slot is    *)
(* the first that owns s, or the first of all where none owns it.           *)
Names(read, s, k) == k \in DOMAIN read /\ read[k] # None /\ read[k].canon = s
Wins(read, s, k) ==
    /\ Names(read, s, k)
    /\ \A j \in DOMAIN read : Names(read, s, j) =>
          IF Own[Walk[k]] = s THEN Own[Walk[j]] = s => k <= j
                              ELSE Own[Walk[j]] # s /\ k <= j

(* Each entry is that of the file that gets the slot.                       *)
SlotsWon(entries, read) ==
    \A i \in DOMAIN entries : \E k \in DOMAIN read :
        Wins(read, entries[i].slug, k) /\ entries[i].file = Walk[k]

(* What the walk has collected so far.                                      *)
ScanInv(scan) ==
    /\ Len(scan.read) <= Len(Walk)
    /\ Distinct(scan.entries)
    /\ SlotsWon(scan.entries, scan.read)
    /\ scan.squat \subseteq SlugsOf(scan.entries)
    /\ \A i \in DOMAIN scan.entries :
          scan.entries[i].slug \in scan.squat <=> Own[scan.entries[i].file] # scan.entries[i].slug
    /\ \A k \in DOMAIN scan.read : scan.read[k] # None =>
          /\ scan.read[k].canon \in SlugsOf(scan.entries)
          /\ Own[Walk[k]] \in SlugsOf(scan.entries) \cup DOMAIN scan.aliases

(* What is served is what a finished walk collected, less what was removed. *)
IndexInv(x) ==
    /\ Len(x.read) = Len(Walk)
    /\ Distinct(x.entries)
    /\ SlotsWon(x.entries, x.read)
    /\ DOMAIN x.bySlug = SlugsOf(x.entries)
    /\ \A s \in DOMAIN x.bySlug :
          x.bySlug[s] \in DOMAIN x.entries /\ x.entries[x.bySlug[s]].slug = s
    /\ \A k \in DOMAIN x.read : x.read[k] # None =>
          Own[Walk[k]] \in DOMAIN x.bySlug \cup DOMAIN x.aliases \cup x.gone

(* A file that changed after the walk read it is newer than the walk.       *)
Newer(read, at) == \A k \in DOMAIN read :
    (disk[Walk[k]] # None /\ disk[Walk[k]] # read[k]) => disk[Walk[k]].at > at
NewerInv ==
    /\ Newer(index.read, index.builtAt) /\ index.builtAt <= clock
    /\ Newer(mutator.scan.read, mutator.scan.at) /\ mutator.scan.at <= clock

(* The reverse map that a reader builds is one of the index as it is,       *)
(* unless a mutator still has to drop the map.                              *)
ReverseMap == {l \in Outgoing(index.entries) : Resolves(index.bySlug, l.to)}
BacklinkInv == \A r \in Readers :
    /\ reader[r].pc \in {"pages", "resolve"} => backlinks.by = r
    /\ reader[r].pc # "resolve" => reader[r].found = {}
    /\ reader[r].pc = "resolve" /\ ~Evicting =>
          ReverseMap = reader[r].found \cup {l \in reader[r].todo : Resolves(index.bySlug, l.to)}

(* A check of the times is one of the index as it is, unless a reload still *)
(* has to forget the answer.                                                *)
StalenessInv == \A r \in Readers : reader[r].pc \in {"walk", "answer"} =>
    /\ staleness.by = r
    /\ mutator.pc \notin {"evict reload", "reset"} => reader[r].basis = index.builtAt

IInv ==
    /\ TypeOK /\ ScanInv(mutator.scan) /\ IndexInv(index) /\ NewerInv
    /\ BacklinkInv /\ BacklinksAreCurrent /\ StalenessInv /\ StalenessIsCurrent

-----------------------------------------------------------------------------
(* Induction.  The library's theorems about it quantify over operators;     *)
(* the least element of a set of numbers does the same work.                *)
LEMMA LeastNat ==
  ASSUME NEW T \in SUBSET Nat, T # {}
  PROVE  \E x \in T : \A y \in T : x <= y
<1>1. PICK R : R = {p \in Nat \X Nat : p[1] < p[2]}
  OBVIOUS
<1>2. IsWellFoundedOn(R, Nat)
  <2>1. R = OpToRel(<, Nat)
    BY <1>1 DEF OpToRel
  <2> QED
    BY <2>1, NatLessThanWellFounded
<1>3. PICK x \in T : \A y \in T : ~ (<<y, x>> \in R)
  BY <1>2, WFMin
<1>4. \A y \in T : <<y, x>> \in R <=> y < x
  BY <1>1
<1>5. ASSUME NEW y \in T PROVE x <= y
  <2>1. ~(y < x)
    BY <1>3, <1>4
  <2>2. y \in Nat /\ x \in Nat
    OBVIOUS
  <2> QED
    BY <2>1, <2>2
<1> QED
  BY <1>5

(* A set of numbers that has 0 and, with each, the next has them all, up to *)
(* any bound.                                                               *)
LEMMA UpTo ==
  ASSUME NEW n \in Nat, NEW T, 0 \in T, \A k \in 0 .. n - 1 : k \in T => k + 1 \in T
  PROVE  \A k \in 0 .. n : k \in T
<1> SUFFICES ASSUME \E k \in 0 .. n : k \notin T PROVE FALSE
  OBVIOUS
<1>1. PICK S : S = {k \in 0 .. n : k \notin T}
  OBVIOUS
<1>2. S \in SUBSET Nat /\ S # {}
  BY <1>1
<1>3. PICK m \in S : \A y \in S : m <= y
  BY <1>2, LeastNat
<1>4. m \in 0 .. n /\ m \notin T /\ m # 0
  BY <1>1, <1>3
<1>5. m - 1 \in 0 .. n - 1 /\ m - 1 \in 0 .. n
  BY <1>4
<1>6. m - 1 \notin S
  <2>1. ~(m <= m - 1)
    BY <1>4
  <2> QED
    BY <1>3, <2>1
<1>7. m - 1 \in T
  BY <1>1, <1>5, <1>6
<1>8. m - 1 + 1 \in T
  BY <1>5, <1>7
<1>9. m - 1 + 1 = m
  BY <1>4
<1> QED
  BY <1>4, <1>8, <1>9

(* A finite set has an enumeration in the order of a strict total order.    *)
TotalOrder(R, S) ==
    /\ \A x, y \in S : x # y => <<x, y>> \in R \/ <<y, x>> \in R
    /\ \A x, y, z \in S : <<x, y>> \in R /\ <<y, z>> \in R => <<x, z>> \in R
    /\ \A x \in S : <<x, x>> \notin R
Enumerates(w, R, S) ==
    /\ w \in [1 .. Cardinality(S) -> S]
    /\ \A i, j \in 1 .. Cardinality(S) : i < j => <<w[i], w[j]>> \in R
    /\ \A x \in S : \E i \in 1 .. Cardinality(S) : w[i] = x

(* A new element goes before the first that it precedes.                    *)
LEMMA Insertion ==
  ASSUME NEW R, NEW S, IsFiniteSet(S), TotalOrder(R, S), NEW x \in S,
         NEW w, Enumerates(w, R, S \ {x})
  PROVE  \E v : Enumerates(v, R, S)
<1> DEFINE Y == S \ {x}
<1>1. PICK n : n = Cardinality(Y)
  OBVIOUS
<1>2. n \in Nat /\ Cardinality(S) = n + 1
  <2>1. IsFiniteSet(S \ {x}) /\ Cardinality(S \ {x}) = Cardinality(S) - 1
    BY FS_RemoveElement
  <2>2. Cardinality(S) \in Nat /\ Cardinality(S \ {x}) \in Nat
    BY <2>1, FS_CardinalityType
  <2> QED
    BY <1>1, <2>1, <2>2
<1>3. /\ w \in [1 .. n -> S \ {x}]
      /\ \A i, j \in 1 .. n : i < j => <<w[i], w[j]>> \in R
      /\ \A y \in S \ {x} : \E i \in 1 .. n : w[i] = y
  BY <1>1 DEF Enumerates
<1> HIDE DEF Y
<1>4. PICK m \in 1 .. n + 1 :
        /\ \A i \in 1 .. n : i < m => <<x, w[i]>> \notin R
        /\ m <= n => <<x, w[m]>> \in R
  <2>1. CASE \A i \in 1 .. n : <<x, w[i]>> \notin R
    <3>1. n + 1 \in 1 .. n + 1 /\ ~(n + 1 <= n)
      BY <1>2
    <3> QED
      BY <2>1, <3>1
  <2>2. CASE \E i \in 1 .. n : <<x, w[i]>> \in R
    <3>1. PICK T : T = {i \in 1 .. n : <<x, w[i]>> \in R}
      OBVIOUS
    <3>2. PICK i \in T : \A j \in T : i <= j
      BY <2>2, <3>1, LeastNat
    <3>3. i \in 1 .. n + 1 /\ <<x, w[i]>> \in R
      BY <1>2, <3>1
    <3>4. ASSUME NEW j \in 1 .. n, j < i PROVE <<x, w[j]>> \notin R
      <4>1. j \notin T
        BY <1>2, <3>1, <3>2, <3>4
      <4> QED
        BY <3>1, <4>1
    <3> QED
      BY <3>3, <3>4
  <2> QED
    BY <2>1, <2>2
<1>5. PICK v : v = [j \in 1 .. n + 1 |-> IF j < m THEN w[j] ELSE IF j = m THEN x ELSE w[j - 1]]
  OBVIOUS
<1>6. ASSUME NEW j \in 1 .. n + 1
      PROVE  /\ j < m => j \in 1 .. n /\ v[j] = w[j]
             /\ j = m => v[j] = x
             /\ j > m => j - 1 \in 1 .. n /\ v[j] = w[j - 1]
  <2>1. /\ j < m => j \in 1 .. n
        /\ j > m => j - 1 \in 1 .. n /\ ~(j < m) /\ j # m
        /\ j = m => ~(j < m)
    BY <1>2, <1>4, <1>6
  <2> QED
    BY <1>5, <2>1
<1>7. v \in [1 .. n + 1 -> S]
  <2>1. ASSUME NEW j \in 1 .. n + 1 PROVE v[j] \in S
    <3>1. j < m \/ j = m \/ j > m
      BY <1>2, <1>4
    <3> QED
      BY <1>3, <1>6, <3>1
  <2> QED
    BY <1>5, <2>1
<1>8. ASSUME NEW i \in 1 .. n, i < m PROVE <<w[i], x>> \in R
  BY <1>3, <1>4, <1>8 DEF TotalOrder
<1>9. ASSUME NEW i \in 1 .. n, i >= m PROVE <<x, w[i]>> \in R
  <2>1. m \in 1 .. n /\ m <= n
    BY <1>2, <1>4, <1>9
  <2>2. <<x, w[m]>> \in R
    BY <1>4, <2>1
  <2>3. i = m \/ <<w[m], w[i]>> \in R
    BY <1>3, <1>9, <2>1
  <2> QED
    BY <1>3, <2>1, <2>2, <2>3 DEF TotalOrder
<1>10. ASSUME NEW i \in 1 .. n + 1, NEW j \in 1 .. n + 1, i < j PROVE <<v[i], v[j]>> \in R
  <2>1. CASE j < m
    <3>1. i < m
      BY <1>2, <1>4, <1>10, <2>1
    <3> QED
      BY <1>3, <1>6, <1>10, <2>1, <3>1
  <2>2. CASE j = m
    <3>1. i < m
      BY <1>10, <2>2
    <3> QED
      BY <1>6, <1>8, <2>2, <3>1
  <2>3. CASE j > m
    <3>1. j - 1 \in 1 .. n /\ v[j] = w[j - 1]
      BY <1>6, <2>3
    <3>2. CASE i < m
      <4>1. i \in 1 .. n /\ v[i] = w[i] /\ i < j - 1
        BY <1>2, <1>4, <1>6, <2>3, <3>2
      <4> QED
        BY <1>3, <3>1, <4>1
    <3>3. CASE i = m
      <4>1. v[i] = x /\ j - 1 >= m
        BY <1>2, <1>4, <1>6, <2>3, <3>3
      <4> QED
        BY <1>9, <3>1, <4>1
    <3>4. CASE i > m
      <4>1. i - 1 \in 1 .. n /\ v[i] = w[i - 1] /\ i - 1 < j - 1
        BY <1>2, <1>4, <1>6, <1>10, <3>4
      <4> QED
        BY <1>3, <3>1, <4>1
    <3> QED
      BY <1>2, <1>4, <3>2, <3>3, <3>4
  <2> QED
    BY <1>2, <1>4, <2>1, <2>2, <2>3
<1>11. ASSUME NEW y \in S PROVE \E i \in 1 .. n + 1 : v[i] = y
  <2>1. CASE y = x
    BY <1>4, <1>6, <2>1
  <2>2. CASE y # x
    <3>1. PICK i \in 1 .. n : w[i] = y
      BY <1>3, <2>2
    <3>2. CASE i < m
      <4>1. i \in 1 .. n + 1
        BY <1>2
      <4> QED
        BY <1>6, <3>1, <3>2, <4>1
    <3>3. CASE ~(i < m)
      <4>1. i + 1 \in 1 .. n + 1 /\ i + 1 > m /\ i + 1 - 1 = i
        BY <1>2, <1>4, <3>3
      <4> QED
        BY <1>6, <3>1, <4>1
    <3> QED
      BY <3>2, <3>3
  <2> QED
    BY <2>1, <2>2
<1> QED
  BY <1>2, <1>7, <1>10, <1>11 DEF Enumerates

LEMMA Enumeration ==
  ASSUME NEW R, NEW S, IsFiniteSet(S), TotalOrder(R, S)
  PROVE  \E w : Enumerates(w, R, S)
<1> DEFINE T == {n \in Nat : \A X \in SUBSET S : Cardinality(X) = n => \E w : Enumerates(w, R, X)}
<1>1. \A X \in SUBSET S : IsFiniteSet(X) /\ Cardinality(X) \in Nat /\ TotalOrder(R, X)
  BY FS_Subset, FS_CardinalityType DEF TotalOrder
<1>2. 0 \in T
  <2> SUFFICES ASSUME NEW X \in SUBSET S, Cardinality(X) = 0 PROVE \E w : Enumerates(w, R, X)
    OBVIOUS
  <2>1. X = {} /\ 1 .. Cardinality(X) = {}
    BY <1>1, FS_EmptySet
  <2>2. PICK w : w = [i \in {} |-> i]
    OBVIOUS
  <2>3. w \in [{} -> {}]
    BY <2>2
  <2>4. Enumerates(w, R, X)
    BY <2>1, <2>3 DEF Enumerates
  <2> QED
    BY <2>4
<1>3. ASSUME NEW n \in Nat, n \in T PROVE n + 1 \in T
  <2> SUFFICES ASSUME NEW X \in SUBSET S, Cardinality(X) = n + 1 PROVE \E w : Enumerates(w, R, X)
    OBVIOUS
  <2>1. X # {}
    BY FS_EmptySet
  <2>2. PICK x \in X : TRUE
    BY <2>1
  <2>3. X \ {x} \in SUBSET S /\ Cardinality(X \ {x}) = n
    <3>1. IsFiniteSet(X) /\ Cardinality(X \ {x}) = Cardinality(X) - 1
      BY <1>1, <2>2, FS_RemoveElement
    <3> QED
      BY <3>1
  <2>4. PICK w : Enumerates(w, R, X \ {x})
    BY <1>3, <2>3
  <2> QED
    BY <1>1, <2>2, <2>4, Insertion
<1>4. Cardinality(S) \in Nat /\ Cardinality(S) \in 0 .. Cardinality(S)
  BY FS_CardinalityType
<1> HIDE DEF T
<1>5. Cardinality(S) \in T
  BY <1>2, <1>3, <1>4, UpTo
<1> QED
  BY <1>5 DEF T

(* A sequence of a finite set's elements, as many as it has and all of them *)
(* different, has each.                                                     *)
LEMMA AllAreThere ==
  ASSUME NEW S, IsFiniteSet(S), NEW w \in [1 .. Cardinality(S) -> S],
         \A i, j \in 1 .. Cardinality(S) : i < j => w[i] # w[j]
  PROVE  \A x \in S : \E i \in 1 .. Cardinality(S) : w[i] = x
<1>1. PICK n : n = Cardinality(S)
  OBVIOUS
<1>2. n \in Nat /\ IsFiniteSet(1 .. n) /\ Cardinality(1 .. n) = n
  BY <1>1, FS_CardinalityType, FS_Interval
<1>3. \A i, j \in 1 .. n : i # j => w[i] # w[j]
  BY <1>1, <1>2
<1>4. w \in Injection(1 .. n, S)
  BY <1>1, <1>3 DEF Injection, IsInjective
<1>5. w \in Surjection(1 .. n, S)
  BY <1>1, <1>2, <1>4, FS_Injection
<1> QED
  BY <1>1, <1>5 DEF Surjection

-----------------------------------------------------------------------------
(* The walk and the sort                                                    *)

(* The walk visits every file once, in order.                               *)
LEMMA WalkFacts ==
  /\ Walk \in Seq(Files) /\ Len(Walk) \in Nat /\ DOMAIN Walk = 1 .. Len(Walk)
  /\ \A k \in 1 .. Len(Walk) : Walk[k] \in Files /\ Walk[k] \in Nat
  /\ \A i, j \in 1 .. Len(Walk) : i < j => Walk[i] < Walk[j]
  /\ \A f \in Files : \E k \in 1 .. Len(Walk) : Walk[k] = f
<1>1. Files \subseteq Nat /\ IsFiniteSet(Files)
  BY SiteIndexAssumption
<1>2. PICK R : R = {p \in Files \X Files : p[1] < p[2]}
  OBVIOUS
<1>3. \A x, y \in Files : <<x, y>> \in R <=> x < y
  BY <1>2
<1>4. TotalOrder(R, Files)
  BY <1>1, <1>3 DEF TotalOrder
<1>5. PICK v : Enumerates(v, R, Files)
  BY <1>1, <1>4, Enumeration
<1>6. PICK n : n = Cardinality(Files)
  OBVIOUS
<1>7. n \in Nat
  BY <1>1, <1>6, FS_CardinalityType
<1>8. v \in [1 .. n -> Files] /\ \A i, j \in DOMAIN v : i < j => v[i] < v[j]
  BY <1>3, <1>5, <1>6 DEF Enumerates
<1>9. Walk \in [1 .. n -> Files] /\ \A i, j \in DOMAIN Walk : i < j => Walk[i] < Walk[j]
  BY <1>6, <1>8 DEF Walk
<1>10. Walk \in Seq(Files) /\ Len(Walk) = n /\ DOMAIN Walk = 1 .. n
  BY <1>7, <1>9
<1>11. \A i, j \in 1 .. n : i < j => Walk[i] < Walk[j]
  BY <1>9, <1>10
<1>12. \A k \in 1 .. n : Walk[k] \in Files /\ Walk[k] \in Nat
  BY <1>1, <1>9
<1>13. \A i, j \in 1 .. n : i < j => Walk[i] # Walk[j]
  BY <1>7, <1>11, <1>12
<1>14. \A f \in Files : \E k \in 1 .. n : Walk[k] = f
  <2>1. /\ Walk \in [1 .. Cardinality(Files) -> Files]
        /\ \A i, j \in 1 .. Cardinality(Files) : i < j => Walk[i] # Walk[j]
    BY <1>6, <1>9, <1>13
  <2> HIDE <1>6
  <2>2. \A f \in Files : \E k \in 1 .. Cardinality(Files) : Walk[k] = f
    BY <1>1, <2>1, AllAreThere
  <2> QED
    BY <1>6, <2>2
<1> QED
  BY <1>7, <1>10, <1>11, <1>12, <1>14

(* The sort permutes the entries.                                           *)
LEMMA SortedFacts ==
  ASSUME NEW e \in Seq(Pages), Distinct(e)
  PROVE  /\ Sorted(e) \in Seq(Pages) /\ DOMAIN Sorted(e) = DOMAIN e /\ Distinct(Sorted(e))
         /\ \A i \in DOMAIN e : \E j \in DOMAIN e : Sorted(e)[i] = e[j]
         /\ \A j \in DOMAIN e : \E i \in DOMAIN e : Sorted(e)[i] = e[j]
<1>1. PICK n : n = Len(e)
  OBVIOUS
<1>2. n \in Nat /\ DOMAIN e = 1 .. n /\ IsFiniteSet(1 .. n) /\ Cardinality(1 .. n) = n
  <2>1. n \in Nat /\ 1 \in Int /\ n \in Int /\ DOMAIN e = 1 .. n
    BY <1>1
  <2>2. IsFiniteSet(1 .. n) /\ Cardinality(1 .. n) = IF 1 > n THEN 0 ELSE n - 1 + 1
    BY <2>1, FS_Interval
  <2> QED
    BY <2>1, <2>2
<1>3. \A i \in 1 .. n : e[i].date \in Nat /\ e[i].slug \in Nat /\ e[i] \in Pages
  <2>1. \A i \in 1 .. n : e[i] \in Pages
    BY <1>1
  <2>2. \A q \in Pages : q.date \in Nat /\ q.slug \in Slugs
    BY DEF Pages
  <2> QED
    BY <2>1, <2>2, SiteIndexAssumption
<1>4. PICK R : R = {p \in (1 .. n) \X (1 .. n) : Before(e[p[1]], e[p[2]])}
  OBVIOUS
<1>5. \A i, j \in 1 .. n : <<i, j>> \in R <=> Before(e[i], e[j])
  BY <1>4
<1>6. TotalOrder(R, 1 .. n)
  <2>1. ASSUME NEW i \in 1 .. n, NEW j \in 1 .. n, i # j PROVE Before(e[i], e[j]) \/ Before(e[j], e[i])
    <3>1. e[i].slug # e[j].slug
      BY <1>2, <2>1 DEF Distinct
    <3> QED
      BY <1>3, <3>1 DEF Before
  <2>2. ASSUME NEW i \in 1 .. n, NEW j \in 1 .. n, NEW k \in 1 .. n, Before(e[i], e[j]), Before(e[j], e[k])
        PROVE  Before(e[i], e[k])
    BY <1>3, <2>2 DEF Before
  <2>3. ASSUME NEW i \in 1 .. n PROVE ~Before(e[i], e[i])
    BY <1>3 DEF Before
  <2> QED
    BY <1>5, <2>1, <2>2, <2>3 DEF TotalOrder
<1>7. PICK v : Enumerates(v, R, 1 .. n)
  BY <1>2, <1>6, Enumeration
<1>8. PICK p : p = CHOOSE q \in [DOMAIN e -> DOMAIN e] :
                     \A i, j \in DOMAIN e : i < j => Before(e[q[i]], e[q[j]])
  OBVIOUS
<1>9. p \in [1 .. n -> 1 .. n] /\ \A i, j \in 1 .. n : i < j => Before(e[p[i]], e[p[j]])
  <2>1. v \in [DOMAIN e -> DOMAIN e] /\ \A i, j \in DOMAIN e : i < j => Before(e[v[i]], e[v[j]])
    BY <1>2, <1>5, <1>7 DEF Enumerates
  <2>2. p \in [DOMAIN e -> DOMAIN e] /\ \A i, j \in DOMAIN e : i < j => Before(e[p[i]], e[p[j]])
    BY <1>8, <2>1, Zenon
  <2> QED
    BY <1>2, <2>2
<1>10. Sorted(e) = [i \in 1 .. n |-> e[p[i]]]
  <2>1. Sorted(e) = [i \in DOMAIN e |-> e[(CHOOSE q \in [DOMAIN e -> DOMAIN e] :
                     \A i_1, j \in DOMAIN e : i_1 < j => Before(e[q[i_1]], e[q[j]]))[i]]]
    BY DEF Sorted
  <2>2. Sorted(e) = [i \in DOMAIN e |-> e[p[i]]]
    BY <1>8, <2>1, Zenon
  <2> QED
    BY <1>2, <2>2
<1>11. \A i, j \in 1 .. n : i < j => p[i] # p[j]
  BY <1>3, <1>9 DEF Before
<1>12. \A j \in 1 .. n : \E i \in 1 .. n : p[i] = j
  <2>1. /\ p \in [1 .. Cardinality(1 .. n) -> 1 .. n]
        /\ \A i, j \in 1 .. Cardinality(1 .. n) : i < j => p[i] # p[j]
    BY <1>2, <1>9, <1>11
  <2>2. \A j \in 1 .. n : \E i \in 1 .. Cardinality(1 .. n) : p[i] = j
    BY <1>2, <2>1, AllAreThere
  <2> QED
    BY <1>2, <2>2
<1>13. Sorted(e) \in Seq(Pages) /\ DOMAIN Sorted(e) = 1 .. n /\ \A i \in 1 .. n : Sorted(e)[i] = e[p[i]]
  <2>1. PICK f : f = Sorted(e)
    OBVIOUS
  <2>2. f = [i \in 1 .. n |-> e[p[i]]]
    BY <1>10, <2>1
  <2>3. \A i \in 1 .. n : e[p[i]] \in Pages
    BY <1>3, <1>9
  <2>4. f \in [1 .. n -> Pages]
    BY <2>2, <2>3
  <2>5. f \in Seq(Pages)
    BY <1>2, <2>4
  <2> QED
    BY <2>1, <2>2, <2>5
<1>14. Distinct(Sorted(e))
  <2> SUFFICES ASSUME NEW i \in 1 .. n, NEW j \in 1 .. n, e[p[i]].slug = e[p[j]].slug PROVE i = j
    BY <1>13 DEF Distinct
  <2>1. p[i] = p[j]
    BY <1>2, <1>9 DEF Distinct
  <2> QED
    BY <1>2, <1>11, <2>1
<1> QED
  BY <1>2, <1>9, <1>12, <1>13, <1>14

-----------------------------------------------------------------------------
(* One file of the walk                                                     *)

(* How one more file changes who wins a slot: not at all unless it names    *)
(* the slug; the first that names it wins, and so does the first owner.     *)
LEMMA WinsAppend ==
  ASSUME NEW read \in Seq({None} \cup Texts), NEW d \in {None} \cup Texts, NEW s, NEW n,
         n = Len(read) + 1, n <= Len(Walk)
  PROVE  /\ \A k : (d = None \/ d.canon # s) /\ Wins(read, s, k) => Wins(Append(read, d), s, k)
         /\ \A k : Wins(read, s, k) /\ ~ (Own[Walk[n]] = s /\ Own[Walk[k]] # s)
                      => Wins(Append(read, d), s, k)
         /\ (d # None /\ d.canon = s /\ \A k : ~Names(read, s, k)) => Wins(Append(read, d), s, n)
         /\ \A k : d # None /\ d.canon = s /\ Own[Walk[n]] = s /\ Wins(read, s, k) /\ Own[Walk[k]] # s
                      => Wins(Append(read, d), s, n)
<1>1. PICK r : r = Append(read, d)
  OBVIOUS
<1>2. /\ n \in Nat /\ DOMAIN read = 1 .. n - 1 /\ DOMAIN r = 1 .. n
      /\ r[n] = d /\ \A k \in 1 .. n - 1 : r[k] = read[k]
  BY <1>1
<1>3. \A k : Names(r, s, k) <=> \/ Names(read, s, k)
                                \/ k = n /\ d # None /\ d.canon = s
  BY <1>2 DEF Names
<1>4. \A k : Names(read, s, k) => k \in 1 .. n - 1 /\ k \in Int /\ k <= n /\ k # n
  BY <1>2 DEF Names
<1>5. \A k : Names(r, s, k) => k \in DOMAIN r /\ k \in Int
  BY <1>2 DEF Names
<1>6. \A k : Names(read, s, k) => k \in DOMAIN read
  BY DEF Names
<1>7. ASSUME NEW k, d = None \/ d.canon # s, Wins(read, s, k) PROVE Wins(r, s, k)
  BY <1>3, <1>6, <1>7 DEF Wins
<1>8. ASSUME NEW k, Wins(read, s, k), ~ (Own[Walk[n]] = s /\ Own[Walk[k]] # s) PROVE Wins(r, s, k)
  <2>1. Names(read, s, k) /\ Names(r, s, k) /\ k <= n
    BY <1>3, <1>4, <1>8 DEF Wins
  <2>2. ASSUME NEW j \in DOMAIN r, Names(r, s, j)
        PROVE  IF Own[Walk[k]] = s THEN Own[Walk[j]] = s => k <= j
                              ELSE Own[Walk[j]] # s /\ k <= j
    <3>1. CASE Names(read, s, j)
      BY <1>6, <1>8, <3>1 DEF Wins
    <3>2. CASE j = n
      BY <1>8, <2>1, <3>2
    <3> QED
      BY <1>3, <2>2, <3>1, <3>2
  <2> QED
    BY <2>1, <2>2 DEF Wins
<1>9. ASSUME d # None, d.canon = s, \A k : ~Names(read, s, k) PROVE Wins(r, s, n)
  <2>1. \A j : Names(r, s, j) <=> j = n
    BY <1>3, <1>9
  <2>2. n <= n
    BY <1>2
  <2> QED
    BY <2>1, <2>2 DEF Wins
<1>10. ASSUME NEW k, d # None, d.canon = s, Own[Walk[n]] = s, Wins(read, s, k), Own[Walk[k]] # s
       PROVE  Wins(r, s, n)
  <2>1. \A j \in DOMAIN read : Names(read, s, j) => Own[Walk[j]] # s
    BY <1>10 DEF Wins
  <2>2. Names(r, s, n) /\ n <= n
    BY <1>2, <1>3, <1>10
  <2>3. ASSUME NEW j \in DOMAIN r, Names(r, s, j), Own[Walk[j]] = s PROVE n <= j
    BY <1>3, <1>6, <2>1, <2>2, <2>3
  <2> QED
    BY <1>10, <2>2, <2>3 DEF Wins
<1> QED
  BY <1>1, <1>7, <1>8, <1>9, <1>10

(* An alias more.                                                           *)
LEMMA AliasFacts ==
  ASSUME NEW a \in Partial(Slugs), NEW f \in Files, NEW s \in Slugs
  PROVE  /\ Alias(a, f, s) \in Partial(Slugs)
         /\ DOMAIN Alias(a, f, s) = DOMAIN a \cup {Own[f]}
<1>1. PICK D \in SUBSET Slugs : a \in [D -> Slugs]
  BY DEF Partial
<1>2. Own[f] \in Slugs /\ DOMAIN a \cup {Own[f]} \in SUBSET Slugs
  BY <1>1, SiteIndexAssumption
<1>3. Alias(a, f, s) \in [DOMAIN a \cup {Own[f]} -> Slugs]
  BY <1>1 DEF Alias
<1> QED
  BY <1>2, <1>3 DEF Partial

(* The page of a file.                                                      *)
LEMMA PageFacts ==
  ASSUME NEW f \in Files, NEW d \in Texts
  PROVE  /\ Page(f, d) \in Pages /\ Page(f, d).slug = d.canon /\ Page(f, d).file = f
         /\ d.canon \in Slugs
BY DEF Page, Pages, Texts

(* What a file does to what was collected, field by field.                  *)
Visited(scan, e, f, d, v) ==
    /\ v.read = Append(scan.read, d) /\ v.at = scan.at
    /\ v = [entries |-> v.entries, aliases |-> v.aliases, squat |-> v.squat,
            read |-> v.read, at |-> v.at]
    /\ \/ /\ d = None
          /\ v.entries = e /\ v.squat = scan.squat /\ v.aliases = scan.aliases
       \/ /\ d # None /\ Position(e, d.canon) = {}
          /\ v.entries = Append(e, Page(f, d))
          /\ v.squat = IF Own[f] = d.canon THEN scan.squat ELSE scan.squat \cup {d.canon}
          /\ v.aliases = IF Own[f] = d.canon THEN scan.aliases
                                                   ELSE Alias(scan.aliases, f, d.canon)
       \/ /\ d # None /\ Own[f] = d.canon /\ d.canon \in scan.squat
          /\ \E i \in Position(e, d.canon) :
                /\ v.entries = [e EXCEPT ![i] = Page(f, d)]
                /\ v.aliases = Alias(scan.aliases, e[i].file, d.canon)
          /\ v.squat = scan.squat \ {d.canon}
       \/ /\ d # None /\ Position(e, d.canon) # {}
          /\ ~ (Own[f] = d.canon /\ d.canon \in scan.squat)
          /\ v.entries = e /\ v.squat = scan.squat
          /\ v.aliases = IF Own[f] = d.canon THEN scan.aliases
                                                   ELSE Alias(scan.aliases, f, d.canon)

(* Those are all the cases.                                                 *)
LEMMA VisitCases ==
  ASSUME NEW scan \in Scans, NEW f \in Files, NEW d \in {None} \cup Texts, d = disk[f],
         NEW e, e = scan.entries, scan.squat \subseteq SlugsOf(e), NEW v, v = Visit(scan, f)
  PROVE  Visited(scan, e, f, d, v)
<1> USE DEF Visited
<1>1. PICK seen : seen = [scan EXCEPT !.read = Append(@, d)]
  OBVIOUS
<1>2. /\ seen = [entries |-> seen.entries, aliases |-> seen.aliases, squat |-> seen.squat,
                 read |-> seen.read, at |-> seen.at]
      /\ seen.entries = scan.entries /\ seen.aliases = scan.aliases /\ seen.squat = scan.squat
      /\ seen.read = Append(scan.read, d) /\ seen.at = scan.at
  BY <1>1 DEF Scans
<1>3. v = IF d = None THEN seen ELSE Known(Placed(seen, f, d), f, d)
  BY <1>1 DEF Visit
<1>4. CASE d = None
  BY <1>2, <1>3, <1>4
<1>5. CASE d # None /\ Position(scan.entries, d.canon) = {}
  <2>1. PICK p : p = Add(seen, f, d)
    OBVIOUS
  <2>2. v = Known(p, f, d)
    <3>1. d.canon \notin seen.squat /\ Position(seen.entries, d.canon) = {}
      BY <1>2, <1>5 DEF Position, SlugsOf
    <3>2. Placed(seen, f, d) = p
      BY <2>1, <3>1 DEF Placed
    <3> QED
      BY <1>3, <1>5, <3>2
  <2>3. /\ p = [entries |-> p.entries, aliases |-> p.aliases, squat |-> p.squat,
                read |-> p.read, at |-> p.at]
        /\ p.entries = Append(scan.entries, Page(f, d)) /\ p.aliases = scan.aliases
        /\ p.squat = IF Own[f] = d.canon THEN scan.squat ELSE scan.squat \cup {d.canon}
        /\ p.read = seen.read /\ p.at = seen.at
    BY <1>2, <2>1 DEF Add
  <2> QED
    BY <1>2, <1>5, <2>2, <2>3 DEF Known
<1>6. CASE d # None /\ Position(scan.entries, d.canon) # {} /\ Own[f] = d.canon /\ d.canon \in scan.squat
  <2>1. PICK p : p = Demote(seen, f, d)
    OBVIOUS
  <2>2. v = p
    BY <1>2, <1>3, <1>6, <2>1 DEF Placed, Known
  <2>3. PICK i : i = CHOOSE m \in Position(scan.entries, d.canon) : TRUE
    OBVIOUS
  <2>4. i \in Position(scan.entries, d.canon)
    BY <1>6, <2>3
  <2>5. p = [seen EXCEPT !.entries[i] = Page(f, d),
                         !.aliases = Alias(@, seen.entries[i].file, d.canon),
                         !.squat = @ \ {d.canon}]
    BY <1>2, <2>1, <2>3 DEF Demote
  <2>6. /\ p = [entries |-> p.entries, aliases |-> p.aliases, squat |-> p.squat,
                read |-> p.read, at |-> p.at]
        /\ p.entries = [scan.entries EXCEPT ![i] = Page(f, d)]
        /\ p.aliases = Alias(scan.aliases, scan.entries[i].file, d.canon)
        /\ p.squat = scan.squat \ {d.canon}
        /\ p.read = seen.read /\ p.at = seen.at
    BY <1>2, <2>5
  <2> QED
    BY <1>2, <1>6, <2>2, <2>4, <2>6
<1>7. CASE d # None /\ Position(scan.entries, d.canon) # {} /\ ~ (Own[f] = d.canon /\ d.canon \in scan.squat)
  <2>1. v = Known(seen, f, d)
    BY <1>2, <1>3, <1>7 DEF Placed
  <2> QED
    BY <1>2, <1>7, <2>1 DEF Known
<1> QED
  BY <1>4, <1>5, <1>6, <1>7

(* One more file keeps what is said of the walk.                            *)
LEMMA VisitFacts ==
  ASSUME NEW scan \in Scans, ScanInv(scan), Len(scan.read) < Len(Walk),
         NEW f, f = Walk[Len(scan.read) + 1], disk[f] \in {None} \cup Texts,
         NEW v, v = Visit(scan, f)
  PROVE  /\ v \in Scans /\ ScanInv(v)
         /\ v.read = Append(scan.read, disk[f]) /\ Len(v.read) = Len(scan.read) + 1 /\ v.at = scan.at
<1>1. PICK d : d = disk[f]
  OBVIOUS
<1>2. PICK n : n = Len(scan.read) + 1
  OBVIOUS
<1>3. PICK e : e = scan.entries
  OBVIOUS
<1>4. PICK read : read = scan.read
  OBVIOUS
<1>5. /\ e \in Seq(Pages) /\ read \in Seq({None} \cup Texts) /\ scan.at \in Nat
      /\ scan.aliases \in Partial(Slugs) /\ scan.squat \in SUBSET Slugs
  BY <1>3, <1>4 DEF Scans
<1>6. /\ n \in Nat /\ n <= Len(Walk) /\ n \in 1 .. Len(Walk) /\ n = Len(read) + 1 /\ f = Walk[n] /\ f \in Files
      /\ DOMAIN read = 1 .. n - 1
  <2>1. n \in Nat /\ n <= Len(Walk) /\ n \in 1 .. Len(Walk) /\ n = Len(read) + 1
    BY <1>2, <1>4, <1>5, WalkFacts
  <2> QED
    BY <1>2, <1>5, <2>1, WalkFacts
<1>7. /\ Distinct(e) /\ SlotsWon(e, read) /\ scan.squat \subseteq SlugsOf(e)
      /\ \A i \in DOMAIN e : e[i].slug \in scan.squat <=> Own[e[i].file] # e[i].slug
      /\ \A k \in DOMAIN read : read[k] # None =>
            read[k].canon \in SlugsOf(e) /\ Own[Walk[k]] \in SlugsOf(e) \cup DOMAIN scan.aliases
  BY <1>3, <1>4 DEF ScanInv
<1>8. Visited(scan, e, f, d, v)
  <2>1. d \in {None} \cup Texts /\ f \in Files /\ scan.squat \subseteq SlugsOf(e)
    BY <1>1, <1>6, <1>7
  <2> QED
    BY <1>1, <1>3, <2>1, VisitCases
<1>9. /\ v.read = Append(read, d) /\ v.at = scan.at
       /\ v = [entries |-> v.entries, aliases |-> v.aliases, squat |-> v.squat,
               read |-> v.read, at |-> v.at]
  BY <1>4, <1>8 DEF Visited
<1>10. /\ v.read \in Seq({None} \cup Texts) /\ Len(v.read) = n /\ DOMAIN v.read = 1 .. n
      /\ v.read[n] = d /\ \A k \in 1 .. n - 1 : v.read[k] = read[k]
  BY <1>1, <1>5, <1>6, <1>9
<1>11. \A s : /\ \A k : (d = None \/ d.canon # s) /\ Wins(read, s, k) => Wins(v.read, s, k)
              /\ \A k : Wins(read, s, k) /\ ~ (Own[f] = s /\ Own[Walk[k]] # s) => Wins(v.read, s, k)
              /\ (d # None /\ d.canon = s /\ \A k : ~Names(read, s, k)) => Wins(v.read, s, n)
              /\ \A k : d # None /\ d.canon = s /\ Own[f] = s /\ Wins(read, s, k) /\ Own[Walk[k]] # s
                           => Wins(v.read, s, n)
  BY <1>1, <1>5, <1>6, <1>9, WinsAppend
<1>12. \A i \in DOMAIN e : e[i] \in Pages /\ e[i].slug \in Slugs /\ e[i].file \in Files
  <2>1. \A q \in Pages : q.slug \in Slugs /\ q.file \in Files
    BY DEF Pages
  <2> QED
    BY <1>5, <2>1
<1> SUFFICES v \in Scans /\ ScanInv(v)
  BY <1>1, <1>2, <1>4, <1>9, <1>10
(* What is left to show once the entries are known.                         *)
<1>13. ASSUME v.entries \in Seq(Pages), v.aliases \in Partial(Slugs), v.squat \in SUBSET Slugs,
              Distinct(v.entries), v.squat \subseteq SlugsOf(v.entries),
              SlugsOf(e) \subseteq SlugsOf(v.entries), DOMAIN scan.aliases \subseteq DOMAIN v.aliases,
              d # None => d.canon \in SlugsOf(v.entries) /\ Own[f] \in {d.canon} \cup DOMAIN v.aliases,
              \A i \in DOMAIN v.entries :
                 /\ \E k \in 1 .. n : Wins(v.read, v.entries[i].slug, k) /\ v.entries[i].file = Walk[k]
                 /\ v.entries[i].slug \in v.squat <=> Own[v.entries[i].file] # v.entries[i].slug
       PROVE  v \in Scans /\ ScanInv(v)
  <2>1. v \in Scans
    BY <1>5, <1>9, <1>10, <1>13 DEF Scans
  <2>2. SlotsWon(v.entries, v.read)
    BY <1>10, <1>13 DEF SlotsWon
  <2>3. ASSUME NEW k \in DOMAIN v.read, v.read[k] # None
        PROVE  v.read[k].canon \in SlugsOf(v.entries) /\ Own[Walk[k]] \in SlugsOf(v.entries) \cup DOMAIN v.aliases
    <3>1. CASE k = n
      BY <1>6, <1>10, <1>13, <2>3, <3>1
    <3>2. CASE k # n
      <4>1. k \in 1 .. n - 1
        BY <1>6, <1>10, <3>2
      <4>2. k \in DOMAIN read /\ v.read[k] = read[k]
        BY <1>6, <1>10, <4>1
      <4> QED
        BY <1>7, <1>13, <2>3, <4>2
    <3> QED
      BY <3>1, <3>2
  <2> QED
    BY <1>6, <1>10, <1>13, <2>1, <2>2, <2>3 DEF ScanInv
<1>14. \A k \in 1 .. n - 1 : k \in 1 .. n
  BY <1>6
<1>15. ASSUME NEW i \in DOMAIN e, d = None \/ d.canon # e[i].slug
       PROVE  \E k \in 1 .. n : Wins(v.read, e[i].slug, k) /\ e[i].file = Walk[k]
  <2>1. PICK k \in DOMAIN read : Wins(read, e[i].slug, k) /\ e[i].file = Walk[k]
    BY <1>7 DEF SlotsWon
  <2>2. Wins(v.read, e[i].slug, k)
    BY <1>11, <1>15, <2>1
  <2> QED
    BY <1>6, <1>14, <2>1, <2>2
<1>16. d # None => d \in Texts
  BY <1>1
<1>17. CASE d = None
  BY <1>5, <1>7, <1>8, <1>13, <1>15, <1>17 DEF Visited
<1>18. CASE d # None /\ Position(e, d.canon) = {}
  <2>1. PICK p : p = Page(f, d)
    OBVIOUS
  <2>2. p \in Pages /\ p.slug = d.canon /\ p.file = f /\ d.canon \in Slugs
    BY <1>6, <1>16, <1>18, <2>1, PageFacts
  <2>3. d.canon \notin SlugsOf(e)
    BY <1>18 DEF Position, SlugsOf
  <2>4. /\ v.entries = Append(e, p)
        /\ v.squat = IF Own[f] = d.canon THEN scan.squat ELSE scan.squat \cup {d.canon}
        /\ v.aliases = IF Own[f] = d.canon THEN scan.aliases ELSE Alias(scan.aliases, f, d.canon)
    BY <1>7, <1>8, <1>18, <2>1, <2>3 DEF Visited
  <2>5. PICK m : m = Len(e) + 1
    OBVIOUS
  <2>6. /\ v.entries \in Seq(Pages) /\ m \in Nat /\ m >= 1 /\ DOMAIN e = 1 .. m - 1 /\ DOMAIN v.entries = 1 .. m
        /\ v.entries[m] = p /\ \A i \in 1 .. m - 1 : v.entries[i] = e[i]
    BY <1>5, <2>2, <2>4, <2>5
  <2>7. \A i \in DOMAIN v.entries : i # m => i \in DOMAIN e /\ v.entries[i] = e[i] /\ e[i].slug # d.canon
    <3>1. \A i \in DOMAIN v.entries : i # m => i \in DOMAIN e /\ v.entries[i] = e[i]
      BY <2>6
    <3> QED
      BY <2>3, <3>1 DEF SlugsOf
  <2>8. v.entries[m].slug = d.canon /\ v.entries[m].file = f /\ m \in DOMAIN v.entries
    BY <2>2, <2>6
  <2>9. Distinct(v.entries)
    BY <1>7, <2>7, <2>8 DEF Distinct
  <2>10. SlugsOf(e) \subseteq SlugsOf(v.entries) /\ d.canon \in SlugsOf(v.entries)
    <3>1. \A i \in DOMAIN e : i \in DOMAIN v.entries /\ v.entries[i] = e[i]
      BY <2>6
    <3> QED
      BY <2>8, <3>1 DEF SlugsOf
  <2>11. /\ v.aliases \in Partial(Slugs) /\ DOMAIN scan.aliases \subseteq DOMAIN v.aliases
         /\ Own[f] \in {d.canon} \cup DOMAIN v.aliases
    <3>1. scan.aliases \in Partial(Slugs)
      BY <1>5
    <3>2. /\ Alias(scan.aliases, f, d.canon) \in Partial(Slugs)
          /\ DOMAIN Alias(scan.aliases, f, d.canon) = DOMAIN scan.aliases \cup {Own[f]}
      BY <1>6, <2>2, <3>1, AliasFacts
    <3> QED
      BY <2>4, <3>1, <3>2
  <2>12. v.squat \in SUBSET Slugs /\ v.squat \subseteq SlugsOf(v.entries)
    BY <1>5, <1>7, <2>2, <2>4, <2>10
  <2>13. \A k : ~Names(read, d.canon, k)
    BY <1>7, <2>3 DEF Names
  <2>14. Wins(v.read, d.canon, n)
    BY <1>11, <1>18, <2>13
  <2>15. n \in 1 .. n
    BY <1>6
  <2>16. ASSUME NEW i \in DOMAIN v.entries
         PROVE  /\ \E k \in 1 .. n : Wins(v.read, v.entries[i].slug, k) /\ v.entries[i].file = Walk[k]
                /\ v.entries[i].slug \in v.squat <=> Own[v.entries[i].file] # v.entries[i].slug
    <3>1. CASE i = m
      <4>1. d.canon \in v.squat <=> Own[f] # d.canon
        BY <1>7, <2>3, <2>4
      <4> QED
        BY <1>6, <2>8, <2>14, <2>15, <3>1, <4>1
    <3>2. CASE i # m
      <4>1. i \in DOMAIN e /\ v.entries[i] = e[i] /\ e[i].slug # d.canon
        BY <2>7, <3>2
      <4>2. \E k \in 1 .. n : Wins(v.read, e[i].slug, k) /\ e[i].file = Walk[k]
        BY <1>15, <4>1
      <4>3. e[i].slug \in v.squat <=> e[i].slug \in scan.squat
        BY <2>4, <4>1
      <4> QED
        BY <1>7, <4>1, <4>2, <4>3
    <3> QED
      BY <3>1, <3>2
  <2> QED
    BY <1>13, <2>6, <2>9, <2>10, <2>11, <2>12, <2>16
<1>19. CASE d # None /\ Own[f] = d.canon /\ d.canon \in scan.squat /\ Position(e, d.canon) # {}
  <2>1. PICK p : p = Page(f, d)
    OBVIOUS
  <2>2. p \in Pages /\ p.slug = d.canon /\ p.file = f /\ d.canon \in Slugs
    BY <1>6, <1>16, <1>19, <2>1, PageFacts
  <2>3. /\ v.squat = scan.squat \ {d.canon}
        /\ \E i \in Position(e, d.canon) :
              v.entries = [e EXCEPT ![i] = p] /\ v.aliases = Alias(scan.aliases, e[i].file, d.canon)
    BY <1>8, <1>19, <2>1 DEF Visited
  <2>4. PICK m \in Position(e, d.canon) :
          v.entries = [e EXCEPT ![m] = p] /\ v.aliases = Alias(scan.aliases, e[m].file, d.canon)
    BY <2>3
  <2>5. m \in DOMAIN e /\ e[m].slug = d.canon /\ e[m].file \in Files
    BY <1>12 DEF Position
  <2>6. v.entries \in Seq(Pages) /\ DOMAIN v.entries = DOMAIN e
    <3>1. e \in [1 .. Len(e) -> Pages] /\ DOMAIN e = 1 .. Len(e) /\ Len(e) \in Nat
      BY <1>5
    <3>2. v.entries \in [1 .. Len(e) -> Pages]
      BY <2>2, <2>4, <3>1
    <3> QED
      BY <3>1, <3>2
  <2>7. v.entries[m] = p /\ \A i \in DOMAIN e : i # m => v.entries[i] = e[i] /\ e[i].slug # d.canon
    <3>1. v.entries[m] = p /\ \A i \in DOMAIN e : i # m => v.entries[i] = e[i]
      BY <1>5, <2>4, <2>5
    <3> QED
      BY <1>7, <2>5, <3>1 DEF Distinct
  <2>8. \A i \in DOMAIN e : v.entries[i].slug = e[i].slug
    BY <2>2, <2>5, <2>7
  <2>9. Distinct(v.entries) /\ SlugsOf(v.entries) = SlugsOf(e)
    BY <1>7, <2>6, <2>8, SMTT(30) DEF Distinct, SlugsOf
  <2>10. d.canon \in SlugsOf(v.entries)
    BY <2>5, <2>9 DEF SlugsOf
  <2>11. v.aliases \in Partial(Slugs) /\ DOMAIN scan.aliases \subseteq DOMAIN v.aliases
    <3>1. scan.aliases \in Partial(Slugs)
      BY <1>5
    <3>2. /\ Alias(scan.aliases, e[m].file, d.canon) \in Partial(Slugs)
          /\ DOMAIN Alias(scan.aliases, e[m].file, d.canon) = DOMAIN scan.aliases \cup {Own[e[m].file]}
      BY <1>6, <2>2, <2>5, <3>1, AliasFacts
    <3> QED
      BY <2>4, <3>1, <3>2
  <2>12. v.squat \in SUBSET Slugs /\ v.squat \subseteq SlugsOf(v.entries)
    BY <1>5, <1>7, <2>3, <2>9
  <2>13. PICK k \in DOMAIN read : Wins(read, d.canon, k) /\ e[m].file = Walk[k]
    BY <1>7, <2>5 DEF SlotsWon
  <2>14. Wins(v.read, d.canon, n)
    <3>1. Own[Walk[k]] # d.canon
      BY <1>7, <1>19, <2>5, <2>13
    <3> QED
      BY <1>11, <1>19, <2>13, <3>1
  <2>15. n \in 1 .. n
    BY <1>6
  <2>16. ASSUME NEW i \in DOMAIN v.entries
         PROVE  /\ \E j \in 1 .. n : Wins(v.read, v.entries[i].slug, j) /\ v.entries[i].file = Walk[j]
                /\ v.entries[i].slug \in v.squat <=> Own[v.entries[i].file] # v.entries[i].slug
    <3>1. CASE i = m
      BY <1>6, <1>19, <2>2, <2>3, <2>7, <2>14, <2>15, <3>1
    <3>2. CASE i # m
      <4>1. i \in DOMAIN e /\ v.entries[i] = e[i] /\ e[i].slug # d.canon
        BY <2>6, <2>7, <3>2
      <4>2. \E j \in 1 .. n : Wins(v.read, e[i].slug, j) /\ e[i].file = Walk[j]
        BY <1>15, <4>1
      <4>3. e[i].slug \in v.squat <=> e[i].slug \in scan.squat
        BY <2>3, <4>1
      <4> QED
        BY <1>7, <4>1, <4>2, <4>3
    <3> QED
      BY <3>1, <3>2
  <2> QED
    BY <1>13, <1>19, <2>6, <2>9, <2>10, <2>11, <2>12, <2>16
<1>20. CASE d # None /\ Position(e, d.canon) # {} /\ ~ (Own[f] = d.canon /\ d.canon \in scan.squat)
  <2>1. /\ v.entries = e /\ v.squat = scan.squat
        /\ v.aliases = IF Own[f] = d.canon THEN scan.aliases ELSE Alias(scan.aliases, f, d.canon)
    BY <1>8, <1>20 DEF Visited
  <2>2. d.canon \in Slugs /\ d.canon \in SlugsOf(e)
    <3>1. d.canon \in Slugs
      BY <1>6, <1>16, <1>20, PageFacts
    <3> QED
      BY <1>20, <3>1 DEF Position, SlugsOf
  <2>3. /\ v.aliases \in Partial(Slugs) /\ DOMAIN scan.aliases \subseteq DOMAIN v.aliases
        /\ Own[f] \in {d.canon} \cup DOMAIN v.aliases
    <3>1. scan.aliases \in Partial(Slugs)
      BY <1>5
    <3>2. /\ Alias(scan.aliases, f, d.canon) \in Partial(Slugs)
          /\ DOMAIN Alias(scan.aliases, f, d.canon) = DOMAIN scan.aliases \cup {Own[f]}
      BY <1>6, <2>2, <3>1, AliasFacts
    <3> QED
      BY <2>1, <3>1, <3>2
  <2>4. ASSUME NEW i \in DOMAIN e
        PROVE  \E j \in 1 .. n : Wins(v.read, e[i].slug, j) /\ e[i].file = Walk[j]
    <3>1. CASE e[i].slug # d.canon
      BY <1>15, <3>1
    <3>2. CASE e[i].slug = d.canon
      <4>1. PICK k \in DOMAIN read : Wins(read, d.canon, k) /\ e[i].file = Walk[k]
        BY <1>7, <3>2 DEF SlotsWon
      <4>2. ~ (Own[f] = d.canon /\ Own[Walk[k]] # d.canon)
        BY <1>7, <1>20, <3>2, <4>1
      <4>3. Wins(v.read, d.canon, k)
        BY <1>11, <4>1, <4>2
      <4>4. k \in 1 .. n
        BY <1>6, <1>14, <4>1
      <4> QED
        BY <3>2, <4>1, <4>3, <4>4
    <3> QED
      BY <3>1, <3>2
  <2> QED
    BY <1>5, <1>7, <1>13, <2>1, <2>2, <2>3, <2>4
<1> QED
  BY <1>8, <1>17, <1>18, <1>19, <1>20 DEF Visited

(* A walk that has read nothing.                                            *)
LEMMA BlankFacts ==
  ASSUME NEW now \in Nat, NEW b, b = Blank(now)
  PROVE  b \in Scans /\ ScanInv(b) /\ Len(b.read) = 0 /\ DOMAIN b.read = {} /\ b.at = now
<1>1. /\ b = [entries |-> b.entries, aliases |-> b.aliases, squat |-> b.squat, read |-> b.read, at |-> b.at]
      /\ b.entries = <<>> /\ b.aliases = <<>> /\ b.squat = {} /\ b.read = <<>> /\ b.at = now
  BY DEF Blank
<1>2. b.entries \in Seq(Pages) /\ b.read \in Seq({None} \cup Texts) /\ DOMAIN b.entries = {} /\ DOMAIN b.read = {}
  BY <1>1
<1>3. b.aliases \in [{} -> Slugs] /\ Len(b.read) = 0
  BY <1>1
<1>4. b.aliases \in Partial(Slugs)
  BY <1>3 DEF Partial
<1>5. b \in Scans
  BY <1>1, <1>2, <1>4 DEF Scans
<1>6. 0 <= Len(Walk)
  BY WalkFacts
<1> QED
  BY <1>1, <1>2, <1>3, <1>5, <1>6 DEF ScanInv, Distinct, SlotsWon, SlugsOf

(* The recursive function is well defined: its value exists by induction on *)
(* the length of the walk.                                                  *)
LEMMA WalkedUnfolds ==
  Walked = [k \in 0 .. Len(Walk) |-> IF k = 0 THEN Blank(1) ELSE Visit(Walked[k - 1], Walk[k])]
<1>1. PICK L : L = Len(Walk)
  OBVIOUS
<1>2. L \in Nat /\ L \in 0 .. L
  BY <1>1, WalkFacts
<1> DEFINE T == {n \in Nat : \E g : g = [k \in 0 .. n |-> IF k = 0 THEN Blank(1) ELSE Visit(g[k - 1], Walk[k])]}
<1>3. 0 \in T
  <2>1. PICK g : g = [k \in 0 .. 0 |-> Blank(1)]
    OBVIOUS
  <2>2. \A k \in 0 .. 0 : k = 0
    OBVIOUS
  <2>3. g = [k \in 0 .. 0 |-> IF k = 0 THEN Blank(1) ELSE Visit(g[k - 1], Walk[k])]
    BY <2>1, <2>2, Zenon
  <2> QED
    BY <2>3
<1>4. ASSUME NEW n \in Nat, n \in T PROVE n + 1 \in T
  <2>1. PICK g : g = [k \in 0 .. n |-> IF k = 0 THEN Blank(1) ELSE Visit(g[k - 1], Walk[k])]
    BY <1>4
  <2>2. PICK h : h = [k \in 0 .. n + 1 |-> IF k = n + 1 THEN Visit(g[n], Walk[n + 1]) ELSE g[k]]
    OBVIOUS
  <2>3. h[0] = Blank(1) /\ \A k \in 0 .. n : h[k] = g[k]
    BY <2>1, <2>2
  <2>4. ASSUME NEW k \in 0 .. n + 1
        PROVE  h[k] = IF k = 0 THEN Blank(1) ELSE Visit(h[k - 1], Walk[k])
    <3>1. CASE k = 0
      BY <2>3, <3>1
    <3>2. CASE k = n + 1
      <4>1. n \in 0 .. n /\ k - 1 = n /\ k # 0
        BY <3>2
      <4>2. h[n] = g[n] /\ h[k] = Visit(g[n], Walk[n + 1])
        BY <2>2, <2>3, <3>2, <4>1
      <4> QED
        BY <3>2, <4>1, <4>2
    <3>3. CASE k # 0 /\ k # n + 1
      <4>1. k \in 0 .. n /\ k - 1 \in 0 .. n
        BY <3>3
      <4>2. g[k] = Visit(g[k - 1], Walk[k])
        BY <2>1, <3>3, <4>1
      <4> QED
        BY <2>3, <3>3, <4>1, <4>2
    <3> QED
      BY <3>1, <3>2, <3>3
  <2>5. h = [k \in 0 .. n + 1 |-> IF k = 0 THEN Blank(1) ELSE Visit(h[k - 1], Walk[k])]
    BY <2>2, <2>4
  <2> QED
    BY <2>5
<1>5. L \in T
  <2> HIDE DEF T
  <2> QED
    BY <1>2, <1>3, <1>4, UpTo
<1>6. \E g : g = [k \in 0 .. Len(Walk) |-> IF k = 0 THEN Blank(1) ELSE Visit(g[k - 1], Walk[k])]
  BY <1>1, <1>5
<1> QED
  BY <1>6, Zenon DEF Walked

(* The walk of Init has read every file as it is on disk.                   *)
LEMMA WalkedFacts ==
  ASSUME disk \in [Files -> {None} \cup Texts]
  PROVE  \A k \in 0 .. Len(Walk) :
           /\ Walked[k] \in Scans /\ ScanInv(Walked[k]) /\ Walked[k].at = 1 /\ Len(Walked[k].read) = k
           /\ \A j \in 1 .. k : Walked[k].read[j] = disk[Walk[j]]
<1>1. PICK L : L = Len(Walk)
  OBVIOUS
<1>2. L \in Nat
  BY <1>1, WalkFacts
<1> DEFINE Good(k) == /\ Walked[k] \in Scans /\ ScanInv(Walked[k]) /\ Walked[k].at = 1 /\ Len(Walked[k].read) = k
                      /\ \A j \in 1 .. k : Walked[k].read[j] = disk[Walk[j]]
           T == {k \in 0 .. L : Good(k)}
<1>3. 0 \in T
  <2>1. Walked[0] = Blank(1)
    BY <1>1, <1>2, WalkedUnfolds
  <2>2. Good(0)
    BY <2>1, BlankFacts
  <2> QED
    BY <1>2, <2>2
<1>4. ASSUME NEW k \in 0 .. L - 1, k \in T PROVE k + 1 \in T
  <2>1. /\ k + 1 \in 0 .. Len(Walk) /\ k + 1 # 0 /\ k + 1 - 1 = k /\ k < Len(Walk) /\ k \in Nat
        /\ k + 1 \in 0 .. L /\ k + 1 \in 1 .. Len(Walk)
    BY <1>1, <1>2
  <2>2. Good(k)
    BY <1>4
  <2>3. PICK s : s = Walked[k]
    OBVIOUS
  <2>4. PICK f : f = Walk[k + 1]
    OBVIOUS
  <2>5. PICK v : v = Walked[k + 1]
    OBVIOUS
  <2>6. v = Visit(s, f)
    <3>1. Walked[k + 1] = IF k + 1 = 0 THEN Blank(1) ELSE Visit(Walked[k + 1 - 1], Walk[k + 1])
      BY <2>1, WalkedUnfolds
    <3> QED
      BY <2>1, <2>3, <2>4, <2>5, <3>1
  <2>7. /\ s \in Scans /\ ScanInv(s) /\ Len(s.read) = k /\ s.at = 1
        /\ \A j \in 1 .. k : s.read[j] = disk[Walk[j]]
    BY <2>2, <2>3
  <2>8. f \in Files /\ disk[f] \in {None} \cup Texts
    BY <2>1, <2>4, WalkFacts
  <2>9. /\ v \in Scans /\ ScanInv(v) /\ v.read = Append(s.read, disk[f])
        /\ Len(v.read) = k + 1 /\ v.at = 1
    <3>1. Len(s.read) < Len(Walk) /\ f = Walk[Len(s.read) + 1]
      BY <2>1, <2>4, <2>7
    <3>2. /\ v \in Scans /\ ScanInv(v) /\ v.read = Append(s.read, disk[f])
          /\ Len(v.read) = Len(s.read) + 1 /\ v.at = s.at
      BY <2>6, <2>7, <2>8, <3>1, VisitFacts
    <3> QED
      BY <2>7, <3>2
  <2>10. ASSUME NEW j \in 1 .. k + 1 PROVE v.read[j] = disk[Walk[j]]
    <3>1. s.read \in Seq({None} \cup Texts)
      BY <2>7 DEF Scans
    <3>2. v.read[k + 1] = disk[f] /\ \A i \in 1 .. k : v.read[i] = s.read[i]
      BY <2>7, <2>8, <2>9, <3>1
    <3>3. j = k + 1 \/ j \in 1 .. k
      BY <2>1
    <3> QED
      BY <2>4, <2>7, <3>2, <3>3
  <2> QED
    BY <2>1, <2>5, <2>9, <2>10
<1>5. ASSUME NEW k \in 0 .. L PROVE k \in T
  <2> HIDE DEF T
  <2> QED
    BY <1>2, <1>3, <1>4, UpTo
<1> QED
  BY <1>1, <1>5

(* What a finished walk is served as.                                       *)
LEMMA FinishedFacts ==
  ASSUME NEW scan \in Scans, ScanInv(scan), Len(scan.read) = Len(Walk), NEW x, x = Finished(scan)
  PROVE  x \in Indexes /\ IndexInv(x) /\ x.read = scan.read /\ x.builtAt = scan.at
<1>1. PICK e : e = scan.entries
  OBVIOUS
<1>2. PICK s : s = Sorted(e)
  OBVIOUS
<1>3. /\ x = [entries |-> x.entries, bySlug |-> x.bySlug, aliases |-> x.aliases,
              builtAt |-> x.builtAt, read |-> x.read, gone |-> x.gone]
      /\ x.entries = s /\ x.bySlug = Numbered(s) /\ x.aliases = scan.aliases
      /\ x.builtAt = scan.at /\ x.read = scan.read /\ x.gone = {}
  BY <1>1, <1>2 DEF Finished
<1>4. /\ e \in Seq(Pages) /\ scan.aliases \in Partial(Slugs) /\ scan.at \in Nat
      /\ scan.read \in Seq({None} \cup Texts) /\ Distinct(e) /\ SlotsWon(e, scan.read)
      /\ \A k \in DOMAIN scan.read : scan.read[k] # None =>
            Own[Walk[k]] \in SlugsOf(e) \cup DOMAIN scan.aliases
  BY <1>1 DEF Scans, ScanInv
<1>5. /\ s \in Seq(Pages) /\ DOMAIN s = DOMAIN e /\ Distinct(s)
      /\ \A i \in DOMAIN e : \E j \in DOMAIN e : s[i] = e[j]
      /\ \A j \in DOMAIN e : \E i \in DOMAIN e : s[i] = e[j]
  BY <1>2, <1>4, SortedFacts
<1>6. SlugsOf(s) = SlugsOf(e)
  <2>1. \A i \in DOMAIN s : s[i].slug \in SlugsOf(e)
    <3> SUFFICES ASSUME NEW i \in DOMAIN s PROVE s[i].slug \in SlugsOf(e)
      OBVIOUS
    <3>1. PICK j \in DOMAIN e : s[i] = e[j]
      BY <1>5
    <3> QED
      BY <3>1 DEF SlugsOf
  <2>2. \A j \in DOMAIN e : e[j].slug \in SlugsOf(s)
    <3> SUFFICES ASSUME NEW j \in DOMAIN e PROVE e[j].slug \in SlugsOf(s)
      OBVIOUS
    <3>1. PICK i \in DOMAIN s : s[i] = e[j]
      BY <1>5
    <3>2. e[j].slug = s[i].slug
      BY <3>1
    <3> QED
      BY <3>2 DEF SlugsOf
  <2> QED
    BY <2>1, <2>2 DEF SlugsOf
<1>7. SlotsWon(s, scan.read)
  <2> SUFFICES ASSUME NEW i \in DOMAIN s
               PROVE  \E k \in DOMAIN scan.read : Wins(scan.read, s[i].slug, k) /\ s[i].file = Walk[k]
    BY DEF SlotsWon
  <2>1. PICK j \in DOMAIN e : s[i] = e[j]
    BY <1>5
  <2> QED
    BY <1>4, <2>1 DEF SlotsWon
<1>8. PICK b : b = Numbered(s)
  OBVIOUS
<1>9. /\ DOMAIN b = SlugsOf(s)
      /\ \A t \in DOMAIN b : b[t] \in DOMAIN s /\ s[b[t]].slug = t
  <2>1. DOMAIN b = SlugsOf(s) /\ \A t \in SlugsOf(s) : b[t] = CHOOSE i \in DOMAIN s : s[i].slug = t
    BY <1>8 DEF Numbered, SlugsOf
  <2>2. \A t \in SlugsOf(s) : \E i \in DOMAIN s : s[i].slug = t
    BY DEF SlugsOf
  <2> QED
    BY <2>1, <2>2
<1>10. b \in Partial(Nat)
  <2>1. \A i \in DOMAIN s : i \in Nat /\ s[i].slug \in Slugs
    <3>1. \A q \in Pages : q.slug \in Slugs
      BY DEF Pages
    <3>2. s \in Seq(Pages)
      BY <1>5
    <3>3. \A i \in DOMAIN s : i \in Nat /\ s[i] \in Pages
      BY <3>2
    <3> QED
      BY <3>1, <3>3
  <2>2. SlugsOf(s) \in SUBSET Slugs
    BY <2>1 DEF SlugsOf
  <2>3. b \in [SlugsOf(s) -> Nat]
    <3>1. \A t \in SlugsOf(s) : b[t] \in Nat
      BY <1>9, <2>1
    <3>2. b = [t \in SlugsOf(s) |-> b[t]]
      BY <1>8, <1>9 DEF Numbered
    <3> QED
      BY <3>1, <3>2
  <2> QED
    BY <2>2, <2>3 DEF Partial
<1>11. x \in Indexes
  BY <1>3, <1>4, <1>5, <1>8, <1>10 DEF Indexes
<1>12. \A k \in DOMAIN x.read : x.read[k] # None =>
          Own[Walk[k]] \in DOMAIN x.bySlug \cup DOMAIN x.aliases \cup x.gone
  BY <1>3, <1>4, <1>6, <1>8, <1>9
<1> QED
  BY <1>3, <1>5, <1>7, <1>8, <1>9, <1>11, <1>12 DEF IndexInv

(* update_page changes the title of one entry.                              *)
LEMMA UpsertFacts ==
  ASSUME NEW x \in Indexes, IndexInv(x), NEW s \in DOMAIN x.bySlug,
         NEW y, y = [x EXCEPT !.entries[x.bySlug[s]].title = 1]
  PROVE  y \in Indexes /\ IndexInv(y) /\ y.read = x.read /\ y.builtAt = x.builtAt
<1>1. PICK e : e = x.entries
  OBVIOUS
<1>2. PICK p : p = x.bySlug[s]
  OBVIOUS
<1>3. e \in Seq(Pages) /\ p \in DOMAIN e
  BY <1>1, <1>2 DEF Indexes, IndexInv
<1>4. PICK g : g = [e EXCEPT ![p].title = 1]
  OBVIOUS
<1>5. y = [x EXCEPT !.entries = g]
  BY <1>1, <1>2, <1>4 DEF Indexes
<1>6. /\ y = [entries |-> y.entries, bySlug |-> y.bySlug, aliases |-> y.aliases,
              builtAt |-> y.builtAt, read |-> y.read, gone |-> y.gone]
      /\ y.entries = g /\ y.bySlug = x.bySlug /\ y.aliases = x.aliases
      /\ y.builtAt = x.builtAt /\ y.read = x.read /\ y.gone = x.gone
  BY <1>5 DEF Indexes
<1>7. /\ DOMAIN g = DOMAIN e /\ g \in Seq(Pages)
      /\ \A i \in DOMAIN e : g[i].slug = e[i].slug /\ g[i].file = e[i].file
  <2>1. e \in [1 .. Len(e) -> Pages] /\ DOMAIN e = 1 .. Len(e) /\ Len(e) \in Nat
    BY <1>3
  <2>2. PICK q : q = [e[p] EXCEPT !.title = 1]
    OBVIOUS
  <2>3. e[p] \in Pages
    BY <1>3
  <2>4. q \in Pages /\ q.slug = e[p].slug /\ q.file = e[p].file
    BY <2>2, <2>3 DEF Pages
  <2>5. g = [e EXCEPT ![p] = q]
    BY <1>4, <2>2
  <2>6. g \in [1 .. Len(e) -> Pages]
    BY <2>1, <2>4, <2>5
  <2> QED
    BY <2>1, <2>4, <2>5, <2>6
<1>8. Distinct(g) /\ SlugsOf(g) = SlugsOf(e)
  BY <1>1, <1>7 DEF IndexInv, Distinct, SlugsOf
<1>9. SlotsWon(g, x.read)
  BY <1>1, <1>7 DEF IndexInv, SlotsWon
<1>10. \A t \in DOMAIN x.bySlug : x.bySlug[t] \in DOMAIN g /\ g[x.bySlug[t]].slug = t
  BY <1>1, <1>7 DEF IndexInv
<1>11. y \in Indexes
  BY <1>6, <1>7 DEF Indexes
<1> QED
  BY <1>1, <1>6, <1>8, <1>9, <1>10, <1>11 DEF IndexInv

(* delete_page takes one entry out; those behind it move up.                *)
LEMMA RemoveFacts ==
  ASSUME NEW x \in Indexes, IndexInv(x), NEW s \in DOMAIN x.bySlug,
         NEW left, left = RemoveAt(x.entries, x.bySlug[s]),
         NEW y, y = [x EXCEPT !.entries = left, !.bySlug = Renumbered(@, left, s, x.bySlug[s]),
                              !.gone = @ \cup {s}]
  PROVE  y \in Indexes /\ IndexInv(y) /\ y.read = x.read /\ y.builtAt = x.builtAt
<1>1. PICK e : e = x.entries
  OBVIOUS
<1>2. PICK p : p = x.bySlug[s]
  OBVIOUS
<1>3. e \in Seq(Pages) /\ p \in DOMAIN e /\ e[p].slug = s
  BY <1>1, <1>2 DEF Indexes, IndexInv
<1>4. PICK m : m = Len(e)
  OBVIOUS
<1>5. m \in Nat /\ p \in 1 .. m /\ DOMAIN e = 1 .. m /\ p \in Nat /\ \A i \in 1 .. m : e[i] \in Pages
  BY <1>3, <1>4
<1>6. /\ left \in Seq(Pages) /\ DOMAIN left = 1 .. m - 1 /\ Len(left) = m - 1
      /\ \A i \in 1 .. m - 1 : left[i] = IF i < p THEN e[i] ELSE e[i + 1]
  <2>1. left = SubSeq(e, 1, p - 1) \o SubSeq(e, p + 1, m)
    BY <1>1, <1>2, <1>4 DEF RemoveAt
  <2>2. PICK a : a = SubSeq(e, 1, p - 1)
    OBVIOUS
  <2>3. PICK z : z = SubSeq(e, p + 1, m)
    OBVIOUS
  <2>4. a \in Seq(Pages) /\ Len(a) = p - 1 /\ \A i \in 1 .. p - 1 : a[i] = e[i]
    BY <1>3, <1>4, <1>5, <2>2
  <2>5. z \in Seq(Pages) /\ Len(z) = m - p /\ \A i \in 1 .. m - p : z[i] = e[p + i]
    BY <1>3, <1>4, <1>5, <2>3
  <2>6. left = a \o z
    BY <2>1, <2>2, <2>3
  <2>7. left \in Seq(Pages) /\ Len(left) = m - 1 /\ DOMAIN left = 1 .. m - 1
    <3>1. left \in Seq(Pages) /\ Len(left) = Len(a) + Len(z)
      <4>1. a \in Seq(Pages) /\ z \in Seq(Pages)
        BY <2>4, <2>5
      <4>2. a \o z \in Seq(Pages)
        BY <4>1
      <4>3. Len(a \o z) = Len(a) + Len(z)
        BY <4>1
      <4> QED
        BY <2>6, <4>2, <4>3
    <3>2. Len(left) = m - 1
      BY <1>5, <2>4, <2>5, <3>1
    <3> QED
      BY <3>1, <3>2
  <2>8. ASSUME NEW i \in 1 .. m - 1 PROVE left[i] = IF i < p THEN e[i] ELSE e[i + 1]
    <3>1. left[i] = IF i <= Len(a) THEN a[i] ELSE z[i - Len(a)]
      BY <1>5, <2>4, <2>5, <2>6
    <3>2. CASE i < p
      BY <1>5, <2>4, <3>1, <3>2
    <3>3. CASE ~ (i < p)
      <4>1. ~ (i <= p - 1) /\ i - (p - 1) \in 1 .. m - p /\ p + (i - (p - 1)) = i + 1
        BY <1>5, <3>3
      <4> QED
        BY <2>4, <2>5, <3>1, <3>3, <4>1
    <3> QED
      BY <3>2, <3>3
  <2> QED
    BY <2>7, <2>8
<1>7. PICK b : b = Renumbered(x.bySlug, left, s, p)
  OBVIOUS
<1>8. /\ y = [entries |-> y.entries, bySlug |-> y.bySlug, aliases |-> y.aliases,
              builtAt |-> y.builtAt, read |-> y.read, gone |-> y.gone]
      /\ y.entries = left /\ y.bySlug = b /\ y.aliases = x.aliases
      /\ y.builtAt = x.builtAt /\ y.read = x.read /\ y.gone = x.gone \cup {s}
  BY <1>2, <1>7 DEF Indexes
<1>9. /\ Distinct(e) /\ DOMAIN x.bySlug = SlugsOf(e)
      /\ \A t \in DOMAIN x.bySlug : x.bySlug[t] \in 1 .. m /\ e[x.bySlug[t]].slug = t
      /\ SlotsWon(e, x.read)
  BY <1>1, <1>5 DEF IndexInv
(* Each entry that is left was there, and each that was there but one is left. *)
<1>10. ASSUME NEW i \in 1 .. m - 1
       PROVE  \E j \in 1 .. m : j # p /\ left[i] = e[j] /\ ((j = i /\ i < p) \/ (j = i + 1 /\ i >= p))
  <2>1. CASE i < p
    BY <1>5, <1>6, <2>1
  <2>2. CASE ~ (i < p)
    BY <1>5, <1>6, <2>2
  <2> QED
    BY <2>1, <2>2
<1>11. ASSUME NEW j \in 1 .. m, j # p
       PROVE  \/ j < p /\ j \in 1 .. m - 1 /\ left[j] = e[j]
              \/ j > p /\ j - 1 \in p .. m - 1 /\ j - 1 \in 1 .. m - 1 /\ left[j - 1] = e[j]
  <2>1. CASE j < p
    BY <1>5, <1>6, <2>1
  <2>2. CASE j > p
    <3>1. j - 1 \in p .. m - 1 /\ j - 1 \in 1 .. m - 1 /\ ~ (j - 1 < p) /\ j - 1 + 1 = j
      BY <1>5, <2>2
    <3> QED
      BY <1>6, <2>2, <3>1
  <2> QED
    BY <1>5, <1>11, <2>1, <2>2
<1>12. Distinct(left)
  <2> SUFFICES ASSUME NEW i \in 1 .. m - 1, NEW k \in 1 .. m - 1, left[i].slug = left[k].slug PROVE i = k
    BY <1>6 DEF Distinct
  <2>1. PICK a \in 1 .. m : a # p /\ left[i] = e[a] /\ ((a = i /\ i < p) \/ (a = i + 1 /\ i >= p))
    BY <1>10
  <2>2. PICK c \in 1 .. m : c # p /\ left[k] = e[c] /\ ((c = k /\ k < p) \/ (c = k + 1 /\ k >= p))
    BY <1>10
  <2>3. a = c
    BY <1>5, <1>9, <2>1, <2>2 DEF Distinct
  <2> QED
    BY <1>5, <2>1, <2>2, <2>3
<1>13. SlugsOf(left) = SlugsOf(e) \ {s}
  <2>1. ASSUME NEW i \in 1 .. m - 1 PROVE left[i].slug \in SlugsOf(e) \ {s}
    <3>1. PICK j \in 1 .. m : j # p /\ left[i] = e[j]
      BY <1>10
    <3>2. e[j].slug # s
      BY <1>3, <1>5, <1>9, <3>1 DEF Distinct
    <3> QED
      BY <1>5, <3>1, <3>2 DEF SlugsOf
  <2>2. ASSUME NEW t \in SlugsOf(e) \ {s} PROVE t \in SlugsOf(left)
    <3>1. PICK j \in 1 .. m : e[j].slug = t
      BY <1>5 DEF SlugsOf
    <3>2. j # p
      BY <1>3, <3>1
    <3>3. \E i \in 1 .. m - 1 : left[i] = e[j]
      BY <1>11, <3>2
    <3> QED
      BY <1>6, <3>1, <3>3 DEF SlugsOf
  <2>3. SlugsOf(left) \subseteq SlugsOf(e) \ {s}
    BY <1>6, <2>1 DEF SlugsOf
  <2> QED
    BY <2>2, <2>3
<1>14. DOMAIN b = SlugsOf(left) /\ DOMAIN b = DOMAIN x.bySlug \ {s}
  BY <1>7, <1>9, <1>13 DEF Renumbered
<1>15. ASSUME NEW t \in DOMAIN b PROVE b[t] \in DOMAIN left /\ left[b[t]].slug = t
  <2>1. t \in DOMAIN x.bySlug \ {s}
    BY <1>14
  <2>2. b[t] = IF \E i \in p .. Len(left) : left[i].slug = t
               THEN CHOOSE i \in p .. Len(left) : left[i].slug = t ELSE x.bySlug[t]
    BY <1>7, <2>1 DEF Renumbered
  <2>3. CASE \E i \in p .. Len(left) : left[i].slug = t
    <3>1. b[t] \in p .. Len(left) /\ left[b[t]].slug = t
      BY <2>2, <2>3
    <3> QED
      BY <1>5, <1>6, <3>1
  <2>4. CASE ~ \E i \in p .. Len(left) : left[i].slug = t
    <3>1. PICK j \in 1 .. m : j = x.bySlug[t] /\ e[j].slug = t
      BY <1>9, <2>1
    <3>2. j # p
      BY <1>3, <2>1, <3>1
    <3>3. j < p /\ j \in 1 .. m - 1 /\ left[j] = e[j]
      BY <1>6, <1>11, <2>4, <3>1, <3>2
    <3> QED
      BY <1>6, <2>2, <2>4, <3>1, <3>3
  <2> QED
    BY <2>3, <2>4
<1>16. SlotsWon(left, x.read)
  <2> SUFFICES ASSUME NEW i \in 1 .. m - 1
               PROVE  \E k \in DOMAIN x.read : Wins(x.read, left[i].slug, k) /\ left[i].file = Walk[k]
    BY <1>6 DEF SlotsWon
  <2>1. PICK j \in 1 .. m : left[i] = e[j]
    BY <1>10
  <2> QED
    BY <1>5, <1>9, <2>1 DEF SlotsWon
<1>17. SlugsOf(left) \in SUBSET Slugs
  <2>1. \A q \in Pages : q.slug \in Slugs
    BY DEF Pages
  <2> QED
    BY <1>6, <2>1 DEF SlugsOf
<1>18. b \in Partial(Nat)
  <2>1. \A t \in SlugsOf(left) : b[t] \in Nat
    BY <1>6, <1>14, <1>15
  <2>2. b = [t \in SlugsOf(left) |-> b[t]]
    BY <1>7, <1>14 DEF Renumbered
  <2>3. b \in [SlugsOf(left) -> Nat]
    BY <2>1, <2>2
  <2> QED
    BY <1>17, <2>3 DEF Partial
<1>19. y \in Indexes
  <2>1. s \in Slugs
    <3>1. \A q \in Pages : q.slug \in Slugs
      BY DEF Pages
    <3> QED
      BY <1>3, <1>5, <3>1
  <2> QED
    BY <1>6, <1>8, <1>18, <2>1 DEF Indexes
<1>20. \A k \in DOMAIN y.read : y.read[k] # None =>
          Own[Walk[k]] \in DOMAIN y.bySlug \cup DOMAIN y.aliases \cup y.gone
  BY <1>8, <1>14 DEF IndexInv
<1>21. Len(y.read) = Len(Walk)
  BY <1>8 DEF IndexInv
<1> QED
  BY <1>8, <1>12, <1>14, <1>15, <1>16, <1>19, <1>20, <1>21 DEF IndexInv

-----------------------------------------------------------------------------
(* The initial states                                                       *)

Pcs == {"idle", "scan", "evict reload", "evict edit", "reset"}

(* A mutator at rest.                                                       *)
LEMMA IdleFacts == /\ Idle \in [pc : Pcs, scan : Scans] /\ ScanInv(Idle.scan)
                   /\ Idle.pc = "idle" /\ DOMAIN Idle.scan.read = {} /\ Idle.scan.at = 0
<1>1. PICK b : b = Blank(0)
  OBVIOUS
<1>2. b \in Scans /\ ScanInv(b) /\ DOMAIN b.read = {} /\ b.at = 0
  BY <1>1, BlankFacts
<1>3. Idle = [pc |-> "idle", scan |-> b]
  BY <1>1 DEF Idle
<1> QED
  BY <1>2, <1>3 DEF Pcs

(* The index the server starts with.                                        *)
LEMMA InitInv == Init => IInv
<1> SUFFICES ASSUME Init PROVE IInv
  OBVIOUS
<1>1. disk \in [Files -> {None} \cup Texts]
  <2>1. {b.canon : b \in Bodies} \subseteq Slugs /\ {b.links : b \in Bodies} \subseteq SUBSET Slugs
    BY SiteIndexAssumption
  <2>2. PICK C : C = {b.canon : b \in Bodies}
    OBVIOUS
  <2>3. PICK K : K = {b.links : b \in Bodies}
    OBVIOUS
  <2>4. [canon : C, links : K, at : {1}] \subseteq Texts
    BY <2>1, <2>2, <2>3 DEF Texts
  <2>5. disk \in [Files -> {None} \cup [canon : C, links : K, at : {1}]]
    BY <2>2, <2>3 DEF Init
  <2> QED
    BY <2>4, <2>5
<1>2. PICK w : w = Walked[Len(Walk)]
  OBVIOUS
<1>3. /\ w \in Scans /\ ScanInv(w) /\ w.at = 1 /\ Len(w.read) = Len(Walk)
      /\ \A j \in 1 .. Len(Walk) : w.read[j] = disk[Walk[j]]
  <2>1. Len(Walk) \in 0 .. Len(Walk)
    BY WalkFacts
  <2> QED
    BY <1>1, <1>2, <2>1, WalkedFacts
<1>4. index \in Indexes /\ IndexInv(index) /\ index.read = w.read /\ index.builtAt = 1
  <2>1. index = Finished(w)
    BY <1>2 DEF Init
  <2> QED
    BY <1>3, <2>1, FinishedFacts
<1>5. DOMAIN index.read = 1 .. Len(Walk)
  <2>1. w.read \in Seq({None} \cup Texts)
    BY <1>3 DEF Scans
  <2> QED
    BY <1>3, <1>4, <2>1
<1>6. /\ mutator \in [pc : Pcs, scan : Scans] /\ ScanInv(mutator.scan)
      /\ DOMAIN mutator.scan.read = {} /\ mutator.scan.at = 0 /\ mutator.pc = "idle"
  BY IdleFacts DEF Init
<1>7. \A r \in Readers : reader[r] = AtRest
  BY DEF Init
<1>8. reader \in [Readers -> [pc : {"idle", "pages", "resolve", "walk", "answer"},
                              todo : SUBSET Links, found : SUBSET Links,
                              basis : Nat, changed : BOOLEAN]]
  BY DEF Init, AtRest
<1>9. TypeOK
  <2>1. clock \in Nat
    BY DEF Init
  <2>2. backlinks \in [map : {None} \cup SUBSET Links, by : {None} \cup Readers]
    BY DEF Init
  <2>3. staleness \in [at : Nat, stale : BOOLEAN, basis : Nat, by : {None} \cup Readers]
    BY DEF Init
  <2> QED
    BY <1>1, <1>4, <1>6, <1>8, <2>1, <2>2, <2>3 DEF TypeOK, Pcs
<1>10. NewerInv
  <2>1. Newer(index.read, index.builtAt)
    BY <1>3, <1>4, <1>5 DEF Newer
  <2>2. Newer(mutator.scan.read, mutator.scan.at)
    BY <1>6 DEF Newer
  <2>3. index.builtAt <= clock /\ mutator.scan.at <= clock
    BY <1>4, <1>6 DEF Init
  <2> QED
    BY <2>1, <2>2, <2>3 DEF NewerInv
<1>11. BacklinkInv /\ StalenessInv
  <2>1. AtRest.pc = "idle" /\ AtRest.found = {}
    BY DEF AtRest
  <2> QED
    BY <1>7, <2>1 DEF BacklinkInv, StalenessInv
<1>12. BacklinksAreCurrent /\ StalenessIsCurrent
  BY DEF Init, BacklinksAreCurrent, StalenessIsCurrent
<1> QED
  BY <1>4, <1>6, <1>9, <1>10, <1>11, <1>12 DEF IInv

-----------------------------------------------------------------------------
(* The walk and the edits of the mutators                                   *)

(* No step of a mutator leaves an index that contradicts its walk.          *)
LEMMA MutatorStep ==
  ASSUME IInv, [Next]_vars
  PROVE  /\ index' \in Indexes /\ IndexInv(index')
         /\ mutator' \in [pc : Pcs, scan : Scans] /\ ScanInv(mutator'.scan)
<1>1. /\ index \in Indexes /\ IndexInv(index) /\ clock \in Nat /\ disk \in [Files -> {None} \cup Texts]
      /\ mutator \in [pc : Pcs, scan : Scans] /\ ScanInv(mutator.scan)
  BY DEF IInv, TypeOK, Pcs
<1>2. CASE index' = index /\ mutator' = mutator
  BY <1>1, <1>2
<1>3. CASE StartReload
  <2>1. PICK b : b = Blank(clock)
    OBVIOUS
  <2>2. b \in Scans /\ ScanInv(b)
    BY <1>1, <2>1, BlankFacts
  <2>3. index' = index /\ mutator' = [pc |-> "scan", scan |-> b]
    BY <1>3, <2>1 DEF StartReload
  <2> QED
    BY <1>1, <2>2, <2>3 DEF Pcs
<1>4. CASE ScanFile
  <2>1. PICK s : s = mutator.scan
    OBVIOUS
  <2>2. s \in Scans /\ ScanInv(s) /\ Len(s.read) < Len(Walk) /\ mutator.pc = "scan"
    BY <1>1, <1>4, <2>1 DEF ScanFile
  <2>3. PICK f : f = Walk[Len(s.read) + 1]
    OBVIOUS
  <2>4. f \in Files /\ disk[f] \in {None} \cup Texts
    <3>1. s.read \in Seq({None} \cup Texts)
      BY <2>2 DEF Scans
    <3>2. Len(s.read) + 1 \in 1 .. Len(Walk)
      BY <2>2, <3>1, WalkFacts
    <3>3. f \in Files
      BY <2>3, <3>2, WalkFacts
    <3> QED
      BY <1>1, <3>3
  <2>5. PICK v : v = Visit(s, f)
    OBVIOUS
  <2>6. v \in Scans /\ ScanInv(v)
    BY <2>2, <2>3, <2>4, <2>5, VisitFacts
  <2>7. index' = index /\ mutator' = IF Full(s, f) THEN Idle ELSE [mutator EXCEPT !.scan = v]
    BY <1>1, <1>4, <2>1, <2>3, <2>5 DEF ScanFile
  <2>8. CASE Full(s, f)
    BY <1>1, <2>7, <2>8, IdleFacts
  <2>9. CASE ~ Full(s, f)
    BY <1>1, <2>6, <2>7, <2>9
  <2> QED
    BY <2>8, <2>9
<1>5. CASE SwapIn
  <2>1. mutator.scan \in Scans /\ Len(mutator.scan.read) = Len(Walk) /\ index' = Finished(mutator.scan)
    BY <1>1, <1>5 DEF SwapIn
  <2>2. index' \in Indexes /\ IndexInv(index')
    BY <1>1, <2>1, FinishedFacts
  <2>3. mutator' = [Idle EXCEPT !.pc = "evict reload"]
    BY <1>5 DEF SwapIn
  <2> QED
    BY <2>2, <2>3, IdleFacts DEF Pcs
<1>6. ASSUME NEW s \in Slugs, UpsertPage(s)
      PROVE  /\ index' \in Indexes /\ IndexInv(index')
             /\ mutator' \in [pc : Pcs, scan : Scans] /\ ScanInv(mutator'.scan)
  <2>1. s \in DOMAIN index.bySlug /\ index' = [index EXCEPT !.entries[index.bySlug[s]].title = 1]
    BY <1>6 DEF UpsertPage
  <2>2. index' \in Indexes /\ IndexInv(index')
    BY <1>1, <2>1, UpsertFacts
  <2>3. mutator' = [Idle EXCEPT !.pc = "evict edit"]
    BY <1>6 DEF UpsertPage
  <2> QED
    BY <2>2, <2>3, IdleFacts DEF Pcs
<1>7. ASSUME NEW s \in Slugs, RemoveBySlug(s)
      PROVE  /\ index' \in Indexes /\ IndexInv(index')
             /\ mutator' \in [pc : Pcs, scan : Scans] /\ ScanInv(mutator'.scan)
  <2>1. PICK left : left = RemoveAt(index.entries, index.bySlug[s])
    OBVIOUS
  <2>2. /\ s \in DOMAIN index.bySlug
        /\ index' = [index EXCEPT !.entries = left, !.bySlug = Renumbered(@, left, s, index.bySlug[s]),
                                  !.gone = @ \cup {s}]
    BY <1>7, <2>1 DEF RemoveBySlug
  <2>3. index' \in Indexes /\ IndexInv(index')
    BY <1>1, <2>1, <2>2, RemoveFacts
  <2>4. mutator' = [Idle EXCEPT !.pc = "evict edit"]
    BY <1>7 DEF RemoveBySlug
  <2> QED
    BY <2>3, <2>4, IdleFacts DEF Pcs
<1>8. CASE Invalidate
  <2>1. index' = index /\ mutator' = [mutator EXCEPT !.pc = IF @ = "evict reload" THEN "reset" ELSE "idle"]
    BY <1>8 DEF Invalidate
  <2> QED
    BY <1>1, <2>1 DEF Pcs
<1>9. CASE ResetStaleness
  <2>1. index' = index /\ mutator' = Idle
    BY <1>9 DEF ResetStaleness
  <2> QED
    BY <1>1, <2>1, IdleFacts
<1>10. CASE Mutate
  BY <1>3, <1>4, <1>5, <1>6, <1>7, <1>8, <1>9, <1>10 DEF Mutate
<1>11. ASSUME NEW r \in Readers, Ask(r) PROVE index' = index /\ mutator' = mutator
  BY <1>11 DEF Ask, AskBacklinks, ReadPages, StoreMap, ResolveLink, AskStaleness, WalkTimes,
               StoreStaleness
<1>12. CASE Pass \/ \E f \in Files : Unlink(f) \/ \E b \in Bodies : Write(f, b)
  BY <1>2, <1>12 DEF Pass, Unlink, Write
<1>13. CASE UNCHANGED vars
  BY <1>2, <1>13 DEF vars
<1> QED
  BY <1>2, <1>10, <1>11, <1>12, <1>13 DEF Next

(* What each action leaves alone.                                           *)
LEMMA Frames ==
  ASSUME IInv, [Next]_vars
  PROVE  \/ /\ \/ Pass \/ \E f \in Files : Unlink(f) \/ \E b \in Bodies : Write(f, b)
            /\ UNCHANGED <<index, mutator, backlinks, staleness, reader>>
         \/ Mutate /\ UNCHANGED <<disk, clock, reader>>
         \/ (\E r \in Readers : Ask(r)) /\ UNCHANGED <<disk, clock, index, mutator>>
         \/ UNCHANGED vars
<1>1. CASE Pass \/ \E f \in Files : Unlink(f) \/ \E b \in Bodies : Write(f, b)
  BY <1>1 DEF Pass, Unlink, Write
<1>2. CASE Mutate
  BY <1>2 DEF Mutate, StartReload, ScanFile, SwapIn, UpsertPage, RemoveBySlug, Invalidate, ResetStaleness
<1>3. CASE \E r \in Readers : Ask(r)
  BY <1>3 DEF Ask, AskBacklinks, ReadPages, StoreMap, ResolveLink, AskStaleness, WalkTimes, StoreStaleness
<1>4. CASE UNCHANGED vars
  BY <1>4
<1> QED
  BY <1>1, <1>2, <1>3, <1>4 DEF Next

(* A file that changes is newer than all that was before.                   *)
LEMMA DiskStep ==
  ASSUME IInv, [Next]_vars
  PROVE  /\ disk' \in [Files -> {None} \cup Texts] /\ clock' \in Nat /\ clock <= clock'
         /\ \A f \in Files : disk'[f] # None /\ disk'[f] # disk[f] => disk'[f].at > clock
<1>1. clock \in Nat /\ disk \in [Files -> {None} \cup Texts]
  BY DEF IInv, TypeOK
<1>2. CASE disk' = disk /\ clock' = clock
  BY <1>1, <1>2
<1>3. CASE Pass
  BY <1>1, <1>3, SiteIndexAssumption DEF Pass
<1>4. ASSUME NEW f \in Files, Unlink(f)
      PROVE  /\ disk' \in [Files -> {None} \cup Texts] /\ clock' = clock + 1
             /\ \A g \in Files : disk'[g] # None => disk'[g] = disk[g]
  BY <1>1, <1>4 DEF Unlink
<1>5. ASSUME NEW f \in Files, NEW b \in Bodies, Write(f, b)
      PROVE  /\ disk' \in [Files -> {None} \cup Texts] /\ clock' = clock + 1
             /\ \A g \in Files : disk'[g] # disk[g] => disk'[g].at > clock
  <2>1. PICK t : t = [canon |-> b.canon, links |-> b.links, at |-> clock + 1]
    OBVIOUS
  <2>2. t \in Texts /\ t.at = clock + 1
    BY <1>1, <2>1, SiteIndexAssumption DEF Texts
  <2>3. clock' = clock + 1 /\ disk' = [disk EXCEPT ![f] = t]
    BY <1>5, <2>1 DEF Write
  <2>4. \A g \in Files : disk'[g] # disk[g] => disk'[g] = t
    BY <1>1, <2>3
  <2>5. clock + 1 > clock
    BY <1>1
  <2> QED
    BY <1>1, <2>2, <2>3, <2>4, <2>5
<1>6. clock + 1 \in Nat /\ clock <= clock + 1
  BY <1>1
<1> QED
  BY <1>2, <1>3, <1>4, <1>5, <1>6, Frames DEF vars

(* What was read stays older than what changes after it.                    *)
LEMMA NewerStep ==
  ASSUME IInv, [Next]_vars
  PROVE  NewerInv'
<1>1. /\ index \in Indexes /\ IndexInv(index) /\ clock \in Nat /\ disk \in [Files -> {None} \cup Texts]
      /\ mutator \in [pc : Pcs, scan : Scans] /\ ScanInv(mutator.scan) /\ NewerInv
  BY DEF IInv, TypeOK, Pcs
<1>2. /\ index.read \in Seq({None} \cup Texts) /\ index.builtAt \in Nat
      /\ mutator.scan.read \in Seq({None} \cup Texts) /\ mutator.scan.at \in Nat
      /\ Len(index.read) <= Len(Walk) /\ Len(mutator.scan.read) <= Len(Walk)
  <2>1. Len(index.read) <= Len(Walk)
    BY <1>1, WalkFacts DEF IndexInv
  <2> QED
    BY <1>1, <2>1 DEF Indexes, Scans, ScanInv
<1>3. \A k \in DOMAIN index.read : Walk[k] \in Files
  BY <1>2, WalkFacts, SMTT(30)
<1>4. \A k \in DOMAIN mutator.scan.read : Walk[k] \in Files
  BY <1>2, WalkFacts, SMTT(30)
<1>5. \A f \in Files : disk[f] # None => disk[f].at \in Nat
  <2>1. \A t \in Texts : t.at \in Nat
    BY DEF Texts
  <2> QED
    BY <1>1, <2>1
(* Files change, and what was read stays as it was.                         *)
<1>6. ASSUME NEW read, NEW at \in Nat, \A k \in DOMAIN read : Walk[k] \in Files,
             Newer(read, at), at <= clock, NEW k \in DOMAIN read,
             disk'[Walk[k]] # None, disk'[Walk[k]] # read[k]
      PROVE  disk'[Walk[k]].at > at
  <2>1. PICK f \in Files : f = Walk[k]
    BY <1>6
  <2>2. CASE disk'[f] = disk[f]
    BY <1>6, <2>1, <2>2 DEF Newer
  <2>3. CASE disk'[f] # disk[f]
    <3>1. disk'[f].at > clock /\ disk'[f].at \in Nat
      <4>1. \A t \in Texts : t.at \in Nat
        BY DEF Texts
      <4> QED
        BY <1>6, <2>1, <2>3, <4>1, DiskStep
    <3> QED
      BY <1>1, <1>6, <2>1, <3>1
  <2> QED
    BY <2>2, <2>3
<1>7. /\ index.builtAt <= clock /\ mutator.scan.at <= clock /\ clock' \in Nat /\ clock <= clock'
      /\ Newer(index.read, index.builtAt) /\ Newer(mutator.scan.read, mutator.scan.at)
  BY <1>1, DiskStep DEF NewerInv
<1>8. CASE index' = index /\ mutator' = mutator
  <2>1. Newer(index.read, index.builtAt)'
    BY <1>2, <1>3, <1>6, <1>7, <1>8 DEF Newer
  <2>2. Newer(mutator.scan.read, mutator.scan.at)'
    BY <1>2, <1>4, <1>6, <1>7, <1>8 DEF Newer
  <2>3. index.builtAt <= clock' /\ mutator.scan.at <= clock'
    BY <1>1, <1>2, <1>7
  <2> QED
    BY <1>8, <2>1, <2>2, <2>3 DEF NewerInv
<1>9. CASE Mutate /\ UNCHANGED <<disk, clock>>
  <2>1. ASSUME \/ mutator'.scan.read = mutator.scan.read /\ mutator'.scan.at = mutator.scan.at
               \/ DOMAIN mutator'.scan.read = {} /\ mutator'.scan.at <= clock
        PROVE  Newer(mutator.scan.read, mutator.scan.at)' /\ mutator'.scan.at <= clock'
    BY <1>7, <1>9, <2>1 DEF Newer
  <2>2. ASSUME index'.read = index.read, index'.builtAt = index.builtAt
        PROVE  Newer(index.read, index.builtAt)' /\ index'.builtAt <= clock'
    BY <1>7, <1>9, <2>2 DEF Newer
  <2>3. 0 <= clock
    BY <1>1
  <2>4. CASE StartReload
    <3>1. PICK b : b = Blank(clock)
      OBVIOUS
    <3>2. DOMAIN b.read = {} /\ b.at = clock /\ clock <= clock
      BY <1>1, <3>1, BlankFacts
    <3>3. index' = index /\ mutator' = [pc |-> "scan", scan |-> b]
      BY <2>4, <3>1 DEF StartReload
    <3> QED
      BY <2>1, <2>2, <3>2, <3>3 DEF NewerInv
  <2>5. CASE ScanFile
    <3>1. PICK s : s = mutator.scan
      OBVIOUS
    <3>2. PICK f : f = Walk[Len(s.read) + 1]
      OBVIOUS
    <3>3. PICK v : v = Visit(s, f)
      OBVIOUS
    <3>4. index' = index /\ mutator' = IF Full(s, f) THEN Idle ELSE [mutator EXCEPT !.scan = v]
      BY <1>1, <2>5, <3>1, <3>2, <3>3 DEF ScanFile
    <3>5. CASE Full(s, f)
      BY <2>1, <2>2, <2>3, <3>4, <3>5, IdleFacts DEF NewerInv
    <3>6. CASE ~ Full(s, f)
      <4>1. /\ s \in Scans /\ ScanInv(s) /\ Len(s.read) < Len(Walk) /\ s.read \in Seq({None} \cup Texts)
            /\ Len(s.read) \in Nat /\ Len(s.read) + 1 \in 1 .. Len(Walk)
        <5>1. s \in Scans /\ ScanInv(s) /\ Len(s.read) < Len(Walk)
          BY <1>1, <2>5, <3>1 DEF ScanFile
        <5>2. s.read \in Seq({None} \cup Texts)
          BY <5>1 DEF Scans
        <5> QED
          BY <5>1, <5>2, WalkFacts
      <4>2. f \in Files /\ disk[f] \in {None} \cup Texts
        BY <1>1, <3>2, <4>1, WalkFacts
      <4>3. v.read = Append(s.read, disk[f]) /\ v.at = s.at
        BY <3>2, <3>3, <4>1, <4>2, VisitFacts
      <4>4. mutator'.scan = v
        BY <1>1, <3>4, <3>6
      <4>5. Newer(v.read, v.at)
        <5> SUFFICES ASSUME NEW k \in DOMAIN v.read, disk[Walk[k]] # None, disk[Walk[k]] # v.read[k]
                     PROVE  disk[Walk[k]].at > v.at
          BY DEF Newer
        <5>1. /\ v.read[Len(s.read) + 1] = disk[f]
              /\ k # Len(s.read) + 1 => k \in DOMAIN s.read /\ v.read[k] = s.read[k]
          BY <4>1, <4>2, <4>3
        <5>2. k # Len(s.read) + 1
          BY <3>2, <5>1
        <5> QED
          BY <1>7, <3>1, <4>3, <5>1, <5>2 DEF Newer
      <4>6. Newer(mutator.scan.read, mutator.scan.at)' /\ mutator'.scan.at <= clock'
        BY <1>7, <1>9, <3>1, <4>3, <4>4, <4>5 DEF Newer
      <4> QED
        BY <2>2, <3>4, <4>6 DEF NewerInv
    <3> QED
      BY <3>5, <3>6
  <2>6. CASE SwapIn
    <3>1. PICK s : s = mutator.scan
      OBVIOUS
    <3>2. s \in Scans /\ ScanInv(s) /\ Len(s.read) = Len(Walk) /\ index' = Finished(s)
      BY <1>1, <2>6, <3>1 DEF SwapIn
    <3>3. index'.read = s.read /\ index'.builtAt = s.at
      BY <3>2, FinishedFacts
    <3>4. Newer(index.read, index.builtAt)' /\ index'.builtAt <= clock'
      BY <1>7, <1>9, <3>1, <3>3 DEF Newer
    <3>5. mutator' = [Idle EXCEPT !.pc = "evict reload"]
      BY <2>6 DEF SwapIn
    <3>6. DOMAIN mutator'.scan.read = {} /\ mutator'.scan.at = 0
      BY <3>5, IdleFacts
    <3> QED
      BY <2>1, <2>3, <3>4, <3>6 DEF NewerInv
  <2>7. ASSUME NEW s \in Slugs, UpsertPage(s) PROVE NewerInv'
    <3>1. s \in DOMAIN index.bySlug /\ index' = [index EXCEPT !.entries[index.bySlug[s]].title = 1]
      BY <2>7 DEF UpsertPage
    <3>2. index'.read = index.read /\ index'.builtAt = index.builtAt
      BY <1>1, <3>1, UpsertFacts
    <3>3. mutator' = [Idle EXCEPT !.pc = "evict edit"]
      BY <2>7 DEF UpsertPage
    <3>4. DOMAIN mutator'.scan.read = {} /\ mutator'.scan.at = 0
      BY <3>3, IdleFacts
    <3> QED
      BY <2>1, <2>2, <2>3, <3>2, <3>4 DEF NewerInv
  <2>8. ASSUME NEW s \in Slugs, RemoveBySlug(s) PROVE NewerInv'
    <3>1. PICK left : left = RemoveAt(index.entries, index.bySlug[s])
      OBVIOUS
    <3>2. /\ s \in DOMAIN index.bySlug
          /\ index' = [index EXCEPT !.entries = left, !.bySlug = Renumbered(@, left, s, index.bySlug[s]),
                                    !.gone = @ \cup {s}]
      BY <2>8, <3>1 DEF RemoveBySlug
    <3>3. index'.read = index.read /\ index'.builtAt = index.builtAt
      BY <1>1, <3>2 DEF Indexes
    <3>4. mutator' = [Idle EXCEPT !.pc = "evict edit"]
      BY <2>8 DEF RemoveBySlug
    <3>5. DOMAIN mutator'.scan.read = {} /\ mutator'.scan.at = 0
      BY <3>4, IdleFacts
    <3> QED
      BY <2>1, <2>2, <2>3, <3>3, <3>5 DEF NewerInv
  <2>9. CASE Invalidate
    <3>1. index' = index /\ mutator' = [mutator EXCEPT !.pc = IF @ = "evict reload" THEN "reset" ELSE "idle"]
      BY <2>9 DEF Invalidate
    <3>2. mutator'.scan = mutator.scan
      BY <1>1, <3>1
    <3> QED
      BY <2>1, <2>2, <3>1, <3>2 DEF NewerInv
  <2>10. CASE ResetStaleness
    <3>1. index' = index /\ mutator' = Idle
      BY <2>10 DEF ResetStaleness
    <3> QED
      BY <2>1, <2>2, <2>3, <3>1, IdleFacts DEF NewerInv
  <2> QED
    BY <1>9, <2>4, <2>5, <2>6, <2>7, <2>8, <2>9, <2>10 DEF Mutate
<1> QED
  BY <1>8, <1>9, Frames DEF vars

-----------------------------------------------------------------------------
(* The caches                                                               *)

Readings == [pc : {"idle", "pages", "resolve", "walk", "answer"},
             todo : SUBSET Links, found : SUBSET Links, basis : Nat, changed : BOOLEAN]

(* A reader at rest.                                                        *)
LEMMA RestFacts == /\ AtRest \in Readings /\ AtRest.pc = "idle" /\ AtRest.found = {}
BY DEF AtRest, Readings

(* The links of the entries.                                                *)
LEMMA OutgoingFacts ==
  ASSUME NEW e \in Seq(Pages)
  PROVE  Outgoing(e) \in SUBSET Links
<1> SUFFICES ASSUME NEW l \in Outgoing(e) PROVE l \in Links
  OBVIOUS
<1>1. PICK i \in DOMAIN e : l \in LinksOf(e[i])
  BY DEF Outgoing
<1>2. e[i] \in Pages
  OBVIOUS
<1>3. PICK p : p = e[i]
  OBVIOUS
<1>4. p.slug \in Slugs /\ p.title \in Nat /\ p.links \in SUBSET Slugs
  BY <1>2, <1>3 DEF Pages
<1>5. PICK t \in p.links : l = [from |-> p.slug, title |-> p.title, to |-> t]
  BY <1>1, <1>3 DEF LinksOf
<1> QED
  BY <1>4, <1>5 DEF Links

(* A change of the index is one that drops the map before it ends.          *)
LEMMA MutateFacts ==
  ASSUME IInv, Mutate
  PROVE  /\ \/ index' = index /\ mutator'.pc \in {"idle", "scan"} /\ mutator.pc \in {"idle", "scan"}
               /\ UNCHANGED <<backlinks, staleness>>
            \/ mutator.pc = "scan" /\ mutator'.pc = "evict reload" /\ UNCHANGED <<backlinks, staleness>>
            \/ /\ mutator.pc = "idle" /\ mutator'.pc = "evict edit" /\ UNCHANGED <<backlinks, staleness>>
               /\ index'.builtAt = index.builtAt
            \/ /\ index' = index /\ mutator.pc = "evict reload" /\ mutator'.pc = "reset"
               /\ backlinks.by = None /\ backlinks'.by = None /\ backlinks'.map = None
               /\ backlinks' \in [map : {None} \cup SUBSET Links, by : {None} \cup Readers]
               /\ UNCHANGED staleness
            \/ /\ index' = index /\ mutator.pc = "evict edit" /\ mutator'.pc = "idle"
               /\ backlinks.by = None /\ backlinks'.by = None /\ backlinks'.map = None
               /\ backlinks' \in [map : {None} \cup SUBSET Links, by : {None} \cup Readers]
               /\ UNCHANGED staleness
            \/ /\ index' = index /\ mutator.pc = "reset" /\ mutator'.pc = "idle"
               /\ staleness.by = None /\ staleness'.at = 0
               /\ staleness' \in [at : Nat, stale : BOOLEAN, basis : Nat, by : {None} \cup Readers]
               /\ UNCHANGED backlinks
         /\ UNCHANGED reader
<1>1. /\ index \in Indexes /\ mutator \in [pc : Pcs, scan : Scans]
      /\ backlinks \in [map : {None} \cup SUBSET Links, by : {None} \cup Readers]
      /\ staleness \in [at : Nat, stale : BOOLEAN, basis : Nat, by : {None} \cup Readers]
  BY DEF IInv, TypeOK, Pcs
<1>2. CASE StartReload
  BY <1>1, <1>2 DEF StartReload
<1>3. CASE ScanFile
  BY <1>1, <1>3, IdleFacts DEF ScanFile
<1>4. CASE SwapIn
  <2>1. mutator' = [Idle EXCEPT !.pc = "evict reload"]
    BY <1>4 DEF SwapIn
  <2>2. mutator'.pc = "evict reload"
    BY <2>1, IdleFacts
  <2> QED
    BY <1>4, <2>2 DEF SwapIn
<1>5. ASSUME NEW s \in Slugs, UpsertPage(s) \/ RemoveBySlug(s)
      PROVE  /\ mutator.pc = "idle" /\ mutator'.pc = "evict edit" /\ UNCHANGED <<backlinks, staleness, reader>>
             /\ index'.builtAt = index.builtAt
  <2>1. mutator' = [Idle EXCEPT !.pc = "evict edit"]
    BY <1>5 DEF UpsertPage, RemoveBySlug
  <2>2. mutator'.pc = "evict edit"
    BY <2>1, IdleFacts
  <2>3. index'.builtAt = index.builtAt
    BY <1>1, <1>5 DEF UpsertPage, RemoveBySlug, Indexes
  <2> QED
    BY <1>5, <2>2, <2>3 DEF UpsertPage, RemoveBySlug
<1>6. CASE Invalidate
  BY <1>1, <1>6 DEF Invalidate, Evictable, Evicting
<1>7. CASE ResetStaleness
  BY <1>1, <1>7, IdleFacts DEF ResetStaleness, Resettable
<1> QED
  BY <1>2, <1>3, <1>4, <1>5, <1>6, <1>7 DEF Mutate, StartReload, ScanFile, SwapIn, Invalidate, ResetStaleness

(* The reverse map, under the interleavings of its builder and the mutators.*)
LEMMA BacklinkStep ==
  ASSUME IInv, [Next]_vars
  PROVE  /\ BacklinkInv' /\ BacklinksAreCurrent'
         /\ backlinks' \in [map : {None} \cup SUBSET Links, by : {None} \cup Readers]
<1>1. /\ index \in Indexes /\ mutator \in [pc : Pcs, scan : Scans] /\ reader \in [Readers -> Readings]
      /\ backlinks \in [map : {None} \cup SUBSET Links, by : {None} \cup Readers]
      /\ BacklinkInv /\ BacklinksAreCurrent
  BY DEF IInv, TypeOK, Pcs, Readings
<1>2. None \notin Readers
  BY SiteIndexAssumption
<1>3. CASE UNCHANGED <<index, mutator, backlinks, reader>>
  <2>1. Evicting' <=> Evicting
    BY <1>3 DEF Evicting
  <2>2. ReverseMap' = ReverseMap
    BY <1>3 DEF ReverseMap, Outgoing, LinksOf
  <2>3. BacklinkInv'
    BY <1>1, <1>3, <2>1, <2>2 DEF BacklinkInv
  <2>4. BacklinksAreCurrent'
    BY <1>1, <1>3, <2>1 DEF BacklinksAreCurrent
  <2> QED
    BY <1>1, <1>3, <2>3, <2>4
<1>4. CASE Mutate
  <2>1. UNCHANGED reader
    BY <1>4, MutateFacts
  <2>2. CASE Evicting' /\ backlinks' = backlinks
    BY <1>1, <2>1, <2>2 DEF BacklinkInv, BacklinksAreCurrent
  <2>3. CASE index' = index /\ backlinks' = backlinks /\ ~Evicting
    <3>1. ReverseMap' = ReverseMap
      BY <2>3 DEF ReverseMap, Outgoing, LinksOf
    <3>2. BacklinkInv'
      BY <1>1, <2>1, <2>3, <3>1 DEF BacklinkInv
    <3>3. BacklinksAreCurrent'
      BY <1>1, <2>3 DEF BacklinksAreCurrent
    <3> QED
      BY <1>1, <2>3, <3>2, <3>3
  <2>4. CASE /\ backlinks.by = None /\ backlinks'.by = None /\ backlinks'.map = None
             /\ backlinks' \in [map : {None} \cup SUBSET Links, by : {None} \cup Readers]
    <3>1. \A r \in Readers : reader[r].pc \notin {"pages", "resolve"}
      BY <1>1, <1>2, <2>4 DEF BacklinkInv
    <3>2. BacklinkInv'
      BY <1>1, <2>1, <3>1 DEF BacklinkInv
    <3> QED
      BY <2>4, <3>2 DEF BacklinksAreCurrent
  <2> QED
    BY <1>4, <2>2, <2>3, <2>4, MutateFacts DEF Evicting
<1>5. ASSUME NEW r \in Readers, Ask(r)
      PROVE  /\ BacklinkInv' /\ BacklinksAreCurrent'
             /\ backlinks' \in [map : {None} \cup SUBSET Links, by : {None} \cup Readers]
  <2>1. index' = index /\ mutator' = mutator
    BY <1>5 DEF Ask, AskBacklinks, ReadPages, StoreMap, ResolveLink, AskStaleness, WalkTimes, StoreStaleness
  <2>2. Evicting' <=> Evicting
    BY <2>1 DEF Evicting
  <2>3. ReverseMap' = ReverseMap
    BY <2>1 DEF ReverseMap, Outgoing, LinksOf
  <2>4. ASSUME backlinks' = backlinks PROVE BacklinksAreCurrent'
    BY <1>1, <2>1, <2>2, <2>4 DEF BacklinksAreCurrent
(* A reader that does not build the map.                                    *)
  <2>5. ASSUME backlinks' = backlinks, \A q \in Readers : q # r => reader'[q] = reader[q],
               reader'[r].pc \notin {"pages", "resolve"}, reader'[r].found = {}
        PROVE  BacklinkInv'
    <3> SUFFICES ASSUME NEW q \in Readers
                 PROVE  /\ reader'[q].pc \in {"pages", "resolve"} => backlinks'.by = q
                        /\ reader'[q].pc # "resolve" => reader'[q].found = {}
                        /\ reader'[q].pc = "resolve" /\ ~Evicting' =>
                             ReverseMap' = reader'[q].found \cup {l \in reader'[q].todo : Resolves(index.bySlug, l.to)'}
      BY DEF BacklinkInv
    <3>1. CASE q = r
      BY <2>5, <3>1
    <3>2. CASE q # r
      BY <1>1, <2>1, <2>2, <2>3, <2>5, <3>2 DEF BacklinkInv, Resolves
    <3> QED
      BY <3>1, <3>2
(* The one that does: no other has the lock.                                *)
  <2>6. ASSUME \A q \in Readers : q # r => reader'[q] = reader[q],
               backlinks.by = r \/ backlinks.by = None,
               reader'[r].pc \in {"pages", "resolve"} => backlinks'.by = r,
               reader'[r].pc # "resolve" => reader'[r].found = {},
               reader'[r].pc = "resolve" /\ ~Evicting =>
                  ReverseMap = reader'[r].found \cup {l \in reader'[r].todo : Resolves(index.bySlug, l.to)}
        PROVE  BacklinkInv'
    <3> SUFFICES ASSUME NEW q \in Readers
                 PROVE  /\ reader'[q].pc \in {"pages", "resolve"} => backlinks'.by = q
                        /\ reader'[q].pc # "resolve" => reader'[q].found = {}
                        /\ reader'[q].pc = "resolve" /\ ~Evicting' =>
                             ReverseMap' = reader'[q].found \cup {l \in reader'[q].todo : Resolves(index.bySlug, l.to)'}
      BY DEF BacklinkInv
    <3>1. CASE q = r
      BY <2>1, <2>2, <2>3, <2>6, <3>1 DEF Resolves
    <3>2. CASE q # r
      <4>1. reader[q].pc \notin {"pages", "resolve"} /\ reader[q].found = {}
        BY <1>1, <1>2, <2>6, <3>2 DEF BacklinkInv
      <4> QED
        BY <2>6, <3>2, <4>1
    <3> QED
      BY <3>1, <3>2
  <2>7. CASE AskBacklinks(r)
    <3>1. /\ reader[r].pc = "idle" /\ backlinks.by = None /\ backlinks.map = None
          /\ backlinks' = [backlinks EXCEPT !.by = r] /\ reader' = [reader EXCEPT ![r].pc = "pages"]
      BY <2>7 DEF AskBacklinks
    <3>2. /\ backlinks'.by = r /\ backlinks'.map = None
          /\ backlinks' \in [map : {None} \cup SUBSET Links, by : {None} \cup Readers]
      BY <1>1, <3>1
    <3>3. /\ reader'[r].pc = "pages" /\ reader'[r].found = reader[r].found
          /\ \A q \in Readers : q # r => reader'[q] = reader[q]
      BY <1>1, <3>1
    <3>4. reader[r].found = {}
      BY <1>1, <3>1 DEF BacklinkInv
    <3>5. BacklinkInv'
      BY <2>6, <3>1, <3>2, <3>3, <3>4
    <3> QED
      BY <3>2, <3>5 DEF BacklinksAreCurrent
  <2>8. CASE ReadPages(r)
    <3>1. /\ reader[r].pc = "pages" /\ backlinks' = backlinks
          /\ reader' = [reader EXCEPT ![r].pc = "resolve", ![r].todo = Outgoing(index.entries)]
      BY <2>8 DEF ReadPages
    <3>2. /\ reader'[r].pc = "resolve" /\ reader'[r].found = reader[r].found
          /\ reader'[r].todo = Outgoing(index.entries)
          /\ \A q \in Readers : q # r => reader'[q] = reader[q]
      BY <1>1, <3>1 DEF Readings
    <3>3. reader[r].found = {} /\ backlinks.by = r
      BY <1>1, <3>1 DEF BacklinkInv
    <3>4. ReverseMap = reader'[r].found \cup {l \in reader'[r].todo : Resolves(index.bySlug, l.to)}
      BY <3>2, <3>3 DEF ReverseMap
    <3>5. BacklinkInv'
      BY <2>6, <3>1, <3>2, <3>3, <3>4
    <3> QED
      BY <1>1, <2>4, <3>1, <3>5
  <2>9. ASSUME NEW l \in reader[r].todo, ResolveLink(r, l)
        PROVE  /\ BacklinkInv' /\ BacklinksAreCurrent'
               /\ backlinks' \in [map : {None} \cup SUBSET Links, by : {None} \cup Readers]
    <3>1. /\ reader[r].pc = "resolve" /\ backlinks' = backlinks
          /\ reader' = [reader EXCEPT ![r].todo = @ \ {l},
                           ![r].found = IF Resolves(index.bySlug, l.to) THEN @ \cup {l} ELSE @]
      BY <2>9 DEF ResolveLink
    <3>2. /\ reader'[r].pc = "resolve" /\ reader'[r].todo = reader[r].todo \ {l}
          /\ reader'[r].found = IF Resolves(index.bySlug, l.to) THEN reader[r].found \cup {l} ELSE reader[r].found
          /\ \A q \in Readers : q # r => reader'[q] = reader[q]
      BY <1>1, <3>1 DEF Readings
    <3>3. backlinks.by = r
      BY <1>1, <3>1 DEF BacklinkInv
    <3>4. ASSUME ~Evicting
          PROVE  ReverseMap = reader'[r].found \cup {k \in reader'[r].todo : Resolves(index.bySlug, k.to)}
      <4>1. ReverseMap = reader[r].found \cup {k \in reader[r].todo : Resolves(index.bySlug, k.to)}
        BY <1>1, <3>1, <3>4 DEF BacklinkInv
      <4> QED
        BY <2>9, <3>2, <4>1
    <3>5. BacklinkInv'
      BY <2>6, <3>1, <3>2, <3>3, <3>4
    <3> QED
      BY <1>1, <2>4, <3>1, <3>5
  <2>10. CASE StoreMap(r)
    <3>1. /\ reader[r].pc = "resolve" /\ reader[r].todo = {} /\ reader' = [reader EXCEPT ![r] = AtRest]
          /\ backlinks' = [map |-> reader[r].found, by |-> None]
      BY <2>10 DEF StoreMap
    <3>2. reader[r].found \in SUBSET Links /\ backlinks.by = r
      BY <1>1, <3>1 DEF BacklinkInv, Readings
    <3>3. /\ reader'[r].pc = "idle" /\ reader'[r].found = {}
          /\ \A q \in Readers : q # r => reader'[q] = reader[q]
      BY <1>1, <3>1, RestFacts
    <3>4. BacklinkInv'
      BY <2>6, <3>2, <3>3
    <3>5. ~Evicting => ReverseMap = reader[r].found
      BY <1>1, <3>1 DEF BacklinkInv
    <3>6. backlinks'.map = reader[r].found
      BY <3>1
    <3>7. BacklinksAreCurrent'
      BY <2>1, <2>2, <3>5, <3>6 DEF BacklinksAreCurrent, ReverseMap
    <3> QED
      BY <3>1, <3>2, <3>4, <3>7
  <2>11. CASE AskStaleness(r)
    <3>1. /\ reader[r].pc = "idle" /\ backlinks' = backlinks
          /\ reader' = [reader EXCEPT ![r].pc = "walk", ![r].basis = index.builtAt]
      BY <2>11 DEF AskStaleness
    <3>2. /\ reader'[r].pc = "walk" /\ reader'[r].found = reader[r].found
          /\ \A q \in Readers : q # r => reader'[q] = reader[q]
      BY <1>1, <3>1 DEF Readings
    <3>3. reader[r].found = {}
      BY <1>1, <3>1 DEF BacklinkInv
    <3> QED
      BY <1>1, <2>4, <2>5, <3>1, <3>2, <3>3
  <2>12. CASE WalkTimes(r)
    <3>1. /\ reader[r].pc = "walk" /\ backlinks' = backlinks
          /\ reader' = [reader EXCEPT ![r].pc = "answer",
                ![r].changed = \E f \in Files : disk[f] # None /\ disk[f].at > reader[r].basis]
      BY <2>12 DEF WalkTimes
    <3>2. /\ reader'[r].pc = "answer" /\ reader'[r].found = reader[r].found
          /\ \A q \in Readers : q # r => reader'[q] = reader[q]
      BY <1>1, <3>1 DEF Readings
    <3>3. reader[r].found = {}
      BY <1>1, <3>1 DEF BacklinkInv
    <3> QED
      BY <1>1, <2>4, <2>5, <3>1, <3>2, <3>3
  <2>13. CASE StoreStaleness(r)
    <3>1. backlinks' = backlinks /\ reader' = [reader EXCEPT ![r] = AtRest]
      BY <2>13 DEF StoreStaleness
    <3>2. /\ reader'[r].pc = "idle" /\ reader'[r].found = {}
          /\ \A q \in Readers : q # r => reader'[q] = reader[q]
      BY <1>1, <3>1, RestFacts
    <3> QED
      BY <1>1, <2>4, <2>5, <3>1, <3>2
  <2> QED
    BY <1>5, <2>7, <2>8, <2>9, <2>10, <2>11, <2>12, <2>13 DEF Ask
<1> QED
  BY <1>3, <1>4, <1>5, Frames DEF vars

(* The staleness answer, under those of its walker and a reload.            *)
LEMMA StalenessStep ==
  ASSUME IInv, [Next]_vars
  PROVE  /\ StalenessInv' /\ StalenessIsCurrent'
         /\ staleness' \in [at : Nat, stale : BOOLEAN, basis : Nat, by : {None} \cup Readers]
<1>1. /\ index \in Indexes /\ mutator \in [pc : Pcs, scan : Scans] /\ reader \in [Readers -> Readings]
      /\ staleness \in [at : Nat, stale : BOOLEAN, basis : Nat, by : {None} \cup Readers]
      /\ StalenessInv /\ StalenessIsCurrent /\ clock \in Nat
  BY DEF IInv, TypeOK, Pcs, Readings
<1>2. None \notin Readers
  BY SiteIndexAssumption
<1>3. CASE UNCHANGED <<index, mutator, staleness, reader>>
  BY <1>1, <1>3 DEF StalenessInv, StalenessIsCurrent
<1>4. CASE Mutate
  <2>1. UNCHANGED reader
    BY <1>4, MutateFacts
  <2>2. CASE /\ staleness' = staleness
             /\ \/ mutator'.pc \in {"evict reload", "reset"}
                \/ mutator.pc \notin {"evict reload", "reset"} /\ index'.builtAt = index.builtAt
    BY <1>1, <2>1, <2>2 DEF StalenessInv, StalenessIsCurrent
  <2>3. CASE /\ staleness.by = None /\ staleness'.at = 0
             /\ staleness' \in [at : Nat, stale : BOOLEAN, basis : Nat, by : {None} \cup Readers]
    <3>1. \A r \in Readers : reader[r].pc \notin {"walk", "answer"}
      BY <1>1, <1>2, <2>3 DEF StalenessInv
    <3> QED
      BY <2>1, <2>3, <3>1 DEF StalenessInv, StalenessIsCurrent
  <2> QED
    BY <1>4, <2>2, <2>3, MutateFacts
<1>5. ASSUME NEW r \in Readers, Ask(r)
      PROVE  /\ StalenessInv' /\ StalenessIsCurrent'
             /\ staleness' \in [at : Nat, stale : BOOLEAN, basis : Nat, by : {None} \cup Readers]
  <2>1. index' = index /\ mutator' = mutator
    BY <1>5 DEF Ask, AskBacklinks, ReadPages, StoreMap, ResolveLink, AskStaleness, WalkTimes, StoreStaleness
  <2>2. ASSUME staleness' = staleness PROVE StalenessIsCurrent'
    BY <1>1, <2>1, <2>2 DEF StalenessIsCurrent
  <2>3. ASSUME \A q \in Readers : q # r => reader'[q] = reader[q],
               staleness.by \in {r, None} \/ staleness' = staleness,
               reader'[r].pc \in {"walk", "answer"} =>
                  /\ staleness'.by = r
                  /\ mutator.pc \notin {"evict reload", "reset"} => reader'[r].basis = index.builtAt
        PROVE  StalenessInv'
    <3> SUFFICES ASSUME NEW q \in Readers, reader'[q].pc \in {"walk", "answer"}
                 PROVE  /\ staleness'.by = q
                        /\ mutator'.pc \notin {"evict reload", "reset"} => reader'[q].basis = index'.builtAt
      BY DEF StalenessInv
    <3>1. CASE q = r
      BY <2>1, <2>3, <3>1
    <3>2. CASE q # r
      BY <1>1, <1>2, <2>1, <2>3, <3>2 DEF StalenessInv
    <3> QED
      BY <3>1, <3>2
  <2>4. CASE AskBacklinks(r) \/ ReadPages(r) \/ \E l \in reader[r].todo : ResolveLink(r, l)
    <3>1. reader[r].pc \notin {"walk", "answer"} /\ staleness' = staleness
      BY <2>4 DEF AskBacklinks, ReadPages, ResolveLink
    <3>2. /\ reader'[r].pc \notin {"walk", "answer"}
          /\ \A q \in Readers : q # r => reader'[q] = reader[q]
      <4>1. CASE AskBacklinks(r)
        BY <1>1, <4>1 DEF AskBacklinks, Readings
      <4>2. CASE ReadPages(r)
        BY <1>1, <4>2 DEF ReadPages, Readings
      <4>3. ASSUME NEW l, ResolveLink(r, l)
            PROVE  /\ reader'[r].pc \notin {"walk", "answer"}
                   /\ \A q \in Readers : q # r => reader'[q] = reader[q]
        BY <1>1, <4>3 DEF ResolveLink, Readings
      <4> QED
        BY <2>4, <4>1, <4>2, <4>3
    <3> QED
      BY <1>1, <2>2, <2>3, <3>1, <3>2
  <2>5. CASE StoreMap(r)
    <3>1. staleness' = staleness /\ reader' = [reader EXCEPT ![r] = AtRest]
      BY <2>5 DEF StoreMap
    <3>2. /\ reader'[r].pc = "idle" /\ \A q \in Readers : q # r => reader'[q] = reader[q]
      BY <1>1, <3>1, RestFacts
    <3> QED
      BY <1>1, <2>2, <2>3, <3>1, <3>2
  <2>6. CASE AskStaleness(r)
    <3>1. /\ staleness.by = None /\ staleness' = [staleness EXCEPT !.by = r]
          /\ reader' = [reader EXCEPT ![r].pc = "walk", ![r].basis = index.builtAt]
      BY <2>6 DEF AskStaleness
    <3>2. /\ staleness'.by = r /\ staleness'.at = staleness.at /\ staleness'.basis = staleness.basis
          /\ staleness' \in [at : Nat, stale : BOOLEAN, basis : Nat, by : {None} \cup Readers]
      BY <1>1, <3>1
    <3>3. reader'[r].basis = index.builtAt /\ \A q \in Readers : q # r => reader'[q] = reader[q]
      BY <1>1, <3>1 DEF Readings
    <3>4. StalenessInv'
      BY <2>3, <3>1, <3>2, <3>3
    <3>5. StalenessIsCurrent'
      BY <1>1, <2>1, <3>2 DEF StalenessIsCurrent
    <3> QED
      BY <3>2, <3>4, <3>5
  <2>7. CASE WalkTimes(r)
    <3>1. /\ reader[r].pc = "walk" /\ staleness' = staleness
          /\ reader' = [reader EXCEPT ![r].pc = "answer",
                ![r].changed = \E f \in Files : disk[f] # None /\ disk[f].at > reader[r].basis]
      BY <2>7 DEF WalkTimes
    <3>2. reader'[r].basis = reader[r].basis /\ \A q \in Readers : q # r => reader'[q] = reader[q]
      BY <1>1, <3>1 DEF Readings
    <3>3. /\ staleness.by = r
          /\ mutator.pc \notin {"evict reload", "reset"} => reader[r].basis = index.builtAt
      BY <1>1, <3>1 DEF StalenessInv
    <3> QED
      BY <1>1, <2>2, <2>3, <3>1, <3>2, <3>3
  <2>8. CASE StoreStaleness(r)
    <3>1. /\ reader[r].pc = "answer" /\ reader' = [reader EXCEPT ![r] = AtRest]
          /\ staleness' = [at |-> clock, stale |-> reader[r].changed, basis |-> reader[r].basis, by |-> None]
      BY <2>8 DEF StoreStaleness
    <3>2. /\ reader'[r].pc = "idle" /\ \A q \in Readers : q # r => reader'[q] = reader[q]
      BY <1>1, <3>1, RestFacts
    <3>3. /\ staleness.by = r
          /\ mutator.pc \notin {"evict reload", "reset"} => reader[r].basis = index.builtAt
      BY <1>1, <3>1 DEF StalenessInv
    <3>4. StalenessInv'
      BY <2>3, <3>2, <3>3
    <3>5. staleness'.basis = reader[r].basis
      BY <3>1
    <3>6. StalenessIsCurrent'
      BY <2>1, <3>3, <3>5 DEF StalenessIsCurrent
    <3>7. reader[r].changed \in BOOLEAN /\ reader[r].basis \in Nat
      BY <1>1 DEF Readings
    <3>8. staleness' \in [at : Nat, stale : BOOLEAN, basis : Nat, by : {None} \cup Readers]
      BY <1>1, <3>1, <3>7
    <3> QED
      BY <3>4, <3>6, <3>8
  <2> QED
    BY <1>5, <2>4, <2>5, <2>6, <2>7, <2>8 DEF Ask
<1> QED
  BY <1>3, <1>4, <1>5, Frames DEF vars

(* What a reader has in its hands.                                          *)
LEMMA ReaderStep ==
  ASSUME IInv, [Next]_vars
  PROVE  reader' \in [Readers -> Readings]
<1>1. index \in Indexes /\ reader \in [Readers -> Readings]
  BY DEF IInv, TypeOK, Readings
<1>2. CASE reader' = reader
  BY <1>1, <1>2
<1>3. ASSUME NEW r \in Readers, Ask(r) PROVE reader' \in [Readers -> Readings]
  <2>1. ASSUME NEW v \in Readings, reader' = [reader EXCEPT ![r] = v] PROVE reader' \in [Readers -> Readings]
    BY <1>1, <2>1
  <2>2. PICK o : o = reader[r]
    OBVIOUS
  <2>3. o \in Readings
    BY <1>1, <2>2
  <2>4. CASE AskBacklinks(r)
    <3>1. [o EXCEPT !.pc = "pages"] \in Readings
      BY <2>3 DEF Readings
    <3>2. reader' = [reader EXCEPT ![r] = [o EXCEPT !.pc = "pages"]]
      BY <2>2, <2>4 DEF AskBacklinks
    <3> QED
      BY <2>1, <3>1, <3>2
  <2>5. CASE ReadPages(r)
    <3>1. PICK t : t = Outgoing(index.entries)
      OBVIOUS
    <3>2. t \in SUBSET Links
      <4>1. index.entries \in Seq(Pages)
        BY <1>1 DEF Indexes
      <4> QED
        BY <3>1, <4>1, OutgoingFacts
    <3>3. [o EXCEPT !.pc = "resolve", !.todo = t] \in Readings
      BY <2>3, <3>2 DEF Readings
    <3>4. reader' = [reader EXCEPT ![r] = [o EXCEPT !.pc = "resolve", !.todo = t]]
      BY <1>1, <2>2, <2>5, <3>1 DEF ReadPages
    <3> QED
      BY <2>1, <3>3, <3>4
  <2>6. ASSUME NEW l \in reader[r].todo, ResolveLink(r, l) PROVE reader' \in [Readers -> Readings]
    <3>1. PICK g : g = IF Resolves(index.bySlug, l.to) THEN o.found \cup {l} ELSE o.found
      OBVIOUS
    <3>2. o.todo \ {l} \in SUBSET Links /\ g \in SUBSET Links
      BY <2>2, <2>3, <3>1 DEF Readings
    <3>3. [o EXCEPT !.todo = @ \ {l}, !.found = g] \in Readings
      BY <2>3, <3>2 DEF Readings
    <3>4. reader' = [reader EXCEPT ![r] = [o EXCEPT !.todo = @ \ {l}, !.found = g]]
      BY <1>1, <2>2, <2>3, <2>6, <3>1 DEF ResolveLink, Readings
    <3> QED
      BY <2>1, <3>3, <3>4
  <2>7. CASE StoreMap(r) \/ StoreStaleness(r)
    BY <2>1, <2>7, RestFacts DEF StoreMap, StoreStaleness
  <2>8. CASE AskStaleness(r)
    <3>1. index.builtAt \in Nat
      BY <1>1 DEF Indexes
    <3>2. [o EXCEPT !.pc = "walk", !.basis = index.builtAt] \in Readings
      BY <2>3, <3>1 DEF Readings
    <3>3. reader' = [reader EXCEPT ![r] = [o EXCEPT !.pc = "walk", !.basis = index.builtAt]]
      BY <1>1, <2>2, <2>8 DEF AskStaleness
    <3> QED
      BY <2>1, <3>2, <3>3
  <2>9. CASE WalkTimes(r)
    <3>1. PICK c : c = (\E f \in Files : disk[f] # None /\ disk[f].at > o.basis)
      OBVIOUS
    <3>2. c \in BOOLEAN
      BY <3>1
    <3>3. [o EXCEPT !.pc = "answer", !.changed = c] \in Readings
      BY <2>3, <3>2 DEF Readings
    <3>4. reader' = [reader EXCEPT ![r] = [o EXCEPT !.pc = "answer", !.changed = c]]
      BY <1>1, <2>2, <2>9, <3>1 DEF WalkTimes
    <3> QED
      BY <2>1, <3>3, <3>4
  <2> QED
    BY <1>3, <2>4, <2>5, <2>6, <2>7, <2>8, <2>9 DEF Ask
<1> QED
  BY <1>2, <1>3, Frames DEF vars

(* Every step keeps the invariant.                                          *)
LEMMA StepInv == IInv /\ [Next]_vars => IInv'
<1> SUFFICES ASSUME IInv, [Next]_vars PROVE IInv'
  OBVIOUS
<1>1. TypeOK'
  BY MutatorStep, DiskStep, BacklinkStep, StalenessStep, ReaderStep DEF TypeOK, Pcs, Readings
<1>2. ScanInv(mutator.scan)' /\ IndexInv(index)'
  BY MutatorStep
<1> QED
  BY <1>1, <1>2, NewerStep, BacklinkStep, StalenessStep DEF IInv

(* Each entry is that of the file that wins its slot, what was read is      *)
(* older than what changed, and no cache answers for another index.         *)
THEOREM Invariance == Spec => []IInv
<1>1. Init => IInv
  BY InitInv
<1>2. IInv /\ [Next]_vars => IInv'
  BY StepInv
<1> QED
  BY <1>1, <1>2, PTL DEF Spec

-----------------------------------------------------------------------------
(* What a reader of the index sees                                          *)

(* The first of a set of files.                                             *)
LEMMA FirstFact ==
  ASSUME NEW S \in SUBSET Files, NEW f \in S, \A g \in S : f <= g
  PROVE  First(S) = f
<1>1. \A g \in Files : g \in Nat
  BY SiteIndexAssumption
<1>2. First(S) \in S /\ \A g \in S : First(S) <= g
  BY DEF First
<1>3. First(S) <= f /\ f <= First(S)
  BY <1>2
<1> QED
  BY <1>1, <1>2, <1>3

(* The invariant says enough of every slug and file.                        *)
LEMMA IndexAnswers == IInv => SlugsFindTheirPages
<1> SUFFICES ASSUME IInv PROVE SlugsFindTheirPages
  OBVIOUS
<1>1. index \in Indexes /\ IndexInv(index)
  BY DEF IInv, TypeOK
<1>2. PICK read : read = index.read
  OBVIOUS
<1>3. DOMAIN read = 1 .. Len(Walk) /\ Len(Walk) \in Nat
  <2>1. read \in Seq({None} \cup Texts) /\ Len(read) = Len(Walk)
    BY <1>1, <1>2 DEF Indexes, IndexInv
  <2> QED
    BY <2>1
<1>4. \A k \in 1 .. Len(Walk) : Walk[k] \in Files /\ Walk[k] \in Nat /\ Read(Walk[k]) = read[k]
  <2> SUFFICES ASSUME NEW k \in 1 .. Len(Walk) PROVE Read(Walk[k]) = read[k]
    BY WalkFacts
  <2>1. \A j \in DOMAIN Walk : Walk[j] = Walk[k] <=> j = k
    <3> SUFFICES ASSUME NEW j \in 1 .. Len(Walk), j # k PROVE Walk[j] # Walk[k]
      BY WalkFacts
    <3>1. j < k \/ k < j
      OBVIOUS
    <3>2. Walk[j] < Walk[k] \/ Walk[k] < Walk[j]
      BY <3>1, WalkFacts
    <3>3. Walk[j] \in Nat /\ Walk[k] \in Nat
      BY WalkFacts
    <3> QED
      BY <3>2, <3>3
  <2>2. k \in DOMAIN Walk
    BY WalkFacts
  <2>3. (CHOOSE j \in DOMAIN Walk : Walk[j] = Walk[k]) = k
    BY <2>1, <2>2
  <2> QED
    BY <1>2, <2>3 DEF Read
<1>5. \A f \in Files : \E k \in 1 .. Len(Walk) : Walk[k] = f
  BY WalkFacts
<1>6. LookupsAgree
  BY <1>1 DEF LookupsAgree, IndexInv, SlugsOf
<1>7. NoFalseMissing
  <2> SUFFICES ASSUME NEW f \in Files, Read(f) # None
               PROVE  Own[f] \in DOMAIN index.bySlug \cup DOMAIN index.aliases \cup index.gone
    BY DEF NoFalseMissing
  <2>1. PICK k \in 1 .. Len(Walk) : Walk[k] = f
    BY <1>5
  <2>2. read[k] # None /\ k \in DOMAIN read
    BY <1>3, <1>4, <2>1
  <2> QED
    BY <1>1, <1>2, <2>1, <2>2 DEF IndexInv
<1>8. SlotsGoToOwners
  <2> SUFFICES ASSUME NEW s \in DOMAIN index.bySlug
               PROVE  index.entries[index.bySlug[s]].file =
                        IF Owners(s) # {} THEN First(Owners(s)) ELSE First(Claims(s))
    BY DEF SlotsGoToOwners
  <2>1. PICK i : i = index.bySlug[s]
    OBVIOUS
  <2>2. i \in DOMAIN index.entries /\ index.entries[i].slug = s
    BY <1>1, <2>1 DEF IndexInv
  <2>3. PICK k \in DOMAIN read : Wins(read, s, k) /\ index.entries[i].file = Walk[k]
    BY <1>1, <1>2, <2>2 DEF IndexInv, SlotsWon
  <2>4. PICK f : f = Walk[k]
    OBVIOUS
  <2>5. \A g : g \in Claims(s) <=> \E j \in 1 .. Len(Walk) : g = Walk[j] /\ Names(read, s, j)
    <3>1. ASSUME NEW g \in Claims(s) PROVE \E j \in 1 .. Len(Walk) : g = Walk[j] /\ Names(read, s, j)
      <4>1. g \in Files /\ Read(g) # None /\ Read(g).canon = s
        BY DEF Claims
      <4>2. PICK j \in 1 .. Len(Walk) : Walk[j] = g
        BY <1>5, <4>1
      <4> QED
        BY <1>3, <1>4, <4>1, <4>2 DEF Names
    <3>2. ASSUME NEW j \in 1 .. Len(Walk), Names(read, s, j) PROVE Walk[j] \in Claims(s)
      BY <1>4, <3>2 DEF Names, Claims
    <3> QED
      BY <3>1, <3>2
  <2>6. k \in 1 .. Len(Walk) /\ f \in Claims(s) /\ f \in Files
    BY <1>3, <1>4, <2>3, <2>4, <2>5 DEF Wins
  <2>7. \A j \in 1 .. Len(Walk) : k <= j => f <= Walk[j]
    <3> SUFFICES ASSUME NEW j \in 1 .. Len(Walk), k <= j PROVE f <= Walk[j]
      OBVIOUS
    <3>1. f \in Nat /\ Walk[j] \in Nat
      BY <1>4, <2>4, <2>6
    <3>2. k = j \/ Walk[k] < Walk[j]
      <4>1. k = j \/ k < j
        BY <2>6
      <4> QED
        BY <2>6, <4>1, WalkFacts
    <3> QED
      BY <2>4, <3>1, <3>2
  <2>8. Claims(s) \in SUBSET Files /\ Owners(s) \in SUBSET Files
    BY DEF Claims, Owners
  <2>9. CASE Own[f] = s
    <3>1. f \in Owners(s)
      BY <2>6, <2>9 DEF Owners
    <3>2. ASSUME NEW g \in Owners(s) PROVE f <= g
      <4>1. g \in Claims(s) /\ Own[g] = s
        BY DEF Owners
      <4>2. PICK j \in 1 .. Len(Walk) : g = Walk[j] /\ Names(read, s, j)
        BY <2>5, <4>1
      <4>3. k <= j
        BY <1>3, <2>3, <2>4, <2>9, <4>1, <4>2 DEF Wins
      <4> QED
        BY <2>7, <4>2, <4>3
    <3>3. First(Owners(s)) = f
      BY <2>8, <3>1, <3>2, FirstFact
    <3> QED
      BY <2>1, <2>3, <2>4, <3>1, <3>3
  <2>10. CASE Own[f] # s
    <3>1. \A j \in 1 .. Len(Walk) : Names(read, s, j) => Own[Walk[j]] # s /\ k <= j
      BY <1>3, <2>3, <2>4, <2>10 DEF Wins
    <3>2. Owners(s) = {}
      BY <2>5, <3>1 DEF Owners
    <3>3. ASSUME NEW g \in Claims(s) PROVE f <= g
      BY <2>5, <2>7, <3>1
    <3>4. First(Claims(s)) = f
      BY <2>6, <2>8, <3>3, FirstFact
    <3> QED
      BY <2>1, <2>3, <2>4, <3>2, <3>4
  <2> QED
    BY <2>9, <2>10
<1> QED
  BY <1>6, <1>7, <1>8 DEF SlugsFindTheirPages

(* A lookup finds the page that owns the slug, and the URL of every file    *)
(* that was read leads somewhere: Index.BySlug, Aliases and their upkeep.   *)
THEOREM SlugsAlwaysFindTheirPages == Spec => []SlugsFindTheirPages
BY Invariance, IndexAnswers, PTL

(* No reader gets a reverse map older than the index: GetBacklinks against  *)
(* Reload, UpsertPage and RemoveBySlug.                                     *)
THEOREM BacklinksStayCurrent == Spec => []BacklinksAreCurrent
<1>1. IInv => BacklinksAreCurrent
  BY DEF IInv
<1> QED
  BY <1>1, Invariance, PTL

(* ... and of every edit.                                                   *)
LEMMA EditsAnswer == IInv => EditsAreNoticed
<1> SUFFICES ASSUME IInv PROVE EditsAreNoticed
  OBVIOUS
<1>1. index \in Indexes /\ IndexInv(index) /\ NewerInv /\ StalenessIsCurrent
  BY DEF IInv, TypeOK
<1>2. DOMAIN index.read = 1 .. Len(Walk)
  <2>1. index.read \in Seq({None} \cup Texts) /\ Len(index.read) = Len(Walk)
    BY <1>1 DEF Indexes, IndexInv
  <2> QED
    BY <2>1
<1>3. ASSUME NEW f \in Files, disk[f] # None, disk[f] # Read(f) PROVE disk[f].at > index.builtAt
  <2>1. PICK k : k = CHOOSE j \in DOMAIN Walk : Walk[j] = f
    OBVIOUS
  <2>2. k \in 1 .. Len(Walk) /\ Walk[k] = f
    BY <2>1, WalkFacts
  <2>3. Read(f) = index.read[k]
    BY <2>1 DEF Read
  <2> QED
    BY <1>1, <1>2, <1>3, <2>2, <2>3 DEF NewerInv, Newer
<1> QED
  BY <1>1, <1>3 DEF EditsAreNoticed, EditsAreNewer

(* StaleAgainstDisk misses no file written since the index was read.        *)
THEOREM EditsStayNoticed == Spec => []EditsAreNoticed
BY Invariance, EditsAnswer, PTL

-----------------------------------------------------------------------------
(* The derived database: its types and its invariant                        *)

Steps == {"idle", "render", "reload", "fingerprint", "sync", "prune", "complete"}
Idents == {Ident(f) : f \in SourceFiles}
SourceFacts == [key : Keys, lang : LangCodes \cup {""}]
PublicFacts == [key : Keys \cup {Null}, lang : LangCodes, slug : Urls, rev : Nat]
DonePages == [built : Nat, seen : Nat \cup {Null},
              state : {"published", "missing_public", "intentionally_unpublished", "deleted", "deletion_incomplete"}]
DoneOK(r) ==
    /\ r \in [pages : {r.pages}, sourceDrift : Nat, publicDrift : Nat]
    /\ DOMAIN r.pages \subseteq Idents /\ r.pages \in [DOMAIN r.pages -> DonePages]
RenderedTrees == [Urls -> Outputs \cup {Null}]
DatabaseOK(d) ==
    /\ d \in [public : [Urls -> PageRows \cup {Null}], drafts : [Keys -> DraftRows \cup {Null}],
              sourceReps : SUBSET SourceFacts, publicReps : SUBSET PublicFacts,
              open : {d.open}, done : {d.done}, template : Nat \cup {Null}]
    /\ DoneOK(d.done)

StoreTypeOK ==
    /\ source \in [SourceFiles -> Versions \cup {Null}]
    /\ public \in [pages : RenderedTrees, look : Nat, made : Nat] /\ idx \in RenderedTrees
    /\ template \in Nat /\ DatabaseOK(db) /\ step \in Steps /\ force \in BOOLEAN /\ up \in BOOLEAN
    /\ calm \in [builds : 0 .. 2, spoilt : BOOLEAN] /\ booted \in BOOLEAN
    /\ shown = Null \/ shown \in SUBSET ((SourceFiles \cup {Null}) \X Nat)
    /\ bounds \in [edits : Nat, faults : Nat, restarts : Nat]

(* A build's record is open while it runs, and is what it would be if it    *)
(* began now: nothing is edited meanwhile.                                  *)
PhaseInv ==
    /\ ~up => step = "idle" /\ ~force
    /\ booted => step = "idle"
    /\ IF step = "idle" THEN db.open = Null ELSE db.open = RunOf(db)
    /\ calm.spoilt => calm.builds = 0

(* No revision is newer than the last edit, so that the next is no one's.   *)
RevisionInv ==
    /\ bounds.edits >= 1
    /\ \A f \in Written : source[f].rev <= bounds.edits
    /\ \A i \in DOMAIN db.done.pages : db.done.pages[i].built <= bounds.edits

(* From the rendering on the public tree is what Hugo makes of the sources, *)
(* and once it is reloaded the index is the public tree.                    *)
Rebuilt == step \in {"reload", "fingerprint", "sync", "prune", "complete"} \/ calm.builds > 0
Reindexed == \/ ~calm.spoilt /\ step \in {"fingerprint", "sync", "prune", "complete"}
             \/ calm.builds > 0 /\ up /\ step # "reload"
TreeInv ==
    /\ Rebuilt => \E f \in SourceFiles : public.pages = Rendered(f)
    /\ Reindexed => idx = public.pages

(* What the steps of the synchronisation have done so far                   *)
RowsThere == ~calm.spoilt /\ step \in {"prune", "complete"}
RowsDone == (~calm.spoilt /\ step = "complete") \/ (calm.builds > 0 /\ up /\ step = "idle")
RowsInv ==
    /\ (RowsThere \/ RowsDone) =>
            \A u \in PagesIn(idx) : db.public[u] # Null /\ db.public[u].rev = idx[u].rev
    /\ RowsDone => \A u \in Urls \ PagesIn(idx) : db.public[u] = Null
    /\ (RowsThere \/ RowsDone) /\ force =>
            \A u \in PagesIn(idx) : IsContent(u) => db.public[u].issues = public.look

(* What was last shown of a file is no news to the record: a file that has  *)
(* the revision the record knows was shown with it, and one that was shown  *)
(* is in the record, and not as deleted.                                    *)
Output(f) == IF source[f].draft THEN {} ELSE {<<f, source[f].rev>>}
OutputsOf(f) == {o \in shown : o[1] = f}
ShownInv == shown # Null =>
    /\ \A f \in SourceFiles : OutputsOf(f) # {} =>
            Ident(f) \in DOMAIN db.done.pages /\ db.done.pages[Ident(f)].state # "deleted"
    /\ \A f \in Written : Prior(db, Ident(f)).built = source[f].rev =>
            \A g \in SourceFiles : Ident(g) = Ident(f) => OutputsOf(g) = IF g = f THEN Output(f) ELSE {}

LastInv == shown # Null =>
    \A f \in Written : (Prior(db, Ident(f)).state = "published" /\ Prior(db, Ident(f)).built = source[f].rev) =>
        ~source[f].draft /\ <<f, source[f].rev>> \in Published(public.pages)

FactsInv == (step = "idle" /\ calm.builds > 0 /\ ~Contested) =>
    \A q \in db.publicReps : q.slug \in PagesIn(public.pages) /\
       (public.pages[q.slug].by # Null => q.key = public.pages[q.slug].by.key)

(* One build makes the facts the true ones, the next a record without drift *)
(* of them, and neither is lost.                                            *)
TrueFacts == {[key |-> f.key, lang |-> Lang(f), slug |-> Url(f), rev |-> source[f].rev] :
                f \in {g \in Written : ~source[g].draft}}
FinalStates == {"published", "deleted", "intentionally_unpublished"}
WithoutDrift ==
    /\ db.done.sourceDrift = 0 /\ db.done.publicDrift = 0
    /\ SourceDrifts(db) = {} /\ PublicDrifts(db) = {}
    /\ \A i \in DOMAIN db.done.pages : db.done.pages[i].state \in FinalStates
SettleInv == (Generated = {} /\ ~Contested) =>
    /\ calm.builds > 0 => db.publicReps = TrueFacts
    /\ calm.builds = 2 => WithoutDrift

StoreInv ==
    /\ StoreTypeOK /\ PhaseInv /\ RevisionInv /\ TreeInv /\ RowsInv /\ OneRowPerPage
    /\ ShownInv /\ LastInv /\ FactsInv /\ SettleInv
-----------------------------------------------------------------------------
(* Files and slugs                                                          *)
LEMMA OrderFacts ==
  /\ Len(Order) \in Nat
  /\ \A n \in 1 .. Len(Order) : Order[n] \in Urls
  /\ \A u \in Urls : u \in Seq(STRING) /\ \E n \in 1 .. Len(Order) : Order[n] = u
<1>1. Order \in Seq(Seq(STRING))
  BY DerivedStoreAssumption
<1>2. Len(Order) \in Nat /\ DOMAIN Order = 1 .. Len(Order)
  BY <1>1
<1>3. Urls = {Order[i] : i \in 1 .. Len(Order)}
  BY <1>2 DEF Urls, ToSet
<1>4. \A n \in 1 .. Len(Order) : Order[n] \in Seq(STRING)
  BY <1>1
<1> QED
  BY <1>2, <1>3, <1>4

LEMMA NullFacts ==
  /\ Null \notin Urls /\ Null \notin Outputs /\ Null \notin PageRows /\ Null \notin DraftRows /\ Null \notin Versions
  /\ Null \notin Nat
BY DerivedStoreAssumption

LEMMA FileFacts ==
  ASSUME NEW f \in SourceFiles
  PROVE  /\ f.key \in Keys /\ f.key # Null /\ f # Null /\ f.label \in LangCodes \cup {""}
         /\ f = [key |-> f.key, label |-> f.label]
         /\ Lang(f) \in LangCodes /\ Ident(f) \in Idents /\ Ident(f) = <<f.key, Lang(f)>>
         /\ PublicSlug(f.key, Lang(f)) \in Urls
<1>1. f \in [key : Seq(STRING) \ {<<>>}, label : LangCodes \cup {""}] /\ Default \in LangCodes
  BY DerivedStoreAssumption
<1>2. f.key \in Keys /\ Null \notin Keys
  BY DerivedStoreAssumption DEF Keys
<1> QED
  BY <1>1, <1>2, DerivedStoreAssumption DEF Lang, Ident, Idents

LEMMA VersionFacts ==
  ASSUME source \in [SourceFiles -> Versions \cup {Null}], NEW f \in Written
  PROVE  /\ f \in SourceFiles /\ source[f] \in Versions /\ source[f] # Null
         /\ source[f].draft \in BOOLEAN /\ source[f].url \in Urls \cup {Null}
         /\ source[f].links \in SUBSET Urls /\ source[f].rev \in Nat /\ source[f].rev >= 1
         /\ Url(f) \in Urls
<1>1. f \in SourceFiles /\ source[f] # Null /\ source[f] \in Versions
  BY DEF Written
<1>2. PublicSlug(f.key, Lang(f)) \in Urls
  BY <1>1, FileFacts
<1>3. PICK v \in Versions : v = source[f]
  BY <1>1
<1>4. v.draft \in BOOLEAN /\ v.url \in Urls \cup {Null} /\ v.links \in SUBSET Urls /\ v.rev \in Nat /\ v.rev >= 1
  BY DEF Versions
<1>5. Url(f) \in Urls
  BY <1>2, <1>3, <1>4 DEF Url
<1> QED
  BY <1>1, <1>3, <1>4, <1>5

LEMMA WrittenAreFiles == Written \subseteq SourceFiles
BY DEF Written

LEMMA PageFactsOf ==
  ASSUME NEW pages \in RenderedTrees, NEW u \in PagesIn(pages)
  PROVE  /\ u \in Urls /\ pages[u] # Null /\ pages[u] \in Outputs /\ pages[u].rev \in Nat
         /\ pages[u].by \in SourceFiles \cup {Null} /\ pages[u].links \in SUBSET Urls
         /\ PageLang(pages, u) \in LangCodes
<1>1. u \in Urls /\ pages[u] # Null
  BY DEF PagesIn
<1>2. pages[u] \in Outputs
  BY <1>1 DEF RenderedTrees
<1>3. PICK p \in Outputs : p = pages[u]
  BY <1>2
<1>4. p.rev \in Nat /\ p.by \in SourceFiles \cup {Null} /\ p.links \in SUBSET Urls
  BY DEF Outputs
<1>5. PageLang(pages, u) \in LangCodes
  <2>1. CASE p.by = Null
    BY <1>3, <2>1, DerivedStoreAssumption DEF PageLang
  <2>2. CASE p.by # Null
    <3>1. p.by \in SourceFiles
      BY <1>4, <2>2
    <3> QED
      BY <1>3, <2>2, <3>1, FileFacts DEF PageLang
  <2> QED
    BY <2>1, <2>2
<1> QED
  BY <1>1, <1>2, <1>3, <1>4, <1>5

-----------------------------------------------------------------------------
(* content_representations_v1                                               *)
LEMMA KeyType ==
  ASSUME NEW reps \in SUBSET PublicFacts, NEW sources \in SUBSET SourceFacts, NEW u \in Urls, NEW lang \in LangCodes
  PROVE  PublicKey(reps, sources, u, lang) \in Keys \cup {Null}
<1>1. \A k : SourceKnown(sources, k, lang) => k \in Keys
  BY DEF SourceKnown, SourceFacts
<1>2. PICK before : before = {q \in reps : q.slug = u /\ q.lang = lang}
  OBVIOUS
<1>3. CASE before # {}
  <2>1. (CHOOSE q \in before : TRUE) \in before
    BY <1>3
  <2>2. (CHOOSE q \in before : TRUE).key \in Keys \cup {Null}
    BY <1>2, <2>1 DEF PublicFacts
  <2> QED
    BY <1>2, <1>3, <2>2 DEF PublicKey
<1>4. CASE before = {} /\ SourceKnown(sources, u, lang)
  BY <1>1, <1>2, <1>4 DEF PublicKey
<1>5. CASE before = {} /\ ~SourceKnown(sources, u, lang)
  BY <1>1, <1>2, <1>5 DEF PublicKey
<1> QED
  BY <1>3, <1>4, <1>5

FactRight(r, reps, sources, srcIdx, pages, u) ==
    LET lang == PageLang(pages, u)
    IN /\ r \in PublicFacts /\ r.slug = u /\ r.lang = lang /\ r.rev = pages[u].rev
       /\ \A f \in SourceFiles : Claimants(srcIdx, u, lang) = {f} => r.key = f.key
       /\ (~\E f \in SourceFiles : Claimants(srcIdx, u, lang) = {f}) => r.key = PublicKey(reps, sources, u, lang)

LEMMA FactType ==
  ASSUME NEW reps \in SUBSET PublicFacts, NEW sources \in SUBSET SourceFacts,
         NEW pages \in RenderedTrees, NEW u \in PagesIn(pages), NEW srcIdx \in SUBSET SourceFiles,
         NEW r, r = ResolvedRep(reps, sources, srcIdx, pages, u)
  PROVE  FactRight(r, reps, sources, srcIdx, pages, u)
<1>1. PICK lang \in LangCodes : lang = PageLang(pages, u)
  BY PageFactsOf
<1>2. PICK k \in Keys \cup {Null} : k = PublicKey(reps, sources, u, lang)
  BY PageFactsOf, KeyType
<1>3. PICK n \in Nat : n = pages[u].rev
  BY PageFactsOf
<1>4. PICK p : p = [key |-> k, lang |-> lang, slug |-> u, rev |-> n]
  OBVIOUS
<1>5. p = PublicRep(reps, sources, pages, u) /\ p \in PublicFacts /\ u \in Urls
  BY <1>1, <1>2, <1>3, <1>4, PageFactsOf DEF PublicRep, PublicFacts
<1>6. PICK cs : cs = Claimants(srcIdx, u, lang)
  OBVIOUS
<1>7. cs \subseteq SourceFiles
  BY <1>6 DEF Claimants
<1>8. CASE ~\E f \in cs : cs = {f}
  <2>1. r = p
    BY <1>1, <1>5, <1>6, <1>8 DEF ResolvedRep
  <2>2. \A f : cs = {f} => f \in cs
    OBVIOUS
  <2>3. \A f : Claimants(srcIdx, u, PageLang(pages, u)) # {f}
    BY <1>1, <1>6, <1>8, <2>2
  <2>4. r \in PublicFacts /\ r.slug = u /\ r.lang = PageLang(pages, u) /\ r.rev = pages[u].rev
    BY <1>1, <1>3, <1>4, <1>5, <2>1
  <2>5. r.key = PublicKey(reps, sources, u, PageLang(pages, u))
    BY <1>1, <1>2, <1>4, <2>1
  <2> QED
    BY <2>3, <2>4, <2>5 DEF FactRight
<1>9. CASE \E f \in cs : cs = {f}
  <2>1. PICK f \in cs : cs = {f}
    BY <1>9
  <2>2. (CHOOSE g \in cs : TRUE) = f /\ f \in SourceFiles
    BY <1>7, <2>1
  <2>3. r = [p EXCEPT !.key = f.key] /\ f.key \in Keys
    BY <1>1, <1>5, <1>6, <1>9, <2>2, FileFacts DEF ResolvedRep
  <2>4. r = [key |-> f.key, lang |-> lang, slug |-> u, rev |-> n] /\ f.key \in Keys
    BY <1>4, <2>3
  <2>5. \A g : Claimants(srcIdx, u, PageLang(pages, u)) = {g} => g = f
    BY <1>1, <1>6, <2>1
  <2>6. r \in PublicFacts /\ r.slug = u /\ r.lang = PageLang(pages, u) /\ r.rev = pages[u].rev /\ r.key = f.key
    BY <1>1, <1>3, <1>5, <2>4 DEF PublicFacts
  <2>7. \E g \in SourceFiles : Claimants(srcIdx, u, PageLang(pages, u)) = {g}
    BY <1>1, <1>6, <2>1, <2>2
  <2> QED
    BY <2>5, <2>6, <2>7 DEF FactRight
<1> QED
  BY <1>8, <1>9

WrittenFacts(after, sources, srcIdx, pages, us, n) ==
    IF Order[n] \in us THEN WithFact(after[n - 1], ResolvedRep(after[n - 1], sources, srcIdx, pages, Order[n]))
    ELSE after[n - 1]
GoesThrough(g, m, reps, sources, srcIdx, pages, us) ==
    g = [n \in 0 .. m |-> IF n = 0 THEN reps ELSE WrittenFacts(g, sources, srcIdx, pages, us, n)]

(* The recursive function is well defined.                                  *)
LEMMA FactsUnfold ==
  ASSUME NEW reps, NEW sources, NEW pages, NEW us, NEW srcIdx,
         NEW after, after = FactsAfter(reps, sources, srcIdx, pages, us)
  PROVE  GoesThrough(after, Len(Order), reps, sources, srcIdx, pages, us)
<1>1. PICK L \in Nat : L = Len(Order)
  BY OrderFacts
<1> DEFINE Through(g, m) == GoesThrough(g, m, reps, sources, srcIdx, pages, us)
           T == {n \in Nat : \E g : Through(g, n)}
<1>2. 0 \in T
  <2>1. PICK g : g = [k \in 0 .. 0 |-> reps]
    OBVIOUS
  <2>2. \A k \in 0 .. 0 : k = 0
    OBVIOUS
  <2>3. g = [n \in 0 .. 0 |-> IF n = 0 THEN reps ELSE WrittenFacts(g, sources, srcIdx, pages, us, n)]
    BY <2>1, <2>2, Zenon
  <2> QED
    BY <2>3 DEF GoesThrough
<1>3. ASSUME NEW n \in Nat, n \in T PROVE n + 1 \in T
  <2>1. PICK g : Through(g, n)
    BY <1>3
  <2>2. PICK w : w = WrittenFacts(g, sources, srcIdx, pages, us, n + 1)
    OBVIOUS
  <2>3. PICK h : h = [k \in 0 .. n + 1 |-> IF k = n + 1 THEN w ELSE g[k]]
    OBVIOUS
  <2>4. h[0] = reps /\ \A k \in 0 .. n : h[k] = g[k]
    <3>1. g[0] = reps
      BY <2>1 DEF GoesThrough
    <3> QED
      BY <2>3, <3>1
  <2>5. ASSUME NEW k \in 0 .. n + 1
        PROVE  h[k] = IF k = 0 THEN reps ELSE WrittenFacts(h, sources, srcIdx, pages, us, k)
    <3>1. CASE k = 0
      BY <2>4, <3>1
    <3>2. CASE k = n + 1
      <4>1. n \in 0 .. n /\ k - 1 = n /\ k # 0
        BY <3>2
      <4>2. h[n] = g[n] /\ h[k] = w
        BY <2>3, <2>4, <3>2, <4>1
      <4> QED
        BY <2>2, <3>2, <4>1, <4>2 DEF WrittenFacts
    <3>3. CASE k # 0 /\ k # n + 1
      <4>1. k \in 0 .. n /\ k - 1 \in 0 .. n
        BY <3>3
      <4>2. g[k] = WrittenFacts(g, sources, srcIdx, pages, us, k)
        BY <2>1, <3>3, <4>1 DEF GoesThrough
      <4>3. h[k] = g[k] /\ h[k - 1] = g[k - 1]
        BY <2>4, <4>1
      <4> QED
        BY <3>3, <4>2, <4>3 DEF WrittenFacts
    <3> QED
      BY <3>1, <3>2, <3>3
  <2>6. h = [k \in 0 .. n + 1 |-> IF k = 0 THEN reps ELSE WrittenFacts(h, sources, srcIdx, pages, us, k)]
    <3> DEFINE H == [k \in 0 .. n + 1 |-> IF k = 0 THEN reps ELSE WrittenFacts(h, sources, srcIdx, pages, us, k)]
    <3>1. DOMAIN h = 0 .. n + 1 /\ h = [k \in 0 .. n + 1 |-> h[k]]
      BY <2>3
    <3>2. \A k \in 0 .. n + 1 : h[k] = H[k]
      BY <2>5
    <3> QED
      BY <3>1, <3>2
  <2>7. Through(h, n + 1)
    BY <2>6 DEF GoesThrough
  <2> QED
    BY <2>7
<1>4. L \in T
  <2>1. \A k \in 0 .. L : k \in T
    <3> HIDE DEF T
    <3> QED
      BY <1>2, <1>3, UpTo
  <2> QED
    BY <2>1
<1>5. \E g : Through(g, L)
  BY <1>4
<1>6. after = CHOOSE g : g = [n \in 0 .. Len(Order) |->
            IF n = 0 THEN reps
            ELSE IF Order[n] \in us THEN WithFact(g[n - 1], ResolvedRep(g[n - 1], sources, srcIdx, pages, Order[n]))
                 ELSE g[n - 1]]
  BY DEF FactsAfter
<1>7. after = CHOOSE g : Through(g, Len(Order))
  BY <1>6 DEF GoesThrough, WrittenFacts
<1> QED
  BY <1>1, <1>5, <1>7

Fact(after, sources, srcIdx, pages, n) == ResolvedRep(after[n - 1], sources, srcIdx, pages, Order[n])

(* One by one the slugs of the sitemap are gone through.                    *)
FactsOneByOne(after, reps, sources, srcIdx, pages, us) ==
    /\ after[0] = reps /\ after[Len(Order)] \in SUBSET PublicFacts
    /\ \A n \in 0 .. Len(Order) : after[n] \in SUBSET PublicFacts
    /\ \A n \in 1 .. Len(Order) :
           after[n] = IF Order[n] \in us
                      THEN WithFact(after[n - 1], Fact(after, sources, srcIdx, pages, n)) ELSE after[n - 1]

LEMMA FactsWritten ==
  ASSUME NEW reps \in SUBSET PublicFacts, NEW sources \in SUBSET SourceFacts,
         NEW pages \in RenderedTrees, NEW us \in SUBSET PagesIn(pages), NEW srcIdx \in SUBSET SourceFiles,
         NEW after, after = FactsAfter(reps, sources, srcIdx, pages, us)
  PROVE  FactsOneByOne(after, reps, sources, srcIdx, pages, us)
<1>1. PICK L \in Nat : L = Len(Order)
  BY OrderFacts
<1>2. after = [n \in 0 .. L |-> IF n = 0 THEN reps ELSE WrittenFacts(after, sources, srcIdx, pages, us, n)]
  BY <1>1, FactsUnfold DEF GoesThrough
<1>3. 0 \in 0 .. L /\ after[0] = reps
  BY <1>2
<1>4. ASSUME NEW n \in 1 .. L
      PROVE  after[n] = IF Order[n] \in us
                        THEN WithFact(after[n - 1], Fact(after, sources, srcIdx, pages, n)) ELSE after[n - 1]
  <2>1. n \in 0 .. L /\ n # 0
    OBVIOUS
  <2>2. after[n] = WrittenFacts(after, sources, srcIdx, pages, us, n)
    BY <1>2, <2>1
  <2> QED
    BY <2>2 DEF WrittenFacts, Fact
<1> DEFINE T == {n \in Nat : after[n] \in SUBSET PublicFacts}
<1>5. ASSUME NEW k \in 0 .. L - 1, k \in T PROVE k + 1 \in T
  <2>1. k + 1 \in 1 .. L /\ k + 1 - 1 = k /\ k + 1 \in Nat
    OBVIOUS
  <2>2. PICK x \in SUBSET PublicFacts : x = after[k]
    BY <1>5
  <2>3. after[k + 1] = IF Order[k + 1] \in us
                       THEN WithFact(after[k + 1 - 1], Fact(after, sources, srcIdx, pages, k + 1)) ELSE after[k + 1 - 1]
    BY <1>4, <2>1
  <2>4. CASE Order[k + 1] \in us
    <3>1. PICK r : r = ResolvedRep(x, sources, srcIdx, pages, Order[k + 1])
      OBVIOUS
    <3>2. r \in PublicFacts
      BY <2>4, <3>1, FactType DEF FactRight
    <3>3. after[k + 1] = WithFact(x, r)
      BY <2>1, <2>2, <2>3, <2>4, <3>1 DEF Fact
    <3> QED
      BY <2>1, <3>2, <3>3 DEF WithFact
  <2> QED
    BY <2>1, <2>2, <2>3, <2>4
<1>6. \A k \in 0 .. L : k \in T
  <2>1. 0 \in T
    BY <1>3
  <2> HIDE DEF T
  <2> QED
    BY <1>5, <2>1, UpTo
<1>7. L \in 0 .. L
  BY <1>1
<1> QED
  BY <1>1, <1>3, <1>4, <1>6, <1>7 DEF FactsOneByOne

(* What a reconciliation leaves it has written itself.                      *)
LEMMA FactsLeft ==
  ASSUME NEW reps, NEW sources, NEW pages, NEW us, NEW srcIdx, NEW after,
         FactsOneByOne(after, reps, sources, srcIdx, pages, us),
         NEW q \in after[Len(Order)],
         \E i \in 1 .. Len(Order) : Order[i] \in us /\ Identity(q) = Identity(Fact(after, sources, srcIdx, pages, i))
  PROVE  \E m \in 1 .. Len(Order) : Order[m] \in us /\ q = Fact(after, sources, srcIdx, pages, m)
<1>1. PICK L \in Nat : L = Len(Order)
  BY OrderFacts
<1> DEFINE F(m) == Fact(after, sources, srcIdx, pages, m)
           Ours(x, n) == \/ \E m \in 1 .. n : Order[m] \in us /\ x = F(m)
                         \/ \A m \in 1 .. n : Order[m] \in us => Identity(x) # Identity(F(m))
           T == {n \in Nat : \A x \in after[n] : Ours(x, n)}
<1>2. \A n \in 1 .. L : after[n] = IF Order[n] \in us THEN WithFact(after[n - 1], F(n)) ELSE after[n - 1]
  BY <1>1 DEF FactsOneByOne
<1>3. 0 \in T
  OBVIOUS
<1>4. ASSUME NEW k \in 0 .. L - 1, k \in T PROVE k + 1 \in T
  <2>1. k + 1 \in 1 .. L /\ k + 1 - 1 = k /\ k + 1 \in Nat
    OBVIOUS
  <2>2. after[k + 1] = IF Order[k + 1] \in us THEN WithFact(after[k], F(k + 1)) ELSE after[k]
    <3>1. after[k + 1] = IF Order[k + 1] \in us THEN WithFact(after[k + 1 - 1], F(k + 1)) ELSE after[k + 1 - 1]
      <4> HIDE DEF F
      <4> QED
        BY <1>2, <2>1
    <3> QED
      BY <2>1, <3>1
  <2>3. ASSUME NEW x \in after[k + 1] PROVE Ours(x, k + 1)
    <3>1. \A m \in 1 .. k + 1 : m = k + 1 \/ m \in 1 .. k
      OBVIOUS
    <3>2. \A m \in 1 .. k : m \in 1 .. k + 1
      OBVIOUS
    <3>3. k + 1 \in 1 .. k + 1
      OBVIOUS
    <3> HIDE DEF F
    <3>4. CASE Order[k + 1] \in us
      <4>1. x = F(k + 1) \/ (x \in after[k] /\ Identity(x) # Identity(F(k + 1)))
        BY <2>2, <2>3, <3>4 DEF WithFact
      <4>2. CASE x = F(k + 1)
        BY <3>3, <3>4, <4>2
      <4>3. CASE x \in after[k] /\ Identity(x) # Identity(F(k + 1))
        <5>1. Ours(x, k)
          BY <1>4, <4>3
        <5> QED
          BY <3>1, <3>2, <4>3, <5>1
      <4> QED
        BY <4>1, <4>2, <4>3
    <3>5. CASE Order[k + 1] \notin us
      <4>1. x \in after[k]
        BY <2>2, <2>3, <3>5
      <4>2. Ours(x, k)
        BY <1>4, <4>1
      <4> QED
        BY <3>1, <3>2, <3>5, <4>2
    <3> QED
      BY <3>4, <3>5
  <2> QED
    BY <2>1, <2>3
<1>5. \A k \in 0 .. L : k \in T
  <2> HIDE DEF T
  <2> QED
    BY <1>3, <1>4, UpTo
<1>6. Ours(q, L)
  BY <1>1, <1>5
<1> QED
  BY <1>1, <1>6

(* A fact that no other replaces is there in the end.                       *)
LEMMA FactsStay ==
  ASSUME NEW reps, NEW sources, NEW pages, NEW us, NEW srcIdx, NEW after,
         FactsOneByOne(after, reps, sources, srcIdx, pages, us),
         NEW i \in 1 .. Len(Order), Order[i] \in us,
         \A j \in 1 .. Len(Order) :
            (/\ Order[j] \in us
             /\ Identity(Fact(after, sources, srcIdx, pages, i)) = Identity(Fact(after, sources, srcIdx, pages, j)))
            => Fact(after, sources, srcIdx, pages, i) = Fact(after, sources, srcIdx, pages, j)
  PROVE  Fact(after, sources, srcIdx, pages, i) \in after[Len(Order)]
<1>1. PICK L \in Nat : L = Len(Order)
  BY OrderFacts
<1> DEFINE F(m) == Fact(after, sources, srcIdx, pages, m)
           T == {n \in Nat : i <= n => F(i) \in after[n]}
<1>2. \A n \in 1 .. L : after[n] = IF Order[n] \in us THEN WithFact(after[n - 1], F(n)) ELSE after[n - 1]
  BY <1>1 DEF FactsOneByOne
<1>3. 0 \in T
  OBVIOUS
<1>4. ASSUME NEW k \in 0 .. L - 1, k \in T PROVE k + 1 \in T
  <2>1. k + 1 \in 1 .. L /\ k + 1 - 1 = k /\ k + 1 \in Nat
    OBVIOUS
  <2>2. after[k + 1] = IF Order[k + 1] \in us THEN WithFact(after[k], F(k + 1)) ELSE after[k]
    <3>1. after[k + 1] = IF Order[k + 1] \in us THEN WithFact(after[k + 1 - 1], F(k + 1)) ELSE after[k + 1 - 1]
      <4> HIDE DEF F
      <4> QED
        BY <1>2, <2>1
    <3> QED
      BY <2>1, <3>1
  <2>3. ASSUME i <= k + 1 PROVE F(i) \in after[k + 1]
    <3> HIDE DEF F
    <3>1. CASE i = k + 1
      BY <2>2, <3>1 DEF WithFact
    <3>2. CASE i # k + 1
      <4>1. F(i) \in after[k]
        BY <1>4, <2>3, <3>2
      <4>2. CASE Order[k + 1] \in us
        <5>1. Identity(F(i)) = Identity(F(k + 1)) => F(i) = F(k + 1)
          BY <1>1, <2>1, <4>2 DEF F
        <5> QED
          BY <2>2, <4>1, <4>2, <5>1 DEF WithFact
      <4> QED
        BY <2>2, <4>1, <4>2
    <3> QED
      BY <3>1, <3>2
  <2> QED
    BY <2>1, <2>3
<1>5. \A k \in 0 .. L : k \in T
  <2> HIDE DEF T
  <2> QED
    BY <1>3, <1>4, UpTo
<1>6. L \in T /\ i <= L
  BY <1>1, <1>5
<1> QED
  BY <1>1, <1>6

-----------------------------------------------------------------------------
(* The tables                                                               *)

(* A database with other facts, other rows *)
LEMMA TablesSet ==
  ASSUME NEW d, DatabaseOK(d)
  PROVE  /\ \A R \in SUBSET PublicFacts : DatabaseOK([d EXCEPT !.publicReps = R])
         /\ \A R \in SUBSET SourceFacts : DatabaseOK([d EXCEPT !.sourceReps = R])
         /\ \A rows \in [Urls -> PageRows \cup {Null}] : DatabaseOK([d EXCEPT !.public = rows])
         /\ \A rows \in [Keys -> DraftRows \cup {Null}] : DatabaseOK([d EXCEPT !.drafts = rows])
         /\ \A r : DatabaseOK([d EXCEPT !.open = r])
         /\ \A r : DoneOK(r) => DatabaseOK([d EXCEPT !.done = r])
         /\ \A t \in Nat : DatabaseOK([d EXCEPT !.template = t])
BY DEF DatabaseOK

LEMMA ReconciledFacts ==
  ASSUME NEW d, DatabaseOK(d), NEW pages \in RenderedTrees, NEW srcIdx \in SUBSET SourceFiles,
         NEW e, e = ReconcilePublic(d, pages, srcIdx)
  PROVE  /\ e = [d EXCEPT !.publicReps = e.publicReps] /\ DatabaseOK(e)
         /\ \A q \in e.publicReps : \E u \in PagesIn(pages), reps \in SUBSET PublicFacts :
               q = ResolvedRep(reps, d.sourceReps, srcIdx, pages, u)
<1>1. PICK reps \in SUBSET PublicFacts : reps = d.publicReps
  BY DEF DatabaseOK
<1>2. PICK sources \in SUBSET SourceFacts : sources = d.sourceReps
  BY DEF DatabaseOK
<1>3. PICK us \in SUBSET PagesIn(pages) : us = PagesIn(pages)
  OBVIOUS
<1>4. PICK after : after = FactsAfter(reps, sources, srcIdx, pages, us)
  OBVIOUS
<1>5. PICK want : want = {Identity(Fact(after, sources, srcIdx, pages, n)) :
                             n \in {m \in 1 .. Len(Order) : Order[m] \in us}}
  OBVIOUS
<1>6. PICK R : R = {q \in after[Len(Order)] : Identity(q) \in want}
  OBVIOUS
<1>7. e = [d EXCEPT !.publicReps = R]
  BY <1>1, <1>2, <1>3, <1>4, <1>5, <1>6 DEF ReconcilePublic, Fact
<1>8. FactsOneByOne(after, reps, sources, srcIdx, pages, us)
  BY <1>4, FactsWritten
<1>9. R \in SUBSET PublicFacts /\ e.publicReps = R
  BY <1>6, <1>7, <1>8 DEF DatabaseOK, FactsOneByOne
<1>10. ASSUME NEW q \in R
       PROVE  \E u \in PagesIn(pages), x \in SUBSET PublicFacts : q = ResolvedRep(x, sources, srcIdx, pages, u)
  <2>1. PICK i \in 1 .. Len(Order) : Order[i] \in us /\ Identity(q) = Identity(Fact(after, sources, srcIdx, pages, i))
    BY <1>5, <1>6, <1>10
  <2>2. PICK m \in 1 .. Len(Order) : Order[m] \in us /\ q = Fact(after, sources, srcIdx, pages, m)
    BY <1>6, <1>8, <1>10, <2>1, FactsLeft
  <2>3. m - 1 \in 0 .. Len(Order)
    BY OrderFacts
  <2>4. after[m - 1] \in SUBSET PublicFacts
    BY <1>8, <2>3 DEF FactsOneByOne
  <2> QED
    BY <1>3, <2>2, <2>4 DEF Fact
<1> QED
  BY <1>2, <1>7, <1>9, <1>10, TablesSet

(* What an operation on the rows and facts leaves alone                     *)
RunsKept(d, e) == DatabaseOK(e) /\ e.open = d.open /\ e.done = d.done /\ e.template = d.template

LEMMA RowType ==
  ASSUME NEW d, DatabaseOK(d), NEW pages \in RenderedTrees, NEW u \in PagesIn(pages), public.look \in Nat, NEW again,
         NEW r, r = SyncPublic(d, u, pages, public.look, again)
  PROVE  /\ r \in PageRows /\ r # Null /\ r.rev = pages[u].rev
         /\ (u \in again /\ IsContent(u)) => r.issues = public.look
<1>1. PICK look \in Nat : look = public.look
  OBVIOUS
<1>2. PICK n \in Nat : n = pages[u].rev
  BY PageFactsOf
<1>3. PICK lang \in LangCodes : lang = PageLang(pages, u)
  BY PageFactsOf
<1>4. PICK ls : ls = LinkGraph(u, pages[u], pages)
  OBVIOUS
<1>5. ls \in SUBSET [to : Urls, ok : BOOLEAN]
  <2>1. pages[u].links \subseteq Urls
    BY PageFactsOf
  <2>2. ASSUME NEW x \in ls PROVE x \in [to : Urls, ok : BOOLEAN]
    <3>1. PICK t \in pages[u].links \ {u} : x = [to |-> t, ok |-> pages[t] # Null \/ ~IsContent(t)]
      BY <1>4, <2>2 DEF LinkGraph
    <3>2. t \in Urls
      BY <2>1
    <3>3. (pages[t] # Null \/ ~IsContent(t)) \in BOOLEAN
      OBVIOUS
    <3> QED
      BY <3>1, <3>2, <3>3
  <2> QED
    BY <2>2
<1>6. u \in Urls /\ pages[u] # Null
  BY PageFactsOf
<1>7. d.public[u] \in PageRows \cup {Null}
  BY <1>6 DEF DatabaseOK
<1>8. PICK old \in PageRows \cup {Null} : old = d.public[u]
  BY <1>7
<1>9. old # Null => old \in PageRows /\ old.issues \in Nat \cup {Null} /\ old.rev \in Nat
                   /\ old.lang \in LangCodes /\ old.links \in SUBSET [to : Urls, ok : BOOLEAN]
  BY DEF PageRows
<1>10. Null \notin PageRows
  BY DerivedStoreAssumption
<1>11. CASE Changed(d, u, pages[u])
  <2>1. PICK i : i = IF IsContent(u) THEN look ELSE IF old = Null THEN Null ELSE old.issues
    OBVIOUS
  <2>2. r = [rev |-> n, lang |-> lang, links |-> ls, issues |-> i]
    BY <1>1, <1>2, <1>3, <1>4, <1>8, <1>11, <2>1 DEF SyncPublic, Row
  <2>3. i \in Nat \cup {Null}
    BY <1>9, <2>1
  <2>4. r \in PageRows /\ r.rev = n /\ r.issues = i
    BY <1>5, <2>2, <2>3 DEF PageRows
  <2> QED
    BY <1>1, <1>2, <1>10, <2>1, <2>4
<1>12. CASE ~Changed(d, u, pages[u])
  <2>1. old \in PageRows /\ old.rev = n
    BY <1>2, <1>8, <1>9, <1>12 DEF Changed
  <2>2. CASE u \in again /\ IsContent(u)
    <3>1. r = [old EXCEPT !.issues = look]
      BY <1>1, <1>8, <1>12, <2>2 DEF SyncPublic
    <3>2. r \in PageRows /\ r.rev = old.rev /\ r.issues = look
      BY <2>1, <3>1 DEF PageRows
    <3> QED
      BY <1>1, <1>2, <1>10, <2>1, <3>2
  <2>3. CASE ~(u \in again /\ IsContent(u))
    <3>1. r = old
      BY <1>1, <1>8, <1>12, <2>3 DEF SyncPublic
    <3> QED
      BY <1>2, <1>10, <2>1, <2>3, <3>1
  <2> QED
    BY <2>2, <2>3
<1> QED
  BY <1>11, <1>12

SyncedRows(d, e, pages, us, again) ==
    /\ \A u \in Urls : e.public[u] = IF u \in us THEN SyncPublic(d, u, pages, public.look, again) ELSE d.public[u]
    /\ e.publicReps = FactsAfter(d.publicReps, d.sourceReps, {}, pages, us)[Len(Order)]

LEMMA IndexedTables ==
  ASSUME NEW d, DatabaseOK(d), NEW pages \in RenderedTrees, public.look \in Nat, NEW failed, NEW again,
         NEW e, e = Indexed(d, pages, failed, again)
  PROVE  /\ RunsKept(d, e) /\ e.sourceReps = d.sourceReps /\ e.drafts = d.drafts
         /\ SyncedRows(d, e, pages, PagesIn(pages) \ failed, again)
<1>1. PICK us \in SUBSET PagesIn(pages) : us = PagesIn(pages) \ failed
  OBVIOUS
<1>2. PICK rows : rows = [u \in Urls |-> IF u \in us THEN SyncPublic(d, u, pages, public.look, again)
                                         ELSE d.public[u]]
  OBVIOUS
<1>3. PICK reps : reps = FactsAfter(d.publicReps, d.sourceReps, {}, pages, us)[Len(Order)]
  OBVIOUS
<1>4. PICK d1 : d1 = [d EXCEPT !.public = rows]
  OBVIOUS
<1>5. \A u \in us : SyncPublic(d, u, pages, public.look, again) \in PageRows
  BY <1>1, RowType
<1>6. \A u \in Urls : d.public[u] \in PageRows \cup {Null}
  BY DEF DatabaseOK
<1>7. rows \in [Urls -> PageRows \cup {Null}]
  BY <1>2, <1>5, <1>6
<1>8. d.publicReps \in SUBSET PublicFacts /\ d.sourceReps \in SUBSET SourceFacts /\ {} \in SUBSET SourceFiles
  BY DEF DatabaseOK
<1>9. PICK after : after = FactsAfter(d.publicReps, d.sourceReps, {}, pages, us)
  OBVIOUS
<1>10. FactsOneByOne(after, d.publicReps, d.sourceReps, {}, pages, us)
  BY <1>8, <1>9, FactsWritten
<1>11. reps \in SUBSET PublicFacts
  BY <1>3, <1>9, <1>10 DEF FactsOneByOne
<1>12. e = [d1 EXCEPT !.publicReps = reps]
  BY <1>1, <1>2, <1>3, <1>4 DEF Indexed, DatabaseOK
<1>13. DatabaseOK(d1)
  BY <1>4, <1>7, TablesSet
<1>14. DatabaseOK(e)
  BY <1>11, <1>12, <1>13, TablesSet
<1>15. d1.open = d.open /\ d1.done = d.done /\ d1.template = d.template /\ d1.sourceReps = d.sourceReps
       /\ d1.drafts = d.drafts /\ d1.public = rows
  BY <1>4 DEF DatabaseOK
<1>16. e.open = d1.open /\ e.done = d1.done /\ e.template = d1.template /\ e.sourceReps = d1.sourceReps
       /\ e.drafts = d1.drafts /\ e.public = d1.public /\ e.publicReps = reps
  BY <1>12, <1>13 DEF DatabaseOK
<1> QED
  BY <1>1, <1>2, <1>3, <1>14, <1>15, <1>16 DEF RunsKept, SyncedRows

LEMMA DroppedRows ==
  ASSUME NEW d, DatabaseOK(d), NEW us, NEW e, e = DropPublic(d, us)
  PROVE  /\ RunsKept(d, e) /\ e.sourceReps = d.sourceReps /\ e.drafts = d.drafts
         /\ e.publicReps = {q \in d.publicReps : q.slug \notin us}
         /\ \A u \in Urls : e.public[u] = IF u \in us THEN Null ELSE d.public[u]
<1>1. PICK rows : rows = [u \in Urls |-> IF u \in us THEN Null ELSE d.public[u]]
  OBVIOUS
<1>2. PICK reps : reps = {q \in d.publicReps : q.slug \notin us}
  OBVIOUS
<1>3. PICK d1 : d1 = [d EXCEPT !.public = rows]
  OBVIOUS
<1>4. e = [d1 EXCEPT !.publicReps = reps]
  BY <1>1, <1>2, <1>3 DEF DropPublic, DatabaseOK
<1>5. rows \in [Urls -> PageRows \cup {Null}] /\ reps \in SUBSET PublicFacts
  BY <1>1, <1>2 DEF DatabaseOK
<1>6. DatabaseOK(d1)
  BY <1>3, <1>5, TablesSet
<1>7. DatabaseOK(e)
  BY <1>4, <1>5, <1>6, TablesSet
<1>8. d1.open = d.open /\ d1.done = d.done /\ d1.template = d.template /\ d1.sourceReps = d.sourceReps
       /\ d1.drafts = d.drafts /\ d1.public = rows
  BY <1>3 DEF DatabaseOK
<1>9. e.open = d1.open /\ e.done = d1.done /\ e.template = d1.template /\ e.sourceReps = d1.sourceReps
       /\ e.drafts = d1.drafts /\ e.public = d1.public /\ e.publicReps = reps
  BY <1>4, <1>6 DEF DatabaseOK
<1> QED
  BY <1>1, <1>2, <1>7, <1>8, <1>9 DEF RunsKept

(* Only the rows of pages, and of bundles, that do not exist go.            *)
LEMMA PrunedRows ==
  ASSUME NEW d, DatabaseOK(d), NEW pages, NEW e, e = PruneRows(d, pages)
  PROVE  /\ RunsKept(d, e) /\ e.sourceReps = d.sourceReps /\ e.drafts = d.drafts
         /\ e.publicReps \subseteq d.publicReps
         /\ \A q \in d.publicReps : q.slug \in PagesIn(pages) => q \in e.publicReps
         /\ \A u \in Urls : e.public[u] = IF u \in PagesIn(pages) THEN d.public[u] ELSE Null
<1>1. PICK us : us = {u \in Urls : d.public[u] # Null /\ pages[u] = Null}
  OBVIOUS
<1>2. e = DropPublic(d, us)
  BY <1>1 DEF PruneRows
<1> QED
  BY <1>1, <1>2, DroppedRows DEF PagesIn

RowsKept(d, e) == e.public = d.public /\ e.publicReps = d.publicReps

LEMMA DroppedSource ==
  ASSUME NEW d, DatabaseOK(d), NEW ks, NEW e, e = DropSource(d, ks)
  PROVE  /\ RunsKept(d, e) /\ RowsKept(d, e)
         /\ \A k \in Keys : e.drafts[k] = IF k \in ks THEN Null ELSE d.drafts[k]
<1>1. PICK rows : rows = [k \in Keys |-> IF k \in ks THEN Null ELSE d.drafts[k]]
  OBVIOUS
<1>2. PICK reps : reps = {q \in d.sourceReps : q.key \notin ks}
  OBVIOUS
<1>3. PICK d1 : d1 = [d EXCEPT !.drafts = rows]
  OBVIOUS
<1>4. e = [d1 EXCEPT !.sourceReps = reps]
  BY <1>1, <1>2, <1>3 DEF DropSource, DatabaseOK
<1>5. rows \in [Keys -> DraftRows \cup {Null}] /\ reps \in SUBSET SourceFacts
  BY <1>1, <1>2 DEF DatabaseOK
<1>6. DatabaseOK(d1)
  BY <1>3, <1>5, TablesSet
<1>7. DatabaseOK(e)
  BY <1>4, <1>5, <1>6, TablesSet
<1>8. d1.open = d.open /\ d1.done = d.done /\ d1.template = d.template /\ d1.publicReps = d.publicReps
       /\ d1.public = d.public /\ d1.drafts = rows
  BY <1>3 DEF DatabaseOK
<1>9. e.open = d1.open /\ e.done = d1.done /\ e.template = d1.template /\ e.publicReps = d1.publicReps
       /\ e.drafts = d1.drafts /\ e.public = d1.public
  BY <1>4, <1>6 DEF DatabaseOK
<1> QED
  BY <1>1, <1>7, <1>8, <1>9 DEF RunsKept, RowsKept

LEMMA ReconciledSources ==
  ASSUME source \in [SourceFiles -> Versions \cup {Null}],
         NEW d, DatabaseOK(d), NEW e, e = ReconcileSources(d)
  PROVE  RunsKept(d, e) /\ RowsKept(d, e) /\ e.drafts = d.drafts
<1>1. PICK reps : reps = {[key |-> f.key, lang |-> Lang(f)] : f \in Written}
  OBVIOUS
<1>2. e = [d EXCEPT !.sourceReps = reps]
  BY <1>1 DEF ReconcileSources
<1>3. \A f \in Written : f.key \in Keys /\ Lang(f) \in LangCodes
  BY WrittenAreFiles, FileFacts
<1>4. ASSUME NEW x \in reps PROVE x \in SourceFacts
  <2>1. PICK f \in Written : x = [key |-> f.key, lang |-> Lang(f)]
    BY <1>1, <1>4
  <2> QED
    BY <1>3, <2>1 DEF SourceFacts
<1>5. DatabaseOK(e)
  BY <1>2, <1>4, TablesSet
<1> QED
  BY <1>2, <1>5 DEF DatabaseOK, RunsKept, RowsKept

LEMMA SyncedSource ==
  ASSUME NEW d, DatabaseOK(d), NEW f \in SourceFiles, NEW text, text.rev \in Nat, NEW e, e = SyncSource(d, f, text)
  PROVE  RunsKept(d, e) /\ RowsKept(d, e)
<1>1. PICK kept : kept = IF f.label = "" /\ ~Unnamed(d, f.key) THEN {} ELSE {[key |-> f.key, lang |-> f.label]}
  OBVIOUS
<1>2. PICK row : row = [rev |-> text.rev, lang |-> f.label]
  OBVIOUS
<1>3. PICK rows : rows = [d.drafts EXCEPT ![f.key] = row]
  OBVIOUS
<1>4. PICK reps : reps = d.sourceReps \cup kept
  OBVIOUS
<1>5. f.key \in Keys /\ f.label \in LangCodes \cup {""}
  BY FileFacts
<1>6. row \in DraftRows /\ kept \in SUBSET SourceFacts
  <2>1. row \in DraftRows
    BY <1>2, <1>5 DEF DraftRows
  <2>2. [key |-> f.key, lang |-> f.label] \in SourceFacts
    BY <1>5 DEF SourceFacts
  <2> QED
    BY <1>1, <2>1, <2>2
<1>7. rows \in [Keys -> DraftRows \cup {Null}] /\ reps \in SUBSET SourceFacts
  BY <1>3, <1>4, <1>6 DEF DatabaseOK
<1>8. PICK d1 : d1 = [d EXCEPT !.sourceReps = reps]
  OBVIOUS
<1>9. e = [d1 EXCEPT !.drafts = rows]
  BY <1>1, <1>2, <1>3, <1>4, <1>8 DEF SyncSource, DatabaseOK
<1>10. DatabaseOK(d1)
  BY <1>7, <1>8, TablesSet
<1>11. DatabaseOK(e)
  BY <1>7, <1>9, <1>10, TablesSet
<1>12. d1.open = d.open /\ d1.done = d.done /\ d1.template = d.template /\ d1.publicReps = d.publicReps
       /\ d1.public = d.public
  BY <1>8 DEF DatabaseOK
<1>13. e.open = d1.open /\ e.done = d1.done /\ e.template = d1.template /\ e.publicReps = d1.publicReps
       /\ e.public = d1.public
  BY <1>9, <1>10 DEF DatabaseOK
<1> QED
  BY <1>11, <1>12, <1>13 DEF RunsKept, RowsKept

LEMMA SyncedSources ==
  ASSUME source \in [SourceFiles -> Versions \cup {Null}],
         NEW d, DatabaseOK(d), NEW fs \in SUBSET Written, NEW e, e = SyncSources(d, fs)
  PROVE  /\ RunsKept(d, e) /\ RowsKept(d, e)
         /\ \A k \in Keys : IF \E f \in fs : f.key = k THEN e.drafts[k] # Null ELSE e.drafts[k] = d.drafts[k]
<1> DEFINE last(k) == CHOOSE f \in fs : f.key = k
<1>1. PICK kept : kept = {f \in fs : \/ f.label # ""
                                     \/ Unnamed(d, f.key) /\ (last(f.key) # f \/ \A g \in fs : g.key = f.key => g = f)}
  OBVIOUS
<1>2. PICK reps : reps = d.sourceReps \cup {[key |-> f.key, lang |-> f.label] : f \in kept}
  OBVIOUS
<1>3. PICK rows : rows = [k \in Keys |-> IF \E f \in fs : f.key = k
                                         THEN [rev |-> source[last(k)].rev, lang |-> last(k).label]
                                         ELSE d.drafts[k]]
  OBVIOUS
<1>4. \A f \in fs : f \in Written /\ f.key \in Keys /\ f.label \in LangCodes \cup {""} /\ source[f].rev \in Nat
  BY WrittenAreFiles, FileFacts, VersionFacts
<1>5. reps \in SUBSET SourceFacts
  <2>1. \A f \in kept : f.key \in Keys /\ f.label \in LangCodes \cup {""}
    BY <1>1, <1>4
  <2>2. ASSUME NEW x \in {[key |-> f.key, lang |-> f.label] : f \in kept} PROVE x \in SourceFacts
    <3>1. PICK f \in kept : x = [key |-> f.key, lang |-> f.label]
      BY <2>2
    <3> QED
      BY <2>1, <3>1 DEF SourceFacts
  <2>3. d.sourceReps \in SUBSET SourceFacts
    BY DEF DatabaseOK
  <2> QED
    BY <1>2, <2>2, <2>3
<1>6. \A k : (\E f \in fs : f.key = k) => last(k) \in fs
  OBVIOUS
<1>7. \A k \in Keys : (\E f \in fs : f.key = k) => rows[k] \in DraftRows
  BY <1>3, <1>4, <1>6 DEF DraftRows
<1>8. \A k \in Keys : (~\E f \in fs : f.key = k) => rows[k] = d.drafts[k]
  BY <1>3
<1>9. rows \in [Keys -> DraftRows \cup {Null}]
  <2>1. \A k \in Keys : rows[k] \in DraftRows \cup {Null}
    BY <1>7, <1>8 DEF DatabaseOK
  <2> QED
    BY <1>3, <2>1
<1>10. PICK d1 : d1 = [d EXCEPT !.sourceReps = reps]
  OBVIOUS
<1>11. e = [d1 EXCEPT !.drafts = rows]
  BY <1>1, <1>2, <1>3, <1>10 DEF SyncSources, DatabaseOK
<1>12. DatabaseOK(d1)
  BY <1>5, <1>10, TablesSet
<1>13. DatabaseOK(e)
  BY <1>9, <1>11, <1>12, TablesSet
<1>14. d1.open = d.open /\ d1.done = d.done /\ d1.template = d.template /\ d1.publicReps = d.publicReps
       /\ d1.public = d.public
  BY <1>10 DEF DatabaseOK
<1>15. e.open = d1.open /\ e.done = d1.done /\ e.template = d1.template /\ e.publicReps = d1.publicReps
       /\ e.public = d1.public /\ e.drafts = rows
  BY <1>11, <1>12 DEF DatabaseOK
<1>16. \A k \in Keys : (\E f \in fs : f.key = k) => rows[k] # Null
  BY <1>7, DerivedStoreAssumption
<1> QED
  BY <1>8, <1>13, <1>14, <1>15, <1>16 DEF RunsKept, RowsKept

LEMMA Backfilled ==
  ASSUME NEW d, DatabaseOK(d), NEW e, e = Backfill(d)
  PROVE  RunsKept(d, e) /\ e.public = d.public /\ e.drafts = d.drafts
<1>1. PICK us : us = {v \in Urls : d.public[v] # Null /\ ~\E q \in d.publicReps : q.slug = v /\ q.lang = d.public[v].lang}
  OBVIOUS
<1>2. PICK reps : reps = d.publicReps \cup
                 {[key |-> Null, lang |-> d.public[u].lang, slug |-> u, rev |-> d.public[u].rev] : u \in us}
  OBVIOUS
<1>3. PICK sources : sources = d.sourceReps \cup
                 {[key |-> k, lang |-> d.drafts[k].lang] : k \in {j \in Keys : d.drafts[j] # Null}}
  OBVIOUS
<1>4. PICK d1 : d1 = [d EXCEPT !.publicReps = reps]
  OBVIOUS
<1>5. e = [d1 EXCEPT !.sourceReps = sources]
  BY <1>1, <1>2, <1>3, <1>4 DEF Backfill, DatabaseOK
<1>6. \A u \in us : u \in Urls /\ d.public[u].lang \in LangCodes /\ d.public[u].rev \in Nat
  <2>1. \A u \in us : u \in Urls /\ d.public[u] \in PageRows
    BY <1>1 DEF DatabaseOK
  <2>2. \A r \in PageRows : r.lang \in LangCodes /\ r.rev \in Nat
    BY DEF PageRows
  <2> QED
    BY <2>1, <2>2
<1>7. reps \in SUBSET PublicFacts
  <2>1. d.publicReps \in SUBSET PublicFacts
    BY DEF DatabaseOK
  <2> QED
    BY <1>2, <1>6, <2>1 DEF PublicFacts
<1>8. \A k \in {j \in Keys : d.drafts[j] # Null} : k \in Keys /\ d.drafts[k].lang \in LangCodes \cup {""}
  <2>1. \A k \in {j \in Keys : d.drafts[j] # Null} : k \in Keys /\ d.drafts[k] \in DraftRows
    BY DEF DatabaseOK
  <2>2. \A r \in DraftRows : r.lang \in LangCodes \cup {""}
    BY DEF DraftRows
  <2> QED
    BY <2>1, <2>2
<1>9. sources \in SUBSET SourceFacts
  <2>1. d.sourceReps \in SUBSET SourceFacts
    BY DEF DatabaseOK
  <2>2. ASSUME NEW x \in sources \ d.sourceReps PROVE x \in SourceFacts
    <3>1. PICK k \in {j \in Keys : d.drafts[j] # Null} : x = [key |-> k, lang |-> d.drafts[k].lang]
      BY <1>3, <2>2
    <3> QED
      BY <1>8, <3>1 DEF SourceFacts
  <2> QED
    BY <2>1, <2>2
<1>10. DatabaseOK(d1)
  BY <1>4, <1>7, TablesSet
<1>11. DatabaseOK(e)
  BY <1>5, <1>9, <1>10, TablesSet
<1>12. d1.open = d.open /\ d1.done = d.done /\ d1.template = d.template /\ d1.drafts = d.drafts
       /\ d1.public = d.public
  BY <1>4 DEF DatabaseOK
<1>13. e.open = d1.open /\ e.done = d1.done /\ e.template = d1.template /\ e.drafts = d1.drafts
       /\ e.public = d1.public
  BY <1>5, <1>10 DEF DatabaseOK
<1> QED
  BY <1>11, <1>12, <1>13 DEF RunsKept

-----------------------------------------------------------------------------
(* build_runs and build_pages                                               *)
LEMMA CurrentFacts ==
  ASSUME source \in [SourceFiles -> Versions \cup {Null}], NEW i \in Current
  PROVE  /\ i \in Idents /\ FileOf(i) \in SUBSET Written
         /\ \E f \in FileOf(i) : Ident(f) = i /\ Now(i) = source[f]
         /\ Now(i).draft \in BOOLEAN /\ Now(i).rev \in Nat /\ Now(i).rev >= 1
<1>1. PICK g \in Written : Ident(g) = i
  BY DEF Current
<1>2. g \in FileOf(i) /\ FileOf(i) \in SUBSET Written
  BY <1>1 DEF FileOf
<1>3. PICK f : f = CHOOSE h \in FileOf(i) : TRUE
  OBVIOUS
<1>4. f \in FileOf(i)
  BY <1>2, <1>3
<1>5. Now(i) = source[f] /\ Ident(f) = i /\ f \in Written
  BY <1>3, <1>4 DEF Now, FileOf
<1>6. i \in Idents
  BY <1>5, WrittenAreFiles, FileFacts
<1>7. source[f].draft \in BOOLEAN /\ source[f].rev \in Nat /\ source[f].rev >= 1
  BY <1>5, VersionFacts
<1> QED
  BY <1>2, <1>4, <1>5, <1>6, <1>7

LEMMA CurrentAre ==
  ASSUME NEW f \in Written
  PROVE  Ident(f) \in Current
BY DEF Current

LEMMA PriorFacts ==
  ASSUME NEW d, DatabaseOK(d), NEW i
  PROVE  /\ Prior(d, i).built \in Nat
         /\ i \in DOMAIN d.done.pages => Prior(d, i) = d.done.pages[i] /\ i \in Idents /\ d.done.pages[i] \in DonePages
         /\ i \notin DOMAIN d.done.pages => Prior(d, i).built = 0 /\ Prior(d, i).state = ""
<1>1. CASE i \in DOMAIN d.done.pages
  <2>1. d.done.pages \in [DOMAIN d.done.pages -> DonePages] /\ DOMAIN d.done.pages \subseteq Idents
    BY DEF DatabaseOK, DoneOK
  <2>2. d.done.pages[i] \in DonePages
    BY <1>1, <2>1
  <2>3. \A p \in DonePages : p.built \in Nat
    BY DEF DonePages
  <2> QED
    BY <1>1, <2>1, <2>2, <2>3 DEF Prior
<1>2. CASE i \notin DOMAIN d.done.pages
  BY <1>2 DEF Prior
<1> QED
  BY <1>1, <1>2

LEMMA RunFacts ==
  ASSUME source \in [SourceFiles -> Versions \cup {Null}], NEW d, DatabaseOK(d), NEW r, r = RunOf(d)
  PROVE  /\ DOMAIN r.pages = Current \cup DOMAIN d.done.pages
         /\ \A i \in DOMAIN r.pages :
               /\ r.pages[i].built = Prior(d, i).built /\ r.pages[i].state = StateAtBegin(d, i)
               /\ r.pages[i].source = IF i \in Current THEN Now(i).rev ELSE 0
         /\ r.changes = {i \in Current : Differs(d, i)} \cup NewlyGone(d)
<1>1. Current \cup Gone(d) = Current \cup DOMAIN d.done.pages
  BY DEF Gone
<1> QED
  BY <1>1 DEF RunOf

LEMMA BeginFacts ==
  ASSUME source \in [SourceFiles -> Versions \cup {Null}], NEW d, DatabaseOK(d), NEW e, e = BeginRun(d)
  PROVE  DatabaseOK(e) /\ RowsKept(d, e) /\ e.open = RunOf(d) /\ e.done = d.done /\ e.template = d.template
         /\ e.drafts = d.drafts
<1>1. PICK d1 : d1 = ReconcileSources(d)
  OBVIOUS
<1>2. RunsKept(d, d1) /\ RowsKept(d, d1) /\ d1.drafts = d.drafts
  BY <1>1, ReconciledSources
<1>3. PICK r : r = RunOf(d)
  OBVIOUS
<1>4. e = [d1 EXCEPT !.open = r]
  BY <1>1, <1>3 DEF BeginRun
<1>5. DatabaseOK(d1)
  BY <1>2 DEF RunsKept
<1>6. DatabaseOK(e)
  BY <1>4, <1>5, TablesSet
<1>7. e.open = r /\ e.done = d1.done /\ e.template = d1.template /\ RowsKept(d1, e) /\ e.drafts = d1.drafts
  BY <1>4, <1>5 DEF DatabaseOK, RowsKept
<1> QED
  BY <1>2, <1>3, <1>6, <1>7 DEF RunsKept, RowsKept

LEMMA RevisionType ==
  ASSUME NEW d, DatabaseOK(d), NEW i
  PROVE  PublicRevision(d, i) \in Nat \cup {Null}
<1>1. PICK r : r = {q \in d.publicReps : <<q.key, q.lang>> = i}
  OBVIOUS
<1>2. CASE r = {}
  BY <1>1, <1>2 DEF PublicRevision
<1>3. CASE r # {}
  <2>1. PICK q : q = CHOOSE x \in r : TRUE
    OBVIOUS
  <2>2. q \in r
    BY <1>3, <2>1
  <2>3. q \in PublicFacts
    BY <1>1, <2>2 DEF DatabaseOK
  <2>4. q.rev \in Nat
    BY <2>3 DEF PublicFacts
  <2> QED
    BY <1>1, <1>3, <2>1, <2>4 DEF PublicRevision
<1> QED
  BY <1>2, <1>3

PageFinished(d, i, p) ==
    /\ p.seen = PublicRevision(d, i)
    /\ i \in Current =>
          /\ p.built = Now(i).rev
          /\ p.state = IF Now(i).draft THEN "intentionally_unpublished"
                       ELSE IF PublicRevision(d, i) = Null THEN "missing_public" ELSE "published"
    /\ i \notin Current =>
          /\ p.built = Prior(d, i).built
          /\ p.state = IF PublicRevision(d, i) = Null THEN "deleted" ELSE "deletion_incomplete"

LEMMA CompletedRun ==
  ASSUME source \in [SourceFiles -> Versions \cup {Null}],
         NEW d, DatabaseOK(d), d.open = RunOf(d), NEW e, e = CompleteRun(d)
  PROVE  /\ DatabaseOK(e) /\ RowsKept(d, e) /\ e.open = Null /\ e.template = d.template /\ e.drafts = d.drafts
         /\ DOMAIN e.done.pages = Current \cup DOMAIN d.done.pages
         /\ \A i \in DOMAIN e.done.pages : PageFinished(d, i, e.done.pages[i])
<1> DEFINE was(i) == d.open.pages[i]
           now(i) == StateAtEnd(d, i, was(i).state)
           page(i) == [built |-> IF now(i) \in {"deleted", "deletion_incomplete"} THEN was(i).built ELSE was(i).source,
                       seen |-> PublicRevision(d, i), state |-> now(i)]
<1>1. DOMAIN d.open.pages = Current \cup DOMAIN d.done.pages
      /\ \A i \in DOMAIN d.open.pages :
            /\ was(i).built = Prior(d, i).built /\ was(i).state = StateAtBegin(d, i)
            /\ was(i).source = IF i \in Current THEN Now(i).rev ELSE 0
  <2>1. PICK r : r = RunOf(d)
    OBVIOUS
  <2>2. r = d.open
    BY <2>1
  <2> QED
    BY <2>1, <2>2, RunFacts
<1>2. ASSUME NEW i \in DOMAIN d.open.pages PROVE page(i) \in DonePages /\ PageFinished(d, i, page(i)) /\ i \in Idents
  <2>1. was(i).built = Prior(d, i).built /\ was(i).state = StateAtBegin(d, i)
        /\ was(i).source = IF i \in Current THEN Now(i).rev ELSE 0
    BY <1>1
  <2>2. PICK out \in Nat \cup {Null} : out = PublicRevision(d, i)
    BY RevisionType
  <2>3. Prior(d, i).built \in Nat
    BY PriorFacts
  <2>4. CASE i \in Current /\ Now(i).draft
    <3>1. was(i).state = "intentionally_unpublished"
      BY <2>1, <2>4 DEF StateAtBegin
    <3>2. now(i) = "intentionally_unpublished"
      BY <3>1 DEF StateAtEnd
    <3>3. page(i).built = Now(i).rev /\ page(i).seen = out /\ page(i).state = "intentionally_unpublished"
      BY <2>1, <2>2, <2>4, <3>2
    <3>4. Now(i).rev \in Nat /\ i \in Idents
      BY <2>4, CurrentFacts
    <3>5. PageFinished(d, i, page(i))
      BY <2>2, <2>4, <3>3 DEF PageFinished
    <3>6. page(i) \in DonePages
      BY <2>2, <3>2, <3>3, <3>4 DEF DonePages
    <3> QED
      BY <3>4, <3>5, <3>6
  <2>5. CASE i \in Current /\ ~Now(i).draft
    <3>1. was(i).state \in {"pending", "unchanged"}
      BY <2>1, <2>5 DEF StateAtBegin
    <3>2. now(i) = IF out = Null THEN "missing_public" ELSE "published"
      BY <2>2, <3>1 DEF StateAtEnd
    <3>3. page(i).built = Now(i).rev /\ page(i).seen = out
          /\ page(i).state = IF out = Null THEN "missing_public" ELSE "published"
      BY <2>1, <2>2, <2>5, <3>2
    <3>4. Now(i).rev \in Nat /\ i \in Idents
      BY <2>5, CurrentFacts
    <3>5. PageFinished(d, i, page(i))
      BY <2>2, <2>5, <3>3 DEF PageFinished
    <3>6. page(i) \in DonePages
      BY <2>2, <3>2, <3>3, <3>4 DEF DonePages
    <3> QED
      BY <3>4, <3>5, <3>6
  <2>6. CASE i \notin Current
    <3>1. was(i).state \in {"deletion_pending", "deleted"}
      BY <2>1, <2>6 DEF StateAtBegin
    <3>2. now(i) = IF out = Null THEN "deleted" ELSE "deletion_incomplete"
      BY <2>2, <3>1 DEF StateAtEnd
    <3>3. page(i).built = Prior(d, i).built /\ page(i).seen = out
          /\ page(i).state = IF out = Null THEN "deleted" ELSE "deletion_incomplete"
      BY <2>1, <2>2, <2>6, <3>2
    <3>4. i \in Idents
      BY <1>1, <2>6, PriorFacts
    <3>5. PageFinished(d, i, page(i))
      BY <2>2, <2>6, <3>3 DEF PageFinished
    <3>6. page(i) \in DonePages
      BY <2>2, <2>3, <3>2, <3>3 DEF DonePages
    <3> QED
      BY <3>4, <3>5, <3>6
  <2> QED
    BY <2>4, <2>5, <2>6
<1>3. PICK pages : pages = [i \in DOMAIN d.open.pages |-> page(i)]
  OBVIOUS
<1>4. PICK done : done = [pages |-> pages, sourceDrift |-> 0, publicDrift |-> 0]
  OBVIOUS
<1>5. PICK d1 : d1 = [d EXCEPT !.open = Null]
  OBVIOUS
<1>6. e = [d1 EXCEPT !.done = done]
  BY <1>3, <1>4, <1>5 DEF CompleteRun, DatabaseOK
<1> HIDE DEF page
<1>7. DOMAIN pages = DOMAIN d.open.pages /\ \A i \in DOMAIN pages : pages[i] = page(i)
  BY <1>3
<1>8. DOMAIN pages \subseteq Idents /\ pages \in [DOMAIN pages -> DonePages]
  BY <1>2, <1>3, <1>7
<1>9. DoneOK(done)
  BY <1>4, <1>8 DEF DoneOK
<1>10. DatabaseOK(d1)
  BY <1>5, TablesSet
<1>11. DatabaseOK(e)
  BY <1>6, <1>9, <1>10, TablesSet
<1>12. d1.open = Null /\ RowsKept(d, d1) /\ d1.template = d.template /\ d1.drafts = d.drafts
  BY <1>5 DEF DatabaseOK, RowsKept
<1>13. e.open = d1.open /\ RowsKept(d1, e) /\ e.template = d1.template /\ e.drafts = d1.drafts /\ e.done = done
  BY <1>6, <1>10 DEF DatabaseOK, RowsKept
<1> QED
  BY <1>1, <1>2, <1>4, <1>7, <1>11, <1>12, <1>13 DEF RowsKept

LEMMA DriftsFinite ==
  ASSUME source \in [SourceFiles -> Versions \cup {Null}], NEW d, DatabaseOK(d)
  PROVE  Cardinality(SourceDrifts(d)) \in Nat /\ Cardinality(PublicDrifts(d)) \in Nat
<1>1. IsFiniteSet(SourceFiles)
  BY DerivedStoreAssumption
<1>2. IsFiniteSet(Idents)
  <2>1. PICK h : h = [f \in SourceFiles |-> Ident(f)]
    OBVIOUS
  <2>2. h \in [SourceFiles -> Idents] /\ \A i \in Idents : \E f \in SourceFiles : h[f] = i
    BY <2>1 DEF Idents
  <2>3. h \in Surjection(SourceFiles, Idents)
    BY <2>2 DEF Surjection
  <2> QED
    BY <1>1, <2>3, FS_Surjection
<1>3. DOMAIN d.done.pages \subseteq Idents /\ Current \subseteq Idents
  BY CurrentFacts DEF DatabaseOK, DoneOK
<1>4. SourceDrifts(d) \subseteq Idents /\ PublicDrifts(d) \subseteq Idents
  BY <1>3 DEF SourceDrifts, PublicDrifts
<1> QED
  BY <1>2, <1>4, FS_Subset, FS_CardinalityType

LEMMA ReconciledLatest ==
  ASSUME source \in [SourceFiles -> Versions \cup {Null}],
         NEW d, DatabaseOK(d), NEW pages \in RenderedTrees, NEW e, e = ReconcileLatest(d, pages)
  PROVE  /\ DatabaseOK(e) /\ e.public = d.public /\ e.open = d.open /\ e.template = d.template /\ e.drafts = d.drafts
         /\ e.publicReps = ReconcilePublic(d, pages, Written).publicReps
         /\ e.done.pages = d.done.pages
         /\ SourceDrifts(e) = {} => e.done.sourceDrift = 0
         /\ PublicDrifts(e) = {} => e.done.publicDrift = 0
<1>1. PICK d1 : d1 = ReconcilePublic(d, pages, Written)
  OBVIOUS
<1>2. Written \in SUBSET SourceFiles
  BY WrittenAreFiles
<1>3. DatabaseOK(d1) /\ d1 = [d EXCEPT !.publicReps = d1.publicReps]
  BY <1>1, <1>2, ReconciledFacts
<1>4. d1.public = d.public /\ d1.open = d.open /\ d1.template = d.template /\ d1.drafts = d.drafts /\ d1.done = d.done
  BY <1>3 DEF DatabaseOK
<1>5. PICK d2 : d2 = ReconcileSources(d1)
  OBVIOUS
<1>6. RunsKept(d1, d2) /\ RowsKept(d1, d2) /\ d2.drafts = d1.drafts
  BY <1>3, <1>5, ReconciledSources
<1>7. DatabaseOK(d2) /\ d2.done = d.done
  BY <1>4, <1>6 DEF RunsKept
<1>8. PICK n \in Nat : n = Cardinality(SourceDrifts(d2))
  BY <1>7, DriftsFinite
<1>9. PICK m \in Nat : m = Cardinality(PublicDrifts(d2))
  BY <1>7, DriftsFinite
<1>10. PICK done : done = [d2.done EXCEPT !.sourceDrift = n, !.publicDrift = m]
  OBVIOUS
<1>11. e = [d2 EXCEPT !.done = done]
  <2>1. d2 = [d2 EXCEPT !.done = d2.done]
    BY <1>7 DEF DatabaseOK
  <2> QED
    BY <1>1, <1>5, <1>7, <1>8, <1>9, <1>10 DEF ReconcileLatest, DatabaseOK, DoneOK
<1>12. DoneOK(done) /\ done.pages = d.done.pages /\ done.sourceDrift = n /\ done.publicDrift = m
  BY <1>7, <1>10 DEF DatabaseOK, DoneOK
<1>13. DatabaseOK(e)
  BY <1>7, <1>11, <1>12, TablesSet
<1>14. e.done = done /\ RowsKept(d2, e) /\ e.open = d2.open /\ e.template = d2.template /\ e.drafts = d2.drafts
  BY <1>7, <1>11 DEF DatabaseOK, RowsKept
<1>15. SourceDrifts(e) = SourceDrifts(d2)
  BY <1>7, <1>12, <1>14 DEF SourceDrifts
<1>16. PublicDrifts(e) = PublicDrifts(d2)
  BY <1>7, <1>12, <1>14 DEF PublicDrifts, PublicRevision, RowsKept
<1>17. Cardinality({}) = 0
  BY FS_EmptySet
<1> QED
  BY <1>1, <1>4, <1>6, <1>8, <1>9, <1>12, <1>13, <1>14, <1>15, <1>16, <1>17 DEF RunsKept, RowsKept

(* A start leaves the rows of the public pages, and a source row for every  *)
(* bundle without one.                                                      *)
LEMMA Started ==
  ASSUME source \in [SourceFiles -> Versions \cup {Null}], public.look \in Nat,
         NEW d, DatabaseOK(d), NEW pages \in RenderedTrees, NEW failed, NEW e, e = StartupSync(d, pages, failed)
  PROVE  /\ RunsKept(d, e)
         /\ failed = {} => \A u \in Urls : IF u \in PagesIn(pages) THEN e.public[u] # Null /\ e.public[u].rev = pages[u].rev
                                           ELSE e.public[u] = Null
         /\ failed = {} => \A k \in Keys :
               (e.drafts[k] # Null) <=> \E f \in Written : f.key = k /\ ~\E u \in Urls :
                     e.public[u] # Null /\ k \in ToSet(SourceSlugCandidates(u))
         /\ \E x : DatabaseOK(x) /\ e.publicReps = ReconcilePublic(x, pages, Written).publicReps
<1>1. PICK one : one = Indexed(d, pages, failed, {})
  OBVIOUS
<1>2. RunsKept(d, one) /\ \A u \in PagesIn(pages) \ failed : one.public[u] # Null /\ one.public[u].rev = pages[u].rev
  <2>1. RunsKept(d, one) /\ SyncedRows(d, one, pages, PagesIn(pages) \ failed, {})
    BY <1>1, IndexedTables
  <2>2. \A u \in PagesIn(pages) : u \in Urls
    BY DEF PagesIn
  <2>3. \A u \in PagesIn(pages) \ failed : one.public[u] = SyncPublic(d, u, pages, public.look, {})
    BY <2>1, <2>2 DEF SyncedRows
  <2> QED
    BY <2>1, <2>3, RowType
<1>3. PICK built : built = UNION {ToSet(SourceSlugCandidates(u)) : u \in PagesIn(pages) \ failed}
  OBVIOUS
<1>4. PICK alone \in SUBSET Written : alone = {f \in Written : f.key \notin built}
  OBVIOUS
<1>5. PICK two : two = SyncSources(one, alone)
  OBVIOUS
<1>6. DatabaseOK(one)
  BY <1>2 DEF RunsKept
<1>7. /\ RunsKept(one, two) /\ RowsKept(one, two)
      /\ \A k \in Keys : IF \E f \in alone : f.key = k THEN two.drafts[k] # Null ELSE two.drafts[k] = one.drafts[k]
  BY <1>5, <1>6, SyncedSources
<1>8. PICK ks : ks = Orphans(two, alone)
  OBVIOUS
<1>9. PICK mid : mid = DropSource(two, ks)
  OBVIOUS
<1>10. DatabaseOK(two)
  BY <1>7 DEF RunsKept
<1>11. /\ RunsKept(two, mid) /\ RowsKept(two, mid)
       /\ \A k \in Keys : mid.drafts[k] = IF k \in ks THEN Null ELSE two.drafts[k]
  BY <1>9, <1>10, DroppedSource
<1>12. PICK three : three = PruneRows(mid, pages)
  OBVIOUS
<1>13. DatabaseOK(mid)
  BY <1>11 DEF RunsKept
<1>14. /\ RunsKept(mid, three) /\ three.drafts = mid.drafts
       /\ \A u \in Urls : three.public[u] = IF u \in PagesIn(pages) THEN mid.public[u] ELSE Null
  BY <1>12, <1>13, PrunedRows
<1>15. DatabaseOK(three) /\ Written \in SUBSET SourceFiles
  BY <1>14, WrittenAreFiles DEF RunsKept
<1>16. PICK d1 : d1 = ReconcilePublic(three, pages, Written)
  OBVIOUS
<1>17. DatabaseOK(d1) /\ d1 = [three EXCEPT !.publicReps = d1.publicReps]
  BY <1>15, <1>16, ReconciledFacts
<1>18. RunsKept(three, d1) /\ d1.public = three.public /\ d1.drafts = three.drafts
  BY <1>15, <1>17 DEF DatabaseOK, RunsKept
<1>19. e = ReconcileSources(d1)
  BY <1>1, <1>3, <1>4, <1>5, <1>8, <1>9, <1>12, <1>16 DEF StartupSync
<1>20. RunsKept(d1, e) /\ RowsKept(d1, e) /\ e.drafts = d1.drafts
  BY <1>17, <1>19, ReconciledSources
<1>21. RunsKept(d, e)
  BY <1>2, <1>7, <1>11, <1>14, <1>18, <1>20 DEF RunsKept
<1>22. \A u \in Urls : e.public[u] = IF u \in PagesIn(pages) THEN one.public[u] ELSE Null
  BY <1>7, <1>11, <1>14, <1>18, <1>20 DEF RowsKept
<1>23. \A k \in Keys : (e.drafts[k] # Null) <=> \E f \in alone : f.key = k
  <2>1. \A k \in Keys : e.drafts[k] = IF k \in ks THEN Null ELSE two.drafts[k]
    BY <1>11, <1>14, <1>18, <1>20
  <2>2. \A k \in Keys : k \in ks <=> (two.drafts[k] # Null /\ ~\E f \in alone : f.key = k)
    BY <1>8 DEF Orphans
  <2> QED
    BY <1>7, <2>1, <2>2
<1>24. ASSUME failed = {}
       PROVE  \A u \in Urls : IF u \in PagesIn(pages) THEN e.public[u] # Null /\ e.public[u].rev = pages[u].rev
                              ELSE e.public[u] = Null
  BY <1>2, <1>22, <1>24
<1>25. ASSUME failed = {}, NEW k \in Keys
       PROVE  (e.drafts[k] # Null) <=> \E f \in Written : f.key = k /\ ~\E u \in Urls :
                     e.public[u] # Null /\ k \in ToSet(SourceSlugCandidates(u))
  <2>1. \A u \in Urls : e.public[u] # Null <=> u \in PagesIn(pages)
    BY <1>24, <1>25
  <2>2. \A u \in PagesIn(pages) : u \in Urls
    BY DEF PagesIn
  <2>3. k \in built <=> \E u \in Urls : e.public[u] # Null /\ k \in ToSet(SourceSlugCandidates(u))
    BY <1>3, <1>25, <2>1, <2>2
  <2>4. \A f : f \in alone <=> f \in Written /\ f.key \notin built
    BY <1>4
  <2> QED
    BY <1>23, <2>3, <2>4
<1>26. e.publicReps = ReconcilePublic(three, pages, Written).publicReps
  BY <1>16, <1>20 DEF RowsKept
<1> QED
  BY <1>15, <1>21, <1>24, <1>25, <1>26

-----------------------------------------------------------------------------
(* The rendered tree                                                        *)
TypedSource == source \in [SourceFiles -> Versions \cup {Null}]

LEMMA RenderedPages ==
  ASSUME TypedSource, NEW first, NEW pages, pages = Rendered(first)
  PROVE  /\ pages \in RenderedTrees
         /\ \A u \in PagesIn(pages) : IF pages[u].by = Null THEN u \in Generated
                                      ELSE pages[u].by \in Renders(u) /\ pages[u].rev = source[pages[u].by].rev
         /\ \A u \in Urls : Renders(u) # {} => u \in PagesIn(pages) /\ pages[u].by \in Renders(u)
<1>1. \A u : Renders(u) \in SUBSET Written
  BY DEF Renders
<1>2. ASSUME NEW u \in Urls, Renders(u) # {}
      PROVE  /\ pages[u] \in Outputs /\ pages[u] # Null /\ pages[u].by \in Renders(u) /\ pages[u].by # Null
             /\ pages[u].rev = source[pages[u].by].rev
  <2>1. PICK f : f = IF first \in Renders(u) THEN first ELSE CHOOSE g \in Renders(u) : TRUE
    OBVIOUS
  <2>2. f \in Renders(u)
    BY <1>2, <2>1
  <2>3. f \in Written /\ f \in SourceFiles
    BY <1>1, <2>2, WrittenAreFiles
  <2>4. source[f].rev \in Nat /\ source[f].links \in SUBSET Urls /\ f # Null
    BY <2>3, VersionFacts, FileFacts DEF TypedSource
  <2>5. pages[u] = [by |-> f, rev |-> source[f].rev, links |-> source[f].links]
    BY <1>2, <2>1 DEF Rendered
  <2>6. pages[u] \in Outputs
    BY <2>3, <2>4, <2>5 DEF Outputs
  <2> QED
    BY <2>2, <2>4, <2>5, <2>6, NullFacts
<1>3. ASSUME NEW u \in Urls, Renders(u) = {}, u \in Generated
      PROVE  pages[u] \in Outputs /\ pages[u] # Null /\ pages[u].by = Null
  <2>1. pages[u] = [by |-> Null, rev |-> 0, links |-> {}]
    BY <1>3 DEF Rendered
  <2>2. pages[u] \in Outputs
    BY <2>1 DEF Outputs
  <2> QED
    BY <2>1, <2>2, NullFacts
<1>4. ASSUME NEW u \in Urls, Renders(u) = {}, u \notin Generated
      PROVE  pages[u] = Null
  BY <1>4 DEF Rendered
<1>5. pages \in RenderedTrees
  <2>1. \A u \in Urls : pages[u] \in Outputs \cup {Null}
    BY <1>2, <1>3, <1>4
  <2>2. DOMAIN pages = Urls /\ pages = [u \in Urls |-> pages[u]]
    BY DEF Rendered
  <2> QED
    BY <2>1, <2>2 DEF RenderedTrees
<1>6. \A u \in PagesIn(pages) : u \in Urls /\ pages[u] # Null
  BY DEF PagesIn
<1>7. \A u \in PagesIn(pages) : IF pages[u].by = Null THEN u \in Generated
                                ELSE pages[u].by \in Renders(u) /\ pages[u].rev = source[pages[u].by].rev
  BY <1>2, <1>3, <1>4, <1>6
<1>8. \A u \in Urls : Renders(u) # {} => u \in PagesIn(pages) /\ pages[u].by \in Renders(u)
  BY <1>2 DEF PagesIn
<1> QED
  BY <1>5, <1>7, <1>8

LEMMA AskedFacts ==
  ASSUME TypedSource, NEW f \in Written
  PROVE  Url(f) \in Asked(f) /\ PublicSlug(f.key, Lang(f)) \in Asked(f)
<1>1. f \in SourceFiles /\ PublicSlug(f.key, Lang(f)) \in Urls
  BY WrittenAreFiles, FileFacts
<1>2. PublicSlug(f.key, Lang(f)) # Null
  BY <1>1, DerivedStoreAssumption
<1> QED
  BY <1>2 DEF Asked, Url

(* Where no two files ask for one URL, a file has its URL and its identity  *)
(* for itself.                                                              *)
LEMMA AloneFacts ==
  ASSUME TypedSource, ~Contested, NEW f \in Written
  PROVE  /\ \A g \in Written : Url(g) = Url(f) => g = f
         /\ \A g \in Written : Ident(g) = Ident(f) => g = f
         /\ Claimants(Written, Url(f), Lang(f)) = {f}
         /\ FileOf(Ident(f)) = {f} /\ Now(Ident(f)) = source[f]
<1>1. \A g \in Written : \A u : (u \in Asked(f) /\ u \in Asked(g)) => g = f
  BY DEF Contested
<1>2. \A g \in Written : Url(g) = Url(f) => g = f
  BY <1>1, AskedFacts
<1>3. ASSUME NEW g \in Written, Ident(g) = Ident(f) PROVE g = f
  <2>1. g.key = f.key /\ Lang(g) = Lang(f)
    BY <1>3 DEF Ident
  <2>2. PublicSlug(f.key, Lang(f)) \in Asked(g) /\ PublicSlug(f.key, Lang(f)) \in Asked(f)
    BY <2>1, AskedFacts
  <2> QED
    BY <1>1, <2>2
<1>4. Claimants(Written, Url(f), Lang(f)) = {f}
  <2>1. Url(f) \in Asked(f)
    BY AskedFacts
  <2> QED
    BY <1>1, <2>1 DEF Claimants
<1>5. FileOf(Ident(f)) = {f}
  BY <1>3 DEF FileOf
<1>6. Now(Ident(f)) = source[f]
  <2>1. (CHOOSE h \in {f} : TRUE) = f
    OBVIOUS
  <2> QED
    BY <1>5, <2>1 DEF Now
<1> QED
  BY <1>2, <1>3, <1>4, <1>5, <1>6

LEMMA RenderedAlone ==
  ASSUME TypedSource, ~Contested, NEW first, NEW pages, pages = Rendered(first)
  PROVE  /\ \A f \in Written : ~source[f].draft =>
               /\ Url(f) \in PagesIn(pages) /\ pages[Url(f)].by = f /\ pages[Url(f)].rev = source[f].rev
         /\ \A f \in SourceFiles : {o \in Published(pages) : o[1] = f} = IF f \in Written THEN Output(f) ELSE {}
<1>1. ASSUME NEW f \in Written, ~source[f].draft
      PROVE  Url(f) \in PagesIn(pages) /\ pages[Url(f)].by = f /\ pages[Url(f)].rev = source[f].rev
  <2>1. f \in Renders(Url(f)) /\ Url(f) \in Urls
    BY <1>1, VersionFacts DEF Renders, TypedSource
  <2>2. \A g \in Renders(Url(f)) : g = f
    BY AloneFacts DEF Renders
  <2>3. Url(f) \in PagesIn(pages) /\ pages[Url(f)].by \in Renders(Url(f))
    BY <2>1, RenderedPages
  <2>4. pages[Url(f)].by = f /\ f # Null
    BY <2>2, <2>3, WrittenAreFiles, FileFacts
  <2> QED
    BY <2>3, <2>4, RenderedPages
<1>2. ASSUME NEW u \in PagesIn(pages), pages[u].by # Null
      PROVE  /\ pages[u].by \in Written /\ ~source[pages[u].by].draft /\ pages[u].rev = source[pages[u].by].rev
  BY <1>2, RenderedPages DEF Renders
<1>3. ASSUME NEW f \in SourceFiles, NEW o \in Published(pages), o[1] = f
      PROVE  f \in Written /\ o \in Output(f)
  <2>1. PICK u \in PagesIn(pages) : o = <<pages[u].by, pages[u].rev>>
    BY DEF Published
  <2>2. pages[u].by = f /\ f # Null
    BY <1>3, <2>1, FileFacts
  <2> QED
    BY <1>2, <2>1, <2>2 DEF Output
<1>4. ASSUME NEW f \in Written, NEW o \in Output(f)
      PROVE  o \in Published(pages) /\ o[1] = f
  <2>1. ~source[f].draft /\ o = <<f, source[f].rev>>
    BY <1>4 DEF Output
  <2> QED
    BY <1>1, <2>1 DEF Published
<1>5. ASSUME NEW f \in SourceFiles
      PROVE  {o \in Published(pages) : o[1] = f} = IF f \in Written THEN Output(f) ELSE {}
  BY <1>3, <1>4, <1>5
<1> QED
  BY <1>1, <1>5

LEMMA PublishedType ==
  ASSUME NEW pages \in RenderedTrees
  PROVE  Published(pages) \in SUBSET ((SourceFiles \cup {Null}) \X Nat)
<1>1. ASSUME NEW o \in Published(pages) PROVE o \in (SourceFiles \cup {Null}) \X Nat
  <2>1. PICK u \in PagesIn(pages) : o = <<pages[u].by, pages[u].rev>>
    BY DEF Published
  <2> QED
    BY <2>1, PageFactsOf
<1> QED
  BY <1>1

-----------------------------------------------------------------------------
(* The facts of a rendered tree                                             *)

TrueFact(f) == [key |-> f.key, lang |-> Lang(f), slug |-> Url(f), rev |-> source[f].rev]

LEMMA TrueFactsAre ==
  ASSUME TypedSource, ~Contested
  PROVE  /\ TrueFacts \in SUBSET PublicFacts
         /\ \A f \in Written : ~source[f].draft => TrueFact(f) \in TrueFacts
         /\ \A q \in TrueFacts : \E f \in Written : ~source[f].draft /\ q = TrueFact(f)
         /\ \A q, r \in TrueFacts : (Identity(q) = Identity(r) \/ q.slug = r.slug) => q = r
<1>1. TrueFacts = {TrueFact(f) : f \in {g \in Written : ~source[g].draft}}
  BY DEF TrueFacts, TrueFact
<1>2. \A f \in Written : f.key \in Keys /\ f.key # Null /\ Lang(f) \in LangCodes /\ Url(f) \in Urls /\ source[f].rev \in Nat
  BY WrittenAreFiles, FileFacts, VersionFacts DEF TypedSource
<1>3. ASSUME NEW q \in TrueFacts PROVE q \in PublicFacts
  <2>1. PICK f \in Written : q = TrueFact(f)
    BY <1>1
  <2> QED
    BY <1>2, <2>1 DEF TrueFact, PublicFacts
<1>4. ASSUME NEW q \in TrueFacts, NEW r \in TrueFacts, Identity(q) = Identity(r) \/ q.slug = r.slug PROVE q = r
  <2>1. PICK f \in Written : q = TrueFact(f)
    BY <1>1
  <2>2. PICK g \in Written : r = TrueFact(g)
    BY <1>1
  <2>3. CASE Identity(q) = Identity(r)
    <3>1. f.key = g.key /\ Lang(f) = Lang(g)
      BY <2>1, <2>2, <2>3 DEF Identity, TrueFact
    <3>2. Ident(f) = Ident(g)
      BY <3>1 DEF Ident
    <3> QED
      BY <2>1, <2>2, <3>2, AloneFacts
  <2>4. CASE q.slug = r.slug
    <3>1. Url(f) = Url(g)
      BY <2>1, <2>2, <2>4 DEF TrueFact
    <3> QED
      BY <2>1, <2>2, <3>1, AloneFacts
  <2> QED
    BY <1>4, <2>3, <2>4
<1> QED
  BY <1>1, <1>3, <1>4

(* A page that a source renders has its source's fact: where the index      *)
(* resolves it, or the facts had it right before.                           *)
LEMMA FactIsTrue ==
  ASSUME TypedSource, ~Contested, NEW first, NEW pages, pages = Rendered(first),
         NEW u \in PagesIn(pages), pages[u].by # Null,
         NEW reps \in SUBSET PublicFacts, NEW sources \in SUBSET SourceFacts, NEW srcIdx \in SUBSET SourceFiles,
         srcIdx = Written \/ (srcIdx = {} /\ reps = TrueFacts),
         NEW r, r = ResolvedRep(reps, sources, srcIdx, pages, u)
  PROVE  /\ pages[u].by \in Written /\ ~source[pages[u].by].draft
         /\ Url(pages[u].by) = u /\ r = TrueFact(pages[u].by)
<1>1. PICK f : f = pages[u].by
  OBVIOUS
<1>2. pages \in RenderedTrees /\ f \in Renders(u) /\ pages[u].rev = source[f].rev
  BY <1>1, RenderedPages
<1>3. f \in Written /\ ~source[f].draft /\ Url(f) = u
  BY <1>2 DEF Renders
<1>4. PageLang(pages, u) = Lang(f)
  BY <1>1 DEF PageLang
<1>5. /\ r \in PublicFacts /\ r.slug = u /\ r.lang = Lang(f) /\ r.rev = source[f].rev
      /\ \A g \in SourceFiles : Claimants(srcIdx, u, Lang(f)) = {g} => r.key = g.key
      /\ (~\E g \in SourceFiles : Claimants(srcIdx, u, Lang(f)) = {g}) => r.key = PublicKey(reps, sources, u, Lang(f))
  <2>1. FactRight(r, reps, sources, srcIdx, pages, u)
    BY <1>2, FactType
  <2> QED
    BY <1>1, <1>2, <1>4, <2>1 DEF FactRight
<1>6. r.key = f.key
  <2>1. CASE srcIdx = Written
    <3>1. Claimants(srcIdx, u, Lang(f)) = {f}
      BY <1>3, <2>1, AloneFacts
    <3> QED
      BY <1>3, <1>5, <3>1, WrittenAreFiles
  <2>2. CASE srcIdx = {} /\ reps = TrueFacts
    <3>1. Claimants(srcIdx, u, Lang(f)) = {}
      BY <2>2 DEF Claimants
    <3>2. r.key = PublicKey(reps, sources, u, Lang(f))
      BY <1>5, <3>1
    <3>3. PICK before : before = {q \in reps : q.slug = u /\ q.lang = Lang(f)}
      OBVIOUS
    <3>4. TrueFact(f) \in reps /\ TrueFact(f).slug = u /\ TrueFact(f).lang = Lang(f) /\ TrueFact(f).key = f.key
      BY <1>3, <2>2, TrueFactsAre DEF TrueFact
    <3>5. TrueFact(f) \in before
      BY <3>3, <3>4
    <3>6. \A q \in before : q = TrueFact(f)
      BY <2>2, <3>3, <3>4, TrueFactsAre
    <3>7. (CHOOSE q \in before : TRUE) = TrueFact(f)
      BY <3>5, <3>6
    <3>8. PublicKey(reps, sources, u, Lang(f)) = (CHOOSE q \in before : TRUE).key
      BY <3>3, <3>5 DEF PublicKey
    <3> QED
      BY <3>2, <3>4, <3>7, <3>8
  <2> QED
    BY <2>1, <2>2
<1>7. r = TrueFact(f)
  <2>1. r = [key |-> r.key, lang |-> r.lang, slug |-> r.slug, rev |-> r.rev]
    BY <1>5 DEF PublicFacts
  <2> QED
    BY <1>3, <1>5, <1>6, <2>1 DEF TrueFact
<1> QED
  BY <1>1, <1>3, <1>7

LEMMA ReconciledPublic ==
  ASSUME NEW d, DatabaseOK(d), NEW pages \in RenderedTrees, NEW srcIdx \in SUBSET SourceFiles,
         NEW e, e = ReconcilePublic(d, pages, srcIdx),
         NEW after, after = FactsAfter(d.publicReps, d.sourceReps, srcIdx, pages, PagesIn(pages))
  PROVE  /\ FactsOneByOne(after, d.publicReps, d.sourceReps, srcIdx, pages, PagesIn(pages))
         /\ e.publicReps = {q \in after[Len(Order)] : \E i \in 1 .. Len(Order) :
               Order[i] \in PagesIn(pages) /\ Identity(q) = Identity(Fact(after, d.sourceReps, srcIdx, pages, i))}
<1>1. d.publicReps \in SUBSET PublicFacts /\ d.sourceReps \in SUBSET SourceFacts
  BY DEF DatabaseOK
<1>2. FactsOneByOne(after, d.publicReps, d.sourceReps, srcIdx, pages, PagesIn(pages))
  <2>1. PICK us \in SUBSET PagesIn(pages) : us = PagesIn(pages)
    OBVIOUS
  <2> QED
    BY <1>1, <2>1, FactsWritten
<1>3. PICK want : want = {Identity(Fact(after, d.sourceReps, srcIdx, pages, n)) :
                             n \in {m \in 1 .. Len(Order) : Order[m] \in PagesIn(pages)}}
  OBVIOUS
<1>4. PICK R : R = {q \in after[Len(Order)] : Identity(q) \in want}
  OBVIOUS
<1>5. e = [d EXCEPT !.publicReps = R]
  BY <1>3, <1>4 DEF ReconcilePublic, Fact
<1>6. e.publicReps = R
  BY <1>5 DEF DatabaseOK
<1>7. \A q : Identity(q) \in want <=> \E i \in 1 .. Len(Order) :
               Order[i] \in PagesIn(pages) /\ Identity(q) = Identity(Fact(after, d.sourceReps, srcIdx, pages, i))
  BY <1>3
<1> QED
  BY <1>2, <1>4, <1>6, <1>7

LEMMA FactsMatchPages ==
  ASSUME TypedSource, ~Contested, NEW first, NEW pages, pages = Rendered(first),
         NEW d, DatabaseOK(d), NEW e, e = ReconcilePublic(d, pages, Written), NEW q \in e.publicReps
  PROVE  /\ q.slug \in PagesIn(pages)
         /\ pages[q.slug].by # Null => /\ pages[q.slug].by \in Written /\ ~source[pages[q.slug].by].draft
                                       /\ Url(pages[q.slug].by) = q.slug /\ q = TrueFact(pages[q.slug].by)
<1>1. pages \in RenderedTrees /\ Written \in SUBSET SourceFiles
  BY RenderedPages, WrittenAreFiles
<1>2. d.sourceReps \in SUBSET SourceFacts
  BY DEF DatabaseOK
<1>3. PICK u \in PagesIn(pages), reps \in SUBSET PublicFacts : q = ResolvedRep(reps, d.sourceReps, Written, pages, u)
  BY <1>1, ReconciledFacts
<1>4. q.slug = u
  <2>1. FactRight(q, reps, d.sourceReps, Written, pages, u)
    BY <1>1, <1>2, <1>3, FactType
  <2> QED
    BY <2>1 DEF FactRight
<1>5. ASSUME pages[u].by # Null
      PROVE  /\ pages[u].by \in Written /\ ~source[pages[u].by].draft
             /\ Url(pages[u].by) = u /\ q = TrueFact(pages[u].by)
  BY <1>1, <1>2, <1>3, <1>5, FactIsTrue
<1> QED
  BY <1>4, <1>5

AllSourced(pages) == \A u \in PagesIn(pages) : pages[u].by # Null

LEMMA EveryPageSourced ==
  ASSUME TypedSource, Generated = {}, NEW first, NEW pages, pages = Rendered(first)
  PROVE  AllSourced(pages)
BY RenderedPages DEF AllSourced

(* A reconciliation that knows the sources leaves the true facts.           *)
LEMMA FactsExact ==
  ASSUME TypedSource, ~Contested, Generated = {}, NEW first, NEW pages, pages = Rendered(first),
         NEW d, DatabaseOK(d), NEW e, e = ReconcilePublic(d, pages, Written)
  PROVE  e.publicReps = TrueFacts
<1>1. pages \in RenderedTrees /\ Written \in SUBSET SourceFiles /\ AllSourced(pages)
  BY RenderedPages, WrittenAreFiles, EveryPageSourced
<1>2. d.sourceReps \in SUBSET SourceFacts
  BY DEF DatabaseOK
<1>3. ASSUME NEW q \in e.publicReps PROVE q \in TrueFacts
  <2>1. q.slug \in PagesIn(pages)
    BY FactsMatchPages
  <2>2. pages[q.slug].by # Null
    BY <1>1, <2>1 DEF AllSourced
  <2>3. pages[q.slug].by \in Written /\ ~source[pages[q.slug].by].draft /\ q = TrueFact(pages[q.slug].by)
    BY <2>2, FactsMatchPages
  <2> QED
    BY <2>3, TrueFactsAre
<1>4. PICK after : after = FactsAfter(d.publicReps, d.sourceReps, Written, pages, PagesIn(pages))
  OBVIOUS
<1>5. PICK sources \in SUBSET SourceFacts : sources = d.sourceReps
  BY <1>2
<1>6. PICK us : us = PagesIn(pages)
  OBVIOUS
<1> DEFINE F(n) == Fact(after, sources, Written, pages, n)
<1>7. /\ FactsOneByOne(after, d.publicReps, sources, Written, pages, us)
      /\ e.publicReps = {q \in after[Len(Order)] : \E i \in 1 .. Len(Order) :
               Order[i] \in us /\ Identity(q) = Identity(F(i))}
  BY <1>1, <1>4, <1>5, <1>6, ReconciledPublic
<1>8. ASSUME NEW n \in 1 .. Len(Order), Order[n] \in us
      PROVE  F(n) \in TrueFacts /\ pages[Order[n]].by \in Written /\ F(n) = TrueFact(pages[Order[n]].by)
  <2>1. PICK reps \in SUBSET PublicFacts : reps = after[n - 1]
    <3>1. n - 1 \in 0 .. Len(Order)
      BY OrderFacts
    <3> QED
      BY <1>7, <3>1 DEF FactsOneByOne
  <2>2. pages[Order[n]].by # Null
    BY <1>1, <1>6, <1>8 DEF AllSourced
  <2>3. F(n) = ResolvedRep(reps, sources, Written, pages, Order[n])
    BY <2>1 DEF Fact
  <2>4. /\ pages[Order[n]].by \in Written /\ ~source[pages[Order[n]].by].draft
        /\ F(n) = TrueFact(pages[Order[n]].by)
    BY <1>1, <1>6, <1>8, <2>2, <2>3, FactIsTrue
  <2> QED
    BY <2>4, TrueFactsAre
<1>9. ASSUME NEW f \in Written, ~source[f].draft PROVE TrueFact(f) \in e.publicReps
  <2>1. Url(f) \in us /\ pages[Url(f)].by = f
    BY <1>6, <1>9, RenderedAlone
  <2>2. Url(f) \in Urls
    BY VersionFacts DEF TypedSource
  <2>3. PICK i \in 1 .. Len(Order) : Order[i] = Url(f)
    BY <2>2, OrderFacts
  <2>4. F(i) = TrueFact(f)
    BY <1>8, <2>1, <2>3
  <2>5. \A j \in 1 .. Len(Order) : (Order[j] \in us /\ Identity(F(i)) = Identity(F(j))) => F(i) = F(j)
    <3> HIDE DEF F
    <3> QED
      BY <1>8, <2>1, <2>3, TrueFactsAre
  <2>6. F(i) \in after[Len(Order)]
    BY <1>7, <2>1, <2>3, <2>5, FactsStay
  <2> QED
    BY <1>7, <2>1, <2>3, <2>4, <2>6
<1>10. ASSUME NEW q \in TrueFacts PROVE q \in e.publicReps
  <2>1. PICK f \in Written : ~source[f].draft /\ q = TrueFact(f)
    BY TrueFactsAre
  <2> QED
    BY <1>9, <2>1
<1> QED
  BY <1>3, <1>10

(* One that does not leaves them as they are.                               *)
LEMMA FactsKept ==
  ASSUME TypedSource, ~Contested, Generated = {}, NEW first, NEW pages, pages = Rendered(first),
         NEW us \in SUBSET PagesIn(pages), NEW sources \in SUBSET SourceFacts,
         NEW after, after = FactsAfter(TrueFacts, sources, {}, pages, us)
  PROVE  \A n \in 0 .. Len(Order) : after[n] = TrueFacts
<1>1. pages \in RenderedTrees /\ AllSourced(pages) /\ TrueFacts \in SUBSET PublicFacts /\ {} \in SUBSET SourceFiles
  BY RenderedPages, EveryPageSourced, TrueFactsAre
<1>2. PICK reps \in SUBSET PublicFacts : reps = TrueFacts
  BY <1>1
<1>3. PICK none \in SUBSET SourceFiles : none = {}
  BY <1>1
<1>4. FactsOneByOne(after, reps, sources, none, pages, us)
  BY <1>1, <1>2, <1>3, FactsWritten
<1>5. PICK L \in Nat : L = Len(Order)
  BY OrderFacts
<1> DEFINE T == {n \in Nat : after[n] = TrueFacts}
<1>6. 0 \in T
  BY <1>2, <1>4 DEF FactsOneByOne
<1>7. ASSUME NEW k \in 0 .. L - 1, k \in T PROVE k + 1 \in T
  <2>1. k + 1 \in 1 .. L /\ k + 1 - 1 = k /\ k + 1 \in Nat
    OBVIOUS
  <2>2. after[k] = reps
    BY <1>2, <1>7
  <2>3. after[k + 1] = IF Order[k + 1] \in us THEN WithFact(after[k], Fact(after, sources, none, pages, k + 1)) ELSE after[k]
    <3>1. after[k + 1] = IF Order[k + 1] \in us
                         THEN WithFact(after[k + 1 - 1], Fact(after, sources, none, pages, k + 1)) ELSE after[k + 1 - 1]
      BY <1>4, <1>5, <2>1 DEF FactsOneByOne
    <3> QED
      BY <2>1, <3>1
  <2>4. CASE Order[k + 1] \in us
    <3>1. PICK r : r = ResolvedRep(reps, sources, none, pages, Order[k + 1])
      OBVIOUS
    <3>2. Order[k + 1] \in PagesIn(pages) /\ pages[Order[k + 1]].by # Null
      BY <1>1, <2>4 DEF AllSourced
    <3>3. /\ pages[Order[k + 1]].by \in Written /\ ~source[pages[Order[k + 1]].by].draft
          /\ r = TrueFact(pages[Order[k + 1]].by)
      BY <1>1, <1>2, <1>3, <3>1, <3>2, FactIsTrue
    <3>4. r \in TrueFacts
      BY <3>3, TrueFactsAre
    <3>5. WithFact(reps, r) = reps
      <4>1. \A q \in reps : Identity(q) = Identity(r) => q = r
        BY <1>2, <3>4, TrueFactsAre
      <4> QED
        BY <1>2, <3>4, <4>1 DEF WithFact
    <3>6. Fact(after, sources, none, pages, k + 1) = r
      BY <2>1, <2>2, <3>1 DEF Fact
    <3> QED
      BY <1>2, <2>1, <2>2, <2>3, <2>4, <3>5, <3>6
  <2> QED
    BY <1>2, <2>1, <2>2, <2>3, <2>4
<1>8. \A k \in 0 .. L : k \in T
  <2> HIDE DEF T
  <2> QED
    BY <1>6, <1>7, UpTo
<1> QED
  BY <1>5, <1>8

LEMMA FactsPruned ==
  ASSUME TypedSource, ~Contested, Generated = {}, NEW first, NEW pages, pages = Rendered(first),
         NEW d, DatabaseOK(d), d.publicReps = TrueFacts, NEW e, e = ReconcilePublic(d, pages, {})
  PROVE  e.publicReps = TrueFacts
<1>1. pages \in RenderedTrees /\ {} \in SUBSET SourceFiles /\ AllSourced(pages)
  BY RenderedPages, EveryPageSourced
<1>2. PICK sources \in SUBSET SourceFacts : sources = d.sourceReps
  BY DEF DatabaseOK
<1>3. PICK us \in SUBSET PagesIn(pages) : us = PagesIn(pages)
  OBVIOUS
<1>4. PICK after : after = FactsAfter(TrueFacts, sources, {}, pages, us)
  OBVIOUS
<1>5. \A n \in 0 .. Len(Order) : after[n] = TrueFacts
  BY <1>4, FactsKept
<1>6. e.publicReps = {q \in after[Len(Order)] : \E i \in 1 .. Len(Order) :
               Order[i] \in us /\ Identity(q) = Identity(Fact(after, sources, {}, pages, i))}
  <2>1. after = FactsAfter(d.publicReps, d.sourceReps, {}, pages, PagesIn(pages))
    BY <1>2, <1>3, <1>4
  <2> QED
    BY <1>1, <1>2, <1>3, <2>1, ReconciledPublic
<1>7. ASSUME NEW q \in TrueFacts
      PROVE  \E i \in 1 .. Len(Order) : Order[i] \in us /\ q = Fact(after, sources, {}, pages, i)
  <2>1. PICK f \in Written : ~source[f].draft /\ q = TrueFact(f)
    BY TrueFactsAre
  <2>2. Url(f) \in us /\ pages[Url(f)].by = f
    BY <1>3, <2>1, RenderedAlone
  <2>3. PICK i \in 1 .. Len(Order) : Order[i] = Url(f)
    BY <2>2, VersionFacts, OrderFacts DEF TypedSource
  <2>4. i - 1 \in 0 .. Len(Order)
    BY OrderFacts
  <2>5. PICK reps \in SUBSET PublicFacts : reps = TrueFacts
    BY TrueFactsAre
  <2>6. PICK r : r = ResolvedRep(reps, sources, {}, pages, Order[i])
    OBVIOUS
  <2>7. Order[i] \in PagesIn(pages) /\ pages[Order[i]].by # Null
    BY <1>1, <2>2, <2>3 DEF AllSourced
  <2>8. r = TrueFact(pages[Order[i]].by)
    <3>1. PICK none \in SUBSET SourceFiles : none = {}
      BY <1>1
    <3> QED
      BY <2>5, <2>6, <2>7, <3>1, FactIsTrue
  <2>9. Fact(after, sources, {}, pages, i) = r
    BY <1>5, <2>4, <2>5, <2>6 DEF Fact
  <2> QED
    BY <2>1, <2>2, <2>3, <2>8, <2>9
<1>8. after[Len(Order)] = TrueFacts
  BY <1>5, OrderFacts
<1> QED
  BY <1>6, <1>7, <1>8

-----------------------------------------------------------------------------
(* Steps                                                                    *)

(* What a step does to the database, action by action                       *)
LEMMA EditKeeps ==
  ASSUME StoreTypeOK, NEW f \in SourceFiles, NEW t \in FileTexts, NEW heard \in BOOLEAN, Edit(f, t, heard)
  PROVE  DatabaseOK(db') /\ db'.done = db.done /\ db'.open = db.open
<1>1. PICK text : text = [draft |-> t.draft, url |-> t.url, links |-> t.links, rev |-> bounds.edits + 1]
  OBVIOUS
<1>2. text.rev \in Nat /\ DatabaseOK(db)
  BY <1>1 DEF StoreTypeOK
<1>3. CASE heard
  <2>1. db' = SyncSource(db, f, text)
    BY <1>1, <1>3 DEF Edit
  <2> QED
    BY <1>2, <2>1, SyncedSource DEF RunsKept
<1>4. CASE ~heard
  <2>1. db' = db
    BY <1>4 DEF Edit
  <2> QED
    BY <1>2, <2>1
<1> QED
  BY <1>3, <1>4

LEMMA DeleteTranslationKeeps ==
  ASSUME StoreTypeOK, NEW f \in SourceFiles, DeleteTranslation(f)
  PROVE  DatabaseOK(db') /\ db'.done = db.done /\ db'.open = db.open
<1>1. PICK reps : reps = db.sourceReps \ {[key |-> f.key, lang |-> f.label]}
  OBVIOUS
<1>2. db' = [db EXCEPT !.sourceReps = reps] /\ DatabaseOK(db)
  BY <1>1 DEF DeleteTranslation, StoreTypeOK
<1>3. reps \in SUBSET SourceFacts
  BY <1>1, <1>2 DEF DatabaseOK
<1> QED
  BY <1>2, <1>3, TablesSet DEF DatabaseOK

LEMMA DeleteBundleKeeps ==
  ASSUME StoreTypeOK, NEW k \in Keys, NEW rows \in BOOLEAN, NEW output \in BOOLEAN, DeleteBundle(k, rows, output)
  PROVE  DatabaseOK(db') /\ db'.done = db.done /\ db'.open = db.open
<1>1. PICK ks : ks = {k}
  OBVIOUS
<1>2. PICK sources : sources = IF rows THEN DropSource(db, ks) ELSE db
  OBVIOUS
<1>3. DatabaseOK(sources) /\ sources.done = db.done /\ sources.open = db.open
  <2>1. DatabaseOK(db)
    BY DEF StoreTypeOK
  <2>2. CASE rows
    <3>1. sources = DropSource(db, ks)
      BY <1>2, <2>2
    <3> QED
      BY <2>1, <3>1, DroppedSource DEF RunsKept
  <2>3. CASE ~rows
    BY <1>2, <2>1, <2>3
  <2> QED
    BY <2>2, <2>3
<1>4. PICK reps : reps = {q \in sources.publicReps : q.key # k}
  OBVIOUS
<1>5. PICK all : all = [sources EXCEPT !.publicReps = reps]
  OBVIOUS
<1>6. reps \in SUBSET PublicFacts
  BY <1>3, <1>4 DEF DatabaseOK
<1>7. DatabaseOK(all) /\ all.done = sources.done /\ all.open = sources.open
  BY <1>3, <1>5, <1>6, TablesSet DEF DatabaseOK
<1>8. db' = all \/ db' = sources
  BY <1>1, <1>2, <1>4, <1>5 DEF DeleteBundle
<1> QED
  BY <1>3, <1>7, <1>8

LEMMA FailKeeps ==
  ASSUME StoreTypeOK, db' = [db EXCEPT !.open = Null]
  PROVE  DatabaseOK(db') /\ db'.done = db.done /\ db'.open = Null /\ RowsKept(db, db')
         /\ db'.drafts = db.drafts /\ db'.template = db.template
<1>1. DatabaseOK(db)
  BY DEF StoreTypeOK
<1> QED
  BY <1>1, TablesSet DEF DatabaseOK, RowsKept

LEMMA FingerprintKeeps ==
  ASSUME StoreTypeOK, Fingerprint
  PROVE  DatabaseOK(db') /\ db'.done = db.done /\ db'.open = db.open /\ RowsKept(db, db')
<1>1. DatabaseOK(db) /\ template \in Nat /\ db' = [db EXCEPT !.template = template]
  BY DEF StoreTypeOK, Fingerprint
<1> QED
  BY <1>1, TablesSet DEF DatabaseOK, RowsKept

LEMMA SyncKeeps ==
  ASSUME StoreTypeOK, NEW failed, SyncPages(failed)
  PROVE  /\ RunsKept(db, db')
         /\ SyncedRows(db, db', idx, PagesIn(idx) \ failed, IF force THEN Urls ELSE {})
<1>1. PICK again : again = IF force THEN Urls ELSE {}
  OBVIOUS
<1>2. db' = Indexed(db, idx, failed, again)
  BY <1>1 DEF SyncPages
<1>3. DatabaseOK(db) /\ idx \in RenderedTrees /\ public.look \in Nat
  BY DEF StoreTypeOK
<1> QED
  BY <1>1, <1>2, <1>3, IndexedTables

LEMMA PruneKeeps ==
  ASSUME StoreTypeOK, Prune
  PROVE  /\ RunsKept(db, db')
         /\ \A u \in Urls : db'.public[u] = IF u \in PagesIn(idx) THEN db.public[u] ELSE Null
         /\ \E x : /\ DatabaseOK(x) /\ x.publicReps \subseteq db.publicReps
                   /\ \A q \in db.publicReps : q.slug \in PagesIn(idx) => q \in x.publicReps
                   /\ db'.publicReps = ReconcilePublic(x, idx, {}).publicReps
<1>1. PICK x : x = PruneRows(db, idx)
  OBVIOUS
<1>2. DatabaseOK(db) /\ idx \in RenderedTrees /\ {} \in SUBSET SourceFiles
  BY DEF StoreTypeOK
<1>3. /\ RunsKept(db, x) /\ x.publicReps \subseteq db.publicReps
      /\ \A q \in db.publicReps : q.slug \in PagesIn(idx) => q \in x.publicReps
      /\ \A u \in Urls : x.public[u] = IF u \in PagesIn(idx) THEN db.public[u] ELSE Null
  BY <1>1, <1>2, PrunedRows
<1>4. DatabaseOK(x)
  BY <1>3 DEF RunsKept
<1>5. db' = ReconcilePublic(x, idx, {})
  BY <1>1 DEF Prune
<1>6. PICK e : e = db'
  OBVIOUS
<1>7. DatabaseOK(e) /\ e = [x EXCEPT !.publicReps = e.publicReps]
  BY <1>2, <1>4, <1>5, <1>6, ReconciledFacts
<1>8. RunsKept(x, e) /\ e.public = x.public
  BY <1>4, <1>7 DEF DatabaseOK, RunsKept
<1> QED
  BY <1>3, <1>4, <1>5, <1>6, <1>8 DEF RunsKept

LEMMA CompleteKeeps ==
  ASSUME StoreTypeOK, PhaseInv, CompleteBuild
  PROVE  /\ DatabaseOK(db') /\ db'.open = Null /\ db'.public = db.public
         /\ DOMAIN db'.done.pages = Current \cup DOMAIN db.done.pages
         /\ \A i \in DOMAIN db'.done.pages : PageFinished(db, i, db'.done.pages[i])
         /\ \E x : DatabaseOK(x) /\ db'.publicReps = ReconcilePublic(x, idx, Written).publicReps
         /\ SourceDrifts(db') = {} => db'.done.sourceDrift = 0
         /\ PublicDrifts(db') = {} => db'.done.publicDrift = 0
<1>1. DatabaseOK(db) /\ idx \in RenderedTrees /\ source \in [SourceFiles -> Versions \cup {Null}]
  BY DEF StoreTypeOK
<1>2. db.open = RunOf(db)
  BY DEF PhaseInv, CompleteBuild, Goto
<1>3. PICK e : e = CompleteRun(db)
  OBVIOUS
<1>4. /\ DatabaseOK(e) /\ RowsKept(db, e) /\ e.open = Null
      /\ DOMAIN e.done.pages = Current \cup DOMAIN db.done.pages
      /\ \A i \in DOMAIN e.done.pages : PageFinished(db, i, e.done.pages[i])
  BY <1>1, <1>2, <1>3, CompletedRun
<1>5. PICK w : w = db'
  OBVIOUS
<1>6. w = ReconcileLatest(e, idx)
  BY <1>3, <1>5 DEF CompleteBuild
<1>7. /\ DatabaseOK(w) /\ w.public = e.public /\ w.open = e.open
      /\ w.publicReps = ReconcilePublic(e, idx, Written).publicReps
      /\ w.done.pages = e.done.pages
      /\ SourceDrifts(w) = {} => w.done.sourceDrift = 0
      /\ PublicDrifts(w) = {} => w.done.publicDrift = 0
  BY <1>1, <1>4, <1>6, ReconciledLatest
<1> QED
  BY <1>4, <1>5, <1>7 DEF RowsKept

LEMMA StartKeeps ==
  ASSUME StoreTypeOK, NEW failed, Start(failed)
  PROVE  /\ DatabaseOK(db') /\ db'.open = db.open /\ db'.done.pages = db.done.pages
         /\ \E x : DatabaseOK(x) /\ db'.publicReps = ReconcilePublic(x, public.pages, Written).publicReps
         /\ failed = {} => \A u \in Urls :
               IF u \in PagesIn(public.pages) THEN db'.public[u] # Null /\ db'.public[u].rev = public.pages[u].rev
               ELSE db'.public[u] = Null
         /\ failed = {} => \A k \in Keys :
               (db'.drafts[k] # Null) <=> \E f \in Written : f.key = k /\ ~\E u \in Urls :
                     db'.public[u] # Null /\ k \in ToSet(SourceSlugCandidates(u))
         /\ \/ db'.done = db.done
            \/ /\ SourceDrifts(db') = {} => db'.done.sourceDrift = 0
               /\ PublicDrifts(db') = {} => db'.done.publicDrift = 0
<1>1. /\ DatabaseOK(db) /\ public.pages \in RenderedTrees /\ source \in [SourceFiles -> Versions \cup {Null}]
      /\ public.look \in Nat
  BY DEF StoreTypeOK
<1>2. PICK pages \in RenderedTrees : pages = public.pages
  BY <1>1
<1>3. PICK d : d = Backfill(db)
  OBVIOUS
<1>4. RunsKept(db, d) /\ DatabaseOK(d)
  BY <1>1, <1>3, Backfilled DEF RunsKept
<1>5. PICK e : e = StartupSync(d, pages, failed)
  OBVIOUS
<1>6. /\ RunsKept(d, e)
      /\ failed = {} => \A u \in Urls : IF u \in PagesIn(pages) THEN e.public[u] # Null /\ e.public[u].rev = pages[u].rev
                                        ELSE e.public[u] = Null
      /\ failed = {} => \A k \in Keys :
            (e.drafts[k] # Null) <=> \E f \in Written : f.key = k /\ ~\E u \in Urls :
                  e.public[u] # Null /\ k \in ToSet(SourceSlugCandidates(u))
      /\ \E x : DatabaseOK(x) /\ e.publicReps = ReconcilePublic(x, pages, Written).publicReps
  BY <1>1, <1>4, <1>5, Started
<1>7. DatabaseOK(e) /\ e.open = db.open /\ e.done = db.done
  BY <1>4, <1>6 DEF RunsKept
<1>8. PICK w : w = db'
  OBVIOUS
<1>9. w = e \/ w = ReconcileLatest(e, pages)
  BY <1>2, <1>3, <1>5, <1>8 DEF Start
<1>10. CASE w = e
  BY <1>2, <1>6, <1>7, <1>8, <1>10
<1>11. CASE w = ReconcileLatest(e, pages)
  <2>1. DatabaseOK(e)
    BY <1>7
  <2>2. source \in [SourceFiles -> Versions \cup {Null}]
    BY <1>1
  <2>3. PICK r : r = ReconcileLatest(e, pages)
    OBVIOUS
  <2>4. /\ DatabaseOK(r) /\ r.public = e.public /\ r.open = e.open /\ r.drafts = e.drafts
        /\ r.publicReps = ReconcilePublic(e, pages, Written).publicReps
        /\ r.done.pages = e.done.pages
        /\ SourceDrifts(r) = {} => r.done.sourceDrift = 0
        /\ PublicDrifts(r) = {} => r.done.publicDrift = 0
    <3>1. pages \in RenderedTrees
      OBVIOUS
    <3> QED
      BY ONLY <2>1, <2>2, <2>3, <3>1, ReconciledLatest
  <2>5. w = r
    BY <1>11, <2>3
  <2> QED
    BY <1>2, <1>6, <1>7, <1>8, <2>4, <2>5
<1> QED
  BY <1>9, <1>10, <1>11

(* Every other action leaves the record of the last completed build alone.  *)
LEMMA BeginKeeps ==
  ASSUME StoreTypeOK, BeginBuild
  PROVE  DatabaseOK(db') /\ db'.done = db.done /\ db'.open = RunOf(db) /\ RowsKept(db, db')
<1>1. DatabaseOK(db) /\ source \in [SourceFiles -> Versions \cup {Null}] /\ db' = BeginRun(db)
  BY DEF StoreTypeOK, BeginBuild
<1> QED
  BY <1>1, BeginFacts

(* Where the source stays, so does what is said of it.                      *)
LEMMA SourceStays ==
  ASSUME source' = source
  PROVE  /\ Written' = Written /\ Current' = Current /\ (Contested' <=> Contested)
         /\ \A i : FileOf(i)' = FileOf(i) /\ Now(i)' = Now(i)
         /\ \A f : Url(f)' = Url(f) /\ Output(f)' = Output(f)
         /\ TrueFacts' = TrueFacts
<1>1. Written' = Written
  BY DEF Written
<1>2. \A i : FileOf(i)' = FileOf(i)
  BY <1>1 DEF FileOf
<1>3. \A i : Now(i)' = Now(i)
  BY <1>2 DEF Now
<1>4. \A f : Url(f)' = Url(f) /\ Output(f)' = Output(f)
  BY DEF Url, Output
<1>5. Current' = Current
  BY <1>1 DEF Current
<1>6. Contested' <=> Contested
  BY <1>1 DEF Contested, Asked
<1>7. TrueFacts' = TrueFacts
  BY <1>1, <1>4 DEF TrueFacts
<1> QED
  BY <1>1, <1>2, <1>3, <1>4, <1>5, <1>6, <1>7

LEMMA RunStays ==
  ASSUME source' = source, db'.done = db.done
  PROVE  RunOf(db)' = RunOf(db)
<1>1. Current' = Current /\ \A i : Now(i)' = Now(i)
  BY SourceStays
<1>2. \A i : Prior(db, i)' = Prior(db, i)
  BY DEF Prior
<1>3. \A i : Differs(db, i)' <=> Differs(db, i)
  BY <1>1, <1>2 DEF Differs
<1>4. Gone(db)' = Gone(db) /\ NewlyGone(db)' = NewlyGone(db)
  BY <1>1 DEF Gone, NewlyGone
<1>5. \A i : StateAtBegin(db, i)' = StateAtBegin(db, i)
  BY <1>1, <1>3, <1>4 DEF StateAtBegin
<1> QED
  BY <1>1, <1>2, <1>3, <1>4, <1>5 DEF RunOf

LEMMA RenderedStays ==
  ASSUME source' = source, NEW first
  PROVE  Rendered(first)' = Rendered(first)
<1>1. Written' = Written /\ \A f : Url(f)' = Url(f)
  BY SourceStays
<1>2. \A u : Renders(u)' = Renders(u)
  BY <1>1 DEF Renders
<1> QED
  BY <1>2 DEF Rendered

-----------------------------------------------------------------------------
(* Types                                                                    *)
LEMMA DatabaseTyped ==
  ASSUME StoreTypeOK, PhaseInv, StoreNext
  PROVE  DatabaseOK(db')
<1>1. DatabaseOK(db)
  BY DEF StoreTypeOK
<1>2. CASE UNCHANGED db
  BY <1>1, <1>2
<1>3. ASSUME NEW f \in SourceFiles, NEW t \in FileTexts, NEW heard \in BOOLEAN, Edit(f, t, heard) PROVE DatabaseOK(db')
  BY <1>3, EditKeeps
<1>4. ASSUME NEW f \in SourceFiles, DeleteTranslation(f) PROVE DatabaseOK(db')
  BY <1>4, DeleteTranslationKeeps
<1>5. ASSUME NEW k \in Keys, NEW rows \in BOOLEAN, NEW output \in BOOLEAN, DeleteBundle(k, rows, output)
      PROVE  DatabaseOK(db')
  BY <1>5, DeleteBundleKeeps
<1>6. CASE BeginBuild
  BY <1>6, BeginKeeps
<1>7. CASE BuildFails \/ CompleteFails \/ Crash
  BY <1>7, FailKeeps DEF BuildFails, CompleteFails, Crash
<1>8. CASE Fingerprint
  BY <1>8, FingerprintKeeps
<1>9. ASSUME NEW failed, SyncPages(failed) PROVE DatabaseOK(db')
  BY <1>9, SyncKeeps DEF RunsKept
<1>10. CASE Prune
  BY <1>10, PruneKeeps DEF RunsKept
<1>11. CASE CompleteBuild
  BY <1>11, CompleteKeeps
<1>12. ASSUME NEW failed, Start(failed) PROVE DatabaseOK(db')
  BY <1>12, StartKeeps
<1>13. NewTemplate \/ (\E f \in SourceFiles : Render(f)) \/ ReloadIndex \/ ReloadFails \/ CallbacksSkipped
       \/ FingerprintFails \/ PruneFails => UNCHANGED db
  BY DEF NewTemplate, Render, ReloadIndex, ReloadFails, CallbacksSkipped, FingerprintFails, PruneFails
<1> QED
  BY <1>2, <1>3, <1>4, <1>5, <1>6, <1>7, <1>8, <1>9, <1>10, <1>11, <1>12, <1>13 DEF StoreNext, Build

LEMMA TreesTyped ==
  ASSUME StoreTypeOK, StoreNext
  PROVE  /\ public' \in [pages : RenderedTrees, look : Nat, made : Nat] /\ idx' \in RenderedTrees
<1>1. /\ public \in [pages : RenderedTrees, look : Nat, made : Nat] /\ idx \in RenderedTrees /\ TypedSource
      /\ template \in Nat /\ bounds.edits \in Nat /\ public.pages \in RenderedTrees
  BY DEF StoreTypeOK, TypedSource
<1>2. CASE UNCHANGED <<public, idx>>
  BY <1>1, <1>2
<1>3. ASSUME NEW k \in Keys, NEW rows \in BOOLEAN, NEW output \in BOOLEAN, DeleteBundle(k, rows, output)
      PROVE  public' \in [pages : RenderedTrees, look : Nat, made : Nat] /\ idx' \in RenderedTrees
  <2>1. PICK pages : pages = Without(public.pages, k)
    OBVIOUS
  <2>2. pages \in RenderedTrees
    BY <1>1, <2>1 DEF Without, RenderedTrees
  <2>3. public' = [public EXCEPT !.pages = pages] \/ public' = public
    BY <1>3, <2>1 DEF DeleteBundle
  <2>4. idx' = [idx EXCEPT ![k] = Null] \/ idx' = idx
    BY <1>3 DEF DeleteBundle
  <2>5. idx' \in RenderedTrees
    BY <1>1, <2>4 DEF RenderedTrees
  <2> QED
    BY <1>1, <2>2, <2>3, <2>5
<1>4. ASSUME NEW first, Render(first)
      PROVE  public' \in [pages : RenderedTrees, look : Nat, made : Nat] /\ idx' \in RenderedTrees
  <2>1. PICK pages \in RenderedTrees : pages = Rendered(first)
    BY <1>1, RenderedPages
  <2>2. public' = [pages |-> pages, look |-> template, made |-> bounds.edits] /\ idx' = idx
    BY <1>4, <2>1 DEF Render
  <2> QED
    BY <1>1, <2>1, <2>2
<1>5. CASE ReloadIndex
  BY <1>1, <1>5 DEF ReloadIndex
<1>6. ASSUME NEW failed, Start(failed)
      PROVE  public' \in [pages : RenderedTrees, look : Nat, made : Nat] /\ idx' \in RenderedTrees
  BY <1>1, <1>6 DEF Start
<1>7. /\ \A f, t : \A heard \in BOOLEAN : Edit(f, t, heard) => UNCHANGED <<public, idx>>
      /\ \A f : DeleteTranslation(f) => UNCHANGED <<public, idx>>
      /\ NewTemplate \/ BeginBuild \/ BuildFails \/ ReloadFails \/ CallbacksSkipped \/ Fingerprint \/ FingerprintFails
         => UNCHANGED <<public, idx>>
      /\ \A failed : SyncPages(failed) => UNCHANGED <<public, idx>>
      /\ Prune \/ PruneFails \/ CompleteBuild \/ CompleteFails \/ Crash => UNCHANGED <<public, idx>>
  BY DEF Edit, DeleteTranslation, NewTemplate, BeginBuild, BuildFails, ReloadFails, CallbacksSkipped, Fingerprint,
         FingerprintFails, SyncPages, Prune, PruneFails, CompleteBuild, CompleteFails, Crash
<1> QED
  BY <1>2, <1>3, <1>4, <1>5, <1>6, <1>7 DEF StoreNext, Build

LEMMA SourceTyped ==
  ASSUME StoreTypeOK, StoreNext
  PROVE  source' \in [SourceFiles -> Versions \cup {Null}]
<1>1. source \in [SourceFiles -> Versions \cup {Null}] /\ bounds.edits \in Nat
  BY DEF StoreTypeOK
<1>2. CASE UNCHANGED source
  BY <1>1, <1>2
<1>3. ASSUME NEW f \in SourceFiles, NEW t \in FileTexts, NEW heard \in BOOLEAN, Edit(f, t, heard)
      PROVE  source' \in [SourceFiles -> Versions \cup {Null}]
  <2>1. PICK text : text = [draft |-> t.draft, url |-> t.url, links |-> t.links, rev |-> bounds.edits + 1]
    OBVIOUS
  <2>2. t \in [draft : BOOLEAN, url : Urls \cup {Null}, links : SUBSET Urls]
    BY DerivedStoreAssumption
  <2>3. bounds.edits + 1 \in Nat \ {0}
    BY <1>1
  <2>4. text \in Versions
    BY <2>1, <2>2, <2>3 DEF Versions
  <2>5. source' = [source EXCEPT ![f] = text]
    BY <1>3, <2>1 DEF Edit
  <2> QED
    BY <1>1, <2>4, <2>5
<1>4. ASSUME NEW f \in SourceFiles, DeleteTranslation(f) PROVE source' \in [SourceFiles -> Versions \cup {Null}]
  BY <1>1, <1>4 DEF DeleteTranslation
<1>5. ASSUME NEW k \in Keys, NEW rows \in BOOLEAN, NEW output \in BOOLEAN, DeleteBundle(k, rows, output)
      PROVE  source' \in [SourceFiles -> Versions \cup {Null}]
  BY <1>1, <1>5 DEF DeleteBundle
<1>6. NewTemplate \/ Build \/ Crash => UNCHANGED source
  BY DEF Build, NewTemplate, BeginBuild, BuildFails, Render, ReloadIndex, ReloadFails, CallbacksSkipped, Fingerprint,
         FingerprintFails, SyncPages, Prune, PruneFails, CompleteBuild, CompleteFails, Crash
<1>7. \A failed : Start(failed) => UNCHANGED source
  BY DEF Start
<1> QED
  BY <1>2, <1>3, <1>4, <1>5, <1>6, <1>7 DEF StoreNext

LEMMA ShownTyped ==
  ASSUME StoreTypeOK, StoreNext
  PROVE  shown' = Null \/ shown' \in SUBSET ((SourceFiles \cup {Null}) \X Nat)
<1>1. shown = Null \/ shown \in SUBSET ((SourceFiles \cup {Null}) \X Nat)
  BY DEF StoreTypeOK
<1>2. /\ \A f, t : \A heard \in BOOLEAN : Edit(f, t, heard) => UNCHANGED shown
      /\ \A f : DeleteTranslation(f) => UNCHANGED shown
      /\ \A k : \A rows, output \in BOOLEAN : DeleteBundle(k, rows, output) => shown' \in {shown, Null}
      /\ \A f : Render(f) => shown' \in {shown, Null}
      /\ NewTemplate \/ BeginBuild \/ BuildFails \/ ReloadIndex \/ ReloadFails \/ CallbacksSkipped \/ Fingerprint
         \/ FingerprintFails \/ Prune \/ PruneFails \/ CompleteFails \/ Crash => UNCHANGED shown
      /\ \A failed : SyncPages(failed) \/ Start(failed) => UNCHANGED shown
  BY DEF Edit, DeleteTranslation, DeleteBundle, NewTemplate, BeginBuild, BuildFails, Render, ReloadIndex, ReloadFails,
         CallbacksSkipped, Fingerprint, FingerprintFails, SyncPages, Prune, PruneFails, CompleteFails, Crash, Start
<1>3. CASE CompleteBuild
  <2>1. Published(public.pages) \in SUBSET ((SourceFiles \cup {Null}) \X Nat)
    BY PublishedType DEF StoreTypeOK
  <2> QED
    BY <1>3, <2>1 DEF CompleteBuild
<1> QED
  BY <1>1, <1>2, <1>3 DEF StoreNext, Build

LEMMA DisturbedTyped ==
  ASSUME Disturbed
  PROVE  calm' \in [builds : 0 .. 2, spoilt : BOOLEAN] /\ booted' \in BOOLEAN
<1>1. calm' = [builds |-> 0, spoilt |-> TRUE] /\ booted' = FALSE
  BY DEF Disturbed
<1>2. [builds |-> 0, spoilt |-> TRUE] \in [builds : 0 .. 2, spoilt : BOOLEAN]
  BY SMT
<1> QED
  BY <1>1, <1>2

LEMMA CountersTyped ==
  ASSUME StoreTypeOK, StoreNext
  PROVE  /\ template' \in Nat /\ step' \in Steps /\ force' \in BOOLEAN /\ up' \in BOOLEAN
         /\ calm' \in [builds : 0 .. 2, spoilt : BOOLEAN] /\ booted' \in BOOLEAN
         /\ bounds' \in [edits : Nat, faults : Nat, restarts : Nat]
<1> DEFINE Typed == /\ template \in Nat /\ step \in Steps /\ force \in BOOLEAN /\ up \in BOOLEAN
                    /\ calm \in [builds : 0 .. 2, spoilt : BOOLEAN] /\ booted \in BOOLEAN
                    /\ bounds \in [edits : Nat, faults : Nat, restarts : Nat]
<1>1. Typed
  BY DEF StoreTypeOK
<1>2. ASSUME NEW f \in SourceFiles, NEW t \in FileTexts, NEW heard \in BOOLEAN, Edit(f, t, heard) PROVE Typed'
  <2>1. calm' \in [builds : 0 .. 2, spoilt : BOOLEAN] /\ booted' \in BOOLEAN
    BY <1>2, DisturbedTyped DEF Edit
  <2>2. PICK n \in Nat : n = IF heard THEN 0 ELSE 1
    <3>1. CASE heard
      BY <3>1
    <3>2. CASE ~(heard)
      BY <3>2
    <3> QED
      BY <3>1, <3>2
  <2>3. bounds' = [bounds EXCEPT !.edits = @ + 1, !.faults = @ + n] /\ UNCHANGED <<template, step, force, up>>
    BY <1>2, <2>2 DEF Edit
  <2>4. bounds.edits + 1 \in Nat /\ bounds.faults + n \in Nat /\ bounds.restarts \in Nat
    BY <1>1
  <2>5. bounds' = [edits |-> bounds.edits + 1, faults |-> bounds.faults + n, restarts |-> bounds.restarts]
    BY <1>1, <2>3
  <2>6. bounds' \in [edits : Nat, faults : Nat, restarts : Nat]
    BY <2>4, <2>5
  <2> QED
    BY <1>1, <2>1, <2>3, <2>6
<1>3. ASSUME NEW f \in SourceFiles, DeleteTranslation(f) PROVE Typed'
  <2>1. calm' \in [builds : 0 .. 2, spoilt : BOOLEAN] /\ booted' \in BOOLEAN
    BY <1>3, DisturbedTyped DEF DeleteTranslation
  <2>2. bounds' = [bounds EXCEPT !.edits = @ + 1] /\ UNCHANGED <<template, step, force, up>>
    BY <1>3 DEF DeleteTranslation
  <2> QED
    BY <1>1, <2>1, <2>2
<1>4. ASSUME NEW k \in Keys, NEW rows \in BOOLEAN, NEW output \in BOOLEAN, DeleteBundle(k, rows, output) PROVE Typed'
  <2>1. calm' \in [builds : 0 .. 2, spoilt : BOOLEAN] /\ booted' \in BOOLEAN
    BY <1>4, DisturbedTyped DEF DeleteBundle
  <2>2. PICK n \in Nat : n = IF rows /\ output THEN 0 ELSE 1
    <3>1. CASE rows /\ output
      BY <3>1
    <3>2. CASE ~(rows /\ output)
      BY <3>2
    <3> QED
      BY <3>1, <3>2
  <2>3. bounds' = [bounds EXCEPT !.edits = @ + 1, !.faults = @ + n] /\ UNCHANGED <<template, step, force, up>>
    BY <1>4, <2>2 DEF DeleteBundle
  <2>4. bounds.edits + 1 \in Nat /\ bounds.faults + n \in Nat /\ bounds.restarts \in Nat
    BY <1>1
  <2>5. bounds' = [edits |-> bounds.edits + 1, faults |-> bounds.faults + n, restarts |-> bounds.restarts]
    BY <1>1, <2>3
  <2>6. bounds' \in [edits : Nat, faults : Nat, restarts : Nat]
    BY <2>4, <2>5
  <2> QED
    BY <1>1, <2>1, <2>3, <2>6
<1>5. CASE NewTemplate
  <2>1. calm' \in [builds : 0 .. 2, spoilt : BOOLEAN] /\ booted' \in BOOLEAN
    BY <1>5, DisturbedTyped DEF NewTemplate
  <2>2. /\ bounds' = [bounds EXCEPT !.edits = @ + 1] /\ UNCHANGED <<step, force, up>>
        /\ template' = template + 1
    BY <1>5 DEF NewTemplate
  <2> QED
    BY <1>1, <2>1, <2>2
<1>6. CASE BeginBuild
  BY <1>1, <1>6 DEF BeginBuild, Goto, Steps
<1>7. CASE BuildFails \/ ReloadFails \/ CallbacksSkipped \/ FingerprintFails \/ PruneFails \/ CompleteFails
  <2>1. Failing
    BY <1>7 DEF BuildFails, ReloadFails, CallbacksSkipped, FingerprintFails, PruneFails, CompleteFails
  <2>2. calm' \in [builds : 0 .. 2, spoilt : BOOLEAN] /\ booted' \in BOOLEAN
    BY <2>1, DisturbedTyped DEF Failing
  <2>3. bounds' \in [edits : Nat, faults : Nat, restarts : Nat]
    BY <1>1, <2>1 DEF Failing
  <2>4. template' = template /\ up' = up /\ force' \in {force, FALSE} /\ step' \in Steps
    BY <1>7 DEF BuildFails, ReloadFails, CallbacksSkipped, FingerprintFails, PruneFails, CompleteFails, Goto, Steps
  <2> QED
    BY <1>1, <2>2, <2>3, <2>4
<1>8. CASE (\E f \in SourceFiles : Render(f)) \/ ReloadIndex \/ Prune
  BY <1>1, <1>8 DEF Render, ReloadIndex, Prune, Goto, Going, Steps
<1>9. CASE Fingerprint
  BY <1>1, <1>9 DEF Fingerprint, Goto, Going, Steps
<1>10. ASSUME NEW failed, SyncPages(failed) PROVE Typed'
  <2>1. step' \in Steps /\ UNCHANGED <<template, force, up>>
    BY <1>10 DEF SyncPages, Goto, Steps
  <2>2. CASE failed = {}
    BY <1>1, <1>10, <2>1, <2>2 DEF SyncPages, Going
  <2>3. CASE failed # {}
    <3>1. Failing
      BY <1>10, <2>3 DEF SyncPages
    <3>2. calm' \in [builds : 0 .. 2, spoilt : BOOLEAN] /\ booted' \in BOOLEAN
      BY <3>1, DisturbedTyped DEF Failing
    <3>3. bounds' \in [edits : Nat, faults : Nat, restarts : Nat]
      BY <1>1, <3>1 DEF Failing
    <3> QED
      BY <1>1, <2>1, <3>2, <3>3
  <2> QED
    BY <2>2, <2>3
<1>11. CASE CompleteBuild
  BY <1>1, <1>11 DEF CompleteBuild, Goto, Steps
<1>12. CASE Crash
  <2>1. calm' \in [builds : 0 .. 2, spoilt : BOOLEAN] /\ booted' \in BOOLEAN
    BY <1>1, <1>12, DisturbedTyped DEF Crash
  <2>2. /\ step' \in Steps /\ force' \in BOOLEAN /\ up' \in BOOLEAN /\ template' = template
        /\ bounds' = [bounds EXCEPT !.restarts = @ + 1]
    BY <1>12 DEF Crash, Steps
  <2> QED
    BY <1>1, <2>1, <2>2
<1>13. ASSUME NEW failed, Start(failed) PROVE Typed'
  <2>1. up' \in BOOLEAN /\ UNCHANGED <<template, step, force>>
    BY <1>13 DEF Start
  <2>2. CASE failed = {}
    BY <1>1, <1>13, <2>1, <2>2 DEF Start
  <2>3. CASE failed # {}
    <3>1. Failing
      BY <1>13, <2>3 DEF Start
    <3>2. calm' \in [builds : 0 .. 2, spoilt : BOOLEAN] /\ booted' \in BOOLEAN
      BY <3>1, DisturbedTyped DEF Failing
    <3>3. bounds' \in [edits : Nat, faults : Nat, restarts : Nat]
      BY <1>1, <3>1 DEF Failing
    <3> QED
      BY <1>1, <2>1, <3>2, <3>3
  <2> QED
    BY <2>2, <2>3
<1>14. Typed'
  BY <1>2, <1>3, <1>4, <1>5, <1>6, <1>7, <1>8, <1>9, <1>10, <1>11, <1>12, <1>13 DEF StoreNext, Build
<1> QED
  BY <1>14

LEMMA StoreTyped ==
  ASSUME StoreTypeOK, PhaseInv, StoreNext
  PROVE  StoreTypeOK'
BY DatabaseTyped, TreesTyped, SourceTyped, ShownTyped, CountersTyped DEF StoreTypeOK

(* Only the completion of a build changes what is recorded of its pages.    *)
LEMMA DoneStays ==
  ASSUME StoreTypeOK, StoreNext, ~CompleteBuild
  PROVE  db'.done.pages = db.done.pages
<1>1. ASSUME NEW f \in SourceFiles, NEW t \in FileTexts, NEW heard \in BOOLEAN, Edit(f, t, heard)
      PROVE  db'.done.pages = db.done.pages
  BY <1>1, EditKeeps
<1>2. ASSUME NEW f \in SourceFiles, DeleteTranslation(f) PROVE db'.done.pages = db.done.pages
  BY <1>2, DeleteTranslationKeeps
<1>3. ASSUME NEW k \in Keys, NEW rows \in BOOLEAN, NEW output \in BOOLEAN, DeleteBundle(k, rows, output)
      PROVE  db'.done.pages = db.done.pages
  BY <1>3, DeleteBundleKeeps
<1>4. CASE BeginBuild
  BY <1>4, BeginKeeps
<1>5. CASE BuildFails \/ CompleteFails \/ Crash
  BY <1>5, FailKeeps DEF BuildFails, CompleteFails, Crash
<1>6. CASE Fingerprint
  BY <1>6, FingerprintKeeps
<1>7. ASSUME NEW failed, SyncPages(failed) PROVE db'.done.pages = db.done.pages
  BY <1>7, SyncKeeps DEF RunsKept
<1>8. CASE Prune
  BY <1>8, PruneKeeps DEF RunsKept
<1>9. ASSUME NEW failed, Start(failed) PROVE db'.done.pages = db.done.pages
  BY <1>9, StartKeeps
<1>10. NewTemplate \/ (\E f \in SourceFiles : Render(f)) \/ ReloadIndex \/ ReloadFails \/ CallbacksSkipped
       \/ FingerprintFails \/ PruneFails => UNCHANGED db
  BY DEF NewTemplate, Render, ReloadIndex, ReloadFails, CallbacksSkipped, FingerprintFails, PruneFails
<1> QED
  BY <1>1, <1>2, <1>3, <1>4, <1>5, <1>6, <1>7, <1>8, <1>9, <1>10 DEF StoreNext, Build

(* During a build the content tree stays; the record of what it began with  *)
(* does too.                                                                *)
LEMMA RunOpen ==
  ASSUME StoreTypeOK, PhaseInv, StoreNext
  PROVE  (IF step = "idle" THEN db.open = Null ELSE db.open = RunOf(db))'
<1>1. IF step = "idle" THEN db.open = Null ELSE db.open = RunOf(db)
  BY DEF PhaseInv
<1> DEFINE Open == (IF step = "idle" THEN db.open = Null ELSE db.open = RunOf(db))'
<1>2. ASSUME source' = source, db'.done = db.done, db'.open = db.open, step # "idle" PROVE Open
  <2>1. RunOf(db)' = RunOf(db)
    BY <1>2, RunStays
  <2>2. step' # "idle" => Open
    BY <1>1, <1>2, <2>1
  <2>3. CASE step' = "idle"
    <3>1. BuildFails \/ CompleteFails \/ CompleteBuild \/ Crash
      BY <1>2, <2>3 DEF StoreNext, Build, Edit, DeleteTranslation, DeleteBundle, NewTemplate, BeginBuild, Render, ReloadIndex,
         ReloadFails, CallbacksSkipped, Fingerprint, FingerprintFails, SyncPages, Prune, PruneFails, Start, Goto
    <3>2. BuildFails \/ CompleteFails \/ Crash => db'.open = Null
      BY FailKeeps DEF BuildFails, CompleteFails, Crash
    <3>3. CompleteBuild => db'.open = Null
      BY CompleteKeeps
    <3> QED
      BY <2>3, <3>1, <3>2, <3>3
  <2> QED
    BY <2>2, <2>3
<1>3. ASSUME step = "idle", step' = "idle", db'.open = db.open PROVE Open
  BY <1>1, <1>3
<1>4. ASSUME NEW f \in SourceFiles, NEW t \in FileTexts, NEW heard \in BOOLEAN, Edit(f, t, heard) PROVE Open
  BY <1>3, <1>4, EditKeeps DEF Edit
<1>5. ASSUME NEW f \in SourceFiles, DeleteTranslation(f) PROVE Open
  BY <1>3, <1>5, DeleteTranslationKeeps DEF DeleteTranslation
<1>6. ASSUME NEW k \in Keys, NEW rows \in BOOLEAN, NEW output \in BOOLEAN, DeleteBundle(k, rows, output) PROVE Open
  BY <1>3, <1>6, DeleteBundleKeeps DEF DeleteBundle
<1>7. CASE NewTemplate
  BY <1>2, <1>3, <1>7 DEF NewTemplate
<1>8. CASE BeginBuild
  <2>1. db'.open = RunOf(db) /\ db'.done = db.done
    BY <1>8, BeginKeeps
  <2>2. source' = source /\ step' # "idle"
    BY <1>8 DEF BeginBuild, Goto
  <2>3. RunOf(db)' = RunOf(db)
    BY <2>1, <2>2, RunStays
  <2> QED
    BY <2>1, <2>2, <2>3
<1>9. CASE BuildFails \/ CompleteFails \/ Crash
  <2>1. db'.open = Null
    BY <1>9, FailKeeps DEF BuildFails, CompleteFails, Crash
  <2>2. step' = "idle"
    BY <1>9 DEF BuildFails, CompleteFails, Crash, Goto
  <2> QED
    BY <2>1, <2>2
<1>10. ASSUME NEW f, Render(f) PROVE Open
  BY <1>2, <1>10 DEF Render, Goto
<1>11. CASE ReloadIndex \/ ReloadFails \/ CallbacksSkipped \/ FingerprintFails \/ PruneFails
  BY <1>2, <1>11 DEF ReloadIndex, ReloadFails, CallbacksSkipped, FingerprintFails, PruneFails, Goto
<1>12. CASE Fingerprint
  BY <1>2, <1>12, FingerprintKeeps DEF Fingerprint, Goto
<1>13. ASSUME NEW failed, SyncPages(failed) PROVE Open
  BY <1>2, <1>13, SyncKeeps DEF SyncPages, Goto, RunsKept
<1>14. CASE Prune
  BY <1>2, <1>14, PruneKeeps DEF Prune, Goto, RunsKept
<1>15. CASE CompleteBuild
  <2>1. db'.open = Null
    BY <1>15, CompleteKeeps
  <2>2. step' = "idle"
    BY <1>15 DEF CompleteBuild, Goto
  <2> QED
    BY <2>1, <2>2
<1>16. ASSUME NEW failed, Start(failed) PROVE Open
  <2>1. step = "idle" /\ step' = "idle" /\ db'.open = db.open
    BY <1>16, StartKeeps DEF Start, PhaseInv
  <2> QED
    BY <1>3, <2>1
<1> QED
  BY <1>4, <1>5, <1>6, <1>7, <1>8, <1>9, <1>10, <1>11, <1>12, <1>13, <1>14, <1>15, <1>16 DEF StoreNext, Build

LEMMA PhaseKept ==
  ASSUME StoreTypeOK, PhaseInv, StoreNext
  PROVE  PhaseInv'
<1> DEFINE Calm == /\ ~up => step = "idle" /\ force = FALSE
                   /\ booted = TRUE => step = "idle"
                   /\ calm.spoilt = TRUE => calm.builds = 0
<1>1. Calm /\ calm \in [builds : 0 .. 2, spoilt : BOOLEAN] /\ force \in BOOLEAN /\ booted \in BOOLEAN /\ up \in BOOLEAN
  BY DEF PhaseInv, StoreTypeOK
<1>2. ASSUME up, up' = up, Disturbed PROVE Calm'
  <2>1. booted' = FALSE /\ calm'.builds = 0
    BY <1>2 DEF Disturbed
  <2> QED
    BY <1>2, <2>1
<1>3. ASSUME up, up' = up, step # "idle", Going PROVE Calm'
  <2>1. booted' # TRUE /\ calm' = calm
    BY <1>1, <1>3 DEF Going
  <2> QED
    BY <1>1, <1>3, <2>1
<1>4. ASSUME NEW f \in SourceFiles, NEW t \in FileTexts, NEW heard \in BOOLEAN, Edit(f, t, heard) PROVE Calm'
  BY <1>2, <1>4 DEF Edit
<1>5. ASSUME NEW f \in SourceFiles, DeleteTranslation(f) PROVE Calm'
  BY <1>2, <1>5 DEF DeleteTranslation
<1>6. ASSUME NEW k \in Keys, NEW rows \in BOOLEAN, NEW output \in BOOLEAN, DeleteBundle(k, rows, output) PROVE Calm'
  BY <1>2, <1>6 DEF DeleteBundle
<1>7. ASSUME NewTemplate PROVE Calm'
  BY <1>2, <1>7 DEF NewTemplate
<1>8. ASSUME BeginBuild PROVE Calm'
  <2>1. up /\ up' = up /\ booted' = FALSE /\ calm' = [calm EXCEPT !.spoilt = FALSE]
    BY <1>8 DEF BeginBuild, Goto
  <2>2. calm'.spoilt = FALSE
    BY <1>1, <2>1
  <2> QED
    BY <2>1, <2>2
<1>9. ASSUME BuildFails \/ ReloadFails \/ CallbacksSkipped \/ FingerprintFails \/ PruneFails \/ CompleteFails PROVE Calm'
  <2>1. up /\ up' = up /\ Failing
    BY <1>9 DEF BuildFails, ReloadFails, CallbacksSkipped, FingerprintFails, PruneFails, CompleteFails, Goto
  <2> QED
    BY <1>2, <2>1 DEF Failing
<1>10. ASSUME (\E f \in SourceFiles : Render(f)) \/ ReloadIndex \/ Fingerprint \/ Prune PROVE Calm'
  <2>1. up /\ up' = up /\ step # "idle" /\ Going
    BY <1>10 DEF Render, ReloadIndex, Fingerprint, Prune, Goto
  <2> QED
    BY <1>3, <2>1
<1>11. ASSUME NEW failed, SyncPages(failed) PROVE Calm'
  <2>1. up /\ up' = up /\ step # "idle" /\ (Going \/ Failing)
    BY <1>11 DEF SyncPages, Goto
  <2> QED
    BY <1>2, <1>3, <2>1 DEF Failing
<1>12. ASSUME CompleteBuild PROVE Calm'
  <2>1. up /\ up' = up /\ step' = "idle"
    BY <1>12 DEF CompleteBuild, Goto
  <2>2. calm' = [calm EXCEPT !.builds = IF calm.spoilt THEN 0 ELSE IF @ < 2 THEN @ + 1 ELSE 2]
    BY <1>12 DEF CompleteBuild
  <2>3. calm'.spoilt = calm.spoilt /\ (calm.spoilt => calm'.builds = 0)
    BY <1>1, <2>2
  <2> QED
    BY <2>1, <2>3
<1>13. ASSUME Crash PROVE Calm'
  <2>1. step' = "idle" /\ force' = FALSE
    BY <1>13 DEF Crash
  <2>2. (UNCHANGED <<calm, booted>>) \/ Disturbed
    BY <1>13 DEF Crash
  <2>3. calm'.spoilt = TRUE => calm'.builds = 0
    BY <1>1, <2>2 DEF Disturbed
  <2> QED
    BY <2>1, <2>3
<1>14. ASSUME NEW failed, Start(failed) PROVE Calm'
  <2>1. up' = TRUE /\ ~up /\ step' = step
    BY <1>14 DEF Start
  <2>2. step = "idle"
    BY <1>1, <2>1
  <2>3. calm' = calm \/ Disturbed
    BY <1>14 DEF Start, Failing
  <2>4. calm'.spoilt = TRUE => calm'.builds = 0
    BY <1>1, <2>3 DEF Disturbed
  <2> QED
    BY <2>1, <2>2, <2>4
<1>15. Calm'
  <2> HIDE DEF Calm
  <2> QED
    BY <1>4, <1>5, <1>6, <1>7, <1>8, <1>9, <1>10, <1>11, <1>12, <1>13, <1>14 DEF StoreNext, Build
<1>16. force' \in BOOLEAN /\ booted' \in BOOLEAN /\ calm'.spoilt \in BOOLEAN
  <2>1. force' \in BOOLEAN /\ booted' \in BOOLEAN /\ calm' \in [builds : 0 .. 2, spoilt : BOOLEAN]
    BY CountersTyped
  <2> QED
    BY <2>1
<1>17. (IF step = "idle" THEN db.open = Null ELSE db.open = RunOf(db))'
  BY RunOpen
<1> QED
  BY <1>15, <1>16, <1>17 DEF PhaseInv

(* A file that is there after a step and was not the same before has been   *)
(* written by it.                                                           *)
LEMMA NewRevision ==
  ASSUME StoreTypeOK, StoreNext, NEW f \in Written', source'[f] # source[f]
  PROVE  source'[f].rev = bounds.edits + 1 /\ bounds'.edits = bounds.edits + 1
<1>1. f \in SourceFiles /\ source'[f] # Null
  BY DEF Written
<1>2. \/ \E g \in SourceFiles, t \in FileTexts : \E heard \in BOOLEAN : Edit(g, t, heard)
      \/ \E g \in SourceFiles : DeleteTranslation(g)
      \/ \E k \in Keys : \E rows, output \in BOOLEAN : DeleteBundle(k, rows, output)
  BY DEF StoreNext, Build, NewTemplate, BeginBuild, BuildFails, Render, ReloadIndex,
         ReloadFails, CallbacksSkipped, Fingerprint, FingerprintFails, SyncPages, Prune, PruneFails, CompleteBuild,
         CompleteFails, Crash, Start
<1>3. source \in [SourceFiles -> Versions \cup {Null}] /\ bounds \in [edits : Nat, faults : Nat, restarts : Nat]
  BY DEF StoreTypeOK
<1>4. ASSUME NEW g \in SourceFiles, NEW t \in FileTexts, NEW heard \in BOOLEAN, Edit(g, t, heard)
      PROVE  source'[f].rev = bounds.edits + 1 /\ bounds'.edits = bounds.edits + 1
  <2>1. source'[f] = [draft |-> t.draft, url |-> t.url, links |-> t.links, rev |-> bounds.edits + 1] /\ g = f
    BY <1>1, <1>3, <1>4 DEF Edit
  <2>2. bounds'.edits = bounds.edits + 1
    BY <1>3, <1>4 DEF Edit
  <2> QED
    BY <2>1, <2>2
<1>5. ASSUME NEW g \in SourceFiles, DeleteTranslation(g) PROVE FALSE
  BY <1>1, <1>3, <1>5 DEF DeleteTranslation
<1>6. ASSUME NEW k \in Keys, NEW rows \in BOOLEAN, NEW output \in BOOLEAN, DeleteBundle(k, rows, output) PROVE FALSE
  BY <1>1, <1>3, <1>6 DEF DeleteBundle
<1> QED
  BY <1>2, <1>4, <1>5, <1>6

LEMMA EditsGrow ==
  ASSUME StoreTypeOK, StoreNext
  PROVE  bounds.edits \in Nat /\ bounds'.edits \in Nat /\ bounds'.edits >= bounds.edits
<1>1. bounds.edits \in Nat /\ bounds \in [edits : Nat, faults : Nat, restarts : Nat]
  BY DEF StoreTypeOK
<1>2. /\ \A f, t : \A heard \in BOOLEAN : Edit(f, t, heard) => bounds'.edits = bounds.edits + 1
      /\ \A f : DeleteTranslation(f) => bounds'.edits = bounds.edits + 1
      /\ \A k : \A rows, output \in BOOLEAN : DeleteBundle(k, rows, output) => bounds'.edits = bounds.edits + 1
      /\ NewTemplate => bounds'.edits = bounds.edits + 1
  BY <1>1 DEF Edit, DeleteTranslation, DeleteBundle, NewTemplate
<1>3. (\E failed : Start(failed)) \/ Crash => bounds'.edits = bounds.edits
  BY <1>1 DEF Start, Failing, Crash
<1>4. Going \/ Failing => bounds'.edits = bounds.edits
  BY <1>1 DEF Going, Failing
<1>5. Build => Going \/ Failing \/ bounds' = bounds
  BY DEF Build, BeginBuild, BuildFails, Render, ReloadIndex, ReloadFails, CallbacksSkipped, Fingerprint, FingerprintFails,
         SyncPages, Prune, PruneFails, CompleteBuild, CompleteFails
<1> QED
  BY <1>1, <1>2, <1>3, <1>4, <1>5 DEF StoreNext

(* No recorded revision is newer than the last edit.                        *)
LEMMA RevisionKept ==
  ASSUME StoreTypeOK, PhaseInv, RevisionInv, StoreNext
  PROVE  RevisionInv'
<1>1. /\ bounds.edits \in Nat /\ bounds.edits >= 1 /\ bounds \in [edits : Nat, faults : Nat, restarts : Nat]
      /\ \A f \in Written : source[f].rev <= bounds.edits /\ source[f].rev \in Nat
      /\ \A i \in DOMAIN db.done.pages : db.done.pages[i].built <= bounds.edits /\ db.done.pages[i].built \in Nat
  <2>1. \A f \in Written : source[f].rev \in Nat
    BY VersionFacts DEF StoreTypeOK
  <2>2. \A i \in DOMAIN db.done.pages : db.done.pages[i] \in DonePages
    BY PriorFacts DEF StoreTypeOK
  <2>3. \A p \in DonePages : p.built \in Nat
    BY DEF DonePages
  <2> QED
    BY <2>1, <2>2, <2>3 DEF RevisionInv, StoreTypeOK
<1>2. bounds'.edits \in Nat /\ bounds'.edits >= bounds.edits
  BY EditsGrow
<1>3. ASSUME NEW f \in Written' PROVE source'[f].rev <= bounds'.edits
  <2>1. f \in SourceFiles /\ source'[f] # Null
    BY <1>3 DEF Written
  <2>2. CASE source'[f] = source[f]
    <3>1. f \in Written
      BY <2>1, <2>2 DEF Written
    <3> QED
      BY <1>1, <1>2, <2>2, <3>1
  <2>3. CASE source'[f] # source[f]
    <3>1. source'[f].rev = bounds.edits + 1 /\ bounds'.edits = bounds.edits + 1
      BY <1>3, <2>3, NewRevision
    <3> QED
      BY <1>1, <3>1
  <2> QED
    BY <2>2, <2>3
<1>4. ASSUME NEW i \in DOMAIN db'.done.pages PROVE db'.done.pages[i].built <= bounds'.edits
  <2>1. CASE CompleteBuild
    <3>1. PageFinished(db, i, db'.done.pages[i]) /\ i \in Current \cup DOMAIN db.done.pages
      BY <1>4, <2>1, CompleteKeeps
    <3>2. CASE i \in Current
      <4>1. PICK f \in FileOf(i) : Now(i) = source[f] /\ f \in Written
        BY <3>2, CurrentFacts DEF StoreTypeOK
      <4> QED
        BY <1>1, <1>2, <3>1, <3>2, <4>1 DEF PageFinished
    <3>3. CASE i \notin Current
      <4>1. db'.done.pages[i].built = db.done.pages[i].built
        BY <3>1, <3>3, PriorFacts DEF PageFinished, StoreTypeOK
      <4> QED
        BY <1>1, <1>2, <3>1, <3>3, <4>1
    <3> QED
      BY <3>2, <3>3
  <2>2. CASE ~CompleteBuild
    <3>1. db'.done.pages = db.done.pages
      BY <2>2, DoneStays
    <3> QED
      BY <1>1, <1>2, <1>4, <3>1
  <2> QED
    BY <2>1, <2>2
<1>5. bounds'.edits >= 1
  BY <1>1, <1>2
<1> QED
  BY <1>3, <1>4, <1>5 DEF RevisionInv

-----------------------------------------------------------------------------
(* What is in step with the content tree                                    *)

(* Where an action leaves a build, and whether it was disturbed             *)
LEMMA Moves ==
  ASSUME StoreTypeOK, PhaseInv, StoreNext
  PROVE  \/ Disturbed /\ step' = "idle"
         \/ Disturbed /\ UNCHANGED <<source, public, step>> /\ NewTemplate
         \/ Disturbed /\ UNCHANGED <<source, public, idx>> /\ step \in {"reload", "fingerprint", "sync", "prune"}
         \/ BeginBuild \/ (\E f \in SourceFiles : Render(f)) \/ ReloadIndex \/ Fingerprint
         \/ (SyncPages({}) /\ Going) \/ Prune \/ CompleteBuild
         \/ Crash /\ step = "idle" /\ UNCHANGED <<calm, booted>>
         \/ Start({}) /\ UNCHANGED <<calm, bounds>> /\ booted' = TRUE /\ step = "idle"
<1>1. ~up => step = "idle" /\ ~force
  BY DEF PhaseInv
<1>2. ASSUME \E f \in SourceFiles : \/ \E t \in FileTexts, heard \in BOOLEAN : Edit(f, t, heard)
                                    \/ DeleteTranslation(f)
      PROVE  Disturbed /\ step' = "idle"
  BY <1>2 DEF Edit, DeleteTranslation
<1>3. ASSUME NEW k \in Keys, NEW rows \in BOOLEAN, NEW output \in BOOLEAN, DeleteBundle(k, rows, output)
      PROVE  Disturbed /\ step' = "idle"
  BY <1>3 DEF DeleteBundle
<1>4. ASSUME NewTemplate PROVE Disturbed /\ UNCHANGED <<source, public, step>> /\ NewTemplate
  BY <1>4 DEF NewTemplate
<1>5. ASSUME BuildFails \/ CompleteFails PROVE Disturbed /\ step' = "idle"
  BY <1>5 DEF BuildFails, CompleteFails, Goto, Failing
<1>6. ASSUME ReloadFails \/ CallbacksSkipped \/ FingerprintFails \/ PruneFails
      PROVE  Disturbed /\ UNCHANGED <<source, public, idx>> /\ step # "idle" /\ step \in {"reload", "fingerprint", "sync", "prune"}
  BY <1>6 DEF ReloadFails, CallbacksSkipped, FingerprintFails, PruneFails, Goto, Failing
<1>7. ASSUME NEW failed, SyncPages(failed)
      PROVE  \/ Disturbed /\ UNCHANGED <<source, public, idx>> /\ step # "idle" /\ step \in {"reload", "fingerprint", "sync", "prune"}
             \/ SyncPages({}) /\ Going
  <2>1. CASE failed = {}
    BY <1>7, <2>1 DEF SyncPages
  <2>2. CASE failed # {}
    BY <1>7, <2>2 DEF SyncPages, Goto, Failing
  <2> QED
    BY <2>1, <2>2
<1>8. ASSUME Crash PROVE (Crash /\ step = "idle" /\ UNCHANGED <<calm, booted>>) \/ (Disturbed /\ step' = "idle")
  BY <1>8 DEF Crash
<1>9. ASSUME NEW failed, Start(failed)
      PROVE  \/ Disturbed /\ step' = "idle"
             \/ Start({}) /\ UNCHANGED <<calm, bounds>> /\ booted' = TRUE /\ step = "idle"
  <2>1. step = "idle" /\ step' = step
    BY <1>1, <1>9 DEF Start
  <2>2. CASE failed = {}
    <3>1. Start({})
      BY <1>9, <2>2
    <3>2. UNCHANGED <<calm, bounds>> /\ booted' = TRUE
      BY <3>1 DEF Start
    <3> QED
      BY <2>1, <3>1, <3>2
  <2>3. CASE failed # {}
    BY <1>9, <2>1, <2>3 DEF Start, Failing
  <2> QED
    BY <2>2, <2>3
<1> QED
  BY <1>2, <1>3, <1>4, <1>5, <1>6, <1>7, <1>8, <1>9 DEF StoreNext, Build

LEMMA DisturbedStep ==
  ASSUME Disturbed
  PROVE  calm'.builds = 0 /\ ~(calm'.builds > 0) /\ calm'.spoilt /\ ~booted'
BY DEF Disturbed

LEMMA TreeKept ==
  ASSUME StoreTypeOK, PhaseInv, TreeInv, StoreNext
  PROVE  TreeInv'
<1>1. /\ Rebuilt => \E f \in SourceFiles : public.pages = Rendered(f)
      /\ Reindexed => idx = public.pages
  BY DEF TreeInv, Rebuilt, Reindexed
<1>2. calm \in [builds : 0 .. 2, spoilt : BOOLEAN] /\ up \in BOOLEAN /\ (calm.spoilt => calm.builds = 0)
  BY DEF StoreTypeOK, PhaseInv
<1> DEFINE Good == (Rebuilt => \E f \in SourceFiles : public.pages = Rendered(f)) /\ (Reindexed => idx = public.pages)
<1>3. ASSUME UNCHANGED <<source, public>>, Rebuilt' => Rebuilt
      PROVE  Rebuilt' => \E f \in SourceFiles : public'.pages = Rendered(f)'
  <2>1. \A f : Rendered(f)' = Rendered(f)
    BY <1>3, RenderedStays
  <2> QED
    BY <1>1, <1>3, <2>1
<1>4. ASSUME Disturbed, step' = "idle" PROVE Good'
  BY <1>4, DisturbedStep DEF Rebuilt, Reindexed
<1>5. ASSUME Disturbed, UNCHANGED <<source, public, step>> PROVE Good'
  <2>1. (Rebuilt' => Rebuilt) /\ ~Reindexed'
    BY <1>5, DisturbedStep DEF Rebuilt, Reindexed
  <2> QED
    BY <1>3, <1>5, <2>1
<1>6. ASSUME Disturbed, UNCHANGED <<source, public, idx>>, step \in {"reload", "fingerprint", "sync", "prune"} PROVE Good'
  <2>1. (Rebuilt' => Rebuilt) /\ ~Reindexed'
    BY <1>6, DisturbedStep DEF Rebuilt, Reindexed
  <2> QED
    BY <1>3, <1>6, <2>1
<1>7. ASSUME BeginBuild PROVE Good'
  <2>1. UNCHANGED <<source, public, idx, up>> /\ step' = "render" /\ step = "idle"
        /\ calm' = [calm EXCEPT !.spoilt = FALSE] /\ up
    BY <1>7 DEF BeginBuild, Goto
  <2>2. calm'.builds = calm.builds
    BY <1>2, <2>1
  <2>3. (Rebuilt' => Rebuilt) /\ (Reindexed' => Reindexed)
    BY <2>1, <2>2 DEF Rebuilt, Reindexed
  <2> QED
    BY <1>1, <1>3, <2>1, <2>3
<1>8. ASSUME NEW f \in SourceFiles, Render(f) PROVE Good'
  <2>1. source' = source /\ public'.pages = Rendered(f) /\ step' = "reload"
    BY <1>8 DEF Render, Goto
  <2>2. Rendered(f)' = Rendered(f)
    BY <2>1, RenderedStays
  <2>3. ~Reindexed'
    BY <2>1 DEF Reindexed
  <2> QED
    BY <2>1, <2>2, <2>3
<1>9. ASSUME ReloadIndex PROVE Good'
  <2>1. UNCHANGED <<source, public>> /\ idx' = public.pages /\ step = "reload"
    BY <1>9 DEF ReloadIndex, Goto
  <2>2. Rebuilt
    BY <2>1 DEF Rebuilt
  <2> QED
    BY <1>3, <2>1, <2>2
<1>10. ASSUME Fingerprint \/ (SyncPages({}) /\ Going) \/ Prune PROVE Good'
  <2>1. /\ UNCHANGED <<source, public, idx, up, calm>> /\ step \in {"fingerprint", "sync", "prune"}
        /\ step' \in {"fingerprint", "sync", "prune", "complete"}
    BY <1>10 DEF Fingerprint, SyncPages, Prune, Goto, Going
  <2>2. (Rebuilt' => Rebuilt) /\ (Reindexed' => Reindexed)
    BY <2>1 DEF Rebuilt, Reindexed
  <2> QED
    BY <1>1, <1>3, <2>1, <2>2
<1>11. ASSUME CompleteBuild PROVE Good'
  <2>1. UNCHANGED <<source, public, idx, up>> /\ step = "complete" /\ step' = "idle"
        /\ calm' = [calm EXCEPT !.builds = IF calm.spoilt THEN 0 ELSE IF @ < 2 THEN @ + 1 ELSE 2]
    BY <1>11 DEF CompleteBuild, Goto
  <2>2. calm'.builds > 0 => ~calm.spoilt
    BY <1>2, <2>1
  <2>3. Rebuilt /\ (Reindexed' => Reindexed)
    BY <2>1, <2>2 DEF Rebuilt, Reindexed
  <2> QED
    BY <1>1, <1>3, <2>1, <2>3
<1>12. ASSUME Crash, step = "idle", UNCHANGED <<calm, booted>> PROVE Good'
  <2>1. UNCHANGED <<source, public>> /\ step' = "idle" /\ up' = FALSE
    BY <1>12 DEF Crash
  <2>2. (Rebuilt' => Rebuilt) /\ ~Reindexed'
    BY <1>12, <2>1 DEF Rebuilt, Reindexed
  <2> QED
    BY <1>3, <2>1, <2>2
<1>13. ASSUME Start({}), UNCHANGED calm, step = "idle" PROVE Good'
  <2>1. UNCHANGED <<source, public, step>> /\ idx' = public.pages
    BY <1>13 DEF Start
  <2>2. Rebuilt' => Rebuilt
    BY <1>13, <2>1 DEF Rebuilt
  <2> QED
    BY <1>3, <2>1, <2>2
<1>14. Good'
  <2> HIDE DEF Good
  <2> QED
    BY <1>4, <1>5, <1>6, <1>7, <1>8, <1>9, <1>10, <1>11, <1>12, <1>13, Moves
<1> QED
  BY <1>14 DEF TreeInv, Rebuilt, Reindexed

RowsUpToDate ==
    /\ \A u \in PagesIn(idx) : db.public[u] # Null /\ db.public[u].rev = idx[u].rev
    /\ force => \A u \in PagesIn(idx) : IsContent(u) => db.public[u].issues = public.look
RowsGone == \A u \in Urls \ PagesIn(idx) : db.public[u] = Null

LEMMA RowsInvKept ==
  ASSUME StoreTypeOK, PhaseInv, RowsInv, StoreNext
  PROVE  RowsInv'
<1> DEFINE Good == ((RowsThere \/ RowsDone) => RowsUpToDate) /\ (RowsDone => RowsGone)
<1>1. Good
  BY DEF RowsInv, RowsUpToDate, RowsGone
<1>2. calm \in [builds : 0 .. 2, spoilt : BOOLEAN] /\ up \in BOOLEAN
  BY DEF StoreTypeOK
<1>3. ASSUME ~RowsThere', ~RowsDone' PROVE Good'
  BY <1>3
<1>4. ASSUME Disturbed PROVE Good'
  <2>1. ~RowsThere' /\ ~RowsDone'
    BY <1>4, DisturbedStep DEF RowsThere, RowsDone
  <2> QED
    BY <1>3, <2>1
<1>5. ASSUME BeginBuild \/ (\E f \in SourceFiles : Render(f)) \/ ReloadIndex \/ Fingerprint PROVE Good'
  <2>1. step' \in {"render", "reload", "fingerprint", "sync"}
    BY <1>5 DEF BeginBuild, Render, ReloadIndex, Fingerprint, Goto
  <2>2. ~RowsThere' /\ ~RowsDone'
    BY <2>1 DEF RowsThere, RowsDone
  <2> QED
    BY <1>3, <2>2
<1>6. ASSUME SyncPages({}), Going PROVE Good'
  <2>1. step' = "prune" /\ UNCHANGED <<idx, public, force>>
    BY <1>6 DEF SyncPages, Goto
  <2>2. ~RowsDone'
    BY <2>1 DEF RowsDone
  <2>3. PICK again : again = IF force THEN Urls ELSE {}
    OBVIOUS
  <2>4. SyncedRows(db, db', idx, PagesIn(idx) \ {}, again)
    BY <1>6, <2>3, SyncKeeps
  <2>5. \A u \in PagesIn(idx) : u \in Urls /\ u \in PagesIn(idx) \ {}
    BY DEF PagesIn
  <2>6. \A u \in PagesIn(idx) : db'.public[u] = SyncPublic(db, u, idx, public.look, again)
    BY <2>4, <2>5 DEF SyncedRows
  <2>7. DatabaseOK(db) /\ idx \in RenderedTrees /\ public.look \in Nat
    BY DEF StoreTypeOK
  <2>8. \A u \in PagesIn(idx) : /\ db'.public[u] # Null /\ db'.public[u].rev = idx[u].rev
                                /\ (u \in again /\ IsContent(u)) => db'.public[u].issues = public.look
    BY <2>6, <2>7, RowType
  <2>9. PagesIn(idx)' = PagesIn(idx)
    BY <2>1 DEF PagesIn
  <2>10. RowsUpToDate'
    BY <2>1, <2>3, <2>5, <2>8, <2>9 DEF RowsUpToDate
  <2> QED
    BY <2>2, <2>10
<1>7. ASSUME Prune PROVE Good'
  <2>1. step = "prune" /\ step' = "complete" /\ UNCHANGED <<idx, public, force, calm>>
    BY <1>7 DEF Prune, Goto, Going
  <2>2. (RowsThere' \/ RowsDone') => RowsThere
    BY <2>1 DEF RowsThere, RowsDone
  <2>3. \A u \in Urls : db'.public[u] = IF u \in PagesIn(idx) THEN db.public[u] ELSE Null
    BY <1>7, PruneKeeps
  <2>4. PagesIn(idx)' = PagesIn(idx) /\ \A u \in PagesIn(idx) : u \in Urls
    BY <2>1 DEF PagesIn
  <2>5. RowsUpToDate => RowsUpToDate'
    BY <2>1, <2>3, <2>4 DEF RowsUpToDate
  <2>6. RowsGone'
    BY <2>3, <2>4 DEF RowsGone
  <2> QED
    BY <1>1, <2>2, <2>5, <2>6
<1>8. ASSUME CompleteBuild PROVE Good'
  <2>1. UNCHANGED <<public, idx, force, up>> /\ step = "complete" /\ step' = "idle"
        /\ calm' = [calm EXCEPT !.builds = IF calm.spoilt THEN 0 ELSE IF @ < 2 THEN @ + 1 ELSE 2]
    BY <1>8 DEF CompleteBuild, Goto
  <2>2. calm'.builds > 0 => ~calm.spoilt
    BY <1>2, <2>1
  <2>3. (RowsThere' \/ RowsDone') => RowsDone
    BY <2>1, <2>2 DEF RowsThere, RowsDone
  <2>4. db'.public = db.public
    BY <1>8, CompleteKeeps
  <2>5. PagesIn(idx)' = PagesIn(idx)
    BY <2>1 DEF PagesIn
  <2>6. (RowsUpToDate => RowsUpToDate') /\ (RowsGone => RowsGone')
    BY <2>1, <2>4, <2>5 DEF RowsUpToDate, RowsGone
  <2> QED
    BY <1>1, <2>3, <2>6
<1>9. ASSUME Crash PROVE Good'
  <2>1. step' = "idle" /\ up' = FALSE
    BY <1>9 DEF Crash
  <2>2. ~RowsThere' /\ ~RowsDone'
    BY <2>1 DEF RowsThere, RowsDone
  <2> QED
    BY <1>3, <2>2
<1>10. ASSUME Start({}) PROVE Good'
  <2>1. idx' = public.pages /\ UNCHANGED <<public, force>> /\ ~up
    BY <1>10 DEF Start
  <2>2. ~force'
    BY <2>1 DEF PhaseInv
  <2>3. \A u \in Urls : IF u \in PagesIn(public.pages) THEN db'.public[u] # Null /\ db'.public[u].rev = public.pages[u].rev
                        ELSE db'.public[u] = Null
    BY <1>10, StartKeeps
  <2>4. PagesIn(idx)' = PagesIn(public.pages) /\ \A u \in PagesIn(public.pages) : u \in Urls
    BY <2>1 DEF PagesIn
  <2>5. RowsUpToDate' /\ RowsGone'
    BY <2>1, <2>2, <2>3, <2>4 DEF RowsUpToDate, RowsGone
  <2> QED
    BY <2>5
<1>11. Good'
  <2> HIDE DEF Good
  <2> QED
    BY <1>4, <1>5, <1>6, <1>7, <1>8, <1>9, <1>10, Moves
<1> QED
  BY <1>11 DEF RowsInv, RowsUpToDate, RowsGone

LEMMA OneRowKept ==
  ASSUME StoreTypeOK, PhaseInv, OneRowPerPage, StoreNext
  PROVE  OneRowPerPage'
<1>1. booted => step = "idle"
  BY DEF PhaseInv
<1>2. ASSUME ~booted' PROVE OneRowPerPage'
  BY <1>2 DEF OneRowPerPage
<1>3. ASSUME Disturbed PROVE OneRowPerPage'
  BY <1>2, <1>3, DisturbedStep
<1>4. ASSUME BeginBuild PROVE OneRowPerPage'
  BY <1>2, <1>4 DEF BeginBuild
<1>5. ASSUME (\E f \in SourceFiles : Render(f)) \/ ReloadIndex \/ Fingerprint \/ (SyncPages({}) /\ Going) \/ Prune
             \/ CompleteBuild
      PROVE  OneRowPerPage'
  <2>1. step # "idle" /\ booted' = booted
    BY <1>5 DEF Render, ReloadIndex, Fingerprint, SyncPages, Prune, CompleteBuild, Goto, Going
  <2> QED
    BY <1>1, <1>2, <2>1
<1>6. ASSUME Crash, UNCHANGED booted PROVE OneRowPerPage'
  <2>1. source' = source /\ db' = [db EXCEPT !.open = Null]
    BY <1>6 DEF Crash
  <2>2. db'.drafts = db.drafts /\ db'.public = db.public
    BY <2>1, FailKeeps DEF RowsKept
  <2>3. Written' = Written
    BY <2>1, SourceStays
  <2> QED
    BY <1>6, <2>2, <2>3 DEF OneRowPerPage
<1>7. ASSUME Start({}) PROVE OneRowPerPage'
  <2>1. source' = source
    BY <1>7 DEF Start
  <2>2. \A k \in Keys : (db'.drafts[k] # Null) <=> \E f \in Written : f.key = k /\ ~\E u \in Urls :
                     db'.public[u] # Null /\ k \in ToSet(SourceSlugCandidates(u))
    BY <1>7, StartKeeps
  <2>3. Written' = Written
    BY <2>1, SourceStays
  <2> QED
    BY <2>2, <2>3 DEF OneRowPerPage
<1> QED
  BY <1>3, <1>4, <1>5, <1>6, <1>7, Moves

-----------------------------------------------------------------------------
(* What was shown, and what is reported of it                               *)

LEMMA PriorStays ==
  ASSUME db'.done.pages = db.done.pages
  PROVE  \A i : Prior(db, i)' = Prior(db, i)
BY DEF Prior

LEMMA ShownStays ==
  ASSUME StoreTypeOK, StoreNext, ~CompleteBuild
  PROVE  shown' \in {shown, Null}
BY DEF StoreNext, Build, Edit, DeleteTranslation, DeleteBundle, NewTemplate, BeginBuild, BuildFails, Render, ReloadIndex, ReloadFails,
       CallbacksSkipped, Fingerprint, FingerprintFails, SyncPages, Prune, PruneFails, CompleteFails, Crash, Start

(* A file whose revision is recorded as built is the one that was there     *)
(* before the step.                                                         *)
LEMMA BuiltIsOld ==
  ASSUME StoreTypeOK, RevisionInv, StoreNext, NEW f \in Written', Prior(db, Ident(f)).built = source'[f].rev
  PROVE  f \in Written /\ source'[f] = source[f]
<1>1. f \in SourceFiles /\ source'[f] # Null
  BY DEF Written
<1>2. CASE source'[f] # source[f]
  <2>1. source'[f].rev = bounds.edits + 1
    BY <1>2, NewRevision
  <2>2. bounds.edits \in Nat /\ Prior(db, Ident(f)).built \in Nat /\ Prior(db, Ident(f)).built <= bounds.edits
    <3>1. DatabaseOK(db) /\ bounds.edits \in Nat
      BY DEF StoreTypeOK
    <3>2. CASE Ident(f) \in DOMAIN db.done.pages
      BY <3>1, <3>2, PriorFacts DEF RevisionInv
    <3>3. CASE Ident(f) \notin DOMAIN db.done.pages
      <4>1. Prior(db, Ident(f)).built = 0
        BY <3>3 DEF Prior
      <4> QED
        BY <3>1, <4>1
    <3> QED
      BY <3>2, <3>3
  <2> QED
    BY <2>1, <2>2
<1>3. CASE source'[f] = source[f]
  BY <1>1, <1>3 DEF Written
<1> QED
  BY <1>2, <1>3

(* A build that completes and of which every file has its own URL           *)
LEMMA CompletedShown ==
  ASSUME StoreTypeOK, TreeInv, CompleteBuild, shown' # Null
  PROVE  /\ ~Contested /\ shown' = Published(public.pages) /\ source' = source /\ public' = public
         /\ \A f \in SourceFiles : {o \in shown' : o[1] = f} = IF f \in Written THEN Output(f) ELSE {}
<1>1. ~Contested /\ shown' = Published(public.pages) /\ source' = source /\ public' = public /\ step = "complete"
  BY DEF CompleteBuild, Goto
<1>2. PICK first : public.pages = Rendered(first)
  BY <1>1 DEF TreeInv, Rebuilt, Reindexed
<1>3. TypedSource
  BY DEF StoreTypeOK, TypedSource
<1>4. \A f \in SourceFiles : {o \in Published(public.pages) : o[1] = f} = IF f \in Written THEN Output(f) ELSE {}
  BY <1>1, <1>2, <1>3, RenderedAlone
<1> QED
  BY <1>1, <1>4

ShownPart1 == \A f \in SourceFiles : OutputsOf(f) # {} =>
                 Ident(f) \in DOMAIN db.done.pages /\ db.done.pages[Ident(f)].state # "deleted"
ShownPart2 == \A f \in Written : Prior(db, Ident(f)).built = source[f].rev =>
                 \A g \in SourceFiles : Ident(g) = Ident(f) => OutputsOf(g) = IF g = f THEN Output(f) ELSE {}

LEMMA ShownKept ==
  ASSUME StoreTypeOK, PhaseInv, RevisionInv, TreeInv, ShownInv, StoreNext
  PROVE  ShownInv'
<1> SUFFICES ASSUME shown' # Null PROVE ShownPart1' /\ ShownPart2'
  BY DEF ShownInv, ShownPart1, ShownPart2
<1>1. CASE CompleteBuild
  <2>1. /\ ~Contested /\ source' = source
        /\ \A f \in SourceFiles : OutputsOf(f)' = IF f \in Written THEN Output(f) ELSE {}
    BY <1>1, CompletedShown DEF OutputsOf
  <2>2. Written' = Written /\ \A f : Output(f)' = Output(f)
    BY <2>1, SourceStays
  <2>3. /\ DOMAIN db'.done.pages = Current \cup DOMAIN db.done.pages
        /\ \A i \in DOMAIN db'.done.pages : PageFinished(db, i, db'.done.pages[i])
    BY <1>1, CompleteKeeps
  <2>4. ASSUME NEW f \in SourceFiles, OutputsOf(f)' # {}
        PROVE  Ident(f) \in DOMAIN db'.done.pages /\ db'.done.pages[Ident(f)].state # "deleted"
    <3>1. f \in Written
      BY <2>1, <2>4
    <3>2. Ident(f) \in Current
      BY <3>1, CurrentAre
    <3> QED
      BY <2>3, <3>2 DEF PageFinished
  <2>5. ASSUME NEW f \in Written, NEW g \in SourceFiles, Ident(g) = Ident(f)
        PROVE  OutputsOf(g)' = IF g = f THEN Output(f) ELSE {}
    <3>1. f \in SourceFiles /\ (g \in Written => g = f)
      BY <2>1, <2>5, AloneFacts, WrittenAreFiles DEF StoreTypeOK, TypedSource
    <3> QED
      BY <2>1, <3>1
  <2>6. ShownPart1'
    BY <2>4 DEF ShownPart1
  <2>7. ShownPart2'
    BY <2>2, <2>5 DEF ShownPart2
  <2> QED
    BY <2>6, <2>7
<1>2. CASE ~CompleteBuild
  <2>1. shown' = shown /\ shown # Null
    BY <1>2, ShownStays
  <2>2. ShownPart1 /\ ShownPart2
    BY <2>1 DEF ShownInv, ShownPart1, ShownPart2
  <2>3. db'.done.pages = db.done.pages
    BY <1>2, DoneStays
  <2>4. \A f : OutputsOf(f)' = OutputsOf(f)
    BY <2>1 DEF OutputsOf
  <2>5. ShownPart1'
    BY <2>2, <2>3, <2>4 DEF ShownPart1
  <2>6. ASSUME NEW f \in Written', Prior(db, Ident(f))'.built = source'[f].rev,
               NEW g \in SourceFiles, Ident(g) = Ident(f)
        PROVE  OutputsOf(g)' = IF g = f THEN Output(f)' ELSE {}
    <3>1. Prior(db, Ident(f)).built = source'[f].rev
      BY <2>3, <2>6, PriorStays
    <3>2. f \in Written /\ source'[f] = source[f]
      BY <3>1, BuiltIsOld
    <3>3. Output(f)' = Output(f)
      BY <3>2 DEF Output
    <3>4. OutputsOf(g) = IF g = f THEN Output(f) ELSE {}
      BY <2>2, <2>6, <3>1, <3>2 DEF ShownPart2
    <3> QED
      BY <2>4, <3>3, <3>4
  <2>7. ShownPart2'
    BY <2>6 DEF ShownPart2
  <2> QED
    BY <2>5, <2>7
<1> QED
  BY <1>1, <1>2

(* What the last report left out is as it was.                              *)
LEMMA ReportComplete ==
  ASSUME StoreTypeOK, PhaseInv, TreeInv, ShownInv, CompleteBuild, shown # Null, shown' # Null,
         NEW f \in SourceFiles, {o \in shown : o[1] = f} # {o \in shown' : o[1] = f}
  PROVE  Ident(f) \in db.open.changes
<1>1. /\ ~Contested /\ source' = source
      /\ {o \in shown' : o[1] = f} = IF f \in Written THEN Output(f) ELSE {}
  BY CompletedShown
<1>2. OutputsOf(f) # IF f \in Written THEN Output(f) ELSE {}
  BY <1>1 DEF OutputsOf
<1>3. ShownPart1 /\ ShownPart2
  BY DEF ShownInv, ShownPart1, ShownPart2
<1>4. db.open = RunOf(db) /\ DatabaseOK(db) /\ TypedSource
  BY DEF PhaseInv, CompleteBuild, Goto, StoreTypeOK, TypedSource
<1>5. db.open.changes = {i \in Current : Differs(db, i)} \cup NewlyGone(db)
  BY <1>4 DEF RunOf
<1>6. CASE Ident(f) \in Current
  <2>1. PICK h \in Written : Ident(h) = Ident(f)
    BY <1>6 DEF Current
  <2>2. Now(Ident(f)) = source[h] /\ (f \in Written => f = h)
    BY <1>1, <1>4, <2>1, AloneFacts
  <2>3. ASSUME ~Differs(db, Ident(f)) PROVE FALSE
    <3>1. Prior(db, Ident(h)).built = source[h].rev
      BY <2>1, <2>2, <2>3 DEF Differs
    <3>2. OutputsOf(f) = IF f = h THEN Output(h) ELSE {}
      BY <1>3, <2>1, <3>1 DEF ShownPart2
    <3> QED
      BY <1>2, <2>1, <2>2, <3>2
  <2> QED
    BY <1>5, <1>6, <2>3
<1>7. CASE Ident(f) \notin Current
  <2>1. f \notin Written
    BY <1>7, CurrentAre
  <2>2. OutputsOf(f) # {}
    BY <1>2, <2>1
  <2>3. Ident(f) \in DOMAIN db.done.pages /\ db.done.pages[Ident(f)].state # "deleted"
    BY <1>3, <2>2 DEF ShownPart1
  <2>4. Ident(f) \in NewlyGone(db)
    BY <1>7, <2>3 DEF NewlyGone, Gone
  <2> QED
    BY <1>5, <2>4
<1> QED
  BY <1>6, <1>7

LEMMA LastKept ==
  ASSUME StoreTypeOK, PhaseInv, RevisionInv, TreeInv, LastInv, StoreNext
  PROVE  LastInv'
<1> SUFFICES ASSUME shown' # Null, NEW f \in Written',
                    Prior(db, Ident(f))'.state = "published", Prior(db, Ident(f))'.built = source'[f].rev
             PROVE  ~source'[f].draft /\ <<f, source'[f].rev>> \in Published(public'.pages)
  <2>1. Published(public.pages)' = Published(public'.pages)
    BY DEF Published, PagesIn
  <2> QED
    BY <2>1 DEF LastInv
<1>1. TypedSource
  BY DEF StoreTypeOK, TypedSource
<1>2. CASE CompleteBuild
  <2>1. /\ ~Contested /\ source' = source /\ public' = public /\ shown' = Published(public.pages)
        /\ \A g \in SourceFiles : {o \in shown' : o[1] = g} = IF g \in Written THEN Output(g) ELSE {}
    BY <1>2, CompletedShown
  <2>2. f \in Written /\ f \in SourceFiles
    BY <2>1, SourceStays, WrittenAreFiles
  <2>3. Ident(f) \in Current /\ Now(Ident(f)) = source[f]
    BY <1>1, <2>1, <2>2, CurrentAre, AloneFacts
  <2>4. PageFinished(db, Ident(f), db'.done.pages[Ident(f)]) /\ Ident(f) \in DOMAIN db'.done.pages
    BY <1>2, <2>3, CompleteKeeps
  <2>5. db'.done.pages[Ident(f)].state = "published"
    BY <2>4 DEF Prior
  <2>6. ~source[f].draft
    BY <2>3, <2>4, <2>5 DEF PageFinished
  <2>7. <<f, source[f].rev>> \in shown'
    BY <2>1, <2>2, <2>6 DEF Output
  <2> QED
    BY <2>1, <2>6, <2>7
<1>3. CASE ~CompleteBuild
  <2>1. shown' = shown /\ shown # Null
    BY <1>3, ShownStays
  <2>2. Prior(db, Ident(f))' = Prior(db, Ident(f))
    BY <1>3, DoneStays, PriorStays
  <2>3. f \in Written /\ source'[f] = source[f]
    BY <2>2, BuiltIsOld
  <2>4. ~source[f].draft /\ <<f, source[f].rev>> \in Published(public.pages)
    BY <2>1, <2>2, <2>3 DEF LastInv
  <2>5. CASE public' = public
    BY <2>3, <2>4, <2>5
  <2>6. ASSUME NEW k \in Keys, NEW rows \in BOOLEAN, NEW output \in BOOLEAN, DeleteBundle(k, rows, output)
        PROVE  <<f, source[f].rev>> \in Published(public'.pages)
    <3>1. CASE ~output
      <4>1. public' = public
        BY <2>6, <3>1 DEF DeleteBundle
      <4> QED
        BY <2>4, <4>1
    <3>2. CASE output
      <4>1. public' = [public EXCEPT !.pages = Without(public.pages, k)] /\ OthersUnder(k) = {}
        BY <2>1, <2>6, <3>2 DEF DeleteBundle
      <4>2. public'.pages = Without(public.pages, k)
        BY <4>1 DEF StoreTypeOK
      <4>3. f.key # k /\ f # Null
        <5>1. f \in SourceFiles /\ source'[f] # Null
          BY DEF Written
        <5>2. source' = [g \in SourceFiles |-> IF g.key = k THEN Null ELSE source[g]]
          BY <2>6 DEF DeleteBundle
        <5> QED
          BY <5>1, <5>2, FileFacts
      <4>4. PICK u \in PagesIn(public.pages) : <<f, source[f].rev>> = <<public.pages[u].by, public.pages[u].rev>>
        BY <2>4 DEF Published
      <4>5. ~IsPrefix(k, u)
        BY <4>1, <4>3, <4>4 DEF OthersUnder
      <4>6. u \in Urls /\ public.pages[u] # Null
        BY DEF PagesIn
      <4>7. public'.pages[u] = public.pages[u]
        BY <4>2, <4>5, <4>6 DEF Without
      <4>8. u \in PagesIn(public'.pages)
        BY <4>6, <4>7 DEF PagesIn
      <4> QED
        BY <4>4, <4>7, <4>8 DEF Published
    <3> QED
      BY <3>1, <3>2
  <2>7. ASSUME NEW first \in SourceFiles, Render(first) PROVE <<f, source[f].rev>> \in Published(public'.pages)
    <3>1. ~Contested /\ public'.pages = Rendered(first)
      BY <2>1, <2>7 DEF Render
    <3>2. PICK pages : pages = Rendered(first)
      OBVIOUS
    <3>3. {o \in Published(pages) : o[1] = f} = Output(f)
      BY <1>1, <2>3, <3>1, <3>2, RenderedAlone, WrittenAreFiles
    <3>4. <<f, source[f].rev>> \in Published(pages)
      BY <2>4, <3>3 DEF Output
    <3> QED
      BY <3>1, <3>2, <3>4
  <2>8. \/ public' = public
        \/ \E k \in Keys : \E rows, output \in BOOLEAN : DeleteBundle(k, rows, output)
        \/ \E first \in SourceFiles : Render(first)
    BY DEF StoreNext, Build, Edit, DeleteTranslation, NewTemplate, BeginBuild, BuildFails, ReloadIndex, ReloadFails,
       CallbacksSkipped, Fingerprint, FingerprintFails, SyncPages, Prune, PruneFails, CompleteBuild, CompleteFails, Crash, Start
  <2> QED
    BY <2>3, <2>4, <2>5, <2>6, <2>7, <2>8
<1> QED
  BY <1>2, <1>3

-----------------------------------------------------------------------------
(* What settles                                                             *)

RightFacts == \A q \in db.publicReps : q.slug \in PagesIn(public.pages) /\
                 (public.pages[q.slug].by # Null => q.key = public.pages[q.slug].by.key)

LEMMA FactsRight ==
  ASSUME TypedSource, ~Contested, NEW first, public.pages = Rendered(first), public' = public,
         \E x : DatabaseOK(x) /\ db'.publicReps = ReconcilePublic(x, public.pages, Written).publicReps
  PROVE  RightFacts'
<1>1. PICK x : DatabaseOK(x) /\ db'.publicReps = ReconcilePublic(x, public.pages, Written).publicReps
  OBVIOUS
<1>2. PICK pages : pages = public.pages
  OBVIOUS
<1>3. PICK e : e = ReconcilePublic(x, pages, Written)
  OBVIOUS
<1>4. ASSUME NEW q \in e.publicReps
      PROVE  q.slug \in PagesIn(pages) /\ (pages[q.slug].by # Null => q.key = pages[q.slug].by.key)
  <2>1. /\ q.slug \in PagesIn(pages)
        /\ pages[q.slug].by # Null => q = TrueFact(pages[q.slug].by)
    BY <1>1, <1>2, <1>3, <1>4, FactsMatchPages
  <2>2. \A f : TrueFact(f).key = f.key
    BY DEF TrueFact
  <2> QED
    BY <2>1, <2>2
<1>5. PagesIn(public.pages)' = PagesIn(pages)
  BY <1>2 DEF PagesIn
<1> QED
  BY <1>1, <1>2, <1>3, <1>4, <1>5 DEF RightFacts

LEMMA FactsInvKept ==
  ASSUME StoreTypeOK, PhaseInv, TreeInv, FactsInv, StoreNext
  PROVE  FactsInv'
<1> SUFFICES ASSUME step' = "idle", calm'.builds > 0, ~Contested' PROVE RightFacts'
  BY DEF FactsInv, RightFacts
<1>1. TypedSource /\ calm \in [builds : 0 .. 2, spoilt : BOOLEAN]
  BY DEF StoreTypeOK, TypedSource
<1>2. ~Disturbed
  BY DisturbedStep
<1>3. CASE CompleteBuild
  <2>1. source' = source /\ public' = public /\ step = "complete" /\ up
        /\ calm' = [calm EXCEPT !.builds = IF calm.spoilt THEN 0 ELSE IF @ < 2 THEN @ + 1 ELSE 2]
    BY <1>3 DEF CompleteBuild, Goto
  <2>2. ~calm.spoilt
    BY <1>1, <2>1
  <2>3. idx = public.pages /\ \E f \in SourceFiles : public.pages = Rendered(f)
    BY <2>1, <2>2 DEF TreeInv, Rebuilt, Reindexed
  <2>4. ~Contested
    BY <2>1, SourceStays
  <2>5. \E x : DatabaseOK(x) /\ db'.publicReps = ReconcilePublic(x, public.pages, Written).publicReps
    BY <1>3, <2>3, CompleteKeeps
  <2> QED
    BY <1>1, <2>1, <2>3, <2>4, <2>5, FactsRight
<1>4. ASSUME Crash, step = "idle", UNCHANGED <<calm, booted>> PROVE RightFacts'
  <2>1. UNCHANGED <<source, public>> /\ db' = [db EXCEPT !.open = Null]
    BY <1>4 DEF Crash
  <2>2. db'.publicReps = db.publicReps
    BY <2>1, FailKeeps DEF RowsKept
  <2>3. ~Contested
    BY <2>1, SourceStays
  <2>4. RightFacts
    BY <1>4, <2>3 DEF FactsInv, RightFacts
  <2>5. PagesIn(public.pages)' = PagesIn(public.pages)
    BY <2>1 DEF PagesIn
  <2> QED
    BY <2>1, <2>2, <2>4, <2>5 DEF RightFacts
<1>5. ASSUME Start({}), UNCHANGED calm PROVE RightFacts'
  <2>1. UNCHANGED <<source, public>>
    BY <1>5 DEF Start
  <2>2. ~Contested
    BY <2>1, SourceStays
  <2>3. \E f \in SourceFiles : public.pages = Rendered(f)
    BY <1>5 DEF TreeInv, Rebuilt, Reindexed
  <2>4. \E x : DatabaseOK(x) /\ db'.publicReps = ReconcilePublic(x, public.pages, Written).publicReps
    BY <1>5, StartKeeps
  <2> QED
    BY <1>1, <2>1, <2>2, <2>3, <2>4, FactsRight
<1>6. ~(BeginBuild \/ (\E f \in SourceFiles : Render(f)) \/ ReloadIndex \/ Fingerprint \/ SyncPages({}) \/ Prune)
  BY DEF BeginBuild, Render, ReloadIndex, Fingerprint, SyncPages, Prune, Goto
<1> QED
  BY <1>2, <1>3, <1>4, <1>5, <1>6, Moves

LEMMA TrueRevisions ==
  ASSUME TypedSource, ~Contested, NEW d, DatabaseOK(d), d.publicReps = TrueFacts, NEW i
  PROVE  /\ i \notin Current => PublicRevision(d, i) = Null
         /\ (i \in Current /\ Now(i).draft) => PublicRevision(d, i) = Null
         /\ (i \in Current /\ ~Now(i).draft) => PublicRevision(d, i) # Null
<1>1. PICK r : r = {q \in d.publicReps : <<q.key, q.lang>> = i}
  OBVIOUS
<1>2. \A f : <<TrueFact(f).key, TrueFact(f).lang>> = Ident(f) /\ TrueFact(f).rev = source[f].rev
  BY DEF TrueFact, Ident
<1>3. ASSUME NEW q \in r PROVE \E f \in Written : ~source[f].draft /\ q = TrueFact(f) /\ Ident(f) = i
  <2>1. PICK f \in Written : ~source[f].draft /\ q = TrueFact(f)
    BY <1>1, <1>3, TrueFactsAre
  <2> QED
    BY <1>1, <1>2, <1>3, <2>1
<1>4. ASSUME i \notin Current \/ Now(i).draft PROVE r = {}
  <2>1. \A f \in Written : Ident(f) = i => i \in Current /\ Now(i) = source[f]
    BY AloneFacts, CurrentAre
  <2> QED
    BY <1>3, <1>4, <2>1
<1>5. ASSUME i \in Current, ~Now(i).draft PROVE PublicRevision(d, i) # Null
  <2>1. PICK f \in Written : Ident(f) = i
    BY <1>5 DEF Current
  <2>2. ~source[f].draft
    BY <1>5, <2>1, AloneFacts
  <2>3. TrueFact(f) \in r
    BY <1>1, <1>2, <2>1, <2>2, TrueFactsAre
  <2>4. \A q \in r : q = TrueFact(f)
    BY <1>3, <2>1, AloneFacts
  <2>5. (CHOOSE q \in r : TRUE) = TrueFact(f)
    BY <2>3, <2>4
  <2>6. PublicRevision(d, i) = source[f].rev
    BY <1>1, <1>2, <2>3, <2>5 DEF PublicRevision
  <2>7. source[f] \in Versions /\ source[f].rev \in Nat /\ source[f].rev >= 1
    BY VersionFacts DEF TypedSource
  <2> QED
    BY <2>6, <2>7, NullFacts
<1> QED
  BY <1>1, <1>4, <1>5 DEF PublicRevision

LEMMA RevisionsAre ==
  ASSUME NEW d, NEW e, e.publicReps = d.publicReps
  PROVE  \A i : PublicRevision(e, i) = PublicRevision(d, i)
BY DEF PublicRevision

LEMMA DriftsStay ==
  ASSUME source' = source, db'.done.pages = db.done.pages, db'.publicReps = db.publicReps
  PROVE  SourceDrifts(db)' = SourceDrifts(db) /\ PublicDrifts(db)' = PublicDrifts(db)
<1>1. Current' = Current /\ \A i : Now(i)' = Now(i)
  BY SourceStays
<1>2. \A i : PublicRevision(db, i)' = PublicRevision(db, i)
  BY DEF PublicRevision
<1>3. SourceDrifts(db)' = SourceDrifts(db)
  BY <1>1 DEF SourceDrifts
<1>4. PublicDrifts(db)' = PublicDrifts(db)
  BY <1>2 DEF PublicDrifts
<1> QED
  BY <1>3, <1>4

LEMMA DriftsMove ==
  ASSUME source' = source
  PROVE  SourceDrifts(db') = SourceDrifts(db)' /\ PublicDrifts(db') = PublicDrifts(db)'
<1>1. Current' = Current /\ \A i : Now(i)' = Now(i)
  BY SourceStays
<1>2. SourceDrifts(db') = SourceDrifts(db)'
  BY <1>1 DEF SourceDrifts
<1>3. PublicDrifts(db') = PublicDrifts(db)'
  BY DEF PublicDrifts, PublicRevision
<1> QED
  BY <1>2, <1>3

(* A build that finds the true facts leaves no drift.                       *)
LEMMA CompletionSettles ==
  ASSUME TypedSource, ~Contested, NEW d, DatabaseOK(d), d.publicReps = TrueFacts,
         NEW e, e.publicReps = TrueFacts, Current \subseteq DOMAIN e.done.pages,
         \A i \in DOMAIN e.done.pages : PageFinished(d, i, e.done.pages[i])
  PROVE  /\ SourceDrifts(e) = {} /\ PublicDrifts(e) = {}
         /\ \A i \in DOMAIN e.done.pages : e.done.pages[i].state \in FinalStates
<1>1. \A i : PublicRevision(e, i) = PublicRevision(d, i)
  BY RevisionsAre
<1>2. ASSUME NEW i \in DOMAIN e.done.pages
      PROVE  /\ e.done.pages[i].state \in FinalStates
             /\ i \in Current => Now(i).rev = e.done.pages[i].built
             /\ i \notin Current => e.done.pages[i].state = "deleted"
             /\ e.done.pages[i].state \in {"deleted", "intentionally_unpublished"} => PublicRevision(e, i) = Null
             /\ PublicRevision(e, i) = e.done.pages[i].seen
  <2>1. PageFinished(d, i, e.done.pages[i])
    BY <1>2
  <2>2. /\ i \notin Current => PublicRevision(d, i) = Null
        /\ (i \in Current /\ Now(i).draft) => PublicRevision(d, i) = Null
        /\ (i \in Current /\ ~Now(i).draft) => PublicRevision(d, i) # Null
    BY TrueRevisions
  <2>3. PublicRevision(e, i) = PublicRevision(d, i)
    BY <1>1
  <2>4. CASE i \notin Current
    BY <2>1, <2>2, <2>3, <2>4 DEF PageFinished, FinalStates
  <2>5. CASE i \in Current /\ Now(i).draft
    BY <2>1, <2>2, <2>3, <2>5 DEF PageFinished, FinalStates
  <2>6. CASE i \in Current /\ ~Now(i).draft
    BY <2>1, <2>2, <2>3, <2>6 DEF PageFinished, FinalStates
  <2> QED
    BY <2>4, <2>5, <2>6
<1>3. SourceDrifts(e) = {}
  BY <1>2 DEF SourceDrifts
<1>4. PublicDrifts(e) = {}
  <2>1. ASSUME NEW i \in DOMAIN e.done.pages, NEW p, p = e.done.pages[i]
        PROVE  ~(CASE p.state \in {"missing_public", "deletion_incomplete"} -> TRUE
                   [] p.state \in {"deleted", "intentionally_unpublished"} -> PublicRevision(e, i) # Null
                   [] OTHER -> PublicRevision(e, i) # p.seen)
    BY <1>2, <2>1 DEF FinalStates
  <2> QED
    BY <2>1 DEF PublicDrifts
<1> QED
  BY <1>2, <1>3, <1>4

LEMMA SettleInvKept ==
  ASSUME StoreTypeOK, PhaseInv, TreeInv, SettleInv, StoreNext
  PROVE  SettleInv'
<1> SUFFICES ASSUME Generated = {}, ~Contested', calm'.builds > 0
             PROVE  (db.publicReps = TrueFacts)' /\ (calm.builds = 2 => WithoutDrift)'
  <2>1. calm' \in [builds : 0 .. 2, spoilt : BOOLEAN]
    BY StoreTyped DEF StoreTypeOK
  <2> QED
    BY <2>1 DEF SettleInv
<1>1. TypedSource /\ calm \in [builds : 0 .. 2, spoilt : BOOLEAN] /\ DatabaseOK(db)
  BY DEF StoreTypeOK, TypedSource
<1>2. ~Disturbed
  BY DisturbedStep
<1>3. ASSUME source' = source, db'.done = db.done, db'.publicReps = db.publicReps, calm'.builds = calm.builds
      PROVE  (db.publicReps = TrueFacts)' /\ (calm.builds = 2 => WithoutDrift)'
  <2>1. ~Contested /\ TrueFacts' = TrueFacts
    BY <1>3, SourceStays
  <2>2. db.publicReps = TrueFacts /\ (calm.builds = 2 => WithoutDrift)
    BY <1>3, <2>1 DEF SettleInv
  <2>3. SourceDrifts(db)' = SourceDrifts(db) /\ PublicDrifts(db)' = PublicDrifts(db)
    BY <1>3, DriftsStay
  <2> QED
    BY <1>3, <2>1, <2>2, <2>3 DEF WithoutDrift
<1>4. ASSUME BeginBuild \/ (\E f \in SourceFiles : Render(f)) \/ ReloadIndex \/ Fingerprint
             \/ (Crash /\ UNCHANGED calm)
      PROVE  source' = source /\ db'.done = db.done /\ db'.publicReps = db.publicReps /\ calm'.builds = calm.builds
  <2>1. CASE BeginBuild
    BY <1>1, <2>1, BeginKeeps DEF RowsKept, BeginBuild
  <2>2. CASE (\E f \in SourceFiles : Render(f)) \/ ReloadIndex
    BY <2>2 DEF Render, ReloadIndex, Going
  <2>3. CASE Fingerprint
    BY <2>3, FingerprintKeeps DEF RowsKept, Fingerprint, Going
  <2>4. CASE Crash /\ UNCHANGED calm
    BY <2>4, FailKeeps DEF RowsKept, Crash
  <2> QED
    BY <1>4, <2>1, <2>2, <2>3, <2>4
<1>5. ASSUME SyncPages({}) \/ Prune, Going
      PROVE  (db.publicReps = TrueFacts)' /\ (calm.builds = 2 => WithoutDrift)'
  <2>1. source' = source /\ calm' = calm /\ up /\ step \in {"sync", "prune"}
    BY <1>5 DEF SyncPages, Prune, Going, Goto
  <2>2. ~Contested /\ calm.builds > 0
    BY <2>1, SourceStays
  <2>3. db.publicReps = TrueFacts
    BY <2>2 DEF SettleInv
  <2>4. PICK first \in SourceFiles : idx = Rendered(first)
    BY <2>1, <2>2 DEF TreeInv, Rebuilt, Reindexed
  <2>5. db'.done = db.done /\ db'.publicReps = TrueFacts
    <3>1. CASE SyncPages({})
      <4>1. PICK us \in SUBSET PagesIn(idx) : us = PagesIn(idx) \ {}
        OBVIOUS
      <4>2. PICK again : again = IF force THEN Urls ELSE {}
        OBVIOUS
      <4>3. RunsKept(db, db') /\ SyncedRows(db, db', idx, us, again)
        BY <3>1, <4>1, <4>2, SyncKeeps
      <4>4. PICK sources \in SUBSET SourceFacts : sources = db.sourceReps
        BY <1>1 DEF DatabaseOK
      <4>5. PICK after : after = FactsAfter(TrueFacts, sources, {}, idx, us)
        OBVIOUS
      <4>6. \A n \in 0 .. Len(Order) : after[n] = TrueFacts
        BY <1>1, <2>2, <2>4, <4>5, FactsKept
      <4>7. after[Len(Order)] = TrueFacts
        BY <4>6, OrderFacts
      <4>8. db'.publicReps = after[Len(Order)]
        BY <2>3, <3>1, <4>1, <4>4, <4>5 DEF SyncPages, Indexed, DatabaseOK, StoreTypeOK
      <4> QED
        BY <4>3, <4>7, <4>8 DEF RunsKept
    <3>2. CASE Prune
      <4>1. RunsKept(db, db')
        BY <3>2, PruneKeeps
      <4>2. PICK x : /\ DatabaseOK(x) /\ x.publicReps \subseteq db.publicReps
                     /\ \A q \in db.publicReps : q.slug \in PagesIn(idx) => q \in x.publicReps
                     /\ db'.publicReps = ReconcilePublic(x, idx, {}).publicReps
        BY <3>2, PruneKeeps
      <4>3. ASSUME NEW q \in TrueFacts PROVE q.slug \in PagesIn(idx)
        <5>1. PICK f \in Written : ~source[f].draft /\ q = TrueFact(f)
          BY <1>1, <2>2, TrueFactsAre
        <5>2. Url(f) \in PagesIn(idx)
          BY <1>1, <2>2, <2>4, <5>1, RenderedAlone
        <5> QED
          BY <5>1, <5>2 DEF TrueFact
      <4>4. x.publicReps = TrueFacts
        BY <2>3, <4>2, <4>3
      <4>5. PICK e : e = ReconcilePublic(x, idx, {})
        OBVIOUS
      <4>6. e.publicReps = TrueFacts
        BY <1>1, <2>2, <2>4, <4>2, <4>4, <4>5, FactsPruned
      <4> QED
        BY <4>1, <4>2, <4>5, <4>6 DEF RunsKept
    <3> QED
      BY <1>5, <3>1, <3>2
  <2> QED
    BY <1>3, <2>1, <2>3, <2>5
<1>6. ASSUME CompleteBuild PROVE (db.publicReps = TrueFacts)' /\ (calm.builds = 2 => WithoutDrift)'
  <2>1. source' = source /\ public' = public /\ step = "complete" /\ up
        /\ calm' = [calm EXCEPT !.builds = IF calm.spoilt THEN 0 ELSE IF @ < 2 THEN @ + 1 ELSE 2]
    BY <1>6 DEF CompleteBuild, Goto
  <2>2. ~calm.spoilt /\ (calm'.builds = 2 => calm.builds > 0)
    BY <1>1, <2>1
  <2>3. ~Contested /\ TrueFacts' = TrueFacts
    BY <2>1, SourceStays
  <2>4. PICK first \in SourceFiles : idx = Rendered(first)
    BY <2>1, <2>2 DEF TreeInv, Rebuilt, Reindexed
  <2>5. PICK x : DatabaseOK(x) /\ db'.publicReps = ReconcilePublic(x, idx, Written).publicReps
    BY <1>6, CompleteKeeps
  <2>6. PICK e : e = ReconcilePublic(x, idx, Written)
    OBVIOUS
  <2>7. db'.publicReps = TrueFacts
    BY <1>1, <2>3, <2>4, <2>5, <2>6, FactsExact
  <2>8. ASSUME calm'.builds = 2 PROVE WithoutDrift'
    <3>1. db.publicReps = TrueFacts
      BY <2>2, <2>3, <2>8 DEF SettleInv
    <3>2. PICK w : w = db'
      OBVIOUS
    <3>3. /\ DOMAIN w.done.pages = Current \cup DOMAIN db.done.pages
          /\ \A i \in DOMAIN w.done.pages : PageFinished(db, i, w.done.pages[i])
          /\ SourceDrifts(w) = {} => w.done.sourceDrift = 0
          /\ PublicDrifts(w) = {} => w.done.publicDrift = 0
      BY <1>6, <3>2, CompleteKeeps
    <3>4. /\ SourceDrifts(w) = {} /\ PublicDrifts(w) = {}
          /\ \A i \in DOMAIN w.done.pages : w.done.pages[i].state \in FinalStates
      BY <1>1, <2>3, <2>7, <3>1, <3>2, <3>3, CompletionSettles
    <3>5. SourceDrifts(db)' = {} /\ PublicDrifts(db)' = {}
      BY <2>1, <3>2, <3>4, DriftsMove
    <3> QED
      BY <3>2, <3>3, <3>4, <3>5 DEF WithoutDrift, FinalStates
  <2> QED
    BY <2>3, <2>7, <2>8
<1>7. ASSUME Start({}), UNCHANGED calm PROVE (db.publicReps = TrueFacts)' /\ (calm.builds = 2 => WithoutDrift)'
  <2>1. UNCHANGED <<source, public>>
    BY <1>7 DEF Start
  <2>2. ~Contested /\ TrueFacts' = TrueFacts /\ calm.builds > 0
    BY <1>7, <2>1, SourceStays
  <2>3. PICK first \in SourceFiles : public.pages = Rendered(first)
    BY <2>2 DEF TreeInv, Rebuilt, Reindexed
  <2>4. PICK pages : pages = public.pages
    OBVIOUS
  <2>5. PICK x : DatabaseOK(x) /\ db'.publicReps = ReconcilePublic(x, pages, Written).publicReps
    BY <1>7, <2>4, StartKeeps
  <2>6. PICK e : e = ReconcilePublic(x, pages, Written)
    OBVIOUS
  <2>7. db'.publicReps = TrueFacts /\ db.publicReps = TrueFacts
    BY <1>1, <2>2, <2>3, <2>4, <2>5, <2>6, FactsExact DEF SettleInv
  <2>8. ASSUME calm'.builds = 2 PROVE WithoutDrift'
    <3>1. WithoutDrift
      BY <1>7, <2>2, <2>8 DEF SettleInv
    <3>2. db'.done.pages = db.done.pages
      BY <1>7, StartKeeps
    <3>3. SourceDrifts(db)' = {} /\ PublicDrifts(db)' = {}
      BY <2>1, <2>7, <3>1, <3>2, DriftsStay DEF WithoutDrift
    <3>4. SourceDrifts(db') = {} /\ PublicDrifts(db') = {}
      BY <2>1, <3>3, DriftsMove
    <3>5. db'.done.sourceDrift = 0 /\ db'.done.publicDrift = 0
      BY <1>7, <3>1, <3>4, StartKeeps DEF WithoutDrift
    <3> QED
      BY <3>1, <3>2, <3>3, <3>5 DEF WithoutDrift
  <2> QED
    BY <2>2, <2>7, <2>8
<1>8. SyncPages({}) \/ Prune => Going \/ Disturbed
  BY DEF SyncPages, Prune
<1> QED
  BY <1>2, <1>3, <1>4, <1>5, <1>6, <1>7, <1>8, Moves

-----------------------------------------------------------------------------
(* The whole                                                                *)

LEMMA NoRunFacts ==
  DoneOK(NoRun) /\ DOMAIN NoRun.pages = {}
<1>1. NoRun.pages = [i \in {} |-> Null] /\ NoRun.sourceDrift = 0 /\ NoRun.publicDrift = 0
  BY DEF NoRun
<1>2. DOMAIN NoRun.pages = {} /\ NoRun.pages \in [{} -> DonePages]
  BY <1>1
<1>3. NoRun \in [pages : {NoRun.pages}, sourceDrift : Nat, publicDrift : Nat]
  BY DEF NoRun
<1> QED
  BY <1>2, <1>3 DEF DoneOK

LEMMA StoreStarts ==
  ASSUME StoreInit
  PROVE  StoreInv
<1>1. NoPages \in RenderedTrees
  BY DEF NoPages, RenderedTrees
<1>2. source \in [SourceFiles -> {v \in Versions : v.rev = 1} \cup {Null}]
  BY DerivedStoreAssumption DEF StoreInit
<1>3. TypedSource /\ \A f \in Written : source[f].rev = 1
  BY <1>2 DEF TypedSource, Written
<1>4. DatabaseOK(db)
  <2>1. PICK drafts : drafts = [k \in Keys |-> Null]
    OBVIOUS
  <2>2. drafts \in [Keys -> DraftRows \cup {Null}]
    BY <2>1
  <2>3. NoPages \in [Urls -> PageRows \cup {Null}]
    BY DEF NoPages
  <2>4. db = [public |-> NoPages, drafts |-> drafts, sourceReps |-> {}, publicReps |-> {},
              open |-> Null, done |-> NoRun, template |-> Null]
    BY <2>1 DEF StoreInit
  <2> QED
    BY <2>2, <2>3, <2>4, NoRunFacts DEF DatabaseOK
<1>5. StoreTypeOK
  <2>1. public = [pages |-> NoPages, look |-> 1, made |-> 0] /\ idx = NoPages /\ template = 1
        /\ step = "idle" /\ force = FALSE /\ up = FALSE /\ booted = FALSE /\ shown = Null
        /\ calm = [builds |-> 0, spoilt |-> FALSE] /\ bounds = [edits |-> 1, faults |-> 0, restarts |-> 0]
    BY DEF StoreInit
  <2>2. public \in [pages : RenderedTrees, look : Nat, made : Nat] /\ idx \in RenderedTrees
    BY <1>1, <2>1
  <2>3. template \in Nat /\ step \in Steps /\ force \in BOOLEAN /\ up \in BOOLEAN /\ booted \in BOOLEAN
    BY <2>1 DEF Steps
  <2>4. calm \in [builds : 0 .. 2, spoilt : BOOLEAN] /\ bounds \in [edits : Nat, faults : Nat, restarts : Nat]
    BY <2>1
  <2>5. shown = Null
    BY <2>1
  <2> QED
    BY <1>3, <1>4, <2>2, <2>3, <2>4, <2>5 DEF StoreTypeOK, TypedSource
<1>6. PhaseInv
  BY DEF StoreInit, PhaseInv
<1>7. RevisionInv
  <2>1. bounds.edits = 1 /\ DOMAIN db.done.pages = {}
    BY NoRunFacts DEF StoreInit
  <2> QED
    BY <1>3, <2>1 DEF RevisionInv
<1>8. step = "idle" /\ calm.builds = 0 /\ ~booted /\ shown = Null
  BY DEF StoreInit
<1>9. TreeInv /\ RowsInv /\ OneRowPerPage /\ ShownInv /\ LastInv /\ FactsInv /\ SettleInv
  BY <1>8 DEF TreeInv, Rebuilt, Reindexed, RowsInv, RowsThere, RowsDone, OneRowPerPage, ShownInv, LastInv, FactsInv, SettleInv
<1> QED
  BY <1>5, <1>6, <1>7, <1>9 DEF StoreInv

LEMMA StoreRests ==
  ASSUME StoreInv, UNCHANGED storeVars
  PROVE  StoreInv'
<1>1. source' = source /\ public' = public /\ idx' = idx /\ template' = template /\ db' = db /\ step' = step
      /\ force' = force /\ up' = up /\ calm' = calm /\ booted' = booted /\ shown' = shown /\ bounds' = bounds
  BY DEF storeVars
<1>2. /\ Written' = Written /\ Current' = Current /\ (Contested' <=> Contested)
      /\ \A f : Output(f)' = Output(f)
      /\ TrueFacts' = TrueFacts
      /\ \A f : Rendered(f)' = Rendered(f)
  BY <1>1, SourceStays, RenderedStays
<1>3. RunOf(db)' = RunOf(db) /\ SourceDrifts(db)' = SourceDrifts(db) /\ PublicDrifts(db)' = PublicDrifts(db)
  BY <1>1, RunStays, DriftsStay
<1>4. PagesIn(idx)' = PagesIn(idx) /\ PagesIn(public.pages)' = PagesIn(public.pages)
      /\ Published(public.pages)' = Published(public.pages) /\ \A f : OutputsOf(f)' = OutputsOf(f)
      /\ \A i : Prior(db, i)' = Prior(db, i)
  BY <1>1 DEF PagesIn, Published, OutputsOf, Prior
<1>5. StoreTypeOK'
  BY <1>1 DEF StoreInv, StoreTypeOK, DatabaseOK, DoneOK
<1>6. PhaseInv' /\ RevisionInv' /\ TreeInv'
  BY <1>1, <1>2, <1>3 DEF StoreInv, PhaseInv, RevisionInv, TreeInv, Rebuilt, Reindexed
<1>7. RowsInv' /\ OneRowPerPage'
  BY <1>1, <1>2, <1>4 DEF StoreInv, RowsInv, RowsThere, RowsDone, OneRowPerPage
<1>8. ShownInv' /\ LastInv'
  BY <1>1, <1>2, <1>4 DEF StoreInv, ShownInv, LastInv
<1>9. FactsInv' /\ SettleInv'
  BY <1>1, <1>2, <1>3, <1>4 DEF StoreInv, FactsInv, SettleInv, WithoutDrift
<1> QED
  BY <1>5, <1>6, <1>7, <1>8, <1>9 DEF StoreInv

LEMMA StoreSteps ==
  ASSUME StoreInv, StoreNext
  PROVE  StoreInv'
<1>1. /\ StoreTypeOK /\ PhaseInv /\ RevisionInv /\ TreeInv /\ RowsInv /\ OneRowPerPage /\ ShownInv /\ LastInv
      /\ FactsInv /\ SettleInv
  BY DEF StoreInv
<1>2. StoreTypeOK' /\ PhaseInv' /\ RevisionInv' /\ TreeInv'
  BY <1>1, StoreTyped, PhaseKept, RevisionKept, TreeKept
<1>3. RowsInv' /\ OneRowPerPage' /\ ShownInv' /\ LastInv'
  BY <1>1, RowsInvKept, OneRowKept, ShownKept, LastKept
<1>4. FactsInv' /\ SettleInv'
  BY <1>1, FactsInvKept, SettleInvKept
<1> QED
  BY <1>2, <1>3, <1>4 DEF StoreInv

(* StoreInv is inductive, whatever the files, their texts, the slugs, the   *)
(* trees to start with and the bounds.                                      *)
THEOREM StoreInvariant == StoreSpec => []StoreInv
<1>1. StoreInit => StoreInv
  BY StoreStarts
<1>2. StoreInv /\ [StoreNext]_storeVars => StoreInv'
  BY StoreSteps, StoreRests
<1> QED
  BY <1>1, <1>2, PTL DEF StoreSpec

(* Whatever fails, the database keeps its shape: no row, fact or record of  *)
(* something that is no page, bundle or file of the site.                   *)
THEOREM StoreTypes == StoreSpec => []StoreTypeOK
<1>1. StoreInv => StoreTypeOK
  BY DEF StoreInv
<1> QED
  BY <1>1, StoreInvariant, PTL

(* What a run records as published is in the public tree, whatever fails or *)
(* crashes: BeginBuildRun, CompleteBuildRun and FailBuildRun around Hugo.   *)
THEOREM LastBuiltStaysPublished == StoreSpec => []LastBuiltIsPublished
<1>1. StoreInv => LastBuiltIsPublished
  <2>1. StoreInv => LastInv
    BY DEF StoreInv
  <2>2. LastInv => LastBuiltIsPublished
    BY DEF LastInv, LastBuiltIsPublished
  <2> QED
    BY <2>1, <2>2
<1> QED
  BY <1>1, StoreInvariant, PTL

(* A build that finds another template, and that nothing disturbs, has      *)
(* checked every page again: SyncTemplateFingerprint and PostBuildSync.     *)
THEOREM RecheckIsComplete == StoreSpec => []RecheckReachesEveryPage
<1>1. ASSUME StoreInv PROVE RecheckReachesEveryPage
  <2>1. RowsInv
    BY <1>1 DEF StoreInv
  <2> QED
    BY <2>1 DEF RowsInv, RowsDone, RecheckReachesEveryPage, PagesIn
<1> QED
  BY <1>1, StoreInvariant, PTL

(* One undisturbed build or start puts the rows right, one build the keys   *)
(* of the facts, two the record of drift: PostBuildSync, StartupSync,       *)
(* reconcileContentRepresentations and ReconcileLatestBuild.                *)
THEOREM TablesAreRepaired == StoreSpec => []TablesSettle
<1>1. ASSUME StoreInv PROVE TablesSettle
  <2>1. RowsInv /\ OneRowPerPage /\ FactsInv /\ SettleInv
    BY <1>1 DEF StoreInv
  <2>2. RowsMatchIndex
    <3>1. SUFFICES ASSUME calm.builds > 0, step = "idle", up, NEW u \in Urls
                   PROVE  IF idx[u] = Null THEN db.public[u] = Null
                          ELSE db.public[u] # Null /\ db.public[u].rev = idx[u].rev
      BY DEF RowsMatchIndex
    <3>2. RowsDone
      BY <3>1 DEF RowsDone
    <3> QED
      BY <2>1, <3>2 DEF RowsInv, PagesIn
  <2>3. FactsOfTheRightPage
    <3>1. \A f \in Written : f # Null
      BY DerivedStoreAssumption DEF Written
    <3> QED
      BY <2>1, <3>1 DEF FactsInv, FactsOfTheRightPage
  <2>4. TwoBuildsSettle
    BY <2>1 DEF SettleInv, WithoutDrift, FinalStates, TwoBuildsSettle
  <2> QED
    BY <2>1, <2>2, <2>3, <2>4 DEF TablesSettle
<1> QED
  BY <1>1, StoreInvariant, PTL

(* A completed build reports every file whose output is not what the last   *)
(* completed build left: the comparison BeginBuildRun makes.                *)
THEOREM ReportsAreComplete == StoreSpec => ChangesAreReported
<1>1. ASSUME StoreInv, StoreNext, step = "complete", shown # Null, shown' # shown, shown' # Null,
             NEW f \in SourceFiles, {o \in shown : o[1] = f} # {o \in shown' : o[1] = f}
      PROVE  Ident(f) \in db.open.changes
  <2>1. StoreTypeOK /\ PhaseInv /\ TreeInv /\ ShownInv
    BY <1>1 DEF StoreInv
  <2>2. CompleteBuild
    BY <1>1, <2>1, ShownStays
  <2> QED
    BY <1>1, <2>1, <2>2, ReportComplete
<1>2. StoreInv /\ [StoreNext]_storeVars =>
        [(step = "complete" /\ shown # Null /\ shown' # shown /\ shown' # Null) =>
            \A f \in SourceFiles : {o \in shown : o[1] = f} # {o \in shown' : o[1] = f} =>
                Ident(f) \in db.open.changes]_storeVars
  BY <1>1
<1> QED
  BY <1>2, StoreInvariant, PTL DEF StoreSpec, ChangesAreReported

-----------------------------------------------------------------------------
(* What the reads make of it (modules SiteReads and ReadTools)               *)

(* Sequences of one element, and of one more                                *)
LEMMA OneFacts ==
  ASSUME NEW x
  PROVE  <<x>> # <<>> /\ Len(<<x>>) = 1 /\ Head(<<x>>) = x /\ Last(<<x>>) = x /\ Front(<<x>>) = <<>> /\ \A y : <<x>> = <<y>> => x = y
<1>1. PICK s : s = <<x>>
  OBVIOUS
<1>2. Len(s) = 1 /\ s[1] = x /\ s # <<>> /\ Head(s) = x
  BY <1>1
<1>3. Last(s) = x
  BY <1>2 DEF Last
<1>4. Front(s) = <<>>
  BY <1>1 DEF Front
<1>5. \A y : s = <<y>> => x = y
  BY <1>1
<1> QED
  BY <1>1, <1>2, <1>3, <1>4, <1>5

LEMMA ConsFacts ==
  ASSUME NEW x, NEW y, NEW z
  PROVE  <<z>> \o <<x, y>> = <<z, x, y>>
<1>1. PICK T : T = {x, y, z}
  OBVIOUS
<1>2. PICK s : s = <<z>>
  OBVIOUS
<1>3. PICK t : t = <<x, y>>
  OBVIOUS
<1>4. s \in Seq(T) /\ t \in Seq(T) /\ Len(s) = 1 /\ Len(t) = 2 /\ s[1] = z /\ t[1] = x /\ t[2] = y
  BY <1>1, <1>2, <1>3
<1>5. PICK r : r = s \o t
  OBVIOUS
<1>6. r \in Seq(T) /\ Len(r) = Len(s) + Len(t)
      /\ \A i \in 1 .. Len(s) + Len(t) : r[i] = IF i <= Len(s) THEN s[i] ELSE t[i - Len(s)]
  BY <1>4, <1>5, ConcatProperties
<1>7. Len(r) = 3 /\ r[1] = z /\ r[2] = x /\ r[3] = y
  BY <1>4, <1>6
<1>8. r = <<z, x, y>>
  <2>1. PICK q : q = <<z, x, y>>
    OBVIOUS
  <2>2. q \in Seq(T) /\ Len(q) = 3 /\ q[1] = z /\ q[2] = x /\ q[3] = y
    BY <1>1, <2>1
  <2>3. \A i \in 1 .. Len(q) : q[i] = r[i]
    BY <1>7, <2>2
  <2>4. Len(q) = Len(r)
    BY <1>7, <2>2
  <2> QED
    BY <1>6, <2>1, <2>2, <2>3, <2>4, SeqEqual
<1> QED
  BY <1>2, <1>3, <1>5, <1>8

LEMMA TailFacts ==
  ASSUME NEW T, NEW s \in Seq(T), Len(s) >= 2
  PROVE  Tail(s) \in Seq(T) /\ Tail(s) # <<>> /\ Last(Tail(s)) = Last(s) /\ <<Head(s)>> \o Tail(s) = s
<1>1. s # <<>> /\ Len(s) \in Nat
  OBVIOUS
<1>2. PICK t : t = Tail(s)
  OBVIOUS
<1>3. t \in Seq(T) /\ Len(t) = Len(s) - 1 /\ Head(s) \in T /\ \A i \in 1 .. Len(t) : t[i] = s[i + 1]
  BY <1>1, <1>2, HeadTailProperties
<1>4. Last(t) = Last(s) /\ t # <<>>
  <2>1. Len(t) \in 1 .. Len(t) /\ Len(t) + 1 = Len(s)
    BY <1>1, <1>3
  <2>2. t[Len(t)] = s[Len(s)]
    BY <1>3, <2>1
  <2> QED
    BY <2>1, <2>2 DEF Last
<1>5. PICK h : h = <<Head(s)>>
  OBVIOUS
<1>6. h \in Seq(T) /\ Len(h) = 1 /\ h[1] = s[1]
  BY <1>1, <1>3, <1>5
<1>7. PICK r : r = h \o t
  OBVIOUS
<1>8. r \in Seq(T) /\ Len(r) = Len(h) + Len(t)
      /\ \A i \in 1 .. Len(h) + Len(t) : r[i] = IF i <= Len(h) THEN h[i] ELSE t[i - Len(h)]
  <2>1. t \in Seq(T) /\ h \in Seq(T)
    BY <1>3, <1>6
  <2> QED
    BY ONLY <2>1, <1>7, ConcatProperties
<1>9. Len(r) = Len(s)
  BY <1>1, <1>3, <1>6, <1>8
<1>10. ASSUME NEW i \in 1 .. Len(r) PROVE r[i] = s[i]
  <2>1. CASE i = 1
    BY <1>6, <1>8, <1>10, <2>1
  <2>2. CASE i # 1
    <3>1. i - 1 \in 1 .. Len(t) /\ i - 1 + 1 = i
      <4>1. i \in Nat /\ i >= 2 /\ i <= Len(t) + 1 /\ Len(t) \in Nat
        BY <1>1, <1>3, <1>9, <2>2
      <4> QED
        BY <4>1
    <3>2. r[i] = t[i - 1]
      BY <1>6, <1>8, <1>10, <2>2
    <3> QED
      BY <1>3, <3>1, <3>2
  <2> QED
    BY <2>1, <2>2
<1>11. r = s
  BY <1>8, <1>9, <1>10, SeqEqual
<1> QED
  BY <1>2, <1>3, <1>4, <1>5, <1>7, <1>11

LEMMA LangFacts ==
  /\ Null \notin LangCodes /\ "" \notin LangCodes /\ Default \in LangCodes /\ LangCodes \subseteq STRING
  /\ Null \notin Keys /\ Null \notin Urls
  /\ \A s \in Requests : s \in Seq(STRING)
<1>1. \A f \in SourceFiles : f.key \in Seq(STRING)
  BY DerivedStoreAssumption
<1> QED
  BY <1>1, OrderFacts, DerivedStoreAssumption, SiteReadsAssumption DEF Requests, Keys

(* A lookup is made with a key and a label, or for a whole bundle.          *)
LEMMA BySlugLangFacts ==
  ASSUME NEW k, NEW label
  PROVE  /\ BySlugLang(k, label) # Null =>
               /\ BySlugLang(k, label) \in Written /\ BySlugLang(k, label) \in SourceFiles
               /\ BySlugLang(k, label).key = k /\ BySlugLang(k, label).label = label
         /\ \A g \in Written : g.key = k /\ g.label = label => BySlugLang(k, label) = g
<1>1. PICK h : h = [key |-> k, label |-> label]
  OBVIOUS
<1>2. BySlugLang(k, label) = IF h \in SourceFiles /\ source[h] # Null THEN h ELSE Null
  BY <1>1 DEF BySlugLang
<1>3. \A g \in Written : g.key = k /\ g.label = label => g = h
  BY <1>1, WrittenAreFiles, FileFacts
<1>4. h.key = k /\ h.label = label
  BY <1>1
<1> QED
  BY <1>2, <1>3, <1>4 DEF Written

LEMMA BySlugFacts ==
  ASSUME NEW k
  PROVE  /\ BySlug(k) # Null => BySlug(k) \in Written /\ BySlug(k).key = k
         /\ (\E g \in Written : g.key = k) => BySlug(k) # Null
<1>1. CASE \E g \in Written : g.key = k
  <2>1. PICK f : f = BySlug(k)
    OBVIOUS
  <2>2. f = CHOOSE g \in Written : g.key = k
    BY <1>1, <2>1 DEF BySlug
  <2>3. f \in Written /\ f.key = k
    BY <1>1, <2>2
  <2> QED
    BY <2>1, <2>3, WrittenAreFiles, FileFacts
<1>2. CASE ~\E g \in Written : g.key = k
  BY <1>2 DEF BySlug
<1> QED
  BY <1>1, <1>2

LEMMA FirstFoundFacts ==
  ASSUME NEW files, DOMAIN files \subseteq Nat, NEW f, f = FirstFound(files)
  PROVE  IF \A i \in DOMAIN files : files[i] = Null THEN f = Null
         ELSE \E i \in DOMAIN files : f = files[i] /\ f # Null /\ \A j \in DOMAIN files : files[j] # Null => i <= j
<1>1. PICK hits : hits = {i \in DOMAIN files : files[i] # Null}
  OBVIOUS
<1>2. f = IF hits = {} THEN Null ELSE files[CHOOSE i \in hits : \A j \in hits : i <= j]
  BY <1>1 DEF FirstFound
<1>3. CASE hits = {}
  BY <1>1, <1>2, <1>3
<1>4. CASE hits # {}
  <2>1. \E i \in hits : \A j \in hits : i <= j
    BY <1>1, <1>4, LeastNat
  <2>2. PICK m : m = CHOOSE i \in hits : \A j \in hits : i <= j
    OBVIOUS
  <2>3. m \in hits /\ \A j \in hits : m <= j
    BY <2>1, <2>2
  <2> QED
    BY <1>1, <1>2, <1>4, <2>2, <2>3
<1> QED
  BY <1>3, <1>4

-----------------------------------------------------------------------------
(* The slugs a request is looked up under                                   *)
LEMMA SlugFacts ==
  ASSUME NEW s \in Seq(STRING)
  PROVE  /\ s = <<>> => SourceSlugCandidates(s) = <<>>
         /\ s # <<>> /\ Prefix(s) = Null => SourceSlugCandidates(s) = <<s>> /\ Stripped(s) = s
         /\ Prefix(s) # Null => /\ SourceSlugCandidates(s) = <<s, Tail(s)>> /\ Stripped(s) = Tail(s)
                                /\ s # <<>> /\ Head(s) = Prefix(s) /\ Len(s) >= 2 /\ Prefix(s) \in LangCodes
                                /\ \A l : s # <<l>>
<1>1. CASE Prefix(s) = Null
  <2>1. ~(Len(s) >= 2 /\ Head(s) \in LangCodes)
    BY <1>1, LangFacts DEF Prefix
  <2> QED
    BY <1>1, <2>1 DEF Stripped, SourceSlugCandidates
<1>2. CASE Prefix(s) # Null
  <2>1. Len(s) >= 2 /\ Head(s) \in LangCodes /\ Prefix(s) = Head(s)
    BY <1>2 DEF Prefix
  <2>2. Tail(s) # s /\ s # <<>>
    <3>1. Len(Tail(s)) = Len(s) - 1
      BY <2>1
    <3> QED
      BY <2>1, <3>1
  <2>3. \A l : s # <<l>>
    BY <2>1
  <2> QED
    BY <1>2, <2>1, <2>2, <2>3 DEF Stripped, SourceSlugCandidates
<1> QED
  BY <1>1, <1>2

(* The one key that can answer: elsewhere no bundle is named so, and no     *)
(* file is labelled so.                                                     *)
KeyFor(s, lang) == IF s = <<>> \/ s = <<lang>> THEN <<IndexName(lang)>> ELSE Stripped(s)
PlainKey(s) == IF s = <<>> THEN <<IndexName("")>> ELSE Stripped(s)

LEMMA LabelledIs ==
  ASSUME NEW candidates, NEW label, NEW n \in Nat, DOMAIN candidates = 1 .. n,
         NEW k, \E i \in 1 .. n : candidates[i] = k,
         \A i \in 1 .. n : candidates[i] # k => BySlugLang(candidates[i], label) = Null
  PROVE  Labelled(candidates, label) = BySlugLang(k, label)
<1>1. PICK files : files = [i \in DOMAIN candidates |-> BySlugLang(candidates[i], label)]
  OBVIOUS
<1>2. DOMAIN files = 1 .. n /\ \A i \in 1 .. n : files[i] = BySlugLang(candidates[i], label)
  BY <1>1
<1>3. PICK f : f = Labelled(candidates, label)
  OBVIOUS
<1>4. f = FirstFound(files)
  BY <1>1, <1>3 DEF Labelled
<1>5. IF \A i \in DOMAIN files : files[i] = Null THEN f = Null
      ELSE \E i \in DOMAIN files : f = files[i] /\ f # Null /\ \A j \in DOMAIN files : files[j] # Null => i <= j
  BY <1>2, <1>4, FirstFoundFacts
<1> QED
  BY <1>2, <1>3, <1>5

LEMMA NamingFacts ==
  ASSUME NEW k \in Seq(STRING), NEW label \in LangCodes \cup {""}
  PROVE  /\ NamesAreTold /\ k # <<>> /\ Head(k) \in LangCodes => BySlugLang(k, label) = Null
         /\ \A l \in LangCodes \cup {""} : l # label => BySlugLang(<<IndexName(l)>>, label) = Null
<1>1. ASSUME NamesAreTold, k # <<>>, Head(k) \in LangCodes PROVE BySlugLang(k, label) = Null
  BY <1>1, BySlugLangFacts DEF NamesAreTold
<1>2. ASSUME NEW l \in LangCodes \cup {""}, l # label PROVE BySlugLang(<<IndexName(l)>>, label) = Null
  <2>1. PICK a : a = IndexName(l)
    OBVIOUS
  <2>2. PICK one : one = <<a>>
    OBVIOUS
  <2>3. SUFFICES ASSUME BySlugLang(one, label) # Null PROVE FALSE
    BY <2>1, <2>2
  <2>a. PICK f : f = BySlugLang(one, label)
    OBVIOUS
  <2>4. f \in SourceFiles /\ f.key = one /\ f.label = label
    BY <2>3, <2>a, BySlugLangFacts
  <2>5. Last(f.key) = a
    BY <2>2, <2>4, OneFacts
  <2>6. f.label = l
    BY <2>1, <2>4, <2>5, SiteReadsAssumption
  <2> QED
    BY <1>2, <2>4, <2>6
<1> QED
  BY <1>1, <1>2

LEMMA CandidateFacts ==
  ASSUME NEW s \in Seq(STRING), NEW lang \in LangCodes
  PROVE  /\ s = <<>> => /\ Candidates(s, lang) = <<<<IndexName(lang)>>, <<IndexName("")>>>>
                        /\ Candidates(s, Null) = <<<<IndexName("")>>>>
         /\ s = <<lang>> => Candidates(s, lang) = <<s, <<IndexName(lang)>>, <<IndexName("")>>>>
         /\ s # <<>> => Candidates(s, Null) = SourceSlugCandidates(s)
         /\ s # <<>> /\ s # <<lang>> => Candidates(s, lang) = SourceSlugCandidates(s)
<1>a. PICK a : a = <<IndexName(lang)>>
  OBVIOUS
<1>b. PICK b : b = <<IndexName("")>>
  OBVIOUS
<1>1. s = <<lang>> => s # <<>>
  BY OneFacts
<1>2. RootIndex(lang) = <<a, b>> /\ RootIndex(Null) = <<b>> /\ lang # Null
  BY <1>a, <1>b, LangFacts DEF RootIndex
<1>3. s = <<lang>> => Candidates(s, lang) = <<s>> \o <<a, b>>
  BY <1>1, <1>2 DEF Candidates
<1>4. <<s>> \o <<a, b>> = <<s, a, b>>
  BY ConsFacts
<1>5. s # <<>> => Candidates(s, Null) = SourceSlugCandidates(s)
  BY DEF Candidates
<1>6. s # <<>> /\ s # <<lang>> => Candidates(s, lang) = SourceSlugCandidates(s)
  BY DEF Candidates
<1>7. s = <<>> => Candidates(s, lang) = <<a, b>> /\ Candidates(s, Null) = <<b>>
  BY <1>1, <1>2 DEF Candidates
<1> QED
  BY <1>a, <1>b, <1>3, <1>4, <1>5, <1>6, <1>7

(* What the resolver's three lookups by label come to                       *)
LEMMA ExactIs ==
  ASSUME NamesAreTold, NEW s \in Seq(STRING), NEW lang \in LangCodes
  PROVE  Exact(s, lang) = BySlugLang(KeyFor(s, lang), lang)
<1>1. PICK a : a = <<IndexName(lang)>>
  OBVIOUS
<1>2. PICK b : b = <<IndexName("")>>
  OBVIOUS
<1>3. BySlugLang(b, lang) = Null
  <2>1. "" \in LangCodes \cup {""} /\ lang \in LangCodes \cup {""} /\ "" # lang
    BY LangFacts
  <2> QED
    BY <1>2, <2>1, NamingFacts
<1>4. \A k \in Seq(STRING) : k # <<>> /\ Head(k) \in LangCodes => BySlugLang(k, lang) = Null
  BY NamingFacts
<1>5. PICK candidates : candidates = Candidates(s, lang)
  OBVIOUS
<1>6. PICK k : k = KeyFor(s, lang)
  OBVIOUS
<1>7. \E n \in Nat : /\ DOMAIN candidates = 1 .. n /\ \E i \in 1 .. n : candidates[i] = k
                     /\ \A i \in 1 .. n : candidates[i] # k => BySlugLang(candidates[i], lang) = Null
  <2>1. CASE s = <<>>
    <3>1. candidates = <<a, b>> /\ k = a
      BY <1>1, <1>2, <1>5, <1>6, <2>1, CandidateFacts DEF KeyFor
    <3>2. DOMAIN candidates = 1 .. 2 /\ candidates[1] = a /\ candidates[2] = b
      BY <3>1
    <3> QED
      BY <1>3, <3>1, <3>2
  <2>2. CASE s = <<lang>>
    <3>1. candidates = <<s, a, b>> /\ k = a
      BY <1>1, <1>2, <1>5, <1>6, <2>2, CandidateFacts DEF KeyFor
    <3>2. DOMAIN candidates = 1 .. 3 /\ candidates[1] = s /\ candidates[2] = a /\ candidates[3] = b
      BY <3>1
    <3>3. BySlugLang(s, lang) = Null
      BY <1>4, <2>2, OneFacts
    <3> QED
      BY <1>3, <3>1, <3>2, <3>3
  <2>3. CASE s # <<>> /\ s # <<lang>>
    <3>1. candidates = SourceSlugCandidates(s) /\ k = Stripped(s)
      BY <1>5, <1>6, <2>3, CandidateFacts DEF KeyFor
    <3>2. CASE Prefix(s) = Null
      <4>1. candidates = <<s>> /\ k = s
        BY <2>3, <3>1, <3>2, SlugFacts
      <4>2. DOMAIN candidates = 1 .. 1 /\ candidates[1] = s
        BY <4>1
      <4> QED
        BY <4>1, <4>2
    <3>3. CASE Prefix(s) # Null
      <4>1. candidates = <<s, k>> /\ Head(s) \in LangCodes
        BY <3>1, <3>3, SlugFacts
      <4>2. DOMAIN candidates = 1 .. 2 /\ candidates[1] = s /\ candidates[2] = k
        BY <4>1
      <4>3. BySlugLang(s, lang) = Null
        BY <1>4, <2>3, <4>1
      <4> QED
        BY <4>2, <4>3
    <3> QED
      BY <3>2, <3>3
  <2> QED
    BY <2>1, <2>2, <2>3
<1>8. Labelled(candidates, lang) = BySlugLang(k, lang)
  BY <1>7, LabelledIs
<1> QED
  BY <1>5, <1>6, <1>8 DEF Exact

LEMMA UnlabelledIs ==
  ASSUME NamesAreTold, NEW s \in Seq(STRING)
  PROVE  Unlabelled(s) = BySlugLang(PlainKey(s), "")
<1>1. PICK b : b = <<IndexName("")>>
  OBVIOUS
<1>2. PICK candidates : candidates = Candidates(s, Null)
  OBVIOUS
<1>3. PICK k : k = PlainKey(s)
  OBVIOUS
<1>4. \A j \in Seq(STRING) : j # <<>> /\ Head(j) \in LangCodes => BySlugLang(j, "") = Null
  BY NamingFacts
<1>5. \E n \in Nat : /\ DOMAIN candidates = 1 .. n /\ \E i \in 1 .. n : candidates[i] = k
                     /\ \A i \in 1 .. n : candidates[i] # k => BySlugLang(candidates[i], "") = Null
  <2>1. CASE s = <<>>
    <3>1. candidates = <<b>> /\ k = b
      BY <1>1, <1>2, <1>3, <2>1, CandidateFacts, LangFacts DEF PlainKey
    <3>2. DOMAIN candidates = 1 .. 1 /\ candidates[1] = k /\ 1 \in Nat /\ 1 \in 1 .. 1
          /\ \A i \in 1 .. 1 : i = 1
      BY <3>1
    <3> QED
      BY <3>2
  <2>2. CASE s # <<>>
    <3>1. candidates = SourceSlugCandidates(s) /\ k = Stripped(s)
      BY <1>2, <1>3, <2>2, CandidateFacts, LangFacts DEF PlainKey
    <3>2. CASE Prefix(s) = Null
      <4>1. candidates = <<s>> /\ k = s
        BY <2>2, <3>1, <3>2, SlugFacts
      <4>2. DOMAIN candidates = 1 .. 1 /\ candidates[1] = k /\ 1 \in Nat /\ 1 \in 1 .. 1
            /\ \A i \in 1 .. 1 : i = 1
        BY <4>1
      <4> QED
        BY <4>2
    <3>3. CASE Prefix(s) # Null
      <4>1. candidates = <<s, k>> /\ Head(s) \in LangCodes
        BY <3>1, <3>3, SlugFacts
      <4>2. DOMAIN candidates = 1 .. 2 /\ candidates[1] = s /\ candidates[2] = k /\ 2 \in Nat /\ 2 \in 1 .. 2
            /\ \A i \in 1 .. 2 : i = 1 \/ i = 2
        BY <4>1
      <4>3. BySlugLang(s, "") = Null
        BY <1>4, <2>2, <4>1
      <4> QED
        BY <4>2, <4>3
    <3> QED
      BY <3>2, <3>3
  <2> QED
    BY <2>1, <2>2
<1>6. Labelled(candidates, "") = BySlugLang(k, "")
  BY <1>5, LabelledIs
<1> QED
  BY <1>2, <1>3, <1>6 DEF Unlabelled

(* A lookup by label finds a file of that label, and no other bundle's.     *)
LEMMA ExactFacts ==
  ASSUME NamesAreTold, NEW s \in Seq(STRING), NEW lang \in LangCodes
  PROVE  /\ Exact(s, lang) # Null =>
               /\ Exact(s, lang) \in Written /\ Exact(s, lang).key = KeyFor(s, lang)
               /\ Exact(s, lang).label = lang /\ Lang(Exact(s, lang)) = lang
         /\ \A g \in Written : g.key = KeyFor(s, lang) /\ g.label = lang => Exact(s, lang) = g
<1>1. PICK k : k = KeyFor(s, lang)
  OBVIOUS
<1>2. PICK f : f = Exact(s, lang)
  OBVIOUS
<1>3. lang # "" /\ f = BySlugLang(k, lang)
  BY <1>1, <1>2, LangFacts, ExactIs
<1>4. f # Null => f \in Written /\ f.key = k /\ f.label = lang
  BY <1>3, BySlugLangFacts
<1>5. \A g \in Written : g.key = k /\ g.label = lang => f = g
  BY <1>3, BySlugLangFacts
<1>6. f # Null => Lang(f) = lang
  BY <1>3, <1>4 DEF Lang
<1> QED
  BY <1>1, <1>2, <1>4, <1>5, <1>6

LEMMA UnlabelledFacts ==
  ASSUME NamesAreTold, NEW s \in Seq(STRING)
  PROVE  /\ Unlabelled(s) # Null =>
               /\ Unlabelled(s) \in Written /\ Unlabelled(s).key = PlainKey(s)
               /\ Unlabelled(s).label = "" /\ Lang(Unlabelled(s)) = Default
         /\ \A g \in Written : g.key = PlainKey(s) /\ g.label = "" => Unlabelled(s) = g
<1>1. PICK k : k = PlainKey(s)
  OBVIOUS
<1>2. PICK f : f = Unlabelled(s)
  OBVIOUS
<1>3. f = BySlugLang(k, "")
  BY <1>1, <1>2, UnlabelledIs
<1>4. f # Null => f \in Written /\ f.key = k /\ f.label = ""
  BY <1>3, BySlugLangFacts
<1>5. \A g \in Written : g.key = k /\ g.label = "" => f = g
  BY <1>3, BySlugLangFacts
<1>6. f # Null => Lang(f) = Default
  BY <1>3, <1>4 DEF Lang
<1> QED
  BY <1>1, <1>2, <1>4, <1>5, <1>6

(* The two together: what a language stands for                             *)
LEMMA ForLangFacts ==
  ASSUME NamesAreTold, NEW s \in Seq(STRING), NEW lang \in LangCodes
  PROVE  /\ ForLang(s, lang) # Null =>
               /\ ForLang(s, lang) \in Written /\ Lang(ForLang(s, lang)) = lang
               /\ \/ ForLang(s, lang).label = lang /\ ForLang(s, lang).key = KeyFor(s, lang)
                  \/ lang = Default /\ ForLang(s, lang).label = "" /\ ForLang(s, lang).key = PlainKey(s)
         /\ \A g \in Written : g.key = KeyFor(s, lang) /\ g.label = lang => ForLang(s, lang) = g
         /\ ForLang(s, lang) = IF Exact(s, lang) # Null THEN Exact(s, lang)
                               ELSE IF lang = Default THEN Unlabelled(s) ELSE Null
<1>1. ForLang(s, lang) = IF Exact(s, lang) # Null THEN Exact(s, lang)
                         ELSE IF lang = Default THEN Unlabelled(s) ELSE Null
  BY DEF ForLang, OrElse
<1>2. \A g \in Written : g # Null
  BY WrittenAreFiles, FileFacts
<1>3. PICK f : f = ForLang(s, lang)
  OBVIOUS
<1>4. PICK e : e = Exact(s, lang)
  OBVIOUS
<1>5. PICK p : p = Unlabelled(s)
  OBVIOUS
<1>6. f = IF e # Null THEN e ELSE IF lang = Default THEN p ELSE Null
  BY <1>1, <1>3, <1>4, <1>5
<1>7. /\ e # Null => e \in Written /\ e.key = KeyFor(s, lang) /\ e.label = lang /\ Lang(e) = lang
      /\ \A g \in Written : g.key = KeyFor(s, lang) /\ g.label = lang => e = g
  BY <1>4, ExactFacts
<1>8. p # Null => p \in Written /\ p.key = PlainKey(s) /\ p.label = "" /\ Lang(p) = Default
  BY <1>5, UnlabelledFacts
<1> QED
  BY <1>1, <1>2, <1>3, <1>6, <1>7, <1>8

LEMMA PublicFactsOf ==
  ASSUME NEW u
  PROVE  IF u \in PagesIn(idx) THEN Public(u) = u /\ u # Null ELSE Public(u) = Null
BY LangFacts DEF Public, PagesIn

(* Of any candidates, the first that is a bundle                            *)
LEMMA OfBundleIs ==
  ASSUME NEW candidates, NEW n \in Nat, DOMAIN candidates = 1 .. n
  PROVE  /\ OfBundle(candidates) # Null =>
              \E i \in 1 .. n : OfBundle(candidates) \in Written /\ OfBundle(candidates).key = candidates[i]
         /\ (\E i \in 1 .. n : \E g \in Written : g.key = candidates[i]) => OfBundle(candidates) # Null
<1>1. PICK files : files = [i \in DOMAIN candidates |-> BySlug(candidates[i])]
  OBVIOUS
<1>2. DOMAIN files = 1 .. n /\ \A i \in 1 .. n : files[i] = BySlug(candidates[i])
  BY <1>1
<1>3. PICK f : f = OfBundle(candidates)
  OBVIOUS
<1>4. f = FirstFound(files)
  BY <1>1, <1>3 DEF OfBundle
<1>5. IF \A i \in DOMAIN files : files[i] = Null THEN f = Null
      ELSE \E i \in DOMAIN files : f = files[i] /\ f # Null /\ \A j \in DOMAIN files : files[j] # Null => i <= j
  BY <1>2, <1>4, FirstFoundFacts
<1>6. f # Null => \E i \in 1 .. n : f \in Written /\ f.key = candidates[i]
  BY <1>2, <1>5, BySlugFacts
<1>7. ASSUME NEW i \in 1 .. n, NEW g \in Written, g.key = candidates[i] PROVE f # Null
  <2>1. files[i] # Null /\ i \in DOMAIN files
    BY <1>2, <1>7, BySlugFacts
  <2> QED
    BY <1>5, <2>1
<1> QED
  BY <1>3, <1>6, <1>7

(* A request that names no language and no page falls back to a bundle      *)
(* which is not published under its own slug either.                        *)
LEMMA DefaultSourceFacts ==
  ASSUME NamesAreTold, NEW s \in Seq(STRING), Prefix(s) = Null, DefaultSource(s) # Null
  PROVE  /\ DefaultSource(s) \in Written
         /\ \/ DefaultSource(s).key = s
            \/ (s = <<>> \/ s = <<Default>>) /\ \E l \in LangCodes \cup {""} : DefaultSource(s).key = <<IndexName(l)>>
<1>1. PICK f : f = DefaultSource(s)
  OBVIOUS
<1>2. Default \in LangCodes
  BY LangFacts
<1>3. PICK Named : Named = IF s = <<>> \/ s = <<Default>> THEN {<<IndexName(l)>> : l \in LangCodes \cup {""}} ELSE {}
  OBVIOUS
<1>4. PICK candidates : candidates = Candidates(s, Default)
  OBVIOUS
<1>5. KeyFor(s, Default) \in Named \cup {s} /\ PlainKey(s) \in Named \cup {s}
  <2>1. s # <<>> => Stripped(s) = s
    BY SlugFacts
  <2> QED
    BY <1>2, <1>3, <2>1 DEF KeyFor, PlainKey
<1>6. \E n \in Nat : DOMAIN candidates = 1 .. n /\ \A i \in 1 .. n : candidates[i] \in Named \cup {s}
  <2>1. PICK a : a = <<IndexName(Default)>>
    OBVIOUS
  <2>2. PICK b : b = <<IndexName("")>>
    OBVIOUS
  <2>3. s = <<>> \/ s = <<Default>> => a \in Named /\ b \in Named
    BY <1>2, <1>3, <2>1, <2>2
  <2>4. CASE s = <<>>
    <3>1. candidates = <<a, b>>
      BY <1>2, <1>4, <2>1, <2>2, <2>4, CandidateFacts
    <3>2. DOMAIN candidates = 1 .. 2 /\ candidates[1] = a /\ candidates[2] = b
      BY <3>1
    <3>3. 2 \in Nat /\ \A i \in 1 .. 2 : i = 1 \/ i = 2
      OBVIOUS
    <3> QED
      BY <2>3, <2>4, <3>2, <3>3
  <2>5. CASE s = <<Default>>
    <3>1. candidates = <<s, a, b>>
      BY <1>2, <1>4, <2>1, <2>2, <2>5, CandidateFacts
    <3>2. DOMAIN candidates = 1 .. 3 /\ candidates[1] = s /\ candidates[2] = a /\ candidates[3] = b
      BY <3>1
    <3>3. 3 \in Nat /\ \A i \in 1 .. 3 : i = 1 \/ i = 2 \/ i = 3
      OBVIOUS
    <3> QED
      BY <2>3, <2>5, <3>2, <3>3
  <2>6. CASE s # <<>> /\ s # <<Default>>
    <3>1. candidates = <<s>>
      BY <1>2, <1>4, <2>6, CandidateFacts, SlugFacts
    <3>2. DOMAIN candidates = 1 .. 1 /\ candidates[1] = s
      BY <3>1
    <3>3. 1 \in Nat /\ \A i \in 1 .. 1 : i = 1
      OBVIOUS
    <3> QED
      BY <3>2, <3>3
  <2> QED
    BY <2>4, <2>5, <2>6
<1>7. OfBundle(candidates) # Null => OfBundle(candidates) \in Written /\ OfBundle(candidates).key \in Named \cup {s}
  BY <1>6, OfBundleIs
<1>8. f = IF ForLang(s, Default) # Null THEN ForLang(s, Default) ELSE OfBundle(candidates)
  BY <1>1, <1>4 DEF DefaultSource, OrElse
<1>a. PICK g : g = ForLang(s, Default)
  OBVIOUS
<1>b. g # Null => g \in Written /\ g.key \in {KeyFor(s, Default), PlainKey(s)}
  BY <1>2, <1>a, ForLangFacts
<1>c. f # Null
  BY <1>1
<1>9. f \in Written /\ f.key \in Named \cup {s}
  BY <1>5, <1>7, <1>8, <1>a, <1>b, <1>c
<1> QED
  BY <1>1, <1>3, <1>9

LEMMA IndexFacts ==
  ASSUME NEW l \in LangCodes \cup {""}, NEW x, x = <<IndexName(l)>>
  PROVE  x # <<>> /\ IsIndex(x) /\ Trimmed(x) = <<>>
<1>1. PICK a : a = IndexName(l)
  OBVIOUS
<1>2. x = <<a>>
  BY <1>1
<1>3. x # <<>> /\ Last(x) = IndexName(l) /\ Front(x) = <<>>
  BY <1>1, <1>2, OneFacts
<1>4. IsIndex(x)
  BY <1>3 DEF IsIndex
<1> QED
  BY <1>3, <1>4 DEF Trimmed

LEMMA ToldFacts ==
  ASSUME NamesAreTold, NEW u \in PagesIn(idx)
  PROVE  /\ u \in Urls /\ u \in Seq(STRING) /\ u # Null /\ idx[u] # Null
         /\ u # <<>> => ~IsIndex(u) /\ Trimmed(u) = u
         /\ Len(u) >= 2 => u[2] \notin LangCodes
<1>1. u \in Urls /\ idx[u] # Null /\ u \in Seq(STRING) /\ u # Null
  BY OrderFacts, LangFacts DEF PagesIn
<1> QED
  BY <1>1 DEF NamesAreTold, Trimmed

LEMMA LanguageIs ==
  ASSUME idx \in RenderedTrees, NEW u \in PagesIn(idx)
  PROVE  PageLang(idx, u) \in LangCodes /\ PageLang(idx, u) # Null
<1>1. PageLang(idx, u) \in LangCodes
  BY PageFactsOf
<1> QED
  BY <1>1, LangFacts

LEMMA ImplicitFacts ==
  ASSUME NamesAreTold, idx \in RenderedTrees, NEW s \in Seq(STRING), NEW r, r = ResolveImplicit(s)
  PROVE  /\ s \in PagesIn(idx) => r = [pub |-> s, src |-> ForLang(s, PageLang(idx, s))]
         /\ s \notin PagesIn(idx) =>
              r = [pub |-> Null, src |-> IF Prefix(s) # Null THEN Exact(s, Prefix(s)) ELSE DefaultSource(s)]
<1>1. PICK asked : asked = Prefix(s)
  OBVIOUS
<1>2. PICK pub : pub = Public(s)
  OBVIOUS
<1>3. PICK lang : lang = IF pub # Null THEN PageLang(idx, pub) ELSE asked
  OBVIOUS
<1>4. PICK src : src = CASE asked # Null -> OrElse(Exact(s, lang), IF Borrowable(pub, lang) THEN Unlabelled(s) ELSE Null)
                         [] asked = Null /\ lang # Null -> ForLang(s, lang)
                         [] OTHER -> DefaultSource(s)
  OBVIOUS
<1>5. r = [pub |-> IF pub = Null /\ asked = Null /\ src # Null THEN Public(src.key) ELSE pub, src |-> src]
  BY <1>1, <1>2, <1>3, <1>4 DEF ResolveImplicit
<1>6. ASSUME s \in PagesIn(idx) PROVE r = [pub |-> s, src |-> ForLang(s, PageLang(idx, s))]
  <2>1. pub = s /\ s # Null /\ lang = PageLang(idx, s) /\ lang \in LangCodes /\ lang # Null
    BY <1>2, <1>3, <1>6, PublicFactsOf, LanguageIs
  <2>2. src = ForLang(s, lang)
    <3>1. CASE asked # Null
      <4>1. Borrowable(pub, lang) <=> lang = Default
        BY <2>1 DEF Borrowable
      <4>2. src = OrElse(Exact(s, lang), IF lang = Default THEN Unlabelled(s) ELSE Null)
        BY <1>4, <3>1, <4>1
      <4> QED
        BY <4>2 DEF ForLang
    <3>2. CASE asked = Null
      BY <1>4, <2>1, <3>2
    <3> QED
      BY <3>1, <3>2
  <2> QED
    BY <1>5, <2>1, <2>2
<1>7. ASSUME s \notin PagesIn(idx)
      PROVE  r = [pub |-> Null, src |-> IF Prefix(s) # Null THEN Exact(s, Prefix(s)) ELSE DefaultSource(s)]
  <2>1. pub = Null /\ lang = asked
    BY <1>2, <1>3, <1>7, PublicFactsOf
  <2>2. CASE asked # Null
    <3>1. ~Borrowable(pub, lang)
      BY <2>1 DEF Borrowable
    <3>2. src = OrElse(Exact(s, asked), Null)
      BY <1>4, <2>1, <2>2, <3>1
    <3>3. src = Exact(s, asked)
      BY <3>2 DEF OrElse
    <3> QED
      BY <1>1, <1>5, <2>1, <2>2, <3>3
  <2>3. CASE asked = Null
    <3>1. src = DefaultSource(s)
      BY <1>4, <2>1, <2>3
    <3>2. src # Null => src.key = s \/ \E l \in LangCodes \cup {""} : src.key = <<IndexName(l)>>
      BY <1>1, <2>3, <3>1, DefaultSourceFacts
    <3>3. src # Null => src.key \notin PagesIn(idx)
      <4>1. \A l \in LangCodes \cup {""} : <<IndexName(l)>> \notin PagesIn(idx)
        <5>1. SUFFICES ASSUME NEW l \in LangCodes \cup {""}, NEW x, x = <<IndexName(l)>>
                       PROVE  x \notin PagesIn(idx)
          OBVIOUS
        <5>2. x # <<>> /\ IsIndex(x)
          BY <5>1, IndexFacts
        <5> QED
          BY <5>2, ToldFacts
      <4> QED
        BY <1>7, <3>2, <4>1
    <3>4. src # Null => Public(src.key) = Null
      BY <3>3, PublicFactsOf
    <3> QED
      BY <1>1, <1>5, <2>1, <2>3, <3>1, <3>4
  <2> QED
    BY <2>2, <2>3
<1> QED
  BY <1>6, <1>7

(* A page whose slug tells its language is where Hugo renders the one       *)
(* bundle a lookup in that language finds under its slug.                   *)
LEMMA KeyLeads ==
  ASSUME NamesAreTold, idx \in RenderedTrees, NEW u \in PagesIn(idx), SlugTellsLanguage(u),
         NEW lang, lang = PageLang(idx, u)
  PROVE  /\ PublicSlug(KeyFor(u, lang), lang) = u
         /\ lang = Default => PublicSlug(PlainKey(u), lang) = u
         /\ Prefix(u) \in {Null, lang}
         /\ IF lang = Default THEN Stripped(u) = u
            ELSE u # <<>> /\ Head(u) = lang /\ (u # <<lang>> => Len(u) >= 2 /\ Stripped(u) = Tail(u))
<1>1. lang \in LangCodes /\ lang # Null
  BY LanguageIs
<1>2. u \in Seq(STRING) /\ (u # <<>> => ~IsIndex(u) /\ Trimmed(u) = u)
  BY ToldFacts
<1>3. Prefix(u) # Null => u # <<>> /\ Head(u) \in LangCodes /\ Prefix(u) = Head(u)
  BY <1>2, SlugFacts
<1>4. CASE lang = Default
  <2>1. u = <<>> \/ Head(u) \notin LangCodes
    BY <1>4 DEF SlugTellsLanguage
  <2>2. Prefix(u) = Null
    BY <1>3, <2>1
  <2>3. CASE u = <<>>
    <3>1. PICK a : a = <<IndexName(lang)>>
      OBVIOUS
    <3>2. PICK b : b = <<IndexName("")>>
      OBVIOUS
    <3>3. Trimmed(a) = <<>> /\ Trimmed(b) = <<>>
      BY <1>1, <3>1, <3>2, IndexFacts
    <3>4. KeyFor(u, lang) = a /\ PlainKey(u) = b
      BY <2>3, <3>1, <3>2 DEF KeyFor, PlainKey
    <3>5. Stripped(u) = u
      BY <2>3 DEF Stripped
    <3> QED
      BY <1>4, <2>2, <2>3, <3>3, <3>4, <3>5 DEF PublicSlug
  <2>4. CASE u # <<>>
    <3>1. Stripped(u) = u
      BY <1>2, <2>2, <2>4, SlugFacts
    <3>2. u # <<lang>>
      <4>1. Head(<<lang>>) = lang
        BY OneFacts
      <4> QED
        BY <1>1, <2>1, <2>4, <4>1
    <3>3. KeyFor(u, lang) = u /\ PlainKey(u) = u
      BY <2>4, <3>1, <3>2 DEF KeyFor, PlainKey
    <3> QED
      BY <1>2, <1>4, <2>2, <2>4, <3>1, <3>3 DEF PublicSlug
  <2> QED
    BY <2>3, <2>4
<1>5. CASE lang # Default
  <2>1. u # <<>> /\ Head(u) = lang
    BY <1>5 DEF SlugTellsLanguage
  <2>2. Prefix(u) \in {Null, lang}
    BY <1>3, <2>1
  <2>3. CASE u = <<lang>>
    <3>1. PICK a : a = <<IndexName(lang)>>
      OBVIOUS
    <3>2. PICK b : b = <<lang>>
      OBVIOUS
    <3>3. Trimmed(a) = <<>> /\ KeyFor(u, lang) = a
      BY <1>1, <2>3, <3>1, IndexFacts DEF KeyFor
    <3>4. PublicSlug(a, lang) = b \o <<>>
      BY <1>5, <3>2, <3>3 DEF PublicSlug
    <3>5. b \o <<>> = b
      <4>1. b \in Seq(STRING)
        BY <1>2, <2>3, <3>2
      <4> QED
        BY <4>1, ConcatEmptySeq
    <3> QED
      BY <1>5, <2>1, <2>2, <2>3, <3>2, <3>3, <3>4, <3>5
  <2>4. CASE u # <<lang>>
    <3>1. Len(u) >= 2
      <4>1. Len(u) \in Nat /\ Len(u) >= 1
        BY <1>2, <2>1
      <4>2. Len(u) = 1 => u = <<lang>>
        <5>1. PICK h : h = <<lang>>
          OBVIOUS
        <5>2. lang = u[1] /\ lang \in STRING
          BY <1>2, <2>1
        <5>3. h \in Seq(STRING) /\ Len(h) = 1 /\ h[1] = u[1]
          BY <5>1, <5>2
        <5>4. Len(u) = 1 => \A i \in 1 .. Len(u) : u[i] = h[i]
          BY <5>3
        <5> QED
          BY <1>2, <5>1, <5>3, <5>4, SeqEqual
      <4>3. Len(u) # 1
        BY <2>4, <4>2
      <4>4. PICK n : n = Len(u)
        OBVIOUS
      <4>5. n \in Nat /\ n >= 1 /\ n # 1
        BY <4>1, <4>3, <4>4
      <4>6. n >= 2
        BY ONLY <4>5
      <4> QED
        BY <4>4, <4>6
    <3>2. PICK t : t = Tail(u)
      OBVIOUS
    <3>3. t # <<>> /\ Last(t) = Last(u) /\ <<lang>> \o t = u
      BY <1>2, <2>1, <3>1, <3>2, TailFacts
    <3>4. Stripped(u) = t
      BY <1>1, <2>1, <3>1, <3>2 DEF Stripped
    <3>5. KeyFor(u, lang) = t
      BY <2>1, <2>4, <3>4 DEF KeyFor
    <3>6. Trimmed(t) = t
      BY <1>2, <2>1, <3>3 DEF IsIndex, Trimmed
    <3>7. PublicSlug(t, lang) = u
      BY <1>5, <3>3, <3>6 DEF PublicSlug
    <3> QED
      BY <1>5, <2>1, <2>2, <3>1, <3>2, <3>4, <3>5, <3>7
  <2> QED
    BY <2>3, <2>4
<1> QED
  BY <1>4, <1>5

LEMMA WithLangFacts ==
  ASSUME NamesAreTold, idx \in RenderedTrees, NEW s \in Seq(STRING), NEW lang \in LangCodes,
         NEW r, r = ResolveWithLang(s, lang)
  PROVE  /\ r = [pub |-> r.pub, src |-> r.src] /\ (r.src # Null => Prefix(s) \in {Null, lang})
         /\ Prefix(s) \in {Null, lang} => r.src = ForLang(s, lang)
         /\ r.pub # Null => /\ r.pub \in PagesIn(idx) /\ PageLang(idx, r.pub) = lang
                            /\ r.src # Null => r.pub \in {s, PublicSlug(r.src.key, lang)}
         /\ \A u \in PagesIn(idx) :
              (/\ Prefix(s) \in {Null, lang} /\ PageLang(idx, u) = lang
               /\ r.src # Null /\ r.src.key # <<>> /\ u = PublicSlug(r.src.key, lang)) => r.pub = u
         /\ (/\ Prefix(s) \in {Null, lang} /\ s \in PagesIn(idx) /\ PageLang(idx, s) = lang
             /\ \/ r.src # Null /\ PublicSlug(r.src.key, lang) = s
                \/ r.src = Null /\ (s # <<>> => PublicSlug(s, lang) \notin PagesIn(idx) \/ PublicSlug(s, lang) = s))
              => r.pub = s
<1>1. PICK src : src = ForLang(s, lang)
  OBVIOUS
<1>2. PICK key : key = IF src = Null THEN s ELSE src.key
  OBVIOUS
<1>3. PICK canonical : canonical = IF key = <<>> THEN Null ELSE Public(PublicSlug(key, lang))
  OBVIOUS
<1>4. PICK page : page = IF MatchesLang(canonical, lang) THEN canonical
                         ELSE IF MatchesLang(Public(s), lang) THEN Public(s) ELSE Null
  OBVIOUS
<1>5. r = IF Prefix(s) \in {Null, lang} THEN [pub |-> page, src |-> src] ELSE [pub |-> Null, src |-> Null]
  BY <1>1, <1>2, <1>3, <1>4 DEF ResolveWithLang
<1>6. /\ canonical # Null => canonical \in PagesIn(idx) /\ key # <<>> /\ canonical = PublicSlug(key, lang)
      /\ key # <<>> /\ PublicSlug(key, lang) \in PagesIn(idx) => canonical = PublicSlug(key, lang)
      /\ \A u : MatchesLang(u, lang) <=> u # Null /\ PageLang(idx, u) = lang
  BY <1>3, PublicFactsOf DEF MatchesLang
<1>7. /\ Public(s) # Null => s \in PagesIn(idx) /\ Public(s) = s
      /\ s \in PagesIn(idx) => Public(s) = s
      /\ \A u \in PagesIn(idx) : u # Null
  BY PublicFactsOf
<1>8. page # Null => /\ page \in PagesIn(idx) /\ PageLang(idx, page) = lang
                     /\ src # Null => page \in {s, PublicSlug(src.key, lang)}
  BY <1>2, <1>4, <1>6, <1>7
<1>9. ASSUME NEW u \in PagesIn(idx), PageLang(idx, u) = lang, src # Null, src.key # <<>>, u = PublicSlug(src.key, lang)
      PROVE  page = u
  <2>1. canonical = u /\ u # Null
    BY <1>2, <1>6, <1>7, <1>9
  <2> QED
    BY <1>4, <1>6, <1>9, <2>1
<1>10. ASSUME s \in PagesIn(idx), PageLang(idx, s) = lang,
              \/ src # Null /\ PublicSlug(src.key, lang) = s
              \/ src = Null /\ (s # <<>> => PublicSlug(s, lang) \notin PagesIn(idx) \/ PublicSlug(s, lang) = s)
       PROVE  page = s
  <2>1. canonical \in {Null, s}
    BY <1>2, <1>6, <1>10
  <2>2. Public(s) = s /\ s # Null /\ MatchesLang(s, lang)
    BY <1>6, <1>7, <1>10
  <2> QED
    BY <1>4, <1>6, <2>1, <2>2
<1> QED
  BY <1>1, <1>5, <1>8, <1>9, <1>10

(* No answer pairs a page with the source of another language, or one that  *)
(* was not asked for.                                                       *)
LEMMA LanguagesAgree ==
  ASSUME NamesAreTold, idx \in RenderedTrees, NEW s \in Requests, NEW lang \in Languages,
         NEW r, r = Resolve(s, lang)
  PROVE  /\ NoLanguageIsBorrowed(r, lang)
         /\ r.src # Null => r.src \in Written
         /\ r.pub # Null => r.pub \in PagesIn(idx)
<1>1. s \in Seq(STRING)
  BY LangFacts
<1>2. CASE lang = Null
  <2>1. r = ResolveImplicit(s)
    BY <1>2 DEF Resolve
  <2>2. CASE s \in PagesIn(idx)
    <3>1. PICK l : l = PageLang(idx, s)
      OBVIOUS
    <3>2. PICK f : f = ForLang(s, l)
      OBVIOUS
    <3>3. l \in LangCodes /\ r = [pub |-> s, src |-> f]
      BY <1>1, <2>1, <2>2, <3>1, <3>2, ImplicitFacts, LanguageIs
    <3>4. f # Null => f \in Written /\ Lang(f) = l
      BY <1>1, <3>2, <3>3, ForLangFacts
    <3> QED
      BY <1>2, <2>2, <3>1, <3>3, <3>4 DEF NoLanguageIsBorrowed
  <2>3. CASE s \notin PagesIn(idx)
    <3>1. PICK f : f = IF Prefix(s) # Null THEN Exact(s, Prefix(s)) ELSE DefaultSource(s)
      OBVIOUS
    <3>2. r = [pub |-> Null, src |-> f]
      BY <1>1, <2>1, <2>3, <3>1, ImplicitFacts
    <3>3. f # Null => f \in Written
      <4>1. CASE Prefix(s) # Null
        <5>1. Prefix(s) \in LangCodes
          BY <1>1, <4>1, SlugFacts
        <5>2. PICK l : l = Prefix(s)
          OBVIOUS
        <5>3. f = Exact(s, l) /\ l \in LangCodes
          BY <3>1, <4>1, <5>1, <5>2
        <5> QED
          BY <1>1, <5>3, ExactFacts
      <4>2. CASE Prefix(s) = Null
        BY <1>1, <3>1, <4>2, DefaultSourceFacts
      <4> QED
        BY <4>1, <4>2
    <3> QED
      BY <3>2, <3>3 DEF NoLanguageIsBorrowed
  <2> QED
    BY <2>2, <2>3
<1>3. CASE lang # Null
  <2>1. r = ResolveWithLang(s, lang) /\ lang \in LangCodes
    BY <1>3 DEF Resolve, Languages
  <2>2. PICK f : f = ForLang(s, lang)
    OBVIOUS
  <2>3. f # Null => f \in Written /\ Lang(f) = lang
    BY <1>1, <2>1, <2>2, ForLangFacts
  <2>4. r.src # Null => r.src = f
    BY <1>1, <2>1, <2>2, WithLangFacts
  <2>5. r.pub # Null => r.pub \in PagesIn(idx) /\ PageLang(idx, r.pub) = lang
    BY <1>1, <2>1, WithLangFacts
  <2> QED
    BY <1>3, <2>3, <2>4, <2>5 DEF NoLanguageIsBorrowed
<1> QED
  BY <1>2, <1>3

(* The file whose quality is reported is the one shown, or none is.         *)
LEMMA JudgedIs ==
  ASSUME NEW s, NEW lang, NEW f \in Written,
         \A g \in PagesForValidation(s, lang) : g = f \/ (f.label = "" /\ g.label # "" /\ f \in PagesForValidation(s, lang))
  PROVE  Judged(s, lang) \in {Null, f}
<1>1. PICK found : found = PagesForValidation(s, lang)
  OBVIOUS
<1>2. CASE found = {}
  BY <1>1, <1>2 DEF Judged
<1>3. CASE found # {}
  <2>1. f \in found
    BY <1>1, <1>3
  <2>2. PICK j : j = CHOOSE g \in found : \A h \in found : h.label = "" => g.label = ""
    OBVIOUS
  <2>3. \A h \in found : h.label = "" => f.label = ""
    BY <1>1
  <2>4. j \in found /\ \A h \in found : h.label = "" => j.label = ""
    BY <2>1, <2>2, <2>3
  <2>5. j = f
    BY <1>1, <2>1, <2>4
  <2> QED
    BY <1>1, <1>3, <2>2, <2>5 DEF Judged
<1> QED
  BY <1>2, <1>3

LEMMA FilesValidated ==
  ASSUME NamesAreTold, NEW s \in Seq(STRING), s # <<>>, NEW lang, NEW f \in PagesForValidation(s, lang)
  PROVE  /\ f \in Written /\ f.key = Stripped(s) /\ lang \in {Null, f.label}
         /\ \A l \in LangCodes : s # <<l>>
<1>1. f \in Written /\ f.key \in ToSet(SourceSlugCandidates(s)) /\ lang \in {Null, f.label}
  BY DEF PagesForValidation
<1>2. PICK t : t = SourceSlugCandidates(s)
  OBVIOUS
<1>3. PICK i : i \in DOMAIN t /\ f.key = t[i]
  <2>1. ToSet(t) = {t[i] : i \in DOMAIN t}
    BY DEF ToSet
  <2> QED
    BY <1>1, <1>2, <2>1
<1>4. Head(f.key) \notin LangCodes
  BY <1>1 DEF NamesAreTold
<1>5. CASE Prefix(s) = Null
  <2>1. t = <<s>> /\ Stripped(s) = s
    BY <1>2, <1>5, SlugFacts
  <2>2. DOMAIN t = 1 .. 1 /\ t[1] = s
    BY <2>1
  <2>3. f.key = s
    BY <1>3, <2>2
  <2>4. ASSUME NEW l \in LangCodes, s = <<l>> PROVE FALSE
    <3>1. Head(s) = l
      BY <2>4, OneFacts
    <3> QED
      BY <1>4, <2>3, <2>4, <3>1
  <2> QED
    BY <1>1, <2>1, <2>3, <2>4
<1>6. CASE Prefix(s) # Null
  <2>1. t = <<s, Tail(s)>> /\ Stripped(s) = Tail(s) /\ Head(s) \in LangCodes /\ \A l : s # <<l>>
    BY <1>2, <1>6, SlugFacts
  <2>2. DOMAIN t = 1 .. 2 /\ t[1] = s /\ t[2] = Stripped(s)
    BY <2>1
  <2>3. f.key # s
    BY <1>4, <2>1
  <2>4. f.key = Stripped(s)
    BY <1>3, <2>2, <2>3
  <2> QED
    BY <1>1, <2>1, <2>4
<1> QED
  BY <1>5, <1>6

LEMMA QualityAgrees ==
  ASSUME NamesAreTold, idx \in RenderedTrees, NEW s \in Requests, NEW lang \in Languages,
         NEW r, r = Resolve(s, lang)
  PROVE  QualityIsOfTheShownFile(r, s, lang)
<1>1. s \in Seq(STRING)
  BY LangFacts
<1>0. SUFFICES ASSUME r.src # Null, s # <<>>, lang # Null \/ (Prefix(s) = Null /\ r.src.label = "")
             PROVE  Judged(s, lang) \in {Null, r.src}
  BY DEF QualityIsOfTheShownFile
<1>2. r.src \in Written
  BY <1>0, LanguagesAgree
<1>a. PICK f : f = r.src
  OBVIOUS
<1>3. f = r.src /\ f # Null /\ s # <<>>
  BY <1>0, <1>a
<1>4. \A g \in PagesForValidation(s, lang) :
        g \in Written /\ g.key = Stripped(s) /\ lang \in {Null, g.label} /\ \A l \in LangCodes : s # <<l>>
  BY <1>0, <1>1, FilesValidated
<1>5. CASE lang # Null
  <2>1. r = ResolveWithLang(s, lang) /\ lang \in LangCodes
    BY <1>5 DEF Resolve, Languages
  <2>a. PICK h : h = ForLang(s, lang)
    OBVIOUS
  <2>b. f # Null /\ (r.src # Null => Prefix(s) \in {Null, lang}) /\ (Prefix(s) \in {Null, lang} => r.src = h)
    BY <1>1, <1>3, <2>1, <2>a, WithLangFacts
  <2>2. f = ForLang(s, lang)
    BY <1>3, <2>a, <2>b
  <2>3. ASSUME NEW g \in PagesForValidation(s, lang) PROVE g = f
    <3>1. g \in Written /\ g.key = Stripped(s) /\ g.label = lang /\ s # <<lang>>
      BY <1>4, <1>5, <2>1, <2>3
    <3>2. g.key = KeyFor(s, lang)
      BY <1>3, <3>1 DEF KeyFor
    <3> QED
      BY <1>1, <2>1, <2>2, <3>1, <3>2, ForLangFacts
  <2> QED
    BY <1>2, <1>3, <2>3, JudgedIs
<1>6. CASE lang = Null
  <2>1. r = ResolveImplicit(s) /\ Prefix(s) = Null /\ f.label = "" /\ Stripped(s) = s
    BY <1>0, <1>1, <1>3, <1>6, SlugFacts DEF Resolve
  <2>2. \/ f.key = s
        \/ \E l \in LangCodes : s = <<l>>
    <3>1. CASE s \in PagesIn(idx)
      <4>1. PICK l : l = PageLang(idx, s)
        OBVIOUS
      <4>a. PICK h : h = ForLang(s, l)
        OBVIOUS
      <4>b. l \in LangCodes /\ r = [pub |-> s, src |-> h]
        BY <1>1, <2>1, <3>1, <4>1, <4>a, ImplicitFacts, LanguageIs
      <4>2. l \in LangCodes /\ f = ForLang(s, l) /\ f # Null
        BY <1>3, <4>a, <4>b
      <4>3. f.key \in {KeyFor(s, l), PlainKey(s)}
        BY <1>1, <4>2, ForLangFacts
      <4> QED
        BY <1>3, <2>1, <4>2, <4>3 DEF KeyFor, PlainKey
    <3>2. CASE s \notin PagesIn(idx)
      <4>a. PICK h : h = DefaultSource(s)
        OBVIOUS
      <4>b. r = [pub |-> Null, src |-> h]
        BY <1>1, <2>1, <3>2, <4>a, ImplicitFacts
      <4>1. f = DefaultSource(s) /\ f # Null
        BY <1>3, <4>a, <4>b
      <4> QED
        BY <1>1, <1>3, <2>1, <4>1, DefaultSourceFacts, LangFacts
    <3> QED
      BY <3>1, <3>2
  <2>3. ASSUME NEW g \in PagesForValidation(s, lang)
        PROVE  g = f \/ (f.label = "" /\ g.label # "" /\ f \in PagesForValidation(s, lang))
    <3>1. g \in Written /\ g.key = s /\ \A l \in LangCodes : s # <<l>>
      BY <1>4, <2>1, <2>3
    <3>2. f.key = s
      BY <2>2, <3>1
    <3> QED
      <4>1. f \in PagesForValidation(s, lang)
        BY <1>2, <1>3, <1>6, <3>1, <3>2 DEF PagesForValidation
      <4>2. g.label = "" => g = f
        BY <1>2, <1>3, <2>1, <3>1, <3>2, WrittenAreFiles, FileFacts
      <4> QED
        BY <2>1, <4>1, <4>2
  <2> QED
    BY <1>2, <1>3, <2>3, JudgedIs
<1> QED
  BY <1>5, <1>6

(* A page whose slug tells its language is found, with one and the same     *)
(* source, by its slug alone and with its language.                         *)
LEMMA EitherWay ==
  ASSUME NamesAreTold, idx \in RenderedTrees, NEW u \in PagesIn(idx), SlugTellsLanguage(u),
         NEW lang, lang = PageLang(idx, u)
  PROVE  /\ lang \in LangCodes /\ Prefix(u) \in {Null, lang}
         /\ ResolveImplicit(u) = [pub |-> u, src |-> ForLang(u, lang)]
         /\ Resolve(u, lang) = [pub |-> u, src |-> ForLang(u, lang)]
         /\ ForLang(u, lang) # Null =>
              /\ ForLang(u, lang) \in Written /\ Lang(ForLang(u, lang)) = lang
              /\ PublicSlug(ForLang(u, lang).key, lang) = u
<1>1. lang \in LangCodes /\ lang # Null
  BY LanguageIs
<1>2. u \in Seq(STRING) /\ (u # <<>> => Trimmed(u) = u)
  BY ToldFacts
<1>3. /\ PublicSlug(KeyFor(u, lang), lang) = u /\ (lang = Default => PublicSlug(PlainKey(u), lang) = u)
      /\ Prefix(u) \in {Null, lang}
  BY KeyLeads
<1>4. PICK f : f = ForLang(u, lang)
  OBVIOUS
<1>5. f # Null => f \in Written /\ Lang(f) = lang
                  /\ (f.key = KeyFor(u, lang) \/ (lang = Default /\ f.key = PlainKey(u)))
  BY <1>1, <1>2, <1>4, ForLangFacts
<1>6. f # Null => PublicSlug(f.key, lang) = u
  BY <1>3, <1>5
<1>7. ResolveImplicit(u) = [pub |-> u, src |-> f]
  BY <1>2, <1>4, ImplicitFacts
<1>8. PICK r : r = ResolveWithLang(u, lang)
  OBVIOUS
<1>9. r = [pub |-> r.pub, src |-> r.src] /\ r.src = f
  BY <1>1, <1>2, <1>3, <1>4, <1>8, WithLangFacts
<1>10. u # <<>> => PublicSlug(u, lang) \notin PagesIn(idx) \/ PublicSlug(u, lang) = u
  <2>1. CASE lang = Default
    BY <1>2, <2>1 DEF PublicSlug
  <2>2. CASE lang # Default /\ u # <<>>
    <3>1. PICK h : h = <<lang>>
      OBVIOUS
    <3>2. PICK v : v = PublicSlug(u, lang)
      OBVIOUS
    <3>3. v = h \o u
      BY <1>2, <2>2, <3>1, <3>2 DEF PublicSlug
    <3>a. lang \in STRING
      BY <1>1, LangFacts
    <3>b. h \in Seq(STRING) /\ Len(h) = 1
      BY <3>1, <3>a
    <3>c. Len(u) \in Nat /\ Len(u) >= 1 /\ u[1] = Head(u)
      BY <1>2, <2>2
    <3>4. h \in Seq(STRING) /\ Len(h) = 1 /\ Len(u) \in Nat /\ Len(u) >= 1 /\ u[1] = Head(u)
      BY <3>b, <3>c
    <3>5. Len(v) = Len(h) + Len(u)
          /\ \A i \in 1 .. Len(h) + Len(u) : v[i] = IF i <= Len(h) THEN h[i] ELSE u[i - Len(h)]
      BY ONLY <1>2, <3>3, <3>4, ConcatProperties
    <3>6. Len(v) >= 2 /\ v[2] = Head(u)
      BY <3>4, <3>5
    <3>7. Head(u) = lang
      BY <2>2 DEF SlugTellsLanguage
    <3>8. v \notin PagesIn(idx)
      BY <1>1, <3>6, <3>7, ToldFacts
    <3> QED
      BY <3>2, <3>8
  <2> QED
    BY <2>1, <2>2
<1>11. r.pub = u
  <2>1. \/ r.src # Null /\ PublicSlug(r.src.key, lang) = u
        \/ r.src = Null /\ (u # <<>> => PublicSlug(u, lang) \notin PagesIn(idx) \/ PublicSlug(u, lang) = u)
    BY <1>6, <1>9, <1>10
  <2> QED
    BY <1>1, <1>2, <1>3, <1>8, <2>1, WithLangFacts
<1>12. Resolve(u, lang) = [pub |-> u, src |-> f]
  BY <1>1, <1>8, <1>9, <1>11 DEF Resolve
<1> QED
  BY <1>1, <1>3, <1>4, <1>5, <1>6, <1>7, <1>12

(* Other pages of the same slug are of other languages.                     *)
LEMMA TranslationsDiffer ==
  ASSUME NamesAreTold, idx \in RenderedTrees, NEW u \in PagesIn(idx), SlugTellsLanguage(u),
         NEW v \in PagesIn(idx), SlugTellsLanguage(v), Stripped(u) = Stripped(v), PageLang(idx, u) = PageLang(idx, v)
  PROVE  u = v
<1>1. PICK lang : lang = PageLang(idx, u)
  OBVIOUS
<1>2. lang = PageLang(idx, v) /\ lang \in LangCodes
  BY <1>1, LanguageIs
<1>3. IF lang = Default THEN Stripped(u) = u
      ELSE u # <<>> /\ Head(u) = lang /\ (u # <<lang>> => Len(u) >= 2 /\ Stripped(u) = Tail(u))
  BY <1>1, KeyLeads
<1>4. IF lang = Default THEN Stripped(v) = v
      ELSE v # <<>> /\ Head(v) = lang /\ (v # <<lang>> => Len(v) >= 2 /\ Stripped(v) = Tail(v))
  BY <1>2, KeyLeads
<1>5. CASE lang = Default
  BY <1>3, <1>4, <1>5
<1>6. CASE lang # Default
  <2>1. PICK one : one = <<lang>>
    OBVIOUS
  <2>2. Stripped(one) = one
    BY <2>1 DEF Stripped
  <2>3. ASSUME NEW w \in PagesIn(idx), Len(w) >= 2, Tail(w) = one PROVE FALSE
    <3>1. w \in Seq(STRING) /\ (Len(w) >= 2 => w[2] \notin LangCodes)
      BY ToldFacts
    <3>2. Tail(w)[1] = w[2]
      BY <2>3, <3>1
    <3>3. Tail(w)[1] = lang
      <4>1. one[1] = lang
        BY <2>1
      <4> QED
        BY <2>3, <4>1
    <3> QED
      BY <1>2, <2>3, <3>1, <3>2, <3>3
  <2>4. (u = one <=> v = one)
    BY <1>3, <1>4, <1>6, <2>1, <2>2, <2>3
  <2>5. CASE u # one /\ v # one
    <3>1. Len(u) >= 2 /\ Len(v) >= 2 /\ Tail(u) = Tail(v) /\ Head(u) = Head(v)
      BY <1>3, <1>4, <1>6, <2>1, <2>5
    <3>2. u \in Seq(STRING) /\ v \in Seq(STRING)
      BY ToldFacts
    <3>3. <<Head(u)>> \o Tail(u) = u /\ <<Head(v)>> \o Tail(v) = v
      BY <3>1, <3>2, TailFacts
    <3> QED
      BY <3>1, <3>3
  <2> QED
    BY <2>4, <2>5
<1> QED
  BY <1>5, <1>6

LEMMA PagesOpen ==
  ASSUME NamesAreTold, idx \in RenderedTrees
  PROVE  ListedPagesOpen
<1>1. SUFFICES ASSUME NEW u \in Listed, SlugTellsLanguage(u), NEW profile \in Profiles,
                      NEW lang, lang = PageLang(idx, u)
               PROVE  LET byslug == GetPage(u, profile, FALSE)
                          context == AgentContext(u, lang, profile)
                      IN /\ byslug.pub = u /\ ReadPage(u, lang, profile).pub = u
                         /\ Detail(byslug).revision \in {Null, context.text[2]}
                         /\ byslug.src = Null => Detail(byslug).shown = context.text
                         /\ \A v \in context.translations : SlugTellsLanguage(v) => PageLang(idx, v) # lang
  BY DEF ListedPagesOpen
<1>2. Listed = PagesIn(idx)
  BY DEF Listed, PagesIn
<1>3. u \in PagesIn(idx) /\ u # Null
  BY <1>1, <1>2, ToldFacts
<1>4. PICK f : f = IF profile = "reader" THEN Null ELSE ForLang(u, lang)
  OBVIOUS
<1>5. PICK r : r = [pub |-> u, src |-> f]
  OBVIOUS
<1>6. Prefix(u) \in {Null, lang} /\ ResolveImplicit(u) = [pub |-> u, src |-> ForLang(u, lang)]
      /\ Resolve(u, lang) = [pub |-> u, src |-> ForLang(u, lang)]
  BY <1>1, <1>3, EitherWay
<1>7. Shown([pub |-> u, src |-> ForLang(u, lang)], profile) = r
  BY <1>4, <1>5 DEF Shown
<1>8. GetPage(u, profile, FALSE) = r /\ ReadPage(u, lang, profile) = r
  <2>1. Shown(ResolveImplicit(u), profile) = r /\ r.pub = u
    BY <1>5, <1>6, <1>7
  <2>2. GetPage(u, profile, FALSE) = r
    BY <1>3, <2>1 DEF GetPage
  <2>3. ReadPage(u, lang, profile) = r
    BY <1>6, <1>7 DEF ReadPage, Consistent
  <2> QED
    BY <2>2, <2>3
<1>9. PICK context : context = AgentContext(u, lang, profile)
  OBVIOUS
<1>10. context.text = Text(r) /\ context.translations = {v \in PublishedPages \ {u} : Stripped(v) = Stripped(u)}
  BY <1>3, <1>5, <1>8, <1>9 DEF AgentContext
<1>11. Detail(r).revision \in {Null, context.text[2]}
  <2>1. Detail(r).revision = IF f = Null THEN Null ELSE source[f].rev
    BY <1>5 DEF Detail
  <2>2. f # Null => Text(r) = <<f, source[f].rev>>
    BY <1>5 DEF Text
  <2> QED
    BY <1>10, <2>1, <2>2
<1>12. f = Null => Detail(r).shown = context.text
  <2>1. SUFFICES ASSUME f = Null PROVE Detail(r).shown = context.text
    OBVIOUS
  <2>2. [r EXCEPT !.src = Null] = r
    BY <1>5, <2>1
  <2>3. Detail(r).shown = Text(r)
    BY <1>3, <1>5, <2>2 DEF Detail
  <2> QED
    BY <1>10, <2>3
<1>13. ASSUME NEW v \in context.translations, SlugTellsLanguage(v), PageLang(idx, v) = lang PROVE FALSE
  <2>1. v \in PagesIn(idx) /\ v # u /\ Stripped(v) = Stripped(u)
    BY <1>2, <1>10, <1>13 DEF PublishedPages
  <2> QED
    BY <1>1, <1>3, <1>13, <2>1, TranslationsDiffer
<1>14. r.pub = u /\ (r.src = Null => Detail(r).shown = context.text)
  BY <1>5, <1>12
<1>15. \A v \in context.translations : SlugTellsLanguage(v) => PageLang(idx, v) # lang
  BY <1>13
<1> QED
  BY <1>8, <1>9, <1>11, <1>14, <1>15

(* What the rows look up is what the tools about one page look up.          *)
LEMMA RowsAgree ==
  ASSUME NamesAreTold, idx \in RenderedTrees
  PROVE  RowsMatchPages
<1>1. SUFFICES ASSUME NEW u \in Listed, SlugTellsLanguage(u), NEW lang, lang = PageLang(idx, u),
                      u # <<>>, u # <<lang>>, NEW r, r = GetPage(u, "writer", FALSE), r.src # Null
               PROVE  SourceOfRow(u) = r.src /\ SourceKey(u) = r.src.key /\ RowState(u) = StateOf(r)
  BY DEF RowsMatchPages
<1>2. u \in PagesIn(idx) /\ u # Null /\ u \in Seq(STRING)
  <2>1. u \in PagesIn(idx)
    BY DEF Listed, PagesIn
  <2> QED
    BY <2>1, ToldFacts
<1>3. PICK f : f = ForLang(u, lang)
  OBVIOUS
<1>4. lang \in LangCodes /\ ResolveImplicit(u) = [pub |-> u, src |-> f] /\ Prefix(u) \in {Null, lang}
      /\ (f # Null => f \in Written)
  BY <1>1, <1>2, <1>3, EitherWay
<1>5. r = [pub |-> u, src |-> f] /\ f # Null /\ f \in Written
  <2>1. Shown(ResolveImplicit(u), "writer") = [pub |-> u, src |-> f]
    BY <1>4 DEF Shown
  <2>2. r = [pub |-> u, src |-> f]
    BY <1>1, <1>2, <2>1 DEF GetPage
  <2>3. r.src = f
    BY <2>2
  <2> QED
    BY <1>1, <1>4, <2>2, <2>3
<1>6. PICK slugs : slugs = SourceSlugCandidates(u)
  OBVIOUS
<1>7. Candidates(u, lang) = slugs /\ Candidates(u, Null) = slugs
  BY <1>1, <1>2, <1>4, <1>6, CandidateFacts
<1>8. Labelled(slugs, lang) = Exact(u, lang) /\ Labelled(slugs, "") = Unlabelled(u)
  BY <1>7 DEF Exact, Unlabelled
<1>9. f = IF Exact(u, lang) # Null THEN Exact(u, lang) ELSE IF lang = Default THEN Unlabelled(u) ELSE Null
  BY <1>2, <1>3, <1>4, ForLangFacts
<1>10. SourceOfRow(u) = f
  <2>1. SourceOfRow(u) = IF Labelled(slugs, lang) # Null THEN Labelled(slugs, lang)
                         ELSE IF Labelled(slugs, "") # Null THEN Labelled(slugs, "") ELSE OfBundle(slugs)
    BY <1>1, <1>6 DEF SourceOfRow, OrElse
  <2> QED
    BY <1>5, <1>8, <1>9, <2>1
<1>11. f.key = Stripped(u)
  <2>1. KeyFor(u, lang) = Stripped(u) /\ PlainKey(u) = Stripped(u)
    BY <1>1 DEF KeyFor, PlainKey
  <2>2. f.key \in {KeyFor(u, lang), PlainKey(u)}
    BY <1>2, <1>3, <1>4, <1>5, ForLangFacts
  <2> QED
    BY <2>1, <2>2
<1>12. SourceKey(u) = f.key
  <2>1. PICK b : b = OfBundle(slugs)
    OBVIOUS
  <2>2. \E n \in Nat : /\ DOMAIN slugs = 1 .. n /\ \E i \in 1 .. n : slugs[i] = Stripped(u)
                       /\ \A i \in 1 .. n : slugs[i] = Stripped(u) \/ Head(slugs[i]) \in LangCodes
    <3>1. CASE Prefix(u) = Null
      <4>1. slugs = <<u>> /\ Stripped(u) = u
        BY <1>1, <1>2, <1>6, <3>1, SlugFacts
      <4>2. DOMAIN slugs = 1 .. 1 /\ slugs[1] = Stripped(u)
        BY <4>1
      <4>3. 1 \in Nat /\ 1 \in 1 .. 1 /\ \A i \in 1 .. 1 : i = 1
        OBVIOUS
      <4> QED
        BY <4>2, <4>3
    <3>2. CASE Prefix(u) # Null
      <4>1. slugs = <<u, Tail(u)>> /\ Stripped(u) = Tail(u) /\ Head(u) \in LangCodes
        BY <1>2, <1>6, <3>2, SlugFacts
      <4>2. DOMAIN slugs = 1 .. 2 /\ slugs[1] = u /\ slugs[2] = Stripped(u)
        BY <4>1
      <4>3. 2 \in Nat /\ 2 \in 1 .. 2 /\ \A i \in 1 .. 2 : i = 1 \/ i = 2
        OBVIOUS
      <4> QED
        BY <4>1, <4>2, <4>3
    <3> QED
      BY <3>1, <3>2
  <2>3. b # Null
    BY <1>5, <1>11, <2>1, <2>2, OfBundleIs
  <2>4. \E n \in Nat : \E i \in 1 .. n : b \in Written /\ b.key = slugs[i]
                         /\ (slugs[i] = Stripped(u) \/ Head(slugs[i]) \in LangCodes)
    BY <2>1, <2>2, <2>3, OfBundleIs
  <2>5. b.key = Stripped(u)
    BY <2>4 DEF NamesAreTold
  <2> QED
    BY <1>6, <1>11, <2>1, <2>3, <2>5 DEF SourceKey
<1>13. RowState(u) = StateOf(r)
  BY <1>5, <1>10 DEF RowState
<1> QED
  BY <1>5, <1>10, <1>12, <1>13

-----------------------------------------------------------------------------
(* A page whose file still has a revision the build can have read has it.   *)
MadeInv ==
    /\ public.made <= bounds.edits
    /\ \A u \in PagesIn(public.pages) :
          (public.pages[u].by \in Written /\ source[public.pages[u].by].rev <= public.made) =>
              public.pages[u].rev = source[public.pages[u].by].rev

LEMMA PublicMoves ==
  ASSUME StoreTypeOK, StoreNext
  PROVE  \/ \E f \in SourceFiles : Render(f)
         \/ /\ public'.made = public.made
            /\ \A u \in PagesIn(public'.pages) : u \in PagesIn(public.pages) /\ public'.pages[u] = public.pages[u]
<1>1. \/ \E f \in SourceFiles : Render(f)
      \/ public' = public
      \/ \E k \in Keys : \E rows, output \in BOOLEAN : DeleteBundle(k, rows, output)
  BY DEF StoreNext, Build, NewTemplate, BeginBuild, BuildFails, ReloadIndex, Edit, DeleteTranslation,
         ReloadFails, CallbacksSkipped, Fingerprint, FingerprintFails, SyncPages, Prune, PruneFails, CompleteBuild,
         CompleteFails, Crash, Start
<1>2. public \in [pages : RenderedTrees, look : Nat, made : Nat]
  BY DEF StoreTypeOK
<1>3. ASSUME NEW k \in Keys, NEW rows \in BOOLEAN, NEW output \in BOOLEAN, DeleteBundle(k, rows, output)
      PROVE  /\ public'.made = public.made
             /\ \A u \in PagesIn(public'.pages) : u \in PagesIn(public.pages) /\ public'.pages[u] = public.pages[u]
  <2>1. public' = IF output THEN [public EXCEPT !.pages = Without(@, k)] ELSE public
    BY <1>3 DEF DeleteBundle
  <2>2. public'.made = public.made /\ (public'.pages = Without(public.pages, k) \/ public'.pages = public.pages)
    BY <1>2, <2>1
  <2>3. \A u \in Urls : public'.pages[u] \in {Null, public.pages[u]}
    BY <2>2 DEF Without
  <2> QED
    BY <2>2, <2>3 DEF PagesIn
<1> QED
  BY <1>1, <1>3

LEMMA MadeKept ==
  ASSUME StoreTypeOK, MadeInv, StoreNext
  PROVE  MadeInv'
<1>1. public \in [pages : RenderedTrees, look : Nat, made : Nat] /\ TypedSource
      /\ bounds.edits \in Nat /\ bounds'.edits \in Nat /\ bounds'.edits >= bounds.edits
  BY EditsGrow DEF StoreTypeOK, TypedSource
<1>2. \A f \in Written : source[f].rev \in Nat
  BY <1>1, VersionFacts DEF TypedSource
<1>3. ASSUME NEW first \in SourceFiles, Render(first) PROVE MadeInv'
  <2>1. PICK pages : pages = Rendered(first)
    OBVIOUS
  <2>2. source' = source /\ public'.pages = pages /\ public'.made = bounds.edits
    BY <1>3, <2>1 DEF Render
  <2>3. \A u \in PagesIn(pages) : pages[u].by # Null => pages[u].rev = source[pages[u].by].rev
    BY <1>1, <2>1, RenderedPages
  <2>4. \A f \in Written' : f # Null
    BY WrittenAreFiles, FileFacts, <2>2 DEF Written
  <2>5. PagesIn(public'.pages) = PagesIn(pages)
    BY <2>2
  <2>6. ASSUME NEW u \in PagesIn(public'.pages), public'.pages[u].by \in Written'
        PROVE  public'.pages[u].rev = source'[public'.pages[u].by].rev
    BY <2>2, <2>3, <2>4, <2>5, <2>6
  <2>7. public'.made <= bounds'.edits
    BY <1>1, <2>2
  <2> QED
    BY <2>6, <2>7 DEF MadeInv
<1>4. ASSUME public'.made = public.made,
             \A u \in PagesIn(public'.pages) : u \in PagesIn(public.pages) /\ public'.pages[u] = public.pages[u]
      PROVE  MadeInv'
  <2>1. public.made \in Nat /\ public.made <= bounds.edits
    BY <1>1 DEF MadeInv
  <2>2. public'.made <= bounds'.edits
    BY <1>1, <1>4, <2>1
  <2>3. ASSUME NEW u \in PagesIn(public'.pages), NEW f \in Written', f = public'.pages[u].by, source'[f].rev <= public'.made
        PROVE  public'.pages[u].rev = source'[f].rev
    <3>1. u \in PagesIn(public.pages) /\ public.pages[u].by = f /\ public'.pages[u].rev = public.pages[u].rev
      BY <1>4, <2>3
    <3>2. source'[f] = source[f]
      <4>1. SUFFICES ASSUME source'[f] # source[f] PROVE FALSE
        OBVIOUS
      <4>2. source'[f].rev = bounds.edits + 1
        BY <4>1, NewRevision
      <4> QED
        BY <1>1, <1>4, <2>1, <2>3, <4>2
    <3>3. f \in Written
      BY <3>2 DEF Written
    <3> QED
      BY <1>4, <2>3, <3>1, <3>2, <3>3 DEF MadeInv
  <2> QED
    BY <2>2, <2>3 DEF MadeInv
<1> QED
  BY <1>3, <1>4, PublicMoves

(* The state a read tells of a page and its source: fresh only if the page  *)
(* was made from that very text.                                            *)
LEMMA FreshIsTrue ==
  ASSUME NamesAreTold, StoreTypeOK, MadeInv, ~Contested, NEW s \in Requests, NEW lang \in Languages,
         NEW r, r = Resolve(s, lang)
  PROVE  FreshMeansBuilt(r)
<1>1. SUFFICES ASSUME r.pub # Null, r.src # Null, StateOf(r) = "fresh", idx[r.pub] = public.pages[r.pub],
                      SlugTellsLanguage(r.pub), NEW f \in Written, f = idx[r.pub].by, Url(f) = r.pub
               PROVE  f = r.src /\ idx[r.pub].rev = source[r.src].rev
  BY DEF FreshMeansBuilt
<1>2. idx \in RenderedTrees /\ TypedSource /\ public.made \in Nat /\ s \in Seq(STRING)
  BY LangFacts DEF StoreTypeOK, TypedSource
<1>3. PICK u : u = r.pub
  OBVIOUS
<1>4. PICK g : g = r.src
  OBVIOUS
<1>5. u \in PagesIn(idx) /\ g \in Written /\ PageLang(idx, u) = Lang(g) /\ (lang # Null => Lang(g) = lang)
      /\ u # Null /\ g # Null /\ SlugTellsLanguage(u)
  BY <1>1, <1>2, <1>3, <1>4, LanguagesAgree DEF NoLanguageIsBorrowed
<1>6. u = s => PublicSlug(g.key, Lang(g)) = u
  <2>1. SUFFICES ASSUME u = s PROVE PublicSlug(g.key, Lang(g)) = u
    OBVIOUS
  <2>2. PICK l : l = PageLang(idx, u)
    OBVIOUS
  <2>3. PICK h : h = ForLang(u, l)
    OBVIOUS
  <2>4. ResolveImplicit(u) = [pub |-> u, src |-> h] /\ Resolve(u, l) = [pub |-> u, src |-> h]
        /\ (h # Null => Lang(h) = l /\ PublicSlug(h.key, l) = u)
    BY <1>2, <1>5, <2>2, <2>3, EitherWay
  <2>5. r = [pub |-> u, src |-> h]
    BY <1>5, <2>1, <2>2, <2>4 DEF Resolve
  <2> QED
    BY <1>4, <1>5, <2>4, <2>5
<1>7. PublicSlug(g.key, Lang(g)) = u
  <2>1. CASE lang = Null
    <3>1. r = ResolveImplicit(s)
      BY <2>1 DEF Resolve
    <3>2. s \in PagesIn(idx)
      BY <1>2, <1>3, <1>5, <3>1, ImplicitFacts
    <3>3. u = s
      BY <1>2, <1>3, <3>1, <3>2, ImplicitFacts
    <3> QED
      BY <1>6, <3>3
  <2>2. CASE lang # Null
    <3>1. r = ResolveWithLang(s, lang) /\ lang \in LangCodes
      BY <2>2 DEF Resolve, Languages
    <3>2. u \in {s, PublicSlug(g.key, lang)}
      BY <1>2, <1>3, <1>4, <1>5, <3>1, WithLangFacts
    <3> QED
      BY <1>5, <1>6, <2>2, <3>2
  <2> QED
    BY <2>1, <2>2
<1>8. f = g
  <2>1. u \in Asked(f)
    BY <1>1, <1>2, <1>3, AskedFacts
  <2>2. u \in Asked(g)
    BY <1>2, <1>5, <1>7, AskedFacts
  <2> QED
    BY <1>5, <2>1, <2>2 DEF Contested
<1>9. public.pages[u] = idx[u] /\ public.pages[u] # Null /\ u \in PagesIn(public.pages)
  BY <1>1, <1>3, <1>5 DEF PagesIn
<1>10. source[g].rev <= public.made
  <2>1. ~SourceNewer(g, u)
    BY <1>1, <1>3, <1>4, <1>5 DEF StateOf
  <2>2. source[g].rev \in Nat
    BY <1>2, <1>5, VersionFacts DEF TypedSource
  <2> QED
    BY <1>2, <1>9, <2>1, <2>2 DEF SourceNewer
<1>11. idx[u].rev = source[g].rev
  BY <1>1, <1>3, <1>8, <1>9, <1>10 DEF MadeInv
<1> QED
  BY <1>3, <1>4, <1>8, <1>11

(* After an undisturbed build the index is what Hugo makes of the files.    *)
LEMMA SettledIndex ==
  ASSUME StoreInv, calm.builds > 0, step = "idle", up, ~Contested
  PROVE  /\ idx \in RenderedTrees /\ TypedSource
         /\ \A f \in Written : ~source[f].draft => Url(f) \in PagesIn(idx) /\ idx[Url(f)].by = f
         /\ \A u \in PagesIn(idx) : idx[u].by # Null =>
              idx[u].by \in Written /\ ~source[idx[u].by].draft /\ Url(idx[u].by) = u
         /\ \A u \in PagesIn(idx) : idx[u].by = Null => u \in Generated
<1>1. TreeInv /\ TypedSource /\ idx \in RenderedTrees
  BY DEF StoreInv, StoreTypeOK, TypedSource
<1>2. PICK first \in SourceFiles : idx = Rendered(first)
  BY <1>1 DEF TreeInv, Rebuilt, Reindexed
<1>3. \A f \in Written : ~source[f].draft => Url(f) \in PagesIn(idx) /\ idx[Url(f)].by = f
  BY <1>1, <1>2, RenderedAlone
<1>4. \A u \in PagesIn(idx) : IF idx[u].by = Null THEN u \in Generated ELSE idx[u].by \in Renders(u)
  BY <1>1, <1>2, RenderedPages
<1> QED
  BY <1>1, <1>3, <1>4 DEF Renders

LEMMA NothingMissing ==
  ASSUME StoreInv, NamesAreTold, calm.builds > 0, step = "idle", up, ~Contested
  PROVE  MissingPublic = {}
<1>1. SUFFICES ASSUME NEW f \in Written, ~IsIndex(f.key), ~source[f].draft, ~HasPublicOutput(f) PROVE FALSE
  BY DEF MissingPublic, ExpectedInPublic
<1>2. PICK u : u = Url(f)
  OBVIOUS
<1>3. idx \in RenderedTrees /\ u \in PagesIn(idx) /\ idx[u].by = f
  BY <1>1, <1>2, SettledIndex
<1>4. /\ f \in SourceFiles /\ f # Null /\ f.key \in Seq(STRING) /\ f.key # <<>> /\ f.label \in LangCodes \cup {""}
      /\ f.key \in Requests
  BY WrittenAreFiles, FileFacts, DerivedStoreAssumption DEF Requests
<1>5. Public(u) = u /\ u # Null /\ PageLang(idx, u) = Lang(f)
  BY <1>3, <1>4, PublicFactsOf DEF PageLang
<1>6. CASE source[f].url # Null
  <2>1. u = source[f].url
    BY <1>2, <1>6 DEF Url
  <2>2. f.label = "" \/ Lang(f) = f.label
    BY DEF Lang
  <2> QED
    BY <1>1, <1>5, <1>6, <2>1, <2>2 DEF HasPublicOutput
<1>7. CASE source[f].url = Null
  <2>1. u = PublicSlug(f.key, Lang(f)) /\ Trimmed(f.key) = f.key
    BY <1>1, <1>2, <1>7 DEF Url, Trimmed
  <2>2. CASE f.label = ""
    <3>1. u = f.key
      BY <2>1, <2>2 DEF PublicSlug, Lang
    <3>2. PICK h : h = ForLang(u, PageLang(idx, u))
      OBVIOUS
    <3>3. ResolveImplicit(u) = [pub |-> u, src |-> h]
      BY <1>3, <1>4, <3>1, <3>2, ImplicitFacts
    <3>4. Resolve(f.key, Null).pub # Null
      BY <1>5, <3>1, <3>3 DEF Resolve
    <3> QED
      BY <1>1, <2>2, <3>4 DEF HasPublicOutput, HasOwnOutput
  <2>3. CASE f.label # ""
    <3>1. PICK lang : lang = f.label
      OBVIOUS
    <3>2. lang \in LangCodes /\ lang # Null /\ Lang(f) = lang
      BY <1>4, <2>3, <3>1, LangFacts DEF Lang
    <3>3. Head(f.key) \notin LangCodes
      BY DEF NamesAreTold
    <3>4. Prefix(f.key) = Null /\ Stripped(f.key) = f.key
      BY <1>4, <3>3, SlugFacts
    <3>5. f.key # <<lang>>
      <4>1. Head(<<lang>>) = lang
        BY OneFacts
      <4> QED
        BY <3>2, <3>3, <4>1
    <3>6. KeyFor(f.key, lang) = f.key
      BY <1>4, <3>4, <3>5 DEF KeyFor
    <3>7. PICK k \in Seq(STRING) : k = f.key
      BY <1>4
    <3>8. ForLang(k, lang) = f /\ Prefix(k) = Null /\ k # <<>> /\ u = PublicSlug(k, lang)
      BY <1>4, <2>1, <3>1, <3>2, <3>4, <3>6, <3>7, ForLangFacts
    <3>9. PICK r : r = ResolveWithLang(k, lang)
      OBVIOUS
    <3>10. r.src = f
      BY <1>3, <3>2, <3>8, <3>9, WithLangFacts
    <3>11. r.src # Null /\ r.src.key # <<>> /\ u = PublicSlug(r.src.key, lang) /\ PageLang(idx, u) = lang
      BY <1>4, <1>5, <3>2, <3>7, <3>8, <3>10
    <3>12. r.pub = u
      BY <1>3, <3>2, <3>8, <3>9, <3>11, WithLangFacts
    <3>13. Resolve(f.key, lang).pub # Null
      BY <1>5, <3>2, <3>7, <3>9, <3>12 DEF Resolve
    <3> QED
      BY <1>1, <2>3, <3>1, <3>13 DEF HasPublicOutput, HasOwnOutput
  <2> QED
    BY <2>2, <2>3
<1> QED
  BY <1>6, <1>7

(* The pages that count as content and the files that ought to be pages are *)
(* one another's.                                                           *)
LEMMA CountsAgree ==
  ASSUME StoreInv, NamesAreTold
  PROVE  CountsAddUp
<1>1. SUFFICES ASSUME calm.builds > 0, step = "idle", up, ~Contested, Generated = {},
                      \A f \in Written : IsContent(Url(f)) <=> ~IsIndex(f.key)
               PROVE  /\ SiteHealth("succeeded").published = SiteHealth("succeeded").publishable
                      /\ SiteHealth("succeeded").status = "healthy" <=> BrokenLinks = {}
  BY DEF CountsAddUp
<1>2. /\ idx \in RenderedTrees /\ TypedSource
      /\ \A f \in Written : ~source[f].draft => Url(f) \in PagesIn(idx) /\ idx[Url(f)].by = f
      /\ \A u \in PagesIn(idx) : idx[u].by \in Written /\ ~source[idx[u].by].draft /\ Url(idx[u].by) = u
  BY <1>1, SettledIndex
<1>3. Listed = PagesIn(idx)
  BY DEF Listed, PagesIn
<1>4. PICK g : g = [f \in Publishable |-> Url(f)]
  OBVIOUS
<1>5. \A f \in Publishable : f \in Written /\ ~source[f].draft /\ ~IsIndex(f.key)
  BY DEF Publishable, ExpectedInPublic
<1>6. \A f \in Publishable : Url(f) \in PublishedPages
  BY <1>1, <1>2, <1>3, <1>5 DEF PublishedPages
<1>7. \A e, f \in Publishable : Url(e) = Url(f) => e = f
  BY <1>1, <1>2, <1>5, AloneFacts
<1>8. ASSUME NEW u \in PublishedPages PROVE \E f \in Publishable : Url(f) = u
  <2>1. u \in PagesIn(idx) /\ IsContent(u)
    BY <1>3 DEF PublishedPages
  <2>2. PICK f : f = idx[u].by
    OBVIOUS
  <2>3. f \in Written /\ ~source[f].draft /\ Url(f) = u
    BY <1>2, <2>1, <2>2
  <2> QED
    BY <1>1, <2>1, <2>3 DEF Publishable, ExpectedInPublic
<1>9. ExistsBijection(Publishable, PublishedPages)
  <2>1. g \in [Publishable -> PublishedPages]
    BY <1>4, <1>6
  <2>2. \A e, f \in Publishable : g[e] = g[f] => e = f
    BY <1>4, <1>7
  <2>3. \A u \in PublishedPages : \E f \in Publishable : g[f] = u
    BY <1>4, <1>8
  <2>4. g \in Injection(Publishable, PublishedPages)
    BY <2>1, <2>2 DEF Injection, IsInjective
  <2>5. g \in Surjection(Publishable, PublishedPages)
    BY <2>1, <2>3 DEF Surjection
  <2> QED
    BY <2>4, <2>5 DEF ExistsBijection, Bijection
<1>10. IsFiniteSet(Publishable)
  <2>1. Publishable \subseteq SourceFiles
    BY <1>5, WrittenAreFiles
  <2> QED
    BY <2>1, DerivedStoreAssumption, FS_Subset
<1>11. Cardinality(PublishedPages) = Cardinality(Publishable)
  BY <1>9, <1>10, FS_Bijection
<1>12. MissingPublic = {}
  BY <1>1, NothingMissing
<1>13. SiteHealth("succeeded").status = IF BrokenLinks = {} THEN "healthy" ELSE "degraded"
  BY <1>12 DEF SiteHealth, RuntimeDegraded, ContentStatus
<1> QED
  BY <1>11, <1>13 DEF SiteHealth

LEMMA MadeStarts == StoreInit => MadeInv
<1>1. SUFFICES ASSUME StoreInit PROVE MadeInv
  OBVIOUS
<1>2. public.pages = NoPages /\ public.made = 0 /\ bounds.edits = 1
  BY <1>1 DEF StoreInit
<1>3. PagesIn(public.pages) = {}
  BY <1>2 DEF PagesIn, NoPages
<1> QED
  BY <1>2, <1>3 DEF MadeInv

(* Whatever is edited or fails between two builds, a public page has the    *)
(* revision of its file if that is old enough to have been read by the      *)
(* build: what StateForResolvedPage takes the times of the two files for.   *)
THEOREM PagesTellTheirSource == StoreSpec => []MadeInv
<1>1. MadeInv /\ UNCHANGED storeVars => MadeInv'
  BY DEF MadeInv, storeVars, PagesIn, Written
<1>2. StoreInv /\ MadeInv /\ [StoreNext]_storeVars => MadeInv'
  BY <1>1, MadeKept DEF StoreInv
<1> QED
  BY <1>2, MadeStarts, StoreInvariant, PTL DEF StoreSpec

(* Whatever the files and their texts, whatever has failed or crashed: what *)
(* the read tools answer is true of the site (PageResolver, newSourceLookup *)
(* and get_site_health).                                                    *)
THEOREM ReadsStayTrue == StoreSpec => []ReadsAreTrue
<1>1. ASSUME StoreInv, MadeInv PROVE ReadsAreTrue
  <2>1. SUFFICES ASSUME NamesAreTold
                 PROVE  ResolutionsAreTrue /\ HealthIsComplete /\ ListedPagesOpen /\ RowsMatchPages /\ CountsAddUp
    BY DEF ReadsAreTrue
  <2>2. StoreTypeOK /\ idx \in RenderedTrees
    BY <1>1 DEF StoreInv, StoreTypeOK
  <2>3. ResolutionsAreTrue
    <3>1. ASSUME NEW s \in Requests, NEW lang \in Languages, NEW r, r = Resolve(s, lang)
          PROVE  /\ NoLanguageIsBorrowed(r, lang) /\ QualityIsOfTheShownFile(r, s, lang)
                 /\ Contested \/ FreshMeansBuilt(r)
      BY <1>1, <2>1, <2>2, <3>1, LanguagesAgree, QualityAgrees, FreshIsTrue
    <3> QED
      BY <3>1 DEF ResolutionsAreTrue
  <2>4. HealthIsComplete
    BY <1>1, <2>1, NothingMissing DEF HealthIsComplete
  <2> QED
    BY <1>1, <2>1, <2>2, <2>3, <2>4, PagesOpen, RowsAgree, CountsAgree
<1> QED
  BY <1>1, StoreInvariant, PagesTellTheirSource, PTL
=============================================================================

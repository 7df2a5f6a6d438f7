----------------------- MODULE BuildPublishInvariant ------------------------
(***************************************************************************)
(* The inductive invariant of BuildPublish that carries mutual exclusion   *)
(* of builds, the stability of what they swap in and the survival of the   *)
(* old tree. TLC checks it on the small instance; BuildPublishProofs       *)
(* proves it for every instance.                                           *)
(***************************************************************************)
EXTENDS BuildPublish

\* Where a call holds the content lock, and where it knows the source revision.
Locked   == {"prepare", "hash", "render", "swapout", "swapin", "cleanup", "callbacks", "complete"}
Hashed   == {"render", "swapout", "swapin"}

\* The content lock is held exactly by the call inside its build.
LockInv == \A a \in Agents : pc[a] \in Locked <=> lock = a

\* Nothing is newer than the last write.
ClockInv ==
  /\ \A p \in Pages : disk[p].n <= writes
  /\ \A a \in Agents, p \in Pages : loc[a].rev[p].n <= writes

\* A rendered page is the one that was hashed, or the source is already seen to differ.
RenderInv == \A a \in Agents : pc[a] = "render" =>
  \A p \in Pages \ loc[a].todo : loc[a].out[p] = loc[a].rev[p] \/ disk[p] # loc[a].rev[p]

\* What the caller expected is what the build works from.
ExpectInv == \A a \in Agents :
  /\ pc[a] \in Hashed => loc[a].want \in {NoTree, loc[a].rev}
  /\ pc[a] \in {"render", "swapout"} => loc[a].wantPublic \in {NoTree, public}
  /\ pc[a] = "swapin" /\ loc[a].wantPublic # NoTree =>
       loc[a].hadOld /\ backup = loc[a].wantPublic

\* The swap has a tree to fall back on until the new one is in place.
SwapInv == \A a \in Agents :
  /\ pc[a] = "swapin" => backup # NoTree \/ ~loc[a].hadOld
  /\ pc[a] = "cleanup" => public # NoTree

Core ==
  /\ LockInv /\ ClockInv /\ RenderInv /\ ExpectInv /\ SwapInv
  /\ PromotedIsStable /\ PublishesWhatWasRead /\ OldTreeRetained
BInv == TypeOK /\ Core

---------------------------------------------------------------------------
\* The parts that carry GuardedPublication and PublishedMeansLive.

\* The tree the site is served from, or will be again when the swap is undone.
Live == IF public # NoTree THEN public ELSE backup

\* Where a call has been let through by the guard and has not hashed, and where
\* its own output is installed.
Admitted  == {"lock", "prepare", "hash"}
Installed == {"cleanup", "callbacks", "complete", "poll", "confirm"}

\* A page an agent wrote last is marked and attributed, or known to have lost
\* that, or live.
MarkInv == \A p \in Pages : disk[p].by \in Agents =>
  \/ p \in pending /\ owner[p] = disk[p].by
  \/ p \in unguarded
  \/ Live[p] = disk[p]

\* Nothing in the tree is news to a call at `label` with locals `l`, but what it
\* acknowledged or is excused for; while it judges, what it will still refuse.
News(t, l)    == {p \in Pages : t[p].by \in Agents \ l.ack /\ Live[p] # t[p] /\ p \notin l.excused}
Vetted(label, l) ==
  /\ label = "judge" =>
       \A p \in Pages : disk[p].by \in Agents =>
         p \in l.excused \/ Live[p] = disk[p] \/ (p \in l.saw /\ owner[p] = disk[p].by)
  /\ label \in Admitted => News(disk, l) = {}
  /\ label \in Hashed => News(l.rev, l) = {}

\* While a call holds the lock only the author can have changed what it hashed,
\* and from the first rename to the second there is no public tree.
HeldStill(label, l) ==
  /\ label \in Hashed => \A p \in Pages : disk[p] = l.rev[p] \/ disk[p].by = Author
  /\ label = "swapin" => public = NoTree

\* A page that is still as a call built it is live in that version, and what
\* another build has hashed since has it too.
Current(label, l) ==
  label \in Installed /\ failures = 0 /\ public # NoTree =>
    \A p \in Pages : disk[p] = l.rev[p] => public[p] = disk[p]
KeptCurrent == \A a, b \in Agents : pc[a] \in Installed /\ pc[b] \in Hashed =>
  \A p \in Pages : disk[p] = loc[a].rev[p] => loc[b].rev[p] = disk[p]

GuardInv ==
  /\ MarkInv /\ KeptCurrent
  /\ \A a \in Agents : /\ Vetted(pc[a], loc[a]) /\ HeldStill(pc[a], loc[a])
                         /\ Current(pc[a], loc[a])
GInv == BInv /\ GuardInv
=============================================================================

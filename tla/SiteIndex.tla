------------------------------ MODULE SiteIndex ------------------------------
(***************************************************************************)
(* site.Index, the server's picture of the rendered site.  One mutator at  *)
(* a time (build_site, update_page, delete_page: they hold ContentMu)      *)
(* reloads or edits it; read tools look pages up, ask for backlinks and    *)
(* ask whether the rendered files changed behind the index's back.  Those  *)
(* two answers are cached, each behind a mutex of its own that is not the  *)
(* index's, so a mutation is published in several steps.                   *)
(*                                                                         *)
(* A rendered file stands for its own slug, the slug its canonical link    *)
(* names, the slugs it links to and its modification time.                 *)
(***************************************************************************)
EXTENDS Integers, Sequences, FiniteSets, SequencesExt

CONSTANTS Slugs,        \* a set of numbers: slugs are compared when dates are equal
          Lists,        \* slugs of section and taxonomy pages
          Files,        \* rendered HTML files, numbered in the order of WalkDir
          Own,          \* Own[f]: slugFromRel
          Bodies,       \* what a file can hold: records of canon and links
          Readers,
          None,
          MaxEntries,   \* cfg.MaxIndexEntries
          Interval,     \* staleCheckInterval
          MaxClock      \* bound on the clock; a change of the files takes one tick

ASSUME SiteIndexAssumption ==
    /\ Slugs \subseteq Nat /\ Lists \subseteq Slugs
    /\ Files \subseteq Nat /\ IsFiniteSet(Files) /\ Own \in [Files -> Slugs]
    /\ Bodies \subseteq [canon : Slugs, links : SUBSET Slugs]
    /\ None \notin Readers
    /\ MaxEntries \in Nat \ {0} /\ Interval \in Nat \ {0} /\ MaxClock \in Nat

VARIABLES disk,      \* the rendered files
          index,     \* entries, bySlug, aliasSlugs, builtAt; what was read, what was removed since (history)
          mutator,   \* the step the holder of ContentMu is at, and its unfinished scan
          backlinks, \* backlinkCache: the reverse map or None, and who holds its mutex
          staleness, \* staleCache: answer, when, for which index (history), and its mutex
          reader,    \* what each read tool has in its hands
          clock

vars == <<disk, index, mutator, backlinks, staleness, reader, clock>>

-----------------------------------------------------------------------------
(* The walk *)

Content(s) == s \notin Lists

Walk == CHOOSE w \in [1 .. Cardinality(Files) -> Files] :
            \A i, j \in DOMAIN w : i < j => w[i] < w[j]

Blank(now) == [entries |-> <<>>, aliases |-> <<>>, squat |-> {}, read |-> <<>>, at |-> now]

Position(entries, s) == {i \in DOMAIN entries : entries[i].slug = s}

(* A page as parseHTMLPage returns it. *)
Page(f, d) == [slug |-> d.canon, file |-> f, links |-> d.links, date |-> d.at, title |-> 0]

(* aliasSlugs: the slug a file has by its path leads to the canonical one. *)
Alias(aliases, f, s) == [a \in DOMAIN aliases \cup {Own[f]} |-> IF a = Own[f] THEN s ELSE aliases[a]]

(* An alias never displaces the page that holds its target's slot, a page  *)
(* displaces only an alias: the first of two owners keeps the slot.        *)
Demote(scan, f, d) ==
    LET i == CHOOSE i \in Position(scan.entries, d.canon) : TRUE
    IN [scan EXCEPT !.entries[i] = Page(f, d),
                    !.aliases = Alias(@, scan.entries[i].file, d.canon),
                    !.squat = @ \ {d.canon}]

Add(scan, f, d) ==
    [scan EXCEPT !.entries = Append(@, Page(f, d)),
                 !.squat = IF Own[f] = d.canon THEN @ ELSE @ \cup {d.canon}]

Placed(scan, f, d) ==
    CASE Position(scan.entries, d.canon) = {} -> Add(scan, f, d)
      [] Own[f] = d.canon /\ d.canon \in scan.squat -> Demote(scan, f, d)
      [] OTHER -> scan

KnownIfPlaced(scan, f, d) ==
    IF Own[f] # d.canon /\ \E i \in DOMAIN scan.entries : scan.entries[i].file = f
    THEN [scan EXCEPT !.aliases = Alias(@, f, d.canon)] ELSE scan

Known(scan, f, d) ==
    IF Own[f] = d.canon THEN scan
    ELSE [scan EXCEPT !.aliases = Alias(@, f, d.canon)]

Visit(scan, f) ==
    LET seen == [scan EXCEPT !.read = Append(@, disk[f])]
    IN IF disk[f] = None THEN seen ELSE Known(Placed(seen, f, disk[f]), f, disk[f])

(* The limit is tested before the file is read, so that an index which is  *)
(* full fails on a file that would not have added an entry.                *)
Full(scan, f) == disk[f] # None /\ Len(scan.entries) >= MaxEntries

(* Newest first, slugs break ties; bySlug is made anew after the sort. *)
Before(p, q) == p.date > q.date \/ (p.date = q.date /\ p.slug < q.slug)

Sorted(entries) ==
    LET order == CHOOSE p \in [DOMAIN entries -> DOMAIN entries] :
                    \A i, j \in DOMAIN entries : i < j => Before(entries[p[i]], entries[p[j]])
    IN [i \in DOMAIN entries |-> entries[order[i]]]

Numbered(entries) == [s \in {entries[i].slug : i \in DOMAIN entries} |->
                        CHOOSE i \in DOMAIN entries : entries[i].slug = s]

Finished(scan) ==
    LET sorted == Sorted(scan.entries)
    IN [entries |-> sorted, bySlug |-> Numbered(sorted), aliases |-> scan.aliases,
        builtAt |-> scan.at, read |-> scan.read, gone |-> {}]

-----------------------------------------------------------------------------
Idle == [pc |-> "idle", scan |-> Blank(0)]
AtRest == [pc |-> "idle", todo |-> {}, found |-> {}, basis |-> 0, changed |-> FALSE]

(* What the walk has found after k files, if none of them changes meanwhile. *)
Walked[k \in 0 .. Len(Walk)] == IF k = 0 THEN Blank(1) ELSE Visit(Walked[k - 1], Walk[k])

Init ==
    /\ clock = 1
    /\ disk \in [Files -> {None} \cup [canon : {b.canon : b \in Bodies},
                                       links : {b.links : b \in Bodies}, at : {1}]]
    /\ \A f \in Files : disk[f] # None => [canon |-> disk[f].canon, links |-> disk[f].links] \in Bodies
    /\ index = Finished(Walked[Len(Walk)])
    /\ \A k \in DOMAIN Walk : ~Full(Walked[k - 1], Walk[k])
    /\ mutator = Idle
    /\ backlinks = [map |-> None, by |-> None]
    /\ staleness = [at |-> 0, stale |-> FALSE, basis |-> 0, by |-> None]
    /\ reader = [r \in Readers |-> AtRest]

(* Hugo, an editor or a copy changes the rendered files at any time. *)
Write(f, b) ==
    /\ clock < MaxClock
    /\ clock' = clock + 1
    /\ disk' = [disk EXCEPT ![f] = [canon |-> b.canon, links |-> b.links, at |-> clock']]
    /\ UNCHANGED <<index, mutator, backlinks, staleness, reader>>

Unlink(f) ==
    /\ disk[f] # None
    /\ clock < MaxClock
    /\ clock' = clock + 1
    /\ disk' = [disk EXCEPT ![f] = None]
    /\ UNCHANGED <<index, mutator, backlinks, staleness, reader>>

Pass ==
    /\ clock < MaxClock
    /\ clock' = clock + 1
    /\ UNCHANGED <<disk, index, mutator, backlinks, staleness, reader>>

-----------------------------------------------------------------------------
(* Mutators *)

StartReload ==
    /\ mutator.pc = "idle"
    /\ mutator' = [pc |-> "scan", scan |-> Blank(clock)]
    /\ UNCHANGED <<disk, index, backlinks, staleness, reader, clock>>

ScanFile ==
    /\ mutator.pc = "scan" /\ Len(mutator.scan.read) < Len(Walk)
    /\ LET f == Walk[Len(mutator.scan.read) + 1]
       IN mutator' = IF Full(mutator.scan, f) THEN Idle
                          ELSE [mutator EXCEPT !.scan = Visit(@, f)]
    /\ UNCHANGED <<disk, index, backlinks, staleness, reader, clock>>

SwapIn ==
    /\ mutator.pc = "scan" /\ Len(mutator.scan.read) = Len(Walk)
    /\ index' = Finished(mutator.scan)
    /\ mutator' = [Idle EXCEPT !.pc = "evict reload"]
    /\ UNCHANGED <<disk, backlinks, staleness, reader, clock>>

(* update_page: the page found by its slug is put back with another title. *)
UpsertPage(s) ==
    /\ mutator.pc = "idle"
    /\ s \in DOMAIN index.bySlug
    /\ index.entries[index.bySlug[s]].title = 0
    /\ index' = [index EXCEPT !.entries[index.bySlug[s]].title = 1]
    /\ mutator' = [Idle EXCEPT !.pc = "evict edit"]
    /\ UNCHANGED <<disk, backlinks, staleness, reader, clock>>

(* Entries behind the removed one move up and are numbered again. *)
Renumbered(bySlug, entries, s, pos) ==
    [t \in DOMAIN bySlug \ {s} |->
        IF \E i \in pos .. Len(entries) : entries[i].slug = t
        THEN CHOOSE i \in pos .. Len(entries) : entries[i].slug = t
        ELSE bySlug[t]]

RemoveBySlug(s) ==
    /\ mutator.pc = "idle"
    /\ s \in DOMAIN index.bySlug
    /\ LET pos == index.bySlug[s]
           left == RemoveAt(index.entries, pos)
       IN index' = [index EXCEPT !.entries = left,
                                 !.bySlug = Renumbered(@, left, s, pos),
                                 !.gone = @ \cup {s}]
    /\ mutator' = [Idle EXCEPT !.pc = "evict edit"]
    /\ UNCHANGED <<disk, backlinks, staleness, reader, clock>>

(* The reverse map is dropped after the index is unlocked, once no reader is building it. *)
Evicting == mutator.pc \in {"evict reload", "evict edit"}

Evictable == Evicting /\ backlinks.by = None

Invalidate ==
    /\ Evictable
    /\ backlinks' = [backlinks EXCEPT !.map = None]
    /\ mutator' = [mutator EXCEPT !.pc = IF @ = "evict reload" THEN "reset" ELSE "idle"]
    /\ UNCHANGED <<disk, index, staleness, reader, clock>>

Reloaded == mutator.pc = "reset"

Resettable == mutator.pc = "reset" /\ staleness.by = None

ResetStaleness ==
    /\ Resettable
    /\ staleness' = [staleness EXCEPT !.at = 0]
    /\ mutator' = Idle
    /\ UNCHANGED <<disk, index, backlinks, reader, clock>>

-----------------------------------------------------------------------------
(* GetBacklinks *)

(* Whoever finds no map builds it while it holds the cache's mutex. *)
AskBacklinks(r) ==
    /\ reader[r].pc = "idle"
    /\ backlinks.by = None
    /\ backlinks.map = None
    /\ backlinks' = [backlinks EXCEPT !.by = r]
    /\ reader' = [reader EXCEPT ![r].pc = "pages"]
    /\ UNCHANGED <<disk, index, mutator, staleness, clock>>

LinksOf(e) == {[from |-> e.slug, title |-> e.title, to |-> t] : t \in e.links \ {e.slug}}

Outgoing(entries) ==
    UNION {LinksOf(entries[i]) : i \in {j \in DOMAIN entries : Content(entries[j].slug)}}

(* The content pages are copied under the index's lock ... *)
ReadPages(r) ==
    /\ reader[r].pc = "pages"
    /\ reader' = [reader EXCEPT ![r].pc = "resolve", ![r].todo = Outgoing(index.entries)]
    /\ UNCHANGED <<disk, index, mutator, backlinks, staleness, clock>>

Resolves(bySlug, t) == t \in DOMAIN bySlug /\ Content(t)

(* ... and each link is looked up in the index as it is then. *)
ResolveLink(r, l) ==
    /\ reader[r].pc = "resolve" /\ l \in reader[r].todo
    /\ reader' = [reader EXCEPT ![r].todo = @ \ {l},
                                ![r].found = IF Resolves(index.bySlug, l.to) THEN @ \cup {l} ELSE @]
    /\ UNCHANGED <<disk, index, mutator, backlinks, staleness, clock>>

StoreMap(r) ==
    /\ reader[r].pc = "resolve" /\ reader[r].todo = {}
    /\ backlinks' = [map |-> reader[r].found, by |-> None]
    /\ reader' = [reader EXCEPT ![r] = AtRest]
    /\ UNCHANGED <<disk, index, mutator, staleness, clock>>

-----------------------------------------------------------------------------
(* StaleAgainstDisk *)

Rechecked(now) == staleness.at = 0 \/ now - staleness.at >= Interval

AskStaleness(r) ==
    /\ reader[r].pc = "idle"
    /\ staleness.by = None
    /\ Rechecked(clock)
    /\ staleness' = [staleness EXCEPT !.by = r]
    /\ reader' = [reader EXCEPT ![r].pc = "walk", ![r].basis = index.builtAt]
    /\ UNCHANGED <<disk, index, mutator, backlinks, clock>>

WalkTimes(r) ==
    /\ reader[r].pc = "walk"
    /\ reader' = [reader EXCEPT ![r].pc = "answer",
                    ![r].changed = \E f \in Files : disk[f] # None /\ disk[f].at > reader[r].basis]
    /\ UNCHANGED <<disk, index, mutator, backlinks, staleness, clock>>

StoreStaleness(r) ==
    /\ reader[r].pc = "answer"
    /\ staleness' = [at |-> clock, stale |-> reader[r].changed, basis |-> reader[r].basis, by |-> None]
    /\ reader' = [reader EXCEPT ![r] = AtRest]
    /\ UNCHANGED <<disk, index, mutator, backlinks, clock>>

-----------------------------------------------------------------------------
Mutate ==
    \/ StartReload \/ ScanFile \/ SwapIn \/ Invalidate \/ ResetStaleness
    \/ \E s \in Slugs : UpsertPage(s) \/ RemoveBySlug(s)

Ask(r) ==
    \/ AskBacklinks(r) \/ ReadPages(r) \/ StoreMap(r)
    \/ \E l \in reader[r].todo : ResolveLink(r, l)
    \/ AskStaleness(r) \/ WalkTimes(r) \/ StoreStaleness(r)

Next ==
    \/ Pass
    \/ \E f \in Files : Unlink(f) \/ \E b \in Bodies : Write(f, b)
    \/ Mutate
    \/ \E r \in Readers : Ask(r)

Spec == Init /\ [][Next]_vars

-----------------------------------------------------------------------------
(* A slug looked up finds the entry of that slug, and every entry is found: *)
(* delete_page shifts the entries behind the deleted one and the positions  *)
(* bySlug holds with them.                                                  *)
LookupsAgree ==
    /\ DOMAIN index.bySlug = {index.entries[i].slug : i \in DOMAIN index.entries}
    /\ \A s \in DOMAIN index.bySlug :
        index.bySlug[s] \in DOMAIN index.entries /\ index.entries[index.bySlug[s]].slug = s

Read(f) == index.read[CHOOSE k \in DOMAIN Walk : Walk[k] = f]
Claims(s) == {f \in Files : Read(f) # None /\ Read(f).canon = s}
Owners(s) == {f \in Claims(s) : Own[f] = s}
First(S) == CHOOSE f \in S : \A g \in S : f <= g

(* Whatever the order of the walk and however many files name a slug as     *)
(* their canonical one, the slot goes to the first file that owns it, and   *)
(* to an alias only when no file does.                                      *)
SlotsGoToOwners ==
    \A s \in DOMAIN index.bySlug :
        index.entries[index.bySlug[s]].file =
            IF Owners(s) # {} THEN First(Owners(s)) ELSE First(Claims(s))

(* Every file the walk read answers at its own URL, as a page or as an      *)
(* alias, unless the page was deleted since: get_broken_links reports no    *)
(* link to it as missing.                                                   *)
NoFalseMissing ==
    \A f \in Files :
        Read(f) # None =>
            Own[f] \in DOMAIN index.bySlug \cup DOMAIN index.aliases \cup index.gone

(* Between mutations a reverse map in the cache is the one the index now    *)
(* gives, however the reader that built it interleaved with the mutators.   *)
BacklinksAreCurrent ==
    (backlinks.map # None /\ ~Evicting) =>
        backlinks.map = {l \in Outgoing(index.entries) : Resolves(index.bySlug, l.to)}

(* A file written after the walk read it is newer than the index, so that   *)
(* the walk of StaleAgainstDisk notices it.                                 *)
EditsAreNewer ==
    \A f \in Files :
        (disk[f] # None /\ disk[f] # Read(f)) => disk[f].at > index.builtAt

(* An answer that is served from staleCache is about the index that serves  *)
(* it: a check that read the old index's time cannot outlive a reload.      *)
StalenessIsCurrent ==
    (staleness.at # 0 /\ mutator.pc \notin {"evict reload", "reset"}) =>
        staleness.basis = index.builtAt
(* Whatever the order of the walk, the aliases, and the pages edited and    *)
(* deleted since: a slug leads to the page that owns it, and the URL of a   *)
(* file that was read leads somewhere.                                      *)
SlugsFindTheirPages == LookupsAgree /\ SlotsGoToOwners /\ NoFalseMissing

(* StaleAgainstDisk tells of every edit since the index was read: the file  *)
(* is newer, and no answer about an earlier index is served.                *)
EditsAreNoticed == EditsAreNewer /\ StalenessIsCurrent
=============================================================================

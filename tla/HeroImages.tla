----------------------------- MODULE HeroImages -----------------------------
(***************************************************************************)
(* The hero image of a page, static/images/<slug>-featured.jpg.  It lies   *)
(* outside the bundle: generate_hero_image writes it without the content   *)
(* lock, drawing it here (local) or fetching it (api); delete_page_asset   *)
(* with scope "generated" and delete_page remove it under the lock; and    *)
(* get_storage_health names the one whose page is gone.                    *)
(*                                                                         *)
(* A file is an inode that the path may be linked to.  Each generation     *)
(* makes at most one, and names it.                                        *)
(***************************************************************************)
EXTENDS AssetUploads

CONSTANTS Gens,      \* calls of generate_hero_image
          Large,     \* those answered with more than maxImageBytes in api mode
          HeroName   \* how a page's text mentions the image

Stages == {"empty", "whole", "cut", "mixed", "torn"}
Drawn == [of : Gens \cup {None}, as : Stages]

ASSUME HeroAssumption ==
    /\ HeroName \notin Names /\ Large \subseteq Gens /\ Gens \cap {None, Absent} = {}
    /\ Absent \notin [links : SUBSET {HeroName}] \cup Drawn

VARIABLES scene,    \* what a behaviour is about: the files of the bundle or the image (bound)
          hero,     \* the inode at the image's path, or None
          images,   \* what each inode holds
          gens,     \* where each generation is, and the inode it has open
          advice,   \* the expected_sha256 get_storage_health recommended, or Absent
          scan,     \* what a get_storage_health in progress knows of the page
          spoilt,   \* inodes two drawings had open at once or a write stopped on (history)
          late,     \* inodes linked while there was no page (history)
          kept      \* the last delete_page did not get to the image (history)

imageFiles == <<hero, images>>
imageHistory == <<spoilt, late, kept>>
imageVars == <<hero, images, gens, advice, scan, spoilt, late, kept>>
heroVars == <<page, assets, staging, entries, built, expired, journal, lock, calls,
              made, applied, unsure, faults, scene, hero, images, gens, advice, scan,
              spoilt, late, kept>>

Image(g, as) == [of |-> g, as |-> as]
Empty == Image(None, "empty")

HeroInit ==
    /\ Init
    /\ scene \in {"bundle", "image"}
    /\ hero = None
    /\ images = [g \in Gens |-> Empty]
    /\ gens = [g \in Gens |-> [pc |-> "new", ino |-> None]]
    /\ advice = Absent /\ scan = "none"
    /\ spoilt = {} /\ late = {} /\ kept = FALSE

-----------------------------------------------------------------------------
(* generate_hero_image.  Nothing is written before the paths are checked;  *)
(* an error until then, or in the network, ends the call with no trace.    *)

Moves(g, from, to) == gens[g].pc = from /\ gens' = [gens EXCEPT ![g].pc = to]

Linked(i) == late' = IF page = Absent THEN late \cup {i} ELSE late

Others == <<page, assets, staging, stores, journal, lock, calls, made, applied, unsure>>

StartLocal(g) ==
    /\ Moves(g, "new", "drawing")
    /\ UNCHANGED <<Others, faults, imageFiles, advice, scan, imageHistory>>

StartApi(g) ==
    /\ Moves(g, "new", "asking")
    /\ UNCHANGED <<Others, faults, imageFiles, advice, scan, imageHistory>>

GiveUp(g) ==
    /\ gens[g].pc \in {"drawing", "asking"} /\ Moves(g, gens[g].pc, "done")
    /\ UNCHANGED <<Others, faults, imageFiles, advice, scan, imageHistory>>

(* The answer is read up to maxImageBytes; what is beyond is not noticed.  *)
Fetched(g) == Image(g, IF g \in Large THEN "cut" ELSE "whole")

\* Mutant: the bytes fetched are written to the file in place.
InstallInPlace(g) ==
    LET i == IF hero = None THEN g ELSE hero
    IN  /\ Moves(g, "asking", "done")
        /\ images' = [images EXCEPT ![i] = IF @ = Empty THEN Fetched(g) ELSE Image(g, "mixed")]
        /\ hero' = i /\ Linked(i)
        /\ UNCHANGED <<Others, faults, advice, scan, spoilt, kept>>

(* AtomicWriteBytes: a new file, renamed over the path.                    *)
Install(g) ==
    /\ Moves(g, "asking", "done")
    /\ images' = [images EXCEPT ![g] = Fetched(g)]
    /\ hero' = g /\ Linked(g)
    /\ UNCHANGED <<Others, faults, advice, scan, spoilt, kept>>

OpenOn(i) == {g \in Gens : gens[g].pc = "open" /\ gens[g].ino = i}

(* renderFeaturedImage draws in memory; os.WriteFile empties the file that *)
(* is there, or makes one, and then writes.                                *)
Truncate(g) ==
    LET i == IF hero = None THEN g ELSE hero
    IN  /\ gens[g].pc = "drawing"
        /\ gens' = [gens EXCEPT ![g] = [pc |-> "open", ino |-> i]]
        /\ images' = [images EXCEPT ![i] = Empty]
        /\ hero' = i /\ (IF hero = None THEN Linked(i) ELSE UNCHANGED late)
        /\ spoilt' = IF OpenOn(i) = {} THEN spoilt \ {i} ELSE spoilt \cup {i}
        /\ UNCHANGED <<Others, faults, advice, scan, kept>>

(* Written over a longer image the new one keeps the other's end.          *)
Over(g, i) ==
    {Image(g, "whole")} \cup (IF images[i] = Empty THEN {} ELSE {Image(g, "mixed")})

WriteImage(g) ==
    LET i == gens[g].ino
    IN  /\ Moves(g, "open", "done")
        /\ \E data \in Over(g, i) : images' = [images EXCEPT ![i] = data]
        /\ UNCHANGED <<Others, faults, hero, advice, scan, imageHistory>>

WriteStops(g) ==
    LET i == gens[g].ino
    IN  /\ Moves(g, "open", "done")
        /\ faults < MaxFaults /\ faults' = faults + 1
        /\ images' = [images EXCEPT ![i] = Image(g, "torn")]
        /\ spoilt' = spoilt \cup {i}
        /\ UNCHANGED <<Others, hero, advice, scan, late, kept>>

-----------------------------------------------------------------------------
(* get_storage_health reads the slugs there are under a read lock and then *)
(* walks the images; for one whose page it has not seen it recommends      *)
(* delete_page_asset with the hash the file has when it is read.           *)

ScanPages ==
    /\ scan = "none" /\ lock = None
    /\ scan' = IF page = Absent THEN "unowned" ELSE "owned"
    /\ UNCHANGED <<Others, faults, imageFiles, gens, advice, imageHistory>>

ScanImages ==
    /\ scan # "none" /\ scan' = "none"
    /\ advice' = IF scan = "unowned" /\ hero # None THEN images[hero] ELSE Absent
    /\ UNCHANGED <<Others, faults, imageFiles, gens, imageHistory>>

-----------------------------------------------------------------------------
(* delete_page_asset with scope "generated".  The bundle is optional: only *)
(* one that was there before the lock has its revision and its references  *)
(* looked at.                                                              *)

HeroGuards ==
    {[of |-> "asset", is |-> d] : d \in {advice} \ {Absent}}
        \cup {[of |-> "asset", is |-> images[g]] : g \in {hero} \ {None}}
        \cup {[of |-> "page", is |-> p.links] : p \in {page} \ {Absent}}

HeroCheck(c, g, f) ==
    /\ calls[c] = Idle /\ lock = None
    /\ calls' = [calls EXCEPT ![c] =
          [Idle EXCEPT !.op = "delete_generated", !.pc = "checked", !.name = HeroName,
                       !.guard = g, !.force = f,
                       !.now = IF page = Absent THEN {} ELSE {"bundle"}]]
    /\ UNCHANGED <<page, assets, staging, stores, journal, lock, history, imageVars>>

HadBundle(c) == "bundle" \in calls[c].now

HeroMatches(c) ==
    LET g == calls[c].guard
    IN  \/ g.of = "asset" /\ g.is = images[hero]
        \/ g.of = "page" /\ HadBundle(c) /\ page # Absent /\ g.is = page.links

HeroRead(c) ==
    /\ At(c, "delete_generated", "locked")
    /\ \E blind \in BOOLEAN :
          /\ Scan(c, HeroName, blind)
          /\ IF \/ hero = None
                \/ ~HeroMatches(c)
                \/ HadBundle(c) /\ Referenced(HeroName) /\ ~calls[c].force /\ ~blind
             THEN Ends(c)
             ELSE /\ calls' = [calls EXCEPT ![c].pc = "judged", ![c].blind = blind,
                                           ![c].data = images[hero]]
                  /\ UNCHANGED lock
    /\ UNCHANGED <<page, assets, staging, stores, journal, made, applied, unsure, imageVars>>

HeroRemove(c) ==
    /\ At(c, "delete_generated", "judged")
    /\ hero' = None
    /\ Ends(c)
    /\ UNCHANGED <<page, assets, staging, stores, journal, history>>
    /\ UNCHANGED <<images, gens, advice, scan, imageHistory>>

-----------------------------------------------------------------------------
(* delete_page of the last language: the source goes first, the image is   *)
(* cleaned up near the end, under the same lock, and failing to is only a  *)
(* warning.                                                                *)

DeletePageSource(c) ==
    /\ calls[c] = Idle /\ lock = None /\ page # Absent
    /\ page' = Absent
    /\ lock' = c
    /\ calls' = [calls EXCEPT ![c] = [Idle EXCEPT !.op = "delete_page", !.pc = "removed"]]
    /\ UNCHANGED <<assets, staging, stores, journal, history, imageVars>>

RemoveHeroImage(c) ==
    /\ At(c, "delete_page", "removed")
    /\ \/ hero' = None /\ kept' = FALSE /\ UNCHANGED faults
       \/ /\ faults < MaxFaults /\ faults' = faults + 1
          /\ hero # None /\ kept' = TRUE /\ UNCHANGED hero
    /\ Ends(c)
    /\ UNCHANGED <<page, assets, staging, stores, journal, made, applied, unsure>>
    /\ UNCHANGED <<images, gens, advice, scan, spoilt, late>>

(* What a generation has open stays as it is, and a delete stops half way. *)
HeroRestart ==
    /\ Restart
    /\ gens' = [g \in Gens |-> IF gens[g].pc = "new" THEN gens[g] ELSE [pc |-> "done", ino |-> None]]
    /\ spoilt' = spoilt \cup {gens[g].ino : g \in {h \in Gens : gens[h].pc = "open"}}
    /\ kept' = (kept \/ \E c \in Calls : At(c, "delete_page", "removed"))
    /\ scan' = "none"
    /\ UNCHANGED <<imageFiles, advice, late>>

Generate(g) ==
    \/ StartLocal(g) \/ StartApi(g) \/ GiveUp(g)
    \/ Install(g) \/ Truncate(g) \/ WriteImage(g) \/ WriteStops(g)

Bundle ==
    \/ \E l \in SUBSET {HeroName} : EditPage(l)
    \/ CreatePage
    \/ \E c \in InlineCalls : TakeLock(c) \/ Refuse(c)

ImageNext ==
    \/ \E g \in Gens : Generate(g)
    \/ ScanPages \/ ScanImages
    \/ \E c \in InlineCalls :
        \/ \E g \in HeroGuards, f \in BOOLEAN : HeroCheck(c, g, f)
        \/ HeroRead(c) \/ HeroRemove(c)
    \/ \E c \in Calls \ InlineCalls : DeletePageSource(c) \/ RemoveHeroImage(c)
    \/ Bundle /\ UNCHANGED imageVars
    \/ HeroRestart

(* The two parts meet in the page and the lock alone: a behaviour has the  *)
(* calls of one and, of the other, what they do to these.                  *)
HeroNext ==
    /\ \/ scene = "bundle" /\ Next /\ UNCHANGED imageVars
       \/ scene = "image" /\ ImageNext
    /\ UNCHANGED scene

HeroSpec == HeroInit /\ [][HeroNext]_heroVars

-----------------------------------------------------------------------------
(* Once nobody is writing it, the image at the path is that of one         *)
(* generation from its first byte to its last, whatever drawings,          *)
(* downloads, deletes and restarts ran at once: unless two drawings had    *)
(* the file open together or a write stopped half way, and nobody has      *)
(* written it since; or an api sent more than maxImageBytes.               *)
HeroIsWhole ==
    (hero # None /\ hero \notin spoilt /\ OpenOn(hero) = {}) =>
        \/ images[hero].as = "whole"
        \/ images[hero].as = "cut" /\ images[hero].of \in Large

(* No image outlives its page but one that was made when the page was gone *)
(* already, or that delete_page failed or did not live to remove.          *)
NoNewOrphans ==
    (hero # None /\ page = Absent /\ lock = None) => hero \in late \/ kept

(* An image is removed by delete_page, with its page, or by a delete whose *)
(* revision is the present one, whose hash is the image's or was until it  *)
(* was written again after the delete read it, and which was forced if the *)
(* page mentions the image, unless there was no page when it asked, or     *)
(* none that could be read.                                                *)
HeroGoesOnRequest ==
    [][hero # None /\ hero' = None =>
          \E c \in Calls :
             \/ At(c, "delete_page", "removed") /\ page = Absent
             \/ /\ At(c, "delete_generated", "judged")
                /\ IF calls[c].guard.of = "page" THEN HeroMatches(c)
                   ELSE calls[c].guard.is = images[hero] \/ calls[c].data # images[hero]
                /\ Referenced(HeroName) => calls[c].force \/ calls[c].blind \/ ~HadBundle(c)]_heroVars

(* What stands beside a page is what one call put there, whole: the bytes  *)
(* that were judged, and the image that was generated.                     *)
FilesAreWhole == FilesAreWhatWasJudged /\ HeroIsWhole

(* Neither staging files nor images are left without an owner.             *)
NothingIsLeftBehind == NoStrayStaging /\ NoNewOrphans

(* Files and images go when somebody who has seen them asks for it.        *)
RemovedOnRequest == OnlyCheckedRemovals /\ HeroGoesOnRequest
=============================================================================

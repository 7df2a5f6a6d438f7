------------------------------ MODULE SiteReads ------------------------------
(***************************************************************************)
(* What the read tools make of the state that module DerivedStore keeps:   *)
(* PageResolver pairs a page of the public index with a file of the source *)
(* index for a requested slug and language, the lifecycle state says       *)
(* whether the pair is in step, and get_site_health counts the files that  *)
(* ought to be public and are not.                                         *)
(*                                                                         *)
(* Reader-profile calls see the public half of a pair alone.  A source     *)
(* index entry may also be marked BuildPending, which can only turn a      *)
(* state from fresh into stale and is left out here (module BuildPublish). *)
(***************************************************************************)
EXTENDS DerivedStore

(* SlugFromRel: `_index.fr.md` keeps its label in its key *)
ASSUME SiteReadsAssumption ==
    /\ LangCodes \subseteq STRING /\ Null \notin STRING
    /\ \A f \in SourceFiles : \A label \in LangCodes \cup {""} : Last(f.key) = IndexName(label) => f.label = label

Requests == Urls \cup Keys
Languages == LangCodes \cup {Null}

(* languagePrefixFromSlug *)
Prefix(s) == IF Len(s) >= 2 /\ Head(s) \in LangCodes THEN Head(s) ELSE Null

RootIndex(lang) == IF lang = Null THEN <<<<IndexName("")>>>> ELSE <<<<IndexName(lang)>>, <<IndexName("")>>>>

(* sourceSlugCandidatesForRequest: "" and "fr" may be the home page. *)
Candidates(s, lang) ==
    CASE s = <<>> -> RootIndex(lang)
      [] lang # Null /\ s = <<lang>> -> <<s>> \o RootIndex(lang)
      [] OTHER -> SourceSlugCandidates(s)

(* The source index maps *)
BySlugLang(k, label) ==
    LET f == [key |-> k, label |-> label]
    IN IF f \in SourceFiles /\ source[f] # Null THEN f ELSE Null
BySlug(k) ==
    IF \E f \in Written : f.key = k THEN CHOOSE f \in Written : f.key = k ELSE Null

(* The first of a sequence of lookups that finds a file *)
FirstFound(files) ==
    LET hits == {i \in DOMAIN files : files[i] # Null}
    IN IF hits = {} THEN Null ELSE files[CHOOSE i \in hits : \A j \in hits : i <= j]

Labelled(candidates, label) == FirstFound([i \in DOMAIN candidates |-> BySlugLang(candidates[i], label)])
OfBundle(candidates) == FirstFound([i \in DOMAIN candidates |-> BySlug(candidates[i])])

OrElse(f, g) == IF f # Null THEN f ELSE g

Exact(s, lang) == Labelled(Candidates(s, lang), lang)
Unlabelled(s) == Labelled(Candidates(s, Null), "")
ForLang(s, lang) == OrElse(Exact(s, lang), IF lang = Default THEN Unlabelled(s) ELSE Null)
DefaultSource(s) == OrElse(ForLang(s, Default), OfBundle(Candidates(s, Default)))

Public(u) == IF u \in Urls /\ idx[u] # Null THEN u ELSE Null
MatchesLang(u, lang) == u # Null /\ PageLang(idx, u) = lang

BorrowableAlways(pub, lang) == TRUE

(* resolveImplicit: an unlabelled file stands for a language of the URL     *)
(* only where a public page shows it was rendered as that language.        *)
Borrowable(pub, lang) == pub # Null /\ lang = Default

ResolveImplicit(s) ==
    LET asked == Prefix(s)
        pub == Public(s)
        lang == IF pub # Null THEN PageLang(idx, pub) ELSE asked
        src == CASE asked # Null -> OrElse(Exact(s, lang), IF Borrowable(pub, lang) THEN Unlabelled(s) ELSE Null)
                 [] asked = Null /\ lang # Null -> ForLang(s, lang)
                 [] OTHER -> DefaultSource(s)
    IN [pub |-> IF pub = Null /\ asked = Null /\ src # Null THEN Public(src.key) ELSE pub, src |-> src]

ResolveWithLang(s, lang) ==
    LET src == ForLang(s, lang)
        key == IF src = Null THEN s ELSE src.key
        canonical == IF key = <<>> THEN Null ELSE Public(PublicSlug(key, lang))
        page == IF MatchesLang(canonical, lang) THEN canonical
                ELSE IF MatchesLang(Public(s), lang) THEN Public(s) ELSE Null
    IN IF Prefix(s) \in {Null, lang} THEN [pub |-> page, src |-> src] ELSE [pub |-> Null, src |-> Null]

Resolve(s, lang) == IF lang = Null THEN ResolveImplicit(s) ELSE ResolveWithLang(s, lang)

(* StateForResolvedPage compares the times of the two files. *)
SourceNewer(f, u) == public.pages[u] # Null /\ source[f].rev > public.made

StateOf(r) ==
    CASE r.pub = Null -> "source_only"
      [] r.pub # Null /\ r.src = Null -> "fresh"
      [] OTHER -> IF SourceNewer(r.src, r.pub) THEN "stale" ELSE "fresh"

(* sourceExpectedInPublic *)
ExpectedInPublic(f) == ~IsIndex(f.key) /\ ~source[f].draft

HasOwnOutput(f) == Resolve(f.key, IF f.label = "" THEN Null ELSE f.label).pub # Null

(* sourceHasPublicOutput: under its own slug, or where `url` sends it *)
HasPublicOutput(f) ==
    \/ HasOwnOutput(f)
    \/ LET u == source[f].url
       IN u # Null /\ Public(u) # Null /\ (f.label = "" \/ PageLang(idx, u) = f.label)

MissingPublic == {f \in Written : ExpectedInPublic(f) /\ ~HasPublicOutput(f)}

-----------------------------------------------------------------------------
(* The steps of a build between these change the database alone, which the *)
(* reads do not look at: what they see is the same at the next of these.   *)
ReadsDiffer == up /\ step \in {"idle", "reload"}

(* Nothing of the site is named like a language or an index where it is    *)
(* neither: no bundle lies in a directory `fr`, and no page is published   *)
(* as `x/_index` or `fr/fr`.  The lookups tell languages by the first      *)
(* segment of a slug, so where this fails they find one for another.       *)
NamesAreTold ==
    /\ \A f \in Written : Head(f.key) \notin LangCodes
    /\ \A u \in Urls : idx[u] # Null =>
           (u # <<>> => ~IsIndex(u)) /\ (Len(u) >= 2 => u[2] \notin LangCodes)

(* Whatever slug and language a read asks for, the file and the page it is *)
(* given are of one language, the one it asked for: no translation is      *)
(* shown with the source of another, also while the index is behind.       *)
NoLanguageIsBorrowed(r, lang) ==
    (r.pub # Null /\ r.src # Null) =>
        /\ PageLang(idx, r.pub) = Lang(r.src)
        /\ lang # Null => Lang(r.src) = lang

(* The slug names the language the page is in, unless `url` sends it elsewhere. *)
SlugTellsLanguage(u) ==
    IF PageLang(idx, u) = Default THEN u = <<>> \/ Head(u) \notin LangCodes
    ELSE u # <<>> /\ Head(u) = PageLang(idx, u)

(* A read that calls a page fresh was given the output of that very        *)
(* revision of that very file, where the index entry is what is on disk    *)
(* and the file that made it still asks for its URL, alone (the state only *)
(* compares times, so a page whose file was removed or moved since may be  *)
(* called fresh with the source of another).                               *)
FreshMeansBuilt(r) ==
    (/\ r.pub # Null /\ r.src # Null /\ StateOf(r) = "fresh"
     /\ idx[r.pub] = public.pages[r.pub] /\ SlugTellsLanguage(r.pub)
     /\ \E f \in Written : f = idx[r.pub].by /\ Url(f) = r.pub) =>
        idx[r.pub].by = r.src /\ idx[r.pub].rev = source[r.src].rev

(* After a build that nothing disturbed get_site_health counts no file as  *)
(* missing from the public site.                                           *)
HealthIsComplete ==
    (calm.builds > 0 /\ step = "idle" /\ up /\ ~Contested) =>
        MissingPublic = {}
=============================================================================

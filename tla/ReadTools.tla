------------------------------ MODULE ReadTools ------------------------------
(***************************************************************************)
(* What the read tools answer over the lookups of module SiteReads: the    *)
(* tools about one page (get_page, get_page_markdown, get_page_frontmatter,*)
(* build_agent_context, get_page_for_edit), the rows of the lists, which   *)
(* find the source of a page by a lookup of their own, and the counts and  *)
(* the status of get_site_health.                                          *)
(*                                                                         *)
(* Every text is valid front matter, so the score of the content is 100.   *)
(***************************************************************************)
EXTENDS SiteReads

Profiles == {"reader", "writer"}

Listed == {u \in Urls : idx[u] # Null}
PublishedPages == {u \in Listed : IsContent(u)}

NotFound == [pub |-> Null, src |-> Null]

(* ReaderSafeResolvedPage: the public half alone *)
Shown(r, profile) == IF profile = "reader" THEN [r EXCEPT !.src = Null] ELSE r

(* get_page; a page that has a source only has to be asked for as such. *)
GetPage(s, profile, fallback) ==
    LET r == Shown(ResolveImplicit(s), profile)
    IN IF r.pub # Null \/ (fallback /\ r.src # Null /\ ~source[r.src].draft) THEN r ELSE NotFound

(* validateSlugLangConsistency *)
Consistent(s, lang) == lang = Null \/ Prefix(s) \in {Null, lang}

(* get_page_markdown, get_page_frontmatter *)
ReadPage(s, lang, profile) == IF Consistent(s, lang) THEN Shown(Resolve(s, lang), profile) ELSE NotFound

(* resolvedMarkdown and resolvedRevision: of the source where there is one *)
Text(r) == IF r.src # Null THEN <<r.src, source[r.src].rev>> ELSE <<idx[r.pub].by, idx[r.pub].rev>>

(* get_page shows the rendered page with the revision of its source, or    *)
(* the text of the source where nothing is rendered.                       *)
Detail(r) ==
    [shown |-> Text(IF r.pub # Null THEN [r EXCEPT !.src = Null] ELSE r),
     revision |-> IF r.src = Null THEN Null ELSE source[r.src].rev]

(* build_agent_context adds the translations, the pages whose slug is the  *)
(* same without its language.                                              *)
AgentContext(s, lang, profile) ==
    LET r == ReadPage(s, lang, profile)
        slug == IF r.pub # Null THEN r.pub ELSE IF Prefix(s) # Null THEN s ELSE r.src.key
    IN [text |-> Text(r), state |-> StateOf(r),
        translations |-> {u \in PublishedPages \ {slug} : Stripped(u) = Stripped(slug)}]

(* sourcePagesForValidation: of one slug and a language, if one is given;  *)
(* of the home page's slug, which is empty, every file.                    *)
PagesForValidation(s, lang) ==
    {f \in Written : (s = <<>> \/ f.key \in ToSet(SourceSlugCandidates(s))) /\ lang \in {Null, f.label}}

BrokenLinksForPage(u) == {t \in idx[u].links : IsContent(t) /\ t \notin Listed}

(* get_page_for_edit reports the quality of the first of them, which the   *)
(* sort makes an unlabelled one if a bundle has any.                       *)
Judged(s, lang) ==
    LET found == PagesForValidation(s, lang)
    IN IF found = {} THEN Null ELSE CHOOSE f \in found : \A g \in found : g.label = "" => f.label = ""

PageForEdit(s, lang, profile) ==
    LET r == ReadPage(s, lang, profile)
    IN [text |-> Text(r), state |-> StateOf(r),
        judged |-> IF profile = "reader" THEN Null ELSE Judged(s, lang),
        broken |-> IF r.pub = Null THEN {} ELSE BrokenLinksForPage(r.pub)]

(* The row of a page in a list: newSourceLookup keeps every source by slug *)
(* and language, by slug if it has no label, and by slug.  It also tries   *)
(* each slug with the language as a suffix ("post.en"): no bundle of the   *)
(* model has such a name.                                                  *)
SourceOfRow(u) ==
    LET slugs == SourceSlugCandidates(u)
    IN OrElse(Labelled(slugs, PageLang(idx, u)), OrElse(Labelled(slugs, ""), OfBundle(slugs)))

RowState(u) == StateOf([pub |-> u, src |-> SourceOfRow(u)])

(* resolveSourceKey of the anonymous lists *)
SourceKey(u) ==
    LET f == OfBundle(SourceSlugCandidates(u)) IN IF f = Null THEN Null ELSE f.key

-----------------------------------------------------------------------------
(* get_site_health *)

SectionIndexes == {f \in Written : IsIndex(f.key)}
Publishable == {f \in Written : ExpectedInPublic(f)}

(* GetBrokenLinks *)
BrokenLinks == {l \in UNION {db.public[u].links : u \in {v \in Urls : db.public[v] # Null}} : ~l.ok}

(* `last` is what became of the last build_site of this process. *)
RuntimeDegraded(last) == last = "failed" \/ MissingPublic # {}

ContentStatus == IF BrokenLinks = {} THEN "healthy" ELSE "degraded"

SiteHealth(last) ==
    [status |-> IF RuntimeDegraded(last) THEN "degraded" ELSE ContentStatus,
     published |-> Cardinality(PublishedPages),
     publishable |-> Cardinality(Publishable),
     excluded |-> Cardinality(Written) - Cardinality(Publishable) - Cardinality(SectionIndexes)]

-----------------------------------------------------------------------------
(* Every page a list shows whose slug tells its language can be opened:    *)
(* under its slug alone and with its language, by readers and writers,     *)
(* with one and the same text or revision; and the translations its        *)
(* context names are pages of other languages.                             *)
ListedPagesOpen ==
    (up /\ step = "idle") => \A u \in {v \in Listed : SlugTellsLanguage(v)} : \A profile \in Profiles :
        LET lang == PageLang(idx, u)
            byslug == GetPage(u, profile, FALSE)
            context == AgentContext(u, lang, profile)
        IN /\ byslug.pub = u /\ ReadPage(u, lang, profile).pub = u
           /\ Detail(byslug).revision \in {Null, context.text[2]}
           /\ byslug.src = Null => Detail(byslug).shown = context.text
           /\ \A v \in context.translations : SlugTellsLanguage(v) => PageLang(idx, v) # lang

(* The quality get_page_for_edit reports is that of the file whose text    *)
(* and revision it hands out, or none: if the language is asked for with   *)
(* `lang`, or the file has none in its name and neither has the slug (else *)
(* nothing chooses among the files), and the page is not the home page.    *)
QualityIsOfTheShownFile(r, s, lang) ==
    (/\ r.src # Null /\ Consistent(s, lang) /\ s # <<>>
     /\ lang # Null \/ (Prefix(s) = Null /\ r.src.label = "")) => Judged(s, lang) \in {Null, r.src}

ResolutionsAreTrue ==
    LET contested == Contested IN
    ReadsDiffer => \A s \in Requests : \A lang \in Languages :
        LET r == Resolve(s, lang)
        IN /\ NoLanguageIsBorrowed(r, lang) /\ QualityIsOfTheShownFile(r, s, lang)
           /\ contested \/ FreshMeansBuilt(r)

(* The two ways the source of a page is found agree where the lookup of    *)
(* one page finds a source at all: a row of a list and the page it leads   *)
(* to name the same file and the same state (but for the home pages, for   *)
(* which the rows find no source).                                         *)
RowsMatchPages ==
    (up /\ step = "idle") => \A u \in {v \in Listed : SlugTellsLanguage(v) /\ v \notin {<<>>, <<PageLang(idx, v)>>}} :
        LET r == GetPage(u, "writer", FALSE)
        IN r.src # Null => /\ SourceOfRow(u) = r.src /\ SourceKey(u) = r.src.key
                           /\ RowState(u) = StateOf(r)

(* After a build that nothing disturbed get_site_health counts as many     *)
(* pages published as publishable, and calls the site healthy if no link   *)
(* is recorded as broken (where every file but the indexes has a page that *)
(* counts as content, and they have none: a section's page is one of the   *)
(* published and its file none of the publishable).                        *)
CountsAddUp ==
    (/\ calm.builds > 0 /\ step = "idle" /\ up /\ ~Contested /\ Generated = {}
     /\ \A f \in Written : IsContent(Url(f)) <=> ~IsIndex(f.key)) =>
        LET h == SiteHealth("succeeded")
        IN /\ h.published = h.publishable
           /\ h.status = "healthy" <=> BrokenLinks = {}

(* Page, source, state and count that a read answers with are true of the  *)
(* site, in all these senses.                                              *)
ReadsAreTrue ==
    NamesAreTold =>
        /\ ResolutionsAreTrue /\ HealthIsComplete
        /\ ListedPagesOpen /\ RowsMatchPages /\ CountsAddUp
=============================================================================

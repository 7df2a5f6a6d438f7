----------------------------- MODULE DerivedStore -----------------------------
(***************************************************************************)
(* The SQLite database the server derives from the content tree and from   *)
(* the rendered site: the pages table with its link graph and cached       *)
(* checks, the source and public facts of each page and language           *)
(* (content_representations_v1), the facts of the last completed build     *)
(* (build_runs, build_pages) and the fingerprint of the template.  Edits,  *)
(* deletions, builds and restarts each bring a part of it up to date, in   *)
(* calls that fail one by one while the server goes on.                    *)
(*                                                                         *)
(* A slug is the sequence of its path segments.  A revision stands for the *)
(* bytes of one written file: no two writes share one.  A database call    *)
(* takes place or fails as a whole, and a mutation holds ContentMu, so it  *)
(* never overlaps a build (modules PageMutation and BuildPublish).         *)
(***************************************************************************)
EXTENDS Integers, Sequences, FiniteSets, SequencesExt

CONSTANTS SourceFiles,        \* source files: records of key (the bundle's slug) and label (language or "")
          FileTexts,        \* what a file can say: records of draft, url and links
          Order,        \* every public slug, in the order of the sitemap
          Trees,        \* the content trees to start with, every revision 1
          Generated,    \* public slugs Hugo renders without a source
          Default,      \* cfg.DefaultLanguage
          LangCodes,    \* looksLikeLanguageCode
          Null,
          MaxEdits,     \* bound of edits, deletions and changes of the template
          MaxFaults,    \* bound of failing calls and of edits the database does not hear of
          MaxRestarts   \* bound

Urls == ToSet(Order)
Keys == {f.key : f \in SourceFiles}

(* What the copies consist of: versions of a file, rendered pages, rows *)
Versions == [draft : BOOLEAN, url : Urls \cup {Null}, links : SUBSET Urls, rev : Nat \ {0}]
Outputs == [by : SourceFiles \cup {Null}, rev : Nat, links : SUBSET Urls]
PageRows == [rev : Nat, lang : LangCodes, links : SUBSET [to : Urls, ok : BOOLEAN], issues : Nat \cup {Null}]
DraftRows == [rev : Nat, lang : LangCodes \cup {""}]

VARIABLES source,    \* source[f]: the file, or Null; the source index is read again before it is used
          public,    \* the published tree: its pages, the template it was made with and the time of its files
          idx,       \* the pages of the public index
          template,  \* the layouts, theme and Hugo version in place
          db,
          step,      \* the step the build is at
          force,     \* forceRenderedRecheck
          up,
          calm,      \* builds since anything else happened (history), spoilt: something has in this build
          booted,    \* nothing has happened since an undisturbed start (history)
          shown,     \* what the last completed build published (history); Null once two files ask for one
                     \* URL, or a deletion has taken the output of another bundle with it
          bounds     \* edits, faults, restarts so far

storeVars == <<source, public, idx, template, db, step, force, up, calm, booted, shown, bounds>>

-----------------------------------------------------------------------------
(* Slugs *)

Stripped(s) == IF Len(s) >= 2 /\ Head(s) \in LangCodes THEN Tail(s) ELSE s

(* _index.md and _index.<lang>.md are the page of their directory. *)
IndexName(label) == IF label = "" THEN "_index" ELSE "_index." \o label
IsIndex(s) == \E label \in LangCodes \cup {""} : Last(s) = IndexName(label)
Trimmed(s) == IF IsIndex(s) THEN Front(s) ELSE s

PublicSlug(key, lang) == IF lang = Default THEN Trimmed(key) ELSE <<lang>> \o Trimmed(key)

SourceSlugCandidates(s) == IF s = <<>> THEN <<>> ELSE IF Stripped(s) = s THEN <<s>> ELSE <<s, Stripped(s)>>

Lang(f) == IF f.label = "" THEN Default ELSE f.label

ASSUME DerivedStoreAssumption ==
    /\ Order \in Seq(Seq(STRING)) /\ Generated \subseteq Urls /\ IsFiniteSet(SourceFiles)
    /\ Default \in LangCodes /\ "" \notin LangCodes
    /\ SourceFiles \subseteq [key : Seq(STRING) \ {<<>>}, label : LangCodes \cup {""}]
    /\ \A f \in SourceFiles : PublicSlug(f.key, Lang(f)) \in Urls
    /\ FileTexts \subseteq [draft : BOOLEAN, url : Urls \cup {Null}, links : SUBSET Urls]
    /\ Trees \subseteq [SourceFiles -> {v \in Versions : v.rev = 1} \cup {Null}]
    /\ Null \notin SourceFiles /\ Null \notin Keys /\ Null \notin Urls /\ Null \notin Versions
    /\ Null \notin Outputs /\ Null \notin PageRows /\ Null \notin DraftRows /\ Null \notin Nat
    /\ {MaxEdits, MaxFaults, MaxRestarts} \subseteq Nat

Ident(f) == <<f.key, Lang(f)>>
PageLang(pages, u) == IF pages[u].by = Null THEN Default ELSE Lang(pages[u].by)

Written == {f \in SourceFiles : source[f] # Null}

(* Where Hugo renders a file. *)
Url(f) == IF source[f].url = Null THEN PublicSlug(f.key, Lang(f)) ELSE source[f].url

(* Every slug a file could be looked for under. *)
Asked(f) == {PublicSlug(f.key, Lang(f)), source[f].url} \ {Null}

(* resolvePublicSource: who of an index claims a public slug, by its own slug or by front matter *)
Claimants(srcIdx, u, lang) ==
    {f \in srcIdx : Lang(f) = lang /\ u \in Asked(f)}

Contested ==
    \E f \in Written : \E u \in Asked(f) : \E g \in Written \ {f} : u \in Asked(g)

-----------------------------------------------------------------------------
(* content_representations_v1.  A public fact without a known source has   *)
(* the key Null (@public/...), which its slug and language make its own.   *)

Identity(r) == <<r.key, r.lang, IF r.key = Null THEN r.slug ELSE Null>>

WithFact(reps, r) == {q \in reps : Identity(q) # Identity(r)} \cup {r}

SourceKnown(sources, key, lang) == \E q \in sources : q.key = key /\ q.lang \in {lang, ""}

(* The key a slug had before, else the first candidate with a source. *)
PublicKey(reps, sources, u, lang) ==
    LET before == {q \in reps : q.slug = u /\ q.lang = lang}
    IN CASE before # {} -> (CHOOSE q \in before : TRUE).key
         [] before = {} /\ SourceKnown(sources, u, lang) -> u
         [] OTHER -> IF Len(u) > 1 /\ Head(u) = lang /\ SourceKnown(sources, Tail(u), lang) THEN Tail(u) ELSE Null

PublicRep(reps, sources, pages, u) ==
    LET lang == PageLang(pages, u)
    IN [key |-> PublicKey(reps, sources, u, lang), lang |-> lang, slug |-> u, rev |-> pages[u].rev]

KeptRep(reps, sources, srcIdx, pages, u) ==
    LET claimants == Claimants(srcIdx, u, PageLang(pages, u))
        known == PublicRep(reps, sources, pages, u)
    IN IF known.key = Null /\ \E f \in claimants : claimants = {f}
       THEN [known EXCEPT !.key = (CHOOSE f \in claimants : TRUE).key]
       ELSE known

(* The keys are resolved where a source index is at hand that knows who    *)
(* claims the slug.                                                        *)
ResolvedRep(reps, sources, srcIdx, pages, u) ==
    LET claimants == Claimants(srcIdx, u, PageLang(pages, u))
    IN IF \E f \in claimants : claimants = {f}
       THEN [PublicRep(reps, sources, pages, u) EXCEPT !.key = (CHOOSE f \in claimants : TRUE).key]
       ELSE PublicRep(reps, sources, pages, u)

PagesIn(pages) == {u \in Urls : pages[u] # Null}

(* The facts when the first n slugs of the sitemap have been gone through, *)
(* of which those in us are written.                                       *)
FactsAfter(reps, sources, srcIdx, pages, us) ==
    LET after[n \in 0 .. Len(Order)] ==
            IF n = 0 THEN reps
            ELSE LET known == after[n - 1]
                 IN IF Order[n] \in us THEN WithFact(known, ResolvedRep(known, sources, srcIdx, pages, Order[n]))
                    ELSE known
    IN after

(* reconcileContentRepresentations: write each fact, then prune the rest.  *)
ReconcilePublic(d, pages, srcIdx) ==
    LET after == FactsAfter(d.publicReps, d.sourceReps, srcIdx, pages, PagesIn(pages))
        want == {Identity(ResolvedRep(after[n - 1], d.sourceReps, srcIdx, pages, Order[n])) :
                    n \in {m \in 1 .. Len(Order) : Order[m] \in PagesIn(pages)}}
    IN [d EXCEPT !.publicReps = {q \in after[Len(Order)] : Identity(q) \in want}]

ReconcileSources(d) == [d EXCEPT !.sourceReps = {[key |-> f.key, lang |-> Lang(f)] : f \in Written}]

-----------------------------------------------------------------------------
(* pages and links *)

IsContent(u) == u # <<>> /\ u \notin Generated

LinkGraph(u, p, pages) == {[to |-> t, ok |-> pages[t] # Null \/ ~IsContent(t)] : t \in p.links \ {u}}

Changed(d, u, p) == d.public[u] = Null \/ d.public[u].rev # p.rev

Row(d, u, pages, look) ==
    [rev |-> pages[u].rev, lang |-> PageLang(pages, u), links |-> LinkGraph(u, pages[u], pages),
     issues |-> IF IsContent(u) THEN look ELSE IF d.public[u] = Null THEN Null ELSE d.public[u].issues]

SyncChanged(d, u, pages, look, again) == IF Changed(d, u, pages[u]) THEN Row(d, u, pages, look) ELSE d.public[u]

(* syncPublicPage: a page whose hash has not changed is left alone, or, if *)
(* it is one of those in again, has its checks done again.                 *)
SyncPublic(d, u, pages, look, again) ==
    IF Changed(d, u, pages[u]) THEN Row(d, u, pages, look)
    ELSE IF u \in again /\ IsContent(u) THEN [d.public[u] EXCEPT !.issues = look]
    ELSE d.public[u]

(* SyncSourcePage: an unlabelled file takes the language its bundle has been given. *)
Unnamed(d, k) == \A q \in d.sourceReps : q.key = k => q.lang = ""

SyncSource(d, f, text) ==
    LET kept == IF f.label = "" /\ ~Unnamed(d, f.key) THEN {} ELSE {[key |-> f.key, lang |-> f.label]}
    IN [d EXCEPT !.sourceReps = @ \cup kept, !.drafts[f.key] = [rev |-> text.rev, lang |-> f.label]]

(* The same for several files, in an order which ends for each bundle with *)
(* any one of them: the row is that of the last.                           *)
SyncSources(d, fs) ==
    LET last(k) == CHOOSE f \in fs : f.key = k
        kept == {f \in fs : \/ f.label # ""
                            \/ Unnamed(d, f.key) /\ (last(f.key) # f \/ \A g \in fs : g.key = f.key => g = f)}
    IN [d EXCEPT !.sourceReps = @ \cup {[key |-> f.key, lang |-> f.label] : f \in kept},
                 !.drafts = [k \in Keys |-> IF \E f \in fs : f.key = k
                                            THEN [rev |-> source[last(k)].rev, lang |-> last(k).label]
                                            ELSE d.drafts[k]]]

(* DeletePage, of public rows and of source rows *)
DropPublic(d, us) ==
    [d EXCEPT !.public = [u \in Urls |-> IF u \in us THEN Null ELSE d.public[u]],
              !.publicReps = {q \in @ : q.slug \notin us}]
DropSource(d, ks) ==
    [d EXCEPT !.drafts = [k \in Keys |-> IF k \in ks THEN Null ELSE d.drafts[k]],
              !.sourceReps = {q \in @ : q.key \notin ks}]

PruneRows(d, pages) == DropPublic(d, {u \in Urls : d.public[u] # Null /\ pages[u] = Null})

-----------------------------------------------------------------------------
(* build_runs and build_pages *)

Prior(d, i) == IF i \in DOMAIN d.done.pages THEN d.done.pages[i] ELSE [built |-> 0, seen |-> 0, state |-> ""]

FileOf(i) == {f \in Written : Ident(f) = i}
Current == {Ident(f) : f \in Written}
Now(i) == source[CHOOSE f \in FileOf(i) : TRUE]

NeedsRepair(was) == was.state \notin {"", "published", "intentionally_unpublished"}

Differs(d, i) == Prior(d, i).built # Now(i).rev \/ NeedsRepair(Prior(d, i))

Gone(d) == DOMAIN d.done.pages \ Current
NewlyGoneIfPublished(d) == {i \in Gone(d) : d.done.pages[i].state = "published"}
NewlyGone(d) == {i \in Gone(d) : d.done.pages[i].state # "deleted"}

StateAtBegin(d, i) ==
    CASE i \notin Current -> IF i \in NewlyGone(d) THEN "deletion_pending" ELSE "deleted"
      [] i \in Current /\ Now(i).draft -> "intentionally_unpublished"
      [] i \in Current /\ ~Now(i).draft -> IF Differs(d, i) THEN "pending" ELSE "unchanged"

(* BeginBuildRun compares the files with the last completed run. *)
RunOf(d) ==
    [changes |-> {i \in Current : Differs(d, i)} \cup NewlyGone(d),
     pages |-> [i \in Current \cup Gone(d) |->
        [source |-> IF i \in Current THEN Now(i).rev ELSE 0,
         built |-> Prior(d, i).built, state |-> StateAtBegin(d, i)]]]

BeginRun(d) == [ReconcileSources(d) EXCEPT !.open = RunOf(d)]

PublicRevision(d, i) ==
    LET r == {q \in d.publicReps : <<q.key, q.lang>> = i}
    IN IF r = {} THEN Null ELSE (CHOOSE q \in r : TRUE).rev

StateAtEnd(d, i, was) ==
    LET out == PublicRevision(d, i)
    IN CASE was \in {"deletion_pending", "deleted"} -> IF out = Null THEN "deleted" ELSE "deletion_incomplete"
         [] was = "intentionally_unpublished" -> was
         [] OTHER -> IF out = Null THEN "missing_public" ELSE "published"

(* CompleteBuildRun *)
CompleteRun(d) ==
    LET page(i) ==
            LET was == d.open.pages[i] now == StateAtEnd(d, i, was.state)
            IN [built |-> IF now \in {"deleted", "deletion_incomplete"} THEN was.built ELSE was.source,
                seen |-> PublicRevision(d, i), state |-> now]
    IN [d EXCEPT !.open = Null,
                 !.done = [pages |-> [i \in DOMAIN d.open.pages |-> page(i)], sourceDrift |-> 0, publicDrift |-> 0]]

SourceDrifts(d) ==
    {i \in DOMAIN d.done.pages : IF i \in Current THEN Now(i).rev # d.done.pages[i].built
                                 ELSE d.done.pages[i].state # "deleted"} \cup (Current \ DOMAIN d.done.pages)

PublicDrifts(d) ==
    {i \in DOMAIN d.done.pages :
        LET p == d.done.pages[i]
        IN CASE p.state \in {"missing_public", "deletion_incomplete"} -> TRUE
             [] p.state \in {"deleted", "intentionally_unpublished"} -> PublicRevision(d, i) # Null
             [] OTHER -> PublicRevision(d, i) # p.seen}

(* ReconcileLatestBuild *)
ReconcileLatest(d, pages) ==
    LET e == ReconcileSources(ReconcilePublic(d, pages, Written))
    IN [e EXCEPT !.done.sourceDrift = Cardinality(SourceDrifts(e)),
                 !.done.publicDrift = Cardinality(PublicDrifts(e))]

NoRun == [pages |-> [i \in {} |-> Null], sourceDrift |-> 0, publicDrift |-> 0]

-----------------------------------------------------------------------------
NoPages == [u \in Urls |-> Null]

(* A database made for a content tree that was never built. *)
StoreInit ==
    /\ source \in Trees
    /\ public = [pages |-> NoPages, look |-> 1, made |-> 0] /\ idx = NoPages /\ template = 1
    /\ db = [public |-> NoPages, drafts |-> [k \in Keys |-> Null], sourceReps |-> {}, publicReps |-> {},
             open |-> Null, done |-> NoRun, template |-> Null]
    /\ step = "idle" /\ force = FALSE /\ up = FALSE
    /\ calm = [builds |-> 0, spoilt |-> FALSE] /\ booted = FALSE /\ shown = Null
    /\ bounds = [edits |-> 1, faults |-> 0, restarts |-> 0]

Faults(n) == bounds.faults + n <= MaxFaults
Disturbed == calm' = [builds |-> 0, spoilt |-> TRUE] /\ booted' = FALSE

(* create_page and update_page; where the call of SyncSourcePage fails, and *)
(* for a file written by hand, the database does not hear of it.            *)
Edit(f, t, heard) ==
    LET text == [draft |-> t.draft, url |-> t.url, links |-> t.links, rev |-> bounds.edits + 1]
    IN /\ up /\ step = "idle" /\ bounds.edits < MaxEdits
       /\ Faults(IF heard THEN 0 ELSE 1)
       /\ source' = [source EXCEPT ![f] = text]
       /\ db' = IF heard THEN SyncSource(db, f, text) ELSE db
       /\ bounds' = [bounds EXCEPT !.edits = @ + 1, !.faults = @ + (IF heard THEN 0 ELSE 1)]
       /\ Disturbed
       /\ UNCHANGED <<public, idx, template, step, force, up, shown>>

(* delete_page of one translation: the label is the language asked for. *)
DeleteTranslation(f) ==
    /\ up /\ step = "idle" /\ bounds.edits < MaxEdits
    /\ source[f] # Null /\ \E g \in Written \ {f} : g.key = f.key
    /\ source' = [source EXCEPT ![f] = Null]
    /\ db' = [db EXCEPT !.sourceReps = @ \ {[key |-> f.key, lang |-> f.label]}]
    /\ bounds' = [bounds EXCEPT !.edits = @ + 1]
    /\ Disturbed
    /\ UNCHANGED <<public, idx, template, step, force, up, shown>>

(* Pages of other bundles whose URLs lie under the slug of this one *)
OthersUnder(k) ==
    {u \in PagesIn(public.pages) : IsPrefix(k, u) /\ public.pages[u].by # Null /\ public.pages[u].by.key # k}

Without(pages, k) == [u \in Urls |-> IF IsPrefix(k, u) THEN Null ELSE pages[u]]

(* delete_page of a bundle: its rows may fail to go, and so may its output. *)
DeleteBundle(k, rows, output) ==
    LET sources == IF rows THEN DropSource(db, {k}) ELSE db
        all == [sources EXCEPT !.publicReps = {q \in @ : q.key # k}]
    IN /\ up /\ step = "idle" /\ bounds.edits < MaxEdits
       /\ \E f \in Written : f.key = k
       /\ Faults(IF rows /\ output THEN 0 ELSE 1)
       /\ source' = [f \in SourceFiles |-> IF f.key = k THEN Null ELSE source[f]]
       /\ idx' = IF k \in Urls THEN [idx EXCEPT ![k] = Null] ELSE idx
       /\ db' = IF output THEN all ELSE sources
       /\ public' = IF output THEN [public EXCEPT !.pages = Without(@, k)] ELSE public
       /\ shown' = IF output /\ OthersUnder(k) # {} THEN Null ELSE shown
       /\ bounds' = [bounds EXCEPT !.edits = @ + 1, !.faults = @ + (IF rows /\ output THEN 0 ELSE 1)]
       /\ Disturbed
       /\ UNCHANGED <<template, step, force, up>>

(* A layout, the theme or Hugo itself changes, whatever the server is      *)
(* doing: only Render and Fingerprint look, so that any other moment is    *)
(* like one of these.                                                      *)
NewTemplate ==
    /\ up /\ step \in {"idle", "reload"} /\ bounds.edits < MaxEdits
    /\ template' = template + 1
    /\ bounds' = [bounds EXCEPT !.edits = @ + 1]
    /\ Disturbed
    /\ UNCHANGED <<source, public, idx, db, step, force, up, shown>>

-----------------------------------------------------------------------------
(* build_site and publish_changes *)

Goto(from, to) == up /\ step = from /\ step' = to

Failing == Faults(1) /\ bounds' = [bounds EXCEPT !.faults = @ + 1] /\ Disturbed
Going == UNCHANGED <<bounds, calm, booted>>

BeginBuild ==
    /\ Goto("idle", "render")
    /\ db' = BeginRun(db)
    /\ calm' = [calm EXCEPT !.spoilt = FALSE] /\ booted' = FALSE
    /\ UNCHANGED <<source, public, idx, template, force, up, shown, bounds>>

BuildFailsAdvancing ==
    /\ Goto("render", "idle") /\ Failing
    /\ db' = CompleteRun(db)
    /\ UNCHANGED <<source, public, idx, template, force, up, shown>>

(* FailBuildRun: the run stays in the table, in a state nobody reads. *)
BuildFails ==
    /\ Goto("render", "idle") /\ Failing
    /\ db' = [db EXCEPT !.open = Null]
    /\ UNCHANGED <<source, public, idx, template, force, up, shown>>

Renders(u) == {f \in Written : ~source[f].draft /\ Url(f) = u}

(* Of several files with one URL, any may be the one that is kept. *)
Rendered(first) ==
    [u \in Urls |->
        CASE Renders(u) # {} ->
                LET f == IF first \in Renders(u) THEN first ELSE CHOOSE g \in Renders(u) : TRUE
                IN [by |-> f, rev |-> source[f].rev, links |-> source[f].links]
          [] Renders(u) = {} /\ u \in Generated -> [by |-> Null, rev |-> 0, links |-> {}]
          [] OTHER -> Null]

Render(first) ==
    /\ Goto("render", "reload") /\ Going
    /\ public' = [pages |-> Rendered(first), look |-> template, made |-> bounds.edits]
    /\ shown' = IF Contested THEN Null ELSE shown
    /\ UNCHANGED <<source, idx, template, db, force, up>>

ReloadIndex ==
    /\ Goto("reload", "fingerprint") /\ Going
    /\ idx' = public.pages
    /\ UNCHANGED <<source, public, template, db, force, up, shown>>

(* A callback fails, or time runs out before the others are called. *)
ReloadFails ==
    /\ Goto("reload", "fingerprint") /\ Failing
    /\ UNCHANGED <<source, public, idx, template, db, force, up, shown>>

CallbacksSkipped ==
    /\ up /\ step \in {"reload", "fingerprint"} /\ step' = "complete" /\ Failing
    /\ UNCHANGED <<source, public, idx, template, db, force, up, shown>>

(* SyncTemplateFingerprint stores what it compares. *)
Fingerprint ==
    /\ Goto("fingerprint", "sync") /\ Going
    /\ force' = (db.template # template)
    /\ db' = [db EXCEPT !.template = template]
    /\ UNCHANGED <<source, public, idx, template, up, shown>>

(* It cannot be computed, compared or stored: the rows are synchronised    *)
(* without it, and the next build compares again.                          *)
FingerprintFails ==
    /\ Goto("fingerprint", "sync") /\ Failing
    /\ force' = FALSE
    /\ UNCHANGED <<source, public, idx, template, db, up, shown>>

(* The row of a page depends on no other row. *)
Indexed(d, pages, failed, again) ==
    LET us == PagesIn(pages) \ failed
    IN [d EXCEPT !.public = [u \in Urls |-> IF u \in us THEN SyncPublic(d, u, pages, public.look, again)
                                            ELSE d.public[u]],
                 !.publicReps = FactsAfter(@, d.sourceReps, {}, pages, us)[Len(Order)]]

(* PostBuildSync, page by page; a page that fails is only logged. *)
SyncPages(failed) ==
    /\ Goto("sync", "prune")
    /\ failed \subseteq PagesIn(idx)
    /\ IF failed = {} THEN Going ELSE Failing
    /\ db' = Indexed(db, idx, failed, IF force THEN Urls ELSE {})
    /\ UNCHANGED <<source, public, idx, template, force, up, shown>>

Prune ==
    /\ Goto("prune", "complete") /\ Going
    /\ db' = ReconcilePublic(PruneRows(db, idx), idx, {})
    /\ UNCHANGED <<source, public, idx, template, force, up, shown>>

PruneFails ==
    /\ Goto("prune", "complete") /\ Failing
    /\ UNCHANGED <<source, public, idx, template, db, force, up, shown>>

Published(pages) == {<<pages[u].by, pages[u].rev>> : u \in PagesIn(pages)}

CompleteBuild ==
    /\ Goto("complete", "idle")
    /\ db' = ReconcileLatest(CompleteRun(db), idx)
    /\ calm' = [calm EXCEPT !.builds = IF calm.spoilt THEN 0 ELSE IF @ < 2 THEN @ + 1 ELSE 2]
    /\ shown' = IF Contested THEN Null ELSE Published(public.pages)
    /\ UNCHANGED <<source, public, idx, template, force, up, booted, bounds>>

CompleteFails ==
    /\ Goto("complete", "idle") /\ Failing
    /\ db' = [db EXCEPT !.open = Null]
    /\ UNCHANGED <<source, public, idx, template, force, up, shown>>

-----------------------------------------------------------------------------
(* Crash and restart *)

Crash ==
    /\ up /\ bounds.restarts < MaxRestarts
    /\ up' = FALSE /\ step' = "idle" /\ force' = FALSE
    /\ db' = [db EXCEPT !.open = Null]
    /\ bounds' = [bounds EXCEPT !.restarts = @ + 1]
    /\ IF step = "idle" THEN UNCHANGED <<calm, booted>> ELSE Disturbed
    /\ UNCHANGED <<source, public, idx, template, shown>>

(* migrateContentRepresentations fills in what the pages table knows alone. *)
Backfill(d) ==
    [d EXCEPT
        !.publicReps = @ \cup {[key |-> Null, lang |-> d.public[u].lang, slug |-> u, rev |-> d.public[u].rev] :
            u \in {v \in Urls : d.public[v] # Null /\ ~\E q \in @ : q.slug = v /\ q.lang = d.public[v].lang}},
        !.sourceReps = @ \cup {[key |-> k, lang |-> d.drafts[k].lang] : k \in {j \in Keys : d.drafts[j] # Null}}]

Orphans(d, alone) == {k \in Keys : d.drafts[k] # Null /\ k \notin {f.key : f \in alone}}

(* StartupSync: the rows of the public pages, then of the source pages that have no public one. *)
StartupSync(d, pages, failed) ==
    LET one == Indexed(d, pages, failed, {})
        built == UNION {ToSet(SourceSlugCandidates(u)) : u \in PagesIn(pages) \ failed}
        alone == {f \in Written : f.key \notin built}
        two == SyncSources(one, alone)
        three == PruneRows(DropSource(two, Orphans(two, alone)), pages)
    IN ReconcileSources(ReconcilePublic(three, pages, Written))

(* openSiteDB; an incomplete StartupSync ends it. *)
Start(failed) ==
    LET synced == StartupSync(Backfill(db), public.pages, failed)
    IN /\ ~up /\ up' = TRUE
       /\ failed \subseteq PagesIn(public.pages)
       /\ idx' = public.pages
       /\ IF failed = {} THEN /\ db' = IF db.done = NoRun THEN synced ELSE ReconcileLatest(synced, public.pages)
                              /\ booted' = TRUE /\ UNCHANGED <<calm, bounds>>
                         ELSE db' = synced /\ Failing
       /\ UNCHANGED <<source, public, template, step, force, shown>>

-----------------------------------------------------------------------------
Build ==
    \/ BeginBuild \/ BuildFails \/ \E f \in SourceFiles : Render(f)
    \/ ReloadIndex \/ ReloadFails \/ CallbacksSkipped \/ Fingerprint \/ FingerprintFails
    \/ \E failed \in {{}} \cup {{u} : u \in Urls} : SyncPages(failed)
    \/ Prune \/ PruneFails \/ CompleteBuild \/ CompleteFails

StoreNext ==
    \/ \E f \in SourceFiles :
        \/ \E t \in FileTexts, heard \in BOOLEAN : Edit(f, t, heard)
        \/ DeleteTranslation(f)
    \/ \E k \in Keys, rows, output \in BOOLEAN : DeleteBundle(k, rows, output)
    \/ NewTemplate \/ Build \/ Crash
    \/ \E failed \in {{}} \cup {{u} : u \in Urls} : Start(failed)

StoreSpec == StoreInit /\ [][StoreNext]_storeVars

-----------------------------------------------------------------------------
(* A page whose file has the revision its last build is recorded with, and *)
(* which that build recorded as published, is in the public tree with that *)
(* revision, whatever failed or crashed in between: unless two files asked *)
(* for one URL while a page was rendered, when any of them may be the one  *)
(* to get it, or delete_page removed another bundle whose slug is the      *)
(* beginning of its URL.                                                   *)
LastBuiltIsPublished ==
    shown # Null => \A f \in Written :
        LET p == Prior(db, Ident(f))
        IN (p.state = "published" /\ p.built = source[f].rev) => <<f, p.built>> \in Published(public.pages)

(* The report of a completed build names every page whose output is not    *)
(* what the last completed build left, builds that failed or died between  *)
(* the two notwithstanding.                                                *)
ChangesAreReported ==
    [][(step = "complete" /\ shown # Null /\ shown' # shown /\ shown' # Null) =>
        \A f \in SourceFiles : {o \in shown : o[1] = f} # {o \in shown' : o[1] = f} =>
            Ident(f) \in db.open.changes]_storeVars

(* Two builds in a row that nothing disturbs leave no drift and no page in *)
(* an unfinished state: what a failed call, a crash, a moved or deleted    *)
(* page left in the tables is repaired.  (One build is not enough: a page  *)
(* whose URL is not its slug is matched to its source only afterwards.     *)
(* And where Hugo renders a page without a source, at the URL of a page    *)
(* that is gone or a draft, that page's deletion is never complete.)       *)
TwoBuildsSettle ==
    (calm.builds = 2 /\ step = "idle" /\ ~Contested /\ Generated = {}) =>
        /\ db.done.sourceDrift = 0 /\ db.done.publicDrift = 0
        /\ \A i \in DOMAIN db.done.pages :
            db.done.pages[i].state \in {"published", "deleted", "intentionally_unpublished"}

(* After a build that nothing disturbed the published rows are the pages   *)
(* of the public index, as they are: what delete_page or an earlier sync   *)
(* failed to write is made good.                                           *)
RowsMatchIndex ==
    (calm.builds > 0 /\ step = "idle" /\ up) =>
        \A u \in Urls : IF idx[u] = Null THEN db.public[u] = Null
                        ELSE db.public[u] # Null /\ db.public[u].rev = idx[u].rev

(* After an undisturbed start a page has one row: a source row only where  *)
(* no public page stands for the same source.                              *)
OneRowPerPage ==
    booted => \A k \in Keys :
        (db.drafts[k] # Null) <=> \E f \in Written : f.key = k /\ ~\E u \in Urls :
            db.public[u] # Null /\ k \in ToSet(SourceSlugCandidates(u))

(* After a build that nothing disturbed no public fact is kept under the   *)
(* key of a page that did not render it.                                   *)
FactsOfTheRightPage ==
    (calm.builds > 0 /\ step = "idle" /\ ~Contested) =>
        \A q \in db.publicReps :
            (q.key # Null /\ public.pages[q.slug] # Null /\ public.pages[q.slug].by \in Written) =>
                public.pages[q.slug].by.key = q.key

(* What failed calls, crashes, moves and deletions left in the tables is   *)
(* repaired: by one undisturbed build the rows and the keys of the facts,  *)
(* by a start the rows of pages that are not public, by two builds the     *)
(* drift.                                                                  *)
TablesSettle == RowsMatchIndex /\ OneRowPerPage /\ FactsOfTheRightPage /\ TwoBuildsSettle

(* A build that finds a template other than the recorded one and that      *)
(* nothing disturbs leaves no cached count of rendered issues that comes   *)
(* from the output of an earlier template, on the pages whose own text has *)
(* not changed too.                                                        *)
RecheckReachesEveryPage ==
    (calm.builds > 0 /\ force /\ step = "idle" /\ up) =>
        \A u \in Urls : (idx[u] # Null /\ IsContent(u)) => db.public[u].issues = public.look
=============================================================================

----------------------------- MODULE SiteQueries -----------------------------
(***************************************************************************)
(* The read tools that answer in pages or about one page, and the copies   *)
(* they answer from: the files, the source index, whose array and maps no  *)
(* reader locks, the public index, which is replaced as a whole, and the   *)
(* search rows of the database, which follow the public index in a step of *)
(* their own.  One writer at a time (update_page, delete_page, build_site  *)
(* hold ContentMu) changes them while an agent looks a page up, edits it,  *)
(* or reads a list, each call with the next_offset of the call before.     *)
(*                                                                         *)
(* A page stands for the number of its slug, its bundle, its language, its *)
(* date (0: missing), its tags and categories, the words of its text, and  *)
(* whether it is a post or a draft; equal pages have equal revisions.      *)
(***************************************************************************)
EXTENDS Integers, Sequences, FiniteSets, SequencesExt

CONSTANTS SourcePages, \* everything a source file can be
          Start,      \* the sequence of pages the process starts with
          SectionPages, \* rendered section and taxonomy pages: no source, no content
          Rank,       \* how well a page matches the query, as SQLite ranks it
          Query,      \* the words an agent searches
          Tag,        \* the tag it exports
          Langs, Nothing,
          Limits,     \* the limits an agent asks with
          Headroom,   \* factor of overfetchLimit
          MaxHits,    \* how many rows search_content reads (1000)
          ByHand,     \* whether an editor on the host changes files too
          MaxEdits,   \* bound on updates and deletions
          MaxFaults   \* bound on database failures

ASSUME SiteQueriesAssumption ==
    /\ \A p \in SourcePages \cup SectionPages :
          /\ p.slug \in Nat \ {0} /\ p.key \in Nat /\ p.lang \in Langs /\ p.date \in Nat
          /\ IsFiniteSet(p.terms) /\ IsFiniteSet(p.text)
          /\ p.post \in BOOLEAN /\ p.draft \in BOOLEAN
    /\ IsFiniteSet(SourcePages) /\ IsFiniteSet(SectionPages) /\ IsFiniteSet(Langs)
    /\ \A p \in SectionPages, q \in SourcePages \cup SectionPages : p.slug = q.slug => p = q
    /\ \A p, q \in SourcePages : p.slug = q.slug <=> (p.key = q.key /\ p.lang = q.lang)
    /\ Nothing \notin SourcePages /\ Nothing \notin Langs
    /\ Start \in Seq(SourcePages) /\ \A i, j \in DOMAIN Start : Start[i].slug = Start[j].slug => i = j
    /\ Rank \in [SourcePages -> Nat]
    /\ Limits \subseteq Nat \ {0} /\ Headroom \in Nat \ {0} /\ MaxHits \in Nat \ {0}
    /\ ByHand \in BOOLEAN /\ MaxEdits \in Nat /\ MaxFaults \in Nat

VARIABLES files,   \* the source files
          source,  \* the array of pages, how much of it is in use, and where each slug is
          writer,  \* the step the holder of ContentMu is at
          public,  \* the content pages of the public index
          rows,    \* the rows of page_fts, best match first
          call,    \* what the agent asked, was told, and what happened meanwhile (history)
          up,
          edits, faults

queriesVars == <<files, source, writer, public, rows, call, up, edits, faults>>

Smaller(m, n) == IF m < n THEN m ELSE n

SlugsOf(seq) == {seq[i].slug : i \in DOMAIN seq}

Positions(seq) == [s \in SlugsOf(seq) |-> CHOOSE i \in DOMAIN seq : seq[i].slug = s]

InUse == SubSeq(source.slots, 1, source.len)

Live == ToSet(InUse)

FileOf(s) == {p \in files : p.slug = s}

(* The pages at certain positions of a sequence, and those in a set.  Like  *)
(* Ordered, which arranges a set by a total order, they count how many come *)
(* before, so that each can be reasoned about without an induction.         *)
Nth(at, k) == CHOOSE i \in at : Cardinality({j \in at : j < i}) = k - 1
Picked(seq, at) == [k \in 1 .. Cardinality(at) |-> seq[Nth(at, k)]]
Those(seq, S) == Picked(seq, {i \in DOMAIN seq : seq[i] \in S})
FirstOf(seq, n) == SubSeq(seq, 1, Smaller(n, Len(seq)))

Below(S, before, x) == {y \in S : <<y, x>> \in before}
Ordered(S, before) ==
    [i \in 1 .. Cardinality(S) |-> CHOOSE x \in S : Cardinality(Below(S, before, x)) = i - 1]

Pairs == (SourcePages \cup SectionPages) \X (SourcePages \cup SectionPages)

NewerThan(p, q) == p.date > q.date \/ (p.date = q.date /\ p.slug < q.slug)
Newest == {b \in Pairs : NewerThan(b[1], b[2])}

-----------------------------------------------------------------------------
(* Writers *)

NoWriter == [pc |-> "idle", slug |-> 0, from |-> 0, to |-> 0, page |-> Nothing]

\* What the agent's call has lived through (history).
Disturbed(pub) ==
    IF call.pc = "idle" THEN call
    ELSE [call EXCEPT !.quiet = FALSE, !.shrunk = @ \/ ~(public \subseteq pub)]

Written(p) ==
    /\ edits < MaxEdits /\ p \notin files
    /\ files' = (files \ FileOf(p.slug)) \cup {p}
    /\ edits' = edits + 1

WriteFile(p) ==
    /\ up /\ writer.pc = "idle" /\ Written(p)
    /\ writer' = [NoWriter EXCEPT !.pc = "index", !.page = p]
    /\ call' = Disturbed(public)
    /\ UNCHANGED <<source, public, rows, up, faults>>

(* An editor on the host.  What it does during a build is BuildPublish's.  *)
EditByHand(p) ==
    /\ ByHand /\ writer.pc \in {"idle", "index"} /\ Written(p)
    /\ call' = Disturbed(public)
    /\ UNCHANGED <<source, writer, public, rows, up, faults>>

(* A page already known is replaced in its slot, another is appended; the  *)
(* maps are then made again, entry by entry, in place of the old ones.     *)
Upserted(src, p) ==
    IF p.slug \in DOMAIN src.at THEN [src EXCEPT !.slots[src.at[p.slug]] = p]
    ELSE [src EXCEPT !.slots = IF src.len < Len(@) THEN [@ EXCEPT ![src.len + 1] = p]
                                                   ELSE Append(@, p),
                     !.len = @ + 1]

Upsert ==
    /\ up /\ writer.pc = "index"
    /\ source' = Upserted(source, writer.page)
    /\ writer' = [NoWriter EXCEPT !.pc = "clear maps"]
    /\ call' = Disturbed(public)
    /\ UNCHANGED <<files, public, rows, up, edits, faults>>

(* The file goes first; then the remaining pages move forward in their array. *)
Delete(s) ==
    /\ up /\ writer.pc = "idle" /\ edits < MaxEdits /\ s \in DOMAIN source.at
    /\ files' = files \ FileOf(s)
    /\ writer' = [NoWriter EXCEPT !.pc = "shift", !.slug = s, !.from = 1]
    /\ edits' = edits + 1
    /\ call' = Disturbed(public)
    /\ UNCHANGED <<source, public, rows, up, faults>>

ShiftSlot ==
    /\ up /\ writer.pc = "shift" /\ writer.from <= source.len
    /\ IF source.slots[writer.from].slug = writer.slug
       THEN writer' = [writer EXCEPT !.from = @ + 1] /\ UNCHANGED source
       ELSE /\ writer' = [writer EXCEPT !.from = @ + 1, !.to = @ + 1]
            /\ source' = [source EXCEPT !.slots[writer.to + 1] = source.slots[writer.from]]
    /\ call' = Disturbed(public)
    /\ UNCHANGED <<files, public, rows, up, edits, faults>>

\* Mutant: the maps are left as they are.
TruncateOnly ==
    /\ up /\ writer.pc = "shift" /\ writer.from > source.len
    /\ source' = [source EXCEPT !.len = writer.to]
    /\ writer' = [writer EXCEPT !.pc = "unlist"]
    /\ call' = Disturbed(public)
    /\ UNCHANGED <<files, public, rows, up, edits, faults>>
Truncate ==
    /\ up /\ writer.pc = "shift" /\ writer.from > source.len
    /\ source' = [source EXCEPT !.len = writer.to]
    /\ writer' = [writer EXCEPT !.pc = "clear maps"]
    /\ call' = Disturbed(public)
    /\ UNCHANGED <<files, public, rows, up, edits, faults>>

ClearMaps ==
    /\ up /\ writer.pc = "clear maps"
    /\ source' = [source EXCEPT !.at = <<>>]
    /\ writer' = [writer EXCEPT !.pc = "fill maps", !.from = 1]
    /\ call' = Disturbed(public)
    /\ UNCHANGED <<files, public, rows, up, edits, faults>>

Mapped(at, s, i) == [t \in DOMAIN at \cup {s} |-> IF t = s THEN i ELSE at[t]]

FillMap ==
    /\ up /\ writer.pc = "fill maps"
    /\ IF writer.from <= source.len
       THEN /\ source' = [source EXCEPT !.at = Mapped(@, source.slots[writer.from].slug, writer.from)]
            /\ writer' = [writer EXCEPT !.from = @ + 1]
       ELSE /\ writer' = IF writer.slug = 0 THEN NoWriter ELSE [writer EXCEPT !.pc = "unlist"]
            /\ UNCHANGED source
    /\ call' = Disturbed(public)
    /\ UNCHANGED <<files, public, rows, up, edits, faults>>

(* delete_page goes on to the public index, then to the rows, if no        *)
(* translation of the page is left.                                        *)
Unlist ==
    /\ up /\ writer.pc = "unlist"
    /\ LET gone == {p \in public : p.slug = writer.slug /\ \A q \in Live : q.key # p.key}
       IN /\ public' = public \ gone
          /\ call' = Disturbed(public \ gone)
          /\ writer' = IF gone = {} THEN NoWriter ELSE [writer EXCEPT !.pc = "drop row"]
    /\ UNCHANGED <<files, source, rows, up, edits, faults>>

DropRow ==
    /\ up /\ writer.pc = "drop row"
    /\ \/ rows' = Those(rows, {p \in SourcePages : p.slug # writer.slug}) /\ UNCHANGED faults
       \/ faults < MaxFaults /\ faults' = faults + 1 /\ UNCHANGED rows
    /\ writer' = NoWriter
    /\ call' = Disturbed(public)
    /\ UNCHANGED <<files, source, public, up, edits>>

ByBundle == {b \in Pairs : b[1].key < b[2].key \/ (b[1].key = b[2].key /\ b[1].slug < b[2].slug)}

(* A build reads the content tree again into a new array, sorted by        *)
(* bundle; array and maps are assigned one after the other.                *)
Reload ==
    /\ up /\ writer.pc = "idle"
    /\ source' = [source EXCEPT
                    !.len = Cardinality(files),
                    !.slots = Ordered(files, ByBundle)]
    /\ writer' = [NoWriter EXCEPT !.pc = "reload maps"]
    /\ call' = LET c == Disturbed(public)
               IN IF call.pc = "copy" /\ call.array = <<>>
                  THEN [c EXCEPT !.array = source.slots] ELSE c
    /\ UNCHANGED <<files, public, rows, up, edits, faults>>

ReloadMaps ==
    /\ up /\ writer.pc = "reload maps"
    /\ source' = [source EXCEPT !.at = Positions(source.slots)]
    /\ writer' = [writer EXCEPT !.pc = "publish"]
    /\ call' = Disturbed(public)
    /\ UNCHANGED <<files, public, rows, up, edits, faults>>

\* Which of two rows of equal rank comes first nothing depends on.
ByRank == {b \in SourcePages \X SourcePages :
              Rank[b[1]] < Rank[b[2]] \/ (Rank[b[1]] = Rank[b[2]] /\ b[1].slug < b[2].slug)}

Publish ==
    /\ up /\ writer.pc = "publish"
    /\ public' = {p \in Live : ~p.draft}
    /\ call' = Disturbed(public')
    /\ writer' = [writer EXCEPT !.pc = "sync rows"]
    /\ UNCHANGED <<files, source, rows, up, edits, faults>>

SyncRows ==
    /\ up /\ writer.pc = "sync rows"
    /\ \/ rows' = Ordered(public, ByRank) /\ UNCHANGED faults
       \/ faults < MaxFaults /\ faults' = faults + 1 /\ UNCHANGED rows
    /\ writer' = NoWriter
    /\ call' = Disturbed(public)
    /\ UNCHANGED <<files, source, public, up, edits>>

-----------------------------------------------------------------------------
(* Lists in pages *)

ContentPages(index) == index
Sitemap(index) == index \cup SectionPages
RecentPosts(index) == {p \in index : p.post}
GetFeed(index) == index
Exported(index) == {p \in index : Tag \in p.terms}

Score(p) == Cardinality(p.text \cap Query)

\* search_pages wants any of the words, as the search in memory does.
Scored(index) == {p \in index : Score(p) > 0}

ListTools == {"list_pages", "get_sitemap", "get_recent_posts", "get_feed",
              "export_agent_context", "search_pages"}
Validations == {"validate_site", "invalid_only"}

Pool(tool, index) ==
    CASE tool = "list_pages" -> ContentPages(index)
      [] tool = "get_sitemap" -> Sitemap(index)
      [] tool = "get_recent_posts" -> RecentPosts(index)
      [] tool = "get_feed" -> GetFeed(index)
      [] tool = "export_agent_context" -> Exported(index)
      [] tool = "search_pages" -> Scored(index)

ScoreThenDate == {b \in Pairs : \/ Score(b[1]) > Score(b[2])
                                \/ Score(b[1]) = Score(b[2]) /\ NewerThan(b[1], b[2])}

OrderOf(tool) == IF tool = "search_pages" THEN ScoreThenDate ELSE Newest

Listing(tool, index) == Ordered(Pool(tool, index), OrderOf(tool))

Resting == [pc |-> "idle", tool |-> Nothing, limit |-> 0, offset |-> 0, lang |-> Nothing,
            slug |-> 0, got |-> <<>>, hits |-> <<>>, total |-> 0, array |-> <<>>,
            start |-> {}, quiet |-> TRUE, shrunk |-> FALSE]

AskList(tool, limit, lang) ==
    /\ up /\ call.pc = "idle"
    /\ call' = [Resting EXCEPT !.pc = "ask", !.tool = tool, !.limit = limit, !.lang = lang,
                               !.quiet = writer.pc = "idle",
                               !.start = IF tool \in ListTools THEN Pool(tool, public) ELSE {}]
    /\ UNCHANGED <<files, source, writer, public, rows, up, edits, faults>>

\* Mutant: the last page is not announced.
HasMoreOne(total, offset, returned) == offset + returned + 1 < total
HasMore(total, offset, returned) == offset + returned < total

PageOf(seq) == SubSeq(seq, call.offset + 1, Smaller(call.offset + call.limit, Len(seq)))

(* The page asked for, and the next_offset the agent asks with next. *)
Told(seq) ==
    LET page == PageOf(seq)
    IN [call EXCEPT !.got = @ \o page, !.offset = @ + Len(page), !.hits = <<>>, !.array = <<>>,
                    !.pc = IF HasMore(Len(seq), call.offset, Len(page)) THEN "ask" ELSE "done"]

AnswerList ==
    /\ up /\ call.pc = "ask" /\ call.tool \in ListTools
    /\ call' = Told(Listing(call.tool, public))
    /\ UNCHANGED <<files, source, writer, public, rows, up, edits, faults>>

(* search_content asks the rows first, for the best MaxHits of those that  *)
(* match, and afterwards looks each hit up in the public index and drops   *)
(* what is not of the language; no hit, or no database, and it searches    *)
(* the index.                                                              *)
Matches == {p \in SourcePages : Query \subseteq p.text}

Hits(table) == FirstOf(Those(table, Matches), MaxHits)

InLang(p, lang) == lang = Nothing \/ p.lang = lang

AskRows ==
    /\ up /\ call.pc = "ask" /\ call.tool = "search_content"
    /\ \/ /\ call' = [call EXCEPT !.hits = Hits(rows), !.pc = "look up"]
          /\ UNCHANGED faults
       \/ /\ faults < MaxFaults /\ faults' = faults + 1
          /\ call' = [call EXCEPT !.quiet = FALSE, !.pc = "look up"]
    /\ UNCHANGED <<files, source, writer, public, rows, up, edits>>

Found(hits, index, lang) ==
    LET known == Those(hits, {p \in SourcePages : p.slug \in {q.slug : q \in index}})
        current == [i \in DOMAIN known |-> CHOOSE q \in index : q.slug = known[i].slug]
    IN Those(current, {p \in index : InLang(p, lang)})

LatestSlug == {b \in Pairs : \/ Score(b[1]) > Score(b[2])
                             \/ Score(b[1]) = Score(b[2]) /\ b[1].date > b[2].date
                             \/ Score(b[1]) = Score(b[2]) /\ b[1].date = b[2].date /\ b[1].slug > b[2].slug}

Scanned(index, lang) == Ordered({p \in index : Score(p) > 0 /\ InLang(p, lang)}, LatestSlug)

AnswerSearch ==
    /\ up /\ call.pc = "look up"
    /\ call' = Told(IF call.hits # <<>> THEN Found(call.hits, public, call.lang)
                                        ELSE Scanned(public, call.lang))
    /\ UNCHANGED <<files, source, writer, public, rows, up, edits, faults>>

-----------------------------------------------------------------------------
(* The source index, without a lock *)

(* validate_site copies the array; a reload leaves it the old one.         *)
StartCopy ==
    /\ up /\ call.pc = "ask" /\ call.tool \in Validations
    /\ call' = [call EXCEPT !.pc = "copy", !.total = source.len, !.hits = <<>>, !.array = <<>>]
    /\ UNCHANGED <<files, source, writer, public, rows, up, edits, faults>>

CopySlot ==
    /\ up /\ call.pc = "copy" /\ Len(call.hits) < call.total
    /\ LET array == IF call.array = <<>> THEN source.slots ELSE call.array
       IN call' = [call EXCEPT !.hits = Append(@, array[Len(@) + 1])]
    /\ UNCHANGED <<files, source, writer, public, rows, up, edits, faults>>

Invalid == {p \in SourcePages : p.date = 0}

AnswerValidation ==
    /\ up /\ call.pc = "copy" /\ Len(call.hits) = call.total
    /\ call' = Told(IF call.tool = "invalid_only" THEN Those(call.hits, Invalid) ELSE call.hits)
    /\ UNCHANGED <<files, source, writer, public, rows, up, edits, faults>>

(* get_page_for_edit: GetBySlug reads the map, then the slot, which holds  *)
(* the text; the revision is that of the file the entry names, read later. *)
AskPage(s) ==
    /\ up /\ call.pc = "idle"
    /\ call' = [Resting EXCEPT !.pc = "ask", !.tool = "get_page_for_edit", !.slug = s,
                               !.quiet = writer.pc = "idle"]
    /\ UNCHANGED <<files, source, writer, public, rows, up, edits, faults>>

FindSlot ==
    /\ up /\ call.pc = "ask" /\ call.tool = "get_page_for_edit"
    /\ call' = IF call.slug \in DOMAIN source.at
               THEN [call EXCEPT !.total = source.at[call.slug], !.pc = "slot"]
               ELSE [call EXCEPT !.pc = "done"]
    /\ UNCHANGED <<files, source, writer, public, rows, up, edits, faults>>

\* A position behind the end of the array is a panic, an error to the agent.
ReadSlot ==
    /\ up /\ call.pc = "slot"
    /\ call' = IF call.total <= source.len
               THEN [call EXCEPT !.pc = "revision", !.got = <<source.slots[call.total]>>]
               ELSE [call EXCEPT !.pc = "done"]
    /\ UNCHANGED <<files, source, writer, public, rows, up, edits, faults>>

ReadRevision ==
    /\ up /\ call.pc = "revision"
    /\ call' = [call EXCEPT !.pc = "done", !.hits = SetToSeq(FileOf(call.got[1].slug))]
    /\ UNCHANGED <<files, source, writer, public, rows, up, edits, faults>>

(* What an agent edits it writes back with the revision it was given;      *)
(* update_page compares it with the file, under the lock.                  *)
UpdateWhatWasRead(p) ==
    /\ up /\ writer.pc = "idle"
    /\ call.pc = "done" /\ call.tool = "get_page_for_edit" /\ call.hits # <<>>
    /\ p.slug = call.got[1].slug /\ call.hits[1] \in files
    /\ Written(p)
    /\ writer' = [NoWriter EXCEPT !.pc = "index", !.page = p]
    /\ call' = Resting
    /\ UNCHANGED <<source, public, rows, up, faults>>

(* The runtime may notice that a map is read while it is written, and end  *)
(* the process.                                                            *)
MapFault ==
    /\ up /\ call.pc = "ask" /\ call.tool = "get_page_for_edit" /\ writer.pc = "fill maps"
    /\ up' = FALSE
    /\ UNCHANGED <<files, source, writer, public, rows, call, edits, faults>>

Hear ==
    /\ up /\ call.pc = "done"
    /\ call' = Resting
    /\ UNCHANGED <<files, source, writer, public, rows, up, edits, faults>>

-----------------------------------------------------------------------------
(* get_related_content and suggest_links, filtered afterwards by language  *)
(* and by one_per_source_key.                                              *)

Translations(ref) == {p \in public : p.key = ref.key /\ p.slug # ref.slug}

Others(ref) == public \ (Translations(ref) \cup {ref})

Shared(p, ref) == Cardinality(p.terms \cap ref.terms)

Candidates(ref) == {p \in Others(ref) : Shared(p, ref) > 0}

Closest(ref) == {b \in Pairs : \/ Shared(b[1], ref) > Shared(b[2], ref)
                               \/ Shared(b[1], ref) = Shared(b[2], ref) /\ NewerThan(b[1], b[2])}

Ranked(ref) == Ordered(Candidates(ref), Closest(ref))

\* Pages that share no tag and no category are suggested for common words.
InWords(p, ref) == Cardinality(p.text \cap ref.text)

Suggestible(ref) ==
    IF Candidates(ref) # {} THEN Candidates(ref) ELSE {p \in Others(ref) : InWords(p, ref) > 0}

Wordiest(ref) == {b \in Pairs : \/ InWords(b[1], ref) > InWords(b[2], ref)
                                \/ InWords(b[1], ref) = InWords(b[2], ref) /\ NewerThan(b[1], b[2])}

Suggestions(ref) ==
    Ordered(Suggestible(ref), IF Candidates(ref) # {} THEN Closest(ref) ELSE Wordiest(ref))

(* What is of the language, and the first of its bundle.                   *)
Filtered(seq, lang, onePerKey) ==
    LET right == {i \in DOMAIN seq : InLang(seq[i], lang)}
    IN Picked(seq, {i \in right : onePerKey => \A j \in right : j < i => seq[j].key # seq[i].key})

OverfetchLimit(limit) == limit * Headroom

Cut(seq, limit, lang, onePerKey) ==
    LET fetch == IF lang # Nothing \/ onePerKey THEN OverfetchLimit(limit) ELSE limit
    IN FirstOf(Filtered(FirstOf(seq, fetch), lang, onePerKey), limit)

Related(ref, limit, lang, onePerKey) == Cut(Ranked(ref), limit, lang, onePerKey)
Suggested(ref, limit, lang, onePerKey) == Cut(Suggestions(ref), limit, lang, onePerKey)

-----------------------------------------------------------------------------
QueriesInit ==
    /\ files = ToSet(Start)
    /\ source = [slots |-> Start, len |-> Len(Start), at |-> Positions(Start)]
    /\ writer = NoWriter
    /\ public = {p \in ToSet(Start) : ~p.draft}
    /\ rows = Ordered(public, ByRank)
    /\ call = Resting
    /\ up = TRUE
    /\ edits = 0 /\ faults = 0

Editing ==
    \/ \E p \in SourcePages : WriteFile(p) \/ EditByHand(p)
    \/ \E s \in SlugsOf(Start) : Delete(s)
    \/ Upsert \/ ShiftSlot \/ Truncate \/ ClearMaps \/ FillMap \/ Unlist \/ DropRow

Building == Reload \/ ReloadMaps \/ Publish \/ SyncRows

Reading ==
    \/ \E limit \in Limits :
          \/ \E tool \in ListTools \cup Validations : AskList(tool, limit, Nothing)
          \/ \E lang \in Langs \cup {Nothing} : AskList("search_content", limit, lang)
    \/ \E s \in SlugsOf(Start) : AskPage(s)
    \/ AnswerList \/ AskRows \/ AnswerSearch \/ StartCopy \/ CopySlot \/ AnswerValidation
    \/ FindSlot \/ ReadSlot \/ ReadRevision \/ MapFault \/ Hear
    \/ \E p \in SourcePages : UpdateWhatWasRead(p)

QueriesNext == Editing \/ Building \/ Reading

QueriesSpec == QueriesInit /\ [][QueriesNext]_queriesVars

-----------------------------------------------------------------------------
(* Properties *)

Done(tools) == call.pc = "done" /\ call.tool \in tools

\* The rows that match and have fewer than MaxHits better ones that do.
Best(table) ==
    LET fits == {i \in DOMAIN table : table[i] \in Matches}
    IN {table[i] : i \in {j \in fits : Cardinality({k \in fits : k < j}) < MaxHits}}

\* What a call asks for, said without a page; of a search, what is of the
\* language among the best MaxHits rows.
Wanted ==
    CASE call.tool \in ListTools -> Pool(call.tool, public)
      [] call.tool = "validate_site" -> Live
      [] call.tool = "invalid_only" -> Live \cap Invalid
      [] OTHER -> {p \in public :
                      /\ InLang(p, call.lang)
                      /\ IF Best(rows) # {} THEN \E q \in Best(rows) : q.slug = p.slug
                         ELSE p.text \cap Query # {}}

\* Pages read one after the other until has_more is false are, when nothing
\* else happened, everything asked for, each once: limits, offsets, filters
\* and totals fit together in every tool that answers in pages
\* (response.go:119, tools.go:358-620, extended.go:776-845, 1736-1752).
QuietWalksAreExact ==
    Done(ListTools \cup Validations \cup {"search_content"}) /\ call.quiet =>
        /\ Cardinality(SlugsOf(call.got)) = Len(call.got)
        /\ ToSet(call.got) = Wanted

\* While an agent reads list_pages or get_sitemap page by page, builds and
\* edits may go on: as long as the public index loses and changes nothing,
\* no page that was there at the start is skipped, though offsets are
\* positions in a list that grows.
GrowthSkipsNothing ==
    Done(ListTools) /\ ~call.shrunk => call.start \subseteq ToSet(call.got)

\* No walk misses a page: not at rest, and not while the site grows.
WalksMissNothing == QuietWalksAreExact /\ GrowthSkipsNothing

\* search_content is a filtered search by language with a total count
\* (extended.go:723): a walk through it that nothing disturbs returns every
\* page of the language that the query matches and that has its row.  The
\* code does not keep this: it reads MaxHits rows and filters afterwards, so
\* that better matches in another language push pages of this one out.
SearchesFindEveryMatch ==
    Done({"search_content"}) /\ call.quiet =>
        \A p \in public \cap ToSet(rows) \cap Matches :
            InLang(p, call.lang) => p \in ToSet(call.got)

\* Between two writers the positions the maps name are those of the pages: a
\* lookup that no writer overlaps finds its page exactly if there is one, and
\* when no editor was faster than the last build the revision that
\* get_page_for_edit returns is that of the text it returns
\* (source_index.go:127, 396, read/tools.go:822).
QuietLookupsFindTheirPage ==
    Done({"get_page_for_edit"}) /\ call.quiet =>
        /\ call.slug \in SlugsOf(InUse) <=> call.got # <<>>
        /\ \A i \in DOMAIN call.got : call.got[i].slug = call.slug
        /\ Live = files => call.hits = call.got

\* Translations score alike and would fill the answer with one bundle: the
\* pages fetched before one_per_source_key drops them suffice for as many
\* bundles as were asked for, or as there are (tools.go:1366, #1041).
OnePerKeyFillsTheAnswer ==
    writer.pc = "idle" /\ call.pc = "idle" =>
        \A ref \in public, limit \in Limits :
            LET Bundles(S) == Smaller(limit, Cardinality({p.key : p \in S}))
            IN /\ Len(Related(ref, limit, Nothing, TRUE)) = Bundles(Candidates(ref))
               /\ Len(Suggested(ref, limit, Nothing, TRUE)) = Bundles(Suggestible(ref))

\* expected_revision prevents an update from overwriting a change that landed
\* while it was waiting (docs/mutation-coordination-model.md:95).  The code
\* does not keep this for an agent that reads with get_page_for_edit: the text
\* comes from the index, the revision from the file, and between the two an
\* update may have written the file and not yet the index.
UpdatesReplaceWhatWasRead ==
    [][files' # files /\ call.pc = "done" /\ call' = Resting => call.got[1] \in files]_queriesVars

\* GetBySlug answers with the page of the slug it was given.  The code does
\* not keep this either: no reader takes ContentMu, and between the map and
\* the slot a deletion moves the pages forward.
LookupsFindTheirPage ==
    Done({"get_page_for_edit"}) => \A i \in DOMAIN call.got : call.got[i].slug = call.slug
=============================================================================

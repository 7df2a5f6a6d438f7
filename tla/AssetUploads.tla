---------------------------- MODULE AssetUploads ----------------------------
(***************************************************************************)
(* Files that stand beside a page in its bundle: upload_page_asset writes  *)
(* one in a single call, begin_asset_upload / upload_asset_chunk /         *)
(* commit_asset_upload gather one in a staging file of the same directory  *)
(* and rename it, delete_page_asset removes one, and delete_page takes the *)
(* whole directory.  Each write server keeps its uploads in a store of its *)
(* own, in memory; the staging files of all of them share the directory.   *)
(*                                                                         *)
(* One bundle is modelled.  A file is a sequence of pieces, the bytes of   *)
(* one chunk each; Torn is what a chunk cut short leaves behind.           *)
(***************************************************************************)
EXTENDS Naturals, Sequences, FiniteSets

CONSTANTS Servers, Main,     \* servers with the write tools; Main is there from the start
          Calls, InlineCalls,\* requests in flight at once; those that may be single calls
          Uploads, None,     \* upload ids in the order they are drawn
          Names, Svgs,       \* file names, and those that end in .svg
          Pieces, Torn,      \* bytes of a chunk, and of one cut short
          Signatures,        \* pieces an image of the declared type can begin with
          Roots, Barred,     \* <svg>, and pieces with a construct the allowlist refuses
          Sizes, MaxAsset,   \* sizes declared at begin and the largest file, in pieces
          Keys, NoKey,       \* idempotency keys
          KeyedTools,        \* tools whose callers give keys
          Absent,            \* no such file
          MaxFaults          \* bound on failing writes and restarts

(* What a file, an entry of chunkedUploadStore and a page can be.          *)
Data == Seq(Pieces \cup {Torn})
UploadEntries == [server : Servers, name : Names, size : Sizes, want : Data \cup {Absent},
                  chunks : Seq(Pieces), torn : BOOLEAN]
Bundles == [links : SUBSET Names]

ASSUME AssetAssumption ==
    /\ Main \in Servers
    /\ None \notin Uploads \cup Calls \cup UploadEntries /\ NoKey \notin Keys
    /\ Absent \notin Data \cup Bundles
    /\ Svgs \subseteq Names /\ InlineCalls \subseteq Calls
    /\ Sizes \subseteq 1 .. MaxAsset /\ MaxAsset \in Nat /\ MaxFaults \in Nat

VARIABLES page,     \* the bundle has its page, so its directory exists: [links] or Absent
          assets,   \* the files of the bundle: [Names -> data]
          staging,  \* the staging files: [Uploads -> data]
          entries,  \* chunkedUploadStore.entries of every server
          built,    \* servers registered so far
          expired,  \* uploads begun more than the TTL ago
          journal,  \* remembered answers of keyed calls
          lock,     \* hugosite.ContentMu: the call that holds it
          calls,    \* what each handler has in its hands
          made,     \* what each committed upload was made of (history)
          applied,  \* how often a keyed call changed the bundle (history)
          unsure,   \* keyed calls whose record was lost (history)
          faults

files == <<page, assets, staging>>
stores == <<entries, built, expired>>
history == <<made, applied, unsure, faults>>
vars == <<page, assets, staging, entries, built, expired, journal, lock, calls,
          made, applied, unsure, faults>>

Wanted == UNION {[1 .. k -> Pieces] : k \in Sizes \cup {1}}
Tools == {"upload_page_asset", "delete_page_asset"}
KeyedCalls == [tool : Tools, key : Keys]

Idle == [op |-> "none", pc |-> "idle", server |-> Main, upload |-> None,
         name |-> Absent, data |-> Absent, key |-> NoKey, guard |-> Absent,
         force |-> FALSE, blind |-> FALSE, now |-> {}]

Init ==
    /\ page = [links |-> {}]
    /\ assets = [n \in Names |-> Absent]
    /\ staging = [u \in Uploads |-> Absent]
    /\ entries = [u \in Uploads |-> None]
    /\ built = {Main}
    /\ expired = {}
    /\ journal = {}
    /\ lock = None
    /\ calls = [c \in Calls |-> Idle]
    /\ made = [u \in Uploads |-> Absent]
    /\ applied = [r \in KeyedCalls |-> 0]
    /\ unsure = {}
    /\ faults = 0

-----------------------------------------------------------------------------
(* The gate every file passes, however its bytes arrived.  An image is     *)
(* judged by the bytes it begins with, an svg element by element.          *)

SafeSvg(data) ==
    /\ data[1] \in Roots
    /\ \A i \in DOMAIN data : data[i] \notin Barred \cup {Torn}

Valid(data, n) ==
    /\ Len(data) \in 1 .. MaxAsset
    /\ IF n \in Svgs THEN SafeSvg(data) ELSE data[1] \in Signatures

At(c, op, pc) == calls[c].op = op /\ calls[c].pc = pc

Sets(c, pc) == calls' = [calls EXCEPT ![c].pc = pc]

(* The call ends; deferred functions give the content lock back.           *)
Ends(c) ==
    /\ calls' = [calls EXCEPT ![c] = Idle]
    /\ lock' = IF lock = c THEN None ELSE lock

(* pruneExpiredLocked on one server's store: entries older than the TTL at *)
(* the caller's clock are dropped together with their staging files.       *)
Pruned(s, now) == {u \in now : entries[u] # None /\ entries[u].server = s}

(* replay: the answer recorded for this tool and key, if any.              *)
Recorded(tool, k) == {r \in journal : r.tool = tool /\ r.key = k}

ToolOf(c) == IF calls[c].op = "commit" THEN "commit_asset_upload" ELSE calls[c].op

\* Mutant: a repeated call does not look for the answer of the first.
NeverKnown(c, tool) == FALSE

Known(c, tool) == Recorded(tool, calls[c].key) # {}

-----------------------------------------------------------------------------
(* Any handler may end early: a malformed request, a spent quota, a path   *)
(* that fails its checks, a dry run, or ten seconds without the lock.      *)
Refuse(c) ==
    /\ calls[c].pc \in {"checked", "got", "locked"}
    /\ Ends(c)
    /\ UNCHANGED <<files, stores, journal, history>>

(* The poll with TryLock succeeds.                                         *)
TakeLock(c) ==
    /\ calls[c].pc = "checked" /\ calls[c].op # "begin"
    /\ lock = None
    /\ lock' = c
    /\ Sets(c, "locked")
    /\ UNCHANGED <<files, stores, journal, history>>

-----------------------------------------------------------------------------
(* begin_asset_upload: the bundle is looked up under a read lock; the      *)
(* staging file and then the entry are made without the content lock.      *)

BeginCheck(c, s, n) ==
    /\ calls[c] = Idle /\ s \in built
    /\ lock = None /\ page # Absent
    /\ calls' = [calls EXCEPT ![c] = [Idle EXCEPT !.op = "begin", !.pc = "checked",
                                                  !.server = s, !.name = n]]
    /\ UNCHANGED <<files, stores, journal, lock, history>>

(* O_EXCL creation; without its directory it fails and the call ends.      *)
BeginStage(c, u) ==
    /\ At(c, "begin", "checked")
    /\ entries[u] = None /\ staging[u] = Absent /\ made[u] = Absent /\ u \notin expired
    /\ \A d \in Calls : calls[d].upload # u
    /\ IF page = Absent THEN Ends(c) /\ UNCHANGED staging
       ELSE /\ staging' = [staging EXCEPT ![u] = <<>>]
            /\ calls' = [calls EXCEPT ![c].pc = "staged", ![c].upload = u]
            /\ UNCHANGED lock
    /\ UNCHANGED <<page, assets, stores, journal, history>>

Entry(c, size, want) ==
    [server |-> calls[c].server, name |-> calls[c].name, size |-> size,
     want |-> want, chunks |-> <<>>, torn |-> FALSE]

BeginEnter(c, size, want) ==
    LET u == calls[c].upload
        old == Pruned(calls[c].server, expired)
    IN  /\ At(c, "begin", "staged")
        /\ entries' = [v \in Uploads |-> IF v = u THEN Entry(c, size, want)
                                         ELSE IF v \in old THEN None ELSE entries[v]]
        /\ staging' = [v \in Uploads |-> IF v \in old THEN Absent ELSE staging[v]]
        /\ Ends(c)
        /\ UNCHANGED <<page, assets, built, expired, journal, history>>

-----------------------------------------------------------------------------
(* upload_asset_chunk.  The store's mutex is held over the write, so the   *)
(* whole call is one step.  A chunk at an offset already recorded is       *)
(* answered without a write, if it is the same; a new one must begin where *)
(* the last one ended and must fit.                                        *)

Accepts(u, offset) ==
    /\ offset = Len(entries[u].chunks)
    /\ Len(entries[u].chunks) < entries[u].size

(* What the call does to the entry and to the staging file: the piece is   *)
(* appended, or a failing write leaves part of it and the entry as it was. *)
Append1(u, p) ==
    /\ staging[u] # Absent
    /\ \/ /\ staging' = [staging EXCEPT ![u] = Append(@, p)]
          /\ entries' = [entries EXCEPT ![u].chunks = Append(@, p)]
          /\ UNCHANGED faults
       \/ /\ faults < MaxFaults /\ faults' = faults + 1
          /\ Len(staging[u]) < MaxAsset
          /\ staging' = [staging EXCEPT ![u] = Append(@, Torn)]
          /\ entries' = [entries EXCEPT ![u].torn = TRUE]

UploadChunk(s, u, offset, p) ==
    /\ s \in built
    /\ entries[u] # None /\ entries[u].server = s /\ u \notin expired
    /\ Accepts(u, offset)
    /\ Append1(u, p)
    /\ UNCHANGED <<page, assets, built, expired, journal, lock, calls>>
    /\ UNCHANGED <<made, applied, unsure>>

(* Every call of the store drops what has expired, whatever it was asked;  *)
(* a chunk sent for an upload that is gone does nothing else.              *)
Prune(s) ==
    LET old == Pruned(s, expired)
    IN  /\ s \in built /\ old # {}
        /\ entries' = [u \in Uploads |-> IF u \in old THEN None ELSE entries[u]]
        /\ staging' = [u \in Uploads |-> IF u \in old THEN Absent ELSE staging[u]]
        /\ UNCHANGED <<page, assets, built, expired, journal, lock, calls, history>>

-----------------------------------------------------------------------------
(* commit_asset_upload.  The entry is looked up, the staged bytes are read *)
(* and judged before the content lock is taken; under the lock only the    *)
(* page and the destination are looked at again.                           *)

(* get: a stranger, an expired or a finished upload answers not_found, an  *)
(* unfinished one incomplete_upload; neither changes anything more.        *)
CommitGet(c, s, u, k) ==
    LET old == Pruned(s, expired)
    IN  /\ calls[c] = Idle /\ s \in built
        /\ \/ made[u] # Absent /\ entries[u] = None /\ k # NoKey
              /\ calls' = [calls EXCEPT ![c] =
                    [Idle EXCEPT !.op = "commit", !.pc = "not_found", !.server = s,
                                 !.upload = u, !.key = k]]
              /\ UNCHANGED <<entries, staging>>
           \/ /\ entries[u] # None /\ entries[u].server = s /\ u \notin expired
              /\ Len(entries[u].chunks) = entries[u].size
              /\ calls' = [calls EXCEPT ![c] =
                    [Idle EXCEPT !.op = "commit", !.pc = "got", !.server = s, !.upload = u,
                                 !.name = entries[u].name, !.key = k, !.now = expired]]
              /\ entries' = [v \in Uploads |-> IF v \in old THEN None ELSE entries[v]]
              /\ staging' = [v \in Uploads |-> IF v \in old THEN Absent ELSE staging[v]]
        /\ UNCHANGED <<page, assets, built, expired, journal, lock, history>>

NotFound(c) ==
    /\ At(c, "commit", "not_found")
    /\ Ends(c)
    /\ UNCHANGED <<files, stores, journal, history>>

\* Mutant: the entry goes and the staging file stays.
ForgetsFile(c) ==
    /\ entries' = [entries EXCEPT ![calls[c].upload] = None]
    /\ UNCHANGED staging

(* abandon with the clock of CommitGet: the entry, if the store still has  *)
(* it, goes with its staging file, and so does what had expired by then.   *)
Abandon(c) ==
    LET u == calls[c].upload
        s == calls[c].server
        gone == Pruned(s, calls[c].now) \cup
                {v \in {u} : entries[v] # None /\ entries[v].server = s}
    IN  /\ entries' = [v \in Uploads |-> IF v \in gone THEN None ELSE entries[v]]
        /\ staging' = [v \in Uploads |-> IF v \in gone THEN Absent ELSE staging[v]]

(* The bytes cannot be read, are not what the name says, or do not have    *)
(* the hash declared at begin or with this call.                           *)
Doomed(c) ==
    LET u == calls[c].upload
    IN  \/ staging[u] = Absent
        \/ ~Valid(staging[u], calls[c].name)
        \/ entries[u] # None /\ entries[u].want \notin {Absent, staging[u]}

CommitReject(c) ==
    /\ At(c, "commit", "got")
    /\ Abandon(c)
    /\ Ends(c)
    /\ UNCHANGED <<page, assets, built, expired, journal, history>>

(* The entry is only pointed to, so its declared hash is there even when   *)
(* the store has dropped it since; data keeps the bytes that were judged.  *)
CommitRead(c) ==
    LET u == calls[c].upload
        answered == Known(c, "commit_asset_upload")
    IN  /\ At(c, "commit", "got") /\ ~Doomed(c)
        /\ IF answered \/ assets[calls[c].name] # Absent
           THEN Ends(c)
           ELSE /\ calls' = [calls EXCEPT ![c].pc = "checked", ![c].data = staging[u]]
                /\ UNCHANGED lock
        /\ UNCHANGED <<files, stores, journal, history>>

(* Under the lock the page is gone: the upload is abandoned.               *)
CommitNoPage(c) ==
    /\ At(c, "commit", "locked") /\ page = Absent
    /\ Abandon(c)
    /\ Ends(c)
    /\ UNCHANGED <<page, assets, built, expired, journal, history>>

\* Mutant: the destination is not looked at again under the lock.
NeverTaken(n) == FALSE

Taken(n) == assets[n] # Absent

(* os.Rename replaces what stands at its destination.  It fails when the   *)
(* staging file is gone, and the call ends with the entry left as it is.   *)
CommitRename(c) ==
    LET u == calls[c].upload
        n == calls[c].name
    IN  /\ At(c, "commit", "locked") /\ page # Absent
        /\ IF Taken(n) \/ staging[u] = Absent
           THEN Ends(c) /\ UNCHANGED <<assets, staging, made>>
           ELSE /\ assets' = [assets EXCEPT ![n] = staging[u]]
                /\ staging' = [staging EXCEPT ![u] = Absent]
                /\ made' = [made EXCEPT ![u] =
                      [judged |-> staging[u] = calls[c].data,
                       whole |-> staging[u] = entries[u].chunks,
                       excused |-> entries[u].torn /\ entries[u].want = Absent,
                       key |-> calls[c].key]]
                /\ Sets(c, "renamed") /\ UNCHANGED lock
        /\ UNCHANGED <<page, stores, journal, applied, unsure, faults>>

(* consume: the entry goes, the staging file is not touched.               *)
CommitConsume(c) ==
    LET u == calls[c].upload
        s == calls[c].server
        old == Pruned(s, calls[c].now)
    IN  /\ At(c, "commit", "renamed")
        /\ entries' = [v \in Uploads |->
              IF v \in old \/ (v = u /\ entries[v] # None /\ entries[v].server = s)
              THEN None ELSE entries[v]]
        /\ staging' = [v \in Uploads |-> IF v \in old THEN Absent ELSE staging[v]]
        /\ Sets(c, "changed")
        /\ UNCHANGED <<page, assets, built, expired, journal, lock, history>>

-----------------------------------------------------------------------------
(* upload_page_asset and delete_page_asset: the bundle is looked up under  *)
(* a read lock, everything else happens under the content lock.            *)

UploadCheck(c, n, d, k) ==
    /\ calls[c] = Idle
    /\ lock = None /\ page # Absent
    /\ Valid(d, n)
    /\ calls' = [calls EXCEPT ![c] =
          [Idle EXCEPT !.op = "upload_page_asset", !.pc = "checked",
                       !.name = n, !.data = d, !.key = k]]
    /\ UNCHANGED <<files, stores, journal, lock, history>>

(* A recorded answer is given again, an occupied name refused.             *)
Changes(c, tool) ==
    IF calls[c].key = NoKey THEN applied
    ELSE [applied EXCEPT ![[tool |-> tool, key |-> calls[c].key]] = IF @ < 2 THEN @ + 1 ELSE @]

UploadWrite(c) ==
    LET n == calls[c].name
    IN  /\ At(c, "upload_page_asset", "locked")
        /\ IF page = Absent \/ Known(c, "upload_page_asset") \/ assets[n] # Absent
           THEN Ends(c) /\ UNCHANGED <<assets, applied>>
           ELSE /\ assets' = [assets EXCEPT ![n] = calls[c].data]
                /\ applied' = Changes(c, "upload_page_asset")
                /\ Sets(c, "changed") /\ UNCHANGED lock
        /\ UNCHANGED <<page, staging, stores, journal, made, unsure, faults>>

Matches(g, n) ==
    \/ g.of = "asset" /\ g.is = assets[n]
    \/ g.of = "page" /\ page # Absent /\ g.is = page.links

(* The guard of a delete is the hash of the asset or the page's revision,  *)
(* which stands here for the names its text mentions, as the caller has    *)
(* read it just before.                                                    *)
DeleteCheck(c, n, g, f, k) ==
    /\ calls[c] = Idle
    /\ lock = None /\ page # Absent /\ Matches(g, n)
    /\ calls' = [calls EXCEPT ![c] =
          [Idle EXCEPT !.op = "delete_page_asset", !.pc = "checked",
                       !.name = n, !.guard = g, !.force = f, !.key = k]]
    /\ UNCHANGED <<files, stores, journal, lock, history>>

Referenced(n) == page # Absent /\ n \in page.links

(* The scan for references fails, or cannot read the file that has one:    *)
(* that is logged, and the delete goes on as if there were none.           *)
Scan(c, n, blind) ==
    IF blind
    THEN Referenced(n) /\ ~calls[c].force /\ faults < MaxFaults /\ faults' = faults + 1
    ELSE UNCHANGED faults

DeleteRead(c) ==
    LET n == calls[c].name
    IN  /\ At(c, "delete_page_asset", "locked")
        /\ \E blind \in BOOLEAN :
              /\ Scan(c, n, blind)
              /\ IF \/ Known(c, "delete_page_asset") \/ assets[n] = Absent
                    \/ ~Matches(calls[c].guard, n)
                    \/ Referenced(n) /\ ~calls[c].force /\ ~blind
                 THEN Ends(c)
                 ELSE /\ calls' = [calls EXCEPT ![c].pc = "judged", ![c].blind = blind]
                      /\ UNCHANGED lock
        /\ UNCHANGED <<files, stores, journal, made, applied, unsure>>

DeleteRemove(c) ==
    /\ At(c, "delete_page_asset", "judged")
    /\ assets' = [assets EXCEPT ![calls[c].name] = Absent]
    /\ applied' = Changes(c, "delete_page_asset")
    /\ Sets(c, "changed")
    /\ UNCHANGED <<page, staging, stores, journal, lock, made, unsure, faults>>

(* remember: a failure is logged and the call succeeds without a record.   *)
Remember(c) ==
    LET mine == [tool |-> ToolOf(c), key |-> calls[c].key]
    IN  /\ calls[c].pc = "changed"
        /\ \/ /\ journal' = IF calls[c].key = NoKey THEN journal ELSE journal \cup {mine}
              /\ UNCHANGED <<unsure, faults>>
           \/ /\ calls[c].key # NoKey /\ faults < MaxFaults
              /\ faults' = faults + 1
              /\ unsure' = unsure \cup {mine}
              /\ UNCHANGED journal
        /\ Ends(c)
        /\ UNCHANGED <<files, stores, made, applied>>

-----------------------------------------------------------------------------
(* What other parts do to the bundle, each under the content lock.         *)

EditPage(l) ==
    /\ lock = None /\ page # Absent /\ page' = [links |-> l]
    /\ UNCHANGED <<assets, staging, stores, journal, lock, calls, history>>

(* delete_page of the last language: RemoveAll takes staging files too.    *)
DeletePage ==
    /\ lock = None /\ page # Absent
    /\ page' = Absent
    /\ assets' = [n \in Names |-> Absent]
    /\ staging' = [u \in Uploads |-> Absent]
    /\ UNCHANGED <<stores, journal, lock, calls, history>>

CreatePage ==
    /\ lock = None /\ page = Absent
    /\ page' = [links |-> {}]
    /\ UNCHANGED <<assets, staging, stores, journal, lock, calls, history>>

(* A server is registered: the first ones when the process starts, one for *)
(* another exposure profile when the first client asks for it.  Each       *)
(* registration sweeps the staging files under the content root.           *)
Sweep == staging' = [u \in Uploads |-> Absent]

Register(s) ==
    /\ s \notin built
    /\ built' = built \cup {s}
    /\ Sweep
    /\ UNCHANGED <<page, assets, entries, expired, journal, lock, calls, history>>

(* The process dies and starts again; the calls in flight are lost.        *)
Restart ==
    /\ faults < MaxFaults /\ faults' = faults + 1
    /\ unsure' = unsure \cup
          {[tool |-> ToolOf(c), key |-> calls[c].key] :
              c \in {d \in Calls : calls[d].pc = "changed" /\ calls[d].key # NoKey}}
    /\ calls' = [c \in Calls |-> Idle]
    /\ lock' = None
    /\ entries' = [u \in Uploads |-> None]
    /\ built' = {Main}
    /\ Sweep
    /\ UNCHANGED <<page, assets, expired, journal, made, applied>>

(* Fifteen minutes pass for an upload.                                     *)
Expire(u) ==
    /\ entries[u] # None /\ u \notin expired
    /\ expired' = expired \cup {u}
    /\ UNCHANGED <<files, entries, built, journal, lock, calls, history>>

KeysFor(tool) == IF tool \in KeyedTools THEN Keys \cup {NoKey} ELSE {NoKey}

Guards == [of : {"asset"}, is : Wanted] \cup [of : {"page"}, is : SUBSET Names]

Chunked(c) ==
    \/ \E s \in Servers, n \in Names : BeginCheck(c, s, n)
    \/ \E u \in Uploads : BeginStage(c, u)
    \/ \E size \in Sizes :
          \E w \in {Absent} \cup {d \in Wanted : Len(d) = size /\ Valid(d, calls[c].name)} :
             BeginEnter(c, size, w)
    \/ \E s \in Servers, u \in Uploads, k \in KeysFor("commit_asset_upload") :
          CommitGet(c, s, u, k)
    \/ NotFound(c) \/ CommitReject(c) \/ CommitRead(c) \/ CommitNoPage(c)
    \/ CommitRename(c) \/ CommitConsume(c)

Inline(c) ==
    \/ \E n \in Names, p \in Pieces, k \in KeysFor("upload_page_asset") :
          UploadCheck(c, n, <<p>>, k)
    \/ UploadWrite(c)
    \/ \E n \in Names, g \in Guards, f \in BOOLEAN, k \in KeysFor("delete_page_asset") :
          DeleteCheck(c, n, g, f, k)
    \/ DeleteRead(c) \/ DeleteRemove(c)

Next ==
    \/ \E c \in Calls : Chunked(c) \/ Remember(c) \/ Refuse(c) \/ TakeLock(c)
    \/ \E c \in InlineCalls : Inline(c)
    \/ \E s \in Servers, u \in Uploads, p \in Pieces, o \in 0 .. MaxAsset :
          UploadChunk(s, u, o, p)
    \/ \E s \in Servers : Prune(s) \/ Register(s)
    \/ \E l \in SUBSET Names : EditPage(l)
    \/ \E u \in Uploads : Expire(u)
    \/ DeletePage \/ CreatePage \/ Restart

Spec == Init /\ [][Next]_vars

-----------------------------------------------------------------------------
(* Every file a tool put into the bundle has passed the gate: the bytes a  *)
(* commit judged before it took the lock are the bytes it renames.         *)
GatePassed == \A n \in Names : assets[n] # Absent => Valid(assets[n], n)

(* A committed file is what the commit judged, and what the answers to its *)
(* chunks acknowledged; only a chunk cut short in an upload that declared  *)
(* no hash can leave something else in it.                                 *)
MadeOfItsChunks ==
    \A u \in Uploads : made[u] # Absent =>
        /\ made[u].judged
        /\ made[u].whole \/ made[u].excused

(* No step between a verdict on the bytes and their arrival in the bundle  *)
(* changes them.                                                           *)
FilesAreWhatWasJudged == GatePassed /\ MadeOfItsChunks

(* A staging file belongs to an entry of some server or to a call of       *)
(* begin_asset_upload that is about to make one: none is left behind by an *)
(* expiry, a rejected commit, a page that went away or a restart.          *)
NoStrayStaging ==
    \A u \in Uploads : staging[u] # Absent =>
        \/ entries[u] # None
        \/ \E c \in Calls : At(c, "begin", "staged") /\ calls[c].upload = u

(* A keyed upload_page_asset or delete_page_asset, however often it is     *)
(* retried, changes the bundle once, unless the record of its answer was   *)
(* lost to a failing write or a restart.                                   *)
KeyedOnce ==
    \A r \in KeyedCalls : applied[r] > 1 => r \in unsure

(* A file of the bundle is never overwritten: it disappears with its page, *)
(* or by a delete whose hash or revision is the present one and which, if  *)
(* the page mentions the file, was forced or could not read the page.      *)
OnlyCheckedRemovals ==
    [][\A n \in Names : assets[n] # Absent /\ assets'[n] # assets[n] =>
          /\ assets'[n] = Absent
          /\ \/ page' = Absent
             \/ \E c \in Calls :
                   /\ At(c, "delete_page_asset", "judged") /\ calls[c].name = n
                   /\ Matches(calls[c].guard, n)
                   /\ Referenced(n) => calls[c].force \/ calls[c].blind]_vars

(* chunked_upload_store.go says of the sweep that there is no live entry a *)
(* staging file it removes could still belong to.                          *)
SweepTakesOrphansOnly ==
    [][\A u \in Uploads :
          built' # built /\ staging[u] # Absent /\ staging'[u] = Absent
              => entries'[u] = None]_vars

(* The description of commit_asset_upload: with an idempotency_key the     *)
(* exact same commit can be replayed safely after a timeout.               *)
CommitReplays ==
    \A c \in Calls : At(c, "commit", "not_found") =>
        ~ (/\ made[calls[c].upload] # Absent
           /\ made[calls[c].upload].key = calls[c].key
           /\ Known(c, "commit_asset_upload"))
=============================================================================

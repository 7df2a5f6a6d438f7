----------------------------- MODULE AssetProofs -----------------------------
(***************************************************************************)
(* The properties of the files beside a page, for any number of servers,   *)
(* uploads, calls, names, sizes, generations and faults.  Nothing under    *)
(* the content lock looks at the staged bytes again, so what keeps them    *)
(* as they were judged is in other places: a complete entry takes no chunk,*)
(* an id is drawn only when no call has it in hand, and an entry that goes *)
(* takes its file along.  The invariant says so of every call.             *)
(***************************************************************************)
EXTENDS HeroImages, TLAPS

(* What a handler of the asset tools has in its hands.                     *)
Handlers ==
    [op : {"none", "begin", "commit"} \cup Tools,
     pc : {"idle", "checked", "staged", "not_found", "got", "locked", "judged", "renamed",
           "changed"},
     server : Servers, upload : Uploads \cup {None}, name : Names \cup {Absent},
     data : Data \cup {Absent}, key : Keys \cup {NoKey}, guard : Guards \cup {Absent},
     force : BOOLEAN, blind : BOOLEAN, now : SUBSET Uploads]

BundleType ==
    /\ page \in Bundles \cup {Absent}
    /\ assets \in [Names -> Data \cup {Absent}]
    /\ staging \in [Uploads -> Data \cup {Absent}]
    /\ entries \in [Uploads -> UploadEntries \cup {None}]
    /\ built \subseteq Servers /\ expired \subseteq Uploads
    /\ calls \in [Calls -> Handlers]
    /\ made \in [Uploads -> [judged : BOOLEAN, whole : BOOLEAN, excused : BOOLEAN,
                             key : Keys \cup {NoKey}] \cup {Absent}]
    /\ applied \in [KeyedCalls -> Nat]

(* The content lock is held exactly by the call inside its section.        *)
Held == {"locked", "judged", "renamed", "changed"}
LockOf(c) == lock = c <=> calls[c].pc \in Held

(* The tool of a call, by where it is.                                     *)
OpOf(c) ==
    LET h == calls[c]
    IN  /\ h.pc \in {"got", "renamed"} => h.op = "commit"
        /\ h.pc = "judged" => h.op = "delete_page_asset"
        /\ h.pc = "staged" => h.op = "begin"
        /\ h.pc = "changed" => h.op \in {"commit"} \cup Tools
        /\ h.pc \in {"locked", "checked"} => h.op # "none"
        /\ h.op = "begin" => h.pc \in {"checked", "staged"}
        /\ h.op \in Tools \/ (h.op = "begin" /\ h.pc = "checked") => h.name \in Names

(* An id begin_asset_upload has drawn is in its hands alone.               *)
StagedOf(c) ==
    LET u == calls[c].upload
    IN  At(c, "begin", "staged") =>
            /\ u \in Uploads /\ calls[c].name \in Names
            /\ entries[u] = None /\ made[u] = Absent /\ u \notin expired
            /\ staging[u] \in {<<>>, Absent}
            /\ \A d \in Calls : calls[d].upload = u => d = c

(* A commit works on a complete upload; once judged its staged bytes are   *)
(* the ones judged, or gone.                                               *)
CommitOf(c) ==
    LET h == calls[c]
        u == h.upload
    IN  /\ h.op = "commit" => u \in Uploads
        /\ h.op = "commit" /\ h.pc \in {"got", "checked", "locked"} =>
              /\ h.name \in Names
              /\ entries[u] # None => Len(entries[u].chunks) = entries[u].size
        /\ h.op = "commit" /\ h.pc \in {"checked", "locked"} =>
              /\ h.data \in Data /\ Valid(h.data, h.name)
              /\ staging[u] # Absent => staging[u] = h.data
              /\ staging[u] # Absent /\ entries[u] # None => entries[u].want \in {Absent, h.data}
        /\ At(c, "commit", "renamed") => staging[u] = Absent

(* What upload_page_asset writes was judged when the call began.           *)
WriteOf(c) ==
    calls[c].op = "upload_page_asset" /\ calls[c].pc \in {"checked", "locked"} =>
        calls[c].data \in Data /\ Valid(calls[c].data, calls[c].name)

(* What delete_page_asset found under the lock is still so when it removes.*)
DeleteOf(c) ==
    At(c, "delete_page_asset", "judged") =>
        /\ Matches(calls[c].guard, calls[c].name)
        /\ Referenced(calls[c].name) => calls[c].force \/ calls[c].blind
        /\ ~Known(c, "delete_page_asset")

CallInv(c) == LockOf(c) /\ OpOf(c) /\ StagedOf(c) /\ CommitOf(c) /\ WriteOf(c) /\ DeleteOf(c)

(* The staging file of an entry holds its chunks, or more than those once  *)
(* a chunk was cut short.                                                  *)
EntryInv ==
    \A u \in Uploads : entries[u] # None =>
        /\ entries[u].want # Absent => Len(entries[u].want) = entries[u].size
        /\ staging[u] # Absent =>
              \/ staging[u] = entries[u].chunks
              \/ entries[u].torn /\ Len(staging[u]) > Len(entries[u].chunks)

(* A keyed call that changed the bundle has its record, has lost it, or is *)
(* about to make it.                                                       *)
AppliedInv ==
    \A r \in KeyedCalls :
        /\ applied[r] > 1 => r \in unsure
        /\ applied[r] > 0 =>
              \/ r \in journal \cup unsure
              \/ \E c \in Calls : At(c, r.tool, "changed") /\ calls[c].key = r.key

BundleInv ==
    /\ BundleType
    /\ lock \in Calls \cup {None}
    /\ \A c \in Calls : CallInv(c)
    /\ EntryInv /\ AppliedInv
    /\ GatePassed /\ MadeOfItsChunks /\ NoStrayStaging

-----------------------------------------------------------------------------
(* Handlers.                                                               *)
LEMMA IdleHandler ==
  /\ Idle \in Handlers /\ Idle.pc = "idle" /\ Idle.op = "none" /\ Idle.upload = None
  BY AssetAssumption DEF AssetAssumption, Idle, Handlers

(* A call that ends has nothing to answer for.                             *)
LEMMA IdleCall ==
  ASSUME NEW c \in Calls, calls'[c] = Idle, lock' # c
  PROVE  CallInv(c)'
  BY IdleHandler
  DEF CallInv, LockOf, OpOf, StagedOf, CommitOf, WriteOf, DeleteOf, At, Held, Tools

LEMMA BundleInit == Init => BundleInv
<1> SUFFICES ASSUME Init PROVE BundleInv
  OBVIOUS
<1>1. \A c \in Calls : calls[c] = Idle /\ lock # c
  BY AssetAssumption DEF Init, AssetAssumption
<1>2. BundleType
  <2>1. page \in Bundles BY DEF Init, Bundles
  <2>2. calls \in [Calls -> Handlers] BY IdleHandler DEF Init
  <2>3. applied \in [KeyedCalls -> Nat] BY DEF Init
  <2>4. QED BY <2>1, <2>2, <2>3, AssetAssumption DEF Init, BundleType, AssetAssumption
<1>3. \A c \in Calls : CallInv(c)
  BY <1>1, IdleHandler
  DEF CallInv, LockOf, OpOf, StagedOf, CommitOf, WriteOf, DeleteOf, At, Held, Tools
<1>4. EntryInv /\ GatePassed /\ MadeOfItsChunks /\ NoStrayStaging
  BY DEF Init, EntryInv, GatePassed, MadeOfItsChunks, NoStrayStaging
<1>5. AppliedInv
  <2>1. \A r \in KeyedCalls : applied[r] = 0 BY DEF Init
  <2>2. QED BY <2>1 DEF AppliedInv
<1>6. QED BY <1>2, <1>3, <1>4, <1>5 DEF Init, BundleInv

-----------------------------------------------------------------------------
(* Steps that move one call on and drop some entries with their files.     *)
Dropped(gone) ==
    /\ entries' = [v \in Uploads |-> IF v \in gone THEN None ELSE entries[v]]
    /\ staging' = [v \in Uploads |-> IF v \in gone THEN Absent ELSE staging[v]]

(* The call in hand is the one that moves; it neither leaves an id it has  *)
(* staged nor a record it still has to make, and takes no staged id.       *)
Moved(c) ==
    /\ CallInv(c)'
    /\ calls[c].pc \notin {"staged", "changed"}
    /\ \A d \in Calls : At(d, "begin", "staged") => calls'[c].upload # calls[d].upload

LEMMA MovingKeeps ==
  ASSUME BundleInv, NEW gone, \A v \in gone : v \in Uploads /\ entries[v] # None, Dropped(gone),
         UNCHANGED <<page, assets, built, expired, journal, made, applied, unsure>>,
         calls' \in [Calls -> Handlers], lock' \in Calls \cup {None},
         \A d \in Calls : \/ Moved(d)
                          \/ calls'[d] = calls[d] /\ (lock' = d <=> lock = d)
  PROVE  BundleInv'
<1> USE DEF BundleInv
<1>1. BundleType'
  <2>1. entries' \in [Uploads -> UploadEntries \cup {None}] BY DEF Dropped, BundleType
  <2>2. staging' \in [Uploads -> Data \cup {Absent}] BY DEF Dropped, BundleType
  <2>3. QED BY <2>1, <2>2 DEF BundleType
<1>2. \A v \in Uploads : /\ entries'[v] # None => entries'[v] = entries[v] /\ v \notin gone
                         /\ staging'[v] # Absent => staging'[v] = staging[v] /\ v \notin gone
                         /\ entries[v] = None => entries'[v] = None /\ staging'[v] = staging[v]
                         /\ staging[v] = Absent => staging'[v] = Absent
  BY DEF Dropped
<1>3. ASSUME NEW d \in Calls PROVE CallInv(d)'
  <2>1. CASE Moved(d) BY <2>1 DEF Moved
  <2>2. CASE calls'[d] = calls[d] /\ (lock' = d <=> lock = d)
    <3>1. LockOf(d)' BY <2>2 DEF CallInv, LockOf
    <3>2. OpOf(d)' BY <2>2 DEF CallInv, OpOf
    <3>3. StagedOf(d)'
      <4> SUFFICES ASSUME At(d, "begin", "staged")
                   PROVE StagedOf(d)'
        BY <2>2 DEF StagedOf, At
      <4> DEFINE u == calls[d].upload
      <4>1. /\ u \in Uploads /\ calls[d].name \in Names
            /\ entries[u] = None /\ made[u] = Absent /\ u \notin expired
            /\ staging[u] \in {<<>>, Absent}
            /\ \A e \in Calls : calls[e].upload = u => e = d
        BY DEF CallInv, StagedOf
      <4>2. entries'[u] = None /\ staging'[u] = staging[u] BY <1>2, <4>1
      <4>3. \A e \in Calls : calls'[e].upload = u => e = d BY <4>1 DEF Moved
      <4>4. QED BY <2>2, <4>1, <4>2, <4>3 DEF StagedOf
    <3>4. CommitOf(d)' BY <1>2, <2>2 DEF CallInv, CommitOf, At
    <3>5. WriteOf(d)' BY <2>2 DEF CallInv, WriteOf
    <3>6. DeleteOf(d)' BY <2>2 DEF CallInv, DeleteOf, At, Matches, Referenced, Known, Recorded
    <3>7. QED BY <3>1, <3>2, <3>3, <3>4, <3>5, <3>6 DEF CallInv
  <2>3. QED BY <2>1, <2>2
<1>4. EntryInv' BY <1>2 DEF EntryInv
<1>5. AppliedInv' BY DEF AppliedInv, Moved, At
<1>6. GatePassed' /\ MadeOfItsChunks' BY DEF GatePassed, MadeOfItsChunks
<1>7. NoStrayStaging'
  <2> SUFFICES ASSUME NEW v \in Uploads, staging'[v] # Absent, entries'[v] = None
               PROVE \E c \in Calls : At(c, "begin", "staged")' /\ calls'[c].upload = v
    BY DEF NoStrayStaging
  <2>1. v \notin gone /\ staging[v] # Absent /\ entries[v] = None BY <1>2 DEF Dropped
  <2>2. PICK c \in Calls : At(c, "begin", "staged") /\ calls[c].upload = v
    BY <2>1 DEF NoStrayStaging
  <2>3. calls'[c] = calls[c] BY <2>2 DEF Moved, At
  <2>4. QED BY <2>2, <2>3 DEF At
<1>8. QED BY <1>1, <1>3, <1>4, <1>5, <1>6, <1>7

(* Nothing dropped.                                                        *)
LEMMA NothingDropped ==
  ASSUME BundleType, UNCHANGED <<staging, entries>>
  PROVE  Dropped({})
  BY DEF BundleType, Dropped

(* A call that ends anywhere before it has changed anything.               *)
LEMMA EndingKeeps ==
  ASSUME BundleInv, NEW c \in Calls, calls[c].pc \notin {"staged", "changed"}, Ends(c),
         NEW gone, \A v \in gone : v \in Uploads /\ entries[v] # None, Dropped(gone),
         UNCHANGED <<page, assets, built, expired, journal, made, applied, unsure>>
  PROVE  BundleInv'
<1>1. calls' \in [Calls -> Handlers] BY IdleHandler DEF Ends, BundleInv, BundleType
<1>2. calls'[c] = Idle /\ \A d \in Calls : d # c => calls'[d] = calls[d]
  BY DEF Ends, BundleInv, BundleType
<1>3. lock' \in Calls \cup {None} /\ lock' # c /\ \A d \in Calls : d # c => (lock' = d <=> lock = d)
  BY AssetAssumption DEF Ends, BundleInv, AssetAssumption
<1>4. CallInv(c)' BY <1>2, <1>3, IdleCall
<1>5. \A d \in Calls : At(d, "begin", "staged") => calls'[c].upload # calls[d].upload
  <2>1. \A d \in Calls : At(d, "begin", "staged") => calls[d].upload # None
    BY AssetAssumption DEF BundleInv, CallInv, StagedOf, AssetAssumption
  <2>2. QED BY <1>2, <2>1, IdleHandler
<1>6. Moved(c) BY <1>4, <1>5 DEF Moved
<1>7. QED BY <1>1, <1>2, <1>3, <1>6, MovingKeeps

(* A handler with another program counter, and one that begins.            *)
LEMMA HandlerTypes ==
  /\ \A h \in Handlers, s \in {"checked", "staged", "locked", "judged", "renamed", "changed"} :
       [h EXCEPT !.pc = s] \in Handlers
  /\ \A h \in Handlers, d \in Data :
       [h EXCEPT !.pc = "checked", !.data = d] \in Handlers
  /\ \A h \in Handlers, u \in Uploads :
       [h EXCEPT !.pc = "staged", !.upload = u] \in Handlers
  BY DEF Handlers

(* A call that begins or moves within one handler: what remains is what it *)
(* says itself.                                                            *)
LEMMA SteppingKeeps ==
  ASSUME BundleInv, NEW c \in Calls, NEW h \in Handlers, calls' = [calls EXCEPT ![c] = h],
         calls[c].pc \notin {"staged", "changed"}, CallInv(c)',
         h.upload = calls[c].upload \/ (\A d \in Calls : At(d, "begin", "staged") =>
                                            h.upload # calls[d].upload),
         lock' \in Calls \cup {None},
         \A d \in Calls : d # c => (lock' = d <=> lock = d),
         NEW gone, \A v \in gone : v \in Uploads /\ entries[v] # None, Dropped(gone),
         UNCHANGED <<page, assets, built, expired, journal, made, applied, unsure>>
  PROVE  BundleInv'
<1>1. calls'[c] = h /\ (\A d \in Calls : d # c => calls'[d] = calls[d])
      /\ calls' \in [Calls -> Handlers]
  BY DEF BundleInv, BundleType
<1>2. \A d \in Calls : At(d, "begin", "staged") => calls'[c].upload # calls[d].upload
  <2>1. \A d \in Calls : At(d, "begin", "staged") => calls[d].upload # calls[c].upload
    BY DEF BundleInv, CallInv, StagedOf, At
  <2>2. QED BY <1>1, <2>1
<1>3. Moved(c) BY <1>1, <1>2 DEF Moved
<1>4. QED BY <1>1, <1>3, MovingKeeps

LEMMA RefuseKeeps ==
  ASSUME BundleInv, NEW c \in Calls, Refuse(c) \/ NotFound(c)
  PROVE  BundleInv'
<1>1. UNCHANGED <<page, assets, staging, entries, built, expired, journal, made, applied, unsure>>
  BY DEF Refuse, NotFound, files, stores, history
<1>2. Dropped({}) BY <1>1, NothingDropped DEF BundleInv
<1>3. Ends(c) /\ calls[c].pc \notin {"staged", "changed"} BY DEF Refuse, NotFound, At
<1>4. QED BY <1>1, <1>2, <1>3, EndingKeeps

LEMMA TakeLockKeeps ==
  ASSUME BundleInv, NEW c \in Calls, TakeLock(c)
  PROVE  BundleInv'
<1> USE DEF BundleInv
<1>1. UNCHANGED <<page, assets, staging, entries, built, expired, journal, made, applied, unsure>>
  BY DEF TakeLock, files, stores, history
<1>2. Dropped({}) BY <1>1, NothingDropped
<1>3. PICK h : h = [calls[c] EXCEPT !.pc = "locked"] OBVIOUS
<1>4. h \in Handlers BY <1>3, HandlerTypes DEF BundleType
<1>5. calls' = [calls EXCEPT ![c] = h] BY <1>3 DEF TakeLock, Sets
<1>6. /\ h.pc = "locked" /\ h.op = calls[c].op /\ h.upload = calls[c].upload
      /\ h.name = calls[c].name /\ h.data = calls[c].data
  BY <1>3 DEF BundleType, Handlers
<1>7. calls[c].pc = "checked" /\ calls[c].op # "begin" /\ lock = None /\ lock' = c
  BY DEF TakeLock
<1>8. calls'[c] = h BY <1>5 DEF BundleType
<1>9. CallInv(c)'
  <2>1. LockOf(c)' /\ StagedOf(c)' /\ DeleteOf(c)' BY <1>6, <1>7, <1>8
    DEF LockOf, Held, StagedOf, DeleteOf, At
  <2>2. OpOf(c)' BY <1>6, <1>7, <1>8 DEF CallInv, OpOf
  <2>3. CommitOf(c)' BY <1>1, <1>6, <1>7, <1>8 DEF CallInv, CommitOf, At
  <2>4. WriteOf(c)' BY <1>6, <1>7, <1>8 DEF CallInv, WriteOf
  <2>5. QED BY <2>1, <2>2, <2>3, <2>4 DEF CallInv
<1>10. \A d \in Calls : d # c => (lock' = d <=> lock = d)
  BY <1>7, AssetAssumption DEF AssetAssumption
<1>11. QED BY <1>1, <1>2, <1>4, <1>5, <1>6, <1>7, <1>9, <1>10, SteppingKeeps

(* begin_asset_upload, upload_page_asset and delete_page_asset begin.      *)
LEMMA BeginningKeeps ==
  ASSUME BundleInv, NEW c \in Calls, NEW h \in Handlers, calls' = [calls EXCEPT ![c] = h],
         calls[c] = Idle, h.pc = "checked", h.upload = None, h.op \in {"begin"} \cup Tools,
         h.name \in Names,
         h.op = "upload_page_asset" => h.data \in Data /\ Valid(h.data, h.name),
         UNCHANGED <<page, assets, staging, entries, built, expired, journal, lock, made,
                     applied, unsure>>
  PROVE  BundleInv'
<1> USE DEF BundleInv
<1>1. Dropped({}) BY NothingDropped
<1>2. calls'[c] = h /\ calls[c].pc = "idle" /\ calls[c].upload = None
  BY IdleHandler DEF BundleType
<1>3. lock # c BY <1>2 DEF CallInv, LockOf, Held
<1>4. CallInv(c)'
  <2>1. LockOf(c)' BY <1>2, <1>3 DEF LockOf, Held
  <2>2. StagedOf(c)' /\ DeleteOf(c)' /\ WriteOf(c)' BY <1>2 DEF StagedOf, DeleteOf, WriteOf, At
  <2>3. OpOf(c)' BY <1>2 DEF OpOf, Tools
  <2>4. CommitOf(c)' BY <1>2 DEF CommitOf, At, Tools
  <2>5. QED BY <2>1, <2>2, <2>3, <2>4 DEF CallInv
<1>5. QED BY <1>1, <1>2, <1>4, SteppingKeeps

LEMMA ChecksKeep ==
  ASSUME BundleInv, NEW c \in Calls, NEW n \in Names,
         \/ \E s \in Servers : BeginCheck(c, s, n)
         \/ \E p \in Pieces, k \in Keys \cup {NoKey} : UploadCheck(c, n, <<p>>, k)
         \/ \E g \in Guards, f \in BOOLEAN, k \in Keys \cup {NoKey} : DeleteCheck(c, n, g, f, k)
  PROVE  BundleInv'
<1>1. UNCHANGED <<page, assets, staging, entries, built, expired, journal, lock, made, applied,
                  unsure>>
  BY DEF BeginCheck, UploadCheck, DeleteCheck, files, stores, history
<1>2. CASE \E s \in Servers : BeginCheck(c, s, n)
  <2>1. PICK s \in Servers : BeginCheck(c, s, n) BY <1>2
  <2>2. PICK h : h = [Idle EXCEPT !.op = "begin", !.pc = "checked", !.server = s, !.name = n]
    OBVIOUS
  <2>3. h \in Handlers /\ h.pc = "checked" /\ h.upload = None /\ h.op = "begin" /\ h.name = n
    BY <2>2, IdleHandler DEF Handlers, Idle
  <2>4. calls' = [calls EXCEPT ![c] = h] /\ calls[c] = Idle BY <2>1, <2>2 DEF BeginCheck
  <2>5. QED BY <1>1, <2>3, <2>4, BeginningKeeps
<1>3. CASE \E p \in Pieces, k \in Keys \cup {NoKey} : UploadCheck(c, n, <<p>>, k)
  <2>1. PICK p \in Pieces, k \in Keys \cup {NoKey} : UploadCheck(c, n, <<p>>, k) BY <1>3
  <2>2. PICK h : h = [Idle EXCEPT !.op = "upload_page_asset", !.pc = "checked", !.name = n,
                                  !.data = <<p>>, !.key = k]
    OBVIOUS
  <2>3. <<p>> \in Data BY DEF Data
  <2>4. /\ h \in Handlers /\ h.pc = "checked" /\ h.upload = None
        /\ h.op = "upload_page_asset" /\ h.name = n /\ h.data = <<p>>
    BY <2>2, <2>3, IdleHandler DEF Handlers, Idle, Tools
  <2>5. calls' = [calls EXCEPT ![c] = h] /\ calls[c] = Idle /\ Valid(<<p>>, n)
    BY <2>1, <2>2 DEF UploadCheck
  <2>6. QED BY <1>1, <2>3, <2>4, <2>5, BeginningKeeps DEF Tools
<1>4. CASE \E g \in Guards, f \in BOOLEAN, k \in Keys \cup {NoKey} : DeleteCheck(c, n, g, f, k)
  <2>1. PICK g \in Guards, f \in BOOLEAN, k \in Keys \cup {NoKey} : DeleteCheck(c, n, g, f, k)
    BY <1>4
  <2>2. PICK h : h = [Idle EXCEPT !.op = "delete_page_asset", !.pc = "checked", !.name = n,
                                  !.guard = g, !.force = f, !.key = k]
    OBVIOUS
  <2>3. /\ h \in Handlers /\ h.pc = "checked" /\ h.upload = None
        /\ h.op = "delete_page_asset" /\ h.name = n
    BY <2>2, IdleHandler DEF Handlers, Idle, Tools
  <2>4. calls' = [calls EXCEPT ![c] = h] /\ calls[c] = Idle BY <2>1, <2>2 DEF DeleteCheck
  <2>5. QED BY <1>1, <2>3, <2>4, BeginningKeeps DEF Tools
<1>5. QED BY <1>2, <1>3, <1>4

LEMMA PruneKeeps ==
  ASSUME BundleInv, NEW s \in Servers, Prune(s)
  PROVE  BundleInv'
<1>1. \A v \in Pruned(s, expired) : v \in Uploads /\ entries[v] # None
  BY DEF Pruned, BundleInv, BundleType
<1>2. Dropped(Pruned(s, expired)) BY DEF Prune, Dropped
<1>3. QED BY <1>1, <1>2, MovingKeeps DEF Prune, history, BundleInv, BundleType

(* An id that is not staged is not in the hands of begin_asset_upload.     *)
LEMMA NotStaged ==
  ASSUME BundleInv, NEW u \in Uploads, entries[u] # None \/ made[u] # Absent
  PROVE  \A d \in Calls : At(d, "begin", "staged") => u # calls[d].upload
  BY DEF BundleInv, CallInv, StagedOf

LEMMA CommitGetKeeps ==
  ASSUME BundleInv, NEW c \in Calls, NEW s \in Servers, NEW u \in Uploads,
         NEW k \in Keys \cup {NoKey}, CommitGet(c, s, u, k)
  PROVE  BundleInv'
<1> USE DEF BundleInv
<1> DEFINE old == Pruned(s, expired)
<1>1. /\ UNCHANGED <<page, assets, built, expired, journal, lock, made, applied, unsure>>
      /\ calls[c] = Idle
  BY DEF CommitGet, history
<1>2. calls[c].pc = "idle" /\ lock # c BY <1>1, IdleHandler DEF CallInv, LockOf, Held
<1>3. CASE /\ made[u] # Absent
           /\ calls' = [calls EXCEPT ![c] =
                [Idle EXCEPT !.op = "commit", !.pc = "not_found", !.server = s, !.upload = u,
                             !.key = k]]
           /\ UNCHANGED <<entries, staging>>
  <2>1. PICK h : h = [Idle EXCEPT !.op = "commit", !.pc = "not_found", !.server = s,
                                  !.upload = u, !.key = k]
    OBVIOUS
  <2>2. h \in Handlers /\ h.op = "commit" /\ h.pc = "not_found" /\ h.upload = u
    BY <2>1, IdleHandler DEF Handlers, Idle
  <2>3. calls' = [calls EXCEPT ![c] = h] /\ calls'[c] = h BY <1>3, <2>1 DEF BundleType
  <2>4. Dropped({}) BY <1>3, NothingDropped
  <2>5. CallInv(c)'
    BY <1>1, <1>2, <2>2, <2>3
    DEF CallInv, LockOf, Held, OpOf, StagedOf, CommitOf, WriteOf, DeleteOf, At, Tools
  <2>6. \A d \in Calls : At(d, "begin", "staged") => h.upload # calls[d].upload
    BY <1>3, <2>2, NotStaged
  <2>7. QED BY <1>1, <1>2, <2>2, <2>3, <2>4, <2>5, <2>6, SteppingKeeps
<1>4. CASE /\ entries[u] # None /\ entries[u].server = s /\ u \notin expired
           /\ Len(entries[u].chunks) = entries[u].size
           /\ calls' = [calls EXCEPT ![c] =
                [Idle EXCEPT !.op = "commit", !.pc = "got", !.server = s, !.upload = u,
                             !.name = entries[u].name, !.key = k, !.now = expired]]
           /\ entries' = [v \in Uploads |-> IF v \in old THEN None ELSE entries[v]]
           /\ staging' = [v \in Uploads |-> IF v \in old THEN Absent ELSE staging[v]]
  <2>1. PICK h : h = [Idle EXCEPT !.op = "commit", !.pc = "got", !.server = s, !.upload = u,
                                  !.name = entries[u].name, !.key = k, !.now = expired]
    OBVIOUS
  <2>2. entries[u].name \in Names BY <1>4 DEF BundleType, UploadEntries
  <2>3. expired \in SUBSET Uploads BY DEF BundleType
  <2>4. /\ h \in Handlers /\ h.op = "commit" /\ h.pc = "got" /\ h.upload = u
        /\ h.name \in Names
    BY <2>1, <2>2, <2>3, IdleHandler DEF Handlers, Idle
  <2>5. calls' = [calls EXCEPT ![c] = h] /\ calls'[c] = h BY <1>4, <2>1 DEF BundleType
  <2>6. (\A v \in old : v \in Uploads /\ entries[v] # None) /\ Dropped(old)
    BY <1>4 DEF Pruned, BundleType, Dropped
  <2>7. entries'[u] = entries[u] BY <1>4 DEF Pruned
  <2>8. CallInv(c)'
    BY <1>1, <1>2, <1>4, <2>4, <2>5, <2>7
    DEF CallInv, LockOf, Held, OpOf, StagedOf, CommitOf, WriteOf, DeleteOf, At, Tools
  <2>9. \A d \in Calls : At(d, "begin", "staged") => h.upload # calls[d].upload
    BY <1>4, <2>4, NotStaged
  <2>10. QED BY <1>1, <1>2, <2>4, <2>5, <2>6, <2>8, <2>9, SteppingKeeps
<1>5. QED BY <1>3, <1>4 DEF CommitGet

(* A commit that fails gives its upload up.                                *)
LEMMA AbandonKeeps ==
  ASSUME BundleInv, NEW c \in Calls, CommitReject(c) \/ CommitNoPage(c)
  PROVE  BundleInv'
<1> USE DEF BundleInv
<1>1. UNCHANGED <<page, assets, built, expired, journal, made, applied, unsure>>
  BY DEF CommitReject, CommitNoPage, history
<1>2. calls[c].op = "commit" /\ calls[c].pc \in {"got", "locked"} /\ Ends(c) /\ Abandon(c)
  BY DEF CommitReject, CommitNoPage, At
<1>3. calls[c].upload \in Uploads /\ calls[c].now \subseteq Uploads
  BY <1>2 DEF CallInv, CommitOf, BundleType, Handlers
<1>4. PICK gone : gone = Pruned(calls[c].server, calls[c].now) \cup
                {v \in {calls[c].upload} : entries[v] # None /\ entries[v].server = calls[c].server}
  OBVIOUS
<1>5. (\A v \in gone : v \in Uploads /\ entries[v] # None) /\ Dropped(gone)
  BY <1>2, <1>3, <1>4 DEF Abandon, Dropped, Pruned
<1>6. QED BY <1>1, <1>2, <1>5, EndingKeeps

LEMMA CommitReadKeeps ==
  ASSUME BundleInv, NEW c \in Calls, CommitRead(c)
  PROVE  BundleInv'
<1> USE DEF BundleInv
<1> DEFINE u == calls[c].upload
<1>1. UNCHANGED <<page, assets, staging, entries, built, expired, journal, made, applied, unsure>>
  BY DEF CommitRead, files, stores, history
<1>2. Dropped({}) BY <1>1, NothingDropped
<1>3. calls[c].op = "commit" /\ calls[c].pc = "got" /\ ~Doomed(c) BY DEF CommitRead, At
<1>4. CASE Ends(c) BY <1>1, <1>2, <1>3, <1>4, EndingKeeps
<1>5. CASE /\ calls' = [calls EXCEPT ![c].pc = "checked", ![c].data = staging[u]]
           /\ UNCHANGED lock
  <2>1. u \in Uploads /\ staging[u] \in Data
    BY <1>3 DEF CallInv, CommitOf, Doomed, BundleType
  <2>2. PICK h : h = [calls[c] EXCEPT !.pc = "checked", !.data = staging[u]] OBVIOUS
  <2>3. h \in Handlers BY <2>1, <2>2, HandlerTypes DEF BundleType
  <2>4. /\ h.pc = "checked" /\ h.data = staging[u] /\ h.op = "commit" /\ h.upload = u
        /\ h.name = calls[c].name
    BY <1>3, <2>2 DEF BundleType, Handlers
  <2>5. calls' = [calls EXCEPT ![c] = h] /\ calls'[c] = h BY <1>5, <2>2 DEF BundleType
  <2>6. lock # c BY <1>3 DEF CallInv, LockOf, Held
  <2>7. /\ Valid(staging[u], calls[c].name)
        /\ entries[u] # None => entries[u].want \in {Absent, staging[u]}
    BY <1>3 DEF Doomed
  <2>8. CommitOf(c)' BY <1>1, <1>3, <2>1, <2>4, <2>5, <2>7 DEF CallInv, CommitOf, At
  <2>9. CallInv(c)'
    BY <1>5, <2>4, <2>5, <2>6, <2>8
    DEF CallInv, LockOf, Held, OpOf, StagedOf, WriteOf, DeleteOf, At, Tools
  <2>10. QED BY <1>1, <1>2, <1>3, <1>5, <2>3, <2>4, <2>5, <2>9, SteppingKeeps
<1>6. QED BY <1>4, <1>5 DEF CommitRead

LEMMA ConsumeKeeps ==
  ASSUME BundleInv, NEW c \in Calls, CommitConsume(c)
  PROVE  BundleInv'
<1> USE DEF BundleInv
<1> DEFINE u == calls[c].upload
<1>1. UNCHANGED <<page, assets, built, expired, journal, lock, made, applied, unsure>>
  BY DEF CommitConsume, history
<1>2. /\ calls[c].op = "commit" /\ calls[c].pc = "renamed" /\ u \in Uploads
      /\ staging[u] = Absent /\ calls[c].now \subseteq Uploads /\ lock = c
  BY DEF CommitConsume, CallInv, CommitOf, LockOf, Held, At, BundleType, Handlers
<1>3. PICK old : old = Pruned(calls[c].server, calls[c].now) OBVIOUS
<1>4. PICK gone : gone = old \cup {v \in {u} : entries[v] # None
                                              /\ entries[v].server = calls[c].server}
  OBVIOUS
<1>5. \A v \in gone : v \in Uploads /\ entries[v] # None BY <1>2, <1>3, <1>4 DEF Pruned
<1>6. Dropped(gone)
  <2>1. entries' = [v \in Uploads |-> IF v \in gone THEN None ELSE entries[v]]
    BY <1>2, <1>3, <1>4 DEF CommitConsume
  <2>2. staging' = [v \in Uploads |-> IF v \in gone THEN Absent ELSE staging[v]]
    BY <1>2, <1>3, <1>4 DEF CommitConsume
  <2>3. QED BY <2>1, <2>2 DEF Dropped
<1>7. PICK h : h = [calls[c] EXCEPT !.pc = "changed"] OBVIOUS
<1>8. h \in Handlers BY <1>7, HandlerTypes DEF BundleType
<1>9. h.pc = "changed" /\ h.op = "commit" /\ h.upload = u
  BY <1>2, <1>7 DEF BundleType, Handlers
<1>10. calls' = [calls EXCEPT ![c] = h] /\ calls'[c] = h
  BY <1>7 DEF CommitConsume, Sets, BundleType
<1>11. CallInv(c)'
  BY <1>1, <1>2, <1>9, <1>10
  DEF CallInv, LockOf, Held, OpOf, StagedOf, CommitOf, WriteOf, DeleteOf, At, Tools
<1>12. QED BY <1>1, <1>2, <1>5, <1>6, <1>8, <1>9, <1>10, <1>11, SteppingKeeps

LEMMA DeleteReadKeeps ==
  ASSUME BundleInv, NEW c \in Calls, DeleteRead(c)
  PROVE  BundleInv'
<1> USE DEF BundleInv
<1>1. UNCHANGED <<page, assets, staging, entries, built, expired, journal, made, applied, unsure>>
  BY DEF DeleteRead, files, stores, history
<1>2. Dropped({}) BY <1>1, NothingDropped
<1>3. calls[c].op = "delete_page_asset" /\ calls[c].pc = "locked" /\ lock = c
  BY DEF DeleteRead, At, CallInv, LockOf, Held
<1>4. CASE Ends(c) BY <1>1, <1>2, <1>3, <1>4, EndingKeeps
<1>5. ASSUME NEW blind \in BOOLEAN,
             /\ ~Known(c, "delete_page_asset") /\ Matches(calls[c].guard, calls[c].name)
             /\ ~(Referenced(calls[c].name) /\ ~calls[c].force /\ ~blind)
             /\ calls' = [calls EXCEPT ![c].pc = "judged", ![c].blind = blind] /\ UNCHANGED lock
      PROVE  BundleInv'
  <2>1. PICK h : h = [calls[c] EXCEPT !.pc = "judged", !.blind = blind] OBVIOUS
  <2>2. h \in Handlers
    <3>1. PICK k : k = calls[c] OBVIOUS
    <3>2. k \in Handlers BY <3>1 DEF BundleType
    <3>3. h = [k EXCEPT !.pc = "judged", !.blind = blind] BY <2>1, <3>1
    <3> QED BY <3>2, <3>3 DEF Handlers
  <2>3. /\ h.pc = "judged" /\ h.op = "delete_page_asset" /\ h.upload = calls[c].upload
        /\ h.name = calls[c].name /\ h.guard = calls[c].guard /\ h.force = calls[c].force
        /\ h.key = calls[c].key /\ h.blind = blind
    BY <1>3, <2>1 DEF BundleType, Handlers
  <2>4. calls' = [calls EXCEPT ![c] = h] /\ calls'[c] = h BY <1>5, <2>1 DEF BundleType
  <2>5. LockOf(c)' /\ StagedOf(c)' /\ CommitOf(c)' /\ WriteOf(c)'
    BY <1>3, <1>5, <2>3, <2>4 DEF LockOf, Held, StagedOf, CommitOf, WriteOf, At
  <2>6. OpOf(c)' BY <1>3, <2>3, <2>4 DEF CallInv, OpOf, Tools
  <2>7. DeleteOf(c)'
    <3>1. Matches(calls[c].guard, calls[c].name)'
      BY <1>1, <1>5, <2>3, <2>4 DEF Matches
    <3>2. (Referenced(calls[c].name) => calls[c].force \/ calls[c].blind)'
      BY <1>1, <1>5, <2>3, <2>4 DEF Referenced
    <3>3. ~Known(c, "delete_page_asset")'
      BY <1>1, <1>5, <2>3, <2>4 DEF Known, Recorded
    <3> QED BY <3>1, <3>2, <3>3 DEF DeleteOf
  <2>8. QED BY <1>1, <1>2, <1>3, <1>5, <2>2, <2>3, <2>4, <2>5, <2>6, <2>7, SteppingKeeps DEF CallInv
<1>6. PICK blind \in BOOLEAN :
          \/ Ends(c)
          \/ /\ ~Known(c, "delete_page_asset") /\ Matches(calls[c].guard, calls[c].name)
             /\ ~(Referenced(calls[c].name) /\ ~calls[c].force /\ ~blind)
             /\ calls' = [calls EXCEPT ![c].pc = "judged", ![c].blind = blind] /\ UNCHANGED lock
  BY DEF DeleteRead
<1>7. QED BY <1>4, <1>5, <1>6

-----------------------------------------------------------------------------
(* Steps that change files, entries or what is remembered.                 *)

(* A call that a step leaves alone, given that what the step changes is    *)
(* none of its business; the lock protects what a delete has judged.       *)
LEMMA OtherCall ==
  ASSUME BundleInv, NEW d \in Calls, calls'[d] = calls[d], lock' = d <=> lock = d,
         lock # d \/ DeleteOf(d)', StagedOf(d)', CommitOf(d)'
  PROVE  CallInv(d)'
<1>1. CallInv(d) BY DEF BundleInv
<1>2. LockOf(d)' /\ OpOf(d)' /\ WriteOf(d)' BY <1>1 DEF CallInv, LockOf, OpOf, WriteOf
<1>3. DeleteOf(d)' BY <1>1 DEF CallInv, LockOf, Held, DeleteOf, At
<1>4. QED BY <1>2, <1>3 DEF CallInv

LEMMA BeginStageKeeps ==
  ASSUME BundleInv, NEW c \in Calls, NEW u \in Uploads, BeginStage(c, u)
  PROVE  BundleInv'
<1> USE DEF BundleInv
<1>1. UNCHANGED <<page, assets, entries, built, expired, journal, made, applied, unsure>>
  BY DEF BeginStage, stores, history
<1>2. /\ calls[c].op = "begin" /\ calls[c].pc = "checked"
      /\ entries[u] = None /\ staging[u] = Absent /\ made[u] = Absent /\ u \notin expired
      /\ \A d \in Calls : calls[d].upload # u
  BY DEF BeginStage, At
<1>3. CASE Ends(c) /\ UNCHANGED staging
  <2>1. Dropped({}) BY <1>1, <1>3, NothingDropped
  <2>2. QED BY <1>1, <1>2, <1>3, <2>1, EndingKeeps
<1>4. CASE /\ staging' = [staging EXCEPT ![u] = <<>>]
           /\ calls' = [calls EXCEPT ![c].pc = "staged", ![c].upload = u]
           /\ UNCHANGED lock
  <2>1. PICK h : h = [calls[c] EXCEPT !.pc = "staged", !.upload = u] OBVIOUS
  <2>2. h \in Handlers BY <2>1, HandlerTypes DEF BundleType
  <2>3. h.pc = "staged" /\ h.op = "begin" /\ h.upload = u /\ h.name = calls[c].name
    BY <1>2, <2>1 DEF BundleType, Handlers
  <2>4. /\ calls' = [calls EXCEPT ![c] = h] /\ calls'[c] = h
        /\ \A d \in Calls : d # c => calls'[d] = calls[d]
    BY <1>4, <2>1 DEF BundleType
  <2>5. /\ staging'[u] = <<>> /\ <<>> # Absent
        /\ \A v \in Uploads : v # u => staging'[v] = staging[v]
    <3>1. <<>> \in Data BY DEF Data
    <3>2. <<>> # Absent BY <3>1, AssetAssumption DEF AssetAssumption
    <3>3. QED BY <1>4, <3>2 DEF BundleType
  <2>6. BundleType'
    <3>1. <<>> \in Data BY DEF Data
    <3>2. staging' \in [Uploads -> Data \cup {Absent}] BY <1>4, <3>1 DEF BundleType
    <3>3. calls' \in [Calls -> Handlers] BY <2>2, <2>4 DEF BundleType
    <3>4. QED BY <1>1, <3>2, <3>3 DEF BundleType
  <2>7. CallInv(c)'
    <3>1. lock # c /\ calls[c].name \in Names BY <1>2 DEF CallInv, LockOf, Held, OpOf
    <3>2. \A d \in Calls : calls'[d].upload = u => d = c BY <1>2, <2>4
    <3>3. StagedOf(c)' BY <1>1, <1>2, <2>3, <2>4, <2>5, <3>1, <3>2 DEF StagedOf
    <3>4. QED BY <1>4, <2>3, <2>4, <3>1, <3>3
      DEF CallInv, LockOf, Held, OpOf, CommitOf, WriteOf, DeleteOf, At, Tools
  <2>8. ASSUME NEW d \in Calls, d # c PROVE CallInv(d)'
    <3>1. calls'[d] = calls[d] BY <2>4, <2>8
    <3>2. StagedOf(d)'
      <4> SUFFICES ASSUME At(d, "begin", "staged") PROVE StagedOf(d)'
        BY <3>1 DEF StagedOf, At
      <4>1. \A e \in Calls : calls'[e].upload = calls[d].upload => e = d
        BY <1>2, <2>3, <2>4 DEF CallInv, StagedOf
      <4>2. QED BY <1>1, <1>2, <2>5, <3>1, <4>1 DEF CallInv, StagedOf
    <3>3. CommitOf(d)' BY <1>1, <1>2, <2>5, <3>1 DEF CallInv, CommitOf, At
    <3>4. DeleteOf(d)' BY <1>1, <3>1 DEF CallInv, DeleteOf, At, Matches, Referenced, Known, Recorded
    <3>5. QED BY <1>4, <3>1, <3>2, <3>3, <3>4, OtherCall
  <2>9. EntryInv' BY <1>1, <1>2, <2>5 DEF EntryInv
  <2>10. AppliedInv' BY <1>1, <1>2, <2>4 DEF AppliedInv, At
  <2>11. GatePassed' /\ MadeOfItsChunks' BY <1>1 DEF GatePassed, MadeOfItsChunks
  <2>12. NoStrayStaging'
    <3>1. At(c, "begin", "staged")' /\ calls'[c].upload = u BY <2>3, <2>4 DEF At
    <3>2. \A d \in Calls : At(d, "begin", "staged") => calls'[d] = calls[d]
      BY <1>2, <2>4 DEF At
    <3>3. QED BY <1>1, <2>5, <3>1, <3>2 DEF NoStrayStaging, At
  <2>13. QED BY <1>4, <2>6, <2>7, <2>8, <2>9, <2>10, <2>11, <2>12
<1>5. QED BY <1>3, <1>4 DEF BeginStage

LEMMA BeginEnterKeeps ==
  ASSUME BundleInv, NEW c \in Calls, NEW size \in Sizes, NEW w \in Data \cup {Absent},
         w # Absent => Len(w) = size, BeginEnter(c, size, w)
  PROVE  BundleInv'
<1> USE DEF BundleInv
<1>1. UNCHANGED <<page, assets, built, expired, journal, made, applied, unsure>> /\ Ends(c)
  BY DEF BeginEnter, history
<1>2. PICK u : u = calls[c].upload OBVIOUS
<1>3. /\ calls[c].op = "begin" /\ calls[c].pc = "staged" /\ u \in Uploads
      /\ calls[c].name \in Names /\ calls[c].server \in Servers
      /\ entries[u] = None /\ made[u] = Absent /\ u \notin expired
      /\ staging[u] \in {<<>>, Absent}
      /\ \A d \in Calls : calls[d].upload = u => d = c
  BY <1>2 DEF BeginEnter, At, CallInv, StagedOf, BundleType, Handlers
<1>4. PICK old : old = Pruned(calls[c].server, expired) OBVIOUS
<1>5. u \notin old /\ \A v \in old : entries[v] # None BY <1>3, <1>4 DEF Pruned
<1>6. PICK new : new = Entry(c, size, w) OBVIOUS
<1>7. /\ new \in UploadEntries /\ new # None /\ new.want = w /\ new.size = size
      /\ new.chunks = <<>>
  <2>1. <<>> \in Seq(Pieces) OBVIOUS
  <2>2. new \in UploadEntries BY <1>3, <1>6, <2>1 DEF Entry, UploadEntries
  <2>3. new # None BY <2>2, AssetAssumption DEF AssetAssumption
  <2>4. new.want = w /\ new.size = size /\ new.chunks = <<>> BY <1>6 DEF Entry
  <2>5. QED BY <2>2, <2>3, <2>4
<1>8. entries' = [v \in Uploads |-> IF v = u THEN new ELSE IF v \in old THEN None ELSE entries[v]]
  BY <1>2, <1>4, <1>6 DEF BeginEnter
<1>9. staging' = [v \in Uploads |-> IF v \in old THEN Absent ELSE staging[v]]
  BY <1>4 DEF BeginEnter
<1>10. calls'[c] = Idle /\ \A d \in Calls : d # c => calls'[d] = calls[d]
  BY <1>1 DEF Ends, BundleType
<1>11. lock # c /\ lock' = lock BY <1>1, <1>3 DEF CallInv, LockOf, Held, Ends
<1>12. /\ entries'[u] = new /\ staging'[u] = staging[u]
       /\ \A v \in Uploads : v # u =>
            /\ entries'[v] # None => entries'[v] = entries[v]
            /\ entries[v] = None => entries'[v] = None /\ staging'[v] = staging[v]
            /\ staging'[v] # Absent => staging'[v] = staging[v] /\ entries'[v] = entries[v]
            /\ staging[v] = Absent => staging'[v] = Absent
  BY <1>3, <1>5, <1>8, <1>9
<1>13. BundleType'
  <2>1. entries' \in [Uploads -> UploadEntries \cup {None}] BY <1>7, <1>8 DEF BundleType
  <2>2. staging' \in [Uploads -> Data \cup {Absent}] BY <1>9 DEF BundleType
  <2>3. calls' \in [Calls -> Handlers] BY <1>1, IdleHandler DEF Ends, BundleType
  <2>4. QED BY <1>1, <2>1, <2>2, <2>3 DEF BundleType
<1>14. CallInv(c)' BY <1>10, <1>11, IdleCall
<1>15. ASSUME NEW d \in Calls, d # c PROVE CallInv(d)'
  <2>1. calls'[d] = calls[d] BY <1>10, <1>15
  <2>2. StagedOf(d)'
    <3> SUFFICES ASSUME At(d, "begin", "staged") PROVE StagedOf(d)'
      BY <2>1 DEF StagedOf, At
    <3>1. calls[d].upload # u /\ calls[d].upload \in Uploads
      BY <1>3, <1>15 DEF CallInv, StagedOf
    <3>2. \A e \in Calls : calls'[e].upload = calls[d].upload => e = d
      <4>1. Idle.upload # calls[d].upload
        BY <3>1, IdleHandler, AssetAssumption DEF AssetAssumption
      <4>2. QED BY <1>10, <4>1 DEF CallInv, StagedOf
    <3>3. QED BY <1>1, <1>12, <2>1, <3>1, <3>2 DEF CallInv, StagedOf
  <2>3. CommitOf(d)' BY <1>3, <1>12, <1>15, <2>1 DEF CallInv, CommitOf, At
  <2>4. DeleteOf(d)' BY <1>1, <2>1 DEF CallInv, DeleteOf, At, Matches, Referenced, Known, Recorded
  <2>5. QED BY <1>11, <2>1, <2>2, <2>3, <2>4, OtherCall
<1>16. EntryInv' BY <1>3, <1>7, <1>12 DEF EntryInv
<1>17. AppliedInv' BY <1>1, <1>3, <1>10 DEF AppliedInv, At
<1>18. GatePassed' /\ MadeOfItsChunks' BY <1>1 DEF GatePassed, MadeOfItsChunks
<1>19. NoStrayStaging'
  <2> SUFFICES ASSUME NEW v \in Uploads, staging'[v] # Absent, entries'[v] = None
               PROVE \E d \in Calls : At(d, "begin", "staged")' /\ calls'[d].upload = v
    BY DEF NoStrayStaging
  <2>1. v # u /\ staging[v] # Absent /\ entries[v] = None BY <1>7, <1>12
  <2>2. PICK d \in Calls : At(d, "begin", "staged") /\ calls[d].upload = v
    BY <2>1 DEF NoStrayStaging
  <2>3. d # c BY <1>2, <2>1, <2>2
  <2>4. QED BY <1>10, <2>2, <2>3 DEF At
<1>20. QED BY <1>11, <1>13, <1>14, <1>15, <1>16, <1>17, <1>18, <1>19

(* A chunk goes to an upload that is not complete: no commit has it.       *)
LEMMA UploadChunkKeeps ==
  ASSUME BundleInv, NEW s \in Servers, NEW u \in Uploads, NEW p \in Pieces, NEW o,
         UploadChunk(s, u, o, p)
  PROVE  BundleInv'
<1> USE DEF BundleInv
<1>1. UNCHANGED <<page, assets, built, expired, journal, lock, calls, made, applied, unsure>>
  BY DEF UploadChunk
<1>2. /\ entries[u] # None /\ staging[u] # Absent
      /\ Len(entries[u].chunks) < entries[u].size
  BY DEF UploadChunk, Accepts, Append1
<1>3. PICK e : e = entries[u] OBVIOUS
<1>4. PICK f : f = staging[u] OBVIOUS
<1>5. e \in UploadEntries /\ f \in Data BY <1>2, <1>3, <1>4 DEF BundleType
<1>6. /\ e.chunks \in Seq(Pieces) /\ e.size \in Sizes /\ e.torn \in BOOLEAN
      /\ e.want \in Data \cup {Absent}
  BY <1>5 DEF UploadEntries
<1>7. PICK e2, f2 :
        /\ staging' = [staging EXCEPT ![u] = f2] /\ entries' = [entries EXCEPT ![u] = e2]
        /\ \/ f2 = Append(f, p) /\ e2 = [e EXCEPT !.chunks = Append(e.chunks, p)]
           \/ f2 = Append(f, Torn) /\ e2 = [e EXCEPT !.torn = TRUE]
  <2>1. CASE /\ staging' = [staging EXCEPT ![u] = Append(@, p)]
             /\ entries' = [entries EXCEPT ![u].chunks = Append(@, p)]
    BY <1>3, <1>4, <2>1
  <2>2. CASE /\ staging' = [staging EXCEPT ![u] = Append(@, Torn)]
             /\ entries' = [entries EXCEPT ![u].torn = TRUE]
    BY <1>3, <1>4, <2>2
  <2>3. QED BY <2>1, <2>2 DEF UploadChunk, Append1
<1>8. f2 \in Data /\ Len(f2) = Len(f) + 1 /\ Len(f) \in Nat
  <2>1. f \in Seq(Pieces \cup {Torn}) BY <1>5 DEF Data
  <2>2. CASE f2 = Append(f, p)
    <3>1. f2 \in Seq(Pieces \cup {Torn}) /\ Len(f2) = Len(f) + 1 BY <2>1, <2>2
    <3>2. QED BY <2>1, <3>1 DEF Data
  <2>3. CASE f2 = Append(f, Torn)
    <3>1. f2 \in Seq(Pieces \cup {Torn}) /\ Len(f2) = Len(f) + 1 BY <2>1, <2>3
    <3>2. QED BY <2>1, <3>1 DEF Data
  <2>4. QED BY <1>7, <2>2, <2>3
<1>9. /\ e2 \in UploadEntries /\ e2.want = e.want /\ e2.size = e.size
      /\ e2.chunks \in Seq(Pieces)
      /\ \/ e2.chunks = Append(e.chunks, p) /\ e2.torn = e.torn /\ f2 = Append(f, p)
         \/ e2.chunks = e.chunks /\ e2.torn = TRUE /\ f2 = Append(f, Torn)
  <2>1. CASE f2 = Append(f, p) /\ e2 = [e EXCEPT !.chunks = Append(e.chunks, p)]
    <3>1. Append(e.chunks, p) \in Seq(Pieces) BY <1>6
    <3>2. QED BY <1>5, <2>1, <3>1 DEF UploadEntries
  <2>2. CASE f2 = Append(f, Torn) /\ e2 = [e EXCEPT !.torn = TRUE]
    BY <1>5, <1>6, <2>2 DEF UploadEntries
  <2>3. QED BY <1>7, <2>1, <2>2
<1>10. /\ entries'[u] = e2 /\ staging'[u] = f2
       /\ \A v \in Uploads : v # u => entries'[v] = entries[v] /\ staging'[v] = staging[v]
  BY <1>7 DEF BundleType
<1>11. e2 # None /\ f2 # Absent BY <1>8, <1>9, AssetAssumption DEF AssetAssumption
<1>12. BundleType'
  <2>1. entries' \in [Uploads -> UploadEntries \cup {None}] BY <1>7, <1>9 DEF BundleType
  <2>2. staging' \in [Uploads -> Data \cup {Absent}] BY <1>7, <1>8 DEF BundleType
  <2>3. QED BY <1>1, <2>1, <2>2 DEF BundleType
<1>13. ASSUME NEW d \in Calls PROVE CallInv(d)'
  <2>1. StagedOf(d)' BY <1>1, <1>2, <1>10 DEF CallInv, StagedOf, At
  <2>2. CommitOf(d)'
    <3>1. CASE calls[d].upload = u
      <4>1. ~(calls[d].op = "commit" /\ calls[d].pc \in {"got", "checked", "locked"})
        <5>1. Len(entries[u].chunks) \in Nat /\ Len(entries[u].chunks) # entries[u].size
          <6>1. Len(entries[u].chunks) \in Nat BY <1>3, <1>6
          <6>2. entries[u].size \in Nat
            <7>1. Sizes \subseteq 1 .. MaxAsset /\ MaxAsset \in Nat
              BY AssetAssumption DEF AssetAssumption
            <7>2. e.size \in 1 .. MaxAsset BY <1>6, <7>1
            <7>3. e.size \in Nat BY <7>1, <7>2
            <7>4. QED BY <1>3, <7>3
          <6>3. QED BY <1>2, <6>1, <6>2
        <5>2. QED BY <1>2, <3>1, <5>1 DEF CallInv, CommitOf
      <4>2. ~At(d, "commit", "renamed") BY <1>2, <3>1 DEF CallInv, CommitOf
      <4>3. QED BY <1>1, <3>1, <4>1, <4>2 DEF CallInv, CommitOf, At
    <3>2. CASE calls[d].upload # u BY <1>1, <1>10, <3>2 DEF CallInv, CommitOf, At
    <3>3. QED BY <3>1, <3>2
  <2>3. DeleteOf(d)' BY <1>1 DEF CallInv, DeleteOf, At, Matches, Referenced, Known, Recorded
  <2>4. QED BY <1>1, <2>1, <2>2, <2>3, OtherCall
<1>14. EntryInv'
  <2> SUFFICES ASSUME NEW v \in Uploads, entries'[v] # None
               PROVE /\ entries'[v].want # Absent => Len(entries'[v].want) = entries'[v].size
                     /\ staging'[v] # Absent =>
                          \/ staging'[v] = entries'[v].chunks
                          \/ entries'[v].torn /\ Len(staging'[v]) > Len(entries'[v].chunks)
    BY DEF EntryInv
  <2>1. CASE v # u BY <1>10, <2>1 DEF EntryInv
  <2>2. CASE v = u
    <3>1. e.want # Absent => Len(e.want) = e.size BY <1>2, <1>3 DEF EntryInv
    <3>2. f = e.chunks \/ (e.torn /\ Len(f) > Len(e.chunks))
      BY <1>2, <1>3, <1>4 DEF EntryInv
    <3>3. f2 = e2.chunks \/ (e2.torn /\ Len(f2) > Len(e2.chunks))
      <4>1. Len(e.chunks) \in Nat BY <1>6
      <4>2. CASE e2.chunks = Append(e.chunks, p) /\ e2.torn = e.torn /\ f2 = Append(f, p)
        <5>1. Len(e2.chunks) = Len(e.chunks) + 1 BY <1>6, <4>2
        <5>2. QED BY <1>8, <3>2, <4>1, <4>2, <5>1
      <4>3. CASE e2.chunks = e.chunks /\ e2.torn = TRUE
        <5>1. Len(f2) > Len(e.chunks) BY <1>8, <3>2, <4>1
        <5>2. QED BY <4>3, <5>1
      <4>4. QED BY <1>9, <4>2, <4>3
    <3>4. QED BY <1>9, <1>10, <2>2, <3>1, <3>3
  <2>3. QED BY <2>1, <2>2
<1>15. AppliedInv' BY <1>1 DEF AppliedInv, At
<1>16. GatePassed' /\ MadeOfItsChunks' BY <1>1 DEF GatePassed, MadeOfItsChunks
<1>17. NoStrayStaging' BY <1>1, <1>10, <1>11 DEF NoStrayStaging, At
<1>18. QED BY <1>1, <1>12, <1>13, <1>14, <1>15, <1>16, <1>17

(* Who holds the lock is the only call inside its section.                 *)
LEMMA OneHolder ==
  ASSUME BundleInv, NEW c \in Calls, calls[c].pc \in Held
  PROVE  lock = c /\ \A d \in Calls : d # c => lock # d /\ calls[d].pc \notin Held
  BY DEF BundleInv, CallInv, LockOf

LEMMA CommitRenameKeeps ==
  ASSUME BundleInv, NEW c \in Calls, CommitRename(c)
  PROVE  BundleInv'
<1> USE DEF BundleInv
<1>1. UNCHANGED <<page, entries, built, expired, journal, applied, unsure>>
  BY DEF CommitRename, stores
<1>2. PICK u : u = calls[c].upload OBVIOUS
<1>3. PICK n : n = calls[c].name OBVIOUS
<1>4. /\ calls[c].op = "commit" /\ calls[c].pc = "locked" /\ u \in Uploads /\ n \in Names
      /\ calls[c].data \in Data /\ Valid(calls[c].data, n)
      /\ staging[u] # Absent => staging[u] = calls[c].data
      /\ entries[u] # None => Len(entries[u].chunks) = entries[u].size
      /\ staging[u] # Absent /\ entries[u] # None =>
           entries[u].want \in {Absent, calls[c].data}
  BY <1>2, <1>3 DEF CommitRename, At, CallInv, CommitOf
<1>5. lock = c /\ \A d \in Calls : d # c => lock # d BY <1>4, OneHolder DEF Held
<1>6. CASE Ends(c) /\ UNCHANGED <<assets, staging, made>>
  <2>1. Dropped({}) BY <1>1, <1>6, NothingDropped
  <2>2. QED BY <1>1, <1>4, <1>6, <2>1, EndingKeeps
<1>7. CASE ~(Ends(c) /\ UNCHANGED <<assets, staging, made>>)
  <2>1. /\ staging[u] # Absent
        /\ assets' = [assets EXCEPT ![n] = staging[u]]
        /\ staging' = [staging EXCEPT ![u] = Absent]
        /\ made' = [made EXCEPT ![u] =
              [judged |-> staging[u] = calls[c].data,
               whole |-> staging[u] = entries[u].chunks,
               excused |-> entries[u].torn /\ entries[u].want = Absent,
               key |-> calls[c].key]]
        /\ Sets(c, "renamed") /\ lock' = lock
    BY <1>2, <1>3, <1>7 DEF CommitRename
  <2>2. staging[u] = calls[c].data /\ Valid(staging[u], n) BY <1>4, <2>1
  <2>3. entries[u] # None
    BY <1>2, <1>4, <2>1 DEF NoStrayStaging, CallInv, StagedOf, At
  <2>4. /\ entries[u] \in UploadEntries /\ staging[u] \in Data BY <1>4, <2>1, <2>3 DEF BundleType
  <2>5. staging[u] = entries[u].chunks \/ (entries[u].torn /\ entries[u].want = Absent)
    <3>1. CASE entries[u].torn /\ Len(staging[u]) > Len(entries[u].chunks)
      <4>1. entries[u].want # staging[u] \/ staging[u] = entries[u].chunks
        <5>1. Len(entries[u].chunks) \in Nat BY <2>4 DEF UploadEntries
        <5>2. Len(staging[u]) \in Nat BY <2>4 DEF Data
        <5>3. Len(staging[u]) # entries[u].size BY <1>4, <2>3, <3>1, <5>1, <5>2
        <5>4. QED BY <1>4, <2>1, <2>3, <5>3 DEF EntryInv
      <4>2. QED BY <1>4, <2>1, <2>2, <2>3, <3>1, <4>1
    <3>2. QED BY <1>4, <2>1, <2>3, <3>1 DEF EntryInv
  <2>6. PICK m : m = [judged |-> staging[u] = calls[c].data,
                      whole |-> staging[u] = entries[u].chunks,
                      excused |-> entries[u].torn /\ entries[u].want = Absent,
                      key |-> calls[c].key]
    OBVIOUS
  <2>7. m.judged /\ (m.whole \/ m.excused) BY <2>2, <2>5, <2>6
  <2>8. m \in [judged : BOOLEAN, whole : BOOLEAN, excused : BOOLEAN, key : Keys \cup {NoKey}]
    BY <2>6 DEF BundleType, Handlers
  <2>9. made' = [made EXCEPT ![u] = m] BY <2>1, <2>6
  <2>10. PICK h : h = [calls[c] EXCEPT !.pc = "renamed"] OBVIOUS
  <2>11. h \in Handlers BY <2>10, HandlerTypes DEF BundleType
  <2>12. h.pc = "renamed" /\ h.op = "commit" /\ h.upload = u
    BY <1>2, <1>4, <2>10 DEF BundleType, Handlers
  <2>13. /\ calls' = [calls EXCEPT ![c] = h] /\ calls'[c] = h
         /\ \A d \in Calls : d # c => calls'[d] = calls[d]
    BY <2>1, <2>10 DEF Sets, BundleType
  <2>14. /\ staging'[u] = Absent /\ made'[u] = m /\ assets'[n] = staging[u]
         /\ \A v \in Uploads : v # u => staging'[v] = staging[v] /\ made'[v] = made[v]
         /\ \A x \in Names : x # n => assets'[x] = assets[x]
    BY <1>4, <2>1, <2>9 DEF BundleType
  <2>15. BundleType'
    <3>1. assets' \in [Names -> Data \cup {Absent}] BY <2>1, <2>4 DEF BundleType
    <3>2. staging' \in [Uploads -> Data \cup {Absent}] BY <2>1 DEF BundleType
    <3>3. made' \in [Uploads -> [judged : BOOLEAN, whole : BOOLEAN, excused : BOOLEAN,
                                 key : Keys \cup {NoKey}] \cup {Absent}]
      BY <2>8, <2>9 DEF BundleType
    <3>4. calls' \in [Calls -> Handlers] BY <2>11, <2>13 DEF BundleType
    <3>5. QED BY <1>1, <3>1, <3>2, <3>3, <3>4 DEF BundleType
  <2>16. CallInv(c)'
    BY <1>4, <1>5, <2>1, <2>12, <2>13, <2>14
    DEF CallInv, LockOf, Held, OpOf, StagedOf, CommitOf, WriteOf, DeleteOf, At, Tools
  <2>17. ASSUME NEW d \in Calls, d # c PROVE CallInv(d)'
    <3>1. calls'[d] = calls[d] BY <2>13, <2>17
    <3>2. StagedOf(d)'
      <4> SUFFICES ASSUME At(d, "begin", "staged") PROVE StagedOf(d)'
        BY <3>1 DEF StagedOf, At
      <4>1. calls[d].upload # u BY <1>2, <2>17 DEF CallInv, StagedOf
      <4>2. \A e \in Calls : calls'[e].upload = calls[d].upload => e = d
        BY <1>2, <2>12, <2>13, <4>1 DEF CallInv, StagedOf
      <4>3. QED BY <1>1, <2>14, <3>1, <4>1, <4>2 DEF CallInv, StagedOf
    <3>3. CommitOf(d)' BY <1>1, <1>4, <2>14, <3>1 DEF CallInv, CommitOf, At
    <3>4. QED BY <1>5, <2>1, <2>17, <3>1, <3>2, <3>3, OtherCall
  <2>18. EntryInv' BY <1>1, <2>14 DEF EntryInv
  <2>19. AppliedInv' BY <1>1, <1>4, <2>13 DEF AppliedInv, At
  <2>20. GatePassed' BY <2>2, <2>14 DEF GatePassed
  <2>21. MadeOfItsChunks' BY <2>7, <2>14 DEF MadeOfItsChunks
  <2>22. NoStrayStaging'
    <3>1. \A d \in Calls : At(d, "begin", "staged") => calls'[d] = calls[d]
      BY <1>4, <2>13 DEF At
    <3>2. QED BY <1>1, <2>14, <3>1 DEF NoStrayStaging, At
  <2>23. QED BY <2>1, <2>15, <2>16, <2>17, <2>18, <2>19, <2>20, <2>21, <2>22
<1>8. QED BY <1>6, <1>7

(* upload_page_asset and delete_page_asset change the bundle under the     *)
(* lock, where no answer to their key was found.                           *)
LEMMA ChangingKeeps ==
  ASSUME BundleInv, NEW c \in Calls, calls[c].pc \in {"locked", "judged"},
         NEW tool \in Tools, calls[c].op = tool, ~Known(c, tool),
         NEW x \in Data \cup {Absent}, x # Absent => Valid(x, calls[c].name),
         assets' = [assets EXCEPT ![calls[c].name] = x],
         applied' = Changes(c, tool), Sets(c, "changed"),
         UNCHANGED <<page, staging, entries, built, expired, journal, lock, made, unsure>>
  PROVE  BundleInv'
<1> USE DEF BundleInv
<1>1. lock = c /\ \A d \in Calls : d # c => lock # d /\ calls[d].pc \notin Held
  BY OneHolder DEF Held
<1>2. PICK h : h = [calls[c] EXCEPT !.pc = "changed"] OBVIOUS
<1>3. h \in Handlers BY <1>2, HandlerTypes DEF BundleType
<1>4. /\ h.pc = "changed" /\ h.op = tool /\ h.upload = calls[c].upload
      /\ h.name = calls[c].name /\ h.key = calls[c].key
  BY <1>2 DEF BundleType, Handlers
<1>5. /\ calls' = [calls EXCEPT ![c] = h] /\ calls'[c] = h
      /\ \A d \in Calls : d # c => calls'[d] = calls[d]
  BY <1>2 DEF Sets, BundleType
<1>6. calls[c].name \in Names BY DEF CallInv, OpOf
<1>7. /\ assets'[calls[c].name] = x
      /\ \A n \in Names : n # calls[c].name => assets'[n] = assets[n]
  BY <1>6 DEF BundleType
<1>8. PICK mine : mine = [tool |-> tool, key |-> calls[c].key] OBVIOUS
<1>9. /\ \A r \in KeyedCalls : r # mine => applied'[r] = applied[r]
      /\ mine \in KeyedCalls => applied'[mine] \in {applied[mine] + 1, applied[mine]}
      /\ applied' \in [KeyedCalls -> Nat]
  <2>1. CASE calls[c].key = NoKey
    BY <2>1 DEF Changes, BundleType
  <2>2. CASE calls[c].key # NoKey
    <3>1. mine \in KeyedCalls BY <1>8, <2>2 DEF KeyedCalls, BundleType, Handlers
    <3>2. PICK k : k = (IF applied[mine] < 2 THEN applied[mine] + 1 ELSE applied[mine]) OBVIOUS
    <3>3. applied' = [applied EXCEPT ![mine] = k] BY <1>8, <2>2, <3>2 DEF Changes
    <3>4. k \in {applied[mine] + 1, applied[mine]} /\ k \in Nat BY <3>1, <3>2 DEF BundleType
    <3>5. QED BY <3>1, <3>3, <3>4 DEF BundleType
  <2>3. QED BY <2>1, <2>2
<1>10. BundleType'
  <2>1. assets' \in [Names -> Data \cup {Absent}] BY DEF BundleType
  <2>2. calls' \in [Calls -> Handlers] BY <1>3, <1>5 DEF BundleType
  <2>3. QED BY <1>9, <2>1, <2>2 DEF BundleType
<1>11. CallInv(c)'
  <2>1. LockOf(c)' BY <1>1, <1>4, <1>5 DEF LockOf, Held
  <2>2. OpOf(c)' BY <1>4, <1>5, <1>6 DEF OpOf, Tools
  <2>3. StagedOf(c)' /\ WriteOf(c)' /\ DeleteOf(c)' BY <1>4, <1>5 DEF StagedOf, WriteOf, DeleteOf, At
  <2>4. CommitOf(c)' BY <1>4, <1>5 DEF CommitOf, At, Tools
  <2>5. QED BY <2>1, <2>2, <2>3, <2>4 DEF CallInv
<1>12. ASSUME NEW d \in Calls, d # c PROVE CallInv(d)'
  <2>1. calls'[d] = calls[d] BY <1>5, <1>12
  <2>2. StagedOf(d)' BY <1>4, <1>5, <2>1 DEF CallInv, StagedOf, At
  <2>3. CommitOf(d)' BY <2>1 DEF CallInv, CommitOf, At
  <2>4. QED BY <1>1, <1>12, <2>1, <2>2, <2>3, OtherCall
<1>13. EntryInv' /\ MadeOfItsChunks' BY DEF EntryInv, MadeOfItsChunks
<1>14. GatePassed' BY <1>7 DEF GatePassed
<1>15. AppliedInv'
  <2>1. \A d \in Calls : calls[d].pc # "changed" BY <1>1 DEF Held
  <2>2. \A r \in KeyedCalls : applied[r] > 0 => r \in journal \cup unsure
    BY <2>1 DEF AppliedInv, At
  <2> SUFFICES ASSUME NEW r \in KeyedCalls
               PROVE /\ applied'[r] > 1 => r \in unsure'
                     /\ applied'[r] > 0 =>
                          \/ r \in journal' \cup unsure'
                          \/ \E d \in Calls : At(d, r.tool, "changed")' /\ calls'[d].key = r.key
    BY DEF AppliedInv
  <2>3. CASE r # mine
    <3>1. applied'[r] = applied[r] BY <1>9, <2>3
    <3>2. applied'[r] > 1 => r \in unsure BY <3>1 DEF AppliedInv
    <3>3. applied'[r] > 0 => r \in journal \cup unsure BY <2>2, <3>1
    <3>4. QED BY <3>2, <3>3
  <2>4. CASE r = mine
    <3>1. mine \notin journal BY <1>8 DEF Known, Recorded
    <3>2. applied[mine] \in Nat /\ applied'[mine] \in {applied[mine] + 1, applied[mine]}
      BY <1>9, <2>4 DEF BundleType
    <3>3. applied'[mine] > 1 => applied[mine] > 0 BY <3>2
    <3>4. applied'[mine] > 1 => mine \in unsure BY <2>2, <2>4, <3>1, <3>3
    <3>5. At(c, r.tool, "changed")' /\ calls'[c].key = r.key
      BY <1>4, <1>5, <1>8, <2>4 DEF At
    <3>6. QED BY <2>4, <3>4, <3>5
  <2>5. QED BY <2>3, <2>4
<1>16. NoStrayStaging'
  <2>1. \A d \in Calls : At(d, "begin", "staged") => calls'[d] = calls[d]
    BY <1>5 DEF At
  <2>2. QED BY <2>1 DEF NoStrayStaging, At
<1>17. QED BY <1>10, <1>11, <1>12, <1>13, <1>14, <1>15, <1>16

LEMMA UploadWriteKeeps ==
  ASSUME BundleInv, NEW c \in Calls, UploadWrite(c)
  PROVE  BundleInv'
<1>1. /\ calls[c].op = "upload_page_asset" /\ calls[c].pc = "locked"
      /\ UNCHANGED <<page, staging, entries, built, expired, journal, made, unsure>>
  BY DEF UploadWrite, At, stores
<1>2. CASE Ends(c) /\ UNCHANGED <<assets, applied>>
  <2>1. Dropped({}) BY <1>1, NothingDropped DEF BundleInv
  <2>2. QED BY <1>1, <1>2, <2>1, EndingKeeps
<1>3. CASE /\ ~Known(c, "upload_page_asset")
           /\ assets' = [assets EXCEPT ![calls[c].name] = calls[c].data]
           /\ applied' = Changes(c, "upload_page_asset")
           /\ Sets(c, "changed") /\ UNCHANGED lock
  <2>1. calls[c].data \in Data /\ Valid(calls[c].data, calls[c].name)
    BY <1>1 DEF BundleInv, CallInv, WriteOf
  <2>2. "upload_page_asset" \in Tools BY DEF Tools
  <2>3. PICK x : x = calls[c].data OBVIOUS
  <2>4. QED BY <1>1, <1>3, <2>1, <2>2, <2>3, ChangingKeeps
<1>4. QED BY <1>2, <1>3 DEF UploadWrite

LEMMA DeleteRemoveKeeps ==
  ASSUME BundleInv, NEW c \in Calls, DeleteRemove(c)
  PROVE  BundleInv'
<1>1. /\ calls[c].op = "delete_page_asset" /\ calls[c].pc = "judged"
      /\ UNCHANGED <<page, staging, entries, built, expired, journal, lock, made, unsure>>
      /\ assets' = [assets EXCEPT ![calls[c].name] = Absent]
      /\ applied' = Changes(c, "delete_page_asset") /\ Sets(c, "changed")
  BY DEF DeleteRemove, At, stores
<1>2. ~Known(c, "delete_page_asset") BY <1>1 DEF BundleInv, CallInv, DeleteOf, At
<1>3. "delete_page_asset" \in Tools BY DEF Tools
<1>4. QED BY <1>1, <1>2, <1>3, ChangingKeeps

LEMMA RememberKeeps ==
  ASSUME BundleInv, NEW c \in Calls, Remember(c)
  PROVE  BundleInv'
<1> USE DEF BundleInv
<1>1. /\ UNCHANGED <<page, assets, staging, entries, built, expired, made, applied>>
      /\ calls[c].pc = "changed" /\ Ends(c)
  BY DEF Remember, files, stores
<1>2. lock = c /\ \A d \in Calls : d # c => lock # d /\ calls[d].pc \notin Held
  BY <1>1, OneHolder DEF Held
<1>3. /\ calls'[c] = Idle /\ lock' = None /\ lock' # c
      /\ \A d \in Calls : d # c => calls'[d] = calls[d] /\ lock' # d
  BY <1>1, <1>2, AssetAssumption DEF Ends, BundleType, AssetAssumption
<1>4. BundleType'
  <2>1. calls' \in [Calls -> Handlers] BY <1>1, IdleHandler DEF Ends, BundleType
  <2>2. QED BY <1>1, <2>1 DEF BundleType
<1>5. CallInv(c)' BY <1>3, IdleCall
<1>6. ASSUME NEW d \in Calls, d # c PROVE CallInv(d)'
  <2>1. calls'[d] = calls[d] /\ lock # d /\ lock' # d BY <1>2, <1>3, <1>6
  <2>2. StagedOf(d)'
    <3> SUFFICES ASSUME At(d, "begin", "staged") PROVE StagedOf(d)'
      BY <2>1 DEF StagedOf, At
    <3>1. Idle.upload # calls[d].upload
      BY IdleHandler, AssetAssumption DEF AssetAssumption, CallInv, StagedOf
    <3>2. \A e \in Calls : calls'[e].upload = calls[d].upload => e = d
      BY <1>3, <3>1 DEF CallInv, StagedOf
    <3>3. QED BY <1>1, <2>1, <3>2 DEF CallInv, StagedOf
  <2>3. CommitOf(d)' BY <1>1, <2>1 DEF CallInv, CommitOf, At
  <2>4. QED BY <2>1, <2>2, <2>3, OtherCall
<1>7. EntryInv' /\ MadeOfItsChunks' /\ GatePassed' BY <1>1 DEF EntryInv, MadeOfItsChunks, GatePassed
<1>8. AppliedInv'
  <2> DEFINE mine == [tool |-> ToolOf(c), key |-> calls[c].key]
  <2>1. journal \subseteq journal' /\ unsure \subseteq unsure' BY DEF Remember
  <2>2. calls[c].key # NoKey => mine \in journal' \cup unsure' BY DEF Remember
  <2> SUFFICES ASSUME NEW r \in KeyedCalls
               PROVE /\ applied'[r] > 1 => r \in unsure'
                     /\ applied'[r] > 0 => r \in journal' \cup unsure'
    BY DEF AppliedInv
  <2>3. applied'[r] > 1 => r \in unsure' BY <1>1, <2>1 DEF AppliedInv
  <2>4. CASE r \in journal \cup unsure BY <2>1, <2>3, <2>4
  <2>5. CASE \E d \in Calls : At(d, r.tool, "changed") /\ calls[d].key = r.key
    <3>1. calls[c].op = r.tool /\ calls[c].key = r.key BY <1>2, <2>5 DEF At, Held
    <3>2. r.key # NoKey /\ r.tool # "commit" /\ r = [tool |-> r.tool, key |-> r.key]
      BY AssetAssumption DEF KeyedCalls, Tools, AssetAssumption
    <3>3. r = mine BY <3>1, <3>2 DEF ToolOf
    <3>4. QED BY <2>2, <2>3, <3>1, <3>2, <3>3
  <2>6. QED BY <1>1, <2>3, <2>4, <2>5 DEF AppliedInv
<1>9. NoStrayStaging'
  <2>1. \A d \in Calls : At(d, "begin", "staged") => calls'[d] = calls[d]
    BY <1>1, <1>3 DEF At
  <2>2. QED BY <1>1, <2>1 DEF NoStrayStaging, At
<1>10. QED BY <1>3, <1>4, <1>5, <1>6, <1>7, <1>8, <1>9

(* What comes from elsewhere: the page is edited, made or removed with its *)
(* directory, a server registers and sweeps, fifteen minutes pass.         *)
LEMMA OutsideKeeps ==
  ASSUME BundleInv,
         \/ \E l \in SUBSET Names : EditPage(l)
         \/ CreatePage \/ DeletePage
         \/ \E s \in Servers : Register(s)
         \/ \E u \in Uploads : Expire(u)
  PROVE  BundleInv'
<1> USE DEF BundleInv
<1>1. /\ UNCHANGED <<entries, journal, lock, calls, made, applied, unsure>>
      /\ page' # page => lock = None
      /\ assets' = assets \/ (assets' = [n \in Names |-> Absent] /\ lock = None)
      /\ staging' = staging \/ staging' = [u \in Uploads |-> Absent]
      /\ \A u \in expired' : u \in expired \/ entries[u] # None
  BY DEF EditPage, CreatePage, DeletePage, Register, Expire, Sweep, files, stores, history
<1>2. BundleType'
  <2>1. page' \in Bundles \cup {Absent}
    BY DEF EditPage, CreatePage, DeletePage, Register, Expire, Bundles, BundleType, files
  <2>2. built' \subseteq Servers /\ expired' \subseteq Uploads
    BY DEF EditPage, CreatePage, DeletePage, Register, Expire, BundleType, stores
  <2>3. assets' \in [Names -> Data \cup {Absent}] BY <1>1 DEF BundleType
  <2>4. staging' \in [Uploads -> Data \cup {Absent}] BY <1>1 DEF BundleType
  <2>5. QED BY <1>1, <2>1, <2>2, <2>3, <2>4 DEF BundleType
<1>3. \A u \in Uploads : staging'[u] # Absent => staging'[u] = staging[u]
  BY <1>1
<1>4. ASSUME NEW d \in Calls PROVE CallInv(d)'
  <2>1. StagedOf(d)' BY <1>1, <1>3 DEF CallInv, StagedOf, At
  <2>2. CommitOf(d)' BY <1>1, <1>3 DEF CallInv, CommitOf, At
  <2>3. lock # d \/ DeleteOf(d)'
    <3>1. None # d BY AssetAssumption DEF AssetAssumption
    <3>2. CASE page' = page /\ assets' = assets
      BY <1>1, <3>2 DEF CallInv, DeleteOf, At, Matches, Referenced, Known, Recorded
    <3>3. QED BY <1>1, <3>1, <3>2
  <2>4. QED BY <1>1, <2>1, <2>2, <2>3, OtherCall
<1>5. EntryInv' BY <1>1, <1>3 DEF EntryInv
<1>6. AppliedInv' BY <1>1 DEF AppliedInv, At
<1>7. GatePassed' BY <1>1 DEF GatePassed
<1>8. MadeOfItsChunks' BY <1>1 DEF MadeOfItsChunks
<1>9. NoStrayStaging' BY <1>1, <1>3 DEF NoStrayStaging, At
<1>10. QED BY <1>1, <1>2, <1>4, <1>5, <1>6, <1>7, <1>8, <1>9

LEMMA RestartKeeps == BundleInv /\ Restart => BundleInv'
<1> SUFFICES ASSUME BundleInv, Restart PROVE BundleInv'
  OBVIOUS
<1> USE DEF BundleInv
<1>1. /\ UNCHANGED <<page, assets, expired, journal, made, applied>>
      /\ calls' = [c \in Calls |-> Idle] /\ lock' = None
      /\ entries' = [u \in Uploads |-> None] /\ built' = {Main}
      /\ staging' = [u \in Uploads |-> Absent]
      /\ unsure' = unsure \cup
            {[tool |-> ToolOf(c), key |-> calls[c].key] :
                c \in {d \in Calls : calls[d].pc = "changed" /\ calls[d].key # NoKey}}
  BY DEF Restart, Sweep
<1>2. BundleType' BY <1>1, IdleHandler, AssetAssumption DEF BundleType, AssetAssumption
<1>3. \A c \in Calls : CallInv(c)'
  BY <1>1, IdleCall, AssetAssumption DEF AssetAssumption
<1>4. EntryInv' /\ GatePassed' /\ MadeOfItsChunks' /\ NoStrayStaging'
  BY <1>1 DEF EntryInv, GatePassed, MadeOfItsChunks, NoStrayStaging
<1>5. AppliedInv'
  <2> SUFFICES ASSUME NEW r \in KeyedCalls
               PROVE /\ applied'[r] > 1 => r \in unsure'
                     /\ applied'[r] > 0 => r \in journal' \cup unsure'
    BY DEF AppliedInv
  <2>1. applied'[r] > 1 => r \in unsure' BY <1>1 DEF AppliedInv
  <2>2. CASE r \in journal \cup unsure BY <1>1, <2>1, <2>2
  <2>3. CASE \E d \in Calls : At(d, r.tool, "changed") /\ calls[d].key = r.key
    <3>1. PICK d \in Calls : At(d, r.tool, "changed") /\ calls[d].key = r.key BY <2>3
    <3>2. r.key # NoKey /\ r.tool # "commit" /\ r = [tool |-> r.tool, key |-> r.key]
      BY AssetAssumption DEF KeyedCalls, Tools, AssetAssumption
    <3>3. r = [tool |-> ToolOf(d), key |-> calls[d].key] /\ calls[d].key # NoKey
      BY <3>1, <3>2 DEF ToolOf, At
    <3>4. r \in unsure' BY <1>1, <3>1, <3>3 DEF At
    <3>5. QED BY <2>1, <3>4
  <2>4. QED BY <1>1, <2>1, <2>2, <2>3 DEF AppliedInv
<1>6. QED BY <1>1, <1>2, <1>3, <1>4, <1>5

LEMMA WantedIsData == Wanted \subseteq Data
<1> SUFFICES ASSUME NEW d \in Wanted PROVE d \in Data
  OBVIOUS
<1>1. PICK k \in Sizes \cup {1} : d \in [1 .. k -> Pieces] BY DEF Wanted
<1>2. k \in Nat
  <2>1. Sizes \subseteq 1 .. MaxAsset /\ MaxAsset \in Nat BY AssetAssumption DEF AssetAssumption
  <2>2. QED BY <2>1
<1>3. d \in Seq(Pieces) BY <1>1, <1>2
<1>4. d \in Seq(Pieces \cup {Torn})
  <2>1. /\ Len(d) \in Nat /\ d \in [1 .. Len(d) -> Pieces] BY <1>3
  <2>2. d \in [1 .. Len(d) -> Pieces \cup {Torn}] BY <2>1
  <2>3. QED BY <2>1, <2>2
<1>5. QED BY <1>4 DEF Data

(* Every step about the files of the bundle.                               *)
LEMMA BundleNext == BundleInv /\ [Next]_vars => BundleInv'
<1> SUFFICES ASSUME BundleInv, [Next]_vars PROVE BundleInv'
  OBVIOUS
<1>1. \A tool : KeysFor(tool) \subseteq Keys \cup {NoKey} BY DEF KeysFor
<1>2. ASSUME NEW c \in Calls, Chunked(c) PROVE BundleInv'
  <2>1. CASE \E s \in Servers, n \in Names : BeginCheck(c, s, n) BY <2>1, ChecksKeep
  <2>2. CASE \E u \in Uploads : BeginStage(c, u) BY <2>2, BeginStageKeeps
  <2>3. CASE \E size \in Sizes :
               \E w \in {Absent} \cup {d \in Wanted : Len(d) = size /\ Valid(d, calls[c].name)} :
                 BeginEnter(c, size, w)
    <3>1. PICK size \in Sizes :
               \E w \in {Absent} \cup {d \in Wanted : Len(d) = size /\ Valid(d, calls[c].name)} :
                 BeginEnter(c, size, w)
      BY <2>3
    <3>2. PICK w \in {Absent} \cup {d \in Wanted : Len(d) = size /\ Valid(d, calls[c].name)} :
            BeginEnter(c, size, w)
      BY <3>1
    <3>3. w \in Data \cup {Absent} /\ (w # Absent => Len(w) = size) BY WantedIsData
    <3>4. QED BY <3>2, <3>3, BeginEnterKeeps
  <2>4. CASE \E s \in Servers, u \in Uploads, k \in KeysFor("commit_asset_upload") :
               CommitGet(c, s, u, k)
    BY <1>1, <2>4, CommitGetKeeps
  <2>5. CASE NotFound(c) BY <2>5, RefuseKeeps
  <2>6. CASE CommitReject(c) \/ CommitNoPage(c) BY <2>6, AbandonKeeps
  <2>7. CASE CommitRead(c) BY <2>7, CommitReadKeeps
  <2>8. CASE CommitRename(c) BY <2>8, CommitRenameKeeps
  <2>9. CASE CommitConsume(c) BY <2>9, ConsumeKeeps
  <2>10. QED BY <1>2, <2>1, <2>2, <2>3, <2>4, <2>5, <2>6, <2>7, <2>8, <2>9 DEF Chunked
<1>3. ASSUME NEW c \in InlineCalls, Inline(c) PROVE BundleInv'
  <2>1. c \in Calls BY AssetAssumption DEF AssetAssumption
  <2>2. CASE \E n \in Names, p \in Pieces, k \in KeysFor("upload_page_asset") :
               UploadCheck(c, n, <<p>>, k)
    BY <1>1, <2>1, <2>2, ChecksKeep
  <2>3. CASE UploadWrite(c) BY <2>1, <2>3, UploadWriteKeeps
  <2>4. CASE \E n \in Names, g \in Guards, f \in BOOLEAN, k \in KeysFor("delete_page_asset") :
               DeleteCheck(c, n, g, f, k)
    BY <1>1, <2>1, <2>4, ChecksKeep
  <2>5. CASE DeleteRead(c) BY <2>1, <2>5, DeleteReadKeeps
  <2>6. CASE DeleteRemove(c) BY <2>1, <2>6, DeleteRemoveKeeps
  <2>7. QED BY <1>3, <2>2, <2>3, <2>4, <2>5, <2>6 DEF Inline
<1>4. CASE \E c \in Calls : Chunked(c) \/ Remember(c) \/ Refuse(c) \/ TakeLock(c)
  BY <1>2, <1>4, RememberKeeps, RefuseKeeps, TakeLockKeeps
<1>5. CASE \E c \in InlineCalls : Inline(c) BY <1>3, <1>5
<1>6. CASE \E s \in Servers, u \in Uploads, p \in Pieces, o \in 0 .. MaxAsset :
             UploadChunk(s, u, o, p)
  BY <1>6, UploadChunkKeeps
<1>7. CASE \E s \in Servers : Prune(s) BY <1>7, PruneKeeps
<1>8. CASE \/ \E l \in SUBSET Names : EditPage(l)
           \/ CreatePage \/ DeletePage
           \/ \E s \in Servers : Register(s)
           \/ \E u \in Uploads : Expire(u)
  BY <1>8, OutsideKeeps
<1>9. CASE Restart BY <1>9, RestartKeeps
<1>10. CASE UNCHANGED vars
  <2>1. UNCHANGED <<page, assets, staging, entries, built, expired, journal, lock, calls, made,
                    applied, unsure>>
    BY <1>10 DEF vars
  <2>2. Dropped({}) BY <2>1, NothingDropped DEF BundleInv
  <2>3. QED BY <2>1, <2>2, MovingKeeps DEF BundleInv, BundleType
<1>11. QED BY <1>4, <1>5, <1>6, <1>7, <1>8, <1>9, <1>10 DEF Next

-----------------------------------------------------------------------------
(* The image.  Neither a generation nor a scan holds the content lock.     *)

(* What a handler that removes the image has in its hands.                 *)
HeroHandlers ==
    [op : {"none", "delete_generated", "delete_page"},
     pc : {"idle", "checked", "locked", "judged", "removed"},
     server : {Main}, upload : {None}, name : {Absent, HeroName},
     data : Drawn \cup {Absent}, key : {NoKey},
     guard : [of : {"asset"}, is : Drawn] \cup [of : {"page"}, is : SUBSET {HeroName}]
                 \cup {Absent},
     force : BOOLEAN, blind : BOOLEAN, now : SUBSET {"bundle"}]

Generations == [pc : {"new", "drawing", "asking", "open", "done"}, ino : Gens \cup {None}]

ImageType ==
    /\ page \in [links : SUBSET {HeroName}] \cup {Absent}
    /\ lock \in Calls \cup {None}
    /\ calls \in [Calls -> HeroHandlers]
    /\ hero \in Gens \cup {None}
    /\ images \in [Gens -> Drawn]
    /\ gens \in [Gens -> Generations]
    /\ advice \in Drawn \cup {Absent}
    /\ \A g \in Gens : gens[g].pc = "open" => gens[g].ino \in Gens

(* The content lock, and what a call has found under it: delete_page has   *)
(* removed the source, delete_page_asset has compared the guard.           *)
RemoverOf(c) ==
    LET h == calls[c]
    IN  /\ lock = c <=> h.pc \in {"locked", "judged", "removed"}
        /\ h.pc = "removed" => page = Absent /\ h.op = "delete_page"
        /\ h.pc \in {"checked", "locked", "judged"} => h.op = "delete_generated"
        /\ h.pc = "judged" =>
              /\ IF h.guard.of = "page"
                 THEN HadBundle(c) /\ page # Absent /\ h.guard.is = page.links
                 ELSE h.guard.is = h.data
              /\ Referenced(HeroName) /\ HadBundle(c) => h.force \/ h.blind

(* An inode at the path or open in some generation was made by one that    *)
(* will not make it again.                                                 *)
InodesInUse ==
    \A i \in Gens : hero = i \/ OpenOn(i) # {} => gens[i].pc \in {"open", "done"}

(* Unless it is spoilt, a file somebody has open is empty, and nobody else *)
(* has it open; and one nobody has open is whole.                          *)
OneWriter ==
    \A i \in Gens \ spoilt :
        /\ \A g, h \in OpenOn(i) : g = h
        /\ OpenOn(i) # {} => images[i] = Empty
        /\ hero = i /\ OpenOn(i) = {} =>
              \/ images[i].as = "whole"
              \/ images[i].as = "cut" /\ images[i].of \in Large

(* The image of a page that is gone was linked after it, or is what a      *)
(* delete_page has still to remove or could not.                           *)
OrphansOf ==
    hero # None /\ page = Absent =>
        \/ hero \in late \/ kept
        \/ \E c \in Calls : At(c, "delete_page", "removed")

(* Nothing happens to the files of the bundle meanwhile.                   *)
NoFiles ==
    /\ assets = [n \in Names |-> Absent] /\ staging = [u \in Uploads |-> Absent]
    /\ made = [u \in Uploads |-> Absent] /\ applied = [r \in KeyedCalls |-> 0]

ImageInv ==
    /\ ImageType
    /\ \A c \in Calls : RemoverOf(c)
    /\ InodesInUse /\ OneWriter /\ OrphansOf /\ NoFiles

(* A behaviour is about one or the other.                                  *)
IInv ==
    \/ scene = "bundle" /\ BundleInv /\ hero = None
    \/ scene = "image" /\ ImageInv

LEMMA HeroIdle ==
  Idle \in HeroHandlers /\ Idle.pc = "idle" /\ Idle.op = "none"
  BY DEF Idle, HeroHandlers

LEMMA ImageInit == HeroInit /\ scene = "image" => ImageInv
<1> SUFFICES ASSUME HeroInit PROVE ImageInv
  OBVIOUS
<1>1. page = [links |-> {}] /\ page \in [links : SUBSET {HeroName}] BY DEF HeroInit, Init
<1>2. calls \in [Calls -> HeroHandlers] BY HeroIdle DEF HeroInit, Init
<1>3. Empty \in Drawn BY DEF Empty, Image, Drawn, Stages
<1>4. images \in [Gens -> Drawn] BY <1>3 DEF HeroInit
<1>5. gens \in [Gens -> Generations] /\ \A g \in Gens : gens[g].pc = "new"
  BY DEF HeroInit, Generations
<1>6. ImageType BY <1>1, <1>2, <1>4, <1>5 DEF HeroInit, Init, ImageType
<1>7. \A c \in Calls : RemoverOf(c)
  <2>1. \A c \in Calls : calls[c] = Idle /\ lock # c
    BY AssetAssumption DEF HeroInit, Init, AssetAssumption
  <2>2. QED BY <2>1, HeroIdle DEF RemoverOf
<1>8. hero = None /\ \A i \in Gens : OpenOn(i) = {} /\ hero # i
  BY <1>5, HeroAssumption DEF HeroInit, OpenOn, HeroAssumption
<1>9. InodesInUse /\ OneWriter /\ OrphansOf BY <1>8 DEF InodesInUse, OneWriter, OrphansOf
<1>10. NoFiles BY DEF HeroInit, Init, NoFiles
<1>11. QED BY <1>6, <1>7, <1>9, <1>10 DEF ImageInv

(* A generation takes no notice of the calls, nor they of it.              *)
LEMMA GenerationStep ==
  ASSUME ImageInv, UNCHANGED <<page, lock, calls, assets, staging, made, applied>>,
         hero' \in Gens \cup {None}, images' \in [Gens -> Drawn], gens' \in [Gens -> Generations],
         advice' \in Drawn \cup {Absent},
         \A g \in Gens : gens'[g].pc = "open" => gens'[g].ino \in Gens,
         InodesInUse', OneWriter', OrphansOf'
  PROVE  ImageInv'
<1>1. ImageType' BY DEF ImageInv, ImageType
<1>2. \A c \in Calls : RemoverOf(c)' BY DEF ImageInv, RemoverOf, HadBundle, Referenced
<1>3. NoFiles' BY DEF ImageInv, NoFiles
<1>4. QED BY <1>1, <1>2, <1>3 DEF ImageInv

(* What a drawing leaves in a file.                                        *)
LEMMA ImageTypes ==
  /\ Empty \in Drawn
  /\ \A g \in Gens, as \in Stages : Image(g, as) \in Drawn /\ Image(g, as).as = as
                                    /\ Image(g, as).of = g
  BY DEF Empty, Image, Drawn, Stages

(* Others in a generation's step.                                          *)
LEMMA OthersStay ==
  ASSUME UNCHANGED Others
  PROVE  UNCHANGED <<page, lock, calls, assets, staging, made, applied>>
  BY DEF Others, stores

(* A generation that begins or gives up has no file open.                  *)
LEMMA StartsKeep ==
  ASSUME ImageInv, NEW g \in Gens, StartLocal(g) \/ StartApi(g) \/ GiveUp(g)
  PROVE  ImageInv'
<1>1. PICK to \in {"drawing", "asking", "done"} :
        gens[g].pc \notin {"open", "done"} /\ gens' = [gens EXCEPT ![g].pc = to]
  BY DEF StartLocal, StartApi, GiveUp, Moves
<1>2. UNCHANGED <<Others, hero, images, advice, spoilt, late, kept>>
  BY DEF StartLocal, StartApi, GiveUp, imageFiles, imageHistory
<1>3. UNCHANGED <<page, lock, calls, assets, staging, made, applied>> BY <1>2, OthersStay
<1>4. ImageType /\ InodesInUse /\ OneWriter /\ OrphansOf BY DEF ImageInv
<1>5. PICK k : k = [gens[g] EXCEPT !.pc = to] OBVIOUS
<1>6. k \in Generations /\ k.pc = to BY <1>4, <1>5 DEF ImageType, Generations
<1>7. /\ gens' \in [Gens -> Generations] /\ gens'[g] = k
      /\ \A h \in Gens : h # g => gens'[h] = gens[h]
  BY <1>1, <1>4, <1>5, <1>6 DEF ImageType
<1>8. \A i \in Gens : OpenOn(i)' = OpenOn(i)
  BY <1>1, <1>6, <1>7 DEF OpenOn
<1>9. InodesInUse' BY <1>1, <1>2, <1>4, <1>7, <1>8 DEF InodesInUse
<1>10. OneWriter' BY <1>2, <1>4, <1>8 DEF OneWriter
<1>11. OrphansOf' BY <1>2, <1>3, <1>4 DEF OrphansOf, At
<1>12. \A h \in Gens : gens'[h].pc = "open" => gens'[h].ino \in Gens
  BY <1>4, <1>6, <1>7 DEF ImageType
<1>13. QED BY <1>2, <1>3, <1>4, <1>7, <1>9, <1>10, <1>11, <1>12, GenerationStep DEF ImageType

(* A new file renamed over the path: the inode is the generation's own.    *)
LEMMA InstallKeeps ==
  ASSUME ImageInv, NEW g \in Gens, Install(g)
  PROVE  ImageInv'
<1>1. /\ gens[g].pc = "asking" /\ gens' = [gens EXCEPT ![g].pc = "done"]
      /\ images' = [images EXCEPT ![g] = Fetched(g)]
      /\ hero' = g /\ UNCHANGED <<Others, advice, spoilt, kept>>
      /\ late' = IF page = Absent THEN late \cup {g} ELSE late
  BY DEF Install, Moves, Linked
<1>2. UNCHANGED <<page, lock, calls, assets, staging, made, applied>> BY <1>1, OthersStay
<1>3. ImageType /\ InodesInUse /\ OneWriter /\ OrphansOf BY DEF ImageInv
<1>4. PICK k : k = [gens[g] EXCEPT !.pc = "done"] OBVIOUS
<1>5. k \in Generations /\ k.pc = "done" BY <1>3, <1>4 DEF ImageType, Generations
<1>6. /\ gens' \in [Gens -> Generations] /\ gens'[g] = k
      /\ \A h \in Gens : h # g => gens'[h] = gens[h]
  BY <1>1, <1>3, <1>4, <1>5 DEF ImageType
<1>7. \A i \in Gens : OpenOn(i)' = OpenOn(i)
  BY <1>1, <1>5, <1>6 DEF OpenOn
<1>8. OpenOn(g) = {} BY <1>1, <1>3 DEF InodesInUse
<1>9. /\ Fetched(g) \in Drawn
      /\ \/ Fetched(g).as = "whole"
         \/ Fetched(g).as = "cut" /\ Fetched(g).of \in Large
  <2>1. CASE g \in Large BY <2>1, ImageTypes DEF Fetched, Stages
  <2>2. CASE g \notin Large BY <2>2, ImageTypes DEF Fetched, Stages
  <2>3. QED BY <2>1, <2>2
<1>10. /\ images' \in [Gens -> Drawn] /\ images'[g] = Fetched(g)
       /\ \A i \in Gens : i # g => images'[i] = images[i]
  BY <1>1, <1>3, <1>9 DEF ImageType
<1>11. InodesInUse' BY <1>1, <1>3, <1>5, <1>6, <1>7 DEF InodesInUse
<1>12. OneWriter'
  <2> SUFFICES ASSUME NEW i \in Gens, i \notin spoilt
               PROVE /\ \A x, y \in OpenOn(i) : x = y
                     /\ OpenOn(i) # {} => images'[i] = Empty
                     /\ hero' = i /\ OpenOn(i) = {} =>
                           \/ images'[i].as = "whole"
                           \/ images'[i].as = "cut" /\ images'[i].of \in Large
    BY <1>1, <1>7 DEF OneWriter
  <2>1. CASE i = g BY <1>8, <1>9, <1>10, <2>1
  <2>2. CASE i # g BY <1>1, <1>3, <1>10, <2>2 DEF OneWriter
  <2>3. QED BY <2>1, <2>2
<1>13. OrphansOf' BY <1>1, <1>2 DEF OrphansOf
<1>14. \A h \in Gens : gens'[h].pc = "open" => gens'[h].ino \in Gens
  BY <1>3, <1>5, <1>6 DEF ImageType
<1>15. QED BY <1>1, <1>2, <1>3, <1>6, <1>10, <1>11, <1>12, <1>13, <1>14, GenerationStep
  DEF ImageType

(* os.WriteFile opens what is at the path, or makes the generation's own.  *)
LEMMA TruncateKeeps ==
  ASSUME ImageInv, NEW g \in Gens, Truncate(g)
  PROVE  ImageInv'
<1>1. PICK i : i = IF hero = None THEN g ELSE hero OBVIOUS
<1>2. /\ gens[g].pc = "drawing"
      /\ gens' = [gens EXCEPT ![g] = [pc |-> "open", ino |-> i]]
      /\ images' = [images EXCEPT ![i] = Empty]
      /\ hero' = i /\ UNCHANGED <<Others, advice, kept>>
      /\ IF hero = None THEN late' = (IF page = Absent THEN late \cup {i} ELSE late)
                        ELSE late' = late
      /\ spoilt' = IF OpenOn(i) = {} THEN spoilt \ {i} ELSE spoilt \cup {i}
  BY <1>1 DEF Truncate, Linked
<1>3. UNCHANGED <<page, lock, calls, assets, staging, made, applied>> BY <1>2, OthersStay
<1>4. ImageType /\ InodesInUse /\ OneWriter /\ OrphansOf BY DEF ImageInv
<1>5. i \in Gens /\ (hero = None \/ hero = i) BY <1>1, <1>4 DEF ImageType
<1>6. /\ gens' \in [Gens -> Generations] /\ gens'[g] = [pc |-> "open", ino |-> i]
      /\ \A h \in Gens : h # g => gens'[h] = gens[h]
  BY <1>2, <1>4, <1>5 DEF ImageType, Generations
<1>7. OpenOn(i)' = OpenOn(i) \cup {g} /\ \A j \in Gens : j # i => OpenOn(j)' = OpenOn(j)
  BY <1>2, <1>6 DEF OpenOn
<1>8. /\ images' \in [Gens -> Drawn] /\ images'[i] = Empty
      /\ \A j \in Gens : j # i => images'[j] = images[j]
  BY <1>2, <1>4, <1>5, ImageTypes DEF ImageType
<1>9. gens'[i].pc \in {"open", "done"}
  BY <1>1, <1>4, <1>5, <1>6 DEF InodesInUse
<1>10. InodesInUse'
  <2> SUFFICES ASSUME NEW j \in Gens, hero' = j \/ OpenOn(j)' # {}
               PROVE gens'[j].pc \in {"open", "done"}
    BY DEF InodesInUse
  <2>1. CASE j = i BY <1>9, <2>1
  <2>2. CASE j # i
    <3>1. gens[j].pc \in {"open", "done"} BY <1>2, <1>4, <1>7, <2>2 DEF InodesInUse
    <3>2. QED BY <1>2, <1>6, <3>1
  <2>3. QED BY <2>1, <2>2
<1>11. OneWriter'
  <2> SUFFICES ASSUME NEW j \in Gens, j \notin spoilt'
               PROVE /\ \A x, y \in OpenOn(j)' : x = y
                     /\ OpenOn(j)' # {} => images'[j] = Empty
                     /\ hero' = j /\ OpenOn(j)' = {} =>
                           \/ images'[j].as = "whole"
                           \/ images'[j].as = "cut" /\ images'[j].of \in Large
    BY DEF OneWriter
  <2>1. CASE j = i
    <3>1. OpenOn(i) = {} BY <1>2, <2>1
    <3>2. OpenOn(j)' = {g} BY <1>7, <2>1, <3>1
    <3>3. QED BY <1>8, <2>1, <3>2
  <2>2. CASE j # i
    <3>1. j \notin spoilt BY <1>2, <2>2
    <3>2. OpenOn(j)' = OpenOn(j) /\ images'[j] = images[j] /\ hero' # j BY <1>2, <1>7, <1>8, <2>2
    <3>3. QED BY <1>4, <3>1, <3>2 DEF OneWriter
  <2>3. QED BY <2>1, <2>2
<1>12. OrphansOf' BY <1>2, <1>3, <1>4, <1>5 DEF OrphansOf, At
<1>13. \A h \in Gens : gens'[h].pc = "open" => gens'[h].ino \in Gens
  BY <1>4, <1>5, <1>6 DEF ImageType
<1>14. QED BY <1>2, <1>3, <1>4, <1>5, <1>6, <1>8, <1>10, <1>11, <1>12, <1>13, GenerationStep
  DEF ImageType

(* The write ends, or stops half way.                                      *)
LEMMA WritesKeep ==
  ASSUME ImageInv, NEW g \in Gens, WriteImage(g) \/ WriteStops(g)
  PROVE  ImageInv'
<1>1. ImageType /\ InodesInUse /\ OneWriter /\ OrphansOf BY DEF ImageInv
<1>2. PICK i : i = gens[g].ino OBVIOUS
<1>3. /\ gens[g].pc = "open" /\ gens' = [gens EXCEPT ![g].pc = "done"]
      /\ UNCHANGED <<Others, hero, advice, late, kept>>
  BY DEF WriteImage, WriteStops, Moves, imageHistory
<1>4. UNCHANGED <<page, lock, calls, assets, staging, made, applied>> BY <1>3, OthersStay
<1>5. i \in Gens /\ g \in OpenOn(i) BY <1>1, <1>2, <1>3 DEF ImageType, OpenOn
<1>6. PICK data \in Drawn :
        /\ images' = [images EXCEPT ![i] = data]
        /\ \/ spoilt' = spoilt /\ (images[i] = Empty => data.as = "whole")
           \/ spoilt' = spoilt \cup {i}
  <2>1. CASE WriteImage(g)
    <3>1. PICK data \in Over(g, i) : images' = [images EXCEPT ![i] = data]
      BY <1>2, <2>1 DEF WriteImage
    <3>2. data \in Drawn /\ (images[i] = Empty => data.as = "whole")
      BY <3>1, ImageTypes DEF Over, Stages
    <3>3. QED BY <2>1, <3>1, <3>2 DEF WriteImage, imageHistory
  <2>2. CASE WriteStops(g)
    <3>1. Image(g, "torn") \in Drawn BY ImageTypes DEF Stages
    <3>2. QED BY <1>2, <2>2, <3>1 DEF WriteStops
  <2>3. QED BY <2>1, <2>2
<1>7. PICK k : k = [gens[g] EXCEPT !.pc = "done"] OBVIOUS
<1>8. k \in Generations /\ k.pc = "done" BY <1>1, <1>7 DEF ImageType, Generations
<1>9. /\ gens' \in [Gens -> Generations] /\ gens'[g] = k
      /\ \A h \in Gens : h # g => gens'[h] = gens[h]
  BY <1>1, <1>3, <1>7, <1>8 DEF ImageType
<1>10. OpenOn(i)' = OpenOn(i) \ {g} /\ \A j \in Gens : j # i => OpenOn(j)' = OpenOn(j)
  BY <1>2, <1>3, <1>8, <1>9 DEF OpenOn
<1>11. /\ images' \in [Gens -> Drawn] /\ images'[i] = data
       /\ \A j \in Gens : j # i => images'[j] = images[j]
  BY <1>1, <1>5, <1>6 DEF ImageType
<1>12. InodesInUse'
  <2> SUFFICES ASSUME NEW j \in Gens, hero' = j \/ OpenOn(j)' # {}
               PROVE gens'[j].pc \in {"open", "done"}
    BY DEF InodesInUse
  <2>1. gens[j].pc \in {"open", "done"} BY <1>1, <1>3, <1>10 DEF InodesInUse
  <2>2. QED BY <1>8, <1>9, <2>1
<1>13. OneWriter'
  <2> SUFFICES ASSUME NEW j \in Gens, j \notin spoilt'
               PROVE /\ \A x, y \in OpenOn(j)' : x = y
                     /\ OpenOn(j)' # {} => images'[j] = Empty
                     /\ hero' = j /\ OpenOn(j)' = {} =>
                           \/ images'[j].as = "whole"
                           \/ images'[j].as = "cut" /\ images'[j].of \in Large
    BY DEF OneWriter
  <2>1. j \notin spoilt BY <1>6
  <2>2. CASE j = i
    <3>1. OpenOn(i) = {g} /\ images[i] = Empty BY <1>1, <1>5, <2>1, <2>2 DEF OneWriter
    <3>2. data.as = "whole" BY <1>6, <2>2, <3>1
    <3>3. OpenOn(i)' = {} BY <1>10, <3>1
    <3>4. QED BY <1>11, <2>2, <3>2, <3>3
  <2>3. CASE j # i BY <1>1, <1>3, <1>10, <1>11, <2>1, <2>3 DEF OneWriter
  <2>4. QED BY <2>2, <2>3
<1>14. OrphansOf' BY <1>1, <1>3, <1>4 DEF OrphansOf, At
<1>15. \A h \in Gens : gens'[h].pc = "open" => gens'[h].ino \in Gens
  BY <1>1, <1>8, <1>9 DEF ImageType
<1>16. QED BY <1>1, <1>3, <1>4, <1>9, <1>11, <1>12, <1>13, <1>14, <1>15, GenerationStep
  DEF ImageType

LEMMA ScansKeep ==
  ASSUME ImageInv, ScanPages \/ ScanImages
  PROVE  ImageInv'
<1>1. UNCHANGED <<Others, hero, images, gens, spoilt, late, kept>>
  BY DEF ScanPages, ScanImages, imageFiles, imageHistory
<1>2. UNCHANGED <<page, lock, calls, assets, staging, made, applied>> BY <1>1, OthersStay
<1>3. ImageType /\ InodesInUse /\ OneWriter /\ OrphansOf BY DEF ImageInv
<1>4. advice' \in Drawn \cup {Absent} BY <1>3 DEF ScanPages, ScanImages, ImageType
<1>5. InodesInUse' BY <1>1, <1>3 DEF InodesInUse, OpenOn
<1>6. OneWriter' BY <1>1, <1>3 DEF OneWriter, OpenOn
<1>7. OrphansOf' BY <1>1, <1>2, <1>3 DEF OrphansOf, At
<1>8. QED BY <1>1, <1>2, <1>3, <1>4, <1>5, <1>6, <1>7, GenerationStep DEF ImageType

(* A call moves on, and may remove the image; the page changes only while  *)
(* nobody has the lock.                                                    *)
LEMMA RemoverStep ==
  ASSUME ImageInv, NEW c \in Calls, NEW h \in HeroHandlers, calls' = [calls EXCEPT ![c] = h],
         RemoverOf(c)', lock' \in Calls \cup {None},
         \A d \in Calls : d # c => (lock' = d <=> lock = d),
         page' = page \/ (lock = None /\ page' = Absent),
         hero' = hero \/ hero' = None, OrphansOf',
         UNCHANGED <<images, gens, advice, spoilt, assets, staging, made, applied>>
  PROVE  ImageInv'
<1> USE DEF ImageInv
<1>1. /\ calls'[c] = h /\ \A d \in Calls : d # c => calls'[d] = calls[d]
      /\ calls' \in [Calls -> HeroHandlers]
  BY DEF ImageType
<1>2. ImageType' BY <1>1 DEF ImageType
<1>3. ASSUME NEW d \in Calls, d # c PROVE RemoverOf(d)'
  <2>1. calls'[d] = calls[d] /\ RemoverOf(d) /\ (lock' = d <=> lock = d) BY <1>1, <1>3
  <2>2. CASE page' = page BY <2>1, <2>2 DEF RemoverOf, HadBundle, Referenced
  <2>3. CASE lock = None
    <3>1. lock # d BY <2>3, AssetAssumption DEF AssetAssumption
    <3>2. QED BY <2>1, <3>1 DEF RemoverOf
  <2>4. QED BY <2>2, <2>3
<1>4. \A i \in Gens : hero' = i => hero = i BY HeroAssumption DEF HeroAssumption
<1>5. InodesInUse' BY <1>4 DEF InodesInUse, OpenOn
<1>6. OneWriter' BY <1>4 DEF OneWriter, OpenOn
<1>7. NoFiles' BY DEF NoFiles
<1>8. QED BY <1>2, <1>3, <1>5, <1>6, <1>7

(* A call that ends where it has removed nothing.                          *)
LEMMA RemoverEnds ==
  ASSUME ImageInv, NEW c \in Calls, Ends(c), hero' = hero \/ hero' = None,
         hero' = hero => OrphansOf',
         UNCHANGED <<page, images, gens, advice, spoilt, assets, staging, made, applied>>
  PROVE  ImageInv'
<1>1. calls' = [calls EXCEPT ![c] = Idle] /\ Idle \in HeroHandlers BY HeroIdle DEF Ends
<1>2. calls'[c] = Idle BY <1>1 DEF ImageInv, ImageType
<1>3. /\ lock' \in Calls \cup {None} /\ lock' # c
      /\ \A d \in Calls : d # c => (lock' = d <=> lock = d)
  BY AssetAssumption DEF Ends, ImageInv, ImageType, AssetAssumption
<1>4. RemoverOf(c)' BY <1>2, <1>3, HeroIdle DEF RemoverOf
<1>5. OrphansOf' BY DEF OrphansOf
<1>6. QED BY <1>1, <1>3, <1>4, <1>5, RemoverStep

(* Orphans stay accounted for while the calls that remove pages stand.     *)
LEMMA OrphansStay ==
  ASSUME OrphansOf, UNCHANGED <<page, hero, late, kept>>,
         \A d \in Calls : At(d, "delete_page", "removed") => calls'[d] = calls[d]
  PROVE  OrphansOf'
  BY DEF OrphansOf, At

LEMMA HeroCheckKeeps ==
  ASSUME ImageInv, NEW c \in Calls, NEW g \in HeroGuards, NEW f \in BOOLEAN, HeroCheck(c, g, f)
  PROVE  ImageInv'
<1> USE DEF ImageInv
<1>1. /\ UNCHANGED <<page, assets, staging, lock, made, applied, hero, images, gens, advice,
                     spoilt, late, kept>>
      /\ calls[c] = Idle
  BY DEF HeroCheck, imageVars, history
<1>2. PICK h : h = [Idle EXCEPT !.op = "delete_generated", !.pc = "checked", !.name = HeroName,
                       !.guard = g, !.force = f,
                       !.now = IF page = Absent THEN {} ELSE {"bundle"}]
  OBVIOUS
<1>3. g \in [of : {"asset"}, is : Drawn] \cup [of : {"page"}, is : SUBSET {HeroName}]
  <2>1. CASE g \in {[of |-> "asset", is |-> d] : d \in {advice} \ {Absent}}
    BY <2>1 DEF ImageType
  <2>2. CASE g \in {[of |-> "asset", is |-> images[x]] : x \in {hero} \ {None}}
    BY <2>2 DEF ImageType
  <2>3. CASE g \in {[of |-> "page", is |-> p.links] : p \in {page} \ {Absent}}
    BY <2>3 DEF ImageType
  <2>4. QED BY <2>1, <2>2, <2>3 DEF HeroGuards
<1>4. h \in HeroHandlers /\ h.pc = "checked" /\ h.op = "delete_generated"
  BY <1>2, <1>3, HeroIdle DEF HeroHandlers, Idle
<1>5. calls' = [calls EXCEPT ![c] = h] /\ calls'[c] = h BY <1>2 DEF HeroCheck, ImageType
<1>6. lock # c BY <1>1, HeroIdle DEF RemoverOf
<1>7. RemoverOf(c)' BY <1>1, <1>4, <1>5, <1>6 DEF RemoverOf
<1>8. \A d \in Calls : At(d, "delete_page", "removed") => calls'[d] = calls[d]
  <2>1. \A d \in Calls : d # c => calls'[d] = calls[d] BY <1>5 DEF ImageType
  <2>2. QED BY <1>1, <2>1, HeroIdle DEF At
<1>9. OrphansOf' BY <1>1, <1>8, OrphansStay
<1>10. lock' \in Calls \cup {None} BY <1>1 DEF ImageType
<1>11. QED BY <1>1, <1>4, <1>5, <1>7, <1>9, <1>10, RemoverStep

(* The lock is taken, or the call gives up.                                *)
LEMMA RemoverWaits ==
  ASSUME ImageInv, NEW c \in Calls, TakeLock(c) \/ Refuse(c),
         UNCHANGED <<hero, images, gens, advice, spoilt, late, kept>>
  PROVE  ImageInv'
<1> USE DEF ImageInv
<1>1. UNCHANGED <<page, assets, staging, made, applied>> BY DEF TakeLock, Refuse, files, history
<1>2. calls[c].pc \in {"checked", "got", "locked"} BY DEF TakeLock, Refuse
<1>3. \A d \in Calls : At(d, "delete_page", "removed") => calls'[d] = calls[d]
  BY <1>2 DEF At, TakeLock, Refuse, Sets, Ends, ImageType
<1>4. OrphansOf' BY <1>1, <1>3, OrphansStay
<1>5. CASE Refuse(c)
  <2>1. Ends(c) BY <1>5 DEF Refuse
  <2>2. QED BY <1>1, <1>4, <2>1, RemoverEnds
<1>6. CASE TakeLock(c)
  <2>1. PICK h : h = [calls[c] EXCEPT !.pc = "locked"] OBVIOUS
  <2>2. h \in HeroHandlers /\ h.pc = "locked" /\ h.op = calls[c].op
    BY <2>1 DEF ImageType, HeroHandlers
  <2>3. calls' = [calls EXCEPT ![c] = h] /\ calls'[c] = h
    BY <1>6, <2>1 DEF TakeLock, Sets, ImageType
  <2>4. calls[c].pc = "checked" /\ lock = None /\ lock' = c BY <1>6 DEF TakeLock
  <2>5. RemoverOf(c)' BY <2>2, <2>3, <2>4 DEF RemoverOf
  <2>6. \A d \in Calls : d # c => (lock' = d <=> lock = d)
    BY <2>4, AssetAssumption DEF AssetAssumption
  <2>7. QED BY <1>1, <1>4, <2>2, <2>3, <2>4, <2>5, <2>6, RemoverStep
<1>7. QED BY <1>5, <1>6

LEMMA HeroReadKeeps ==
  ASSUME ImageInv, NEW c \in Calls, HeroRead(c)
  PROVE  ImageInv'
<1> USE DEF ImageInv
<1>1. /\ UNCHANGED <<page, assets, staging, made, applied, hero, images, gens, advice, spoilt,
                     late, kept>>
      /\ calls[c].op = "delete_generated" /\ calls[c].pc = "locked"
  BY DEF HeroRead, At, history, imageVars
<1>2. \A d \in Calls : At(d, "delete_page", "removed") => calls'[d] = calls[d]
  BY <1>1 DEF At, HeroRead, Ends, ImageType
<1>3. OrphansOf' BY <1>1, <1>2, OrphansStay
<1>4. CASE Ends(c) BY <1>1, <1>3, <1>4, RemoverEnds
<1>5. ASSUME NEW blind \in BOOLEAN,
             /\ hero # None /\ HeroMatches(c)
             /\ ~(HadBundle(c) /\ Referenced(HeroName) /\ ~calls[c].force /\ ~blind)
             /\ calls' = [calls EXCEPT ![c].pc = "judged", ![c].blind = blind, ![c].data = images[hero]]
             /\ UNCHANGED lock
      PROVE  ImageInv'
  <2>1. PICK h : h = [calls[c] EXCEPT !.pc = "judged", !.blind = blind, !.data = images[hero]] OBVIOUS
  <2>2. images[hero] \in Drawn BY <1>5 DEF ImageType
  <2>3. /\ h \in HeroHandlers /\ h.pc = "judged" /\ h.op = "delete_generated"
        /\ h.data = images[hero] /\ h.guard = calls[c].guard /\ h.force = calls[c].force
        /\ h.now = calls[c].now /\ h.blind = blind
    BY <1>1, <2>1, <2>2 DEF ImageType, HeroHandlers
  <2>4. calls' = [calls EXCEPT ![c] = h] /\ calls'[c] = h BY <1>5, <2>1 DEF ImageType
  <2>5. IF calls[c].guard.of = "page"
        THEN HadBundle(c) /\ page # Absent /\ calls[c].guard.is = page.links
        ELSE calls[c].guard.is = images[hero]
    BY <1>5 DEF HeroMatches
  <2>6. RemoverOf(c)' BY <1>1, <1>5, <2>3, <2>4, <2>5 DEF RemoverOf, HadBundle, Referenced
  <2>7. lock' \in Calls \cup {None} BY <1>5 DEF ImageType
  <2>8. QED BY <1>1, <1>3, <1>5, <2>3, <2>4, <2>6, <2>7, RemoverStep
<1>6. PICK blind \in BOOLEAN :
          \/ Ends(c)
          \/ /\ hero # None /\ HeroMatches(c)
             /\ ~(HadBundle(c) /\ Referenced(HeroName) /\ ~calls[c].force /\ ~blind)
             /\ calls' = [calls EXCEPT ![c].pc = "judged", ![c].blind = blind, ![c].data = images[hero]]
             /\ UNCHANGED lock
  BY DEF HeroRead
<1>7. QED BY <1>4, <1>5, <1>6

LEMMA HeroRemovesKeep ==
  ASSUME ImageInv, NEW c \in Calls, HeroRemove(c) \/ RemoveHeroImage(c)
  PROVE  ImageInv'
<1>1. /\ Ends(c)
      /\ UNCHANGED <<page, images, gens, advice, assets, staging, made, applied, spoilt>>
      /\ hero' = None \/ (hero' = hero /\ kept' = TRUE)
  BY DEF HeroRemove, RemoveHeroImage, history, imageHistory
<1>2. hero' # None => OrphansOf' BY <1>1 DEF OrphansOf
<1>3. OrphansOf' BY <1>2 DEF OrphansOf
<1>4. QED BY <1>1, <1>3, RemoverEnds

LEMMA DeletePageSourceKeeps ==
  ASSUME ImageInv, NEW c \in Calls, DeletePageSource(c)
  PROVE  ImageInv'
<1> USE DEF ImageInv
<1>1. /\ UNCHANGED <<assets, staging, made, applied, hero, images, gens, advice, spoilt>>
      /\ lock = None /\ page' = Absent /\ lock' = c
  BY DEF DeletePageSource, history, imageVars
<1>2. PICK h : h = [Idle EXCEPT !.op = "delete_page", !.pc = "removed"] OBVIOUS
<1>3. h \in HeroHandlers /\ h.pc = "removed" /\ h.op = "delete_page"
  BY <1>2, HeroIdle DEF HeroHandlers, Idle
<1>4. calls' = [calls EXCEPT ![c] = h] /\ calls'[c] = h
  BY <1>2 DEF DeletePageSource, ImageType
<1>5. RemoverOf(c)' BY <1>1, <1>3, <1>4 DEF RemoverOf
<1>6. OrphansOf' BY <1>3, <1>4 DEF OrphansOf, At
<1>7. \A d \in Calls : d # c => (lock' = d <=> lock = d)
  BY <1>1, AssetAssumption DEF AssetAssumption
<1>8. QED BY <1>1, <1>3, <1>4, <1>5, <1>6, <1>7, RemoverStep

(* The page is edited or made anew.                                        *)
LEMMA PageStepsKeep ==
  ASSUME ImageInv, (\E l \in SUBSET {HeroName} : EditPage(l)) \/ CreatePage,
         UNCHANGED <<hero, images, gens, advice, spoilt, late, kept>>
  PROVE  ImageInv'
<1> USE DEF ImageInv
<1>1. /\ UNCHANGED <<assets, staging, lock, calls, made, applied>> /\ lock = None
      /\ page' \in [links : SUBSET {HeroName}]
  BY DEF EditPage, CreatePage, history
<1>2. page' # Absent BY <1>1, HeroAssumption DEF HeroAssumption
<1>3. ImageType' BY <1>1 DEF ImageType
<1>4. \A d \in Calls : RemoverOf(d)'
  <2>1. \A d \in Calls : lock # d BY <1>1, AssetAssumption DEF AssetAssumption
  <2>2. QED BY <1>1, <2>1 DEF RemoverOf
<1>5. InodesInUse' BY DEF InodesInUse, OpenOn
<1>6. OneWriter' BY DEF OneWriter, OpenOn
<1>7. OrphansOf' /\ NoFiles' BY <1>1, <1>2 DEF OrphansOf, NoFiles
<1>8. QED BY <1>3, <1>4, <1>5, <1>6, <1>7

LEMMA HeroRestartKeeps == ImageInv /\ HeroRestart => ImageInv'
<1> SUFFICES ASSUME ImageInv, HeroRestart PROVE ImageInv'
  OBVIOUS
<1> USE DEF ImageInv
<1>1. /\ UNCHANGED <<page, assets, made, applied, hero, images, advice, late>>
      /\ calls' = [c \in Calls |-> Idle] /\ lock' = None
      /\ staging' = [u \in Uploads |-> Absent]
      /\ gens' = [g \in Gens |-> IF gens[g].pc = "new" THEN gens[g]
                                 ELSE [pc |-> "done", ino |-> None]]
      /\ spoilt' = spoilt \cup {gens[g].ino : g \in {h \in Gens : gens[h].pc = "open"}}
      /\ kept' = (kept \/ \E c \in Calls : At(c, "delete_page", "removed"))
  BY DEF HeroRestart, Restart, Sweep, imageFiles
<1>2. gens' \in [Gens -> Generations] BY <1>1 DEF ImageType, Generations
<1>3. \A g \in Gens : /\ gens'[g].pc # "open"
                      /\ gens[g].pc \in {"open", "done"} => gens'[g].pc = "done"
  BY <1>1
<1>4. ImageType' BY <1>1, <1>2, <1>3, HeroIdle DEF ImageType
<1>5. \A c \in Calls : RemoverOf(c)'
  <2>1. \A c \in Calls : calls'[c] = Idle /\ lock' # c
    BY <1>1, AssetAssumption DEF AssetAssumption
  <2>2. QED BY <2>1, HeroIdle DEF RemoverOf
<1>6. \A i \in Gens : OpenOn(i)' = {} BY <1>3 DEF OpenOn
<1>7. InodesInUse' BY <1>1, <1>3, <1>6 DEF InodesInUse
<1>8. OneWriter'
  <2>1. \A i \in Gens : OpenOn(i) # {} => i \in spoilt' BY <1>1 DEF OpenOn
  <2>2. QED BY <1>1, <1>6, <2>1 DEF OneWriter
<1>9. OrphansOf' BY <1>1 DEF OrphansOf
<1>10. NoFiles' BY <1>1 DEF NoFiles
<1>11. QED BY <1>4, <1>5, <1>7, <1>8, <1>9, <1>10

LEMMA ImageNextKeeps == ImageInv /\ (ImageNext \/ UNCHANGED heroVars) => ImageInv'
<1> SUFFICES ASSUME ImageInv, ImageNext \/ UNCHANGED heroVars PROVE ImageInv'
  OBVIOUS
<1>1. InlineCalls \subseteq Calls BY AssetAssumption DEF AssetAssumption
<1>2. CASE \E g \in Gens : Generate(g)
  BY <1>2, StartsKeep, InstallKeeps, TruncateKeeps, WritesKeep DEF Generate
<1>3. CASE ScanPages \/ ScanImages BY <1>3, ScansKeep
<1>4. CASE \E c \in InlineCalls :
             \/ \E g \in HeroGuards, f \in BOOLEAN : HeroCheck(c, g, f)
             \/ HeroRead(c) \/ HeroRemove(c)
  BY <1>1, <1>4, HeroCheckKeeps, HeroReadKeeps, HeroRemovesKeep
<1>5. CASE \E c \in Calls \ InlineCalls : DeletePageSource(c) \/ RemoveHeroImage(c)
  BY <1>5, DeletePageSourceKeeps, HeroRemovesKeep
<1>6. CASE Bundle /\ UNCHANGED imageVars
  <2>1. UNCHANGED <<hero, images, gens, advice, spoilt, late, kept>> BY <1>6 DEF imageVars
  <2>2. QED BY <1>1, <1>6, <2>1, RemoverWaits, PageStepsKeep DEF Bundle
<1>7. CASE HeroRestart BY <1>7, HeroRestartKeeps
<1>8. CASE UNCHANGED heroVars
  <2>1. ImageType' BY <1>8 DEF heroVars, ImageInv, ImageType
  <2>2. \A c \in Calls : RemoverOf(c)'
    BY <1>8 DEF heroVars, ImageInv, RemoverOf, HadBundle, Referenced
  <2>3. InodesInUse' BY <1>8 DEF heroVars, ImageInv, InodesInUse, OpenOn
  <2>4. OneWriter' BY <1>8 DEF heroVars, ImageInv, OneWriter, OpenOn
  <2>5. OrphansOf' BY <1>8 DEF heroVars, ImageInv, OrphansOf, At
  <2>6. NoFiles' BY <1>8 DEF heroVars, ImageInv, NoFiles
  <2>7. QED BY <2>1, <2>2, <2>3, <2>4, <2>5, <2>6 DEF ImageInv
<1>9. QED BY <1>2, <1>3, <1>4, <1>5, <1>6, <1>7, <1>8 DEF ImageNext

-----------------------------------------------------------------------------
(* Every handler, entry and generation stays accounted for, in both kinds  *)
(* of behaviour.                                                           *)
THEOREM AssetInvariant == HeroSpec => []IInv
<1>1. HeroInit => IInv
  <2> SUFFICES ASSUME HeroInit PROVE IInv
    OBVIOUS
  <2>1. CASE scene = "bundle" BY <2>1, BundleInit DEF HeroInit, IInv
  <2>2. CASE scene = "image" BY <2>2, ImageInit DEF IInv
  <2>3. QED BY <2>1, <2>2 DEF HeroInit
<1>2. IInv /\ [HeroNext]_heroVars => IInv'
  <2> SUFFICES ASSUME IInv, [HeroNext]_heroVars PROVE IInv'
    OBVIOUS
  <2>1. scene' = scene BY DEF HeroNext, heroVars
  <2>2. CASE scene = "bundle" /\ BundleInv /\ hero = None
    <3>1. [Next]_vars BY <2>2 DEF HeroNext, heroVars, vars
    <3>2. hero' = hero BY <2>2 DEF HeroNext, heroVars, imageVars
    <3>3. QED BY <2>1, <2>2, <3>1, <3>2, BundleNext DEF IInv
  <2>3. CASE scene = "image" /\ ImageInv
    <3>1. ImageNext \/ UNCHANGED heroVars BY <2>3 DEF HeroNext
    <3>2. QED BY <2>1, <2>3, <3>1, ImageNextKeeps DEF IInv
  <2>4. QED BY <2>2, <2>3 DEF IInv
<1>3. QED BY <1>1, <1>2, PTL DEF HeroSpec

(* What the image's invariant says when nobody has the file open.          *)
LEMMA ImageIsWhole == ImageInv => HeroIsWhole
<1> SUFFICES ASSUME ImageInv, hero # None, hero \notin spoilt, OpenOn(hero) = {}
             PROVE  images[hero].as = "whole" \/ (images[hero].as = "cut"
                                                  /\ images[hero].of \in Large)
  BY DEF HeroIsWhole
<1>1. hero \in Gens \ spoilt BY DEF ImageInv, ImageType
<1>2. QED BY <1>1 DEF ImageInv, OneWriter

(* What stands beside a page is what one call put there, whole: the bytes  *)
(* that were judged and acknowledged, and the image of one generation.     *)
THEOREM WholeFiles == HeroSpec => []FilesAreWhole
<1>1. IInv => FilesAreWhole
  <2>1. BundleInv /\ hero = None => FilesAreWhole
    BY DEF BundleInv, FilesAreWhole, FilesAreWhatWasJudged, HeroIsWhole
  <2>2. ImageInv => FilesAreWhole
    <3> SUFFICES ASSUME ImageInv PROVE FilesAreWhatWasJudged
      BY ImageIsWhole DEF FilesAreWhole
    <3>1. NoFiles BY DEF ImageInv
    <3>2. QED BY <3>1 DEF NoFiles, FilesAreWhatWasJudged, GatePassed, MadeOfItsChunks
  <2>3. QED BY <2>1, <2>2 DEF IInv
<1>2. QED BY <1>1, AssetInvariant, PTL

(* Neither staging files nor images are left without an owner.             *)
THEOREM NothingStray == HeroSpec => []NothingIsLeftBehind
<1>1. IInv => NothingIsLeftBehind
  <2>1. BundleInv /\ hero = None => NothingIsLeftBehind
    BY DEF BundleInv, NothingIsLeftBehind, NoNewOrphans
  <2>2. ImageInv => NothingIsLeftBehind
    <3> SUFFICES ASSUME ImageInv PROVE NoStrayStaging /\ NoNewOrphans
      BY DEF NothingIsLeftBehind
    <3>1. NoStrayStaging BY DEF ImageInv, NoFiles, NoStrayStaging
    <3>2. \A c \in Calls : At(c, "delete_page", "removed") => lock = c /\ c # None
      BY AssetAssumption DEF ImageInv, RemoverOf, At, AssetAssumption
    <3>3. NoNewOrphans BY <3>2 DEF ImageInv, OrphansOf, NoNewOrphans
    <3>4. QED BY <3>1, <3>3
  <2>3. QED BY <2>1, <2>2 DEF IInv
<1>2. QED BY <1>1, AssetInvariant, PTL

(* A keyed upload_page_asset or delete_page_asset changes the bundle once, *)
(* unless the record of its answer was lost.                               *)
THEOREM AssetsKeyedOnce == HeroSpec => []KeyedOnce
<1>1. IInv => KeyedOnce
  <2>1. BundleInv => KeyedOnce BY DEF BundleInv, AppliedInv, KeyedOnce
  <2>2. ImageInv => KeyedOnce BY DEF ImageInv, NoFiles, KeyedOnce
  <2>3. QED BY <2>1, <2>2 DEF IInv
<1>2. QED BY <1>1, AssetInvariant, PTL

(* What a step about the bundle may remove.                                *)
LEMMA ChecksBeforeRemoving ==
  ASSUME BundleInv, Next, NEW n \in Names, assets[n] # Absent, assets'[n] # assets[n]
  PROVE  /\ assets'[n] = Absent
         /\ \/ page' = Absent
            \/ \E c \in Calls :
                  /\ At(c, "delete_page_asset", "judged") /\ calls[c].name = n
                  /\ Matches(calls[c].guard, n)
                  /\ Referenced(n) => calls[c].force \/ calls[c].blind
<1>1. InlineCalls \subseteq Calls BY AssetAssumption DEF AssetAssumption
<1>2. ASSUME NEW c \in Calls PROVE ~Chunked(c) /\ ~Remember(c) /\ ~Refuse(c) /\ ~TakeLock(c)
  <2>1. ~CommitRename(c) BY DEF CommitRename, Taken, BundleInv, BundleType
  <2>2. ~(\/ \E s \in Servers, x \in Names : BeginCheck(c, s, x)
          \/ \E u \in Uploads : BeginStage(c, u)
          \/ \E s \in Servers, u \in Uploads, k \in KeysFor("commit_asset_upload") :
                CommitGet(c, s, u, k)
          \/ NotFound(c) \/ CommitReject(c) \/ CommitRead(c) \/ CommitNoPage(c)
          \/ CommitConsume(c) \/ Remember(c) \/ Refuse(c) \/ TakeLock(c))
    BY DEF BeginCheck, BeginStage, CommitGet, NotFound, CommitReject, CommitRead,
           CommitNoPage, CommitConsume, Remember, Refuse, TakeLock, files
  <2>3. ~(\E size \in Sizes :
             \E w \in {Absent} \cup {d \in Wanted : Len(d) = size /\ Valid(d, calls[c].name)} :
                BeginEnter(c, size, w))
    BY DEF BeginEnter
  <2>4. QED BY <2>1, <2>2, <2>3 DEF Chunked
<1>3. ~(\/ \E s \in Servers, u \in Uploads, p \in Pieces, o \in 0 .. MaxAsset :
              UploadChunk(s, u, o, p)
        \/ \E s \in Servers : Prune(s) \/ Register(s)
        \/ \E l \in SUBSET Names : EditPage(l)
        \/ \E u \in Uploads : Expire(u)
        \/ CreatePage \/ Restart)
  BY DEF UploadChunk, Prune, Register, EditPage, Expire, CreatePage, Restart, files
<1>4. CASE DeletePage BY <1>4 DEF DeletePage
<1>5. CASE \E c \in InlineCalls : Inline(c)
  <2>1. PICK c \in Calls : Inline(c) BY <1>1, <1>5
  <2>2. ~UploadWrite(c) BY DEF UploadWrite, BundleInv, BundleType
  <2>3. ~(\/ \E x \in Names, p \in Pieces, k \in KeysFor("upload_page_asset") :
                UploadCheck(c, x, <<p>>, k)
          \/ \E x \in Names, g \in Guards, f \in BOOLEAN, k \in KeysFor("delete_page_asset") :
                DeleteCheck(c, x, g, f, k)
          \/ DeleteRead(c))
    BY DEF UploadCheck, DeleteCheck, DeleteRead, files
  <2>4. DeleteRemove(c) BY <2>1, <2>2, <2>3 DEF Inline
  <2>5. At(c, "delete_page_asset", "judged") /\ calls[c].name = n /\ assets'[n] = Absent
    BY <2>4 DEF DeleteRemove, BundleInv, BundleType
  <2>6. QED BY <2>5 DEF BundleInv, CallInv, DeleteOf
<1>6. QED BY <1>2, <1>3, <1>4, <1>5 DEF Next

(* Files and images go when somebody who has seen them asks for it.        *)
THEOREM RemovalsAreAskedFor == HeroSpec => RemovedOnRequest
<1>1. IInv /\ [HeroNext]_heroVars =>
        [\A n \in Names : assets[n] # Absent /\ assets'[n] # assets[n] =>
          /\ assets'[n] = Absent
          /\ \/ page' = Absent
             \/ \E c \in Calls :
                   /\ At(c, "delete_page_asset", "judged") /\ calls[c].name = n
                   /\ Matches(calls[c].guard, n)
                   /\ Referenced(n) => calls[c].force \/ calls[c].blind]_vars
  <2> SUFFICES ASSUME IInv, [HeroNext]_heroVars,
                      NEW n \in Names, assets[n] # Absent, assets'[n] # assets[n]
               PROVE  /\ assets'[n] = Absent
                      /\ \/ page' = Absent
                         \/ \E c \in Calls :
                               /\ At(c, "delete_page_asset", "judged") /\ calls[c].name = n
                               /\ Matches(calls[c].guard, n)
                               /\ Referenced(n) => calls[c].force \/ calls[c].blind
    OBVIOUS
  <2>1. BundleInv /\ scene = "bundle" BY DEF IInv, ImageInv, NoFiles
  <2>2. Next BY <2>1 DEF HeroNext, heroVars
  <2>3. QED BY <2>1, <2>2, ChecksBeforeRemoving
<1>2. IInv /\ [HeroNext]_heroVars =>
        [hero # None /\ hero' = None =>
          \E c \in Calls :
             \/ At(c, "delete_page", "removed") /\ page = Absent
             \/ /\ At(c, "delete_generated", "judged")
                /\ IF calls[c].guard.of = "page" THEN HeroMatches(c)
                   ELSE calls[c].guard.is = images[hero] \/ calls[c].data # images[hero]
                /\ Referenced(HeroName) => calls[c].force \/ calls[c].blind \/ ~HadBundle(c)]_heroVars
  <2> SUFFICES ASSUME IInv, [HeroNext]_heroVars, hero # None, hero' = None
               PROVE  \E c \in Calls :
                        \/ At(c, "delete_page", "removed") /\ page = Absent
                        \/ /\ At(c, "delete_generated", "judged")
                           /\ IF calls[c].guard.of = "page" THEN HeroMatches(c)
                              ELSE \/ calls[c].guard.is = images[hero]
                                   \/ calls[c].data # images[hero]
                           /\ Referenced(HeroName) => calls[c].force \/ calls[c].blind \/ ~HadBundle(c)
    OBVIOUS
  <2>1. ImageInv /\ ImageNext BY DEF IInv, HeroNext, heroVars
  <2>2. InlineCalls \subseteq Calls BY AssetAssumption DEF AssetAssumption
  <2>3. ~(\E g \in Gens : Generate(g))
    BY <2>1, HeroAssumption
    DEF Generate, StartLocal, StartApi, GiveUp, Install, Truncate, WriteImage, WriteStops,
        imageFiles, HeroAssumption
  <2>4. ~(ScanPages \/ ScanImages \/ HeroRestart \/ (Bundle /\ UNCHANGED imageVars))
    BY DEF ScanPages, ScanImages, HeroRestart, imageFiles, imageVars
  <2>5. \A c \in Calls : ~HeroRead(c) /\ ~DeletePageSource(c)
                         /\ \A g \in HeroGuards, f \in BOOLEAN : ~HeroCheck(c, g, f)
    BY DEF HeroRead, DeletePageSource, HeroCheck, imageVars
  <2>6. PICK c \in Calls : HeroRemove(c) \/ RemoveHeroImage(c)
    BY <2>1, <2>2, <2>3, <2>4, <2>5 DEF ImageNext
  <2>7. RemoverOf(c) BY <2>1 DEF ImageInv
  <2>8. CASE RemoveHeroImage(c) BY <2>7, <2>8 DEF RemoveHeroImage, At, RemoverOf
  <2>9. CASE HeroRemove(c)
    <3>1. At(c, "delete_generated", "judged") BY <2>9 DEF HeroRemove
    <3>2. IF calls[c].guard.of = "page" THEN HeroMatches(c)
          ELSE calls[c].guard.is = images[hero] \/ calls[c].data # images[hero]
      BY <2>7, <3>1 DEF RemoverOf, At, HeroMatches
    <3>3. Referenced(HeroName) => calls[c].force \/ calls[c].blind \/ ~HadBundle(c)
      BY <2>7, <3>1 DEF RemoverOf, At
    <3>4. QED BY <3>1, <3>2, <3>3
  <2>10. QED BY <2>6, <2>8, <2>9
<1>3. QED BY <1>1, <1>2, AssetInvariant, PTL
  DEF HeroSpec, RemovedOnRequest, OnlyCheckedRemovals, HeroGoesOnRequest
=============================================================================

----------------------------- MODULE HugoUpgrade -----------------------------
(***************************************************************************)
(* hugoUpgradeManager: stage_hugo_upgrade, activate_hugo, rollback_hugo    *)
(* and bootstrap_hugo over the managed directory: versions/<v>/hugo with   *)
(* its stage record, the symlink Hugo is run through, and the activation   *)
(* record that rollback_hugo reads.  Every call holds the manager's mutex  *)
(* from its first check to its answer; what a call can be interrupted by   *)
(* is a failing write and the death of the process.  The directory is the  *)
(* manager's own: nobody moves the link or touches a binary while a call   *)
(* is running, but a binary may be altered or pruned between two calls.    *)
(*                                                                         *)
(* Versions are numbered by their precedence.  dry_run calls stop before   *)
(* the first effect and are left out.  What every specification has        *)
(* (HugoInit, HugoNext, hugoVars) bears the component's name, so that one  *)
(* module of proofs can extend this module and PreviewLeases.              *)
(***************************************************************************)
EXTENDS Naturals

CONSTANTS Versions,       \* the stable releases there are
          Base,           \* the Hugo the host came with
          MinimumVersion, MaximumVersion, AllowDowngrade,   \* cfg.HugoUpgrade
          Absent,         \* no version, no binary
          MaxUpgradeFaults   \* bound on failing writes, crashes and hands on the host

ASSUME HugoAssumption ==
    /\ Versions \subseteq Nat /\ Base \in Versions
    /\ MinimumVersion \in Nat /\ MaximumVersion \in Nat
    /\ AllowDowngrade \in BOOLEAN
    /\ Absent \notin Versions /\ Absent \notin {"official", "altered"}
    /\ MaxUpgradeFaults \in Nat

VARIABLES binary,   \* what versions/<v>/hugo holds: "official", "altered" or Absent
          link,     \* the version the managed symlink points at
          record,   \* .mcp-activation.json
          op,       \* the call that holds the mutex
          adopted,  \* versions altered while they were the active one (history)
          moves,    \* <<from, to>> of every activation that replaced another version (history)
          upgradeFaults

hugoVars == <<binary, link, record, op, adopted, moves, upgradeFaults>>

NoCall == [pc |-> "idle"]
NoRecord == [active |-> Absent, prev |-> Absent, sum |-> Absent]

HugoInit ==
    /\ binary = [v \in Versions |-> Absent]
    /\ link = Absent
    /\ record = NoRecord
    /\ op = NoCall
    /\ adopted = {} /\ moves = {}
    /\ upgradeFaults = 0

FaultHits == upgradeFaults < MaxUpgradeFaults /\ upgradeFaults' = upgradeFaults + 1
Staged == {v \in Versions : binary[v] # Absent}

(* `hugo version` runs what is first on the service's PATH, the link once  *)
(* there is one.                                                           *)
Installed == IF link = Absent THEN Base ELSE link

-----------------------------------------------------------------------------
(* Staging.                                                                *)

(* What the release API and the download hosts may answer: the release     *)
(* metadata, whether every URL, redirects included, is on an allowlisted   *)
(* host and within the size limit, how many assets bear the archive's      *)
(* name, how many lines of the manifest cover it, where the archive comes  *)
(* from, how many executables it has and which version that one reports.   *)
Releases == [tag : Versions, stable : BOOLEAN, listed : BOOLEAN,
             assets : 0 .. 2, lines : 0 .. 2, origin : {"official", "other"},
             executables : 0 .. 2, says : Versions]

(* releaseByVersion: the release that was asked for, and a stable one      *)
ExactRelease(v, r) == r.tag = v /\ r.stable

(* exactReleaseAsset *)
OneAsset(r) == r.assets = 1

(* download: a body from a listed host, or nothing *)
Downloaded(r) == r.listed

(* Only the official archive has the digest of the official manifest.      *)
ChecksumAgrees(r) == r.lines = 1 /\ r.origin = "official"

(* extractHugoTarGz: none, or two, is an invalid archive. *)
Extracted(r) == r.executables = 1

(* inspectStagedHugo runs what was extracted. *)
Reports(r, v) == r.says = v

Accepted(v, r) ==
    /\ ExactRelease(v, r) /\ OneAsset(r)
    /\ Downloaded(r) /\ ChecksumAgrees(r)
    /\ Extracted(r) /\ Reports(r, v)

(* Every other answer ends the call before its first effect.               *)
Answers == [v \in Versions |-> {r \in Releases : Accepted(v, r)}]

Allowed(v) ==
    /\ MinimumVersion <= v /\ v <= MaximumVersion
    /\ AllowDowngrade \/ Installed <= v

(* The directory is prepared under another name and renamed into place; a  *)
(* version that is already there is refused (already_exists).              *)
Promote(v, r) ==
    /\ v \notin Staged
    /\ binary' = [binary EXCEPT ![v] = IF r.origin = "official" THEN "official" ELSE "altered"]

Stage(v, r) ==
    /\ op = NoCall
    /\ Allowed(v)
    /\ Promote(v, r)
    /\ UNCHANGED <<link, record, op, adopted, moves, upgradeFaults>>

-----------------------------------------------------------------------------
(* Activation.                                                             *)

(* activateLocked up to the swap: the staged binary is checked against its *)
(* stage record, the one to be replaced is hashed as it stands, altered or *)
(* not.                                                                    *)
Verified(v) == binary[v] = "official"

Activating(v) == [pc |-> "swap", v |-> v, old |-> link,
                  sum |-> IF link = Absent THEN Absent ELSE binary[link]]

(* currentManagedTarget follows the link: one that leads nowhere is an     *)
(* error, no link is no previous version.                                  *)
LinkLeadsSomewhere == link # Absent => link \in Staged

Activate(v) ==
    /\ op = NoCall
    /\ Verified(v)
    /\ LinkLeadsSomewhere
    /\ op' = Activating(v)
    /\ UNCHANGED <<binary, link, record, adopted, moves, upgradeFaults>>

(* bootstrap_hugo: the detected version is staged and activated in one     *)
(* critical section, only when there is no managed link yet.               *)
Bootstrap(r) ==
    /\ op = NoCall /\ link = Absent
    /\ Allowed(Installed)
    /\ Promote(Installed, r)
    /\ op' = Activating(Installed)
    /\ UNCHANGED <<link, record, adopted, moves, upgradeFaults>>

(* swapManagedLink: a temporary symlink renamed over the link.             *)
Swap ==
    /\ op.pc = "swap"
    /\ \/ /\ link' = op.v
          /\ moves' = IF link \in {Absent, op.v} THEN moves ELSE moves \cup {<<link, op.v>>}
          /\ op' = [op EXCEPT !.pc = "record"]
          /\ UNCHANGED upgradeFaults
       \/ FaultHits /\ op' = NoCall /\ UNCHANGED <<link, moves>>
    /\ UNCHANGED <<binary, record, adopted>>

(* The activation record; when it cannot be written the link is put back,  *)
(* or stays where it is if that fails too.                                 *)
Record ==
    /\ op.pc = "record"
    /\ \/ /\ record' = [active |-> op.v, prev |-> op.old, sum |-> op.sum]
          /\ UNCHANGED <<link, upgradeFaults>>
       \/ /\ FaultHits
          /\ link' \in {op.old, link}
          /\ UNCHANGED record
    /\ op' = NoCall
    /\ UNCHANGED <<binary, adopted, moves>>

-----------------------------------------------------------------------------
(* rollback_hugo.                                                          *)

\* Mutant: the link is not compared with the recorded target.
MatchesAny == record.prev # Absent

(* loadActivationRecord refuses a record without a previous target; the    *)
(* link must still be the recorded one.                                    *)
Matches == record.prev # Absent /\ link = record.active

\* Mutant: the previous binary only has to be there.
Present == record.prev \in Staged

PreviousIntact == record.prev \in Staged /\ binary[record.prev] = record.sum

Rollback ==
    /\ op = NoCall
    /\ Matches
    /\ PreviousIntact
    /\ op' = [pc |-> "back", v |-> record.prev]
    /\ UNCHANGED <<binary, link, record, adopted, moves, upgradeFaults>>

SwapBack ==
    /\ op.pc = "back"
    /\ \/ link' = op.v /\ op' = [op EXCEPT !.pc = "forget"] /\ UNCHANGED upgradeFaults
       \/ FaultHits /\ op' = NoCall /\ UNCHANGED link
    /\ UNCHANGED <<binary, record, adopted, moves>>

(* The record goes; when it cannot be removed the active target is put     *)
(* back, or not.                                                           *)
Forget ==
    /\ op.pc = "forget"
    /\ \/ record' = NoRecord /\ UNCHANGED <<link, upgradeFaults>>
       \/ FaultHits /\ link' \in {record.active, link} /\ UNCHANGED record
    /\ op' = NoCall
    /\ UNCHANGED <<binary, adopted, moves>>

-----------------------------------------------------------------------------
Crash ==
    /\ op # NoCall
    /\ FaultHits
    /\ op' = NoCall
    /\ UNCHANGED <<binary, link, record, adopted, moves>>

(* Somebody with access to the host alters a binary or prunes a version    *)
(* that is not active.                                                     *)
Alter(v) ==
    /\ op = NoCall /\ binary[v] = "official"
    /\ FaultHits
    /\ binary' = [binary EXCEPT ![v] = "altered"]
    /\ adopted' = IF link = v THEN adopted \cup {v} ELSE adopted
    /\ UNCHANGED <<link, record, op, moves>>

PruneVersion(v) ==
    /\ op = NoCall /\ v \in Staged /\ v # link
    /\ FaultHits
    /\ binary' = [binary EXCEPT ![v] = Absent]
    /\ UNCHANGED <<link, record, op, adopted, moves>>

HugoNext ==
    \/ \E v \in Versions : \/ Activate(v) \/ Alter(v) \/ PruneVersion(v)
                           \/ \E r \in Answers[v] : Stage(v, r)
    \/ \E r \in Answers[Installed] : Bootstrap(r)
    \/ Swap \/ Record \/ Rollback \/ SwapBack \/ Forget \/ Crash

HugoSpec == HugoInit /\ [][HugoNext]_hugoVars

-----------------------------------------------------------------------------
(* The link is moved only to a binary that is the official one or that was *)
(* altered while it was the active one: an activation compares the stage   *)
(* record, a rollback the digest taken when the version was replaced.      *)
OnlyKnownBinaries ==
    [][link' \notin {link, Absent} =>
           /\ link' \in Staged'
           /\ binary'[link'] = "official" \/ link' \in adopted]_hugoVars

(* A rollback undoes an activation that took place: it leads from the      *)
(* active version to one that was active just before it was activated,     *)
(* whatever failed or crashed between the link's move and the record's.    *)
RollbackUndoesAMove ==
    [][op.pc = "back" /\ link' # link => <<link', link>> \in moves]_hugoVars

(* The description of activate_hugo: it "preserves the previous managed    *)
(* target for rollback".  A record that names the active version as its    *)
(* own predecessor has lost it.  No run checks this: the code does not     *)
(* keep it (README, section 6).                                            *)
PreviousIsAnother == record.active = Absent \/ record.prev # record.active
=============================================================================

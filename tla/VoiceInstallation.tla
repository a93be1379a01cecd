-------------------------- MODULE VoiceInstallation --------------------------
(***************************************************************************)
(* Installed voices and their files                                        *)
(* (omnivox-tts/src/voice_library/: acquisition, installation, local and   *)
(* retention; driven by omnivox-cli/src/voice_acquisition.rs and           *)
(* voice_local.rs).  Packages are downloaded and installed into an index,  *)
(* the index is frozen into generations, one of which is active, speech    *)
(* workers run with a generation, and packages are removed again.          *)
(*                                                                         *)
(* Several processes do this.  The profile's lease and the storage gate    *)
(* are file locks taken without waiting; a process may die between any two *)
(* writes and then holds neither.  What it wrote stays.                    *)
(*                                                                         *)
(* An index is identified by its revision (the code compares its digest),  *)
(* a generation by its name.  Edits of the index other than a removal use  *)
(* a fresh revision file each, so what an interrupted one leaves behind is *)
(* never read and the edit is its rename.                                  *)
(***************************************************************************)
EXTENDS Naturals, FiniteSets

CONSTANTS
    Package,        \* package revisions, each with a directory of its own
    Generation,     \* generation files
    Session,        \* speech workers, each with a startup snapshot
    Files,          \* files of a package
    NoGeneration,
    NoPackage,
    PackageSize,    \* chunks of a download
    MaxRevision     \* bound: index edits

ASSUME InstallationAssumption ==
    /\ NoGeneration \notin Generation /\ NoPackage \notin Package
    /\ PackageSize \in Nat \ {0} /\ MaxRevision \in Nat

VARIABLES
    index,          \* index.json: revision, installed packages, enabled ones
    files,          \* files[p]: which are in p's directory, and whether intact
    acquisition,    \* acquisition[p]
    generations,    \* generations[g]: written or not, and its packages
    candidate,      \* candidate[g]: index revision and active pointer it was made for
    active,         \* active.json
    apply,          \* the activation that has no completed.json, if any
    session,        \* session[s]; a retired one's place is free for the next
    removal,        \* the reviewed removal
    lease,          \* who holds the profile: none, apply or remove
    gate            \* whether the removal holds the storage gate

installationVars == <<index, files, acquisition, generations, candidate, active,
                      apply, session, removal, lease, gate>>

NoApply == [state |-> "none", g |-> NoGeneration, prev |-> NoGeneration]
NoRemoval == [pc |-> "none", p |-> NoPackage, prev |-> 0, enabled |-> FALSE,
              archive |-> "none", receipts |-> {}, completed |-> FALSE]

NoSession == [pc |-> "none", uses |-> {}, g |-> NoGeneration, whole |-> FALSE]

InstallationInit ==
    /\ index = [rev |-> 0, packages |-> {}, enabled |-> {}]
    /\ files = [p \in Package |-> [present |-> {}, good |-> TRUE]]
    /\ acquisition = [p \in Package |->
          [pc |-> "none", expected |-> 0, bytes |-> 0, good |-> TRUE]]
    /\ generations = [g \in Generation |-> [written |-> FALSE, uses |-> {}]]
    /\ candidate = [g \in Generation |-> [rev |-> 0, prev |-> NoGeneration]]
    /\ active = NoGeneration
    /\ apply = NoApply
    /\ session = [s \in Session |-> NoSession]
    /\ removal = NoRemoval
    /\ lease = "none" /\ gate = FALSE

Whole(p) == files[p].present = Files /\ files[p].good
Uses(g) == IF g = NoGeneration THEN {} ELSE generations[g].uses

\* open_verified of every asset of a set of packages
VerifyAssets(ps) == \A p \in ps : Whole(p)

Unresolved == apply.state # "none"

-----------------------------------------------------------------------------
(* Acquisition: Acquisition::prepare and execute *)

AcquisitionTo(p, pc) == acquisition' = [acquisition EXCEPT ![p].pc = pc]

\* What it remembered goes with it.
EndAcquisition(p) ==
    acquisition' = [acquisition EXCEPT ![p] =
        [pc |-> "ended", expected |-> 0, bytes |-> 0, good |-> TRUE]]

\* acquire.lock admits one; the index it will be added to is remembered.
PrepareAcquisition(p) ==
    /\ lease = "none" /\ acquisition[p].pc = "none"
    /\ \A q \in Package : acquisition[q].pc \in {"none", "ended"}
    /\ acquisition' = [acquisition EXCEPT ![p].pc = "download",
                                          ![p].expected = index.rev]
    /\ UNCHANGED <<index, files, generations, candidate, active, apply, session,
                   removal, lease, gate>>

\* The network delivers another chunk, as published or not.
DownloadChunk(p, good) ==
    /\ acquisition[p].pc = "download" /\ acquisition[p].bytes <= PackageSize
    /\ acquisition' = [acquisition EXCEPT ![p].bytes = @ + 1,
                                          ![p].good = @ /\ good]
    /\ UNCHANGED <<index, files, generations, candidate, active, apply, session,
                   removal, lease, gate>>

\* copy_verified: exactly the reviewed size and digest.
CopyVerified(p) == acquisition[p].bytes = PackageSize /\ acquisition[p].good

\* The stream ends; then place_files checks again and renames the directory.
PlaceFiles(p) ==
    /\ acquisition[p].pc = "download"
    /\ IF CopyVerified(p)
       THEN /\ files' = [files EXCEPT ![p] =
                  [present |-> Files, good |-> acquisition[p].good]]
            /\ AcquisitionTo(p, "placed")
       ELSE EndAcquisition(p) /\ UNCHANGED files
    /\ UNCHANGED <<index, generations, candidate, active, apply, session, removal,
                   lease, gate>>

\* The validation operation of VoiceOperations ends, Staged or not; or the
\* acquisition is cancelled, fails or dies, and what it wrote stays.
ValidatePackage(p) ==
    /\ acquisition[p].pc = "placed" /\ AcquisitionTo(p, "validated")
    /\ UNCHANGED <<index, files, generations, candidate, active, apply, session,
                   removal, lease, gate>>

AcquisitionEnds(p) ==
    /\ acquisition[p].pc \notin {"none", "ended"} /\ EndAcquisition(p)
    /\ UNCHANGED <<index, files, generations, candidate, active, apply, session,
                   removal, lease, gate>>

\* install_catalogue: into the same index the plan was made for, disabled.
InstallCatalogue(p) ==
    /\ acquisition[p].pc = "validated" /\ lease = "none"
    /\ acquisition[p].expected = index.rev /\ index.rev < MaxRevision
    /\ VerifyAssets({p})
    /\ index' = [index EXCEPT !.rev = @ + 1, !.packages = @ \cup {p}]
    /\ EndAcquisition(p)
    /\ UNCHANGED <<files, generations, candidate, active, apply, session, removal,
                   lease, gate>>

-----------------------------------------------------------------------------
(* Desired state: set_enabled, stage_activation *)

SetEnabled(p) ==
    /\ lease = "none" /\ p \in index.packages /\ index.rev < MaxRevision
    /\ index' = [index EXCEPT !.rev = @ + 1,
                    !.enabled = IF p \in @ THEN @ \ {p} ELSE @ \cup {p}]
    /\ UNCHANGED <<files, acquisition, generations, candidate, active, apply, session,
                   removal, lease, gate>>

StageActivation(g) ==
    /\ lease = "none" /\ ~generations[g].written
    /\ VerifyAssets(index.enabled)
    /\ generations' = [generations EXCEPT ![g] = [written |-> TRUE, uses |-> index.enabled]]
    /\ candidate' = [candidate EXCEPT ![g] = [rev |-> index.rev, prev |-> active]]
    /\ UNCHANGED <<index, files, acquisition, active, apply, session, removal, lease,
                   gate>>

\* activation_candidate: nothing it was made from has changed.
ActivationCandidate(g) ==
    /\ generations[g].written
    /\ candidate[g].rev = index.rev /\ candidate[g].prev = active
    /\ VerifyAssets(generations[g].uses)

-----------------------------------------------------------------------------
(* Apply: begin_activation to finish, with the lease held throughout *)

BeginActivation(g) ==
    /\ lease = "none" /\ ~Unresolved
    /\ ActivationCandidate(g)
    /\ apply' = [state |-> "prepared", g |-> g, prev |-> active]
    /\ lease' = "apply"
    /\ UNCHANGED <<index, files, acquisition, generations, candidate, active, session,
                   removal, gate>>

Applying(state) == lease = "apply" /\ apply.state = state
ApplyTo(state) == apply' = [apply EXCEPT !.state = state]

Activating ==
    /\ Applying("prepared") /\ ActivationCandidate(apply.g)
    /\ ApplyTo("activating")
    /\ UNCHANGED <<index, files, acquisition, generations, candidate, active, session,
                   removal, lease, gate>>

RollingBack ==
    /\ Applying("activating") /\ ActivationCandidate(apply.g)
    /\ ApplyTo("rolling-back")
    /\ UNCHANGED <<index, files, acquisition, generations, candidate, active, session,
                   removal, lease, gate>>

\* commit: the client has seen two workers ready with this generation.
CommitRename ==
    /\ Applying("activating") /\ ActivationCandidate(apply.g)
    /\ Cardinality({s \in Session : session[s].g = apply.g
                                    /\ session[s].pc \in {"running", "lost"}}) >= 2
    /\ active' = apply.g
    /\ ApplyTo("renamed")
    /\ UNCHANGED <<index, files, acquisition, generations, candidate, session, removal,
                   lease, gate>>

CommitRecord ==
    /\ Applying("renamed") /\ ApplyTo("committed")
    /\ UNCHANGED <<index, files, acquisition, generations, candidate, active, session,
                   removal, lease, gate>>

\* finish: succeeded, rolled-back, cancelled or failed resolve it; recovery-failed
\* does not.
FinishApply(resolved) ==
    /\ lease = "apply"
    /\ apply.state \in IF resolved THEN {"prepared", "activating", "rolling-back", "committed"}
                       ELSE {"prepared", "activating", "rolling-back"}
    /\ apply.state # "committed" => ActivationCandidate(apply.g)
    /\ IF resolved THEN apply' = NoApply ELSE ApplyTo("recovery-failed")
    /\ lease' = "none"
    /\ UNCHANGED <<index, files, acquisition, generations, candidate, active, session,
                   removal, gate>>

-----------------------------------------------------------------------------
(* The owner of a speech worker *)

\* Startup::capture: the active generation, read under the lease, which is given
\* back at once; or a generation it was told to use.
CaptureStartup(s, g) ==
    /\ session[s].pc = "none"
    /\ \/ lease = "none" /\ g = active
       \/ g \in Generation /\ generations[g].written
    /\ session' = [session EXCEPT ![s] =
          [pc |-> "captured", uses |-> Uses(g), g |-> g, whole |-> FALSE]]
    /\ UNCHANGED <<index, files, acquisition, generations, candidate, active, apply,
                   removal, lease, gate>>

\* Startup::save under the gate; only now is the worker a known reference.
SaveStartup(s) ==
    /\ session[s].pc = "captured" /\ ~gate
    /\ session' = [session EXCEPT ![s].pc = "saved",
                                  ![s].whole = VerifyAssets(session[s].uses)]
    /\ UNCHANGED <<index, files, acquisition, generations, candidate, active, apply,
                   removal, lease, gate>>

SpawnWorker(s) ==
    /\ session[s].pc = "saved"
    /\ session' = [session EXCEPT ![s].pc = "running"]
    /\ UNCHANGED <<index, files, acquisition, generations, candidate, active, apply,
                   removal, lease, gate>>

\* Mutant: retirement is recorded when the pipe closes, before the tree is gone.
RetireOnClose(s) ==
    /\ session[s].pc = "running" /\ ~gate
    /\ session' = [session EXCEPT ![s].pc = "closing"]
    /\ UNCHANGED <<index, files, acquisition, generations, candidate, active, apply,
                   removal, lease, gate>>

\* Worker::cleanup confirms the whole tree and its readers, then the receipt.
RetireWorker(s) ==
    /\ session[s].pc \in {"running", "saved"} /\ ~gate
    /\ session' = [session EXCEPT ![s] = NoSession]
    /\ UNCHANGED <<index, files, acquisition, generations, candidate, active, apply,
                   removal, lease, gate>>

\* The owner dies: there is no receipt, ever.
LoseOwner(s) ==
    /\ session[s].pc \in {"captured", "saved", "running"}
    /\ session' = [session EXCEPT ![s] =
          IF session[s].pc = "captured" THEN NoSession ELSE [session[s] EXCEPT !.pc = "lost"]]
    /\ UNCHANGED <<index, files, acquisition, generations, candidate, active, apply,
                   removal, lease, gate>>

-----------------------------------------------------------------------------
(* Removal *)

RemovalTo(pc) == removal' = [removal EXCEPT !.pc = pc]

\* prepare_removal: the review freezes the index it was made for.
PrepareRemoval(p) ==
    /\ lease = "none" /\ removal.pc = "none" /\ p \in index.packages
    /\ removal' = [NoRemoval EXCEPT !.pc = "reviewed", !.p = p, !.prev = index.rev,
                                    !.enabled = p \in index.enabled]
    /\ UNCHANGED <<index, files, acquisition, generations, candidate, active, apply,
                   session, lease, gate>>

\* A review that was not begun can be made again.
ForgetReview ==
    /\ removal.pc = "reviewed" /\ lease = "none" /\ removal.archive = "none"
    /\ removal' = NoRemoval
    /\ UNCHANGED <<index, files, acquisition, generations, candidate, active, apply,
                   session, lease, gate>>

Detached ==
    /\ removal.archive = "whole" /\ removal.p \notin index.packages
    /\ index.rev # removal.prev

\* A saved snapshot counts until a retirement receipt names it (released).
KnownReference(s) == session[s].pc \in {"saved", "running", "lost"}

\* Mutant: the active generation is not looked at.
ReferencesInIndex(p) ==
    \/ Unresolved
    \/ \E s \in Session : KnownReference(s) /\ p \in session[s].uses

\* references::check.  (It also stops at an unresolved validation; that concerns a
\* package which the index does not list yet.)
References(p) ==
    \/ Unresolved
    \/ p \in Uses(active)
    \/ \E s \in Session : KnownReference(s) /\ p \in session[s].uses

\* review_removal and check_files
Blocked ==
    \/ removal.archive = "torn"
    \/ ~Detached /\ index.rev # removal.prev
    \/ removal.enabled
    \/ References(removal.p)
    \/ ~Detached /\ ~Whole(removal.p)
    \/ files[removal.p].present \cap removal.receipts # {}

\* execute_removal: both locks, the checks, and then how far it already is.
BeginRemoval ==
    /\ removal.pc = "reviewed" /\ lease = "none" /\ ~gate
    /\ ~Blocked
    /\ lease' = "remove" /\ gate' = TRUE
    /\ RemovalTo(IF Detached THEN "delete"
                 ELSE IF removal.archive = "whole" THEN "publish" ELSE "archive")
    /\ UNCHANGED <<index, files, acquisition, generations, candidate, active, apply,
                   session>>

WriteArchive ==
    /\ removal.pc = "archive" /\ lease = "remove"
    /\ removal' = [removal EXCEPT !.pc = "publish", !.archive = "whole"]
    /\ UNCHANGED <<index, files, acquisition, generations, candidate, active, apply,
                   session, lease, gate>>

\* The package leaves the index before any file goes.
PublishAbsence ==
    /\ removal.pc = "publish" /\ lease = "remove" /\ index.rev = removal.prev
    /\ index' = [rev |-> index.rev + 1, packages |-> index.packages \ {removal.p},
                 enabled |-> index.enabled \ {removal.p}]
    /\ RemovalTo("delete")
    /\ UNCHANGED <<files, acquisition, generations, candidate, active, apply, session,
                   lease, gate>>

\* delete_files: a file, then its receipt.
DeleteFile(f) ==
    /\ removal.pc = "delete" /\ lease = "remove" /\ f \in files[removal.p].present
    /\ files' = [files EXCEPT ![removal.p].present = @ \ {f}]
    /\ RemovalTo("receipt")
    /\ UNCHANGED <<index, acquisition, generations, candidate, active, apply, session,
                   lease, gate>>

RecordDeletion(f) ==
    /\ removal.pc = "receipt" /\ lease = "remove"
    /\ f \notin files[removal.p].present /\ f \notin removal.receipts
    /\ removal' = [removal EXCEPT !.pc = "delete", !.receipts = @ \cup {f}]
    /\ UNCHANGED <<index, files, acquisition, generations, candidate, active, apply,
                   session, lease, gate>>

CompleteRemoval ==
    /\ removal.pc = "delete" /\ lease = "remove" /\ files[removal.p].present = {}
    /\ removal' = [removal EXCEPT !.pc = "complete", !.completed = TRUE]
    /\ lease' = "none" /\ gate' = FALSE
    /\ UNCHANGED <<index, files, acquisition, generations, candidate, active, apply,
                   session>>

-----------------------------------------------------------------------------
\* The service dies or is closed: both locks are free, the records stay.
ServiceDies ==
    /\ lease # "none"
    /\ lease' = "none" /\ gate' = FALSE
    /\ IF lease = "remove"
       THEN \E torn \in {"torn", removal.archive} :
              removal' = [removal EXCEPT
                  !.pc = "reviewed",
                  !.archive = IF removal.pc = "archive" THEN torn ELSE @]
       ELSE UNCHANGED removal
    /\ UNCHANGED <<index, files, acquisition, generations, candidate, active, apply,
                   session>>

InstallationIdle == lease = "none" /\ UNCHANGED installationVars

InstallationNext ==
    \/ \E p \in Package :
          \/ PrepareAcquisition(p) \/ PlaceFiles(p) \/ ValidatePackage(p)
          \/ AcquisitionEnds(p) \/ InstallCatalogue(p) \/ SetEnabled(p) \/ PrepareRemoval(p)
          \/ \E good \in BOOLEAN : DownloadChunk(p, good)
    \/ \E g \in Generation : StageActivation(g) \/ BeginActivation(g)
    \/ Activating \/ RollingBack \/ CommitRename \/ CommitRecord
    \/ \E resolved \in BOOLEAN : FinishApply(resolved)
    \/ \E s \in Session :
          \/ \E g \in Generation \cup {NoGeneration} : CaptureStartup(s, g)
          \/ SaveStartup(s) \/ SpawnWorker(s) \/ RetireWorker(s) \/ LoseOwner(s)
    \/ ForgetReview \/ BeginRemoval \/ WriteArchive \/ PublishAbsence \/ CompleteRemoval
    \/ \E f \in Files : DeleteFile(f) \/ RecordDeletion(f)
    \/ ServiceDies \/ InstallationIdle

InstallationSpec == InstallationInit /\ [][InstallationNext]_installationVars

-----------------------------------------------------------------------------
\* Whatever died and when: every package that the index lists, that the active
\* generation uses, or that an unfinished Apply needs to go forward or back, has
\* all its files, as published.
ReferencedFilesExist ==
    VerifyAssets(index.packages \cup Uses(active) \cup Uses(apply.g) \cup Uses(apply.prev))

\* A worker whose files were there when its snapshot was saved keeps them until
\* its whole process tree is confirmed gone, also when its owner has died.
WorkersKeepTheirFiles ==
    \A s \in Session :
        session[s].pc \in {"saved", "running", "closing", "lost"} /\ session[s].whole
            => VerifyAssets(session[s].uses)

\* Of the voice package store: what the index, the generations and the running
\* workers name is on disk, whichever of its writers died and when.
InstallationSound == ReferencedFilesExist /\ WorkersKeepTheirFiles
=============================================================================

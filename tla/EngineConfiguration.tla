------------------------- MODULE EngineConfiguration -------------------------
(***************************************************************************)
(* The local engine configuration: config.json and the helper manifests of *)
(* helpers.d, the two editors that change them under one lock file per     *)
(* directory, the start-up of an owner that reads them once, and the       *)
(* launch snapshot every lane and every recovery restores instead of       *)
(* reading the files again.                                                *)
(*                                                                         *)
(* A revision digest is the contents it hashes, a manifest the identity,   *)
(* the switch, the size and the validity the loader tells apart, and a     *)
(* helper's launch data the place each part of it came from.               *)
(***************************************************************************)
EXTENDS Integers, FiniteSets, Sequences, SequencesExt

CONSTANTS
  EcInProcess,      \* shipped engines that run in the server
  EcHelperEngines,  \* shipped engines that run in a helper
  EcUnsupported,    \* in-process engines the platform does not have
  EcAdjacent,       \* helper engines installed beside the executable
  EcEnvironment,    \* helper engines whose program an environment variable names
  EcAliases,        \* compatibility names, never canonical
  EcExternal,       \* identities a manifest may claim
  EcInstalled,      \* sets of helpers already installed under their own names
  EcStrayNames,     \* manifest files not named after the engine they claim
  EcRuntimes,       \* [helper engine -> [invocation, unavailable]], what the host supplies
  EcDocuments,      \* contents config.json may have before the editors open it
  EcManifests,      \* manifests a user may put in helpers.d by hand
  EcEdits,          \* the edits editors make
  EcMAX_MANIFESTS, EcMAX_TOTAL_BYTES, EcMAX_BYTES,
  EcEditor,         \* editor processes
  EcLane,           \* lanes started from the owner's snapshot
  EcMaxManual       \* bound: changes made to helpers.d by hand

VARIABLES
  ecFile,      \* contents of config.json
  ecHelpers,   \* helpers.d: file name -> manifest
  ecLock,      \* directory -> the editor that holds its lock file, 0 for none
  ecEdit,      \* editor -> [pc, job, expected, original, document]
  ecManual,    \* changes made by hand so far
  ecOwner,     \* the owner's start-up: pc, what it read, what it resolved
  ecLanes      \* lane -> what it restored

ecVars == <<ecFile, ecHelpers, ecLock, ecEdit, ecManual, ecOwner, ecLanes>>

EcShipped == EcInProcess \cup EcHelperEngines
EcReserved == EcShipped \cup EcAliases
EcEmpty == [x \in {} |-> 0]
EcNoFile ==
  [schema |-> 0, disabled |-> {}, overrides |-> EcEmpty, pitch |-> {},
   punctuation |-> 0, profiles |-> 0]

\* Parsing config.json.

\* A field that a later schema introduced is an unknown field to an earlier
\* one, and references are canonical identities.
EcParses(d) ==
  /\ d.schema \in 1..4
  /\ d.schema = 1 => d.pitch = {}
  /\ d.schema < 3 => d.punctuation = 0
  /\ d.schema < 4 => d.profiles = 0
  /\ (d.disabled \cup DOMAIN d.overrides \cup d.pitch) \cap EcAliases = {}

\* The preferences a parsed document keeps; a missing file gives the defaults.
EcSpeech(d) ==
  [pitch |-> d.pitch, tables |-> [base |-> d.punctuation, profiles |-> d.profiles]]

\* The document an editor starts from.
EcDocument(d) == IF d = EcNoFile THEN [EcNoFile EXCEPT !.schema = 3] ELSE d

\* References are resolved once the surviving registrations are known.
EcValidateOverrides(d, external) ==
  /\ d.pitch \subseteq EcShipped \cup external
  /\ \A id \in DOMAIN d.overrides :
       /\ id \in EcShipped \cup external
       /\ id \in EcInProcess => ~d.overrides[id].launch

\* Loading helpers.d.

EcLoading ==
  [external |-> EcEmpty, conflicts |-> {}, bytes |-> 0, failed |-> FALSE, diagnostics |-> 0]

EcWithout(f, id) == [x \in DOMAIN f \ {id} |-> f[x]]
EcWith(f, id, v) == [x \in DOMAIN f \cup {id} |-> IF x = id THEN v ELSE f[x]]

\* Mutant: a withdrawn identity is forgotten, so a third manifest
\* registers it.
EcClaimForgetting(s, name, m) ==
  IF m.id \in EcReserved
  THEN [s EXCEPT !.diagnostics = @ + 1]
  ELSE IF m.id \in DOMAIN s.external
  THEN [s EXCEPT !.external = EcWithout(@, m.id), !.diagnostics = @ + 2]
  ELSE [s EXCEPT !.external = EcWith(@, m.id, [name |-> name, enabled |-> m.enabled])]

\* A manifest of the set claims its identity: the first claim registers it, the
\* second withdraws it, and every later one is only reported.
EcClaim(s, name, m) ==
  IF m.id \in EcReserved \/ m.id \in s.conflicts
  THEN [s EXCEPT !.diagnostics = @ + 1]
  ELSE IF m.id \in DOMAIN s.external
  THEN [s EXCEPT !.external = EcWithout(@, m.id), !.conflicts = @ \cup {m.id},
                 !.diagnostics = @ + 2]
  ELSE [s EXCEPT !.external = EcWith(@, m.id, [name |-> name, enabled |-> m.enabled])]

\* One candidate file: its size counts towards the set before it is judged, and
\* a set over its limit fails as a whole.
EcReadManifest(s, name, m) ==
  LET counted == [s EXCEPT !.bytes = @ + m.size]
  IN IF counted.bytes > EcMAX_TOTAL_BYTES
     THEN [EcLoading EXCEPT !.failed = TRUE, !.diagnostics = s.diagnostics + 1]
     ELSE IF m.size > EcMAX_BYTES \/ ~m.valid
     THEN [counted EXCEPT !.diagnostics = @ + 1]
     ELSE EcClaim(counted, name, m)

EcSorted(S) ==
  [i \in 1..Cardinality(S) |-> CHOOSE x \in S : Cardinality({y \in S : y < x}) = i - 1]

EcCandidates(helpers) == EcSorted(DOMAIN helpers)

\* A complete load of helpers.d as the editors make it.
EcReadManifests(helpers) ==
  IF Cardinality(DOMAIN helpers) > EcMAX_MANIFESTS
  THEN [EcLoading EXCEPT !.failed = TRUE, !.diagnostics = 1]
  ELSE FoldSeq(LAMBDA name, s : IF s.failed THEN s ELSE EcReadManifest(s, name, helpers[name]),
               EcLoading, EcCandidates(helpers))

EcLoads(file, helpers) ==
  /\ file = EcNoFile \/ EcParses(file)
  /\ EcValidateOverrides(file, DOMAIN EcReadManifests(helpers).external)

\* The editors.

EcIdle == [pc |-> "idle", job |-> [kind |-> "none"], expected |-> EcNoFile,
           original |-> EcNoFile, document |-> EcNoFile]

\* The lock file lies in the directory of the file that is published.
EcDirectory(job) == IF job.kind = "helper" THEN "helpers.d" ELSE "root"

\* Inspecting loads the configuration and hands out the revision the edit is
\* reviewed against.
EcInspect(e) ==
  /\ ecEdit[e].pc = "idle"
  /\ \E job \in EcEdits :
       ecEdit' = [ecEdit EXCEPT ![e] =
         IF EcLoads(ecFile, ecHelpers)
         THEN [@ EXCEPT !.pc = "reviewed", !.job = job, !.expected = ecFile]
         ELSE [@ EXCEPT !.pc = "refused"]]
  /\ UNCHANGED <<ecFile, ecHelpers, ecLock, ecManual, ecOwner, ecLanes>>

\* Engine settings replace the routing and the overrides and keep the rest.
EcEngineDraft(d, job) == [d EXCEPT !.disabled = job.disabled, !.overrides = job.overrides]

\* Punctuation replaces its tables, raising the schema that permits them.
EcPunctuationDraft(d, job) ==
  LET least == IF job.profiles = -1 THEN 3 ELSE 4
  IN [d EXCEPT !.schema = IF @ < least THEN least ELSE @,
               !.punctuation = job.punctuation,
               !.profiles = IF job.profiles = -1 THEN @ ELSE job.profiles]

EcDraft(d, job) ==
  IF job.kind = "engines" THEN EcEngineDraft(d, job) ELSE EcPunctuationDraft(d, job)

\* A save reads the file again, refuses another revision, applies the edit to
\* what it read and validates the result before it takes any lock.
EcSave(e) ==
  LET edit == ecEdit[e]
      draft == EcDraft(EcDocument(ecFile), edit.job)
  IN /\ edit.pc = "reviewed" /\ edit.job.kind # "helper"
     /\ ecEdit' = [ecEdit EXCEPT ![e] =
          IF /\ EcLoads(ecFile, ecHelpers)
             /\ ecFile = edit.expected
             /\ EcParses(draft)
             /\ edit.job.kind = "engines" =>
                  EcValidateOverrides(draft, DOMAIN EcReadManifests(ecHelpers).external)
          THEN [@ EXCEPT !.pc = "validated", !.original = ecFile, !.document = draft]
          ELSE [@ EXCEPT !.pc = "refused"]]
     /\ UNCHANGED <<ecFile, ecHelpers, ecLock, ecManual, ecOwner, ecLanes>>

\* A new helper is disabled, not yet registered, and its file does not exist.
EcAddHelper(e) ==
  LET edit == ecEdit[e]
      id == edit.job.id
  IN /\ edit.pc = "reviewed" /\ edit.job.kind = "helper"
     /\ ecEdit' = [ecEdit EXCEPT ![e] =
          IF /\ id \notin EcReserved
             /\ EcLoads(ecFile, ecHelpers)
             /\ ecFile = edit.expected
             /\ id \notin DOMAIN EcReadManifests(ecHelpers).external
             /\ id \notin DOMAIN ecHelpers
          THEN [@ EXCEPT !.pc = "validated"]
          ELSE [@ EXCEPT !.pc = "refused"]]
     /\ UNCHANGED <<ecFile, ecHelpers, ecLock, ecManual, ecOwner, ecLanes>>

EcTotal(helpers) ==
  FoldSeq(LAMBDA name, sum : sum + helpers[name].size, 0, EcCandidates(helpers))

\* What publish_checked validates under the lock: the limits of the set.
EcWithinLimits(job) ==
  job.kind = "helper" =>
    /\ Cardinality(DOMAIN ecHelpers) < EcMAX_MANIFESTS
    /\ EcTotal(ecHelpers) + job.size <= EcMAX_TOTAL_BYTES

\* The published file still holds what the draft was made from.
EcUnchanged(edit) ==
  IF edit.job.kind = "helper" THEN edit.job.id \notin DOMAIN ecHelpers
                              ELSE ecFile = edit.original

\* Mutant: a lock another editor holds is taken for one's own.
EcTryLockShared(e) == TRUE

EcTryLock(e) == ecLock[EcDirectory(ecEdit[e].job)] = 0

EcPublish(e) ==
  LET edit == ecEdit[e]
      taken == EcTryLock(e) /\ EcWithinLimits(edit.job) /\ EcUnchanged(edit)
  IN /\ edit.pc = "validated"
     /\ ecEdit' = [ecEdit EXCEPT ![e].pc = IF taken THEN "prepared" ELSE "refused"]
     /\ ecLock' = IF taken THEN [ecLock EXCEPT ![EcDirectory(edit.job)] = e] ELSE ecLock
     /\ UNCHANGED <<ecFile, ecHelpers, ecManual, ecOwner, ecLanes>>

\* The temporary file is written and synchronized; the target is compared once
\* more, replaced, and the lease dropped.
EcRename(e) ==
  LET edit == ecEdit[e]
      publishes == EcUnchanged(edit)
  IN /\ edit.pc = "prepared"
     /\ ecEdit' = [ecEdit EXCEPT ![e].pc = IF publishes THEN "saved" ELSE "refused"]
     /\ ecLock' = [ecLock EXCEPT ![EcDirectory(edit.job)] = 0]
     /\ ecFile' = IF publishes /\ edit.job.kind # "helper" THEN edit.document ELSE ecFile
     /\ ecHelpers' =
          IF publishes /\ edit.job.kind = "helper"
          THEN EcWith(ecHelpers, edit.job.id,
                      [id |-> edit.job.id, enabled |-> FALSE, valid |-> TRUE,
                       size |-> edit.job.size])
          ELSE ecHelpers
     /\ UNCHANGED <<ecManual, ecOwner, ecLanes>>

\* An editor that dies leaves a temporary file no loader reads; the system
\* releases its lock.
EcEditorDies(e) ==
  /\ ecEdit[e].pc = "prepared"
  /\ ecEdit' = [ecEdit EXCEPT ![e].pc = "refused"]
  /\ ecLock' = [ecLock EXCEPT ![EcDirectory(ecEdit[e].job)] = 0]
  /\ UNCHANGED <<ecFile, ecHelpers, ecManual, ecOwner, ecLanes>>

\* A user adds or replaces a manifest by hand, outside any lock.
EcByHand ==
  /\ ecManual < EcMaxManual
  /\ \E name \in EcStrayNames, m \in EcManifests :
       ecHelpers' = EcWith(ecHelpers, name, m)
  /\ ecManual' = ecManual + 1
  /\ UNCHANGED <<ecFile, ecLock, ecEdit, ecOwner, ecLanes>>

\* Start-up: load, resolve, prepare the snapshot.

EcReadPolicy ==
  /\ ecOwner.pc = "start"
  /\ ecOwner' = [ecOwner EXCEPT
       !.pc = IF ecFile = EcNoFile \/ EcParses(ecFile) THEN "list" ELSE "failed",
       !.document = ecFile]
  /\ UNCHANGED <<ecFile, ecHelpers, ecLock, ecEdit, ecManual, ecLanes>>

EcListHelpers ==
  /\ ecOwner.pc = "list"
  /\ ecOwner' =
       IF Cardinality(DOMAIN ecHelpers) > EcMAX_MANIFESTS
       THEN [ecOwner EXCEPT !.pc = "loaded",
                            !.set = [EcLoading EXCEPT !.failed = TRUE, !.diagnostics = 1]]
       ELSE [ecOwner EXCEPT !.pc = "read", !.todo = EcCandidates(ecHelpers)]
  /\ UNCHANGED <<ecFile, ecHelpers, ecLock, ecEdit, ecManual, ecLanes>>

\* The files are read one by one, in the order of their names, each as it is
\* when its turn comes.
EcReadHelper ==
  /\ ecOwner.pc = "read"
  /\ ecOwner' =
       IF ecOwner.todo = <<>> \/ ecOwner.set.failed
       THEN [ecOwner EXCEPT !.pc = "loaded", !.todo = <<>>]
       ELSE LET m == ecHelpers[Head(ecOwner.todo)]
            IN [ecOwner EXCEPT
                 !.todo = Tail(@),
                 !.set = EcReadManifest(@, Head(ecOwner.todo), m),
                 !.claims = Append(@, m)]
  /\ UNCHANGED <<ecFile, ecHelpers, ecLock, ecEdit, ecManual, ecLanes>>

EcOverride(d, id) ==
  IF id \in DOMAIN d.overrides THEN d.overrides[id] ELSE [enabled |-> "unset", launch |-> FALSE]

EcEnabled(d, id, otherwise) ==
  /\ id \notin d.disabled
  /\ EcOverride(d, id).enabled = "on" \/ (EcOverride(d, id).enabled = "unset" /\ otherwise)

EcNoHelper == [program |-> "none", arguments |-> "none", timeouts |-> "none"]

\* The program of a shipped helper: the environment, then an override, then the
\* installation; its arguments: what the host supplies, then an override.
EcShippedHelper(d, runtime, id) ==
  LET launch == EcOverride(d, id).launch
  IN IF id \in EcInProcess \/ ~(id \in EcEnvironment \cup EcAdjacent \/ launch)
     THEN EcNoHelper
     ELSE [program |-> IF id \in EcEnvironment THEN "environment"
                       ELSE IF launch THEN "override" ELSE "adjacent",
           arguments |-> IF runtime[id].invocation # "none" THEN runtime[id].invocation
                         ELSE IF launch THEN "override" ELSE "none",
           timeouts |-> IF launch THEN "override" ELSE "default"]

EcShippedRegistration(d, runtime, id) ==
  LET helper == EcShippedHelper(d, runtime, id)
      enabled == EcEnabled(d, id, TRUE)
  IN [origin |-> IF id \in EcInProcess THEN "in_process" ELSE "shipped_helper",
      source |-> 0, overridden |-> id \in DOMAIN d.overrides,
      enabled |-> enabled, helper |-> helper,
      unavailable |->
        IF ~enabled THEN TRUE
        ELSE IF id \in EcInProcess THEN id \in EcUnsupported
        ELSE runtime[id].unavailable \/ helper = EcNoHelper]

EcExternalRegistration(d, id, found) ==
  LET launch == EcOverride(d, id).launch
      enabled == EcEnabled(d, id, found.enabled)
  IN [origin |-> "external_helper", source |-> found.name,
      overridden |-> id \in DOMAIN d.overrides,
      enabled |-> enabled, unavailable |-> ~enabled,
      helper |-> [program |-> IF launch THEN "override" ELSE "manifest",
                  arguments |-> IF launch THEN "override" ELSE "manifest",
                  timeouts |-> IF launch THEN "override" ELSE "manifest"]]

EcRegistrations(d, external, runtime) ==
  [id \in EcShipped \cup DOMAIN external |->
     IF id \in EcShipped THEN EcShippedRegistration(d, runtime, id)
                         ELSE EcExternalRegistration(d, id, external[id])]

\* Arguments the voice library owns cannot be overridden.
EcManagedReplaced(d, runtime) ==
  \E id \in EcHelperEngines : runtime[id].invocation = "managed" /\ EcOverride(d, id).launch

\* Overrides are checked against the survivors, then one complete registration
\* set is built with what the host supplies.
EcResolve ==
  /\ ecOwner.pc = "loaded"
  /\ \E runtime \in EcRuntimes :
       LET d == ecOwner.document
           external == ecOwner.set.external
       IN ecOwner' =
            IF EcValidateOverrides(d, DOMAIN external) /\ ~EcManagedReplaced(d, runtime)
            THEN [ecOwner EXCEPT
                   !.pc = "resolved",
                   !.resolved = [registrations |-> EcRegistrations(d, external, runtime),
                                 disabled |-> d.disabled, speech |-> EcSpeech(d)],
                   !.managed = {id \in EcHelperEngines : runtime[id].invocation = "managed"}]
            ELSE [ecOwner EXCEPT !.pc = "failed"]
  /\ UNCHANGED <<ecFile, ecHelpers, ecLock, ecEdit, ecManual, ecLanes>>

\* The launch snapshot.

EcSNAPSHOT_SCHEMA == 7

\* What goes over the wire: each preference from the schema that introduced it,
\* registrations as a sequence in the order of their identities.
EcWire(resolved, managed) ==
  LET ids == EcSorted(DOMAIN resolved.registrations)
  IN [schema |-> EcSNAPSHOT_SCHEMA, disabled |-> resolved.disabled, managed |-> managed,
      pitch |-> resolved.speech.pitch, tables |-> resolved.speech.tables,
      entries |-> [i \in 1..Len(ids) |->
                     [id |-> ids[i], entry |-> resolved.registrations[ids[i]]]]]

\* Mutant: every shipped helper must carry launch data, an
\* uninstalled one too.
EcRestorableInstalled(id, entry, disabled) ==
  /\ entry.enabled \/ entry.unavailable
  /\ entry.origin = "shipped_helper" => entry.helper # EcNoHelper

\* What a restored registration must satisfy.
EcRestorable(id, entry, disabled) ==
  /\ id \notin EcAliases
  /\ entry.origin = (IF id \in EcInProcess THEN "in_process"
                     ELSE IF id \in EcHelperEngines THEN "shipped_helper"
                     ELSE "external_helper")
  /\ (entry.source # 0) = (entry.origin = "external_helper")
  /\ id \in disabled => ~entry.enabled
  /\ entry.enabled \/ entry.unavailable
  /\ entry.origin = "in_process" => entry.helper = EcNoHelper
  /\ entry.origin = "external_helper" => entry.helper # EcNoHelper
  /\ entry.origin = "shipped_helper" => (entry.helper # EcNoHelper \/ entry.unavailable)
  /\ (entry.origin = "in_process" /\ id \in EcUnsupported) => entry.unavailable

EcManagedIntact(wire) ==
  \A i \in 1..Len(wire.entries) :
    (wire.entries[i].id \in wire.managed /\ wire.entries[i].entry.helper # EcNoHelper)
      => wire.entries[i].entry.helper.arguments = "managed"

\* Restoring checks the record on its own, without files, environment or
\* installation.
EcRestores(wire) ==
  LET ids == {wire.entries[i].id : i \in 1..Len(wire.entries)}
      external == ids \ EcShipped
  IN /\ wire.schema = EcSNAPSHOT_SCHEMA
     /\ \A i \in 1..Len(wire.entries) :
          EcRestorable(wire.entries[i].id, wire.entries[i].entry, wire.disabled)
     /\ Cardinality(ids) = Len(wire.entries)
     /\ Cardinality(external) <= EcMAX_MANIFESTS
     /\ EcShipped \subseteq ids
     /\ wire.pitch \subseteq ids
     /\ EcManagedIntact(wire)

EcRestored(wire) ==
  LET at(id) == CHOOSE i \in 1..Len(wire.entries) : wire.entries[i].id = id
  IN [registrations |-> [id \in {wire.entries[i].id : i \in 1..Len(wire.entries)} |->
                           wire.entries[at(id)].entry],
      disabled |-> wire.disabled,
      speech |-> [pitch |-> wire.pitch, tables |-> wire.tables]]

\* The owner validates the very record its workers will read.
EcPrepare ==
  /\ ecOwner.pc = "resolved"
  /\ LET wire == EcWire(ecOwner.resolved, ecOwner.managed)
     IN ecOwner' = [ecOwner EXCEPT !.pc = IF EcRestores(wire) THEN "prepared" ELSE "rejected",
                                   !.snapshot = <<wire>>]
  /\ UNCHANGED <<ecFile, ecHelpers, ecLock, ecEdit, ecManual, ecLanes>>

\* A lane, or its recovery, restores the snapshot it was handed.
EcStartLane(l) ==
  /\ ecOwner.pc = "prepared" /\ ecLanes[l] = <<>>
  /\ EcRestores(ecOwner.snapshot[1])
  /\ ecLanes' = [ecLanes EXCEPT ![l] = <<EcRestored(ecOwner.snapshot[1])>>]
  /\ UNCHANGED <<ecFile, ecHelpers, ecLock, ecEdit, ecManual, ecOwner>>

EcInit ==
  /\ ecFile \in EcDocuments
  /\ \E names \in EcInstalled :
       ecHelpers = [n \in names |-> [id |-> n, enabled |-> TRUE, valid |-> TRUE, size |-> 1]]
  /\ EcLoads(ecFile, ecHelpers)
  /\ ecLock = [d \in {"root", "helpers.d"} |-> 0]
  /\ ecEdit = [e \in EcEditor |-> EcIdle]
  /\ ecManual = 0
  /\ ecOwner = [pc |-> "start", document |-> EcNoFile, todo |-> <<>>, set |-> EcLoading,
                claims |-> <<>>, resolved |-> EcEmpty, managed |-> {}, snapshot |-> <<>>]
  /\ ecLanes = [l \in EcLane |-> <<>>]

EcNext ==
  \/ \E e \in EcEditor :
       \/ EcInspect(e)
       \/ EcSave(e)
       \/ EcAddHelper(e)
       \/ EcPublish(e)
       \/ EcRename(e)
       \/ EcEditorDies(e)
  \/ EcByHand
  \/ EcReadPolicy
  \/ EcListHelpers
  \/ EcReadHelper
  \/ EcResolve
  \/ EcPrepare
  \/ \E l \in EcLane : EcStartLane(l)

EcSpec == EcInit /\ [][EcNext]_ecVars

\* Properties.

\* The manifests an owner read that claim an identity, whatever else was wrong
\* with the set.
EcClaimants(id) ==
  {i \in 1..Len(ecOwner.claims) :
     /\ ecOwner.claims[i].id = id
     /\ ecOwner.claims[i].valid
     /\ ecOwner.claims[i].size <= EcMAX_BYTES}

\* Whatever the names and the order of the files and whatever is changed in
\* helpers.d while they are read, an external engine is registered exactly when
\* one manifest the owner read claims it, and none is after a failure of the
\* whole set (read_manifests and ConfigurationRoot::load, files.rs).
ClaimedByOneManifest ==
  ecOwner.pc \in {"loaded", "resolved", "prepared", "rejected"} =>
    DOMAIN ecOwner.set.external =
      IF ecOwner.set.failed THEN {}
      ELSE {id \in EcExternal \ EcReserved : Cardinality(EcClaimants(id)) = 1}

\* As long as only the editors change the files, in any interleaving and with
\* deaths between preparing and publishing, what is on disk can be loaded and
\* no editor replaces a file other than the one its draft was made from
\* (punctuation_editor.rs publish_checked, settings_editor.rs).
EditorsKeepItLoadable ==
  /\ ecManual = 0 => EcLoads(ecFile, ecHelpers)
  /\ \A e \in EcEditor :
       (ecEdit[e].pc = "prepared" /\ ecManual = 0) => EcUnchanged(ecEdit[e])

\* A configuration that resolves always makes a snapshot its workers accept,
\* and every lane has what the owner resolved, also after the files changed
\* (LaunchSnapshot::prepare and SnapshotWire::restore, snapshot.rs).
LanesShareTheSnapshot ==
  /\ ecOwner.pc # "rejected"
  /\ \A l \in EcLane : ecLanes[l] # <<>> => ecLanes[l][1] = ecOwner.resolved
=============================================================================

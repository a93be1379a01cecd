-------------------------- MODULE NativeParameters --------------------------
(***************************************************************************)
(* Native voice parameters of a helper engine, across the threads that     *)
(* share it.  A client pages through the helper's catalogue; a query       *)
(* worker assembles the pages into a cache; registration and speech        *)
(* qualify a saved native patch against what is cached; speech is applied  *)
(* by the helper, which names the applied plan; and a client may later ask *)
(* what a plan did.  The helper may be lost and replaced between any two   *)
(* of these, and a replacement repeats the identities and plan names of    *)
(* the one it replaces: only the parent's epoch tells them apart.          *)
(*                                                                         *)
(* A catalogue page is <<runtime, page number>>, so that pages of two      *)
(* runtimes never compare equal; the code sees only the revision.          *)
(***************************************************************************)
EXTENDS Integers, Sequences, FiniteSets, SequencesExt

CONSTANTS
    NpRevisions,      \* runtime -> its catalogue revision; 0: no native parameters
    NpDescribes,      \* revision -> parameter -> supported, not_checked, unsupported or fixed
    NpPages,          \* pages of every catalogue
    NpPatches,        \* saved native patches: sets of parameters
    NpVoices,         \* voices asked about; 0 is the engine as a whole
    NpSpoken,         \* the voice the saved choice names
    NpCatalogueLimit, \* MAX_CATALOGUES
    NpHelperPlans,    \* plans the helper keeps, 32
    NpParentPlans,    \* plans the parent keeps for the helper, 64
    NpPublicPlans,    \* plan references of the connection, 64
    NpMaxQueries,     \* bound on queries
    NpMaxAttempts     \* bound on speech attempts

VARIABLES
    npEpoch,      \* parameter_cache_epoch: connections published so far
    npConn,       \* whether the published connection is still there
    npRecover,    \* recover_before_next_call
    npHelper,     \* the helper process: next plan number and recent plans
    npRetained,   \* the parent's applied_plans
    npPublic,     \* NativePlanReferences, with the number of the last one
    npReady,      \* CatalogueCache.ready
    npPartial,    \* CatalogueCache.partial
    npQuery,      \* the query holding the admission lease
    npAsked,      \* queries admitted
    npPatch,      \* the registered definition's native patch
    npAttempt,    \* the speech attempt being made
    npAttempts,   \* attempts made
    npReported    \* the last explanation a client was given

npVars == <<npEpoch, npConn, npRecover, npHelper, npRetained, npPublic, npReady, npPartial,
            npQuery, npAsked, npPatch, npAttempt, npAttempts, npReported>>

npCacheVars == <<npReady, npPartial>>
npEngineVars == <<npEpoch, npConn, npRecover, npHelper, npRetained>>
npSpeechVars == <<npPatch, npAttempt, npAttempts, npPublic>>

NpNoPartial == [voice |-> -1]
NpNoQuery == [kind |-> "none"]
NpNoAttempt == [stage |-> "none"]
NpNoReport == [plan |-> 0, app |-> 0, runtime |-> 0, expected |-> 0]
NpNoPatch == {0}

\* What the engine is before anything is asked of it: one runtime is up.
NpInit ==
    /\ npEpoch = 1
    /\ npConn = TRUE
    /\ npRecover = FALSE
    /\ npHelper = [next |-> 1, recent |-> <<>>]
    /\ npRetained = <<>>
    /\ npPublic = [next |-> 0, plans |-> <<>>]
    /\ npReady = <<>>
    /\ npPartial = NpNoPartial
    /\ npQuery = NpNoQuery
    /\ npAsked = 0
    /\ npPatch = NpNoPatch
    /\ npAttempt = NpNoAttempt
    /\ npAttempts = 0
    /\ npReported = NpNoReport

------------------------------
\* The engine: its epoch, its connection and its replacement.

NpRevision == NpRevisions[npEpoch]
\* Every helper process starts its runtime generations again at one.
NpIdentity == [generation |-> 1, revision |-> NpRevision]
NpNative == NpRevision > 0

\* parameter_cache_epoch of the helper engine: 0 stands for None.
NpHelperEpoch == IF npConn /\ NpNative THEN npEpoch ELSE 0
\* parameter_cache_epoch of the isolating wrapper.
NpCacheEpoch == IF npRecover THEN 0 ELSE NpHelperEpoch

NpSpeaking == npAttempt.stage \in {"called", "installed"}
NpAsking == npQuery.kind # "none" /\ npQuery.adapter = "asking"
\* The lifecycle lock: a query tries it, speech waits for it.
NpLifecycleFree == ~NpAsking /\ npAttempt.stage # "installed"
NpEngineBusy == NpSpeaking \/ npRecover \/ ~NpLifecycleFree

\* The connection is found broken and taken out.
NpLose ==
    /\ npConn
    /\ npEpoch < Len(NpRevisions)
    /\ npConn' = FALSE
    /\ UNCHANGED <<npEpoch, npRecover, npHelper, npRetained, npQuery, npAsked, npReported>>
    /\ UNCHANGED <<npCacheVars, npSpeechVars>>

\* The circuit breaker asks for a fresh connection before the next call.
NpProbe ==
    /\ ~npRecover
    /\ npEpoch < Len(NpRevisions)
    /\ npRecover' = TRUE
    /\ UNCHANGED <<npEpoch, npConn, npHelper, npRetained, npQuery, npAsked, npReported>>
    /\ UNCHANGED <<npCacheVars, npSpeechVars>>

\* publish_connection: the new runtime has applied nothing yet.
NpInstalls ==
    /\ npEpoch' = npEpoch + 1
    /\ npConn' = TRUE
    /\ npHelper' = [next |-> 1, recent |-> <<>>]
    /\ npRetained' = <<>>

------------------------------
\* The cache of catalogues.

NpSameRuntime(a, b) == a.generation = b.generation

NpIsFor(voice, entry) == entry.voice = voice

NpInvalidated(ready, voice) == SelectSeq(ready, LAMBDA e : ~NpIsFor(voice, e))
NpDropped(partial, voice) == IF NpIsFor(voice, partial) THEN NpNoPartial ELSE partial

\* One engine cannot contribute mixed runtime observations.
NpOfThisRuntime(ready, epoch, identity) ==
    SelectSeq(ready, LAMBDA e : /\ e.epoch = epoch
                                /\ e.epoch = NpCacheEpoch
                                /\ NpSameRuntime(e.identity, identity))

NpPartialOf(q, page) ==
    [voice |-> q.voice, epoch |-> q.epoch, identity |-> page.identity,
     cursor |-> q.cursor, revision |-> q.revision, pages |-> <<>>]

\* CatalogueAssembly::push accepts only the page it asked for, and only
\* from the identity that its first page had.
NpPushable(partial, q, page) ==
    /\ partial.cursor = q.cursor
    /\ partial.revision = q.revision
    /\ q.revision # 0 => q.revision = page.identity.revision
    /\ ~\E i \in DOMAIN partial.pages : partial.pages[i] = page.page

\* A plausible slip: only the identity decides which sequence a page is of.
NpContinuesAnyEpoch(partial, q, page) ==
    /\ partial.identity = page.identity
    /\ NpPushable(partial, q, page)

\* The page follows those assembled, in one runtime's sequence.
NpContinues(partial, q, page) ==
    /\ partial.epoch = q.epoch
    /\ partial.identity = page.identity
    /\ NpPushable(partial, q, page)

NpPush(partial, page) ==
    [partial EXCEPT !.pages = Append(@, page.page), !.cursor = page.next,
                    !.revision = page.identity.revision]

\* The oldest catalogues make room for a new one.
NpAdmitReady(ready, entry) ==
    LET kept == NpInvalidated(ready, entry.voice)
        room == IF Len(kept) < NpCatalogueLimit THEN kept
                ELSE SubSeq(kept, Len(kept) - NpCatalogueLimit + 2, Len(kept))
    IN  Append(room, entry)

NpEntry(partial) ==
    [voice |-> partial.voice, epoch |-> partial.epoch, identity |-> partial.identity,
     pages |-> partial.pages]

\* A page of the runtime the query was sent to.
NpAssembled(ready, partial, q, page) ==
    CASE partial = NpNoPartial -> <<ready, partial>>
      [] ~NpIsFor(q.voice, partial) -> <<ready, partial>>
      [] ~NpContinues(partial, q, page) -> <<ready, NpNoPartial>>
      [] page.next # 0 -> <<ready, NpPush(partial, page)>>
      [] OTHER -> <<NpAdmitReady(ready, NpEntry(NpPush(partial, page))), NpNoPartial>>

\* What observing the answer to a query leaves in the cache.
NpObserved(q, result) ==
    LET dropped == <<NpInvalidated(npReady, q.voice), NpDropped(npPartial, q.voice)>>
    IN  CASE result.kind = "busy" -> <<npReady, npPartial>>
          [] q.epoch = 0 \/ q.epoch # NpCacheEpoch -> dropped
          [] result.kind # "page" -> dropped
          [] OTHER ->
               LET ready == NpOfThisRuntime(npReady, q.epoch, result.identity)
               IN  IF q.cursor = 0
                   THEN NpAssembled(NpInvalidated(ready, q.voice), NpPartialOf(q, result),
                                    q, result)
                   ELSE NpAssembled(ready, npPartial, q, result)

\* cached_catalogues: complete, and of the runtime that is up.
NpCached == SelectSeq(npReady, LAMBDA e : e.epoch = NpCacheEpoch)

------------------------------
\* Qualifying a saved patch against cached catalogues.

\* The catalogue of the voice, or that of the engine as a whole.
NpCatalogueFor(catalogues, voice) ==
    LET exact == SelectSeq(catalogues, LAMBDA e : e.voice = voice)
        whole == SelectSeq(catalogues, LAMBDA e : e.voice = 0)
    IN  exact \o whole

\* An operation on a parameter that is not described, or that is not
\* adjustable, makes the whole patch invalid.
NpPatchInvalid(patch, revision) ==
    \E p \in patch : p \notin DOMAIN NpDescribes[revision] \/ NpDescribes[revision][p] = "fixed"

NpPatchStatus(patch, revision) ==
    CASE \E p \in patch : NpDescribes[revision][p] = "unsupported" -> "unavailable"
      [] \E p \in patch : NpDescribes[revision][p] = "not_checked" -> "deferred"
      [] OTHER -> "supported"

NpQualify(patch, catalogues) ==
    LET found == NpCatalogueFor(catalogues, NpSpoken)
    IN  IF found = <<>> THEN "deferred"
        ELSE IF NpPatchInvalid(patch, found[1].identity.revision) THEN "invalid"
        ELSE NpPatchStatus(patch, found[1].identity.revision)

\* register_v3: an invalid patch refuses the whole registration; one that
\* only cannot be applied now is saved with its status.
NpRegister(patch) ==
    /\ npAttempt = NpNoAttempt
    /\ npPatch # patch
    /\ NpQualify(patch, NpCached) # "invalid"
    /\ npPatch' = patch
    /\ UNCHANGED <<npQuery, npAsked, npReported, npAttempt, npAttempts, npPublic>>
    /\ UNCHANGED <<npEngineVars, npCacheVars>>

------------------------------
\* Queries: one at a time, answered by a worker that waits for an adapter
\* thread up to a deadline.  The lease is free when both are gone.

NpAdmitted(q) ==
    /\ npQuery = NpNoQuery
    /\ npAsked < NpMaxQueries
    /\ npAsked' = npAsked + 1
    /\ npQuery' = [worker |-> "waiting", adapter |-> "started", result |-> [kind |-> "none"]] @@ q

\* A client asks for a page of the catalogue.
NpAskPage(voice, cursor, revision) ==
    /\ cursor # 0 => revision # 0
    /\ NpAdmitted([kind |-> "page", voice |-> voice, cursor |-> cursor, revision |-> revision,
                   epoch |-> NpCacheEpoch])
    /\ UNCHANGED <<npReported, npCacheVars, npEngineVars, npSpeechVars>>

\* lookup: the reference is still there and its runtime is still the one.
NpLookup(n) ==
    SelectSeq(npPublic.plans, LAMBDA p : p.number = n /\ p.epoch # 0 /\ p.epoch = NpCacheEpoch)

\* A client asks what an applied plan did.
NpAskPlan(n) ==
    LET found == NpLookup(n)
    IN  /\ found # <<>>
        /\ NpAdmitted([kind |-> "plan", plan |-> found[1], epoch |-> found[1].epoch,
                       identity |-> found[1].identity])
        /\ UNCHANGED <<npReported, npCacheVars, npEngineVars, npSpeechVars>>

\* A client asks what a draft would do: it is qualified strictly, against
\* what is cached.
NpAskDraft(patch) ==
    /\ NpQualify(patch, NpCached) = "supported"
    /\ NpAdmitted([kind |-> "draft", patch |-> patch, epoch |-> NpCacheEpoch,
                   identity |-> NpCatalogueFor(NpCached, NpSpoken)[1].identity])
    /\ UNCHANGED <<npReported, npCacheVars, npEngineVars, npSpeechVars>>

NpAdapterEnds(result) ==
    npQuery' = [npQuery EXCEPT !.adapter = "sent", !.result = result]

\* The adapter thread enters the engine: it never waits for speech, and
\* never reconnects.
NpAdapterCalls ==
    /\ npQuery.kind # "none" /\ npQuery.adapter = "started"
    /\ IF NpEngineBusy THEN NpAdapterEnds([kind |-> "busy"])
       ELSE IF npQuery.kind = "plan"
               /\ ~\E i \in DOMAIN npRetained : npRetained[i].id = npQuery.plan.id
            THEN NpAdapterEnds([kind |-> "expired"])
       ELSE IF ~npConn \/ ~NpNative THEN NpAdapterEnds([kind |-> "unavailable"])
       ELSE npQuery' = [npQuery EXCEPT !.adapter = "asking"]
    /\ UNCHANGED <<npAsked, npReported, npCacheVars, npEngineVars, npSpeechVars>>

\* The helper's page: an expected revision guards a continuation there,
\* and a first page when its answer is back.
NpPageAnswer(q) ==
    IF q.revision # 0 /\ q.revision # NpRevision THEN [kind |-> "stale"]
    ELSE [kind |-> "page", voice |-> q.voice, identity |-> NpIdentity,
          page |-> <<npEpoch, q.cursor + 1>>,
          next |-> IF q.cursor + 1 = NpPages THEN 0 ELSE q.cursor + 1]

\* The helper's account of a plan it applied, if it still remembers it.
NpPlanAnswer(q) ==
    LET found == SelectSeq(npHelper.recent, LAMBDA p : p.id = q.plan.id)
    IN  IF found = <<>> THEN [kind |-> "expired"]
        ELSE [kind |-> "ready", app |-> found[1].app, identity |-> NpIdentity, runtime |-> npEpoch]

\* The helper plans a draft for the identity it was qualified for, or
\* refuses it.
NpDraftAnswer(q) ==
    IF q.identity # NpIdentity \/ NpPatchInvalid(q.patch, NpRevision) THEN [kind |-> "invalid"]
    ELSE [kind |-> "ready", app |-> 0, identity |-> NpIdentity, runtime |-> npEpoch]

NpAnswerOf(q) ==
    CASE q.kind = "page" -> NpPageAnswer(q)
      [] q.kind = "plan" -> NpPlanAnswer(q)
      [] q.kind = "draft" -> NpDraftAnswer(q)

\* validate_for: the answer is about the voice, the revision and the plan
\* that were asked about.
NpFits(q, answer) ==
    CASE answer.kind = "page" ->
           /\ answer.voice = q.voice
           /\ q.revision # 0 => answer.identity.revision = q.revision
      [] answer.kind = "ready" -> answer.identity = q.identity
      [] OTHER -> TRUE

\* What a helper may answer: the truth, or a page of another voice.
NpAnswers(q) ==
    LET answer == NpAnswerOf(q)
    IN  {answer} \cup (IF answer.kind = "page" THEN {[answer EXCEPT !.voice = v] : v \in NpVoices}
                       ELSE {})

\* The helper's answer is taken when it fits.
NpHelperAnswers ==
    /\ NpAsking /\ npConn
    /\ \E answer \in NpAnswers(npQuery) : NpFits(npQuery, answer) /\ NpAdapterEnds(answer)
    /\ UNCHANGED <<npAsked, npReported, npCacheVars, npEngineVars, npSpeechVars>>

\* No answer in time, a lost connection or an answer that does not fit:
\* the connection is taken out, so that no later request reads it.
NpHelperFails ==
    /\ NpAsking
    /\ npEpoch < Len(NpRevisions)
    /\ npConn' = FALSE
    /\ NpAdapterEnds([kind |-> "unavailable"])
    /\ UNCHANGED <<npEpoch, npRecover, npHelper, npRetained, npAsked, npReported>>
    /\ UNCHANGED <<npCacheVars, npSpeechVars>>

\* A plausible slip: the identity alone decides.
NpExplanationOfIdentity(q) ==
    /\ q.epoch # 0
    /\ q.result.identity = q.identity

\* checked_explanation: the answer is of the runtime and the identity the
\* question was about.
NpExplanationHolds(q) ==
    /\ q.epoch # 0
    /\ q.epoch = NpCacheEpoch
    /\ q.result.identity = q.identity

NpReportOf(q) ==
    [plan |-> IF q.kind = "plan" THEN q.plan.number ELSE 0, app |-> q.result.app,
     runtime |-> q.result.runtime, expected |-> IF q.kind = "plan" THEN q.plan.app ELSE 0]

\* The worker reports what the adapter sent, and observes a page.
NpWorkerReports ==
    /\ npQuery.kind # "none" /\ npQuery.worker = "waiting" /\ npQuery.adapter = "sent"
    /\ npQuery' = NpNoQuery
    /\ IF npQuery.kind = "page"
       THEN LET seen == NpObserved(npQuery, npQuery.result)
            IN  npReady' = seen[1] /\ npPartial' = seen[2] /\ npReported' = npReported
       ELSE /\ UNCHANGED npCacheVars
            /\ npReported' = IF npQuery.result.kind = "ready" /\ NpExplanationHolds(npQuery)
                             THEN NpReportOf(npQuery) ELSE NpNoReport
    /\ UNCHANGED <<npAsked, npEngineVars, npSpeechVars>>

\* The deadline passes first: the client is told so, and what the adapter
\* sends later is dropped with its lease.
NpDeadline ==
    /\ npQuery.kind # "none" /\ npQuery.worker = "waiting" /\ npQuery.adapter # "sent"
    /\ npQuery' = [npQuery EXCEPT !.worker = "gone"]
    /\ IF npQuery.kind = "page"
       THEN LET seen == NpObserved(npQuery, [kind |-> "unavailable"])
            IN  npReady' = seen[1] /\ npPartial' = seen[2] /\ npReported' = npReported
       ELSE UNCHANGED npCacheVars /\ npReported' = NpNoReport
    /\ UNCHANGED <<npAsked, npEngineVars, npSpeechVars>>

NpLateAnswer ==
    /\ npQuery.kind # "none" /\ npQuery.worker = "gone" /\ npQuery.adapter = "sent"
    /\ npQuery' = NpNoQuery
    /\ UNCHANGED <<npAsked, npReported, npCacheVars, npEngineVars, npSpeechVars>>

------------------------------
\* Speech with a native patch.

\* Admission takes the cached catalogues, or none while a query worker
\* holds the cache.
NpDispatch(catalogues) ==
    /\ npAttempt = NpNoAttempt
    /\ npPatch # NpNoPatch
    /\ npAttempts < NpMaxAttempts
    /\ npAttempts' = npAttempts + 1
    /\ npAttempt' = [stage |-> "queued", catalogues |-> catalogues]
    /\ UNCHANGED <<npQuery, npAsked, npReported, npPatch, npPublic, npEngineVars, npCacheVars>>

\* prepare: the block is sent only when it is supported; otherwise the
\* common settings are all that is asked for (speech plans with the
\* common_only policy).  The runtime is noted.
NpPrepared(catalogues) ==
    LET found == NpCatalogueFor(catalogues, NpSpoken)
    IN  IF NpQualify(npPatch, catalogues) = "supported"
        THEN [stage |-> "prepared", native |-> TRUE, identity |-> found[1].identity,
              runtime |-> NpCacheEpoch]
        ELSE [stage |-> "prepared", native |-> FALSE, identity |-> NpIdentity,
              runtime |-> NpCacheEpoch]

NpPrepare ==
    /\ npAttempt.stage = "queued"
    /\ npAttempt' = NpPrepared(npAttempt.catalogues)
    /\ UNCHANGED <<npQuery, npAsked, npReported, npPatch, npAttempts, npPublic>>
    /\ UNCHANGED <<npEngineVars, npCacheVars>>

\* The isolated call takes the recovery flag.
NpCall ==
    /\ npAttempt.stage = "prepared"
    /\ npAttempt' = [npAttempt EXCEPT !.stage = "called"] @@ [recover |-> npRecover]
    /\ npRecover' = FALSE
    /\ UNCHANGED <<npEpoch, npConn, npHelper, npRetained>>
    /\ UNCHANGED <<npQuery, npAsked, npReported, npPatch, npAttempts, npPublic, npCacheVars>>

\* Under the lifecycle lock a recovery, or a helper that has exited, gets
\* a fresh connection.
NpInstall ==
    /\ npAttempt.stage = "called"
    /\ NpLifecycleFree
    /\ npAttempt' = [npAttempt EXCEPT !.stage = "installed"]
    /\ IF npAttempt.recover \/ ~npConn
       THEN npEpoch < Len(NpRevisions) /\ NpInstalls
       ELSE UNCHANGED <<npEpoch, npConn, npHelper, npRetained>>
    /\ UNCHANGED <<npRecover, npQuery, npAsked, npReported, npPatch, npAttempts, npPublic>>
    /\ UNCHANGED npCacheVars

\* applied: the helper names the plan by its own counter and keeps the
\* most recent ones.
NpHelperApplies(app) ==
    [next |-> npHelper.next + 1,
     recent |-> LET all == Append(npHelper.recent, [id |-> npHelper.next, app |-> app])
                IN  IF Len(all) > NpHelperPlans THEN Tail(all) ELSE all]

\* retain_application: the parent keeps the plan under the helper's name.
NpRetain(id) ==
    LET others == SelectSeq(npRetained, LAMBDA p : p.id # id)
        room == IF Len(others) = NpParentPlans THEN Tail(others) ELSE others
    IN  Append(room, [id |-> id, identity |-> NpIdentity])

\* ParameterExchange: only a helper of protocol 6 is sent the block.
NpSendsNative == npAttempt.native /\ NpNative
\* The helper accepts the block only for its own identity.
NpAccepts == NpSendsNative /\ npAttempt.identity = NpIdentity

NpApplies ==
    /\ npAttempt.stage = "installed"
    /\ npConn /\ NpAccepts
    /\ npHelper' = NpHelperApplies(npAttempts)
    /\ npRetained' = NpRetain(npHelper.next)
    /\ npAttempt' = [stage |-> "applied", id |-> npHelper.next, identity |-> NpIdentity,
                     runtime |-> npAttempt.runtime, app |-> npAttempts]
    /\ UNCHANGED <<npEpoch, npConn, npRecover, npQuery, npAsked, npReported, npPatch, npAttempts>>
    /\ UNCHANGED <<npPublic, npCacheVars>>

\* Otherwise the receipt says that the common settings were used.
NpDegrades ==
    /\ npAttempt.stage = "installed"
    /\ npConn /\ ~NpAccepts
    /\ npAttempt' = NpNoAttempt
    /\ UNCHANGED <<npQuery, npAsked, npReported, npPatch, npAttempts, npPublic>>
    /\ UNCHANGED <<npEngineVars, npCacheVars>>

\* The connection was lost under the call.
NpSpeechFails ==
    /\ npAttempt.stage = "installed"
    /\ ~npConn
    /\ npAttempt' = NpNoAttempt
    /\ UNCHANGED <<npQuery, npAsked, npReported, npPatch, npAttempts, npPublic>>
    /\ UNCHANGED <<npEngineVars, npCacheVars>>

\* publish: the client gets a name of the connection's own, bound to the
\* runtime noted before the call.
NpReference(number) ==
    [number |-> number, id |-> npAttempt.id, identity |-> npAttempt.identity,
     epoch |-> npAttempt.runtime, app |-> npAttempt.app]

NpPublish ==
    /\ npAttempt.stage = "applied"
    /\ LET number == npPublic.next + 1
           plans == IF npAttempt.runtime = 0 THEN npPublic.plans
                    ELSE Append(npPublic.plans, NpReference(number))
       IN  npPublic' = [next |-> number,
                        plans |-> IF Len(plans) > NpPublicPlans THEN Tail(plans) ELSE plans]
    /\ npAttempt' = NpNoAttempt
    /\ UNCHANGED <<npQuery, npAsked, npReported, npPatch, npAttempts, npEngineVars, npCacheVars>>

NpSpeech ==
    \/ \E catalogues \in {NpCached, <<>>} : NpDispatch(catalogues)
    \/ NpPrepare \/ NpCall \/ NpInstall \/ NpApplies \/ NpDegrades \/ NpSpeechFails \/ NpPublish

NpClient ==
    \/ \E v \in NpVoices, c \in 0..(NpPages - 1), r \in {0} \cup DOMAIN NpDescribes :
          NpAskPage(v, c, r)
    \/ \E n \in 1..npPublic.next : NpAskPlan(n)
    \/ npPatch # NpNoPatch /\ NpAskDraft(npPatch)
    \/ \E p \in NpPatches : NpRegister(p)

NpQueryThreads ==
    \/ NpAdapterCalls \/ NpHelperAnswers \/ NpHelperFails
    \/ NpWorkerReports \/ NpDeadline \/ NpLateAnswer

NpNext == NpLose \/ NpProbe \/ NpClient \/ NpQueryThreads \/ NpSpeech

NpSpec == NpInit /\ [][NpNext]_npVars

------------------------------
\* A cached catalogue is every page of one runtime in order, the runtime
\* its epoch names: pages asked before and after the helper was replaced
\* are never put together, though both runtimes call themselves the same
\* (cache.rs, observe).
CatalogueOfOneRuntime ==
    \A i \in DOMAIN npReady :
        npReady[i].pages = [n \in 1..NpPages |-> <<npReady[i].epoch, n>>]

\* An explanation given for a plan is of the synthesis that the plan's
\* public name was issued for, although a replaced helper hands out the
\* same plan names again under the same identity (native_plans.rs,
\* explanations.rs, helper_engine/parameters.rs).
ExplainsItsOwnPlan ==
    npReported.plan # 0 => npReported.app = npReported.expected
------------------------------
\* The plan of native parameters for one utterance, and its application.
\* compose puts an engine's defaults, the adapter's common mapping, the
\* context of the text and the saved native patch together, and orders the
\* parameters so that one whose setting disturbs another comes before it.
\* The adapter then resets the voice and sets the parameters one by one.
\* 
\* Values are small numbers; NlUnknown is a reset whose value the engine
\* does not tell, and NlDisturbed what a side effect leaves behind.
CONSTANTS
    NlParameters,   \* parameter ids, in the order of their names
    NlCatalogues,   \* catalogues: see NlCatalogueOk
    NlMapped,       \* the adapter's common mappings: parameter -> value
    NlContexts,     \* explicit contextual inputs: sets of common inputs
    NlPatches,      \* native patches: parameter -> value, or NlReset
    NlLimit         \* the largest value a parameter accepts

VARIABLES
    nlCatalogue,    \* the catalogue of the voice
    nlMapped,       \* mapped_common
    nlContext,      \* the contextual inputs
    nlPatch,        \* the native patch
    nlOrder,        \* application_order still to be set
    nlPlan,         \* parameter -> planned value
    nlNative,       \* parameter -> the value the native voice has
    nlStage         \* planning, applying, applied or refused

nlVars == <<nlCatalogue, nlMapped, nlContext, nlPatch, nlOrder, nlPlan, nlNative, nlStage>>

NlUnknown == -1
NlDisturbed == -2
NlReset == -3

NlInit ==
    /\ nlCatalogue \in NlCatalogues
    /\ nlMapped \in NlMapped
    /\ nlContext \in NlContexts
    /\ nlPatch \in NlPatches
    /\ nlOrder = <<>>
    /\ nlPlan = [p \in {} |-> 0]
    /\ nlNative = [p \in NlParameters |-> NlDisturbed]
    /\ nlStage = "planning"

------------------------------
\* Validation.

NlAccepts(value) == value \in 0..NlLimit

\* A descriptor: its default agrees with its evidence and no parameter is
\* its own side effect.
NlDescriptorOk(p, d) ==
    /\ d.default = NlUnknown \/ NlAccepts(d.default)
    /\ d.adjustable /\ d.scope = "voice" => d.reset
    /\ p \notin d.effects

NlCatalogueOk ==
    LET described == DOMAIN nlCatalogue.parameters
    IN  /\ \A p \in described : NlDescriptorOk(p, nlCatalogue.parameters[p])
        /\ \A p \in described : nlCatalogue.parameters[p].effects \subseteq described
        /\ \A m \in nlCatalogue.mappings :
              /\ m.inputs # {}
              /\ m.outputs # {} /\ m.outputs \subseteq described

\* Every operation of the patch is on an adjustable, supported parameter
\* of the voice, and sets a value it accepts.
NlPatchOk ==
    \A p \in DOMAIN nlPatch :
        /\ p \in DOMAIN nlCatalogue.parameters
        /\ LET d == nlCatalogue.parameters[p]
           IN  d.scope = "voice" /\ d.adjustable /\ d.supported
        /\ nlPatch[p] # NlReset => NlAccepts(nlPatch[p])

------------------------------
\* compose.

\* The parameters a plan is about: those of the voice that can be reset.
NlPlanned ==
    {p \in DOMAIN nlCatalogue.parameters :
        LET d == nlCatalogue.parameters[p] IN d.scope = "voice" /\ d.supported /\ d.reset}

\* Outputs of the mappings that have an explicit contextual input.
NlContextual ==
    UNION {m.outputs : m \in {n \in nlCatalogue.mappings : n.inputs \cap nlContext # {}}}

NlMappingOk == \A p \in DOMAIN nlMapped : p \in NlPlanned /\ NlAccepts(nlMapped[p])

NlDefault(p) == nlCatalogue.parameters[p].default
NlCommon(p) == IF p \in DOMAIN nlMapped THEN nlMapped[p] ELSE NlDefault(p)

\* The default, then the mapping, then the patch; context masks the patch.
NlValue(p) ==
    IF p \notin DOMAIN nlPatch \/ p \in NlContextual THEN NlCommon(p)
    ELSE IF nlPatch[p] = NlReset THEN NlDefault(p)
    ELSE nlPatch[p]

NlEffects(p) == nlCatalogue.parameters[p].effects

\* A side effect must reach a planned parameter that can be restored.
NlRestorable ==
    \A p \in NlPlanned : \A t \in NlEffects(p) : t \in NlPlanned /\ NlValue(t) # NlUnknown

\* A plausible slip: the order of the names is used as it is.
NlIncomingIgnored(p, waiting) == 0

\* How many parameters of a set still disturb this one.
NlIncoming(p, waiting) == Cardinality({q \in waiting : p \in NlEffects(q)})

NlReady(waiting) == {p \in waiting : NlIncoming(p, waiting) = 0}
NlFirst(set) == CHOOSE p \in set : \A q \in set : p <= q

\* Kahn's ordering: the first ready parameter by name, then the rest; what
\* is left when nothing is ready is a cycle.
NlOrder ==
    LET order[waiting \in SUBSET NlPlanned] ==
            IF NlReady(waiting) = {} THEN <<>>
            ELSE LET p == NlFirst(NlReady(waiting)) IN <<p>> \o order[waiting \ {p}]
    IN  order[NlPlanned]

NlComposable ==
    NlCatalogueOk /\ NlPatchOk /\ NlMappingOk /\ NlRestorable

NlCompose ==
    /\ nlStage = "planning"
    /\ NlComposable
    /\ Len(NlOrder) = Cardinality(NlPlanned)
    /\ nlPlan' = [p \in NlPlanned |-> NlValue(p)]
    /\ nlOrder' = NlOrder
    /\ nlStage' = "composed"
    /\ UNCHANGED <<nlCatalogue, nlMapped, nlContext, nlPatch, nlNative>>

\* An invalid input, or side effects in a cycle.
NlRefuse ==
    /\ nlStage = "planning"
    /\ NlComposable => Len(NlOrder) # Cardinality(NlPlanned)
    /\ nlStage' = "refused"
    /\ UNCHANGED <<nlCatalogue, nlMapped, nlContext, nlPatch, nlOrder, nlPlan, nlNative>>

\* The adapter first resets the voice to what it is without any setting.
NlPristine ==
    /\ nlStage = "composed"
    /\ nlNative' = [p \in NlParameters |->
                      IF p \in NlPlanned THEN NlDefault(p) ELSE nlNative[p]]
    /\ nlStage' = "applying"
    /\ UNCHANGED <<nlCatalogue, nlMapped, nlContext, nlPatch, nlOrder, nlPlan>>

\* It then sets the next parameter, which disturbs the ones its descriptor
\* names.  A value that is not known is left as the reset made it.
NlSet ==
    /\ nlStage = "applying" /\ nlOrder # <<>>
    /\ LET p == Head(nlOrder)
       IN  nlNative' = [q \in NlParameters |->
                          IF q \in NlEffects(p) THEN NlDisturbed
                          ELSE IF q = p /\ nlPlan[p] # NlUnknown THEN nlPlan[p] ELSE nlNative[q]]
    /\ nlOrder' = Tail(nlOrder)
    /\ UNCHANGED <<nlCatalogue, nlMapped, nlContext, nlPatch, nlPlan, nlStage>>

NlApplied ==
    /\ nlStage = "applying" /\ nlOrder = <<>>
    /\ nlStage' = "applied"
    /\ UNCHANGED <<nlCatalogue, nlMapped, nlContext, nlPatch, nlOrder, nlPlan, nlNative>>

NlNext == NlCompose \/ NlRefuse \/ NlPristine \/ NlSet \/ NlApplied

NlSpec == NlInit /\ [][NlNext]_nlVars

------------------------------
\* When a plan has been applied the voice has what was asked for: in every
\* planned parameter the context's mapping where the text asks for one,
\* else the saved setting, else the mapping or the default, however the
\* parameters disturb each other (planning.rs, compose).
SpokenAsPlanned ==
    nlStage = "applied" =>
        \A p \in NlPlanned :
            LET contextual == \E m \in nlCatalogue.mappings :
                                  m.inputs \cap nlContext # {} /\ p \in m.outputs
                common == IF p \in DOMAIN nlMapped THEN nlMapped[p]
                          ELSE nlCatalogue.parameters[p].default
                saved == IF nlPatch[p] = NlReset THEN nlCatalogue.parameters[p].default
                         ELSE nlPatch[p]
            IN  nlNative[p] = IF contextual \/ p \notin DOMAIN nlPatch THEN common ELSE saved
=============================================================================

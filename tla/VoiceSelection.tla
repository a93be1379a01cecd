--------------------------- MODULE VoiceSelection ---------------------------
(***************************************************************************)
(* How a logical voice becomes a physical one: the engine registry and its  *)
(* rescans (omnivox-tts/src/engine_registry.rs), the runtime health laid    *)
(* over it (omnivox-cli/src/health.rs), the session's routing policy        *)
(* (routing_policy.rs), the registered logical voices (logical_voices.rs),  *)
(* the resolver (resolver.rs), the layered style of the choice that won     *)
(* (voice_choices.rs) and the snapshot a dispatched batch routes with       *)
(* (omnivox-cli/src/routing.rs, routing_choice.rs).                          *)
(*                                                                         *)
(* Three threads share the state: the command thread answers control        *)
(* requests and dispatches, the synthesis worker routes the dispatched      *)
(* batch, and a rescan thread per engine retries a failed start.  The       *)
(* registry and the health are two locks: who needs both reads the registry *)
(* first and the health in a later step.                                    *)
(*                                                                         *)
(* Engines and voices are numbers, in the order of their ids.  One logical  *)
(* voice is registered at a time.  Reasons and diagnostics are left out.    *)
(***************************************************************************)
EXTENDS Integers, Sequences, FiniteSets, FiniteSetsExt, Functions

CONSTANTS
    VsEngines,        \* the configured engines
    VsUnknown,        \* an engine id nobody registered, legal in every list
    VsLocals,         \* start-ups: [disabled, explicitOnly, failed], sets of engines
    VsCatalogue,      \* engine -> its voices [id, language, default]
    VsUnicode,        \* engines that encode every text
    VsDimensions,     \* engine -> the style dimensions it supports
    VsDefinitions,    \* logical voices a client registers
    VsFallbacks,      \* fallback policies registered with them
    VsPolicies,       \* session policies [preferred, fallback, disabled]
    VsContexts,       \* the style patches of a span
    VsMaxGeneration,  \* bound on the generations a client uses
    VsMaxFailures,    \* bound on the failures of engine calls
    VsMaxRecoveries,  \* bound on the recovery requests
    VsMaxBatches      \* bound on the dispatched batches

VARIABLES
    vsLocal,        \* the frozen local configuration
    vsEntry,        \* the registry's entries
    vsRegistryGen,  \* the registry's generation
    vsCircuit,      \* runtime health: "closed", "open", "due", "ready" or "probing"
    vsHealthGen,    \* its generation
    vsPolicy,       \* the routing policy registry
    vsVoice,        \* the logical voice registry
    vsRead,         \* the command thread's registry snapshot, or VsNothing
    vsAnswer,       \* the last inventory a client was told, or VsNothing
    vsBatch,        \* the dispatched batch's snapshot, or VsNothing
    vsWork,         \* the worker: [at, inventory, route, attempt]
    vsFailed,       \* failures of engine calls so far
    vsRecoveries,   \* recovery requests so far
    vsBatches       \* batches so far

vsRegistry == <<vsLocal, vsEntry, vsRegistryGen>>
vsHealth == <<vsCircuit, vsHealthGen>>
vsSession == <<vsPolicy, vsVoice, vsRead, vsAnswer>>
vsWorker == <<vsBatch, vsWork>>
vsBounds == <<vsFailed, vsRecoveries, vsBatches>>
vsVars == <<vsRegistry, vsHealth, vsSession, vsWorker, vsBounds>>

VsNothing == [none |-> TRUE]
VsNone == 99       \* an absent optional value
VsInherit == 98    \* a patch member that is not supplied
VsAny == "any"     \* no language asked for
VsMaxAttempts == 4
VsNoFallback == [preferred |-> <<>>, sameLanguage |-> FALSE, global |-> VsNothing,
                 fallback |-> <<>>]

\* A voice of an engine, what a choice asks for, and what it adjusts.
VsVoices == [id : Nat, language : STRING, default : BOOLEAN, available : BOOLEAN]
VsLanguages == STRING \cup {VsAny}
VsSelectors ==
    [kind : {"exact"}, engine : Nat, voice : Nat]
    \cup [kind : {"engine"}, engine : Nat, language : VsLanguages]
    \cup [kind : {"properties"}, language : VsLanguages]
VsPatches == [pitch : Int, pan : Int, offset : Int]

ASSUME SelectionAssumption ==
    /\ VsEngines \subseteq Nat /\ VsEngines # {} /\ IsFiniteSet(VsEngines)
    /\ VsLocals \subseteq
         [disabled : SUBSET VsEngines, explicitOnly : SUBSET VsEngines, failed : SUBSET VsEngines]
    /\ VsCatalogue \in [VsEngines -> SUBSET VsVoices]
    /\ VsDefinitions \subseteq
         [language : VsLanguages, shared : [pitch : Int, pan : Int, rate : Int, offset : Int],
          choices : Seq([selector : VsSelectors, adjustments : VsPatches])]
    /\ VsFallbacks \subseteq
         [preferred : Seq(Nat), sameLanguage : BOOLEAN, global : VsSelectors \cup {VsNothing},
          fallback : Seq(Nat)]
    /\ VsPolicies \subseteq
         [preferred : Seq(Nat), fallback : Seq(Nat), disabled : SUBSET VsEngines]
    /\ VsContexts \subseteq VsPatches
    /\ VsMaxGeneration \in Nat /\ VsMaxFailures \in Nat
    /\ VsMaxRecoveries \in Nat /\ VsMaxBatches \in Nat

---------------------------------------------------------------------------
\* The registry.

\* insert: a locally disabled engine is kept without handle, retry or use;
\* register_unavailable: a failed start keeps its factory and invents no voices.
VsInsert(local, e) ==
    LET started == e \notin local.failed
        disabled == e \in local.disabled
    IN [engine     |-> started /\ ~disabled,
        available  |-> started /\ ~disabled,
        health     |-> "healthy",
        voices     |-> IF started THEN VsCatalogue[e] ELSE {},
        retry      |-> ~started /\ ~disabled,
        rescanning |-> FALSE]

\* EngineSelectionPermissions.
VsDisabled(e) == e \in vsLocal.disabled
VsPermitsAutomatic(e) == ~VsDisabled(e) /\ e \notin vsLocal.explicitOnly

\* snapshot: what the descriptors say, read with the generation.
VsDescriptors ==
    [e \in VsEngines |-> [available |-> vsEntry[e].available,
                          health    |-> vsEntry[e].health,
                          voices    |-> vsEntry[e].voices]]

\* request_rescan: one per engine, and the engine is told unavailable meanwhile.
VsCanRescan(e) == ~VsDisabled(e) /\ ~vsEntry[e].rescanning /\ vsEntry[e].retry

VsRescanStarts(e) ==
    /\ VsCanRescan(e)
    /\ vsEntry' = [vsEntry EXCEPT ![e].rescanning = TRUE, ![e].available = FALSE]
    /\ vsRegistryGen' = vsRegistryGen + 1

\* A slip: the descriptor is published before the handle.
VsFinishRescanHandleLater(e, started) ==
    IF started
    THEN [engine |-> FALSE, available |-> TRUE, health |-> "healthy",
          voices |-> VsCatalogue[e], retry |-> FALSE, rescanning |-> FALSE]
    ELSE [vsEntry[e] EXCEPT !.rescanning = FALSE, !.available = FALSE, !.health = "failed"]

\* finish_rescan: handle, descriptor and generation change under one lock.
VsFinishRescan(e, started) ==
    IF started
    THEN [engine |-> TRUE, available |-> TRUE, health |-> "healthy",
          voices |-> VsCatalogue[e], retry |-> FALSE, rescanning |-> FALSE]
    ELSE [vsEntry[e] EXCEPT !.rescanning = FALSE, !.available = FALSE, !.health = "failed"]

\* The rescan thread ends: started, failed, panicked or a mismatched descriptor.
VsRescanEnds(e, started) ==
    /\ vsEntry[e].rescanning
    /\ vsEntry' = [vsEntry EXCEPT ![e] = VsFinishRescan(e, started)]
    /\ vsRegistryGen' = vsRegistryGen + 1
    /\ UNCHANGED <<vsLocal, vsHealth, vsSession, vsWorker, vsBounds>>

---------------------------------------------------------------------------
\* The runtime health.

\* promote_ready, for the engines given.
VsDue(es) == {e \in es : vsCircuit[e] = "due"}

VsPromote(es) == [e \in VsEngines |-> IF e \in VsDue(es) THEN "ready" ELSE vsCircuit[e]]

\* A slip: a cooldown that ends is not counted.
VsPromotedUncounted(es) == vsHealthGen

VsPromoted(es) == vsHealthGen + Cardinality(VsDue(es))

\* projected_health, laid over a registry snapshot.
VsProjectedHealth(circuit, health) ==
    CASE circuit = "closed" -> health
      [] circuit = "ready" -> "degraded"
      [] OTHER -> "failed"

VsOverlay(inventory, circuit) ==
    [e \in VsEngines |->
        [inventory[e] EXCEPT !.health = VsProjectedHealth(circuit[e], @)]]

\* The cooldown of a failed engine passes; nobody has looked yet.
VsCooldownPasses(e) ==
    /\ vsCircuit[e] = "open"
    /\ vsCircuit' = [vsCircuit EXCEPT ![e] = "due"]
    /\ UNCHANGED <<vsRegistry, vsHealthGen, vsSession, vsWorker, vsBounds>>

---------------------------------------------------------------------------
\* The routing policy.

\* with_local_policy: ordinary startup, before a session replaces it.
VsStartupPolicy(local) ==
    [generation |-> 0, configured |-> FALSE, session |-> VsNothing,
     preferred |-> <<Min(VsEngines)>>, fallback |-> <<>>, disabled |-> local.disabled]

\* register: the whole policy is replaced and local disablement stays a floor.
VsReplacePolicy(generation, policy) ==
    [generation |-> generation, configured |-> TRUE, session |-> policy,
     preferred  |-> policy.preferred, fallback |-> policy.fallback,
     disabled   |-> policy.disabled \cup vsLocal.disabled]

VsPolicyAccepted(generation, policy) ==
    /\ generation >= vsPolicy.generation
    /\ generation = vsPolicy.generation /\ vsPolicy.configured
         => vsPolicy.session = policy

VsRegisterPolicy(generation, policy) ==
    IF generation = vsPolicy.generation /\ vsPolicy.configured
    THEN vsPolicy
    ELSE VsReplacePolicy(generation, policy)

\* effective_fallback_policy.
VsEffective(policy, base) ==
    [base EXCEPT !.preferred = policy.preferred,
                 !.fallback = IF policy.configured THEN policy.fallback ELSE @]

\* project_inventory and replace_inventory.
VsProject(inventory, disabled) ==
    [e \in VsEngines |->
        [inventory[e] EXCEPT !.available = @ /\ e \notin disabled]]

---------------------------------------------------------------------------
\* The resolver.

VsCanSynthesize(d) == d.available /\ d.health # "failed"

\* find_usable_engine.
VsUsable(inventory, e) ==
    e \in VsEngines /\ ~VsDisabled(e) /\ VsCanSynthesize(inventory[e])

\* ensure_text_supported.
VsEncodes(e, text) == text = "wide" => e \in VsUnicode

\* choose_voice: the matching default voice, then the least id.
VsChooseVoice(d, language) ==
    LET matching == {v \in d.voices : v.available /\ (language # VsAny => v.language = language)}
        default == {v \in matching : v.default}
    IN {v.id : v \in IF default # {} THEN default
                     ELSE {w \in matching : \A x \in matching : w.id <= x.id}}

VsChooseOn(inventory, e, language, text) ==
    IF VsUsable(inventory, e) /\ VsEncodes(e, text)
    THEN {[engine |-> e, voice |-> v] : v \in VsChooseVoice(inventory[e], language)}
    ELSE {}

VsRank(preferred, e) ==
    LET at == {i \in DOMAIN preferred : preferred[i] = e}
    IN IF at = {} THEN Len(preferred) + 1 ELSE Min(at)

\* choose_across_engines: permitted engines in preferred order, then by id.
VsChooseAcross(inventory, language, preferred, text) ==
    LET able == {e \in VsEngines : VsPermitsAutomatic(e)
                                   /\ VsChooseOn(inventory, e, language, text) # {}}
        before(d, e) == \/ VsRank(preferred, d) < VsRank(preferred, e)
                        \/ VsRank(preferred, d) = VsRank(preferred, e) /\ d <= e
        first == {e \in able : \A d \in able : before(e, d)}
    IN UNION {VsChooseOn(inventory, e, language, text) : e \in first}

\* evaluate_selector: the physical voice, or nothing.
VsEvaluate(inventory, selector, preferred, text) ==
    CASE selector.kind = "exact" ->
            IF /\ VsUsable(inventory, selector.engine)
               /\ VsEncodes(selector.engine, text)
               /\ \E v \in inventory[selector.engine].voices :
                    v.id = selector.voice /\ v.available
            THEN {[engine |-> selector.engine, voice |-> selector.voice]}
            ELSE {}
      [] selector.kind = "engine" ->
            VsChooseOn(inventory, selector.engine, selector.language, text)
      [] OTHER -> VsChooseAcross(inventory, selector.language, preferred, text)

VsEngineDefault(e) == [kind |-> "engine", engine |-> e, language |-> VsAny]

VsEngineOf(selector) == IF selector.kind = "properties" THEN VsNone ELSE selector.engine

VsSameLanguage(definition, policy) ==
    LET first == definition.choices[1].selector
    IN IF /\ policy.sameLanguage /\ definition.choices # <<>>
          /\ VsEngineOf(first) # VsNone /\ definition.language # VsAny
       THEN <<[reason |-> "same_language", index |-> 0,
               selector |-> [kind |-> "engine", engine |-> VsEngineOf(first),
                             language |-> definition.language]]>>
       ELSE <<>>

VsDefaults(reason, engines) ==
    [i \in DOMAIN engines |-> [reason |-> reason, index |-> i,
                               selector |-> VsEngineDefault(engines[i])]]

\* resolve_voice_with_permissions: the stages, in the order they are tried.
VsStages(definition, policy) ==
    [i \in DOMAIN definition.choices |->
        [reason |-> "choice", index |-> i, selector |-> definition.choices[i].selector]]
    \o VsSameLanguage(definition, policy)
    \o VsDefaults("preferred", policy.preferred)
    \o (IF policy.global = VsNothing THEN <<>>
        ELSE <<[reason |-> "global", index |-> 0, selector |-> policy.global]>>)
    \o VsDefaults("fallback", policy.fallback)

VsResolve(inventory, definition, policy, text) ==
    LET stages == VsStages(definition, policy)
        found(i) == VsEvaluate(inventory, stages[i].selector, policy.preferred, text)
        works == {i \in DOMAIN stages : found(i) # {}}
    IN IF works = {} THEN VsNothing
       ELSE LET i == Min(works)
            IN [reason |-> stages[i].reason, index |-> stages[i].index,
                realized |-> CHOOSE v \in found(i) : TRUE]

---------------------------------------------------------------------------
\* The style of the choice that won.

VsPatched(patch, value) ==
    CASE patch = VsInherit -> value
      [] patch = VsNone -> VsNone
      [] OTHER -> patch

\* A slip: the offset is replaced and the absolute rate kept.
VsApplyKeepingRate(patch, style) ==
    [pitch  |-> VsPatched(patch.pitch, style.pitch),
     pan    |-> VsPatched(patch.pan, style.pan),
     rate   |-> style.rate,
     offset |-> VsPatched(patch.offset, style.offset)]

\* VoiceStylePatch::apply: a supplied rate offset also clears an absolute rate.
VsApply(patch, style) ==
    [pitch  |-> VsPatched(patch.pitch, style.pitch),
     pan    |-> VsPatched(patch.pan, style.pan),
     rate   |-> IF patch.offset # VsInherit THEN VsNone ELSE style.rate,
     offset |-> VsPatched(patch.offset, style.offset)]

VsNoStyle == [pitch |-> VsNone, pan |-> VsNone, rate |-> VsNone, offset |-> VsNone]
VsInheritAll == [pitch |-> VsInherit, pan |-> VsInherit, offset |-> VsInherit]

\* selected_choice and compose: shared layer, the choice's, the span's.
VsCompose(definition, resolution, context) ==
    LET choice == IF resolution.reason = "choice"
                  THEN definition.choices[resolution.index].adjustments
                  ELSE VsInheritAll
        style == VsApply(context, VsApply(choice, definition.shared))
    IN [pitch |-> style.pitch, pan |-> style.pan,
        rate  |-> IF style.offset \notin {VsNone, 0} THEN <<"offset", style.offset>>
                  ELSE <<"rate", style.rate>>]

\* degrade_for: what the engine does not support is omitted.
VsDegrade(style, e) ==
    [pitch |-> IF "pitch" \in VsDimensions[e] THEN style.pitch ELSE VsNone,
     pan   |-> IF "pan" \in VsDimensions[e] THEN style.pan ELSE VsNone,
     rate  |-> style.rate]

---------------------------------------------------------------------------
\* The command thread.

\* registry_snapshot, first half: the registry's lock.
VsReadRegistry ==
    /\ vsRead = VsNothing
    /\ vsRead' = [generation |-> vsRegistryGen, inventory |-> VsDescriptors]
    /\ UNCHANGED <<vsRegistry, vsHealth, vsPolicy, vsVoice, vsAnswer, vsWorker, vsBounds>>

\* Second half, under the health's lock, then the request is handled with it.
VsSnapshot ==
    /\ vsRead # VsNothing
    /\ vsRead' = VsNothing
    /\ vsCircuit' = VsPromote(VsEngines)
    /\ vsHealthGen' = VsPromoted(VsEngines)

\* inventory_generation: the sum of the three generations.
VsInventory(policy) ==
    [generation |-> vsRead.generation + vsHealthGen' + policy.generation,
     policy     |-> policy,
     engines    |-> VsProject(VsOverlay(vsRead.inventory, vsCircuit'), policy.disabled)]

VsBinding(voice, inventory, policy) ==
    IF voice.definition = VsNothing THEN VsNothing
    ELSE VsResolve(inventory, voice.definition, VsEffective(policy, voice.fallback), "none")

\* The inventory request.
VsTellInventory ==
    /\ VsSnapshot
    /\ vsAnswer' = VsInventory(vsPolicy)
    /\ UNCHANGED <<vsRegistry, vsPolicy, vsVoice, vsWorker, vsBounds>>

\* set_routing_policy: every logical voice is resolved again under it.
VsSetPolicy(generation, policy) ==
    LET next == VsRegisterPolicy(generation, policy)
    IN /\ VsSnapshot
       /\ IF VsPolicyAccepted(generation, policy)
          THEN /\ vsPolicy' = next
               /\ vsAnswer' = VsInventory(next)
               /\ vsVoice' = [vsVoice EXCEPT
                    !.binding = VsBinding(vsVoice, vsAnswer'.engines, next)]
          ELSE UNCHANGED <<vsPolicy, vsAnswer, vsVoice>>
       /\ UNCHANGED <<vsRegistry, vsWorker, vsBounds>>

\* register and replace_definitions: older generations are refused, and other
\* content at the current one.
VsVoiceAccepted(generation, definition, fallback) ==
    /\ generation >= vsVoice.generation
    /\ generation = vsVoice.generation
         => vsVoice.definition = definition /\ vsVoice.fallback = fallback

VsRegistered(generation, definition, fallback) ==
    [generation |-> generation, definition |-> definition, fallback |-> fallback,
     binding |-> VsNothing]

\* register_logical_voices: what is registered is resolved again under the
\* session's policy before it is published.
VsRegister(generation, definition, fallback) ==
    LET next == VsRegistered(generation, definition, fallback)
    IN /\ VsSnapshot
       /\ IF VsVoiceAccepted(generation, definition, fallback)
          THEN /\ vsAnswer' = VsInventory(vsPolicy)
               /\ vsVoice' = [next EXCEPT
                    !.binding = VsBinding(next, vsAnswer'.engines, vsPolicy)]
          ELSE UNCHANGED <<vsAnswer, vsVoice>>
       /\ UNCHANGED <<vsRegistry, vsPolicy, vsWorker, vsBounds>>

\* request_engine_recovery_probe: refused for a disabled engine; a rescan for
\* one that never started, else the next routed request is a probe.
VsRecoveryAllowed(e) == e \notin vsPolicy.disabled

VsRescan(e) ==
    /\ VsRecoveryAllowed(e) /\ ~vsEntry[e].engine
    /\ vsRecoveries < VsMaxRecoveries
    /\ VsSnapshot
    /\ VsRescanStarts(e)
    /\ vsRecoveries' = vsRecoveries + 1
    /\ UNCHANGED <<vsLocal, vsPolicy, vsVoice, vsAnswer, vsWorker, vsFailed, vsBatches>>

\* The rescan's thread cannot be started: it is finished as failed at once.
VsRescanUnstarted(e) ==
    /\ VsRecoveryAllowed(e) /\ ~vsEntry[e].engine
    /\ vsRecoveries < VsMaxRecoveries
    /\ VsSnapshot
    /\ VsCanRescan(e)
    /\ vsEntry' = [vsEntry EXCEPT ![e] = VsFinishRescan(e, FALSE)]
    /\ vsRegistryGen' = vsRegistryGen + 2
    /\ vsRecoveries' = vsRecoveries + 1
    /\ UNCHANGED <<vsLocal, vsPolicy, vsVoice, vsAnswer, vsWorker, vsFailed, vsBatches>>

VsProbe(e) ==
    /\ VsRecoveryAllowed(e) /\ vsEntry[e].engine
    /\ vsRecoveries < VsMaxRecoveries
    /\ vsRead # VsNothing
    /\ vsCircuit[e] \in {"open", "due", "ready"}
    /\ vsRead' = VsNothing
    /\ vsCircuit' = [VsPromote(VsEngines) EXCEPT ![e] = "ready"]
    /\ vsHealthGen' = VsPromoted(VsEngines) + 1
    /\ vsRecoveries' = vsRecoveries + 1
    /\ UNCHANGED <<vsRegistry, vsPolicy, vsVoice, vsAnswer, vsWorker, vsFailed, vsBatches>>

---------------------------------------------------------------------------
\* Dispatch: what a batch routes with is captured now.

\* capture_with_policy; a legacy batch names no logical voice.
VsCapture(definition, text, context) ==
    [definition |-> definition,
     fallback   |-> VsEffective(vsPolicy, vsVoice.fallback),
     disabled   |-> vsPolicy.disabled, only |-> 0, text |-> text, context |-> context]

\* capture_voice_preview and restrict_preview_to_choice: one choice of a
\* private draft, no policy substitute.
VsCaptureChoice(index, text, context) ==
    [definition |-> vsVoice.definition,
     fallback   |-> VsNoFallback,
     disabled   |-> vsPolicy.disabled, only |-> index, text |-> text, context |-> context]

VsCountBatch == vsBatches < VsMaxBatches /\ vsBatches' = vsBatches + 1

VsDispatchVoice(text, context) ==
    /\ vsBatch = VsNothing /\ vsVoice.definition # VsNothing
    /\ vsBatch' = VsCapture(vsVoice.definition, text, context)
    /\ VsCountBatch
    /\ UNCHANGED <<vsRegistry, vsHealth, vsSession, vsWork, vsFailed, vsRecoveries>>

VsDispatchPreview(text, context) ==
    /\ vsBatch = VsNothing /\ vsVoice.definition # VsNothing
    /\ \E i \in DOMAIN vsVoice.definition.choices :
         vsBatch' = VsCaptureChoice(i, text, context)
    /\ VsCountBatch
    /\ UNCHANGED <<vsRegistry, vsHealth, vsSession, vsWork, vsFailed, vsRecoveries>>

VsDispatchLegacy(text) ==
    /\ vsBatch = VsNothing
    /\ vsBatch' = VsCapture(VsNothing, text, VsInheritAll)
    /\ VsCountBatch
    /\ UNCHANGED <<vsRegistry, vsHealth, vsSession, vsWork, vsFailed, vsRecoveries>>

---------------------------------------------------------------------------
\* The worker.

VsIdle == [at |-> "idle", inventory |-> <<>>, route |-> VsNothing, attempt |-> 0]

VsWorkerReads ==
    /\ vsWork.at = "idle" /\ vsBatch # VsNothing
    /\ vsWork' = [vsWork EXCEPT !.at = "read", !.inventory = VsDescriptors]
    /\ UNCHANGED <<vsRegistry, vsHealth, vsSession, vsBatch, vsBounds>>

\* preferred_legacy_engine: the first usable engine of the policy's lists with
\* a handle, else the one the process started with.
VsLegacyEngine(inventory) ==
    LET order == vsBatch.fallback.preferred \o vsBatch.fallback.fallback
        able == {i \in DOMAIN order : /\ order[i] \in VsEngines
                                      /\ VsCanSynthesize(inventory[order[i]])
                                      /\ vsEntry[order[i]].engine}
    IN IF able = {} THEN Min(VsEngines) ELSE order[Min(able)]

\* legacy_voice_for_engine: a selector of another engine's degrades to the
\* engine's own default voice.
VsLegacyVoice(e) ==
    LET found == {v.id : v \in {w \in VsCatalogue[e] : w.default}}
    IN IF found = {} THEN VsNone ELSE Min(found)

\* initial_legacy_route.
VsLegacyDefinition(inventory) ==
    LET e == VsLegacyEngine(inventory)
    IN [language |-> VsAny, shared |-> VsNoStyle,
        choices |-> <<[selector |-> [kind |-> "exact", engine |-> e, voice |-> VsLegacyVoice(e)],
                       adjustments |-> VsInheritAll]>>]

\* The definition the batch resolves, cut to the previewed choice.
VsPreferences(definition) ==
    IF vsBatch.only = 0 THEN definition
    ELSE [definition EXCEPT !.choices = <<@[vsBatch.only]>>]

\* resolve_current_with_text: a previewed choice keeps its own index.
VsResolution(definition, inventory, text) ==
    LET found == VsResolve(inventory, VsPreferences(definition), vsBatch.fallback, text)
    IN IF found = VsNothing \/ vsBatch.only = 0 THEN found
       ELSE [found EXCEPT !.index = vsBatch.only]

\* AttemptStyle::prepare: composed for the choice that won, then degraded for
\* the engine that speaks.
VsAttemptStyle(definition, resolution) ==
    VsDegrade(VsCompose(definition, resolution, vsBatch.context), resolution.realized.engine)

\* route_from_resolution: the handle is the registry's of that moment.
VsRouteFrom(definition, resolution) ==
    IF ~vsEntry[resolution.realized.engine].engine
    THEN [missing |-> resolution.realized.engine]
    ELSE [definition |-> definition,
          realized |-> resolution.realized,
          reason   |-> resolution.reason,
          index    |-> resolution.index,
          style    |-> VsAttemptStyle(definition, resolution)]

\* route_for_text, and resolve_current for no text.
VsRoute(definition, inventory, text) ==
    LET resolution == VsResolution(definition, inventory, text)
    IN IF resolution = VsNothing THEN VsNothing ELSE VsRouteFrom(definition, resolution)

VsRouted(route) == "realized" \in DOMAIN route

\* The batch ends without, or after, a call.
VsGiveUp(inventory, route) ==
    vsWork' = [at |-> "over", inventory |-> inventory, route |-> route, attempt |-> 0]

\* replace_inventory with the health of the moment; then route_for_text.
VsWorkerRoutes ==
    /\ vsWork.at = "read"
    /\ vsCircuit' = VsPromote(VsEngines)
    /\ vsHealthGen' = VsPromoted(VsEngines)
    /\ LET inventory == VsProject(VsOverlay(vsWork.inventory, vsCircuit'), vsBatch.disabled)
           definition == IF vsBatch.definition = VsNothing
                         THEN VsLegacyDefinition(inventory) ELSE vsBatch.definition
           route == VsRoute(definition, inventory, vsBatch.text)
       IN IF VsRouted(route)
          THEN vsWork' = [at |-> "routed", inventory |-> inventory, route |-> route,
                          attempt |-> 1]
          ELSE VsGiveUp(inventory, route)
    /\ UNCHANGED <<vsRegistry, vsSession, vsBatch, vsBounds>>

\* record_runtime_failure, on the batch's own inventory.
VsExclude(inventory, realized, error) ==
    CASE error = "voice" ->
            [inventory EXCEPT ![realized.engine].voices =
                {IF v.id = realized.voice THEN [v EXCEPT !.available = FALSE] ELSE v : v \in @}]
      [] error = "unavailable" -> [inventory EXCEPT ![realized.engine].available = FALSE]
      [] OTHER -> [inventory EXCEPT ![realized.engine].health = "failed"]

\* select_retry and reroute_after_failure: the definition is resolved again
\* against the batch's inventory, whatever the text.
VsReroute(error) ==
    LET inventory == VsExclude(vsWork.inventory, vsWork.route.realized, error)
        route == VsRoute(vsWork.route.definition, inventory, "none")
    IN IF /\ VsRouted(route) /\ vsWork.attempt < VsMaxAttempts
          /\ route.realized # vsWork.route.realized
       THEN vsWork' = [at |-> "routed", inventory |-> inventory, route |-> route,
                       attempt |-> vsWork.attempt + 1]
       ELSE VsGiveUp(inventory, route)

\* acquire: a normal permit or the one recovery probe.  The one worker never finds
\* the engine it routed to open or held; EngineRouting has the refusal.
VsPermit ==
    LET e == vsWork.route.realized.engine
    IN /\ vsWork.at = "routed"
       /\ vsCircuit[e] \in {"closed", "due", "ready"}
       /\ vsCircuit' = [vsCircuit EXCEPT ![e] = IF @ = "closed" THEN @ ELSE "probing"]
       /\ vsHealthGen' = vsHealthGen + CASE vsCircuit[e] = "closed" -> 0
                                         [] vsCircuit[e] = "due" -> 2
                                         [] OTHER -> 1
       /\ vsWork' = [vsWork EXCEPT !.at = "called"]
       /\ UNCHANGED <<vsRegistry, vsSession, vsBatch, vsBounds>>

VsSucceeds ==
    LET e == vsWork.route.realized.engine
    IN /\ vsWork.at = "called"
       /\ VsGiveUp(vsWork.inventory, vsWork.route)
       /\ vsCircuit' = [vsCircuit EXCEPT ![e] = IF @ = "probing" THEN "closed" ELSE @]
       /\ vsHealthGen' = vsHealthGen + (IF vsCircuit[e] = "probing" THEN 1 ELSE 0)
       /\ UNCHANGED <<vsRegistry, vsSession, vsBatch, vsBounds>>

\* The engine's call fails: the circuit opens, and the batch routes around it.
VsFails ==
    LET e == vsWork.route.realized.engine
    IN /\ vsWork.at = "called" /\ vsFailed < VsMaxFailures
       /\ vsFailed' = vsFailed + 1
       /\ vsCircuit' = [vsCircuit EXCEPT ![e] = "open"]
       /\ vsHealthGen' = vsHealthGen + 1
       /\ VsReroute("synthesis")
       /\ UNCHANGED <<vsRegistry, vsSession, vsBatch, vsRecoveries, vsBatches>>

\* The voice is missing: the engine stays healthy and a held probe is released.
VsVoiceMissing ==
    LET e == vsWork.route.realized.engine
    IN /\ vsWork.at = "called" /\ vsFailed < VsMaxFailures
       /\ vsFailed' = vsFailed + 1
       /\ vsCircuit' = [vsCircuit EXCEPT ![e] = IF @ = "probing" THEN "ready" ELSE @]
       /\ vsHealthGen' = vsHealthGen + (IF vsCircuit[e] = "probing" THEN 1 ELSE 0)
       /\ VsReroute("voice")
       /\ UNCHANGED <<vsRegistry, vsSession, vsBatch, vsRecoveries, vsBatches>>

VsWorkerEnds ==
    /\ vsWork.at = "over"
    /\ vsWork' = VsIdle
    /\ vsBatch' = VsNothing
    /\ UNCHANGED <<vsRegistry, vsHealth, vsSession, vsBounds>>

---------------------------------------------------------------------------
VsInit ==
    /\ vsLocal \in VsLocals
    /\ vsEntry = [e \in VsEngines |-> VsInsert(vsLocal, e)]
    /\ vsRegistryGen = Cardinality(VsEngines)
    /\ vsCircuit = [e \in VsEngines |-> "closed"]
    /\ vsHealthGen = 0
    /\ vsPolicy = VsStartupPolicy(vsLocal)
    /\ vsVoice = [generation |-> 0, definition |-> VsNothing, fallback |-> VsNoFallback,
                  binding |-> VsNothing]
    /\ vsRead = VsNothing /\ vsAnswer = VsNothing
    /\ vsBatch = VsNothing /\ vsWork = VsIdle
    /\ vsFailed = 0 /\ vsRecoveries = 0 /\ vsBatches = 0

VsNext ==
    \/ VsReadRegistry
    \/ VsTellInventory
    \/ \E g \in 0..VsMaxGeneration, p \in VsPolicies : VsSetPolicy(g, p)
    \/ \E g \in 1..VsMaxGeneration, d \in VsDefinitions, f \in VsFallbacks :
         VsRegister(g, d, f)
    \/ \E e \in VsEngines : \/ VsRescan(e) \/ VsRescanUnstarted(e) \/ VsProbe(e)
                            \/ VsRescanEnds(e, TRUE) \/ VsRescanEnds(e, FALSE)
                            \/ VsCooldownPasses(e)
    \/ \E t \in {"plain", "wide"}, c \in VsContexts :
         VsDispatchVoice(t, c) \/ VsDispatchPreview(t, c)
    \/ \E t \in {"plain", "wide"} : VsDispatchLegacy(t)
    \/ VsWorkerReads \/ VsWorkerRoutes \/ VsPermit
    \/ VsSucceeds \/ VsFails \/ VsVoiceMissing \/ VsWorkerEnds

VsSpec == VsInit /\ [][VsNext]_vsVars

---------------------------------------------------------------------------
\* An inventory generation names its content: two inventories told under the
\* same generation and the same policy are the same, and a generation never goes
\* back, although registry, health and policy count separately, each under a
\* lock of its own, and a cooldown that has passed is only noticed by a reader.
VsGenerationNamesInventory ==
    [][ vsAnswer' # vsAnswer /\ vsAnswer # VsNothing /\ vsAnswer' # VsNothing
        => /\ vsAnswer'.generation >= vsAnswer.generation
           /\ vsAnswer'.generation = vsAnswer.generation /\ vsAnswer'.policy = vsAnswer.policy
                => vsAnswer'.engines = vsAnswer.engines ]_vsVars

\* The engines a definition or the captured policy names by themselves.
VsNamed(definition) ==
    {VsEngineOf(definition.choices[i].selector) : i \in DOMAIN definition.choices}
    \cup Range(vsBatch.fallback.preferred) \cup Range(vsBatch.fallback.fallback)
    \cup (IF vsBatch.fallback.global = VsNothing THEN {}
          ELSE {VsEngineOf(vsBatch.fallback.global)})

\* Whatever rescans, policies, registrations and failures happen around it, a
\* batch calls an engine whose handle exists, that neither the local
\* configuration nor the policy it was dispatched under disables, that may be
\* chosen without being named or is named, and whose voice this batch has not
\* already seen fail; a previewed choice is never substituted.  No resolution
\* names an engine without a handle: descriptor and handle are published together.
VsRouteIsPermitted ==
    /\ "missing" \notin DOMAIN vsWork.route
    /\ vsWork.at \in {"routed", "called"} =>
        LET e == vsWork.route.realized.engine
        IN /\ vsEntry[e].engine
           /\ e \notin vsLocal.disabled \cup vsBatch.disabled
           /\ e \in vsLocal.explicitOnly => e \in VsNamed(vsWork.route.definition)
           /\ VsCanSynthesize(vsWork.inventory[e])
           /\ vsBatch.only # 0 => /\ vsWork.route.reason = "choice"
                                  /\ vsWork.route.index = vsBatch.only

\* The layer that decides a dimension: the span's patch, the choice's, the
\* shared style, in this order.
VsDecided(layers, base) ==
    LET said == {i \in DOMAIN layers : layers[i] # VsInherit}
    IN IF said = {} THEN base ELSE layers[Min(said)]

\* The style a call uses is that of the choice that is really speaking, however
\* many attempts failed before it: nothing of a failed choice is left in it, an
\* offset set nearer than an absolute rate replaces it, and a substitute that no
\* choice named gets the shared style alone.
VsStyleOfActualChoice ==
    vsWork.at \in {"routed", "called"} =>
        LET route == vsWork.route
            choice == IF route.reason = "choice"
                      THEN route.definition.choices[route.index].adjustments ELSE VsInheritAll
            offset == VsDecided(<<vsBatch.context.offset, choice.offset>>,
                                route.definition.shared.offset)
            supplied == \E patch \in {vsBatch.context, choice} : patch.offset # VsInherit
            dims == VsDimensions[route.realized.engine]
        IN /\ route.style.rate = IF offset \notin {VsNone, 0} THEN <<"offset", offset>>
                                 ELSE <<"rate", IF supplied THEN VsNone
                                                ELSE route.definition.shared.rate>>
           /\ route.style.pitch = IF "pitch" \in dims
                THEN VsDecided(<<vsBatch.context.pitch, choice.pitch>>,
                               route.definition.shared.pitch) ELSE VsNone
           /\ route.style.pan = IF "pan" \in dims
                THEN VsDecided(<<vsBatch.context.pan, choice.pan>>,
                               route.definition.shared.pan) ELSE VsNone

\* docs/protocols/control.md: "If no configured route can preserve the text, the
\* chunk fails explicitly without calling an incapable engine."
CallsPreserveTheText ==
    vsWork.at = "called" => VsEncodes(vsWork.route.realized.engine, vsBatch.text)
=============================================================================

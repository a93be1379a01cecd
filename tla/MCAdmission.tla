---------------------------- MODULE MCAdmission -----------------------------
(* Command admission, the voice package store, the validation of voices, or  *)
(* the resolution of logical voices: the initial state chooses which of them *)
(* runs, and the others stay as they start.  Documents are of every kind:    *)
(* replaceable ones of two domains, ordered ones, multipart ones, and one of *)
(* each fault.                                                               *)
EXTENDS Admission, VoiceInstallation, VoiceOperations, VoiceSelection

CONSTANTS point, line

VARIABLE which

D(kind, gen, domain, fault) ==
    [kind |-> kind, gen |-> gen, domain |-> domain, fault |-> fault]

MCDoc ==
    {D("timeline", g, point, "none") : g \in 1 .. 3}
    \cup {D("timeline", 2, d, "none") : d \in {line, NoDomain}}
    \cup {D("parts", 2, point, "none")}
    \cup {D("tx", g, NoDomain, "none") : g \in {1, 3}}
    \cup {D("letter", 2, NoDomain, "none")}
    \cup {D("timeline", 2, point, f) : f \in Fault \ {"none"}}
    \cup {D("parts", 3, point, "invalid"), D("parts", 3, point, "undecodable")}

-----------------------------------------------------------------------------
(* Voice resolution: three engines, of which the second cannot encode every *)
(* text; logical voices that name a voice, properties or an engine's        *)
(* default; and a policy that prefers an unknown engine.                    *)

MCVsEngines == 1 .. 3

VsOffers(i, l, d) == [id |-> i, language |-> l, default |-> d, available |-> TRUE]
MCVsCatalogue ==
    << {VsOffers(1, "en", FALSE), VsOffers(2, "fr", TRUE)},
       {VsOffers(1, "en", TRUE)},
       {VsOffers(1, "en", TRUE)} >>
MCVsUnicode == {1, 3}
MCVsDimensions == <<{"pitch", "pan"}, {"pan"}, {"pitch"}>>

MCVsLocals ==
    { [disabled |-> {}, explicitOnly |-> {2}, failed |-> {3}],
      [disabled |-> {2}, explicitOnly |-> {}, failed |-> {2}] }

VsAdjusts(p, a, o) == [pitch |-> p, pan |-> a, offset |-> o]
VsExactly(e, v) == [kind |-> "exact", engine |-> e, voice |-> v]
VsLike(l) == [kind |-> "properties", language |-> l]

MCVsContexts == {VsAdjusts(VsInherit, 3, VsInherit)}
MCVsDefinitions ==
    { [language |-> "en",
       shared |-> [pitch |-> 1, pan |-> 1, rate |-> 5, offset |-> VsNone],
       choices |-> << [selector |-> VsExactly(1, 2), adjustments |-> VsAdjusts(2, VsInherit, 4)],
                      [selector |-> VsLike("en"), adjustments |-> VsAdjusts(VsInherit, VsNone, VsNone)] >>],
      [language |-> VsAny,
       shared |-> [pitch |-> VsNone, pan |-> VsNone, rate |-> VsNone, offset |-> 2],
       choices |-> << [selector |-> VsEngineDefault(3), adjustments |-> VsInheritAll] >>] }

MCVsFallbacks ==
    {[preferred |-> <<3>>, sameLanguage |-> TRUE, global |-> VsExactly(3, 1), fallback |-> <<2>>]}
MCVsPolicies == {[preferred |-> <<VsUnknown, 3>>, fallback |-> <<2>>, disabled |-> {1}]}

-----------------------------------------------------------------------------
Blank == 0

VsBlank ==
    /\ vsLocal = Blank /\ vsEntry = Blank /\ vsRegistryGen = Blank /\ vsCircuit = Blank
    /\ vsHealthGen = Blank /\ vsPolicy = Blank /\ vsVoice = Blank /\ vsRead = Blank
    /\ vsAnswer = Blank /\ vsBatch = Blank /\ vsWork = Blank /\ vsFailed = Blank
    /\ vsRecoveries = Blank /\ vsBatches = Blank

StoreOrAdmissionInit ==
    /\ which \in {"admission", "installation", "operations", "selection"}
    /\ Init /\ InstallationInit /\ OperationsInit
    /\ IF which = "selection" THEN VsInit ELSE VsBlank

StoreOrAdmissionNext ==
    /\ UNCHANGED which
    /\ IF which = "admission" THEN Next ELSE UNCHANGED vars
    /\ IF which = "installation" THEN InstallationNext ELSE UNCHANGED installationVars
    /\ IF which = "operations" THEN OperationsNext ELSE UNCHANGED operationVars
    /\ IF which = "selection" THEN VsNext ELSE UNCHANGED vsVars

StoreOrAdmissionSpec ==
    StoreOrAdmissionInit
    /\ [][StoreOrAdmissionNext]_<<which, vars, installationVars, operationVars, vsVars>>

(* Voice resolution alone. *)
SelectionAlone ==
    /\ which = "selection" /\ StoreOrAdmissionInit
    /\ [][StoreOrAdmissionNext]_<<which, vars, installationVars, operationVars, vsVars>>

-----------------------------------------------------------------------------
(* Of voice resolution: a route is permitted by the inventory and policy it *)
(* was resolved under, and the style is that of the choice actually made.   *)
SelectionSound == which = "selection" => VsRouteIsPermitted /\ VsStyleOfActualChoice
=============================================================================

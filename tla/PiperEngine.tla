---------------------------- MODULE PiperEngine ----------------------------
(***************************************************************************)
(* The Piper adapter: one native model is resident at a time, under the    *)
(* state lock.  A call finds its voice's binding, waits for the lock, and  *)
(* brings the binding's model in; a model that failed to load is never     *)
(* tried again by this helper.  The synthesis loop draws chunks from       *)
(* libpiper and sees a cancellation between them.                          *)
(*                                                                         *)
(* A chunk is a record of who spoke it: the model, the speaker and the     *)
(* call whose text it is.                                                  *)
(***************************************************************************)
EXTENDS Naturals, Sequences, FiniteSets

CONSTANTS
    PiCall,        \* calls
    PiModels,      \* model indexes
    PiRequests,    \* a set of: call -> [voice, stream, empty, chunks]
    PiVoices,      \* enabled voices: id -> [model, speaker]
    PiSpeakers,    \* model -> its speaker count
    PiLimit,       \* MAX_NATIVE_SAMPLES, in chunks
    PiMaxStops     \* bound on stops

VARIABLES
    piRequest,     \* call -> its request
    piStage,       \* call -> idle, bound, locked, checked, prepared, drawing, ended
    piResult,      \* call -> none, ok, error
    piHeard,       \* call -> chunks its caller was given
    piState,       \* ResidentModel: the model index, or none
    piLock,        \* holder of the state lock
    piFailed,      \* failed_models
    piLoads,       \* model -> load attempts that failed
    piStop,        \* cancel_requested
    piStops,       \* stops so far
    piTokens,      \* calls whose request token is cancelled
    piNative       \* what the resident synthesizer has still to say

piVars == <<piRequest, piStage, piResult, piHeard, piState, piLock, piFailed, piLoads, piStop,
            piStops, piTokens, piNative>>

PiNobody == 0
PiNoModel == 0

ASSUME PiperAssumption ==
    /\ PiNobody \notin PiCall /\ PiNoModel \notin PiModels /\ PiLimit \in Nat
    /\ PiRequests \subseteq
         [PiCall -> [voice : STRING, stream : BOOLEAN, empty : BOOLEAN, chunks : Nat]]
    /\ \A v \in DOMAIN PiVoices : PiVoices[v] \in [model : PiModels, speaker : Nat]
    /\ PiSpeakers \in [PiModels -> Nat] /\ PiMaxStops \in Nat

PiInit ==
    /\ piRequest \in PiRequests
    /\ piStage = [c \in PiCall |-> "idle"]
    /\ piResult = [c \in PiCall |-> "none"]
    /\ piHeard = [c \in PiCall |-> <<>>]
    /\ piState = PiNoModel
    /\ piLock = PiNobody
    /\ piFailed = {}
    /\ piLoads = [m \in PiModels |-> 0]
    /\ piStop = FALSE
    /\ piStops = 0
    /\ piTokens = {}
    /\ piNative = <<>>

PiCancelled(c) == piStop \/ c \in piTokens
PiVoice(c) == PiVoices[piRequest[c].voice]

\* binding: the voice is enabled in this helper and its model has not
\* failed.
PiBinds(c) ==
    /\ piRequest[c].voice \in DOMAIN PiVoices
    /\ PiVoice(c).model \notin piFailed

PiEnds(c, result) ==
    /\ piStage' = [piStage EXCEPT ![c] = "ended"]
    /\ piResult' = [piResult EXCEPT ![c] = result]
    /\ piLock' = IF piLock = c THEN PiNobody ELSE piLock

\* Up to the state lock; the flag of stop() is not looked at yet.
PiEnter(c) ==
    /\ piStage[c] = "idle"
    /\ \/ /\ ~PiBinds(c) \/ c \in piTokens
          /\ PiEnds(c, "error")
       \/ /\ PiBinds(c) /\ c \notin piTokens
          /\ piRequest[c].empty
          /\ PiEnds(c, "ok")
       \/ /\ PiBinds(c) /\ c \notin piTokens
          /\ ~piRequest[c].empty
          /\ piStage' = [piStage EXCEPT ![c] = "bound"]
          /\ UNCHANGED <<piResult, piLock>>
    /\ UNCHANGED <<piHeard, piState, piFailed, piLoads, piStop, piNative>>

PiAcquire(c) ==
    /\ piStage[c] = "bound"
    /\ piLock = PiNobody
    /\ piLock' = c
    /\ piStage' = [piStage EXCEPT ![c] = "locked"]
    /\ UNCHANGED <<piResult, piHeard, piState, piFailed, piLoads, piStop, piNative>>

------------------------------
\* prepare_model.  The binding is looked up again, then the flag is
\* cleared for this call.
PiStillEnabled(c) == piRequest[c].voice \in DOMAIN PiVoices
PiStillBound(c) == PiBinds(c)

PiPrepare(c) ==
    /\ piStage[c] = "locked"
    /\ \/ /\ ~PiStillBound(c)
          /\ PiEnds(c, "error")
          /\ UNCHANGED piStop
       \/ /\ PiStillBound(c)
          /\ piStop' = FALSE
          /\ piStage' = [piStage EXCEPT ![c] = "cleared"]
          /\ UNCHANGED <<piResult, piLock>>
    /\ UNCHANGED <<piHeard, piState, piFailed, piLoads, piNative>>

PiAnyResident(c) == piState # PiNoModel
PiResident(c) == piState = PiVoice(c).model

\* The resident model is dropped before another is loaded.
PiEvict(c) ==
    /\ piStage[c] = "cleared"
    /\ \/ /\ PiCancelled(c)
          /\ PiEnds(c, "error")
          /\ UNCHANGED <<piState, piNative>>
       \/ /\ ~PiCancelled(c)
          /\ piStage' = [piStage EXCEPT ![c] = IF PiResident(c) THEN "ready"
                                               ELSE "loading"]
          /\ piState' = IF PiResident(c) THEN piState ELSE PiNoModel
          /\ piNative' = IF PiResident(c) THEN piNative ELSE <<>>
          /\ UNCHANGED <<piResult, piLock>>
    /\ UNCHANGED <<piHeard, piFailed, piLoads, piStop>>

\* ModelSpec::load: every enabled speaker must exist.  Reading, verifying
\* the hashes and creating the synthesizer may fail besides.
PiLoadable(m) ==
    \A v \in DOMAIN PiVoices : PiVoices[v].model = m => PiVoices[v].speaker < PiSpeakers[m]

PiLoad(c) ==
    /\ piStage[c] = "loading"
    /\ \/ /\ PiCancelled(c)
          /\ PiEnds(c, "error")
          /\ UNCHANGED <<piState, piFailed, piLoads>>
       \/ /\ ~PiCancelled(c) /\ PiLoadable(PiVoice(c).model)
          /\ piState' = PiVoice(c).model
          /\ piStage' = [piStage EXCEPT ![c] = "ready"]
          /\ UNCHANGED <<piResult, piLock, piFailed, piLoads>>
       \/ /\ ~PiCancelled(c)
          /\ piFailed' = piFailed \cup {PiVoice(c).model}
          /\ piLoads' = [piLoads EXCEPT ![PiVoice(c).model] = @ + 1]
          /\ PiEnds(c, "error")
          /\ UNCHANGED piState
    /\ UNCHANGED <<piHeard, piStop, piNative>>

------------------------------
\* libpiper is started with the call's text and speaker; starting drops
\* what an abandoned utterance left.
PiStart(c) ==
    /\ piStage[c] = "ready"
    /\ \/ /\ PiEnds(c, "error")                     \* cancelled, or the start refused
          /\ UNCHANGED piNative
       \/ /\ ~PiCancelled(c)
          /\ piNative' = [i \in 1..piRequest[c].chunks |->
                            [model |-> piState, speaker |-> PiVoice(c).speaker, call |-> c]]
          /\ piStage' = [piStage EXCEPT ![c] = "drawing"]
          /\ UNCHANGED <<piResult, piLock>>
    /\ UNCHANGED <<piHeard, piState, piFailed, piLoads, piStop>>

\* An aborted buffered call returns nothing; a stream keeps what it sent.
PiKept(c) == IF piRequest[c].stream THEN piHeard[c] ELSE <<>>
PiAborts(c) ==
    /\ piHeard' = [piHeard EXCEPT ![c] = PiKept(c)]
    /\ PiEnds(c, "error")
    /\ UNCHANGED piNative

PiDraw(c) ==
    /\ piStage[c] = "drawing"
    /\ \/ PiAborts(c)                    \* cancelled, a native failure, a refused window
       \/ /\ ~PiCancelled(c) /\ piNative # <<>>
          /\ Len(piHeard[c]) < PiLimit
          /\ piHeard' = [piHeard EXCEPT ![c] = Append(@, Head(piNative))]
          /\ piNative' = Tail(piNative)
          /\ UNCHANGED <<piStage, piResult, piLock>>
       \/ /\ ~PiCancelled(c) /\ piNative = <<>>
          /\ PiEnds(c, "ok")
          /\ UNCHANGED <<piHeard, piNative>>
    /\ UNCHANGED <<piState, piFailed, piLoads, piStop>>

PiCallStep(c) ==
    /\ \/ PiEnter(c) \/ PiAcquire(c) \/ PiPrepare(c) \/ PiEvict(c) \/ PiLoad(c)
       \/ PiStart(c) \/ PiDraw(c)
    /\ UNCHANGED <<piRequest, piStops, piTokens>>

\* stop only raises the flag; the host cancels a request's own token.
PiStopEngine ==
    /\ piStops < PiMaxStops
    /\ piStops' = piStops + 1
    /\ piStop' = TRUE
    /\ UNCHANGED <<piRequest, piStage, piResult, piHeard, piState, piLock, piFailed, piLoads,
                   piTokens, piNative>>
PiCancelToken(c) ==
    /\ piStage[c] \notin {"idle", "ended"}
    /\ piTokens' = piTokens \cup {c}
    /\ UNCHANGED <<piRequest, piStage, piResult, piHeard, piState, piLock, piFailed, piLoads,
                   piStop, piStops, piNative>>

PiNext ==
    \/ \E c \in PiCall : PiCallStep(c) \/ PiCancelToken(c)
    \/ PiStopEngine

PiSpec == PiInit /\ [][PiNext]_piVars

------------------------------
\* What a call hears is its own text, spoken by its voice's model and
\* speaker, though one synthesizer serves every voice and an aborted
\* utterance leaves it half drawn.
SpokenByItsVoice ==
    \A c \in PiCall : \A i \in DOMAIN piHeard[c] :
        piHeard[c][i] = [model |-> PiVoice(c).model, speaker |-> PiVoice(c).speaker, call |-> c]

\* A model that failed to load is not tried again, also by a call that
\* found its binding before the failure and waited for the lock since.
FailedModelStaysFailed == \A m \in PiModels : piLoads[m] <= 1
=============================================================================

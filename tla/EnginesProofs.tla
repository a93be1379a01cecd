---------------------------- MODULE EnginesProofs ----------------------------
(***************************************************************************)
(* The routing of requests to engines, for any engines, voices and         *)
(* preferences: the fallback loop, the circuit breakers and their probes.  *)
(* The native engines: the macOS engine's captures, for any buffers and    *)
(* rings, the MBROLA helper's calls, for any number of them, and Piper's   *)
(* resident model, for any voices and models.                              *)
(***************************************************************************)
EXTENDS MCEngines, FiniteSetTheorems, WellFoundedInduction, TLAPS

------------------------------
(* Routing: the inductive invariant *)

WorkerType ==
    [pc : {"idle", "chunk", "attempt", "permitted", "prepared", "entering", "acquiring",
           "leased", "native", "returned"},
     gen : 0 .. MaxGeneration, chunk : 0 .. MaxChunks, voice : Voice \cup {NoVoice},
     attempt : 0 .. MaxAttempts, permit : {"none", "normal", "probe"},
     seen : (0 .. MaxGeneration) \X (0 .. MaxGeneration), committed : BOOLEAN,
     output_failed : BOOLEAN, result : NativeResult \cup {"none"}]

\* Where the worker stands: with a permit, past the last staleness check, and with
\* a slot that it may not have used yet.
Permitted == {"permitted", "prepared", "entering", "acquiring", "leased", "native", "returned"}
InCall == {"acquiring", "leased", "native", "returned"}
Unstarted == {"prepared", "entering", "acquiring", "leased"}

RoutingTypeOK ==
    /\ gen_counter \in 0 .. MaxGeneration
    /\ stop_epoch \in [Engine -> 0 .. MaxGeneration]
    /\ slot \in [Engine -> {"free", "held", "abandoned"}]
    /\ recover \in [Engine -> BOOLEAN]
    /\ stopping \subseteq Engine
    /\ inbox \in Seq(0 .. MaxGeneration)
    /\ submitted \in 0 .. MaxRequests
    /\ circuit \in [Engine -> Circuit]
    /\ superseded \in BOOLEAN
    /\ excluded \subseteq Voice
    /\ w \in WorkerType
    /\ tried \in Seq(Voice)
    /\ heard \subseteq 0 .. MaxAttempts
    /\ faulted \subseteq Engine /\ failing \subseteq Engine
    /\ reconnected \in BOOLEAN

\* The attempt in hand, if there is one.
Attempting ==
    /\ w.pc \in {"idle", "chunk"} => w.permit = "none"
    /\ w.pc = "chunk" => w.chunk < MaxChunks
    /\ w.pc \notin {"idle", "chunk"} => w.voice \in Voice \ excluded /\ w.attempt \in 1 .. MaxAttempts
    /\ w.pc = "attempt" => w.permit = "none"
    /\ w.pc \in Permitted => w.permit # "none"

\* While an interrupt stops the engines, every request there is is obsolete; a call
\* of a request that is not has seen what is current.
InterruptsReach ==
    /\ \A e \in Engine : stop_epoch[e] <= gen_counter
                         /\ (e \in stopping => stop_epoch[e] < gen_counter)
    /\ \A i \in 1 .. Len(inbox) : /\ inbox[i] <= gen_counter
                                  /\ stopping # {} => inbox[i] < gen_counter
    /\ w.gen <= gen_counter
    /\ Busy /\ stopping # {} => w.gen < gen_counter
    /\ w.pc \in InCall /\ w.gen = gen_counter
          => w.seen[1] = gen_counter /\ w.seen[2] = stop_epoch[eng]

\* The probe of the current attempt, and no other.
ProbeHeld ==
    /\ \A e \in Engine : circuit[e] = "probing" => w.permit = "probe" /\ eng = e
    /\ w.permit = "probe" => circuit[eng] = "probing"

\* A recovery is asked for before the call and consumed by it.
Recovers ==
    /\ \A e \in Engine : recover[e] => circuit[e] # "closed"
    /\ w.permit = "probe" /\ w.pc \in Unstarted => recover[eng]
    /\ w.pc = "native" => ~recover[eng] /\ (w.permit = "probe" => reconnected)
    /\ w.pc = "returned" /\ w.result = "ok" => ~recover[eng]

\* A failure is the engine's, the output's, or of a request that is obsolete.
Blame ==
    /\ \A e \in Engine : circuit[e] # "closed" => e \in faulted
    /\ w.pc = "returned" /\ w.result = "failed"
          => eng \in faulted \/ w.output_failed \/ Stale

\* Nothing is heard of an attempt that may be followed by another.
HeardOnce ==
    /\ \A a, b \in heard : a = b
    /\ w.pc \notin {"idle", "chunk"} => \A a \in heard : a = w.attempt
    /\ w.pc \notin {"idle", "chunk"} /\ ~w.committed => heard = {}
    /\ w.pc \in {"chunk", "attempt", "permitted"} => ~w.committed

\* What was tried is excluded, but for the current voice; so is an engine that
\* failed, unless its circuit tells.
TriedOnce ==
    /\ Len(tried) <= MaxAttempts
    /\ w.pc = "attempt" => Len(tried) < w.attempt
    /\ w.pc \in Permitted => Len(tried) <= w.attempt
    /\ \A i, j \in 1 .. Len(tried) : tried[i] = tried[j] => i = j
    /\ w.pc = "attempt" => \A i \in 1 .. Len(tried) : tried[i] \in excluded
    /\ w.pc \in Permitted => \A i \in 1 .. Len(tried) : tried[i] \in excluded \cup {w.voice}
    /\ \A e \in failing : circuit[e] # "closed" \/ \A v \in Voice : EngineOf[v] = e => v \in excluded
    /\ w.pc \in Permitted /\ eng \in failing => w.permit = "probe"

RoutingInv ==
    /\ RoutingTypeOK /\ Attempting /\ InterruptsReach /\ ProbeHeld /\ Recovers /\ Blame
    /\ HeardOnce /\ TriedOnce

------------------------------
(* Which voice comes first *)

\* Numbers, if there are any, have a least one: the sets of the smaller ones are
\* finite, and strict inclusion of finite sets is well founded.
LEMMA LeastNumber ==
    ASSUME NEW S, S \subseteq Nat, S # {}
    PROVE  \E k \in S : \A j \in S : k <= j
<1> DEFINE Below(k) == {j \in S : j < k}
           Sets == {A \in SUBSET Nat : \E k \in S : A = Below(k)}
           Smaller == StrictSubsetOrdering(Nat)
<1>1. ASSUME NEW k \in Nat
      PROVE  Below(k) \in SUBSET Nat /\ Below(k) \in FiniteSubsetsOf(Nat)
  <2>1. Below(k) \in SUBSET Nat
    OBVIOUS
  <2>2. \A j \in Below(k) : j <= k
    OBVIOUS
  <2> HIDE DEF Below
  <2>3. IsFiniteSet(Below(k))
    BY <2>1, <2>2, FS_BoundedSetOfNaturals
  <2> QED BY <2>1, <2>3 DEF FiniteSubsetsOf
<1> HIDE DEF Below
<1>2. Sets \subseteq FiniteSubsetsOf(Nat) /\ Sets # {}
  BY <1>1
<1>3. IsWellFoundedOn(Smaller, FiniteSubsetsOf(Nat))
  BY FS_StrictSubsetOrderingWellFounded
<1>4. PICK B \in Sets : \A A \in Sets : <<A, B>> \notin Smaller
  <2> HIDE DEF Sets, Smaller
  <2> QED BY <1>2, <1>3, WFMin
<1>5. PICK k \in S : B = Below(k)
  OBVIOUS
<1>6. ASSUME NEW j \in S, j < k
      PROVE  FALSE
  <2>1. j \in Nat /\ k \in Nat
    OBVIOUS
  <2>2. Below(j) \in Sets
    BY <1>1, <2>1
  <2>3. Below(j) \subseteq Below(k) /\ j \in Below(k) /\ j \notin Below(j)
    <3>1. \A i \in S : i < j => i < k
      BY <1>6, <2>1
    <3>2. ~(j < j)
      BY <2>1
    <3>3. Below(j) \subseteq Below(k)
      BY <3>1 DEF Below
    <3>4. j \in Below(k)
      BY <1>6 DEF Below
    <3>5. j \notin Below(j)
      BY <3>2 DEF Below
    <3> QED BY <3>3, <3>4, <3>5
  <2>4. <<Below(j), B>> \in Smaller
    BY <1>1, <1>5, <2>1, <2>3 DEF StrictSubsetOrdering
  <2> QED BY <1>4, <2>2, <2>4
<1>7. \A j \in S : k <= j
  <2> SUFFICES ASSUME NEW j \in S PROVE k <= j
    OBVIOUS
  <2>1. j \in Nat /\ k \in Nat /\ ~(j < k)
    BY <1>6
  <2> QED BY <2>1
<1> QED BY <1>7

\* The resolver's choice is a voice that is still offered.
LEMMA PreferredIsOffered ==
    ASSUME RoutingAssumption, NEW out, Candidates(out) # {}
    PROVE  Preferred(out) \in Voice \ out
<1>1. Candidates(out) \subseteq Nat
  BY DEF RoutingAssumption, Candidates
<1>2. \E k \in Candidates(out) : \A j \in Candidates(out) : k <= j
  BY <1>1, LeastNumber
<1>3. PICK k \in Candidates(out) : Preferred(out) = Order[k]
  BY <1>2 DEF Preferred
<1> QED BY <1>3 DEF Candidates, Voice, Range

\* The current route has an engine, and its voice has not been given up.
LEMMA RouteHasEngine ==
    ASSUME RoutingAssumption, RoutingInv, w.pc \notin {"idle", "chunk"}
    PROVE  /\ eng \in Engine /\ w.voice \in Voice /\ w.voice \notin excluded
           /\ w.attempt \in 1 .. MaxAttempts /\ w.chunk \in 0 .. MaxChunks
           /\ w.gen \in 0 .. MaxGeneration
           /\ MaxAttempts \in Nat /\ MaxChunks \in Nat /\ MaxGeneration \in Nat
BY DEF RoutingAssumption, RoutingInv, RoutingTypeOK, WorkerType, Attempting, eng

\* A worker without a request.
LEMMA IdleWorker ==
    ASSUME RoutingAssumption
    PROVE  /\ Idle \in WorkerType /\ Idle.pc = "idle" /\ Idle.permit = "none"
           /\ Idle.gen = 0 /\ Idle.chunk = 0 /\ Idle.committed = FALSE
BY DEF Idle, WorkerType, RoutingAssumption

------------------------------
(* The worker leaves an attempt, for another one or for good *)

Left == /\ gen_counter' = gen_counter /\ stop_epoch' = stop_epoch /\ slot' = slot
        /\ recover' = recover /\ stopping' = stopping /\ inbox' = inbox
        /\ submitted' = submitted /\ superseded' = superseded /\ tried' = tried
        /\ faulted' = faulted /\ reconnected' = reconnected

NextChunk == [Idle EXCEPT !.pc = "chunk", !.gen = w.gen, !.chunk = w.chunk]

Retried(v) == [w EXCEPT !.pc = "attempt", !.attempt = @ + 1, !.voice = v, !.permit = "none",
                        !.result = "none", !.committed = FALSE]

LEMMA AttemptOver ==
    ASSUME RoutingAssumption, RoutingInv, w.pc \notin {"idle", "chunk"}, Left,
           excluded \subseteq excluded', excluded' \subseteq Voice,
           NEW c \in Circuit \ {"probing"}, circuit' = [circuit EXCEPT ![eng] = c],
           c # "closed" => eng \in faulted, c = "closed" => ~recover[eng],
           failing' \subseteq failing \cup {eng},
           eng \in failing' => c # "closed"
                               \/ \A v \in Voice : EngineOf[v] = eng => v \in excluded',
           heard' \subseteq {w.attempt},
           \/ w' = Idle
           \/ w' = NextChunk /\ w.chunk < MaxChunks
           \/ /\ heard' = {} /\ w.attempt # MaxAttempts /\ w.voice \in excluded'
              /\ \E v \in Voice \ excluded' : w' = Retried(v)
    PROVE  RoutingInv'
<1>1. /\ eng \in Engine /\ w.voice \in Voice /\ w.voice \notin excluded
      /\ w.attempt \in 1 .. MaxAttempts /\ w.chunk \in 0 .. MaxChunks
      /\ w.gen \in 0 .. MaxGeneration /\ w \in WorkerType
      /\ MaxAttempts \in Nat /\ MaxChunks \in Nat /\ MaxGeneration \in Nat
  BY RouteHasEngine DEF RoutingInv, RoutingTypeOK
<1>2. PICK x : x = eng
  OBVIOUS
<1>3. circuit' \in [Engine -> Circuit] /\ circuit'[x] = c
      /\ \A e \in Engine : e # x => circuit'[e] = circuit[e]
  BY <1>1, <1>2 DEF RoutingInv, RoutingTypeOK
<1>5. /\ w' \in WorkerType /\ w'.permit = "none"
      /\ w'.pc \in {"idle", "chunk", "attempt"}
      /\ w'.pc # "idle" => w'.gen = w.gen
      /\ w'.pc = "idle" => w'.gen = 0
      /\ w'.pc = "chunk" => w'.chunk < MaxChunks /\ w'.committed = FALSE
      /\ w'.pc = "attempt" => /\ w'.voice \in Voice \ excluded' /\ w.voice \in excluded'
                              /\ w'.attempt = w.attempt + 1 /\ w'.attempt \in 1 .. MaxAttempts
                              /\ w'.committed = FALSE /\ heard' = {}
  <2>1. CASE w' = Idle
    BY <1>1, <2>1, IdleWorker
  <2>2. CASE w' = NextChunk /\ w.chunk < MaxChunks
    <3>1. NextChunk \in WorkerType /\ NextChunk.pc = "chunk" /\ NextChunk.permit = "none"
          /\ NextChunk.gen = w.gen /\ NextChunk.chunk = w.chunk
          /\ NextChunk.committed = FALSE
      BY <1>1, IdleWorker DEF NextChunk, WorkerType
    <3> QED BY <2>2, <3>1
  <2>3. CASE /\ heard' = {} /\ w.attempt # MaxAttempts /\ w.voice \in excluded'
             /\ \E v \in Voice \ excluded' : w' = Retried(v)
    <3>1. PICK v \in Voice \ excluded' : w' = Retried(v)
      BY <2>3
    <3>2. w.attempt + 1 \in 1 .. MaxAttempts
      BY <1>1, <2>3
    <3>3. Retried(v) \in WorkerType
      <4>1. PICK n \in 0 .. MaxAttempts : n = w.attempt + 1
        BY <3>2
      <4>2. [w EXCEPT !.pc = "attempt", !.attempt = n, !.voice = v] \in WorkerType
        BY <1>1 DEF WorkerType
      <4> QED BY ZenonT(60), <4>1, <4>2 DEF Retried, WorkerType
    <3>4. /\ Retried(v).pc = "attempt" /\ Retried(v).permit = "none"
          /\ Retried(v).gen = w.gen /\ Retried(v).voice = v
          /\ Retried(v).attempt = w.attempt + 1 /\ Retried(v).committed = FALSE
      BY <1>1 DEF Retried, WorkerType
    <3> QED BY <2>3, <3>1, <3>2, <3>3, <3>4
  <2> QED BY <2>1, <2>2, <2>3
<1>6. RoutingTypeOK'
  BY SMTT(60), <1>1, <1>2, <1>3, <1>5 DEF RoutingInv, RoutingTypeOK, Left
<1>7. Attempting'
  BY <1>5 DEF Attempting, Permitted
<1>8. InterruptsReach'
  <2>1. gen_counter \in Nat /\ w'.gen <= gen_counter
    BY <1>1, <1>5 DEF RoutingInv, RoutingTypeOK, InterruptsReach
  <2>2. (w'.pc # "idle" /\ stopping # {}) => w'.gen < gen_counter
    BY <1>5 DEF RoutingInv, InterruptsReach, Busy
  <2>3. w'.pc \notin InCall
    BY <1>5 DEF InCall
  <2> QED BY <2>1, <2>2, <2>3 DEF RoutingInv, InterruptsReach, Left, Busy
<1>9. ProbeHeld'
  BY <1>2, <1>3, <1>5 DEF RoutingInv, ProbeHeld
<1>10. Recovers'
  BY <1>2, <1>3, <1>5 DEF RoutingInv, Recovers, Left, Unstarted
<1>11. Blame'
  BY <1>2, <1>3, <1>5 DEF RoutingInv, Blame, Left
<1>12. HeardOnce'
  BY <1>5 DEF HeardOnce
<1>13. TriedOnce'
  <2>1. tried \in Seq(Voice) /\ Len(tried) \in Nat
    BY DEF RoutingInv, RoutingTypeOK
  <2>2. Len(tried) <= w.attempt /\ \A i \in 1 .. Len(tried) : tried[i] \in excluded \cup {w.voice}
    BY <1>1, <2>1 DEF RoutingInv, TriedOnce, WorkerType, Permitted
  <2>3. \A e \in failing' : circuit'[e] # "closed"
                            \/ \A v \in Voice : EngineOf[v] = e => v \in excluded'
    <3>1. ASSUME NEW e \in failing', e # x
          PROVE  circuit'[e] # "closed" \/ \A v \in Voice : EngineOf[v] = e => v \in excluded'
      <4>1. e \in failing /\ e \in Engine
        BY <1>2, <3>1 DEF RoutingInv, RoutingTypeOK
      <4> QED BY <1>3, <3>1, <4>1 DEF RoutingInv, TriedOnce
    <3> QED BY <1>2, <1>3, <3>1
  <2>4. w'.pc \notin Permitted
    BY <1>5 DEF Permitted
  <2> QED BY SMTT(60), <1>1, <1>5, <2>1, <2>2, <2>3, <2>4 DEF RoutingInv, TriedOnce, Left
<1> QED BY <1>6, <1>7, <1>8, <1>9, <1>10, <1>11, <1>12, <1>13 DEF RoutingInv

\* A chunk that is over is followed by the next one, if there is one.
LEMMA ChunkOver ==
    ASSUME RoutingAssumption, RoutingInv, w.pc \notin {"idle", "chunk"}, NEW outcome,
           EndChunk(outcome)
    PROVE  w' = Idle \/ (w' = NextChunk /\ w.chunk < MaxChunks)
BY RouteHasEngine DEF EndChunk, NextChunk

\* The fallback is a voice that is still offered, and not the one that failed.
LEMMA FallbackOver ==
    ASSUME RoutingAssumption, RoutingInv, w.pc \notin {"idle", "chunk"}, NEW error,
           SelectRetry(error)
    PROVE  /\ excluded \subseteq excluded' /\ excluded' \subseteq Voice
           /\ error \notin {"voice_not_found", "invalid"}
                => \A v \in Voice : EngineOf[v] = eng => v \in excluded'
           /\ \/ w' = Idle
              \/ w' = NextChunk /\ w.chunk < MaxChunks
              \/ /\ w.attempt # MaxAttempts /\ w.voice \in excluded'
                 /\ \E v \in Voice \ excluded' : w' = Retried(v)
<1>1. PICK out : out = excluded \cup ExcludedBy(error)
  OBVIOUS
<1>2. /\ excluded' = out
      /\ IF w.attempt = MaxAttempts \/ error = "invalid" \/ Candidates(out) = {}
         THEN EndChunk("failed") ELSE w' = Retried(Preferred(out))
  BY <1>1 DEF SelectRetry, Retried
<1>3. /\ excluded \subseteq out /\ out \subseteq Voice
      /\ error # "invalid" => w.voice \in out
      /\ error \notin {"voice_not_found", "invalid"}
            => \A v \in Voice : EngineOf[v] = eng => v \in out
  BY <1>1, RouteHasEngine DEF ExcludedBy, eng, RoutingInv, RoutingTypeOK
<1>4. CASE w.attempt = MaxAttempts \/ error = "invalid" \/ Candidates(out) = {}
  BY <1>2, <1>3, <1>4, ChunkOver
<1>5. CASE w.attempt # MaxAttempts /\ error # "invalid" /\ Candidates(out) # {}
  <2>1. Preferred(out) \in Voice \ out
    BY <1>5, PreferredIsOffered
  <2> QED BY <1>2, <1>3, <1>5, <2>1
<1> QED BY <1>4, <1>5

\* A permit is given back: the circuit is as before, or ready for another probe.
LEMMA ProbeReleased ==
    ASSUME RoutingAssumption, RoutingInv, w.pc \notin {"idle", "chunk"},
           ReleaseProbe \/ (w.permit = "none" /\ circuit' = circuit)
    PROVE  \E c \in Circuit \ {"probing"} :
              /\ circuit' = [circuit EXCEPT ![eng] = c]
              /\ c # "closed" => eng \in faulted
              /\ c = "closed" => ~recover[eng]
              /\ eng \in failing => c # "closed"
<1>1. PICK x : x = eng
  OBVIOUS
<1>2. /\ x \in Engine /\ circuit \in [Engine -> Circuit]
      /\ w.permit # "probe" => circuit[x] # "probing"
      /\ w.permit = "probe" => circuit[x] = "probing"
      /\ circuit[x] # "closed" => x \in faulted
      /\ circuit[x] = "closed" => ~recover[x]
  BY <1>1, RouteHasEngine DEF RoutingInv, RoutingTypeOK, ProbeHeld, Blame, Recovers
<1>3. x \in failing => circuit[x] # "closed"
  <2>1. w.pc \in Permitted \/ w.pc = "attempt"
    BY DEF RoutingInv, RoutingTypeOK, WorkerType, Permitted
  <2>2. CASE w.pc \in Permitted
    BY <1>1, <1>2, <2>2 DEF RoutingInv, TriedOnce
  <2>3. CASE w.pc = "attempt"
    BY <1>1, RouteHasEngine DEF RoutingInv, TriedOnce, eng
  <2> QED BY <2>1, <2>2, <2>3
<1>4. CASE w.permit = "probe"
  <2>1. circuit' = [circuit EXCEPT ![x] = "ready"]
    BY <1>1, <1>2, <1>4 DEF ReleaseProbe
  <2>2. "ready" \in Circuit \ {"probing"} /\ "ready" # "closed"
    BY DEF Circuit
  <2> QED BY <1>1, <1>2, <1>4, <2>1, <2>2
<1>5. CASE w.permit # "probe"
  <2>1. circuit' = [circuit EXCEPT ![x] = circuit[x]]
    BY <1>1, <1>2, <1>5 DEF ReleaseProbe
  <2> QED BY <1>1, <1>2, <1>3, <1>5, <2>1
<1> QED BY <1>4, <1>5

LEMMA AttemptCancelledKeeps ==
    ASSUME RoutingAssumption, RoutingInv, AttemptCancelled
    PROVE  RoutingInv'
<1>1. /\ w.pc = "attempt" /\ Left /\ excluded' = excluded /\ circuit' = circuit
      /\ failing' = failing /\ heard' = heard /\ EndChunk("cancelled")
  BY DEF AttemptCancelled, Left, loopVars, history
<1>2. w.permit = "none" /\ excluded \subseteq Voice /\ heard \subseteq {w.attempt}
  BY <1>1 DEF RoutingInv, Attempting, RoutingTypeOK, HeardOnce
<1>3. PICK c \in Circuit \ {"probing"} :
              /\ circuit' = [circuit EXCEPT ![eng] = c]
              /\ c # "closed" => eng \in faulted
              /\ c = "closed" => ~recover[eng]
              /\ eng \in failing => c # "closed"
  BY <1>1, <1>2, ProbeReleased
<1>4. w' = Idle \/ (w' = NextChunk /\ w.chunk < MaxChunks)
  BY <1>1, ChunkOver
<1> QED BY <1>1, <1>2, <1>3, <1>4, AttemptOver

\* The attempt ends without a word about the engine.
LEMMA AttemptReleased ==
    ASSUME RoutingAssumption, RoutingInv, w.pc \notin {"idle", "chunk"}, ReleaseProbe, Left,
           excluded' = excluded, failing' = failing, heard' = heard,
           NEW outcome, EndChunk(outcome)
    PROVE  RoutingInv'
<1>1. excluded \subseteq Voice /\ heard \subseteq {w.attempt}
  BY DEF RoutingInv, RoutingTypeOK, HeardOnce
<1>2. PICK c \in Circuit \ {"probing"} :
              /\ circuit' = [circuit EXCEPT ![eng] = c]
              /\ c # "closed" => eng \in faulted
              /\ c = "closed" => ~recover[eng]
              /\ eng \in failing => c # "closed"
  BY ProbeReleased
<1>3. w' = Idle \/ (w' = NextChunk /\ w.chunk < MaxChunks)
  BY ChunkOver
<1> QED BY <1>1, <1>2, <1>3, AttemptOver

LEMMA ReleasesKeep ==
    ASSUME RoutingAssumption, RoutingInv,
           PermitCancelled \/ PreflightFails \/ FailedStale \/ FailedOutput
    PROVE  RoutingInv'
<1>1. /\ w.pc \notin {"idle", "chunk"} /\ Left /\ excluded' = excluded
      /\ failing' = failing /\ heard' = heard /\ ReleaseProbe
      /\ EndChunk("cancelled") \/ EndChunk("failed")
  BY DEF PermitCancelled, PreflightFails, FailedStale, FailedOutput, Left, loopVars, history
<1> QED BY <1>1, AttemptReleased

LEMMA DeniedKeeps ==
    ASSUME RoutingAssumption, RoutingInv, Denied
    PROVE  RoutingInv'
<1>1. /\ w.pc = "attempt" /\ Left /\ circuit' = circuit /\ failing' = failing
      /\ heard' = heard /\ SelectRetry("unavailable")
  BY DEF Denied, Left, loopVars, history
<1>2. w.permit = "none" /\ heard \subseteq {w.attempt} /\ heard = {}
  BY <1>1 DEF RoutingInv, Attempting, HeardOnce
<1>3. PICK c \in Circuit \ {"probing"} :
              /\ circuit' = [circuit EXCEPT ![eng] = c]
              /\ c # "closed" => eng \in faulted
              /\ c = "closed" => ~recover[eng]
              /\ eng \in failing => c # "closed"
  BY <1>1, <1>2, ProbeReleased
<1>4. /\ excluded \subseteq excluded' /\ excluded' \subseteq Voice
      /\ \/ w' = Idle
         \/ w' = NextChunk /\ w.chunk < MaxChunks
         \/ /\ w.attempt # MaxAttempts /\ w.voice \in excluded'
            /\ \E v \in Voice \ excluded' : w' = Retried(v)
  BY <1>1, FallbackOver
<1> QED BY <1>1, <1>2, <1>3, <1>4, AttemptOver

\* The engine that failed loses its circuit and its voices.
LEMMA FailureRecorded ==
    ASSUME RoutingAssumption, RoutingInv, w.pc \notin {"idle", "chunk"}, RecordFailure,
           eng \in faulted, Left, failing' \subseteq failing \cup {eng},
           heard' = heard,
           \/ SelectRetry(w.result) /\ ~w.committed
           \/ SelectRetry("failed") /\ ~w.committed
           \/ EndChunk("failed") /\ excluded' = excluded
    PROVE  RoutingInv'
<1>1. "open" \in Circuit \ {"probing"} /\ circuit' = [circuit EXCEPT ![eng] = "open"]
  BY DEF Circuit, RecordFailure
<1>2. heard \subseteq {w.attempt} /\ (~w.committed => heard = {}) /\ excluded \subseteq Voice
  BY DEF RoutingInv, HeardOnce, RoutingTypeOK
<1>3. CASE EndChunk("failed") /\ excluded' = excluded
  <2>1. w' = Idle \/ (w' = NextChunk /\ w.chunk < MaxChunks)
    BY <1>3, ChunkOver
  <2> QED BY <1>1, <1>2, <1>3, <2>1, AttemptOver
<1>4. CASE (SelectRetry(w.result) \/ SelectRetry("failed")) /\ ~w.committed
  <2>1. /\ excluded \subseteq excluded' /\ excluded' \subseteq Voice
        /\ \/ w' = Idle
           \/ w' = NextChunk /\ w.chunk < MaxChunks
           \/ /\ w.attempt # MaxAttempts /\ w.voice \in excluded'
              /\ \E v \in Voice \ excluded' : w' = Retried(v)
    BY <1>4, FallbackOver
  <2>2. heard' = {}
    BY <1>2, <1>4
  <2> QED BY <1>1, <1>2, <2>1, <2>2, AttemptOver
<1> QED BY <1>3, <1>4

LEMMA PrepareFailsKeeps ==
    ASSUME RoutingAssumption, RoutingInv, PrepareFails
    PROVE  RoutingInv'
<1>1. /\ w.pc = "permitted" /\ w.permit = "probe" /\ Left /\ failing' = failing
      /\ heard' = heard /\ RecordFailure /\ SelectRetry("failed")
  BY DEF PrepareFails, Left, loopVars, history
<1>2. eng \in Engine /\ circuit[eng] = "probing" /\ ~w.committed
  BY <1>1, RouteHasEngine DEF RoutingInv, ProbeHeld, HeardOnce
<1>3. eng \in faulted
  BY <1>2 DEF RoutingInv, Blame
<1> QED BY <1>1, <1>2, <1>3, FailureRecorded

LEMMA SucceededKeeps ==
    ASSUME RoutingAssumption, RoutingInv, Succeeded
    PROVE  RoutingInv'
<1>1. PICK x : x = eng
  OBVIOUS
<1>2. /\ w.pc = "returned" /\ w.result = "ok" /\ Left /\ failing' = failing \ {x}
      /\ excluded' = excluded /\ RecordSuccess /\ heard' \subseteq heard \cup {w.attempt}
      /\ EndChunk("cancelled") \/ EndChunk("ready")
  BY <1>1 DEF Succeeded, Left, loopVars
<1>3. /\ x \in Engine /\ circuit \in [Engine -> Circuit] /\ excluded \subseteq Voice
      /\ heard \subseteq {w.attempt} /\ ~recover[x]
      /\ w.permit = "probe" <=> circuit[x] = "probing"
      /\ circuit[x] # "closed" => x \in faulted
  BY <1>1, <1>2, RouteHasEngine
     DEF RoutingInv, RoutingTypeOK, HeardOnce, Recovers, ProbeHeld, Blame
<1>4. PICK c \in Circuit \ {"probing"} :
          circuit' = [circuit EXCEPT ![x] = c] /\ (c # "closed" => x \in faulted)
  <2>1. CASE w.permit = "probe"
    <3>1. circuit' = [circuit EXCEPT ![x] = "closed"]
      BY <1>1, <1>2, <1>3, <2>1 DEF RecordSuccess
    <3> QED BY <3>1 DEF Circuit
  <2>2. CASE w.permit # "probe"
    <3>1. circuit' = [circuit EXCEPT ![x] = circuit[x]]
      BY <1>2, <1>3, <2>2 DEF RecordSuccess
    <3> QED BY <1>3, <2>2, <3>1
  <2> QED BY <2>1, <2>2
<1>5. w' = Idle \/ (w' = NextChunk /\ w.chunk < MaxChunks)
  BY <1>2, ChunkOver
<1> QED BY <1>1, <1>2, <1>3, <1>4, <1>5, AttemptOver

LEMMA FailedEngineKeeps ==
    ASSUME RoutingAssumption, RoutingInv, FailedEngine
    PROVE  RoutingInv'
<1>1. /\ w.pc = "returned" /\ w.result # "ok" /\ ~Stale /\ ~w.output_failed
      /\ RecordSynthesisFailure /\ Left /\ heard' = heard
      /\ failing' = failing \cup EnginesFailing
      /\ \/ w.committed /\ EndChunk("failed") /\ excluded' = excluded
         \/ ~w.committed /\ SelectRetry(w.result)
  BY DEF FailedEngine, Left, loopVars
<1>2. eng \in Engine /\ EnginesFailing \subseteq {eng}
  BY <1>1, RouteHasEngine DEF EnginesFailing
<1>3. CASE w.result = "failed" \/ (w.result = "unavailable" /\ w.permit = "probe")
  <2>1. RecordFailure
    BY <1>1, <1>3 DEF RecordSynthesisFailure
  <2>2. CASE w.result = "failed"
    <3>1. eng \in faulted
      BY <1>1, <2>2 DEF RoutingInv, Blame
    <3> QED BY <1>1, <1>2, <2>1, <3>1, FailureRecorded
  <2>3. CASE w.permit = "probe"
    <3>1. eng \in faulted
      BY <1>1, <1>2, <2>3 DEF RoutingInv, Blame, ProbeHeld
    <3> QED BY <1>1, <1>2, <2>1, <3>1, FailureRecorded
  <2> QED BY <1>3, <2>2, <2>3
<1>4. CASE ~(w.result = "failed" \/ (w.result = "unavailable" /\ w.permit = "probe"))
  <2>1. ReleaseProbe
    BY <1>1, <1>4 DEF RecordSynthesisFailure
  <2>2. PICK c \in Circuit \ {"probing"} :
                /\ circuit' = [circuit EXCEPT ![eng] = c]
                /\ c # "closed" => eng \in faulted
                /\ c = "closed" => ~recover[eng]
                /\ eng \in failing => c # "closed"
    BY <1>1, <2>1, ProbeReleased
  <2>3. heard \subseteq {w.attempt} /\ (~w.committed => heard = {}) /\ excluded \subseteq Voice
    BY <1>1 DEF RoutingInv, HeardOnce, RoutingTypeOK
  <2>4. CASE w.committed /\ EndChunk("failed") /\ excluded' = excluded
    <3>1. w' = Idle \/ (w' = NextChunk /\ w.chunk < MaxChunks)
      BY <1>1, <2>4, ChunkOver
    <3>2. failing' = failing
      BY <1>1, <1>4, <2>4 DEF EnginesFailing
    <3> QED BY <1>1, <2>2, <2>3, <2>4, <3>1, <3>2, AttemptOver
  <2>5. CASE ~w.committed /\ SelectRetry(w.result)
    <3>1. /\ excluded \subseteq excluded' /\ excluded' \subseteq Voice
          /\ w.result \notin {"voice_not_found", "invalid"}
               => \A v \in Voice : EngineOf[v] = eng => v \in excluded'
          /\ \/ w' = Idle
             \/ w' = NextChunk /\ w.chunk < MaxChunks
             \/ /\ w.attempt # MaxAttempts /\ w.voice \in excluded'
                /\ \E v \in Voice \ excluded' : w' = Retried(v)
      BY <1>1, <2>5, FallbackOver
    <3>2. eng \in failing' => \/ eng \in failing
                              \/ \A v \in Voice : EngineOf[v] = eng => v \in excluded'
      BY <1>1, <1>4, <3>1 DEF EnginesFailing
    <3>3. heard' = {}
      BY <1>1, <2>3, <2>5
    <3> QED BY <1>1, <1>2, <2>2, <3>1, <3>2, <3>3, AttemptOver
  <2> QED BY <1>1, <2>4, <2>5
<1> QED BY <1>3, <1>4

------------------------------
(* The worker moves on within an attempt *)

\* What such a step leaves alone.
Onward == /\ gen_counter' = gen_counter /\ stop_epoch' = stop_epoch /\ stopping' = stopping
          /\ inbox' = inbox /\ submitted' = submitted /\ circuit' = circuit
          /\ superseded' = superseded /\ excluded' = excluded /\ tried' = tried
          /\ failing' = failing

LEMMA Advances ==
    ASSUME RoutingAssumption, RoutingInv, w.pc \in Permitted, Onward,
           w' \in WorkerType, w'.pc \in Permitted \ {"permitted"},
           w'.gen = w.gen, w'.chunk = w.chunk, w'.voice = w.voice, w'.attempt = w.attempt,
           w'.permit = w.permit, w.committed => w'.committed,
           slot' \in [Engine -> {"free", "held", "abandoned"}],
           recover' \in [Engine -> BOOLEAN],
           \A e \in Engine : recover'[e] => recover[e] \/ (e = eng /\ w.permit = "probe"),
           faulted \subseteq faulted', faulted' \subseteq Engine, reconnected' \in BOOLEAN,
           heard' = heard \/ (heard' = heard \cup {w.attempt} /\ w'.committed),
           w'.pc \in InCall /\ w.gen = gen_counter
               => w'.seen[1] = gen_counter /\ w'.seen[2] = stop_epoch[eng],
           w.permit = "probe" /\ w'.pc \in Unstarted => recover'[eng],
           w'.pc = "native" => ~recover'[eng] /\ (w.permit = "probe" => reconnected'),
           w'.pc = "returned" /\ w'.result = "ok" => ~recover'[eng],
           w'.pc = "returned" /\ w'.result = "failed"
               => eng \in faulted' \/ w'.output_failed \/ Stale
    PROVE  RoutingInv'
<1>1. /\ w.pc \notin {"idle", "chunk", "attempt"} /\ w'.pc \notin {"idle", "chunk", "attempt"}
      /\ w'.pc # "permitted" /\ eng' = eng /\ w'.pc \in Permitted
  BY DEF Permitted, eng
<1>2. /\ eng \in Engine /\ w.voice \in Voice /\ w.voice \notin excluded
      /\ w.attempt \in 1 .. MaxAttempts
      /\ MaxAttempts \in Nat /\ MaxChunks \in Nat /\ MaxGeneration \in Nat
  BY <1>1, RouteHasEngine
<1>3. RoutingTypeOK'
  <2>1. heard' \subseteq 0 .. MaxAttempts
    <3>1. heard' \subseteq heard \cup {w.attempt}
      OBVIOUS
    <3> QED BY <1>2, <3>1 DEF RoutingInv, RoutingTypeOK
  <2>2. /\ superseded' \in BOOLEAN /\ failing' \subseteq Engine /\ stopping' \subseteq Engine
        /\ excluded' \subseteq Voice /\ circuit' \in [Engine -> Circuit]
        /\ gen_counter' \in 0 .. MaxGeneration /\ submitted' \in 0 .. MaxRequests
        /\ stop_epoch' \in [Engine -> 0 .. MaxGeneration]
        /\ inbox' \in Seq(0 .. MaxGeneration) /\ tried' \in Seq(Voice)
    BY DEF RoutingInv, RoutingTypeOK, Onward
  <2> QED BY <2>1, <2>2 DEF RoutingTypeOK
<1>4. Attempting'
  BY <1>1, <1>2 DEF RoutingInv, Attempting, Onward
<1>5. InterruptsReach'
  BY <1>1 DEF RoutingInv, InterruptsReach, Onward, Busy
<1>6. ProbeHeld'
  BY <1>1 DEF RoutingInv, ProbeHeld, Onward
<1>7. Recovers'
  <2>1. \A e \in Engine : recover'[e] => circuit'[e] # "closed"
    BY DEF RoutingInv, Recovers, ProbeHeld, Onward
  <2> QED BY <1>1, <2>1 DEF RoutingInv, Recovers
<1>8. Blame'
  <2>1. Stale' = Stale
    BY DEF Stale, Onward
  <2> QED BY <1>1, <2>1 DEF RoutingInv, Blame, Onward
<1>9. HeardOnce'
  BY <1>1 DEF RoutingInv, HeardOnce
<1>10. TriedOnce'
  BY <1>1 DEF RoutingInv, TriedOnce, Onward
<1> QED BY <1>3, <1>4, <1>5, <1>6, <1>7, <1>8, <1>9, <1>10 DEF RoutingInv

\* The worker's record with another stage, result or output.
SameAttempt(r, s) ==
    /\ s.gen = r.gen /\ s.chunk = r.chunk /\ s.voice = r.voice /\ s.attempt = r.attempt
    /\ s.permit = r.permit /\ s.seen = r.seen

LEMMA Moved ==
    ASSUME NEW r \in WorkerType, NEW pc \in Permitted, NEW s, s = [r EXCEPT !.pc = pc]
    PROVE  /\ s \in WorkerType /\ s.pc = pc /\ SameAttempt(r, s)
           /\ s.committed = r.committed /\ s.output_failed = r.output_failed
           /\ s.result = r.result
<1>1. s \in WorkerType
  BY DEF WorkerType, Permitted
<1>2. s.pc = pc /\ s.result = r.result /\ SameAttempt(r, s)
  BY DEF WorkerType, SameAttempt
<1>3. s.committed = r.committed
  BY DEF WorkerType
<1>4. s.output_failed = r.output_failed
  BY DEF WorkerType
<1> QED BY <1>1, <1>2, <1>3, <1>4

With(r, pc, res) == [r EXCEPT !.pc = pc, !.result = res]

LEMMA MovedWith ==
    ASSUME NEW r \in WorkerType, NEW pc \in Permitted, NEW res \in NativeResult \cup {"none"}
    PROVE  /\ With(r, pc, res) \in WorkerType /\ With(r, pc, res).pc = pc
           /\ With(r, pc, res).result = res /\ SameAttempt(r, With(r, pc, res))
           /\ With(r, pc, res).committed = r.committed
           /\ With(r, pc, res).output_failed = r.output_failed
<1> DEFINE s == With(r, pc, res)
<1>1. [r EXCEPT !.pc = pc] \in WorkerType
  BY DEF WorkerType, Permitted
<1>2. s \in WorkerType
  BY <1>1 DEF WorkerType, With
<1>3. s.pc = pc /\ s.result = res /\ SameAttempt(r, s)
  BY DEF WorkerType, SameAttempt, With
<1>4. s.committed = r.committed
  BY DEF WorkerType, With
<1>5. s.output_failed = r.output_failed
  BY DEF WorkerType, With
<1> QED BY <1>2, <1>3, <1>4, <1>5

\* Every engine's slot is one of three.
LEMMA SlotsAreTyped ==
    ASSUME RoutingInv, NEW e \in Engine,
           Slots!Take(e) \/ Slots!Release(e) \/ Slots!Abandon(e) \/ Slots!ComeBack(e)
    PROVE  slot' \in [Engine -> {"free", "held", "abandoned"}]
BY DEF RoutingInv, RoutingTypeOK, Slots!Take, Slots!Release, Slots!Abandon, Slots!ComeBack

\* Whoever is cancelled is obsolete, but for the engine that is being stopped.
LEMMA CancelledIsStale ==
    ASSUME RoutingAssumption, RoutingInv, w.pc \in InCall, WasCancelled
    PROVE  Stale
BY DEF RoutingInv, InterruptsReach, WasCancelled, Stale

\* What the steps of an attempt need of the invariant.
LEMMA OnTheWay ==
    ASSUME RoutingAssumption, RoutingInv, w.pc \in Permitted
    PROVE  /\ eng \in Engine /\ w \in WorkerType
           /\ slot \in [Engine -> {"free", "held", "abandoned"}]
           /\ recover \in [Engine -> BOOLEAN]
           /\ faulted \subseteq Engine /\ reconnected \in BOOLEAN
           /\ w.pc \in InCall /\ w.gen = gen_counter
                => w.seen[1] = gen_counter /\ w.seen[2] = stop_epoch[eng]
           /\ w.permit = "probe" /\ w.pc \in Unstarted => recover[eng]
           /\ w.pc = "native" => ~recover[eng] /\ (w.permit = "probe" => reconnected)
           /\ w.pc = "returned" /\ w.result = "ok" => ~recover[eng]
           /\ w.pc = "returned" /\ w.result = "failed"
                => eng \in faulted \/ w.output_failed \/ Stale
           /\ gen_counter \in 0 .. MaxGeneration
           /\ stop_epoch \in [Engine -> 0 .. MaxGeneration]
<1>1. w.pc \notin {"idle", "chunk"}
  BY DEF Permitted
<1>2. eng \in Engine
  BY <1>1, RouteHasEngine
<1> QED BY <1>2 DEF RoutingInv, RoutingTypeOK, InterruptsReach, Recovers, Blame

LEMMA PrepareKeeps ==
    ASSUME RoutingAssumption, RoutingInv, Prepare
    PROVE  RoutingInv'
<1>1. /\ w.pc = "permitted" /\ w' = [w EXCEPT !.pc = "prepared"] /\ w.pc \in Permitted
      /\ recover' = [recover EXCEPT ![eng] = @ \/ w.permit = "probe"] /\ slot' = slot
      /\ heard' = heard /\ faulted' = faulted /\ reconnected' = reconnected /\ Onward
  BY DEF Prepare, Onward, loopVars, history, Permitted
<1>2. PICK x : x = eng
  OBVIOUS
<1>3. x \in Engine /\ recover \in [Engine -> BOOLEAN] /\ w \in WorkerType
  BY <1>1, <1>2, OnTheWay
<1>4. (recover[x] \/ w.permit = "probe") \in BOOLEAN
  BY Zenon
<1>5. PICK b \in BOOLEAN : b = (recover[x] \/ w.permit = "probe")
  BY <1>4, Zenon
<1>6. recover' = [recover EXCEPT ![x] = b]
  BY <1>1, <1>2, <1>5
<1>7. /\ recover' \in [Engine -> BOOLEAN] /\ recover'[x] = b
      /\ \A e \in Engine : e # x => recover'[e] = recover[e]
  BY <1>3, <1>6
<1>8. /\ \A e \in Engine : recover'[e] => recover[e] \/ (e = x /\ w.permit = "probe")
      /\ w.permit = "probe" => recover'[x]
  BY <1>5, <1>7
<1>9. /\ w' \in WorkerType /\ w'.pc = "prepared" /\ w'.gen = w.gen /\ w'.chunk = w.chunk
      /\ w'.voice = w.voice /\ w'.attempt = w.attempt /\ w'.permit = w.permit
      /\ w'.committed = w.committed
  <2>1. "prepared" \in Permitted
    BY DEF Permitted
  <2> QED BY <1>1, <1>3, <2>1, Moved DEF SameAttempt
<1>10. /\ slot' \in [Engine -> {"free", "held", "abandoned"}]
       /\ faulted' \subseteq Engine /\ reconnected' \in BOOLEAN
  BY <1>1, OnTheWay
<1> HIDE DEF Permitted
<1>11. w'.pc \in Permitted \ {"permitted"} /\ w'.pc \notin InCall
  BY <1>9 DEF Permitted, InCall
<1> QED BY <1>1, <1>2, <1>7, <1>8, <1>9, <1>10, <1>11, Advances

LEMMA EntryKeeps ==
    ASSUME RoutingAssumption, RoutingInv, CallEngine \/ Enter
    PROVE  RoutingInv'
<1>1. /\ w.pc \in {"prepared", "entering"} /\ w.pc \in Permitted /\ w.pc \in Unstarted
      /\ slot' = slot /\ recover' = recover /\ heard' = heard /\ faulted' = faulted
      /\ reconnected' = reconnected /\ Onward
      /\ \/ w' = [w EXCEPT !.pc = "entering"]
         \/ w' = [w EXCEPT !.pc = "acquiring", !.seen = <<gen_counter, stop_epoch[eng]>>]
  BY DEF CallEngine, Enter, Onward, loopVars, history, Permitted, Unstarted
<1>2. /\ eng \in Engine /\ w \in WorkerType /\ recover \in [Engine -> BOOLEAN]
      /\ slot \in [Engine -> {"free", "held", "abandoned"}]
      /\ faulted \subseteq Engine /\ reconnected \in BOOLEAN
      /\ gen_counter \in 0 .. MaxGeneration /\ stop_epoch[eng] \in 0 .. MaxGeneration
      /\ w.permit = "probe" => recover[eng]
  BY <1>1, OnTheWay
<1>3. PICK s \in (0 .. MaxGeneration) \X (0 .. MaxGeneration) :
          s = <<gen_counter, stop_epoch[eng]>>
  BY <1>2
<1>4. /\ w' \in WorkerType /\ w'.pc \in {"entering", "acquiring"} /\ w'.gen = w.gen
      /\ w'.chunk = w.chunk /\ w'.voice = w.voice /\ w'.attempt = w.attempt
      /\ w'.permit = w.permit /\ w'.committed = w.committed
      /\ w'.pc = "acquiring" => w'.seen = s
  <2>1. CASE w' = [w EXCEPT !.pc = "entering"]
    <3>1. "entering" \in Permitted
      BY DEF Permitted
    <3> QED BY <1>2, <2>1, <3>1, Moved DEF SameAttempt
  <2>2. CASE w' = [w EXCEPT !.pc = "acquiring", !.seen = s]
    <3>1. [w EXCEPT !.pc = "acquiring"] \in WorkerType
      BY <1>2 DEF WorkerType
    <3>2. w' \in WorkerType /\ w'.pc = "acquiring" /\ w'.seen = s
      BY <1>2, <2>2, <3>1 DEF WorkerType
    <3>3. w'.committed = w.committed
      BY <1>2, <2>2 DEF WorkerType
    <3> QED BY <1>2, <2>2, <3>2, <3>3 DEF WorkerType
  <2> QED BY <1>1, <1>3, <2>1, <2>2
<1>5. w'.pc \in Permitted \ {"permitted"} /\ (w'.pc \in InCall => w'.pc = "acquiring")
  BY <1>4 DEF Permitted, InCall
<1> QED BY <1>1, <1>2, <1>3, <1>4, <1>5, Advances

\* The call returns, with or without its native call.
LEMMA Returns ==
    ASSUME RoutingAssumption, RoutingInv, w.pc \in {"acquiring", "leased", "native"}, Onward,
           slot' \in [Engine -> {"free", "held", "abandoned"}],
           recover' = recover, heard' = heard, reconnected' = reconnected,
           faulted \subseteq faulted', faulted' \subseteq Engine,
           NEW res \in NativeResult, ReturnWith(res), res = "ok" => w.pc = "native",
           res = "failed" => eng \in faulted' \/ Stale
    PROVE  RoutingInv'
<1>1. w.pc \in Permitted /\ w.pc \in InCall /\ "returned" \in Permitted
  BY DEF Permitted, InCall
<1>2. /\ eng \in Engine /\ w \in WorkerType /\ recover \in [Engine -> BOOLEAN]
      /\ reconnected \in BOOLEAN /\ (w.pc = "native" => ~recover[eng])
      /\ w.gen = gen_counter => w.seen[1] = gen_counter /\ w.seen[2] = stop_epoch[eng]
  BY <1>1, OnTheWay
<1>3. /\ w' \in WorkerType /\ w'.pc = "returned" /\ w'.result = res /\ SameAttempt(w, w')
      /\ w'.committed = w.committed
  <2>1. res \in NativeResult \cup {"none"} /\ w' = With(w, "returned", res)
    BY DEF ReturnWith, With
  <2> QED BY <1>1, <1>2, <2>1, MovedWith
<1>4. /\ w'.gen = w.gen /\ w'.chunk = w.chunk /\ w'.voice = w.voice /\ w'.attempt = w.attempt
      /\ w'.permit = w.permit /\ w'.seen = w.seen
  BY <1>3 DEF SameAttempt
<1>5. w'.pc \in Permitted \ {"permitted"} /\ w'.pc \notin Unstarted
  BY <1>3 DEF Permitted, Unstarted
<1> QED BY <1>1, <1>2, <1>3, <1>4, <1>5, Advances

\* The output refuses what the engine has made.
LEMMA RefusedOutputKeeps ==
    ASSUME RoutingAssumption, RoutingInv, OutputFails \/ CommitFails
    PROVE  RoutingInv'
<1>1. /\ w.pc = "native" /\ w.pc \in Permitted /\ w.pc \in InCall /\ "returned" \in Permitted
      /\ recover' = recover /\ heard' = heard /\ faulted' = faulted
      /\ reconnected' = reconnected /\ Onward
      /\ Slots!Abandon(eng) \/ Slots!Release(eng)
      /\ w' = [w EXCEPT !.pc = "returned", !.result = "failed", !.committed = TRUE,
                        !.output_failed = TRUE]
  BY DEF OutputFails, CommitFails, Onward, loopVars, history, Permitted, InCall
<1>2. /\ eng \in Engine /\ w \in WorkerType /\ recover \in [Engine -> BOOLEAN]
      /\ reconnected \in BOOLEAN /\ faulted \subseteq Engine
      /\ w.gen = gen_counter => w.seen[1] = gen_counter /\ w.seen[2] = stop_epoch[eng]
  BY <1>1, OnTheWay
<1>3. slot' \in [Engine -> {"free", "held", "abandoned"}]
  BY <1>1, <1>2, SlotsAreTyped
<1>4. PICK s : s = With(w, "returned", "failed")
  OBVIOUS
<1>5. s \in WorkerType /\ s.pc = "returned" /\ s.result = "failed" /\ SameAttempt(w, s)
  <2>1. "failed" \in NativeResult \cup {"none"}
    BY DEF NativeResult
  <2> QED BY <1>1, <1>2, <1>4, <2>1, MovedWith
<1>6. w' = [s EXCEPT !.committed = TRUE, !.output_failed = TRUE]
  BY <1>1, <1>2, <1>4 DEF WorkerType, With
<1>7. /\ w' \in WorkerType /\ w'.pc = "returned" /\ w'.result = "failed"
      /\ w'.gen = w.gen /\ w'.chunk = w.chunk /\ w'.voice = w.voice /\ w'.attempt = w.attempt
      /\ w'.permit = w.permit /\ w'.seen = w.seen /\ w'.committed /\ w'.output_failed
  BY <1>5, <1>6 DEF WorkerType, SameAttempt
<1>8. w'.pc \in Permitted \ {"permitted"} /\ w'.pc \notin Unstarted
  BY <1>7 DEF Permitted, Unstarted
<1> QED BY <1>1, <1>2, <1>3, <1>7, <1>8, Advances

LEMMA OutputKeeps ==
    ASSUME RoutingAssumption, RoutingInv, Output
    PROVE  RoutingInv'
<1>1. /\ w.pc = "native" /\ w.pc \in Permitted /\ w.pc \in InCall
      /\ recover' = recover /\ heard' = heard \cup {w.attempt} /\ faulted' = faulted
      /\ reconnected' = reconnected /\ slot' = slot /\ Onward
      /\ w' = [w EXCEPT !.committed = TRUE]
  BY DEF Output, Onward, loopVars, Permitted, InCall
<1>2. /\ eng \in Engine /\ w \in WorkerType /\ recover \in [Engine -> BOOLEAN]
      /\ slot \in [Engine -> {"free", "held", "abandoned"}]
      /\ reconnected \in BOOLEAN /\ faulted \subseteq Engine
      /\ ~recover[eng] /\ (w.permit = "probe" => reconnected)
      /\ w.gen = gen_counter => w.seen[1] = gen_counter /\ w.seen[2] = stop_epoch[eng]
  BY <1>1, OnTheWay
<1>3. /\ w' \in WorkerType /\ w'.pc = "native"
      /\ w'.gen = w.gen /\ w'.chunk = w.chunk /\ w'.voice = w.voice /\ w'.attempt = w.attempt
      /\ w'.permit = w.permit /\ w'.seen = w.seen /\ w'.committed
  BY <1>1, <1>2 DEF WorkerType
<1>4. w'.pc \in Permitted \ {"permitted"} /\ w'.pc \notin Unstarted
  BY <1>3 DEF Permitted, Unstarted
<1> QED BY <1>1, <1>2, <1>3, <1>4, Advances

LEMMA AdmittedKeeps ==
    ASSUME RoutingAssumption, RoutingInv, Admitted
    PROVE  RoutingInv'
<1>1. /\ w.pc = "acquiring" /\ w.pc \in Permitted /\ w.pc \in InCall /\ w.pc \in Unstarted
      /\ recover' = recover /\ heard' = heard /\ faulted' = faulted
      /\ reconnected' = reconnected /\ Onward /\ Slots!Take(eng)
      /\ w' = [w EXCEPT !.pc = "leased"] /\ "leased" \in Permitted
  BY DEF Admitted, Onward, loopVars, history, Permitted, InCall, Unstarted
<1>2. /\ eng \in Engine /\ w \in WorkerType /\ recover \in [Engine -> BOOLEAN]
      /\ reconnected \in BOOLEAN /\ faulted \subseteq Engine
      /\ w.permit = "probe" => recover[eng]
      /\ w.gen = gen_counter => w.seen[1] = gen_counter /\ w.seen[2] = stop_epoch[eng]
  BY <1>1, OnTheWay
<1>3. slot' \in [Engine -> {"free", "held", "abandoned"}]
  BY <1>1, <1>2, SlotsAreTyped
<1>4. /\ w' \in WorkerType /\ w'.pc = "leased"
      /\ w'.gen = w.gen /\ w'.chunk = w.chunk /\ w'.voice = w.voice /\ w'.attempt = w.attempt
      /\ w'.permit = w.permit /\ w'.seen = w.seen /\ w'.committed = w.committed
  BY <1>1, <1>2, Moved DEF SameAttempt
<1>5. w'.pc \in Permitted \ {"permitted"}
  BY <1>4 DEF Permitted
<1> QED BY <1>1, <1>2, <1>3, <1>4, <1>5, Advances

LEMMA SpawnKeeps ==
    ASSUME RoutingAssumption, RoutingInv, Spawn
    PROVE  RoutingInv'
<1>1. /\ w.pc = "leased" /\ w.pc \in Permitted /\ w.pc \in InCall /\ w.pc \in Unstarted
      /\ slot' = slot /\ heard' = heard /\ faulted' = faulted /\ Onward
      /\ reconnected' = recover[eng] /\ recover' = [recover EXCEPT ![eng] = FALSE]
      /\ w' = [w EXCEPT !.pc = "native"] /\ "native" \in Permitted
  BY DEF Spawn, Onward, loopVars, Permitted, InCall, Unstarted
<1>2. /\ eng \in Engine /\ w \in WorkerType /\ recover \in [Engine -> BOOLEAN]
      /\ slot \in [Engine -> {"free", "held", "abandoned"}] /\ faulted \subseteq Engine
      /\ w.permit = "probe" => recover[eng]
      /\ w.gen = gen_counter => w.seen[1] = gen_counter /\ w.seen[2] = stop_epoch[eng]
  BY <1>1, OnTheWay
<1>3. /\ recover' \in [Engine -> BOOLEAN] /\ ~recover'[eng]
      /\ \A e \in Engine : recover'[e] => recover[e]
  BY <1>1, <1>2
<1>4. reconnected' \in BOOLEAN /\ (w.permit = "probe" => reconnected')
  BY <1>1, <1>2
<1>5. /\ w' \in WorkerType /\ w'.pc = "native"
      /\ w'.gen = w.gen /\ w'.chunk = w.chunk /\ w'.voice = w.voice /\ w'.attempt = w.attempt
      /\ w'.permit = w.permit /\ w'.seen = w.seen /\ w'.committed = w.committed
  BY <1>1, <1>2, Moved DEF SameAttempt
<1>6. w'.pc \in Permitted \ {"permitted"} /\ w'.pc \notin Unstarted
  BY <1>5 DEF Permitted, Unstarted
<1> QED BY <1>1, <1>2, <1>3, <1>4, <1>5, <1>6, Advances

LEMMA ReturnsKeep ==
    ASSUME RoutingAssumption, RoutingInv,
           NotAdmitted \/ LeaveUnused \/ ProtocolFails \/ Quarantine
               \/ \E r \in NativeResult : NativeReturns(r)
    PROVE  RoutingInv'
<1>1. /\ w.pc \in {"acquiring", "leased", "native"} /\ w.pc \in Permitted /\ w.pc \in InCall
      /\ recover' = recover /\ heard' = heard /\ reconnected' = reconnected /\ Onward
      /\ slot' = slot \/ Slots!Release(eng) \/ Slots!Abandon(eng)
  BY DEF NotAdmitted, LeaveUnused, ProtocolFails, Quarantine, NativeReturns, Onward, loopVars,
         history, Permitted, InCall
<1>2. /\ eng \in Engine /\ slot \in [Engine -> {"free", "held", "abandoned"}]
      /\ faulted \subseteq Engine /\ (WasCancelled => Stale)
  BY <1>1, OnTheWay, CancelledIsStale
<1>3. slot' \in [Engine -> {"free", "held", "abandoned"}]
  BY <1>1, <1>2, SlotsAreTyped
<1>4. faulted' = faulted \/ faulted' = faulted \cup {eng}
  BY DEF NotAdmitted, LeaveUnused, ProtocolFails, Quarantine, NativeReturns, history
<1>5. \E res \in NativeResult :
          /\ ReturnWith(res) /\ (res = "ok" => w.pc = "native")
          /\ res = "failed" => eng \in faulted' \/ Stale
  <2>1. CASE NotAdmitted
    BY <1>2, <2>1 DEF NotAdmitted, NativeResult
  <2>2. CASE LeaveUnused
    BY <1>2, <2>2 DEF LeaveUnused, NativeResult
  <2>3. CASE ProtocolFails \/ Quarantine
    BY <1>2, <2>3 DEF ProtocolFails, Quarantine, NativeResult
  <2>4. CASE \E r \in NativeResult : NativeReturns(r)
    BY <1>2, <2>4 DEF NativeReturns, NativeResult
  <2> QED BY <2>1, <2>2, <2>3, <2>4
<1>6. faulted \subseteq faulted' /\ faulted' \subseteq Engine
  BY <1>2, <1>4
<1> QED BY <1>1, <1>3, <1>5, <1>6, Returns

------------------------------
(* A request, its chunks, and the permit of an attempt *)

\* What the worker's own bookkeeping leaves alone.
Quiet == /\ gen_counter' = gen_counter /\ stop_epoch' = stop_epoch /\ slot' = slot
         /\ recover' = recover /\ stopping' = stopping /\ submitted' = submitted
         /\ faulted' = faulted /\ reconnected' = reconnected

LEMMA PermitKeeps ==
    ASSUME RoutingAssumption, RoutingInv, Permit
    PROVE  RoutingInv'
<1>1. PICK x : x = eng
  OBVIOUS
<1>2. /\ w.pc = "attempt" /\ circuit[x] \in {"closed", "ready"}
      /\ tried' = Append(tried, w.voice) /\ Quiet /\ inbox' = inbox
      /\ superseded' = superseded /\ excluded' = excluded /\ heard' = heard
      /\ failing' = failing
  BY <1>1 DEF Permit, Quiet, loopVars
<1>3. /\ x \in Engine /\ w.voice \in Voice /\ w.voice \notin excluded
      /\ w.attempt \in 1 .. MaxAttempts /\ w \in WorkerType /\ MaxAttempts \in Nat
      /\ circuit \in [Engine -> Circuit] /\ w.permit = "none" /\ x = EngineOf[w.voice]
  BY <1>1, <1>2, RouteHasEngine DEF RoutingInv, RoutingTypeOK, Attempting, eng
<1>4. PICK p \in {"normal", "probe"} : p = IF circuit[x] = "ready" THEN "probe" ELSE "normal"
  OBVIOUS
<1>5. PICK c \in Circuit : c = IF circuit[x] = "ready" THEN "probing" ELSE circuit[x]
  BY <1>3 DEF Circuit
<1>6. circuit' = [circuit EXCEPT ![x] = c] /\ w' = [w EXCEPT !.pc = "permitted", !.permit = p]
  BY <1>1, <1>3, <1>4, <1>5 DEF Permit
<1>7. /\ circuit' \in [Engine -> Circuit] /\ circuit'[x] = c
      /\ \A e \in Engine : e # x => circuit'[e] = circuit[e]
  BY <1>3, <1>6
<1>8. /\ w' \in WorkerType /\ w'.pc = "permitted" /\ w'.permit = p
      /\ w'.gen = w.gen /\ w'.voice = w.voice /\ w'.attempt = w.attempt
      /\ w'.committed = w.committed
  <2>1. [w EXCEPT !.pc = "permitted"] \in WorkerType
    BY <1>3 DEF WorkerType
  <2>2. w' \in WorkerType
    BY <1>6, <2>1 DEF WorkerType
  <2>3. /\ w'.pc = "permitted" /\ w'.permit = p /\ w'.gen = w.gen /\ w'.voice = w.voice
        /\ w'.attempt = w.attempt
    BY <1>3, <1>6 DEF WorkerType
  <2>4. w'.committed = w.committed
    BY <1>3, <1>6 DEF WorkerType
  <2> QED BY <2>2, <2>3, <2>4
<1>9. eng' = x
  BY <1>3, <1>8 DEF eng
<1>10. /\ tried \in Seq(Voice) /\ Len(tried) \in Nat /\ tried' \in Seq(Voice)
       /\ Len(tried') = Len(tried) + 1 /\ tried'[Len(tried) + 1] = w.voice
       /\ \A i \in 1 .. Len(tried) : tried'[i] = tried[i]
  BY <1>2, <1>3 DEF RoutingInv, RoutingTypeOK
<1>11. RoutingTypeOK'
  BY <1>2, <1>7, <1>8, <1>10 DEF RoutingInv, RoutingTypeOK, Quiet
<1>12. Attempting'
  BY <1>2, <1>3, <1>8 DEF RoutingInv, Attempting
<1>13. InterruptsReach'
  BY <1>2, <1>8 DEF RoutingInv, InterruptsReach, Quiet, Busy, InCall
<1>14. ProbeHeld'
  BY <1>2, <1>3, <1>4, <1>5, <1>7, <1>8, <1>9 DEF RoutingInv, ProbeHeld
<1>15. Recovers'
  BY <1>2, <1>5, <1>7, <1>8 DEF RoutingInv, Recovers, Quiet, Unstarted
<1>16. Blame'
  BY <1>2, <1>5, <1>7, <1>8 DEF RoutingInv, Blame, Quiet
<1>17. HeardOnce'
  BY <1>2, <1>8 DEF RoutingInv, HeardOnce
<1>18. TriedOnce'
  <2>1. Len(tried) < w.attempt /\ \A i \in 1 .. Len(tried) : tried[i] \in excluded
    BY <1>2 DEF RoutingInv, TriedOnce
  <2>2. \A i \in 1 .. Len(tried') : i \in 1 .. Len(tried) \/ i = Len(tried) + 1
    BY <1>10
  <2>3. \A i \in 1 .. Len(tried') : tried'[i] \in excluded \cup {w.voice}
    BY <1>10, <2>1, <2>2
  <2>4. \A i, j \in 1 .. Len(tried') : tried'[i] = tried'[j] => i = j
    BY SMTT(60), <1>3, <1>10, <2>1, <2>2 DEF RoutingInv, TriedOnce
  <2>5. x \in failing => p = "probe"
    BY <1>2, <1>3, <1>4 DEF RoutingInv, TriedOnce
  <2>6. Len(tried') <= w.attempt /\ Len(tried') <= MaxAttempts
    BY SMTT(60), <1>3, <1>10, <2>1 DEF WorkerType
  <2>7. \A e \in failing : circuit'[e] # "closed"
                           \/ \A v \in Voice : EngineOf[v] = e => v \in excluded
    BY ZenonT(60), <1>3, <1>5, <1>7 DEF RoutingInv, TriedOnce, RoutingTypeOK
  <2> QED BY <1>2, <1>8, <1>9, <2>3, <2>4, <2>5, <2>6, <2>7 DEF TriedOnce
<1> QED BY <1>11, <1>12, <1>13, <1>14, <1>15, <1>16, <1>17, <1>18 DEF RoutingInv

LEMMA TakeRequestKeeps ==
    ASSUME RoutingAssumption, RoutingInv, TakeRequest
    PROVE  RoutingInv'
<1>1. PICK g : g = Head(inbox)
  OBVIOUS
<1>2. /\ w.pc = "idle" /\ inbox # <<>> /\ inbox' = Tail(inbox) /\ superseded' = FALSE
      /\ w' = [Idle EXCEPT !.pc = "chunk", !.gen = g] /\ failing' = {}
      /\ excluded' = {v \in Voice : circuit[EngineOf[v]] \in {"open", "probing"}}
      /\ circuit' = circuit /\ tried' = tried /\ heard' = heard /\ Quiet
  BY <1>1 DEF TakeRequest, Quiet, Busy
<1>3. /\ inbox \in Seq(0 .. MaxGeneration) /\ Len(inbox) \in Nat
      /\ g \in 0 .. MaxGeneration /\ g = inbox[1] /\ 1 \in 1 .. Len(inbox)
      /\ Len(inbox') = Len(inbox) - 1 /\ inbox' \in Seq(0 .. MaxGeneration)
      /\ \A i \in 1 .. Len(inbox') : inbox'[i] = inbox[i + 1] /\ i + 1 \in 1 .. Len(inbox)
  <2>1. PICK q \in Seq(0 .. MaxGeneration) : q = inbox
    BY DEF RoutingInv, RoutingTypeOK
  <2>2. q # <<>> /\ inbox' = Tail(q) /\ g = Head(q)
    BY <1>1, <1>2, <2>1
  <2>3. /\ Len(q) \in Nat \ {0} /\ g \in 0 .. MaxGeneration /\ g = q[1]
        /\ Len(inbox') = Len(q) - 1 /\ inbox' \in Seq(0 .. MaxGeneration)
        /\ \A i \in 1 .. Len(inbox') : inbox'[i] = q[i + 1]
    BY <2>2
  <2>4. \A i \in 1 .. Len(inbox') : i + 1 \in 1 .. Len(q)
    BY <2>3
  <2> QED BY <2>1, <2>3, <2>4
<1>4. /\ w' \in WorkerType /\ w'.pc = "chunk" /\ w'.permit = "none" /\ w'.gen = g
      /\ w'.chunk = 0 /\ w'.committed = FALSE
  BY <1>2, <1>3, IdleWorker DEF WorkerType
<1>5. RoutingTypeOK'
  BY <1>2, <1>3, <1>4 DEF RoutingInv, RoutingTypeOK, Quiet
<1>6. Attempting'
  BY <1>4 DEF Attempting, Permitted, RoutingAssumption
<1>7. InterruptsReach'
  <2>1. w'.pc \notin InCall
    BY <1>4 DEF InCall
  <2> QED BY <1>2, <1>3, <1>4, <2>1 DEF RoutingInv, InterruptsReach, Quiet, Busy
<1>8. \A e \in Engine : circuit[e] # "probing"
  BY <1>2 DEF RoutingInv, ProbeHeld, Attempting
<1>9. ProbeHeld' /\ Recovers' /\ Blame'
  BY <1>2, <1>4, <1>8 DEF RoutingInv, ProbeHeld, Recovers, Blame, Quiet, Unstarted
<1>10. HeardOnce'
  BY <1>2, <1>4 DEF RoutingInv, HeardOnce
<1>11. TriedOnce'
  BY <1>2, <1>4 DEF RoutingInv, TriedOnce, Permitted
<1> QED BY <1>5, <1>6, <1>7, <1>9, <1>10, <1>11 DEF RoutingInv

LEMMA StartChunkKeeps ==
    ASSUME RoutingAssumption, RoutingInv, StartChunk
    PROVE  RoutingInv'
<1>1. /\ w.pc = "chunk" /\ w \in WorkerType /\ w.permit = "none" /\ w.committed = FALSE
      /\ w.chunk + 1 \in 1 .. MaxChunks /\ w.chunk \in 0 .. MaxChunks
      /\ w.gen \in 0 .. MaxGeneration
      /\ MaxAttempts \in Nat \ {0} /\ MaxChunks \in Nat \ {0} /\ MaxGeneration \in Nat
  <2>1. w.pc = "chunk"
    BY DEF StartChunk
  <2>2. w \in WorkerType /\ w.chunk \in 0 .. MaxChunks /\ w.gen \in 0 .. MaxGeneration
    BY DEF RoutingInv, RoutingTypeOK, WorkerType
  <2>3. w.permit = "none" /\ w.chunk < MaxChunks
    BY <2>1 DEF RoutingInv, Attempting
  <2>4. w.committed = FALSE
    <3>1. w.committed \in BOOLEAN
      BY <2>2 DEF WorkerType
    <3> QED BY <2>1, <3>1 DEF RoutingInv, HeardOnce
  <2>5. MaxAttempts \in Nat \ {0} /\ MaxChunks \in Nat \ {0} /\ MaxGeneration \in Nat
    BY DEF RoutingAssumption
  <2>6. w.chunk + 1 \in 1 .. MaxChunks
    BY <2>2, <2>3, <2>5
  <2> QED BY <2>1, <2>2, <2>3, <2>4, <2>5, <2>6
<1>2. /\ tried' = <<>> /\ heard' = {} /\ Quiet /\ inbox' = inbox /\ circuit' = circuit
      /\ superseded' = superseded /\ excluded' = excluded /\ failing' = failing
  BY DEF StartChunk, Quiet, loopVars
<1>3. PICK n \in 1 .. MaxChunks : n = w.chunk + 1
  BY <1>1
<1>4. /\ w' \in WorkerType /\ w'.permit = "none" /\ w'.pc \in {"idle", "chunk", "attempt"}
      /\ w'.pc # "idle" => w'.gen = w.gen
      /\ w'.pc = "idle" => w'.gen = 0
      /\ w'.pc = "chunk" => w'.chunk < MaxChunks /\ w'.committed = FALSE
      /\ w'.pc = "attempt" => /\ w'.voice \in Voice \ excluded /\ w'.attempt = 1
                              /\ w'.committed = FALSE
  <2>1. CASE w' = Idle
    BY <2>1, IdleWorker
  <2>2. CASE w' = [Idle EXCEPT !.pc = "chunk", !.gen = w.gen, !.chunk = n] /\ n # MaxChunks
    <3>1. [Idle EXCEPT !.pc = "chunk", !.gen = w.gen] \in WorkerType
      BY <1>1, IdleWorker DEF WorkerType
    <3>2. w' \in WorkerType
      <4>1. PICK r \in WorkerType : r = [Idle EXCEPT !.pc = "chunk", !.gen = w.gen]
        BY <3>1
      <4>2. n \in 0 .. MaxChunks /\ w' = [r EXCEPT !.chunk = n]
        BY <1>1, <1>3, <2>2, <4>1 DEF Idle
      <4> QED BY <4>2 DEF WorkerType
    <3>3. /\ w'.pc = "chunk" /\ w'.permit = "none" /\ w'.gen = w.gen /\ w'.chunk = n
          /\ w'.committed = FALSE
      BY <2>2, IdleWorker DEF WorkerType
    <3> QED BY <1>1, <1>3, <2>2, <3>2, <3>3
  <2>3. CASE Candidates(excluded) # {}
             /\ w' = [w EXCEPT !.pc = "attempt", !.chunk = n, !.attempt = 1,
                               !.voice = Preferred(excluded)]
    <3>1. PICK v \in Voice \ excluded : v = Preferred(excluded)
      BY <2>3, PreferredIsOffered
    <3>2. w \in WorkerType /\ n \in 0 .. MaxChunks /\ 1 \in 0 .. MaxAttempts
      BY <1>1
    <3>3. [w EXCEPT !.pc = "attempt", !.chunk = n, !.attempt = 1] \in WorkerType
      BY <3>2 DEF WorkerType
    <3>4. w' \in WorkerType
      BY <2>3, <3>1, <3>3 DEF WorkerType
    <3>5. /\ w'.pc = "attempt" /\ w'.permit = "none" /\ w'.gen = w.gen /\ w'.voice = v
          /\ w'.attempt = 1
      BY <1>1, <2>3, <3>1 DEF WorkerType
    <3>6. w'.committed = FALSE
      BY <1>1, <2>3 DEF WorkerType
    <3> QED BY <3>1, <3>4, <3>5, <3>6
  <2>4. \/ w' = Idle
        \/ w' = [Idle EXCEPT !.pc = "chunk", !.gen = w.gen, !.chunk = n] /\ n # MaxChunks
        \/ Candidates(excluded) # {}
           /\ w' = [w EXCEPT !.pc = "attempt", !.chunk = n, !.attempt = 1,
                             !.voice = Preferred(excluded)]
    BY <1>3 DEF StartChunk
  <2> QED BY <2>1, <2>2, <2>3, <2>4
<1>5. RoutingTypeOK'
  BY <1>1, <1>2, <1>4 DEF RoutingInv, RoutingTypeOK, Quiet
<1>6. Attempting'
  BY <1>1, <1>2, <1>4 DEF Attempting, Permitted
<1>7. InterruptsReach'
  <2>1. gen_counter \in Nat /\ w'.gen <= gen_counter
    BY <1>1, <1>4 DEF RoutingInv, RoutingTypeOK, InterruptsReach
  <2>2. (w'.pc # "idle" /\ stopping # {}) => w'.gen < gen_counter
    BY <1>1, <1>4 DEF RoutingInv, InterruptsReach, Busy
  <2>3. w'.pc \notin InCall
    BY <1>4 DEF InCall
  <2> QED BY <1>2, <2>1, <2>2, <2>3 DEF RoutingInv, InterruptsReach, Quiet, Busy
<1>8. \A e \in Engine : circuit[e] # "probing"
  BY <1>1 DEF RoutingInv, ProbeHeld
<1>9. ProbeHeld' /\ Recovers' /\ Blame'
  BY <1>2, <1>4, <1>8 DEF RoutingInv, ProbeHeld, Recovers, Blame, Quiet, Unstarted
<1>10. HeardOnce'
  BY <1>2, <1>4 DEF HeardOnce
<1>11. TriedOnce'
  <2>1. tried' = <<>> /\ Len(<<>>) = 0 /\ 1 .. Len(<<>>) = {}
    BY <1>2
  <2>2. w'.pc \notin Permitted
    BY <1>4 DEF Permitted
  <2> QED BY <1>1, <1>2, <1>4, <2>1, <2>2 DEF RoutingInv, TriedOnce
<1> QED BY <1>5, <1>6, <1>7, <1>9, <1>10, <1>11 DEF RoutingInv

------------------------------
(* The protocol loop, the control connection, and cooldowns *)

\* What happens around the worker.
Around == /\ w' = w /\ recover' = recover /\ excluded' = excluded /\ tried' = tried
          /\ heard' = heard /\ faulted' = faulted /\ failing' = failing
          /\ reconnected' = reconnected

\* A circuit that is not a probe's may become ready.
LEMMA WorldKeeps ==
    ASSUME RoutingAssumption, RoutingInv, Around,
           gen_counter' = gen_counter, stop_epoch' = stop_epoch, stopping' = stopping,
           inbox' = inbox, submitted' = submitted,
           slot' \in [Engine -> {"free", "held", "abandoned"}],
           superseded' = superseded \/ superseded' = TRUE,
           circuit' = circuit \/ \E e \in Engine : /\ circuit[e] = "open"
                                                  /\ circuit' = [circuit EXCEPT ![e] = "ready"]
    PROVE  RoutingInv'
<1>1. /\ circuit' \in [Engine -> Circuit]
      /\ \A e \in Engine : \/ circuit'[e] = circuit[e]
                           \/ circuit[e] = "open" /\ circuit'[e] = "ready"
  <2>1. circuit \in [Engine -> Circuit] /\ "ready" \in Circuit
    BY DEF RoutingInv, RoutingTypeOK, Circuit
  <2>2. CASE circuit' = circuit
    BY <2>1, <2>2
  <2>3. ASSUME NEW e \in Engine, circuit[e] = "open",
               circuit' = [circuit EXCEPT ![e] = "ready"]
        PROVE  /\ circuit' \in [Engine -> Circuit]
               /\ \A f \in Engine : \/ circuit'[f] = circuit[f]
                                    \/ circuit[f] = "open" /\ circuit'[f] = "ready"
    BY <2>1, <2>3
  <2> QED BY <2>2, <2>3
<1>2. superseded' \in BOOLEAN
  BY DEF RoutingInv, RoutingTypeOK
<1>3. RoutingTypeOK'
  <2>1. /\ failing' \subseteq Engine /\ stopping' \subseteq Engine /\ faulted' \subseteq Engine
        /\ excluded' \subseteq Voice /\ recover' \in [Engine -> BOOLEAN]
        /\ gen_counter' \in 0 .. MaxGeneration /\ submitted' \in 0 .. MaxRequests
        /\ stop_epoch' \in [Engine -> 0 .. MaxGeneration] /\ reconnected' \in BOOLEAN
        /\ inbox' \in Seq(0 .. MaxGeneration) /\ tried' \in Seq(Voice)
        /\ heard' \subseteq 0 .. MaxAttempts /\ w' \in WorkerType
    BY DEF RoutingInv, RoutingTypeOK, Around
  <2> QED BY <1>1, <1>2, <2>1 DEF RoutingTypeOK
<1>4. Attempting'
  BY DEF RoutingInv, Attempting, Around
<1>5. InterruptsReach'
  BY DEF RoutingInv, InterruptsReach, Around, Busy, eng
<1>6. w.pc \notin {"idle", "chunk"} => eng \in Engine
  BY RouteHasEngine
<1>7. ProbeHeld'
  <2>1. w.permit = "probe" => eng \in Engine
    BY <1>6 DEF RoutingInv, Attempting
  <2> QED BY <1>1, <2>1 DEF RoutingInv, ProbeHeld, Around, eng
<1>8. Recovers'
  BY <1>1 DEF RoutingInv, Recovers, Around, eng
<1>9. Blame'
  <2>1. Stale => Stale'
    BY DEF Stale, Around
  <2> QED BY <1>1, <2>1 DEF RoutingInv, Blame, Around, eng
<1>10. HeardOnce'
  BY DEF RoutingInv, HeardOnce, Around
<1>11. TriedOnce'
  <2>1. \A e \in failing : circuit'[e] # "closed"
                           \/ \A v \in Voice : EngineOf[v] = e => v \in excluded
    BY <1>1 DEF RoutingInv, TriedOnce, RoutingTypeOK
  <2> QED BY <2>1 DEF RoutingInv, TriedOnce, Around, eng
<1> QED BY <1>3, <1>4, <1>5, <1>7, <1>8, <1>9, <1>10, <1>11 DEF RoutingInv

\* The protocol loop interrupts, stops engines and submits.
LEMMA LoopKeeps ==
    ASSUME RoutingAssumption, RoutingInv, Around, superseded' = superseded,
           slot' = slot, circuit' = circuit,
           gen_counter' \in 0 .. MaxGeneration, stop_epoch' \in [Engine -> 0 .. MaxGeneration],
           stopping' \subseteq Engine, inbox' \in Seq(0 .. MaxGeneration),
           submitted' \in 0 .. MaxRequests, InterruptsReach', Stale => Stale'
    PROVE  RoutingInv'
<1>1. RoutingTypeOK'
  <2>1. /\ failing' \subseteq Engine /\ faulted' \subseteq Engine
        /\ excluded' \subseteq Voice /\ recover' \in [Engine -> BOOLEAN]
        /\ reconnected' \in BOOLEAN /\ superseded' \in BOOLEAN
        /\ tried' \in Seq(Voice) /\ circuit' \in [Engine -> Circuit]
        /\ slot' \in [Engine -> {"free", "held", "abandoned"}]
        /\ heard' \subseteq 0 .. MaxAttempts /\ w' \in WorkerType
    BY DEF RoutingInv, RoutingTypeOK, Around
  <2> QED BY <2>1 DEF RoutingTypeOK
<1>2. Attempting' /\ HeardOnce'
  BY DEF RoutingInv, Attempting, HeardOnce, Around
<1>3. ProbeHeld' /\ Recovers'
  BY DEF RoutingInv, ProbeHeld, Recovers, Around, eng
<1>4. Blame'
  BY DEF RoutingInv, Blame, Around, eng
<1>5. TriedOnce'
  BY DEF RoutingInv, TriedOnce, Around, eng
<1> QED BY <1>1, <1>2, <1>3, <1>4, <1>5 DEF RoutingInv

LEMMA SubmitKeeps ==
    ASSUME RoutingAssumption, RoutingInv, Submit
    PROVE  RoutingInv'
<1>1. /\ stopping = {} /\ submitted < MaxRequests /\ submitted' = submitted + 1
      /\ inbox' = Append(inbox, gen_counter) /\ Around /\ superseded' = superseded
      /\ slot' = slot /\ circuit' = circuit /\ gen_counter' = gen_counter
      /\ stop_epoch' = stop_epoch /\ stopping' = stopping
  BY DEF Submit, Around, history
<1>2. /\ gen_counter \in 0 .. MaxGeneration /\ stop_epoch \in [Engine -> 0 .. MaxGeneration]
      /\ submitted \in 0 .. MaxRequests /\ MaxRequests \in Nat /\ MaxGeneration \in Nat
  BY DEF RoutingInv, RoutingTypeOK, RoutingAssumption
<1>3. /\ inbox \in Seq(0 .. MaxGeneration) /\ Len(inbox) \in Nat
      /\ inbox' \in Seq(0 .. MaxGeneration) /\ Len(inbox') = Len(inbox) + 1
      /\ inbox'[Len(inbox) + 1] = gen_counter
      /\ \A i \in 1 .. Len(inbox) : inbox'[i] = inbox[i]
  BY <1>1, <1>2 DEF RoutingInv, RoutingTypeOK
<1>4. InterruptsReach'
  <2>1. \A i \in 1 .. Len(inbox') : inbox'[i] <= gen_counter
    <3>1. ASSUME NEW i \in 1 .. Len(inbox')
          PROVE  inbox'[i] <= gen_counter
      <4>1. CASE i = Len(inbox) + 1
        BY <1>2, <1>3, <4>1
      <4>2. CASE i \in 1 .. Len(inbox)
        BY <1>3, <4>2 DEF RoutingInv, InterruptsReach
      <4> QED BY <1>3, <4>1, <4>2
    <3> QED BY <3>1
  <2> QED BY <1>1, <2>1 DEF RoutingInv, InterruptsReach, Around, Busy, eng
<1>5. submitted' \in 0 .. MaxRequests /\ stopping' \subseteq Engine /\ (Stale => Stale')
  BY <1>1, <1>2 DEF Stale, Around
<1> QED BY <1>1, <1>2, <1>3, <1>4, <1>5, LoopKeeps

LEMMA InterruptKeeps ==
    ASSUME RoutingAssumption, RoutingInv, NEW stop \in BOOLEAN, Interrupt(stop)
    PROVE  RoutingInv'
<1>1. /\ stopping = {} /\ gen_counter < MaxGeneration /\ gen_counter' = gen_counter + 1
      /\ stopping' \subseteq Engine /\ Around /\ superseded' = superseded
      /\ slot' = slot /\ circuit' = circuit /\ inbox' = inbox
      /\ stop_epoch' = stop_epoch /\ submitted' = submitted
  BY DEF Interrupt, Around, history
<1>2. /\ gen_counter \in 0 .. MaxGeneration /\ stop_epoch \in [Engine -> 0 .. MaxGeneration]
      /\ submitted \in 0 .. MaxRequests /\ inbox \in Seq(0 .. MaxGeneration)
      /\ w.gen \in 0 .. MaxGeneration /\ MaxGeneration \in Nat /\ Len(inbox) \in Nat
      /\ \A i \in 1 .. Len(inbox) : inbox[i] \in Nat
      /\ \A e \in Engine : stop_epoch[e] \in Nat
  <2>1. /\ gen_counter \in 0 .. MaxGeneration /\ stop_epoch \in [Engine -> 0 .. MaxGeneration]
        /\ submitted \in 0 .. MaxRequests /\ inbox \in Seq(0 .. MaxGeneration)
        /\ w.gen \in 0 .. MaxGeneration /\ MaxGeneration \in Nat
    BY DEF RoutingInv, RoutingTypeOK, RoutingAssumption, WorkerType
  <2>2. Len(inbox) \in Nat /\ \A i \in 1 .. Len(inbox) : inbox[i] \in Nat
    BY <2>1
  <2>3. \A e \in Engine : stop_epoch[e] \in Nat
    BY <2>1
  <2> QED BY <2>1, <2>2, <2>3
<1>3. /\ \A i \in 1 .. Len(inbox) : inbox[i] < gen_counter'
      /\ \A e \in Engine : stop_epoch[e] < gen_counter'
      /\ w.gen < gen_counter' /\ w.gen # gen_counter'
      /\ gen_counter' \in 0 .. MaxGeneration
  BY SMTT(60), <1>1, <1>2 DEF RoutingInv, InterruptsReach
<1>4. InterruptsReach'
  BY <1>1, <1>2, <1>3 DEF InterruptsReach, Around, Busy, eng
<1>5. Stale'
  BY <1>1, <1>3 DEF Stale, Around
<1> QED BY <1>1, <1>2, <1>3, <1>4, <1>5, LoopKeeps

LEMMA StopEngineKeeps ==
    ASSUME RoutingAssumption, RoutingInv, NEW e \in Engine, StopEngine(e)
    PROVE  RoutingInv'
<1>1. /\ e \in stopping /\ stopping' = stopping \ {e}
      /\ stop_epoch' = [stop_epoch EXCEPT ![e] = @ + 1] /\ Around
      /\ superseded' = superseded /\ slot' = slot /\ circuit' = circuit /\ inbox' = inbox
      /\ gen_counter' = gen_counter /\ submitted' = submitted
  BY DEF StopEngine, Around, history
<1>2. /\ gen_counter \in 0 .. MaxGeneration /\ stop_epoch \in [Engine -> 0 .. MaxGeneration]
      /\ submitted \in 0 .. MaxRequests /\ inbox \in Seq(0 .. MaxGeneration)
      /\ stopping \subseteq Engine /\ MaxGeneration \in Nat /\ w.gen \in 0 .. MaxGeneration
  BY DEF RoutingInv, RoutingTypeOK, RoutingAssumption, WorkerType
<1>3. stop_epoch[e] < gen_counter
  BY <1>1 DEF RoutingInv, InterruptsReach
<1>4. stop_epoch[e] + 1 \in 0 .. MaxGeneration /\ stop_epoch[e] + 1 <= gen_counter
  BY <1>2, <1>3
<1>5. /\ stop_epoch' \in [Engine -> 0 .. MaxGeneration] /\ stop_epoch'[e] = stop_epoch[e] + 1
      /\ \A f \in Engine : f # e => stop_epoch'[f] = stop_epoch[f]
  BY <1>1, <1>2, <1>4
<1>6. InterruptsReach'
  <2>1. \A f \in Engine : /\ stop_epoch'[f] <= gen_counter
                          /\ f \in stopping' => stop_epoch'[f] < gen_counter
    BY <1>1, <1>4, <1>5 DEF RoutingInv, InterruptsReach
  <2>2. Busy => w.gen < gen_counter
    BY <1>1 DEF RoutingInv, InterruptsReach
  <2>3. w.pc \in InCall => w.gen # gen_counter
    BY <1>2, <2>2 DEF InCall, Busy
  <2>4. \A i \in 1 .. Len(inbox) : inbox[i] < gen_counter /\ inbox[i] <= gen_counter
    BY <1>1 DEF RoutingInv, InterruptsReach
  <2> QED BY <1>1, <2>1, <2>2, <2>3, <2>4 DEF RoutingInv, InterruptsReach, Around, Busy, eng
<1>7. stopping' \subseteq Engine /\ (Stale => Stale')
  BY <1>1, <1>2 DEF Stale, Around
<1> QED BY <1>1, <1>2, <1>5, <1>6, <1>7, LoopKeeps

LEMMA WorldStepKeeps ==
    ASSUME RoutingAssumption, RoutingInv,
           Supersede \/ Quiescent
               \/ \E e \in Engine : CooldownEnds(e) \/ RequestProbe(e) \/ AbandonedReturns(e)
    PROVE  RoutingInv'
<1>1. slot \in [Engine -> {"free", "held", "abandoned"}]
  BY DEF RoutingInv, RoutingTypeOK
<1>2. CASE Supersede \/ Quiescent
  <2>1. /\ Around /\ gen_counter' = gen_counter /\ stop_epoch' = stop_epoch
        /\ stopping' = stopping /\ inbox' = inbox /\ submitted' = submitted /\ slot' = slot
        /\ circuit' = circuit /\ (superseded' = superseded \/ superseded' = TRUE)
    BY <1>2 DEF Supersede, Quiescent, Around, vars, loopVars, history
  <2> QED BY <1>1, <2>1, WorldKeeps
<1>3. CASE \E e \in Engine : CooldownEnds(e) \/ RequestProbe(e)
  <2>1. /\ Around /\ gen_counter' = gen_counter /\ stop_epoch' = stop_epoch
        /\ stopping' = stopping /\ inbox' = inbox /\ submitted' = submitted /\ slot' = slot
        /\ superseded' = superseded
        /\ \E e \in Engine : circuit[e] = "open" /\ circuit' = [circuit EXCEPT ![e] = "ready"]
    BY <1>3 DEF CooldownEnds, RequestProbe, Around, loopVars, history
  <2> QED BY <1>1, <2>1, WorldKeeps
<1>4. CASE \E e \in Engine : AbandonedReturns(e)
  <2>1. PICK e \in Engine : AbandonedReturns(e)
    BY <1>4
  <2>2. /\ Around /\ gen_counter' = gen_counter /\ stop_epoch' = stop_epoch
        /\ stopping' = stopping /\ inbox' = inbox /\ submitted' = submitted
        /\ superseded' = superseded /\ circuit' = circuit /\ Slots!ComeBack(e)
    BY <2>1 DEF AbandonedReturns, Around, loopVars, history
  <2>3. slot' \in [Engine -> {"free", "held", "abandoned"}]
    BY <2>2, SlotsAreTyped
  <2> QED BY <2>2, <2>3, WorldKeeps
<1> QED BY <1>2, <1>3, <1>4

LEMMA RoutingInitially ==
    ASSUME RoutingAssumption, Init
    PROVE  RoutingInv
<1>1. /\ gen_counter = 0 /\ stop_epoch = [e \in Engine |-> 0] /\ slot = [e \in Engine |-> "free"]
      /\ recover = [e \in Engine |-> FALSE] /\ stopping = {} /\ inbox = <<>> /\ submitted = 0
      /\ circuit = [e \in Engine |-> "closed"] /\ superseded = FALSE /\ excluded = {}
      /\ w = Idle /\ tried = <<>> /\ heard = {} /\ faulted = {} /\ failing = {}
      /\ reconnected = FALSE
  BY DEF Init, Slots!Init
<1>2. /\ MaxAttempts \in Nat \ {0} /\ MaxChunks \in Nat \ {0} /\ MaxGeneration \in Nat
      /\ MaxRequests \in Nat
  BY DEF RoutingAssumption
<1>3. /\ w \in WorkerType /\ w.pc = "idle" /\ w.permit = "none" /\ w.gen = 0
  BY <1>1, IdleWorker
<1>4. Len(<<>>) = 0 /\ 1 .. Len(<<>>) = {}
  OBVIOUS
<1>5. RoutingTypeOK
  <2>1. /\ stop_epoch \in [Engine -> 0 .. MaxGeneration] /\ gen_counter \in 0 .. MaxGeneration
        /\ slot \in [Engine -> {"free", "held", "abandoned"}] /\ submitted \in 0 .. MaxRequests
        /\ circuit \in [Engine -> Circuit]
    BY <1>1, <1>2 DEF Circuit
  <2>2. recover \in [Engine -> BOOLEAN] /\ superseded \in BOOLEAN /\ reconnected \in BOOLEAN
    BY <1>1
  <2>3. /\ inbox \in Seq(0 .. MaxGeneration) /\ tried \in Seq(Voice)
        /\ heard \subseteq 0 .. MaxAttempts /\ excluded \subseteq Voice
        /\ stopping \subseteq Engine /\ faulted \subseteq Engine /\ failing \subseteq Engine
    BY <1>1
  <2> QED BY <1>3, <2>1, <2>2, <2>3 DEF RoutingTypeOK
<1>6. Attempting /\ ProbeHeld /\ Recovers /\ Blame /\ HeardOnce
  BY <1>1, <1>3 DEF Attempting, ProbeHeld, Recovers, Blame, HeardOnce, Permitted, Unstarted
<1>7. InterruptsReach
  BY <1>1, <1>3, <1>4 DEF InterruptsReach, Busy, InCall
<1>8. TriedOnce
  BY <1>1, <1>2, <1>3, <1>4 DEF TriedOnce, Permitted
<1> QED BY <1>5, <1>6, <1>7, <1>8 DEF RoutingInv

LEMMA RoutingKeeps ==
    ASSUME RoutingAssumption, RoutingInv, [Next]_vars
    PROVE  RoutingInv'
<1>1. CASE LoopStep
  BY <1>1, SubmitKeeps, InterruptKeeps, StopEngineKeeps DEF LoopStep
<1>2. CASE Supersede \/ Quiescent
           \/ \E e \in Engine : CooldownEnds(e) \/ RequestProbe(e) \/ AbandonedReturns(e)
  BY <1>2, WorldStepKeeps
<1>3. CASE WorkerStep
  BY <1>3, TakeRequestKeeps, StartChunkKeeps, AttemptCancelledKeeps, PermitKeeps, DeniedKeeps,
     ReleasesKeep, PrepareKeeps, PrepareFailsKeeps, EntryKeeps, AdmittedKeeps, ReturnsKeep,
     SpawnKeeps, SucceededKeeps, FailedEngineKeeps
     DEF WorkerStep
<1>4. CASE NativeStep
  BY <1>4, OutputKeeps, RefusedOutputKeeps, ReturnsKeep DEF NativeStep
<1>5. CASE UNCHANGED vars
  <2>1. /\ Around /\ gen_counter' = gen_counter /\ stop_epoch' = stop_epoch
        /\ stopping' = stopping /\ inbox' = inbox /\ submitted' = submitted /\ slot' = slot
        /\ circuit' = circuit /\ superseded' = superseded
    BY <1>5 DEF Around, vars, loopVars, history
  <2>2. slot \in [Engine -> {"free", "held", "abandoned"}]
    BY DEF RoutingInv, RoutingTypeOK
  <2> QED BY <2>1, <2>2, WorldKeeps
<1> QED BY <1>1, <1>2, <1>3, <1>4, <1>5 DEF Next

\* A set of which any two elements are equal has at most one.
LEMMA AtMostOne ==
    ASSUME NEW S, IsFiniteSet(S), \A a, b \in S : a = b
    PROVE  Cardinality(S) <= 1
<1>1. CASE S = {}
  BY <1>1, FS_EmptySet
<1>2. CASE S # {}
  <2>1. PICK a : S = {a}
    BY <1>2
  <2> QED BY <2>1, FS_Singleton
<1> QED BY <1>1, <1>2

LEMMA RoutingInvSound ==
    ASSUME RoutingAssumption, RoutingInv
    PROVE  RoutingInvariant
<1>1. TypeOK
  BY DEF RoutingInv, RoutingTypeOK, TypeOK, WorkerType
<1>2. NoSplice
  <2>1. IsFiniteSet(0 .. MaxAttempts) /\ heard \subseteq 0 .. MaxAttempts
    <3>1. 0 \in Int /\ MaxAttempts \in Int
      BY DEF RoutingAssumption
    <3> QED BY <3>1, FS_Interval DEF RoutingInv, RoutingTypeOK
  <2>2. IsFiniteSet(heard)
    BY <2>1, FS_Subset
  <2> QED BY <2>2, AtMostOne DEF NoSplice, RoutingInv, HeardOnce
<1>3. ProbeIsHeld
  BY DEF ProbeIsHeld, RoutingInv, ProbeHeld, Attempting
<1>4. BlameIsEarned /\ ProbeReconnects
  BY DEF BlameIsEarned, ProbeReconnects, RoutingInv, Blame, Recovers
<1>5. NeverRetriesFailed
  <2>1. tried \in Seq(Voice) /\ DOMAIN tried = 1 .. Len(tried)
    BY DEF RoutingInv, RoutingTypeOK
  <2> QED BY <2>1 DEF NeverRetriesFailed, RoutingInv, TriedOnce, Permitted
<1> QED BY <1>1, <1>2, <1>3, <1>4, <1>5 DEF RoutingInvariant

\* Routing by itself: no utterance is spoken by two engines, a half-open probe is
\* held by an attempt that will resolve it, an engine is blamed only for its own
\* failure, a probe reconnects, no voice is tried twice for a chunk.
THEOREM RoutingIsSafe == Spec => []RoutingInvariant
<1>1. Spec => []RoutingInv
  BY RoutingAssumption, RoutingInitially, RoutingKeeps, PTL DEF Spec
<1> QED BY <1>1, RoutingAssumption, RoutingInvSound, PTL

------------------------------
(* The engines as the run composes them *)

\* What the run shows of routing, for every value of the constants.
THEOREM RoutingIsSound == EnginesSpec => []RoutingSound
<1>1. EnginesInit => (which = "routing" => RoutingInv)
  BY RoutingAssumption, RoutingInitially DEF EnginesInit
<1>2. (which = "routing" => RoutingInv)
         /\ [EnginesNext]_enginesVars
      => (which = "routing" => RoutingInv)'
  BY RoutingAssumption, RoutingKeeps DEF EnginesNext, enginesVars
<1>3. (which = "routing" => RoutingInv) => RoutingSound
  BY RoutingAssumption, RoutingInvSound DEF RoutingSound
<1> QED BY <1>1, <1>2, <1>3, PTL DEF EnginesSpec

------------------------------
(* The macOS engine *)

MoStages == {"idle", "waiting", "locking", "locked", "opened", "polling", "polled",
             "confirming", "dropping", "ended"}
MoCaptureType ==
    [ring : Seq(Nat), accepted : Nat, finished : BOOLEAN, cancelled : BOOLEAN,
     retired : BOOLEAN, reason : {"none", "complete", "failed"}]
MoStatusType == [kind : {"audio", "pending", "complete", "failed"}, window : Nat]

\* Where a call has no capture yet, where it holds SERIAL, and where its loop turns.
MoEarly == {"idle", "waiting", "locking", "locked"}
MoHolding == {"locked", "opened", "polling", "polled", "confirming", "dropping"}
MoLoop == {"opened", "polling", "polled"}

Counts(s, from) == \A i \in 1 .. Len(s) : s[i] = from + i

\* The sink has had every window the capture accepted.
Whole(got, capture) ==
    capture.finished /\ Len(got) = capture.accepted /\ Counts(got, 0)

\* The windows of a capture that may still succeed: those the sink has had, one that
\* was polled, those in the ring and those of a running callback follow each other.
Following(stage, status, got, capture, callback) ==
    LET taken == IF stage = "polled" /\ status.kind = "audio" THEN 1 ELSE 0
    IN  /\ Counts(got, 0)
        /\ taken = 1 => status.window = Len(got) + 1
        /\ Counts(capture.ring, Len(got) + taken)
        /\ Len(got) + taken + Len(capture.ring) + callback = capture.accepted
        /\ capture.finished => callback = 0

\* One call, with its capture, the capture's block and its callback.
CallSound(stage, status, outcome, got, capture, owner, callback) ==
    /\ owner = "none" => capture = MoClosed /\ callback = 0
    /\ stage \in MoEarly => owner = "none" /\ got = <<>>
    /\ stage \in MoLoop \cup {"confirming", "dropping"} => owner # "none"
    /\ capture.retired <=> owner = "retired"
    /\ stage \in {"confirming", "dropping", "ended"} /\ owner # "none" => capture.cancelled
    /\ stage = "polled" /\ status.kind = "complete" => Whole(got, capture)
    /\ stage \in {"confirming", "dropping"} /\ outcome = "ok" => Whole(got, capture)
    /\ stage \in MoLoop /\ ~capture.cancelled /\ (capture.finished => capture.reason = "complete")
          => Following(stage, status, got, capture, callback)

MoTypeOK ==
    /\ moStage \in [MoCall -> MoStages]
    /\ moStatus \in [MoCall -> MoStatusType]
    /\ moOutcome \in [MoCall -> {"none", "ok", "empty", "error", "panic"}]
    /\ moHeard \in [MoCall -> Seq(Nat)]
    /\ moCapture \in [MoCall -> MoCaptureType]
    /\ moOwner \in [MoCall -> {"none", "queued", "writing", "watching", "closing", "failed",
                               "retired"}]
    /\ moCallback \in [MoCall -> Nat]

\* SERIAL admits one call at a time, and none once the engine is quarantined: that a
\* capture which did not retire is left behind is known before SERIAL is released.
MoSerialised ==
    /\ \A c \in MoCall : moStage[c] \in MoHolding => moSerial = c
    /\ moActive # MoNobody => /\ moActive \in MoCall
                              /\ moStage[moActive] \in {"polling", "polled", "confirming", "dropping"}
    /\ \A c \in MoCall : moStage[c] \in MoLoop \cup {"confirming"} => ~moQuarantined
    /\ \A c \in MoCall :
          moStage[c] \in {"dropping", "ended"} /\ moOwner[c] \notin {"none", "retired"}
             => moQuarantined

MoInv ==
    /\ MoTypeOK /\ MoSerialised /\ SynthesizerExclusive
    /\ \A c \in MoCall : CallSound(moStage[c], moStatus[c], moOutcome[c], moHeard[c],
                                   moCapture[c], moOwner[c], moCallback[c])

------------------------------
(* The MBROLA helper *)

MbHolding == {"locked", "pho", "pcm"} \cup MbCapturing

MbInv ==
    /\ mbStage \in [MbCall -> {"ready", "waiting", "ended"} \cup MbHolding]
    /\ mbResult \in [MbCall -> {"none", "ok", "error"}]
    /\ mbGeneration \in [MbCall -> Nat] /\ mbEntered \in [MbCall -> Nat]
    /\ mbOutputs \subseteq MbPipes
    /\ \A c \in MbCall : mbStage[c] \in MbHolding => mbOwner = c
    /\ \A c \in MbCall : mbStage[c] # "ready" => mbGeneration[c] = mbEntered[c]
    /\ mbHelper = "alive" /\ (\E c \in MbCall : mbStage[c] \in MbCapturing)
          => mbThreads = MbPipes \ mbOutputs
    /\ NothingNativeLeft

MoOutcomes == {"none", "ok", "empty", "error", "panic"}
MoOwners == {"none", "queued", "writing", "watching", "closing", "failed", "retired"}

\* The fields of a finished capture: the first reason stands.
LEMMA FinishFields ==
    \A k \in MoCaptureType : \A reason \in {"complete", "failed"} :
           /\ MoFinish(k, reason) \in MoCaptureType
           /\ MoFinish(k, reason).accepted = k.accepted
           /\ MoFinish(k, reason).cancelled = k.cancelled
           /\ MoFinish(k, reason).retired = k.retired
           /\ MoFinish(k, reason).finished = TRUE
           /\ k.finished = TRUE => MoFinish(k, reason) = k
           /\ k.finished = FALSE => MoFinish(k, reason).reason = reason
           /\ k.finished = FALSE /\ reason = "complete" => MoFinish(k, reason).ring = k.ring
<1> SUFFICES ASSUME NEW k \in MoCaptureType, NEW reason \in {"complete", "failed"}
             PROVE  /\ MoFinish(k, reason) \in MoCaptureType
                    /\ MoFinish(k, reason).accepted = k.accepted
                    /\ MoFinish(k, reason).cancelled = k.cancelled
                    /\ MoFinish(k, reason).retired = k.retired
                    /\ MoFinish(k, reason).finished = TRUE
                    /\ k.finished = TRUE => MoFinish(k, reason) = k
                    /\ k.finished = FALSE => MoFinish(k, reason).reason = reason
                    /\ k.finished = FALSE /\ reason = "complete"
                          => MoFinish(k, reason).ring = k.ring
  OBVIOUS
<1>1. CASE k.finished = TRUE
  <2>1. MoFinish(k, reason) = k
    BY <1>1 DEF MoFinish
  <2> QED BY <1>1, <2>1
<1>2. CASE k.finished = FALSE
  <2> DEFINE r == IF MoSucceeds(reason) THEN k.ring ELSE <<>>
  <2>1. r \in Seq(Nat)
    BY DEF MoCaptureType
  <2>2. reason = "complete" => r = k.ring
    BY DEF MoSucceeds
  <2>3. MoFinish(k, reason) = [k EXCEPT !.finished = TRUE, !.reason = reason, !.ring = r]
    BY <1>2 DEF MoFinish
  <2> HIDE DEF r
  <2>4. [k EXCEPT !.finished = TRUE, !.reason = reason, !.ring = r] \in MoCaptureType
    BY <2>1 DEF MoCaptureType
  <2>5. /\ MoFinish(k, reason).accepted = k.accepted
        /\ MoFinish(k, reason).cancelled = k.cancelled
        /\ MoFinish(k, reason).retired = k.retired
        /\ MoFinish(k, reason).finished = TRUE
        /\ MoFinish(k, reason).reason = reason
        /\ MoFinish(k, reason).ring = r
    BY <2>3 DEF MoCaptureType
  <2> QED BY <1>2, <2>2, <2>3, <2>4, <2>5
<1>3. k.finished \in BOOLEAN
  BY DEF MoCaptureType
<1> QED BY <1>1, <1>2, <1>3

\* The fields of a cancelled capture.
LEMMA CancelFields ==
    ASSUME NEW k \in MoCaptureType
    PROVE  /\ MoCancelCapture(k) \in MoCaptureType
           /\ MoCancelCapture(k).accepted = k.accepted
           /\ MoCancelCapture(k).finished = k.finished
           /\ MoCancelCapture(k).retired = k.retired
           /\ MoCancelCapture(k).cancelled = TRUE
<1> DEFINE r == <<>>
<1>1. r \in Seq(Nat)
  OBVIOUS
<1>2. MoCancelCapture(k) = [k EXCEPT !.cancelled = TRUE, !.ring = r]
  BY DEF MoCancelCapture
<1> HIDE DEF r
<1> QED BY <1>1, <1>2 DEF MoCaptureType

\* The fields of a blank capture, and of one released after it retired.
LEMMA ClosedFields ==
    /\ MoClosed \in MoCaptureType /\ MoReleased \in MoCaptureType
    /\ MoClosed.ring = <<>> /\ MoClosed.accepted = 0 /\ MoClosed.finished = FALSE
    /\ MoClosed.cancelled = FALSE /\ MoClosed.retired = FALSE
    /\ MoReleased.cancelled = TRUE /\ MoReleased.retired = TRUE
<1> DEFINE r == <<>>
<1>1. r \in Seq(Nat)
  OBVIOUS
<1>2. MoClosed = [ring |-> r, accepted |-> 0, finished |-> FALSE, cancelled |-> FALSE,
                  retired |-> FALSE, reason |-> "none"]
  BY DEF MoClosed
<1>3. MoClosed.ring = <<>>
  BY DEF MoClosed
<1> HIDE DEF r
<1>4. /\ MoClosed \in MoCaptureType
      /\ MoClosed.accepted = 0 /\ MoClosed.finished = FALSE
      /\ MoClosed.cancelled = FALSE /\ MoClosed.retired = FALSE
  BY <1>1, <1>2 DEF MoCaptureType
<1>5. MoReleased = [MoClosed EXCEPT !.cancelled = TRUE, !.retired = TRUE]
  BY DEF MoReleased
<1>6. /\ MoReleased \in MoCaptureType
      /\ MoReleased.cancelled = TRUE /\ MoReleased.retired = TRUE
  BY <1>4, <1>5 DEF MoCaptureType
<1> QED BY <1>3, <1>4, <1>6

\* What polling reads, and what it leaves of the capture.
LEMMA StatusFields ==
    ASSUME NEW k \in MoCaptureType
    PROVE  /\ MoNext(k) \in MoStatusType
           /\ MoNext(k).kind = "audio" =>
                 /\ ~k.cancelled /\ k.ring # <<>> /\ MoNext(k).window = Head(k.ring)
                 /\ MoTaken(k) = [k EXCEPT !.ring = Tail(@)]
           /\ MoNext(k).kind # "audio" => MoTaken(k) = k
           /\ MoNext(k).kind = "complete" =>
                 ~k.cancelled /\ k.finished /\ k.ring = <<>> /\ k.reason = "complete"
           /\ MoTaken(k) \in MoCaptureType
<1> DEFINE kind == IF MoReady(k) THEN "audio"
                   ELSE IF k.cancelled THEN "failed"
                   ELSE IF ~k.finished THEN "pending"
                   ELSE IF MoSucceeds(k.reason) THEN "complete" ELSE "failed"
           window == IF MoReady(k) THEN Head(k.ring) ELSE 0
<1>1. k.ring \in Seq(Nat)
  BY DEF MoCaptureType
<1>2. window \in Nat
  BY <1>1 DEF MoReady
<1>3. kind \in {"audio", "pending", "complete", "failed"}
  OBVIOUS
<1>4. kind = "audio" <=> MoReady(k)
  OBVIOUS
<1>5. MoNext(k) = [kind |-> kind, window |-> window]
  BY DEF MoNext
<1>6. kind = "complete" => ~MoReady(k) /\ ~k.cancelled /\ k.finished /\ k.reason = "complete"
  BY DEF MoSucceeds
<1>7. kind = "audio" => window = Head(k.ring)
  BY <1>4
<1> HIDE DEF kind, window
<1>8. MoNext(k) \in MoStatusType /\ MoNext(k).kind = kind /\ MoNext(k).window = window
  BY <1>2, <1>3, <1>5 DEF MoStatusType
<1>9. MoTaken(k) \in MoCaptureType
  <2>1. CASE MoReady(k)
    <3>1. Tail(k.ring) \in Seq(Nat)
      BY <1>1, <2>1 DEF MoReady
    <3> DEFINE t == Tail(k.ring)
    <3>2. MoTaken(k) = [k EXCEPT !.ring = t]
      BY <2>1 DEF MoTaken
    <3> HIDE DEF t
    <3> QED BY <3>1, <3>2 DEF MoCaptureType, t
  <2> QED BY <2>1 DEF MoTaken
<1> QED BY <1>4, <1>6, <1>7, <1>8, <1>9 DEF MoReady, MoTaken

\* A finished capture, also when its block has another stage.
LEMMA FinishSound ==
    ASSUME NEW st \in MoStages, NEW u \in MoStatusType, NEW o \in MoOutcomes,
           NEW h \in Seq(Nat), NEW k \in MoCaptureType, NEW n \in MoOwners, NEW b \in Nat,
           NEW m \in MoOwners, NEW reason \in {"complete", "failed"},
           CallSound(st, u, o, h, k, n, b),
           n # "none", m # "none", m = "retired" <=> n = "retired",
           reason = "complete" /\ k.finished = FALSE => b = 0
    PROVE  CallSound(st, u, o, h, MoFinish(k, reason), m, b)
<1> DEFINE f == MoFinish(k, reason)
<1>1. /\ f \in MoCaptureType /\ f.accepted = k.accepted
      /\ f.cancelled = k.cancelled
      /\ f.retired = k.retired
      /\ f.finished = TRUE
      /\ k.finished => f = k
      /\ ~k.finished => f.reason = reason
      /\ ~k.finished /\ reason = "complete" => f.ring = k.ring
  <2>1. f \in MoCaptureType
    BY FinishFields
  <2>2. f.accepted = k.accepted /\ f.cancelled = k.cancelled /\ f.retired = k.retired
    BY FinishFields
  <2>3. f.finished = TRUE
    BY FinishFields
  <2>4. k.finished = TRUE => f = k
    BY FinishFields
  <2>5. k.finished = FALSE => f.reason = reason
    BY FinishFields
  <2>6. k.finished = FALSE /\ reason = "complete" => f.ring = k.ring
    BY FinishFields
  <2>7. k.finished \in BOOLEAN
    BY DEF MoCaptureType
  <2> QED BY <2>1, <2>2, <2>3, <2>4, <2>5, <2>6, <2>7
<1> HIDE DEF f
<1>2. f.retired <=> m = "retired"
  BY <1>1 DEF CallSound
<1>3. st \in {"confirming", "dropping", "ended"} => f.cancelled
  BY <1>1 DEF CallSound
<1>4. /\ st = "polled" /\ u.kind = "complete" => Whole(h, f)
      /\ st \in {"confirming", "dropping"} /\ o = "ok" => Whole(h, f)
  BY <1>1 DEF CallSound, Whole
<1>5. ASSUME st \in MoLoop, ~f.cancelled, f.finished => f.reason = "complete"
      PROVE  Following(st, u, h, f, b)
  <2>1. CASE k.finished
    BY <1>1, <1>5, <2>1 DEF CallSound
  <2>2. CASE ~k.finished
    <3>1. f.reason = "complete" /\ reason = "complete" /\ b = 0 /\ f.ring = k.ring
      BY <1>1, <1>5, <2>2
    <3>2. Following(st, u, h, k, b)
      BY <1>1, <1>5, <2>2 DEF CallSound
    <3> QED BY <1>1, <3>1, <3>2 DEF Following
  <2> QED BY <2>1, <2>2
<1> QED BY <1>2, <1>3, <1>4, <1>5 DEF CallSound, f, MoEarly

\* A cancelled capture can no longer succeed.
LEMMA CancelSound ==
    ASSUME NEW st \in MoStages, NEW u \in MoStatusType, NEW o \in MoOutcomes,
           NEW h \in Seq(Nat), NEW k \in MoCaptureType, NEW n \in MoOwners, NEW b \in Nat,
           CallSound(st, u, o, h, k, n, b), n # "none"
    PROVE  CallSound(st, u, o, h, MoCancelCapture(k), n, b)
<1> DEFINE f == MoCancelCapture(k)
<1>1. /\ f.accepted = k.accepted /\ f.finished = k.finished
      /\ f.retired = k.retired /\ f.cancelled = TRUE
  BY CancelFields
<1> HIDE DEF f
<1>2. f.retired <=> n = "retired"
  BY <1>1 DEF CallSound
<1>3. /\ st = "polled" /\ u.kind = "complete" => Whole(h, f)
      /\ st \in {"confirming", "dropping"} /\ o = "ok" => Whole(h, f)
  BY <1>1 DEF CallSound, Whole
<1> QED BY <1>1, <1>2, <1>3 DEF CallSound, f, MoEarly

\* The block's own stages, while the capture stays as it is.
LEMMA OwnerSound ==
    ASSUME NEW st, NEW u, NEW o, NEW h, NEW k, NEW n, NEW b, NEW m,
           CallSound(st, u, o, h, k, n, b),
           n \notin {"none", "retired"}, m \notin {"none", "retired"}
    PROVE  CallSound(st, u, o, h, k, m, b)
BY DEF CallSound, MoEarly

\* A block that ends says so in its capture.
LEMMA RetireSound ==
    ASSUME NEW st \in MoStages, NEW u \in MoStatusType, NEW o \in MoOutcomes,
           NEW h \in Seq(Nat), NEW k \in MoCaptureType, NEW n \in MoOwners, NEW b \in Nat,
           CallSound(st, u, o, h, k, n, b), n # "none"
    PROVE  /\ [k EXCEPT !.retired = TRUE] \in MoCaptureType
           /\ CallSound(st, u, o, h, [k EXCEPT !.retired = TRUE], "retired", b)
<1> DEFINE f == [k EXCEPT !.retired = TRUE]
<1>1. /\ f \in MoCaptureType /\ f.accepted = k.accepted /\ f.finished = k.finished
      /\ f.cancelled = k.cancelled /\ f.retired = TRUE /\ f.ring = k.ring /\ f.reason = k.reason
  BY DEF MoCaptureType
<1> HIDE DEF f
<1>2. f.retired <=> "retired" = "retired"
  BY <1>1
<1>3. st \in {"confirming", "dropping", "ended"} => f.cancelled
  BY <1>1 DEF CallSound
<1>4. /\ st = "polled" /\ u.kind = "complete" => Whole(h, f)
      /\ st \in {"confirming", "dropping"} /\ o = "ok" => Whole(h, f)
  BY <1>1 DEF CallSound, Whole
<1>5. ASSUME st \in MoLoop, ~f.cancelled, f.finished => f.reason = "complete"
      PROVE  Following(st, u, h, f, b)
  <2>1. Following(st, u, h, k, b)
    BY <1>1, <1>5 DEF CallSound
  <2> QED BY <1>1, <2>1 DEF Following
<1> QED BY <1>1, <1>2, <1>3, <1>4, <1>5 DEF CallSound, f, MoEarly

\* A buffer of m windows is accepted.
LEMMA AcceptSound ==
    ASSUME NEW st \in MoStages, NEW u \in MoStatusType, NEW o \in MoOutcomes,
           NEW h \in Seq(Nat), NEW k \in MoCaptureType, NEW n \in MoOwners, NEW m \in Nat,
           CallSound(st, u, o, h, k, n, 0), n # "none", k.finished = FALSE, k.cancelled = FALSE,
           NEW a \in Nat, a = k.accepted + m
    PROVE  /\ [k EXCEPT !.accepted = a] \in MoCaptureType
           /\ CallSound(st, u, o, h, [k EXCEPT !.accepted = a], n, m)
<1> DEFINE f == [k EXCEPT !.accepted = a]
<1>0. PICK ring \in Seq(Nat), acc \in Nat : ring = k.ring /\ acc = k.accepted
  BY DEF MoCaptureType
<1>1. /\ f \in MoCaptureType /\ f.accepted = a /\ f.finished = k.finished
      /\ f.cancelled = k.cancelled /\ f.retired = k.retired /\ f.ring = k.ring
      /\ f.reason = k.reason
  BY DEF MoCaptureType
<1> HIDE DEF f
<1>2. f.retired <=> n = "retired"
  BY <1>1 DEF CallSound
<1>3. /\ st \notin {"confirming", "dropping", "ended"}
      /\ ~(st = "polled" /\ u.kind = "complete")
  BY DEF CallSound, Whole
<1>5. ASSUME st \in MoLoop
      PROVE  Following(st, u, h, f, m)
  <2>1. Following(st, u, h, k, 0)
    BY <1>1, <1>5 DEF CallSound
  <2>3. ~f.finished
    BY <1>1
  <2> DEFINE taken == IF st = "polled" /\ u.kind = "audio" THEN 1 ELSE 0
  <2>4. /\ Counts(h, 0)
        /\ taken = 1 => u.window = Len(h) + 1
        /\ Counts(ring, Len(h) + taken)
        /\ Len(h) + taken + Len(ring) + 0 = acc
    BY <1>0, <2>1 DEF Following
  <2>5. taken \in Nat
    OBVIOUS
  <2>6. Len(h) + taken + Len(ring) + m = a
    <3>1. a = acc + m
      BY <1>0
    <3> HIDE DEF taken
    <3> QED BY <2>4, <2>5, <3>1
  <2> QED BY <1>0, <1>1, <2>3, <2>4, <2>6 DEF Following
<1> QED BY <1>1, <1>2, <1>3, <1>5 DEF CallSound, f, MoEarly

\* The next window of a running callback goes to the ring.
LEMMA PublishSound ==
    ASSUME NEW st \in MoStages, NEW u \in MoStatusType, NEW o \in MoOutcomes,
           NEW h \in Seq(Nat), NEW k \in MoCaptureType, NEW n \in MoOwners, NEW b \in Nat,
           CallSound(st, u, o, h, k, n, b), b > 0, k.finished = FALSE, k.cancelled = FALSE
    PROVE  /\ [k EXCEPT !.ring = Append(@, k.accepted - b + 1)] \in MoCaptureType
           /\ CallSound(st, u, o, h, [k EXCEPT !.ring = Append(@, k.accepted - b + 1)], n, b - 1)
<1>1. PICK ring \in Seq(Nat), acc \in Nat : ring = k.ring /\ acc = k.accepted
  BY DEF MoCaptureType
<1> DEFINE next == acc - b + 1
           r == Append(ring, next)
           f == [k EXCEPT !.ring = r]
           taken == IF st = "polled" /\ u.kind = "audio" THEN 1 ELSE 0
<1>2. n # "none" /\ st \in MoLoop
  BY DEF CallSound, MoEarly, MoLoop, MoStages
<1>3. Following(st, u, h, k, b)
  BY <1>2 DEF CallSound
<1>4. /\ Counts(h, 0)
      /\ taken = 1 => u.window = Len(h) + 1
      /\ Counts(ring, Len(h) + taken)
      /\ Len(h) + taken + Len(ring) + b = acc
  BY <1>1, <1>3 DEF Following
<1>5. taken \in Nat /\ Len(h) + taken + Len(ring) + b = acc
  BY <1>4
<1>6. next \in Nat /\ next = Len(h) + taken + Len(ring) + 1
  <2> HIDE DEF taken
  <2> QED BY <1>5
<1>7. r \in Seq(Nat) /\ Len(r) = Len(ring) + 1 /\ r[Len(ring) + 1] = next
      /\ \A i \in 1 .. Len(ring) : r[i] = ring[i]
  <2> HIDE DEF next
  <2> QED BY <1>6
<1> HIDE DEF r, next
<1>8. /\ f \in MoCaptureType /\ f.accepted = acc /\ f.finished = k.finished
      /\ f.cancelled = k.cancelled /\ f.retired = k.retired /\ f.ring = r
      /\ f.reason = k.reason
  BY <1>1, <1>7 DEF MoCaptureType
<1>9. [k EXCEPT !.ring = Append(@, k.accepted - b + 1)] = f
  BY <1>1 DEF r, next
<1> HIDE DEF f
<1>10. Counts(r, Len(h) + taken)
  <2> HIDE DEF taken
  <2> SUFFICES ASSUME NEW i \in 1 .. Len(r) PROVE r[i] = Len(h) + taken + i
    BY DEF Counts
  <2>1. CASE i = Len(ring) + 1
    BY <1>5, <1>6, <1>7, <2>1
  <2>2. CASE i # Len(ring) + 1
    <3>1. i \in 1 .. Len(ring)
      BY <1>7, <2>2
    <3> QED BY <1>4, <1>7, <3>1 DEF Counts
  <2> QED BY <2>1, <2>2
<1>11. Len(h) + taken + Len(r) + (b - 1) = acc
  <2> HIDE DEF taken
  <2>1. Len(r) = Len(ring) + 1
    BY <1>7
  <2> QED BY <1>5, <2>1
<1>12. Following(st, u, h, f, b - 1)
  <2>1. ~f.finished
    BY <1>8
  <2> QED BY <1>4, <1>8, <1>10, <1>11, <2>1 DEF Following
<1>13. /\ st \notin {"confirming", "dropping", "ended"}
       /\ ~(st = "polled" /\ u.kind = "complete")
  BY DEF CallSound, Whole
<1>14. f.retired <=> n = "retired"
  BY <1>8 DEF CallSound
<1>15. CallSound(st, u, o, h, f, n, b - 1)
  BY <1>2, <1>12, <1>13, <1>14 DEF CallSound, MoEarly
<1> QED BY <1>8, <1>9, <1>15

\* A running callback gives up: its capture is shut, or is finished as failed.
LEMMA GiveUpSound ==
    ASSUME NEW st \in MoStages, NEW u \in MoStatusType, NEW o \in MoOutcomes,
           NEW h \in Seq(Nat), NEW k \in MoCaptureType, NEW n \in MoOwners, NEW b \in Nat,
           CallSound(st, u, o, h, k, n, b), b > 0,
           k.cancelled = TRUE \/ k.finished = TRUE
    PROVE  CallSound(st, u, o, h, k, n, 0)
<1>1. ASSUME st \in MoLoop, ~k.cancelled, k.finished => k.reason = "complete"
      PROVE  FALSE
  <2>1. Following(st, u, h, k, b)
    BY <1>1 DEF CallSound
  <2> QED BY <1>1, <2>1 DEF Following
<1> QED BY <1>1 DEF CallSound

\* Polling moves the first window of the ring to the call, and learns how the
\* capture ended only when its ring is empty.
LEMMA PollSound ==
    ASSUME NEW u \in MoStatusType, NEW o \in MoOutcomes,
           NEW h \in Seq(Nat), NEW k \in MoCaptureType, NEW n \in MoOwners, NEW b \in Nat,
           CallSound("polling", u, o, h, k, n, b)
    PROVE  CallSound("polled", MoNext(k), o, h, MoTaken(k), n, b)
<1> DEFINE v == MoNext(k)
           f == MoTaken(k)
<1>1. PICK ring \in Seq(Nat), acc \in Nat : ring = k.ring /\ acc = k.accepted
  BY DEF MoCaptureType
<1>2. n # "none"
  BY DEF CallSound, MoLoop
<1>3. ~k.cancelled /\ (k.finished => k.reason = "complete") => Following("polling", u, h, k, b)
  BY DEF CallSound, MoLoop
<1>4. CASE v.kind = "audio"
  <2>1. /\ v.window = Head(ring) /\ ring # <<>>
        /\ f = [k EXCEPT !.ring = Tail(ring)]
    BY <1>1, <1>4, StatusFields
  <2> DEFINE r == Tail(ring)
  <2>2. /\ r \in Seq(Nat) /\ Len(ring) = Len(r) + 1 /\ Head(ring) = ring[1]
        /\ \A i \in 1 .. Len(r) : r[i] = ring[i + 1]
    BY <2>1
  <2> HIDE DEF r
  <2>3. /\ f.accepted = acc /\ f.finished = k.finished /\ f.reason = k.reason
        /\ f.cancelled = k.cancelled /\ f.retired = k.retired /\ f.ring = r
    BY <1>1, <2>1 DEF MoCaptureType, r
  <2> HIDE DEF v, f
  <2>4. ASSUME ~f.cancelled, f.finished => f.reason = "complete"
        PROVE  Following("polled", v, h, f, b)
    <3>1. Following("polling", u, h, k, b)
      BY <1>3, <2>3, <2>4
    <3>2. /\ Counts(h, 0)
          /\ Counts(ring, Len(h) + 0)
          /\ Len(h) + 0 + Len(ring) + b = acc
          /\ k.finished => b = 0
      BY <1>1, <3>1 DEF Following
    <3>3. v.window = Len(h) + 1
      <4>1. ring[1] = Len(h) + 0 + 1
        BY <2>2, <3>2 DEF Counts
      <4> QED BY <2>1, <2>2, <4>1
    <3>4. Counts(r, Len(h) + 1)
      BY <2>2, <3>2 DEF Counts
    <3>5. Len(h) + 1 + Len(r) + b = acc
      BY <2>2, <3>2
    <3> QED BY <1>4, <2>3, <3>2, <3>3, <3>4, <3>5 DEF Following
  <2>5. f.retired <=> n = "retired"
    BY <2>3 DEF CallSound
  <2> QED BY <1>2, <1>4, <2>4, <2>5 DEF CallSound, MoEarly, v, f
<1>5. CASE v.kind # "audio"
  <2>1. f = k
    BY <1>5, StatusFields
  <2>2. v.kind = "complete" =>
           ~k.cancelled /\ k.finished /\ ring = <<>> /\ k.reason = "complete"
    BY <1>1, StatusFields
  <2> HIDE DEF v, f
  <2>3. ASSUME ~k.cancelled, k.finished => k.reason = "complete"
        PROVE  Following("polled", v, h, k, b)
    <3>1. Following("polling", u, h, k, b)
      BY <1>3, <2>3
    <3> QED BY <1>5, <3>1 DEF Following
  <2>4. ASSUME v.kind = "complete"
        PROVE  Whole(h, k)
    <3>1. Following("polling", u, h, k, b)
      BY <1>3, <2>2, <2>4
    <3>2. /\ Counts(h, 0)
          /\ Len(h) + 0 + Len(ring) + b = acc
          /\ k.finished => b = 0
      BY <1>1, <3>1 DEF Following
    <3>3. Len(h) = acc
      <4>1. b = 0 /\ Len(ring) = 0
        BY <2>2, <2>4, <3>2
      <4> QED BY <3>2, <4>1
    <3> QED BY <1>1, <2>2, <2>4, <3>2, <3>3 DEF Whole
  <2> QED BY <1>2, <2>1, <2>3, <2>4 DEF CallSound, MoEarly, v, f
<1> QED BY <1>4, <1>5

\* The call's loop goes on with nothing, or with the window it polled.
LEMMA PendingSound ==
    ASSUME NEW u, NEW o, NEW h, NEW k, NEW n, NEW b,
           CallSound("polled", u, o, h, k, n, b), u.kind = "pending"
    PROVE  CallSound("polling", u, o, h, k, n, b)
BY DEF CallSound, Following, MoEarly, MoLoop

\* The polled window goes to the sink.
LEMMA HandOverSound ==
    ASSUME NEW u \in MoStatusType, NEW o \in MoOutcomes,
           NEW h \in Seq(Nat), NEW k \in MoCaptureType, NEW n \in MoOwners, NEW b \in Nat,
           CallSound("polled", u, o, h, k, n, b), u.kind = "audio"
    PROVE  /\ Append(h, u.window) \in Seq(Nat)
           /\ CallSound("polling", u, o, Append(h, u.window), k, n, b)
<1>1. PICK ring \in Seq(Nat), acc \in Nat, window \in Nat :
        ring = k.ring /\ acc = k.accepted /\ window = u.window
  BY DEF MoCaptureType, MoStatusType
<1> DEFINE g == Append(h, window)
<1>2. /\ g \in Seq(Nat) /\ Len(g) = Len(h) + 1 /\ g[Len(h) + 1] = window
      /\ \A i \in 1 .. Len(h) : g[i] = h[i]
  OBVIOUS
<1>3. Append(h, u.window) = g
  BY <1>1
<1> HIDE DEF g
<1>4. n # "none"
  BY DEF CallSound, MoLoop
<1>5. ASSUME ~k.cancelled, k.finished => k.reason = "complete"
      PROVE  Following("polling", u, g, k, b)
  <2>1. Following("polled", u, h, k, b)
    BY <1>5 DEF CallSound, MoLoop
  <2>2. /\ Counts(h, 0)
        /\ window = Len(h) + 1
        /\ Counts(ring, Len(h) + 1)
        /\ Len(h) + 1 + Len(ring) + b = acc
        /\ k.finished => b = 0
    BY <1>1, <2>1 DEF Following
  <2>3. Counts(g, 0)
    <3> SUFFICES ASSUME NEW i \in 1 .. Len(g) PROVE g[i] = 0 + i
      BY DEF Counts
    <3>1. CASE i = Len(h) + 1
      BY <1>2, <2>2, <3>1
    <3>2. CASE i # Len(h) + 1
      <4>1. i \in 1 .. Len(h)
        BY <1>2, <3>2
      <4> QED BY <1>2, <2>2, <4>1 DEF Counts
    <3> QED BY <3>1, <3>2
  <2>4. Counts(ring, Len(g) + 0) /\ Len(g) + 0 + Len(ring) + b = acc
    <3>1. Len(g) + 0 = Len(h) + 1
      BY <1>2
    <3> QED BY <2>2, <3>1
  <2> QED BY <1>1, <2>2, <2>3, <2>4 DEF Following
<1>6. k.retired <=> n = "retired"
  BY DEF CallSound
<1> QED BY <1>2, <1>3, <1>4, <1>5, <1>6 DEF CallSound, MoEarly

\* The loop ends: with success only after the capture's end was polled.
LEMMA LeaveSound ==
    ASSUME NEW st \in {"polling", "polled"}, NEW u \in MoStatusType, NEW v \in MoStatusType,
           NEW o \in MoOutcomes, NEW p \in MoOutcomes,
           NEW h \in Seq(Nat), NEW k \in MoCaptureType, NEW n \in MoOwners, NEW b \in Nat,
           CallSound(st, u, o, h, k, n, b),
           p = "ok" => st = "polled" /\ u.kind = "complete"
    PROVE  CallSound("confirming", v, p, h, MoCancelCapture(k), n, b)
<1> DEFINE f == MoCancelCapture(k)
<1>1. /\ f.accepted = k.accepted /\ f.finished = k.finished
      /\ f.retired = k.retired /\ f.cancelled = TRUE
  BY CancelFields
<1> HIDE DEF f
<1>2. f.retired <=> n = "retired"
  BY <1>1 DEF CallSound
<1>3. p = "ok" => Whole(h, f)
  BY <1>1 DEF CallSound, Whole
<1>4. n # "none"
  BY DEF CallSound, MoLoop
<1> QED BY <1>1, <1>2, <1>3, <1>4 DEF CallSound, f, MoEarly, MoLoop

\* A confirmed call keeps its outcome, or loses it.
LEMMA ConfirmSound ==
    ASSUME NEW u, NEW o, NEW p, NEW h, NEW k, NEW n, NEW b,
           CallSound("confirming", u, o, h, k, n, b), p = "ok" => o = "ok"
    PROVE  CallSound("dropping", u, p, h, k, n, b)
BY DEF CallSound, MoEarly, MoLoop

\* A call whose capture is dropped, retired or left behind.
LEMMA DropSound ==
    ASSUME NEW u, NEW o, NEW h, NEW k \in MoCaptureType, NEW n, NEW b,
           CallSound("dropping", u, o, h, k, n, b)
    PROVE  CallSound("ended", u, o, <<>>, IF k.retired THEN MoReleased ELSE k, n, b)
BY ClosedFields DEF CallSound, MoEarly, MoLoop

\* Before there is a capture, and when it is opened.
LEMMA EarlySound ==
    ASSUME NEW st, NEW t, NEW u, NEW o, NEW p, NEW h, NEW k, NEW n, NEW b,
           CallSound(st, u, o, h, k, n, b), st \in MoEarly, t \in MoEarly \cup {"ended"}
    PROVE  CallSound(t, u, p, h, k, n, b)
BY ClosedFields DEF CallSound, MoEarly, MoLoop

\* A capture that opens is blank, with a block in the queue.
LEMMA OpenSound ==
    ASSUME NEW u, NEW o, NEW h, NEW k, NEW n, NEW b,
           CallSound("locked", u, o, h, k, n, b)
    PROVE  CallSound("opened", u, o, h, k, "queued", b)
<1>1. k = MoClosed /\ b = 0 /\ h = <<>>
  BY DEF CallSound, MoEarly
<1>2. Following("opened", u, h, k, b)
  BY <1>1, ClosedFields DEF Following, Counts
<1> QED BY <1>1, <1>2, ClosedFields DEF CallSound, MoEarly, MoLoop

\* A call that registers its capture goes to its loop.
LEMMA ActivateSound ==
    ASSUME NEW u, NEW o, NEW h, NEW k, NEW n, NEW b,
           CallSound("opened", u, o, h, k, n, b)
    PROVE  CallSound("polling", u, o, h, k, n, b)
BY DEF CallSound, Following, MoEarly, MoLoop

\* A step of one call, with what it leaves there.
MoTouches(c, st, u, o, h, k, n, b) ==
    /\ moStage' = [moStage EXCEPT ![c] = st]
    /\ moStatus' = [moStatus EXCEPT ![c] = u]
    /\ moOutcome' = [moOutcome EXCEPT ![c] = o]
    /\ moHeard' = [moHeard EXCEPT ![c] = h]
    /\ moCapture' = [moCapture EXCEPT ![c] = k]
    /\ moOwner' = [moOwner EXCEPT ![c] = n]
    /\ moCallback' = [moCallback EXCEPT ![c] = b]

\* Writing an entry back changes nothing.
LEMMA SameEntry ==
    ASSUME NEW S, NEW T, NEW f \in [S -> T], NEW c \in S
    PROVE  f = [f EXCEPT ![c] = f[c]]
OBVIOUS

\* A step that changes the entries of one call keeps every call sound if it keeps that one.
LEMMA OneCall ==
    ASSUME MoInv, NEW c \in MoCall,
           NEW st \in MoStages, NEW u \in MoStatusType, NEW o \in MoOutcomes,
           NEW h \in Seq(Nat), NEW k \in MoCaptureType, NEW n \in MoOwners, NEW b \in Nat,
           MoTouches(c, st, u, o, h, k, n, b), CallSound(st, u, o, h, k, n, b)
    PROVE  /\ MoTypeOK'
           /\ \A d \in MoCall : CallSound(moStage[d], moStatus[d], moOutcome[d], moHeard[d],
                                          moCapture[d], moOwner[d], moCallback[d])'
<1>1. MoTypeOK'
  BY DEF MoInv, MoTypeOK, MoTouches, MoOutcomes, MoOwners
<1>2. ASSUME NEW d \in MoCall
      PROVE  CallSound(moStage'[d], moStatus'[d], moOutcome'[d], moHeard'[d],
                       moCapture'[d], moOwner'[d], moCallback'[d])
  <2>1. CASE d = c
    <3>1. /\ moStage'[d] = st /\ moStatus'[d] = u /\ moOutcome'[d] = o /\ moHeard'[d] = h
          /\ moCapture'[d] = k /\ moOwner'[d] = n /\ moCallback'[d] = b
      BY <2>1 DEF MoInv, MoTypeOK, MoTouches
    <3> QED BY <3>1
  <2>2. CASE d # c
    <3>1. /\ moStage'[d] = moStage[d] /\ moStatus'[d] = moStatus[d]
          /\ moOutcome'[d] = moOutcome[d] /\ moHeard'[d] = moHeard[d]
          /\ moCapture'[d] = moCapture[d] /\ moOwner'[d] = moOwner[d]
          /\ moCallback'[d] = moCallback[d]
      BY <2>2 DEF MoInv, MoTypeOK, MoTouches
    <3>2. CallSound(moStage[d], moStatus[d], moOutcome[d], moHeard[d],
                    moCapture[d], moOwner[d], moCallback[d])
      BY DEF MoInv
    <3> QED BY <3>1, <3>2
  <2> QED BY <2>1, <2>2
<1> QED BY <1>1, <1>2

\* What is known of a call before a step.
LEMMA CallBefore ==
    ASSUME MoInv, NEW c \in MoCall
    PROVE  /\ moStage[c] \in MoStages /\ moStatus[c] \in MoStatusType
           /\ moOutcome[c] \in MoOutcomes /\ moHeard[c] \in Seq(Nat)
           /\ moCapture[c] \in MoCaptureType /\ moOwner[c] \in MoOwners
           /\ moCallback[c] \in Nat
           /\ CallSound(moStage[c], moStatus[c], moOutcome[c], moHeard[c],
                        moCapture[c], moOwner[c], moCallback[c])
           /\ moStage = [moStage EXCEPT ![c] = moStage[c]]
           /\ moStatus = [moStatus EXCEPT ![c] = moStatus[c]]
           /\ moOutcome = [moOutcome EXCEPT ![c] = moOutcome[c]]
           /\ moHeard = [moHeard EXCEPT ![c] = moHeard[c]]
           /\ moCapture = [moCapture EXCEPT ![c] = moCapture[c]]
           /\ moOwner = [moOwner EXCEPT ![c] = moOwner[c]]
           /\ moCallback = [moCallback EXCEPT ![c] = moCallback[c]]
<1>1. MoTypeOK
  BY DEF MoInv
<1>2. /\ moStage[c] \in MoStages /\ moStatus[c] \in MoStatusType
      /\ moOutcome[c] \in MoOutcomes /\ moHeard[c] \in Seq(Nat)
      /\ moCapture[c] \in MoCaptureType /\ moOwner[c] \in MoOwners
      /\ moCallback[c] \in Nat
  BY <1>1 DEF MoTypeOK, MoOutcomes, MoOwners
<1>3. CallSound(moStage[c], moStatus[c], moOutcome[c], moHeard[c],
                moCapture[c], moOwner[c], moCallback[c])
  BY DEF MoInv
<1>4. /\ moStage = [moStage EXCEPT ![c] = moStage[c]]
      /\ moStatus = [moStatus EXCEPT ![c] = moStatus[c]]
      /\ moOutcome = [moOutcome EXCEPT ![c] = moOutcome[c]]
      /\ moHeard = [moHeard EXCEPT ![c] = moHeard[c]]
      /\ moCapture = [moCapture EXCEPT ![c] = moCapture[c]]
      /\ moOwner = [moOwner EXCEPT ![c] = moOwner[c]]
      /\ moCallback = [moCallback EXCEPT ![c] = moCallback[c]]
  BY <1>1, SameEntry DEF MoTypeOK
<1> QED BY <1>2, <1>3, <1>4

\* Steps of the native side move neither the calls nor what serialises them.
LEMMA SerialisedStill ==
    ASSUME MoInv, moStage' = moStage, moOwner' = moOwner, moSerial' = moSerial,
           moActive' = moActive, moQuarantined' = moQuarantined
    PROVE  MoSerialised' /\ SynthesizerExclusive'
BY DEF MoInv, MoSerialised, SynthesizerExclusive

\* A native step keeps the invariant if it keeps its own call sound.
LEMMA NativeKeeps ==
    ASSUME MoInv, NEW c \in MoCall,
           NEW k \in MoCaptureType, NEW b \in Nat,
           moCapture' = [moCapture EXCEPT ![c] = k],
           moCallback' = [moCallback EXCEPT ![c] = b],
           UNCHANGED moRust, UNCHANGED moOwner,
           CallSound(moStage[c], moStatus[c], moOutcome[c], moHeard[c], k, moOwner[c], b)
    PROVE  MoInv'
<1>1. /\ moStage' = moStage /\ moStatus' = moStatus /\ moOutcome' = moOutcome
      /\ moHeard' = moHeard /\ moOwner' = moOwner
      /\ moSerial' = moSerial /\ moActive' = moActive /\ moQuarantined' = moQuarantined
  BY DEF moRust
<1>2. MoTouches(c, moStage[c], moStatus[c], moOutcome[c], moHeard[c], k, moOwner[c], b)
  BY <1>1, CallBefore DEF MoTouches
<1>3. /\ MoTypeOK'
      /\ \A d \in MoCall : CallSound(moStage[d], moStatus[d], moOutcome[d], moHeard[d],
                                     moCapture[d], moOwner[d], moCallback[d])'
  BY <1>2, CallBefore, OneCall
<1>4. MoSerialised' /\ SynthesizerExclusive'
  BY <1>1, SerialisedStill
<1> QED BY <1>3, <1>4 DEF MoInv

\* A buffer arrives, or the end of the utterance.
LEMMA MoConsumeKeeps ==
    ASSUME MacOsAssumption, MoInv, NEW c \in MoCall, MoConsume(c)
    PROVE  MoInv'
<1> USE CallBefore
<1>1. /\ moOwner[c] # "none" /\ moCallback[c] = 0 /\ UNCHANGED moRust /\ UNCHANGED moOwner
  BY DEF MoConsume, MoWriting
<1>2. ASSUME NEW reason \in {"complete", "failed"},
             MoFinishCapture(c, reason), UNCHANGED moCallback
      PROVE  MoInv'
  <2> DEFINE k == MoFinish(moCapture[c], reason)
  <2>1. moCapture' = [moCapture EXCEPT ![c] = k]
    BY <1>2 DEF MoFinishCapture
  <2>2. k \in MoCaptureType
    BY FinishFields
  <2>3. CallSound(moStage[c], moStatus[c], moOutcome[c], moHeard[c], k, moOwner[c], moCallback[c])
    BY <1>1, FinishSound
  <2>4. moCallback' = [moCallback EXCEPT ![c] = moCallback[c]]
    BY <1>2
  <2> HIDE DEF k
  <2> QED BY <1>1, <2>1, <2>2, <2>3, <2>4, NativeKeeps
<1>3. ASSUME NEW m \in 1 .. MoBuffer, ~MoShut(c),
             moCallback' = [moCallback EXCEPT ![c] = m],
             moCapture' = [moCapture EXCEPT ![c].accepted = @ + m]
      PROVE  MoInv'
  <2>1. PICK a \in Nat : a = moCapture[c].accepted + m
    BY DEF MoCaptureType
  <2> DEFINE k == [moCapture[c] EXCEPT !.accepted = a]
  <2>2. moCapture' = [moCapture EXCEPT ![c] = k]
    BY <1>3, <2>1
  <2>3. moCapture[c].finished = FALSE /\ moCapture[c].cancelled = FALSE
    BY <1>3 DEF MoShut, MoCaptureType
  <2>4. m \in Nat
    BY DEF MacOsAssumption
  <2>5. k \in MoCaptureType
        /\ CallSound(moStage[c], moStatus[c], moOutcome[c], moHeard[c], k, moOwner[c], m)
    BY <1>1, <2>1, <2>3, <2>4, AcceptSound
  <2> HIDE DEF k
  <2> QED BY <1>1, <1>3, <2>2, <2>4, <2>5, NativeKeeps
<1> QED BY <1>2, <1>3 DEF MoConsume

\* The callback publishes a window.
LEMMA MoPublishKeeps ==
    ASSUME MoInv, NEW c \in MoCall, MoPublish(c)
    PROVE  MoInv'
<1> USE CallBefore
<1>1. /\ moCallback[c] > 0 /\ UNCHANGED moRust /\ UNCHANGED moOwner
      /\ moOwner[c] # "none"
  BY DEF MoPublish, CallSound
<1>2. moCapture[c].finished \in BOOLEAN /\ moCapture[c].cancelled \in BOOLEAN
  BY DEF MoCaptureType
<1>3. CASE MoShut(c) /\ moCallback' = [moCallback EXCEPT ![c] = 0] /\ UNCHANGED moCapture
  <2>1. moCapture[c].cancelled = TRUE \/ moCapture[c].finished = TRUE
    BY <1>2, <1>3 DEF MoShut
  <2>2. CallSound(moStage[c], moStatus[c], moOutcome[c], moHeard[c], moCapture[c], moOwner[c], 0)
    BY <1>1, <2>1, GiveUpSound
  <2> QED BY <1>1, <1>3, <2>2, NativeKeeps
<1>4. CASE /\ ~MoShut(c)
           /\ moCapture' = [moCapture EXCEPT
                  ![c].ring = Append(@, moCapture[c].accepted - moCallback[c] + 1)]
           /\ moCallback' = [moCallback EXCEPT ![c] = @ - 1]
  <2> DEFINE k == [moCapture[c] EXCEPT !.ring =
                      Append(@, moCapture[c].accepted - moCallback[c] + 1)]
             b == moCallback[c] - 1
  <2>1. moCapture' = [moCapture EXCEPT ![c] = k] /\ moCallback' = [moCallback EXCEPT ![c] = b]
    BY <1>4
  <2>2. b \in Nat
    BY <1>1
  <2>3. moCapture[c].finished = FALSE /\ moCapture[c].cancelled = FALSE
    BY <1>2, <1>4 DEF MoShut
  <2>4. k \in MoCaptureType
        /\ CallSound(moStage[c], moStatus[c], moOutcome[c], moHeard[c], k, moOwner[c], b)
    BY <1>1, <2>3, PublishSound
  <2> HIDE DEF k, b
  <2> QED BY <1>1, <2>1, <2>2, <2>4, NativeKeeps
<1>5. CASE /\ ~MoShut(c)
           /\ MoFinishCapture(c, "failed")
           /\ moCallback' = [moCallback EXCEPT ![c] = 0]
  <2> DEFINE k == MoFinish(moCapture[c], "failed")
  <2>1. moCapture' = [moCapture EXCEPT ![c] = k]
    BY <1>5 DEF MoFinishCapture
  <2>2. k \in MoCaptureType /\ k.finished = TRUE
    BY FinishFields
  <2>3. CallSound(moStage[c], moStatus[c], moOutcome[c], moHeard[c], k, moOwner[c], moCallback[c])
    BY <1>1, FinishSound
  <2> HIDE DEF k
  <2>4. CallSound(moStage[c], moStatus[c], moOutcome[c], moHeard[c], k, moOwner[c], 0)
    BY <1>1, <2>2, <2>3, GiveUpSound
  <2> QED BY <1>1, <1>5, <2>1, <2>2, <2>4, NativeKeeps
<1> QED BY <1>3, <1>4, <1>5 DEF MoPublish

\* The delegate reports the end, or that it was cancelled.
LEMMA MoDelegateKeeps ==
    ASSUME MoInv, NEW c \in MoCall, MoDidFinish(c) \/ MoDidCancel(c)
    PROVE  MoInv'
<1> USE CallBefore
<1>1. /\ moOwner[c] # "none" /\ UNCHANGED moRust /\ UNCHANGED moOwner /\ UNCHANGED moCallback
  BY DEF MoDidFinish, MoDidCancel, MoWriting
<1>2. PICK reason \in {"complete", "failed"} :
        MoFinishCapture(c, reason) /\ (reason = "complete" => moCallback[c] = 0)
  BY DEF MoDidFinish, MoDidCancel
<1> DEFINE k == MoFinish(moCapture[c], reason)
<1>3. moCapture' = [moCapture EXCEPT ![c] = k]
  BY <1>2 DEF MoFinishCapture
<1>4. k \in MoCaptureType
  BY FinishFields
<1>5. CallSound(moStage[c], moStatus[c], moOutcome[c], moHeard[c], k, moOwner[c], moCallback[c])
  BY <1>1, <1>2, FinishSound
<1>6. moCallback' = [moCallback EXCEPT ![c] = moCallback[c]]
  BY <1>1
<1> HIDE DEF k
<1> QED BY <1>1, <1>3, <1>4, <1>5, <1>6, NativeKeeps

\* The block of one capture.  A block that starts finds no other one running, and
\* none that failed to stop the synthesizer: the engine would be quarantined, and no
\* call would hold SERIAL but the one whose capture failed.
LEMMA MoOwnerStepKeeps ==
    ASSUME MoInv, NEW c \in MoCall, MoOwnerStep(c)
    PROVE  MoInv'
<1> USE CallBefore
<1>1. /\ moStage' = moStage /\ moStatus' = moStatus /\ moOutcome' = moOutcome
      /\ moHeard' = moHeard /\ moCallback' = moCallback
      /\ moSerial' = moSerial /\ moActive' = moActive /\ moQuarantined' = moQuarantined
  BY DEF MoOwnerStep, moRust
<1>2. ASSUME NEW k \in MoCaptureType, NEW n \in MoOwners,
             moCapture' = [moCapture EXCEPT ![c] = k],
             moOwner' = [moOwner EXCEPT ![c] = n],
             CallSound(moStage[c], moStatus[c], moOutcome[c], moHeard[c], k, n, moCallback[c]),
             moOwner[c] \notin {"none", "retired", "failed"}, n # "none",
             n = "failed" => moOwner[c] \in {"writing", "watching", "closing"},
             n = "writing" => /\ moOwner[c] = "queued" /\ ~moCapture[c].cancelled
                              /\ \A d \in MoCall : ~MoRunning(d),
             n \in {"watching", "closing"} =>
                \/ moOwner[c] \in {"writing", "watching", "closing"}
                \/ \A d \in MoCall : ~MoRunning(d)
      PROVE  MoInv'
  <2>1. MoTouches(c, moStage[c], moStatus[c], moOutcome[c], moHeard[c], k, n, moCallback[c])
    BY <1>1, <1>2 DEF MoTouches
  <2>2. /\ MoTypeOK'
        /\ \A d \in MoCall : CallSound(moStage[d], moStatus[d], moOutcome[d], moHeard[d],
                                       moCapture[d], moOwner[d], moCallback[d])'
    BY <1>2, <2>1, OneCall
  <2>3. moOwner'[c] = n /\ \A d \in MoCall : d # c => moOwner'[d] = moOwner[d]
    BY <1>2 DEF MoInv, MoTypeOK
  <2>4. MoSerialised'
    BY <1>1, <1>2, <2>3 DEF MoInv, MoSerialised
  <2>5. ASSUME n = "writing", NEW d \in MoCall, d # c
        PROVE  moOwner[d] \in {"none", "queued", "retired"}
    <3>1. moStage[c] \in MoLoop
      BY <1>2, <2>5 DEF CallSound, MoEarly, MoLoop, MoStages
    <3>2. moSerial = c /\ ~moQuarantined
      BY <3>1 DEF MoInv, MoSerialised, MoLoop, MoHolding
    <3>3. moOwner[d] \notin {"writing", "watching", "closing"}
      BY <1>2, <2>5 DEF MoRunning
    <3>4. moOwner[d] # "failed"
      <4> SUFFICES ASSUME moOwner[d] = "failed" PROVE FALSE
        OBVIOUS
      <4>1. moStage[d] \notin MoEarly
        BY DEF CallSound
      <4>2. moStage[d] \notin MoHolding
        BY <2>5, <3>2 DEF MoInv, MoSerialised
      <4>3. moStage[d] = "ended"
        BY <4>1, <4>2 DEF MoStages, MoEarly, MoHolding
      <4> QED BY <3>2, <4>3 DEF MoInv, MoSerialised
    <3> QED BY <3>3, <3>4 DEF MoOwners
  <2>6. ASSUME NEW d \in MoCall, d # c, moOwner[d] = "writing"
        PROVE  n \in {"none", "queued", "retired"}
    <3>1. moOwner[c] \in {"none", "queued", "retired"}
      BY <2>6 DEF MoInv, SynthesizerExclusive
    <3>2. MoRunning(d)
      BY <2>6 DEF MoRunning
    <3> QED BY <1>2, <3>1, <3>2 DEF MoOwners
  <2>7. SynthesizerExclusive'
    <3> SUFFICES ASSUME NEW a \in MoCall, NEW d \in MoCall, moOwner'[a] = "writing", d # a
                 PROVE  moOwner'[d] \in {"none", "queued", "retired"}
      BY DEF SynthesizerExclusive
    <3>1. CASE a = c
      BY <2>3, <2>5, <3>1
    <3>2. CASE d = c
      BY <2>3, <2>6, <3>2
    <3>3. CASE a # c /\ d # c
      BY <2>3, <3>3 DEF MoInv, SynthesizerExclusive
    <3> QED BY <3>1, <3>2, <3>3
  <2> QED BY <2>2, <2>4, <2>7 DEF MoInv
<1>3. CASE MoOwnerStarts(c)
  <2>1. moOwner[c] = "queued" /\ \A d \in MoCall : ~MoRunning(d)
    BY <1>3 DEF MoOwnerStarts
  <2>2. CASE moOwner' = [moOwner EXCEPT ![c] = "closing"] /\ UNCHANGED moCapture
    <3>1. CallSound(moStage[c], moStatus[c], moOutcome[c], moHeard[c], moCapture[c], "closing",
                    moCallback[c])
      BY <2>1, OwnerSound
    <3>2. moCapture' = [moCapture EXCEPT ![c] = moCapture[c]]
      BY <2>2
    <3>3. "closing" \in MoOwners
      BY DEF MoOwners
    <3> QED BY <1>2, <2>1, <2>2, <3>1, <3>2, <3>3
  <2>3. CASE MoFinishCapture(c, "failed") /\ moOwner' = [moOwner EXCEPT ![c] = "closing"]
    <3> DEFINE k == MoFinish(moCapture[c], "failed")
    <3>1. "closing" \in MoOwners /\ k \in MoCaptureType
      BY FinishFields DEF MoOwners
    <3>2. CallSound(moStage[c], moStatus[c], moOutcome[c], moHeard[c], k, "closing",
                    moCallback[c])
      BY <2>1, <3>1, FinishSound
    <3>3. moCapture' = [moCapture EXCEPT ![c] = k]
      BY <2>3 DEF MoFinishCapture
    <3> HIDE DEF k
    <3> QED BY <1>2, <2>1, <2>3, <3>1, <3>2, <3>3
  <2>4. CASE ~moCapture[c].cancelled /\ moOwner' = [moOwner EXCEPT ![c] = "writing"]
             /\ UNCHANGED moCapture
    <3>1. CallSound(moStage[c], moStatus[c], moOutcome[c], moHeard[c], moCapture[c], "writing",
                    moCallback[c])
      BY <2>1, OwnerSound
    <3>2. moCapture' = [moCapture EXCEPT ![c] = moCapture[c]]
      BY <2>4
    <3>3. "writing" \in MoOwners
      BY DEF MoOwners
    <3> QED BY <1>2, <2>1, <2>4, <3>1, <3>2, <3>3
  <2> QED BY <1>3, <2>2, <2>3, <2>4 DEF MoOwnerStarts
<1>4. CASE MoWriteReturns(c) \/ MoOwnerWatches(c)
  <2>1. moOwner[c] \in {"writing", "watching"}
    BY <1>4 DEF MoWriteReturns, MoOwnerWatches
  <2>2. ASSUME NEW n \in {"watching", "closing"},
               moOwner' = [moOwner EXCEPT ![c] = n], UNCHANGED moCapture
        PROVE  MoInv'
    <3>1. CallSound(moStage[c], moStatus[c], moOutcome[c], moHeard[c], moCapture[c], n,
                    moCallback[c])
      BY <2>1, OwnerSound
    <3>2. moCapture' = [moCapture EXCEPT ![c] = moCapture[c]]
      BY <2>2
    <3>3. n \in MoOwners
      BY DEF MoOwners
    <3> QED BY <1>2, <2>1, <2>2, <3>1, <3>2, <3>3
  <2>3. ASSUME MoFinishCapture(c, "failed"), moOwner' = [moOwner EXCEPT ![c] = "closing"]
        PROVE  MoInv'
    <3> DEFINE k == MoFinish(moCapture[c], "failed")
    <3>1. "closing" \in MoOwners /\ k \in MoCaptureType
      BY FinishFields DEF MoOwners
    <3>2. CallSound(moStage[c], moStatus[c], moOutcome[c], moHeard[c], k, "closing",
                    moCallback[c])
      BY <2>1, <3>1, FinishSound
    <3>3. moCapture' = [moCapture EXCEPT ![c] = k]
      BY <2>3 DEF MoFinishCapture
    <3> HIDE DEF k
    <3> QED BY <1>2, <2>1, <2>3, <3>1, <3>2, <3>3
  <2>4. CASE MoWriteReturns(c)
    BY <2>2, <2>3, <2>4 DEF MoWriteReturns
  <2>5. CASE MoOwnerWatches(c)
    BY <2>2, <2>3, <2>5 DEF MoOwnerWatches
  <2> QED BY <1>4, <2>4, <2>5
<1>5. CASE MoOwnerCloses(c)
  <2> DEFINE succeeded == /\ moCapture[c].finished /\ ~moCapture[c].cancelled
                          /\ MoSucceeds(moCapture[c].reason)
             closed == IF succeeded THEN moCapture[c] ELSE MoFinish(moCapture[c], "failed")
  <2>1. moOwner[c] = "closing"
    BY <1>5 DEF MoOwnerCloses
  <2>2. MoFinish(moCapture[c], "failed") \in MoCaptureType
        /\ CallSound(moStage[c], moStatus[c], moOutcome[c], moHeard[c],
                     MoFinish(moCapture[c], "failed"), "closing", moCallback[c])
    <3>1. "closing" \in MoOwners
      BY DEF MoOwners
    <3> QED BY <2>1, <3>1, FinishFields, FinishSound
  <2>3. closed \in MoCaptureType
        /\ CallSound(moStage[c], moStatus[c], moOutcome[c], moHeard[c], closed, "closing",
                     moCallback[c])
    <3>1. CASE succeeded
      BY <2>1, <3>1
    <3>2. CASE ~succeeded
      BY <2>2, <3>2
    <3> QED BY <3>1, <3>2
  <2>4. \/ /\ moCapture' = [moCapture EXCEPT ![c] = [closed EXCEPT !.retired = TRUE]]
           /\ moOwner' = [moOwner EXCEPT ![c] = "retired"]
        \/ /\ moCapture' = [moCapture EXCEPT ![c] = MoFinish(closed, "failed")]
           /\ moOwner' = [moOwner EXCEPT ![c] = "failed"]
    BY <1>5 DEF MoOwnerCloses
  <2> HIDE DEF closed
  <2>5. CASE /\ moCapture' = [moCapture EXCEPT ![c] = [closed EXCEPT !.retired = TRUE]]
             /\ moOwner' = [moOwner EXCEPT ![c] = "retired"]
    <3> DEFINE k == [closed EXCEPT !.retired = TRUE]
    <3>1. "retired" \in MoOwners /\ "closing" \in MoOwners
      BY DEF MoOwners
    <3>2. k \in MoCaptureType
          /\ CallSound(moStage[c], moStatus[c], moOutcome[c], moHeard[c], k, "retired",
                       moCallback[c])
      BY <2>3, <3>1, RetireSound
    <3> HIDE DEF k
    <3>3. moCapture' = [moCapture EXCEPT ![c] = k]
      BY <2>5 DEF k
    <3> QED BY <1>2, <2>1, <2>5, <3>1, <3>2, <3>3
  <2>6. CASE /\ moCapture' = [moCapture EXCEPT ![c] = MoFinish(closed, "failed")]
             /\ moOwner' = [moOwner EXCEPT ![c] = "failed"]
    <3> DEFINE k == MoFinish(closed, "failed")
    <3>1. "failed" \in MoOwners /\ "closing" \in MoOwners /\ k \in MoCaptureType
      BY <2>3, FinishFields DEF MoOwners
    <3>2. CallSound(moStage[c], moStatus[c], moOutcome[c], moHeard[c], k, "failed",
                    moCallback[c])
      BY <2>3, <3>1, FinishSound
    <3> HIDE DEF k
    <3>3. moCapture' = [moCapture EXCEPT ![c] = k]
      BY <2>6 DEF k
    <3> QED BY <1>2, <2>1, <2>6, <3>1, <3>2, <3>3
  <2> QED BY <2>4, <2>5, <2>6
<1> QED BY <1>3, <1>4, <1>5 DEF MoOwnerStep

\* SERIAL through a step of one call that holds it, takes it or lets it go; only a call
\* that confirms quarantines the engine, and no other one is then in its loop.
LEMMA SerialisedThrough ==
    ASSUME MacOsAssumption, MoInv, NEW c \in MoCall, NEW st \in MoStages, NEW n \in MoOwners,
           moStage' = [moStage EXCEPT ![c] = st], moOwner' = [moOwner EXCEPT ![c] = n],
           \/ moSerial' = moSerial /\ (st \in MoHolding => moStage[c] \in MoHolding)
           \/ moSerial = MoNobody /\ moSerial' = c
           \/ moStage[c] \in MoHolding /\ st \notin MoHolding,
           \/ moActive' = moActive /\ (moActive = c => st \in {"polling", "polled", "confirming", "dropping"})
           \/ moActive' = c /\ st = "polling"
           \/ moActive' = MoNobody,
           \/ moQuarantined' = moQuarantined
           \/ moQuarantined' = TRUE /\ moStage[c] = "confirming",
           st \in MoLoop \cup {"confirming"} => ~moQuarantined',
           st \in {"dropping", "ended"} /\ n \notin {"none", "retired"} => moQuarantined'
    PROVE  MoSerialised'
<1>1. /\ moStage'[c] = st /\ moOwner'[c] = n
      /\ \A d \in MoCall : d # c => moStage'[d] = moStage[d] /\ moOwner'[d] = moOwner[d]
  BY DEF MoInv, MoTypeOK
<1>2. ASSUME NEW d \in MoCall, moStage'[d] \in MoHolding
      PROVE  moSerial' = d
  <2>1. CASE d = c
    BY <1>1, <1>2, <2>1 DEF MoInv, MoSerialised
  <2>2. CASE d # c
    <3>1. moSerial = d /\ d # MoNobody
      BY <1>1, <1>2, <2>2 DEF MoInv, MoSerialised, MacOsAssumption
    <3>2. moStage[c] \notin MoHolding
      BY <2>2, <3>1 DEF MoInv, MoSerialised
    <3> QED BY <3>1, <3>2
  <2> QED BY <2>1, <2>2
<1>3. moActive' # MoNobody =>
         /\ moActive' \in MoCall
         /\ moStage'[moActive'] \in {"polling", "polled", "confirming", "dropping"}
  BY <1>1 DEF MoInv, MoSerialised
<1>4. ASSUME NEW d \in MoCall, moStage'[d] \in MoLoop \cup {"confirming"}
      PROVE  ~moQuarantined'
  <2>1. CASE d = c
    BY <1>1, <1>4, <2>1
  <2>2. CASE d # c
    <3>1. ~moQuarantined /\ moSerial = d
      BY <1>1, <1>4, <2>2 DEF MoInv, MoSerialised, MoHolding, MoLoop
    <3>2. moStage[c] # "confirming"
      BY <2>2, <3>1 DEF MoInv, MoSerialised, MoHolding
    <3> QED BY <3>1, <3>2
  <2> QED BY <2>1, <2>2
<1>5. ASSUME NEW d \in MoCall, moStage'[d] \in {"dropping", "ended"},
             moOwner'[d] \notin {"none", "retired"}
      PROVE  moQuarantined'
  BY <1>1, <1>5 DEF MoInv, MoSerialised
<1> QED BY <1>2, <1>3, <1>4, <1>5 DEF MoSerialised

\* A step of a call leaves the blocks as they are, or queues its own.
LEMMA ExclusiveThrough ==
    ASSUME MoInv, NEW c \in MoCall, NEW n \in MoOwners,
           moOwner' = [moOwner EXCEPT ![c] = n], n = moOwner[c] \/ n = "queued"
    PROVE  SynthesizerExclusive'
BY DEF MoInv, MoTypeOK, SynthesizerExclusive

\* A step of the worker keeps the invariant if it keeps its own call sound.
LEMMA RustKeeps ==
    ASSUME MacOsAssumption, MoInv, NEW c \in MoCall,
           NEW st \in MoStages, NEW u \in MoStatusType, NEW o \in MoOutcomes,
           NEW h \in Seq(Nat), NEW k \in MoCaptureType, NEW n \in MoOwners,
           MoTouches(c, st, u, o, h, k, n, moCallback[c]),
           CallSound(st, u, o, h, k, n, moCallback[c]),
           n = moOwner[c] \/ n = "queued",
           MoSerialised'
    PROVE  MoInv'
<1>1. /\ MoTypeOK'
      /\ \A d \in MoCall : CallSound(moStage[d], moStatus[d], moOutcome[d], moHeard[d],
                                     moCapture[d], moOwner[d], moCallback[d])'
  BY CallBefore, OneCall
<1>2. SynthesizerExclusive'
  BY ExclusiveThrough DEF MoTouches
<1> QED BY <1>1, <1>2 DEF MoInv

\* A call on its way to its capture.
LEMMA MoEarlyKeeps ==
    ASSUME MacOsAssumption, MoInv, NEW c \in MoCall,
           NEW st \in MoEarly \cup {"ended"}, NEW o \in MoOutcomes,
           moStage[c] \in MoEarly,
           moStage' = [moStage EXCEPT ![c] = st],
           moOutcome' = [moOutcome EXCEPT ![c] = o],
           UNCHANGED <<moStatus, moHeard, moQuarantined, moActive, moNative>>,
           \/ moSerial' = moSerial /\ st # "locked"
           \/ moSerial = MoNobody /\ moSerial' = c
           \/ moStage[c] = "locked" /\ st = "ended"
    PROVE  MoInv'
<1> USE CallBefore
<1>1. CallSound(st, moStatus[c], o, moHeard[c], moCapture[c], moOwner[c], moCallback[c])
  BY EarlySound
<1>2. /\ moStatus' = moStatus /\ moHeard' = moHeard /\ moQuarantined' = moQuarantined
      /\ moActive' = moActive /\ moCapture' = moCapture /\ moOwner' = moOwner
      /\ moCallback' = moCallback
  BY DEF moNative
<1>3. st \in MoStages
  BY DEF MoStages, MoEarly
<1>4. MoTouches(c, st, moStatus[c], o, moHeard[c], moCapture[c], moOwner[c], moCallback[c])
  BY <1>2 DEF MoTouches
<1>5. moOwner[c] = "none"
  BY DEF CallSound
<1>6. moActive # c
  BY DEF MoInv, MoSerialised, MoEarly, MacOsAssumption
<1>7. MoSerialised'
  <2>1. \/ moSerial' = moSerial /\ (st \in MoHolding => moStage[c] \in MoHolding)
        \/ moSerial = MoNobody /\ moSerial' = c
        \/ moStage[c] \in MoHolding /\ st \notin MoHolding
    BY DEF MoHolding, MoEarly
  <2>2. st \notin MoLoop \cup {"confirming"}
    BY DEF MoLoop, MoEarly
  <2>3. moOwner' = [moOwner EXCEPT ![c] = moOwner[c]]
    BY <1>2
  <2> QED BY <1>2, <1>3, <1>5, <1>6, <2>1, <2>2, <2>3, SerialisedThrough
<1> QED BY <1>1, <1>3, <1>4, <1>7, RustKeeps

\* Waiting for SERIAL, and giving up on it.
LEMMA MoWaitsKeep ==
    ASSUME MacOsAssumption, MoInv, NEW c \in MoCall,
           MoBegin(c) \/ MoWait(c) \/ MoTryLock(c) \/ MoOwnershipTimesOut(c)
    PROVE  MoInv'
<1> USE CallBefore
<1>1. CASE MoBegin(c)
  BY <1>1, MoEarlyKeeps DEF MoBegin, MoEarly
<1>2. ASSUME NEW st \in {"waiting", "locking"}, moStage[c] = st, MoReturns(c, "error"),
             UNCHANGED moSerial
      PROVE  MoInv'
  <2>1. "error" \in MoOutcomes
    BY DEF MoOutcomes
  <2> QED BY <1>2, <2>1, MoEarlyKeeps DEF MoReturns, MoEarly
<1>3. CASE MoWait(c)
  <2>1. CASE moStage' = [moStage EXCEPT ![c] = "locking"] /\ UNCHANGED moSerial
             /\ UNCHANGED <<moSeen, moStatus, moOutcome, moHeard, moPoisoned, moQuarantined,
                            moActive, moNative>>
    BY <1>3, <2>1, MoEarlyKeeps DEF MoWait, MoEarly
  <2> QED BY <1>2, <1>3, <2>1 DEF MoWait
<1>4. CASE MoTryLock(c)
  <2>1. CASE /\ moSerial = MoNobody /\ moSerial' = c
             /\ moStage' = [moStage EXCEPT ![c] = "locked"]
             /\ UNCHANGED <<moSeen, moStatus, moOutcome, moHeard, moPoisoned, moQuarantined,
                            moActive, moNative>>
    BY <1>4, <2>1, MoEarlyKeeps DEF MoTryLock, MoEarly
  <2>2. CASE /\ moStage' = [moStage EXCEPT ![c] = "waiting"]
             /\ UNCHANGED <<moSeen, moStatus, moOutcome, moHeard, moSerial, moPoisoned,
                            moQuarantined, moActive, moNative>>
    BY <1>4, <2>2, MoEarlyKeeps DEF MoTryLock, MoEarly
  <2> QED BY <1>2, <1>4, <2>1, <2>2 DEF MoTryLock
<1>5. CASE MoOwnershipTimesOut(c)
  BY <1>2, <1>5 DEF MoOwnershipTimesOut
<1> QED BY <1>1, <1>3, <1>4, <1>5

\* Opening the capture.
LEMMA MoOpenKeeps ==
    ASSUME MacOsAssumption, MoInv, NEW c \in MoCall, MoOpen(c)
    PROVE  MoInv'
<1> USE CallBefore
<1>1. moStage[c] = "locked"
  BY DEF MoOpen
<1>2. ASSUME NEW o \in {"error", "empty"}, moSerial' = MoNobody, MoReturns(c, o)
      PROVE  MoInv'
  <2>1. o \in MoOutcomes
    BY DEF MoOutcomes
  <2> QED BY <1>1, <1>2, <2>1, MoEarlyKeeps DEF MoReturns, MoEarly
<1>3. CASE /\ MoPermitted(c)
           /\ moOwner' = [moOwner EXCEPT ![c] = "queued"]
           /\ moStage' = [moStage EXCEPT ![c] = "opened"]
           /\ UNCHANGED <<moSeen, moStatus, moOutcome, moHeard, moSerial, moPoisoned,
                          moQuarantined, moActive, moCapture, moCallback>>
  <2>1. CallSound("opened", moStatus[c], moOutcome[c], moHeard[c], moCapture[c], "queued",
                  moCallback[c])
    BY <1>1, OpenSound
  <2>2. "opened" \in MoStages /\ "queued" \in MoOwners
    BY DEF MoStages, MoOwners
  <2>3. MoTouches(c, "opened", moStatus[c], moOutcome[c], moHeard[c], moCapture[c], "queued",
                  moCallback[c])
    BY <1>3 DEF MoTouches
  <2>4. moActive # c /\ ~moQuarantined
    BY <1>1, <1>3 DEF MoInv, MoSerialised, MacOsAssumption, MoPermitted
  <2>5. MoSerialised'
    <3>1. moSerial' = moSerial /\ moActive' = moActive /\ moQuarantined' = moQuarantined
      BY <1>3
    <3>2. moStage[c] \in MoHolding
      BY <1>1 DEF MoHolding
    <3>3. /\ moStage' = [moStage EXCEPT ![c] = "opened"]
          /\ moOwner' = [moOwner EXCEPT ![c] = "queued"]
      BY <1>3
    <3>4. \/ moSerial' = moSerial /\ ("opened" \in MoHolding => moStage[c] \in MoHolding)
          \/ moSerial = MoNobody /\ moSerial' = c
          \/ moStage[c] \in MoHolding /\ "opened" \notin MoHolding
      BY <3>1, <3>2
    <3>5. \/ /\ moActive' = moActive
             /\ moActive = c => "opened" \in {"polling", "polled", "confirming", "dropping"}
          \/ moActive' = c /\ "opened" = "polling"
          \/ moActive' = MoNobody
      BY <2>4, <3>1
    <3>6. ~moQuarantined'
      BY <2>4, <3>1
    <3> QED BY <2>2, <3>1, <3>3, <3>4, <3>5, <3>6, SerialisedThrough
  <2> QED BY <2>1, <2>2, <2>3, <2>5, RustKeeps
<1> QED BY <1>2, <1>3 DEF MoOpen

\* A turn of a call that holds SERIAL and keeps it.
LEMMA MoHoldsKeeps ==
    ASSUME MacOsAssumption, MoInv, NEW c \in MoCall,
           NEW st \in {"polling", "polled", "confirming"}, NEW u \in MoStatusType,
           NEW o \in MoOutcomes, NEW h \in Seq(Nat), NEW k \in MoCaptureType,
           moStage[c] \in MoLoop,
           moStage' = [moStage EXCEPT ![c] = st], moStatus' = [moStatus EXCEPT ![c] = u],
           moOutcome' = [moOutcome EXCEPT ![c] = o], moHeard' = [moHeard EXCEPT ![c] = h],
           moCapture' = [moCapture EXCEPT ![c] = k],
           moOwner' = moOwner, moCallback' = moCallback, moSerial' = moSerial,
           moQuarantined' = moQuarantined,
           moActive' = moActive \/ (moActive' = c /\ st = "polling"),
           CallSound(st, u, o, h, k, moOwner[c], moCallback[c])
    PROVE  MoInv'
<1> USE CallBefore
<1>1. st \in MoStages /\ moStage[c] \in MoHolding
  BY DEF MoStages, MoLoop, MoHolding
<1>2. MoTouches(c, st, u, o, h, k, moOwner[c], moCallback[c])
  BY DEF MoTouches
<1>3. ~moQuarantined
  BY DEF MoInv, MoSerialised
<1>4. MoSerialised'
  <2>1. moOwner' = [moOwner EXCEPT ![c] = moOwner[c]]
    OBVIOUS
  <2> QED BY <1>1, <1>3, <2>1, SerialisedThrough
<1> QED BY <1>1, <1>2, <1>4, RustKeeps

\* Leaving the loop, with the capture cancelled.
LEMMA MoLeavesKeeps ==
    ASSUME MacOsAssumption, MoInv, NEW c \in MoCall, NEW p \in MoOutcomes,
           moStage[c] \in {"polling", "polled"},
           p = "ok" => moStage[c] = "polled" /\ moStatus[c].kind = "complete",
           MoLeavesLoop(c, p),
           UNCHANGED <<moSeen, moSerial, moPoisoned, moQuarantined, moActive, moOwner, moCallback>>
    PROVE  MoInv'
<1> USE CallBefore
<1> DEFINE k == MoCancelCapture(moCapture[c])
           u == MoNext(MoClosed)
<1>1. k \in MoCaptureType
  BY CancelFields
<1>2. u \in MoStatusType
  BY ClosedFields, StatusFields
<1>3. /\ moStage' = [moStage EXCEPT ![c] = "confirming"]
      /\ moOutcome' = [moOutcome EXCEPT ![c] = p]
      /\ moCapture' = [moCapture EXCEPT ![c] = k]
      /\ moStatus' = [moStatus EXCEPT ![c] = u]
      /\ moHeard' = [moHeard EXCEPT ![c] = moHeard[c]]
  BY DEF MoLeavesLoop
<1>4. CallSound("confirming", u, p, moHeard[c], k, moOwner[c], moCallback[c])
  BY <1>2, LeaveSound
<1>5. moStage[c] \in MoLoop
  BY DEF MoLoop
<1> HIDE DEF k, u
<1> QED BY <1>1, <1>2, <1>3, <1>4, <1>5, MoHoldsKeeps

\* A turn of the call's loop.
LEMMA MoLoopKeeps ==
    ASSUME MacOsAssumption, MoInv, NEW c \in MoCall,
           MoActivate(c) \/ MoPoll(c) \/ MoMatch(c) \/ MoGivesUp(c)
    PROVE  MoInv'
<1> USE CallBefore
<1>0. "error" \in MoOutcomes /\ "panic" \in MoOutcomes /\ "ok" \in MoOutcomes
  BY DEF MoOutcomes
<1>1. CASE MoActivate(c)
  <2>1. moStage[c] = "opened" /\ moStage[c] \in MoLoop
    BY <1>1 DEF MoActivate, MoLoop
  <2>2. CallSound("polling", moStatus[c], moOutcome[c], moHeard[c], moCapture[c], moOwner[c],
                  moCallback[c])
    BY <2>1, ActivateSound
  <2>3. /\ moStage' = [moStage EXCEPT ![c] = "polling"] /\ moActive' = c
        /\ moStatus' = moStatus /\ moOutcome' = moOutcome /\ moHeard' = moHeard
        /\ moCapture' = moCapture /\ moOwner' = moOwner /\ moCallback' = moCallback
        /\ moSerial' = moSerial /\ moQuarantined' = moQuarantined
    BY <1>1 DEF MoActivate, moNative
  <2>4. /\ moStatus' = [moStatus EXCEPT ![c] = moStatus[c]]
        /\ moOutcome' = [moOutcome EXCEPT ![c] = moOutcome[c]]
        /\ moHeard' = [moHeard EXCEPT ![c] = moHeard[c]]
        /\ moCapture' = [moCapture EXCEPT ![c] = moCapture[c]]
    BY <2>3
  <2>5. moActive' = moActive \/ (moActive' = c /\ "polling" = "polling")
    BY <2>3
  <2>6. /\ moStage' = [moStage EXCEPT ![c] = "polling"]
        /\ moOwner' = moOwner /\ moCallback' = moCallback /\ moSerial' = moSerial
        /\ moQuarantined' = moQuarantined
    BY <2>3
  <2> QED BY <2>1, <2>2, <2>4, <2>5, <2>6, MoHoldsKeeps
<1>2. CASE MoPoll(c)
  <2>1. /\ moStage[c] = "polling" /\ moStage[c] \in MoLoop
        /\ UNCHANGED <<moSeen, moSerial, moPoisoned, moQuarantined, moActive, moOwner, moCallback>>
    BY <1>2 DEF MoPoll, MoLoop
  <2>2. CASE MoLeavesLoop(c, "error")
    BY <1>0, <2>1, <2>2, MoLeavesKeeps
  <2>3. CASE /\ moStatus' = [moStatus EXCEPT ![c] = MoNext(moCapture[c])]
             /\ moCapture' = [moCapture EXCEPT ![c] = MoTaken(@)]
             /\ moStage' = [moStage EXCEPT ![c] = "polled"]
             /\ UNCHANGED <<moOutcome, moHeard>>
    <3> DEFINE u == MoNext(moCapture[c])
               k == MoTaken(moCapture[c])
    <3>1. u \in MoStatusType /\ k \in MoCaptureType
      BY StatusFields
    <3>2. CallSound("polled", u, moOutcome[c], moHeard[c], k, moOwner[c], moCallback[c])
      BY <2>1, PollSound
    <3>3. moStatus' = [moStatus EXCEPT ![c] = u] /\ moCapture' = [moCapture EXCEPT ![c] = k]
      BY <2>3
    <3> HIDE DEF u, k
    <3>4. /\ moOutcome' = [moOutcome EXCEPT ![c] = moOutcome[c]]
          /\ moHeard' = [moHeard EXCEPT ![c] = moHeard[c]]
          /\ moStage' = [moStage EXCEPT ![c] = "polled"]
          /\ moOwner' = moOwner /\ moCallback' = moCallback /\ moSerial' = moSerial
          /\ moQuarantined' = moQuarantined /\ moActive' = moActive
      BY <2>1, <2>3
    <3> QED BY <2>1, <3>1, <3>2, <3>3, <3>4, MoHoldsKeeps
  <2> QED BY <1>2, <2>2, <2>3 DEF MoPoll
<1>3. ASSUME moStage[c] = "polled",
             UNCHANGED <<moSeen, moSerial, moPoisoned, moQuarantined, moActive, moOwner, moCallback>>
      PROVE  /\ \A p \in MoOutcomes : /\ MoLeavesLoop(c, p)
                                      /\ p = "ok" => moStatus[c].kind = "complete"
                                      => MoInv'
             /\ moStatus[c].kind = "pending" /\ MoPending(c) => MoInv'
             /\ moStatus[c].kind = "audio" /\ MoHandsOver(c) => MoInv'
  <2>1. moStage[c] \in MoLoop
    BY <1>3 DEF MoLoop
  <2>2. ASSUME NEW p \in MoOutcomes, MoLeavesLoop(c, p),
               p = "ok" => moStatus[c].kind = "complete"
        PROVE  MoInv'
    BY <1>3, <2>2, MoLeavesKeeps
  <2>3. ASSUME moStatus[c].kind = "pending", MoPending(c)
        PROVE  MoInv'
    <3>1. CallSound("polling", moStatus[c], moOutcome[c], moHeard[c], moCapture[c], moOwner[c],
                    moCallback[c])
      BY <1>3, <2>3, PendingSound
    <3>2. /\ moStatus' = [moStatus EXCEPT ![c] = moStatus[c]]
          /\ moOutcome' = [moOutcome EXCEPT ![c] = moOutcome[c]]
          /\ moHeard' = [moHeard EXCEPT ![c] = moHeard[c]]
          /\ moCapture' = [moCapture EXCEPT ![c] = moCapture[c]]
          /\ moStage' = [moStage EXCEPT ![c] = "polling"]
      BY <2>3 DEF MoPending
    <3>3. /\ moOwner' = moOwner /\ moCallback' = moCallback /\ moSerial' = moSerial
          /\ moQuarantined' = moQuarantined /\ moActive' = moActive
      BY <1>3
    <3> QED BY <2>1, <3>1, <3>2, <3>3, MoHoldsKeeps
  <2>4. ASSUME moStatus[c].kind = "audio", MoHandsOver(c)
        PROVE  MoInv'
    <3> DEFINE h == Append(moHeard[c], moStatus[c].window)
    <3>0. CallSound("polled", moStatus[c], moOutcome[c], moHeard[c], moCapture[c], moOwner[c],
                    moCallback[c])
      BY <1>3
    <3>1. h \in Seq(Nat)
          /\ CallSound("polling", moStatus[c], moOutcome[c], h, moCapture[c], moOwner[c],
                       moCallback[c])
      BY <2>4, <3>0, HandOverSound
    <3>2. moHeard' = [moHeard EXCEPT ![c] = h]
      BY <2>4 DEF MoHandsOver
    <3> HIDE DEF h
    <3>3. /\ moStatus' = [moStatus EXCEPT ![c] = moStatus[c]]
          /\ moOutcome' = [moOutcome EXCEPT ![c] = moOutcome[c]]
          /\ moCapture' = [moCapture EXCEPT ![c] = moCapture[c]]
          /\ moStage' = [moStage EXCEPT ![c] = "polling"]
      BY <2>4 DEF MoHandsOver
    <3>4. /\ moOwner' = moOwner /\ moCallback' = moCallback /\ moSerial' = moSerial
          /\ moQuarantined' = moQuarantined /\ moActive' = moActive
      BY <1>3
    <3> QED BY <2>1, <3>1, <3>2, <3>3, <3>4, MoHoldsKeeps
  <2> QED BY <2>2, <2>3, <2>4
<1>4. CASE MoMatch(c)
  <2>1. /\ moStage[c] = "polled"
        /\ UNCHANGED <<moSeen, moSerial, moPoisoned, moQuarantined, moActive, moOwner, moCallback>>
    BY <1>4 DEF MoMatch
  <2>2. ASSUME NEW p \in {"error", "panic"}, MoLeavesLoop(c, p)
        PROVE  MoInv'
    BY <1>0, <1>3, <2>1, <2>2
  <2>3. ASSUME moStatus[c].kind = "complete",
               MoLeavesLoop(c, IF moHeard[c] = <<>> THEN "error" ELSE "ok")
        PROVE  MoInv'
    <3>1. CASE moHeard[c] = <<>>
      BY <2>2, <2>3, <3>1
    <3>2. CASE moHeard[c] # <<>>
      <4>1. MoLeavesLoop(c, "ok")
        BY <2>3, <3>2
      <4> QED BY <1>0, <1>3, <2>1, <2>3, <4>1
    <3> QED BY <3>1, <3>2
  <2> QED BY <1>3, <1>4, <2>1, <2>2, <2>3 DEF MoMatch, MoWindow
<1>5. CASE MoGivesUp(c)
  BY <1>0, <1>3, <1>5 DEF MoGivesUp
<1> QED BY <1>1, <1>2, <1>4, <1>5

\* Waiting for the capture to retire; one that does not quarantines the engine.
LEMMA MoConfirmKeeps ==
    ASSUME MacOsAssumption, MoInv, NEW c \in MoCall, MoConfirm(c)
    PROVE  MoInv'
<1> USE CallBefore
<1>1. /\ moStage[c] = "confirming"
      /\ moStage' = [moStage EXCEPT ![c] = "dropping"]
      /\ moStatus' = moStatus /\ moHeard' = moHeard /\ moSerial' = moSerial
      /\ moActive' = moActive /\ moCapture' = moCapture /\ moOwner' = moOwner
      /\ moCallback' = moCallback
  BY DEF MoConfirm, moNative
<1>2. PICK p \in MoOutcomes :
        moOutcome' = [moOutcome EXCEPT ![c] = p] /\ (p = "ok" => moOutcome[c] = "ok")
  <2>1. \/ moOutcome' = [moOutcome EXCEPT ![c] = IF moOutcome[c] = "ok" /\ MoCancelled(c)
                                                 THEN "error" ELSE moOutcome[c]]
        \/ moOutcome' = [moOutcome EXCEPT ![c] = IF moOutcome[c] = "panic"
                                                 THEN moOutcome[c] ELSE "error"]
    BY DEF MoConfirm
  <2>2. "error" \in MoOutcomes
    BY DEF MoOutcomes
  <2> QED BY <2>1, <2>2
<1>3. \/ moCapture[c].retired /\ moQuarantined' = moQuarantined
      \/ moQuarantined' = TRUE
  BY DEF MoConfirm
<1>4. CallSound("dropping", moStatus[c], p, moHeard[c], moCapture[c], moOwner[c], moCallback[c])
  <2>1. CallSound("confirming", moStatus[c], moOutcome[c], moHeard[c], moCapture[c], moOwner[c],
                  moCallback[c])
    BY <1>1
  <2> QED BY <1>2, <2>1, ConfirmSound
<1>5. "dropping" \in MoStages /\ moStage[c] \in MoHolding
  BY <1>1 DEF MoStages, MoHolding
<1>6. MoTouches(c, "dropping", moStatus[c], p, moHeard[c], moCapture[c], moOwner[c],
                moCallback[c])
  BY <1>1, <1>2 DEF MoTouches
<1>7. moOwner[c] \notin {"none", "retired"} => moQuarantined'
  BY <1>3 DEF CallSound
<1>8. MoSerialised'
  <2>1. moOwner' = [moOwner EXCEPT ![c] = moOwner[c]]
    BY <1>1
  <2>2. \/ moQuarantined' = moQuarantined
        \/ moQuarantined' = TRUE /\ moStage[c] = "confirming"
    BY <1>1, <1>3
  <2>3. "dropping" \notin MoLoop \cup {"confirming"}
    BY DEF MoLoop
  <2>4. \/ moSerial' = moSerial /\ ("dropping" \in MoHolding => moStage[c] \in MoHolding)
        \/ moSerial = MoNobody /\ moSerial' = c
        \/ moStage[c] \in MoHolding /\ "dropping" \notin MoHolding
    BY <1>1, <1>5
  <2>5. \/ /\ moActive' = moActive
           /\ moActive = c => "dropping" \in {"polling", "polled", "confirming", "dropping"}
        \/ moActive' = c /\ "dropping" = "polling"
        \/ moActive' = MoNobody
    BY <1>1
  <2> QED BY <1>1, <1>5, <1>7, <2>1, <2>2, <2>3, <2>4, <2>5, SerialisedThrough
<1> QED BY <1>2, <1>4, <1>5, <1>6, <1>8, RustKeeps

\* Dropping the capture and releasing SERIAL.
LEMMA MoDropKeeps ==
    ASSUME MacOsAssumption, MoInv, NEW c \in MoCall, MoDrop(c)
    PROVE  MoInv'
<1> USE CallBefore
<1> DEFINE k == IF moCapture[c].retired THEN MoReleased ELSE moCapture[c]
<1>1. /\ moStage[c] = "dropping"
      /\ moStage' = [moStage EXCEPT ![c] = "ended"]
      /\ moHeard' = [moHeard EXCEPT ![c] = <<>>]
      /\ moCapture' = [moCapture EXCEPT ![c] = k]
      /\ moStatus' = moStatus /\ moOutcome' = moOutcome /\ moOwner' = moOwner
      /\ moCallback' = moCallback /\ moQuarantined' = moQuarantined
      /\ moActive' = MoNobody
  BY DEF MoDrop
<1>2. CallSound("dropping", moStatus[c], moOutcome[c], moHeard[c], moCapture[c], moOwner[c],
                moCallback[c])
  BY <1>1
<1>3. CallSound("ended", moStatus[c], moOutcome[c], <<>>, k, moOwner[c], moCallback[c])
  BY <1>2, DropSound
<1>4. k \in MoCaptureType
  BY ClosedFields
<1> HIDE DEF k
<1>5. "ended" \in MoStages /\ moStage[c] \in MoHolding /\ "ended" \notin MoHolding
  BY <1>1 DEF MoStages, MoHolding
<1>6. MoTouches(c, "ended", moStatus[c], moOutcome[c], <<>>, k, moOwner[c], moCallback[c])
  BY <1>1 DEF MoTouches
<1>7. moOwner[c] \notin {"none", "retired"} => moQuarantined'
  BY <1>1 DEF MoInv, MoSerialised
<1>8. MoSerialised'
  <2>1. moOwner' = [moOwner EXCEPT ![c] = moOwner[c]]
    BY <1>1
  <2>2. "ended" \notin MoLoop \cup {"confirming"}
    BY DEF MoLoop
  <2>3. \/ moSerial' = moSerial /\ ("ended" \in MoHolding => moStage[c] \in MoHolding)
        \/ moSerial = MoNobody /\ moSerial' = c
        \/ moStage[c] \in MoHolding /\ "ended" \notin MoHolding
    BY <1>5
  <2>4. \/ /\ moActive' = moActive
           /\ moActive = c => "ended" \in {"polling", "polled", "confirming", "dropping"}
        \/ moActive' = c /\ "ended" = "polling"
        \/ moActive' = MoNobody
    BY <1>1
  <2> QED BY <1>1, <1>5, <1>7, <2>1, <2>2, <2>3, <2>4, SerialisedThrough
<1>9. <<>> \in Seq(Nat)
  OBVIOUS
<1> QED BY <1>3, <1>4, <1>5, <1>6, <1>8, <1>9, RustKeeps

\* A stop, and a cancelled token.
LEMMA MoStopKeeps ==
    ASSUME MoInv, MoStopStep \/ \E c \in MoCall : MoCancelToken(c)
    PROVE  MoInv'
<1>1. ASSUME moCapture' = moCapture,
             UNCHANGED <<moStage, moStatus, moOutcome, moHeard, moSerial, moQuarantined,
                         moActive, moOwner, moCallback>>
      PROVE  MoInv'
  <2>1. /\ moStage' = moStage /\ moOwner' = moOwner /\ moSerial' = moSerial
        /\ moActive' = moActive /\ moQuarantined' = moQuarantined
        /\ moStatus' = moStatus /\ moOutcome' = moOutcome /\ moHeard' = moHeard
        /\ moCallback' = moCallback
    BY <1>1
  <2>2. MoSerialised' /\ SynthesizerExclusive'
    BY <2>1, SerialisedStill
  <2>3. MoTypeOK'
    BY <1>1, <2>1 DEF MoInv, MoTypeOK
  <2>4. \A d \in MoCall : CallSound(moStage[d], moStatus[d], moOutcome[d], moHeard[d],
                                    moCapture[d], moOwner[d], moCallback[d])'
    BY <1>1, <2>1 DEF MoInv
  <2> QED BY <2>2, <2>3, <2>4 DEF MoInv
<1>2. CASE MoStopStep
  <2>1. UNCHANGED <<moStage, moStatus, moOutcome, moHeard, moSerial, moQuarantined,
                    moActive, moOwner, moCallback>>
    BY <1>2 DEF MoStopStep
  <2>2. CASE moCapture' = moCapture
    BY <1>1, <2>1, <2>2
  <2>3. CASE moActive # MoNobody
             /\ moCapture' = [moCapture EXCEPT ![moActive] = MoCancelCapture(@)]
    <3>1. PICK c \in MoCall : c = moActive /\ moStage[c] \notin MoEarly /\ moStage[c] # "ended"
      BY <2>3 DEF MoInv, MoSerialised, MoEarly
    <3> DEFINE k == MoCancelCapture(moCapture[c])
    <3>2. moCapture' = [moCapture EXCEPT ![c] = k]
      BY <2>3, <3>1
    <3>3. moOwner[c] # "none"
      BY <3>1, CallBefore DEF CallSound, MoStages, MoEarly, MoLoop
    <3>4. k \in MoCaptureType
          /\ CallSound(moStage[c], moStatus[c], moOutcome[c], moHeard[c], k, moOwner[c],
                       moCallback[c])
      BY <3>3, CallBefore, CancelFields, CancelSound
    <3> HIDE DEF k
    <3>5. /\ moStage' = moStage /\ moOwner' = moOwner /\ moSerial' = moSerial
          /\ moActive' = moActive /\ moQuarantined' = moQuarantined
          /\ moStatus' = moStatus /\ moOutcome' = moOutcome /\ moHeard' = moHeard
          /\ moCallback' = moCallback
      BY <2>1
    <3>6. MoSerialised' /\ SynthesizerExclusive'
      BY <3>5, SerialisedStill
    <3>7. MoTouches(c, moStage[c], moStatus[c], moOutcome[c], moHeard[c], k, moOwner[c],
                    moCallback[c])
      BY <3>2, <3>5, CallBefore DEF MoTouches
    <3>8. /\ MoTypeOK'
          /\ \A d \in MoCall : CallSound(moStage[d], moStatus[d], moOutcome[d], moHeard[d],
                                         moCapture[d], moOwner[d], moCallback[d])'
      BY <3>4, <3>7, CallBefore, OneCall
    <3> QED BY <3>6, <3>8 DEF MoInv
  <2> QED BY <1>2, <2>2, <2>3 DEF MoStopStep, MoStop, MoStopCancels
<1>3. CASE \E c \in MoCall : MoCancelToken(c)
  BY <1>1, <1>3 DEF MoCancelToken, moRust, moNative
<1> QED BY <1>2, <1>3

\* The invariant holds at the start.
LEMMA MoInitially ==
    ASSUME MacOsAssumption, MoInit
    PROVE  MoInv
<1> USE DEF MoInit
<1>1. MoNext(MoClosed) \in MoStatusType /\ MoClosed \in MoCaptureType
  BY ClosedFields, StatusFields
<1>2. MoTypeOK
  <2>1. <<>> \in Seq(Nat) /\ "idle" \in MoStages
    BY DEF MoStages
  <2> QED BY <1>1, <2>1 DEF MoTypeOK
<1>3. MoSerialised /\ SynthesizerExclusive
  BY DEF MoSerialised, SynthesizerExclusive, MoHolding, MoLoop
<1>4. \A c \in MoCall : CallSound(moStage[c], moStatus[c], moOutcome[c], moHeard[c],
                                  moCapture[c], moOwner[c], moCallback[c])
  BY ClosedFields DEF CallSound, MoEarly, MoLoop
<1> QED BY <1>2, <1>3, <1>4 DEF MoInv

\* Every step keeps it.
LEMMA MoKeeps ==
    ASSUME MacOsAssumption, MoInv, [MoNextStep]_moVars
    PROVE  MoInv'
<1>1. ASSUME NEW c \in MoCall, MoCallStep(c) \/ MoTimeout(c) \/ MoCaller(c)
      PROVE  MoInv'
  BY <1>1, MoWaitsKeep, MoOpenKeeps, MoLoopKeeps, MoConfirmKeeps, MoDropKeeps
     DEF MoCallStep, MoTimeout, MoCaller
<1>2. ASSUME NEW c \in MoCall, MoOwnerStep(c) \/ MoNative(c)
      PROVE  MoInv'
  BY <1>2, MoOwnerStepKeeps, MoConsumeKeeps, MoPublishKeeps, MoDelegateKeeps DEF MoNative
<1>3. CASE UNCHANGED moVars
  <2>1. /\ moStage' = moStage /\ moOwner' = moOwner /\ moSerial' = moSerial
        /\ moActive' = moActive /\ moQuarantined' = moQuarantined
        /\ moStatus' = moStatus /\ moOutcome' = moOutcome /\ moHeard' = moHeard
        /\ moCallback' = moCallback /\ moCapture' = moCapture
    BY <1>3 DEF moVars
  <2>2. MoSerialised' /\ SynthesizerExclusive'
    BY <2>1, SerialisedStill
  <2>3. MoTypeOK'
    BY <2>1 DEF MoInv, MoTypeOK
  <2>4. \A d \in MoCall : CallSound(moStage[d], moStatus[d], moOutcome[d], moHeard[d],
                                    moCapture[d], moOwner[d], moCallback[d])'
    BY <2>1 DEF MoInv
  <2> QED BY <2>2, <2>3, <2>4 DEF MoInv
<1> QED BY <1>1, <1>2, <1>3, MoStopKeeps DEF MoNextStep

\* It gives the two properties.
LEMMA MoInvSound ==
    ASSUME MoInv
    PROVE  SynthesizerExclusive /\ CaptureIsWhole
<1>1. ASSUME NEW c \in MoCall, moOutcome[c] = "ok", moStage[c] = "dropping"
      PROVE  moHeard[c] = [n \in 1 .. moCapture[c].accepted |-> n]
  <2>1. PICK h \in Seq(Nat), a \in Nat : h = moHeard[c] /\ a = moCapture[c].accepted
    BY CallBefore DEF MoCaptureType
  <2>2. Len(h) = a /\ Counts(h, 0)
    BY <1>1, <2>1, CallBefore DEF CallSound, Whole
  <2>3. DOMAIN h = 1 .. a /\ h = [n \in 1 .. a |-> h[n]]
    BY <2>2
  <2>4. \A n \in 1 .. a : h[n] = n
    BY <2>2 DEF Counts
  <2> QED BY <2>1, <2>3, <2>4
<1> QED BY <1>1 DEF MoInv, CaptureIsWhole

\* The macOS engine by itself: the synthesizer is never written to while another
\* capture may still use it, and a call that succeeds gave its sink every window.
THEOREM MacOsIsSafe == MoSpec => [](SynthesizerExclusive /\ CaptureIsWhole)
<1>1. MoSpec => []MoInv
  BY MacOsAssumption, MoInitially, MoKeeps, PTL DEF MoSpec
<1> QED BY <1>1, MoInvSound, PTL

\* The invariant holds at the start.
LEMMA MbInitially ==
    ASSUME MbInit
    PROVE  MbInv
BY DEF MbInit, MbInv, MbHolding, MbCapturing, NothingNativeLeft

\* Around a step of a call, what the others hold.
LEMMA MbHoldsKeeps ==
    ASSUME MbrolaAssumption, MbInv, NEW c \in MbCall,
           NEW st \in {"ready", "waiting", "ended"} \cup MbHolding,
           mbStage' = [mbStage EXCEPT ![c] = st],
           \/ mbOwner' = mbOwner /\ (st \in MbHolding => mbStage[c] \in MbHolding)
           \/ mbOwner = MbNobody /\ (mbOwner' = c \/ (mbOwner' = MbNobody /\ st \notin MbHolding))
           \/ mbStage[c] \in MbHolding /\ st \notin MbHolding
    PROVE  /\ mbStage' \in [MbCall -> {"ready", "waiting", "ended"} \cup MbHolding]
           /\ mbStage'[c] = st /\ \A d \in MbCall : d # c => mbStage'[d] = mbStage[d]
           /\ \A d \in MbCall : mbStage'[d] \in MbHolding => mbOwner' = d
<1>1. /\ mbStage' \in [MbCall -> {"ready", "waiting", "ended"} \cup MbHolding]
      /\ mbStage'[c] = st /\ \A d \in MbCall : d # c => mbStage'[d] = mbStage[d]
  BY DEF MbInv
<1>2. ASSUME NEW d \in MbCall, mbStage'[d] \in MbHolding
      PROVE  mbOwner' = d
  <2>1. CASE d = c
    BY <1>1, <1>2, <2>1 DEF MbInv
  <2>2. CASE d # c
    <3>1. mbOwner = d /\ d # MbNobody
      BY <1>1, <1>2, <2>2 DEF MbInv, MbrolaAssumption
    <3>2. mbStage[c] \notin MbHolding
      BY <2>2, <3>1 DEF MbInv
    <3> QED BY <3>1, <3>2
  <2> QED BY <2>1, <2>2
<1> QED BY <1>1, <1>2

\* A step outside a capture: nothing native changes.
LEMMA MbOutsideKeeps ==
    ASSUME MbrolaAssumption, MbInv, NEW c \in MbCall,
           NEW st \in {"ready", "waiting", "ended", "locked", "pho", "pcm"},
           NEW r \in {"none", "ok", "error"}, NEW g \in Nat, NEW e \in Nat,
           mbStage' = [mbStage EXCEPT ![c] = st],
           mbResult' = [mbResult EXCEPT ![c] = r],
           mbGeneration' = [mbGeneration EXCEPT ![c] = g],
           mbEntered' = [mbEntered EXCEPT ![c] = e],
           st # "ready" => g = e,
           mbStage[c] \notin MbCapturing,
           \/ mbOwner' = mbOwner /\ (st \in MbHolding => mbStage[c] \in MbHolding)
           \/ mbOwner = MbNobody /\ (mbOwner' = c \/ (mbOwner' = MbNobody /\ st \notin MbHolding))
           \/ mbStage[c] \in MbHolding /\ st \notin MbHolding,
           UNCHANGED MbCaptureVars, UNCHANGED mbHelper
    PROVE  MbInv'
<1>0. st \in {"ready", "waiting", "ended"} \cup MbHolding
  BY DEF MbHolding
<1>1. /\ mbStage' \in [MbCall -> {"ready", "waiting", "ended"} \cup MbHolding]
      /\ mbStage'[c] = st /\ \A d \in MbCall : d # c => mbStage'[d] = mbStage[d]
      /\ \A d \in MbCall : mbStage'[d] \in MbHolding => mbOwner' = d
  BY <1>0, MbHoldsKeeps
<1>2. /\ mbResult' \in [MbCall -> {"none", "ok", "error"}]
      /\ mbGeneration' \in [MbCall -> Nat] /\ mbEntered' \in [MbCall -> Nat]
      /\ mbGeneration'[c] = g /\ mbEntered'[c] = e
      /\ \A d \in MbCall : d # c => /\ mbGeneration'[d] = mbGeneration[d]
                                    /\ mbEntered'[d] = mbEntered[d]
  BY DEF MbInv
<1>3. /\ mbChild' = mbChild /\ mbThreads' = mbThreads /\ mbOutputs' = mbOutputs
      /\ mbHelper' = mbHelper
  BY DEF MbCaptureVars
<1>4. \A d \in MbCall : mbStage'[d] # "ready" => mbGeneration'[d] = mbEntered'[d]
  BY <1>1, <1>2 DEF MbInv
<1>5. \A d \in MbCall : mbStage'[d] \in MbCapturing <=> mbStage[d] \in MbCapturing
  BY <1>1 DEF MbCapturing
<1>6. mbOutputs' \subseteq MbPipes
  BY <1>3 DEF MbInv
<1>7. mbHelper' = "alive" /\ (\E d \in MbCall : mbStage'[d] \in MbCapturing)
         => mbThreads' = MbPipes \ mbOutputs'
  BY <1>3, <1>5 DEF MbInv
<1>8. NothingNativeLeft'
  BY <1>3, <1>5 DEF MbInv, NothingNativeLeft
<1> QED BY <1>1, <1>2, <1>4, <1>6, <1>7, <1>8 DEF MbInv

\* A step of the call that captures: the other calls are outside.
LEMMA MbInsideKeeps ==
    ASSUME MbrolaAssumption, MbInv, NEW c \in MbCall,
           NEW st \in {"ended", "pho", "pcm"} \cup MbCapturing,
           NEW r \in {"none", "ok", "error"},
           mbStage[c] \in MbHolding,
           mbStage' = [mbStage EXCEPT ![c] = st],
           mbResult' = [mbResult EXCEPT ![c] = r],
           mbGeneration' = mbGeneration, mbEntered' = mbEntered,
           \/ mbOwner' = mbOwner
           \/ st = "ended",
           mbOutputs' \subseteq MbPipes,
           st \in MbCapturing /\ mbHelper' = "alive" => mbThreads' = MbPipes \ mbOutputs',
           st \notin MbCapturing => mbChild' \in {"none", "reaped"} /\ mbThreads' = {}
    PROVE  MbInv'
<1>0. st \in {"ready", "waiting", "ended"} \cup MbHolding /\ "ended" \notin MbHolding
  BY DEF MbHolding, MbCapturing
<1>1. /\ mbStage' \in [MbCall -> {"ready", "waiting", "ended"} \cup MbHolding]
      /\ mbStage'[c] = st /\ \A d \in MbCall : d # c => mbStage'[d] = mbStage[d]
      /\ \A d \in MbCall : mbStage'[d] \in MbHolding => mbOwner' = d
  BY <1>0, MbHoldsKeeps
<1>2. \A d \in MbCall : d # c => mbStage'[d] \notin MbCapturing
  BY <1>1 DEF MbInv, MbHolding
<1>3. /\ mbResult' \in [MbCall -> {"none", "ok", "error"}]
      /\ mbGeneration' \in [MbCall -> Nat] /\ mbEntered' \in [MbCall -> Nat]
  BY DEF MbInv
<1>4. \A d \in MbCall : mbStage'[d] # "ready" => mbGeneration'[d] = mbEntered'[d]
  <2>1. mbStage[c] # "ready"
    BY DEF MbHolding, MbCapturing
  <2> QED BY <1>1, <2>1 DEF MbInv
<1>5. mbHelper' = "alive" /\ (\E d \in MbCall : mbStage'[d] \in MbCapturing)
         => mbThreads' = MbPipes \ mbOutputs'
  BY <1>1, <1>2
<1>6. NothingNativeLeft'
  BY <1>1, <1>2 DEF NothingNativeLeft
<1> QED BY <1>1, <1>3, <1>4, <1>5, <1>6 DEF MbInv

\* Every step of a call keeps the invariant.
LEMMA MbEngineKeeps ==
    ASSUME MbrolaAssumption, MbInv, mbHelper = "alive", mbStops \in Nat,
           NEW c \in MbCall, MbEngine(c)
    PROVE  MbInv'
<1>1. /\ mbStage[c] \in {"ready", "waiting", "ended"} \cup MbHolding
      /\ mbResult[c] \in {"none", "ok", "error"}
      /\ mbGeneration[c] \in Nat /\ mbEntered[c] \in Nat
      /\ mbStage = [mbStage EXCEPT ![c] = mbStage[c]]
      /\ mbResult = [mbResult EXCEPT ![c] = mbResult[c]]
      /\ mbGeneration = [mbGeneration EXCEPT ![c] = mbGeneration[c]]
      /\ mbEntered = [mbEntered EXCEPT ![c] = mbEntered[c]]
  BY DEF MbInv
<1>2. mbStage[c] # "ready" => mbGeneration[c] = mbEntered[c]
  BY DEF MbInv
<1>4. CASE MbEnter(c)
  <2>1. PICK st \in {"waiting", "ended"}, r \in {"none", "ok", "error"} :
          /\ mbStage' = [mbStage EXCEPT ![c] = st]
          /\ mbResult' = [mbResult EXCEPT ![c] = r]
    <3>1. CASE mbStage' = [mbStage EXCEPT ![c] = "waiting"] /\ UNCHANGED mbResult
      BY <1>1, <3>1
    <3>2. CASE /\ mbStage' = [mbStage EXCEPT ![c] = "ended"]
               /\ mbResult' = [mbResult EXCEPT ![c] = "error"]
      BY <3>2
    <3> QED BY <1>4, <3>1, <3>2 DEF MbEnter
  <2>2. /\ mbGeneration' = [mbGeneration EXCEPT ![c] = mbStops]
        /\ mbEntered' = [mbEntered EXCEPT ![c] = mbStops]
        /\ mbOwner' = mbOwner /\ UNCHANGED MbCaptureVars /\ UNCHANGED mbHelper
        /\ mbStage[c] = "ready"
    BY <1>4 DEF MbEnter
  <2>3. st \notin MbHolding /\ mbStage[c] \notin MbCapturing
    BY <2>2 DEF MbHolding, MbCapturing
  <2> QED BY <2>1, <2>2, <2>3, MbOutsideKeeps
<1>5. ASSUME NEW st \in {"ended", "locked", "pho", "pcm"}, NEW r \in {"none", "ok", "error"},
             mbStage[c] \in {"waiting", "locked", "pho", "pcm"},
             mbStage' = [mbStage EXCEPT ![c] = st],
             mbResult' = [mbResult EXCEPT ![c] = r],
             \/ mbOwner = MbNobody /\ mbOwner' = c
             \/ mbOwner' = MbNobody /\ st = "ended" /\ (mbOwner = MbNobody \/ mbStage[c] \in MbHolding),
             UNCHANGED <<mbGeneration, mbEntered, MbCaptureVars, mbHelper>>
      PROVE  MbInv'
  <2>1. /\ mbGeneration' = [mbGeneration EXCEPT ![c] = mbGeneration[c]]
        /\ mbEntered' = [mbEntered EXCEPT ![c] = mbEntered[c]]
        /\ UNCHANGED MbCaptureVars /\ UNCHANGED mbHelper
        /\ mbGeneration[c] = mbEntered[c]
    BY <1>1, <1>2, <1>5
  <2>2. "ended" \notin MbHolding /\ mbStage[c] \notin MbCapturing
    BY <1>5 DEF MbHolding, MbCapturing
  <2>3. /\ st \in {"ready", "waiting", "ended", "locked", "pho", "pcm"}
        /\ mbGeneration[c] \in Nat /\ mbEntered[c] \in Nat
        /\ st # "ready" => mbGeneration[c] = mbEntered[c]
    BY <1>1, <1>5, <2>1
  <2>4. \/ mbOwner' = mbOwner /\ (st \in MbHolding => mbStage[c] \in MbHolding)
        \/ mbOwner = MbNobody /\ (mbOwner' = c \/ (mbOwner' = MbNobody /\ st \notin MbHolding))
        \/ mbStage[c] \in MbHolding /\ st \notin MbHolding
    BY <1>5, <2>2
  <2>5. /\ mbStage' = [mbStage EXCEPT ![c] = st]
        /\ mbResult' = [mbResult EXCEPT ![c] = r]
        /\ mbGeneration' = [mbGeneration EXCEPT ![c] = mbGeneration[c]]
        /\ mbEntered' = [mbEntered EXCEPT ![c] = mbEntered[c]]
    BY <1>5, <2>1
  <2>6. UNCHANGED MbCaptureVars /\ UNCHANGED mbHelper /\ mbStage[c] \notin MbCapturing
    BY <2>1, <2>2
  <2> QED BY <2>3, <2>4, <2>5, <2>6, MbOutsideKeeps
<1>6. CASE MbLock(c)
  <2>1. /\ mbStage[c] = "waiting" /\ mbOwner = MbNobody
        /\ UNCHANGED <<mbGeneration, mbEntered, MbCaptureVars, mbHelper>>
    BY <1>6 DEF MbLock
  <2>2. CASE /\ mbStage' = [mbStage EXCEPT ![c] = "locked"]
             /\ mbOwner' = c /\ UNCHANGED mbResult
    BY <1>1, <1>5, <2>1, <2>2
  <2>3. ASSUME NEW r \in {"ok", "error"}, MbEnd(c, r)
        PROVE  MbInv'
    BY <1>5, <2>1, <2>3 DEF MbEnd
  <2> QED BY <1>6, <2>2, <2>3 DEF MbLock
<1>7. ASSUME mbStage[c] \in {"locked", "pho", "pcm"}, NEW r \in {"ok", "error"}, MbEnd(c, r),
             UNCHANGED <<mbGeneration, mbEntered, MbCaptureVars, mbHelper>>
      PROVE  MbInv'
  <2>1. mbStage[c] \in MbHolding
    BY <1>7 DEF MbHolding
  <2> QED BY <1>5, <1>7, <2>1 DEF MbEnd
<1>8. ASSUME NEW from \in {"locked", "pho"}, NEW to \in {"frontend", "runtime"},
             MbSpawn(c, from, to)
      PROVE  MbInv'
  <2>1. mbStage[c] = from /\ mbGeneration' = mbGeneration /\ mbEntered' = mbEntered
        /\ mbHelper' = mbHelper
    BY <1>8 DEF MbSpawn
  <2>2. CASE /\ mbStage' = [mbStage EXCEPT ![c] = to]
             /\ mbThreads' = MbPipes /\ mbOutputs' = {}
             /\ UNCHANGED <<mbResult, mbOwner>>
    <3>1. to \in MbCapturing /\ mbStage[c] \in MbHolding
      BY <2>1 DEF MbCapturing, MbHolding
    <3> QED BY <1>1, <2>1, <2>2, <3>1, MbInsideKeeps
  <2>3. CASE MbEnd(c, "error") /\ UNCHANGED MbCaptureVars
    BY <1>7, <2>1, <2>3
  <2> QED BY <1>8, <2>2, <2>3 DEF MbSpawn
<1>9. CASE MbPoll(c)
  <2>1. /\ mbStage[c] \in {"frontend", "runtime"}
        /\ mbStage' = [mbStage EXCEPT ![c] = MbRetiring(mbStage[c])]
        /\ mbGeneration' = mbGeneration /\ mbEntered' = mbEntered
        /\ mbResult' = mbResult /\ mbOwner' = mbOwner /\ mbThreads' = mbThreads
        /\ mbOutputs' = mbOutputs
    BY <1>9 DEF MbPoll
  <2>2. MbRetiring(mbStage[c]) \in MbCapturing /\ mbStage[c] \in MbHolding
        /\ mbStage[c] \in MbCapturing
    BY <2>1 DEF MbCapturing, MbHolding, MbRetiring
  <2>3. mbThreads' = MbPipes \ mbOutputs' /\ mbOutputs' \subseteq MbPipes
    BY <2>1, <2>2 DEF MbInv
  <2>4. mbResult' = [mbResult EXCEPT ![c] = mbResult[c]]
    BY <1>1, <2>1
  <2> QED BY <1>1, <2>1, <2>2, <2>3, <2>4, MbInsideKeeps
<1>10. CASE MbRetire(c)
  <2>1. /\ mbStage[c] \in {"retiring frontend", "retiring runtime"}
        /\ mbGeneration' = mbGeneration /\ mbEntered' = mbEntered /\ mbOutputs' = mbOutputs
    BY <1>10 DEF MbRetire
  <2>2. mbStage[c] \in MbCapturing /\ mbStage[c] \in MbHolding
    BY <2>1 DEF MbCapturing, MbHolding
  <2>3. mbThreads = MbPipes \ mbOutputs /\ mbOutputs' \subseteq MbPipes
    BY <2>1, <2>2 DEF MbInv
  <2>4. CASE /\ MbRetired /\ mbChild' = "reaped" /\ mbThreads' = mbThreads
             /\ mbStage' = [mbStage EXCEPT ![c] =
                               IF mbStage[c] = "retiring frontend" THEN "pho" ELSE "pcm"]
             /\ UNCHANGED <<mbResult, mbOwner>>
    <3>1. mbThreads' = {}
      BY <2>3, <2>4 DEF MbRetired
    <3> DEFINE st == IF mbStage[c] = "retiring frontend" THEN "pho" ELSE "pcm"
    <3>2. st \in {"pho", "pcm"} /\ st \notin MbCapturing
      BY DEF MbCapturing
    <3>3. mbStage' = [mbStage EXCEPT ![c] = st]
      BY <2>4
    <3> HIDE DEF st
    <3> QED BY <1>1, <2>1, <2>2, <2>3, <2>4, <3>1, <3>2, <3>3, MbInsideKeeps
  <2>5. CASE MbRetired /\ mbChild' = "reaped" /\ mbThreads' = mbThreads /\ MbEnd(c, "error")
    <3>1. mbThreads' = {}
      BY <2>3, <2>5 DEF MbRetired
    <3>2. "ended" \notin MbCapturing
      BY DEF MbCapturing
    <3> QED BY <1>1, <2>1, <2>2, <2>3, <2>5, <3>1, <3>2, MbInsideKeeps DEF MbEnd
  <2>6. CASE mbHelper' = "retired" /\ UNCHANGED <<mbStage, mbResult, mbOwner>>
    BY <1>1, <2>1, <2>2, <2>3, <2>6, MbInsideKeeps
  <2> QED BY <1>10, <2>4, <2>5, <2>6 DEF MbRetire
<1>11. CASE MbCommit(c)
  BY <1>7, <1>11 DEF MbCommit
<1> QED BY <1>4, <1>6, <1>8, <1>9, <1>10, <1>11 DEF MbEngine

\* The child, its pipes and its timer move only during a capture.
LEMMA MbWorldKeeps ==
    ASSUME MbInv, mbHelper = "alive",
           UNCHANGED <<mbStage, mbGeneration, mbEntered, mbResult, mbOwner, mbHelper>>,
           mbOutputs' \subseteq MbPipes,
           \/ mbThreads' = mbThreads /\ mbOutputs' = mbOutputs
                 /\ (mbChild' = mbChild \/ mbChild = "running")
           \/ \E p \in mbThreads : /\ mbThreads' = mbThreads \ {p}
                                   /\ mbOutputs' = mbOutputs \cup {p}
    PROVE  MbInv'
<1>1. /\ mbStage' = mbStage /\ mbGeneration' = mbGeneration /\ mbEntered' = mbEntered
      /\ mbResult' = mbResult /\ mbOwner' = mbOwner /\ mbHelper' = mbHelper
  OBVIOUS
<1>2. mbHelper' = "alive" /\ (\E d \in MbCall : mbStage'[d] \in MbCapturing)
         => mbThreads' = MbPipes \ mbOutputs'
  BY <1>1 DEF MbInv
<1>3. NothingNativeLeft'
  BY <1>1 DEF MbInv, NothingNativeLeft
<1>4. /\ mbStage' \in [MbCall -> {"ready", "waiting", "ended"} \cup MbHolding]
      /\ mbResult' \in [MbCall -> {"none", "ok", "error"}]
      /\ mbGeneration' \in [MbCall -> Nat] /\ mbEntered' \in [MbCall -> Nat]
      /\ \A c \in MbCall : mbStage'[c] \in MbHolding => mbOwner' = c
      /\ \A c \in MbCall : mbStage'[c] # "ready" => mbGeneration'[c] = mbEntered'[c]
  BY <1>1 DEF MbInv
<1> QED BY <1>2, <1>3, <1>4 DEF MbInv

\* With the stops, which are only counted.
MbSafe == MbInv /\ mbStops \in Nat

\* Every step keeps it.
LEMMA MbKeeps ==
    ASSUME MbrolaAssumption, MbSafe, [MbNext]_mbVars
    PROVE  MbSafe'
<1> USE DEF MbSafe
<1>1. CASE MbNext
  <2>1. mbHelper = "alive"
    BY <1>1 DEF MbNext
  <2>2. ASSUME NEW c \in MbCall, MbEngine(c)
        PROVE  MbInv' /\ mbStops' = mbStops
    <3>1. mbStops' = mbStops
      BY <2>2 DEF MbEngine, MbEnter, MbLock, MbSpawn, MbPoll, MbRetire, MbCommit
    <3> QED BY <2>1, <2>2, <3>1, MbEngineKeeps
  <2>3. ASSUME NEW c \in MbCall, MbCancelToken(c)
        PROVE  MbInv' /\ mbStops' = mbStops
    <3>1. mbThreads' = mbThreads /\ mbOutputs' = mbOutputs /\ mbChild' = mbChild
          /\ UNCHANGED <<mbStage, mbGeneration, mbEntered, mbResult, mbOwner, mbHelper>>
          /\ mbStops' = mbStops
      BY <2>3 DEF MbCancelToken, MbCaptureVars
    <3>2. mbOutputs' \subseteq MbPipes
      BY <3>1 DEF MbInv
    <3> QED BY <2>1, <3>1, <3>2, MbWorldKeeps
  <2>4. CASE MbChildExits
    <3>1. mbThreads' = mbThreads /\ mbOutputs' = mbOutputs /\ mbChild = "running"
          /\ UNCHANGED <<mbStage, mbGeneration, mbEntered, mbResult, mbOwner, mbHelper>>
          /\ mbStops' = mbStops
      BY <2>4 DEF MbChildExits
    <3>2. mbOutputs' \subseteq MbPipes
      BY <3>1 DEF MbInv
    <3> QED BY <2>1, <3>1, <3>2, MbWorldKeeps
  <2>5. ASSUME NEW p \in MbPipes, MbPipeEnds(p)
        PROVE  MbInv' /\ mbStops' = mbStops
    <3>1. p \in mbThreads /\ mbThreads' = mbThreads \ {p} /\ mbOutputs' = mbOutputs \cup {p}
          /\ UNCHANGED <<mbStage, mbGeneration, mbEntered, mbResult, mbOwner, mbHelper>>
          /\ mbStops' = mbStops
      BY <2>5 DEF MbPipeEnds
    <3>2. mbOutputs' \subseteq MbPipes
      BY <3>1 DEF MbInv
    <3> QED BY <2>1, <3>1, <3>2, MbWorldKeeps
  <2>6. CASE MbDeadlinePasses \/ MbStop
    <3>1. mbThreads' = mbThreads /\ mbOutputs' = mbOutputs /\ mbChild' = mbChild
          /\ UNCHANGED <<mbStage, mbGeneration, mbEntered, mbResult, mbOwner, mbHelper>>
      BY <2>6 DEF MbDeadlinePasses, MbStop, MbCaptureVars
    <3>2. mbOutputs' \subseteq MbPipes
      BY <3>1 DEF MbInv
    <3>3. mbStops' \in Nat
      BY <2>6 DEF MbDeadlinePasses, MbStop
    <3> QED BY <2>1, <3>1, <3>2, <3>3, MbWorldKeeps
  <2> QED BY <1>1, <2>2, <2>3, <2>4, <2>5, <2>6 DEF MbNext
<1>2. CASE UNCHANGED mbVars
  BY <1>2 DEF mbVars, MbInv, NothingNativeLeft
<1> QED BY <1>1, <1>2

\* It holds at the start with the stops.
LEMMA MbInitiallySafe ==
    ASSUME MbInit
    PROVE  MbSafe
<1>1. MbInv
  BY MbInitially
<1>2. mbStops \in Nat
  BY DEF MbInit
<1> QED BY <1>1, <1>2 DEF MbSafe

\* What a step may do to a result.
MbAnswers ==
    mbResult' # mbResult =>
        \A c \in MbCall : mbResult[c] # "ok" /\ mbResult'[c] = "ok" => mbStops = mbEntered[c]

\* A call ends well only with the generation it began in.
LEMMA MbStepAnswers ==
    ASSUME MbSafe, [MbNext]_mbVars
    PROVE  MbAnswers
<1> SUFFICES ASSUME NEW c \in MbCall, mbResult[c] # "ok", mbResult'[c] = "ok"
             PROVE  mbStops = mbEntered[c]
  BY DEF MbAnswers
<1>1. mbResult \in [MbCall -> {"none", "ok", "error"}]
  BY DEF MbSafe, MbInv
<1>2. mbResult' # mbResult
  OBVIOUS
<1>3. PICK d \in MbCall : MbEngine(d)
  BY <1>2 DEF MbNext, mbVars, MbCancelToken, MbChildExits, MbPipeEnds, MbDeadlinePasses, MbStop
<1>4. ASSUME NEW r, MbEnd(d, r), mbStage[d] # "ready", r = "ok" => ~MbCancelled(d)
      PROVE  mbStops = mbEntered[c]
  <2>1. mbResult' = [mbResult EXCEPT ![d] = r]
    BY <1>4 DEF MbEnd
  <2>2. c = d /\ r = "ok"
    BY <1>1, <2>1
  <2>3. mbGeneration[d] = mbEntered[d]
    BY <1>4 DEF MbSafe, MbInv
  <2> QED BY <1>4, <2>2, <2>3 DEF MbCancelled
<1>5. ~MbEnter(d) /\ ~MbPoll(d)
  <2>1. ASSUME MbEnter(d) PROVE FALSE
    <3>1. mbResult' = mbResult \/ mbResult' = [mbResult EXCEPT ![d] = "error"]
      BY <2>1 DEF MbEnter
    <3> QED BY <1>1, <1>2, <3>1
  <2> QED BY <1>2, <2>1 DEF MbPoll
<1>6. CASE MbLock(d)
  BY <1>2, <1>4, <1>6 DEF MbLock
<1>7. ASSUME NEW from \in {"locked", "pho"}, NEW to, MbSpawn(d, from, to)
      PROVE  mbStops = mbEntered[c]
  BY <1>2, <1>4, <1>7 DEF MbSpawn
<1>8. CASE MbRetire(d)
  <2>1. mbStage[d] # "ready" /\ MbEnd(d, "error")
    BY <1>2, <1>8 DEF MbRetire
  <2> QED BY <1>4, <2>1
<1>9. CASE MbCommit(d)
  BY <1>4, <1>9 DEF MbCommit
<1> QED BY <1>3, <1>5, <1>6, <1>7, <1>8, <1>9 DEF MbEngine

\* The MBROLA helper by itself: between captures no child and no pipe thread is left.
THEOREM MbrolaIsSafe == MbSpec => []NothingNativeLeft
<1>1. MbInit => MbSafe
  BY MbInitiallySafe
<1>2. MbSafe => NothingNativeLeft
  BY DEF MbSafe, MbInv
<1> QED BY <1>1, <1>2, MbrolaAssumption, MbKeeps, PTL DEF MbSpec

------------------------------
(* The Piper adapter *)

PiChunk == [model : PiModels \cup {PiNoModel}, speaker : Nat, call : PiCall]
PiHolding == {"locked", "cleared", "loading", "ready", "drawing"}
PiOwn(c) == [model |-> PiVoice(c).model, speaker |-> PiVoice(c).speaker, call |-> c]

\* What is known of a call at its stage.  A model that failed while the call waited
\* for the lock is seen when its binding is looked up again; from then on the lock
\* keeps the others from loading.
PiPlaces ==
    \A c \in PiCall :
        /\ piStage[c] \in PiHolding => piLock = c
        /\ piStage[c] \in PiHolding \ {"locked"} => piRequest[c].voice \in DOMAIN PiVoices
        /\ piStage[c] \in {"cleared", "loading"} => PiVoice(c).model \notin piFailed
        /\ piStage[c] \in {"ready", "drawing"} => piState = PiVoice(c).model
        /\ piStage[c] = "drawing" => \A i \in DOMAIN piNative : piNative[i] = PiOwn(c)

PiTypeOK ==
    /\ piRequest \in PiRequests
    /\ piStage \in [PiCall -> {"idle", "bound", "ended"} \cup PiHolding]
    /\ piHeard \in [PiCall -> Seq(PiChunk)]
    /\ piState \in PiModels \cup {PiNoModel}
    /\ piFailed \subseteq PiModels
    /\ piLoads \in [PiModels -> Nat]
    /\ piNative \in Seq(PiChunk)

PiInv ==
    /\ PiTypeOK /\ PiPlaces /\ SpokenByItsVoice
    /\ \A m \in PiModels : piLoads[m] = IF m \in piFailed THEN 1 ELSE 0

\* The invariant holds at the start.
LEMMA PiInitially ==
    ASSUME PiInit
    PROVE  PiInv
<1>1. PiTypeOK
  BY DEF PiInit, PiTypeOK
<1>2. PiPlaces /\ SpokenByItsVoice
  BY DEF PiInit, PiPlaces, SpokenByItsVoice, PiHolding
<1>3. \A m \in PiModels : piLoads[m] = IF m \in piFailed THEN 1 ELSE 0
  BY DEF PiInit
<1> QED BY <1>1, <1>2, <1>3 DEF PiInv

\* The stages of the others through a step of the call that holds the lock, or takes it.
LEMMA PiOthers ==
    ASSUME PiperAssumption, PiInv, NEW c \in PiCall,
           NEW st \in {"idle", "bound", "ended"} \cup PiHolding,
           piStage' = [piStage EXCEPT ![c] = st],
           \/ piLock' = piLock
           \/ piLock = PiNobody /\ piLock' = c
           \/ piLock = c /\ piLock' = PiNobody /\ st \notin PiHolding,
           st \in PiHolding => piLock' = c
    PROVE  /\ piStage' \in [PiCall -> {"idle", "bound", "ended"} \cup PiHolding]
           /\ piStage'[c] = st /\ \A d \in PiCall : d # c => piStage'[d] = piStage[d]
           /\ \A d \in PiCall : piStage'[d] \in PiHolding => piLock' = d
<1>1. /\ piStage' \in [PiCall -> {"idle", "bound", "ended"} \cup PiHolding]
      /\ piStage'[c] = st /\ \A d \in PiCall : d # c => piStage'[d] = piStage[d]
  BY DEF PiInv, PiTypeOK
<1>2. ASSUME NEW d \in PiCall, d # c, piStage'[d] \in PiHolding
      PROVE  piLock' = d
  <2>1. piLock = d /\ d # PiNobody
    BY <1>1, <1>2 DEF PiInv, PiPlaces, PiperAssumption
  <2> QED BY <1>2, <2>1
<1> QED BY <1>1, <1>2

\* A step that moves one call and neither the model nor what was heard.
LEMMA PiMoves ==
    ASSUME PiperAssumption, PiInv, NEW c \in PiCall,
           NEW st \in {"idle", "bound", "ended", "locked", "cleared"},
           piStage' = [piStage EXCEPT ![c] = st],
           \/ piLock' = piLock
           \/ piLock = PiNobody /\ piLock' = c
           \/ piLock = c /\ piLock' = PiNobody /\ st \notin PiHolding,
           st \in PiHolding => piLock' = c,
           st = "cleared" => /\ piRequest[c].voice \in DOMAIN PiVoices
                             /\ PiVoice(c).model \notin piFailed,
           UNCHANGED <<piRequest, piHeard, piState, piFailed, piLoads, piNative>>
    PROVE  PiInv'
<1>0. st \in {"idle", "bound", "ended"} \cup PiHolding
  BY DEF PiHolding
<1>1. /\ piStage' \in [PiCall -> {"idle", "bound", "ended"} \cup PiHolding]
      /\ piStage'[c] = st /\ \A d \in PiCall : d # c => piStage'[d] = piStage[d]
      /\ \A d \in PiCall : piStage'[d] \in PiHolding => piLock' = d
  BY <1>0, PiOthers
<1>2. PiTypeOK'
  BY <1>1 DEF PiInv, PiTypeOK
<1>3. /\ \A d \in PiCall : PiVoice(d)' = PiVoice(d) /\ PiOwn(d)' = PiOwn(d)
      /\ piRequest' = piRequest /\ piFailed' = piFailed /\ piState' = piState
      /\ piNative' = piNative /\ piHeard' = piHeard
  BY DEF PiVoice, PiOwn
<1>4. PiPlaces'
  <2> SUFFICES ASSUME NEW d \in PiCall
               PROVE  /\ piStage'[d] \in PiHolding => piLock' = d
                      /\ piStage'[d] \in PiHolding \ {"locked"}
                            => piRequest'[d].voice \in DOMAIN PiVoices
                      /\ piStage'[d] \in {"cleared", "loading"}
                            => PiVoice(d)'.model \notin piFailed'
                      /\ piStage'[d] \in {"ready", "drawing"} => piState' = PiVoice(d)'.model
                      /\ piStage'[d] = "drawing"
                            => \A i \in DOMAIN piNative' : piNative'[i] = PiOwn(d)'
    BY DEF PiPlaces
  <2>1. CASE d = c
    BY <1>1, <1>3, <2>1 DEF PiHolding
  <2>2. CASE d # c
    BY <1>1, <1>3, <2>2 DEF PiInv, PiPlaces
  <2> QED BY <2>1, <2>2
<1>5. SpokenByItsVoice'
  <2>1. \A d \in PiCall : \A i \in DOMAIN piHeard[d] : piHeard[d][i] = PiOwn(d)
    BY DEF PiInv, SpokenByItsVoice, PiOwn
  <2>2. \A d \in PiCall : \A i \in DOMAIN piHeard'[d] : piHeard'[d][i] = PiOwn(d)'
    BY <1>3, <2>1
  <2> QED BY <2>2 DEF SpokenByItsVoice, PiOwn
<1>6. \A m \in PiModels : piLoads'[m] = IF m \in piFailed' THEN 1 ELSE 0
  BY DEF PiInv
<1> QED BY <1>2, <1>4, <1>5, <1>6 DEF PiInv

\* A step of the call that holds the lock: the others' places say nothing of the model.
LEMMA PiHolder ==
    ASSUME PiperAssumption, PiInv, NEW c \in PiCall, piStage[c] \in PiHolding \ {"locked"},
           NEW st \in {"ended", "loading", "ready", "drawing"},
           piStage' = [piStage EXCEPT ![c] = st],
           piLock' = IF st = "ended" THEN PiNobody ELSE piLock,
           piRequest' = piRequest,
           st = "loading" => PiVoice(c).model \notin piFailed',
           st \in {"ready", "drawing"} => piState' = PiVoice(c).model,
           st = "drawing" => \A i \in DOMAIN piNative' : piNative'[i] = PiOwn(c)
    PROVE  PiPlaces' /\ piStage' \in [PiCall -> {"idle", "bound", "ended"} \cup PiHolding]
<1>1. piLock = c /\ piRequest[c].voice \in DOMAIN PiVoices
  BY DEF PiInv, PiPlaces
<1>2. /\ st \in {"idle", "bound", "ended"} \cup PiHolding
      /\ \/ piLock' = piLock
         \/ piLock = PiNobody /\ piLock' = c
         \/ piLock = c /\ piLock' = PiNobody /\ st \notin PiHolding
      /\ st \in PiHolding => piLock' = c
  BY <1>1 DEF PiHolding
<1>3. /\ piStage' \in [PiCall -> {"idle", "bound", "ended"} \cup PiHolding]
      /\ piStage'[c] = st /\ \A d \in PiCall : d # c => piStage'[d] = piStage[d]
      /\ \A d \in PiCall : piStage'[d] \in PiHolding => piLock' = d
  BY <1>2, PiOthers
<1>4. ASSUME NEW d \in PiCall, d # c
      PROVE  piStage'[d] \notin PiHolding
  BY <1>1, <1>3, <1>4 DEF PiInv, PiPlaces
<1>5. PiVoice(c)' = PiVoice(c) /\ PiOwn(c)' = PiOwn(c)
  BY DEF PiVoice, PiOwn
<1>6. PiPlaces'
  <2> SUFFICES ASSUME NEW d \in PiCall
               PROVE  /\ piStage'[d] \in PiHolding => piLock' = d
                      /\ piStage'[d] \in PiHolding \ {"locked"}
                            => piRequest'[d].voice \in DOMAIN PiVoices
                      /\ piStage'[d] \in {"cleared", "loading"}
                            => PiVoice(d)'.model \notin piFailed'
                      /\ piStage'[d] \in {"ready", "drawing"} => piState' = PiVoice(d)'.model
                      /\ piStage'[d] = "drawing"
                            => \A i \in DOMAIN piNative' : piNative'[i] = PiOwn(d)'
    BY DEF PiPlaces
  <2>1. CASE d = c
    BY <1>1, <1>3, <1>5, <2>1 DEF PiHolding
  <2>2. CASE d # c
    BY <1>3, <1>4, <2>2 DEF PiHolding
  <2> QED BY <2>1, <2>2
<1> QED BY <1>3, <1>6

\* What was heard is said in the voice of the call's request, which does not change.
LEMMA PiHeardKept ==
    ASSUME SpokenByItsVoice, piRequest' = piRequest, piHeard' = piHeard
    PROVE  SpokenByItsVoice'
<1>1. \A d \in PiCall : \A i \in DOMAIN piHeard[d] : piHeard[d][i] = PiOwn(d)
  BY DEF SpokenByItsVoice, PiOwn
<1>2. \A d \in PiCall : PiOwn(d)' = PiOwn(d)
  BY DEF PiOwn, PiVoice
<1> QED BY ZenonT(60), <1>1, <1>2 DEF SpokenByItsVoice, PiOwn

\* A call's end gives back the lock if the call had it.
LEMMA PiEndsMoves ==
    ASSUME PiperAssumption, PiInv, NEW c \in PiCall, NEW r, PiEnds(c, r),
           UNCHANGED <<piRequest, piHeard, piState, piFailed, piLoads, piNative>>
    PROVE  PiInv'
<1>1. /\ piStage' = [piStage EXCEPT ![c] = "ended"]
      /\ \/ piLock' = piLock
         \/ piLock = PiNobody /\ piLock' = c
         \/ piLock = c /\ piLock' = PiNobody /\ "ended" \notin PiHolding
      /\ "ended" \in PiHolding => piLock' = c
  BY DEF PiEnds, PiHolding
<1> QED BY <1>1, PiMoves

\* Up to the lock, and the second look at the binding.
LEMMA PiEnterKeeps ==
    ASSUME PiperAssumption, PiInv, NEW c \in PiCall, PiEnter(c), piRequest' = piRequest
    PROVE  PiInv'
<1>1. UNCHANGED <<piRequest, piHeard, piState, piFailed, piLoads, piNative>>
  BY DEF PiEnter
<1>2. CASE \E r : PiEnds(c, r)
  BY <1>1, <1>2, PiEndsMoves
<1>3. CASE piStage' = [piStage EXCEPT ![c] = "bound"] /\ piLock' = piLock
  <2>1. "bound" \notin PiHolding
    BY DEF PiHolding
  <2> QED BY <1>1, <1>3, <2>1, PiMoves
<1> QED BY <1>2, <1>3 DEF PiEnter

\* The lock is free when it is taken.
LEMMA PiAcquireKeeps ==
    ASSUME PiperAssumption, PiInv, NEW c \in PiCall, PiAcquire(c), piRequest' = piRequest
    PROVE  PiInv'
<1>1. /\ UNCHANGED <<piRequest, piHeard, piState, piFailed, piLoads, piNative>>
      /\ piStage' = [piStage EXCEPT ![c] = "locked"] /\ piLock = PiNobody /\ piLock' = c
  BY DEF PiAcquire
<1> QED BY <1>1, PiMoves

\* A model that failed while the call waited is not prepared.
LEMMA PiPrepareKeeps ==
    ASSUME PiperAssumption, PiInv, NEW c \in PiCall, PiPrepare(c), piRequest' = piRequest
    PROVE  PiInv'
<1>1. UNCHANGED <<piRequest, piHeard, piState, piFailed, piLoads, piNative>>
  BY DEF PiPrepare
<1>2. CASE \E r : PiEnds(c, r)
  BY <1>1, <1>2, PiEndsMoves
<1>3. CASE /\ PiStillBound(c)
           /\ piStage' = [piStage EXCEPT ![c] = "cleared"] /\ piLock' = piLock
  <2>1. piLock = c
    BY DEF PiPrepare, PiInv, PiPlaces, PiHolding
  <2>2. piRequest[c].voice \in DOMAIN PiVoices /\ PiVoice(c).model \notin piFailed
    BY <1>3 DEF PiStillBound, PiBinds
  <2> QED BY <1>1, <1>3, <2>1, <2>2, PiMoves
<1> QED BY <1>2, <1>3 DEF PiPrepare

\* The model that stays is the call's own; another is dropped with what it had to say.
LEMMA PiEvictKeeps ==
    ASSUME PiperAssumption, PiInv, NEW c \in PiCall, PiEvict(c), piRequest' = piRequest
    PROVE  PiInv'
<1>1. UNCHANGED <<piRequest, piHeard, piFailed, piLoads>> /\ piStage[c] = "cleared"
  BY DEF PiEvict
<1>2. CASE PiEnds(c, "error") /\ UNCHANGED <<piState, piNative>>
  BY <1>1, <1>2, PiEndsMoves
<1>3. CASE /\ piStage' = [piStage EXCEPT ![c] = IF PiResident(c) THEN "ready" ELSE "loading"]
           /\ piState' = IF PiResident(c) THEN piState ELSE PiNoModel
           /\ piNative' = IF PiResident(c) THEN piNative ELSE <<>>
           /\ piLock' = piLock
  <2>1. PICK st \in {"ready", "loading"} : st = IF PiResident(c) THEN "ready" ELSE "loading"
    OBVIOUS
  <2>2. /\ piStage' = [piStage EXCEPT ![c] = st] /\ piStage[c] \in PiHolding \ {"locked"}
        /\ piLock' = IF st = "ended" THEN PiNobody ELSE piLock
        /\ st = "loading" => PiVoice(c).model \notin piFailed'
        /\ st \in {"ready", "drawing"} => piState' = PiVoice(c).model
    BY <1>1, <1>3, <2>1 DEF PiInv, PiPlaces, PiHolding, PiResident
  <2>3. PiPlaces' /\ piStage' \in [PiCall -> {"idle", "bound", "ended"} \cup PiHolding]
    BY <1>1, <2>1, <2>2, PiHolder
  <2>4. PiTypeOK'
    BY <1>1, <1>3, <2>3 DEF PiInv, PiTypeOK
  <2>5. SpokenByItsVoice'
    BY <1>1, PiHeardKept DEF PiInv
  <2> QED BY <1>1, <2>3, <2>4, <2>5 DEF PiInv
<1> QED BY <1>2, <1>3 DEF PiEvict

\* A load fails at most once: the model was not among the failed ones.
LEMMA PiLoadKeeps ==
    ASSUME PiperAssumption, PiInv, NEW c \in PiCall, PiLoad(c), piRequest' = piRequest
    PROVE  PiInv'
<1>1. UNCHANGED <<piRequest, piHeard, piNative>> /\ piStage[c] = "loading"
  BY DEF PiLoad
<1>2. /\ piStage[c] \in PiHolding \ {"locked"} /\ piLock = c
      /\ PiVoice(c).model \notin piFailed
      /\ piRequest[c].voice \in DOMAIN PiVoices /\ PiVoice(c).model \in PiModels
  <2>1. piRequest[c].voice \in DOMAIN PiVoices
    BY <1>1 DEF PiInv, PiPlaces, PiHolding
  <2>2. PiVoice(c) \in [model : PiModels, speaker : Nat]
    BY <2>1 DEF PiVoice, PiperAssumption
  <2> QED BY <1>1, <2>1, <2>2 DEF PiInv, PiPlaces, PiHolding
<1>3. SpokenByItsVoice'
  BY <1>1, PiHeardKept DEF PiInv
<1>4. CASE PiEnds(c, "error") /\ UNCHANGED <<piState, piFailed, piLoads>>
  BY <1>1, <1>4, PiEndsMoves
<1>5. CASE /\ piState' = PiVoice(c).model /\ piStage' = [piStage EXCEPT ![c] = "ready"]
           /\ UNCHANGED <<piLock, piFailed, piLoads>>
  <2>1. PiPlaces' /\ piStage' \in [PiCall -> {"idle", "bound", "ended"} \cup PiHolding]
    BY <1>1, <1>2, <1>5, PiHolder
  <2>2. PiTypeOK'
    BY <1>1, <1>2, <1>5, <2>1 DEF PiInv, PiTypeOK
  <2> QED BY <1>3, <1>5, <2>1, <2>2 DEF PiInv
<1>6. CASE /\ piFailed' = piFailed \cup {PiVoice(c).model}
           /\ piLoads' = [piLoads EXCEPT ![PiVoice(c).model] = @ + 1]
           /\ PiEnds(c, "error") /\ UNCHANGED piState
  <2>1. piStage' = [piStage EXCEPT ![c] = "ended"] /\ piLock' = PiNobody
    BY <1>2, <1>6 DEF PiEnds
  <2>2. PiPlaces' /\ piStage' \in [PiCall -> {"idle", "bound", "ended"} \cup PiHolding]
    BY <1>1, <1>2, <2>1, PiHolder
  <2>3. /\ piLoads' \in [PiModels -> Nat]
        /\ \A m \in PiModels : piLoads'[m] = IF m \in piFailed' THEN 1 ELSE 0
    <3>1. PICK k : k = PiVoice(c).model
      OBVIOUS
    <3> QED BY SMTT(60), <1>2, <1>6, <3>1 DEF PiInv, PiTypeOK
  <2>4. PiTypeOK'
    BY <1>1, <1>2, <1>6, <2>2, <2>3 DEF PiInv, PiTypeOK
  <2> QED BY <1>3, <2>2, <2>3, <2>4 DEF PiInv
<1> QED BY <1>4, <1>5, <1>6 DEF PiLoad

\* Starting replaces what an abandoned utterance left.
LEMMA PiStartKeeps ==
    ASSUME PiperAssumption, PiInv, NEW c \in PiCall, PiStart(c), piRequest' = piRequest
    PROVE  PiInv'
<1>1. UNCHANGED <<piRequest, piHeard, piState, piFailed, piLoads>> /\ piStage[c] = "ready"
  BY DEF PiStart
<1>2. CASE PiEnds(c, "error") /\ UNCHANGED piNative
  BY <1>1, <1>2, PiEndsMoves
<1>3. CASE /\ piNative' = [i \in 1..piRequest[c].chunks |->
                            [model |-> piState, speaker |-> PiVoice(c).speaker, call |-> c]]
           /\ piStage' = [piStage EXCEPT ![c] = "drawing"] /\ UNCHANGED piLock
  <2>1. piState = PiVoice(c).model /\ piStage[c] \in PiHolding \ {"locked"}
    BY <1>1 DEF PiInv, PiPlaces, PiHolding
  <2>2. piNative' = [i \in 1..piRequest[c].chunks |-> PiOwn(c)]
    BY <1>3, <2>1 DEF PiOwn
  <2>3. PiPlaces' /\ piStage' \in [PiCall -> {"idle", "bound", "ended"} \cup PiHolding]
    BY <1>1, <1>3, <2>1, <2>2, PiHolder
  <2>4. piNative' \in Seq(PiChunk)
    <3>1. piRequest[c].chunks \in Nat
      BY DEF PiInv, PiTypeOK, PiperAssumption
    <3>2. PiVoice(c) \in [model : PiModels, speaker : Nat]
      BY <1>1 DEF PiInv, PiPlaces, PiHolding, PiVoice, PiperAssumption
    <3>3. PiOwn(c) \in PiChunk
      BY <3>2 DEF PiOwn, PiChunk
    <3> QED BY SMTT(60), <2>2, <3>1, <3>3
  <2>5. PiTypeOK'
    BY <1>1, <2>3, <2>4 DEF PiInv, PiTypeOK
  <2>6. SpokenByItsVoice'
    BY <1>1, PiHeardKept DEF PiInv
  <2> QED BY <1>1, <2>3, <2>5, <2>6 DEF PiInv
<1> QED BY <1>2, <1>3 DEF PiStart

\* A chunk drawn is the call's own, and an abort keeps some of what was sent.
LEMMA PiDrawKeeps ==
    ASSUME PiperAssumption, PiInv, NEW c \in PiCall, PiDraw(c), piRequest' = piRequest
    PROVE  PiInv'
<1>1. UNCHANGED <<piRequest, piState, piFailed, piLoads>> /\ piStage[c] = "drawing"
  BY DEF PiDraw
<1>2. /\ piStage[c] \in PiHolding \ {"locked"} /\ piLock = c
      /\ piState = PiVoice(c).model /\ \A i \in DOMAIN piNative : piNative[i] = PiOwn(c)
      /\ piNative \in Seq(PiChunk) /\ piHeard \in [PiCall -> Seq(PiChunk)]
      /\ piHeard[c] \in Seq(PiChunk)
  BY <1>1 DEF PiInv, PiPlaces, PiHolding, PiTypeOK
<1>3. \A d \in PiCall : PiOwn(d)' = PiOwn(d)
  BY <1>1 DEF PiOwn, PiVoice
<1>4. \A d \in PiCall : \A i \in DOMAIN piHeard[d] : piHeard[d][i] = PiOwn(d)
  BY DEF PiInv, SpokenByItsVoice, PiOwn
<1>5. CASE PiAborts(c)
  <2>1. piStage' = [piStage EXCEPT ![c] = "ended"] /\ piLock' = PiNobody /\ piNative' = piNative
    BY <1>2, <1>5 DEF PiAborts, PiEnds
  <2>2. PiPlaces' /\ piStage' \in [PiCall -> {"idle", "bound", "ended"} \cup PiHolding]
    BY <1>1, <1>2, <2>1, PiHolder
  <2>3. PICK k \in Seq(PiChunk) : /\ piHeard' = [piHeard EXCEPT ![c] = k]
                                  /\ \A i \in DOMAIN k : k[i] = PiOwn(c)
    <3>1. PICK b \in BOOLEAN : PiKept(c) = IF b THEN piHeard[c] ELSE <<>>
      BY Zenon DEF PiKept
    <3>2. PiKept(c) \in Seq(PiChunk) /\ \A i \in DOMAIN PiKept(c) : PiKept(c)[i] = PiOwn(c)
      BY <1>2, <1>4, <3>1
    <3> QED BY <1>5, <3>2 DEF PiAborts
  <2>4. piHeard' \in [PiCall -> Seq(PiChunk)]
    BY <1>2, <2>3
  <2>5. SpokenByItsVoice'
    <3>1. \A d \in PiCall : \A i \in DOMAIN piHeard'[d] : piHeard'[d][i] = PiOwn(d)
      BY <1>2, <1>4, <2>3
    <3> QED BY ZenonT(60), <1>3, <3>1 DEF SpokenByItsVoice, PiOwn
  <2>6. PiTypeOK'
    BY <1>1, <2>1, <2>2, <2>4 DEF PiInv, PiTypeOK
  <2> QED BY <1>1, <2>2, <2>5, <2>6 DEF PiInv
<1>6. CASE /\ piNative # <<>> /\ piHeard' = [piHeard EXCEPT ![c] = Append(@, Head(piNative))]
           /\ piNative' = Tail(piNative) /\ UNCHANGED <<piStage, piLock>>
  <2>1. PICK h \in PiChunk : h = Head(piNative) /\ h = PiOwn(c)
    BY <1>2, <1>6
  <2>2. PICK k \in Seq(PiChunk) : /\ piHeard' = [piHeard EXCEPT ![c] = k]
                                  /\ \A i \in DOMAIN k : k[i] = PiOwn(c)
    <3>1. PICK s \in Seq(PiChunk) : s = piHeard[c]
      BY <1>2
    <3>2. /\ Append(s, h) \in Seq(PiChunk)
          /\ \A i \in DOMAIN Append(s, h) : Append(s, h)[i] = PiOwn(c)
      BY <1>4, <2>1, <3>1
    <3> QED BY <1>6, <2>1, <3>1, <3>2
  <2>3. piHeard' \in [PiCall -> Seq(PiChunk)]
    BY <1>2, <2>2
  <2>4. SpokenByItsVoice'
    <3>1. \A d \in PiCall : \A i \in DOMAIN piHeard'[d] : piHeard'[d][i] = PiOwn(d)
      BY <1>2, <1>4, <2>2
    <3> QED BY ZenonT(60), <1>3, <3>1 DEF SpokenByItsVoice, PiOwn
  <2>5. piNative' \in Seq(PiChunk) /\ \A i \in DOMAIN piNative' : piNative'[i] = PiOwn(c)
    <3>1. PICK s \in Seq(PiChunk) : s = piNative /\ s # <<>>
      BY <1>2, <1>6
    <3>2. Tail(s) \in Seq(PiChunk) /\ \A i \in DOMAIN Tail(s) : Tail(s)[i] = s[i + 1] /\ i + 1 \in DOMAIN s
      BY <3>1
    <3> QED BY <1>2, <1>6, <3>1, <3>2
  <2>6. PiTypeOK'
    BY <1>1, <1>6, <2>3, <2>5 DEF PiInv, PiTypeOK
  <2>7. PiPlaces'
    <3>1. ASSUME NEW d \in PiCall, d # c
          PROVE  piStage[d] \notin PiHolding
      BY <1>2, <3>1 DEF PiInv, PiPlaces
    <3>2. PiVoice(c)' = PiVoice(c)
      BY <1>1 DEF PiVoice
    <3>3. piRequest[c].voice \in DOMAIN PiVoices
      BY <1>2 DEF PiInv, PiPlaces
    <3> SUFFICES ASSUME NEW d \in PiCall
                 PROVE  /\ piStage'[d] \in PiHolding => piLock' = d
                        /\ piStage'[d] \in PiHolding \ {"locked"}
                              => piRequest'[d].voice \in DOMAIN PiVoices
                        /\ piStage'[d] \in {"cleared", "loading"}
                              => PiVoice(d)'.model \notin piFailed'
                        /\ piStage'[d] \in {"ready", "drawing"}
                              => piState' = PiVoice(d)'.model
                        /\ piStage'[d] = "drawing"
                              => \A i \in DOMAIN piNative' : piNative'[i] = PiOwn(d)'
      BY DEF PiPlaces
    <3>4. CASE d = c
      BY <1>1, <1>2, <1>3, <1>6, <2>5, <3>2, <3>3, <3>4
    <3>5. CASE d # c
      BY <1>6, <3>1, <3>5 DEF PiHolding
    <3> QED BY <3>4, <3>5
  <2> QED BY <1>1, <2>4, <2>6, <2>7 DEF PiInv
<1>7. CASE PiEnds(c, "ok") /\ UNCHANGED <<piHeard, piNative>>
  BY <1>1, <1>7, PiEndsMoves
<1> QED BY <1>5, <1>6, <1>7 DEF PiDraw

\* Every step keeps the invariant.
LEMMA PiKeeps ==
    ASSUME PiperAssumption, PiInv, [PiNext]_piVars
    PROVE  PiInv'
<1>1. ASSUME NEW c \in PiCall, PiCallStep(c)
      PROVE  PiInv'
  <2>1. piRequest' = piRequest
    BY <1>1 DEF PiCallStep
  <2>2. PiEnter(c) \/ PiAcquire(c) \/ PiPrepare(c) \/ PiEvict(c) \/ PiLoad(c) \/ PiStart(c) \/ PiDraw(c)
    BY <1>1 DEF PiCallStep
  <2> QED BY <2>1, <2>2, PiEnterKeeps, PiAcquireKeeps, PiPrepareKeeps, PiEvictKeeps,
             PiLoadKeeps, PiStartKeeps, PiDrawKeeps
<1>2. CASE UNCHANGED <<piRequest, piStage, piHeard, piState, piLock, piFailed, piLoads, piNative>>
  <2>1. SpokenByItsVoice'
    BY <1>2, PiHeardKept DEF PiInv
  <2>2. PiPlaces'
    <3>1. \A d \in PiCall : PiVoice(d)' = PiVoice(d) /\ PiOwn(d)' = PiOwn(d)
      BY <1>2 DEF PiVoice, PiOwn
    <3> QED BY <1>2, <3>1 DEF PiInv, PiPlaces
  <2> QED BY <1>2, <2>1, <2>2 DEF PiInv, PiTypeOK
<1>3. ASSUME NEW c \in PiCall, PiCancelToken(c) \/ PiStopEngine
      PROVE  PiInv'
  BY <1>2, <1>3 DEF PiCancelToken, PiStopEngine
<1>4. CASE PiStopEngine
  BY <1>2, <1>4 DEF PiStopEngine
<1>5. CASE UNCHANGED piVars
  BY <1>2, <1>5 DEF piVars
<1> QED BY <1>1, <1>3, <1>4, <1>5 DEF PiNext

\* What the adapter promises holds in every reachable state: a call hears only its own
\* text, in its voice's model and speaker, and a model fails to load at most once.
THEOREM PiperIsSafe == PiSpec => [](SpokenByItsVoice /\ FailedModelStaysFailed)
<1>1. PiInit => PiInv
  BY PiInitially
<1>2. PiInv /\ [PiNext]_piVars => PiInv'
  BY PiKeeps, PiperAssumption
<1>3. PiInv => SpokenByItsVoice /\ FailedModelStaysFailed
  BY DEF PiInv, FailedModelStaysFailed
<1> QED BY <1>1, <1>2, <1>3, PTL DEF PiSpec

------------------------------
(* The native engines as the run composes them *)

\* What the run shows of the MBROLA helper and of macOS, for every value of the
\* constants: nothing native outlives its call, the synthesizer has one user, and a
\* call that succeeds gave its sink every window.
THEOREM NativeEnginesAreSound == EnginesSpec => []NativeEnginesSound
<1> DEFINE I == (which = "mbrola" => MbSafe) /\ (which = "macos" => MoInv)
<1>1. EnginesInit => I
  BY MacOsAssumption, MbInitiallySafe, MoInitially DEF EnginesInit
<1>2. I /\ [EnginesNext]_enginesVars => I'
  BY MbrolaAssumption, MacOsAssumption, MbKeeps, MoKeeps DEF EnginesNext, MoOneInterruption, enginesVars
<1>3. I => NativeEnginesSound
  BY MoInvSound DEF NativeEnginesSound, MbSafe, MbInv
<1> HIDE DEF I
<1> QED BY <1>1, <1>2, <1>3, PTL DEF EnginesSpec

\* A stop reaches a call of the MBROLA helper that still waits for its lock: it ends
\* well only if no stop came after it.
THEOREM StopReachesEveryQueued == EnginesSpec => StopReachesQueued
<1> DEFINE I == which = "mbrola" => MbSafe
<1>1. EnginesInit => I
  BY MbInitiallySafe DEF EnginesInit
<1>2. I /\ [EnginesNext]_enginesVars => I'
  BY MbrolaAssumption, MbKeeps DEF EnginesNext, enginesVars
<1>3. I /\ [EnginesNext]_enginesVars => [MbAnswers]_mbVars
  <2> SUFFICES ASSUME I, [EnginesNext]_enginesVars
               PROVE  [MbAnswers]_mbVars
    OBVIOUS
  <2>1. CASE which = "mbrola" /\ EnginesNext
    BY <2>1, MbStepAnswers DEF EnginesNext
  <2>2. CASE which # "mbrola" \/ UNCHANGED enginesVars
    BY <2>2 DEF EnginesNext, enginesVars
  <2> QED BY <2>1, <2>2
<1> HIDE DEF I
<1>4. EnginesSpec => [][MbAnswers]_mbVars
  BY <1>1, <1>2, <1>3, PTL DEF EnginesSpec
<1> QED BY <1>4 DEF StopReachesQueued, MbAnswers

\* What the run shows of Piper, for any voices, models, requests and stops.
THEOREM PiperIsSound == EnginesSpec => []PiperSound
<1> DEFINE I == which = "piper" => PiInv
<1>1. EnginesInit => I
  BY PiInitially DEF EnginesInit
<1>2. I /\ [EnginesNext]_enginesVars => I'
  BY PiperAssumption, PiKeeps DEF EnginesNext, enginesVars
<1>3. I => PiperSound
  BY DEF PiperSound, PiInv, FailedModelStaysFailed
<1> HIDE DEF I
<1> QED BY <1>1, <1>2, <1>3, PTL DEF EnginesSpec
=============================================================================

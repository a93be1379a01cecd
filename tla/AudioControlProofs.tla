------------------------- MODULE AudioControlProofs -------------------------
(***************************************************************************)
(* The output's safety holds for any sources, streams, barriers, tokens    *)
(* and depths.  The argument: a gate that is held keeps stop and           *)
(* replacement away, so what was read under it is still so at the append;  *)
(* a source in a sink either still holds the current stop token or was     *)
(* stopped; and a source that is settled (refused, failed or done) never   *)
(* changes its ticket again, so barriers that were complete stay complete. *)
(* Each operation has a lemma of its own, for the callers' proofs.         *)
(***************************************************************************)
EXTENDS AudioControl, SequenceTheorems, TLAPS

\* Each sink holds exactly the sources that are in it, each once.
SinksHold ==
    /\ \A st \in Stream : \A i \in 1 .. Len(sink[st]) :
          StreamOf[sink[st][i]] = st /\ phase[sink[st][i]] = "sink"
    /\ \A st \in Stream : \A i, j \in 1 .. Len(sink[st]) :
          sink[st][i] = sink[st][j] => i = j
    /\ \A s \in Source : InSink(s) =>
          \E i \in 1 .. Len(sink[StreamOf[s]]) : sink[StreamOf[s]][i] = s

\* A source's ticket says where the source is.
TicketsMatch ==
    \A s \in Source :
        /\ phase[s] \in {"new", "gate", "refused"} => ticket[s] = "none"
        /\ phase[s] \in {"scheduled", "due", "dueGate", "sink"} => ticket[s] = "pending"
        /\ phase[s] = "failed" => ticket[s] \in {"none", "Cancelled"}
        /\ phase[s] = "done" => ticket[s] \in Terminal

\* Inside a gate the schedule generation is the one that was checked; in a
\* sink it still is, unless the source was told to stop since.
ChecksHold ==
    \A s \in Source :
        /\ phase[s] \in {"gate", "dueGate"} =>
              scheduled_at[s] = schedule_generations[StreamOf[s]]
        /\ phase[s] = "sink" =>
              /\ held_token[s] <= stop_token[StreamOf[s]]
              /\ ~SmoothStop(StreamOf[s]) \/ held_token[s] = stop_token[StreamOf[s]]
                    => scheduled_at[s] = schedule_generations[StreamOf[s]]

Settled(s) == phase[s] \in {"refused", "failed", "done"}

\* A source was tried only after its barriers were, and one that is past its
\* wait has only barriers that were never accepted or were played out.
BarriersHold ==
    \A s \in Source : \A i \in DOMAIN Barriers[s] :
        /\ phase[s] # "new" => phase[Barriers[s][i]] \notin {"new", "gate"}
        /\ phase[s] \in {"gate", "due", "dueGate", "sink"} =>
              ticket[Barriers[s][i]] \in {"none", "Completed"}

AudioInv == ControlTypeOK /\ SinksHold /\ TicketsMatch /\ ChecksHold /\ BarriersHold

------------------------------
\* The barriers of a source are sources.
LEMMA BarrierSources ==
    ASSUME NEW s \in Source, NEW i \in DOMAIN Barriers[s]
    PROVE  Barriers[s][i] \in Source
<1>1. Barriers[s] \in Seq(Source)
  BY AudioAssumption
<1> QED BY <1>1

\* Barriers keep holding over a step that keeps what is tried tried, keeps the
\* tickets of settled sources, and lets nobody past its wait.
LEMMA BarriersKept ==
    ASSUME AudioInv,
           \A s \in Source : phase[s] \notin {"new", "gate"} =>
                                phase'[s] \notin {"new", "gate"},
           \A s \in Source : Settled(s) => ticket'[s] = ticket[s],
           \A s \in Source : phase[s] = "new" => phase'[s] = "new",
           \A s \in Source : phase'[s] \in {"gate", "due", "dueGate", "sink"} =>
                                phase[s] \in {"gate", "due", "dueGate", "sink"}
    PROVE  BarriersHold'
<1> SUFFICES ASSUME NEW s \in Source, NEW i \in DOMAIN Barriers[s]
             PROVE  /\ phase'[s] # "new" => phase'[Barriers[s][i]] \notin {"new", "gate"}
                    /\ phase'[s] \in {"gate", "due", "dueGate", "sink"} =>
                          ticket'[Barriers[s][i]] \in {"none", "Completed"}
  BY DEF BarriersHold
<1> DEFINE b == Barriers[s][i]
<1>1. b \in Source
  BY BarrierSources
<1>2. phase[s] # "new" => phase[b] \notin {"new", "gate"}
  BY DEF AudioInv, BarriersHold
<1>3. phase[s] \in {"gate", "due", "dueGate", "sink"} =>
         ticket[b] \in {"none", "Completed"} /\ Settled(b)
  <2>1. phase[s] \in {"gate", "due", "dueGate", "sink"} => ticket[b] \in {"none", "Completed"}
    BY DEF AudioInv, BarriersHold
  <2> QED BY <1>1, <1>2, <2>1 DEF AudioInv, TicketsMatch, Settled, ControlTypeOK
<1> QED BY <1>1, <1>2, <1>3

\* Sinks keep holding while nobody enters or leaves one.
LEMMA SinksKept ==
    ASSUME AudioInv, UNCHANGED sink,
           \A s \in Source : phase'[s] = "sink" <=> phase[s] = "sink"
    PROVE  SinksHold'
<1>1. \A st \in Stream : \A i \in 1 .. Len(sink[st]) : sink[st][i] \in Source
  BY DEF AudioInv, ControlTypeOK
<1> QED BY <1>1 DEF AudioInv, SinksHold, InSink

\* The gate, with its check.
LEMMA QueueGateKeeps ==
    ASSUME AudioInv, NEW s \in Source, NEW current \in BOOLEAN, QueueGate(s, current)
    PROVE  AudioInv'
<1> USE DEF QueueGate, AudioInv
<1>1. ControlTypeOK'
  BY AudioAssumption DEF ControlTypeOK
<1>2. \A u \in Source : u # s => phase'[u] = phase[u] /\ scheduled_at'[u] = scheduled_at[u]
  BY DEF ControlTypeOK
<1>3. /\ phase[s] = "new" /\ phase'[s] \in {"gate", "refused"}
      /\ scheduled_at'[s] = schedule_generations[StreamOf[s]]
  BY DEF ControlTypeOK
<1>4. SinksHold'
  <2>1. \A st \in Stream : \A i \in 1 .. Len(sink[st]) : sink[st][i] \in Source
    BY DEF ControlTypeOK
  <2> QED BY <1>2, <1>3, <2>1 DEF SinksHold, InSink
<1>5. TicketsMatch'
  BY <1>2, <1>3 DEF TicketsMatch
<1>6. ChecksHold'
  BY <1>2, <1>3 DEF ChecksHold
<1>7. BarriersHold'
  <2> SUFFICES ASSUME NEW u \in Source, NEW i \in DOMAIN Barriers[u]
               PROVE  /\ phase'[u] # "new" => phase'[Barriers[u][i]] \notin {"new", "gate"}
                      /\ phase'[u] \in {"gate", "due", "dueGate", "sink"} =>
                            ticket'[Barriers[u][i]] \in {"none", "Completed"}
    BY DEF BarriersHold
  <2>1. Barriers[u][i] \in Source
    BY BarrierSources
  <2>2. CASE u = s
    BY <1>2, <1>3, <2>1, <2>2 DEF BarriersTried, Waits
  <2>3. CASE u # s
    BY <1>2, <1>3, <2>1, <2>3 DEF BarriersHold
  <2> QED BY <2>2, <2>3
<1> QED BY <1>1, <1>4, <1>5, <1>6, <1>7

\* The append, which may clear a full stream first.
LEMMA AppendKeeps ==
    ASSUME AudioInv, NEW s \in Source, phase[s] \in {"gate", "dueGate"}, Append1(s)
    PROVE  AudioInv'
<1> DEFINE st == StreamOf[s]
           full == Len(sink[st]) >= MaxDepth[st]
           dropped == IF full THEN {u \in Source : InSink(u) /\ StreamOf[u] = st}
                      ELSE {}
<1> USE DEF AudioInv
<1>1. /\ st \in Stream
      /\ sink[st] \in Seq(Source)
      /\ s \notin dropped
  BY AudioAssumption DEF ControlTypeOK, InSink
<1>2. /\ sink' = [sink EXCEPT ![st] = IF full THEN <<s>> ELSE Append(@, s)]
      /\ phase' = [u \in Source |-> IF u = s THEN "sink"
                                    ELSE IF u \in dropped THEN "done" ELSE phase[u]]
      /\ ticket' = [u \in Source |-> IF u = s THEN "pending"
                                     ELSE IF u \in dropped THEN "Cancelled" ELSE ticket[u]]
      /\ held_token' = [held_token EXCEPT ![s] = stop_token[st]]
      /\ UNCHANGED <<schedule_generations, stop_token, scheduled_at, cancelled, draining>>
  BY DEF Append1
<1>3. \A u \in dropped : u \in Source /\ phase[u] = "sink" /\ StreamOf[u] = st
  BY DEF InSink
<1>4. \A u \in Source : u # s =>
         /\ u \in dropped => phase'[u] = "done" /\ ticket'[u] = "Cancelled"
         /\ u \notin dropped => phase'[u] = phase[u] /\ ticket'[u] = ticket[u]
         /\ held_token'[u] = held_token[u]
  BY <1>2 DEF ControlTypeOK
<1>5. phase'[s] = "sink" /\ ticket'[s] = "pending" /\ held_token'[s] = stop_token[st]
  BY <1>2 DEF ControlTypeOK
<1>6. ControlTypeOK'
  <2>1. sink' \in [Stream -> Seq(Source)]
    BY <1>1, <1>2 DEF ControlTypeOK
  <2>2. phase' \in [Source -> {"new", "gate", "refused", "scheduled", "due",
                               "dueGate", "sink", "failed", "done"}]
    BY <1>2 DEF ControlTypeOK
  <2>3. ticket' \in [Source -> {"none", "pending"} \cup Terminal]
    BY <1>2 DEF ControlTypeOK, Terminal
  <2>4. held_token' \in [Source -> Nat]
    BY <1>1, <1>2 DEF ControlTypeOK
  <2> QED BY <1>2, <2>1, <2>2, <2>3, <2>4 DEF ControlTypeOK
<1>7. SinksHold'
  <2>0. /\ \A other \in Stream : other # st => sink'[other] = sink[other]
        /\ full => sink'[st] = <<s>>
        /\ ~full => sink'[st] = Append(sink[st], s)
    BY <1>1, <1>2 DEF ControlTypeOK
  <2>1. CASE full
    <3>1. \A other \in Stream : other # st =>
             \A i \in 1 .. Len(sink[other]) :
                 /\ sink[other][i] \in Source
                 /\ sink[other][i] # s /\ sink[other][i] \notin dropped
                 /\ StreamOf[sink[other][i]] = other /\ phase[sink[other][i]] = "sink"
      BY SMTT(60), <1>3 DEF SinksHold, ControlTypeOK
    <3>2. \A other \in Stream : other # st =>
             \A i \in 1 .. Len(sink'[other]) :
                 StreamOf[sink'[other][i]] = other /\ phase'[sink'[other][i]] = "sink"
      <4> HIDE DEF dropped, st, full
      <4> QED BY <1>4, <2>0, <3>1
    <3>3. Len(<<s>>) = 1 /\ <<s>>[1] = s
      OBVIOUS
    <3>4. \A u \in Source : phase'[u] = "sink" /\ u # s =>
             phase[u] = "sink" /\ StreamOf[u] # st
      BY <1>4, <2>1 DEF InSink
    <3>5. \A other \in Stream : \A i \in 1 .. Len(sink'[other]) :
             StreamOf[sink'[other][i]] = other /\ phase'[sink'[other][i]] = "sink"
      BY <1>5, <2>0, <2>1, <3>2, <3>3
    <3>6. \A other \in Stream : \A i, j \in 1 .. Len(sink'[other]) :
             sink'[other][i] = sink'[other][j] => i = j
      BY <2>0, <2>1, <3>3 DEF SinksHold
    <3>7. \A u \in Source : phase'[u] = "sink" =>
             \E i \in 1 .. Len(sink'[StreamOf[u]]) : sink'[StreamOf[u]][i] = u
      <4> SUFFICES ASSUME NEW u \in Source, phase'[u] = "sink"
                   PROVE  \E i \in 1 .. Len(sink'[StreamOf[u]]) : sink'[StreamOf[u]][i] = u
        OBVIOUS
      <4>1. CASE u = s
        <5>1. sink'[st] = <<s>> /\ 1 \in 1 .. Len(<<s>>)
          BY <2>0, <2>1, <3>3
        <5> QED BY <3>3, <4>1, <5>1
      <4>2. CASE u # s
        <5>1. StreamOf[u] \in Stream /\ StreamOf[u] # st
          BY <3>4, <4>2, AudioAssumption
        <5>2. \E i \in 1 .. Len(sink[StreamOf[u]]) : sink[StreamOf[u]][i] = u
          BY <3>4, <4>2 DEF SinksHold, InSink
        <5> QED BY <2>0, <5>1, <5>2
      <4> QED BY <4>1, <4>2
    <3> QED BY <3>5, <3>6, <3>7 DEF SinksHold, InSink
  <2>2. CASE ~full
    <3>0. dropped = {}
      BY <2>2
    <3>1. \A u \in Source : u # s => phase'[u] = phase[u]
      BY <1>4, <3>0
    <3>2. \A other \in Stream : \A i \in 1 .. Len(sink[other]) :
             /\ sink[other][i] \in Source /\ sink[other][i] # s
             /\ StreamOf[sink[other][i]] = other /\ phase[sink[other][i]] = "sink"
      BY DEF SinksHold, ControlTypeOK
    <3>3. /\ Len(sink'[st]) = Len(sink[st]) + 1
          /\ sink'[st][Len(sink[st]) + 1] = s
          /\ \A i \in 1 .. Len(sink[st]) : sink'[st][i] = sink[st][i]
          /\ Len(sink[st]) \in Nat
      BY <1>1, <2>0, <2>2
    <3>4. \A i \in 1 .. Len(sink'[st]) : i \in 1 .. Len(sink[st]) \/ i = Len(sink[st]) + 1
      BY <3>3
    <3>5. \A other \in Stream : \A i \in 1 .. Len(sink'[other]) :
             StreamOf[sink'[other][i]] = other /\ phase'[sink'[other][i]] = "sink"
      <4> SUFFICES ASSUME NEW other \in Stream, NEW i \in 1 .. Len(sink'[other])
                   PROVE  StreamOf[sink'[other][i]] = other /\ phase'[sink'[other][i]] = "sink"
        OBVIOUS
      <4>1. CASE other # st
        BY <2>0, <3>1, <3>2, <4>1
      <4>2. CASE other = st
        <5>1. CASE i \in 1 .. Len(sink[st])
          BY <3>1, <3>2, <3>3, <4>2, <5>1
        <5>2. CASE i = Len(sink[st]) + 1
          BY <1>5, <3>3, <4>2, <5>2
        <5> QED BY <3>4, <4>2, <5>1, <5>2
      <4> QED BY <4>1, <4>2
    <3>6. \A other \in Stream : \A i, j \in 1 .. Len(sink'[other]) :
             sink'[other][i] = sink'[other][j] => i = j
      <4> SUFFICES ASSUME NEW other \in Stream, NEW i \in 1 .. Len(sink'[other]),
                          NEW j \in 1 .. Len(sink'[other]),
                          sink'[other][i] = sink'[other][j]
                   PROVE  i = j
        OBVIOUS
      <4>1. CASE other # st
        BY <2>0, <4>1 DEF SinksHold
      <4>2. CASE other = st
        <5>1. i \in 1 .. Len(sink[st]) \/ i = Len(sink[st]) + 1
          BY <3>4, <4>2
        <5>2. j \in 1 .. Len(sink[st]) \/ j = Len(sink[st]) + 1
          BY <3>4, <4>2
        <5>3. \A k \in 1 .. Len(sink[st]) : sink[st][k] # s
          BY <1>1, <3>2
        <5>4. \A k, l \in 1 .. Len(sink[st]) : sink[st][k] = sink[st][l] => k = l
          BY <1>1 DEF SinksHold
        <5>5. sink'[st][i] = sink'[st][j]
          BY <4>2
        <5> HIDE DEF st
        <5>6. CASE i \in 1 .. Len(sink[st]) /\ j \in 1 .. Len(sink[st])
          BY <3>3, <5>4, <5>5, <5>6
        <5>7. CASE i \in 1 .. Len(sink[st]) /\ j = Len(sink[st]) + 1
          BY <3>3, <5>3, <5>5, <5>7
        <5>8. CASE i = Len(sink[st]) + 1 /\ j \in 1 .. Len(sink[st])
          BY <3>3, <5>3, <5>5, <5>8
        <5> QED BY <5>1, <5>2, <5>6, <5>7, <5>8
      <4> QED BY <4>1, <4>2
    <3>7. \A u \in Source : phase'[u] = "sink" =>
             \E i \in 1 .. Len(sink'[StreamOf[u]]) : sink'[StreamOf[u]][i] = u
      <4> SUFFICES ASSUME NEW u \in Source, phase'[u] = "sink"
                   PROVE  \E i \in 1 .. Len(sink'[StreamOf[u]]) : sink'[StreamOf[u]][i] = u
        OBVIOUS
      <4>1. CASE u = s
        <5>1. Len(sink[st]) + 1 \in 1 .. Len(sink'[st])
          BY <3>3
        <5> QED BY <3>3, <4>1, <5>1
      <4>2. CASE u # s
        <5>1. PICK i \in 1 .. Len(sink[StreamOf[u]]) : sink[StreamOf[u]][i] = u
          BY <3>1, <4>2 DEF SinksHold, InSink
        <5>2. CASE StreamOf[u] = st
          <6>1. i \in 1 .. Len(sink'[st])
            BY <3>3, <5>1, <5>2
          <6> QED BY <3>3, <5>1, <5>2, <6>1
        <5>3. CASE StreamOf[u] # st
          BY <2>0, <5>1, <5>3, AudioAssumption
        <5> QED BY <5>2, <5>3
      <4> QED BY <4>1, <4>2
    <3> QED BY <3>5, <3>6, <3>7 DEF SinksHold, InSink
  <2> QED BY <2>1, <2>2
<1> HIDE DEF st, full, dropped
<1>8. TicketsMatch'
  BY <1>3, <1>4, <1>5 DEF TicketsMatch, Terminal
<1>9. ChecksHold'
  <2> SUFFICES ASSUME NEW u \in Source
               PROVE  /\ phase'[u] \in {"gate", "dueGate"} =>
                            scheduled_at[u] = schedule_generations[StreamOf[u]]
                      /\ phase'[u] = "sink" =>
                            /\ held_token'[u] <= stop_token[StreamOf[u]]
                            /\ ~SmoothStop(StreamOf[u]) \/ held_token'[u] = stop_token[StreamOf[u]]
                                  => scheduled_at[u] = schedule_generations[StreamOf[u]]
    BY <1>2 DEF ChecksHold
  <2>1. CASE u = s
    <3>1. scheduled_at[s] = schedule_generations[StreamOf[s]]
      BY DEF ChecksHold
    <3>2. held_token'[s] = stop_token[StreamOf[s]] /\ stop_token[StreamOf[s]] \in Nat
      BY <1>1, <1>5 DEF st, ControlTypeOK
    <3> QED BY <1>5, <2>1, <3>1, <3>2
  <2>2. CASE u # s
    BY <1>3, <1>4, <2>2 DEF ChecksHold
  <2> QED BY <2>1, <2>2
<1>10. BarriersHold'
  <2>1. \A u \in Source : phase[u] \notin {"new", "gate"} => phase'[u] \notin {"new", "gate"}
    BY <1>4, <1>5
  <2>2. \A u \in Source : Settled(u) => ticket'[u] = ticket[u]
    BY <1>3, <1>4 DEF Settled
  <2>3. \A u \in Source : phase[u] = "new" => phase'[u] = "new"
    BY <1>3, <1>4
  <2>4. \A u \in Source : phase'[u] \in {"gate", "due", "dueGate", "sink"} =>
            phase[u] \in {"gate", "due", "dueGate", "sink"}
    BY <1>4
  <2> QED BY <2>1, <2>2, <2>3, <2>4, BarriersKept
<1> QED BY <1>6, <1>7, <1>8, <1>9, <1>10

\* An overlay is handed to its scheduler thread.
LEMMA ScheduleKeeps ==
    ASSUME AudioInv, NEW s \in Source, NEW current \in BOOLEAN, Schedule(s, current)
    PROVE  AudioInv'
<1> USE DEF Schedule, AudioInv
<1>1. ControlTypeOK'
  BY AudioAssumption DEF ControlTypeOK
<1>2. \A u \in Source : u # s => phase'[u] = phase[u] /\ ticket'[u] = ticket[u]
  BY DEF ControlTypeOK
<1>3. /\ phase[s] = "new"
      /\ \/ phase'[s] = "scheduled" /\ ticket'[s] = "pending"
         \/ phase'[s] = "refused" /\ ticket'[s] = ticket[s]
  BY DEF ControlTypeOK
<1>4. SinksHold'
  BY <1>2, <1>3, SinksKept
<1>5. TicketsMatch'
  BY <1>2, <1>3 DEF TicketsMatch
<1>6. ChecksHold'
  <2>1. \A u \in Source : u # s => scheduled_at'[u] = scheduled_at[u]
    BY DEF ControlTypeOK
  <2> QED BY <1>2, <1>3, <2>1 DEF ChecksHold
<1>7. BarriersHold'
  <2> SUFFICES ASSUME NEW u \in Source, NEW i \in DOMAIN Barriers[u]
               PROVE  /\ phase'[u] # "new" => phase'[Barriers[u][i]] \notin {"new", "gate"}
                      /\ phase'[u] \in {"gate", "due", "dueGate", "sink"} =>
                            ticket'[Barriers[u][i]] \in {"none", "Completed"}
    BY DEF BarriersHold
  <2>1. Barriers[u][i] \in Source
    BY BarrierSources
  <2>2. CASE u = s
    BY <1>2, <1>3, <2>1, <2>2 DEF BarriersTried
  <2>3. CASE u # s
    BY <1>2, <1>3, <2>1, <2>3 DEF BarriersHold
  <2> QED BY <2>2, <2>3
<1> QED BY <1>1, <1>4, <1>5, <1>6, <1>7

\* A scheduler thread gives its overlay up.
LEMMA SchedulerCancelKeeps ==
    ASSUME AudioInv, NEW s \in Source, phase[s] \in {"scheduled", "due"},
           SchedulerCancel(s)
    PROVE  AudioInv'
<1> USE DEF SchedulerCancel, AudioInv
<1>1. ControlTypeOK'
  BY DEF ControlTypeOK, Terminal
<1>2. \A u \in Source : u # s => phase'[u] = phase[u] /\ ticket'[u] = ticket[u]
  BY DEF ControlTypeOK
<1>3. phase'[s] = "done" /\ ticket'[s] = "Cancelled"
  BY DEF ControlTypeOK
<1>4. SinksHold'
  BY <1>2, <1>3, SinksKept
<1>5. TicketsMatch'
  BY <1>2, <1>3 DEF TicketsMatch, Terminal
<1>6. ChecksHold'
  BY <1>2, <1>3 DEF ChecksHold
<1>7. BarriersHold'
  BY <1>2, <1>3, BarriersKept DEF Settled
<1> QED BY <1>1, <1>4, <1>5, <1>6, <1>7

\* A scheduler thread wakes up after its barriers, all of them complete.
LEMMA BarrierWaitKeeps ==
    ASSUME AudioInv, NEW s \in Source, BarrierWait(s)
    PROVE  AudioInv'
<1>1. CASE ScheduleRetired(s)
  BY <1>1, SchedulerCancelKeeps DEF BarrierWait
<1>2. CASE ~ScheduleRetired(s)
  <2> USE DEF AudioInv
  <2>1. /\ phase[s] = "scheduled" /\ BarriersComplete(s)
        /\ phase' = [phase EXCEPT ![s] = "due"]
        /\ UNCHANGED <<ticket, sink, schedule_generations, stop_token,
                       held_token, scheduled_at, cancelled, draining>>
    BY <1>2 DEF BarrierWait, ScheduleRetired
  <2>2. /\ \A u \in Source : u # s => phase'[u] = phase[u]
        /\ phase'[s] = "due"
    BY <2>1 DEF ControlTypeOK
  <2>3. ControlTypeOK'
    BY <2>1 DEF ControlTypeOK
  <2>4. SinksHold'
    BY <2>1, <2>2, SinksKept
  <2>5. TicketsMatch'
    BY <2>1, <2>2 DEF TicketsMatch
  <2>6. ChecksHold'
    BY <2>1, <2>2 DEF ChecksHold
  <2>7. BarriersHold'
    <3> SUFFICES ASSUME NEW u \in Source, NEW i \in DOMAIN Barriers[u]
                 PROVE  /\ phase'[u] # "new" => phase'[Barriers[u][i]] \notin {"new", "gate"}
                        /\ phase'[u] \in {"gate", "due", "dueGate", "sink"} =>
                              ticket'[Barriers[u][i]] \in {"none", "Completed"}
      BY DEF BarriersHold
    <3>1. Barriers[u][i] \in Source
      BY BarrierSources
    <3>2. CASE u = s
      BY <2>1, <2>2, <3>1, <3>2 DEF BarriersHold, BarriersComplete, Waits
    <3>3. CASE u # s
      BY <2>1, <2>2, <3>1, <3>3 DEF BarriersHold
    <3> QED BY <3>2, <3>3
  <2> QED BY <2>3, <2>4, <2>5, <2>6, <2>7
<1> QED BY <1>1, <1>2

\* The second gate.
LEMMA DueGateKeeps ==
    ASSUME AudioInv, NEW s \in Source, DueGate(s)
    PROVE  AudioInv'
<1>1. CASE schedule_generations[StreamOf[s]] # scheduled_at[s]
  BY <1>1, SchedulerCancelKeeps DEF DueGate
<1>2. CASE schedule_generations[StreamOf[s]] = scheduled_at[s]
  <2> USE DEF AudioInv
  <2>1. /\ phase[s] = "due"
        /\ phase' = [phase EXCEPT ![s] = "dueGate"]
        /\ UNCHANGED <<ticket, sink, schedule_generations, stop_token,
                       held_token, scheduled_at, cancelled, draining>>
    BY <1>2 DEF DueGate
  <2>2. /\ \A u \in Source : u # s => phase'[u] = phase[u]
        /\ phase'[s] = "dueGate"
    BY <2>1 DEF ControlTypeOK
  <2>3. ControlTypeOK'
    BY <2>1 DEF ControlTypeOK
  <2>4. SinksHold'
    BY <2>1, <2>2, SinksKept
  <2>5. TicketsMatch'
    BY <2>1, <2>2 DEF TicketsMatch
  <2>6. ChecksHold'
    BY <1>2, <2>1, <2>2 DEF ChecksHold
  <2>7. BarriersHold'
    BY <2>1, <2>2, BarriersKept DEF Settled
  <2> QED BY <2>3, <2>4, <2>5, <2>6, <2>7
<1> QED BY <1>1, <1>2

\* The append fails: no output connection, and a full stream was cleared.
LEMMA AppendErrorKeeps ==
    ASSUME AudioInv, NEW s \in Source, AppendError(s)
    PROVE  AudioInv'
<1> USE DEF AudioInv
<1> DEFINE st == StreamOf[s]
           full == Len(sink[st]) >= MaxDepth[st]
           dropped == {u \in Source : full /\ InSink(u) /\ StreamOf[u] = st}
<1>1. /\ phase[s] \in {"gate", "dueGate"} /\ st \in Stream
      /\ sink' = [sink EXCEPT ![st] = IF full THEN <<>> ELSE @]
      /\ phase' = [u \in Source |-> IF u = s THEN "failed"
                                    ELSE IF u \in dropped THEN "done" ELSE phase[u]]
      /\ ticket' = [u \in Source |->
             IF u \in dropped \/ (u = s /\ ticket[u] = "pending") THEN "Cancelled"
             ELSE ticket[u]]
      /\ UNCHANGED <<schedule_generations, stop_token, held_token, scheduled_at,
                     cancelled, draining>>
  BY AudioAssumption DEF AppendError
<1>2. \A u \in Source : u # s =>
         IF full /\ phase[u] = "sink" /\ StreamOf[u] = st
         THEN phase'[u] = "done" /\ ticket'[u] = "Cancelled"
         ELSE phase'[u] = phase[u] /\ ticket'[u] = ticket[u]
  BY <1>1 DEF InSink
<1>3. phase'[s] = "failed" /\ ticket'[s] \in {"none", "Cancelled"}
  BY <1>1 DEF InSink, TicketsMatch
<1>4. ControlTypeOK'
  <2>1. sink' \in [Stream -> Seq(Source)]
    BY <1>1 DEF ControlTypeOK
  <2>2. phase' \in [Source -> {"new", "gate", "refused", "scheduled", "due",
                               "dueGate", "sink", "failed", "done"}]
    BY <1>1 DEF ControlTypeOK
  <2>3. ticket' \in [Source -> {"none", "pending"} \cup Terminal]
    BY <1>1 DEF ControlTypeOK, Terminal
  <2> QED BY <1>1, <2>1, <2>2, <2>3 DEF ControlTypeOK
<1>5. SinksHold'
  <2>1. \A other \in Stream : \A i \in 1 .. Len(sink[other]) : sink[other][i] \in Source
    BY DEF ControlTypeOK
  <2>2. /\ full => sink'[st] = <<>>
        /\ \A other \in Stream : other # st \/ ~full => sink'[other] = sink[other]
    BY <1>1 DEF ControlTypeOK
  <2>3. Len(<<>>) = 0 /\ \A u \in Source : StreamOf[u] \in Stream
    BY AudioAssumption
  <2> HIDE DEF full, dropped
  <2> QED BY <1>1, <1>2, <1>3, <2>1, <2>2, <2>3 DEF SinksHold, InSink
<1>6. TicketsMatch'
  BY <1>2, <1>3 DEF TicketsMatch, Terminal
<1>7. ChecksHold'
  BY <1>1, <1>2, <1>3 DEF ChecksHold
<1>8. BarriersHold'
  BY <1>1, <1>2, <1>3, BarriersKept DEF Settled
<1> QED BY <1>4, <1>5, <1>6, <1>7, <1>8

\* A keyed presentation is cancelled.
LEMMA CancelTokenKeeps ==
    ASSUME AudioInv, NEW t \in {Token[s] : s \in Source}, CancelToken(t)
    PROVE  AudioInv'
BY DEF CancelToken, AudioInv, ControlTypeOK, SinksHold, InSink, TicketsMatch,
       ChecksHold, BarriersHold

\* Stopping a stream: its sources are told by token, or dropped.
LEMMA StopKeeps ==
    ASSUME AudioInv, NEW st \in Stream, Stop(st)
    PROVE  AudioInv'
<1> USE DEF AudioInv
<1>1. /\ GateFree(st)
      /\ schedule_generations' = [schedule_generations EXCEPT ![st] = @ + 1]
      /\ UNCHANGED <<held_token, scheduled_at, cancelled, draining>>
  BY DEF Stop
<1>2. /\ schedule_generations'[st] = schedule_generations[st] + 1
      /\ \A other \in Stream : other # st =>
            schedule_generations'[other] = schedule_generations[other]
      /\ schedule_generations' \in [Stream -> Nat]
  BY <1>1 DEF ControlTypeOK
<1>3. \A s \in Source : StreamOf[s] \in Stream
  BY AudioAssumption
<1>4. CASE SmoothStop(st)
  <2>1. /\ stop_token' = [stop_token EXCEPT ![st] = @ + 1]
        /\ UNCHANGED <<phase, ticket, sink>>
    BY <1>4 DEF Stop
  <2>2. /\ stop_token'[st] = stop_token[st] + 1 /\ stop_token[st] \in Nat
        /\ \A other \in Stream : other # st => stop_token'[other] = stop_token[other]
        /\ stop_token' \in [Stream -> Nat]
    BY <2>1 DEF ControlTypeOK
  <2>3. ControlTypeOK'
    BY <1>1, <1>2, <2>1, <2>2 DEF ControlTypeOK
  <2>4. SinksHold' /\ TicketsMatch' /\ BarriersHold'
    BY <2>1 DEF SinksHold, InSink, TicketsMatch, BarriersHold
  <2>5. ChecksHold'
    <3> SUFFICES ASSUME NEW s \in Source
                 PROVE  /\ phase[s] \in {"gate", "dueGate"} =>
                              scheduled_at[s] = schedule_generations'[StreamOf[s]]
                        /\ phase[s] = "sink" =>
                              /\ held_token[s] <= stop_token'[StreamOf[s]]
                              /\ ~SmoothStop(StreamOf[s])
                                 \/ held_token[s] = stop_token'[StreamOf[s]]
                                    => scheduled_at[s] = schedule_generations'[StreamOf[s]]
      BY <1>1, <2>1 DEF ChecksHold
    <3>1. CASE StreamOf[s] # st
      BY <1>2, <1>3, <2>2, <3>1 DEF ChecksHold
    <3>2. CASE StreamOf[s] = st
      <4>1. phase[s] \notin {"gate", "dueGate"}
        BY <1>1, <3>2 DEF GateFree
      <4>2. phase[s] = "sink" => held_token[s] <= stop_token[st]
        BY <3>2 DEF ChecksHold
      <4>3. held_token[s] \in Nat
        BY DEF ControlTypeOK
      <4> QED BY <1>4, <2>2, <3>2, <4>1, <4>2, <4>3
    <3> QED BY <3>1, <3>2
  <2> QED BY <2>3, <2>4, <2>5
<1>5. CASE ~SmoothStop(st)
  <2>1. /\ sink' = [sink EXCEPT ![st] = <<>>]
        /\ phase' = [s \in Source |->
               IF InSink(s) /\ StreamOf[s] = st THEN "done" ELSE phase[s]]
        /\ ticket' = [s \in Source |->
               IF InSink(s) /\ StreamOf[s] = st THEN "Cancelled" ELSE ticket[s]]
        /\ UNCHANGED stop_token
    BY <1>5 DEF Stop, DropAll
  <2>2. \A s \in Source :
           IF phase[s] = "sink" /\ StreamOf[s] = st
           THEN phase'[s] = "done" /\ ticket'[s] = "Cancelled"
           ELSE phase'[s] = phase[s] /\ ticket'[s] = ticket[s]
    BY <2>1 DEF InSink
  <2>3. /\ sink'[st] = <<>>
        /\ \A other \in Stream : other # st => sink'[other] = sink[other]
    BY <2>1 DEF ControlTypeOK
  <2>4. ControlTypeOK'
    <3>1. sink' \in [Stream -> Seq(Source)]
      BY <2>1 DEF ControlTypeOK
    <3>2. phase' \in [Source -> {"new", "gate", "refused", "scheduled", "due",
                                 "dueGate", "sink", "failed", "done"}]
      BY <2>1 DEF ControlTypeOK
    <3>3. ticket' \in [Source -> {"none", "pending"} \cup Terminal]
      BY <2>1 DEF ControlTypeOK, Terminal
    <3> QED BY <1>1, <1>2, <2>1, <3>1, <3>2, <3>3 DEF ControlTypeOK
  <2>5. SinksHold'
    <3>1. \A other \in Stream : \A i \in 1 .. Len(sink[other]) : sink[other][i] \in Source
      BY DEF ControlTypeOK
    <3>2. Len(<<>>) = 0
      OBVIOUS
    <3> QED BY <1>3, <2>2, <2>3, <3>1, <3>2 DEF SinksHold, InSink
  <2>6. TicketsMatch'
    BY <2>2 DEF TicketsMatch, Terminal
  <2>7. ChecksHold'
    <3> SUFFICES ASSUME NEW s \in Source
                 PROVE  /\ phase'[s] \in {"gate", "dueGate"} =>
                              scheduled_at[s] = schedule_generations'[StreamOf[s]]
                        /\ phase'[s] = "sink" =>
                              /\ held_token[s] <= stop_token[StreamOf[s]]
                              /\ ~SmoothStop(StreamOf[s])
                                 \/ held_token[s] = stop_token[StreamOf[s]]
                                    => scheduled_at[s] = schedule_generations'[StreamOf[s]]
      BY <1>1, <2>1 DEF ChecksHold
    <3>1. CASE StreamOf[s] # st
      BY <1>2, <1>3, <2>2, <3>1 DEF ChecksHold
    <3>2. CASE StreamOf[s] = st
      BY <1>1, <2>2, <3>2 DEF GateFree
    <3> QED BY <3>1, <3>2
  <2>8. BarriersHold'
    BY <2>2, BarriersKept DEF Settled
  <2> QED BY <2>4, <2>5, <2>6, <2>7, <2>8
<1> QED BY <1>4, <1>5

\* The device owner retires the output: every source is dropped.
LEMMA InterruptOutputKeeps ==
    ASSUME AudioInv, InterruptOutput
    PROVE  AudioInv' /\ \A s \in Source : phase'[s] \notin {"gate", "dueGate", "sink"}
<1> USE DEF AudioInv
<1>1. /\ \A st \in Stream : GateFree(st)
      /\ schedule_generations' = [st \in Stream |-> schedule_generations[st] + 1]
      /\ stop_token' = [st \in Stream |->
            IF SmoothStop(st) THEN stop_token[st] + 1 ELSE stop_token[st]]
      /\ sink' = [st \in Stream |-> <<>>]
      /\ phase' = [s \in Source |-> IF InSink(s) THEN "done" ELSE phase[s]]
      /\ ticket' = [s \in Source |-> IF InSink(s) THEN "Cancelled" ELSE ticket[s]]
      /\ UNCHANGED <<held_token, scheduled_at, cancelled, draining>>
  BY DEF InterruptOutput
<1>2. \A s \in Source :
         IF phase[s] = "sink" THEN phase'[s] = "done" /\ ticket'[s] = "Cancelled"
         ELSE phase'[s] = phase[s] /\ ticket'[s] = ticket[s]
  BY <1>1 DEF InSink
<1>3. ControlTypeOK'
  <2>1. sink' \in [Stream -> Seq(Source)]
    BY <1>1
  <2>2. phase' \in [Source -> {"new", "gate", "refused", "scheduled", "due",
                               "dueGate", "sink", "failed", "done"}]
    BY <1>1 DEF ControlTypeOK
  <2>3. ticket' \in [Source -> {"none", "pending"} \cup Terminal]
    BY <1>1 DEF ControlTypeOK, Terminal
  <2>4. schedule_generations' \in [Stream -> Nat] /\ stop_token' \in [Stream -> Nat]
    BY <1>1 DEF ControlTypeOK
  <2> QED BY <1>1, <2>1, <2>2, <2>3, <2>4 DEF ControlTypeOK
<1>4. \A s \in Source : phase[s] \notin {"gate", "dueGate"}
  BY <1>1, AudioAssumption DEF GateFree
<1>5. SinksHold'
  <2>1. \A s \in Source : phase'[s] # "sink"
    BY <1>2
  <2>2. \A st \in Stream : Len(sink'[st]) = 0
    BY <1>1
  <2> QED BY <2>1, <2>2 DEF SinksHold, InSink
<1>6. TicketsMatch'
  BY <1>2 DEF TicketsMatch, Terminal
<1>7. ChecksHold'
  BY <1>2, <1>4 DEF ChecksHold
<1>8. BarriersHold'
  BY <1>2, BarriersKept DEF Settled
<1> QED BY <1>2, <1>3, <1>4, <1>5, <1>6, <1>7, <1>8

\* The head of a sink is a source that is in it and waits for its answer.
LEMMA HeadPlays ==
    ASSUME AudioInv, NEW st \in Stream, sink[st] # <<>>
    PROVE  LET s == Head(sink[st]) IN
           /\ s \in Source /\ StreamOf[s] = st
           /\ phase[s] = "sink" /\ ticket[s] = "pending"
<1>1. sink[st] \in Seq(Source) /\ Len(sink[st]) \in Nat /\ Len(sink[st]) # 0
  BY DEF AudioInv, ControlTypeOK
<1>2. 1 \in 1 .. Len(sink[st]) /\ Head(sink[st]) = sink[st][1] /\ sink[st][1] \in Source
  BY <1>1
<1> QED BY <1>2 DEF AudioInv, SinksHold, TicketsMatch

\* The head of a sink ends, played out or cut.
LEMMA SourceEndsKeeps ==
    ASSUME AudioInv, NEW st \in Stream, SourceEnds(st)
    PROVE  AudioInv'
<1> DEFINE s == Head(sink[st])
<1> USE DEF AudioInv
<1>1. /\ s \in Source /\ StreamOf[s] = st /\ phase[s] = "sink" /\ ticket[s] = "pending"
      /\ sink[st] # <<>>
  BY HeadPlays DEF SourceEnds
<1>2. /\ ticket' = [ticket EXCEPT ![s] = EndStatus(s)]
      /\ phase' = [phase EXCEPT ![s] = "done"]
      /\ sink' = [sink EXCEPT ![st] = Tail(@)]
      /\ UNCHANGED <<schedule_generations, stop_token, held_token, scheduled_at,
                     cancelled, draining>>
  BY DEF SourceEnds
<1>3. /\ sink[st] \in Seq(Source) /\ Len(sink[st]) \in Nat /\ Len(sink[st]) # 0
      /\ s = sink[st][1]
      /\ Tail(sink[st]) \in Seq(Source) /\ Len(Tail(sink[st])) = Len(sink[st]) - 1
      /\ \A i \in 1 .. Len(sink[st]) - 1 : Tail(sink[st])[i] = sink[st][i + 1]
  BY <1>1 DEF ControlTypeOK
<1>4. EndStatus(s) \in Terminal
  BY DEF EndStatus, Terminal
<1>5. /\ phase'[s] = "done" /\ ticket'[s] \in Terminal
      /\ \A u \in Source : u # s => phase'[u] = phase[u] /\ ticket'[u] = ticket[u]
  BY <1>1, <1>2, <1>4 DEF ControlTypeOK
<1>6. /\ sink'[st] = Tail(sink[st])
      /\ \A other \in Stream : other # st => sink'[other] = sink[other]
      /\ sink' \in [Stream -> Seq(Source)]
  BY <1>2, <1>3 DEF ControlTypeOK
<1>7. ControlTypeOK'
  <2>1. phase' \in [Source -> {"new", "gate", "refused", "scheduled", "due",
                               "dueGate", "sink", "failed", "done"}]
    BY <1>2 DEF ControlTypeOK
  <2>2. ticket' \in [Source -> {"none", "pending"} \cup Terminal]
    BY <1>2, <1>4 DEF ControlTypeOK
  <2> QED BY <1>2, <1>6, <2>1, <2>2 DEF ControlTypeOK
<1> HIDE DEF s
<1>8. SinksHold'
  <2>1. \A i \in 1 .. Len(sink[st]) - 1 :
           /\ i + 1 \in 1 .. Len(sink[st])
           /\ sink[st][i + 1] # s /\ sink[st][i + 1] \in Source
           /\ StreamOf[sink[st][i + 1]] = st /\ phase[sink[st][i + 1]] = "sink"
    <3> SUFFICES ASSUME NEW i \in 1 .. Len(sink[st]) - 1
                 PROVE  /\ i + 1 \in 1 .. Len(sink[st])
                        /\ sink[st][i + 1] # s /\ sink[st][i + 1] \in Source
                        /\ StreamOf[sink[st][i + 1]] = st /\ phase[sink[st][i + 1]] = "sink"
      OBVIOUS
    <3>1. i + 1 \in 1 .. Len(sink[st]) /\ 1 \in 1 .. Len(sink[st]) /\ i + 1 # 1
      BY <1>3
    <3>2. sink[st][i + 1] # sink[st][1]
      BY <3>1 DEF SinksHold
    <3> QED BY <1>3, <3>1, <3>2 DEF SinksHold
  <2>2. \A other \in Stream : other # st => \A i \in 1 .. Len(sink[other]) :
           /\ sink[other][i] \in Source /\ sink[other][i] # s
           /\ StreamOf[sink[other][i]] = other /\ phase[sink[other][i]] = "sink"
    <3>1. \A other \in Stream : \A i \in 1 .. Len(sink[other]) : sink[other][i] \in Source
      BY DEF ControlTypeOK
    <3> QED BY <1>1, <3>1 DEF SinksHold
  <2>3. \A other \in Stream : \A i \in 1 .. Len(sink'[other]) :
           StreamOf[sink'[other][i]] = other /\ phase'[sink'[other][i]] = "sink"
    <3> SUFFICES ASSUME NEW other \in Stream, NEW i \in 1 .. Len(sink'[other])
                 PROVE  StreamOf[sink'[other][i]] = other /\ phase'[sink'[other][i]] = "sink"
      OBVIOUS
    <3>1. CASE other = st
      <4>1. i \in 1 .. Len(sink[st]) - 1
        BY <1>3, <1>6, <3>1
      <4>2. sink'[other][i] = sink[st][i + 1]
        BY <1>3, <1>6, <3>1, <4>1
      <4> QED BY <1>5, <2>1, <3>1, <4>1, <4>2
    <3>2. CASE other # st
      BY <1>5, <1>6, <2>2, <3>2
    <3> QED BY <3>1, <3>2
  <2>4. \A other \in Stream : \A i, j \in 1 .. Len(sink'[other]) :
           sink'[other][i] = sink'[other][j] => i = j
    <3> SUFFICES ASSUME NEW other \in Stream, NEW i \in 1 .. Len(sink'[other]),
                        NEW j \in 1 .. Len(sink'[other]), sink'[other][i] = sink'[other][j]
                 PROVE  i = j
      OBVIOUS
    <3>1. CASE other = st
      <4>1. i \in 1 .. Len(sink[st]) - 1 /\ j \in 1 .. Len(sink[st]) - 1
        BY <1>3, <1>6, <3>1
      <4>2. sink[st][i + 1] = sink[st][j + 1]
        BY <1>3, <1>6, <3>1, <4>1
      <4>3. i + 1 = j + 1
        BY <2>1, <4>1, <4>2 DEF SinksHold
      <4> QED BY <4>1, <4>3
    <3>2. CASE other # st
      BY <1>6, <3>2 DEF SinksHold
    <3> QED BY <3>1, <3>2
  <2>5. \A u \in Source : phase'[u] = "sink" =>
           \E i \in 1 .. Len(sink'[StreamOf[u]]) : sink'[StreamOf[u]][i] = u
    <3> SUFFICES ASSUME NEW u \in Source, phase'[u] = "sink"
                 PROVE  \E i \in 1 .. Len(sink'[StreamOf[u]]) : sink'[StreamOf[u]][i] = u
      OBVIOUS
    <3>1. u # s /\ phase[u] = "sink" /\ StreamOf[u] \in Stream
      BY <1>5, AudioAssumption
    <3>2. PICK i \in 1 .. Len(sink[StreamOf[u]]) : sink[StreamOf[u]][i] = u
      BY <3>1 DEF SinksHold, InSink
    <3>3. CASE StreamOf[u] = st
      <4>1. i # 1
        BY <1>3, <3>1, <3>2, <3>3
      <4>2. i - 1 \in 1 .. Len(sink[st]) - 1 /\ (i - 1) + 1 = i
        BY <1>3, <3>2, <3>3, <4>1
      <4>3. Tail(sink[st])[i - 1] = u
        BY <1>3, <3>2, <3>3, <4>2
      <4> QED BY <1>3, <1>6, <3>3, <4>2, <4>3
    <3>4. CASE StreamOf[u] # st
      BY <1>6, <3>1, <3>2, <3>4
    <3> QED BY <3>3, <3>4
  <2> QED BY <2>3, <2>4, <2>5 DEF SinksHold, InSink
<1>9. TicketsMatch'
  BY <1>1, <1>5 DEF TicketsMatch, Terminal
<1>10. ChecksHold'
  BY <1>2, <1>5 DEF ChecksHold
<1>11. BarriersHold'
  BY <1>1, <1>5, BarriersKept DEF Settled
<1> QED BY <1>7, <1>8, <1>9, <1>10, <1>11

\* drain() only waits.
LEMMA DrainKeeps ==
    ASSUME AudioInv, DrainScheduled \/ DrainSinks
    PROVE  AudioInv'
<1>1. /\ draining' \in {"sinks", "drained"}
      /\ UNCHANGED <<phase, ticket, sink, schedule_generations, stop_token, held_token,
                     scheduled_at, cancelled>>
  BY DEF DrainScheduled, DrainSinks
<1>2. ControlTypeOK'
  BY <1>1 DEF AudioInv, ControlTypeOK
<1>3. SinksHold' /\ TicketsMatch' /\ ChecksHold' /\ BarriersHold'
  BY <1>1 DEF AudioInv, SinksHold, InSink, TicketsMatch, ChecksHold, BarriersHold
<1> QED BY <1>2, <1>3 DEF AudioInv

------------------------------
(* Theorems *)

LEMMA AudioInitInv == AudioInit => AudioInv
<1> SUFFICES ASSUME AudioInit PROVE AudioInv
  OBVIOUS
<1>1. ControlTypeOK
  BY DEF AudioInit, ControlTypeOK
<1>2. SinksHold
  BY DEF AudioInit, SinksHold, InSink
<1>3. TicketsMatch /\ ChecksHold
  BY DEF AudioInit, TicketsMatch, ChecksHold
<1>4. BarriersHold
  BY DEF AudioInit, BarriersHold
<1> QED BY <1>1, <1>2, <1>3, <1>4 DEF AudioInv

LEMMA AudioStep == AudioInv /\ [ControlNext]_audioVars => AudioInv'
<1> SUFFICES ASSUME AudioInv, [ControlNext]_audioVars PROVE AudioInv'
  OBVIOUS
<1>1. CASE Worker
  BY <1>1, QueueGateKeeps, ScheduleKeeps, AppendKeeps DEF Worker, QueueAppend
<1>2. CASE Scheduler
  BY <1>2, BarrierWaitKeeps, DueGateKeeps, AppendKeeps DEF Scheduler, DueAppend
<1>3. CASE ConnectionLost
  BY <1>3, AppendErrorKeeps DEF ConnectionLost
<1>4. CASE Loop
  BY <1>4, StopKeeps DEF Loop
<1>5. CASE DeviceOwner
  BY <1>5, InterruptOutputKeeps DEF DeviceOwner
<1>6. CASE Registry
  BY <1>6, CancelTokenKeeps DEF Registry
<1>7. CASE Output
  BY <1>7, SourceEndsKeeps DEF Output
<1>8. CASE Drain
  BY <1>8, DrainKeeps DEF Drain
<1>9. CASE UNCHANGED audioVars
  BY <1>9 DEF audioVars, AudioInv, ControlTypeOK, SinksHold, InSink, TicketsMatch,
              ChecksHold, BarriersHold
<1> QED BY <1>1, <1>2, <1>3, <1>4, <1>5, <1>6, <1>7, <1>8, <1>9
        DEF ControlNext, Shutdown

LEMMA AudioInvSound == AudioInv => ControlSound
<1> SUFFICES ASSUME AudioInv PROVE ControlSound
  OBVIOUS
<1>1. StopSilences
  BY DEF AudioInv, ChecksHold, StopSilences, Audible, InSink, IsRequested
<1>2. OverlayAfterBarriers
  BY DEF AudioInv, BarriersHold, OverlayAfterBarriers, InSink, Waits
<1>3. PendingTicketHasSource
  BY DEF AudioInv, ControlTypeOK, TicketsMatch, PendingTicketHasSource, InSink, Terminal
<1> QED BY <1>1, <1>2, <1>3 DEF ControlSound

\* The control's state stays well formed, sinks and tickets agree with where
\* each source is, and what was checked under a gate stays true of it.
THEOREM ControlInvariant == ControlSpec => []AudioInv
BY AudioInitInv, AudioStep, PTL DEF ControlSpec

\* AudioControl's promises: a stop silences everything checked before it, an
\* overlay follows audio that was played out, and no ticket loses its source.
THEOREM ControlIsSound == ControlSpec => []ControlSound
BY ControlInvariant, AudioInvSound, PTL
=============================================================================

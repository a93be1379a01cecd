---------------------------- MODULE MCQueueAudio ----------------------------
(* The synthesis queue, the audio control and the sink of a spoken stream,    *)
(* one of them in a behaviour while the others stay as they start.            *)
(* The queue holds three items and four bytes, small enough to saturate by    *)
(* count and by bytes: two members of one replacement domain, one of another, *)
(* and ordered requests of two sizes.  The output plays two buffers on        *)
(* Speech, one of a keyed presentation, an overlay on Sound that waits for    *)
(* both, and a plain sound.                                                   *)
EXTENDS WorkQueue, AudioControl, SpeechStream

CONSTANTS a1, a2, b, ordered, large, domA, domB,
          speech1, speech2, overlay, sound, key

VARIABLES
    which,      \* the component that runs
    claim       \* the liveness claim that is followed

MCWork == {a1, a2, b, ordered, large}

MCBytes == [w \in MCWork |->
    CASE w = large -> 3 [] w = a2 -> 2 [] OTHER -> 1]

MCDomain == [w \in MCWork |->
    CASE w \in {a1, a2} -> domA [] w = b -> domB [] OTHER -> NoDomain]

MCSource == {speech1, speech2, overlay, sound}

MCStreamOf == [s \in MCSource |->
    IF s \in {speech1, speech2} THEN "Speech" ELSE "Sound"]

MCBarriers == [s \in MCSource |->
    IF s = overlay THEN <<speech1, speech2>> ELSE <<>>]

MCToken == [s \in MCSource |->
    IF s \in {speech2, overlay} THEN key ELSE NoToken]

MCMaxDepth == [st \in {"Speech", "Sound"} |-> IF st = "Speech" THEN 2 ELSE 1]

(* Streams with no, one or two actions at their anchors. *)

StreamAction(m, d) == [mode |-> m, duration |-> d]
MCTimelines ==
    { <<>>, <<StreamAction("Insert", 1)>>, <<StreamAction("Overlay", 2)>>,
      <<StreamAction("Insert", 1), StreamAction("Overlay", 2)>>,
      <<StreamAction("SemanticEvent", 0), StreamAction("Insert", 2)>> }

------------------------------
EitherInit ==
    /\ Init
    /\ AudioInit
    /\ StreamInit
    /\ \/ which = "queue" /\ claim \in QueueClaims
       \/ which = "audio" /\ claim = "tickets"
       \/ which = "stream" /\ claim = "none"
    /\ which # "stream" => pcm = <<>> /\ actions = <<>>

EitherNext ==
    /\ UNCHANGED <<which, claim>>
    /\ \/ which = "queue" /\ UNCHANGED <<audioVars, streamVars>> /\ Next
       \/ which = "audio" /\ UNCHANGED <<vars, streamVars>> /\ ControlNext
       \/ which = "stream" /\ UNCHANGED <<vars, audioVars>> /\ StreamNext

\* The fairness of FairSpec and of ControlFairSpec, for the one that runs.
EitherSpec ==
    /\ EitherInit /\ [][EitherNext]_<<which, claim, vars, audioVars, streamVars>>
    /\ WF_vars(which = "queue" /\ Receive)
    /\ WF_audioVars(which = "audio" /\ (\E s \in Source : QueueAppend(s)))
    /\ \A s \in Source : WF_audioVars(which = "audio" /\ BarrierWait(s))
    /\ \A s \in Source : WF_audioVars(which = "audio" /\ DueGate(s))
    /\ \A s \in Source : WF_audioVars(which = "audio" /\ DueAppend(s))
    /\ \A st \in Stream : WF_audioVars(which = "audio" /\ SourceEnds(st))

Owed ==
    \/ which = "queue" /\ QueueOwed(claim)
    \/ which = "audio" /\ TicketsOwed
Met == IF which = "queue" THEN QueueMet(claim) ELSE TicketsMet

\* No wakeup of the queue is lost and no ticket of the output is forgotten: the
\* work admitted leaves the queue, a closed queue ends its worker, and every
\* ticket is answered.  `which' and `claim' never change, so this one formula
\* is the leads-to of every claim.
Served == Owed ~> Met
=============================================================================

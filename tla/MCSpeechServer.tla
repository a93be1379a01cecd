--------------------------- MODULE MCSpeechServer ---------------------------
(* Presentations of one domain (nav1, nav2), a tracked dispatch that plays a  *)
(* sound, and an urgent character that interrupts speech.  A scenario, chosen *)
(* in the initial state, says which of them the client sends, and how often   *)
(* it interrupts and the output device is replaced.                           *)
EXTENDS SpeechServer

CONSTANTS nav1, nav2, batch, letter, point

VARIABLE scenario

MCBytes == [w \in Work |-> 1]

MCDomain == [w \in Work |-> IF w \in {nav1, nav2} THEN point ELSE NoDomain]

MCTracked == Work \ {letter}

MCUrgent == Work \cap {letter}

MCStreamOf == [w \in Work |-> IF w = batch THEN "Sound" ELSE "Speech"]

MCMaxDepth == [st \in {"Speech", "Sound"} |-> 1]

Scenarios ==
    {[sends |-> {nav1, nav2, letter}, interrupts |-> 1, replacements |-> 0],
     [sends |-> {nav1, batch}, interrupts |-> 1, replacements |-> 0],
     [sends |-> {batch, letter}, interrupts |-> 1, replacements |-> 2]}

ScenarioInit == Init /\ scenario \in Scenarios

ScenarioNext ==
    /\ UNCHANGED scenario
    /\ \/ \E w \in scenario.sends : Submit(w)
       \/ /\ current_gen < scenario.interrupts
          /\ HandleStop \/ \E w \in scenario.sends : HandleUrgent(w)
       \/ EndOfInput
       \/ LoopStep
       \/ WorkerStep
       \/ ReporterStep
       \/ \E st \in Stream : Play(st)
       \/ replacements < scenario.replacements /\ DeviceReplaced
       \/ Drain
       \/ Exit

\* The fairness of FairSpec.
ScenarioSpec ==
    /\ ScenarioInit /\ [][ScenarioNext]_<<vars, scenario>>
    /\ WF_vars(LoopStep)
    /\ WF_vars(WorkerStep)
    /\ WF_vars(ReporterStep)
    /\ \A st \in Stream : WF_vars(Play(st))
    /\ WF_vars(Drain)
=============================================================================

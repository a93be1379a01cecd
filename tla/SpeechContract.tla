-------------------------- MODULE SpeechContract ---------------------------
(***************************************************************************)
(* What the speech server promises its client, without queue, worker,      *)
(* streams of samples or threads: a request that was submitted may become  *)
(* audible, an interrupt opens a new epoch, silencing a stream ends what   *)
(* it plays, a newer presentation of the same domain supersedes the older  *)
(* one, and every tracked request gets one answer, "completed" only if it  *)
(* was heard to the end.                                                   *)
(***************************************************************************)
EXTENDS Naturals

CONSTANTS
    Request, Tracked,     \* requests, and those that are answered
    Stream, StreamOf,     \* where a request is heard
    Domain, NoDomain      \* replacement domains

VARIABLES
    answer,     \* answer[r]: "unsent", "open" or the one terminal answer
    epoch,      \* interrupts so far
    born,       \* born[r]: epoch r was submitted in
    silenced,   \* silenced[st]: last epoch whose interrupt silenced st
    audible,    \* requests being heard
    superseded, \* presentations replaced by a newer one of their domain
    cut         \* requests whose audio ended early

contractVars == <<answer, epoch, born, silenced, audible, superseded, cut>>

Init ==
    /\ answer = [r \in Request |-> "unsent"]
    /\ epoch = 0
    /\ born = [r \in Request |-> 0]
    /\ silenced = [st \in Stream |-> 0]
    /\ audible = {}
    /\ superseded = {}
    /\ cut = {}

\* r is accepted and supersedes every presentation of its domain that is not
\* answered yet (one that was just answered may be superseded in vain).
Accept(r) ==
    LET rivals == {q \in Request \ {r} : Domain[q] = Domain[r] /\ answer[q] # "unsent"}
        open == {q \in rivals : answer[q] = "open"}
    IN
    /\ answer[r] = "unsent"
    /\ answer' = [answer EXCEPT ![r] = "open"]
    /\ born' = [born EXCEPT ![r] = epoch]
    /\ \E old \in SUBSET rivals :
          /\ IF Domain[r] = NoDomain THEN old = {} ELSE open \subseteq old
          /\ superseded' = superseded \cup old
          /\ audible' = audible \ old
          /\ cut' = cut \cup (audible \cap old)
    /\ UNCHANGED <<epoch, silenced>>

\* r is refused: nothing else is disturbed, and r is never heard.
Refuse(r) ==
    /\ answer[r] = "unsent"
    /\ answer' = [answer EXCEPT ![r] = "open"]
    /\ born' = [born EXCEPT ![r] = epoch]
    /\ superseded' = superseded \cup {r}
    /\ UNCHANGED <<epoch, silenced, audible, cut>>

Interrupt ==
    /\ epoch' = epoch + 1
    /\ UNCHANGED <<answer, born, silenced, audible, superseded, cut>>

\* Silencing a stream cuts everything on it, and bars older epochs from it.
Silence(S) ==
    /\ silenced' = [st \in Stream |-> IF st \in S THEN epoch ELSE silenced[st]]
    /\ audible' = {r \in audible : StreamOf[r] \notin S}
    /\ cut' = cut \cup {r \in audible : StreamOf[r] \in S}
    /\ UNCHANGED <<answer, epoch, born, superseded>>

\* r starts to be heard, unless it was superseded on the way or its audio is
\* lost; a full backlog on its stream may be cut for it.
Hear(r) ==
    /\ answer[r] = "open"
    /\ r \notin audible \cup cut
    /\ born[r] >= silenced[StreamOf[r]]
    /\ \E lost \in {{}, {q \in audible : StreamOf[q] = StreamOf[r]}}, heard \in {{}, {r}} :
          /\ audible' = (audible \ lost) \cup (heard \ superseded)
          /\ cut' = cut \cup lost \cup (heard \cap superseded)
    /\ UNCHANGED <<answer, epoch, born, silenced, superseded>>

PlayedOut(r) ==
    /\ r \in audible
    /\ audible' = audible \ {r}
    /\ UNCHANGED <<answer, epoch, born, silenced, superseded, cut>>

\* One answer, after the audio of the request is over.
Answer(r, status) ==
    /\ r \in Tracked
    /\ answer[r] = "open"
    /\ r \notin audible
    /\ status = "completed" => r \notin cut
    /\ answer' = [answer EXCEPT ![r] = status]
    /\ UNCHANGED <<epoch, born, silenced, audible, superseded, cut>>

Next ==
    \/ \E r \in Request : Accept(r) \/ Refuse(r) \/ Hear(r) \/ PlayedOut(r)
    \/ \E r \in Request, status \in {"completed", "cancelled", "failed"} :
          Answer(r, status)
    \/ Interrupt
    \/ \E S \in SUBSET Stream : Silence(S)

Spec == Init /\ [][Next]_contractVars
=============================================================================

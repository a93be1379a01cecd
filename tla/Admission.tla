----------------------------- MODULE Admission ------------------------------
(***************************************************************************)
(* How run_server admits submissions from its input (omnivox-cli,          *)
(* server.rs and transaction.rs): structured presentations in one or       *)
(* several frames, framed transactions and palette letters, each with the  *)
(* client's presentation generation, among legacy queue, dispatch and stop *)
(* commands.  A replaceable presentation, or a framed transaction, is held *)
(* for a short quiet window in which a newer one may take its place.       *)
(*                                                                         *)
(* One action handles one received command, a timeout or the end of input; *)
(* the loop is sequential.  Submissions are numbered as they arrive, and   *)
(* doc[n] holds what the decoder finds in submission n: its kind,          *)
(* generation, replacement domain, and what is wrong with it, if anything. *)
(* Executing a submission here means handing it to the synthesis queue.    *)
(***************************************************************************)
EXTENDS Naturals, Sequences, FiniteSets, SequencesExt

CONSTANTS
    Doc,             \* documents a client may send: records as below
    NoDomain,        \* ordered delivery: not replaceable
    PartCount,       \* frames of a multipart document
    MaxPending,      \* MAX_PENDING_ITEMS
    MaxSubmissions,  \* bound: submissions of the instance
    MaxStops,        \* bound: stop commands
    MaxItems,        \* bound: legacy queue commands
    MaxParts         \* bound: later frames of multipart documents

Kind == {"timeline", "parts", "letter", "tx"}

\* anonymous: not decodable, no identity; undecodable: identity only; invalid:
\* refused by validate_structured_admission.
Fault == {"none", "anonymous", "undecodable", "invalid"}

ASSUME AdmissionAssumption ==
    /\ \A d \in Doc : d.kind \in Kind /\ d.gen \in Nat \ {0} /\ d.fault \in Fault
    /\ \A d \in Doc :     \* validate_palette_letter
          d.kind = "letter" /\ d.domain # NoDomain => d.fault # "none"
    /\ PartCount \in Nat \ {0, 1}
    /\ MaxPending \in Nat \ {0}

VARIABLES
    doc,         \* doc[n]: the n-th submission
    latest,      \* PresentationGenerations.latest
    mode,        \* "idle", or a coalescing burst: "burst", "txBurst"
    selected,    \* submission held by the burst, or 0
    assembling,  \* multipart submission being read, or 0
    next_part,   \* next_part_index
    command,     \* received and not consumed: deferred_command, or None
    closed,      \* input_closed
    pending,     \* PendingBatch.items, as a count
    overflow,    \* PendingBatch.overflow
    pushed,      \* history: items queued since the last dispatch or clear
    executed,    \* history: submissions executed, in order
    results,     \* results[n]: what became of n
    stops,       \* history: stop commands handled
    items,       \* history: queue commands received
    parts,       \* history: later frames received
    arrived_at   \* history: stops handled when n arrived

vars == <<doc, latest, mode, selected, assembling, next_part, command, closed,
          pending, overflow, pushed, executed, results, stops, items, parts,
          arrived_at>>

None == [id |-> "none"]

Submissions == DOMAIN doc

Gen(n) == doc[n].gen

Init ==
    /\ doc = <<>> /\ results = <<>> /\ arrived_at = <<>>
    /\ latest = 0
    /\ mode = "idle" /\ selected = 0
    /\ assembling = 0 /\ next_part = 0
    /\ command = None
    /\ closed = FALSE
    /\ pending = 0 /\ overflow = FALSE /\ pushed = 0
    /\ executed = <<>>
    /\ stops = 0 /\ items = 0 /\ parts = 0

-----------------------------------------------------------------------------
(* What a step does to the submissions                                      *)

Max2(a, b) == IF a >= b THEN a ELSE b

\* PresentationGenerations::commit.
Commit(g) == latest' = Max2(latest, g)

\* Mutant: a document of the committed generation passes again.
IsStaleStrict(n) == Gen(n) < latest

\* prepare: not newer than the committed generation.
IsStale(n) == Gen(n) <= latest

IsReplaceable(n) == doc[n].domain # NoDomain

\* Mutant: replaceable presentations of different domains replace each other.
SharesAnyDomain(m, n) == IsReplaceable(m) /\ IsReplaceable(n)

SharesDomain(m, n) == IsReplaceable(m) /\ doc[m].domain = doc[n].domain

\* Each submission of `result' gets its entry of that function.
Answer(result) ==
    results' = [n \in DOMAIN results |->
        IF n \in DOMAIN result THEN Append(results[n], result[n]) ELSE results[n]]

AnswerOne(n, status) == Answer([m \in {n} |-> status])

NoAnswer == UNCHANGED results

\* execute_structured_presentation for each of one or two submissions.
Executes(s) ==
    /\ executed' = executed \o s
    /\ latest' = Max2(Max2(latest, Gen(s[1])), Gen(s[Len(s)]))

ExecutedResults(s) == [n \in ToSet(s) |-> "executed"]

Merge(f, g) == [n \in DOMAIN f \cup DOMAIN g |-> IF n \in DOMAIN f THEN f[n] ELSE g[n]]

Go(newMode, newSelected) == mode' = newMode /\ selected' = newSelected

KeepBurst == UNCHANGED <<mode, selected>>

ReadDone == assembling' = 0 /\ next_part' = 0

KeepBatch == UNCHANGED <<pending, overflow, pushed>>

KeepRead == UNCHANGED <<assembling, next_part>>

\* What only a receive changes.
Handling == UNCHANGED <<doc, items, parts, arrived_at>>

Consumed == command' = None

Deferred == UNCHANGED command

-----------------------------------------------------------------------------
(* The pending legacy transaction                                           *)

\* Mutant: an item over the limit is dropped and the rest is kept.
PushDropping ==
    /\ pending' = IF pending < MaxPending THEN pending + 1 ELSE pending
    /\ pushed' = pushed + 1
    /\ UNCHANGED overflow

\* PendingBatch::push: over the limit the whole transaction is poisoned.
Push ==
    /\ overflow' = (overflow \/ pending + 1 > MaxPending)
    /\ pending' = IF overflow' THEN 0 ELSE pending + 1
    /\ pushed' = pushed + 1

\* take() at a dispatch, clear() at a stop.
EmptyBatch == pending' = 0 /\ overflow' = FALSE /\ pushed' = 0

-----------------------------------------------------------------------------
(* The result of reading one structured submission, in the idle loop or in  *)
(* a burst                                                                  *)

\* A valid document that is not stale.
Prepared(n) ==
    \/ /\ mode = "idle"
       /\ IF IsReplaceable(n)
          THEN Go("burst", n) /\ NoAnswer /\ UNCHANGED <<executed, latest>>
          ELSE Executes(<<n>>) /\ Answer(ExecutedResults(<<n>>)) /\ KeepBurst
    \/ /\ mode = "burst" /\ Gen(n) <= Gen(selected)
       /\ AnswerOne(n, "Cancelled")
       /\ KeepBurst /\ UNCHANGED <<executed, latest>>
    \/ /\ mode = "burst" /\ Gen(n) > Gen(selected) /\ SharesDomain(selected, n)
       /\ AnswerOne(selected, "Cancelled")
       /\ Go("burst", n) /\ UNCHANGED <<executed, latest>>
    \/ /\ mode = "burst" /\ Gen(n) > Gen(selected) /\ ~SharesDomain(selected, n)
       /\ LET run == IF IsReplaceable(n) THEN <<selected>> ELSE <<selected, n>> IN
          /\ Executes(run) /\ Answer(ExecutedResults(run))
          /\ IF IsReplaceable(n) THEN Go("burst", n) ELSE Go("idle", 0)

\* A refusal with an identity is answered and commits nothing.
Rejected(n, status) ==
    AnswerOne(n, status) /\ KeepBurst /\ UNCHANGED <<executed, latest>>

\* A refusal without an identity leaves no trace.
Unowned(n) ==
    AnswerOne(n, "ignored") /\ KeepBurst /\ UNCHANGED <<executed, latest>>

\* retire_aborted_structured_submission: its generation is used up; a burst
\* ends, and what it held is executed unless a stop follows.
Aborted(n, status, stopped) ==
    IF mode = "idle"
    THEN Commit(Gen(n)) /\ AnswerOne(n, status) /\ KeepBurst /\ UNCHANGED executed
    ELSE LET fate == [m \in {selected} |-> IF stopped THEN "Cancelled" ELSE "executed"]
         IN /\ Commit(Max2(Gen(n), Gen(selected)))
            /\ Answer(Merge([m \in {n} |-> status], fate))
            /\ executed' = IF stopped THEN executed ELSE Append(executed, selected)
            /\ Go("idle", 0)

-----------------------------------------------------------------------------
(* read_structured_submission                                               *)

\* A document whose text is complete: prepare, then validate.
Complete(n) ==
    \/ doc[n].fault = "anonymous" /\ Unowned(n)
    \/ doc[n].fault = "undecodable" /\ Rejected(n, "Failed")
    \/ /\ doc[n].fault \notin {"anonymous", "undecodable"} /\ IsStale(n)
       /\ Rejected(n, "Cancelled")
    \/ doc[n].fault = "invalid" /\ ~IsStale(n) /\ Rejected(n, "Failed")
    \/ doc[n].fault = "none" /\ ~IsStale(n) /\ Prepared(n)

\* A multipart document owns its generation from its first frame on, so that
\* a document which turns out stale or undecodable is aborted, not rejected.
Finish(n) ==
    \/ doc[n].fault \in {"anonymous", "undecodable"} /\ Aborted(n, "Failed", FALSE)
    \/ /\ doc[n].fault \in {"none", "invalid"} /\ IsStale(n)
       /\ Aborted(n, "Cancelled", FALSE)
    \/ doc[n].fault = "invalid" /\ ~IsStale(n) /\ Rejected(n, "Failed")
    \/ doc[n].fault = "none" /\ ~IsStale(n) /\ Prepared(n)

IsDoc(kinds) == command.id = "doc" /\ doc[command.n].kind \in kinds

InLoop == mode \in {"idle", "burst"} /\ assembling = 0

ReadTimeline ==
    /\ InLoop /\ IsDoc({"timeline"})
    /\ Complete(command.n)
    /\ Consumed /\ KeepRead /\ KeepBatch /\ Handling /\ UNCHANGED <<closed, stops>>

\* The first frame of a multipart document.
StartParts ==
    /\ InLoop /\ IsDoc({"parts"})
    /\ assembling' = command.n /\ next_part' = 1
    /\ Consumed /\ KeepBurst /\ KeepBatch /\ Handling
    /\ UNCHANGED <<latest, executed, results, closed, stops>>

\* A frame that does not start a document, outside a document.
StrayPart ==
    /\ InLoop /\ command.id = "part"
    /\ Consumed /\ KeepBurst /\ KeepRead /\ KeepBatch /\ Handling
    /\ UNCHANGED <<latest, executed, results, closed, stops>>

\* push_part: same document, next index.
Fits == command.id = "part" /\ command.n = assembling /\ command.index = next_part

PushPart ==
    /\ assembling # 0 /\ Fits
    /\ Consumed /\ KeepBatch /\ Handling /\ UNCHANGED <<closed, stops>>
    /\ IF next_part + 1 = PartCount
       THEN Finish(assembling) /\ ReadDone
       ELSE /\ next_part' = next_part + 1
            /\ KeepBurst
            /\ UNCHANGED <<assembling, latest, executed, results>>

\* Any other command ends the document; unless it is a stray frame, it is
\* deferred to the idle loop.
BreakParts ==
    /\ assembling # 0 /\ command # None /\ ~Fits
    /\ Aborted(assembling, IF command.id = "stop" THEN "Cancelled" ELSE "Failed",
               command.id = "stop")
    /\ IF command.id = "part" THEN Consumed ELSE Deferred
    /\ ReadDone /\ KeepBatch /\ Handling /\ UNCHANGED <<closed, stops>>

PartsTimeout ==
    /\ assembling # 0 /\ command = None
    /\ Aborted(assembling, "Failed", FALSE)
    /\ Deferred /\ ReadDone /\ KeepBatch /\ Handling /\ UNCHANGED <<closed, stops>>

PartsClosed ==
    /\ assembling # 0 /\ command = None
    /\ Aborted(assembling, "Failed", FALSE)
    /\ closed' = TRUE
    /\ Deferred /\ ReadDone /\ KeepBatch /\ Handling /\ UNCHANGED stops

-----------------------------------------------------------------------------
(* The coalescing bursts                                                    *)

\* execute_presentation: the commands of a framed transaction join the pending
\* batch and end with a dispatch.
ExecuteTx(n) ==
    LET fits == ~overflow /\ pending + 1 <= MaxPending IN
    /\ Commit(Gen(n))
    /\ executed' = IF fits THEN Append(executed, n) ELSE executed
    /\ AnswerOne(n, IF fits THEN "executed" ELSE "discarded")
    /\ EmptyBatch

Release ==
    /\ Go("idle", 0)
    /\ IF mode = "txBurst" THEN ExecuteTx(selected)
       ELSE /\ Executes(<<selected>>) /\ Answer(ExecutedResults(<<selected>>))
            /\ KeepBatch
    /\ KeepRead /\ Handling

InBurst == mode # "idle" /\ assembling = 0

\* Mutant: the command that ends a burst is consumed with it.
EndsBurstConsuming ==
    /\ InBurst /\ command # None /\ command.id # "stop"
    /\ \/ mode = "burst" /\ command.id # "part" /\ ~IsDoc({"timeline", "parts"})
       \/ mode = "txBurst" /\ ~IsDoc({"tx"})
    /\ Release /\ Consumed /\ UNCHANGED <<closed, stops>>

\* Another command executes what is held and is handled after it.
EndsBurst ==
    /\ InBurst /\ command # None /\ command.id # "stop"
    /\ \/ mode = "burst" /\ command.id # "part" /\ ~IsDoc({"timeline", "parts"})
       \/ mode = "txBurst" /\ ~IsDoc({"tx"})
    /\ Release /\ Deferred /\ UNCHANGED <<closed, stops>>

BurstTimeout ==
    /\ InBurst /\ command = None
    /\ Release /\ Deferred /\ UNCHANGED <<closed, stops>>

BurstClosed ==
    /\ InBurst /\ command = None
    /\ closed' = TRUE
    /\ Release /\ Deferred /\ UNCHANGED stops

\* Mutant: a stop leaves the burst as it is.
StopKeepsBurst ==
    /\ InBurst /\ command.id = "stop"
    /\ EmptyBatch
    /\ stops' = stops + 1
    /\ Consumed /\ KeepBurst /\ KeepRead /\ Handling
    /\ UNCHANGED <<latest, results, executed, closed>>

\* A stop discards what is held, uses up its generation, and is handled.
StopBarrier ==
    /\ InBurst /\ command.id = "stop"
    /\ Commit(Gen(selected))
    /\ AnswerOne(selected, IF mode = "burst" THEN "Cancelled" ELSE "discarded")
    /\ Go("idle", 0)
    /\ EmptyBatch
    /\ stops' = stops + 1
    /\ Consumed /\ KeepRead /\ Handling /\ UNCHANGED <<executed, closed>>

\* prepare_presentation and prefer_newer; framed transactions have no status.
CoalesceTx ==
    /\ mode \in {"idle", "txBurst"} /\ assembling = 0 /\ IsDoc({"tx"})
    /\ LET n == command.n
           usable == doc[n].fault = "none" /\ ~IsStale(n)
           wins == usable /\ (mode = "idle" \/ Gen(n) > Gen(selected)) IN
       /\ IF wins THEN Go("txBurst", n) ELSE KeepBurst
       /\ IF ~wins THEN AnswerOne(n, "ignored")
          ELSE IF mode = "idle" THEN NoAnswer
          ELSE AnswerOne(selected, "ignored")
    /\ Consumed /\ KeepRead /\ KeepBatch /\ Handling
    /\ UNCHANGED <<latest, executed, closed, stops>>

-----------------------------------------------------------------------------
(* The idle loop                                                            *)

Idle(id) == mode = "idle" /\ assembling = 0 /\ command.id = id

\* emacsvox_letter is never held; it interrupts speech and is executed.
HandleLetter ==
    /\ mode = "idle" /\ assembling = 0 /\ IsDoc({"letter"})
    /\ Complete(command.n)
    /\ Consumed /\ KeepRead /\ KeepBatch /\ Handling /\ UNCHANGED <<closed, stops>>

HandleStop ==
    /\ Idle("stop")
    /\ stops' = stops + 1
    /\ EmptyBatch
    /\ Consumed /\ KeepBurst /\ KeepRead /\ Handling
    /\ UNCHANGED <<latest, executed, results, closed>>

HandleQueue ==
    /\ Idle("queue")
    /\ Push
    /\ Consumed /\ KeepBurst /\ KeepRead /\ Handling
    /\ UNCHANGED <<latest, executed, results, closed, stops>>

HandleDispatch ==
    /\ Idle("dispatch")
    /\ EmptyBatch
    /\ Consumed /\ KeepBurst /\ KeepRead /\ Handling
    /\ UNCHANGED <<latest, executed, results, closed, stops>>

IdleClosed ==
    /\ mode = "idle" /\ assembling = 0 /\ command = None
    /\ closed' = TRUE
    /\ UNCHANGED <<doc, latest, mode, selected, assembling, next_part, command,
                   pending, overflow, pushed, executed, results, stops, items,
                   parts, arrived_at>>

-----------------------------------------------------------------------------
(* The client                                                               *)

CanReceive == command = None /\ ~closed

ReceiveKeeps == UNCHANGED <<latest, mode, selected, assembling, next_part, closed,
                            pending, overflow, pushed, executed, stops>>

ReceiveDoc(d) ==
    /\ CanReceive
    /\ Len(doc) < MaxSubmissions
    /\ doc' = Append(doc, d)
    /\ results' = Append(results, <<>>)
    /\ arrived_at' = Append(arrived_at, stops)
    /\ command' = [id |-> "doc", n |-> Len(doc) + 1]
    /\ ReceiveKeeps /\ UNCHANGED <<items, parts>>

\* A later frame of a multipart document, in or out of order.
ReceivePart(n, i) ==
    /\ CanReceive
    /\ parts < MaxParts
    /\ doc[n].kind = "parts"
    /\ parts' = parts + 1
    /\ command' = [id |-> "part", n |-> n, index |-> i]
    /\ ReceiveKeeps /\ UNCHANGED <<doc, results, arrived_at, items>>

ReceiveLegacy ==
    /\ CanReceive
    /\ \/ stops < MaxStops /\ command' = [id |-> "stop"] /\ UNCHANGED items
       \/ /\ items < MaxItems
          /\ items' = items + 1
          /\ command' \in {[id |-> "queue"], [id |-> "dispatch"]}
    /\ ReceiveKeeps /\ UNCHANGED <<doc, results, arrived_at, parts>>

Ended == closed /\ mode = "idle" /\ assembling = 0

Exit == Ended /\ UNCHANGED vars

Receive ==
    \/ \E d \in Doc : ReceiveDoc(d)
    \/ \E n \in Submissions, i \in 1 .. PartCount - 1 : ReceivePart(n, i)
    \/ ReceiveLegacy

Handle ==
    \/ ReadTimeline \/ StartParts \/ StrayPart \/ PushPart \/ BreakParts
    \/ EndsBurst \/ StopBarrier \/ CoalesceTx
    \/ HandleLetter \/ HandleStop \/ HandleQueue \/ HandleDispatch

Wait == PartsTimeout \/ PartsClosed \/ BurstTimeout \/ BurstClosed \/ IdleClosed

Next == Receive \/ Handle \/ (~closed /\ Wait) \/ Exit

Spec == Init /\ [][Next]_vars

-----------------------------------------------------------------------------
(* Properties *)

TypeOK ==
    /\ latest \in Nat
    /\ mode \in {"idle", "burst", "txBurst"}
    /\ selected \in Submissions \cup {0} /\ assembling \in Submissions \cup {0}
    /\ (mode = "idle") = (selected = 0)
    /\ next_part \in 0 .. PartCount - 1
    /\ pending \in 0 .. MaxPending

\* The submission the loop still has in hand.
InHand == ({selected, assembling} \ {0}) \cup
          (IF command.id = "doc" THEN {command.n} ELSE {})

\* Every submission has exactly one outcome once it is out of the loop's
\* hands, and none before: nothing is executed twice, executed and answered,
\* or dropped by a burst, an abort, a deferral or the end of input.
OneOutcome ==
    \A n \in Submissions : Len(results[n]) = IF n \in InHand THEN 0 ELSE 1

\* Submissions are executed in the order the client sent them and with rising
\* generations, whatever was held, replaced or aborted on the way.
ExecutedInOrder ==
    \A i, j \in DOMAIN executed :
        i < j => /\ executed[i] < executed[j]
                 /\ Gen(executed[i]) < Gen(executed[j])

\* Nothing that arrived before a stop is executed after it.
NothingCrossesStop ==
    [][\A n \in ToSet(executed') \ ToSet(executed) : arrived_at[n] = stops]_vars

\* A presentation that could be executed is cancelled only by a stop or in
\* favour of a newer one: one of its own domain, or any that made it stale.
CancelledForReason ==
    \A n \in Submissions :
        /\ results[n] = <<"Cancelled">> /\ doc[n].fault = "none"
        => \/ stops > arrived_at[n] \/ command.id = "stop"
           \/ \E m \in Submissions \ {n} :
                 /\ Gen(m) >= Gen(n)
                 /\ m < n \/ (IsReplaceable(n) /\ doc[m].domain = doc[n].domain)

\* The pending legacy transaction is whole or poisoned, never a part of what
\* was queued since the last dispatch.
PendingIsWhole ==
    IF overflow THEN pushed > MaxPending /\ pending = 0 ELSE pending = pushed

\* The command loop's safety (run_server and transaction.rs): each submission has
\* one outcome, those executed are executed in the order they were sent, one is
\* cancelled only if something that came later cancels it, and a composed
\* utterance is pending whole or not at all.
AdmissionSound == OneOutcome /\ ExecutedInOrder /\ CancelledForReason /\ PendingIsWhole
=============================================================================

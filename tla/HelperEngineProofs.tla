-------------------------- MODULE HelperEngineProofs --------------------------
(***************************************************************************)
(* The client of a helper process is sound for any number of callers, any  *)
(* number of connections and any bounds.  The argument has four parts: the *)
(* lifecycle lock orders the calls and with them every change of ownership *)
(* of a process (Serialised, Standing); a connection that is not published *)
(* is closed or was never written to (ClosedIsTerminated), so that one     *)
(* request at a time is on its way through the pipes of the published one  *)
(* (OneAtATime); every answer to a cancel still in a pipe has its entry    *)
(* (AnswersExpected); and a request is in one place, queued or active, so  *)
(* that its cancellation and its completion exclude each other (OnePlace,  *)
(* CompletedIsOver, AcceptedIsCancelled).                                  *)
(***************************************************************************)
EXTENDS HelperEngine, FiniteSetTheorems, TLAPS

----------------------------------------------------------
(* Types *)

Place == {"idle", "entering", "retire", "connect", "negotiate", "dispatch",
          "collect", "answer", "invalidate", "drop"}
Result == Terminal \cup {"none", "busy", "mismatch", "lost"}
CallRecord == [at : Place, op : Operation \cup {"none", "query"}, epoch : Nat,
               conn : Conn \cup {0}, id : Id \cup {0}, draining : BOOLEAN,
               result : Result]
CancelRecord == [target : Id \cup {0}, conn : Conn \cup {0},
                 state : {"none", "active", "terminal", "retiring"},
                 consumed : BOOLEAN, retained : BOOLEAN,
                 watchdog : {"none", "sleeping", "killing", "done"}]
InFrame == [kind : {"synthesize", "query"}, id : Id]
             \cup [kind : {"cancel"}, id : Id, target : Id]
OutFrame == [kind : Terminal \cup {"busy", "audio", "answer", "cancel_accepted",
                                   "cancel_refused"}, id : Id]

HostTypes ==
    /\ inbox \in [Conn -> Seq(InFrame)]
    /\ outbox \in [Conn -> Seq(OutFrame)]
    /\ host_active \in [Conn -> Id \cup {0}]
    /\ cancelled \in [Conn -> BOOLEAN]
    /\ worker \in [Conn -> {"idle", "native", "streaming", "emitting"} \cup Terminal]
    /\ accepted \subseteq Id
    /\ \A c \in Conn : host_active[c] = 0 <=> worker[c] = "idle"

EngineTypes ==
    /\ started \in 0..MaxConnections
    /\ connection \in 0..started /\ retiring \in 0..started
    /\ alive \subseteq 1..started /\ terminated \subseteq 1..started
    /\ stop_epoch \in Nat /\ stopping \in Nat /\ next_id \in (Nat \ {0})
    /\ active \in Id \cup {0}
    /\ call \in [Caller -> CallRecord]
    /\ cancel \in [Id -> CancelRecord]
    /\ DOMAIN outcome = Id
    /\ calls \in Nat /\ queries \in Nat
    /\ \A x \in Id : cancel[x].watchdog # "none" => cancel[x].conn \in 1..started

(* Ownership *)

Locked(k) == call[k].at \notin {"idle", "entering"}

Serialised == \A k \in Caller : Locked(k) => lifecycle = k

Stands(k) ==
    /\ call[k].at = "connect" => connection = 0 /\ retiring = 0
    /\ call[k].at = "negotiate" => connection = 0 /\ retiring # 0
    /\ call[k].at \in {"dispatch", "collect", "answer", "invalidate"} =>
         /\ call[k].conn \in 1..started
         /\ call[k].conn = connection \/ call[k].conn \in terminated
    /\ call[k].at = "dispatch" => call[k].op = "speak"
    /\ call[k].at \in {"collect", "answer", "invalidate", "drop"} => call[k].id \in Id
    /\ call[k].at = "collect" => active = call[k].id
    /\ call[k].at \notin {"invalidate", "drop"} => call[k].result = "none"

Standing == \A k \in Caller : Stands(k)

(* Numbers *)

Undispatched == {k \in Caller : call[k].at \in
                    {"entering", "retire", "connect", "negotiate", "dispatch"}}

IdsLast ==
    /\ IsFiniteSet(Undispatched)
    /\ next_id + Cardinality(Undispatched) + stopping <= calls + queries + stop_epoch + 1
    /\ calls <= MaxCalls /\ queries <= MaxQueries /\ stop_epoch <= MaxStops

Used ==
    /\ \A c \in Conn : /\ \A i \in DOMAIN inbox[c] : inbox[c][i].id < next_id
                       /\ \A i \in DOMAIN outbox[c] : outbox[c][i].id < next_id
                       /\ host_active[c] < next_id
    /\ \A k \in Caller : call[k].id < next_id
    /\ active < next_id
    /\ \A r \in accepted : r < next_id
    /\ \A x \in Id : x >= next_id => cancel[x] = NoCancel /\ outcome[x] = "none"

(* One request at a time on a connection *)

IsRequest(f) == f.kind \in {"synthesize", "query"}
IsCancelAnswer(f) == f.kind \in {"cancel_accepted", "cancel_refused"}
IsFinal(f) == f.kind \in Terminal \cup {"busy", "answer"}
NoRequest(q) == \A i \in DOMAIN q : ~IsRequest(q[i])
OnlyAnswers(q) == \A i \in DOMAIN q : IsCancelAnswer(q[i])

Empty(c) == inbox[c] = <<>> /\ outbox[c] = <<>> /\ host_active[c] = 0

ClosedIsTerminated ==
    \A c \in Conn : c # connection /\ c \notin terminated => Empty(c)

Quiet(c) == NoRequest(inbox[c]) /\ host_active[c] = 0 /\ OnlyAnswers(outbox[c])

OneRequest(c, r) ==
    /\ \A i \in DOMAIN inbox[c] : IsRequest(inbox[c][i]) =>
         /\ inbox[c][i].id = r /\ host_active[c] = 0 /\ OnlyAnswers(outbox[c])
         /\ \A j \in DOMAIN inbox[c] : IsRequest(inbox[c][j]) => j = i
    /\ host_active[c] \in {0, r}
    /\ \A i \in DOMAIN outbox[c] :
         /\ IsCancelAnswer(outbox[c][i]) \/ outbox[c][i].id = r
         /\ IsFinal(outbox[c][i]) =>
              /\ outbox[c][i].kind # "busy"
              /\ NoRequest(inbox[c]) /\ host_active[c] = 0
              /\ \A j \in DOMAIN outbox[c] : j > i => IsCancelAnswer(outbox[c][j])

Occupies(k, c) == call[k].at \in {"collect", "answer", "invalidate"} /\ call[k].conn = c

OneAtATime ==
    /\ \A k \in Caller : Waiting(k) /\ call[k].conn \notin terminated =>
          OneRequest(call[k].conn, call[k].id)
    /\ connection \in Conn \ terminated /\ (\A k \in Caller : ~Occupies(k, connection))
         => Quiet(connection)

(* Answers to cancels *)

Known(x, c) ==
    /\ cancel[x].conn = c /\ ~cancel[x].consumed
    /\ cancel[x].retained \/ cancel[x].state = "retiring"

Expected(c) ==
    /\ \A i \in DOMAIN inbox[c] : inbox[c][i].kind = "cancel" =>
         /\ Known(inbox[c][i].id, c)
         /\ \A j \in DOMAIN inbox[c] :
              inbox[c][j].kind = "cancel" /\ inbox[c][j].id = inbox[c][i].id => j = i
         /\ \A j \in DOMAIN outbox[c] :
              IsCancelAnswer(outbox[c][j]) => outbox[c][j].id # inbox[c][i].id
    /\ \A i \in DOMAIN outbox[c] : IsCancelAnswer(outbox[c][i]) =>
         /\ Known(outbox[c][i].id, c)
         /\ \A j \in DOMAIN outbox[c] :
              IsCancelAnswer(outbox[c][j]) /\ outbox[c][j].id = outbox[c][i].id => j = i

AnswersExpected == \A c \in Conn \ terminated : Expected(c)

(* A request is in one place *)

Queued(r, c) == \E i \in DOMAIN inbox[c] :
                   inbox[c][i].kind = "synthesize" /\ inbox[c][i].id = r

Completed(r) ==
    \/ \E c \in Conn : \E i \in DOMAIN outbox[c] :
          outbox[c][i].kind = "completed" /\ outbox[c][i].id = r
    \/ \E k \in Caller : call[k].id = r /\ call[k].result = "completed"
    \/ outcome[r] = "completed"

OnePlace ==
    /\ \A c, d \in Conn : \A i \in DOMAIN inbox[c] : \A j \in DOMAIN inbox[d] :
         /\ inbox[c][i].kind = "synthesize" /\ inbox[d][j].kind = "synthesize"
         /\ inbox[c][i].id = inbox[d][j].id
         => c = d /\ i = j
    /\ \A c, d \in Conn : host_active[c] # 0 => ~Queued(host_active[c], d)
    /\ \A c, d \in Conn : host_active[c] # 0 /\ host_active[c] = host_active[d] => c = d

CompletedIsOver ==
    \A r \in Id : Completed(r) =>
        /\ r \notin accepted
        /\ \A c \in Conn : ~Queued(r, c) /\ host_active[c] # r

AcceptedIsCancelled ==
    \A r \in accepted : \A c \in Conn :
        ~Queued(r, c) /\ (host_active[c] = r => cancelled[c])

IInv ==
    /\ HostTypes /\ EngineTypes /\ Serialised /\ Standing /\ OneHelperAlive
    /\ IdsLast /\ Used
    /\ ClosedIsTerminated /\ OneAtATime /\ AnswersExpected /\ RequestsDoNotCollide
    /\ OnePlace /\ CompletedIsOver /\ AcceptedIsCancelled
    /\ StopReachesRequest

----------------------------------------------------------
(* Sequences *)

\* What is in a pipe after one more frame was written to it.
LEMMA AppendAt ==
    ASSUME NEW S, NEW q \in Seq(S), NEW f \in S
    PROVE  /\ Append(q, f) \in Seq(S)
           /\ DOMAIN Append(q, f) = DOMAIN q \cup {Len(q) + 1}
           /\ Len(q) + 1 \notin DOMAIN q
           /\ \A i \in DOMAIN q : Append(q, f)[i] = q[i] /\ i < Len(q) + 1
           /\ Append(q, f)[Len(q) + 1] = f
           /\ DOMAIN q \subseteq Int /\ Len(q) + 1 \in Int
<1>1. DOMAIN q = 1 .. Len(q) /\ Len(q) \in Nat
  OBVIOUS
<1>2. DOMAIN Append(q, f) = 1 .. Len(q) + 1
  OBVIOUS
<1>3. 1 .. Len(q) + 1 = 1 .. Len(q) \cup {Len(q) + 1}
  BY <1>1
<1> QED BY <1>1, <1>2, <1>3

\* What is in a pipe after its first frame was read.
LEMMA TailAt ==
    ASSUME NEW S, NEW q \in Seq(S), q # <<>>
    PROVE  /\ Tail(q) \in Seq(S)
           /\ 1 \in DOMAIN q /\ Head(q) = q[1] /\ Head(q) \in S
           /\ \A i \in DOMAIN Tail(q) :
                i \in Int /\ i + 1 \in DOMAIN q /\ Tail(q)[i] = q[i + 1] /\ i + 1 # 1
           /\ \A i \in DOMAIN q : i # 1 => i \in Int /\ i > 1
           /\ \A i, j \in DOMAIN Tail(q) : i + 1 = j + 1 => i = j
<1>1. /\ DOMAIN q = 1 .. Len(q) /\ Len(q) \in Nat /\ Len(q) # 0
      /\ Tail(q) \in Seq(S) /\ Len(Tail(q)) = Len(q) - 1
      /\ DOMAIN Tail(q) = 1 .. Len(q) - 1
  OBVIOUS
<1>2. \A i \in 1 .. Len(q) - 1 : Tail(q)[i] = q[i + 1]
  OBVIOUS
<1>3. \A i \in 1 .. Len(q) - 1 : i \in Int /\ i + 1 \in 1 .. Len(q) /\ i + 1 # 1
  BY <1>1
<1>4. \A i \in 1 .. Len(q) : i # 1 => i \in Int /\ i > 1
  BY <1>1
<1>5. 1 \in DOMAIN q
  BY <1>1
<1>6. Head(q) = q[1] /\ Head(q) \in S
  BY <1>5
<1> QED BY <1>1, <1>2, <1>3, <1>4, <1>5, <1>6
----------------------------------------------------------
(* What a step does to a call *)

\* The call of k is at place `at' now, with this connection, id and result; its
\* operation and epoch are those it had, and other calls are untouched.
CallTo(k, at, conn, id, result) ==
    /\ call' \in [Caller -> CallRecord]
    /\ \A j \in Caller : j # k => call'[j] = call[j]
    /\ call'[k].at = at /\ call'[k].conn = conn /\ call'[k].id = id
    /\ call'[k].result = result
    /\ call'[k].op = call[k].op /\ call'[k].epoch = call[k].epoch

\* The call of k is over.
CallEnds(k) ==
    /\ call' \in [Caller -> CallRecord]
    /\ \A j \in Caller : j # k => call'[j] = call[j]
    /\ call'[k] = NoCall

\* The record of an idle caller is well formed.
LEMMA NoCallType ==
    /\ NoCall \in CallRecord
    /\ NoCall.at = "idle" /\ NoCall.op = "none" /\ NoCall.epoch = 0 /\ NoCall.conn = 0
    /\ NoCall.id = 0 /\ NoCall.result = "none"
BY DEF NoCall, CallRecord, Place, Result, Terminal, Operation

LEMMA AtEffect ==
    ASSUME EngineTypes, NEW k \in Caller, NEW place \in Place, At(k, place)
    PROVE  CallTo(k, place, call[k].conn, call[k].id, call[k].result)
BY DEF EngineTypes, At, CallTo, CallRecord

LEMMA ReturnEffect ==
    ASSUME EngineTypes, NEW k \in Caller, Return(k)
    PROVE  CallEnds(k) /\ lifecycle' = NoCaller
BY NoCallType DEF EngineTypes, Return, CallEnds

LEMMA FailsEffect ==
    ASSUME EngineTypes, NEW k \in Caller, NEW result \in Result, Fails(k, result)
    PROVE  CallTo(k, "invalidate", call[k].conn, call[k].id, result)
<1> DEFINE mid == [call[k] EXCEPT !.at = "invalidate"]
           new == [[call[k] EXCEPT !.at = "invalidate"] EXCEPT !.result = result]
<1>1. call[k] \in CallRecord /\ DOMAIN call = Caller
  BY DEF EngineTypes
<1>2. mid \in CallRecord
  BY <1>1 DEF CallRecord, Place
<1>3. new \in CallRecord
  BY <1>1, <1>2 DEF CallRecord, Place
<1>4. /\ DOMAIN call' = Caller /\ call'[k] = new
      /\ \A j \in Caller : j # k => call'[j] = call[j]
      /\ call' = [j \in Caller |-> call'[j]]
  BY <1>1, <1>2 DEF EngineTypes, Fails
<1>5. call' \in [Caller -> CallRecord]
  BY <1>3, <1>4 DEF EngineTypes
<1> QED BY <1>1, <1>4, <1>5 DEF CallTo, CallRecord

LEMMA ConnEffect ==
    ASSUME EngineTypes, NEW k \in Caller, NEW c \in Conn,
           call' = [call EXCEPT ![k].at = "dispatch", ![k].conn = c]
    PROVE  CallTo(k, "dispatch", c, call[k].id, call[k].result)
<1> DEFINE mid == [call[k] EXCEPT !.at = "dispatch"]
           new == [[call[k] EXCEPT !.at = "dispatch"] EXCEPT !.conn = c]
<1>1. call[k] \in CallRecord /\ DOMAIN call = Caller
  BY DEF EngineTypes
<1>2. mid \in CallRecord
  BY <1>1 DEF CallRecord, Place
<1>3. new \in CallRecord
  BY <1>1, <1>2 DEF CallRecord, Place
<1>4. /\ DOMAIN call' = Caller /\ call'[k] = new
      /\ \A j \in Caller : j # k => call'[j] = call[j]
      /\ call' = [j \in Caller |-> call'[j]]
  BY <1>1, <1>2 DEF EngineTypes, Fails
<1>5. call' \in [Caller -> CallRecord]
  BY <1>3, <1>4 DEF EngineTypes
<1> QED BY <1>1, <1>4, <1>5 DEF CallTo, CallRecord

LEMMA SentEffect ==
    ASSUME EngineTypes, NEW k \in Caller, NEW r \in Id,
           call' = [call EXCEPT ![k].at = "collect", ![k].id = r]
    PROVE  CallTo(k, "collect", call[k].conn, r, call[k].result)
<1> DEFINE mid == [call[k] EXCEPT !.at = "collect"]
           new == [[call[k] EXCEPT !.at = "collect"] EXCEPT !.id = r]
<1>1. call[k] \in CallRecord /\ DOMAIN call = Caller
  BY DEF EngineTypes
<1>2. mid \in CallRecord
  BY <1>1 DEF CallRecord, Place
<1>3. new \in CallRecord
  BY <1>1, <1>2 DEF CallRecord, Place
<1>4. /\ DOMAIN call' = Caller /\ call'[k] = new
      /\ \A j \in Caller : j # k => call'[j] = call[j]
      /\ call' = [j \in Caller |-> call'[j]]
  BY <1>1, <1>2 DEF EngineTypes, Fails
<1>5. call' \in [Caller -> CallRecord]
  BY <1>3, <1>4 DEF EngineTypes
<1> QED BY <1>1, <1>4, <1>5 DEF CallTo, CallRecord

LEMMA DrainEffect ==
    ASSUME EngineTypes, NEW k \in Caller,
           call' = [call EXCEPT ![k].draining = TRUE]
    PROVE  CallTo(k, call[k].at, call[k].conn, call[k].id, call[k].result)
<1> DEFINE mid == [call[k] EXCEPT !.draining = TRUE]
           new == [call[k] EXCEPT !.draining = TRUE]
<1>1. call[k] \in CallRecord /\ DOMAIN call = Caller
  BY DEF EngineTypes
<1>2. mid \in CallRecord
  BY <1>1 DEF CallRecord, Place
<1>3. new \in CallRecord
  BY <1>1, <1>2 DEF CallRecord, Place
<1>4. /\ DOMAIN call' = Caller /\ call'[k] = new
      /\ \A j \in Caller : j # k => call'[j] = call[j]
      /\ call' = [j \in Caller |-> call'[j]]
  BY <1>1 DEF EngineTypes, Fails
<1>5. call' \in [Caller -> CallRecord]
  BY <1>3, <1>4 DEF EngineTypes
<1> QED BY <1>1, <1>4, <1>5 DEF CallTo, CallRecord

LEMMA ResultEffect ==
    ASSUME EngineTypes, NEW k \in Caller, NEW place \in Place, NEW result \in Result,
           call' = [call EXCEPT ![k].at = place, ![k].result = result]
    PROVE  CallTo(k, place, call[k].conn, call[k].id, result)
<1> DEFINE mid == [call[k] EXCEPT !.at = place]
           new == [[call[k] EXCEPT !.at = place] EXCEPT !.result = result]
<1>1. call[k] \in CallRecord /\ DOMAIN call = Caller
  BY DEF EngineTypes
<1>2. mid \in CallRecord
  BY <1>1 DEF CallRecord, Place
<1>3. new \in CallRecord
  BY <1>1, <1>2 DEF CallRecord, Place
<1>4. /\ DOMAIN call' = Caller /\ call'[k] = new
      /\ \A j \in Caller : j # k => call'[j] = call[j]
      /\ call' = [j \in Caller |-> call'[j]]
  BY <1>1, <1>2 DEF EngineTypes, Fails
<1>5. call' \in [Caller -> CallRecord]
  BY <1>3, <1>4 DEF EngineTypes
<1> QED BY <1>1, <1>4, <1>5 DEF CallTo, CallRecord

----------------------------------------------------------
(* What a step does to the pipes *)

\* A connection loses what it held, or part of it, or nothing.
Shrinks(d) ==
    /\ inbox'[d] \in {inbox[d], <<>>} /\ outbox'[d] \in {outbox[d], <<>>}
    /\ \/ /\ host_active'[d] = host_active[d] /\ cancelled'[d] = cancelled[d]
          /\ worker'[d] = worker[d]
       \/ host_active'[d] = 0 /\ cancelled'[d] = FALSE /\ worker'[d] = "idle"

\* No pipe gets anything.
Shrink == HostTypes' /\ accepted' = accepted /\ \A d \in Conn : Shrinks(d)

\* Of all connections only c may change.
Only(c) ==
    \A d \in Conn : d # c =>
        /\ inbox'[d] = inbox[d] /\ outbox'[d] = outbox[d]
        /\ host_active'[d] = host_active[d] /\ cancelled'[d] = cancelled[d]
        /\ worker'[d] = worker[d]

pipes == <<inbox, outbox, host_active, cancelled, worker, accepted>>

\* Nothing happens in the pipes.
LEMMA SamePipes ==
    ASSUME HostTypes, UNCHANGED pipes
    PROVE  Shrink
BY DEF HostTypes, pipes, Shrink, Shrinks

LEMMA TerminateEffect ==
    ASSUME HostTypes, NEW c \in Conn, NEW confirmed \in BOOLEAN, Terminate(c, confirmed),
           accepted' = accepted
    PROVE  /\ Shrink
           /\ terminated' = terminated \cup {c}
           /\ alive' = IF confirmed THEN alive \ {c} ELSE alive
<1>1. CASE confirmed
  <2>1. /\ inbox' = [inbox EXCEPT ![c] = <<>>] /\ outbox' = [outbox EXCEPT ![c] = <<>>]
        /\ host_active' = [host_active EXCEPT ![c] = 0]
        /\ cancelled' = [cancelled EXCEPT ![c] = FALSE]
        /\ worker' = [worker EXCEPT ![c] = "idle"]
    BY <1>1 DEF Terminate, ProcessEnds
  <2>2. HostTypes'
    BY <2>1 DEF HostTypes
  <2>3. \A d \in Conn : Shrinks(d)
    BY <2>1 DEF HostTypes, Shrinks
  <2> QED BY <1>1, <2>2, <2>3 DEF Terminate, ProcessEnds, Shrink
<1>2. CASE ~confirmed
  <2>1. UNCHANGED pipes
    BY <1>2 DEF Terminate, pipes
  <2> QED BY <1>2, <2>1, SamePipes DEF Terminate
<1> QED BY <1>1, <1>2

LEMMA CrashEffect ==
    ASSUME HostTypes, NEW c \in Conn, HelperCrashes(c)
    PROVE  Shrink /\ alive' = alive \ {c} /\ UNCHANGED <<engineVars, calls, queries>>
<1>1. /\ inbox' = [inbox EXCEPT ![c] = <<>>] /\ outbox' = outbox
      /\ host_active' = [host_active EXCEPT ![c] = 0]
      /\ cancelled' = [cancelled EXCEPT ![c] = FALSE]
      /\ worker' = [worker EXCEPT ![c] = "idle"]
      /\ accepted' = accepted
  BY DEF HelperCrashes, ProcessEnds
<1>2. HostTypes'
  BY <1>1 DEF HostTypes
<1>3. \A d \in Conn : Shrinks(d)
  BY <1>1 DEF HostTypes, Shrinks
<1> QED BY <1>1, <1>2, <1>3 DEF HelperCrashes, ProcessEnds, Shrink

\* An invalidated connection is terminated and no longer published, and is owned
\* until its exit is confirmed; one that was replaced is left alone.
LEMMA InvalidateEffect ==
    ASSUME HostTypes, NEW c \in Conn, NEW confirmed \in BOOLEAN, Invalidate(c, confirmed),
           accepted' = accepted
    PROVE  /\ Shrink
           /\ \/ /\ c = connection /\ connection' = 0
                 /\ retiring' = IF confirmed THEN 0 ELSE c
                 /\ terminated' = terminated \cup {c}
                 /\ alive' = IF confirmed THEN alive \ {c} ELSE alive
              \/ /\ c # connection
                 /\ UNCHANGED <<connection, retiring, terminated, alive, pipes>>
<1>1. CASE c = connection
  BY <1>1, TerminateEffect DEF Invalidate, StillOwned
<1>2. CASE c # connection
  <2>1. UNCHANGED pipes /\ UNCHANGED <<connection, retiring, terminated, alive>>
    BY <1>2 DEF Invalidate, Untouched, pipes
  <2> QED BY <1>2, <2>1, SamePipes
<1> QED BY <1>1, <1>2

\* A frame is written to a connection.
LEMMA WriteEffect ==
    ASSUME HostTypes, NEW c \in Conn, NEW f \in InFrame, Write(c, f),
           UNCHANGED <<outbox, host_active, cancelled, worker, accepted>>
    PROVE  HostTypes' /\ Only(c) /\ inbox'[c] = Append(inbox[c], f)
BY DEF HostTypes, Write, Only

\* The first frame of a connection is received.
LEMMA ReceiveEffect ==
    ASSUME HostTypes, EngineTypes, NEW k \in Caller, call[k].conn \in Conn, Receives(k),
           UNCHANGED <<inbox, host_active, cancelled, worker, accepted>>
    PROVE  LET c == call[k].conn IN
           /\ HostTypes' /\ Only(c) /\ c \notin terminated
           /\ outbox[c] # <<>> /\ outbox'[c] = Tail(outbox[c])
           /\ Received(k) \in OutFrame /\ Received(k) = outbox[c][1]
           /\ outbox[c] \in Seq(OutFrame)
<1> DEFINE c == call[k].conn
<1>1. outbox[c] # <<>> /\ outbox[c] \in Seq(OutFrame)
  BY DEF Receives, HostTypes
<1>2. Tail(outbox[c]) \in Seq(OutFrame) /\ Head(outbox[c]) = outbox[c][1]
      /\ Head(outbox[c]) \in OutFrame
  BY <1>1, TailAt
<1>3. HostTypes'
  BY <1>2 DEF Receives, HostTypes
<1> QED BY <1>1, <1>2, <1>3 DEF Receives, Received, Only, HostTypes
\* The frames a host reads and those it writes.
LEMMA FrameTypes ==
    /\ \A f \in InFrame : /\ f.kind \in {"synthesize", "query", "cancel"} /\ f.id \in Id
                          /\ f.kind = "cancel" => f.target \in Id
    /\ \A f \in OutFrame : f.kind \in Terminal \cup {"busy", "audio", "answer",
                              "cancel_accepted", "cancel_refused"} /\ f.id \in Id
    /\ \A kind \in {"synthesize", "query"}, r \in Id :
          /\ Frame(kind, r) \in InFrame
          /\ Frame(kind, r).kind = kind /\ Frame(kind, r).id = r
    /\ \A kind \in Terminal \cup {"busy", "audio", "answer", "cancel_accepted",
                                  "cancel_refused"}, r \in Id :
          /\ Frame(kind, r) \in OutFrame
          /\ Frame(kind, r).kind = kind /\ Frame(kind, r).id = r
    /\ \A x, t \in Id : /\ [kind |-> "cancel", id |-> x, target |-> t] \in InFrame
BY DEF InFrame, OutFrame, Frame, Terminal, NativeResult

\* What a step of a host leaves of connection c, given what it does to it.
Host(c, q, o, a, b, w) ==
    /\ HostTypes' /\ Only(c)
    /\ inbox'[c] = q /\ outbox'[c] = o /\ host_active'[c] = a
    /\ cancelled'[c] = b /\ worker'[c] = w

\* The connection of a host step is alone in changing, and keeps its types.
LEMMA HostTypesKept ==
    ASSUME HostTypes, NEW c \in Conn, NEW q \in Seq(InFrame), NEW o \in Seq(OutFrame),
           NEW a \in Id \cup {0}, NEW b \in BOOLEAN,
           NEW w \in {"idle", "native", "streaming", "emitting"} \cup Terminal,
           a = 0 <=> w = "idle",
           inbox' = [inbox EXCEPT ![c] = q], outbox' = [outbox EXCEPT ![c] = o],
           host_active' = [host_active EXCEPT ![c] = a],
           cancelled' = [cancelled EXCEPT ![c] = b], worker' = [worker EXCEPT ![c] = w],
           accepted' \subseteq Id
    PROVE  Host(c, q, o, a, b, w)
BY DEF HostTypes, Only, Host

\* A host reads the frame at the head of its pipe.
LEMMA ReadsEffect ==
    ASSUME HostTypes, NEW c \in Conn, NEW kind, Reads(c, kind)
    PROVE  /\ inbox[c] \in Seq(InFrame) /\ inbox[c] # <<>> /\ 1 \in DOMAIN inbox[c]
           /\ Tail(inbox[c]) \in Seq(InFrame)
           /\ inbox' = [inbox EXCEPT ![c] = Tail(inbox[c])]
           /\ Head(inbox[c]) = inbox[c][1] /\ inbox[c][1] \in InFrame
           /\ inbox[c][1].kind = kind /\ inbox[c][1].id \in Id
<1>1. inbox[c] \in Seq(InFrame) /\ inbox[c] # <<>>
  BY DEF Reads, HostTypes
<1>2. /\ Tail(inbox[c]) \in Seq(InFrame) /\ Head(inbox[c]) = inbox[c][1]
      /\ Head(inbox[c]) \in InFrame /\ 1 \in DOMAIN inbox[c]
  BY <1>1, TailAt
<1> QED BY <1>1, <1>2, FrameTypes DEF Reads

LEMMA HandleSynthesisEffect ==
    ASSUME HostTypes, NEW c \in Conn, HandleSynthesis(c)
    PROVE  LET r == inbox[c][1].id IN
           /\ Reads(c, "synthesize") /\ accepted' = accepted
           /\ \/ \E kind \in {"refused", "busy"} :
                    /\ kind = "busy" => host_active[c] # 0
                    /\ Host(c, Tail(inbox[c]), Append(outbox[c], Frame(kind, r)),
                            host_active[c], cancelled[c], worker[c])
              \/ /\ host_active[c] = 0
                 /\ Host(c, Tail(inbox[c]), outbox[c], r, FALSE, "native")
<1> DEFINE r == inbox[c][1].id
<1>1. Reads(c, "synthesize") /\ accepted' = accepted
  BY DEF HandleSynthesis
<1>2. /\ inbox' = [inbox EXCEPT ![c] = Tail(inbox[c])] /\ Tail(inbox[c]) \in Seq(InFrame)
      /\ Head(inbox[c]) = inbox[c][1] /\ r \in Id
  BY <1>1, ReadsEffect
<1>3. /\ outbox[c] \in Seq(OutFrame) /\ host_active[c] \in Id \cup {0}
      /\ cancelled[c] \in BOOLEAN
      /\ worker[c] \in {"idle", "native", "streaming", "emitting"} \cup Terminal
      /\ host_active[c] = 0 <=> worker[c] = "idle"
      /\ accepted \subseteq Id
      /\ host_active = [host_active EXCEPT ![c] = host_active[c]]
      /\ cancelled = [cancelled EXCEPT ![c] = cancelled[c]]
      /\ worker = [worker EXCEPT ![c] = worker[c]]
      /\ outbox = [outbox EXCEPT ![c] = outbox[c]]
  BY DEF HostTypes
<1>4. ASSUME NEW kind \in {"refused", "busy"}, Send(c, Frame(kind, r)),
             UNCHANGED <<host_active, cancelled, worker>>
      PROVE  Host(c, Tail(inbox[c]), Append(outbox[c], Frame(kind, r)),
                  host_active[c], cancelled[c], worker[c])
  <2>1. Frame(kind, r) \in OutFrame
    BY <1>2, FrameTypes DEF Terminal, NativeResult
  <2>2. Append(outbox[c], Frame(kind, r)) \in Seq(OutFrame)
    BY <1>3, <2>1, AppendAt
  <2>3. /\ outbox' = [outbox EXCEPT ![c] = Append(outbox[c], Frame(kind, r))]
        /\ host_active' = [host_active EXCEPT ![c] = host_active[c]]
        /\ cancelled' = [cancelled EXCEPT ![c] = cancelled[c]]
        /\ worker' = [worker EXCEPT ![c] = worker[c]]
    BY <1>3, <1>4 DEF Send
  <2>4. /\ Tail(inbox[c]) \in Seq(InFrame) /\ inbox' = [inbox EXCEPT ![c] = Tail(inbox[c])]
        /\ host_active[c] \in Id \cup {0} /\ cancelled[c] \in BOOLEAN
        /\ worker[c] \in {"idle", "native", "streaming", "emitting"} \cup Terminal
        /\ host_active[c] = 0 <=> worker[c] = "idle"
        /\ accepted' \subseteq Id
    BY <1>1, <1>2, <1>3
  <2> QED BY <2>2, <2>3, <2>4, HostTypesKept
<1>5. ASSUME host_active' = [host_active EXCEPT ![c] = r],
             cancelled' = [cancelled EXCEPT ![c] = FALSE],
             worker' = [worker EXCEPT ![c] = "native"], UNCHANGED outbox
      PROVE  Host(c, Tail(inbox[c]), outbox[c], r, FALSE, "native")
  <2>1. outbox' = [outbox EXCEPT ![c] = outbox[c]] /\ r # 0
    BY <1>2, <1>3, <1>5 DEF Id
  <2>2. /\ Tail(inbox[c]) \in Seq(InFrame) /\ inbox' = [inbox EXCEPT ![c] = Tail(inbox[c])]
        /\ r \in Id \cup {0} /\ FALSE \in BOOLEAN /\ outbox[c] \in Seq(OutFrame)
        /\ "native" \in {"idle", "native", "streaming", "emitting"} \cup Terminal
        /\ r = 0 <=> "native" = "idle"
        /\ accepted' \subseteq Id
    BY <1>1, <1>2, <1>3, <2>1
  <2> QED BY <1>5, <2>1, <2>2, HostTypesKept
<1> QED BY <1>1, <1>2, <1>4, <1>5 DEF HandleSynthesis
\* The parts of the state of a connection.
LEMMA HostParts ==
    ASSUME HostTypes, NEW c \in Conn
    PROVE  /\ inbox[c] \in Seq(InFrame) /\ outbox[c] \in Seq(OutFrame)
           /\ host_active[c] \in Id \cup {0} /\ cancelled[c] \in BOOLEAN
           /\ worker[c] \in {"idle", "native", "streaming", "emitting"} \cup Terminal
           /\ host_active[c] = 0 <=> worker[c] = "idle"
           /\ accepted \subseteq Id
           /\ inbox = [inbox EXCEPT ![c] = inbox[c]]
           /\ outbox = [outbox EXCEPT ![c] = outbox[c]]
           /\ host_active = [host_active EXCEPT ![c] = host_active[c]]
           /\ cancelled = [cancelled EXCEPT ![c] = cancelled[c]]
           /\ worker = [worker EXCEPT ![c] = worker[c]]
BY DEF HostTypes

\* A frame a host writes goes behind those in its pipe.
LEMMA SendEffect ==
    ASSUME HostTypes, NEW c \in Conn, NEW r \in Id,
           NEW kind \in Terminal \cup {"busy", "audio", "answer", "cancel_accepted",
                                       "cancel_refused"},
           Send(c, Frame(kind, r))
    PROVE  /\ Append(outbox[c], Frame(kind, r)) \in Seq(OutFrame)
           /\ outbox' = [outbox EXCEPT ![c] = Append(outbox[c], Frame(kind, r))]
<1>1. Frame(kind, r) \in OutFrame
  BY FrameTypes
<1>2. Append(outbox[c], Frame(kind, r)) \in Seq(OutFrame)
  BY <1>1, HostParts, AppendAt
<1> QED BY <1>2 DEF Send

LEMMA HandleCancelEffect ==
    ASSUME HostTypes, NEW c \in Conn, HandleCancel(c)
    PROVE  LET f == inbox[c][1] IN
           /\ Reads(c, "cancel") /\ f.target \in Id
           /\ \/ /\ host_active[c] = f.target /\ accepted' = accepted \cup {f.target}
                 /\ Host(c, Tail(inbox[c]),
                         Append(outbox[c], Frame("cancel_accepted", f.id)),
                         host_active[c], TRUE, worker[c])
              \/ /\ host_active[c] # f.target /\ accepted' = accepted
                 /\ Host(c, Tail(inbox[c]),
                         Append(outbox[c], Frame("cancel_refused", f.id)),
                         host_active[c], cancelled[c], worker[c])
<1> DEFINE f == inbox[c][1]
<1>0. /\ inbox[c] \in Seq(InFrame) /\ outbox[c] \in Seq(OutFrame)
      /\ host_active[c] \in Id \cup {0} /\ cancelled[c] \in BOOLEAN
      /\ worker[c] \in {"idle", "native", "streaming", "emitting"} \cup Terminal
      /\ host_active[c] = 0 <=> worker[c] = "idle"
  BY HostParts
<1>1. Reads(c, "cancel")
  BY DEF HandleCancel
<1>2. /\ inbox' = [inbox EXCEPT ![c] = Tail(inbox[c])] /\ Tail(inbox[c]) \in Seq(InFrame)
      /\ Head(inbox[c]) = f /\ f.id \in Id /\ f.target \in Id
  BY <1>1, ReadsEffect, FrameTypes
<1>3. ASSUME host_active[c] = f.target, cancelled' = [cancelled EXCEPT ![c] = TRUE],
             accepted' = accepted \cup {f.target}, Send(c, Frame("cancel_accepted", f.id)),
             UNCHANGED <<host_active, worker>>
      PROVE  Host(c, Tail(inbox[c]), Append(outbox[c], Frame("cancel_accepted", f.id)),
                  host_active[c], TRUE, worker[c])
  <2>1. accepted' \subseteq Id
    BY <1>2, <1>3, HostParts
  <2>2. /\ host_active' = [host_active EXCEPT ![c] = host_active[c]]
        /\ worker' = [worker EXCEPT ![c] = worker[c]]
    BY <1>3, HostParts
  <2>3. /\ Append(outbox[c], Frame("cancel_accepted", f.id)) \in Seq(OutFrame)
        /\ outbox' = [outbox EXCEPT ![c] = Append(outbox[c], Frame("cancel_accepted", f.id))]
    BY <1>2, <1>3, SendEffect
  <2>4. TRUE \in BOOLEAN /\ Tail(inbox[c]) \in Seq(InFrame)
        /\ inbox' = [inbox EXCEPT ![c] = Tail(inbox[c])]
        /\ cancelled' = [cancelled EXCEPT ![c] = TRUE]
    BY <1>2, <1>3
  <2> QED BY <1>0, <2>1, <2>2, <2>3, <2>4, HostTypesKept
<1>4. ASSUME host_active[c] # f.target, UNCHANGED <<cancelled, accepted>>,
             Send(c, Frame("cancel_refused", f.id)), UNCHANGED <<host_active, worker>>
      PROVE  Host(c, Tail(inbox[c]), Append(outbox[c], Frame("cancel_refused", f.id)),
                  host_active[c], cancelled[c], worker[c])
  <2>2. /\ host_active' = [host_active EXCEPT ![c] = host_active[c]]
        /\ worker' = [worker EXCEPT ![c] = worker[c]]
        /\ cancelled' = [cancelled EXCEPT ![c] = cancelled[c]]
        /\ accepted' \subseteq Id
    BY <1>4, HostParts
  <2>3. /\ Append(outbox[c], Frame("cancel_refused", f.id)) \in Seq(OutFrame)
        /\ outbox' = [outbox EXCEPT ![c] = Append(outbox[c], Frame("cancel_refused", f.id))]
    BY <1>2, <1>4, SendEffect
  <2>4. Tail(inbox[c]) \in Seq(InFrame) /\ inbox' = [inbox EXCEPT ![c] = Tail(inbox[c])]
    BY <1>2
  <2> QED BY <1>0, <2>2, <2>3, <2>4, HostTypesKept
<1> QED BY <1>1, <1>2, <1>3, <1>4 DEF HandleCancel

LEMMA HandleParametersEffect ==
    ASSUME HostTypes, NEW c \in Conn, HandleParameters(c)
    PROVE  /\ Reads(c, "query") /\ accepted' = accepted
           /\ Host(c, Tail(inbox[c]), Append(outbox[c], Frame("answer", inbox[c][1].id)),
                   host_active[c], cancelled[c], worker[c])
<1> DEFINE r == inbox[c][1].id
<1>0. /\ inbox[c] \in Seq(InFrame) /\ outbox[c] \in Seq(OutFrame)
      /\ host_active[c] \in Id \cup {0} /\ cancelled[c] \in BOOLEAN
      /\ worker[c] \in {"idle", "native", "streaming", "emitting"} \cup Terminal
      /\ host_active[c] = 0 <=> worker[c] = "idle"
  BY HostParts
<1>1. /\ Reads(c, "query") /\ accepted' = accepted
      /\ UNCHANGED <<host_active, cancelled, worker>>
  BY DEF HandleParameters
<1>2. /\ inbox' = [inbox EXCEPT ![c] = Tail(inbox[c])] /\ Tail(inbox[c]) \in Seq(InFrame)
      /\ Head(inbox[c]) = inbox[c][1] /\ r \in Id
  BY <1>1, ReadsEffect
<1>3. /\ Append(outbox[c], Frame("answer", r)) \in Seq(OutFrame)
      /\ outbox' = [outbox EXCEPT ![c] = Append(outbox[c], Frame("answer", r))]
  BY <1>2, SendEffect DEF HandleParameters
<1>4. /\ host_active' = [host_active EXCEPT ![c] = host_active[c]]
      /\ worker' = [worker EXCEPT ![c] = worker[c]]
      /\ cancelled' = [cancelled EXCEPT ![c] = cancelled[c]]
      /\ accepted' \subseteq Id
  BY <1>1, HostParts
<1>5. Tail(inbox[c]) \in Seq(InFrame) /\ inbox' = [inbox EXCEPT ![c] = Tail(inbox[c])]
  BY <1>2
<1>6. Host(c, Tail(inbox[c]), Append(outbox[c], Frame("answer", r)), host_active[c],
           cancelled[c], worker[c])
  BY <1>0, <1>3, <1>4, <1>5, HostTypesKept
<1> QED BY <1>1, <1>6

LEMMA StreamAudioEffect ==
    ASSUME HostTypes, NEW c \in Conn, StreamAudio(c)
    PROVE  /\ accepted' = accepted /\ host_active[c] \in Id
           /\ Host(c, inbox[c], Append(outbox[c], Frame("audio", host_active[c])),
                   host_active[c], cancelled[c], "streaming")
<1>0. /\ inbox[c] \in Seq(InFrame) /\ outbox[c] \in Seq(OutFrame)
      /\ host_active[c] \in Id \cup {0} /\ cancelled[c] \in BOOLEAN
      /\ worker[c] \in {"idle", "native", "streaming", "emitting"} \cup Terminal
      /\ host_active[c] = 0 <=> worker[c] = "idle"
  BY HostParts
<1>1. /\ worker[c] = "native" /\ worker' = [worker EXCEPT ![c] = "streaming"]
      /\ Send(c, Frame("audio", host_active[c]))
      /\ UNCHANGED <<inbox, host_active, cancelled, accepted>>
  BY DEF StreamAudio
<1>2. host_active[c] \in Id
  BY <1>1, HostParts
<1>3. /\ Append(outbox[c], Frame("audio", host_active[c])) \in Seq(OutFrame)
      /\ outbox' = [outbox EXCEPT ![c] = Append(outbox[c], Frame("audio", host_active[c]))]
  BY <1>1, <1>2, SendEffect
<1>4. /\ host_active' = [host_active EXCEPT ![c] = host_active[c]]
      /\ inbox' = [inbox EXCEPT ![c] = inbox[c]]
      /\ cancelled' = [cancelled EXCEPT ![c] = cancelled[c]]
      /\ accepted' \subseteq Id
  BY <1>1, HostParts
<1>5. /\ "streaming" \in {"idle", "native", "streaming", "emitting"} \cup Terminal
      /\ host_active[c] = 0 <=> "streaming" = "idle"
      /\ worker' = [worker EXCEPT ![c] = "streaming"]
  BY <1>1, <1>2, HostParts
<1>6. Host(c, inbox[c], Append(outbox[c], Frame("audio", host_active[c])),
           host_active[c], cancelled[c], "streaming")
  BY <1>0, <1>3, <1>4, <1>5, HostTypesKept
<1> QED BY <1>1, <1>2, <1>6

LEMMA NativeReturnsEffect ==
    ASSUME HostTypes, NEW c \in Conn, NEW result \in NativeResult, NativeReturns(c, result)
    PROVE  /\ accepted' = accepted /\ host_active[c] \in Id
           /\ \E w \in Terminal \cup {"emitting"} :
                 Host(c, inbox[c], outbox[c], host_active[c], cancelled[c], w)
<1> DEFINE w == IF cancelled[c] THEN "cancelled"
                ELSE IF result = "completed" /\ worker[c] = "native" THEN "emitting"
                ELSE result
<1>0. /\ inbox[c] \in Seq(InFrame) /\ outbox[c] \in Seq(OutFrame)
      /\ host_active[c] \in Id \cup {0} /\ cancelled[c] \in BOOLEAN
      /\ worker[c] \in {"idle", "native", "streaming", "emitting"} \cup Terminal
      /\ host_active[c] = 0 <=> worker[c] = "idle"
  BY HostParts
<1>1. /\ worker[c] \in {"native", "streaming"} /\ worker' = [worker EXCEPT ![c] = w]
      /\ UNCHANGED <<inbox, outbox, host_active, cancelled, accepted>>
  BY DEF NativeReturns
<1>2. host_active[c] \in Id /\ host_active[c] # 0
  BY <1>1, HostParts
<1>3. w \in Terminal \cup {"emitting"} /\ w # "idle"
  BY DEF Terminal, NativeResult
<1> HIDE DEF w
<1>4. /\ host_active' = [host_active EXCEPT ![c] = host_active[c]]
      /\ inbox' = [inbox EXCEPT ![c] = inbox[c]]
      /\ outbox' = [outbox EXCEPT ![c] = outbox[c]]
      /\ cancelled' = [cancelled EXCEPT ![c] = cancelled[c]]
      /\ accepted' \subseteq Id
  BY <1>1, HostParts
<1>5. /\ w \in {"idle", "native", "streaming", "emitting"} \cup Terminal
      /\ host_active[c] = 0 <=> w = "idle"
      /\ worker' = [worker EXCEPT ![c] = w]
  BY <1>1, <1>2, <1>3
<1>6. Host(c, inbox[c], outbox[c], host_active[c], cancelled[c], w)
  BY <1>0, <1>4, <1>5, HostTypesKept
<1> QED BY <1>1, <1>2, <1>3, <1>6

LEMMA EmitResultEffect ==
    ASSUME HostTypes, NEW c \in Conn, EmitResult(c)
    PROVE  /\ accepted' = accepted /\ host_active[c] \in Id
           /\ \/ Host(c, inbox[c], outbox[c], host_active[c], cancelled[c], "cancelled")
              \/ Host(c, inbox[c], Append(outbox[c], Frame("audio", host_active[c])),
                      host_active[c], cancelled[c], "completed")
<1>0. /\ inbox[c] \in Seq(InFrame) /\ outbox[c] \in Seq(OutFrame)
      /\ host_active[c] \in Id \cup {0} /\ cancelled[c] \in BOOLEAN
      /\ worker[c] \in {"idle", "native", "streaming", "emitting"} \cup Terminal
      /\ host_active[c] = 0 <=> worker[c] = "idle"
  BY HostParts
<1>1. /\ worker[c] = "emitting" /\ UNCHANGED <<inbox, host_active, cancelled, accepted>>
  BY DEF EmitResult
<1>2. host_active[c] \in Id /\ host_active[c] # 0
  BY <1>1, HostParts
<1>3. /\ host_active' = [host_active EXCEPT ![c] = host_active[c]]
      /\ inbox' = [inbox EXCEPT ![c] = inbox[c]]
      /\ cancelled' = [cancelled EXCEPT ![c] = cancelled[c]]
      /\ accepted' \subseteq Id
  BY <1>1, HostParts
<1>4. "cancelled" \in Terminal /\ "completed" \in Terminal
  BY DEF Terminal, NativeResult
<1>5. ASSUME worker' = [worker EXCEPT ![c] = "cancelled"], outbox' = outbox
      PROVE  Host(c, inbox[c], outbox[c], host_active[c], cancelled[c], "cancelled")
  <2>1. outbox' = [outbox EXCEPT ![c] = outbox[c]]
    BY <1>5, HostParts
  <2>2. /\ "cancelled" \in {"idle", "native", "streaming", "emitting"} \cup Terminal
        /\ host_active[c] = 0 <=> "cancelled" = "idle"
        /\ worker' = [worker EXCEPT ![c] = "cancelled"]
    BY <1>2, <1>4, <1>5
  <2> QED BY <1>0, <1>3, <2>1, <2>2, HostTypesKept
<1>6. ASSUME worker' = [worker EXCEPT ![c] = "completed"],
             Send(c, Frame("audio", host_active[c]))
      PROVE  Host(c, inbox[c], Append(outbox[c], Frame("audio", host_active[c])),
                  host_active[c], cancelled[c], "completed")
  <2>1. /\ Append(outbox[c], Frame("audio", host_active[c])) \in Seq(OutFrame)
        /\ outbox' = [outbox EXCEPT ![c] = Append(outbox[c], Frame("audio", host_active[c]))]
    BY <1>2, <1>6, SendEffect
  <2>2. /\ "completed" \in {"idle", "native", "streaming", "emitting"} \cup Terminal
        /\ host_active[c] = 0 <=> "completed" = "idle"
        /\ worker' = [worker EXCEPT ![c] = "completed"]
    BY <1>2, <1>4, <1>6
  <2> QED BY <1>0, <1>3, <2>1, <2>2, HostTypesKept
<1> QED BY <1>1, <1>2, <1>5, <1>6 DEF EmitResult

LEMMA FinishSynthesisEffect ==
    ASSUME HostTypes, NEW c \in Conn, FinishSynthesis(c)
    PROVE  /\ accepted' = accepted /\ host_active[c] \in Id
           /\ \E kind \in Terminal :
                 /\ kind = "completed" => ~cancelled[c]
                 /\ Host(c, inbox[c], Append(outbox[c], Frame(kind, host_active[c])),
                         0, cancelled[c], "idle")
<1> DEFINE kind == IF cancelled[c] THEN "cancelled" ELSE worker[c]
<1>0. /\ inbox[c] \in Seq(InFrame) /\ outbox[c] \in Seq(OutFrame)
      /\ host_active[c] \in Id \cup {0} /\ cancelled[c] \in BOOLEAN
      /\ worker[c] \in {"idle", "native", "streaming", "emitting"} \cup Terminal
      /\ host_active[c] = 0 <=> worker[c] = "idle"
  BY HostParts
<1>1. /\ worker[c] \in Terminal /\ Send(c, Frame(kind, host_active[c]))
      /\ host_active' = [host_active EXCEPT ![c] = 0]
      /\ worker' = [worker EXCEPT ![c] = "idle"]
      /\ UNCHANGED <<inbox, cancelled, accepted>>
  BY DEF FinishSynthesis
<1>2. host_active[c] \in Id
  BY <1>1, HostParts DEF Terminal, NativeResult
<1>3. kind \in Terminal /\ (kind = "completed" => ~cancelled[c])
  BY <1>1 DEF Terminal, NativeResult
<1> HIDE DEF kind
<1>4. /\ Append(outbox[c], Frame(kind, host_active[c])) \in Seq(OutFrame)
      /\ outbox' = [outbox EXCEPT ![c] = Append(outbox[c], Frame(kind, host_active[c]))]
  BY <1>1, <1>2, <1>3, SendEffect
<1>5. /\ inbox' = [inbox EXCEPT ![c] = inbox[c]]
      /\ cancelled' = [cancelled EXCEPT ![c] = cancelled[c]]
      /\ accepted' \subseteq Id
  BY <1>1, HostParts
<1>6. Host(c, inbox[c], Append(outbox[c], Frame(kind, host_active[c])), 0,
           cancelled[c], "idle")
  <2>1. /\ 0 \in Id \cup {0} /\ 0 = 0 <=> "idle" = "idle"
        /\ "idle" \in {"idle", "native", "streaming", "emitting"} \cup Terminal
        /\ host_active' = [host_active EXCEPT ![c] = 0]
        /\ worker' = [worker EXCEPT ![c] = "idle"]
        /\ inbox[c] \in Seq(InFrame) /\ cancelled[c] \in BOOLEAN
    BY <1>0, <1>1
  <2> QED BY <1>4, <1>5, <2>1, HostTypesKept
<1> QED BY <1>1, <1>2, <1>3, <1>6
----------------------------------------------------------
(* The steps of the client, variable by variable *)

processVars == <<connection, retiring, started, alive, terminated>>
numberVars == <<stop_epoch, stopping, next_id, calls, queries>>

\* The call of k stays where it is in everything but its place.
Moves(k, at) == CallTo(k, at, call[k].conn, call[k].id, call[k].result)

\* The call of k is over, and the lifecycle lock free.
Leaves(k) == CallEnds(k) /\ lifecycle' = NoCaller

Begins(k) ==
    /\ call[k].at = "idle" /\ calls < MaxCalls /\ calls' = calls + 1 /\ Shrink
    /\ UNCHANGED <<processVars, lifecycle, stop_epoch, stopping, next_id, queries,
                   active, cancel, outcome>>
    /\ call' \in [Caller -> CallRecord]
    /\ \A j \in Caller : j # k => call'[j] = call[j]
    /\ call'[k].at = "entering" /\ call'[k].conn = 0 /\ call'[k].id = 0
    /\ call'[k].result = "none"

LEMMA BeginStep ==
    ASSUME HostTypes, EngineTypes, NEW k \in Caller, NEW op \in Operation, Begin(k, op)
    PROVE  Begins(k)
<1> DEFINE new == [NoCall EXCEPT !.at = "entering", !.op = op, !.epoch = stop_epoch]
<1>1. /\ call' = [call EXCEPT ![k] = new] /\ UNCHANGED pipes
      /\ call[k].at = "idle" /\ calls < MaxCalls /\ calls' = calls + 1
      /\ UNCHANGED <<processVars, lifecycle, stop_epoch, stopping, next_id, queries,
                     active, cancel, outcome>>
  BY DEF Begin, hostVars, pipes, processVars
<1>2. /\ new \in CallRecord /\ new.at = "entering" /\ new.conn = 0 /\ new.id = 0
      /\ new.result = "none"
  BY DEF EngineTypes, NoCall, CallRecord, Place, Result, Operation
<1> HIDE DEF new
<1>3. /\ call' \in [Caller -> CallRecord] /\ call'[k] = new
      /\ \A j \in Caller : j # k => call'[j] = call[j]
  BY <1>1, <1>2 DEF EngineTypes
<1> QED BY <1>1, <1>2, <1>3, SamePipes DEF Begins

Enters(k) ==
    /\ call[k].at = "entering" /\ lifecycle = NoCaller /\ Shrink
    /\ UNCHANGED <<processVars, numberVars, active, cancel, outcome>>
    /\ \/ lifecycle' = k /\ Moves(k, "retire")
       \/ Leaves(k)
       \/ /\ lifecycle' = k /\ call[k].op = "speak" /\ connection \in Conn
          /\ CallTo(k, "dispatch", connection, call[k].id, call[k].result)

LEMMA EnterStep ==
    ASSUME HostTypes, EngineTypes, NEW k \in Caller, Enter(k)
    PROVE  Enters(k)
<1>1. /\ call[k].at = "entering" /\ lifecycle = NoCaller /\ UNCHANGED pipes
      /\ UNCHANGED <<processVars, numberVars, active, cancel, outcome>>
  BY DEF Enter, hostVars, pipes, processVars, numberVars, countVars
<1>2. ASSUME lifecycle' = k, At(k, "retire") PROVE Moves(k, "retire")
  BY <1>2, AtEffect DEF Place, Moves
<1>3. ASSUME Return(k) PROVE Leaves(k)
  BY <1>3, ReturnEffect DEF Leaves
<1>4. ASSUME connection # 0,
             call' = [call EXCEPT ![k].at = "dispatch", ![k].conn = connection]
      PROVE  /\ connection \in Conn
             /\ CallTo(k, "dispatch", connection, call[k].id, call[k].result)
  <2>1. connection \in Conn
    BY <1>4, HostAssumption DEF EngineTypes, Conn
  <2> QED BY <1>4, <2>1, ConnEffect
<1> QED BY <1>1, <1>2, <1>3, <1>4, SamePipes DEF Enter, Enters

Connects(k) ==
    /\ call[k].at = "connect" /\ Shrink
    /\ UNCHANGED <<connection, terminated, numberVars, active, cancel, outcome>>
    /\ \/ /\ started < MaxConnections /\ started' = started + 1
          /\ alive' = alive \cup {started + 1} /\ retiring' = started + 1
          /\ Moves(k, "negotiate") /\ lifecycle' = lifecycle
       \/ UNCHANGED <<started, alive, retiring>> /\ Leaves(k)

LEMMA ConnectStep ==
    ASSUME HostTypes, EngineTypes, NEW k \in Caller, ConnectHelper(k)
    PROVE  Connects(k)
<1>1. /\ call[k].at = "connect" /\ UNCHANGED pipes
      /\ UNCHANGED <<connection, terminated, numberVars, active, cancel, outcome>>
  BY DEF ConnectHelper, pipes, numberVars, countVars
<1>2. ASSUME At(k, "negotiate") PROVE Moves(k, "negotiate")
  BY <1>2, AtEffect DEF Place, Moves
<1>3. ASSUME Return(k) PROVE Leaves(k)
  BY <1>3, ReturnEffect DEF Leaves
<1> QED BY <1>1, <1>2, <1>3, SamePipes DEF ConnectHelper, Connects

Publishes(k) ==
    /\ call[k].at = "negotiate" /\ Shrink /\ retiring \in alive
    /\ connection' = retiring /\ retiring' = 0
    /\ UNCHANGED <<started, alive, terminated, numberVars, active, cancel, outcome>>
    /\ \/ /\ call[k].op = "speak" /\ lifecycle' = lifecycle
          /\ CallTo(k, "dispatch", retiring, call[k].id, call[k].result)
       \/ Leaves(k)

LEMMA PublishStep ==
    ASSUME HostTypes, EngineTypes, NEW k \in Caller, Publish(k)
    PROVE  Publishes(k)
<1>1. /\ call[k].at = "negotiate" /\ UNCHANGED pipes /\ retiring \in alive
      /\ connection' = retiring /\ retiring' = 0
      /\ UNCHANGED <<started, alive, terminated, numberVars, active, cancel, outcome>>
  BY DEF Publish, hostVars, pipes, numberVars, countVars
<1>2. retiring \in Conn
  BY <1>1, HostAssumption DEF EngineTypes, Conn
<1>3. ASSUME Return(k) PROVE Leaves(k)
  BY <1>3, ReturnEffect DEF Leaves
<1>4. ASSUME call' = [call EXCEPT ![k].at = "dispatch", ![k].conn = retiring]
      PROVE  CallTo(k, "dispatch", retiring, call[k].id, call[k].result)
  BY <1>2, <1>4, ConnEffect
<1> QED BY <1>1, <1>3, <1>4, SamePipes DEF Publish, Publishes

----------------------------------------------------------
(* Cancellations *)

\* A cancellation keeps its target and connection, and a retirement is final.
Advances(x) ==
    /\ cancel'[x].target = cancel[x].target /\ cancel'[x].conn = cancel[x].conn
    /\ cancel[x].state = "retiring" => cancel'[x].state = "retiring"
    /\ cancel'[x].watchdog # "none" => cancel[x].watchdog # "none"
    /\ cancel[x] = NoCancel => cancel'[x] = NoCancel

\* An answer that was expected is still expected.
StaysKnown(x) ==
    ~cancel[x].consumed /\ (cancel[x].retained \/ cancel[x].state = "retiring") =>
        ~cancel'[x].consumed /\ (cancel'[x].retained \/ cancel'[x].state = "retiring")

CancelsAdvance == cancel' \in [Id -> CancelRecord] /\ \A x \in Id : Advances(x)

LEMMA NoCancelType ==
    /\ NoCancel \in CancelRecord
    /\ NoCancel.target = 0 /\ NoCancel.conn = 0 /\ NoCancel.state = "none"
    /\ ~NoCancel.consumed /\ ~NoCancel.retained /\ NoCancel.watchdog = "none"
BY DEF NoCancel, CancelRecord

\* The fields of a cancellation make it up.
LEMMA CancelFields ==
    ASSUME NEW d \in CancelRecord, NEW e \in CancelRecord,
           d.target = e.target, d.conn = e.conn, d.state = e.state,
           d.consumed = e.consumed, d.retained = e.retained, d.watchdog = e.watchdog
    PROVE  d = e
BY DEF CancelRecord

LEMMA MarkEffect ==
    ASSUME EngineTypes, NEW t, MarkTargetTerminal(t)
    PROVE  CancelsAdvance /\ \A x \in Id : StaysKnown(x)
<1>1. ASSUME NEW x \in Id, x \notin EntryOf(t)
      PROVE  cancel'[x] = cancel[x]
  BY <1>1 DEF MarkTargetTerminal
<1>2. ASSUME NEW x \in Id, x \in EntryOf(t)
      PROVE  /\ cancel'[x] \in CancelRecord /\ Advances(x) /\ StaysKnown(x)
  <2> DEFINE mid == [cancel[x] EXCEPT !.state = IF @ = "active" THEN "terminal" ELSE @]
             new == [cancel[x] EXCEPT
                !.state = IF @ = "active" THEN "terminal" ELSE @,
                !.retained = ~cancel[x].consumed /\ cancel[x].state # "retiring"]
  <2>1. cancel'[x] = new /\ cancel[x] \in CancelRecord /\ cancel[x].retained
    BY <1>2 DEF MarkTargetTerminal, EngineTypes, EntryOf
  <2>2. new \in CancelRecord
    BY <2>1 DEF CancelRecord
  <2>3. /\ new.target = cancel[x].target /\ new.conn = cancel[x].conn
        /\ new.watchdog = cancel[x].watchdog /\ new.consumed = cancel[x].consumed
        /\ new.state = (IF cancel[x].state = "active" THEN "terminal" ELSE cancel[x].state)
        /\ new.retained = (~cancel[x].consumed /\ cancel[x].state # "retiring")
    BY <2>1 DEF CancelRecord
  <2> HIDE DEF new, mid
  <2>4. cancel[x] # NoCancel
    BY <2>1, NoCancelType
  <2> QED BY <2>1, <2>2, <2>3, <2>4 DEF Advances, StaysKnown
<1>3. \A x \in Id : cancel'[x] \in CancelRecord /\ Advances(x) /\ StaysKnown(x)
  BY <1>1, <1>2 DEF Advances, StaysKnown, EngineTypes
<1>4. DOMAIN cancel' = Id /\ cancel' = [x \in Id |-> cancel'[x]]
  BY DEF MarkTargetTerminal
<1> QED BY <1>3, <1>4 DEF CancelsAdvance

LEMMA ConsumeEffect ==
    ASSUME EngineTypes, NEW x \in Id, cancel[x].retained, ConsumeCancelResponse(x)
    PROVE  CancelsAdvance /\ \A y \in Id : y # x => cancel'[y] = cancel[y]
<1> DEFINE new == [[cancel[x] EXCEPT !.consumed = TRUE] EXCEPT
                      !.retained = cancel[x].state = "active"]
<1>1. cancel[x] \in CancelRecord /\ cancel \in [Id -> CancelRecord]
  BY DEF EngineTypes
<1>2. new \in CancelRecord
  BY <1>1 DEF CancelRecord
<1>3. /\ new.target = cancel[x].target /\ new.conn = cancel[x].conn
      /\ new.watchdog = cancel[x].watchdog /\ new.state = cancel[x].state
  BY <1>1 DEF CancelRecord
<1>4. cancel' = [cancel EXCEPT ![x] = new]
  BY <1>1 DEF ConsumeCancelResponse
<1> HIDE DEF new
<1>5. cancel[x] # NoCancel
  BY NoCancelType
<1> QED BY <1>1, <1>2, <1>3, <1>4, <1>5 DEF CancelsAdvance, Advances

\* A watchdog whose cancellation is at x fires or is done.
LEMMA WatchdogEffect ==
    ASSUME EngineTypes, NEW x \in Id, NEW s \in {"active", "none", "terminal", "retiring"},
           NEW w \in {"killing", "done"}, cancel[x].watchdog # "none",
           s = cancel[x].state \/ s = "retiring",
           cancel' = [cancel EXCEPT ![x].state = s, ![x].watchdog = w]
    PROVE  CancelsAdvance /\ \A y \in Id : StaysKnown(y)
<1> DEFINE new == [[cancel[x] EXCEPT !.state = s] EXCEPT !.watchdog = w]
<1>1. cancel[x] \in CancelRecord /\ cancel \in [Id -> CancelRecord]
  BY DEF EngineTypes
<1>2. new \in CancelRecord
  BY <1>1 DEF CancelRecord
<1>3. /\ new.target = cancel[x].target /\ new.conn = cancel[x].conn
      /\ new.watchdog = w /\ new.state = s /\ new.consumed = cancel[x].consumed
      /\ new.retained = cancel[x].retained
  BY <1>1 DEF CancelRecord
<1>4. cancel' = [cancel EXCEPT ![x] = new]
  BY <1>1
<1> HIDE DEF new
<1>5. cancel[x] # NoCancel
  BY NoCancelType
<1>6. \A y \in Id : y # x => cancel'[y] = cancel[y]
  BY <1>1, <1>4
<1>7. cancel'[x] = new /\ cancel' \in [Id -> CancelRecord]
  BY <1>1, <1>2, <1>4
<1>8. Advances(x) /\ StaysKnown(x)
  BY <1>3, <1>5, <1>7 DEF Advances, StaysKnown
<1>9. \A y \in Id : Advances(y) /\ StaysKnown(y)
  BY <1>6, <1>8 DEF Advances, StaysKnown
<1> QED BY <1>7, <1>9 DEF CancelsAdvance

\* Nothing happens to the cancellations.
LEMMA SameCancels ==
    ASSUME EngineTypes, cancel' = cancel
    PROVE  CancelsAdvance /\ \A x \in Id : StaysKnown(x)
BY DEF EngineTypes, CancelsAdvance, Advances, StaysKnown

----------------------------------------------------------
(* Steps that terminate a process, or give it up *)

\* Connection c is terminated; what remains to be reaped of it is r.
Killed(c, r) ==
    /\ Shrink /\ terminated' = terminated \cup {c}
    /\ \/ r = 0 /\ alive' = alive \ {c}
       \/ r = c /\ alive' = alive

\* The published connection is killed, or c was replaced already.
Invalidated(c) ==
    \/ c = connection /\ connection' = 0 /\ Killed(c, retiring')
    \/ c # connection /\ Shrink /\ UNCHANGED <<connection, retiring, terminated, alive>>

LEMMA KilledEffect ==
    ASSUME HostTypes, NEW c \in Conn, NEW confirmed \in BOOLEAN, Terminate(c, confirmed),
           accepted' = accepted
    PROVE  Killed(c, StillOwned(c, confirmed))
BY TerminateEffect DEF Killed, StillOwned

LEMMA InvalidatedEffect ==
    ASSUME HostTypes, NEW c \in Conn, NEW confirmed \in BOOLEAN, Invalidate(c, confirmed),
           accepted' = accepted
    PROVE  Invalidated(c)
BY InvalidateEffect DEF Killed, Invalidated

Retires(k) ==
    /\ call[k].at = "retire"
    /\ UNCHANGED <<started, numberVars, active, outcome>>
    /\ CancelsAdvance
    /\ \/ /\ connection = 0 /\ retiring = 0 /\ Shrink
          /\ UNCHANGED <<connection, retiring, terminated, alive, lifecycle>>
          /\ Moves(k, "connect")
       \/ /\ cancel' = cancel
          /\ \/ retiring # 0 /\ connection' = connection /\ Killed(retiring, retiring')
             \/ /\ retiring = 0 /\ connection # 0 /\ connection' = 0
                /\ Killed(connection, retiring')
          /\ \/ UNCHANGED <<call, lifecycle>>
             \/ Leaves(k)

LEMMA RetireStep ==
    ASSUME HostTypes, EngineTypes, NEW k \in Caller, NEW confirmed \in BOOLEAN,
           Retire(k, confirmed)
    PROVE  Retires(k)
<1>1. /\ call[k].at = "retire" /\ accepted' = accepted
      /\ UNCHANGED <<started, numberVars, active, outcome>>
  BY DEF Retire, numberVars, Terminate, Untouched
<1> DEFINE old == IF retiring # 0 THEN retiring ELSE connection
<1>2. ASSUME old = 0, cancel' = [x \in Id |-> [cancel[x] EXCEPT !.retained = FALSE]],
             At(k, "connect"), Untouched, UNCHANGED <<inbox, connection, retiring, lifecycle>>
      PROVE  /\ connection = 0 /\ retiring = 0 /\ Shrink /\ CancelsAdvance
             /\ UNCHANGED <<connection, retiring, terminated, alive, lifecycle>>
             /\ Moves(k, "connect")
  <2>1. connection = 0 /\ retiring = 0
    BY <1>2
  <2>2. UNCHANGED pipes /\ UNCHANGED <<connection, retiring, terminated, alive, lifecycle>>
    BY <1>1, <1>2 DEF Untouched, pipes
  <2>3. Moves(k, "connect")
    BY <1>2, AtEffect DEF Place, Moves
  <2>4. \A x \in Id : cancel'[x] \in CancelRecord /\ Advances(x)
    <3> TAKE x \in Id
    <3> DEFINE new == [cancel[x] EXCEPT !.retained = FALSE]
    <3>1. cancel'[x] = new /\ cancel[x] \in CancelRecord
      BY <1>2 DEF EngineTypes
    <3>2. new \in CancelRecord /\ new.target = cancel[x].target /\ new.conn = cancel[x].conn
          /\ new.state = cancel[x].state /\ new.watchdog = cancel[x].watchdog
          /\ new.consumed = cancel[x].consumed /\ new.retained = FALSE
      BY <3>1 DEF CancelRecord
    <3> HIDE DEF new
    <3>3. ASSUME cancel[x] = NoCancel PROVE new = NoCancel
      <4>1. /\ new \in CancelRecord /\ NoCancel \in CancelRecord
            /\ new.target = NoCancel.target /\ new.conn = NoCancel.conn
            /\ new.state = NoCancel.state /\ new.watchdog = NoCancel.watchdog
            /\ new.consumed = NoCancel.consumed
        BY <3>2, <3>3, NoCancelType
      <4>2. new.retained = NoCancel.retained
        BY <3>2, <3>3 DEF NoCancel
      <4> QED BY <4>1, <4>2, CancelFields
    <3> QED BY <3>1, <3>2, <3>3 DEF Advances
  <2>5. cancel' = [x \in Id |-> cancel'[x]]
    BY <1>2
  <2> QED BY <2>1, <2>2, <2>3, <2>4, <2>5, SamePipes DEF CancelsAdvance
<1>3. ASSUME old # 0, Terminate(old, confirmed),
             connection' = (IF retiring # 0 THEN connection ELSE 0),
             retiring' = StillOwned(old, confirmed),
             IF confirmed THEN UNCHANGED <<call, lifecycle>> ELSE Return(k)
      PROVE  /\ \/ retiring # 0 /\ connection' = connection /\ Killed(retiring, retiring')
                \/ /\ retiring = 0 /\ connection # 0 /\ connection' = 0
                   /\ Killed(connection, retiring')
             /\ UNCHANGED <<call, lifecycle>> \/ Leaves(k)
  <2>1. old \in Conn
    BY <1>3, HostAssumption DEF EngineTypes, Conn
  <2>2. Killed(old, retiring')
    BY <1>1, <1>3, <2>1, KilledEffect
  <2>3. Return(k) => Leaves(k)
    BY ReturnEffect DEF Leaves
  <2> QED BY <1>3, <2>2, <2>3
<1> QED BY <1>1, <1>2, <1>3, SameCancels DEF Retire, Retires

GivesUp(k) ==
    /\ call[k].at = "negotiate" /\ Leaves(k) /\ Killed(retiring, retiring')
    /\ UNCHANGED <<connection, started, numberVars, active, cancel, outcome>>

LEMMA NegotiationFailsStep ==
    ASSUME HostTypes, EngineTypes, NEW k \in Caller, NEW confirmed \in BOOLEAN,
           NegotiationFails(k, confirmed), retiring # 0
    PROVE  GivesUp(k)
<1>1. /\ call[k].at = "negotiate" /\ accepted' = accepted
      /\ Terminate(retiring, confirmed) /\ retiring' = StillOwned(retiring, confirmed)
      /\ UNCHANGED <<connection, started, numberVars, active, cancel, outcome>>
      /\ Return(k)
  BY DEF NegotiationFails, numberVars
<1>2. retiring \in Conn
  BY HostAssumption DEF EngineTypes, Conn
<1> QED BY <1>1, <1>2, KilledEffect, ReturnEffect DEF Leaves, GivesUp

Invalidates(k) ==
    /\ call[k].at = "invalidate" /\ Invalidated(call[k].conn)
    /\ UNCHANGED <<started, numberVars, active, cancel>>
    /\ \/ Moves(k, "drop") /\ UNCHANGED <<lifecycle, outcome>>
       \/ /\ Leaves(k)
          /\ outcome' = [outcome EXCEPT ![call[k].id] = call[k].result]

LEMMA SynthesisErrorStep ==
    ASSUME HostTypes, EngineTypes, NEW k \in Caller, NEW confirmed \in BOOLEAN,
           call[k].conn \in Conn, SynthesisError(k, confirmed)
    PROVE  Invalidates(k)
<1>1. /\ call[k].at = "invalidate" /\ accepted' = accepted
      /\ Invalidate(call[k].conn, confirmed)
      /\ UNCHANGED <<started, numberVars, active, cancel>>
  BY DEF SynthesisError, numberVars
<1>2. At(k, "drop") => Moves(k, "drop")
  BY AtEffect DEF Place, Moves
<1>3. Return(k) => Leaves(k)
  BY ReturnEffect DEF Leaves
<1> QED BY <1>1, <1>2, <1>3, InvalidatedEffect DEF SynthesisError, Invalidates

Kills(x) ==
    /\ cancel[x].watchdog = "killing" /\ cancel[x].conn \in 1 .. started
    /\ CancelsAdvance /\ \A y \in Id : StaysKnown(y)
    /\ \E r \in {0, cancel[x].conn} : Killed(cancel[x].conn, r)
    /\ UNCHANGED <<connection, retiring, started, lifecycle, numberVars, active, call,
                   outcome>>

LEMMA WatchdogKillsStep ==
    ASSUME HostTypes, EngineTypes, NEW x \in Id, NEW confirmed \in BOOLEAN,
           WatchdogKills(x, confirmed)
    PROVE  Kills(x)
<1>1. /\ cancel[x].watchdog = "killing" /\ accepted' = accepted
      /\ Terminate(cancel[x].conn, confirmed)
      /\ cancel' = [cancel EXCEPT ![x].watchdog = "done"]
      /\ UNCHANGED <<connection, retiring, started, lifecycle, numberVars, active, call,
                     outcome>>
  BY DEF WatchdogKills, numberVars
<1>2. cancel[x].conn \in 1 .. started /\ cancel[x].conn \in Conn
  BY <1>1, HostAssumption DEF EngineTypes, Conn
<1>3. Killed(cancel[x].conn, StillOwned(cancel[x].conn, confirmed))
  BY <1>1, <1>2, KilledEffect
<1>4. /\ cancel[x].state \in {"active", "none", "terminal", "retiring"}
      /\ cancel' = [cancel EXCEPT ![x].state = cancel[x].state, ![x].watchdog = "done"]
  <2>1. cancel[x] \in CancelRecord
    BY DEF EngineTypes
  <2>2. [cancel[x] EXCEPT !.watchdog = "done"]
          = [[cancel[x] EXCEPT !.state = cancel[x].state] EXCEPT !.watchdog = "done"]
    BY <2>1 DEF CancelRecord
  <2> QED BY <1>1, <2>1, <2>2 DEF EngineTypes, CancelRecord
<1>5. CancelsAdvance /\ \A y \in Id : StaysKnown(y)
  BY <1>1, <1>4, WatchdogEffect
<1> QED BY <1>1, <1>2, <1>3, <1>5 DEF StillOwned, Kills

----------------------------------------------------------
(* Steps that write to a helper or read from it *)

\* A frame f is behind the others in the pipe to c.
Written(c, f) ==
    /\ HostTypes' /\ Only(c) /\ accepted' = accepted
    /\ inbox'[c] = Append(inbox[c], f) /\ outbox'[c] = outbox[c]
    /\ host_active'[c] = host_active[c] /\ cancelled'[c] = cancelled[c]
    /\ worker'[c] = worker[c]

\* The first frame of the pipe from c was taken.
Taken(c) ==
    /\ HostTypes' /\ Only(c) /\ accepted' = accepted /\ c \notin terminated
    /\ outbox[c] \in Seq(OutFrame) /\ outbox[c] # <<>> /\ outbox[c][1] \in OutFrame
    /\ outbox'[c] = Tail(outbox[c]) /\ inbox'[c] = inbox[c]
    /\ host_active'[c] = host_active[c] /\ cancelled'[c] = cancelled[c]
    /\ worker'[c] = worker[c]

LEMMA WrittenEffect ==
    ASSUME HostTypes, NEW c \in Conn, NEW f \in InFrame, Write(c, f),
           UNCHANGED <<outbox, host_active, cancelled, worker, accepted>>
    PROVE  Written(c, f)
BY WriteEffect DEF Written

LEMMA TakenEffect ==
    ASSUME HostTypes, EngineTypes, NEW k \in Caller, call[k].conn \in Conn, Receives(k),
           UNCHANGED <<inbox, host_active, cancelled, worker, accepted>>
    PROVE  Taken(call[k].conn) /\ Received(k) = outbox[call[k].conn][1] /\ Waiting(k)
BY ReceiveEffect DEF Taken, Receives

Dispatches(k) ==
    /\ call[k].at = "dispatch" /\ next_id' = next_id + 1
    /\ UNCHANGED <<started, stop_epoch, stopping, calls, queries, cancel>>
    /\ \/ /\ Leaves(k) /\ Shrink
          /\ UNCHANGED <<connection, retiring, alive, terminated, active>>
          /\ outcome' = [outcome EXCEPT ![next_id] = "undispatched"]
       \/ /\ call[k].epoch = stop_epoch /\ CanSend(call[k].conn)
          /\ Written(call[k].conn, Frame("synthesize", next_id))
          /\ active' = next_id
          /\ CallTo(k, "collect", call[k].conn, next_id, call[k].result)
          /\ UNCHANGED <<connection, retiring, alive, terminated, lifecycle, outcome>>
       \/ /\ Leaves(k) /\ Invalidated(call[k].conn) /\ active' = active
          /\ outcome' = [outcome EXCEPT ![next_id] = "lost"]

LEMMA DispatchStep ==
    ASSUME HostTypes, EngineTypes, NEW k \in Caller, NEW confirmed \in BOOLEAN,
           call[k].conn \in Conn, next_id \in Id, Dispatch(k, confirmed)
    PROVE  Dispatches(k)
<1>1. /\ call[k].at = "dispatch" /\ next_id' = next_id + 1 /\ accepted' = accepted
      /\ UNCHANGED <<started, stop_epoch, stopping, calls, queries, cancel>>
  BY DEF Dispatch
<1>2. Return(k) => Leaves(k)
  BY ReturnEffect DEF Leaves
<1>3. ASSUME Untouched, UNCHANGED <<inbox, active, connection, retiring>>
      PROVE  Shrink /\ UNCHANGED <<connection, retiring, alive, terminated, active>>
  <2>1. UNCHANGED pipes
    BY <1>1, <1>3 DEF Untouched, pipes
  <2> QED BY <1>3, <2>1, SamePipes DEF Untouched
<1>4. ASSUME Write(call[k].conn, Frame("synthesize", next_id)), Untouched
      PROVE  /\ Written(call[k].conn, Frame("synthesize", next_id))
             /\ UNCHANGED <<alive, terminated>>
  <2>1. Frame("synthesize", next_id) \in InFrame
    BY FrameTypes
  <2>2. UNCHANGED <<outbox, host_active, cancelled, worker, accepted>>
    BY <1>1, <1>4 DEF Untouched
  <2> QED BY <1>4, <2>1, <2>2, WrittenEffect DEF Untouched
<1>5. ASSUME call' = [call EXCEPT ![k].at = "collect", ![k].id = next_id]
      PROVE  CallTo(k, "collect", call[k].conn, next_id, call[k].result)
  BY <1>5, SentEffect
<1>6. Invalidate(call[k].conn, confirmed) => Invalidated(call[k].conn)
  BY <1>1, InvalidatedEffect
<1> QED BY <1>1, <1>2, <1>3, <1>4, <1>5, <1>6 DEF Dispatch, Overtaken, Dispatches

\* The answer is lost; what is in the pipes stays there.
Loses(k) ==
    /\ Waiting(k) /\ Shrink
    /\ CallTo(k, "invalidate", call[k].conn, call[k].id, "lost")
    /\ UNCHANGED <<processVars, lifecycle, numberVars, active, cancel, outcome>>

LEMMA LostStep ==
    ASSUME HostTypes, EngineTypes, NEW k \in Caller, ReceiveExited(k) \/ ReceiveTimeout(k)
    PROVE  Loses(k)
<1>1. Waiting(k) /\ Fails(k, "lost")
  BY DEF ReceiveExited, ReceiveTimeout
<1>2. /\ UNCHANGED pipes
      /\ UNCHANGED <<processVars, lifecycle, numberVars, active, cancel, outcome>>
  BY SMTT(60) DEF ReceiveExited, ReceiveTimeout, pipes, hostVars, processVars, numberVars, countVars
<1> QED BY <1>1, <1>2, SamePipes, FailsEffect DEF Result, Loses

TakesOther(k) ==
    LET f == outbox[call[k].conn][1] IN
    /\ Taken(call[k].conn) /\ Waiting(k) /\ f.id # call[k].id
    /\ UNCHANGED <<processVars, lifecycle, numberVars, active, outcome>>
    /\ CancelsAdvance
    /\ \/ /\ IsCancelAnswer(f) /\ call' = call
          /\ \A y \in Id : y # f.id => cancel'[y] = cancel[y]
       \/ /\ ~IsCancelAnswer(f) \/ ~cancel[f.id].retained
          /\ cancel' = cancel
          /\ CallTo(k, "invalidate", call[k].conn, call[k].id, "mismatch")

LEMMA ReceiveOtherStep ==
    ASSUME HostTypes, EngineTypes, NEW k \in Caller, call[k].conn \in Conn, ReceiveOther(k)
    PROVE  TakesOther(k)
<1> DEFINE f == outbox[call[k].conn][1]
<1>1. /\ Receives(k) /\ Received(k).id # call[k].id
      /\ UNCHANGED <<inbox, host_active, cancelled, worker, accepted>>
      /\ UNCHANGED <<processVars, lifecycle, numberVars, active, outcome>>
  BY DEF ReceiveOther, processVars, numberVars, countVars
<1>2. Taken(call[k].conn) /\ Received(k) = f /\ Waiting(k) /\ f \in OutFrame
  BY <1>1, TakenEffect DEF Taken
<1>3. f.id \in Id
  BY <1>2, FrameTypes
<1>4. ASSUME AnswersCancel(f), ConsumeCancelResponse(f.id)
      PROVE  /\ IsCancelAnswer(f) /\ CancelsAdvance
             /\ \A y \in Id : y # f.id => cancel'[y] = cancel[y]
  BY <1>3, <1>4, ConsumeEffect DEF AnswersCancel, IsCancelAnswer
<1>5. ASSUME ~AnswersCancel(f) PROVE ~IsCancelAnswer(f) \/ ~cancel[f.id].retained
  BY <1>5 DEF AnswersCancel, IsCancelAnswer
<1>6. Fails(k, "mismatch") => CallTo(k, "invalidate", call[k].conn, call[k].id, "mismatch")
  BY FailsEffect DEF Result
<1> QED BY <1>1, <1>2, <1>4, <1>5, <1>6, SameCancels DEF ReceiveOther, TakesOther

TakesAudio(k) ==
    LET f == outbox[call[k].conn][1] IN
    /\ Taken(call[k].conn) /\ Waiting(k) /\ f.id = call[k].id /\ f.kind = "audio"
    /\ UNCHANGED <<processVars, lifecycle, numberVars, active, cancel, outcome>>
    /\ \/ call' = call
       \/ CallTo(k, "invalidate", call[k].conn, call[k].id, "lost")
       \/ CallTo(k, call[k].at, call[k].conn, call[k].id, call[k].result)

LEMMA ReceiveAudioStep ==
    ASSUME HostTypes, EngineTypes, NEW k \in Caller, call[k].conn \in Conn, ReceiveAudio(k)
    PROVE  TakesAudio(k)
<1>1. /\ Receives(k) /\ Received(k).id = call[k].id /\ Received(k).kind = "audio"
      /\ UNCHANGED <<inbox, host_active, cancelled, worker, accepted>>
      /\ UNCHANGED <<processVars, lifecycle, numberVars, active, cancel, outcome>>
  BY DEF ReceiveAudio, processVars, numberVars, countVars
<1>2. Taken(call[k].conn) /\ Received(k) = outbox[call[k].conn][1] /\ Waiting(k)
  BY <1>1, TakenEffect
<1>3. Fails(k, "lost") => CallTo(k, "invalidate", call[k].conn, call[k].id, "lost")
  BY FailsEffect DEF Result
<1>4. call' = [call EXCEPT ![k].draining = TRUE] =>
        CallTo(k, call[k].at, call[k].conn, call[k].id, call[k].result)
  BY DrainEffect
<1> QED BY <1>1, <1>2, <1>3, <1>4 DEF ReceiveAudio, TakesAudio

TakesTerminal(k) ==
    LET f == outbox[call[k].conn][1] IN
    /\ Taken(call[k].conn) /\ Waiting(k) /\ f.id = call[k].id
    /\ f.kind \in Terminal \cup {"busy"}
    /\ UNCHANGED <<processVars, lifecycle, numberVars, active, outcome>>
    /\ CancelsAdvance /\ \A x \in Id : StaysKnown(x)
    /\ \E at \in {"invalidate", "drop"}, result \in {f.kind, "cancelled"} :
          CallTo(k, at, call[k].conn, call[k].id, result)

LEMMA ReceiveTerminalStep ==
    ASSUME HostTypes, EngineTypes, NEW k \in Caller, call[k].conn \in Conn,
           ReceiveTerminal(k)
    PROVE  TakesTerminal(k)
<1> DEFINE f == outbox[call[k].conn][1]
           at == IF f.kind = "failed" THEN "invalidate" ELSE "drop"
           result == IF f.kind = "completed" /\ call[k].draining THEN "cancelled" ELSE f.kind
<1>1. /\ Receives(k) /\ Received(k).id = call[k].id
      /\ Received(k).kind \in Terminal \cup {"busy"} /\ MarkTargetTerminal(call[k].id)
      /\ UNCHANGED <<inbox, host_active, cancelled, worker, accepted>>
      /\ UNCHANGED <<processVars, lifecycle, numberVars, active, outcome>>
  BY DEF ReceiveTerminal, processVars, numberVars, countVars
<1>2. Taken(call[k].conn) /\ Received(k) = f /\ Waiting(k)
  BY <1>1, TakenEffect
<1>3. call' = [call EXCEPT ![k].at = at, ![k].result = result]
  BY <1>2 DEF ReceiveTerminal
<1>4. /\ at \in Place /\ at \in {"invalidate", "drop"}
      /\ result \in Result /\ result \in {f.kind, "cancelled"}
  BY <1>1, <1>2 DEF Place, Result, Terminal
<1> HIDE DEF at, result
<1>5. CallTo(k, at, call[k].conn, call[k].id, result)
  BY <1>3, <1>4, ResultEffect
<1>6. CancelsAdvance /\ \A x \in Id : StaysKnown(x)
  BY <1>1, MarkEffect
<1> QED BY <1>1, <1>2, <1>4, <1>5, <1>6 DEF TakesTerminal

TakesAnswer(k) ==
    LET f == outbox[call[k].conn][1] IN
    /\ Taken(call[k].conn) /\ Waiting(k) /\ f.id = call[k].id
    /\ f.kind = "answer" /\ Leaves(k)
    /\ UNCHANGED <<processVars, numberVars, active, cancel>>
    /\ outcome' = [outcome EXCEPT ![call[k].id] = "answered"]

LEMMA ReceiveAnswerStep ==
    ASSUME HostTypes, EngineTypes, NEW k \in Caller, call[k].conn \in Conn,
           ReceiveAnswer(k)
    PROVE  TakesAnswer(k)
<1>1. /\ Receives(k) /\ Received(k).id = call[k].id /\ Received(k).kind = "answer"
      /\ Return(k) /\ outcome' = [outcome EXCEPT ![call[k].id] = "answered"]
      /\ UNCHANGED <<inbox, host_active, cancelled, worker, accepted>>
      /\ UNCHANGED <<processVars, numberVars, active, cancel>>
  BY DEF ReceiveAnswer, processVars, numberVars, countVars
<1>2. Taken(call[k].conn) /\ Received(k) = outbox[call[k].conn][1] /\ Waiting(k)
  BY <1>1, TakenEffect
<1> QED BY <1>1, <1>2, ReturnEffect DEF Leaves, TakesAnswer

Drops(k) ==
    /\ call[k].at = "drop" /\ Leaves(k) /\ Shrink
    /\ UNCHANGED <<processVars, numberVars>>
    /\ active' \in {0, active}
    /\ CancelsAdvance /\ \A x \in Id : StaysKnown(x)
    /\ outcome' = [outcome EXCEPT ![call[k].id] = call[k].result]

LEMMA DropGuardStep ==
    ASSUME HostTypes, EngineTypes, NEW k \in Caller, DropGuard(k)
    PROVE  Drops(k)
<1>1. /\ call[k].at = "drop" /\ Return(k) /\ MarkTargetTerminal(call[k].id)
      /\ active' \in {0, active} /\ UNCHANGED pipes
      /\ outcome' = [outcome EXCEPT ![call[k].id] = call[k].result]
      /\ UNCHANGED <<processVars, numberVars>>
  BY DEF DropGuard, hostVars, pipes, processVars, numberVars, countVars
<1> QED BY <1>1, SamePipes, ReturnEffect, MarkEffect DEF Leaves, Drops

Queries(k) ==
    /\ call[k].at = "idle" /\ lifecycle = NoCaller /\ lifecycle' = k
    /\ connection \in Conn /\ queries < MaxQueries /\ queries' = queries + 1
    /\ next_id' = next_id + 1
    /\ UNCHANGED <<processVars, stop_epoch, stopping, calls, active, cancel, outcome>>
    /\ call' \in [Caller -> CallRecord]
    /\ \A j \in Caller : j # k => call'[j] = call[j]
    /\ call'[k].op = "query" /\ call'[k].conn = connection /\ call'[k].id = next_id
    /\ \/ /\ CanSend(connection) /\ Written(connection, Frame("query", next_id))
          /\ call'[k].at = "answer" /\ call'[k].result = "none"
       \/ /\ Shrink /\ call'[k].at = "invalidate" /\ call'[k].result = "lost"

LEMMA QueryStep ==
    ASSUME HostTypes, EngineTypes, NEW k \in Caller, next_id \in Id, Query(k)
    PROVE  Queries(k)
<1> DEFINE asked == [NoCall EXCEPT !.op = "query", !.conn = connection, !.id = next_id]
           sent == [asked EXCEPT !.at = "answer"]
           lost == [asked EXCEPT !.at = "invalidate", !.result = "lost"]
<1>1. /\ call[k].at = "idle" /\ lifecycle = NoCaller /\ lifecycle' = k
      /\ connection # 0 /\ queries < MaxQueries /\ queries' = queries + 1
      /\ next_id' = next_id + 1
      /\ UNCHANGED <<processVars, stop_epoch, stopping, calls, active, cancel, outcome>>
      /\ UNCHANGED <<outbox, host_active, cancelled, worker, accepted>>
  BY DEF Query, processVars
<1>2. connection \in Conn
  BY <1>1, HostAssumption DEF EngineTypes, Conn
<1>3. /\ sent \in CallRecord /\ sent.at = "answer" /\ sent.op = "query"
      /\ sent.conn = connection /\ sent.id = next_id /\ sent.result = "none"
  BY <1>2 DEF NoCall, CallRecord, Place, Result, Operation
<1>4. /\ lost \in CallRecord /\ lost.at = "invalidate" /\ lost.op = "query"
      /\ lost.conn = connection /\ lost.id = next_id /\ lost.result = "lost"
  BY <1>2 DEF NoCall, CallRecord, Place, Result, Operation
<1>5. \/ /\ CanSend(connection) /\ Write(connection, Frame("query", next_id))
         /\ call' = [call EXCEPT ![k] = sent]
      \/ call' = [call EXCEPT ![k] = lost] /\ inbox' = inbox
  BY DEF Query
<1> HIDE DEF sent, lost
<1>6. CASE CanSend(connection) /\ Write(connection, Frame("query", next_id))
           /\ call' = [call EXCEPT ![k] = sent]
  <2>1. Frame("query", next_id) \in InFrame
    BY FrameTypes
  <2>2. Written(connection, Frame("query", next_id))
    BY <1>1, <1>2, <1>6, <2>1, WrittenEffect
  <2>3. /\ call' \in [Caller -> CallRecord] /\ call'[k] = sent
        /\ \A j \in Caller : j # k => call'[j] = call[j]
    BY <1>3, <1>6 DEF EngineTypes
  <2> QED BY <1>1, <1>2, <1>3, <1>6, <2>2, <2>3 DEF Queries
<1>7. CASE call' = [call EXCEPT ![k] = lost] /\ inbox' = inbox
  <2>1. UNCHANGED pipes
    BY <1>1, <1>7 DEF pipes
  <2>3. /\ call' \in [Caller -> CallRecord] /\ call'[k] = lost
        /\ \A j \in Caller : j # k => call'[j] = call[j]
    BY <1>4, <1>7 DEF EngineTypes
  <2> QED BY <1>1, <1>2, <1>4, <2>1, <2>3, SamePipes DEF Queries
<1> QED BY <1>5, <1>6, <1>7

\* What a stop does at dispatch: nothing, a cancel sent to the helper, or the end of
\* a connection that cannot be written to.
StopSends ==
    /\ stopping > 0 /\ stopping' = stopping - 1
    /\ UNCHANGED <<started, lifecycle, stop_epoch, calls, queries, active, call,
                   outcome>>
    /\ \/ /\ Shrink
          /\ active = 0 \/ connection = 0 \/ EntryOf(active) # {}
          /\ UNCHANGED <<connection, retiring, alive, terminated, next_id, cancel>>
       \/ /\ active # 0 /\ connection \in Conn /\ next_id' = next_id + 1
          /\ \/ LET f == [kind |-> "cancel", id |-> next_id, target |-> active] IN
                /\ CanSend(connection) /\ Written(connection, f)
                /\ cancel' = [cancel EXCEPT ![next_id] =
                     [target |-> active, conn |-> connection, state |-> "active",
                      consumed |-> FALSE, retained |-> TRUE, watchdog |-> "sleeping"]]
                /\ UNCHANGED <<connection, retiring, alive, terminated>>
             \/ Invalidated(connection) /\ cancel' = cancel /\ connection # 0

LEMMA StopDispatchesStep ==
    ASSUME HostTypes, EngineTypes, NEW confirmed \in BOOLEAN,
           stopping > 0 /\ active # 0 => next_id \in Id, StopDispatches(confirmed)
    PROVE  StopSends
<1> DEFINE f == [kind |-> "cancel", id |-> next_id, target |-> active]
<1>1. /\ stopping > 0 /\ stopping' = stopping - 1 /\ accepted' = accepted
      /\ UNCHANGED <<started, lifecycle, stop_epoch, calls, queries, active, call, outcome>>
  BY DEF StopDispatches
<1>2. ASSUME Untouched, UNCHANGED <<inbox, connection, retiring>>
      PROVE  Shrink /\ UNCHANGED <<connection, retiring, alive, terminated>>
  <2>1. UNCHANGED pipes
    BY <1>1, <1>2 DEF Untouched, pipes
  <2> QED BY <1>2, <2>1, SamePipes DEF Untouched
<1>3. connection # 0 => connection \in Conn
  BY HostAssumption DEF EngineTypes, Conn
<1>4. ASSUME active # 0, connection \in Conn, Write(connection, f), Untouched
      PROVE  Written(connection, f) /\ UNCHANGED <<alive, terminated>>
  <2>1. f \in InFrame
    BY <1>1, <1>4, FrameTypes DEF EngineTypes
  <2>2. UNCHANGED <<outbox, host_active, cancelled, worker, accepted>>
    BY <1>1, <1>4 DEF Untouched
  <2> HIDE DEF f
  <2> QED BY <1>4, <2>1, <2>2, WrittenEffect DEF Untouched
<1>5. ASSUME connection \in Conn, Invalidate(connection, confirmed)
      PROVE  Invalidated(connection)
  BY <1>1, <1>5, InvalidatedEffect
<1>6. CASE /\ active = 0 \/ connection = 0 \/ EntryOf(active) # {}
           /\ Untouched /\ UNCHANGED <<inbox, connection, retiring, next_id, cancel>>
  BY <1>1, <1>2, <1>6 DEF StopSends
<1>7. CASE /\ active # 0 /\ connection # 0 /\ next_id' = next_id + 1
           /\ CanSend(connection) /\ Write(connection, f) /\ Untouched
           /\ cancel' = [cancel EXCEPT ![next_id] =
                 [target |-> active, conn |-> connection, state |-> "active",
                  consumed |-> FALSE, retained |-> TRUE, watchdog |-> "sleeping"]]
           /\ UNCHANGED <<connection, retiring>>
  BY <1>1, <1>3, <1>4, <1>7 DEF StopSends
<1>8. CASE /\ active # 0 /\ connection # 0 /\ next_id' = next_id + 1
           /\ Invalidate(connection, confirmed) /\ cancel' = cancel
  BY <1>1, <1>3, <1>5, <1>8 DEF StopSends
<1> QED BY <1>6, <1>7, <1>8 DEF StopDispatches

Fires(x) ==
    /\ CancelsAdvance /\ Shrink
    /\ \A y \in Id : StaysKnown(y)
    /\ UNCHANGED <<processVars, lifecycle, numberVars, active, call, outcome>>

LEMMA WatchdogStepEffect ==
    ASSUME HostTypes, EngineTypes, NEW x \in Id, Watchdog(x)
    PROVE  Fires(x)
<1>1. /\ cancel[x].watchdog = "sleeping" /\ UNCHANGED pipes
      /\ UNCHANGED <<processVars, lifecycle, numberVars, active, call, outcome>>
  BY DEF Watchdog, hostVars, pipes, processVars, numberVars, countVars
<1>2. CASE cancel' = [cancel EXCEPT ![x].state = "retiring", ![x].watchdog = "killing"]
  BY <1>1, <1>2, WatchdogEffect, SamePipes DEF Fires
<1>3. CASE cancel' = [cancel EXCEPT ![x].watchdog = "done"]
  <2>1. cancel[x] \in CancelRecord
    BY DEF EngineTypes
  <2>2. [cancel[x] EXCEPT !.watchdog = "done"]
          = [[cancel[x] EXCEPT !.state = cancel[x].state] EXCEPT !.watchdog = "done"]
    BY <2>1 DEF CancelRecord
  <2>3. /\ cancel[x].state \in {"active", "none", "terminal", "retiring"}
        /\ cancel' = [cancel EXCEPT ![x].state = cancel[x].state, ![x].watchdog = "done"]
    BY <1>3, <2>1, <2>2 DEF EngineTypes, CancelRecord
  <2> QED BY <1>1, <2>3, WatchdogEffect, SamePipes DEF Fires
<1> QED BY <1>2, <1>3 DEF Watchdog

----------------------------------------------------------
(* Every step of the client and its helpers is one of those above *)

\* A number is left for every request to be sent.
LEMMA NumberLeft ==
    ASSUME EngineTypes, IdsLast
    PROVE  /\ \A k \in Caller : call[k].at = "dispatch" => next_id \in Id
           /\ queries < MaxQueries => next_id \in Id
           /\ stopping > 0 => next_id \in Id
<1> DEFINE n == Cardinality(Undispatched)
<1>1. n \in Nat
  BY FS_CardinalityType DEF IdsLast
<1>2. /\ next_id + n + stopping <= calls + queries + stop_epoch + 1
      /\ calls <= MaxCalls /\ queries <= MaxQueries /\ stop_epoch <= MaxStops
      /\ next_id \in Nat \ {0} /\ stopping \in Nat /\ calls \in Nat /\ queries \in Nat
      /\ stop_epoch \in Nat
  BY DEF IdsLast, EngineTypes
<1>3. MaxCalls \in Nat /\ MaxQueries \in Nat /\ MaxStops \in Nat
  BY EngineAssumption
<1>4. ASSUME NEW k \in Caller, call[k].at = "dispatch" PROVE n # 0
  <2>1. k \in Undispatched
    BY <1>4 DEF Undispatched
  <2> QED BY <2>1, FS_EmptySet DEF IdsLast
<1> HIDE DEF n
<1>5. n # 0 => next_id <= MaxCalls + MaxQueries + MaxStops
  BY <1>1, <1>2, <1>3
<1>6. queries < MaxQueries => next_id <= MaxCalls + MaxQueries + MaxStops
  BY <1>1, <1>2, <1>3
<1>7. stopping > 0 => next_id <= MaxCalls + MaxQueries + MaxStops
  BY <1>1, <1>2, <1>3
<1>8. next_id <= MaxCalls + MaxQueries + MaxStops => next_id \in Id
  BY <1>2, <1>3 DEF Id
<1> QED BY <1>4, <1>5, <1>6, <1>7, <1>8

\* The connection of a call under way is one that was made.
LEMMA CallsConn ==
    ASSUME EngineTypes, Standing, NEW k \in Caller,
           call[k].at \in {"dispatch", "collect", "answer", "invalidate"}
    PROVE  call[k].conn \in Conn /\ call[k].conn # 0
BY HostAssumption DEF EngineTypes, Standing, Stands, Conn

StopBegan ==
    /\ stop_epoch < MaxStops /\ stop_epoch' = stop_epoch + 1 /\ stopping' = stopping + 1
    /\ Shrink
    /\ UNCHANGED <<processVars, lifecycle, next_id, calls, queries, active, call, cancel,
                   outcome>>

Crashes ==
    /\ Shrink /\ alive' \subseteq alive
    /\ UNCHANGED <<connection, retiring, started, terminated, lifecycle, numberVars, active,
                   call, cancel, outcome>>

\* Neither the client nor the state of any process is touched.
Same == UNCHANGED <<processVars, lifecycle, numberVars, active, call, cancel, outcome>>

HostMoves(c) == HostStep(c) /\ Same

CallMoves(k) ==
    \/ Begins(k) \/ Enters(k) \/ Connects(k) \/ Publishes(k) \/ Retires(k) \/ GivesUp(k)
    \/ Dispatches(k) \/ Loses(k) \/ TakesOther(k) \/ TakesAudio(k) \/ TakesTerminal(k)
    \/ TakesAnswer(k) \/ Invalidates(k) \/ Drops(k) \/ Queries(k)

Moved ==
    \/ \E c \in Conn : HostMoves(c)
    \/ \E k \in Caller : CallMoves(k)
    \/ StopBegan \/ StopSends \/ Crashes
    \/ \E x \in Id : Fires(x) \/ Kills(x)
    \/ Shrink /\ Same

LEMMA EveryStep ==
    ASSUME IInv, [Next]_vars
    PROVE  Moved
<1> USE DEF IInv
<1>1. ASSUME NEW c \in Conn, HostStep(c), UNCHANGED <<engineVars, countVars>>
      PROVE  HostMoves(c)
  <2>1. UNCHANGED <<lifecycle, numberVars, active, call, cancel, outcome>>
    BY <1>1 DEF engineVars, countVars, numberVars
  <2>2. alive' = alive
    BY <1>1 DEF HostStep, HandleSynthesis, HandleCancel, HandleParameters, StreamAudio,
                NativeReturns, EmitResult, FinishSynthesis
  <2> QED BY <1>1, <2>1, <2>2 DEF HostMoves, Same, processVars, engineVars
<1>2. ASSUME NEW k \in Caller, NEW op \in Operation, Begin(k, op) PROVE CallMoves(k)
  BY <1>2, BeginStep DEF CallMoves
<1>3. ASSUME NEW k \in Caller, Enter(k) PROVE CallMoves(k)
  BY <1>3, EnterStep DEF CallMoves
<1>4. ASSUME NEW k \in Caller, ConnectHelper(k) PROVE CallMoves(k)
  BY <1>4, ConnectStep DEF CallMoves
<1>5. ASSUME NEW k \in Caller, Publish(k) PROVE CallMoves(k)
  BY <1>5, PublishStep DEF CallMoves
<1>6. ASSUME NEW k \in Caller, NEW confirmed \in BOOLEAN, Retire(k, confirmed)
      PROVE CallMoves(k)
  BY <1>6, RetireStep DEF CallMoves
<1>7. ASSUME NEW k \in Caller, NEW confirmed \in BOOLEAN, NegotiationFails(k, confirmed)
      PROVE CallMoves(k)
  <2>1. retiring # 0
    BY <1>7 DEF NegotiationFails, Standing, Stands
  <2> QED BY <1>7, <2>1, NegotiationFailsStep DEF CallMoves
<1>8. ASSUME NEW k \in Caller, NEW confirmed \in BOOLEAN, Dispatch(k, confirmed)
      PROVE CallMoves(k)
  <2>1. call[k].at = "dispatch"
    BY <1>8 DEF Dispatch
  <2>2. next_id \in Id /\ call[k].conn \in Conn
    BY <2>1, NumberLeft, CallsConn
  <2>3. Dispatches(k)
    BY <1>8, <2>2, DispatchStep
  <2> QED BY <2>3 DEF CallMoves
<1>9. ASSUME NEW k \in Caller, ReceiveExited(k) \/ ReceiveTimeout(k) PROVE CallMoves(k)
  BY <1>9, LostStep DEF CallMoves
<1>10. ASSUME NEW k \in Caller, Receives(k) PROVE call[k].conn \in Conn
  BY <1>10, CallsConn DEF Receives, Waiting
<1>11. ASSUME NEW k \in Caller, ReceiveOther(k) PROVE CallMoves(k)
  BY <1>11, <1>10, ReceiveOtherStep DEF CallMoves, ReceiveOther
<1>12. ASSUME NEW k \in Caller, ReceiveAudio(k) PROVE CallMoves(k)
  BY <1>12, <1>10, ReceiveAudioStep DEF CallMoves, ReceiveAudio
<1>13. ASSUME NEW k \in Caller, ReceiveTerminal(k) PROVE CallMoves(k)
  BY <1>13, <1>10, ReceiveTerminalStep DEF CallMoves, ReceiveTerminal
<1>14. ASSUME NEW k \in Caller, ReceiveAnswer(k) PROVE CallMoves(k)
  BY <1>14, <1>10, ReceiveAnswerStep DEF CallMoves, ReceiveAnswer
<1>15. ASSUME NEW k \in Caller, NEW confirmed \in BOOLEAN, SynthesisError(k, confirmed)
       PROVE CallMoves(k)
  <2>1. call[k].conn \in Conn
    BY <1>15, CallsConn DEF SynthesisError
  <2> QED BY <1>15, <2>1, SynthesisErrorStep DEF CallMoves
<1>16. ASSUME NEW k \in Caller, DropGuard(k) PROVE CallMoves(k)
  BY <1>16, DropGuardStep DEF CallMoves
<1>17. ASSUME NEW k \in Caller, Query(k) PROVE CallMoves(k)
  <2>1. next_id \in Id
    BY <1>17, NumberLeft DEF Query
  <2> QED BY <1>17, <2>1, QueryStep DEF CallMoves
<1>18. ASSUME StopBegins PROVE StopBegan
  <2>1. UNCHANGED pipes
    BY <1>18 DEF StopBegins, hostVars, pipes
  <2> QED BY <1>18, <2>1, SamePipes DEF StopBegins, StopBegan, processVars, hostVars, countVars
<1>19. ASSUME NEW confirmed \in BOOLEAN, StopDispatches(confirmed) PROVE StopSends
  <2>1. stopping > 0 => next_id \in Id
    BY NumberLeft
  <2> QED BY <1>19, <2>1, StopDispatchesStep
<1>20. ASSUME NEW x \in Id, Watchdog(x) PROVE Fires(x)
  BY <1>20, WatchdogStepEffect
<1>21. ASSUME NEW x \in Id, NEW confirmed \in BOOLEAN, WatchdogKills(x, confirmed)
       PROVE Kills(x)
  BY <1>21, WatchdogKillsStep
<1>22. ASSUME NEW c \in Conn, HelperCrashes(c) PROVE Crashes
  <2>1. Shrink /\ alive' = alive \ {c} /\ UNCHANGED <<engineVars, calls, queries>>
    BY <1>22, CrashEffect
  <2> QED BY <2>1 DEF Crashes, engineVars, numberVars
<1>23. ASSUME UNCHANGED vars PROVE Shrink /\ Same
  <2>1. UNCHANGED pipes
    BY <1>23 DEF vars, hostVars, pipes
  <2> QED BY <1>23, <2>1, SamePipes
          DEF vars, hostVars, engineVars, countVars, Same, processVars, numberVars
<1> QED
  <2>1. ASSUME NEW k \in Caller, CallStep(k) \/ Query(k) \/ \E op \in Operation : Begin(k, op)
        PROVE  CallMoves(k)
    BY <2>1, <1>2, <1>3, <1>4, <1>5, <1>6, <1>7, <1>8, <1>9, <1>11, <1>12, <1>13, <1>14,
       <1>15, <1>16, <1>17 DEF CallStep
  <2>2. ASSUME NEW x \in Id, WatchdogStep(x) PROVE Fires(x) \/ Kills(x)
    BY <2>2, <1>20, <1>21 DEF WatchdogStep
  <2>3. HostNext => \E c \in Conn : HostMoves(c)
    BY <1>1 DEF HostNext
  <2>4. StopStep => StopSends
    BY <1>19 DEF StopStep
  <2> QED BY <2>1, <2>2, <2>3, <2>4, <1>18, <1>22, <1>23 DEF Next, Moved

----------------------------------------------------------
(* What a helper does, by what becomes of its pipes *)

WorkState == {"native", "streaming", "emitting"} \cup Terminal

\* A frame of this kind is read from the pipe to c.
Reading(c, kind) ==
    /\ inbox[c] \in Seq(InFrame) /\ inbox[c] # <<>>
    /\ inbox[c][1] \in InFrame /\ inbox[c][1].kind = kind

\* A synthesis is admitted.
Admits(c) ==
    /\ Reading(c, "synthesize") /\ host_active[c] = 0 /\ accepted' = accepted
    /\ \E w \in WorkState :
          Host(c, Tail(inbox[c]), outbox[c], inbox[c][1].id, FALSE, w)

\* A request is answered at once: a synthesis not admitted, or a query.
Answers(c) ==
    \E request \in {"synthesize", "query"}, kind \in {"refused", "busy", "answer"} :
        /\ Reading(c, request) /\ accepted' = accepted
        /\ kind = "busy" => host_active[c] # 0
        /\ Host(c, Tail(inbox[c]), Append(outbox[c], Frame(kind, inbox[c][1].id)),
                host_active[c], cancelled[c], worker[c])

\* A cancel of the active synthesis is acknowledged, another is refused.
Cancels(c) ==
    /\ Reading(c, "cancel") /\ inbox[c][1].target \in Id
    /\ host_active[c] = inbox[c][1].target
    /\ accepted' = accepted \cup {inbox[c][1].target}
    /\ Host(c, Tail(inbox[c]), Append(outbox[c], Frame("cancel_accepted", inbox[c][1].id)),
            host_active[c], TRUE, worker[c])

Declines(c) ==
    /\ Reading(c, "cancel") /\ accepted' = accepted
    /\ Host(c, Tail(inbox[c]), Append(outbox[c], Frame("cancel_refused", inbox[c][1].id)),
            host_active[c], cancelled[c], worker[c])

\* The synthesis goes on, with or without audio.
Works(c) ==
    /\ accepted' = accepted /\ host_active[c] \in Id
    /\ \E w \in WorkState, o \in {outbox[c], Append(outbox[c], Frame("audio", host_active[c]))} :
          Host(c, inbox[c], o, host_active[c], cancelled[c], w)

\* The synthesis ends; one that was cancelled does not complete.
Finishes(c) ==
    /\ accepted' = accepted /\ host_active[c] \in Id
    /\ \E kind \in Terminal :
          /\ kind = "completed" => ~cancelled[c]
          /\ Host(c, inbox[c], Append(outbox[c], Frame(kind, host_active[c])), 0,
                  cancelled[c], "idle")

HostDoes(c) ==
    Admits(c) \/ Answers(c) \/ Cancels(c) \/ Declines(c) \/ Works(c) \/ Finishes(c)

LEMMA EveryHostStep ==
    ASSUME HostTypes, NEW c \in Conn, HostStep(c)
    PROVE  HostDoes(c)
<1>0. ASSUME NEW kind, Reads(c, kind) PROVE Reading(c, kind)
  BY <1>0, ReadsEffect DEF Reading
<1>1. CASE HandleSynthesis(c)
  <2>1. Reading(c, "synthesize")
    BY <1>0, <1>1 DEF HandleSynthesis
  <2>2. ASSUME NEW kind \in {"refused", "busy"}, kind = "busy" => host_active[c] # 0,
               accepted' = accepted,
               Host(c, Tail(inbox[c]), Append(outbox[c], Frame(kind, inbox[c][1].id)),
                    host_active[c], cancelled[c], worker[c])
        PROVE  Answers(c)
    BY <2>1, <2>2 DEF Answers
  <2>3. ASSUME accepted' = accepted, host_active[c] = 0,
               Host(c, Tail(inbox[c]), outbox[c], inbox[c][1].id, FALSE, "native")
        PROVE  Admits(c)
    BY <2>1, <2>3 DEF Admits, WorkState
  <2>4. /\ accepted' = accepted
        /\ \/ \E kind \in {"refused", "busy"} :
                 /\ kind = "busy" => host_active[c] # 0
                 /\ Host(c, Tail(inbox[c]), Append(outbox[c], Frame(kind, inbox[c][1].id)),
                         host_active[c], cancelled[c], worker[c])
           \/ /\ host_active[c] = 0
              /\ Host(c, Tail(inbox[c]), outbox[c], inbox[c][1].id, FALSE, "native")
    BY <1>1, HandleSynthesisEffect
  <2> QED BY <2>2, <2>3, <2>4 DEF HostDoes
<1>2. CASE HandleCancel(c)
  <2>1. Reading(c, "cancel")
    BY <1>0, <1>2 DEF HandleCancel
  <2> QED BY <1>2, <2>1, HandleCancelEffect DEF HostDoes, Cancels, Declines
<1>3. CASE HandleParameters(c)
  <2>1. Reading(c, "query")
    BY <1>0, <1>3 DEF HandleParameters
  <2>2. Answers(c)
    BY <1>3, <2>1, HandleParametersEffect DEF Answers
  <2> QED BY <2>2 DEF HostDoes
<1> DEFINE audio == Append(outbox[c], Frame("audio", host_active[c]))
<1>4. ASSUME accepted' = accepted, host_active[c] \in Id, NEW w \in WorkState,
             NEW o \in {outbox[c], audio},
             Host(c, inbox[c], o, host_active[c], cancelled[c], w)
      PROVE  HostDoes(c)
  BY <1>4 DEF HostDoes, Works, WorkState
<1>5. CASE StreamAudio(c)
  <2>1. /\ accepted' = accepted /\ host_active[c] \in Id
        /\ Host(c, inbox[c], audio, host_active[c], cancelled[c], "streaming")
    BY <1>5, StreamAudioEffect
  <2> HIDE DEF audio
  <2>2. "streaming" \in WorkState /\ "cancelled" \in WorkState /\ "completed" \in WorkState
    BY DEF WorkState, Terminal, NativeResult
  <2> QED BY <1>4, <2>1, <2>2
<1>6. ASSUME NEW result \in NativeResult, NativeReturns(c, result) PROVE HostDoes(c)
  <2>1. PICK w \in Terminal \cup {"emitting"} :
          Host(c, inbox[c], outbox[c], host_active[c], cancelled[c], w)
    BY <1>6, NativeReturnsEffect
  <2>2. w \in WorkState
    BY DEF WorkState
  <2> HIDE DEF audio
  <2>3. accepted' = accepted /\ host_active[c] \in Id
    BY <1>6, NativeReturnsEffect
  <2> QED BY <1>4, <2>1, <2>2, <2>3
<1>8. CASE EmitResult(c)
  <2>1. /\ accepted' = accepted /\ host_active[c] \in Id
        /\ \/ Host(c, inbox[c], outbox[c], host_active[c], cancelled[c], "cancelled")
           \/ Host(c, inbox[c], audio, host_active[c], cancelled[c], "completed")
    BY <1>8, EmitResultEffect
  <2> HIDE DEF audio
  <2>2. "streaming" \in WorkState /\ "cancelled" \in WorkState /\ "completed" \in WorkState
    BY DEF WorkState, Terminal, NativeResult
  <2> QED BY <1>4, <2>1, <2>2
<1>7. CASE FinishSynthesis(c)
  BY <1>7, FinishSynthesisEffect DEF HostDoes, Finishes
<1> QED BY <1>1, <1>2, <1>3, <1>5, <1>6, <1>7, <1>8 DEF HostStep

\* A stop sends a cancel with the next number to the published connection.
SendsCancel ==
    /\ stopping > 0 /\ active # 0 /\ CanSend(connection) /\ next_id \in Id
    /\ connection \in Conn
    /\ next_id' = next_id + 1
    /\ Written(connection, [kind |-> "cancel", id |-> next_id, target |-> active])
    /\ cancel' = [cancel EXCEPT ![next_id] =
         [target |-> active, conn |-> connection, state |-> "active",
          consumed |-> FALSE, retained |-> TRUE, watchdog |-> "sleeping"]]
    /\ UNCHANGED <<connection, retiring, alive, terminated, lifecycle, active, call, outcome>>

\* A request is the only one on its connection from the moment it is sent.
Sent(c, f) ==
    /\ Written(c, f) /\ c = connection /\ c \notin terminated
    /\ f.id = next_id /\ next_id' = next_id + 1
    /\ \/ f.kind = "cancel" /\ f.target = active /\ SendsCancel
       \/ /\ f.kind \in {"synthesize", "query"}
          /\ \A k \in Caller : ~Occupies(k, c)
          /\ \E k \in Caller : call'[k].at \in {"collect", "answer"} /\ call'[k].conn = c

\* What any step does to the pipes.
PipesMove ==
    \/ Shrink /\ next_id <= next_id'
    \/ \E c \in Conn, f \in InFrame : Sent(c, f)
    \/ \E c \in Conn : Taken(c) /\ next_id' = next_id
    \/ \E c \in Conn : HostDoes(c) /\ next_id' = next_id

LEMMA EveryPipeStep ==
    ASSUME IInv, Moved
    PROVE  PipesMove
<1> USE DEF IInv
<1>0. next_id \in Nat /\ next_id <= next_id /\ next_id <= next_id + 1
  BY DEF EngineTypes
<1>1. ASSUME NEW c \in Conn, HostMoves(c) PROVE PipesMove
  BY <1>1, EveryHostStep DEF HostMoves, Same, numberVars, PipesMove
<1>2. ASSUME NEW k \in Caller, CallMoves(k) PROVE PipesMove
  <2>1. CASE Begins(k) \/ Enters(k) \/ Connects(k) \/ Publishes(k) \/ Loses(k) \/ Drops(k)
    BY <1>0, <2>1 DEF Begins, Enters, Connects, Publishes, Loses, Drops, numberVars, PipesMove
  <2>2. CASE Retires(k) \/ GivesUp(k) \/ Invalidates(k)
    BY <1>0, <2>2 DEF Retires, GivesUp, Invalidates, Invalidated, Killed, numberVars, PipesMove
  <2>3. CASE Dispatches(k)
    <3>1. call[k].conn \in Conn /\ next_id \in Id /\ call[k].at = "dispatch"
      BY <2>3, CallsConn, NumberLeft DEF Dispatches
    <3>2. CASE Shrink \/ Invalidated(call[k].conn)
      BY <1>0, <2>3, <3>2 DEF Dispatches, Invalidated, Killed, PipesMove
    <3>3. CASE /\ CanSend(call[k].conn)
               /\ Written(call[k].conn, Frame("synthesize", next_id))
               /\ CallTo(k, "collect", call[k].conn, next_id, call[k].result)
      <4> DEFINE f == Frame("synthesize", next_id)
      <4>1. f \in InFrame /\ f.id = next_id /\ f.kind = "synthesize"
        BY <3>1, FrameTypes
      <4> HIDE DEF f
      <4>2. call[k].conn = connection /\ call[k].conn \notin terminated
        BY <3>1, <3>3 DEF CanSend, Standing, Stands
      <4>3. \A j \in Caller : ~Occupies(j, connection)
        BY <3>1 DEF Occupies, Serialised, Locked
      <4>4. call'[k].at = "collect" /\ call'[k].conn = connection
        BY <3>3, <4>2 DEF CallTo
      <4>5. Sent(connection, f)
        BY <2>3, <3>3, <4>1, <4>2, <4>3, <4>4 DEF Sent, Dispatches, f
      <4> QED BY <3>1, <4>1, <4>2, <4>5 DEF PipesMove
    <3> QED BY <2>3, <3>2, <3>3 DEF Dispatches
  <2>4. CASE Queries(k)
    <3>1. CASE Shrink
      BY <1>0, <2>4, <3>1 DEF Queries, PipesMove
    <3>2. CASE CanSend(connection) /\ Written(connection, Frame("query", next_id))
               /\ call'[k].at = "answer"
      <4> DEFINE f == Frame("query", next_id)
      <4>1. f \in InFrame /\ f.id = next_id /\ f.kind = "query"
        BY <2>4, NumberLeft, FrameTypes DEF Queries
      <4> HIDE DEF f
      <4>2. connection \in Conn /\ connection \notin terminated
        BY <2>4, <3>2 DEF CanSend, Queries
      <4>3. \A j \in Caller : ~Occupies(j, connection)
        BY <2>4, EngineAssumption DEF Occupies, Serialised, Locked, Queries
      <4>4. Sent(connection, f)
        BY <2>4, <3>2, <4>1, <4>2, <4>3 DEF Sent, Queries, f
      <4> QED BY <4>1, <4>2, <4>4 DEF PipesMove
    <3> QED BY <2>4, <3>1, <3>2 DEF Queries
  <2>5. CASE TakesOther(k) \/ TakesAudio(k) \/ TakesTerminal(k) \/ TakesAnswer(k)
    <3>1. Waiting(k) /\ Taken(call[k].conn) /\ next_id' = next_id
      BY <2>5 DEF TakesOther, TakesAudio, TakesTerminal, TakesAnswer, numberVars
    <3>2. call[k].conn \in Conn
      BY <3>1, CallsConn DEF Waiting
    <3> QED BY <3>1, <3>2 DEF PipesMove
  <2> QED BY <1>2, <2>1, <2>2, <2>3, <2>4, <2>5 DEF CallMoves
<1>3. CASE StopSends
  <2>1. next_id \in Id
    BY <1>3, NumberLeft DEF StopSends
  <2>2. CASE Shrink \/ Invalidated(connection)
    BY <1>0, <1>3, <2>2 DEF StopSends, Invalidated, Killed, PipesMove
  <2> DEFINE f == [kind |-> "cancel", id |-> next_id, target |-> active]
  <2>3. CASE /\ active # 0 /\ connection \in Conn /\ next_id' = next_id + 1
             /\ CanSend(connection) /\ Written(connection, f)
             /\ cancel' = [cancel EXCEPT ![next_id] =
                  [target |-> active, conn |-> connection, state |-> "active",
                   consumed |-> FALSE, retained |-> TRUE, watchdog |-> "sleeping"]]
             /\ UNCHANGED <<connection, retiring, alive, terminated>>
    <3>1. f \in InFrame
      BY <2>1, <2>3, FrameTypes DEF EngineTypes
    <3>2. SendsCancel
      BY <1>3, <2>1, <2>3 DEF SendsCancel, StopSends
    <3>3. Sent(connection, f)
      BY <2>3, <3>2 DEF Sent, CanSend
    <3> HIDE DEF f
    <3> QED BY <2>3, <3>1, <3>3 DEF PipesMove
  <2> QED BY <1>3, <2>2, <2>3 DEF StopSends
<1>4. CASE StopBegan \/ Crashes \/ (Shrink /\ Same)
  BY <1>0, <1>4 DEF StopBegan, Crashes, Same, numberVars, PipesMove
<1>5. ASSUME NEW x \in Id, Fires(x) \/ Kills(x) PROVE PipesMove
  BY <1>0, <1>5 DEF Fires, Kills, Killed, numberVars, PipesMove
<1> QED BY <1>1, <1>2, <1>3, <1>4, <1>5 DEF Moved

LEMMA HostTypesStep ==
    ASSUME IInv, Moved
    PROVE  HostTypes'
<1>1. PipesMove
  BY EveryPipeStep
<1>2. ASSUME NEW c \in Conn, HostDoes(c) PROVE HostTypes'
  BY <1>2 DEF HostDoes, Admits, Answers, Cancels, Declines, Works, Finishes, Host
<1> QED BY <1>1, <1>2 DEF PipesMove, Shrink, Sent, Written, Taken

----------------------------------------------------------
(* Processes *)

\* What any step does to the processes: one is made when none is left, the one made
\* is published, one is killed and perhaps still to be reaped, or one crashes.
ProcessesMove ==
    \/ UNCHANGED processVars
    \/ /\ connection = 0 /\ retiring = 0 /\ started < MaxConnections
       /\ connection' = 0 /\ retiring' = started + 1 /\ started' = started + 1
       /\ alive' = alive \cup {started + 1} /\ terminated' = terminated
    \/ /\ connection = 0 /\ retiring \in alive
       /\ connection' = retiring /\ retiring' = 0
       /\ UNCHANGED <<started, alive, terminated>>
    \/ \E c \in 1 .. started, r \in Nat :
          /\ Killed(c, r) /\ started' = started
          /\ \/ c = connection /\ connection' = 0 /\ retiring' = r
             \/ c = retiring /\ connection' = connection /\ retiring' = r
             \/ UNCHANGED <<connection, retiring>>
    \/ alive' \subseteq alive /\ UNCHANGED <<connection, retiring, started, terminated>>

\* An invalidated connection is killed, if it is still published.
LEMMA InvalidatedProcess ==
    ASSUME EngineTypes, NEW c \in Conn, Invalidated(c), started' = started
    PROVE  ProcessesMove
<1>1. CASE c = connection /\ connection' = 0 /\ Killed(c, retiring')
  <2>1. c \in 1 .. started /\ retiring' \in Nat
    BY <1>1 DEF EngineTypes, Conn, Killed
  <2> QED BY <1>1, <2>1 DEF ProcessesMove
<1>2. CASE c # connection /\ UNCHANGED <<connection, retiring, terminated, alive>>
  BY <1>2 DEF ProcessesMove, processVars
<1> QED BY <1>1, <1>2 DEF Invalidated

LEMMA EveryProcessStep ==
    ASSUME IInv, Moved
    PROVE  ProcessesMove
<1> USE DEF IInv
<1>1. ASSUME UNCHANGED processVars PROVE ProcessesMove
  BY <1>1 DEF ProcessesMove
<1>2. ASSUME NEW k \in Caller, CallMoves(k) PROVE ProcessesMove
  <2>1. CASE \/ Begins(k) \/ Enters(k) \/ TakesOther(k) \/ TakesAudio(k) \/ TakesTerminal(k)
             \/ TakesAnswer(k) \/ Loses(k) \/ Drops(k) \/ Queries(k)
    BY <1>1, <2>1 DEF Begins, Enters, TakesOther, TakesAudio, TakesTerminal, TakesAnswer,
                      Loses, Drops, Queries
  <2>2. CASE Connects(k)
    <3>1. connection = 0 /\ retiring = 0
      BY <2>2 DEF Connects, Standing, Stands
    <3> QED BY <2>2, <3>1 DEF Connects, ProcessesMove, processVars
  <2>3. CASE Publishes(k)
    <3>1. connection = 0
      BY <2>3 DEF Publishes, Standing, Stands
    <3> QED BY <2>3, <3>1 DEF Publishes, ProcessesMove
  <2>4. CASE Retires(k)
    <3>1. CASE /\ connection = 0 /\ retiring = 0 /\ started' = started
               /\ UNCHANGED <<connection, retiring, terminated, alive>>
      BY <3>1, <1>1 DEF processVars
    <3>2. CASE /\ retiring # 0 /\ connection' = connection /\ Killed(retiring, retiring')
               /\ started' = started
      <4>1. retiring \in 1 .. started /\ retiring' \in Nat
        BY <3>2 DEF EngineTypes, Killed
      <4> QED BY <3>2, <4>1 DEF ProcessesMove
    <3>3. CASE /\ connection # 0 /\ connection' = 0 /\ Killed(connection, retiring')
               /\ started' = started
      <4>1. connection \in 1 .. started /\ retiring' \in Nat
        BY <3>3 DEF EngineTypes, Killed
      <4> QED BY <3>3, <4>1 DEF ProcessesMove
    <3> QED BY <2>4, <3>1, <3>2, <3>3 DEF Retires
  <2>5. CASE GivesUp(k)
    <3>1. retiring # 0
      BY <2>5 DEF GivesUp, Standing, Stands
    <3>2. retiring \in 1 .. started /\ retiring' \in Nat
      BY <2>5, <3>1 DEF EngineTypes, GivesUp, Killed
    <3> QED BY <2>5, <3>2 DEF GivesUp, ProcessesMove
  <2>6. CASE Dispatches(k)
    <3>1. call[k].conn \in Conn /\ started' = started
      BY <2>6, CallsConn DEF Dispatches
    <3>2. CASE UNCHANGED <<connection, retiring, alive, terminated>>
      BY <3>1, <3>2, <1>1 DEF processVars
    <3>3. CASE Invalidated(call[k].conn)
      BY <3>1, <3>3, InvalidatedProcess
    <3> QED BY <2>6, <3>2, <3>3 DEF Dispatches
  <2>7. CASE Invalidates(k)
    <3>1. call[k].conn \in Conn
      BY <2>7, CallsConn DEF Invalidates
    <3> QED BY <2>7, <3>1, InvalidatedProcess DEF Invalidates
  <2> QED BY SMTT(60), <1>2, <2>1, <2>2, <2>3, <2>4, <2>5, <2>6, <2>7 DEF CallMoves
<1>3. CASE StopSends
  <2>1. CASE UNCHANGED <<connection, retiring, alive, terminated>>
    BY <1>3, <2>1, <1>1 DEF StopSends, processVars
  <2>2. CASE connection \in Conn /\ Invalidated(connection)
    BY <1>3, <2>2, InvalidatedProcess DEF StopSends
  <2> QED BY <1>3, <2>1, <2>2 DEF StopSends
<1>4. CASE StopBegan \/ (Shrink /\ Same)
  BY <1>1, <1>4 DEF StopBegan, Same
<1>5. CASE Crashes
  BY <1>5 DEF Crashes, ProcessesMove
<1>6. ASSUME NEW x \in Id, Fires(x) PROVE ProcessesMove
  BY <1>1, <1>6 DEF Fires
<1>7. ASSUME NEW x \in Id, Kills(x) PROVE ProcessesMove
  <2>1. PICK r \in {0, cancel[x].conn} : Killed(cancel[x].conn, r)
    BY <1>7 DEF Kills
  <2>2. r \in Nat /\ cancel[x].conn \in 1 .. started
    BY <1>7 DEF Kills, EngineTypes
  <2> QED BY <1>7, <2>1, <2>2 DEF Kills, ProcessesMove
<1>8. ASSUME NEW c \in Conn, HostMoves(c) PROVE ProcessesMove
  BY <1>1, <1>8 DEF HostMoves, Same
<1> QED BY <1>2, <1>3, <1>4, <1>5, <1>6, <1>7, <1>8 DEF Moved

\* No second process is made, none is forgotten, and no connection is opened again.
LEMMA ProcessesStep ==
    ASSUME EngineTypes, OneHelperAlive, ProcessesMove
    PROVE  /\ OneHelperAlive'
           /\ started' \in 0 .. MaxConnections /\ started <= started'
           /\ connection' \in 0 .. started' /\ retiring' \in 0 .. started'
           /\ alive' \subseteq 1 .. started' /\ terminated' \subseteq 1 .. started'
           /\ terminated \subseteq terminated'
           /\ connection' = connection \/ connection = 0 \/ connection \in terminated'
<1>0. /\ started \in 0 .. MaxConnections /\ MaxConnections \in Nat
      /\ connection \in 0 .. started /\ retiring \in 0 .. started
      /\ alive \subseteq 1 .. started /\ terminated \subseteq 1 .. started
      /\ alive \subseteq {connection, retiring} /\ (connection = 0 \/ retiring = 0)
  BY HostAssumption DEF EngineTypes, OneHelperAlive
<1> USE DEF OneHelperAlive
<1>1. CASE \/ UNCHANGED processVars
           \/ alive' \subseteq alive /\ UNCHANGED <<connection, retiring, started, terminated>>
  <2>1. /\ alive' \subseteq alive /\ connection' = connection /\ retiring' = retiring
        /\ started' = started /\ terminated' = terminated
    BY <1>1 DEF processVars
  <2>2. started \in Nat /\ started <= started
    BY <1>0
  <2> QED BY <1>0, <2>1, <2>2
<1>2. CASE /\ connection = 0 /\ retiring = 0 /\ started < MaxConnections
           /\ connection' = 0 /\ retiring' = started + 1 /\ started' = started + 1
           /\ alive' = alive \cup {started + 1} /\ terminated' = terminated
  <2>1. alive = {}
    BY <1>0, <1>2
  <2>2. /\ started' \in 0 .. MaxConnections /\ started <= started' /\ started + 1 \in 1 .. started'
        /\ connection' \in 0 .. started' /\ retiring' \in 0 .. started'
        /\ terminated \subseteq 1 .. started'
    BY <1>0, <1>2
  <2> QED BY <1>2, <2>1, <2>2
<1>3. CASE /\ connection = 0 /\ retiring \in alive
           /\ connection' = retiring /\ retiring' = 0
           /\ UNCHANGED <<started, alive, terminated>>
  BY <1>0, <1>3
<1>4. ASSUME NEW c \in 1 .. started, NEW r \in Nat, Killed(c, r), started' = started,
             \/ c = connection /\ connection' = 0 /\ retiring' = r
             \/ c = retiring /\ connection' = connection /\ retiring' = r
             \/ UNCHANGED <<connection, retiring>>
      PROVE  /\ OneHelperAlive' /\ started <= started'
             /\ connection' \in 0 .. started' /\ retiring' \in 0 .. started'
             /\ alive' \subseteq 1 .. started' /\ terminated' \subseteq 1 .. started'
             /\ terminated \subseteq terminated'
             /\ connection' = connection \/ connection = 0 \/ connection \in terminated'
  <2>1. /\ terminated' = terminated \cup {c} /\ alive' \subseteq alive
        /\ \/ r = 0 /\ alive' = alive \ {c}
           \/ r = c /\ alive' = alive
    BY <1>4 DEF Killed
  <2>2. c # 0 /\ r \in 0 .. started
    BY <1>0, <2>1
  <2> QED BY <1>0, <1>4, <2>1, <2>2
<1>5. started' = started => started' \in 0 .. MaxConnections
  BY <1>0
<1> QED BY <1>0, <1>1, <1>2, <1>3, <1>4, <1>5 DEF ProcessesMove

----------------------------------------------------------
(* Types, kept by every step *)

\* The cancel sent is recorded under its number, and nothing else is.
LEMMA SendsCancelEffect ==
    ASSUME EngineTypes, SendsCancel
    PROVE  /\ cancel' \in [Id -> CancelRecord]
           /\ \A x \in Id : x # next_id => cancel'[x] = cancel[x]
           /\ cancel'[next_id].target = active /\ cancel'[next_id].conn = connection
           /\ cancel'[next_id].retained /\ ~cancel'[next_id].consumed
           /\ cancel'[next_id].state = "active"
<1> DEFINE new == [target |-> active, conn |-> connection, state |-> "active",
                   consumed |-> FALSE, retained |-> TRUE, watchdog |-> "sleeping"]
<1>1. new \in CancelRecord
  BY DEF EngineTypes, SendsCancel, CancelRecord
<1>2. cancel' = [cancel EXCEPT ![next_id] = new] /\ next_id \in Id
  BY DEF SendsCancel
<1>3. /\ new.target = active /\ new.conn = connection /\ new.state = "active"
      /\ ~new.consumed /\ new.retained
  OBVIOUS
<1> HIDE DEF new
<1>4. cancel'[next_id] = new
  BY <1>2 DEF EngineTypes
<1> QED BY <1>1, <1>2, <1>3, <1>4 DEF EngineTypes

\* What any step does to the cancellations.
LEMMA EveryCancelStep ==
    ASSUME IInv, Moved
    PROVE  CancelsAdvance \/ SendsCancel
<1> USE DEF IInv
<1>0. cancel' = cancel => CancelsAdvance
  BY SameCancels
<1>1. ASSUME NEW k \in Caller, CallMoves(k) PROVE CancelsAdvance
  <2>1. CASE \/ Begins(k) \/ Enters(k) \/ Connects(k) \/ Publishes(k) \/ GivesUp(k)
             \/ Dispatches(k) \/ Loses(k) \/ TakesAudio(k) \/ TakesAnswer(k)
             \/ Invalidates(k) \/ Queries(k)
    BY <1>0, <2>1 DEF Begins, Enters, Connects, Publishes, GivesUp, Dispatches, Loses,
                      TakesAudio, TakesAnswer, Invalidates, Queries
  <2>2. CASE Retires(k) \/ TakesOther(k) \/ TakesTerminal(k) \/ Drops(k)
    BY <2>2 DEF Retires, TakesOther, TakesTerminal, Drops
  <2> QED BY <1>1, <2>1, <2>2 DEF CallMoves
<1>2. CASE StopSends
  <2>1. next_id \in Id
    BY <1>2, NumberLeft DEF StopSends
  <2> QED BY <1>0, <1>2, <2>1 DEF StopSends, SendsCancel
<1>3. CASE StopBegan \/ Crashes \/ (Shrink /\ Same)
  BY <1>0, <1>3 DEF StopBegan, Crashes, Same
<1>4. ASSUME NEW x \in Id, Fires(x) \/ Kills(x) PROVE CancelsAdvance
  BY <1>4 DEF Fires, Kills
<1>5. ASSUME NEW c \in Conn, HostMoves(c) PROVE CancelsAdvance
  BY <1>0, <1>5 DEF HostMoves, Same
<1> QED BY <1>1, <1>2, <1>3, <1>4, <1>5 DEF Moved

LEMMA CallTypesStep ==
    ASSUME EngineTypes, Moved
    PROVE  call' \in [Caller -> CallRecord]
<1>1. ASSUME NEW k \in Caller, CallMoves(k) PROVE call' \in [Caller -> CallRecord]
  <2>1. call \in [Caller -> CallRecord]
    BY DEF EngineTypes
  <2>2. CASE Begins(k) \/ Enters(k) \/ Connects(k) \/ Publishes(k) \/ Retires(k)
             \/ GivesUp(k)
    BY <2>1, <2>2 DEF Begins, Enters, Connects, Publishes, Retires, GivesUp, Moves, Leaves,
                      CallTo, CallEnds
  <2>3. CASE Dispatches(k) \/ Loses(k) \/ TakesOther(k) \/ TakesAudio(k)
    BY <2>1, <2>3 DEF Dispatches, Loses, TakesOther, TakesAudio, Leaves, CallTo, CallEnds
  <2>4. CASE TakesTerminal(k) \/ TakesAnswer(k) \/ Invalidates(k) \/ Drops(k) \/ Queries(k)
    BY <2>1, <2>4 DEF TakesTerminal, TakesAnswer, Invalidates, Drops, Queries, Moves, Leaves,
                      CallTo, CallEnds
  <2> QED BY <1>1, <2>2, <2>3, <2>4 DEF CallMoves
<1>2. CASE call' = call
  BY <1>2 DEF EngineTypes
<1>3. (\A k \in Caller : ~CallMoves(k)) => call' = call
  BY DEF Moved, HostMoves, Same, StopBegan, StopSends, Crashes, Fires, Kills
<1> QED BY <1>1, <1>2, <1>3

LEMMA EngineTypesStep ==
    ASSUME IInv, Moved
    PROVE  EngineTypes'
<1> USE DEF IInv
<1>1. /\ started' \in 0 .. MaxConnections /\ started <= started'
      /\ connection' \in 0 .. started' /\ retiring' \in 0 .. started'
      /\ alive' \subseteq 1 .. started' /\ terminated' \subseteq 1 .. started'
  BY EveryProcessStep, ProcessesStep
<1>2. call' \in [Caller -> CallRecord]
  BY CallTypesStep
<1>3. /\ stop_epoch \in Nat /\ stopping \in Nat /\ next_id \in Nat \ {0}
      /\ calls \in Nat /\ queries \in Nat /\ active \in Id \cup {0} /\ DOMAIN outcome = Id
      /\ started \in Nat
  BY HostAssumption DEF EngineTypes
<1>4. ASSUME NEW k \in Caller, CallMoves(k)
      PROVE  /\ stop_epoch' \in Nat /\ stopping' \in Nat /\ next_id' \in Nat \ {0}
             /\ calls' \in Nat /\ queries' \in Nat /\ active' \in Id \cup {0}
             /\ DOMAIN outcome' = Id
  <2>1. CASE Begins(k) \/ Enters(k) \/ Connects(k) \/ Publishes(k) \/ Retires(k)
             \/ GivesUp(k) \/ Loses(k) \/ TakesOther(k) \/ TakesAudio(k) \/ TakesTerminal(k)
    BY <1>3, <2>1 DEF Begins, Enters, Connects, Publishes, Retires, GivesUp, Loses,
                      TakesOther, TakesAudio, TakesTerminal, numberVars
  <2>2. CASE Dispatches(k)
    <3>1. next_id \in Id
      BY <2>2, NumberLeft DEF Dispatches
    <3> QED BY <1>3, <2>2, <3>1 DEF Dispatches
  <2>3. CASE TakesAnswer(k) \/ Invalidates(k) \/ Drops(k) \/ Queries(k)
    BY <1>3, <2>3 DEF TakesAnswer, Invalidates, Drops, Queries, numberVars
  <2> QED BY <1>4, <2>1, <2>2, <2>3 DEF CallMoves
<1>5. ASSUME StopSends
      PROVE  /\ stop_epoch' \in Nat /\ stopping' \in Nat /\ next_id' \in Nat \ {0}
             /\ calls' \in Nat /\ queries' \in Nat /\ active' \in Id \cup {0}
             /\ DOMAIN outcome' = Id
  BY <1>3, <1>5 DEF StopSends
<1>6. ASSUME StopBegan \/ Crashes \/ Same
      PROVE  /\ stop_epoch' \in Nat /\ stopping' \in Nat /\ next_id' \in Nat \ {0}
             /\ calls' \in Nat /\ queries' \in Nat /\ active' \in Id \cup {0}
             /\ DOMAIN outcome' = Id
  BY <1>3, <1>6 DEF StopBegan, Crashes, Same, numberVars
<1>7. ASSUME NEW x \in Id, Fires(x) \/ Kills(x)
      PROVE  UNCHANGED <<numberVars, active, outcome>>
  BY <1>7 DEF Fires, Kills
<1>8. ASSUME NEW c \in Conn, HostMoves(c)
      PROVE  UNCHANGED <<numberVars, active, outcome>>
  BY <1>8 DEF HostMoves, Same
<1>9. /\ stop_epoch' \in Nat /\ stopping' \in Nat /\ next_id' \in Nat \ {0}
      /\ calls' \in Nat /\ queries' \in Nat /\ active' \in Id \cup {0} /\ DOMAIN outcome' = Id
  BY <1>3, <1>4, <1>5, <1>6, <1>7, <1>8 DEF Moved, numberVars
<1>10. /\ cancel' \in [Id -> CancelRecord]
       /\ \A x \in Id : cancel'[x].watchdog # "none" => cancel'[x].conn \in 1 .. started'
  <2>1. CASE CancelsAdvance
    BY <1>1, <1>3, <2>1 DEF CancelsAdvance, Advances, EngineTypes
  <2>2. CASE SendsCancel
    <3>1. connection \in 1 .. started
      BY <1>3, <2>2 DEF SendsCancel, EngineTypes, Conn
    <3> QED BY <1>1, <1>3, <2>2, <3>1, SendsCancelEffect DEF EngineTypes
  <2> QED BY <2>1, <2>2, EveryCancelStep
<1> QED BY <1>1, <1>2, <1>9, <1>10 DEF EngineTypes

----------------------------------------------------------
(* The lifecycle lock *)

\* A step of a call leaves the other calls alone, and unless the call begins no
\* other is under way.
LEMMA OthersRest ==
    ASSUME EngineTypes, Serialised, NEW k \in Caller, CallMoves(k),
           NEW j \in Caller, j # k
    PROVE  call'[j] = call[j] /\ (Begins(k) \/ ~Locked(j))
<1>1. CASE Begins(k)
  BY <1>1 DEF Begins
<1>2. CASE Enters(k) \/ Queries(k)
  <2>1. lifecycle = NoCaller /\ call'[j] = call[j]
    BY <1>2 DEF Enters, Queries, Moves, Leaves, CallTo, CallEnds
  <2> QED BY <2>1, EngineAssumption DEF Serialised
<1>3. CASE \/ Connects(k) \/ Publishes(k) \/ Retires(k) \/ GivesUp(k) \/ Dispatches(k)
           \/ Loses(k)
  <2>1. Locked(k)
    BY <1>3 DEF Connects, Publishes, Retires, GivesUp, Dispatches, Loses, Waiting, Locked
  <2>2. call'[j] = call[j]
    BY <1>3 DEF Connects, Publishes, Retires, GivesUp, Dispatches, Loses, Moves, Leaves,
                CallTo, CallEnds
  <2> QED BY <2>1, <2>2 DEF Serialised
<1>4. CASE \/ TakesOther(k) \/ TakesAudio(k) \/ TakesTerminal(k) \/ TakesAnswer(k)
           \/ Invalidates(k) \/ Drops(k)
  <2>1. Locked(k)
    BY SMTT(60), <1>4 DEF TakesOther, TakesAudio, TakesTerminal, TakesAnswer, Invalidates, Drops,
                Waiting, Locked
  <2>2. call'[j] = call[j]
    BY <1>4 DEF TakesOther, TakesAudio, TakesTerminal, TakesAnswer, Invalidates, Drops,
                Moves, Leaves, CallTo, CallEnds
  <2> QED BY <2>1, <2>2 DEF Serialised
<1> QED BY <1>1, <1>2, <1>3, <1>4 DEF CallMoves

\* A step that is no call's leaves every call alone.
LEMMA CallsRest ==
    ASSUME Moved, \A k \in Caller : ~CallMoves(k)
    PROVE  call' = call /\ lifecycle' = lifecycle /\ active' = active /\ outcome' = outcome
BY DEF Moved, HostMoves, Same, StopBegan, StopSends, Crashes, Fires, Kills

LEMMA SerialisedStep ==
    ASSUME IInv, Moved
    PROVE  Serialised'
<1> USE DEF IInv
<1>1. CASE \A k \in Caller : ~CallMoves(k)
  BY <1>1, CallsRest DEF Serialised, Locked
<1>2. ASSUME NEW k \in Caller, CallMoves(k) PROVE Serialised'
  <2>1. CASE Begins(k)
    <3>1. call'[k].at = "entering" /\ lifecycle' = lifecycle
      BY <2>1 DEF Begins
    <3> QED BY <1>2, <3>1, OthersRest DEF Serialised, Locked
  <2>2. CASE ~Begins(k)
    <3>1. \A j \in Caller : j # k => ~Locked(j)'
      BY <1>2, <2>2, OthersRest DEF Locked
    <3>2. Locked(k)' => lifecycle' = k
      <4>1. CASE Enters(k) \/ Queries(k)
        BY <4>1, NoCallType DEF Enters, Queries, Leaves, CallEnds, Locked
      <4>2. CASE \/ Connects(k) \/ Publishes(k) \/ Retires(k) \/ GivesUp(k) \/ Dispatches(k)
                 \/ Loses(k)
        <5>1. Locked(k)
          BY <4>2 DEF Connects, Publishes, Retires, GivesUp, Dispatches, Loses, Waiting, Locked
        <5>2. lifecycle' = lifecycle \/ Leaves(k)
          BY <4>2 DEF Connects, Publishes, Retires, GivesUp, Dispatches, Loses
        <5> QED BY <5>1, <5>2, NoCallType DEF Leaves, CallEnds, Locked, Serialised
      <4>3. CASE \/ TakesOther(k) \/ TakesAudio(k) \/ TakesTerminal(k) \/ TakesAnswer(k)
                 \/ Invalidates(k) \/ Drops(k)
        <5>1. Locked(k)
          BY <4>3 DEF TakesOther, TakesAudio, TakesTerminal, TakesAnswer, Invalidates, Drops,
                      Waiting, Locked
        <5>2. lifecycle' = lifecycle \/ Leaves(k)
          BY <4>3 DEF TakesOther, TakesAudio, TakesTerminal, TakesAnswer, Invalidates, Drops
        <5> QED BY <5>1, <5>2, NoCallType DEF Leaves, CallEnds, Locked, Serialised
      <4> QED BY <1>2, <2>2, <4>1, <4>2, <4>3 DEF CallMoves
    <3> QED BY <3>1, <3>2 DEF Serialised
  <2> QED BY <2>1, <2>2
<1> QED BY <1>1, <1>2

\* A step that is not the lock holder's may at most terminate the published process.
LEMMA Elsewhere ==
    ASSUME IInv, Moved, \A k \in Caller : CallMoves(k) => Begins(k)
    PROVE  /\ active' = active
           /\ \/ connection' = connection /\ retiring' = retiring
              \/ connection # 0 /\ connection \in terminated'
<1>1. ASSUME NEW k \in Caller, Begins(k)
      PROVE  active' = active /\ connection' = connection /\ retiring' = retiring
  BY <1>1 DEF Begins, processVars
<1>2. ASSUME StopSends
      PROVE  /\ active' = active
             /\ \/ connection' = connection /\ retiring' = retiring
                \/ connection # 0 /\ connection \in terminated'
  BY <1>2 DEF StopSends, Invalidated, Killed
<1>3. ASSUME \/ StopBegan \/ Crashes \/ Same \/ \E c \in Conn : HostMoves(c)
             \/ \E x \in Id : Fires(x) \/ Kills(x)
      PROVE  active' = active /\ connection' = connection /\ retiring' = retiring
  BY <1>3 DEF StopBegan, Crashes, Same, HostMoves, Fires, Kills, processVars
<1> QED BY <1>1, <1>2, <1>3 DEF Moved

LEMMA StandsOn ==
    ASSUME IInv, Moved, NEW j \in Caller, call'[j] = call[j],
           ~Locked(j) \/ \A k \in Caller : CallMoves(k) => Begins(k)
    PROVE  Stands(j)'
<1> USE DEF IInv
<1>1. Stands(j)
  BY DEF Standing
<1>2. CASE ~Locked(j)
  BY <1>1, <1>2 DEF Locked, Stands
<1>3. CASE \A k \in Caller : CallMoves(k) => Begins(k)
  <2>1. /\ active' = active
        /\ \/ connection' = connection /\ retiring' = retiring
           \/ connection # 0 /\ connection \in terminated'
    BY <1>3, Elsewhere
  <2>2. started <= started' /\ started' \in Nat /\ terminated \subseteq terminated'
    BY EveryProcessStep, ProcessesStep, HostAssumption
  <2>3. \A c \in 1 .. started : c \in 1 .. started'
    BY <2>2 DEF EngineTypes
  <2> QED BY <1>1, <2>1, <2>2, <2>3 DEF Stands
<1> QED BY <1>2, <1>3

LEMMA StandingStep ==
    ASSUME IInv, Moved
    PROVE  Standing'
<1> USE DEF IInv
<1>0. /\ \A k \in Caller : Stands(k)
      /\ started <= started' /\ started' \in Nat /\ started \in Nat
      /\ terminated \subseteq terminated'
      /\ \A c \in 1 .. started : c \in 1 .. started'
  <2>1. started <= started' /\ started' \in Nat /\ terminated \subseteq terminated'
    BY EveryProcessStep, ProcessesStep, HostAssumption
  <2> QED BY <2>1 DEF EngineTypes, Standing
<1>1. ASSUME \A k \in Caller : ~CallMoves(k) PROVE Standing'
  BY <1>1, CallsRest, StandsOn DEF Standing
<1>2. ASSUME NEW k \in Caller, CallMoves(k) PROVE Standing'
  <2>1. ASSUME NEW j \in Caller, j # k PROVE Stands(j)'
    <3>1. call'[j] = call[j] /\ (Begins(k) \/ ~Locked(j))
      BY <1>2, <2>1, OthersRest
    <3>2. CASE ~Locked(j)
      BY <3>1, <3>2, StandsOn
    <3>3. CASE Begins(k) /\ Locked(j)
      <4>1. ASSUME NEW i \in Caller, CallMoves(i) PROVE Begins(i)
        <5>1. CASE i = k
          BY <3>3, <5>1
        <5>2. CASE i # k
          <6>1. call'[k] = call[k]
            BY <1>2, <4>1, <5>2, OthersRest
          <6> QED BY <3>3, <6>1 DEF Begins
        <5> QED BY <5>1, <5>2
      <4> QED BY <3>1, <4>1, StandsOn
    <3> QED BY <3>1, <3>2, <3>3
  <2>2. Stands(k)'
    <3>0. Stands(k)
      BY DEF Standing
    <3>1. CASE Leaves(k)
      BY <3>1, NoCallType DEF Leaves, CallEnds, Stands
    <3>2. CASE Begins(k)
      BY <3>2 DEF Begins, Stands
    <3>3. CASE Enters(k)
      <4>1. CASE Moves(k, "retire")
        BY <3>0, <3>3, <4>1 DEF Enters, Moves, CallTo, Stands
      <4>2. CASE /\ call[k].op = "speak" /\ connection \in Conn
                 /\ CallTo(k, "dispatch", connection, call[k].id, call[k].result)
        <5>1. connection \in 1 .. started' /\ connection' = connection
          BY <1>0, <3>3, <4>2 DEF Enters, EngineTypes, Conn, processVars
        <5> QED BY <3>0, <3>3, <4>2, <5>1 DEF Enters, CallTo, Stands
      <4> QED BY <3>3, <4>1, <4>2, <3>1 DEF Enters
    <3>4. CASE Connects(k)
      <4>1. CASE /\ retiring' = started + 1 /\ Moves(k, "negotiate")
        <5>1. retiring' # 0 /\ connection' = 0
          BY <1>0, <3>0, <3>4, <4>1 DEF Connects, Stands
        <5> QED BY <3>0, <3>4, <4>1, <5>1 DEF Connects, Moves, CallTo, Stands
      <4> QED BY <3>4, <4>1, <3>1 DEF Connects
    <3>5. CASE Publishes(k)
      <4>1. CASE /\ call[k].op = "speak"
                 /\ CallTo(k, "dispatch", retiring, call[k].id, call[k].result)
        <5>1. retiring \in 1 .. started' /\ connection' = retiring
          BY <1>0, <3>5 DEF Publishes, EngineTypes
        <5> QED BY <3>0, <3>5, <4>1, <5>1 DEF Publishes, CallTo, Stands
      <4> QED BY <3>5, <4>1, <3>1 DEF Publishes
    <3>6. CASE Retires(k)
      <4>1. CASE connection' = 0 /\ retiring' = 0 /\ Moves(k, "connect")
        BY <3>0, <3>6, <4>1 DEF Retires, Moves, CallTo, Stands
      <4>2. CASE call' = call
        BY <3>0, <3>6, <4>2 DEF Retires, Stands
      <4> QED BY <3>6, <4>1, <4>2, <3>1 DEF Retires
    <3>7. CASE Dispatches(k)
      <4>1. CASE /\ active' = next_id /\ connection' = connection
                 /\ CallTo(k, "collect", call[k].conn, next_id, call[k].result)
        <5>1. next_id \in Id
          BY <3>7, NumberLeft DEF Dispatches
        <5> QED BY <1>0, <3>0, <3>7, <4>1, <5>1 DEF Dispatches, CallTo, Stands
      <4> QED BY <3>7, <4>1, <3>1 DEF Dispatches
    <3>8. CASE Loses(k)
      BY <1>0, <3>0, <3>8 DEF Loses, Waiting, CallTo, Stands, processVars
    <3>9. CASE TakesOther(k)
      <4>1. CASE call' = call
        BY <1>0, <3>0, <3>9, <4>1 DEF TakesOther, Waiting, Stands, processVars
      <4>2. CASE CallTo(k, "invalidate", call[k].conn, call[k].id, "mismatch")
        BY <1>0, <3>0, <3>9, <4>2 DEF TakesOther, Waiting, CallTo, Stands, processVars
      <4> QED BY <3>9, <4>1, <4>2 DEF TakesOther
    <3>10. CASE TakesAudio(k)
      <4>1. CASE call' = call \/ CallTo(k, call[k].at, call[k].conn, call[k].id, call[k].result)
        BY <1>0, <3>0, <3>10, <4>1 DEF TakesAudio, Waiting, CallTo, Stands, processVars
      <4>2. CASE CallTo(k, "invalidate", call[k].conn, call[k].id, "lost")
        BY <1>0, <3>0, <3>10, <4>2 DEF TakesAudio, Waiting, CallTo, Stands, processVars
      <4> QED BY <3>10, <4>1, <4>2 DEF TakesAudio
    <3>11. CASE TakesTerminal(k)
      BY <1>0, <3>0, <3>11 DEF TakesTerminal, Waiting, CallTo, Stands, processVars
    <3>12. CASE TakesAnswer(k)
      BY <3>1, <3>12 DEF TakesAnswer
    <3>13. CASE Invalidates(k)
      <4>1. CASE Moves(k, "drop")
        BY <3>0, <3>13, <4>1 DEF Invalidates, Moves, CallTo, Stands
      <4> QED BY <3>13, <4>1, <3>1 DEF Invalidates
    <3>14. CASE Drops(k)
      BY <3>1, <3>14 DEF Drops
    <3>15. CASE Queries(k)
      <4>1. next_id \in Id /\ connection \in 1 .. started' /\ connection' = connection
        BY <1>0, <3>15, NumberLeft DEF Queries, EngineTypes, Conn, processVars
      <4> QED BY <3>15, <4>1 DEF Queries, Stands
    <3>16. CASE GivesUp(k)
      BY <3>1, <3>16 DEF GivesUp
    <3> QED BY <1>2, <3>2, <3>3, <3>4, <3>5, <3>6, <3>7, <3>8, <3>9, <3>10, <3>11, <3>12,
               <3>13, <3>14, <3>15, <3>16 DEF CallMoves
  <2> QED BY <2>1, <2>2 DEF Standing
<1> QED BY <1>1, <1>2

----------------------------------------------------------
(* Numbers *)

\* What any step does to the numbers and to the calls that have yet to take one.
NumbersMove ==
    \/ Undispatched' \subseteq Undispatched /\ UNCHANGED numberVars
    \/ /\ \E k \in Caller : Undispatched' = Undispatched \cup {k}
       /\ calls < MaxCalls /\ calls' = calls + 1
       /\ UNCHANGED <<stop_epoch, stopping, next_id, queries>>
    \/ /\ \E k \in Undispatched : Undispatched' = Undispatched \ {k}
       /\ next_id' = next_id + 1 /\ UNCHANGED <<stop_epoch, stopping, calls, queries>>
    \/ /\ Undispatched' = Undispatched /\ next_id' = next_id + 1
       /\ queries < MaxQueries /\ queries' = queries + 1
       /\ UNCHANGED <<stop_epoch, stopping, calls>>
    \/ /\ Undispatched' = Undispatched /\ next_id' = next_id
       /\ stop_epoch < MaxStops /\ stop_epoch' = stop_epoch + 1 /\ stopping' = stopping + 1
       /\ UNCHANGED <<calls, queries>>
    \/ /\ Undispatched' = Undispatched /\ next_id' \in {next_id, next_id + 1}
       /\ stopping > 0 /\ stopping' = stopping - 1
       /\ UNCHANGED <<stop_epoch, calls, queries>>

LEMMA EveryNumberStep ==
    ASSUME IInv, Moved
    PROVE  NumbersMove
<1> USE DEF IInv
<1>0. call' = call => Undispatched' = Undispatched
  BY DEF Undispatched
<1>1. ASSUME NEW k \in Caller, CallMoves(k) PROVE NumbersMove
  <2>0. \A j \in Caller : j # k => call'[j] = call[j]
    BY <1>1, OthersRest
  <2>1. CASE Begins(k)
    <3>1. Undispatched' = Undispatched \cup {k}
      BY <2>0, <2>1 DEF Begins, Undispatched
    <3> QED BY <2>1, <3>1 DEF Begins, NumbersMove
  <2>2. CASE Dispatches(k)
    <3>1. call'[k].at \in {"collect", "idle"} /\ call[k].at = "dispatch"
      BY <2>2, NoCallType DEF Dispatches, Leaves, CallEnds, CallTo
    <3>2. k \in Undispatched /\ Undispatched' = Undispatched \ {k}
      BY <2>0, <3>1 DEF Undispatched
    <3> QED BY <2>2, <3>2 DEF Dispatches, NumbersMove
  <2>3. CASE Queries(k)
    <3>1. call'[k].at \in {"answer", "invalidate"} /\ call[k].at = "idle"
      BY <2>3 DEF Queries
    <3>2. Undispatched' = Undispatched
      BY <2>0, <3>1 DEF Undispatched
    <3> QED BY <2>3, <3>2 DEF Queries, NumbersMove
  <2>4. CASE Enters(k) \/ Connects(k) \/ Publishes(k) \/ Retires(k) \/ GivesUp(k)
    <3>1. k \in Undispatched /\ UNCHANGED numberVars
      BY <2>4 DEF Enters, Connects, Publishes, Retires, GivesUp, Undispatched
    <3>2. Undispatched' \subseteq Undispatched
      BY <2>0, <3>1 DEF Undispatched
    <3> QED BY <3>1, <3>2 DEF NumbersMove
  <2>5. CASE \/ Loses(k) \/ TakesOther(k) \/ TakesAudio(k) \/ TakesTerminal(k)
             \/ TakesAnswer(k) \/ Invalidates(k) \/ Drops(k)
    <3>1. UNCHANGED numberVars
      BY SMTT(60), <2>5
         DEF Loses, TakesOther, TakesAudio, TakesTerminal, TakesAnswer, Invalidates, Drops
    <3>2. \/ call'[k].at \in {"collect", "answer", "invalidate", "drop"}
          \/ call'[k].at = "idle"
      BY <2>5, NoCallType
         DEF Loses, TakesOther, TakesAudio, TakesTerminal, TakesAnswer, Invalidates, Drops,
             Waiting, Leaves, Moves, CallTo, CallEnds
    <3>3. Undispatched' \subseteq Undispatched
      BY <2>0, <3>2 DEF Undispatched
    <3> QED BY <3>1, <3>3 DEF NumbersMove
  <2> QED BY <1>1, <2>1, <2>2, <2>3, <2>4, <2>5 DEF CallMoves
<1>2. CASE StopSends
  BY <1>0, <1>2 DEF StopSends, NumbersMove
<1>3. CASE StopBegan
  BY <1>0, <1>3 DEF StopBegan, NumbersMove
<1>4. CASE Crashes \/ (Shrink /\ Same)
  BY <1>0, <1>4 DEF Crashes, Same, NumbersMove
<1>5. ASSUME NEW x \in Id, Fires(x) \/ Kills(x) PROVE NumbersMove
  BY <1>0, <1>5 DEF Fires, Kills, NumbersMove
<1>6. ASSUME NEW c \in Conn, HostMoves(c) PROVE NumbersMove
  BY <1>0, <1>6 DEF HostMoves, Same, NumbersMove
<1> QED BY <1>1, <1>2, <1>3, <1>4, <1>5, <1>6 DEF Moved

LEMMA IdsLastStep ==
    ASSUME EngineTypes, IdsLast, NumbersMove
    PROVE  IdsLast'
<1> DEFINE n == Cardinality(Undispatched)
           m == Cardinality(Undispatched')
<1>1. IsFiniteSet(Undispatched) /\ n \in Nat
  BY FS_CardinalityType DEF IdsLast
<1>2. /\ next_id + n + stopping <= calls + queries + stop_epoch + 1
      /\ calls <= MaxCalls /\ queries <= MaxQueries /\ stop_epoch <= MaxStops
      /\ next_id \in Nat /\ stopping \in Nat /\ calls \in Nat /\ queries \in Nat
      /\ stop_epoch \in Nat
      /\ MaxCalls \in Nat /\ MaxQueries \in Nat /\ MaxStops \in Nat
  BY EngineAssumption DEF IdsLast, EngineTypes
<1>3. ASSUME Undispatched' \subseteq Undispatched
      PROVE  IsFiniteSet(Undispatched') /\ m \in Nat /\ m <= n
  BY <1>1, <1>3, FS_Subset, FS_CardinalityType
<1>4. ASSUME NEW k, Undispatched' = Undispatched \cup {k}
      PROVE  IsFiniteSet(Undispatched') /\ m \in Nat /\ m <= n + 1
  <2>1. IsFiniteSet(Undispatched \cup {k}) /\
        Cardinality(Undispatched \cup {k}) = IF k \in Undispatched THEN n ELSE n + 1
    BY <1>1, FS_AddElement
  <2> QED BY <1>1, <1>4, <2>1
<1>5. ASSUME NEW k \in Undispatched, Undispatched' = Undispatched \ {k}
      PROVE  IsFiniteSet(Undispatched') /\ m \in Nat /\ m = n - 1
  <2>1. IsFiniteSet(Undispatched \ {k}) /\ Cardinality(Undispatched \ {k}) = n - 1
    BY <1>1, FS_RemoveElement
  <2>2. Cardinality(Undispatched \ {k}) \in Nat
    BY <2>1, FS_CardinalityType
  <2> QED BY <1>5, <2>1, <2>2
<1> DEFINE Bound == /\ next_id' + m + stopping' <= calls' + queries' + stop_epoch' + 1
                    /\ calls' <= MaxCalls /\ queries' <= MaxQueries /\ stop_epoch' <= MaxStops
<1> SUFFICES IsFiniteSet(Undispatched') /\ Bound
  BY DEF IdsLast
<1> HIDE DEF n, m
<1>6. CASE Undispatched' \subseteq Undispatched /\ UNCHANGED numberVars
  BY <1>1, <1>2, <1>3, <1>6 DEF numberVars
<1>7. CASE /\ \E k \in Caller : Undispatched' = Undispatched \cup {k}
           /\ calls < MaxCalls /\ calls' = calls + 1
           /\ UNCHANGED <<stop_epoch, stopping, next_id, queries>>
  <2>1. IsFiniteSet(Undispatched') /\ m \in Nat /\ m <= n + 1
    BY <1>4, <1>7
  <2> QED BY <1>1, <1>2, <1>7, <2>1
<1>8. CASE /\ \E k \in Undispatched : Undispatched' = Undispatched \ {k}
           /\ next_id' = next_id + 1 /\ UNCHANGED <<stop_epoch, stopping, calls, queries>>
  <2>1. IsFiniteSet(Undispatched') /\ m \in Nat /\ m = n - 1
    BY <1>5, <1>8
  <2> QED BY <1>1, <1>2, <1>8, <2>1
<1>9. CASE /\ Undispatched' = Undispatched /\ next_id' = next_id + 1
           /\ queries < MaxQueries /\ queries' = queries + 1
           /\ UNCHANGED <<stop_epoch, stopping, calls>>
  <2>1. IsFiniteSet(Undispatched') /\ m \in Nat /\ m <= n
    BY <1>3, <1>9
  <2> QED BY <1>1, <1>2, <1>9, <2>1
<1>10. CASE /\ Undispatched' = Undispatched /\ next_id' = next_id
            /\ stop_epoch < MaxStops /\ stop_epoch' = stop_epoch + 1 /\ stopping' = stopping + 1
            /\ UNCHANGED <<calls, queries>>
  <2>1. IsFiniteSet(Undispatched') /\ m \in Nat /\ m <= n
    BY <1>3, <1>10
  <2> QED BY <1>1, <1>2, <1>10, <2>1
<1>11. CASE /\ Undispatched' = Undispatched /\ next_id' \in {next_id, next_id + 1}
            /\ stopping > 0 /\ stopping' = stopping - 1
            /\ UNCHANGED <<stop_epoch, calls, queries>>
  <2>1. IsFiniteSet(Undispatched') /\ m \in Nat /\ m <= n
    BY <1>3, <1>11
  <2>2. CASE next_id' = next_id
    BY <1>1, <1>2, <1>11, <2>1, <2>2
  <2>3. CASE next_id' = next_id + 1
    BY <1>1, <1>2, <1>11, <2>1, <2>3
  <2> QED BY <1>11, <2>2, <2>3
<1> QED BY <1>6, <1>7, <1>8, <1>9, <1>10, <1>11 DEF NumbersMove

----------------------------------------------------------
(* Where the frames of a pipe come from *)

\* A connection other than the one a step is about keeps what it held.
LEMMA Elsewhere1 ==
    ASSUME HostTypes, NEW c \in Conn, NEW d \in Conn, d # c,
           HostDoes(c) \/ Taken(c) \/ \E f \in InFrame : Written(c, f)
    PROVE  /\ inbox'[d] = inbox[d] /\ outbox'[d] = outbox[d]
           /\ host_active'[d] = host_active[d] /\ cancelled'[d] = cancelled[d]
           /\ worker'[d] = worker[d]
<1>1. Only(c)
  BY DEF HostDoes, Admits, Answers, Cancels, Declines, Works, Finishes, Host, Taken, Written
<1> QED BY <1>1 DEF Only

\* What a host leaves of the pipe it reads from.
LEMMA HostReads ==
    ASSUME HostTypes, NEW c \in Conn, HostDoes(c)
    PROVE  \/ inbox'[c] = inbox[c]
           \/ /\ \E kind : Reading(c, kind)
              /\ inbox'[c] = Tail(inbox[c])
BY DEF HostDoes, Admits, Answers, Cancels, Declines, Works, Finishes, Host

\* What a host adds to the pipe it writes to.
LEMMA HostWrites ==
    ASSUME HostTypes, NEW c \in Conn, HostDoes(c)
    PROVE  \/ outbox'[c] = outbox[c]
           \/ \E f \in OutFrame :
                 /\ outbox'[c] = Append(outbox[c], f)
                 /\ \/ \E kind : Reading(c, kind) /\ f.id = inbox[c][1].id
                    \/ f.id = host_active[c]
                 /\ f.kind = "completed" =>
                      f.id = host_active[c] /\ ~cancelled[c] /\ Finishes(c)
<1>1. CASE Admits(c)
  BY <1>1 DEF Admits, Host
<1>2. CASE Answers(c)
  <2>1. PICK request \in {"synthesize", "query"}, kind \in {"refused", "busy", "answer"} :
          /\ Reading(c, request)
          /\ outbox'[c] = Append(outbox[c], Frame(kind, inbox[c][1].id))
    BY <1>2 DEF Answers, Host
  <2> DEFINE f == Frame(kind, inbox[c][1].id)
  <2>2. inbox[c][1].id \in Id
    BY <2>1, FrameTypes DEF Reading
  <2>3. f \in OutFrame /\ f.id = inbox[c][1].id /\ f.kind # "completed"
    BY <2>2, FrameTypes DEF Terminal, NativeResult
  <2> HIDE DEF f
  <2> QED BY <2>1, <2>3 DEF f
<1>3. CASE Cancels(c) \/ Declines(c)
  <2>1. PICK kind \in {"cancel_accepted", "cancel_refused"} :
          /\ Reading(c, "cancel")
          /\ outbox'[c] = Append(outbox[c], Frame(kind, inbox[c][1].id))
    BY <1>3 DEF Cancels, Declines, Host
  <2> DEFINE f == Frame(kind, inbox[c][1].id)
  <2>2. inbox[c][1].id \in Id
    BY <2>1, FrameTypes DEF Reading
  <2>3. f \in OutFrame /\ f.id = inbox[c][1].id /\ f.kind # "completed"
    BY <2>2, FrameTypes
  <2> HIDE DEF f
  <2> QED BY <2>1, <2>3 DEF f
<1>4. CASE Works(c)
  <2>1. /\ host_active[c] \in Id
        /\ \/ outbox'[c] = outbox[c]
           \/ outbox'[c] = Append(outbox[c], Frame("audio", host_active[c]))
    BY <1>4 DEF Works, Host
  <2> DEFINE f == Frame("audio", host_active[c])
  <2>2. f \in OutFrame /\ f.id = host_active[c] /\ f.kind = "audio"
    BY ZenonT(60), <2>1, FrameTypes
  <2> HIDE DEF f
  <2> QED BY <2>1, <2>2 DEF f
<1>5. CASE Finishes(c)
  <2>1. PICK kind \in Terminal :
          /\ kind = "completed" => ~cancelled[c]
          /\ outbox'[c] = Append(outbox[c], Frame(kind, host_active[c]))
    BY <1>5 DEF Finishes, Host
  <2> DEFINE f == Frame(kind, host_active[c])
  <2>2. host_active[c] \in Id
    BY <1>5 DEF Finishes
  <2>3. f \in OutFrame /\ f.id = host_active[c] /\ f.kind = kind
    BY <2>2, FrameTypes
  <2> HIDE DEF f
  <2> QED BY <1>5, <2>1, <2>3 DEF f
<1> QED BY <1>1, <1>2, <1>3, <1>4, <1>5 DEF HostDoes

\* A frame a helper has yet to read was there before or is the one written now.
LEMMA InboxFrom ==
    ASSUME HostTypes, PipesMove, NEW c \in Conn, NEW i \in DOMAIN inbox'[c]
    PROVE  \/ \E j \in DOMAIN inbox[c] : inbox'[c][i] = inbox[c][j]
           \/ \E f \in InFrame : Sent(c, f) /\ inbox'[c][i] = f
<1>0. inbox[c] \in Seq(InFrame)
  BY HostParts
<1>1. CASE inbox'[c] = inbox[c]
  BY <1>1
<1>2. CASE inbox'[c] = <<>>
  BY <1>2
<1>3. CASE inbox[c] # <<>> /\ inbox'[c] = Tail(inbox[c])
  BY <1>0, <1>3, TailAt
<1>4. ASSUME NEW d \in Conn, d # c,
             HostDoes(d) \/ Taken(d) \/ \E f \in InFrame : Written(d, f)
      PROVE  inbox'[c] = inbox[c]
  BY <1>4, Elsewhere1
<1>5. ASSUME NEW f \in InFrame, Sent(c, f)
      PROVE  \/ \E j \in DOMAIN inbox[c] : inbox'[c][i] = inbox[c][j]
             \/ inbox'[c][i] = f
  <2>1. inbox'[c] = Append(inbox[c], f)
    BY <1>5 DEF Sent, Written
  <2> QED BY <1>0, <2>1, AppendAt
<1>6. HostDoes(c) => inbox'[c] = inbox[c] \/ (inbox[c] # <<>> /\ inbox'[c] = Tail(inbox[c]))
  BY HostReads DEF Reading
<1>7. Taken(c) => inbox'[c] = inbox[c]
  BY DEF Taken
<1>8. Shrink => inbox'[c] \in {inbox[c], <<>>}
  BY DEF Shrink, Shrinks
<1> QED BY <1>1, <1>2, <1>3, <1>4, <1>5, <1>6, <1>7, <1>8 DEF PipesMove, Sent

\* A frame a caller has yet to read was there before or is the one written now.
LEMMA OutboxFrom ==
    ASSUME HostTypes, PipesMove, NEW c \in Conn, NEW i \in DOMAIN outbox'[c]
    PROVE  \/ \E j \in DOMAIN outbox[c] : outbox'[c][i] = outbox[c][j]
           \/ /\ HostDoes(c) /\ next_id' = next_id
              /\ \/ \E kind : Reading(c, kind) /\ outbox'[c][i].id = inbox[c][1].id
                 \/ outbox'[c][i].id = host_active[c]
              /\ outbox'[c][i].kind = "completed" =>
                   outbox'[c][i].id = host_active[c] /\ ~cancelled[c] /\ Finishes(c)
<1>0. outbox[c] \in Seq(OutFrame)
  BY HostParts
<1>1. CASE outbox'[c] = outbox[c]
  BY <1>1
<1>2. CASE outbox'[c] = <<>>
  BY <1>2
<1>3. CASE outbox[c] # <<>> /\ outbox'[c] = Tail(outbox[c])
  BY <1>0, <1>3, TailAt
<1>4. ASSUME NEW d \in Conn, d # c,
             HostDoes(d) \/ Taken(d) \/ \E f \in InFrame : Written(d, f)
      PROVE  outbox'[c] = outbox[c]
  BY <1>4, Elsewhere1
<1>5. CASE HostDoes(c) /\ outbox'[c] # outbox[c] /\ next_id' = next_id
  <2>1. PICK f \in OutFrame :
                 /\ outbox'[c] = Append(outbox[c], f)
                 /\ \/ \E kind : Reading(c, kind) /\ f.id = inbox[c][1].id
                    \/ f.id = host_active[c]
                 /\ f.kind = "completed" =>
                      f.id = host_active[c] /\ ~cancelled[c] /\ Finishes(c)
    BY <1>5, HostWrites
  <2>2. \/ \E j \in DOMAIN outbox[c] : outbox'[c][i] = outbox[c][j]
        \/ outbox'[c][i] = f
    BY <1>0, <2>1, AppendAt
  <2> QED BY <1>5, <2>1, <2>2
<1>6. Taken(c) => outbox[c] # <<>> /\ outbox'[c] = Tail(outbox[c])
  BY DEF Taken
<1>7. (\E f \in InFrame : Written(c, f)) => outbox'[c] = outbox[c]
  BY DEF Written
<1>8. Shrink => outbox'[c] \in {outbox[c], <<>>}
  BY DEF Shrink, Shrinks
<1> QED BY <1>1, <1>2, <1>3, <1>4, <1>5, <1>6, <1>7, <1>8 DEF PipesMove, Sent

\* The active synthesis of a helper was active before or is the one admitted now.
LEMMA ActiveFrom ==
    ASSUME HostTypes, PipesMove, NEW c \in Conn
    PROVE  \/ host_active'[c] = host_active[c]
           \/ host_active'[c] = 0
           \/ Admits(c) /\ host_active'[c] = inbox[c][1].id /\ next_id' = next_id
<1>1. ASSUME NEW d \in Conn, d # c,
             HostDoes(d) \/ Taken(d) \/ \E f \in InFrame : Written(d, f)
      PROVE  host_active'[c] = host_active[c]
  BY <1>1, Elsewhere1
<1>2. ASSUME HostDoes(c)
      PROVE  \/ host_active'[c] = host_active[c]
             \/ host_active'[c] = 0
             \/ Admits(c) /\ host_active'[c] = inbox[c][1].id
  BY <1>2 DEF HostDoes, Admits, Answers, Cancels, Declines, Works, Finishes, Host
<1>3. Taken(c) \/ (\E f \in InFrame : Written(c, f)) => host_active'[c] = host_active[c]
  BY DEF Taken, Written
<1>4. Shrink => host_active'[c] \in {host_active[c], 0}
  BY DEF Shrink, Shrinks
<1> QED BY <1>1, <1>2, <1>3, <1>4 DEF PipesMove, Sent

----------------------------------------------------------
(* Numbers in use are below the next one *)

LEMMA UsedPipes ==
    ASSUME IInv, Moved, NEW c \in Conn
    PROVE  /\ \A i \in DOMAIN inbox'[c] : inbox'[c][i].id < next_id'
           /\ \A i \in DOMAIN outbox'[c] : outbox'[c][i].id < next_id'
           /\ host_active'[c] < next_id'
<1> USE DEF IInv
<1>0. PipesMove /\ next_id \in Nat /\ next_id' \in Nat /\ next_id <= next_id'
  <2>1. PipesMove
    BY EveryPipeStep
  <2>2. next_id \in Nat /\ next_id' \in Nat
    BY EngineTypesStep DEF EngineTypes
  <2> QED BY <2>1, <2>2 DEF PipesMove, Sent
<1>1. /\ \A i \in DOMAIN inbox[c] : inbox[c][i].id < next_id /\ inbox[c][i].id \in Id
      /\ \A i \in DOMAIN outbox[c] : outbox[c][i].id < next_id /\ outbox[c][i].id \in Id
      /\ host_active[c] < next_id /\ host_active[c] \in Nat
  <2>1. inbox[c] \in Seq(InFrame) /\ outbox[c] \in Seq(OutFrame) /\ host_active[c] \in Id \cup {0}
    BY HostParts
  <2>2. \A i \in DOMAIN inbox[c] : inbox[c][i] \in InFrame
    BY <2>1
  <2>3. \A i \in DOMAIN outbox[c] : outbox[c][i] \in OutFrame
    BY <2>1
  <2> QED BY <2>1, <2>2, <2>3, FrameTypes DEF Used, Id
<1>2. ASSUME NEW kind, Reading(c, kind) PROVE inbox[c][1].id < next_id /\ inbox[c][1].id \in Nat
  <2>1. 1 \in DOMAIN inbox[c]
    BY <1>2, TailAt DEF Reading
  <2> QED BY <1>1, <2>1 DEF Id
<1>3. ASSUME NEW x \in Nat, x < next_id PROVE x < next_id'
  BY <1>0, <1>3
<1>4. ASSUME NEW i \in DOMAIN inbox'[c] PROVE inbox'[c][i].id < next_id'
  <2>1. CASE \E j \in DOMAIN inbox[c] : inbox'[c][i] = inbox[c][j]
    BY <1>1, <1>3, <2>1 DEF Id
  <2>2. CASE \E f \in InFrame : Sent(c, f) /\ inbox'[c][i] = f
    BY <1>0, <2>2 DEF Sent
  <2> QED BY <1>0, <2>1, <2>2, InboxFrom
<1>5. ASSUME NEW i \in DOMAIN outbox'[c] PROVE outbox'[c][i].id < next_id'
  <2>1. CASE \E j \in DOMAIN outbox[c] : outbox'[c][i] = outbox[c][j]
    BY <1>1, <1>3, <2>1 DEF Id
  <2>2. CASE \/ \E kind : Reading(c, kind) /\ outbox'[c][i].id = inbox[c][1].id
             \/ outbox'[c][i].id = host_active[c]
    BY <1>1, <1>2, <1>3, <2>2
  <2> QED BY <1>0, <2>1, <2>2, OutboxFrom
<1>6. host_active'[c] < next_id'
  <2>1. CASE host_active'[c] = host_active[c]
    BY <1>1, <1>3, <2>1
  <2>2. CASE host_active'[c] = 0
    BY <2>2, EngineTypesStep DEF EngineTypes
  <2>3. CASE Admits(c) /\ host_active'[c] = inbox[c][1].id
    BY <1>2, <1>3, <2>3 DEF Admits
  <2> QED BY <1>0, <2>1, <2>2, <2>3, ActiveFrom
<1> QED BY <1>4, <1>5, <1>6

LEMMA UsedStep ==
    ASSUME IInv, Moved
    PROVE  Used'
<1> USE DEF IInv
<1>0. /\ PipesMove /\ next_id \in Nat \ {0} /\ next_id' \in Nat \ {0} /\ next_id <= next_id'
      /\ \A x \in Nat : x < next_id => x < next_id'
      /\ next_id' = next_id + 1 => next_id < next_id'
      /\ 0 < next_id'
  <2>1. PipesMove
    BY EveryPipeStep
  <2>2. next_id \in Nat \ {0} /\ next_id' \in Nat \ {0}
    BY EngineTypesStep DEF EngineTypes
  <2>3. next_id <= next_id'
    BY <2>1, <2>2 DEF PipesMove, Sent
  <2> QED BY <2>1, <2>2, <2>3
<1>1. /\ \A k \in Caller : call[k].id \in Nat /\ call[k].id < next_id
      /\ active \in Nat /\ active < next_id
      /\ \A r \in accepted : r \in Nat /\ r < next_id
      /\ \A x \in Id : x >= next_id => cancel[x] = NoCancel /\ outcome[x] = "none"
      /\ DOMAIN outcome = Id
  BY HostParts DEF EngineTypes, HostTypes, CallRecord, Used, Id
<1>2. \A c \in Conn : /\ \A i \in DOMAIN inbox'[c] : inbox'[c][i].id < next_id'
                      /\ \A i \in DOMAIN outbox'[c] : outbox'[c][i].id < next_id'
                      /\ host_active'[c] < next_id'
  BY UsedPipes
<1>3. \A r \in accepted' : r < next_id'
  <2>1. ASSUME accepted' = accepted PROVE \A r \in accepted' : r < next_id'
    BY <1>0, <1>1, <2>1
  <2>2. ASSUME NEW c \in Conn, Cancels(c) PROVE \A r \in accepted' : r < next_id'
    <3>1. accepted' = accepted \cup {host_active[c]} /\ host_active[c] \in Id
      BY <2>2 DEF Cancels
    <3>2. host_active[c] \in Nat /\ host_active[c] < next_id
      BY <3>1 DEF Used, Id
    <3> QED BY <1>0, <1>1, <3>1, <3>2
  <2>3. ASSUME NEW c \in Conn, HostDoes(c), ~Cancels(c) PROVE accepted' = accepted
    BY <2>3 DEF HostDoes, Admits, Answers, Declines, Works, Finishes
  <2> QED BY <1>0, <2>1, <2>2, <2>3 DEF PipesMove, Shrink, Sent, Written, Taken
<1>4. ASSUME NEW k \in Caller, CallMoves(k)
      PROVE  /\ call'[k].id < next_id' /\ active' < next_id'
             /\ \/ outcome' = outcome
                \/ \E r \in Nat : \E how :
                      outcome' = [outcome EXCEPT ![r] = how] /\ r < next_id'
  <2>1. CASE Begins(k)
    BY <1>0, <1>1, <2>1 DEF Begins
  <2>2. ASSUME Leaves(k) PROVE call'[k].id < next_id'
    BY <1>0, <2>2, NoCallType DEF Leaves, CallEnds
  <2>3. ASSUME NEW at, NEW conn, NEW result, CallTo(k, at, conn, call[k].id, result)
        PROVE  call'[k].id < next_id'
    BY <1>0, <1>1, <2>3 DEF CallTo
  <2>4. CASE Enters(k) \/ Connects(k) \/ Publishes(k) \/ GivesUp(k)
    BY <1>0, <1>1, <2>2, <2>3, <2>4 DEF Enters, Connects, Publishes, GivesUp, Moves
  <2>5. CASE Retires(k)
    BY <1>0, <1>1, <2>2, <2>3, <2>5 DEF Retires, Moves
  <2>6. CASE Loses(k) \/ TakesAudio(k) \/ TakesOther(k) \/ TakesTerminal(k)
    BY <1>0, <1>1, <2>3, <2>6 DEF Loses, TakesAudio, TakesOther, TakesTerminal
  <2>7. CASE Dispatches(k)
    <3>1. next_id' = next_id + 1 /\ (active' = active \/ active' = next_id)
      BY <2>7 DEF Dispatches
    <3>2. outcome' = outcome \/ \E how : outcome' = [outcome EXCEPT ![next_id] = how]
      BY <2>7 DEF Dispatches
    <3>3. Leaves(k) \/ call'[k].id = next_id
      BY <2>7 DEF Dispatches, CallTo
    <3> QED BY <1>0, <1>1, <2>2, <3>1, <3>2, <3>3
  <2>8. CASE TakesAnswer(k) \/ Invalidates(k) \/ Drops(k)
    <3>1. active' \in {0, active}
      BY <2>8 DEF TakesAnswer, Invalidates, Drops
    <3>2. outcome' = outcome \/ \E how : outcome' = [outcome EXCEPT ![call[k].id] = how]
      BY <2>8 DEF TakesAnswer, Invalidates, Drops
    <3>3. call'[k].id < next_id'
      BY <2>2, <2>3, <2>8 DEF TakesAnswer, Invalidates, Drops, Moves
    <3> QED BY <1>0, <1>1, <3>1, <3>2, <3>3
  <2>9. CASE Queries(k)
    BY <1>0, <1>1, <2>9 DEF Queries
  <2> QED BY <1>4, <2>1, <2>4, <2>5, <2>6, <2>7, <2>8, <2>9 DEF CallMoves
<1>5. \A k \in Caller : call'[k].id < next_id'
  <2>1. ASSUME NEW j \in Caller, call'[j] = call[j] PROVE call'[j].id < next_id'
    BY <1>0, <1>1, <2>1
  <2> QED BY <1>4, <2>1, OthersRest, CallsRest
<1>6. active' < next_id'
  BY <1>0, <1>1, <1>4, CallsRest
<1>7. ASSUME NEW x \in Id, x >= next_id' PROVE outcome'[x] = "none"
  <2>1. outcome[x] = "none" /\ x \in Nat /\ x >= next_id
    BY <1>0, <1>1, <1>7 DEF Id
  <2>2. CASE outcome' = outcome
    BY <2>1, <2>2
  <2>3. ASSUME NEW r \in Nat, NEW how, outcome' = [outcome EXCEPT ![r] = how], r < next_id'
        PROVE  outcome'[x] = "none"
    <3>1. r # x
      BY <1>0, <1>7, <2>1, <2>3
    <3> QED BY <1>1, <2>1, <2>3, <3>1
  <2> QED BY <1>4, <2>2, <2>3, CallsRest
<1>8. ASSUME NEW x \in Id, x >= next_id' PROVE cancel'[x] = NoCancel
  <2>1. cancel[x] = NoCancel /\ x \in Nat /\ x >= next_id
    BY <1>0, <1>1, <1>8 DEF Id
  <2>2. CASE CancelsAdvance
    BY <2>1, <2>2 DEF CancelsAdvance, Advances
  <2>3. CASE SendsCancel
    <3>1. x # next_id
      BY <1>0, <1>8, <2>1, <2>3 DEF SendsCancel
    <3> QED BY <2>1, <2>3, <3>1, SendsCancelEffect
  <2> QED BY <2>2, <2>3, EveryCancelStep
<1> QED BY <1>2, <1>3, <1>5, <1>6, <1>7, <1>8 DEF Used

----------------------------------------------------------
(* One request at a time on a connection: the pipes *)

\* A frame is a request, or a cancel; it is final, or an answer to a cancel, or neither.
LEMMA KindsOfFrames ==
    /\ \A f : f.kind = "cancel" => ~IsRequest(f)
    /\ \A f : f.kind \in {"synthesize", "query"} => IsRequest(f)
    /\ \A f : f.kind \in {"cancel_accepted", "cancel_refused"} =>
                 IsCancelAnswer(f) /\ ~IsFinal(f)
    /\ \A f : IsCancelAnswer(f) => ~IsFinal(f)
    /\ \A f : f.kind = "audio" => ~IsFinal(f) /\ ~IsCancelAnswer(f)
    /\ \A f : f.kind \in Terminal \cup {"busy", "answer"} => IsFinal(f)
BY DEF IsRequest, IsCancelAnswer, IsFinal, Terminal, NativeResult

LEMMA QuietShrinks ==
    ASSUME NEW c \in Conn, Shrinks(c), Quiet(c)
    PROVE  Quiet(c)'
BY DEF Shrinks, Quiet, NoRequest, OnlyAnswers

LEMMA OneRequestShrinks ==
    ASSUME NEW c \in Conn, NEW r, Shrinks(c), OneRequest(c, r)
    PROVE  OneRequest(c, r)'
BY DEF Shrinks, OneRequest, NoRequest, OnlyAnswers

\* What neither shortens a pipe nor fills it leaves its connection as it was.
LEMMA SameShrinks ==
    ASSUME NEW d \in Conn,
           inbox'[d] = inbox[d], outbox'[d] = outbox[d], host_active'[d] = host_active[d],
           cancelled'[d] = cancelled[d], worker'[d] = worker[d]
    PROVE  Shrinks(d)
BY DEF Shrinks

LEMMA QuietWritten ==
    ASSUME HostTypes, NEW c \in Conn, NEW f \in InFrame, Written(c, f), Quiet(c)
    PROVE  /\ f.kind = "cancel" => Quiet(c)'
           /\ f.kind \in {"synthesize", "query"} => OneRequest(c, f.id)'
<1>1. /\ inbox'[c] = Append(inbox[c], f) /\ inbox[c] \in Seq(InFrame)
      /\ outbox'[c] = outbox[c] /\ host_active'[c] = host_active[c]
  BY HostParts DEF Written
<1>2. /\ DOMAIN inbox'[c] = DOMAIN inbox[c] \cup {Len(inbox[c]) + 1}
      /\ \A i \in DOMAIN inbox[c] : inbox'[c][i] = inbox[c][i] /\ ~IsRequest(inbox[c][i])
      /\ inbox'[c][Len(inbox[c]) + 1] = f
  BY <1>1, AppendAt DEF Quiet, NoRequest
<1>4. ASSUME f.kind = "cancel" PROVE Quiet(c)'
  <2>1. ~IsRequest(f)
    BY <1>4, KindsOfFrames
  <2>2. \A i \in DOMAIN inbox'[c] : ~IsRequest(inbox'[c][i])
    BY <1>2, <2>1
  <2> QED BY <1>1, <2>2 DEF Quiet, NoRequest, OnlyAnswers
<1>5. ASSUME f.kind \in {"synthesize", "query"} PROVE OneRequest(c, f.id)'
  <2> DEFINE n == Len(inbox[c]) + 1
  <2>1. \A i \in DOMAIN inbox'[c] : IsRequest(inbox'[c][i]) => i = n
    BY <1>2
  <2>2. inbox'[c][n].id = f.id
    BY <1>2
  <2>3. /\ host_active'[c] = 0 /\ OnlyAnswers(outbox'[c])
    BY <1>1 DEF Quiet, OnlyAnswers
  <2>4. \A i \in DOMAIN outbox'[c] : IsCancelAnswer(outbox'[c][i]) /\ ~IsFinal(outbox'[c][i])
    BY <2>3, KindsOfFrames DEF OnlyAnswers
  <2> HIDE DEF n
  <2> QED BY <2>1, <2>2, <2>3, <2>4 DEF OneRequest, OnlyAnswers
<1> QED BY <1>4, <1>5

LEMMA OneRequestWritten ==
    ASSUME HostTypes, NEW c \in Conn, NEW f \in InFrame, NEW r, Written(c, f),
           f.kind = "cancel", OneRequest(c, r)
    PROVE  OneRequest(c, r)'
<1>1. /\ inbox'[c] = Append(inbox[c], f) /\ inbox[c] \in Seq(InFrame)
      /\ outbox'[c] = outbox[c] /\ host_active'[c] = host_active[c]
  BY HostParts DEF Written
<1>2. /\ DOMAIN inbox'[c] = DOMAIN inbox[c] \cup {Len(inbox[c]) + 1}
      /\ \A i \in DOMAIN inbox[c] : inbox'[c][i] = inbox[c][i]
      /\ inbox'[c][Len(inbox[c]) + 1] = f
  BY <1>1, AppendAt
<1>3. ~IsRequest(f)
  BY KindsOfFrames
<1>4. \A i \in DOMAIN inbox'[c] :
         IsRequest(inbox'[c][i]) => i \in DOMAIN inbox[c] /\ inbox'[c][i] = inbox[c][i]
  BY <1>2, <1>3
<1>5. NoRequest(inbox[c]) => NoRequest(inbox'[c])
  BY <1>4 DEF NoRequest
<1> QED BY <1>1, <1>4, <1>5 DEF OneRequest

\* The request of a connection stays there until its final frame is read.
LEMMA OneRequestTaken ==
    ASSUME HostTypes, NEW c \in Conn, NEW r, Taken(c), OneRequest(c, r)
    PROVE  /\ OneRequest(c, r)'
           /\ IsFinal(outbox[c][1]) => Quiet(c)'
           /\ IsCancelAnswer(outbox[c][1]) \/ outbox[c][1].id = r
           /\ outbox[c][1].kind # "busy"
<1>1. /\ outbox[c] \in Seq(OutFrame) /\ outbox[c] # <<>> /\ outbox'[c] = Tail(outbox[c])
      /\ inbox'[c] = inbox[c] /\ host_active'[c] = host_active[c]
  BY DEF Taken
<1>2. /\ 1 \in DOMAIN outbox[c]
      /\ \A i \in DOMAIN outbox'[c] :
            i + 1 \in DOMAIN outbox[c] /\ outbox'[c][i] = outbox[c][i + 1] /\ i + 1 # 1
            /\ i \in Int
      /\ \A i \in DOMAIN outbox[c] : i # 1 => i \in Int /\ i > 1
  BY <1>1, TailAt
<1>3. OnlyAnswers(outbox[c]) => OnlyAnswers(outbox'[c])
  BY <1>2 DEF OnlyAnswers
<1>4. ASSUME NEW i \in DOMAIN outbox'[c]
      PROVE  /\ IsCancelAnswer(outbox'[c][i]) \/ outbox'[c][i].id = r
             /\ IsFinal(outbox'[c][i]) =>
                  /\ outbox'[c][i].kind # "busy"
                  /\ NoRequest(inbox'[c]) /\ host_active'[c] = 0
                  /\ \A j \in DOMAIN outbox'[c] : j > i => IsCancelAnswer(outbox'[c][j])
  <2>1. i + 1 \in DOMAIN outbox[c] /\ outbox'[c][i] = outbox[c][i + 1]
    BY <1>2
  <2>2. \A j \in DOMAIN outbox'[c] : j > i => j + 1 > i + 1
    BY <1>2
  <2> QED BY <1>1, <1>2, <2>1, <2>2 DEF OneRequest
<1>5. OneRequest(c, r)'
  BY <1>1, <1>3, <1>4 DEF OneRequest
<1>6. ASSUME IsFinal(outbox[c][1]) PROVE Quiet(c)'
  <2>1. NoRequest(inbox'[c]) /\ host_active'[c] = 0
    BY <1>1, <1>2, <1>6 DEF OneRequest
  <2>2. \A i \in DOMAIN outbox'[c] : IsCancelAnswer(outbox'[c][i])
    BY <1>2, <1>6 DEF OneRequest
  <2> QED BY <2>1, <2>2 DEF Quiet, OnlyAnswers, NoRequest
<1>7. outbox[c][1].kind # "busy"
  BY <1>2, KindsOfFrames DEF OneRequest
<1> QED BY <1>2, <1>5, <1>6, <1>7 DEF OneRequest

\* A helper with no request only answers cancels.
LEMMA QuietHost ==
    ASSUME HostTypes, NEW c \in Conn, HostDoes(c), Quiet(c)
    PROVE  Quiet(c)'
<1>1. \A kind : Reading(c, kind) => 1 \in DOMAIN inbox[c] /\ ~IsRequest(inbox[c][1])
  BY TailAt DEF Reading, Quiet, NoRequest
<1>2. host_active[c] = 0 /\ host_active[c] \notin Id
  BY DEF Quiet, Id
<1>3. ~Admits(c) /\ ~Answers(c) /\ ~Works(c) /\ ~Finishes(c) /\ ~Cancels(c)
  <2>1. ~Reading(c, "synthesize") /\ ~Reading(c, "query")
    BY <1>1, KindsOfFrames DEF Reading
  <2>2. ~Admits(c) /\ ~Answers(c)
    BY <2>1 DEF Admits, Answers
  <2> QED BY <1>2, <2>2 DEF Works, Finishes, Cancels
<1>4. Declines(c)
  BY <1>3 DEF HostDoes
<1> DEFINE f == Frame("cancel_refused", inbox[c][1].id)
<1>5. /\ Reading(c, "cancel") /\ inbox'[c] = Tail(inbox[c]) /\ host_active'[c] = host_active[c]
      /\ outbox'[c] = Append(outbox[c], f)
  BY <1>4 DEF Declines, Host
<1>6. f \in OutFrame /\ IsCancelAnswer(f)
  <2>1. inbox[c][1].id \in Id
    BY <1>5, FrameTypes DEF Reading
  <2>2. f \in OutFrame /\ f.kind = "cancel_refused"
    BY <2>1, FrameTypes
  <2> QED BY <2>2 DEF IsCancelAnswer
<1> HIDE DEF f
<1>7. NoRequest(inbox'[c])
  BY <1>5, TailAt DEF Reading, Quiet, NoRequest
<1>8. OnlyAnswers(outbox'[c])
  <2>1. outbox[c] \in Seq(OutFrame)
    BY HostParts
  <2> QED BY <1>5, <1>6, <2>1, AppendAt DEF Quiet, OnlyAnswers
<1> QED BY <1>2, <1>5, <1>7, <1>8 DEF Quiet, NoRequest, OnlyAnswers

\* What is added to the pipe from a helper, and the rest is as it was.
LEMMA OutboxAppended ==
    ASSUME HostTypes, NEW c \in Conn, NEW f \in OutFrame, outbox'[c] = Append(outbox[c], f)
    PROVE  \E n \in Int :
             /\ n \notin DOMAIN outbox[c] /\ DOMAIN outbox'[c] = DOMAIN outbox[c] \cup {n}
             /\ outbox'[c][n] = f
             /\ \A i \in DOMAIN outbox[c] : outbox'[c][i] = outbox[c][i] /\ i \in Int /\ i < n
<1>1. outbox[c] \in Seq(OutFrame)
  BY HostParts
<1> QED BY <1>1, AppendAt

\* What is left in the pipe to a helper once it has read a frame.
LEMMA InboxTail ==
    ASSUME NEW c \in Conn, NEW kind, Reading(c, kind), inbox'[c] = Tail(inbox[c])
    PROVE  /\ 1 \in DOMAIN inbox[c]
           /\ \A i \in DOMAIN inbox'[c] : /\ i \in Int /\ i + 1 \in DOMAIN inbox[c]
                                          /\ inbox'[c][i] = inbox[c][i + 1] /\ i + 1 # 1
           /\ \A i, j \in DOMAIN inbox'[c] : i + 1 = j + 1 => i = j
BY TailAt DEF Reading

\* The request of a connection goes through its helper once.
LEMMA OneRequestHost ==
    ASSUME HostTypes, NEW c \in Conn, NEW r, HostDoes(c), OneRequest(c, r)
    PROVE  OneRequest(c, r)'
<1>0. host_active[c] \in {0, r} /\ 0 \notin Id
  BY DEF OneRequest, Id
<1>1. ASSUME NEW kind, Reading(c, kind), IsRequest(inbox[c][1]), inbox'[c] = Tail(inbox[c])
      PROVE  /\ inbox[c][1].id = r /\ host_active[c] = 0 /\ OnlyAnswers(outbox[c])
             /\ NoRequest(inbox'[c])
  <2>1. /\ 1 \in DOMAIN inbox[c]
        /\ \A i \in DOMAIN inbox'[c] : i + 1 \in DOMAIN inbox[c] /\ i + 1 # 1
                                       /\ inbox'[c][i] = inbox[c][i + 1]
    BY <1>1, InboxTail
  <2> QED BY <1>1, <2>1 DEF OneRequest, NoRequest
<1>2. CASE Admits(c)
  <2>1. /\ Reading(c, "synthesize") /\ inbox'[c] = Tail(inbox[c]) /\ outbox'[c] = outbox[c]
        /\ host_active'[c] = inbox[c][1].id /\ IsRequest(inbox[c][1])
    BY <1>2, KindsOfFrames DEF Admits, Reading, Host
  <2>2. host_active'[c] = r /\ OnlyAnswers(outbox'[c]) /\ NoRequest(inbox'[c])
    BY <1>1, <2>1
  <2> QED BY <2>2, KindsOfFrames DEF OneRequest, OnlyAnswers, NoRequest
<1>3. CASE Answers(c)
  <2>1. PICK request \in {"synthesize", "query"}, kind \in {"refused", "busy", "answer"} :
          /\ Reading(c, request)
          /\ kind = "busy" => host_active[c] # 0
          /\ Host(c, Tail(inbox[c]), Append(outbox[c], Frame(kind, inbox[c][1].id)),
                  host_active[c], cancelled[c], worker[c])
    BY <1>3 DEF Answers
  <2> DEFINE f == Frame(kind, inbox[c][1].id)
  <2>2. /\ inbox'[c] = Tail(inbox[c]) /\ outbox'[c] = Append(outbox[c], f)
        /\ host_active'[c] = host_active[c] /\ IsRequest(inbox[c][1])
    BY <2>1, KindsOfFrames DEF Reading, Host
  <2>3. f \in OutFrame /\ f.id = inbox[c][1].id /\ f.kind = kind
    <3>1. inbox[c][1].id \in Id
      BY <2>1, FrameTypes DEF Reading
    <3> QED BY <3>1, FrameTypes DEF Terminal, NativeResult
  <2> HIDE DEF f
  <2>4. /\ f.id = r /\ f.kind # "busy" /\ host_active'[c] = 0 /\ OnlyAnswers(outbox[c])
        /\ NoRequest(inbox'[c])
    BY <1>1, <2>1, <2>2, <2>3
  <2>5. PICK n \in Int :
           /\ n \notin DOMAIN outbox[c] /\ DOMAIN outbox'[c] = DOMAIN outbox[c] \cup {n}
           /\ outbox'[c][n] = f
           /\ \A i \in DOMAIN outbox[c] : outbox'[c][i] = outbox[c][i] /\ i \in Int /\ i < n
    BY <2>2, <2>3, OutboxAppended
  <2>6. ASSUME NEW i \in DOMAIN outbox'[c]
        PROVE  \/ IsCancelAnswer(outbox'[c][i]) /\ ~IsFinal(outbox'[c][i])
               \/ /\ outbox'[c][i].id = r /\ outbox'[c][i].kind # "busy"
                  /\ \A j \in DOMAIN outbox'[c] : ~(j > i)
    BY <2>4, <2>5, KindsOfFrames DEF OnlyAnswers
  <2> QED BY <2>4, <2>6 DEF OneRequest, NoRequest
<1>4. CASE Cancels(c) \/ Declines(c)
  <2>1. PICK kind \in {"cancel_accepted", "cancel_refused"} :
          /\ Reading(c, "cancel") /\ inbox'[c] = Tail(inbox[c])
          /\ outbox'[c] = Append(outbox[c], Frame(kind, inbox[c][1].id))
          /\ host_active'[c] = host_active[c]
    BY <1>4 DEF Cancels, Declines, Host
  <2> DEFINE f == Frame(kind, inbox[c][1].id)
  <2>2. f \in OutFrame /\ IsCancelAnswer(f) /\ ~IsFinal(f)
    <3>1. inbox[c][1].id \in Id
      BY <2>1, FrameTypes DEF Reading
    <3>2. f \in OutFrame /\ f.kind = kind
      BY <3>1, FrameTypes
    <3> QED BY <3>2, KindsOfFrames
  <2>3. PICK n \in Int :
           /\ n \notin DOMAIN outbox[c] /\ DOMAIN outbox'[c] = DOMAIN outbox[c] \cup {n}
           /\ outbox'[c][n] = f
           /\ \A i \in DOMAIN outbox[c] : outbox'[c][i] = outbox[c][i] /\ i \in Int /\ i < n
    BY <2>1, <2>2, OutboxAppended
  <2> HIDE DEF f
  <2>4. \A i \in DOMAIN inbox'[c] : /\ i + 1 \in DOMAIN inbox[c]
                                    /\ inbox'[c][i] = inbox[c][i + 1] /\ i \in Int
    BY <2>1, InboxTail
  <2>5. OnlyAnswers(outbox[c]) => OnlyAnswers(outbox'[c])
    BY <2>2, <2>3 DEF OnlyAnswers
  <2>6. NoRequest(inbox[c]) => NoRequest(inbox'[c])
    BY <2>4 DEF NoRequest
  <2>7. ASSUME NEW i \in DOMAIN inbox'[c], IsRequest(inbox'[c][i])
        PROVE  /\ inbox'[c][i].id = r /\ host_active'[c] = 0 /\ OnlyAnswers(outbox'[c])
               /\ \A j \in DOMAIN inbox'[c] : IsRequest(inbox'[c][j]) => j = i
    <3>1. /\ inbox'[c][i].id = r /\ host_active[c] = 0 /\ OnlyAnswers(outbox[c])
          /\ \A j \in DOMAIN inbox[c] : IsRequest(inbox[c][j]) => j = i + 1
      BY <2>4, <2>7 DEF OneRequest
    <3>2. \A j \in DOMAIN inbox'[c] : IsRequest(inbox'[c][j]) => j + 1 = i + 1
      BY <2>4, <3>1
    <3>3. \A j \in DOMAIN inbox'[c] : IsRequest(inbox'[c][j]) => j = i
      BY <2>4, <3>2
    <3>4. OnlyAnswers(outbox'[c]) /\ host_active'[c] = 0
      BY <2>1, <2>5, <3>1
    <3> QED BY <3>1, <3>3, <3>4
  <2>8. ASSUME NEW i \in DOMAIN outbox'[c]
        PROVE  /\ IsCancelAnswer(outbox'[c][i]) \/ outbox'[c][i].id = r
               /\ IsFinal(outbox'[c][i]) =>
                    /\ outbox'[c][i].kind # "busy"
                    /\ NoRequest(inbox'[c]) /\ host_active'[c] = 0
                    /\ \A j \in DOMAIN outbox'[c] : j > i => IsCancelAnswer(outbox'[c][j])
    BY <2>1, <2>2, <2>3, <2>6 DEF OneRequest
  <2> QED BY <1>0, <2>1, <2>7, <2>8 DEF OneRequest
<1>5. CASE host_active[c] \in Id /\ inbox'[c] = inbox[c]
  <2>1. /\ host_active[c] = r /\ host_active[c] # 0 /\ NoRequest(inbox'[c])
        /\ \A i \in DOMAIN outbox[c] : ~IsFinal(outbox[c][i])
    BY <1>0, <1>5 DEF OneRequest, NoRequest
  <2>2. ASSUME outbox'[c] = outbox[c], host_active'[c] = host_active[c] PROVE OneRequest(c, r)'
    BY <1>5, <2>1, <2>2 DEF OneRequest, NoRequest
  <2>3. ASSUME NEW f \in OutFrame, f.id = r, f.kind # "busy",
               outbox'[c] = Append(outbox[c], f),
               host_active'[c] \in {0, r}, IsFinal(f) => host_active'[c] = 0
        PROVE  OneRequest(c, r)'
    <3>1. PICK n \in Int :
             /\ n \notin DOMAIN outbox[c] /\ DOMAIN outbox'[c] = DOMAIN outbox[c] \cup {n}
             /\ outbox'[c][n] = f
             /\ \A i \in DOMAIN outbox[c] : outbox'[c][i] = outbox[c][i] /\ i \in Int /\ i < n
      BY <2>3, OutboxAppended
    <3>2. ASSUME NEW i \in DOMAIN outbox'[c]
          PROVE  /\ IsCancelAnswer(outbox'[c][i]) \/ outbox'[c][i].id = r
                 /\ IsFinal(outbox'[c][i]) =>
                      /\ outbox'[c][i].kind # "busy"
                      /\ NoRequest(inbox'[c]) /\ host_active'[c] = 0
                      /\ \A j \in DOMAIN outbox'[c] : j > i => IsCancelAnswer(outbox'[c][j])
      <4>1. CASE i = n
        BY <2>1, <2>3, <3>1, <4>1
      <4>2. CASE i \in DOMAIN outbox[c]
        BY <2>1, <3>1, <4>2 DEF OneRequest
      <4> QED BY <3>1, <4>1, <4>2
    <3> QED BY <2>1, <2>3, <3>2 DEF OneRequest, NoRequest
  <2>4. CASE Works(c)
    <3> DEFINE f == Frame("audio", host_active[c])
    <3>1. f \in OutFrame /\ f.id = r /\ f.kind = "audio"
      BY SMTT(60), <1>5, <2>1, FrameTypes
    <3>2. /\ outbox'[c] \in {outbox[c], Append(outbox[c], f)}
          /\ host_active'[c] = host_active[c]
      BY <2>4 DEF Works, Host
    <3> HIDE DEF f
    <3> QED BY <2>1, <2>2, <2>3, <3>1, <3>2, KindsOfFrames
  <2>5. CASE Finishes(c)
    <3>1. PICK kind \in Terminal :
            /\ outbox'[c] = Append(outbox[c], Frame(kind, host_active[c]))
            /\ host_active'[c] = 0
      BY <2>5 DEF Finishes, Host
    <3> DEFINE f == Frame(kind, host_active[c])
    <3>2. f \in OutFrame /\ f.id = r /\ f.kind = kind
      BY <1>5, <2>1, FrameTypes
    <3>3. kind # "busy"
      BY DEF Terminal, NativeResult
    <3> HIDE DEF f
    <3> QED BY <2>3, <3>1, <3>2, <3>3 DEF f
  <2>6. CASE ~Works(c) /\ ~Finishes(c)
    <3>1. Admits(c) \/ Answers(c) \/ Cancels(c) \/ Declines(c)
      BY <2>6 DEF HostDoes
    <3> QED BY <1>2, <1>3, <1>4, <3>1
  <2> QED BY <2>4, <2>5, <2>6
<1>6. Works(c) \/ Finishes(c) => host_active[c] \in Id /\ inbox'[c] = inbox[c]
  BY DEF Works, Finishes, Host
<1> QED BY <1>2, <1>3, <1>4, <1>5, <1>6 DEF HostDoes

----------------------------------------------------------
(* One request at a time on a connection: the steps *)

\* A connection on which nothing is under way and that is not published stays so.
LEMMA EmptyStays ==
    ASSUME HostTypes, PipesMove, NEW c \in Conn, c # connection, Empty(c)
    PROVE  Empty(c)'
<1>1. Shrink => Empty(c)'
  BY DEF Shrink, Shrinks, Empty
<1>2. ASSUME NEW d \in Conn, d # c,
             HostDoes(d) \/ Taken(d) \/ \E f \in InFrame : Written(d, f)
      PROVE  Empty(c)'
  BY <1>2, Elsewhere1 DEF Empty
<1>3. ~Taken(c)
  BY DEF Taken, Empty
<1>4. ~HostDoes(c)
  <2>1. \A kind : ~Reading(c, kind)
    BY DEF Reading, Empty
  <2>2. host_active[c] \notin Id
    BY DEF Empty, Id
  <2> QED BY <2>1, <2>2 DEF HostDoes, Admits, Answers, Cancels, Declines, Works, Finishes
<1> QED BY <1>1, <1>2, <1>3, <1>4 DEF PipesMove, Sent

\* A connection that is not open now was not open before, or its process is gone.
LEMMA NotReopened ==
    ASSUME IInv, Moved, NEW c \in Conn, c \notin terminated'
    PROVE  /\ c \notin terminated
           /\ c = connection => c = connection'
<1>1. /\ terminated \subseteq terminated'
      /\ connection' = connection \/ connection = 0 \/ connection \in terminated'
  BY EveryProcessStep, ProcessesStep DEF IInv
<1> QED BY <1>1 DEF Conn

LEMMA ClosedStep ==
    ASSUME IInv, Moved
    PROVE  ClosedIsTerminated'
<1>1. ASSUME NEW c \in Conn, c # connection', c \notin terminated'
      PROVE  Empty(c)'
  <2>1. c # connection /\ c \notin terminated
    BY <1>1, NotReopened
  <2>2. Empty(c)
    BY <2>1 DEF IInv, ClosedIsTerminated
  <2> QED BY <2>1, <2>2, EmptyStays, EveryPipeStep DEF IInv
<1> QED BY <1>1 DEF ClosedIsTerminated

\* A request under way is under way, or has been answered.
LEMMA OneRequestStays ==
    ASSUME IInv, Moved, NEW k \in Caller, Waiting(k), NEW c \in Conn, NEW r,
           c = call[k].conn, r = call[k].id, c \notin terminated
    PROVE  OneRequest(c, r)'
<1> USE DEF IInv
<1>0. PipesMove /\ OneRequest(c, r) /\ Occupies(k, c)
  BY EveryPipeStep DEF OneAtATime, Occupies, Waiting
<1>1. CASE Shrink
  BY <1>0, <1>1, OneRequestShrinks DEF Shrink
<1>2. ASSUME NEW d \in Conn, d # c,
             HostDoes(d) \/ Taken(d) \/ \E f \in InFrame : Written(d, f)
      PROVE  OneRequest(c, r)'
  <2>1. Shrinks(c)
    BY <1>2, Elsewhere1, SameShrinks
  <2> QED BY <1>0, <2>1, OneRequestShrinks
<1>3. ASSUME NEW f \in InFrame, Sent(c, f) PROVE OneRequest(c, r)'
  <2>1. f.kind = "cancel" /\ Written(c, f)
    BY <1>0, <1>3 DEF Sent
  <2> QED BY <1>0, <2>1, OneRequestWritten
<1>4. CASE Taken(c)
  BY <1>0, <1>4, OneRequestTaken
<1>5. CASE HostDoes(c)
  BY <1>0, <1>5, OneRequestHost
<1> QED BY <1>0, <1>1, <1>2, <1>3, <1>4, <1>5 DEF PipesMove, Sent

\* A connection with no request has none until one is sent on it.
LEMMA QuietStays ==
    ASSUME IInv, Moved, NEW c \in Conn, Quiet(c)
    PROVE  \/ Quiet(c)'
           \/ /\ c = connection
              /\ \E k \in Caller : call'[k].at \in {"collect", "answer"} /\ call'[k].conn = c
<1> USE DEF IInv
<1>0. PipesMove
  BY EveryPipeStep
<1>1. CASE Shrink
  BY <1>1, QuietShrinks DEF Shrink
<1>2. ASSUME NEW d \in Conn, d # c,
             HostDoes(d) \/ Taken(d) \/ \E f \in InFrame : Written(d, f)
      PROVE  Quiet(c)'
  <2>1. Shrinks(c)
    BY <1>2, Elsewhere1, SameShrinks
  <2> QED BY <2>1, QuietShrinks
<1>3. ASSUME NEW f \in InFrame, Sent(c, f), f.kind = "cancel" PROVE Quiet(c)'
  <2>1. Written(c, f)
    BY <1>3 DEF Sent
  <2> QED BY <1>3, <2>1, QuietWritten
<1>4. ASSUME NEW f \in InFrame, Sent(c, f), f.kind # "cancel"
      PROVE  /\ c = connection
             /\ \E k \in Caller : call'[k].at \in {"collect", "answer"} /\ call'[k].conn = c
  BY <1>4 DEF Sent
<1>5. CASE Taken(c)
  <2>1. /\ outbox[c] \in Seq(OutFrame) /\ outbox[c] # <<>> /\ outbox'[c] = Tail(outbox[c])
        /\ inbox'[c] = inbox[c] /\ host_active'[c] = host_active[c]
    BY <1>5 DEF Taken
  <2>2. OnlyAnswers(outbox'[c])
    BY <2>1, TailAt DEF Quiet, OnlyAnswers
  <2> QED BY <2>1, <2>2 DEF Quiet, NoRequest, OnlyAnswers
<1>6. CASE HostDoes(c)
  BY <1>6, QuietHost
<1> QED BY <1>0, <1>1, <1>2, <1>3, <1>4, <1>5, <1>6 DEF PipesMove, Sent

\* A call that waits for an answer did so before, or has just sent its request.
LEMMA WaitingFrom ==
    ASSUME IInv, Moved, NEW k \in Caller, Waiting(k)'
    PROVE  \/ Waiting(k) /\ call'[k].conn = call[k].conn /\ call'[k].id = call[k].id
           \/ /\ connection \in Conn \ terminated /\ call'[k].conn = connection
              /\ \A j \in Caller : ~Occupies(j, connection)
              /\ \E f \in InFrame : /\ Written(connection, f) /\ f.id = call'[k].id
                                    /\ f.kind \in {"synthesize", "query"}
<1> USE DEF IInv
<1>0. call'[k].at \in {"collect", "answer"}
  BY DEF Waiting
<1>1. CASE call'[k] = call[k]
  BY <1>1 DEF Waiting
<1>2. CASE CallMoves(k)
  <2>1. ~Leaves(k)
    BY <1>0, NoCallType DEF Leaves, CallEnds
  <2>2. \A at \in Place : Moves(k, at) => at \in {"collect", "answer"}
    BY <1>0 DEF Moves, CallTo
  <2>3. ~Begins(k) /\ ~Enters(k) /\ ~Connects(k) /\ ~Publishes(k) /\ ~GivesUp(k) /\ ~Drops(k)
        /\ ~TakesAnswer(k) /\ ~Invalidates(k)
    BY <1>0, <2>1, <2>2 DEF Begins, Enters, Connects, Publishes, GivesUp, Drops, TakesAnswer,
                            Invalidates, Place, CallTo
  <2>4. ~Loses(k) /\ ~TakesTerminal(k)
    BY <1>0 DEF Loses, TakesTerminal, CallTo
  <2>5. CASE Retires(k)
    BY <1>0, <2>1, <2>2, <2>5 DEF Retires, Place
  <2>6. CASE TakesOther(k) \/ TakesAudio(k)
    BY <1>0, <2>6 DEF TakesOther, TakesAudio, CallTo
  <2>7. CASE Dispatches(k)
    <3>1. /\ CanSend(call[k].conn) /\ Written(call[k].conn, Frame("synthesize", next_id))
          /\ call'[k].conn = call[k].conn /\ call'[k].id = next_id
      BY <2>1, <2>7 DEF Dispatches, CallTo
    <3>2. call[k].at = "dispatch"
      BY <2>7 DEF Dispatches
    <3>3. call[k].conn = connection /\ connection \notin terminated /\ connection \in Conn
      BY <3>1, <3>2, CallsConn DEF CanSend, Standing, Stands
    <3>4. \A j \in Caller : ~Occupies(j, connection)
      BY <3>2 DEF Occupies, Serialised, Locked
    <3> DEFINE f == Frame("synthesize", next_id)
    <3>5. f \in InFrame /\ f.id = next_id /\ f.kind = "synthesize"
      BY <3>2, NumberLeft, FrameTypes
    <3> HIDE DEF f
    <3> QED BY <3>1, <3>3, <3>4, <3>5 DEF f
  <2>8. CASE Queries(k)
    <3>1. /\ CanSend(connection) /\ Written(connection, Frame("query", next_id))
          /\ call'[k].conn = connection /\ call'[k].id = next_id
      BY <1>0, <2>8 DEF Queries
    <3>2. connection \in Conn /\ connection \notin terminated
      BY <2>8, <3>1 DEF Queries, CanSend
    <3>3. \A j \in Caller : ~Occupies(j, connection)
      BY <2>8, EngineAssumption DEF Occupies, Serialised, Locked, Queries
    <3> DEFINE f == Frame("query", next_id)
    <3>4. f \in InFrame /\ f.id = next_id /\ f.kind = "query"
      BY <2>8, NumberLeft, FrameTypes DEF Queries
    <3> HIDE DEF f
    <3> QED BY <3>1, <3>2, <3>3, <3>4 DEF f
  <2> QED BY <1>2, <2>3, <2>4, <2>5, <2>6, <2>7, <2>8 DEF CallMoves
<1> QED BY <1>1, <1>2, OthersRest, CallsRest

\* A call gives up its connection only with the final frame of its request, or with
\* the connection.
LEMMA OccupiesLeft ==
    ASSUME IInv, Moved, NEW k \in Caller, NEW c \in Conn, c = connection, connection' = c,
           Occupies(k, c), ~(call'[k].at \in {"collect", "answer", "invalidate"}
                             /\ call'[k].conn = c)
    PROVE  Taken(c) /\ Waiting(k) /\ IsFinal(outbox[c][1])
<1> USE DEF IInv
<1>1. call'[k] # call[k]
  BY DEF Occupies
<1>2. CallMoves(k)
  BY <1>1, OthersRest, CallsRest
<1>3. call[k].at \in {"collect", "answer", "invalidate"} /\ call[k].conn = c
  BY DEF Occupies
<1>4. \/ Loses(k) \/ TakesOther(k) \/ TakesAudio(k) \/ TakesTerminal(k)
      \/ TakesAnswer(k) \/ Invalidates(k)
  BY <1>2, <1>3 DEF CallMoves, Begins, Enters, Connects, Publishes, Retires, GivesUp,
                    Dispatches, Drops, Queries
<1>5. ~Loses(k) /\ ~TakesOther(k) /\ ~TakesAudio(k)
  BY <1>1, <1>3 DEF Loses, TakesOther, TakesAudio, CallTo, Waiting
<1>6. ~Invalidates(k)
  BY <1>3 DEF Invalidates, Invalidated, Conn
<1>7. CASE TakesTerminal(k)
  BY <1>3, <1>7 DEF TakesTerminal, IsFinal
<1>8. CASE TakesAnswer(k)
  BY <1>3, <1>8 DEF TakesAnswer, IsFinal
<1> QED BY <1>4, <1>5, <1>6, <1>7, <1>8

LEMMA OneAtATimeStep ==
    ASSUME IInv, Moved
    PROVE  OneAtATime'
<1> USE DEF IInv
<1>1. ASSUME NEW k \in Caller, Waiting(k)', call'[k].conn \notin terminated'
      PROVE  OneRequest(call[k].conn, call[k].id)'
  <2>1. PICK c : c = call'[k].conn
    OBVIOUS
  <2>2. PICK r : r = call'[k].id
    OBVIOUS
  <2>3. terminated \subseteq terminated'
    BY EveryProcessStep, ProcessesStep
  <2>4. CASE Waiting(k) /\ c = call[k].conn /\ r = call[k].id
    <3>1. c \in Conn /\ c \notin terminated
      BY <1>1, <2>1, <2>3, <2>4, CallsConn DEF Waiting
    <3>2. OneRequest(c, r)'
      BY <2>4, <3>1, OneRequestStays
    <3> QED BY <2>1, <2>2, <3>2
  <2>5. CASE /\ connection \in Conn \ terminated /\ c = connection
             /\ \A j \in Caller : ~Occupies(j, connection)
             /\ \E f \in InFrame : /\ Written(connection, f) /\ f.id = r
                                   /\ f.kind \in {"synthesize", "query"}
    <3>1. Quiet(c) /\ c \in Conn
      BY <2>5 DEF OneAtATime
    <3>2. PICK f \in InFrame : Written(c, f) /\ f.id = r /\ f.kind \in {"synthesize", "query"}
      BY <2>5
    <3>3. OneRequest(c, r)'
      BY <3>1, <3>2, QuietWritten
    <3> QED BY <2>1, <2>2, <3>3
  <2> QED BY <1>1, <2>1, <2>2, <2>4, <2>5, WaitingFrom
<1>2. ASSUME connection' \in Conn \ terminated', \A k \in Caller : ~Occupies(k, connection)'
      PROVE  Quiet(connection)'
  <2>1. PICK c : c = connection'
    OBVIOUS
  <2>2. c \in Conn /\ c \notin terminated' /\ c \notin terminated
    BY <1>2, <2>1, NotReopened
  <2>3. \A k \in Caller : ~(call'[k].at \in {"collect", "answer", "invalidate"}
                            /\ call'[k].conn = c)
    BY <1>2, <2>1 DEF Occupies
  <2>4. CASE c # connection
    <3>1. Empty(c)
      BY <2>2, <2>4 DEF ClosedIsTerminated
    <3>2. Empty(c)'
      BY <2>2, <2>4, <3>1, EmptyStays, EveryPipeStep
    <3> QED BY <2>1, <3>2 DEF Empty, Quiet, NoRequest, OnlyAnswers
  <2>5. CASE c = connection
    <3>1. ASSUME \A k \in Caller : ~Occupies(k, c) PROVE Quiet(c)'
      <4>1. Quiet(c)
        BY <2>2, <2>5, <3>1 DEF OneAtATime
      <4> QED BY <2>2, <2>3, <4>1, QuietStays
    <3>2. ASSUME NEW k \in Caller, Occupies(k, c) PROVE Quiet(c)'
      <4>1. Taken(c) /\ Waiting(k) /\ IsFinal(outbox[c][1])
        BY <2>1, <2>2, <2>3, <2>5, <3>2, OccupiesLeft
      <4>2. PICK r : r = call[k].id
        OBVIOUS
      <4>3. OneRequest(c, r)
        BY <2>2, <3>2, <4>1, <4>2 DEF OneAtATime, Occupies
      <4> QED BY <2>2, <4>1, <4>3, OneRequestTaken
    <3>3. Quiet(c)'
      BY <3>1, <3>2
    <3> QED BY <2>1, <3>3
  <2> QED BY <2>4, <2>5
<1> QED BY <1>1, <1>2 DEF OneAtATime

----------------------------------------------------------
(* Answers to cancels *)

\* The entry of a cancel whose answer is still to come is kept, unless that answer is
\* the frame read now.
LEMMA KnownStays ==
    ASSUME IInv, Moved, NEW c \in Conn, c \notin terminated', ~Empty(c), NEW x \in Id,
           Known(x, c)
    PROVE  \/ Known(x, c)'
           \/ Taken(c) /\ IsCancelAnswer(outbox[c][1]) /\ outbox[c][1].id = x
<1> USE DEF IInv
<1>0. c \notin terminated /\ c = connection
  BY NotReopened DEF ClosedIsTerminated
<1>1. ASSUME cancel'[x] = cancel[x] PROVE Known(x, c)'
  BY <1>1 DEF Known
<1>2. ASSUME CancelsAdvance, StaysKnown(x) PROVE Known(x, c)'
  BY <1>2 DEF Known, CancelsAdvance, Advances, StaysKnown
<1>3. CASE SendsCancel
  <2>1. x # next_id
    <3>1. ASSUME x = next_id PROVE FALSE
      <4>1. cancel[x] = NoCancel
        BY <3>1 DEF Used, EngineTypes
      <4> QED BY <4>1, NoCancelType DEF Known, Conn
    <3> QED BY <3>1
  <2> QED BY <1>1, <1>3, <2>1, SendsCancelEffect
<1>4. ASSUME NEW k \in Caller, TakesOther(k)
      PROVE  \/ Known(x, c)'
             \/ Taken(c) /\ IsCancelAnswer(outbox[c][1]) /\ outbox[c][1].id = x
  <2> DEFINE d == call[k].conn
             f == outbox[d][1]
  <2>1. Taken(d) /\ d \in Conn /\ d \notin terminated /\ outbox[d] # <<>>
    BY <1>4, CallsConn DEF TakesOther, Taken, Waiting
  <2>2. d = connection
    BY <2>1 DEF ClosedIsTerminated, Empty
  <2>3. cancel'[x] = cancel[x] \/ (IsCancelAnswer(f) /\ x = f.id)
    BY <1>4 DEF TakesOther
  <2> QED BY <1>0, <1>1, <2>1, <2>2, <2>3
<1>5. ASSUME NEW k \in Caller, Retires(k) PROVE Known(x, c)'
  <2>1. cancel' = cancel
    BY <1>0, <1>5 DEF Retires, Conn
  <2> QED BY <1>1, <2>1
<1>6. ASSUME NEW k \in Caller, TakesTerminal(k) \/ Drops(k) PROVE Known(x, c)'
  BY <1>2, <1>6 DEF TakesTerminal, Drops
<1>7. ASSUME NEW k \in Caller,
             \/ Begins(k) \/ Enters(k) \/ Connects(k) \/ Publishes(k) \/ GivesUp(k)
             \/ Dispatches(k) \/ Loses(k) \/ TakesAudio(k) \/ TakesAnswer(k)
             \/ Invalidates(k) \/ Queries(k)
      PROVE  Known(x, c)'
  BY <1>1, <1>7 DEF Begins, Enters, Connects, Publishes, GivesUp, Dispatches, Loses,
                    TakesAudio, TakesAnswer, Invalidates, Queries
<1>8. CASE StopSends
  <2>1. CASE cancel' = cancel
    BY <1>1, <2>1
  <2>2. CASE cancel' # cancel
    <3>1. next_id \in Id
      BY <1>8, NumberLeft DEF StopSends
    <3>2. SendsCancel
      BY <1>8, <2>2, <3>1 DEF StopSends, SendsCancel
    <3> QED BY <1>3, <3>2
  <2> QED BY <2>1, <2>2
<1>9. CASE StopBegan \/ Crashes \/ (Shrink /\ Same) \/ \E d \in Conn : HostMoves(d)
  BY <1>1, <1>9 DEF StopBegan, Crashes, Same, HostMoves
<1>10. ASSUME NEW y \in Id, Fires(y) \/ Kills(y) PROVE Known(x, c)'
  BY <1>2, <1>10 DEF Fires, Kills
<1> QED BY <1>4, <1>5, <1>6, <1>7, <1>8, <1>9, <1>10 DEF Moved, CallMoves

\* The numbers of the frames in a pipe are numbers.
LEMMA FrameIds ==
    ASSUME HostTypes, NEW c \in Conn
    PROVE  /\ \A i \in DOMAIN inbox[c] : inbox[c][i].id \in Id /\ inbox[c][i] \in InFrame
           /\ \A i \in DOMAIN outbox[c] : outbox[c][i].id \in Id /\ outbox[c][i] \in OutFrame
<1>1. inbox[c] \in Seq(InFrame) /\ outbox[c] \in Seq(OutFrame)
  BY HostParts
<1>2. \A i \in DOMAIN inbox[c] : inbox[c][i] \in InFrame
  BY <1>1
<1>3. \A i \in DOMAIN outbox[c] : outbox[c][i] \in OutFrame
  BY <1>1
<1> QED BY <1>2, <1>3, FrameTypes

\* A helper answers a cancel once.
LEMMA ExpectedHost ==
    ASSUME HostTypes, NEW c \in Conn, HostDoes(c), Expected(c),
           \A x \in Id : Known(x, c) => Known(x, c)'
    PROVE  Expected(c)'
<1>1. CASE Cancels(c) \/ Declines(c)
  <2>1. PICK kind \in {"cancel_accepted", "cancel_refused"} :
          /\ Reading(c, "cancel") /\ inbox'[c] = Tail(inbox[c])
          /\ outbox'[c] = Append(outbox[c], Frame(kind, inbox[c][1].id))
    BY <1>1 DEF Cancels, Declines, Host
  <2> DEFINE f == Frame(kind, inbox[c][1].id)
  <2>2. f \in OutFrame /\ IsCancelAnswer(f) /\ f.id = inbox[c][1].id /\ f.id \in Id
    <3>1. inbox[c][1].id \in Id
      BY <2>1, FrameTypes DEF Reading
    <3>2. f \in OutFrame /\ f.kind = kind /\ f.id = inbox[c][1].id
      BY <3>1, FrameTypes
    <3> QED BY <3>1, <3>2, KindsOfFrames
  <2>3. PICK n \in Int :
           /\ n \notin DOMAIN outbox[c] /\ DOMAIN outbox'[c] = DOMAIN outbox[c] \cup {n}
           /\ outbox'[c][n] = f
           /\ \A i \in DOMAIN outbox[c] : outbox'[c][i] = outbox[c][i] /\ i \in Int /\ i < n
    BY <2>1, <2>2, OutboxAppended
  <2> HIDE DEF f
  <2>4. /\ 1 \in DOMAIN inbox[c] /\ inbox[c][1].kind = "cancel"
        /\ \A i \in DOMAIN inbox'[c] : /\ i + 1 \in DOMAIN inbox[c] /\ i + 1 # 1
                                       /\ inbox'[c][i] = inbox[c][i + 1] /\ i \in Int
        /\ \A i, j \in DOMAIN inbox'[c] : i + 1 = j + 1 => i = j
    BY <2>1, InboxTail DEF Reading
  <2>5. /\ Known(f.id, c)
        /\ \A j \in DOMAIN inbox[c] : inbox[c][j].kind = "cancel" /\ inbox[c][j].id = f.id => j = 1
        /\ \A j \in DOMAIN outbox[c] : IsCancelAnswer(outbox[c][j]) => outbox[c][j].id # f.id
    BY <2>2, <2>4 DEF Expected
  <2>6. ASSUME NEW i \in DOMAIN inbox'[c], inbox'[c][i].kind = "cancel"
        PROVE  /\ Known(inbox'[c][i].id, c) /\ inbox'[c][i].id \in Id
               /\ \A j \in DOMAIN inbox'[c] :
                    inbox'[c][j].kind = "cancel" /\ inbox'[c][j].id = inbox'[c][i].id => j = i
               /\ \A j \in DOMAIN outbox'[c] :
                    IsCancelAnswer(outbox'[c][j]) => outbox'[c][j].id # inbox'[c][i].id
    <3> DEFINE m == i + 1
    <3>1. m \in DOMAIN inbox[c] /\ m # 1 /\ inbox'[c][i] = inbox[c][m]
      BY <2>4
    <3>2. /\ Known(inbox[c][m].id, c) /\ inbox[c][m].id \in Id
          /\ \A j \in DOMAIN inbox[c] :
               inbox[c][j].kind = "cancel" /\ inbox[c][j].id = inbox[c][m].id => j = m
          /\ \A j \in DOMAIN outbox[c] :
               IsCancelAnswer(outbox[c][j]) => outbox[c][j].id # inbox[c][m].id
      BY <2>6, <3>1, FrameIds DEF Expected
    <3>3. \A j \in DOMAIN inbox'[c] :
             inbox'[c][j].kind = "cancel" /\ inbox'[c][j].id = inbox'[c][i].id => j + 1 = i + 1
      BY <2>4, <3>1, <3>2
    <3>4. f.id # inbox[c][m].id
      BY <2>5, <2>6, <3>1
    <3>5. \A j \in DOMAIN outbox'[c] :
             IsCancelAnswer(outbox'[c][j]) => outbox'[c][j].id # inbox[c][m].id
      BY <2>3, <3>2, <3>4
    <3> QED BY <2>4, <3>1, <3>2, <3>3, <3>5
  <2>7. ASSUME NEW i \in DOMAIN outbox'[c], IsCancelAnswer(outbox'[c][i])
        PROVE  /\ Known(outbox'[c][i].id, c) /\ outbox'[c][i].id \in Id
               /\ \A j \in DOMAIN outbox'[c] :
                    IsCancelAnswer(outbox'[c][j]) /\ outbox'[c][j].id = outbox'[c][i].id => j = i
    <3>1. CASE i = n
      BY <2>2, <2>3, <2>5, <3>1
    <3>2. CASE i \in DOMAIN outbox[c]
      BY <2>3, <2>5, <2>7, <3>2, FrameIds DEF Expected
    <3> QED BY <2>3, <3>1, <3>2
  <2> QED BY <2>6, <2>7 DEF Expected
<1>2. CASE ~Cancels(c) /\ ~Declines(c)
  <2>1. /\ \/ inbox'[c] = inbox[c]
           \/ (\E kind : Reading(c, kind)) /\ inbox'[c] = Tail(inbox[c])
        /\ \/ outbox'[c] = outbox[c]
           \/ \E f \in OutFrame : /\ outbox'[c] = Append(outbox[c], f)
                                  /\ ~IsCancelAnswer(f)
    <3>1. CASE Admits(c)
      BY <3>1 DEF Admits, Host
    <3>2. CASE Answers(c)
      <4>1. PICK request \in {"synthesize", "query"}, kind \in {"refused", "busy", "answer"} :
              /\ Reading(c, request) /\ inbox'[c] = Tail(inbox[c])
              /\ outbox'[c] = Append(outbox[c], Frame(kind, inbox[c][1].id))
        BY <3>2 DEF Answers, Host
      <4> DEFINE f == Frame(kind, inbox[c][1].id)
      <4>2. inbox[c][1].id \in Id
        BY <4>1, FrameTypes DEF Reading
      <4>3. f \in OutFrame /\ f.kind = kind
        BY <4>2, FrameTypes DEF Terminal, NativeResult
      <4>4. ~IsCancelAnswer(f)
        BY <4>3 DEF IsCancelAnswer
      <4> HIDE DEF f
      <4> QED BY <4>1, <4>3, <4>4 DEF f
    <3>3. CASE Works(c)
      <4> DEFINE f == Frame("audio", host_active[c])
      <4>1. f \in OutFrame /\ f.kind = "audio"
        BY <3>3, FrameTypes DEF Works
      <4>2. inbox'[c] = inbox[c] /\ outbox'[c] \in {outbox[c], Append(outbox[c], f)}
        BY <3>3 DEF Works, Host
      <4> HIDE DEF f
      <4> QED BY <4>1, <4>2, KindsOfFrames
    <3>4. CASE Finishes(c)
      <4>1. PICK kind \in Terminal :
              /\ inbox'[c] = inbox[c] /\ outbox'[c] = Append(outbox[c], Frame(kind, host_active[c]))
        BY <3>4 DEF Finishes, Host
      <4> DEFINE f == Frame(kind, host_active[c])
      <4>2. f \in OutFrame /\ f.kind = kind
        BY <3>4, FrameTypes DEF Finishes
      <4>3. ~IsCancelAnswer(f)
        BY <4>2 DEF IsCancelAnswer, Terminal, NativeResult
      <4> HIDE DEF f
      <4> QED BY <4>1, <4>2, <4>3 DEF f
    <3> QED BY <1>2, <3>1, <3>2, <3>3, <3>4 DEF HostDoes
  <2>2. \A i \in DOMAIN outbox'[c] : IsCancelAnswer(outbox'[c][i]) =>
           i \in DOMAIN outbox[c] /\ outbox'[c][i] = outbox[c][i]
    <3>1. CASE outbox'[c] = outbox[c]
      BY <3>1
    <3>2. ASSUME NEW f \in OutFrame, outbox'[c] = Append(outbox[c], f), ~IsCancelAnswer(f)
          PROVE  \A i \in DOMAIN outbox'[c] : IsCancelAnswer(outbox'[c][i]) =>
                    i \in DOMAIN outbox[c] /\ outbox'[c][i] = outbox[c][i]
      BY <3>2, OutboxAppended
    <3> QED BY <2>1, <3>1, <3>2
  <2>3. CASE inbox'[c] = inbox[c]
    BY <2>2, <2>3, FrameIds DEF Expected
  <2>4. CASE (\E kind : Reading(c, kind)) /\ inbox'[c] = Tail(inbox[c])
    <3>1. /\ \A i \in DOMAIN inbox'[c] : /\ i + 1 \in DOMAIN inbox[c] /\ i \in Int
                                         /\ inbox'[c][i] = inbox[c][i + 1]
          /\ \A i, j \in DOMAIN inbox'[c] : i + 1 = j + 1 => i = j
      BY <2>4, InboxTail
    <3>2. ASSUME NEW i \in DOMAIN inbox'[c], inbox'[c][i].kind = "cancel"
          PROVE  /\ Known(inbox'[c][i].id, c) /\ inbox'[c][i].id \in Id
                 /\ \A j \in DOMAIN inbox'[c] :
                      inbox'[c][j].kind = "cancel" /\ inbox'[c][j].id = inbox'[c][i].id => j = i
                 /\ \A j \in DOMAIN outbox'[c] :
                      IsCancelAnswer(outbox'[c][j]) => outbox'[c][j].id # inbox'[c][i].id
      <4> DEFINE m == i + 1
      <4>1. m \in DOMAIN inbox[c] /\ inbox'[c][i] = inbox[c][m]
        BY <3>1
      <4>2. /\ Known(inbox[c][m].id, c) /\ inbox[c][m].id \in Id
            /\ \A j \in DOMAIN inbox[c] :
                 inbox[c][j].kind = "cancel" /\ inbox[c][j].id = inbox[c][m].id => j = m
            /\ \A j \in DOMAIN outbox[c] :
                 IsCancelAnswer(outbox[c][j]) => outbox[c][j].id # inbox[c][m].id
        BY <3>2, <4>1, FrameIds DEF Expected
      <4>3. \A j \in DOMAIN inbox'[c] :
               inbox'[c][j].kind = "cancel" /\ inbox'[c][j].id = inbox'[c][i].id => j + 1 = i + 1
        BY <3>1, <4>1, <4>2
      <4> QED BY <2>2, <3>1, <4>1, <4>2, <4>3
    <3> QED BY <2>2, <3>2, FrameIds DEF Expected
  <2> QED BY <2>1, <2>3, <2>4
<1> QED BY <1>1, <1>2

LEMMA AnswersExpectedStep ==
    ASSUME IInv, Moved
    PROVE  AnswersExpected'
<1> USE DEF IInv
<1> SUFFICES ASSUME NEW c \in Conn, c \notin terminated'
             PROVE  Expected(c)'
  BY DEF AnswersExpected
<1>0. PipesMove /\ c \notin terminated /\ Expected(c)
  BY EveryPipeStep, NotReopened DEF AnswersExpected
<1>1. CASE Empty(c) /\ c # connection
  <2>1. Empty(c)'
    BY <1>0, <1>1, EmptyStays
  <2> QED BY <2>1 DEF Empty, Expected
<1>2. CASE Taken(c)
  <2>1. /\ outbox[c] \in Seq(OutFrame) /\ outbox[c] # <<>> /\ outbox'[c] = Tail(outbox[c])
        /\ inbox'[c] = inbox[c]
    BY <1>2 DEF Taken
  <2>2. /\ 1 \in DOMAIN outbox[c]
        /\ \A i \in DOMAIN outbox'[c] : /\ i \in Int /\ i + 1 \in DOMAIN outbox[c] /\ i + 1 # 1
                                        /\ outbox'[c][i] = outbox[c][i + 1]
        /\ \A i, j \in DOMAIN outbox'[c] : i + 1 = j + 1 => i = j
    BY <2>1, TailAt
  <2>3. ~Empty(c)
    BY <2>1 DEF Empty
  <2>4. ASSUME NEW x \in Id, Known(x, c), IsCancelAnswer(outbox[c][1]) => outbox[c][1].id # x
        PROVE  Known(x, c)'
    BY <2>3, <2>4, KnownStays
  <2>5. ASSUME NEW i \in DOMAIN inbox'[c], inbox'[c][i].kind = "cancel"
        PROVE  /\ Known(inbox[c][i].id, c)'
               /\ \A j \in DOMAIN inbox'[c] :
                    inbox'[c][j].kind = "cancel" /\ inbox'[c][j].id = inbox'[c][i].id => j = i
               /\ \A j \in DOMAIN outbox'[c] :
                    IsCancelAnswer(outbox'[c][j]) => outbox'[c][j].id # inbox'[c][i].id
    <3>0. PICK x \in Id : x = inbox[c][i].id
      BY <2>1, <2>5, FrameIds
    <3>1. /\ Known(x, c)
          /\ \A j \in DOMAIN inbox[c] :
               inbox[c][j].kind = "cancel" /\ inbox[c][j].id = x => j = i
          /\ \A j \in DOMAIN outbox[c] : IsCancelAnswer(outbox[c][j]) => outbox[c][j].id # x
      BY <1>0, <2>1, <2>5, <3>0 DEF Expected
    <3>2. Known(x, c)'
      BY <2>2, <2>4, <3>1
    <3>3. inbox'[c][i].id = x
      BY <2>1, <3>0
    <3> QED BY <2>1, <2>2, <3>1, <3>2, <3>3
  <2>6. ASSUME NEW i \in DOMAIN outbox'[c], IsCancelAnswer(outbox'[c][i])
        PROVE  /\ Known(outbox[c][i].id, c)'
               /\ \A j \in DOMAIN outbox'[c] :
                    IsCancelAnswer(outbox'[c][j]) /\ outbox'[c][j].id = outbox'[c][i].id => j = i
    <3> DEFINE m == i + 1
    <3>0. m \in DOMAIN outbox[c] /\ m # 1 /\ outbox'[c][i] = outbox[c][m]
      BY <2>2
    <3>1. PICK x \in Id : x = outbox[c][m].id
      BY <3>0, FrameIds
    <3>2. /\ Known(x, c)
          /\ \A j \in DOMAIN outbox[c] :
               IsCancelAnswer(outbox[c][j]) /\ outbox[c][j].id = x => j = m
      BY <1>0, <2>6, <3>0, <3>1 DEF Expected
    <3>3. Known(x, c)'
      BY <2>2, <2>4, <3>0, <3>2
    <3>4. \A j \in DOMAIN outbox'[c] :
             IsCancelAnswer(outbox'[c][j]) /\ outbox'[c][j].id = outbox'[c][i].id => j + 1 = i + 1
      BY <2>2, <3>0, <3>1, <3>2
    <3>5. outbox'[c][i].id = x
      BY <3>0, <3>1
    <3> QED BY <2>2, <3>3, <3>4, <3>5
  <2> QED BY <2>5, <2>6 DEF Expected
<1>3. CASE ~Taken(c) /\ ~(Empty(c) /\ c # connection)
  <2>1. ASSUME NEW x \in Id, Known(x, c), ~Empty(c) PROVE Known(x, c)'
    BY <1>3, <2>1, KnownStays
  <2>2. ASSUME inbox'[c] \in {inbox[c], <<>>}, outbox'[c] \in {outbox[c], <<>>}
        PROVE  Expected(c)'
    <3>1. ASSUME ~Empty(c) PROVE Expected(c)'
      <4>1. \A x \in Id : Known(x, c) => Known(x, c)'
        BY <2>1, <3>1
      <4>2. \A i \in DOMAIN inbox'[c] : i \in DOMAIN inbox[c] /\ inbox'[c][i] = inbox[c][i]
        BY <2>2
      <4>3. \A i \in DOMAIN outbox'[c] : i \in DOMAIN outbox[c] /\ outbox'[c][i] = outbox[c][i]
        BY <2>2
      <4> QED BY <1>0, <4>1, <4>2, <4>3, FrameIds DEF Expected
    <3>2. ASSUME Empty(c) PROVE Expected(c)'
      <4>1. inbox'[c] = <<>> /\ outbox'[c] = <<>>
        BY <2>2, <3>2 DEF Empty
      <4> QED BY <4>1 DEF Expected
    <3> QED BY <3>1, <3>2
  <2>3. ASSUME Shrink PROVE Expected(c)'
    BY <2>2, <2>3 DEF Shrink, Shrinks
  <2>4. ASSUME NEW d \in Conn, d # c,
               HostDoes(d) \/ Taken(d) \/ \E f \in InFrame : Written(d, f)
        PROVE  Expected(c)'
    BY <2>2, <2>4, Elsewhere1
  <2>5. ASSUME HostDoes(c) PROVE Expected(c)'
    <3>1. ~Empty(c)
      <4>1. ASSUME Empty(c) PROVE FALSE
        <5>1. \A kind : ~Reading(c, kind)
          BY <4>1 DEF Reading, Empty
        <5>2. host_active[c] \notin Id
          BY <4>1 DEF Empty, Id
        <5> QED BY <2>5, <5>1, <5>2 DEF HostDoes, Admits, Answers, Cancels, Declines, Works,
                                        Finishes
      <4> QED BY <4>1
    <3>2. \A x \in Id : Known(x, c) => Known(x, c)'
      BY <2>1, <3>1
    <3> QED BY <1>0, <2>5, <3>2, ExpectedHost
  <2>6. ASSUME NEW f \in InFrame, Sent(c, f) PROVE Expected(c)'
    <3>1. /\ inbox'[c] = Append(inbox[c], f) /\ inbox[c] \in Seq(InFrame)
          /\ outbox'[c] = outbox[c]
      BY <2>6, HostParts DEF Sent, Written
    <3> DEFINE n == Len(inbox[c]) + 1
    <3>2. /\ DOMAIN inbox'[c] = DOMAIN inbox[c] \cup {n} /\ n \notin DOMAIN inbox[c]
          /\ \A i \in DOMAIN inbox[c] : inbox'[c][i] = inbox[c][i]
          /\ inbox'[c][n] = f
      BY <3>1, AppendAt
    <3> HIDE DEF n
    <3>3. /\ \A i \in DOMAIN inbox[c] : inbox[c][i].id # f.id /\ inbox[c][i].id \in Id
          /\ \A i \in DOMAIN outbox[c] : outbox[c][i].id # f.id /\ outbox[c][i].id \in Id
      <4>1. \A x \in Id : x < next_id => x # next_id
        BY DEF EngineTypes, Id
      <4> QED BY <2>6, <4>1, FrameIds DEF Used, Sent
    <3>4. f.kind = "cancel" => Known(f.id, c)'
      <4>1. ASSUME f.kind = "cancel" PROVE Known(f.id, c)'
        <5>1. SendsCancel /\ f.id = next_id /\ c = connection
          BY <2>6, <4>1 DEF Sent
        <5>2. /\ cancel'[next_id].conn = connection /\ cancel'[next_id].retained
              /\ ~cancel'[next_id].consumed
          BY <5>1, SendsCancelEffect
        <5> QED BY <5>1, <5>2 DEF Known
      <4> QED BY <4>1
    <3>5. ASSUME NEW x \in Id, Known(x, c), \/ \E i \in DOMAIN inbox[c] : inbox[c][i].id = x
                                            \/ \E i \in DOMAIN outbox[c] : outbox[c][i].id = x
          PROVE  Known(x, c)'
      <4>1. ~Empty(c)
        BY <3>5 DEF Empty
      <4> QED BY <2>1, <3>5, <4>1
    <3>6. ASSUME NEW i \in DOMAIN inbox'[c], inbox'[c][i].kind = "cancel"
          PROVE  /\ Known(inbox[c][i].id, c)'
                 /\ \A j \in DOMAIN inbox'[c] :
                      inbox'[c][j].kind = "cancel" /\ inbox'[c][j].id = inbox'[c][i].id => j = i
                 /\ \A j \in DOMAIN outbox'[c] :
                      IsCancelAnswer(outbox'[c][j]) => outbox'[c][j].id # inbox'[c][i].id
      <4>1. CASE i = n
        BY <3>1, <3>2, <3>3, <3>4, <3>6, <4>1
      <4>2. CASE i \in DOMAIN inbox[c]
        <5>0. PICK x \in Id : x = inbox[c][i].id
          BY <4>2, <3>3
        <5>1. /\ Known(x, c) /\ x # f.id /\ inbox'[c][i].id = x
              /\ \A j \in DOMAIN inbox[c] :
                   inbox[c][j].kind = "cancel" /\ inbox[c][j].id = x => j = i
              /\ \A j \in DOMAIN outbox[c] : IsCancelAnswer(outbox[c][j]) => outbox[c][j].id # x
          BY <1>0, <3>2, <3>3, <3>6, <4>2, <5>0 DEF Expected
        <5>2. Known(x, c)'
          BY <3>5, <4>2, <5>0, <5>1
        <5> QED BY <3>1, <3>2, <5>1, <5>2
      <4> QED BY <3>2, <4>1, <4>2
    <3>7. ASSUME NEW i \in DOMAIN outbox'[c], IsCancelAnswer(outbox'[c][i])
          PROVE  /\ Known(outbox[c][i].id, c)'
                 /\ \A j \in DOMAIN outbox'[c] :
                      IsCancelAnswer(outbox'[c][j]) /\ outbox'[c][j].id = outbox'[c][i].id => j = i
      <4>0. PICK x \in Id : x = outbox[c][i].id
        BY <3>1, <3>3
      <4>1. /\ Known(x, c) /\ outbox'[c][i].id = x
            /\ \A j \in DOMAIN outbox[c] :
                 IsCancelAnswer(outbox[c][j]) /\ outbox[c][j].id = x => j = i
        BY <1>0, <3>1, <3>7, <4>0 DEF Expected
      <4>2. Known(x, c)'
        BY SMTT(60), <3>1, <3>5, <4>0, <4>1
      <4> QED BY <3>1, <4>1, <4>2
    <3> QED BY <3>6, <3>7 DEF Expected
  <2> QED BY <1>0, <1>3, <2>3, <2>4, <2>5, <2>6 DEF PipesMove, Sent
<1> QED BY <1>1, <1>2, <1>3

----------------------------------------------------------
(* Results *)

\* Where the result of a call comes from.
LEMMA ResultFrom ==
    ASSUME IInv, Moved, NEW k \in Caller, call'[k].result # "none"
    PROVE  \/ call'[k].result = "lost"
           \/ /\ call'[k].result = call[k].result /\ call'[k].id = call[k].id
              /\ call'[k].conn = call[k].conn
           \/ /\ TakesOther(k) /\ call'[k].result = "mismatch"
              /\ call'[k].conn = call[k].conn /\ call'[k].id = call[k].id
              /\ \/ ~IsCancelAnswer(outbox[call[k].conn][1])
                 \/ ~cancel[outbox[call[k].conn][1].id].retained
           \/ /\ TakesTerminal(k) /\ call'[k].id = call[k].id
              /\ call'[k].conn = call[k].conn
              /\ call'[k].result \in {outbox[call[k].conn][1].kind, "cancelled"}
<1> USE DEF IInv
<1>0. Stands(k)
  BY DEF Standing
<1>1. CASE ~CallMoves(k)
  <2>1. call'[k] = call[k]
    BY <1>1, OthersRest, CallsRest
  <2> QED BY <2>1
<1>2. ASSUME CallEnds(k) PROVE FALSE
  BY <1>2, NoCallType DEF CallEnds
<1>3. ASSUME NEW at, Moves(k, at)
      PROVE  /\ call'[k].result = call[k].result /\ call'[k].id = call[k].id
             /\ call'[k].conn = call[k].conn
  BY <1>3 DEF Moves, CallTo
<1>4. CASE Begins(k)
  BY SMTT(60), <1>4 DEF Begins
<1>5. CASE Enters(k) \/ Connects(k) \/ Publishes(k) \/ Retires(k) \/ GivesUp(k)
  <2>1. call[k].result = "none" /\ ~CallEnds(k)
    BY <1>0, <1>2, <1>5 DEF Enters, Connects, Publishes, Retires, GivesUp, Stands
  <2>2. CASE Enters(k)
    BY <1>3, <2>1, <2>2 DEF Enters, Leaves, CallTo
  <2>3. CASE Connects(k) \/ GivesUp(k)
    BY <1>3, <2>1, <2>3 DEF Connects, GivesUp, Leaves
  <2>4. CASE Publishes(k)
    BY <2>1, <2>4 DEF Publishes, Leaves, CallTo
  <2>5. CASE Retires(k)
    BY <1>3, <2>1, <2>5 DEF Retires, Leaves
  <2> QED BY <1>5, <2>2, <2>3, <2>4, <2>5
<1>6. CASE Dispatches(k)
  <2>1. call[k].result = "none" /\ ~CallEnds(k)
    BY <1>0, <1>2, <1>6 DEF Dispatches, Stands
  <2> QED BY <1>6, <2>1 DEF Dispatches, Leaves, CallTo
<1>7. CASE Loses(k)
  BY SMTT(60), <1>7 DEF Loses, CallTo
<1>8. CASE TakesOther(k)
  BY <1>8 DEF TakesOther, CallTo
<1>9. CASE TakesAudio(k)
  BY <1>9 DEF TakesAudio, CallTo
<1>10. CASE TakesTerminal(k)
  BY <1>10 DEF TakesTerminal, CallTo
<1>11. CASE TakesAnswer(k) \/ Drops(k)
  BY <1>2, <1>11 DEF TakesAnswer, Drops, Leaves
<1>12. CASE Invalidates(k)
  BY <1>2, <1>3, <1>12 DEF Invalidates, Leaves
<1>13. CASE Queries(k)
  BY <1>13 DEF Queries
<1> QED BY <1>1, <1>4, <1>5, <1>6, <1>7, <1>8, <1>9, <1>10, <1>11, <1>12, <1>13 DEF CallMoves

\* A retirement that was begun stays begun.
LEMMA RetiringStays ==
    ASSUME IInv, Moved, NEW x \in Id, cancel[x].state = "retiring"
    PROVE  cancel'[x].state = "retiring" /\ cancel'[x].conn = cancel[x].conn
<1> USE DEF IInv
<1>1. CASE CancelsAdvance
  BY <1>1 DEF CancelsAdvance, Advances
<1>2. CASE SendsCancel
  <2>1. x # next_id
    BY NoCancelType DEF Used, EngineTypes
  <2> QED BY <1>2, <2>1, SendsCancelEffect
<1> QED BY <1>1, <1>2, EveryCancelStep

LEMMA RequestsDoNotCollideStep ==
    ASSUME IInv, Moved
    PROVE  RequestsDoNotCollide'
<1> USE DEF IInv
<1>1. ASSUME NEW k \in Caller
      PROVE  /\ call'[k].result # "busy"
             /\ call'[k].result = "mismatch" =>
                  \E x \in Id : cancel'[x].conn = call'[k].conn /\ cancel'[x].state = "retiring"
  <2>1. ASSUME call'[k].result = call[k].result, call'[k].conn = call[k].conn
        PROVE  /\ call'[k].result # "busy"
               /\ call'[k].result = "mismatch" =>
                    \E x \in Id : cancel'[x].conn = call'[k].conn
                                  /\ cancel'[x].state = "retiring"
    BY <2>1, RetiringStays DEF RequestsDoNotCollide
  <2>2. ASSUME TakesOther(k) \/ TakesTerminal(k)
        PROVE  /\ Taken(call[k].conn) /\ Waiting(k) /\ call[k].conn \in Conn
               /\ call[k].conn \notin terminated
               /\ OneRequest(call[k].conn, call[k].id)
    <3>1. Taken(call[k].conn) /\ Waiting(k)
      BY <2>2 DEF TakesOther, TakesTerminal
    <3> QED BY <3>1, CallsConn DEF Waiting, Taken, OneAtATime
  <2>3. CASE /\ TakesOther(k) /\ call'[k].result = "mismatch"
             /\ call'[k].conn = call[k].conn
             /\ \/ ~IsCancelAnswer(outbox[call[k].conn][1])
                \/ ~cancel[outbox[call[k].conn][1].id].retained
    <3>1. PICK c \in Conn : c = call[k].conn
      BY <2>2, <2>3
    <3>2. PICK r : r = call[k].id
      OBVIOUS
    <3>3. Taken(c) /\ c \notin terminated /\ OneRequest(c, r)
      BY <2>2, <2>3, <3>1, <3>2
    <3>4. outbox[c][1].id # r
      BY <2>3, <3>1, <3>2 DEF TakesOther
    <3>5. IsCancelAnswer(outbox[c][1])
      BY <3>3, <3>4, OneRequestTaken
    <3>6. 1 \in DOMAIN outbox[c] /\ outbox[c][1].id \in Id
      BY <3>3, TailAt, FrameTypes DEF Taken
    <3>7. PICK x \in Id : x = outbox[c][1].id
      BY <3>6
    <3>8. Known(x, c) /\ ~cancel[x].retained
      BY <2>3, <3>1, <3>3, <3>5, <3>6, <3>7 DEF AnswersExpected, Expected
    <3>9. cancel[x].conn = c /\ cancel[x].state = "retiring"
      BY <3>8 DEF Known
    <3>10. cancel'[x].conn = call'[k].conn /\ cancel'[x].state = "retiring"
      BY <2>3, <3>1, <3>9, RetiringStays
    <3> QED BY <2>3, <3>10
  <2>4. CASE /\ TakesTerminal(k)
             /\ call'[k].result \in {outbox[call[k].conn][1].kind, "cancelled"}
    <3>1. PICK c \in Conn : c = call[k].conn
      BY <2>2, <2>4
    <3>2. PICK r : r = call[k].id
      OBVIOUS
    <3>3. Taken(c) /\ OneRequest(c, r)
      BY <2>2, <2>4, <3>1, <3>2
    <3>4. outbox[c][1].kind # "busy"
      BY <3>3, OneRequestTaken
    <3>5. outbox[c][1].kind \in Terminal \cup {"busy"}
      BY <2>4, <3>1 DEF TakesTerminal
    <3> QED BY <2>4, <3>1, <3>4, <3>5 DEF Terminal, NativeResult
  <2>5. CASE call'[k].result \in {"none", "lost"}
    BY <2>5
  <2> QED BY <2>1, <2>3, <2>4, <2>5, ResultFrom
<1> QED BY <1>1 DEF RequestsDoNotCollide

----------------------------------------------------------
(* A request is in one place *)

\* A pipe to a host that gets nothing loses its first frame, or keeps what it holds
\* where it is.
Unfilled(c) ==
    \/ \A i \in DOMAIN inbox'[c] : i \in DOMAIN inbox[c] /\ inbox'[c][i] = inbox[c][i]
    \/ inbox[c] \in Seq(InFrame) /\ inbox[c] # <<>> /\ inbox'[c] = Tail(inbox[c])

\* Where a frame of such a pipe was before.
LEMMA UnfilledAt ==
    ASSUME NEW c \in Conn, Unfilled(c)
    PROVE  \E at \in [DOMAIN inbox'[c] -> DOMAIN inbox[c]] :
              /\ \A i \in DOMAIN inbox'[c] : inbox'[c][i] = inbox[c][at[i]]
              /\ \A i, j \in DOMAIN inbox'[c] : at[i] = at[j] => i = j
              /\ \/ inbox'[c] = Tail(inbox[c]) /\ \A i \in DOMAIN inbox'[c] : at[i] # 1
                 \/ \A i \in DOMAIN inbox'[c] : inbox'[c][i] = inbox[c][i]
<1>1. CASE \A i \in DOMAIN inbox'[c] : i \in DOMAIN inbox[c] /\ inbox'[c][i] = inbox[c][i]
  <2> DEFINE at == [i \in DOMAIN inbox'[c] |-> i]
  <2>1. at \in [DOMAIN inbox'[c] -> DOMAIN inbox[c]]
    BY <1>1
  <2>2. \A i \in DOMAIN inbox'[c] : at[i] = i
    OBVIOUS
  <2> HIDE DEF at
  <2> QED BY <1>1, <2>1, <2>2
<1>2. CASE inbox[c] \in Seq(InFrame) /\ inbox[c] # <<>> /\ inbox'[c] = Tail(inbox[c])
  <2> DEFINE at == [i \in DOMAIN inbox'[c] |-> i + 1]
  <2>0. /\ \A i \in DOMAIN inbox'[c] : i + 1 \in DOMAIN inbox[c] /\ i + 1 # 1
                                       /\ inbox'[c][i] = inbox[c][i + 1]
        /\ \A i, j \in DOMAIN inbox'[c] : i + 1 = j + 1 => i = j
    BY <1>2, TailAt
  <2>1. at \in [DOMAIN inbox'[c] -> DOMAIN inbox[c]]
    BY <2>0
  <2>2. \A i \in DOMAIN inbox'[c] : at[i] = i + 1
    OBVIOUS
  <2> HIDE DEF at
  <2>3. \A i \in DOMAIN inbox'[c] : inbox'[c][i] = inbox[c][at[i]] /\ at[i] # 1
    BY <2>0, <2>2
  <2>4. \A i, j \in DOMAIN inbox'[c] : at[i] = at[j] => i = j
    BY <2>0, <2>2
  <2> QED BY <1>2, <2>1, <2>3, <2>4
<1> QED BY <1>1, <1>2 DEF Unfilled

\* No two places hold the same synthesis.
OncePerPipe ==
    \A c, d \in Conn : \A i \in DOMAIN inbox[c] : \A j \in DOMAIN inbox[d] :
        /\ inbox[c][i].kind = "synthesize" /\ inbox[d][j].kind = "synthesize"
        /\ inbox[c][i].id = inbox[d][j].id
        => c = d /\ i = j

LEMMA UnfilledPlaces ==
    ASSUME OncePerPipe, \A c \in Conn : Unfilled(c)
    PROVE  /\ OncePerPipe'
           /\ \A r : \A d \in Conn : Queued(r, d)' => Queued(r, d)
<1>1. ASSUME NEW c \in Conn, NEW d \in Conn,
             NEW i \in DOMAIN inbox'[c], NEW j \in DOMAIN inbox'[d],
             inbox'[c][i].kind = "synthesize", inbox'[d][j].kind = "synthesize",
             inbox'[c][i].id = inbox'[d][j].id
      PROVE  c = d /\ i = j
  <2>1. PICK a \in [DOMAIN inbox'[c] -> DOMAIN inbox[c]] :
           /\ \A m \in DOMAIN inbox'[c] : inbox'[c][m] = inbox[c][a[m]]
           /\ \A m, n \in DOMAIN inbox'[c] : a[m] = a[n] => m = n
    BY UnfilledAt
  <2>2. PICK b \in [DOMAIN inbox'[d] -> DOMAIN inbox[d]] :
           \A m \in DOMAIN inbox'[d] : inbox'[d][m] = inbox[d][b[m]]
    BY UnfilledAt
  <2>3. CASE c = d
    <3>1. a[i] \in DOMAIN inbox[c] /\ a[j] \in DOMAIN inbox[c]
          /\ inbox'[c][i] = inbox[c][a[i]] /\ inbox'[c][j] = inbox[c][a[j]]
      BY <2>1, <2>3
    <3>2. a[i] = a[j]
      BY <1>1, <2>3, <3>1 DEF OncePerPipe
    <3> QED BY <2>1, <2>3, <3>2
  <2>4. CASE c # d
    <3>1. a[i] \in DOMAIN inbox[c] /\ b[j] \in DOMAIN inbox[d]
          /\ inbox'[c][i] = inbox[c][a[i]] /\ inbox'[d][j] = inbox[d][b[j]]
      BY <2>1, <2>2
    <3> QED BY <1>1, <2>4, <3>1 DEF OncePerPipe
  <2> QED BY <2>3, <2>4
<1>2. ASSUME NEW r, NEW d \in Conn, Queued(r, d)' PROVE Queued(r, d)
  <2>1. PICK b \in [DOMAIN inbox'[d] -> DOMAIN inbox[d]] :
           \A m \in DOMAIN inbox'[d] : inbox'[d][m] = inbox[d][b[m]]
    BY UnfilledAt
  <2> QED BY <1>2, <2>1 DEF Queued
<1> QED BY <1>1, <1>2 DEF OncePerPipe

LEMMA OnePlaceIs ==
    OnePlace <=> /\ OncePerPipe
                 /\ \A c, d \in Conn : host_active[c] # 0 => ~Queued(host_active[c], d)
                 /\ \A c, d \in Conn :
                      host_active[c] # 0 /\ host_active[c] = host_active[d] => c = d
BY DEF OnePlace, OncePerPipe

\* Only a write fills a pipe.
LEMMA Unwritten ==
    ASSUME HostTypes, PipesMove, ~\E c \in Conn, f \in InFrame : Sent(c, f)
    PROVE  \A c \in Conn : Unfilled(c)
<1> SUFFICES ASSUME NEW c \in Conn PROVE Unfilled(c)
  OBVIOUS
<1>1. CASE inbox'[c] \in {inbox[c], <<>>}
  BY <1>1 DEF Unfilled
<1>2. ASSUME NEW d \in Conn, d # c, HostDoes(d) \/ Taken(d) PROVE inbox'[c] = inbox[c]
  BY <1>2, Elsewhere1
<1>3. CASE Shrink
  BY <1>1, <1>3 DEF Shrink, Shrinks
<1>4. CASE Taken(c)
  BY <1>1, <1>4 DEF Taken
<1>5. CASE HostDoes(c)
  BY <1>1, <1>5, HostReads DEF Reading, Unfilled
<1> QED BY <1>1, <1>2, <1>3, <1>4, <1>5 DEF PipesMove

LEMMA OnePlaceStep ==
    ASSUME IInv, Moved
    PROVE  OnePlace'
<1> USE DEF IInv
<1>0. /\ PipesMove /\ OncePerPipe
      /\ \A c, d \in Conn : host_active[c] # 0 => ~Queued(host_active[c], d)
      /\ \A c, d \in Conn : host_active[c] # 0 /\ host_active[c] = host_active[d] => c = d
  BY EveryPipeStep, OnePlaceIs
<1> SUFFICES /\ OncePerPipe'
             /\ \A c, d \in Conn : host_active'[c] # 0 => ~Queued(host_active[c], d)'
             /\ \A c, d \in Conn :
                  host_active'[c] # 0 /\ host_active'[c] = host_active'[d] => c = d
  BY DEF OnePlace, OncePerPipe
<1>1. CASE \E c \in Conn, f \in InFrame : Sent(c, f)
  <2>1. PICK e \in Conn, f \in InFrame : Sent(e, f)
    BY <1>1
  <2>2. /\ inbox'[e] = Append(inbox[e], f) /\ inbox[e] \in Seq(InFrame) /\ f.id = next_id
        /\ host_active'[e] = host_active[e]
    BY <2>1, HostParts DEF Sent, Written
  <2> DEFINE n == Len(inbox[e]) + 1
  <2>3. /\ DOMAIN inbox'[e] = DOMAIN inbox[e] \cup {n} /\ n \notin DOMAIN inbox[e]
        /\ \A i \in DOMAIN inbox[e] : inbox'[e][i] = inbox[e][i]
        /\ inbox'[e][n] = f
    BY <2>2, AppendAt
  <2> HIDE DEF n
  <2>4. \A d \in Conn : d # e => inbox'[d] = inbox[d] /\ host_active'[d] = host_active[d]
    BY <2>1, Elsewhere1 DEF Sent
  <2>5. /\ \A c \in Conn : \A i \in DOMAIN inbox[c] : inbox[c][i].id # next_id
        /\ \A c \in Conn : host_active[c] # next_id
    BY FrameIds DEF Used, Id, EngineTypes, HostTypes
  <2>6. \A c \in Conn : \A i \in DOMAIN inbox'[c] :
           \/ i \in DOMAIN inbox[c] /\ inbox'[c][i] = inbox[c][i]
           \/ c = e /\ i = n /\ inbox'[c][i] = f
    BY <2>3, <2>4
  <2>7. OncePerPipe'
    <3>1. ASSUME NEW c \in Conn, NEW d \in Conn,
                 NEW i \in DOMAIN inbox'[c], NEW j \in DOMAIN inbox'[d],
                 inbox'[c][i].kind = "synthesize", inbox'[d][j].kind = "synthesize",
                 inbox'[c][i].id = inbox'[d][j].id
          PROVE  c = d /\ i = j
      <4>1. CASE /\ i \in DOMAIN inbox[c] /\ inbox'[c][i] = inbox[c][i]
                 /\ j \in DOMAIN inbox[d] /\ inbox'[d][j] = inbox[d][j]
        BY <1>0, <3>1, <4>1 DEF OncePerPipe
      <4>2. CASE inbox'[c][i] = f \/ inbox'[d][j] = f
        BY <2>2, <2>5, <2>6, <3>1, <4>2
      <4> QED BY <2>6, <4>1, <4>2
    <3> QED BY <3>1 DEF OncePerPipe
  <2>8. \A c \in Conn : host_active'[c] = host_active[c]
    BY <2>2, <2>4
  <2>9. ASSUME NEW c \in Conn, NEW d \in Conn, host_active'[c] # 0
        PROVE  ~Queued(host_active[c], d)'
    <3>1. ~Queued(host_active[c], d) /\ host_active[c] # f.id
      BY <1>0, <2>2, <2>5, <2>8, <2>9
    <3> QED BY <2>6, <2>8, <3>1 DEF Queued
  <2> QED BY <1>0, <2>7, <2>8, <2>9
<1>2. CASE ~\E c \in Conn, f \in InFrame : Sent(c, f)
  <2>1. OncePerPipe' /\ \A r : \A d \in Conn : Queued(r, d)' => Queued(r, d)
    BY <1>0, <1>2, Unwritten, UnfilledPlaces
  <2>2. ASSUME \A c \in Conn : host_active'[c] \in {host_active[c], 0}
        PROVE  /\ \A c, d \in Conn : host_active'[c] # 0 => ~Queued(host_active[c], d)'
               /\ \A c, d \in Conn :
                    host_active'[c] # 0 /\ host_active'[c] = host_active'[d] => c = d
    <3>1. ASSUME NEW c \in Conn, NEW d \in Conn, host_active'[c] # 0
          PROVE  ~Queued(host_active[c], d)'
      <4>1. PICK r : r = host_active[c]
        OBVIOUS
      <4>2. host_active'[c] = r /\ ~Queued(r, d)
        BY <1>0, <2>2, <3>1, <4>1
      <4>3. ~Queued(r, d)'
        BY <2>1, <4>2
      <4> QED BY <4>2, <4>3 DEF Queued
    <3> QED BY <1>0, <2>2, <3>1
  <2>3. ASSUME NEW e \in Conn, Admits(e)
        PROVE  /\ \A c, d \in Conn : host_active'[c] # 0 => ~Queued(host_active[c], d)'
               /\ \A c, d \in Conn :
                    host_active'[c] # 0 /\ host_active'[c] = host_active'[d] => c = d
    <3>1. /\ inbox[e] \in Seq(InFrame) /\ inbox[e] # <<>> /\ inbox'[e] = Tail(inbox[e])
          /\ inbox[e][1].kind = "synthesize" /\ host_active'[e] = inbox[e][1].id
          /\ host_active[e] = 0 /\ 1 \in DOMAIN inbox[e]
      BY <2>3, TailAt DEF Admits, Reading, Host
    <3>2. PICK r : r = inbox[e][1].id
      OBVIOUS
    <3>3. \A c \in Conn : c # e => host_active'[c] = host_active[c] /\ inbox'[c] = inbox[c]
      BY <2>3, Elsewhere1 DEF HostDoes
    <3>4. Queued(r, e) /\ \A c \in Conn : host_active[c] # 0 => host_active[c] # r
      BY <1>0, <3>1, <3>2 DEF Queued
    <3>5. ASSUME NEW d \in Conn PROVE ~Queued(r, d)'
      <4>1. CASE d = e
        <5>1. \A i \in DOMAIN inbox'[e] : /\ i + 1 \in DOMAIN inbox[e] /\ i + 1 # 1
                                          /\ inbox'[e][i] = inbox[e][i + 1]
          BY <3>1, TailAt
        <5>2. \A i \in DOMAIN inbox'[e] :
                 ~(inbox'[e][i].kind = "synthesize" /\ inbox'[e][i].id = r)
          BY <1>0, <3>1, <3>2, <5>1 DEF OncePerPipe
        <5> QED BY <4>1, <5>2 DEF Queued
      <4>2. CASE d # e
        BY <1>0, <3>1, <3>2, <3>3, <4>2 DEF Queued, OncePerPipe
      <4> QED BY <4>1, <4>2
    <3>6. ASSUME NEW c \in Conn, NEW d \in Conn, host_active'[c] # 0
          PROVE  ~Queued(host_active[c], d)'
      <4>1. CASE c = e
        BY <3>1, <3>2, <3>5, <4>1 DEF Queued
      <4>2. CASE c # e
        <5>1. PICK s : s = host_active[c]
          OBVIOUS
        <5>2. host_active'[c] = s /\ ~Queued(s, d)
          BY <1>0, <3>3, <3>6, <4>2, <5>1
        <5>3. ~Queued(s, d)'
          BY <2>1, <5>2
        <5> QED BY <5>2, <5>3 DEF Queued
      <4> QED BY <4>1, <4>2
    <3>7. \A c, d \in Conn :
             host_active'[c] # 0 /\ host_active'[c] = host_active'[d] => c = d
      BY <1>0, <3>1, <3>2, <3>3, <3>4
    <3> QED BY <3>6, <3>7
  <2>4. (\A c \in Conn : ~Admits(c)) => \A c \in Conn : host_active'[c] \in {host_active[c], 0}
    BY <1>0, ActiveFrom
  <2> QED BY <2>1, <2>2, <2>3, <2>4
<1> QED BY <1>1, <1>2

----------------------------------------------------------
(* Completion and cancellation exclude each other *)

\* Where the outcome of a request comes from.
LEMMA OutcomeFrom ==
    ASSUME IInv, Moved, NEW r \in Id, outcome'[r] = "completed"
    PROVE  \/ outcome[r] = "completed"
           \/ \E k \in Caller : call[k].id = r /\ call[k].result = "completed"
<1> USE DEF IInv
<1>0. DOMAIN outcome = Id
  BY DEF EngineTypes
<1>1. CASE outcome' = outcome
  BY <1>1
<1>2. ASSUME NEW k \in Caller, CallMoves(k), outcome' # outcome
      PROVE  \/ outcome[r] = "completed"
             \/ \E j \in Caller : call[j].id = r /\ call[j].result = "completed"
  <2>1. Dispatches(k) \/ TakesAnswer(k) \/ Invalidates(k) \/ Drops(k)
    BY <1>2 DEF CallMoves, Begins, Enters, Connects, Publishes, Retires, GivesUp, Loses,
                TakesOther, TakesAudio, TakesTerminal, Queries
  <2>2. ASSUME NEW s, NEW result, outcome' = [outcome EXCEPT ![s] = result]
        PROVE  outcome[r] = "completed" \/ (s = r /\ result = "completed")
    BY <1>0, <2>2
  <2>3. CASE Dispatches(k)
    <3>1. \/ outcome' = [outcome EXCEPT ![next_id] = "undispatched"]
          \/ outcome' = [outcome EXCEPT ![next_id] = "lost"]
      BY <1>2, <2>3 DEF Dispatches
    <3> QED BY <2>2, <3>1
  <2>4. CASE TakesAnswer(k)
    BY <2>2, <2>4 DEF TakesAnswer
  <2>5. CASE Invalidates(k) \/ Drops(k)
    <3>1. outcome' = [outcome EXCEPT ![call[k].id] = call[k].result]
      BY <1>2, <2>5 DEF Invalidates, Drops
    <3> QED BY <2>2, <3>1
  <2> QED BY <2>1, <2>3, <2>4, <2>5
<1> QED BY <1>1, <1>2, CallsRest

\* A request completes when its host ends it uncancelled.
LEMMA CompletedFrom ==
    ASSUME IInv, Moved, NEW r \in Id, Completed(r)'
    PROVE  \/ Completed(r)
           \/ \E c \in Conn : Finishes(c) /\ r = host_active[c] /\ ~cancelled[c]
<1> USE DEF IInv
<1>1. ASSUME NEW c \in Conn, NEW i \in DOMAIN outbox'[c],
             outbox'[c][i].kind = "completed", outbox'[c][i].id = r
      PROVE  \/ Completed(r)
             \/ Finishes(c) /\ r = host_active[c] /\ ~cancelled[c]
  BY <1>1, EveryPipeStep, OutboxFrom DEF Completed
<1>2. ASSUME NEW k \in Caller, call'[k].id = r, call'[k].result = "completed"
      PROVE  Completed(r)
  <2>1. CASE call'[k].result = call[k].result /\ call'[k].id = call[k].id
    BY <1>2, <2>1 DEF Completed
  <2>2. CASE /\ TakesTerminal(k) /\ call'[k].id = call[k].id
             /\ call'[k].result \in {outbox[call[k].conn][1].kind, "cancelled"}
    <3>1. Waiting(k) /\ Taken(call[k].conn) /\ outbox[call[k].conn][1].id = call[k].id
      BY <2>2 DEF TakesTerminal
    <3>2. PICK c \in Conn : c = call[k].conn
      BY <3>1, CallsConn DEF Waiting
    <3>3. 1 \in DOMAIN outbox[c]
      BY <3>1, <3>2, TailAt DEF Taken
    <3>4. outbox[c][1].kind = "completed" /\ outbox[c][1].id = r
      BY <1>2, <2>2, <3>1, <3>2
    <3> QED BY <3>3, <3>4 DEF Completed
  <2> QED BY <1>2, <2>1, <2>2, ResultFrom
<1>3. ASSUME outcome'[r] = "completed" PROVE Completed(r)
  BY <1>3, OutcomeFrom DEF Completed
<1> QED BY <1>1, <1>2, <1>3 DEF Completed

\* Only an acknowledged cancel makes a request accepted.
LEMMA AcceptedFrom ==
    ASSUME IInv, Moved, NEW r \in accepted'
    PROVE  r \in Id /\ (r \in accepted \/ \E c \in Conn : Cancels(c) /\ r = host_active[c])
<1> USE DEF IInv
<1>1. PipesMove /\ accepted \subseteq Id
  BY EveryPipeStep DEF HostTypes
<1>2. ASSUME NEW c \in Conn, HostDoes(c), r \notin accepted
      PROVE  r \in Id /\ Cancels(c) /\ r = host_active[c]
  BY <1>2 DEF HostDoes, Admits, Answers, Cancels, Declines, Works, Finishes
<1>3. ASSUME \/ Shrink
             \/ \E c \in Conn, f \in InFrame : Sent(c, f)
             \/ \E c \in Conn : Taken(c)
      PROVE  accepted' = accepted
  BY <1>3 DEF Shrink, Sent, Written, Taken
<1> QED BY <1>1, <1>2, <1>3 DEF PipesMove

\* A request is not queued anew.
LEMMA NotQueuedAgain ==
    ASSUME IInv, Moved, NEW r \in Id, r < next_id, NEW c \in Conn, ~Queued(r, c)
    PROVE  ~Queued(r, c)'
<1> USE DEF IInv
<1>1. ASSUME NEW i \in DOMAIN inbox'[c], inbox'[c][i].kind = "synthesize",
             inbox'[c][i].id = r
      PROVE  FALSE
  <2>1. ASSUME NEW f \in InFrame, Sent(c, f), inbox'[c][i] = f PROVE FALSE
    <3>1. r = next_id
      BY <1>1, <2>1 DEF Sent
    <3> QED BY <3>1 DEF EngineTypes
  <2> QED BY <1>1, <2>1, EveryPipeStep, InboxFrom DEF Queued
<1> QED BY <1>1 DEF Queued

LEMMA CompletedUsed ==
    ASSUME IInv, NEW r \in Id, Completed(r)
    PROVE  r < next_id
<1> USE DEF IInv
<1>1. CASE outcome[r] = "completed"
  BY <1>1 DEF Used, EngineTypes, Id
<1>2. CASE outcome[r] # "completed"
  BY <1>2 DEF Completed, Used
<1> QED BY <1>1, <1>2

LEMMA CompletedIsOverStep ==
    ASSUME IInv, Moved
    PROVE  CompletedIsOver'
<1> USE DEF IInv
<1> SUFFICES ASSUME NEW r \in Id, Completed(r)'
             PROVE  /\ r \notin accepted'
                    /\ \A c \in Conn : ~Queued(r, c)' /\ host_active'[c] # r
  BY DEF CompletedIsOver, Queued
<1>0. PipesMove /\ r # 0
  BY EveryPipeStep DEF Id
<1>1. CASE Completed(r)
  <2>1. /\ r \notin accepted /\ r < next_id
        /\ \A c \in Conn : ~Queued(r, c) /\ host_active[c] # r
    BY <1>1, CompletedUsed DEF CompletedIsOver
  <2>2. r \notin accepted'
    BY <2>1, AcceptedFrom
  <2>3. \A c \in Conn : ~Queued(r, c)'
    BY <2>1, NotQueuedAgain
  <2>4. ASSUME NEW c \in Conn PROVE host_active'[c] # r
    <3>1. CASE Admits(c) /\ host_active'[c] = inbox[c][1].id
      <4>1. inbox[c][1].kind = "synthesize" /\ 1 \in DOMAIN inbox[c]
        BY <3>1, TailAt DEF Admits, Reading
      <4> QED BY <2>1, <3>1, <4>1 DEF Queued
    <3> QED BY <1>0, <2>1, <3>1, ActiveFrom
  <2> QED BY <2>2, <2>3, <2>4
<1>2. ASSUME NEW e \in Conn, Finishes(e), r = host_active[e], ~cancelled[e]
      PROVE  /\ r \notin accepted'
             /\ \A c \in Conn : ~Queued(r, c)' /\ host_active'[c] # r
  <2>1. accepted' = accepted /\ host_active'[e] = 0 /\ HostDoes(e)
    BY <1>2 DEF Finishes, Host, HostDoes
  <2>2. r \notin accepted /\ r < next_id
    BY <1>2 DEF AcceptedIsCancelled, Used
  <2>3. /\ \A c \in Conn : ~Queued(r, c)
        /\ \A c \in Conn : c # e => host_active[c] # r
    BY <1>0, <1>2 DEF OnePlace
  <2>4. \A c \in Conn : ~Queued(r, c)'
    BY <2>2, <2>3, NotQueuedAgain
  <2>5. \A c \in Conn : host_active'[c] # r
    BY <1>0, <2>1, <2>3, Elsewhere1
  <2> QED BY <2>1, <2>2, <2>4, <2>5
<1> QED BY <1>1, <1>2, CompletedFrom

\* A cancelled synthesis stays cancelled until another is admitted.
LEMMA CancelledStays ==
    ASSUME HostTypes, PipesMove, NEW c \in Conn, cancelled[c]
    PROVE  cancelled'[c] \/ host_active'[c] = 0 \/ Admits(c)
<1>1. ASSUME NEW d \in Conn, d # c,
             HostDoes(d) \/ Taken(d) \/ \E f \in InFrame : Written(d, f)
      PROVE  cancelled'[c] = cancelled[c]
  BY <1>1, Elsewhere1
<1>2. CASE Shrink
  BY <1>2 DEF Shrink, Shrinks
<1>3. CASE Taken(c) \/ \E f \in InFrame : Written(c, f)
  BY <1>3 DEF Taken, Written
<1>4. CASE HostDoes(c)
  BY <1>4 DEF HostDoes, Answers, Cancels, Declines, Works, Finishes, Host
<1> QED BY <1>1, <1>2, <1>3, <1>4 DEF PipesMove, Sent

LEMMA AcceptedIsCancelledStep ==
    ASSUME IInv, Moved
    PROVE  AcceptedIsCancelled'
<1> USE DEF IInv
<1> SUFFICES ASSUME NEW r \in accepted', NEW c \in Conn
             PROVE  ~Queued(r, c)' /\ (host_active'[c] = r => cancelled'[c])
  BY DEF AcceptedIsCancelled, Queued
<1>0. PipesMove /\ r \in Id /\ r # 0
  BY EveryPipeStep, AcceptedFrom DEF Id
<1>1. CASE r \in accepted
  <2>1. ~Queued(r, c) /\ (host_active[c] = r => cancelled[c]) /\ r < next_id
    BY <1>1 DEF AcceptedIsCancelled, Used
  <2>2. ~Queued(r, c)'
    BY <1>0, <2>1, NotQueuedAgain
  <2>3. ASSUME Admits(c), host_active'[c] = r PROVE FALSE
    <3>1. /\ inbox[c][1].kind = "synthesize" /\ 1 \in DOMAIN inbox[c]
          /\ host_active'[c] = inbox[c][1].id
      BY <2>3, TailAt DEF Admits, Reading, Host
    <3> QED BY <2>1, <2>3, <3>1 DEF Queued
  <2>4. ASSUME host_active'[c] = r PROVE cancelled'[c]
    <3>1. host_active[c] = r
      BY <1>0, <2>3, <2>4, ActiveFrom
    <3> QED BY <1>0, <2>1, <2>3, <2>4, <3>1, CancelledStays
  <2> QED BY <2>2, <2>4
<1>2. ASSUME NEW e \in Conn, Cancels(e), r = host_active[e]
      PROVE  ~Queued(r, c)' /\ (host_active'[c] = r => cancelled'[c])
  <2>1. host_active'[e] = r /\ cancelled'[e] /\ HostDoes(e)
    BY <1>2 DEF Cancels, Host, HostDoes
  <2>2. ~Queued(r, c) /\ (c # e => host_active[c] # r) /\ r < next_id
    BY <1>0, <1>2 DEF OnePlace, Used
  <2>3. ~Queued(r, c)'
    BY <1>0, <2>2, NotQueuedAgain
  <2>4. host_active'[c] = r => cancelled'[c]
    BY <2>1, <2>2, Elsewhere1
  <2> QED BY <2>3, <2>4
<1> QED BY <1>1, <1>2, AcceptedFrom

----------------------------------------------------------
(* A stop reaches the request under way *)

\* A request under way was under way before, or is sent in the present epoch.
LEMMA CollectFrom ==
    ASSUME IInv, Moved, NEW k \in Caller, call'[k].at = "collect"
    PROVE  \/ /\ call[k].at = "collect" /\ call'[k].id = call[k].id
              /\ call'[k].conn = call[k].conn /\ call'[k].epoch = call[k].epoch
           \/ call'[k].epoch = stop_epoch'
<1> USE DEF IInv
<1>1. CASE ~CallMoves(k)
  <2>1. call'[k] = call[k]
    BY <1>1, OthersRest, CallsRest
  <2> QED BY <2>1
<1>2. ASSUME CallEnds(k) PROVE FALSE
  BY <1>2, NoCallType DEF CallEnds
<1>3. CASE \/ Begins(k) \/ Enters(k) \/ Connects(k) \/ Publishes(k) \/ Retires(k) \/ GivesUp(k)
           \/ Loses(k) \/ TakesAnswer(k) \/ Invalidates(k) \/ Drops(k) \/ Queries(k)
  <2>1. CASE Begins(k) \/ Queries(k) \/ Loses(k)
    BY <2>1 DEF Begins, Queries, Loses, CallTo
  <2>2. CASE Enters(k) \/ Connects(k)
    BY <1>2, <2>2 DEF Enters, Connects, Moves, Leaves, CallTo
  <2>3. CASE Publishes(k)
    BY <1>2, <2>3 DEF Publishes, Leaves, CallTo
  <2>4. CASE Retires(k) \/ GivesUp(k) \/ TakesAnswer(k) \/ Drops(k)
    BY <1>2, <2>4 DEF Retires, GivesUp, TakesAnswer, Drops, Moves, Leaves, CallTo
  <2>5. CASE Invalidates(k)
    BY <1>2, <2>5 DEF Invalidates, Moves, Leaves, CallTo
  <2> QED BY <1>3, <2>1, <2>2, <2>3, <2>4, <2>5
<1>4. CASE Dispatches(k)
  <2>1. CASE /\ call[k].epoch = stop_epoch
             /\ CallTo(k, "collect", call[k].conn, next_id, call[k].result)
    BY <1>4, <2>1 DEF Dispatches, CallTo
  <2> QED BY <1>2, <1>4, <2>1 DEF Dispatches, Leaves
<1>5. CASE TakesOther(k)
  BY <1>5 DEF TakesOther, CallTo
<1>6. CASE TakesAudio(k)
  BY <1>6 DEF TakesAudio, CallTo
<1>7. CASE TakesTerminal(k)
  BY <1>7 DEF TakesTerminal, CallTo
<1> QED BY <1>1, <1>3, <1>4, <1>5, <1>6, <1>7 DEF CallMoves

\* A cancellation keeps its target.
LEMMA TargetStays ==
    ASSUME IInv, Moved, NEW x \in Id, cancel[x].target # 0
    PROVE  cancel'[x].target = cancel[x].target
<1> USE DEF IInv
<1>1. CASE CancelsAdvance
  BY <1>1 DEF CancelsAdvance, Advances
<1>2. CASE SendsCancel
  <2>1. x # next_id
    BY NoCancelType DEF Used, EngineTypes
  <2> QED BY <1>2, <2>1, SendsCancelEffect
<1> QED BY <1>1, <1>2, EveryCancelStep

\* The epoch moves when a stop begins, and a stop is over when it has been dispatched.
LEMMA StopsMove ==
    ASSUME IInv, Moved
    PROVE  \/ stop_epoch' = stop_epoch /\ stopping' = stopping
           \/ stop_epoch' = stop_epoch + 1 /\ stopping' = stopping + 1
           \/ StopSends /\ stop_epoch' = stop_epoch
<1>1. ASSUME NEW k \in Caller, CallMoves(k)
      PROVE  stop_epoch' = stop_epoch /\ stopping' = stopping
  <2>1. CASE \/ Begins(k) \/ Enters(k) \/ Connects(k) \/ Publishes(k) \/ Retires(k)
             \/ GivesUp(k) \/ Dispatches(k) \/ Loses(k)
    BY <2>1 DEF Begins, Enters, Connects, Publishes, Retires, GivesUp, Dispatches, Loses,
                numberVars
  <2>2. CASE \/ TakesOther(k) \/ TakesAudio(k) \/ TakesTerminal(k) \/ TakesAnswer(k)
             \/ Invalidates(k) \/ Drops(k) \/ Queries(k)
    BY <2>2 DEF TakesOther, TakesAudio, TakesTerminal, TakesAnswer, Invalidates, Drops,
                Queries, numberVars
  <2> QED BY <1>1, <2>1, <2>2 DEF CallMoves
<1>2. ASSUME \/ Crashes \/ Same \/ \E c \in Conn : HostMoves(c)
             \/ \E x \in Id : Fires(x) \/ Kills(x)
      PROVE  stop_epoch' = stop_epoch /\ stopping' = stopping
  BY <1>2 DEF Crashes, Same, HostMoves, Fires, Kills, numberVars
<1> QED BY <1>1, <1>2 DEF Moved, StopBegan, StopSends

LEMMA StopReachesRequestStep ==
    ASSUME IInv, Moved
    PROVE  StopReachesRequest'
<1> USE DEF IInv
<1> SUFFICES ASSUME NEW k \in Caller, call'[k].at = "collect", call'[k].epoch # stop_epoch'
             PROVE  \/ stopping' > 0
                    \/ \E x \in Id : cancel'[x].target = call'[k].id
                    \/ call'[k].conn \in terminated'
  BY DEF StopReachesRequest
<1>1. /\ call[k].at = "collect" /\ call'[k].id = call[k].id
      /\ call'[k].conn = call[k].conn /\ call'[k].epoch = call[k].epoch
  BY CollectFrom
<1>2. PICK c : c = call[k].conn
  OBVIOUS
<1>3. PICK r : r = call[k].id
  OBVIOUS
<1>4. /\ r \in Id /\ r # 0 /\ active = r /\ c # 0
      /\ c = connection \/ c \in terminated
      /\ terminated \subseteq terminated'
  <2>1. Stands(k)
    BY DEF Standing
  <2>2. terminated \subseteq terminated'
    BY EveryProcessStep, ProcessesStep
  <2> QED BY <1>1, <1>2, <1>3, <2>1, <2>2, CallsConn DEF Stands, Id
<1>5. stopping \in Nat /\ stop_epoch \in Nat
  BY DEF EngineTypes
<1>6. CASE stop_epoch' = stop_epoch + 1 /\ stopping' = stopping + 1
  BY <1>5, <1>6
<1>7. ASSUME NEW x \in Id, cancel[x].target = r
      PROVE  \E y \in Id : cancel'[y].target = r
  BY <1>4, <1>7, TargetStays
<1>8. CASE stop_epoch' = stop_epoch /\ stopping' = stopping
  <2>1. stopping > 0 \/ (\E x \in Id : cancel[x].target = r) \/ c \in terminated
    BY <1>1, <1>2, <1>3, <1>8 DEF StopReachesRequest
  <2> QED BY <1>1, <1>2, <1>3, <1>4, <1>7, <1>8, <2>1
<1>9. CASE StopSends /\ stop_epoch' = stop_epoch
  <2>1. CASE connection = 0
    BY <1>1, <1>2, <1>4, <2>1
  <2>2. CASE EntryOf(active) # {}
    BY <1>1, <1>3, <1>4, <1>7, <2>2 DEF EntryOf
  <2>3. CASE cancel' = [cancel EXCEPT ![next_id] =
               [target |-> active, conn |-> connection, state |-> "active",
                consumed |-> FALSE, retained |-> TRUE, watchdog |-> "sleeping"]]
    <3>1. next_id \in Id
      BY <1>9, NumberLeft DEF StopSends
    <3>2. cancel'[next_id].target = active
      BY <2>3, <3>1 DEF EngineTypes
    <3> QED BY <1>1, <1>3, <1>4, <3>1, <3>2
  <2>4. CASE Invalidated(connection)
    <3>1. connection \in terminated'
      BY <2>4 DEF Invalidated, Killed
    <3> QED BY <1>1, <1>2, <1>4, <3>1
  <2> QED BY <1>4, <1>9, <2>1, <2>2, <2>3, <2>4 DEF StopSends
<1> QED BY <1>6, <1>8, <1>9, StopsMove

----------------------------------------------------------
(* The invariant and the theorems *)

LEMMA InvInit ==
    Init => IInv
<1> SUFFICES ASSUME Init PROVE IInv
  OBVIOUS
<1> USE HostAssumption, EngineAssumption
<1>1. /\ inbox = [c \in Conn |-> <<>>] /\ outbox = [c \in Conn |-> <<>>]
      /\ host_active = [c \in Conn |-> 0] /\ cancelled = [c \in Conn |-> FALSE]
      /\ worker = [c \in Conn |-> "idle"] /\ accepted = {} /\ alive = {}
  BY DEF Init, HostInit
<1>2. /\ connection = 0 /\ retiring = 0 /\ started = 0 /\ terminated = {}
      /\ stop_epoch = 0 /\ stopping = 0 /\ active = 0 /\ next_id = 1
      /\ call = [k \in Caller |-> NoCall] /\ cancel = [x \in Id |-> NoCancel]
      /\ outcome = [r \in Id |-> "none"] /\ calls = 0 /\ queries = 0
  BY DEF Init
<1>3. HostTypes
  BY <1>1 DEF HostTypes
<1>4. \A c \in Conn : Empty(c)
  BY <1>1 DEF Empty
<1>5. EngineTypes
  BY <1>1, <1>2, NoCallType, NoCancelType DEF EngineTypes
<1>6. Serialised /\ Standing
  BY <1>2, NoCallType DEF Serialised, Standing, Locked, Stands
<1>7. IdsLast
  <2>1. Undispatched = {}
    BY <1>2, NoCallType DEF Undispatched
  <2>2. IsFiniteSet(Undispatched) /\ Cardinality(Undispatched) = 0
    BY <2>1, FS_EmptySet
  <2> QED BY <1>2, <2>2 DEF IdsLast
<1>8. Used
  <2>1. \A c \in Conn : DOMAIN inbox[c] = {} /\ DOMAIN outbox[c] = {} /\ host_active[c] = 0
    BY <1>1
  <2> QED BY <1>1, <1>2, <2>1, NoCallType DEF Used
<1>9. OneHelperAlive /\ ClosedIsTerminated
  BY <1>1, <1>2, <1>4 DEF OneHelperAlive, ClosedIsTerminated
<1>10. OneAtATime
  BY <1>2, <1>4, NoCallType DEF OneAtATime, Waiting, Quiet, Empty, NoRequest, OnlyAnswers, Conn
<1>11. AnswersExpected
  BY <1>4 DEF AnswersExpected, Expected, Empty
<1>12. RequestsDoNotCollide /\ StopReachesRequest
  BY <1>2, NoCallType DEF RequestsDoNotCollide, StopReachesRequest
<1>13. OnePlace /\ CompletedIsOver /\ AcceptedIsCancelled
  <2>1. \A r \in Id : ~Completed(r)
    BY <1>2, <1>4, NoCallType DEF Completed, Empty
  <2> QED BY <1>1, <1>4, <2>1 DEF OnePlace, CompletedIsOver, AcceptedIsCancelled, Empty
<1> QED BY <1>3, <1>5, <1>6, <1>7, <1>8, <1>9, <1>10, <1>11, <1>12, <1>13 DEF IInv

LEMMA InvStep ==
    IInv /\ [Next]_vars => IInv'
<1> SUFFICES ASSUME IInv, [Next]_vars PROVE IInv'
  OBVIOUS
<1>1. Moved
  BY EveryStep
<1>2. OneHelperAlive'
  BY <1>1, EveryProcessStep, ProcessesStep DEF IInv
<1>3. NumbersMove
  BY <1>1, EveryNumberStep
<1> QED BY <1>1, <1>2, <1>3, HostTypesStep, EngineTypesStep, SerialisedStep, StandingStep,
           IdsLastStep, UsedStep, ClosedStep, OneAtATimeStep, AnswersExpectedStep,
           RequestsDoNotCollideStep, OnePlaceStep, CompletedIsOverStep,
           AcceptedIsCancelledStep, StopReachesRequestStep DEF IInv

\* The inductive invariant holds of every behaviour of the client, its callers, its
\* stops, its watchdogs and its helper processes (helper_engine.rs,
\* omnivox-helper-host/src/lib.rs).
THEOREM HelperInvariant == Spec => []IInv
<1>1. Init => IInv
  BY InvInit
<1>2. IInv /\ [Next]_vars => IInv'
  BY InvStep
<1> QED BY <1>1, <1>2, PTL DEF Spec

\* For any number of callers and connections there is one helper process at a time,
\* no request reads the answer of another, no request is both cancelled and
\* completed, and no stop misses the request under way (install_fresh_connection,
\* synthesize_detailed, handle_cancel, finish_synthesis, stop).
THEOREM HelperIsSound == Spec => []HelperSound
<1>1. IInv => AcceptedCancelHolds
  BY DEF IInv, HostTypes, CompletedIsOver, Completed, AcceptedCancelHolds
<1>2. IInv => HelperSound
  BY <1>1 DEF IInv, HelperSound
<1> QED BY <1>2, HelperInvariant, PTL
===============================================================================

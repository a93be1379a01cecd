------------------------------ MODULE HelperHost ------------------------------
(***************************************************************************)
(* HelperRuntime of omnivox-helper-host/src/lib.rs: the loop of a helper   *)
(* process that reads one request frame at a time, the thread that runs    *)
(* the one synthesis it admits, and the lock under which a synthesis ends  *)
(* or is cancelled.  Each process serves one connection of the parent.     *)
(*                                                                         *)
(* A frame is its kind, its request id and, for a cancel, its target.  The *)
(* audio of a synthesis is one frame.  The native call may return anything *)
(* or never return.  The pipes are unbounded; negotiation is a step of the *)
(* parent (HelperEngine).                                                  *)
(***************************************************************************)
EXTENDS Integers, Sequences, FiniteSets

CONSTANTS MaxConnections   \* bound: processes started

ASSUME HostAssumption == MaxConnections \in Nat \ {0}

VARIABLES
    alive,          \* processes that have not been seen to exit
    inbox, outbox,  \* the pipes of a process
    host_active,    \* RuntimeState.active: the request id, 0 when none
    cancelled,      \* ActiveSynthesis.cancelled of the active request
    worker,         \* where the synthesis thread of a process stands
    accepted        \* requests whose cancellation a host has acknowledged

hostVars == <<alive, inbox, outbox, host_active, cancelled, worker, accepted>>

Conn == 1..MaxConnections
NativeResult == {"completed", "failed", "refused"}
Terminal == NativeResult \cup {"cancelled"}

Frame(kind, id) == [kind |-> kind, id |-> id]

HostInit ==
    /\ alive = {}
    /\ inbox = [c \in Conn |-> <<>>]
    /\ outbox = [c \in Conn |-> <<>>]
    /\ host_active = [c \in Conn |-> 0]
    /\ cancelled = [c \in Conn |-> FALSE]
    /\ worker = [c \in Conn |-> "idle"]
    /\ accepted = {}

Send(c, frame) == outbox' = [outbox EXCEPT ![c] = Append(@, frame)]

Reads(c, kind) ==
    /\ c \in alive
    /\ inbox[c] # <<>>
    /\ Head(inbox[c]).kind = kind
    /\ inbox' = [inbox EXCEPT ![c] = Tail(@)]

\* Refused: the engine is not available or the voice is not found.
HandleSynthesis(c) ==
    /\ Reads(c, "synthesize")
    /\ LET id == Head(inbox[c]).id IN
        \/ /\ Send(c, Frame("refused", id))
           /\ UNCHANGED <<host_active, cancelled, worker>>
        \/ /\ host_active[c] # 0
           /\ Send(c, Frame("busy", id))
           /\ UNCHANGED <<host_active, cancelled, worker>>
        \/ /\ host_active[c] = 0
           /\ host_active' = [host_active EXCEPT ![c] = id]
           /\ cancelled' = [cancelled EXCEPT ![c] = FALSE]
           /\ worker' = [worker EXCEPT ![c] = "native"]
           /\ UNCHANGED outbox
    /\ UNCHANGED <<alive, accepted>>

\* The acknowledgement is written under the lock of the active synthesis.
HandleCancel(c) ==
    /\ Reads(c, "cancel")
    /\ LET frame == Head(inbox[c]) IN
        \/ /\ host_active[c] = frame.target
           /\ cancelled' = [cancelled EXCEPT ![c] = TRUE]
           /\ accepted' = accepted \cup {frame.target}
           /\ Send(c, Frame("cancel_accepted", frame.id))
        \/ /\ host_active[c] # frame.target
           /\ Send(c, Frame("cancel_refused", frame.id))
           /\ UNCHANGED <<cancelled, accepted>>
    /\ UNCHANGED <<alive, host_active, worker>>

HandleParameters(c) ==
    /\ Reads(c, "query")
    /\ Send(c, Frame("answer", Head(inbox[c]).id))
    /\ UNCHANGED <<alive, host_active, cancelled, worker, accepted>>

\* A progressive engine hands over audio while its native call runs.
StreamAudio(c) ==
    /\ c \in alive
    /\ worker[c] = "native"
    /\ ~cancelled[c]
    /\ worker' = [worker EXCEPT ![c] = "streaming"]
    /\ Send(c, Frame("audio", host_active[c]))
    /\ UNCHANGED <<alive, inbox, host_active, cancelled, accepted>>

\* The native call returns: what is left to do is decided once, before buffered
\* audio is written.
NativeReturns(c, result) ==
    /\ c \in alive
    /\ worker[c] \in {"native", "streaming"}
    /\ worker' = [worker EXCEPT ![c] =
                    IF cancelled[c] THEN "cancelled"
                    ELSE IF result = "completed" /\ @ = "native" THEN "emitting"
                    ELSE result]
    /\ UNCHANGED <<alive, inbox, outbox, host_active, cancelled, accepted>>

EmitResult(c) ==
    /\ c \in alive
    /\ worker[c] = "emitting"
    /\ \/ /\ cancelled[c]
          /\ worker' = [worker EXCEPT ![c] = "cancelled"]
          /\ UNCHANGED outbox
       \/ /\ ~cancelled[c]
          /\ worker' = [worker EXCEPT ![c] = "completed"]
          /\ Send(c, Frame("audio", host_active[c]))
    /\ UNCHANGED <<alive, inbox, host_active, cancelled, accepted>>

\* Mutant: the terminal frame is decided before the lock is taken.
FinishSynthesisUnchecked(c) ==
    /\ c \in alive
    /\ worker[c] \in Terminal
    /\ Send(c, Frame(worker[c], host_active[c]))
    /\ host_active' = [host_active EXCEPT ![c] = 0]
    /\ worker' = [worker EXCEPT ![c] = "idle"]
    /\ UNCHANGED <<alive, inbox, cancelled, accepted>>

FinishSynthesis(c) ==
    /\ c \in alive
    /\ worker[c] \in Terminal
    /\ Send(c, Frame(IF cancelled[c] THEN "cancelled" ELSE worker[c], host_active[c]))
    /\ host_active' = [host_active EXCEPT ![c] = 0]
    /\ worker' = [worker EXCEPT ![c] = "idle"]
    /\ UNCHANGED <<alive, inbox, cancelled, accepted>>

\* The process is gone, and with it what it was doing and had not read.
ProcessEnds(c) ==
    /\ alive' = alive \ {c}
    /\ inbox' = [inbox EXCEPT ![c] = <<>>]
    /\ host_active' = [host_active EXCEPT ![c] = 0]
    /\ cancelled' = [cancelled EXCEPT ![c] = FALSE]
    /\ worker' = [worker EXCEPT ![c] = "idle"]

HostStep(c) ==
    \/ HandleSynthesis(c)
    \/ HandleCancel(c)
    \/ HandleParameters(c)
    \/ StreamAudio(c)
    \/ \E result \in NativeResult : NativeReturns(c, result)
    \/ EmitResult(c)
    \/ FinishSynthesis(c)

HostTypeOK ==
    /\ alive \subseteq Conn
    /\ host_active \in [Conn -> Nat]
    /\ cancelled \in [Conn -> BOOLEAN]
    /\ worker \in [Conn -> {"idle", "native", "streaming", "emitting"} \cup Terminal]
    /\ accepted \subseteq Nat
===============================================================================

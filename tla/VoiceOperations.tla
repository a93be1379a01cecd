-------------------------- MODULE VoiceOperations --------------------------
(***************************************************************************)
(* Journalled validation of voices                                         *)
(* (omnivox-tts/src/voice_library/operations*, run by the supervisor of    *)
(* omnivox-cli/src/voice_validation/).  A supervisor holds the profile's   *)
(* lease, records what it is about to do, starts one owned worker process  *)
(* after another, and records their cleanup and its own outcome.  It may   *)
(* die between any two steps, or any write may fail or be torn; the worker *)
(* processes may outlive it.  Another process later reads what is on disk  *)
(* and decides whether the profile is clear.                               *)
(*                                                                         *)
(* Both leases are taken without waiting, so a process that does not get   *)
(* one changes nothing: only the holder's steps are modelled.              *)
(***************************************************************************)
EXTENDS Naturals, Sequences

CONSTANTS
    Operations,   \* operations of the profile
    Workers,      \* worker processes of one operation: its native loads, and two
    NoOperation

ASSUME OperationsAssumption ==
    Workers \in Nat \ {0} /\ NoOperation \notin Operations

VARIABLES
    disk,         \* disk[o]: what operation o's directory holds
    claims,       \* claims[o]: its admission claim: none, whole or torn
    supervisor,   \* the process that holds the profile lease
    tree          \* tree[o]: o's worker processes: none, gated or started

operationVars == <<disk, claims, supervisor, tree>>

NoSupervisor == [pc |-> "none", o |-> NoOperation, validating |-> FALSE,
                 pending |-> FALSE, poisoned |-> FALSE, cancelled |-> FALSE,
                 result |-> TRUE]

EmptyDirectory ==
    [journal |-> <<>>, damage |-> FALSE, workers |-> FALSE, events |-> 0,
     tornEvent |-> FALSE, evidence |-> "none", receipt |-> "none"]

OperationsInit ==
    /\ disk = [o \in Operations |-> EmptyDirectory]
    /\ claims = [o \in Operations |-> "none"]
    /\ supervisor = NoSupervisor
    /\ tree = [o \in Operations |-> "none"]

-----------------------------------------------------------------------------
(* What a reader makes of the files *)

\* Journal::state, after the last whole record.
JournalState(o) ==
    IF disk[o].journal = <<>> THEN "None" ELSE disk[o].journal[Len(disk[o].journal)]

\* Transition::validate
ValidTransition(previous, state) ==
    \/ previous = "None" /\ state = "Prepared"
    \/ previous = "Prepared" /\ state \in {"Validating", "Cancelled", "Failed"}
    \/ previous = "Validating"
       /\ state \in {"Staged", "Cancelled", "Failed", "RecoveryFailed"}

\* Mutant: a worker whose cleanup was not recorded is not missed.
ObserveOwnedOnly(o) ==
    /\ JournalState(o) = "Validating"
    /\ disk[o].workers /\ ~disk[o].tornEvent

\* Recovery::observe: intent, owned and cleaned of every worker that began.
Observe(o) ==
    /\ JournalState(o) = "Validating"
    /\ disk[o].workers /\ ~disk[o].tornEvent
    /\ disk[o].events % 3 = 0 /\ disk[o].events <= 3 * Workers

\* Operation::try_open succeeds, with any receipt verified again.
Opens(o) ==
    /\ disk[o].journal # <<>> \/ disk[o].damage
    /\ disk[o].receipt # "none" => disk[o].receipt = "whole" /\ Observe(o)

\* Operation::inspection
Inspect(o) ==
    IF disk[o].receipt = "whole" THEN "Abandoned"
    ELSE IF disk[o].damage THEN "Damaged"
    ELSE IF JournalState(o) = "Validating" THEN "Interrupted"
    ELSE JournalState(o)

Claimed == {o \in Operations : claims[o] # "none"}

\* Admission::claims and inspect: one damaged or missing history is an error.
HistoryReadable == \A o \in Claimed : claims[o] = "whole" /\ Opens(o)

Resolved(o) == Inspect(o) \in {"Staged", "Cancelled", "Failed", "Abandoned"}

\* Operation::verified_validation: what installation accepts.
VerifiedValidation(o) ==
    /\ claims[o] = "whole" /\ Opens(o) /\ Inspect(o) = "Staged"
    /\ disk[o].evidence = "whole"
    /\ disk[o].events = 3 * Workers /\ ~disk[o].tornEvent

-----------------------------------------------------------------------------
\* managed::run, on error: unresolved, cancelled or failed.
Terminal ==
    IF supervisor.pending THEN "RecoveryFailed"
    ELSE IF supervisor.cancelled THEN "Cancelled" ELSE "Failed"

(* Writes.  A write that fails, or is cut short by a crash, may leave a part. *)


\* What the step at pc would write for operation o, whole.
Written(pc, o) ==
    CASE pc = "validating" -> [disk[o] EXCEPT !.journal = Append(@, "Validating")]
      [] pc \in {"intent", "own", "cleaned"} -> [disk[o] EXCEPT !.events = @ + 1]
      [] pc = "save" -> [disk[o] EXCEPT !.evidence = "whole"]
      [] pc = "stage" -> [disk[o] EXCEPT !.journal = Append(@, "Staged")]
      [] pc = "terminal" -> [disk[o] EXCEPT !.journal = Append(@, Terminal)]
      [] pc = "receipt" -> [disk[o] EXCEPT !.receipt = "whole"]
      [] OTHER -> disk[o]

\* And what is left of it when it is cut short.
Torn(pc, o) ==
    CASE pc \in {"validating", "stage", "terminal"} -> [disk[o] EXCEPT !.damage = TRUE]
      [] pc \in {"intent", "own", "cleaned"} -> [disk[o] EXCEPT !.tornEvent = TRUE]
      [] pc = "save" -> [disk[o] EXCEPT !.evidence = "torn"]
      [] pc = "receipt" -> [disk[o] EXCEPT !.receipt = "torn"]
      [] OTHER -> disk[o]

Pc == supervisor.pc
Op == supervisor.o
To(pc) == supervisor' = [supervisor EXCEPT !.pc = pc]

\* The step's write succeeds and the supervisor goes on with s.
Write(s) ==
    /\ disk' = [disk EXCEPT ![Op] = Written(Pc, Op)]
    /\ supervisor' = s
    /\ UNCHANGED <<claims, tree>>

\* It fails, whole or torn, and the supervisor takes its error path.
WriteFails ==
    /\ Pc \in {"validating", "intent", "own", "cleaned", "save", "stage", "terminal"}
    /\ Pc = "terminal" => ~supervisor.poisoned
    /\ Pc \in {"validating", "stage"} => ~supervisor.cancelled
    /\ \E left \in {disk[Op], Torn(Pc, Op), Written(Pc, Op)} :
          disk' = [disk EXCEPT ![Op] = left]
    /\ supervisor' =
          IF Pc = "terminal" THEN NoSupervisor
          ELSE [supervisor EXCEPT
                  !.pc = IF Pc = "own" THEN "drop" ELSE "terminal",
                  !.pending = @ \/ Pc = "intent",
                  !.poisoned = Pc \in {"validating", "stage"}]
    /\ UNCHANGED <<claims, tree>>

-----------------------------------------------------------------------------
(* Creating and admitting an operation *)

\* Operation::create: the first record is written, or part of it.
CreateOperation(o) ==
    /\ disk[o] = EmptyDirectory
    /\ disk' = [disk EXCEPT ![o].journal = <<"Prepared">>]
    /\ UNCHANGED <<claims, supervisor, tree>>

CreateTorn(o) ==
    /\ disk[o] = EmptyDirectory
    /\ disk' = [disk EXCEPT ![o].damage = TRUE]
    /\ UNCHANGED <<claims, supervisor, tree>>

\* Admission::admit, up to the claim.
Admit(o) ==
    /\ Pc = "none" /\ HistoryReadable
    /\ \A p \in Claimed : Resolved(p) \/ (p = o /\ Inspect(p) = "Prepared")
    /\ Opens(o) /\ Inspect(o) = "Prepared"
    /\ supervisor' = [NoSupervisor EXCEPT !.o = o,
                          !.pc = IF claims[o] = "none" THEN "claim" ELSE "check"]
    /\ UNCHANGED <<disk, claims, tree>>

WriteClaim ==
    /\ Pc = "claim"
    /\ \/ claims' = [claims EXCEPT ![Op] = "whole"] /\ To("check")
       \/ /\ \E left \in {"none", "torn", "whole"} : claims' = [claims EXCEPT ![Op] = left]
          /\ supervisor' = NoSupervisor
    /\ UNCHANGED <<disk, tree>>

-----------------------------------------------------------------------------
(* The supervisor: managed::run, validate and owned::probe *)

\* Closing its input cancels; it is looked at between the steps.
Cancel ==
    /\ Pc \notin {"none", "claim", "check", "receipt"} /\ ~supervisor.cancelled
    /\ supervisor' = [supervisor EXCEPT !.cancelled = TRUE]
    /\ UNCHANGED <<disk, claims, tree>>

\* Platform, validator, environment and helpers; a refusal ends the operation.
Check ==
    /\ Pc = "check"
    /\ To("validating") \/ To("terminal")
    /\ UNCHANGED <<disk, claims, tree>>

Validating ==
    /\ Pc = "validating"
    /\ IF supervisor.cancelled
       THEN To("terminal") /\ UNCHANGED <<disk, claims, tree>>
       ELSE Write([supervisor EXCEPT !.pc = "records", !.validating = TRUE])

\* ExecutionRecords::create and the input file.
CreateRecords ==
    /\ Pc = "records"
    /\ \/ /\ disk' = [disk EXCEPT ![Op].workers = TRUE]
          /\ To("next")
       \/ /\ To("terminal")
          /\ \E w \in BOOLEAN : disk' = [disk EXCEPT ![Op].workers = w]
    /\ UNCHANGED <<claims, tree>>

\* The next native load, one at a time.
NextWorker ==
    /\ Pc = "next"
    /\ To(IF supervisor.cancelled \/ ~supervisor.result THEN "terminal"
          ELSE IF disk[Op].events = 3 * Workers THEN "bind" ELSE "intent")
    /\ UNCHANGED <<disk, claims, tree>>

\* Recorder::starting: persisted before any process exists.
Starting ==
    /\ Pc = "intent"
    /\ Write([supervisor EXCEPT !.pc = "spawn", !.pending = TRUE])

\* Owned::spawn; the worker waits for START.
Spawn ==
    /\ Pc = "spawn"
    /\ \/ tree' = [tree EXCEPT ![Op] = "gated"] /\ To("own")
       \/ To("terminal") /\ UNCHANGED tree
    /\ UNCHANGED <<disk, claims>>

RecordOwned == Pc = "own" /\ Write([supervisor EXCEPT !.pc = "start"])

Start ==
    /\ Pc = "start"
    /\ tree' = [tree EXCEPT ![Op] = IF @ = "none" THEN @ ELSE "started"]
    /\ To("wait")
    /\ UNCHANGED <<disk, claims>>

\* A receipt, a wrong one, the deadline or a cancellation.
WaitForReceipt ==
    /\ Pc = "wait"
    /\ \E ok \in BOOLEAN :
          supervisor' = [supervisor EXCEPT !.pc = "cleanup",
                                           !.result = ok /\ ~supervisor.cancelled]
    /\ UNCHANGED <<disk, claims, tree>>

\* Mutant: the cleanup's outcome is not looked at.
CleanupAssumed ==
    /\ Pc = "cleanup"
    /\ \/ tree' = [tree EXCEPT ![Op] = "none"] /\ To("cleaned")
       \/ To("cleaned") /\ UNCHANGED tree
    /\ UNCHANGED <<disk, claims>>

\* Owned::cleanup: the whole tree is gone, or that cannot be confirmed.
CleanUp ==
    /\ Pc = "cleanup"
    /\ \/ tree' = [tree EXCEPT ![Op] = "none"] /\ To("cleaned")
       \/ To("terminal") /\ UNCHANGED tree
    /\ UNCHANGED <<disk, claims>>

RecordCleaned ==
    /\ Pc = "cleaned"
    /\ Write([supervisor EXCEPT !.pc = "next", !.pending = FALSE])

\* Drop for Owned after an error: cleanup is tried, and not recorded.
DropOwned ==
    /\ Pc = "drop"
    /\ \E left \in {"none", tree[Op]} : tree' = [tree EXCEPT ![Op] = left]
    /\ To("terminal")
    /\ UNCHANGED <<disk, claims>>

\* ExecutionRecords::bind, then the evidence file, then the Staged record.
Bind ==
    /\ Pc = "bind"
    /\ To(IF supervisor.cancelled THEN "terminal" ELSE "save") \/ To("terminal")
    /\ UNCHANGED <<disk, claims, tree>>

Save == Pc = "save" /\ Write([supervisor EXCEPT !.pc = "stage"])

Stage ==
    /\ Pc = "stage"
    /\ IF supervisor.cancelled THEN To("terminal") /\ UNCHANGED <<disk, claims, tree>>
       ELSE Write(NoSupervisor)

\* The error path's record, unless an uncertain one came before it.
RecordTerminal ==
    /\ Pc = "terminal"
    /\ IF supervisor.poisoned
       THEN supervisor' = NoSupervisor /\ UNCHANGED <<disk, claims, tree>>
       ELSE Write(NoSupervisor)

-----------------------------------------------------------------------------
(* Recovery *)

\* Admission::abandon_cleaned_validation, up to the receipt.
Abandon(o) ==
    /\ Pc = "none" /\ claims[o] = "whole" /\ \A p \in Claimed : claims[p] = "whole"
    /\ Opens(o) /\ disk[o].receipt = "none"
    /\ Inspect(o) \in {"Interrupted", "Damaged"} /\ Observe(o)
    /\ supervisor' = [NoSupervisor EXCEPT !.o = o, !.pc = "receipt"]
    /\ UNCHANGED <<disk, claims, tree>>

WriteReceipt == Pc = "receipt" /\ Write(NoSupervisor)

\* The process that holds the leases dies, perhaps in the middle of a write.
Crash ==
    /\ Pc # "none"
    /\ \E left \in {disk[Op], Torn(Pc, Op)} : disk' = [disk EXCEPT ![Op] = left]
    /\ claims' = IF Pc = "claim" THEN [claims EXCEPT ![Op] = "torn"] ELSE claims
    /\ supervisor' = NoSupervisor
    /\ UNCHANGED tree

\* Worker processes exit by themselves: done, killed, or their owner's pipe closed.
WorkersExit(o) ==
    /\ tree[o] # "none"
    /\ tree' = [tree EXCEPT ![o] = "none"]
    /\ UNCHANGED <<disk, claims, supervisor>>

-----------------------------------------------------------------------------
SupervisorStep ==
    WriteClaim \/ Check \/ Validating \/ CreateRecords \/ NextWorker \/ Starting
    \/ Spawn \/ RecordOwned \/ Start \/ WaitForReceipt \/ CleanUp \/ RecordCleaned \/ DropOwned
    \/ Bind \/ Save \/ Stage \/ RecordTerminal \/ WriteReceipt \/ WriteFails

OperationsIdle == Pc = "none" /\ UNCHANGED operationVars

OperationsNext ==
    \/ SupervisorStep \/ Cancel \/ Crash \/ OperationsIdle
    \/ \E o \in Operations :
          \/ CreateOperation(o) \/ CreateTorn(o) \/ Admit(o) \/ Abandon(o)
          \/ WorkersExit(o)

OperationsSpec == OperationsInit /\ [][OperationsNext]_operationVars

-----------------------------------------------------------------------------
\* Native work of a profile is exclusive over crashes: while a worker process of
\* one operation may still run, no supervisor works on another.
NativeWorkExclusive ==
    \A o \in Operations :
        tree[o] # "none" => /\ Pc # "none" => Op = o
                            /\ \A p \in Operations \ {o} : tree[p] = "none"

\* What installation accepts was earned: every planned worker was recorded,
\* started and cleaned up, its evidence is whole and the journal has only legal
\* transitions; no crash or failed write can produce it.
StagedIsEarned ==
    \A o \in Operations :
        /\ VerifiedValidation(o) => disk[o].journal = <<"Prepared", "Validating", "Staged">>
        /\ Resolved(o) => tree[o] = "none"
        /\ \A i \in 1 .. Len(disk[o].journal) - 1 :
              ValidTransition(disk[o].journal[i], disk[o].journal[i + 1])

\* Of voice operations, across crashes of their supervisors: native work of a
\* profile is never done twice at once, and a staged result is earned.
OperationsSound == NativeWorkExclusive /\ StagedIsEarned
=============================================================================

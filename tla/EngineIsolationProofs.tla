------------------------ MODULE EngineIsolationProofs ------------------------
(***************************************************************************)
(* The slots of the isolated engines are accounted for any calls, engines, *)
(* limits and event bounds.  A lease has two owners that let go in either  *)
(* order; the argument is that the holder of each clone can be read off    *)
(* the caller's and the task's position (Leases), so that exactly one of   *)
(* them is the last, and that the counters follow the set of leases.       *)
(***************************************************************************)
EXTENDS EngineIsolation, FiniteSetTheorems, TLAPS

------------------------------
(* The inductive invariant *)

\* Who holds a clone of the lease of c, and when it is marked abandoned.
Leases ==
    \A c \in Call :
        /\ caller[c] \in {"idle", "acquiring"} => owners[c] = {}
        /\ caller[c] \in {"idle", "acquiring", "leased"} => task[c] = "none"
        /\ caller[c] # "returned" => ~abandoned[c]
        /\ caller[c] = "waiting" => task[c] # "none"
        /\ "caller" \in owners[c] <=> caller[c] \in {"leased", "waiting"}
        /\ "task" \in owners[c] <=>
              task[c] \in {"recovering", "native", "sending", "finished", "unwinding"}
        /\ caller[c] # "idle" => engine[c] \in Engine

\* A result in the channel says that the task has let go of its clone, and what
\* is being sent is an event.
Reports ==
    \A c \in Call :
        /\ task[c] = "sending" => pending[c] \in EventKind
        /\ \A i \in DOMAIN channel[c] : channel[c][i] = "finished" => task[c] = "ended"

\* An engine has one lease at a time.
OneLeasePerEngine ==
    \A c, d \in Call : Leased(c) /\ Leased(d) /\ engine[c] = engine[d] => c = d

Within == in_flight <= MaxIsolatedCalls

IInv == /\ TypeOK /\ Leases /\ Reports /\ OneLeasePerEngine
        /\ SlotsAccounted /\ Within /\ OnlyAbandonedOutlives

------------------------------
(* Counting leases *)

\* The calls with a lease, and the abandoned ones among them.
Leaseholders == {c \in Call : Leased(c)}
Abandoners == {c \in Call : Leased(c) /\ abandoned[c]}

\* Sets of calls are finite, so their cardinalities are natural numbers.
LEMMA CallsFinite ==
    ASSUME NEW S \in SUBSET Call
    PROVE  IsFiniteSet(S) /\ Cardinality(S) \in Nat
<1>1. IsFiniteSet(S)
  BY IsolationAssumption, FS_Subset
<1> QED BY <1>1, FS_CardinalityType

\* In particular the two sets, now and after a step.
LEMMA LeasesFinite ==
    /\ IsFiniteSet(Leaseholders) /\ Cardinality(Leaseholders) \in Nat
    /\ IsFiniteSet(Abandoners) /\ Cardinality(Abandoners) \in Nat
    /\ Cardinality(Leaseholders') \in Nat /\ Cardinality(Abandoners') \in Nat
<1>1. /\ Leaseholders \in SUBSET Call /\ Abandoners \in SUBSET Call
      /\ Leaseholders' \in SUBSET Call /\ Abandoners' \in SUBSET Call
  BY DEF Leaseholders, Abandoners
<1> QED BY <1>1, CallsFinite

\* The types of the records.
BudgetTypes ==
    /\ in_flight \in Nat /\ quarantined \in Nat
    /\ engine_active \in [Engine -> BOOLEAN]
    /\ owners \in [Call -> SUBSET Owner]
    /\ abandoned \in [Call -> BOOLEAN]

\* The records agree with the leases, one to an engine and within the limit.
Accounts == SlotsAccounted /\ OneLeasePerEngine /\ Within

\* An owner that lets go of its clone leaves the records in agreement with the
\* leases, whether it is the last one or not and whether it abandons the call.
LEMMA DropAccounts ==
    ASSUME TypeOK, Accounts, NEW c \in Call, NEW who \in owners[c],
           NEW abandon \in BOOLEAN, engine[c] \in Engine,
           DropLease(c, who, abandon), engine' = engine
    PROVE  Accounts' /\ BudgetTypes'
<1> DEFINE last == owners[c] = {who}
<1>1. /\ owners' = [owners EXCEPT ![c] = @ \ {who}]
      /\ owners' \in [Call -> SUBSET Owner]
      /\ abandoned' \in [Call -> BOOLEAN]
      /\ engine_active' \in [Engine -> BOOLEAN]
  BY DEF DropLease, TypeOK
<1>2. c \in Leaseholders
  BY DEF Leaseholders, Leased
<1>3. Leaseholders' = IF last THEN Leaseholders \ {c} ELSE Leaseholders
  BY SMTT(60), <1>1 DEF Leaseholders, Leased, TypeOK
<1>4. Cardinality(Leaseholders') =
        IF last THEN Cardinality(Leaseholders) - 1 ELSE Cardinality(Leaseholders)
  BY <1>2, <1>3, LeasesFinite, FS_RemoveElement
<1>5. in_flight = Cardinality(Leaseholders) /\ quarantined = Cardinality(Abandoners)
  BY DEF Accounts, SlotsAccounted, Leaseholders, Abandoners
<1>6. in_flight' = Cardinality(Leaseholders')
  BY <1>4, <1>5 DEF DropLease
<1>7. in_flight' \in Nat /\ in_flight' <= in_flight
  BY <1>4, <1>5, <1>6, LeasesFinite
<1>8. quarantined' = Cardinality(Abandoners') /\ quarantined' \in Nat
  <2>1. CASE last /\ abandoned[c]
    <3>1. Abandoners' = Abandoners \ {c} /\ c \in Abandoners
      BY SMTT(60), <1>1, <1>2, <2>1 DEF Abandoners, Leaseholders, Leased, DropLease, TypeOK
    <3>2. quarantined' = quarantined - 1
      BY <2>1 DEF DropLease
    <3> QED BY <3>1, <3>2, <1>5, LeasesFinite, FS_RemoveElement
  <2>2. CASE last /\ ~abandoned[c]
    <3>1. Abandoners' = Abandoners
      BY <1>1, <2>2 DEF Abandoners, Leased, DropLease, TypeOK
    <3>2. quarantined' = quarantined
      BY <1>5, <2>2, LeasesFinite DEF DropLease
    <3> QED BY <3>1, <3>2, <1>5, LeasesFinite
  <2>3. CASE ~last /\ (abandoned[c] \/ ~abandon)
    <3>1. Abandoners' = Abandoners
      BY SMTT(60), <1>1, <2>3 DEF Abandoners, Leased, DropLease, TypeOK
    <3>2. quarantined' = quarantined
      BY <2>3 DEF DropLease
    <3> QED BY <3>1, <3>2, <1>5, LeasesFinite
  <2>4. CASE ~last /\ ~abandoned[c] /\ abandon
    <3>1. owners'[c] # {} /\ abandoned'[c]
      <4>1. owners'[c] = owners[c] \ {who}
        BY <1>1 DEF TypeOK
      <4>2. \E x \in owners[c] : x # who
        BY <2>4
      <4>3. abandoned' = [abandoned EXCEPT ![c] = abandoned[c] \/ abandon]
        BY DEF DropLease
      <4>4. abandoned'[c] = (abandoned[c] \/ abandon)
        BY <4>3 DEF TypeOK
      <4> QED BY <2>4, <4>1, <4>2, <4>4
    <3>2. \A d \in Call : d # c => owners'[d] = owners[d] /\ abandoned'[d] = abandoned[d]
      BY <1>1 DEF DropLease, TypeOK
    <3>3. Abandoners' = Abandoners \cup {c} /\ c \notin Abandoners
      BY <2>4, <3>1, <3>2 DEF Abandoners, Leased
    <3>4. Cardinality(Abandoners') = Cardinality(Abandoners) + 1
      BY <3>3, LeasesFinite, FS_AddElement
    <3>5. quarantined' = quarantined + 1
      BY <2>4 DEF DropLease
    <3> QED BY <3>4, <3>5, <1>5, LeasesFinite
  <2> QED BY <2>1, <2>2, <2>3, <2>4
<1>9. \A e \in Engine : engine_active'[e] <=> \E d \in Call : Leased(d)' /\ engine[d] = e
  <2> SUFFICES ASSUME NEW e \in Engine
               PROVE  engine_active'[e] <=> \E d \in Leaseholders' : engine[d] = e
    BY DEF Leaseholders
  <2>1. engine_active[e] <=> \E d \in Leaseholders : engine[d] = e
    BY DEF Accounts, SlotsAccounted, Leaseholders
  <2>2. \A d \in Leaseholders : engine[d] = engine[c] => d = c
    BY <1>2 DEF Accounts, OneLeasePerEngine, Leaseholders
  <2>3. engine_active' = [engine_active EXCEPT ![engine[c]] = @ /\ ~last]
    BY DEF DropLease
  <2>4. CASE e = engine[c]
    BY <1>2, <1>3, <2>1, <2>2, <2>3, <2>4 DEF TypeOK
  <2>5. CASE e # engine[c]
    BY <1>3, <2>1, <2>3, <2>5 DEF TypeOK
  <2> QED BY <2>4, <2>5
<1>10. OneLeasePerEngine'
  BY <1>3 DEF Accounts, OneLeasePerEngine, Leaseholders
<1>11. Within'
  BY <1>7, IsolationAssumption DEF Accounts, Within, TypeOK
<1>12. SlotsAccounted'
  BY <1>6, <1>8, <1>9 DEF SlotsAccounted, Leaseholders, Abandoners
<1> QED BY <1>1, <1>7, <1>8, <1>10, <1>11, <1>12 DEF Accounts, BudgetTypes

\* Admission takes a free slot, and one more lease exists.
LEMMA AcquireAccounts ==
    ASSUME TypeOK, Leases, Accounts, NEW c \in Call, Acquire(c)
    PROVE  Accounts' /\ BudgetTypes'
<1>1. /\ owners[c] = {} /\ engine[c] \in Engine /\ ~abandoned[c]
      /\ owners' = [owners EXCEPT ![c] = {"caller"}]
      /\ engine' = engine /\ abandoned' = abandoned /\ quarantined' = quarantined
  BY DEF Acquire, Leases, TypeOK, CallerState
<1>2. Leaseholders' = Leaseholders \cup {c} /\ c \notin Leaseholders
  <2>1. owners'[c] # {} /\ \A d \in Call : d # c => owners'[d] = owners[d]
    BY <1>1 DEF TypeOK
  <2> QED BY <1>1, <2>1 DEF Leaseholders, Leased
<1>3. Abandoners' = Abandoners
  BY <1>1 DEF Abandoners, Leased, TypeOK
<1>4. Cardinality(Leaseholders') = Cardinality(Leaseholders) + 1
  BY <1>2, LeasesFinite, FS_AddElement
<1>5. in_flight = Cardinality(Leaseholders) /\ quarantined = Cardinality(Abandoners)
  BY DEF Accounts, SlotsAccounted, Leaseholders, Abandoners
<1>6. in_flight' = Cardinality(Leaseholders') /\ in_flight' \in Nat
  BY <1>4, <1>5, LeasesFinite DEF Acquire
<1>7. in_flight' <= MaxIsolatedCalls
  BY <1>5, LeasesFinite, IsolationAssumption DEF Acquire, CanAcquire
<1>8. \A d \in Leaseholders : engine[d] # engine[c]
  BY <1>1 DEF Acquire, CanAcquire, Accounts, SlotsAccounted, Leaseholders
<1>9. OneLeasePerEngine'
  BY <1>1, <1>2, <1>8 DEF Accounts, OneLeasePerEngine, Leaseholders
<1>10. \A e \in Engine : engine_active'[e] <=> \E d \in Leaseholders' : engine[d] = e
  BY <1>1, <1>2 DEF Acquire, Accounts, SlotsAccounted, Leaseholders, TypeOK
<1>11. SlotsAccounted'
  BY <1>1, <1>3, <1>5, <1>6, <1>10 DEF SlotsAccounted, Leaseholders, Abandoners
<1>12. BudgetTypes'
  BY <1>1, <1>6 DEF Acquire, BudgetTypes, TypeOK, Owner
<1> QED BY <1>6, <1>7, <1>9, <1>11, <1>12 DEF Accounts, Within

\* Nothing else changes who has a lease.
LEMMA KeepsAccounts ==
    ASSUME Accounts,
           UNCHANGED <<in_flight, quarantined, engine_active, abandoned>>,
           \A c \in Call : Leased(c)' <=> Leased(c),
           \A c \in Call : Leased(c) => engine'[c] = engine[c]
    PROVE  Accounts'
<1>1. Leaseholders' = Leaseholders /\ Abandoners' = Abandoners
  BY DEF Leaseholders, Abandoners
<1>2. in_flight' = Cardinality(Leaseholders') /\ quarantined' = Cardinality(Abandoners')
  BY <1>1 DEF Accounts, SlotsAccounted, Leaseholders, Abandoners
<1>3. \A e \in Engine : engine_active'[e] <=> \E d \in Call : Leased(d)' /\ engine'[d] = e
  BY DEF Accounts, SlotsAccounted
<1>4. SlotsAccounted'
  BY <1>2, <1>3 DEF SlotsAccounted, Leaseholders, Abandoners
<1>5. OneLeasePerEngine' /\ Within'
  BY DEF Accounts, OneLeasePerEngine, Within
<1> QED BY <1>4, <1>5 DEF Accounts

------------------------------
(* The steps *)

\* Every step of a signal, a caller or a task keeps the accounts.
LEMMA AccountsStep ==
    ASSUME TypeOK, Leases, Accounts, [Next]_isolationVars
    PROVE  Accounts' /\ BudgetTypes'
<1>1. CASE Interrupt
  BY <1>1, KeepsAccounts DEF Interrupt, budgetVars, Leased, BudgetTypes, TypeOK
<1>2. ASSUME NEW e \in Engine, Stop(e) PROVE Accounts' /\ BudgetTypes'
  BY <1>2, KeepsAccounts DEF Stop, budgetVars, Leased, BudgetTypes, TypeOK
<1>3. ASSUME NEW e \in Engine, PrepareRecoveryProbe(e) PROVE Accounts' /\ BudgetTypes'
  BY <1>3, KeepsAccounts DEF PrepareRecoveryProbe, budgetVars, Leased, BudgetTypes,
     TypeOK
<1>4. ASSUME NEW c \in Call, CancelRequest(c) PROVE Accounts' /\ BudgetTypes'
  BY <1>4, KeepsAccounts DEF CancelRequest, budgetVars, Leased, BudgetTypes, TypeOK
<1>5. ASSUME NEW c \in Call, NEW e \in Engine, Begin(c, e)
      PROVE Accounts' /\ BudgetTypes'
  <2>1. \A d \in Call : Leased(d) => engine'[d] = engine[d]
    BY <1>5 DEF Begin, Leases, Leased, TypeOK
  <2>2. \A d \in Call : Leased(d)' <=> Leased(d)
    BY <1>5 DEF Begin, budgetVars, Leased
  <2> QED BY <1>5, <2>1, <2>2, KeepsAccounts DEF Begin, budgetVars, BudgetTypes, TypeOK
<1>6. ASSUME NEW c \in Call, Acquire(c) PROVE Accounts' /\ BudgetTypes'
  BY <1>6, AcquireAccounts
<1>7. ASSUME NEW c \in Call, GiveUp(c) PROVE Accounts' /\ BudgetTypes'
  BY <1>7, KeepsAccounts DEF GiveUp, budgetVars, Leased, BudgetTypes, TypeOK
<1>8. ASSUME NEW c \in Call, LeaveUnused(c) PROVE Accounts' /\ BudgetTypes'
  <2>1. "caller" \in owners[c] /\ engine[c] \in Engine
    BY <1>8 DEF LeaveUnused, Leases, TypeOK, CallerState
  <2>2. DropLease(c, "caller", FALSE) /\ engine' = engine
    BY <1>8 DEF LeaveUnused
  <2> QED BY <2>1, <2>2, DropAccounts
<1>9. ASSUME NEW c \in Call, Spawn(c) PROVE Accounts' /\ BudgetTypes'
  <2>1. /\ \A d \in Call : Leased(d)' <=> Leased(d)
        /\ engine' = engine
    BY <1>9 DEF Spawn, Leases, Leased, TypeOK
  <2>2. BudgetTypes'
    BY <1>9 DEF Spawn, BudgetTypes, TypeOK, Owner
  <2> QED BY <1>9, <2>1, <2>2, KeepsAccounts DEF Spawn
<1>10. ASSUME NEW c \in Call, SpawnFails(c) PROVE Accounts' /\ BudgetTypes'
  <2>1. "caller" \in owners[c] /\ engine[c] \in Engine
    BY <1>10 DEF SpawnFails, Leases, TypeOK, CallerState
  <2>2. DropLease(c, "caller", FALSE) /\ engine' = engine
    BY <1>10 DEF SpawnFails
  <2> QED BY <2>1, <2>2, DropAccounts
<1>11. ASSUME NEW c \in Call, StartGrace(c) PROVE Accounts' /\ BudgetTypes'
  BY <1>11, KeepsAccounts DEF StartGrace, budgetVars, Leased, BudgetTypes, TypeOK
<1>12. ASSUME NEW c \in Call, Quarantine(c) PROVE Accounts' /\ BudgetTypes'
  <2>1. "caller" \in owners[c] /\ engine[c] \in Engine
    BY <1>12 DEF Quarantine, Leases, TypeOK, CallerState
  <2>2. DropLease(c, "caller", TRUE) /\ engine' = engine
    BY <1>12 DEF Quarantine
  <2> QED BY <2>1, <2>2, DropAccounts
<1>13. ASSUME NEW c \in Call, ReceiveFinished(c) PROVE Accounts' /\ BudgetTypes'
  <2>1. "caller" \in owners[c] /\ engine[c] \in Engine
    BY <1>13 DEF ReceiveFinished, Leases, TypeOK, CallerState
  <2>2. DropLease(c, "caller", FALSE) /\ engine' = engine
    BY <1>13 DEF ReceiveFinished
  <2> QED BY <2>1, <2>2, DropAccounts
<1>14. ASSUME NEW c \in Call, ReceiveDisconnected(c) PROVE Accounts' /\ BudgetTypes'
  <2>1. "caller" \in owners[c] /\ engine[c] \in Engine
    BY <1>14 DEF ReceiveDisconnected, Leases, TypeOK, CallerState
  <2>2. DropLease(c, "caller", FALSE) /\ engine' = engine
    BY <1>14 DEF ReceiveDisconnected
  <2> QED BY <2>1, <2>2, DropAccounts
<1>15. ASSUME NEW c \in Call, ReceiveEvent(c) PROVE Accounts' /\ BudgetTypes'
  BY <1>15, KeepsAccounts DEF ReceiveEvent, budgetVars, Leased, BudgetTypes, TypeOK
<1>16. ASSUME NEW c \in Call, RefuseEvent(c) PROVE Accounts' /\ BudgetTypes'
  <2>1. "caller" \in owners[c] /\ engine[c] \in Engine
    BY <1>16 DEF RefuseEvent, Leases, TypeOK, CallerState
  <2>2. DropLease(c, "caller", TRUE) /\ engine' = engine
    BY <1>16 DEF RefuseEvent
  <2> QED BY <2>1, <2>2, DropAccounts
<1>17. ASSUME NEW c \in Call, NEW ok \in BOOLEAN, Reconnect(c, ok)
       PROVE Accounts' /\ BudgetTypes'
  BY <1>17, KeepsAccounts DEF Reconnect, budgetVars, Leased, BudgetTypes, TypeOK
<1>18. ASSUME NEW c \in Call, NEW k \in EventKind, Emit(c, k)
       PROVE Accounts' /\ BudgetTypes'
  BY <1>18, KeepsAccounts DEF Emit, budgetVars, Leased, BudgetTypes, TypeOK
<1>19. ASSUME NEW c \in Call, SendEvent(c) PROVE Accounts' /\ BudgetTypes'
  BY <1>19, KeepsAccounts DEF SendEvent, budgetVars, Leased, BudgetTypes, TypeOK
<1>20. ASSUME NEW c \in Call, NEW r \in NativeResult, NativeReturns(c, r)
       PROVE Accounts' /\ BudgetTypes'
  BY <1>20, KeepsAccounts DEF NativeReturns, budgetVars, Leased, BudgetTypes, TypeOK
<1>21. ASSUME NEW c \in Call, Panic(c) PROVE Accounts' /\ BudgetTypes'
  BY <1>21, KeepsAccounts DEF Panic, budgetVars, Leased, BudgetTypes, TypeOK
<1>25. ASSUME NEW c \in Call, Unwind(c) PROVE Accounts' /\ BudgetTypes'
  <2>1. "task" \in owners[c] /\ engine[c] \in Engine
    BY <1>25 DEF Unwind, Leases, TypeOK, CallerState
  <2>2. DropLease(c, "task", FALSE) /\ engine' = engine
    BY <1>25 DEF Unwind
  <2> QED BY <2>1, <2>2, DropAccounts
<1>22. ASSUME NEW c \in Call, DropTaskLease(c) PROVE Accounts' /\ BudgetTypes'
  <2>1. "task" \in owners[c] /\ engine[c] \in Engine
    BY <1>22 DEF DropTaskLease, Leases, TypeOK, CallerState
  <2>2. DropLease(c, "task", FALSE) /\ engine' = engine
    BY <1>22 DEF DropTaskLease
  <2> QED BY <2>1, <2>2, DropAccounts
<1>23. ASSUME NEW c \in Call, SendResult(c) PROVE Accounts' /\ BudgetTypes'
  BY <1>23, KeepsAccounts DEF SendResult, budgetVars, Leased, BudgetTypes, TypeOK
<1>24. CASE UNCHANGED isolationVars
  BY <1>24, KeepsAccounts DEF isolationVars, signalVars, budgetVars, taskVars,
     Leased, BudgetTypes, TypeOK
<1> QED
  BY <1>1, <1>2, <1>3, <1>4, <1>5, <1>6, <1>7, <1>8, <1>9, <1>10, <1>11,
     <1>12, <1>13, <1>14, <1>15, <1>16, <1>17, <1>18, <1>19, <1>20, <1>21,
     <1>22, <1>23, <1>24, <1>25 DEF Next, CallerStep, TaskStep, Terminated

\* What a returning caller sets has its type.
LEMMA ReturnTypes ==
    ASSUME TypeOK, NEW c \in Call, NEW o \in Outcome, Return(c, o)
    PROVE  /\ caller' \in [Call -> CallerState] /\ outcome' \in [Call -> Outcome]
           /\ channel' \in [Call -> Seq(EventKind \cup {"finished"})]
<1>1. <<>> \in Seq(EventKind \cup {"finished"})
  OBVIOUS
<1>2. channel' \in [Call -> Seq(EventKind \cup {"finished"})]
  BY <1>1 DEF Return, TypeOK
<1> QED BY <1>2 DEF Return, TypeOK, CallerState

\* Every step keeps the types.
LEMMA TypeStep ==
    ASSUME TypeOK, Leases, Reports, Accounts, [Next]_isolationVars
    PROVE  TypeOK'
<1>0. BudgetTypes'
  BY AccountsStep
<1>1. CASE Interrupt
  BY <1>1, IsolationAssumption DEF Interrupt, TypeOK, signalVars, budgetVars, taskVars
<1>2. ASSUME NEW e \in Engine, Stop(e) PROVE TypeOK'
  BY <1>2, IsolationAssumption DEF Stop, TypeOK, signalVars, budgetVars, taskVars
<1>3. ASSUME NEW e \in Engine, PrepareRecoveryProbe(e) PROVE TypeOK'
  BY <1>3, IsolationAssumption DEF PrepareRecoveryProbe, TypeOK, signalVars,
     budgetVars, taskVars
<1>4. ASSUME NEW c \in Call, CancelRequest(c) PROVE TypeOK'
  BY <1>4, IsolationAssumption DEF CancelRequest, TypeOK, signalVars, budgetVars,
     taskVars
<1>5. ASSUME NEW c \in Call, NEW e \in Engine, Begin(c, e) PROVE TypeOK'
  BY <1>5, IsolationAssumption DEF Begin, CallerState, TypeOK, signalVars,
     budgetVars, taskVars
<1>6. ASSUME NEW c \in Call, Acquire(c) PROVE TypeOK'
  BY <1>6, <1>0 DEF Acquire, BudgetTypes, TypeOK, signalVars, taskVars, CallerState
<1>7. ASSUME NEW c \in Call, GiveUp(c) PROVE TypeOK'
  <2>1. PICK o \in Outcome : Return(c, o)
    BY <1>7 DEF GiveUp, Outcome
  <2>2. /\ caller' \in [Call -> CallerState] /\ outcome' \in [Call -> Outcome]
        /\ channel' \in [Call -> Seq(EventKind \cup {"finished"})]
    BY <2>1, ReturnTypes
  <2> QED BY <1>7, <2>2 DEF GiveUp, TypeOK, signalVars, budgetVars, taskVars
<1>8. ASSUME NEW c \in Call, LeaveUnused(c) PROVE TypeOK'
  <2>1. Return(c, "superseded") /\ "superseded" \in Outcome
    BY <1>8, IsolationAssumption DEF LeaveUnused, Outcome
  <2>2. /\ caller' \in [Call -> CallerState] /\ outcome' \in [Call -> Outcome]
        /\ channel' \in [Call -> Seq(EventKind \cup {"finished"})]
    BY <2>1, ReturnTypes
  <2> QED BY <1>8, <1>0, <2>2 DEF LeaveUnused, BudgetTypes, TypeOK, signalVars, taskVars
<1>9. ASSUME NEW c \in Call, Spawn(c) PROVE TypeOK'
  BY <1>9, IsolationAssumption DEF Spawn, Owner, CallerState, TaskState, TypeOK,
     signalVars, budgetVars, taskVars
<1>10. ASSUME NEW c \in Call, SpawnFails(c) PROVE TypeOK'
  <2>1. Return(c, "failed") /\ "failed" \in Outcome
    BY <1>10, IsolationAssumption DEF SpawnFails, Outcome
  <2>2. /\ caller' \in [Call -> CallerState] /\ outcome' \in [Call -> Outcome]
        /\ channel' \in [Call -> Seq(EventKind \cup {"finished"})]
    BY <2>1, ReturnTypes
  <2> QED BY <1>10, <1>0, <2>2 DEF SpawnFails, BudgetTypes, TypeOK, signalVars, taskVars
<1>11. ASSUME NEW c \in Call, StartGrace(c) PROVE TypeOK'
  BY <1>11, IsolationAssumption DEF StartGrace, TypeOK, signalVars, budgetVars, taskVars
<1>12. ASSUME NEW c \in Call, Quarantine(c) PROVE TypeOK'
  <2>1. Return(c, "superseded") /\ "superseded" \in Outcome
    BY <1>12, IsolationAssumption DEF Quarantine, Outcome
  <2>2. /\ caller' \in [Call -> CallerState] /\ outcome' \in [Call -> Outcome]
        /\ channel' \in [Call -> Seq(EventKind \cup {"finished"})]
    BY <2>1, ReturnTypes
  <2> QED BY <1>12, <1>0, <2>2 DEF Quarantine, BudgetTypes, TypeOK, signalVars, taskVars
<1>13. ASSUME NEW c \in Call, ReceiveFinished(c) PROVE TypeOK'
  <2>1. PICK o \in Outcome : Return(c, o)
    <3>1. result[c] \in Outcome /\ "superseded" \in Outcome /\ "failed" \in Outcome
      BY IsolationAssumption DEF Outcome, TypeOK
    <3> QED BY <1>13, <3>1 DEF ReceiveFinished
  <2>2. /\ caller' \in [Call -> CallerState] /\ outcome' \in [Call -> Outcome]
        /\ channel' \in [Call -> Seq(EventKind \cup {"finished"})]
    BY <2>1, ReturnTypes
  <2> QED BY <1>13, <1>0, <2>2 DEF ReceiveFinished, BudgetTypes, TypeOK, signalVars,
     taskVars
<1>14. ASSUME NEW c \in Call, ReceiveDisconnected(c) PROVE TypeOK'
  <2>1. Return(c, "failed") /\ "failed" \in Outcome
    BY <1>14, IsolationAssumption DEF ReceiveDisconnected, Outcome
  <2>2. /\ caller' \in [Call -> CallerState] /\ outcome' \in [Call -> Outcome]
        /\ channel' \in [Call -> Seq(EventKind \cup {"finished"})]
    BY <2>1, ReturnTypes
  <2> QED BY <1>14, <1>0, <2>2 DEF ReceiveDisconnected, BudgetTypes, TypeOK,
     signalVars, taskVars
<1>15. ASSUME NEW c \in Call, ReceiveEvent(c) PROVE TypeOK'
  <2>1. channel' \in [Call -> Seq(EventKind \cup {"finished"})]
    BY SMTT(60), <1>15 DEF ReceiveEvent, TypeOK
  <2>2. delivered' \in [Call -> Seq(EventKind)]
    <3>1. delivered[c] \in Seq(EventKind) /\ Head(channel[c]) \in EventKind
      BY <1>15 DEF ReceiveEvent, TypeOK
    <3>2. Append(delivered[c], Head(channel[c])) \in Seq(EventKind)
      BY <3>1
    <3> QED BY <1>15, <3>2 DEF ReceiveEvent, TypeOK
  <2> QED BY <1>15, <2>1, <2>2 DEF ReceiveEvent, TypeOK, signalVars, budgetVars,
     taskVars
<1>16. ASSUME NEW c \in Call, RefuseEvent(c) PROVE TypeOK'
  <2>1. Return(c, "failed") /\ "failed" \in Outcome
    BY <1>16, IsolationAssumption DEF RefuseEvent, Outcome
  <2>2. /\ caller' \in [Call -> CallerState] /\ outcome' \in [Call -> Outcome]
        /\ channel' \in [Call -> Seq(EventKind \cup {"finished"})]
    BY <2>1, ReturnTypes
  <2> QED BY <1>16, <1>0, <2>2 DEF RefuseEvent, BudgetTypes, TypeOK, signalVars,
     taskVars
<1>17. ASSUME NEW c \in Call, NEW ok \in BOOLEAN, Reconnect(c, ok) PROVE TypeOK'
  BY <1>17, IsolationAssumption DEF Reconnect, TaskState, TypeOK, signalVars,
     budgetVars, taskVars
<1>18. ASSUME NEW c \in Call, NEW k \in EventKind, Emit(c, k) PROVE TypeOK'
  <2>1. emitted' \in [Call -> 0 .. MaxEvents]
    BY <1>18, IsolationAssumption DEF Emit, TypeOK
  <2>2. pending' \in [Call -> EventKind \cup {"none"}]
    BY <1>18 DEF Emit, TypeOK
  <2> QED BY <1>18, <2>1, <2>2 DEF Emit, TaskState, TypeOK, signalVars, budgetVars
<1>19. ASSUME NEW c \in Call, SendEvent(c) PROVE TypeOK'
  <2>1. channel' \in [Call -> Seq(EventKind \cup {"finished"})]
    <3>1. pending[c] \in EventKind /\ channel[c] \in Seq(EventKind \cup {"finished"})
      BY <1>19 DEF SendEvent, Reports, TypeOK
    <3>2. Append(channel[c], pending[c]) \in Seq(EventKind \cup {"finished"})
      BY <3>1
    <3> QED BY <1>19, <3>2 DEF SendEvent, Put, TypeOK
  <2> QED BY <1>19, <2>1 DEF SendEvent, TaskState, TypeOK, signalVars, budgetVars
<1>20. ASSUME NEW c \in Call, NEW r \in NativeResult, NativeReturns(c, r) PROVE TypeOK'
  BY <1>20, IsolationAssumption DEF NativeReturns, TaskState, TypeOK, signalVars,
     budgetVars, taskVars
<1>21. ASSUME NEW c \in Call, Panic(c) PROVE TypeOK'
  BY <1>21 DEF Panic, TaskState, TypeOK, signalVars, budgetVars
<1>25. ASSUME NEW c \in Call, Unwind(c) PROVE TypeOK'
  BY <1>25, <1>0 DEF Unwind, BudgetTypes, TypeOK, signalVars, TaskState
<1>22. ASSUME NEW c \in Call, DropTaskLease(c) PROVE TypeOK'
  BY <1>22, <1>0 DEF DropTaskLease, BudgetTypes, TypeOK, signalVars, TaskState
<1>23. ASSUME NEW c \in Call, SendResult(c) PROVE TypeOK'
  <2>1. channel' \in [Call -> Seq(EventKind \cup {"finished"})]
    <3>1. channel[c] \in Seq(EventKind \cup {"finished"})
      BY DEF TypeOK
    <3>2. Append(channel[c], "finished") \in Seq(EventKind \cup {"finished"})
      BY <3>1
    <3> QED BY <1>23, <3>2 DEF SendResult, Put, TypeOK
  <2> QED BY <1>23, <2>1 DEF SendResult, TaskState, TypeOK, signalVars, budgetVars
<1>24. CASE UNCHANGED isolationVars
  BY <1>24 DEF isolationVars, signalVars, budgetVars, taskVars, TypeOK
<1> QED
  BY <1>1, <1>2, <1>3, <1>4, <1>5, <1>6, <1>7, <1>8, <1>9, <1>10, <1>11,
     <1>12, <1>13, <1>14, <1>15, <1>16, <1>17, <1>18, <1>19, <1>20, <1>21,
     <1>22, <1>23, <1>24, <1>25 DEF Next, CallerStep, TaskStep, Terminated

\* A task that goes on keeps what is owed to an abandoned caller.
LEMMA TaskGoesOn ==
    ASSUME OnlyAbandonedOutlives, NEW c \in Call, task[c] # "unwinding",
           UNCHANGED <<owners, caller, abandoned>>,
           \A d \in Call : d # c => task'[d] = task[d]
    PROVE  OnlyAbandonedOutlives'
<1> SUFFICES ASSUME NEW d \in Call, Gone(d)', Leased(d)'
             PROVE  abandoned'[d] \/ (task'[d] = "unwinding" /\ KindOf[d] # "buffered")
  BY DEF OnlyAbandonedOutlives
<1>1. Gone(d) /\ Leased(d) /\ abandoned'[d] = abandoned[d]
  BY DEF Gone, Leased
<1>2. CASE d = c
  BY <1>1, <1>2 DEF OnlyAbandonedOutlives
<1>3. CASE d # c
  BY <1>1, <1>3 DEF OnlyAbandonedOutlives
<1> QED BY <1>2, <1>3

\* A caller that leaves while its task holds the lease has to abandon it.
LEMMA CallerLeaves ==
    ASSUME TypeOK, Leases, Reports, OnlyAbandonedOutlives, NEW c \in Call, NEW o,
           NEW abandon \in BOOLEAN, caller[c] \in {"leased", "waiting"},
           "task" \in owners[c] =>
               abandon \/ (task[c] = "unwinding" /\ KindOf[c] # "buffered"),
           Return(c, o), DropLease(c, "caller", abandon),
           UNCHANGED <<task, pending, engine>>
    PROVE  Leases' /\ Reports' /\ OnlyAbandonedOutlives'
<1>1. /\ owners'[c] = owners[c] \ {"caller"} /\ caller'[c] = "returned"
      /\ channel'[c] = <<>>
      /\ \A d \in Call : d # c => /\ owners'[d] = owners[d] /\ caller'[d] = caller[d]
                                  /\ channel'[d] = channel[d]
                                  /\ abandoned'[d] = abandoned[d]
  BY DEF DropLease, Return, TypeOK
<1>2. abandoned'[c] = (abandoned[c] \/ abandon)
  BY Zenon DEF DropLease, TypeOK
<1>3. Leases'
  BY <1>1, engine' = engine, task' = task DEF Leases
<1>4. Reports'
  BY <1>1 DEF Reports
<1>5. OnlyAbandonedOutlives'
  <2>1. Gone(c)' /\ Leased(c)' =>
            abandoned'[c] \/ (task'[c] = "unwinding" /\ KindOf[c] # "buffered")
    <3>1. owners[c] \in SUBSET {"caller", "task"}
      BY DEF TypeOK, Owner
    <3>2. owners'[c] # {} => "task" \in owners[c]
      BY <1>1, <3>1
    <3> QED BY <1>2, <3>2 DEF Leased
  <2>2. \A d \in Call : d # c /\ Gone(d)' /\ Leased(d)' =>
            abandoned'[d] \/ (task'[d] = "unwinding" /\ KindOf[d] # "buffered")
    BY <1>1 DEF OnlyAbandonedOutlives, Gone, Leased
  <2> QED BY <2>1, <2>2 DEF OnlyAbandonedOutlives
<1> QED BY <1>3, <1>4, <1>5

\* Every step keeps the clones where the positions of caller and task say.
LEMMA LeasesStep ==
    ASSUME TypeOK, Leases, Reports, OnlyAbandonedOutlives, [Next]_isolationVars
    PROVE  Leases' /\ Reports' /\ OnlyAbandonedOutlives'
<1>1. CASE Interrupt
  BY <1>1 DEF Interrupt, Leases, Reports, OnlyAbandonedOutlives, Leased, Gone,
     TypeOK, CallerState, signalVars, budgetVars, taskVars
<1>2. ASSUME NEW e \in Engine, Stop(e)
      PROVE Leases' /\ Reports' /\ OnlyAbandonedOutlives'
  BY <1>2 DEF Stop, Leases, Reports, OnlyAbandonedOutlives, Leased, Gone, TypeOK,
     CallerState, signalVars, budgetVars, taskVars
<1>3. ASSUME NEW e \in Engine, PrepareRecoveryProbe(e)
      PROVE Leases' /\ Reports' /\ OnlyAbandonedOutlives'
  BY <1>3 DEF PrepareRecoveryProbe, Leases, Reports, OnlyAbandonedOutlives, Leased,
     Gone, TypeOK, CallerState, signalVars, budgetVars, taskVars
<1>4. ASSUME NEW c \in Call, CancelRequest(c)
      PROVE Leases' /\ Reports' /\ OnlyAbandonedOutlives'
  BY <1>4 DEF CancelRequest, Leases, Reports, OnlyAbandonedOutlives, Leased, Gone,
     TypeOK, CallerState, signalVars, budgetVars, taskVars
<1>5. ASSUME NEW c \in Call, NEW e \in Engine, Begin(c, e)
      PROVE Leases' /\ Reports' /\ OnlyAbandonedOutlives'
  BY SMTT(60), <1>5 DEF Begin, Leases, Reports, OnlyAbandonedOutlives, Leased, Gone, TypeOK,
     CallerState, signalVars, budgetVars, taskVars
<1>6. ASSUME NEW c \in Call, Acquire(c)
      PROVE Leases' /\ Reports' /\ OnlyAbandonedOutlives'
  BY SMTT(60), <1>6 DEF Acquire, Leases, Reports, OnlyAbandonedOutlives, Leased, Gone, TypeOK,
     CallerState, signalVars, budgetVars, taskVars
<1>7. ASSUME NEW c \in Call, GiveUp(c)
      PROVE Leases' /\ Reports' /\ OnlyAbandonedOutlives'
  BY SMTT(60), <1>7 DEF GiveUp, Return, Leases, Reports, OnlyAbandonedOutlives, Leased, Gone,
     TypeOK, CallerState, signalVars, budgetVars, taskVars
<1>8. ASSUME NEW c \in Call, LeaveUnused(c)
      PROVE Leases' /\ Reports' /\ OnlyAbandonedOutlives'
  <2>1. "task" \notin owners[c] /\ caller[c] = "leased"
    BY <1>8 DEF LeaveUnused, Leases
  <2>2. /\ DropLease(c, "caller", FALSE) /\ Return(c, "superseded")
        /\ UNCHANGED <<task, pending, engine>>
    BY <1>8 DEF LeaveUnused, taskVars
  <2> QED BY <2>1, <2>2, CallerLeaves
<1>9. ASSUME NEW c \in Call, Spawn(c)
      PROVE Leases' /\ Reports' /\ OnlyAbandonedOutlives'
  BY SMTT(60), <1>9 DEF Spawn, Leases, Reports, OnlyAbandonedOutlives, Leased, Gone, TypeOK,
     CallerState, signalVars, budgetVars, taskVars
<1>10. ASSUME NEW c \in Call, SpawnFails(c)
       PROVE Leases' /\ Reports' /\ OnlyAbandonedOutlives'
  <2>1. "task" \notin owners[c] /\ caller[c] = "leased"
    BY <1>10 DEF SpawnFails, Leases
  <2>2. /\ DropLease(c, "caller", FALSE) /\ Return(c, "failed")
        /\ UNCHANGED <<task, pending, engine>>
    BY <1>10 DEF SpawnFails, taskVars
  <2> QED BY <2>1, <2>2, CallerLeaves
<1>11. ASSUME NEW c \in Call, StartGrace(c)
       PROVE Leases' /\ Reports' /\ OnlyAbandonedOutlives'
  BY <1>11 DEF StartGrace, Leases, Reports, OnlyAbandonedOutlives, Leased, Gone,
     TypeOK, CallerState, signalVars, budgetVars, taskVars
<1>12. ASSUME NEW c \in Call, Quarantine(c)
       PROVE Leases' /\ Reports' /\ OnlyAbandonedOutlives'
  <2>1. caller[c] = "waiting"
    BY <1>12 DEF Quarantine
  <2>2. /\ DropLease(c, "caller", TRUE) /\ Return(c, "superseded")
        /\ UNCHANGED <<task, pending, engine>>
    BY <1>12 DEF Quarantine, taskVars
  <2> QED BY <2>1, <2>2, CallerLeaves
<1>13. ASSUME NEW c \in Call, ReceiveFinished(c)
       PROVE Leases' /\ Reports' /\ OnlyAbandonedOutlives'
  <2>1. "task" \notin owners[c] /\ caller[c] = "waiting"
    <3>1. channel[c] \in Seq(EventKind \cup {"finished"}) /\ channel[c] # <<>>
      BY <1>13 DEF ReceiveFinished, TypeOK
    <3>2. 1 \in DOMAIN channel[c] /\ channel[c][1] = Head(channel[c])
      BY <3>1
    <3>3. task[c] = "ended"
      BY <1>13, <3>2 DEF ReceiveFinished, Reports
    <3> QED BY <1>13, <3>3 DEF ReceiveFinished, Leases
  <2>2. /\ DropLease(c, "caller", FALSE) /\ \E o : Return(c, o)
        /\ UNCHANGED <<task, pending, engine>>
    BY <1>13 DEF ReceiveFinished, taskVars
  <2> QED BY <2>1, <2>2, CallerLeaves
<1>14. ASSUME NEW c \in Call, ReceiveDisconnected(c)
       PROVE Leases' /\ Reports' /\ OnlyAbandonedOutlives'
  <2>1. /\ "task" \in owners[c] => task[c] = "unwinding" /\ KindOf[c] # "buffered"
        /\ caller[c] = "waiting"
    BY <1>14 DEF ReceiveDisconnected, SenderDropped, Leases
  <2>2. /\ DropLease(c, "caller", FALSE) /\ Return(c, "failed")
        /\ UNCHANGED <<task, pending, engine>>
    BY <1>14 DEF ReceiveDisconnected, taskVars
  <2> QED BY <2>1, <2>2, CallerLeaves
<1>15. ASSUME NEW c \in Call, ReceiveEvent(c)
       PROVE Leases' /\ Reports' /\ OnlyAbandonedOutlives'
  BY SMTT(60), <1>15 DEF ReceiveEvent, Leases, Reports, OnlyAbandonedOutlives, Leased, Gone,
     TypeOK, CallerState, signalVars, budgetVars, taskVars
<1>16. ASSUME NEW c \in Call, RefuseEvent(c)
       PROVE Leases' /\ Reports' /\ OnlyAbandonedOutlives'
  <2>1. caller[c] = "waiting"
    BY <1>16 DEF RefuseEvent
  <2>2. /\ DropLease(c, "caller", TRUE) /\ Return(c, "failed")
        /\ UNCHANGED <<task, pending, engine>>
    BY <1>16 DEF RefuseEvent, taskVars
  <2> QED BY <2>1, <2>2, CallerLeaves
<1>17. ASSUME NEW c \in Call, NEW ok \in BOOLEAN, Reconnect(c, ok)
       PROVE Leases' /\ Reports' /\ OnlyAbandonedOutlives'
  BY SMTT(60), <1>17 DEF Reconnect, Leases, Reports, OnlyAbandonedOutlives, Leased, Gone,
     TypeOK, CallerState, signalVars, budgetVars, taskVars
<1>18. ASSUME NEW c \in Call, NEW k \in EventKind, Emit(c, k)
       PROVE Leases' /\ Reports' /\ OnlyAbandonedOutlives'
  <2>1. Leases' /\ Reports'
    BY ZenonT(60), <1>18 DEF Emit, Leases, Reports, TypeOK, budgetVars
  <2>2. /\ UNCHANGED <<owners, caller, abandoned>> /\ task[c] = "native"
        /\ \A d \in Call : d # c => task'[d] = task[d]
    BY <1>18 DEF Emit, budgetVars, TypeOK
  <2> QED BY <2>1, <2>2, TaskGoesOn
<1>19. ASSUME NEW c \in Call, SendEvent(c)
       PROVE Leases' /\ Reports' /\ OnlyAbandonedOutlives'
  <2>1. Leases'
    BY <1>19 DEF SendEvent, Leases, TypeOK, budgetVars
  <2>3. Reports'
    BY SMTT(60), <1>19 DEF SendEvent, Put, Gone, EventKind, Reports, TypeOK
  <2>2. /\ UNCHANGED <<owners, caller, abandoned>> /\ task[c] = "sending"
        /\ \A d \in Call : d # c => task'[d] = task[d]
    BY <1>19 DEF SendEvent, budgetVars, TypeOK
  <2> QED BY <2>1, <2>2, <2>3, TaskGoesOn
<1>20. ASSUME NEW c \in Call, NEW r \in NativeResult, NativeReturns(c, r)
       PROVE Leases' /\ Reports' /\ OnlyAbandonedOutlives'
  BY SMTT(60), <1>20 DEF NativeReturns, Leases, Reports, OnlyAbandonedOutlives, Leased, Gone,
     TypeOK, CallerState, signalVars, budgetVars, taskVars
<1>21. ASSUME NEW c \in Call, Panic(c)
       PROVE Leases' /\ Reports' /\ OnlyAbandonedOutlives'
  <2>1. Leases' /\ Reports'
    BY <1>21 DEF Panic, Leases, Reports, TypeOK, budgetVars
  <2>2. /\ UNCHANGED <<owners, caller, abandoned>> /\ task[c] = "native"
        /\ \A d \in Call : d # c => task'[d] = task[d]
    BY <1>21 DEF Panic, budgetVars, TypeOK
  <2> QED BY <2>1, <2>2, TaskGoesOn
<1>25. ASSUME NEW c \in Call, Unwind(c)
       PROVE Leases' /\ Reports' /\ OnlyAbandonedOutlives'
  <2>1. Leases' /\ Reports'
    BY <1>25 DEF Unwind, DropLease, Leases, Reports, TypeOK
  <2>2. OnlyAbandonedOutlives'
    <3> SUFFICES ASSUME NEW d \in Call, Gone(d)', Leased(d)'
                 PROVE  abandoned'[d] \/ (task'[d] = "unwinding" /\ KindOf[d] # "buffered")
      BY DEF OnlyAbandonedOutlives
    <3>1. /\ Gone(d) /\ owners'[d] = IF d = c THEN owners[c] \ {"task"} ELSE owners[d]
          /\ abandoned'[d] = abandoned[d]
          /\ d # c => task'[d] = task[d]
      BY <1>25 DEF Unwind, DropLease, Gone, TypeOK
    <3>2. CASE d = c
      <4>1. owners[c] \in SUBSET {"caller", "task"} /\ "caller" \notin owners[c]
        BY <3>1, <3>2 DEF Gone, Leases, TypeOK, Owner
      <4> QED BY <3>1, <3>2, <4>1 DEF Leased
    <3>3. CASE d # c
      BY <3>1, <3>3 DEF OnlyAbandonedOutlives, Leased
    <3> QED BY <3>2, <3>3
  <2> QED BY <2>1, <2>2
<1>22. ASSUME NEW c \in Call, DropTaskLease(c)
       PROVE Leases' /\ Reports' /\ OnlyAbandonedOutlives'
  BY SMTT(60), <1>22 DEF DropTaskLease, DropLease, Leases, Reports, OnlyAbandonedOutlives,
     Leased, Gone, TypeOK, CallerState, signalVars, budgetVars, taskVars
<1>23. ASSUME NEW c \in Call, SendResult(c)
       PROVE Leases' /\ Reports' /\ OnlyAbandonedOutlives'
  BY SMTT(60), <1>23 DEF SendResult, Put, Leases, Reports, OnlyAbandonedOutlives, Leased,
     Gone, TypeOK, CallerState, signalVars, budgetVars, taskVars
<1>24. CASE UNCHANGED isolationVars
  BY <1>24 DEF Leases, Reports, OnlyAbandonedOutlives, Leased, Gone, TypeOK,
     CallerState, isolationVars, signalVars, budgetVars, taskVars
<1> QED
  BY <1>1, <1>2, <1>3, <1>4, <1>5, <1>6, <1>7, <1>8, <1>9, <1>10, <1>11,
     <1>12, <1>13, <1>14, <1>15, <1>16, <1>17, <1>18, <1>19, <1>20, <1>21,
     <1>22, <1>23, <1>24, <1>25 DEF Next, CallerStep, TaskStep, Terminated

------------------------------
(* The invariant *)

\* The inductive invariant holds initially ...
LEMMA InvInit == IsolationInit => IInv
<1> SUFFICES ASSUME IsolationInit PROVE IInv
  OBVIOUS
<1>1. TypeOK
  BY IsolationAssumption
  DEF IsolationInit, TypeOK, CallerState, TaskState, Outcome, Owner
<1>2. Leases /\ Reports /\ OnlyAbandonedOutlives /\ OneLeasePerEngine
  BY DEF IsolationInit, Leases, Reports, OnlyAbandonedOutlives, OneLeasePerEngine,
         Leased, Gone
<1>3. Leaseholders = {} /\ Abandoners = {}
  BY DEF IsolationInit, Leaseholders, Abandoners, Leased
<1>4. in_flight = Cardinality(Leaseholders) /\ quarantined = Cardinality(Abandoners)
  BY <1>3, FS_EmptySet DEF IsolationInit
<1>5. SlotsAccounted
  BY <1>4 DEF IsolationInit, SlotsAccounted, Leaseholders, Abandoners, Leased
<1>6. Within
  BY IsolationAssumption DEF IsolationInit, Within
<1> QED BY <1>1, <1>2, <1>5, <1>6 DEF IInv

\* ... and after every step.
LEMMA InvStep == IInv /\ [Next]_isolationVars => IInv'
BY AccountsStep, TypeStep, LeasesStep DEF IInv, Accounts

LEMMA InvAlways == Spec => []IInv
BY InvInit, InvStep, PTL DEF Spec

\* Every variable keeps its type: in particular neither counter of the budget is
\* ever decremented below zero.
THEOREM IsolationTypeCorrect == Spec => []TypeOK
BY InvAlways, PTL DEF IInv

\* The engine slots, the number in flight and the number quarantined always
\* agree with the leases that exist, whichever of caller and task lets go first.
THEOREM IsolationAccounted == Spec => []SlotsAccounted
BY InvAlways, PTL DEF IInv

\* Only a call that was abandoned keeps its slot after its caller returned.
THEOREM IsolationReleases == Spec => []OnlyAbandonedOutlives
BY InvAlways, PTL DEF IInv

\* However many calls are cancelled, no more than MaxIsolatedCalls native calls
\* are resident, and never two in one engine.
THEOREM IsolationBounded == Spec => []ResidentBounded
<1>1. IInv => ResidentBounded
  <2> SUFFICES ASSUME IInv PROVE ResidentBounded
    OBVIOUS
  <2> DEFINE R == {c \in Call : Resident(c)}
  <2>1. \A c \in Call : Resident(c) => Leased(c)
    BY DEF IInv, Leases, Resident, Leased
  <2>2. R \in SUBSET Leaseholders
    BY <2>1 DEF Leaseholders
  <2>3. /\ Cardinality(R) <= Cardinality(Leaseholders)
        /\ Cardinality(R) \in Nat
    BY <2>2, LeasesFinite, FS_Subset, FS_CardinalityType
  <2>4. Cardinality(Leaseholders) <= MaxIsolatedCalls
    BY DEF IInv, SlotsAccounted, Within, Leaseholders
  <2>5. Cardinality(R) <= MaxIsolatedCalls
    BY <2>3, <2>4, LeasesFinite, IsolationAssumption
  <2> QED BY <2>1, <2>5 DEF IInv, OneLeasePerEngine, ResidentBounded
<1> QED BY <1>1, InvAlways, PTL

------------------------------
(* Refinement *)

\* The slot of an engine with a lease shows whether the caller is still there.
LEMMA SlotOfLease ==
    ASSUME OneLeasePerEngine, NEW c \in Call, Leased(c), engine[c] \in Engine
    PROVE  SlotOf[engine[c]] = IF "caller" \in owners[c] THEN "held" ELSE "abandoned"
BY DEF SlotOf, OneLeasePerEngine, Leased

\* A step that leaves the caller's clones and the leases alone leaves the slots.
LEMMA SlotsUnchanged ==
    ASSUME \A c \in Call : Leased(c)' <=> Leased(c),
           \A c \in Call : Leased(c) => engine'[c] = engine[c],
           \A c \in Call : "caller" \in owners'[c] <=> "caller" \in owners[c]
    PROVE  SlotOf' = SlotOf
BY DEF SlotOf

\* Admission takes a free slot, within the limit of EngineSlots.
LEMMA AcquireTakes ==
    ASSUME TypeOK, Leases, Accounts, Accounts', NEW c \in Call, Acquire(c)
    PROVE  Slots!Take(engine[c])
<1>1. /\ engine[c] \in Engine /\ engine' = engine
      /\ owners' = [owners EXCEPT ![c] = {"caller"}]
  BY DEF Acquire, Leases, TypeOK, CallerState
<1>2. \A d \in Call : Leased(d) => engine[d] # engine[c]
  BY <1>1 DEF Acquire, CanAcquire, Accounts, SlotsAccounted
<1>3. SlotOf[engine[c]] = "free"
  BY <1>1, <1>2 DEF SlotOf
<1>4. Cardinality(Slots!Taken) <= in_flight /\ Cardinality(Slots!Taken) \in Nat
  <2> DEFINE f == [d \in Leaseholders |-> engine[d]]
             T == {engine[d] : d \in Leaseholders}
  <2>1. f \in Surjection(Leaseholders, T)
    BY DEF Surjection
  <2>2. IsFiniteSet(T) /\ Cardinality(T) <= Cardinality(Leaseholders)
    BY <2>1, LeasesFinite, FS_Surjection
  <2>3. \A e \in Engine : SlotOf[e] # "free" <=> \E d \in Call : Leased(d) /\ engine[d] = e
    BY DEF SlotOf
  <2>4. \A d \in Leaseholders : engine[d] \in Engine
    BY DEF Leaseholders, Leased, Leases
  <2>5. Slots!Taken = T
    BY <2>3, <2>4 DEF Slots!Taken, Leaseholders
  <2> QED BY <2>2, <2>5, FS_CardinalityType
          DEF Accounts, SlotsAccounted, Leaseholders
<1>5. Slots!Available(engine[c])
  <2>1. Slots!Cardinality(Slots!Taken) = Cardinality(Slots!Taken)
    BY Zenon DEF Slots!Cardinality, Cardinality
  <2>2. Cardinality(Slots!Taken) < MaxIsolatedCalls
    BY <1>4, IsolationAssumption DEF Acquire, CanAcquire, TypeOK
  <2> QED BY <1>3, <2>1, <2>2 DEF Slots!Available
<1>6. SlotOf' = [SlotOf EXCEPT ![engine[c]] = "held"]
  <2>1. owners'[c] = {"caller"} /\ \A d \in Call : d # c => owners'[d] = owners[d]
    BY <1>1 DEF TypeOK
  <2>2. SlotOf'[engine[c]] = "held"
    BY <1>1, <2>1 DEF SlotOf, Leased
  <2>3. \A e \in Engine : e # engine[c] => SlotOf'[e] = SlotOf[e]
    BY <1>1, <2>1 DEF SlotOf, Leased
  <2>4. SlotOf' = [e \in Engine |-> SlotOf'[e]] /\ SlotOf = [e \in Engine |-> SlotOf[e]]
    BY DEF SlotOf
  <2> QED BY <1>1, <2>2, <2>3, <2>4
<1> QED BY <1>5, <1>6 DEF Slots!Take

\* An owner that lets go releases, abandons or gives back the slot, or leaves it
\* to the other owner.
LEMMA DropFreesOrKeeps ==
    ASSUME TypeOK, Leases, Accounts, Accounts', NEW c \in Call,
           NEW who \in owners[c], NEW abandon \in BOOLEAN, engine[c] \in Engine,
           DropLease(c, who, abandon), engine' = engine
    PROVE  Slots!Next \/ SlotOf' = SlotOf
<1> DEFINE e == engine[c]
<1>1. owners'[c] = owners[c] \ {who} /\ \A d \in Call : d # c => owners'[d] = owners[d]
  BY DEF DropLease, TypeOK
<1>2. SlotOf[e] = IF "caller" \in owners[c] THEN "held" ELSE "abandoned"
  BY SlotOfLease DEF Accounts, Leased
<1>3. \A x \in Engine : x # e => SlotOf'[x] = SlotOf[x]
  BY <1>1 DEF SlotOf, Leased
<1>4. \A d \in Call : d # c /\ engine[d] = e => owners[d] = {}
  BY DEF Accounts, OneLeasePerEngine, Leased
<1>5. SlotOf'[e] = IF owners'[c] = {} THEN "free"
                   ELSE IF "caller" \in owners'[c] THEN "held" ELSE "abandoned"
  BY <1>1, <1>4 DEF SlotOf, Leased
<1>6. owners[c] \in SUBSET {"caller", "task"}
  BY DEF TypeOK, Owner
<1>7. \A v : SlotOf'[e] = v => SlotOf' = [SlotOf EXCEPT ![e] = v]
  BY <1>3 DEF SlotOf
<1>8. CASE owners[c] = {"caller"}
  <2>1. SlotOf[e] = "held" /\ SlotOf'[e] = "free"
    BY <1>1, <1>2, <1>5, <1>8
  <2> QED BY <1>7, <2>1 DEF Slots!Next, Slots!Release
<1>9. CASE owners[c] = {"task"}
  <2>1. SlotOf[e] = "abandoned" /\ SlotOf'[e] = "free"
    BY <1>1, <1>2, <1>5, <1>9
  <2> QED BY <1>7, <2>1 DEF Slots!Next, Slots!ComeBack
<1>10. CASE owners[c] = {"caller", "task"} /\ who = "caller"
  <2>1. SlotOf[e] = "held" /\ SlotOf'[e] = "abandoned"
    BY <1>1, <1>2, <1>5, <1>10
  <2> QED BY <1>7, <2>1 DEF Slots!Next, Slots!Abandon
<1>11. CASE owners[c] = {"caller", "task"} /\ who = "task"
  <2>1. SlotOf[e] = "held" /\ SlotOf'[e] = "held"
    BY <1>1, <1>2, <1>5, <1>11
  <2> QED BY <1>3, <2>1 DEF SlotOf
<1> QED BY <1>6, <1>8, <1>9, <1>10, <1>11

\* Every step of the isolation is a step of EngineSlots or leaves the slots.
LEMMA SlotStep ==
    ASSUME TypeOK, Leases, Accounts, Accounts', [Next]_isolationVars
    PROVE  Slots!Next \/ SlotOf' = SlotOf
<1>1. CASE Interrupt
  BY <1>1, SlotsUnchanged DEF Interrupt, budgetVars, Leased
<1>2. ASSUME NEW e \in Engine, Stop(e) PROVE Slots!Next \/ SlotOf' = SlotOf
  BY <1>2, SlotsUnchanged DEF Stop, budgetVars, Leased
<1>3. ASSUME NEW e \in Engine, PrepareRecoveryProbe(e)
      PROVE Slots!Next \/ SlotOf' = SlotOf
  BY <1>3, SlotsUnchanged DEF PrepareRecoveryProbe, budgetVars, Leased
<1>4. ASSUME NEW c \in Call, CancelRequest(c) PROVE Slots!Next \/ SlotOf' = SlotOf
  BY <1>4, SlotsUnchanged DEF CancelRequest, budgetVars, Leased
<1>5. ASSUME NEW c \in Call, NEW e \in Engine, Begin(c, e)
      PROVE Slots!Next \/ SlotOf' = SlotOf
  <2>1. /\ \A d \in Call : Leased(d) => engine'[d] = engine[d]
        /\ owners' = owners
    BY <1>5 DEF Begin, Leases, Leased, TypeOK, budgetVars
  <2> QED BY <2>1, SlotsUnchanged DEF Leased
<1>6. ASSUME NEW c \in Call, Acquire(c) PROVE Slots!Next \/ SlotOf' = SlotOf
  <2>1. engine[c] \in Engine
    BY <1>6 DEF Acquire, Leases
  <2> QED BY <1>6, <2>1, AcquireTakes DEF Slots!Next
<1>7. ASSUME NEW c \in Call, GiveUp(c) PROVE Slots!Next \/ SlotOf' = SlotOf
  BY <1>7, SlotsUnchanged DEF GiveUp, budgetVars, Leased
<1>8. ASSUME NEW c \in Call, LeaveUnused(c) PROVE Slots!Next \/ SlotOf' = SlotOf
  <2>1. "caller" \in owners[c] /\ engine[c] \in Engine
    BY <1>8 DEF LeaveUnused, Leases, TypeOK, CallerState
  <2>2. DropLease(c, "caller", FALSE) /\ engine' = engine
    BY <1>8 DEF LeaveUnused
  <2> QED BY <2>1, <2>2, DropFreesOrKeeps
<1>9. ASSUME NEW c \in Call, Spawn(c) PROVE Slots!Next \/ SlotOf' = SlotOf
  <2>1. /\ \A d \in Call : Leased(d)' <=> Leased(d)
        /\ \A d \in Call : "caller" \in owners'[d] <=> "caller" \in owners[d]
        /\ engine' = engine
    BY <1>9 DEF Spawn, Leases, Leased, TypeOK
  <2> QED BY <2>1, SlotsUnchanged
<1>10. ASSUME NEW c \in Call, SpawnFails(c) PROVE Slots!Next \/ SlotOf' = SlotOf
  <2>1. "caller" \in owners[c] /\ engine[c] \in Engine
    BY <1>10 DEF SpawnFails, Leases, TypeOK, CallerState
  <2>2. DropLease(c, "caller", FALSE) /\ engine' = engine
    BY <1>10 DEF SpawnFails
  <2> QED BY <2>1, <2>2, DropFreesOrKeeps
<1>11. ASSUME NEW c \in Call, StartGrace(c) PROVE Slots!Next \/ SlotOf' = SlotOf
  BY <1>11, SlotsUnchanged DEF StartGrace, budgetVars, Leased
<1>12. ASSUME NEW c \in Call, Quarantine(c) PROVE Slots!Next \/ SlotOf' = SlotOf
  <2>1. "caller" \in owners[c] /\ engine[c] \in Engine
    BY <1>12 DEF Quarantine, Leases, TypeOK, CallerState
  <2>2. DropLease(c, "caller", TRUE) /\ engine' = engine
    BY <1>12 DEF Quarantine
  <2> QED BY <2>1, <2>2, DropFreesOrKeeps
<1>13. ASSUME NEW c \in Call, ReceiveFinished(c) PROVE Slots!Next \/ SlotOf' = SlotOf
  <2>1. "caller" \in owners[c] /\ engine[c] \in Engine
    BY <1>13 DEF ReceiveFinished, Leases, TypeOK, CallerState
  <2>2. DropLease(c, "caller", FALSE) /\ engine' = engine
    BY <1>13 DEF ReceiveFinished
  <2> QED BY <2>1, <2>2, DropFreesOrKeeps
<1>14. ASSUME NEW c \in Call, ReceiveDisconnected(c)
       PROVE Slots!Next \/ SlotOf' = SlotOf
  <2>1. "caller" \in owners[c] /\ engine[c] \in Engine
    BY <1>14 DEF ReceiveDisconnected, Leases, TypeOK, CallerState
  <2>2. DropLease(c, "caller", FALSE) /\ engine' = engine
    BY <1>14 DEF ReceiveDisconnected
  <2> QED BY <2>1, <2>2, DropFreesOrKeeps
<1>15. ASSUME NEW c \in Call, ReceiveEvent(c) PROVE Slots!Next \/ SlotOf' = SlotOf
  BY <1>15, SlotsUnchanged DEF ReceiveEvent, budgetVars, Leased
<1>16. ASSUME NEW c \in Call, RefuseEvent(c) PROVE Slots!Next \/ SlotOf' = SlotOf
  <2>1. "caller" \in owners[c] /\ engine[c] \in Engine
    BY <1>16 DEF RefuseEvent, Leases, TypeOK, CallerState
  <2>2. DropLease(c, "caller", TRUE) /\ engine' = engine
    BY <1>16 DEF RefuseEvent
  <2> QED BY <2>1, <2>2, DropFreesOrKeeps
<1>17. ASSUME NEW c \in Call, NEW ok \in BOOLEAN, Reconnect(c, ok)
       PROVE Slots!Next \/ SlotOf' = SlotOf
  BY <1>17, SlotsUnchanged DEF Reconnect, budgetVars, Leased
<1>18. ASSUME NEW c \in Call, NEW k \in EventKind, Emit(c, k)
       PROVE Slots!Next \/ SlotOf' = SlotOf
  BY <1>18, SlotsUnchanged DEF Emit, budgetVars, Leased
<1>19. ASSUME NEW c \in Call, SendEvent(c) PROVE Slots!Next \/ SlotOf' = SlotOf
  BY <1>19, SlotsUnchanged DEF SendEvent, budgetVars, Leased
<1>20. ASSUME NEW c \in Call, NEW r \in NativeResult, NativeReturns(c, r)
       PROVE Slots!Next \/ SlotOf' = SlotOf
  BY <1>20, SlotsUnchanged DEF NativeReturns, budgetVars, Leased
<1>21. ASSUME NEW c \in Call, Panic(c) PROVE Slots!Next \/ SlotOf' = SlotOf
  BY <1>21, SlotsUnchanged DEF Panic, budgetVars, Leased
<1>25. ASSUME NEW c \in Call, Unwind(c) PROVE Slots!Next \/ SlotOf' = SlotOf
  <2>1. "task" \in owners[c] /\ engine[c] \in Engine
    BY <1>25 DEF Unwind, Leases, TypeOK, CallerState
  <2>2. DropLease(c, "task", FALSE) /\ engine' = engine
    BY <1>25 DEF Unwind
  <2> QED BY <2>1, <2>2, DropFreesOrKeeps
<1>22. ASSUME NEW c \in Call, DropTaskLease(c) PROVE Slots!Next \/ SlotOf' = SlotOf
  <2>1. "task" \in owners[c] /\ engine[c] \in Engine
    BY <1>22 DEF DropTaskLease, Leases, TypeOK, CallerState
  <2>2. DropLease(c, "task", FALSE) /\ engine' = engine
    BY <1>22 DEF DropTaskLease
  <2> QED BY <2>1, <2>2, DropFreesOrKeeps
<1>23. ASSUME NEW c \in Call, SendResult(c) PROVE Slots!Next \/ SlotOf' = SlotOf
  BY <1>23, SlotsUnchanged DEF SendResult, budgetVars, Leased
<1>24. CASE UNCHANGED isolationVars
  BY <1>24, SlotsUnchanged DEF isolationVars, signalVars, budgetVars, taskVars, Leased
<1> QED
  BY <1>1, <1>2, <1>3, <1>4, <1>5, <1>6, <1>7, <1>8, <1>9, <1>10, <1>11,
     <1>12, <1>13, <1>14, <1>15, <1>16, <1>17, <1>18, <1>19, <1>20, <1>21,
     <1>22, <1>23, <1>24, <1>25 DEF Next, CallerStep, TaskStep, Terminated

\* The isolated engines implement EngineSlots, what the routing layer relies on:
\* one slot per engine, a bounded number taken, and a slot whose caller left
\* early stays taken until its native call is over.
THEOREM IsolationKeepsSlots == Spec => KeepsSlots
<1>1. IsolationInit => Slots!Init
  BY DEF IsolationInit, Slots!Init, SlotOf, Leased
<1>2. IInv /\ IInv' /\ [Next]_isolationVars => [Slots!Next]_SlotOf
  BY SlotStep DEF IInv, Accounts
<1> QED BY <1>1, <1>2, InvAlways, PTL DEF Spec, KeepsSlots, Slots!Spec

\* The whole of the budget's safety, as the model is checked for it: at most
\* MaxIsolatedCalls native calls, one per engine, counted exactly, and no slot
\* kept after its call returned but an abandoned one.
THEOREM IsolationIsSound == Spec => []IsolationSound
BY IsolationTypeCorrect, IsolationBounded, IsolationAccounted, IsolationReleases, PTL
   DEF IsolationSound

------------------------------
(* The stream of one call *)

\* What the sink of c has seen comes in the order of a native stream.
InOrder(c) ==
    Native(c) => \A i \in DOMAIN delivered[c] :
                    delivered[c][i] = CASE i = 1 -> "application" [] i = 2 -> "start"
                                        [] OTHER -> "output"

\* The cancellation signals only move forward from what the caller read.
SeenBefore(c) ==
    caller[c] # "idle" =>
        seen[c][1] <= generation /\ seen[c][2] <= stop_epoch[engine[c]]

\* Nothing has been produced before the task is there.
NothingYet(c) ==
    caller[c] \in {"idle", "acquiring", "leased"} =>
        emitted[c] = 0 /\ channel[c] = <<>> /\ delivered[c] = <<>>

\* A result is the last thing a channel holds.
ResultIsLast(c) ==
    \A i \in DOMAIN channel[c] :
        channel[c][i] = "finished" => task[c] = "ended" /\ i = Len(channel[c])

\* While nobody has superseded the request, every event is with the sink, in the
\* channel or about to be sent.
NothingLost(c) ==
    caller[c] = "waiting" /\ ~WasCancelled(c) =>
        LET known == Len(delivered[c]) + Len(channel[c]) IN
        CASE task[c] = "sending" -> known + 1 = emitted[c]
          [] task[c] = "ended" -> known = emitted[c] + 1
          [] OTHER -> known = emitted[c]

\* A call that came back well is over, and the sink has all of it.
WholeIfOk(c) ==
    outcome[c] = "ok" =>
        /\ Gone(c) /\ task[c] = "ended" /\ result[c] = "ok"
        /\ Len(delivered[c]) = emitted[c]

StreamOf(c) ==
    /\ InOrder(c) /\ SeenBefore(c) /\ NothingYet(c) /\ ResultIsLast(c)
    /\ NothingLost(c) /\ WholeIfOk(c)

Streams == \A c \in Call : StreamOf(c)

SignalsAdvance ==
    /\ generation <= generation'
    /\ \A e \in Engine : stop_epoch[e] <= stop_epoch'[e]
    /\ token \subseteq token'

\* What the stream of c is made of.
CallOf(c) == <<caller[c], engine[c], seen[c], task[c], emitted[c], channel[c],
               delivered[c], result[c], outcome[c]>>

\* A request that was superseded stays so: both counters only grow.
LEMMA SupersededForGood ==
    ASSUME TypeOK, TypeOK', Leases, NEW c \in Call, caller[c] # "idle", SeenBefore(c),
           SignalsAdvance, engine'[c] = engine[c], seen'[c] = seen[c]
    PROVE  /\ WasCancelled(c) => WasCancelled(c)'
           /\ seen'[c][1] <= generation' /\ seen'[c][2] <= stop_epoch'[engine'[c]]
<1>1. engine[c] \in Engine
  BY DEF Leases
<1>2. /\ generation \in Int /\ generation' \in Int /\ generation <= generation'
      /\ stop_epoch[engine[c]] \in Int /\ stop_epoch'[engine[c]] \in Int
      /\ stop_epoch[engine[c]] <= stop_epoch'[engine[c]]
  BY <1>1 DEF TypeOK, SignalsAdvance
<1>3. /\ seen[c][1] \in Int /\ seen[c][2] \in Int
      /\ seen[c][1] <= generation /\ seen[c][2] <= stop_epoch[engine[c]]
  BY SMTT(60) DEF TypeOK, SeenBefore
<1>4. /\ generation # seen[c][1] => generation' # seen[c][1]
      /\ stop_epoch[engine[c]] # seen[c][2] => stop_epoch'[engine[c]] # seen[c][2]
      /\ seen[c][1] <= generation' /\ seen[c][2] <= stop_epoch'[engine[c]]
  BY <1>2, <1>3
<1> QED BY <1>4 DEF WasCancelled, SignalsAdvance

\* A step that leaves the call alone keeps what holds of its stream.
LEMMA StreamFrame ==
    ASSUME TypeOK, TypeOK', Leases, NEW c \in Call, StreamOf(c), SignalsAdvance,
           CallOf(c)' = CallOf(c)
    PROVE  StreamOf(c)'
<1>1. /\ caller'[c] = caller[c] /\ engine'[c] = engine[c] /\ seen'[c] = seen[c]
      /\ task'[c] = task[c] /\ emitted'[c] = emitted[c] /\ channel'[c] = channel[c]
      /\ delivered'[c] = delivered[c] /\ result'[c] = result[c]
      /\ outcome'[c] = outcome[c]
  BY DEF CallOf
<1>2. InOrder(c)' /\ NothingYet(c)' /\ ResultIsLast(c)' /\ WholeIfOk(c)'
  BY <1>1 DEF StreamOf, InOrder, NothingYet, ResultIsLast, WholeIfOk, Gone, Native
<1>3. SeenBefore(c)' /\ NothingLost(c)'
  BY <1>1, SupersededForGood DEF StreamOf, SeenBefore, NothingLost
<1> QED BY <1>2, <1>3 DEF StreamOf

\* A caller that returns otherwise than well loses nothing it claims to have.
LEMMA StreamReturn ==
    ASSUME TypeOK, TypeOK', NEW c \in Call, StreamOf(c), caller[c] # "idle",
           NEW o, o # "ok", Return(c, o),
           UNCHANGED <<signalVars, taskVars, engine, seen, delivered>>
    PROVE  StreamOf(c)'
<1>1. caller'[c] = "returned" /\ channel'[c] = <<>> /\ outcome'[c] = o
  BY DEF Return, TypeOK
<1>2. InOrder(c)' /\ SeenBefore(c)'
  BY DEF StreamOf, InOrder, SeenBefore, signalVars, Native
<1>3. ResultIsLast(c)'
  BY <1>1 DEF ResultIsLast
<1>4. NothingYet(c)' /\ NothingLost(c)' /\ WholeIfOk(c)'
  BY <1>1 DEF NothingYet, NothingLost, WholeIfOk
<1> QED BY <1>2, <1>3, <1>4 DEF StreamOf

\* The call ended and said so: when it is returned as it ended, the caller has
\* taken all of it.
LEMMA StreamFinished ==
    ASSUME TypeOK, TypeOK', Leases, NEW c \in Call, StreamOf(c), ReceiveFinished(c)
    PROVE  StreamOf(c)'
<1> DEFINE o == IF WasCancelled(c) THEN "superseded"
                ELSE IF /\ result[c] = "ok" /\ Native(c)
                        /\ ~(Delivered(c, "application") /\ Delivered(c, "start"))
                     THEN "failed" ELSE result[c]
<1>1. Return(c, o) /\ UNCHANGED <<signalVars, taskVars, engine, seen, delivered>>
  BY DEF ReceiveFinished
<1>2. caller[c] = "waiting" /\ channel[c] # <<>> /\ Head(channel[c]) = "finished"
  BY DEF ReceiveFinished
<1>3. CASE o # "ok"
  BY <1>1, <1>2, <1>3, StreamReturn
<1>4. CASE o = "ok"
  <2>1. ~WasCancelled(c) /\ result[c] = "ok"
    BY <1>4
  <2>2. channel[c] \in Seq(EventKind \cup {"finished"})
    BY DEF TypeOK
  <2>3. 1 \in DOMAIN channel[c] /\ channel[c][1] = "finished"
    BY <1>2, <2>2
  <2>4. task[c] = "ended" /\ Len(channel[c]) = 1
    BY <2>3 DEF StreamOf, ResultIsLast
  <2>5. Len(delivered[c]) \in Nat /\ emitted[c] \in Nat
    BY IsolationAssumption DEF TypeOK
  <2>6. Len(delivered[c]) = emitted[c]
    BY <1>2, <2>1, <2>4, <2>5 DEF StreamOf, NothingLost
  <2>7. caller'[c] = "returned" /\ channel'[c] = <<>> /\ outcome'[c] = o
    BY <1>1 DEF Return, TypeOK
  <2>8. InOrder(c)' /\ SeenBefore(c)'
    BY <1>1, <1>2 DEF StreamOf, InOrder, SeenBefore, signalVars, Native
  <2>9. ResultIsLast(c)' /\ NothingYet(c)' /\ NothingLost(c)'
    BY <2>7 DEF ResultIsLast, NothingYet, NothingLost
  <2>10. WholeIfOk(c)'
    BY <1>1, <2>1, <2>4, <2>6, <2>7 DEF WholeIfOk, Gone, taskVars
  <2> QED BY <2>8, <2>9, <2>10 DEF StreamOf
<1> QED BY <1>3, <1>4

\* What may follow what the sink has seen is the next of the order.
LEMMA NextInOrder ==
    ASSUME TypeOK, NEW c \in Call, InOrder(c), Native(c), NEW k \in EventKind,
           ~OutOfOrder(c, k)
    PROVE  k = CASE Len(delivered[c]) = 0 -> "application"
                 [] Len(delivered[c]) = 1 -> "start" [] OTHER -> "output"
<1> DEFINE n == Len(delivered[c])
<1>1. n \in Nat /\ DOMAIN delivered[c] = 1..n
  BY DEF TypeOK
<1> HIDE DEF n
<1>2. CASE n = 0
  <2>1. ~Delivered(c, "application") /\ ~Delivered(c, "start")
    BY <1>1, <1>2 DEF Delivered
  <2>2. k = "application"
    BY <2>1 DEF OutOfOrder, EventKind
  <2> QED BY <1>2, <2>2 DEF n
<1>3. CASE n = 1
  <2>1. \A i \in DOMAIN delivered[c] : delivered[c][i] = "application"
    BY <1>1, <1>3 DEF InOrder
  <2>2. 1 \in DOMAIN delivered[c]
    BY <1>1, <1>3
  <2>3. Delivered(c, "application") /\ ~Delivered(c, "start")
    BY <2>1, <2>2 DEF Delivered
  <2>4. k = "start"
    BY <2>3 DEF OutOfOrder, EventKind
  <2>5. n # 0
    BY <1>3
  <2> QED BY <1>3, <2>4, <2>5 DEF n
<1>4. CASE n >= 2
  <2>1. 1 \in DOMAIN delivered[c] /\ 2 \in DOMAIN delivered[c]
    BY <1>1, <1>4
  <2>2. delivered[c][1] = "application" /\ delivered[c][2] = "start"
    BY <2>1 DEF InOrder
  <2>3. Delivered(c, "application") /\ Delivered(c, "start")
    BY <2>1, <2>2 DEF Delivered
  <2>4. k = "output"
    BY <2>3 DEF OutOfOrder, EventKind
  <2>5. n # 0 /\ n # 1
    BY <1>1, <1>4
  <2> QED BY <2>4, <2>5 DEF n
<1>5. n = 0 \/ n = 1 \/ n >= 2
  BY <1>1
<1> QED BY <1>2, <1>3, <1>4, <1>5

\* An event that crosses moves from the channel to the sink, in its place.
LEMMA StreamReceive ==
    ASSUME TypeOK, TypeOK', Leases, NEW c \in Call, StreamOf(c), ReceiveEvent(c)
    PROVE  StreamOf(c)'
<1> DEFINE q == channel[c]
           k == Head(channel[c])
           s == delivered[c]
<1>1. /\ caller[c] = "waiting" /\ q # <<>> /\ k \in EventKind
      /\ WasCancelled(c) \/ ~OutOfOrder(c, k)
      /\ channel'[c] = Tail(q)
      /\ UNCHANGED <<signalVars, taskVars, caller, engine, seen, outcome>>
  BY DEF ReceiveEvent, TypeOK
<1>2. q \in Seq(EventKind \cup {"finished"}) /\ s \in Seq(EventKind)
  BY DEF TypeOK
<1>3. /\ Len(q) \in Nat /\ Len(q) >= 1 /\ Len(Tail(q)) = Len(q) - 1
      /\ \A i \in 1..Len(Tail(q)) : Tail(q)[i] = q[i + 1] /\ i + 1 \in 1..Len(q)
  BY <1>1, <1>2
<1>4. WasCancelled(c)' <=> WasCancelled(c)
  BY <1>1 DEF WasCancelled, signalVars
<1>5. SeenBefore(c)' /\ NothingYet(c)'
  BY <1>1 DEF StreamOf, SeenBefore, NothingYet, signalVars
<1>6. WholeIfOk(c)'
  BY <1>1 DEF StreamOf, WholeIfOk, Gone
<1>7. ResultIsLast(c)'
  <2> SUFFICES ASSUME NEW i \in DOMAIN Tail(q), Tail(q)[i] = "finished"
               PROVE  task[c] = "ended" /\ i = Len(Tail(q))
    BY <1>1 DEF ResultIsLast, taskVars
  <2>1. i \in 1..Len(Tail(q)) /\ i \in Int
    BY <1>2, <1>1
  <2>2. q[i + 1] = "finished" /\ i + 1 \in DOMAIN q
    BY <1>2, <1>3, <2>1
  <2> QED BY <1>3, <2>1, <2>2 DEF StreamOf, ResultIsLast
<1>8. CASE WasCancelled(c)
  <2>1. delivered'[c] = s
    BY <1>8 DEF ReceiveEvent
  <2>2. InOrder(c)' /\ NothingLost(c)'
    BY <1>4, <1>8, <2>1 DEF StreamOf, InOrder, NothingLost, Native
  <2> QED BY <1>5, <1>6, <1>7, <2>2 DEF StreamOf
<1>9. CASE ~WasCancelled(c)
  <2>1. delivered'[c] = Append(s, k)
    BY <1>9 DEF ReceiveEvent, TypeOK
  <2>2. /\ Len(Append(s, k)) = Len(s) + 1 /\ Len(s) \in Nat
        /\ Append(s, k)[Len(s) + 1] = k
        /\ \A i \in 1..Len(s) : Append(s, k)[i] = s[i]
        /\ DOMAIN s = 1..Len(s) /\ DOMAIN Append(s, k) = 1..Len(s) + 1
    BY <1>1, <1>2
  <2>3. NothingLost(c)'
    <3>1. emitted[c] \in Int /\ Len(s) \in Int /\ Len(q) \in Int
      BY <1>3, <2>2, IsolationAssumption DEF TypeOK
    <3>2. Len(delivered'[c]) + Len(channel'[c]) = Len(s) + Len(q)
      <4>1. Len(delivered'[c]) = Len(s) + 1
        BY <2>1, <2>2
      <4>2. Len(channel'[c]) = Len(q) - 1
        BY <1>1, <1>3
      <4> HIDE DEF s, q
      <4> QED BY <3>1, <4>1, <4>2
    <3>3. task'[c] = task[c] /\ emitted'[c] = emitted[c]
      BY <1>1 DEF taskVars
    <3> QED BY <1>1, <1>4, <1>9, <3>2, <3>3 DEF StreamOf, NothingLost
  <2>4. InOrder(c)'
    <3> SUFFICES ASSUME Native(c), NEW i \in 1..Len(s) + 1
                 PROVE  Append(s, k)[i] = CASE i = 1 -> "application"
                          [] i = 2 -> "start" [] OTHER -> "output"
      BY <2>1, <2>2 DEF InOrder, Native
    <3>1. CASE i \in 1..Len(s)
      BY <2>2, <3>1 DEF StreamOf, InOrder
    <3>2. CASE i = Len(s) + 1
      <4>1. k = CASE Len(s) = 0 -> "application"
                  [] Len(s) = 1 -> "start" [] OTHER -> "output"
        BY <1>1, <1>9, NextInOrder DEF StreamOf
      <4> HIDE DEF k, s
      <4> QED BY <2>2, <3>2, <4>1
    <3> QED BY <2>2, <3>1, <3>2
  <2> QED BY <1>5, <1>6, <1>7, <2>3, <2>4 DEF StreamOf
<1> QED BY <1>8, <1>9
\* What the task puts into the channel goes behind what is there.
LEMMA PutAppends ==
    ASSUME TypeOK, NEW c \in Call, ~Gone(c), NEW m \in EventKind \cup {"finished"},
           Put(c, m)
    PROVE  /\ Len(channel'[c]) = Len(channel[c]) + 1 /\ Len(channel[c]) \in Nat
           /\ DOMAIN channel[c] = 1..Len(channel[c])
           /\ DOMAIN channel'[c] = 1..Len(channel[c]) + 1
           /\ channel'[c][Len(channel[c]) + 1] = m
           /\ \A i \in 1..Len(channel[c]) : channel'[c][i] = channel[c][i]
<1>1. channel[c] \in Seq(EventKind \cup {"finished"})
  BY DEF TypeOK
<1>2. channel'[c] = Append(channel[c], m)
  BY DEF Put, TypeOK
<1> QED BY <1>1, <1>2

\* An event that is sent is counted in the channel instead of at the sender.
LEMMA StreamSendEvent ==
    ASSUME TypeOK, TypeOK', Leases, Reports, NEW c \in Call, StreamOf(c), SendEvent(c)
    PROVE  StreamOf(c)'
<1>1. /\ task[c] = "sending" /\ task'[c] = "native" /\ pending[c] \in EventKind
      /\ Put(c, pending[c])
      /\ UNCHANGED <<signalVars, emitted, result, caller, engine, seen, delivered, outcome>>
  BY DEF SendEvent, TypeOK, Reports
<1>2. InOrder(c)' /\ SeenBefore(c)' /\ WholeIfOk(c)'
  BY <1>1 DEF StreamOf, InOrder, SeenBefore, WholeIfOk, signalVars, Native
<1>3. NothingYet(c)'
  BY <1>1 DEF NothingYet, Leases
<1>4. CASE Gone(c)
  <2>1. channel' = channel
    BY <1>1, <1>4 DEF Put
  <2>2. ResultIsLast(c)'
    BY <1>1, <2>1 DEF StreamOf, ResultIsLast
  <2>3. NothingLost(c)'
    BY <1>1, <1>4 DEF NothingLost, Gone
  <2> QED BY <1>2, <1>3, <2>2, <2>3 DEF StreamOf
<1>5. CASE ~Gone(c)
  <2> DEFINE n == Len(channel[c])
  <2>1. /\ Len(channel'[c]) = n + 1 /\ n \in Nat
        /\ DOMAIN channel[c] = 1..n /\ DOMAIN channel'[c] = 1..n + 1
        /\ channel'[c][n + 1] = pending[c]
        /\ \A i \in 1..n : channel'[c][i] = channel[c][i]
    BY <1>1, <1>5, PutAppends
  <2>2. ResultIsLast(c)'
    <3> SUFFICES ASSUME NEW i \in 1..n + 1 PROVE channel'[c][i] # "finished"
      BY <2>1 DEF ResultIsLast
    <3>1. CASE i \in 1..n
      BY <1>1, <2>1, <3>1 DEF StreamOf, ResultIsLast
    <3>2. CASE i = n + 1
      BY <1>1, <2>1, <3>2 DEF EventKind
    <3> QED BY <2>1, <3>1, <3>2
  <2>3. NothingLost(c)'
    <3>1. WasCancelled(c)' <=> WasCancelled(c)
      BY <1>1 DEF WasCancelled, signalVars
    <3>2. Len(delivered[c]) \in Int /\ emitted[c] \in Int
      BY IsolationAssumption DEF TypeOK
    <3>3. caller[c] = "waiting" /\ ~WasCancelled(c) =>
             Len(delivered[c]) + n + 1 = emitted[c]
      BY <1>1 DEF StreamOf, NothingLost
    <3>4. caller[c] = "waiting" /\ ~WasCancelled(c) =>
             Len(delivered[c]) + Len(channel'[c]) = emitted[c]
      <4>1. Len(delivered[c]) + (n + 1) = Len(delivered[c]) + n + 1
        <5> DEFINE d == Len(delivered[c])
        <5>1. n \in Int /\ d \in Int
          BY <2>1, <3>2
        <5> HIDE DEF n, d
        <5>2. d + (n + 1) = d + n + 1
          BY <5>1
        <5> QED BY <5>2 DEF d
      <4> QED BY <2>1, <3>3, <4>1
    <3> QED BY <1>1, <3>1, <3>4 DEF NothingLost
  <2> QED BY <1>2, <1>3, <2>2, <2>3 DEF StreamOf
<1> QED BY <1>4, <1>5

\* The result goes behind the events, and the call is over.
LEMMA StreamSendResult ==
    ASSUME TypeOK, TypeOK', Leases, Reports, NEW c \in Call, StreamOf(c), SendResult(c)
    PROVE  StreamOf(c)'
<1>1. /\ task[c] = "reporting" /\ task'[c] = "ended" /\ Put(c, "finished")
      /\ UNCHANGED <<signalVars, emitted, result, caller, engine, seen, delivered, outcome>>
  BY DEF SendResult, TypeOK
<1>2. InOrder(c)' /\ SeenBefore(c)' /\ WholeIfOk(c)'
  BY <1>1 DEF StreamOf, InOrder, SeenBefore, WholeIfOk, signalVars, Native
<1>3. NothingYet(c)'
  BY <1>1 DEF NothingYet, Leases
<1>4. CASE Gone(c)
  <2>1. channel' = channel
    BY <1>1, <1>4 DEF Put
  <2>2. ResultIsLast(c)'
    BY <1>1, <2>1 DEF StreamOf, ResultIsLast
  <2>3. NothingLost(c)'
    BY <1>1, <1>4 DEF NothingLost, Gone
  <2> QED BY <1>2, <1>3, <2>2, <2>3 DEF StreamOf
<1>5. CASE ~Gone(c)
  <2> DEFINE n == Len(channel[c])
  <2>1. /\ Len(channel'[c]) = n + 1 /\ n \in Nat
        /\ DOMAIN channel[c] = 1..n /\ DOMAIN channel'[c] = 1..n + 1
        /\ channel'[c][n + 1] = "finished"
        /\ \A i \in 1..n : channel'[c][i] = channel[c][i]
    BY <1>1, <1>5, PutAppends
  <2>2. ResultIsLast(c)'
    <3> SUFFICES ASSUME NEW i \in 1..n + 1, channel'[c][i] = "finished"
                 PROVE  i = n + 1
      BY <1>1, <2>1 DEF ResultIsLast
    <3>1. CASE i \in 1..n
      BY <1>1, <2>1, <3>1 DEF StreamOf, ResultIsLast
    <3> QED BY <2>1, <3>1
  <2>3. NothingLost(c)'
    <3>1. WasCancelled(c)' <=> WasCancelled(c)
      BY <1>1 DEF WasCancelled, signalVars
    <3>2. Len(delivered[c]) \in Int /\ emitted[c] \in Int
      BY IsolationAssumption DEF TypeOK
    <3>3. caller[c] = "waiting" /\ ~WasCancelled(c) =>
             Len(delivered[c]) + n = emitted[c]
      BY <1>1 DEF StreamOf, NothingLost
    <3>4. caller[c] = "waiting" /\ ~WasCancelled(c) =>
             Len(delivered[c]) + Len(channel'[c]) = emitted[c] + 1
      <4>1. Len(delivered[c]) + (n + 1) = Len(delivered[c]) + n + 1
        <5> DEFINE d == Len(delivered[c])
        <5>1. n \in Int /\ d \in Int
          BY <2>1, <3>2
        <5> HIDE DEF n, d
        <5>2. d + (n + 1) = d + n + 1
          BY <5>1
        <5> QED BY <5>2 DEF d
      <4> QED BY <2>1, <3>3, <4>1
    <3> QED BY <1>1, <3>1, <3>4 DEF NothingLost
  <2> QED BY <1>2, <1>3, <2>2, <2>3 DEF StreamOf
<1> QED BY <1>4, <1>5

\* The other steps of a task: an event is produced, or the call gets on without
\* one.
LEMMA StreamTask ==
    ASSUME TypeOK, TypeOK', Leases, NEW c \in Call, StreamOf(c),
           UNCHANGED <<signalVars, caller, engine, seen, channel, delivered, outcome>>,
           task[c] \in {"recovering", "native", "finished", "unwinding"},
           \/ task'[c] = "sending" /\ task[c] = "native" /\ emitted'[c] = emitted[c] + 1
           \/ /\ task'[c] \in {"native", "finished", "reporting", "unwinding", "panicked"}
              /\ emitted'[c] = emitted[c]
    PROVE  StreamOf(c)'
<1>1. caller[c] \notin {"idle", "acquiring", "leased"}
  BY DEF Leases
<1>2. InOrder(c)' /\ SeenBefore(c)' /\ NothingYet(c)'
  BY <1>1 DEF StreamOf, InOrder, SeenBefore, NothingYet, signalVars, Native
<1>3. ResultIsLast(c)' /\ WholeIfOk(c)'
  BY DEF StreamOf, ResultIsLast, WholeIfOk
<1>4. NothingLost(c)'
  <2>1. WasCancelled(c)' <=> WasCancelled(c)
    BY DEF WasCancelled, signalVars
  <2>2. Len(delivered[c]) \in Int /\ Len(channel[c]) \in Int /\ emitted[c] \in Int
    BY IsolationAssumption DEF TypeOK
  <2>3. caller[c] = "waiting" /\ ~WasCancelled(c) =>
           Len(delivered[c]) + Len(channel[c]) = emitted[c]
    BY DEF StreamOf, NothingLost
  <2>4. CASE task'[c] = "sending"
    BY <2>1, <2>2, <2>3, <2>4 DEF NothingLost
  <2>5. CASE task'[c] # "sending"
    BY <2>1, <2>3, <2>5 DEF NothingLost
  <2> QED BY <2>4, <2>5
<1> QED BY <1>2, <1>3, <1>4 DEF StreamOf
\* Every step keeps what holds of the stream of every call.
LEMMA StreamsStep ==
    ASSUME TypeOK, TypeOK', Leases, Reports, Streams, [Next]_isolationVars
    PROVE  Streams'
<1> SUFFICES ASSUME NEW x \in Call PROVE StreamOf(x)'
  BY DEF Streams
<1>0. StreamOf(x)
  BY DEF Streams
<1>1. CASE Interrupt
  <2>1. SignalsAdvance /\ CallOf(x)' = CallOf(x)
    BY <1>1 DEF Interrupt, SignalsAdvance, CallOf, taskVars, TypeOK
  <2> QED BY <1>0, <2>1, StreamFrame
<1>2. ASSUME NEW e \in Engine, Stop(e) PROVE StreamOf(x)'
  <2>1. SignalsAdvance /\ CallOf(x)' = CallOf(x)
    BY SMTT(60), <1>2 DEF Stop, SignalsAdvance, CallOf, taskVars, TypeOK
  <2> QED BY <1>0, <2>1, StreamFrame
<1>3. ASSUME NEW e \in Engine, PrepareRecoveryProbe(e) PROVE StreamOf(x)'
  <2>1. SignalsAdvance /\ CallOf(x)' = CallOf(x)
    BY <1>3 DEF PrepareRecoveryProbe, SignalsAdvance, CallOf, taskVars, signalVars, TypeOK
  <2> QED BY <1>0, <2>1, StreamFrame
<1>4. ASSUME NEW c \in Call, CancelRequest(c) PROVE StreamOf(x)'
  <2>1. SignalsAdvance /\ CallOf(x)' = CallOf(x)
    BY <1>4 DEF CancelRequest, SignalsAdvance, CallOf, taskVars, TypeOK
  <2> QED BY <1>0, <2>1, StreamFrame
<1>5. ASSUME NEW c \in Call, NEW e \in Engine, Begin(c, e) PROVE StreamOf(x)'
  <2>1. SignalsAdvance
    BY <1>5 DEF Begin, SignalsAdvance, signalVars, TypeOK
  <2>2. CASE x # c
    <3>1. CallOf(x)' = CallOf(x)
      BY <1>5, <2>2 DEF Begin, CallOf, taskVars, TypeOK
    <3> QED BY <1>0, <2>1, <3>1, StreamFrame
  <2>3. CASE x = c
    <3>1. /\ caller'[x] = "acquiring" /\ seen'[x] = <<generation, stop_epoch[e]>>
          /\ engine'[x] = e /\ caller[x] = "idle"
      BY <1>5, <2>3 DEF Begin, TypeOK
    <3>2. SeenBefore(x)'
      BY <1>5, <3>1 DEF SeenBefore, Begin, signalVars, TypeOK
    <3>3. NothingYet(x)' /\ NothingLost(x)' /\ InOrder(x)'
      BY <1>0, <1>5, <3>1 DEF Begin, StreamOf, NothingYet, NothingLost, InOrder, Native,
         taskVars
    <3>4. ResultIsLast(x)' /\ WholeIfOk(x)'
      BY <1>0, <1>5, <3>1 DEF Begin, StreamOf, ResultIsLast, WholeIfOk, Gone, taskVars
    <3> QED BY <3>2, <3>3, <3>4 DEF StreamOf
  <2> QED BY <2>2, <2>3
<1>6. ASSUME NEW c \in Call, Acquire(c) PROVE StreamOf(x)'
  <2>1. SignalsAdvance
    BY <1>6 DEF Acquire, SignalsAdvance, signalVars, TypeOK
  <2>2. CASE x # c
    <3>1. CallOf(x)' = CallOf(x)
      BY <1>6, <2>2 DEF Acquire, CallOf, taskVars, TypeOK
    <3> QED BY <1>0, <2>1, <3>1, StreamFrame
  <2>3. CASE x = c
    <3>1. caller'[x] = "leased" /\ caller[x] = "acquiring"
      BY <1>6, <2>3 DEF Acquire, TypeOK
    <3> QED BY <1>0, <1>6, <3>1
            DEF Acquire, StreamOf, InOrder, SeenBefore, NothingYet, ResultIsLast,
                NothingLost, WholeIfOk, Gone, Native, taskVars, signalVars
  <2> QED BY <2>2, <2>3
<1>7. ASSUME NEW c \in Call, GiveUp(c) PROVE StreamOf(x)'
  <2>1. SignalsAdvance
    BY <1>7 DEF GiveUp, SignalsAdvance, signalVars, TypeOK
  <2>2. CASE x # c
    <3>1. CallOf(x)' = CallOf(x)
      BY <1>7, <2>2 DEF GiveUp, Return, CallOf, taskVars, TypeOK
    <3> QED BY <1>0, <2>1, <3>1, StreamFrame
  <2>3. CASE x = c
    BY <1>0, <1>7, <2>3, StreamReturn DEF GiveUp
  <2> QED BY <2>2, <2>3
<1>8. ASSUME NEW c \in Call, LeaveUnused(c) PROVE StreamOf(x)'
  <2>1. SignalsAdvance
    BY <1>8 DEF LeaveUnused, SignalsAdvance, signalVars, TypeOK
  <2>2. CASE x # c
    <3>1. CallOf(x)' = CallOf(x)
      BY <1>8, <2>2 DEF LeaveUnused, Return, CallOf, taskVars, TypeOK
    <3> QED BY <1>0, <2>1, <3>1, StreamFrame
  <2>3. CASE x = c
    BY <1>0, <1>8, <2>3, StreamReturn DEF LeaveUnused
  <2> QED BY <2>2, <2>3
<1>9. ASSUME NEW c \in Call, Spawn(c) PROVE StreamOf(x)'
  <2>1. SignalsAdvance
    BY <1>9 DEF Spawn, SignalsAdvance, signalVars, TypeOK
  <2>2. CASE x # c
    <3>1. CallOf(x)' = CallOf(x)
      BY <1>9, <2>2 DEF Spawn, CallOf, TypeOK
    <3> QED BY <1>0, <2>1, <3>1, StreamFrame
  <2>3. CASE x = c
    <3>1. /\ caller'[x] = "waiting" /\ caller[x] = "leased"
          /\ task'[x] \in {"recovering", "native"} /\ task[x] = "none"
      BY <1>9, <2>3 DEF Spawn, Leases, TypeOK
    <3>2. emitted[x] = 0 /\ channel[x] = <<>> /\ delivered[x] = <<>>
      BY <1>0, <3>1 DEF StreamOf, NothingYet
    <3>3. NothingLost(x)' /\ ResultIsLast(x)'
      BY <1>9, <3>1, <3>2 DEF Spawn, NothingLost, ResultIsLast
    <3>4. InOrder(x)' /\ SeenBefore(x)' /\ NothingYet(x)' /\ WholeIfOk(x)'
      BY <1>0, <1>9, <3>1 DEF Spawn, StreamOf, InOrder, SeenBefore, NothingYet, WholeIfOk,
         Gone, Native, signalVars
    <3> QED BY <3>3, <3>4 DEF StreamOf
  <2> QED BY <2>2, <2>3
<1>10. ASSUME NEW c \in Call, SpawnFails(c) PROVE StreamOf(x)'
  <2>1. SignalsAdvance
    BY <1>10 DEF SpawnFails, SignalsAdvance, signalVars, TypeOK
  <2>2. CASE x # c
    <3>1. CallOf(x)' = CallOf(x)
      BY <1>10, <2>2 DEF SpawnFails, Return, CallOf, taskVars, TypeOK
    <3> QED BY <1>0, <2>1, <3>1, StreamFrame
  <2>3. CASE x = c
    BY <1>0, <1>10, <2>3, StreamReturn DEF SpawnFails
  <2> QED BY <2>2, <2>3
<1>11. ASSUME NEW c \in Call, StartGrace(c) PROVE StreamOf(x)'
  <2>1. SignalsAdvance /\ CallOf(x)' = CallOf(x)
    BY <1>11 DEF StartGrace, SignalsAdvance, CallOf, taskVars, signalVars, TypeOK
  <2> QED BY <1>0, <2>1, StreamFrame
<1>12. ASSUME NEW c \in Call, Quarantine(c) PROVE StreamOf(x)'
  <2>1. SignalsAdvance
    BY <1>12 DEF Quarantine, SignalsAdvance, signalVars, TypeOK
  <2>2. CASE x # c
    <3>1. CallOf(x)' = CallOf(x)
      BY <1>12, <2>2 DEF Quarantine, Return, CallOf, taskVars, TypeOK
    <3> QED BY <1>0, <2>1, <3>1, StreamFrame
  <2>3. CASE x = c
    BY <1>0, <1>12, <2>3, StreamReturn DEF Quarantine
  <2> QED BY <2>2, <2>3
<1>13. ASSUME NEW c \in Call, ReceiveFinished(c) PROVE StreamOf(x)'
  <2>1. SignalsAdvance
    BY <1>13 DEF ReceiveFinished, SignalsAdvance, signalVars, TypeOK
  <2>2. CASE x # c
    <3>1. CallOf(x)' = CallOf(x)
      BY <1>13, <2>2 DEF ReceiveFinished, Return, CallOf, taskVars, TypeOK
    <3> QED BY <1>0, <2>1, <3>1, StreamFrame
  <2>3. CASE x = c
    BY <1>0, <1>13, <2>3, StreamFinished
  <2> QED BY <2>2, <2>3
<1>14. ASSUME NEW c \in Call, ReceiveDisconnected(c) PROVE StreamOf(x)'
  <2>1. SignalsAdvance
    BY <1>14 DEF ReceiveDisconnected, SignalsAdvance, signalVars, TypeOK
  <2>2. CASE x # c
    <3>1. CallOf(x)' = CallOf(x)
      BY <1>14, <2>2 DEF ReceiveDisconnected, Return, CallOf, taskVars, TypeOK
    <3> QED BY <1>0, <2>1, <3>1, StreamFrame
  <2>3. CASE x = c
    BY <1>0, <1>14, <2>3, StreamReturn DEF ReceiveDisconnected
  <2> QED BY <2>2, <2>3
<1>15. ASSUME NEW c \in Call, ReceiveEvent(c) PROVE StreamOf(x)'
  <2>1. SignalsAdvance
    BY <1>15 DEF ReceiveEvent, SignalsAdvance, signalVars, TypeOK
  <2>2. CASE x # c
    <3>1. CallOf(x)' = CallOf(x)
      BY <1>15, <2>2 DEF ReceiveEvent, CallOf, taskVars, TypeOK
    <3> QED BY <1>0, <2>1, <3>1, StreamFrame
  <2>3. CASE x = c
    BY <1>0, <1>15, <2>3, StreamReceive
  <2> QED BY <2>2, <2>3
<1>16. ASSUME NEW c \in Call, RefuseEvent(c) PROVE StreamOf(x)'
  <2>1. SignalsAdvance
    BY <1>16 DEF RefuseEvent, SignalsAdvance, signalVars, TypeOK
  <2>2. CASE x # c
    <3>1. CallOf(x)' = CallOf(x)
      BY <1>16, <2>2 DEF RefuseEvent, Return, CallOf, taskVars, TypeOK
    <3> QED BY <1>0, <2>1, <3>1, StreamFrame
  <2>3. CASE x = c
    BY <1>0, <1>16, <2>3, StreamReturn DEF RefuseEvent
  <2> QED BY <2>2, <2>3
<1>17. ASSUME NEW c \in Call, NEW ok \in BOOLEAN, Reconnect(c, ok) PROVE StreamOf(x)'
  <2>1. SignalsAdvance
    BY <1>17 DEF Reconnect, SignalsAdvance, signalVars, TypeOK
  <2>2. CASE x # c
    <3>1. CallOf(x)' = CallOf(x)
      BY <1>17, <2>2 DEF Reconnect, CallOf, TypeOK
    <3> QED BY <1>0, <2>1, <3>1, StreamFrame
  <2>3. CASE x = c
    <3>1. /\ task[x] = "recovering" /\ task'[x] \in {"native", "finished"}
          /\ UNCHANGED <<signalVars, emitted, caller, engine, seen, channel, delivered,
                         outcome>>
      BY <1>17, <2>3 DEF Reconnect, TypeOK
    <3> QED BY <1>0, <3>1, StreamTask
  <2> QED BY <2>2, <2>3
<1>18. ASSUME NEW c \in Call, NEW k \in EventKind, Emit(c, k) PROVE StreamOf(x)'
  <2>1. SignalsAdvance
    BY <1>18 DEF Emit, SignalsAdvance, signalVars, TypeOK
  <2>2. CASE x # c
    <3>1. CallOf(x)' = CallOf(x)
      BY <1>18, <2>2 DEF Emit, CallOf, TypeOK
    <3> QED BY <1>0, <2>1, <3>1, StreamFrame
  <2>3. CASE x = c
    <3>1. /\ task[x] = "native" /\ task'[x] = "sending" /\ emitted'[x] = emitted[x] + 1
          /\ UNCHANGED <<signalVars, caller, engine, seen, channel, delivered, outcome>>
      BY <1>18, <2>3 DEF Emit, TypeOK
    <3> QED BY <1>0, <3>1, StreamTask
  <2> QED BY <2>2, <2>3
<1>19. ASSUME NEW c \in Call, SendEvent(c) PROVE StreamOf(x)'
  <2>1. SignalsAdvance
    BY SMTT(60), <1>19 DEF SendEvent, SignalsAdvance, signalVars, TypeOK
  <2>2. CASE x # c
    <3>1. CallOf(x)' = CallOf(x)
      BY <1>19, <2>2 DEF SendEvent, Put, CallOf, TypeOK
    <3> QED BY <1>0, <2>1, <3>1, StreamFrame
  <2>3. CASE x = c
    BY <1>0, <1>19, <2>3, StreamSendEvent
  <2> QED BY <2>2, <2>3
<1>20. ASSUME NEW c \in Call, NEW r \in NativeResult, NativeReturns(c, r)
       PROVE StreamOf(x)'
  <2>1. SignalsAdvance
    BY <1>20 DEF NativeReturns, SignalsAdvance, signalVars, TypeOK
  <2>2. CASE x # c
    <3>1. CallOf(x)' = CallOf(x)
      BY <1>20, <2>2 DEF NativeReturns, CallOf, TypeOK
    <3> QED BY <1>0, <2>1, <3>1, StreamFrame
  <2>3. CASE x = c
    <3>1. /\ task[x] = "native" /\ task'[x] = "finished"
          /\ UNCHANGED <<signalVars, emitted, caller, engine, seen, channel, delivered,
                         outcome>>
      BY <1>20, <2>3 DEF NativeReturns, TypeOK
    <3> QED BY <1>0, <3>1, StreamTask
  <2> QED BY <2>2, <2>3
<1>21. ASSUME NEW c \in Call, Panic(c) PROVE StreamOf(x)'
  <2>1. SignalsAdvance
    BY <1>21 DEF Panic, SignalsAdvance, signalVars, TypeOK
  <2>2. CASE x # c
    <3>1. CallOf(x)' = CallOf(x)
      BY <1>21, <2>2 DEF Panic, CallOf, TypeOK
    <3> QED BY <1>0, <2>1, <3>1, StreamFrame
  <2>3. CASE x = c
    <3>1. /\ task[x] = "native" /\ task'[x] = "unwinding"
          /\ UNCHANGED <<signalVars, emitted, caller, engine, seen, channel, delivered,
                         outcome>>
      BY <1>21, <2>3 DEF Panic, TypeOK
    <3> QED BY <1>0, <3>1, StreamTask
  <2> QED BY <2>2, <2>3
<1>25. ASSUME NEW c \in Call, Unwind(c) PROVE StreamOf(x)'
  <2>1. SignalsAdvance
    BY <1>25 DEF Unwind, SignalsAdvance, signalVars, TypeOK
  <2>2. CASE x # c
    <3>1. CallOf(x)' = CallOf(x)
      BY <1>25, <2>2 DEF Unwind, CallOf, TypeOK
    <3> QED BY <1>0, <2>1, <3>1, StreamFrame
  <2>3. CASE x = c
    <3>1. /\ task[x] = "unwinding" /\ task'[x] = "panicked"
          /\ UNCHANGED <<signalVars, emitted, caller, engine, seen, channel, delivered,
                         outcome>>
      BY <1>25, <2>3 DEF Unwind, TypeOK
    <3> QED BY <1>0, <3>1, StreamTask
  <2> QED BY <2>2, <2>3
<1>22. ASSUME NEW c \in Call, DropTaskLease(c) PROVE StreamOf(x)'
  <2>1. SignalsAdvance
    BY <1>22 DEF DropTaskLease, SignalsAdvance, signalVars, TypeOK
  <2>2. CASE x # c
    <3>1. CallOf(x)' = CallOf(x)
      BY <1>22, <2>2 DEF DropTaskLease, CallOf, TypeOK
    <3> QED BY <1>0, <2>1, <3>1, StreamFrame
  <2>3. CASE x = c
    <3>1. /\ task[x] = "finished" /\ task'[x] = "reporting"
          /\ UNCHANGED <<signalVars, emitted, caller, engine, seen, channel, delivered,
                         outcome>>
      BY <1>22, <2>3 DEF DropTaskLease, TypeOK
    <3> QED BY <1>0, <3>1, StreamTask
  <2> QED BY <2>2, <2>3
<1>23. ASSUME NEW c \in Call, SendResult(c) PROVE StreamOf(x)'
  <2>1. SignalsAdvance
    BY <1>23 DEF SendResult, SignalsAdvance, signalVars, TypeOK
  <2>2. CASE x # c
    <3>1. CallOf(x)' = CallOf(x)
      BY <1>23, <2>2 DEF SendResult, Put, CallOf, TypeOK
    <3> QED BY <1>0, <2>1, <3>1, StreamFrame
  <2>3. CASE x = c
    BY <1>0, <1>23, <2>3, StreamSendResult
  <2> QED BY <2>2, <2>3
<1>24. CASE UNCHANGED isolationVars
  <2>1. SignalsAdvance /\ CallOf(x)' = CallOf(x)
    BY <1>24 DEF isolationVars, SignalsAdvance, CallOf, taskVars, signalVars, TypeOK
  <2> QED BY <1>0, <2>1, StreamFrame
<1> QED
  BY <1>1, <1>2, <1>3, <1>4, <1>5, <1>6, <1>7, <1>8, <1>9, <1>10, <1>11,
     <1>12, <1>13, <1>14, <1>15, <1>16, <1>17, <1>18, <1>19, <1>20, <1>21,
     <1>22, <1>23, <1>24, <1>25 DEF Next, CallerStep, TaskStep, Terminated

\* The sink of a request with native parameters sees the receipt, then the start,
\* then output, and a call that is returned as it ended has lost no event on its
\* way to the sink: for every engine, capacity and length of stream.
THEOREM IsolationSinkSeesWholeStream == Spec => []SinkSeesWholeStream
<1>1. IsolationInit => Streams
  BY DEF IsolationInit, Streams, StreamOf, InOrder, SeenBefore, NothingYet, ResultIsLast,
         NothingLost, WholeIfOk
<1>2. IInv /\ IInv' /\ Streams /\ [Next]_isolationVars => Streams'
  BY StreamsStep DEF IInv
<1>3. Streams => SinkSeesWholeStream
  BY DEF Streams, StreamOf, InOrder, WholeIfOk, SinkSeesWholeStream
<1> QED BY <1>1, <1>2, <1>3, InvAlways, PTL DEF Spec
=============================================================================

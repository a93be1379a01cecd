-------------------------- MODULE SupervisionProofs --------------------------
(***************************************************************************)
(* The supervising threads, for any numbers of connections, engines,       *)
(* callers and notifications: remote sessions, the initialisation of       *)
(* helpers, the output that follows the default device, PulseAudio's       *)
(* lanes, the source that is played while it is synthesised, and the       *)
(* reports of what was played.                                             *)
(***************************************************************************)
EXTENDS MCSupervision, FiniteSetTheorems, TLAPS

----------------------------------------------------------
(* Remote sessions: the inductive invariant *)

\* Connection threads that have a lane, those that have its snapshot, and those
\* that may have a worker's process tree.
LaneOwner == {"startup", "spawn", "starting", "serve", "drop", "join"}
SnapshotOwner == LaneOwner \ {"startup"}
TreeOwner == {"starting", "serve", "drop"}

Snapshots == (SessionId \cup {NoSession}) \X Nat

ConnType == [pc : {"closed", "hello"} \cup LaneOwner, lane : Lanes, snapshot : Snapshots]
LinkType == [worker : {"none", "booting", "running", "exited", "dead"},
             chan : Nat, tx : BOOLEAN,
             writer : {"none", "waiting", "writing", "ended"},
             output : {"none", "reading", "writing", "ended"},
             open : BOOLEAN]
SessionType == [id : SessionId \cup {NoSession}, lanes : SUBSET Lanes, startup : Snapshots]

RemoteTypeOK ==
    /\ broker \in {"listening", "joining", "ended"} /\ stopFlag \in BOOLEAN
    /\ session \in SessionType
    /\ conn \in [Conn -> ConnType]
    /\ link \in [Conn -> LinkType]
    /\ done \subseteq Conn

\* A lane has one connection, and the session knows it.
LanesAreOwned ==
    /\ \A c \in Conn : conn[c].pc \in LaneOwner => conn[c].lane \in session.lanes
    /\ \A c, d \in Conn :
          c # d /\ conn[c].pc \in LaneOwner /\ conn[d].pc \in LaneOwner
              => conn[c].lane # conn[d].lane

\* The startup was captured by the session that is open, and each connection
\* beyond its capture has it.
StartupIsShared ==
    /\ session.lanes # {} => session.id # NoSession
    /\ session.startup # NoSnapshot => session.startup[1] = session.id
    /\ \A c \in Conn : conn[c].pc \in SnapshotOwner =>
          session.startup # NoSnapshot /\ conn[c].snapshot = session.startup

\* A process tree ends before its connection gives up the lane.
TreesAreOwned == \A c \in Conn : HasTree(c) => conn[c].pc \in TreeOwner

RemoteInv == RemoteTypeOK /\ LanesAreOwned /\ StartupIsShared /\ TreesAreOwned

\* A capture gets a number nobody holds: there are fewer connections than numbers.
LEMMA FreshCaptureTyped ==
    ASSUME RemoteTypeOK
    PROVE  FreshCapture \in Snapshots /\ FreshCapture[1] = session.id
<1> DEFINE S == 1 .. (Cardinality(Conn) + 1)
           Held(n) == \E c \in Conn : conn[c].snapshot[2] = n
<1>1. Cardinality(Conn) \in Nat /\ IsFiniteSet(Conn)
  BY RemoteAssumption, FS_CardinalityType
<1>2. IsFiniteSet(S) /\ Cardinality(S) = Cardinality(Conn) + 1
  BY <1>1, FS_Interval
<1>3. \E n \in S : ~Held(n)
  <2>1. SUFFICES ASSUME \A n \in S : Held(n) PROVE FALSE
    OBVIOUS
  <2> DEFINE f == [n \in S |-> CHOOSE c \in Conn : conn[c].snapshot[2] = n]
  <2>2. \A n \in S : f[n] \in Conn /\ conn[f[n]].snapshot[2] = n
    BY <2>1
  <2>3. f \in [S -> Conn]
    BY <2>2
  <2> HIDE DEF f, S
  <2>4. PICK x \in S, y \in S : x # y /\ f[x] = f[y]
    BY <1>1, <1>2, <2>3, FS_PigeonHole
  <2> QED BY <2>2, <2>4
<1> DEFINE m == CHOOSE n \in S : \A c \in Conn : conn[c].snapshot[2] # n
<1>4. m \in S
  BY <1>3
<1>5. FreshCapture = <<session.id, m>>
  BY DEF FreshCapture
<1>6. m \in Nat
  BY <1>1, <1>4
<1> HIDE DEF m
<1>7. session.id \in SessionId \cup {NoSession}
  BY DEF RemoteTypeOK, SessionType
<1> QED BY <1>5, <1>6, <1>7 DEF Snapshots

----------------------------------------------------------
(* Remote sessions: types *)

\* What the steps of a connection write is a connection, a link and a session.
LEMMA RemoteWrites ==
    ASSUME RemoteTypeOK, NEW c \in Conn
    PROVE  /\ \A r \in ConnType : [conn EXCEPT ![c] = r] \in [Conn -> ConnType]
           /\ \A r \in LinkType : [link EXCEPT ![c] = r] \in [Conn -> LinkType]
           /\ \A pc \in {"closed", "hello"} \cup LaneOwner :
                 [conn EXCEPT ![c].pc = pc] \in [Conn -> ConnType]
           /\ Closed \in ConnType /\ NoLink \in LinkType
           /\ [session EXCEPT !.lanes = session.lanes \ {conn[c].lane}] \in SessionType
<1> USE DEF RemoteTypeOK
<1>1. \A r \in ConnType : [conn EXCEPT ![c] = r] \in [Conn -> ConnType]
  OBVIOUS
<1>2. \A r \in LinkType : [link EXCEPT ![c] = r] \in [Conn -> LinkType]
  OBVIOUS
<1>3. \A pc \in {"closed", "hello"} \cup LaneOwner : [conn[c] EXCEPT !.pc = pc] \in ConnType
  BY DEF ConnType
<1>4. \A pc \in {"closed", "hello"} \cup LaneOwner :
          [conn EXCEPT ![c].pc = pc] \in [Conn -> ConnType]
  BY <1>3
<1>5. Closed \in ConnType
  BY DEF Closed, ConnType, NoSnapshot, Snapshots, Lanes
<1>6. NoLink \in LinkType
  BY DEF NoLink, LinkType
<1>7. session.lanes \ {conn[c].lane} \in SUBSET Lanes
  BY DEF SessionType
<1>8. [session EXCEPT !.lanes = session.lanes \ {conn[c].lane}] \in SessionType
  BY <1>7 DEF SessionType
<1> QED BY <1>1, <1>2, <1>4, <1>5, <1>6, <1>8

LEMMA CloseTyped ==
    ASSUME RemoteTypeOK, NEW c \in Conn, Close(c)
    PROVE  conn' \in [Conn -> ConnType] /\ link' \in [Conn -> LinkType] /\ done' \subseteq Conn
BY RemoteWrites DEF Close, RemoteTypeOK

LEMMA FreeLaneTyped ==
    ASSUME RemoteTypeOK, NEW c \in Conn, FreeLane(c)
    PROVE  /\ conn' \in [Conn -> ConnType] /\ link' \in [Conn -> LinkType]
           /\ done' \subseteq Conn /\ session' \in SessionType
BY CloseTyped, RemoteWrites DEF FreeLane

\* The connection thread.
LEMMA ConnectionTyped ==
    ASSUME RemoteTypeOK, NEW c \in Conn,
           \/ Accept(c) \/ ConnectionStep(c) \/ Forward(c) \/ LosePeer(c)
           \/ \E id \in SessionId, lane \in Lanes : Hello(c, id, lane)
    PROVE  RemoteTypeOK'
<1>a. \A pc \in {"hello", "spawn", "starting", "serve", "drop", "join"} :
          [conn EXCEPT ![c].pc = pc] \in [Conn -> ConnType]
  BY RemoteWrites DEF LaneOwner
<1>b. \A r \in LinkType : [link EXCEPT ![c] = r] \in [Conn -> LinkType]
  BY RemoteWrites
<1>c. conn \in [Conn -> ConnType] /\ link[c] \in LinkType /\ link[c].chan + 1 \in Nat
  BY DEF RemoteTypeOK, LinkType
<1>d. /\ [link[c] EXCEPT !.open = TRUE] \in LinkType
      /\ [link[c] EXCEPT !.worker = "booting"] \in LinkType
      /\ [link[c] EXCEPT !.writer = "waiting", !.output = "reading", !.tx = TRUE] \in LinkType
      /\ [link[c] EXCEPT !.open = FALSE, !.tx = FALSE] \in LinkType
      /\ [link[c] EXCEPT !.worker = "dead"] \in LinkType
      /\ [link[c] EXCEPT !.chan = link[c].chan + 1] \in LinkType
  BY <1>c DEF LinkType
<1>1. CASE Accept(c)
  BY <1>1, <1>a, <1>b, <1>d DEF Accept, Goto, RemoteTypeOK
<1>2. CASE Startup(c)
  <2>1. CASE FreeLane(c) /\ UNCHANGED <<broker, stopFlag>>
    BY <2>1, FreeLaneTyped DEF RemoteTypeOK
  <2>2. CASE ~FreeLane(c)
    <3> DEFINE s == IF session.startup = NoSnapshot THEN FreshCapture ELSE session.startup
    <3>1. s \in Snapshots
      BY FreshCaptureTyped DEF RemoteTypeOK, SessionType
    <3>2. /\ session' = [session EXCEPT !.startup = s]
          /\ conn' = [conn EXCEPT ![c] = [conn[c] EXCEPT !.pc = "spawn", !.snapshot = s]]
          /\ UNCHANGED <<broker, stopFlag, link, done>>
      BY <1>2, <2>2 DEF Startup
    <3> HIDE DEF s
    <3>3. session' \in SessionType
      BY <3>1, <3>2 DEF RemoteTypeOK, SessionType
    <3>4. [conn[c] EXCEPT !.pc = "spawn", !.snapshot = s] \in ConnType
      BY <1>c, <3>1 DEF ConnType, LaneOwner
    <3> QED BY <3>2, <3>3, <3>4, RemoteWrites DEF RemoteTypeOK
  <2> QED BY <1>2, <2>1, <2>2 DEF Startup
<1>3. CASE StartWorker(c)
  <2>1. CASE FreeLane(c)
    BY <1>3, <2>1, FreeLaneTyped DEF StartWorker, RemoteTypeOK
  <2>2. CASE ~FreeLane(c)
    BY <1>3, <2>2, <1>a, <1>b, <1>d DEF StartWorker, Goto, RemoteTypeOK
  <2> QED BY <2>1, <2>2
<1>4. CASE Ready(c)
  BY ZenonT(60), <1>4, <1>a, <1>b, <1>d DEF Ready, Goto, RemoteTypeOK
<1>5. CASE RejectHello(c)
  BY <1>5, CloseTyped DEF RejectHello, RemoteTypeOK
<1>6. CASE LeaveLoop(c) \/ LosePeer(c)
  BY ZenonT(60), <1>6, <1>a, <1>b, <1>d DEF LeaveLoop, LosePeer, RetireSession, Goto, RemoteTypeOK
<1>7. CASE DropWorker(c)
  BY <1>7, <1>a, <1>b, <1>d DEF DropWorker, Goto, RemoteTypeOK
<1>8. CASE JoinThreads(c)
  BY <1>8, FreeLaneTyped DEF JoinThreads, RemoteTypeOK
<1>9. CASE Forward(c)
  BY <1>9, <1>b, <1>d DEF Forward, RemoteTypeOK
<1>10. CASE \E id \in SessionId, lane \in Lanes : Hello(c, id, lane)
  <2>1. PICK id \in SessionId, lane \in Lanes : Hello(c, id, lane)
    BY <1>10
  <2>2. CASE CanReserve(id, lane)
    <3> DEFINE r == [conn[c] EXCEPT !.pc = "startup", !.lane = lane]
    <3>1. r \in ConnType
      BY <1>c DEF ConnType, LaneOwner
    <3>2. session.lanes \cup {lane} \in SUBSET Lanes
      BY DEF RemoteTypeOK, SessionType
    <3>3. NoSnapshot \in Snapshots /\ session.startup \in Snapshots
      BY DEF RemoteTypeOK, SessionType, NoSnapshot, Snapshots
    <3>4. Reserve(id, lane) \in SessionType
      BY <3>2, <3>3 DEF Reserve, SessionType
    <3>5. conn' = [conn EXCEPT ![c] = r] /\ session' = Reserve(id, lane)
          /\ UNCHANGED <<broker, stopFlag, link, done>>
      BY <2>1, <2>2 DEF Hello
    <3> HIDE DEF r
    <3> QED BY <3>1, <3>4, <3>5, RemoteWrites DEF RemoteTypeOK
  <2>3. CASE ~CanReserve(id, lane)
    BY <2>1, <2>3, CloseTyped DEF Hello, RemoteTypeOK
  <2> QED BY <2>2, <2>3
<1> QED BY <1>1, <1>2, <1>3, <1>4, <1>5, <1>6, <1>7, <1>8, <1>9, <1>10 DEF ConnectionStep

\* The broker, the threads and the worker process.
LEMMA OthersTyped ==
    ASSUME RemoteTypeOK,
           \/ Stop \/ BrokerEnds
           \/ \E c \in Conn : ThreadStep(c) \/ WorkerProcess(c)
    PROVE  RemoteTypeOK'
<1>1. CASE Stop \/ BrokerEnds
  BY <1>1 DEF Stop, BrokerEnds, RemoteTypeOK
<1>2. CASE \E c \in Conn : ThreadStep(c) \/ WorkerProcess(c)
  <2>1. PICK c \in Conn : ThreadStep(c) \/ WorkerProcess(c)
    BY <1>2
  <2>2. \A r \in LinkType : [link EXCEPT ![c] = r] \in [Conn -> LinkType]
    BY RemoteWrites
  <2>3. link[c] \in LinkType
    BY DEF RemoteTypeOK
  <2>4. /\ \A w \in {"running", "exited"} : [link[c] EXCEPT !.worker = w] \in LinkType
        /\ \A w \in {"waiting", "ended"} : [link[c] EXCEPT !.writer = w] \in LinkType
        /\ \A o \in {"reading", "writing", "ended"} :
              [link[c] EXCEPT !.output = o] \in LinkType
        /\ \A n \in Nat : [link[c] EXCEPT !.chan = n, !.writer = "writing"] \in LinkType
    BY <2>3 DEF LinkType
  <2>8. link[c].chan > 0 => link[c].chan - 1 \in Nat
    <3>1. link[c].chan \in Nat
      BY <2>3 DEF LinkType
    <3> QED BY <3>1
  <2>5. CASE Writer(c)
    BY <2>2, <2>4, <2>5, <2>8 DEF Writer, EndThread, RemoteTypeOK
  <2>6. CASE Output(c)
    BY <2>2, <2>4, <2>6 DEF Output, EndThread, RemoteTypeOK
  <2>7. CASE WorkerProcess(c)
    <3>1. \/ \E w \in {"running", "exited"} : link' = [link EXCEPT ![c].worker = w]
          \/ link' = [link EXCEPT ![c].writer = "waiting"]
          \/ link' = [link EXCEPT ![c].output = "writing"]
      BY <2>7 DEF WorkerProcess
    <3>2. link' \in [Conn -> LinkType]
      BY <2>2, <2>4, <3>1
    <3> QED BY <2>7, <3>2 DEF WorkerProcess, RemoteTypeOK
  <2> QED BY <2>1, <2>5, <2>6, <2>7 DEF ThreadStep
<1> QED BY <1>1, <1>2
----------------------------------------------------------
(* Remote sessions: lanes, startups and process trees *)

\* A step of one connection that leaves the session alone, takes nothing that the
\* connection did not have, and ends its tree before the lane is given up.
LEMMA ConnectionMoves ==
    ASSUME RemoteInv, RemoteTypeOK', session' = session, NEW c \in Conn,
           \A d \in Conn : d # c => conn'[d] = conn[d] /\ (HasTree(d)' => HasTree(d)),
           conn'[c].pc \in LaneOwner =>
               conn[c].pc \in LaneOwner /\ conn'[c].lane = conn[c].lane,
           conn'[c].pc \in SnapshotOwner =>
               conn[c].pc \in SnapshotOwner /\ conn'[c].snapshot = conn[c].snapshot,
           HasTree(c)' => conn'[c].pc \in TreeOwner
    PROVE  RemoteInv'
<1>1. LanesAreOwned'
  BY DEF RemoteInv, LanesAreOwned
<1>2. StartupIsShared'
  BY DEF RemoteInv, StartupIsShared
<1>3. TreesAreOwned'
  BY DEF RemoteInv, TreesAreOwned
<1> QED BY <1>1, <1>2, <1>3 DEF RemoteInv

\* The step in which a connection ends and gives its lane back.
LEMMA LaneIsFreed ==
    ASSUME RemoteInv, RemoteTypeOK', NEW c \in Conn, FreeLane(c),
           conn[c].pc \in LaneOwner
    PROVE  RemoteInv'
<1>1. /\ conn' = [conn EXCEPT ![c] = Closed] /\ link' = [link EXCEPT ![c] = NoLink]
      /\ session' = [session EXCEPT !.lanes = session.lanes \ {conn[c].lane}]
  BY DEF FreeLane, Close
<1>2. /\ conn \in [Conn -> ConnType] /\ link \in [Conn -> LinkType] /\ session \in SessionType
  BY DEF RemoteInv, RemoteTypeOK
<1>3. /\ conn'[c].pc = "closed" /\ ~HasTree(c)'
      /\ \A d \in Conn : d # c => conn'[d] = conn[d] /\ (HasTree(d)' => HasTree(d))
      /\ session'.lanes = session.lanes \ {conn[c].lane}
      /\ session'.id = session.id /\ session'.startup = session.startup
  BY <1>1, <1>2 DEF Closed, NoLink, HasTree, SessionType
<1>4. LanesAreOwned'
  BY <1>3 DEF RemoteInv, LanesAreOwned, LaneOwner
<1>5. StartupIsShared'
  BY <1>3 DEF RemoteInv, StartupIsShared, SnapshotOwner, LaneOwner
<1>6. TreesAreOwned'
  BY <1>3 DEF RemoteInv, TreesAreOwned
<1> QED BY <1>4, <1>5, <1>6 DEF RemoteInv

\* A greeting gets a lane nobody has, of the open session or of a new one that
\* forgets the startup of the last.
LEMMA LaneIsReserved ==
    ASSUME RemoteInv, RemoteTypeOK', NEW c \in Conn, NEW id \in SessionId, NEW lane \in Lanes,
           Hello(c, id, lane), CanReserve(id, lane)
    PROVE  RemoteInv'
<1>1. /\ session' = Reserve(id, lane)
      /\ conn' = [conn EXCEPT ![c].pc = "startup", ![c].lane = lane]
      /\ link' = link /\ conn[c].pc = "hello"
  BY DEF Hello, ConnAt
<1>2. /\ conn \in [Conn -> ConnType] /\ link \in [Conn -> LinkType] /\ session \in SessionType
  BY DEF RemoteInv, RemoteTypeOK
<1>3. /\ conn'[c].pc = "startup" /\ conn'[c].lane = lane
      /\ \A d \in Conn : d # c => conn'[d] = conn[d]
      /\ \A d \in Conn : HasTree(d)' <=> HasTree(d)
  BY <1>1, <1>2 DEF HasTree, ConnType
<1>4. /\ session'.lanes = session.lanes \cup {lane} /\ session'.id = id
      /\ session'.startup = IF session.id = id THEN session.startup ELSE NoSnapshot
  BY <1>1 DEF Reserve
<1>5. LanesAreOwned'
  BY <1>3, <1>4 DEF RemoteInv, LanesAreOwned, CanReserve
<1>6. StartupIsShared'
  <2>1. session'.id # NoSession
    BY <1>4, RemoteAssumption
  <2>2. ASSUME NEW d \in Conn, conn'[d].pc \in SnapshotOwner
        PROVE  session'.startup # NoSnapshot /\ conn'[d].snapshot = session'.startup
    <3>1. d # c /\ conn'[d] = conn[d]
      BY <1>3, <2>2 DEF SnapshotOwner
    <3>2. session.lanes # {} /\ session.startup # NoSnapshot
          /\ conn[d].snapshot = session.startup
      BY <2>2, <3>1 DEF RemoteInv, LanesAreOwned, StartupIsShared, SnapshotOwner
    <3> QED BY <1>4, <3>1, <3>2 DEF CanReserve
  <2>3. session'.startup # NoSnapshot => session'.startup[1] = session'.id
    BY <1>4 DEF RemoteInv, StartupIsShared
  <2> QED BY <2>1, <2>2, <2>3 DEF StartupIsShared
<1>7. TreesAreOwned'
  BY <1>1, <1>3 DEF RemoteInv, TreesAreOwned, TreeOwner
<1> QED BY <1>5, <1>6, <1>7 DEF RemoteInv

\* The first lane of a session captures; the others share what it captured.
LEMMA StartupIsCaptured ==
    ASSUME RemoteInv, RemoteTypeOK', NEW c \in Conn, Startup(c), ~FreeLane(c)
    PROVE  RemoteInv'
<1> DEFINE s == IF session.startup = NoSnapshot THEN FreshCapture ELSE session.startup
<1>1. /\ session' = [session EXCEPT !.startup = s]
      /\ conn' = [conn EXCEPT ![c].pc = "spawn", ![c].snapshot = s]
      /\ link' = link /\ conn[c].pc = "startup"
  BY DEF Startup, ConnAt
<1>2. /\ conn \in [Conn -> ConnType] /\ link \in [Conn -> LinkType] /\ session \in SessionType
      /\ RemoteTypeOK
  BY DEF RemoteInv, RemoteTypeOK
<1>3. session.id # NoSession
  BY <1>1 DEF RemoteInv, LanesAreOwned, StartupIsShared, LaneOwner
<1>4. s # NoSnapshot /\ s[1] = session.id
  BY <1>2, <1>3, FreshCaptureTyped DEF RemoteInv, StartupIsShared, NoSnapshot
<1>5. s = session.startup \/ session.startup = NoSnapshot
  OBVIOUS
<1> HIDE DEF s
<1>6. /\ conn'[c].pc = "spawn" /\ conn'[c].lane = conn[c].lane /\ conn'[c].snapshot = s
      /\ \A d \in Conn : d # c => conn'[d] = conn[d]
      /\ \A d \in Conn : HasTree(d)' <=> HasTree(d)
      /\ session'.lanes = session.lanes /\ session'.id = session.id /\ session'.startup = s
  BY <1>1, <1>2 DEF HasTree, ConnType, SessionType
<1>7. LanesAreOwned'
  <2>1. conn[c].pc \in LaneOwner
    BY <1>1 DEF LaneOwner
  <2>2. \A d \in Conn : conn'[d].pc \in LaneOwner =>
            conn[d].pc \in LaneOwner /\ conn'[d].lane = conn[d].lane
    BY <1>6, <2>1
  <2> QED BY <1>6, <2>2 DEF RemoteInv, LanesAreOwned
<1>8. StartupIsShared'
  BY <1>3, <1>4, <1>5, <1>6 DEF RemoteInv, StartupIsShared
<1>9. TreesAreOwned'
  BY <1>1, <1>6 DEF RemoteInv, TreesAreOwned, TreeOwner
<1> QED BY <1>7, <1>8, <1>9 DEF RemoteInv

\* Each step is one of the four above, or moves nothing that they speak of.
LEMMA ConnectionKeeps ==
    ASSUME RemoteInv, NEW c \in Conn,
           \/ Accept(c) \/ ConnectionStep(c) \/ Forward(c) \/ LosePeer(c)
           \/ \E id \in SessionId, lane \in Lanes : Hello(c, id, lane)
    PROVE  RemoteInv'
<1>1. RemoteTypeOK /\ RemoteTypeOK'
  BY ConnectionTyped DEF RemoteInv
<1>2. /\ conn \in [Conn -> ConnType] /\ link \in [Conn -> LinkType]
      /\ conn' \in [Conn -> ConnType] /\ link' \in [Conn -> LinkType]
  BY <1>1 DEF RemoteTypeOK
<1>3. CASE FreeLane(c) /\ conn[c].pc \in LaneOwner
  BY <1>1, <1>3, LaneIsFreed
<1>4. CASE Close(c) /\ session' = session
  <2>1. /\ conn'[c].pc = "closed" /\ ~HasTree(c)'
        /\ \A d \in Conn : d # c => conn'[d] = conn[d] /\ (HasTree(d)' => HasTree(d))
    BY <1>2, <1>4 DEF Close, Closed, NoLink, HasTree
  <2> QED BY <1>1, <1>4, <2>1, ConnectionMoves DEF LaneOwner, SnapshotOwner
<1>5. ASSUME NEW pc \in {"closed", "hello"} \cup LaneOwner, Goto(c, pc), session' = session,
             pc \in LaneOwner => conn[c].pc \in LaneOwner,
             pc \in SnapshotOwner => conn[c].pc \in SnapshotOwner,
             \A d \in Conn : d # c => (HasTree(d)' => HasTree(d)),
             HasTree(c)' => pc \in TreeOwner
      PROVE  RemoteInv'
  <2>1. /\ conn'[c].pc = pc /\ conn'[c].lane = conn[c].lane
        /\ conn'[c].snapshot = conn[c].snapshot
        /\ \A d \in Conn : d # c => conn'[d] = conn[d]
    BY <1>2, <1>5 DEF Goto, ConnType
  <2> QED BY <1>1, <1>5, <2>1, ConnectionMoves
<1>6. conn[c].pc \in {"closed", "hello", "join"} => ~HasTree(c)
  BY DEF RemoteInv, TreesAreOwned, TreeOwner
<1> USE DEF LaneOwner, SnapshotOwner, TreeOwner
<1>7. CASE Accept(c)
  <2>1. \A d \in Conn : HasTree(d)' => HasTree(d)
    BY <1>2, <1>7 DEF Accept, HasTree, LinkType
  <2> QED BY <1>5, <1>6, <1>7, <2>1 DEF Accept, ConnAt
<1>8. CASE Startup(c)
  BY <1>1, <1>3, <1>8, StartupIsCaptured DEF Startup, ConnAt
<1>9. CASE StartWorker(c)
  <2>1. CASE FreeLane(c)
    BY <1>3, <1>9, <2>1 DEF StartWorker, ConnAt
  <2>2. CASE ~FreeLane(c)
    <3>1. \A d \in Conn : d # c => (HasTree(d)' => HasTree(d))
      BY <1>2, <1>9, <2>2 DEF StartWorker, HasTree
    <3> QED BY <1>5, <1>9, <2>2, <3>1 DEF StartWorker, ConnAt
  <2> QED BY <2>1, <2>2
<1>10. CASE Ready(c)
  <2>1. \A d \in Conn : HasTree(d)' => HasTree(d)
    BY <1>2, <1>10 DEF Ready, HasTree, LinkType
  <2> QED BY <1>5, <1>10, <2>1 DEF Ready, ConnAt
<1>11. CASE RejectHello(c)
  BY <1>4, <1>11 DEF RejectHello
<1>12. CASE LeaveLoop(c) \/ LosePeer(c)
  <2>1. \A d \in Conn : HasTree(d)' => HasTree(d)
    BY <1>2, <1>12 DEF LeaveLoop, LosePeer, RetireSession, HasTree, LinkType
  <2> QED BY <1>5, <1>12, <2>1 DEF LeaveLoop, LosePeer, RetireSession, ConnAt
<1>13. CASE DropWorker(c)
  <2>1. /\ \A d \in Conn : HasTree(d)' => HasTree(d)
        /\ ~HasTree(c)'
    BY <1>2, <1>13 DEF DropWorker, HasTree, LinkType
  <2> QED BY <1>5, <1>13, <2>1 DEF DropWorker, ConnAt
<1>14. CASE JoinThreads(c)
  BY <1>3, <1>14 DEF JoinThreads, ConnAt
<1>15. CASE Forward(c)
  <2>1. /\ \A d \in Conn : HasTree(d)' => HasTree(d)
        /\ conn' = conn /\ session' = session
    BY <1>2, <1>15 DEF Forward, HasTree, LinkType
  <2>2. HasTree(c)' => conn'[c].pc \in TreeOwner
    BY <2>1 DEF RemoteInv, TreesAreOwned
  <2> QED BY <1>1, <2>1, <2>2, ConnectionMoves
<1>16. CASE \E id \in SessionId, lane \in Lanes : Hello(c, id, lane)
  <2>1. PICK id \in SessionId, lane \in Lanes : Hello(c, id, lane)
    BY <1>16
  <2>2. CASE CanReserve(id, lane)
    BY <1>1, <2>1, <2>2, LaneIsReserved
  <2>3. CASE ~CanReserve(id, lane)
    BY <1>4, <2>1, <2>3 DEF Hello
  <2> QED BY <2>2, <2>3
<1> QED BY <1>7, <1>8, <1>9, <1>10, <1>11, <1>12, <1>13, <1>14, <1>15, <1>16
        DEF ConnectionStep

\* The broker, the threads and the process itself start no tree.
LEMMA OthersKeep ==
    ASSUME RemoteInv,
           \/ Stop \/ BrokerEnds \/ UNCHANGED remoteVars
           \/ \E c \in Conn : ThreadStep(c) \/ WorkerProcess(c)
    PROVE  RemoteInv'
<1>1. RemoteTypeOK'
  BY OthersTyped DEF RemoteInv, RemoteTypeOK, remoteVars
<1>2. session' = session /\ conn' = conn
  BY DEF Stop, BrokerEnds, ThreadStep, Writer, Output, WorkerProcess, remoteVars
<1>3. \A d \in Conn : HasTree(d)' => HasTree(d)
  <2>1. CASE link' = link
    BY <2>1 DEF HasTree
  <2>2. CASE \E c \in Conn : ThreadStep(c) \/ WorkerProcess(c)
    <3>1. PICK c \in Conn : ThreadStep(c) \/ WorkerProcess(c)
      BY <2>2
    <3>2. link \in [Conn -> LinkType]
      BY DEF RemoteInv, RemoteTypeOK
    <3>3. CASE Writer(c)
      BY <3>2, <3>3 DEF Writer, EndThread, HasTree, LinkType
    <3>4. CASE Output(c)
      BY <3>2, <3>4 DEF Output, EndThread, HasTree, LinkType
    <3>5. CASE WorkerProcess(c)
      BY <3>2, <3>5 DEF WorkerProcess, HasTree, LinkType
    <3> QED BY <3>1, <3>3, <3>4, <3>5 DEF ThreadStep
  <2> QED BY <2>1, <2>2 DEF Stop, BrokerEnds, remoteVars
<1>4. LanesAreOwned' /\ StartupIsShared' /\ TreesAreOwned'
  BY <1>2, <1>3 DEF RemoteInv, LanesAreOwned, StartupIsShared, TreesAreOwned
<1> QED BY <1>1, <1>4 DEF RemoteInv

LEMMA RemoteInitially == RemoteInit => RemoteInv
<1> SUFFICES ASSUME RemoteInit PROVE RemoteInv
  OBVIOUS
<1>1. RemoteTypeOK
  BY DEF RemoteInit, RemoteTypeOK, ConnType, LinkType, SessionType, Snapshots, NoSnapshot,
     Closed, NoLink, Lanes
<1>2. LanesAreOwned /\ StartupIsShared /\ TreesAreOwned
  BY DEF RemoteInit, LanesAreOwned, StartupIsShared, TreesAreOwned, LaneOwner, SnapshotOwner,
     Closed, NoLink, HasTree
<1> QED BY <1>1, <1>2 DEF RemoteInv

LEMMA RemoteKeeps == RemoteInv /\ [RemoteNext]_remoteVars => RemoteInv'
BY ConnectionKeeps, OthersKeep DEF RemoteNext, RemoteIdle, ConnectionStep

LEMMA RemoteSound == RemoteInv => OneSessionsWorkers
<1> SUFFICES ASSUME RemoteInv PROVE OneSessionsWorkers
  OBVIOUS
<1>1. \A c \in Conn : HasTree(c) => conn[c].pc \in LaneOwner /\ conn[c].pc \in SnapshotOwner
  BY DEF RemoteInv, TreesAreOwned, TreeOwner, SnapshotOwner, LaneOwner
<1>2. \A c \in Conn : HasTree(c) =>
          /\ conn[c].lane \in session.lanes
          /\ conn[c].snapshot = session.startup /\ conn[c].snapshot[1] = session.id
  BY <1>1 DEF RemoteInv, LanesAreOwned, StartupIsShared
<1> QED BY <1>1, <1>2 DEF RemoteInv, LanesAreOwned, OneSessionsWorkers

\* The process trees of remote workers belong to one session, one per lane, all
\* started from the snapshot that this session captured, for any number of
\* connections and sessions.
THEOREM RemoteWorkersOfOneSession == RemoteSpec => []OneSessionsWorkers
<1>1. RemoteSpec => []RemoteInv
  BY RemoteInitially, RemoteKeeps, PTL DEF RemoteSpec
<1> QED BY <1>1, RemoteSound, PTL

----------------------------------------------------------
(* The output that follows the default device: the inductive invariant *)

OwnerType ==
    [pc : {"reconcile", "target", "retire", "open", "verify", "publish", "loop", "wait",
           "collect", "drop", "exited"},
     starting : Nat, retries : Nat, force : BOOLEAN, due : BOOLEAN, fresh : BOOLEAN,
     revision : Nat, target : Device \cup {NoDevice}, opened : Device \cup {NoDevice},
     device : Device \cup {NoDevice}]
SignalsType ==
    [revision : Nat, overflow : BOOLEAN, retry_requested : BOOLEAN, closed : BOOLEAN]
ConnectionType == [device : Device, revision : Nat] \cup {Disconnected}

DeviceTypeOK ==
    /\ default \in Device \cup {NoDevice}
    /\ signals \in SignalsType
    /\ owner \in OwnerType
    /\ connection \in ConnectionType
    /\ sound \in [Sound -> {"new", "queued", "refused", "cancelled", "played", "dropped"}]

\* Nobody has seen an announcement before it was made, and what was opened since
\* the newest one is the default.
OpenedSince ==
    /\ owner.revision <= signals.revision /\ connection.revision <= signals.revision
    /\ owner.pc \in {"verify", "publish"} =>
          owner.opened # NoDevice /\ (owner.revision = signals.revision => owner.opened = default)

DeviceInv == DeviceTypeOK /\ OpenedSince /\ ConnectionIsCurrent

----------------------------------------------------------
(* The output that follows the default device: its steps *)

\* What an attempt comes to changes only how the owner goes on.
LEMMA ConcludedOwner ==
    ASSUME NEW o \in OwnerType, NEW outcome \in {"true", "false", "error"}
    PROVE  /\ Concluded(o, outcome) \in OwnerType
           /\ Concluded(o, outcome).revision = o.revision
           /\ Concluded(o, outcome).pc \in {"loop", "reconcile", "drop"}
<1> DEFINE A(n) == Attempted(o, n)
<1>1. \A n \in Nat : /\ A(n) \in OwnerType /\ A(n).revision = o.revision /\ A(n).pc = "loop"
                     /\ [A(n) EXCEPT !.starting = 0, !.due = TRUE] \in OwnerType
                     /\ [A(n) EXCEPT !.starting = 0, !.due = TRUE].revision = o.revision
                     /\ [A(n) EXCEPT !.starting = 0, !.due = TRUE].pc = "loop"
  BY DEF Attempted, OwnerType
<1>2. o.starting \in Nat /\ o.retries \in Nat
  BY DEF OwnerType
<1>3. \A n \in Nat : /\ [o EXCEPT !.pc = "reconcile", !.starting = n] \in OwnerType
                     /\ [o EXCEPT !.pc = "reconcile", !.starting = n].revision = o.revision
                     /\ [o EXCEPT !.pc = "reconcile", !.starting = n].pc = "reconcile"
  BY DEF OwnerType
<1>4. /\ [o EXCEPT !.pc = "drop"] \in OwnerType
      /\ [o EXCEPT !.pc = "drop"].revision = o.revision
      /\ [o EXCEPT !.pc = "drop"].pc = "drop"
  BY DEF OwnerType
<1> HIDE DEF A
<1>5. /\ o.starting > 1 => o.starting - 1 \in Nat
      /\ o.retries # 0 => o.retries - 1 \in Nat
  BY <1>2
<1>6. CASE o.starting > 0 /\ outcome = "true"
  <2>1. o.starting # 0
    BY <1>2, <1>6
  <2>2. Concluded(o, outcome) = [A(0) EXCEPT !.starting = 0, !.due = TRUE]
    BY <1>6, <2>1 DEF Concluded, A
  <2> QED BY <1>1, <2>2
<1>7. CASE o.starting > 1 /\ outcome = "false"
  <2>1. o.starting > 0 /\ o.starting # 1 /\ o.starting # 0
    BY <1>2, <1>7
  <2>2. Concluded(o, outcome) = [o EXCEPT !.pc = "reconcile", !.starting = o.starting - 1]
    BY <1>7, <2>1 DEF Concluded
  <2> QED BY <1>3, <1>5, <1>7, <2>2
<1>8. CASE \/ o.starting > 0 /\ outcome = "error"
           \/ o.starting = 1 /\ outcome = "false"
  <2>1. /\ o.starting # 0 /\ outcome # "true"
        /\ ~(o.starting > 1 /\ outcome = "false")
    BY <1>2, <1>8
  <2>2. Concluded(o, outcome) = [o EXCEPT !.pc = "drop"]
    BY <1>8, <2>1 DEF Concluded
  <2> QED BY <1>4, <2>2
<1>9. CASE o.starting = 0
  <2>1. ~(o.starting > 0) /\ ~(o.starting > 1)
    BY <1>9
  <2>2. CASE outcome = "true"
    <3>1. Concluded(o, outcome) = A(0)
      BY <1>9, <2>1, <2>2 DEF Concluded, A
    <3> QED BY <1>1, <3>1
  <2>3. CASE outcome = "false"
    <3>1. Concluded(o, outcome) = A(IF o.retries = 0 THEN 1 ELSE o.retries)
      BY <1>9, <2>1, <2>3 DEF Concluded, A
    <3>2. (IF o.retries = 0 THEN 1 ELSE o.retries) \in Nat
      BY <1>2
    <3> QED BY <1>1, <3>1, <3>2
  <2>4. CASE outcome = "error"
    <3>1. Concluded(o, outcome) = A(IF o.retries = 0 THEN 0 ELSE o.retries - 1)
      BY <1>9, <2>1, <2>4 DEF Concluded, A
    <3>2. (IF o.retries = 0 THEN 0 ELSE o.retries - 1) \in Nat
      BY <1>2, <1>5
    <3> QED BY <1>1, <3>1, <3>2
  <2> QED BY <2>2, <2>3, <2>4
<1>10. o.starting = 0 \/ o.starting = 1 \/ o.starting > 1
  BY <1>2
<1>11. o.starting = 1 \/ o.starting > 1 => o.starting > 0
  BY <1>2
<1> QED BY <1>6, <1>7, <1>8, <1>9, <1>10, <1>11

\* So does what an event says.
LEMMA HeardOwner ==
    ASSUME NEW o \in OwnerType, NEW e
    PROVE  /\ Heard(o, e) \in OwnerType /\ Heard(o, e).revision = o.revision
           /\ Heard(o, e).pc \in {o.pc, "drop"}
<1>1. (o.force \/ o.device = e.id) \in BOOLEAN
  OBVIOUS
<1> DEFINE f == o.force \/ o.device = e.id
<1>2. Heard(o, e) \in {[o EXCEPT !.pc = "drop"], [o EXCEPT !.fresh = TRUE],
                       [o EXCEPT !.fresh = TRUE, !.force = f], o}
  BY DEF Heard
<1> HIDE DEF f
<1>3. f \in BOOLEAN
  BY <1>1 DEF f
<1>4. \A p \in {[o EXCEPT !.pc = "drop"], [o EXCEPT !.fresh = TRUE],
                [o EXCEPT !.fresh = TRUE, !.force = f], o} :
          p \in OwnerType /\ p.revision = o.revision /\ p.pc \in {o.pc, "drop"}
  BY <1>3 DEF OwnerType
<1> QED BY <1>2, <1>4

\* A step that announces nothing and publishes nothing.
LEMMA NothingPublished ==
    ASSUME DeviceInv, DeviceTypeOK', default' = default,
           signals'.revision = signals.revision,
           owner'.revision <= signals.revision,
           owner'.pc \in {"verify", "publish"} =>
               /\ owner'.opened # NoDevice
               /\ owner'.revision = signals.revision => owner'.opened = default,
           connection' \in {connection, Disconnected},
           \A b \in Sound : sound'[b] = "queued" => connection'.device # NoDevice
    PROVE  DeviceInv'
<1>1. OpenedSince'
  BY DEF DeviceInv, OpenedSince, Disconnected, DeviceTypeOK, SignalsType
<1>2. ConnectionIsCurrent'
  BY DEF DeviceInv, ConnectionIsCurrent
<1> QED BY <1>1, <1>2 DEF DeviceInv

\* Retiring a connection leaves nothing queued.
LEMMA RetiredSound ==
    ASSUME DeviceTypeOK
    PROVE  /\ Retired \in
                 [Sound -> {"new", "queued", "refused", "cancelled", "played", "dropped"}]
           /\ \A b \in Sound : Retired[b] # "queued"
BY DEF Retired, DeviceTypeOK

\* A callback announces what the system did: what was opened before it is old.
LEMMA NoticeKeeps ==
    ASSUME DeviceInv, NEW d \in Device \cup {NoDevice}, NEW e, Notify(d, e)
    PROVE  DeviceInv'
<1>1. /\ signals.revision \in Nat /\ owner.revision \in Nat /\ connection.revision \in Nat
      /\ signals' \in SignalsType /\ signals'.revision = signals.revision + 1
  BY DEF DeviceInv, DeviceTypeOK, SignalsType, OwnerType, ConnectionType, Disconnected, Notify
<1>2. UNCHANGED <<owner, connection, sound>> /\ default' = d
  BY DEF Notify
<1>3. DeviceTypeOK'
  BY <1>1, <1>2 DEF DeviceInv, DeviceTypeOK
<1>4. /\ owner.revision <= signals.revision /\ connection.revision <= signals.revision
      /\ owner.pc \in {"verify", "publish"} => owner.opened # NoDevice
  BY DEF DeviceInv, OpenedSince
<1>5. owner.revision # signals'.revision /\ connection.revision # signals'.revision
      /\ owner.revision <= signals'.revision /\ connection.revision <= signals'.revision
  BY <1>1, <1>4
<1>6. OpenedSince'
  BY <1>2, <1>4, <1>5 DEF OpenedSince
<1>7. ConnectionIsCurrent'
  BY <1>2, <1>5 DEF DeviceInv, ConnectionIsCurrent
<1> QED BY <1>3, <1>6, <1>7 DEF DeviceInv

\* The callers, the output thread and the callbacks' sends publish nothing.
LEMMA CallersKeep ==
    ASSUME DeviceInv,
           \/ RetryDelayPasses \/ Callback \/ DeviceCaller \/ OutputThread
    PROVE  DeviceInv'
<1>1. /\ default' = default /\ connection' = connection
      /\ owner' = owner \/ owner' = [owner EXCEPT !.due = TRUE]
  BY DEF RetryDelayPasses, Callback, NotifySend, NotifyOverflow, DeviceCaller, AppendSound,
     ClearSink, DropRuntime, OutputThread, SourceDrops
<1>2. /\ owner' \in OwnerType /\ owner'.revision = owner.revision
      /\ owner'.pc = owner.pc /\ owner'.opened = owner.opened
  BY <1>1 DEF DeviceInv, DeviceTypeOK, OwnerType
<1>3. (signals.retry_requested \/ ~signals.closed) \in BOOLEAN
  OBVIOUS
<1> DEFINE r == signals.retry_requested \/ ~signals.closed
<1>4. signals' \in {signals, [signals EXCEPT !.overflow = TRUE],
                    [signals EXCEPT !.retry_requested = r], [signals EXCEPT !.closed = TRUE]}
  BY DEF RetryDelayPasses, Callback, NotifySend, NotifyOverflow, DeviceCaller, AppendSound,
     RequestRetry, ClearSink, DropRuntime, OutputThread, SourceDrops
<1>5. r \in BOOLEAN
  BY <1>3
<1> HIDE DEF r
<1>6. signals' \in SignalsType /\ signals'.revision = signals.revision
  BY <1>4, <1>5 DEF DeviceInv, DeviceTypeOK, SignalsType
<1>7. /\ sound' \in [Sound -> {"new", "queued", "refused", "cancelled", "played", "dropped"}]
      /\ \A b \in Sound : sound'[b] = "queued" => connection.device # NoDevice
  <2>1. /\ sound \in [Sound -> {"new", "queued", "refused", "cancelled", "played", "dropped"}]
        /\ \A b \in Sound : sound[b] = "queued" => connection.device # NoDevice
    BY DEF DeviceInv, DeviceTypeOK, ConnectionIsCurrent
  <2>2. CASE RetryDelayPasses \/ Callback \/ DropRuntime
    BY <2>1, <2>2 DEF RetryDelayPasses, Callback, NotifySend, NotifyOverflow, DropRuntime
  <2>3. CASE ClearSink
    BY <2>3, RetiredSound DEF ClearSink, DeviceInv
  <2>4. ASSUME NEW b \in Sound, AppendSound(b)
        PROVE  /\ sound' \in
                     [Sound -> {"new", "queued", "refused", "cancelled", "played", "dropped"}]
               /\ \A x \in Sound : sound'[x] = "queued" => connection.device # NoDevice
    BY <2>1, <2>4 DEF AppendSound
  <2>5. ASSUME NEW b \in Sound, SourceDrops(b)
        PROVE  /\ sound' \in
                     [Sound -> {"new", "queued", "refused", "cancelled", "played", "dropped"}]
               /\ \A x \in Sound : sound'[x] = "queued" => connection.device # NoDevice
    BY <2>1, <2>5 DEF SourceDrops
  <2> QED BY <2>2, <2>3, <2>4, <2>5 DEF DeviceCaller, OutputThread
<1>8. DeviceTypeOK'
  BY <1>1, <1>2, <1>6, <1>7 DEF DeviceInv, DeviceTypeOK
<1>9. /\ owner'.revision <= signals.revision
      /\ owner'.pc \in {"verify", "publish"} =>
            /\ owner'.opened # NoDevice
            /\ owner'.revision = signals.revision => owner'.opened = default
  BY <1>2 DEF DeviceInv, OpenedSince
<1> QED BY <1>1, <1>6, <1>7, <1>8, <1>9, NothingPublished

\* The owner reads, waits and decides without publishing; what it opens is the
\* default of that moment.
LEMMA OwnerReadsAndOpens ==
    ASSUME DeviceInv, ReadRevision \/ ReadTarget \/ Open \/ Verify
    PROVE  DeviceInv'
<1>1. /\ UNCHANGED <<default, signals, connection, sound>>
      /\ signals \in SignalsType /\ owner \in OwnerType /\ signals.revision \in Nat
      /\ default \in Device \cup {NoDevice} /\ owner.revision <= signals.revision
      /\ \A b \in Sound : sound[b] = "queued" => connection.device # NoDevice
  BY DEF DeviceInv, DeviceTypeOK, OpenedSince, ConnectionIsCurrent, SignalsType,
     ReadRevision, ReadTarget, Open, Verify
<1> DEFINE Safe(o) ==
        /\ o \in OwnerType /\ o.revision <= signals.revision
        /\ o.pc \in {"verify", "publish"} =>
              o.opened # NoDevice /\ (o.revision = signals.revision => o.opened = default)
<1>2. \A outcome \in {"true", "false", "error"} : Safe(Concluded(owner, outcome))
  BY <1>1, ConcludedOwner
<1>3. ReadRevision => Safe(owner')
  <2>1. signals.revision <= signals.revision
    BY <1>1
  <2>2. \A n \in Nat : /\ [owner EXCEPT !.pc = "target", !.revision = n] \in OwnerType
                       /\ [owner EXCEPT !.pc = "target", !.revision = n].revision = n
                       /\ [owner EXCEPT !.pc = "target", !.revision = n].pc = "target"
    BY <1>1 DEF OwnerType
  <2> QED BY <1>1, <2>1, <2>2 DEF ReadRevision
<1>4. ReadTarget => Safe(owner')
  <2>1. /\ Safe([owner EXCEPT !.pc = "retire", !.target = default])
        /\ Safe([owner EXCEPT !.pc = "retire", !.target = NoDevice])
    BY <1>1 DEF OwnerType
  <2> QED BY <1>2, <2>1 DEF ReadTarget
<1>5. Open => Safe(owner')
  <2>1. default # NoDevice => Safe([owner EXCEPT !.pc = "verify", !.opened = default])
    BY <1>1 DEF OwnerType
  <2> QED BY <1>2, <2>1 DEF Open
<1>6. Verify => Safe(owner')
  <2>1. Verify => Safe([owner EXCEPT !.pc = "publish"])
    BY <1>1 DEF OwnerType, DeviceInv, OpenedSince, Verify
  <2> QED BY <1>2, <2>1 DEF Verify
<1>7. Safe(owner')
  BY <1>3, <1>4, <1>5, <1>6
<1>8. DeviceTypeOK'
  BY <1>1, <1>7 DEF DeviceInv, DeviceTypeOK
<1> QED BY <1>1, <1>7, <1>8, NothingPublished

LEMMA OwnerWaitsAndDecides ==
    ASSUME DeviceAssumption, DeviceInv, LoopTop \/ Receive \/ CollectEvent \/ Decide
    PROVE  DeviceInv'
<1>1. /\ UNCHANGED <<default, connection, sound>>
      /\ signals \in SignalsType /\ owner \in OwnerType /\ signals.revision \in Nat
      /\ owner.revision <= signals.revision
      /\ owner.pc \notin {"verify", "publish"}
      /\ \A b \in Sound : sound[b] = "queued" => connection.device # NoDevice
  BY DEF DeviceInv, DeviceTypeOK, OpenedSince, ConnectionIsCurrent, SignalsType,
     LoopTop, Receive, CollectEvent, Decide
<1> DEFINE Safe(o) == /\ o \in OwnerType /\ o.revision = owner.revision
                      /\ o.pc \notin {"verify", "publish"}
<1>2. \A o \in OwnerType : Safe(o) => \A e : Safe(Heard(o, e))
  BY HeardOwner
<1>3. LoopTop => Safe(owner')
  BY <1>1 DEF LoopTop, OwnerType
<1>4. Receive => Safe(owner')
  <2> DEFINE f == owner.force \/ signals.overflow
             o == [owner EXCEPT !.pc = "collect", !.fresh = FALSE, !.force = f]
  <2>1. f \in BOOLEAN
    OBVIOUS
  <2>2. Receive => owner' \in {o, Heard(o, Head(events))}
    BY DEF Receive
  <2> HIDE DEF f
  <2>3. Safe(o)
    BY <1>1, <2>1 DEF OwnerType
  <2> HIDE DEF o
  <2> QED BY <1>2, <2>2, <2>3
<1>5. CollectEvent => Safe(owner')
  BY <1>1, <1>2 DEF CollectEvent
<1>6. Decide => Safe(owner')
  <2> DEFINE n == IF owner.fresh \/ signals.retry_requested THEN AUTOMATIC_ATTEMPTS
                  ELSE owner.retries
             o == [owner EXCEPT !.retries = n]
  <2>1. n \in Nat
    BY <1>1 DEF DeviceAssumption, OwnerType
  <2>2. Decide => owner' \in {[o EXCEPT !.pc = "drop"], [o EXCEPT !.pc = "loop"],
                              [o EXCEPT !.pc = "reconcile"]}
    BY DEF Decide
  <2> HIDE DEF n
  <2>3. /\ Safe([o EXCEPT !.pc = "drop"]) /\ Safe([o EXCEPT !.pc = "loop"])
        /\ Safe([o EXCEPT !.pc = "reconcile"])
    BY <1>1, <2>1 DEF OwnerType
  <2> HIDE DEF o
  <2> QED BY <2>2, <2>3
<1>7. Safe(owner')
  BY <1>3, <1>4, <1>5, <1>6
<1>8. signals' \in SignalsType /\ signals'.revision = signals.revision
  BY <1>1 DEF LoopTop, Receive, CollectEvent, Decide, SignalsType
<1>9. DeviceTypeOK'
  BY <1>1, <1>7, <1>8 DEF DeviceInv, DeviceTypeOK
<1> QED BY <1>1, <1>7, <1>8, <1>9, NothingPublished

\* The connection is given up.
LEMMA OwnerRetires ==
    ASSUME DeviceInv, Retire \/ OwnerDrop
    PROVE  DeviceInv'
<1>1. /\ default' = default /\ connection' = Disconnected /\ sound' = Retired
      /\ owner \in OwnerType /\ signals \in SignalsType /\ signals.revision \in Nat
      /\ owner.revision <= signals.revision
  BY DEF DeviceInv, DeviceTypeOK, OpenedSince, SignalsType, Retire, OwnerDrop
<1> DEFINE Safe(o) == /\ o \in OwnerType /\ o.revision = owner.revision
                      /\ o.pc \notin {"verify", "publish"}
           g == [owner EXCEPT !.device = NoDevice]
<1>2. g \in OwnerType /\ g.revision = owner.revision
  BY <1>1 DEF OwnerType
<1>3. /\ Safe([owner EXCEPT !.pc = "open", !.device = NoDevice])
      /\ Safe([owner EXCEPT !.pc = "exited", !.device = NoDevice])
  BY <1>1 DEF OwnerType
<1>4. owner' \in {Concluded(g, "error"), [owner EXCEPT !.pc = "open", !.device = NoDevice],
                  [owner EXCEPT !.pc = "exited", !.device = NoDevice]}
  BY DEF Retire, OwnerDrop
<1> HIDE DEF g
<1>5. Safe(Concluded(g, "error"))
  BY <1>2, ConcludedOwner
<1>6. Safe(owner')
  BY <1>3, <1>4, <1>5
<1>7. signals' \in SignalsType /\ signals'.revision = signals.revision
  BY <1>1 DEF Retire, OwnerDrop, SignalsType
<1>8. DeviceTypeOK'
  BY <1>1, <1>6, <1>7, RetiredSound DEF DeviceInv, DeviceTypeOK, ConnectionType
<1>9. \A b \in Sound : sound'[b] # "queued"
  BY <1>1, RetiredSound DEF DeviceInv
<1> QED BY <1>1, <1>6, <1>7, <1>8, <1>9, NothingPublished

\* What is published was opened since the newest announcement, so it is the default.
LEMMA OwnerPublishes ==
    ASSUME DeviceInv, Publish
    PROVE  DeviceInv'
<1>1. /\ UNCHANGED <<default, signals>> /\ sound' = Retired
      /\ owner \in OwnerType /\ signals.revision \in Nat
      /\ owner.revision <= signals.revision
      /\ owner.opened # NoDevice
      /\ owner.revision = signals.revision => owner.opened = default
  BY DEF DeviceInv, DeviceTypeOK, OpenedSince, SignalsType, Publish
<1>2. \A b \in Sound : sound'[b] # "queued"
  BY <1>1, RetiredSound DEF DeviceInv
<1> DEFINE Safe(o) == /\ o \in OwnerType /\ o.revision = owner.revision
                      /\ o.pc \notin {"verify", "publish"}
<1>3. \A outcome \in {"true", "false"} : Safe(Concluded(owner, outcome))
  BY <1>1, ConcludedOwner
<1>4. Safe([Concluded(owner, "true") EXCEPT !.device = owner.target])
  <2> DEFINE o == Concluded(owner, "true")
  <2>1. Safe(o)
    BY <1>3
  <2>2. owner.target \in Device \cup {NoDevice}
    BY <1>1 DEF OwnerType
  <2> HIDE DEF o
  <2>3. Safe([o EXCEPT !.device = owner.target])
    BY <2>1, <2>2 DEF OwnerType
  <2> QED BY <2>3 DEF o
<1>5. Safe(owner')
  BY <1>3, <1>4 DEF Publish
<1>6. CASE connection' = connection
  <2>1. DeviceTypeOK'
    BY <1>1, <1>5, <1>6, RetiredSound DEF DeviceInv, DeviceTypeOK
  <2> QED BY <1>1, <1>2, <1>5, <1>6, <2>1, NothingPublished
<1>7. CASE /\ connection' = [device |-> owner.opened, revision |-> owner.revision]
           /\ owner.revision = signals.revision
  <2>1. owner.opened \in Device /\ owner.revision \in Nat
    BY <1>1 DEF OwnerType
  <2>2. /\ connection' \in ConnectionType /\ connection'.device = default
        /\ connection'.revision = signals.revision
    BY <1>1, <1>7, <2>1 DEF ConnectionType
  <2>3. DeviceTypeOK'
    BY <1>1, <1>5, <2>2, RetiredSound DEF DeviceInv, DeviceTypeOK
  <2>4. OpenedSince'
    BY <1>1, <1>5, <2>2 DEF OpenedSince
  <2>5. ConnectionIsCurrent'
    BY <1>1, <1>2, <2>2 DEF ConnectionIsCurrent
  <2> QED BY <2>3, <2>4, <2>5 DEF DeviceInv
<1> QED BY <1>6, <1>7 DEF Publish, Announced

LEMMA DeviceInitially == DeviceAssumption /\ DeviceInit => DeviceInv
<1> SUFFICES ASSUME DeviceAssumption, DeviceInit PROVE DeviceInv
  OBVIOUS
<1>1. AUTOMATIC_ATTEMPTS \in Nat
  BY DEF DeviceAssumption
<1>2. signals \in SignalsType /\ signals.revision = 0
  BY DEF DeviceInit, SignalsType
<1>3. owner \in OwnerType /\ owner.revision = 0 /\ owner.pc = "reconcile"
  BY <1>1 DEF DeviceInit, OwnerType
<1>4. /\ connection = Disconnected /\ connection.revision = 0
      /\ \A b \in Sound : sound[b] = "new"
  BY DEF DeviceInit, Disconnected
<1>5. DeviceTypeOK
  BY <1>2, <1>3, <1>4 DEF DeviceInit, DeviceTypeOK, ConnectionType
<1>6. OpenedSince
  BY <1>2, <1>3, <1>4 DEF OpenedSince
<1>7. ConnectionIsCurrent
  BY <1>4 DEF ConnectionIsCurrent
<1> QED BY <1>5, <1>6, <1>7 DEF DeviceInv

LEMMA DeviceKeeps ==
    ASSUME DeviceAssumption, DeviceInv, [DeviceNext]_deviceVars
    PROVE  DeviceInv'
<1>1. CASE UNCHANGED deviceVars
  BY <1>1 DEF deviceVars, DeviceInv, DeviceTypeOK, OpenedSince, ConnectionIsCurrent
<1>2. CASE OwnerStep
  BY <1>2, OwnerReadsAndOpens, OwnerWaitsAndDecides, OwnerRetires, OwnerPublishes DEF OwnerStep
<1>3. CASE RetryDelayPasses \/ Callback \/ DeviceCaller \/ OutputThread
  BY <1>3, CallersKeep
<1>4. CASE SystemNotice
  BY <1>4, NoticeKeeps DEF SystemNotice, OnDefaultDeviceChanged, EndpointChanged, DeviceInv,
     DeviceTypeOK
<1>5. CASE DeviceStopped
  BY <1>1, <1>5 DEF DeviceStopped
<1> QED BY <1>1, <1>2, <1>3, <1>4, <1>5 DEF DeviceNext

\* A connection that appears is published, by an owner that finds nothing announced
\* since it began and the output still open.
LEMMA OnlyPublishConnects ==
    ASSUME [DeviceNext]_deviceVars, connection' # connection, connection' # Disconnected
    PROVE  connection'.revision = signals.revision /\ ~signals.closed
<1>1. CASE Publish
  BY <1>1 DEF Publish, Announced
<1>2. CASE \/ ReadRevision \/ ReadTarget \/ Retire \/ Open \/ Verify \/ LoopTop \/ Receive
           \/ CollectEvent \/ Decide \/ OwnerDrop
  BY <1>2 DEF ReadRevision, ReadTarget, Retire, Open, Verify, LoopTop, Receive, CollectEvent,
     Decide, OwnerDrop
<1>3. CASE RetryDelayPasses \/ Callback \/ SystemNotice \/ DeviceCaller \/ OutputThread
  BY <1>3 DEF RetryDelayPasses, Callback, NotifySend, NotifyOverflow, SystemNotice,
     OnDefaultDeviceChanged, EndpointChanged, Notify, DeviceCaller, AppendSound, ClearSink,
     DropRuntime, OutputThread, SourceDrops
<1>4. CASE DeviceStopped \/ UNCHANGED deviceVars
  BY <1>4 DEF DeviceStopped, deviceVars
<1> QED BY <1>1, <1>2, <1>3, <1>4 DEF DeviceNext, OwnerStep

\* The output is connected to the device last announced, and nothing counts as
\* queued on an output without one, for any capacity, any number of attempts,
\* notifications and failures.
THEOREM OutputIsCurrent == DeviceSpec => []ConnectionIsCurrent
<1>1. DeviceSpec => []DeviceInv
  BY DeviceAssumption, DeviceInitially, DeviceKeeps, PTL DEF DeviceSpec
<1>2. DeviceInv => ConnectionIsCurrent
  BY DEF DeviceInv
<1> QED BY <1>1, <1>2, PTL

\* An open that took long never overwrites a newer device choice.
THEOREM NewestIsPublished == DeviceSpec => NewestPublished
<1>1. [DeviceNext]_deviceVars =>
          [connection' # connection /\ connection' # Disconnected
               => connection'.revision = signals.revision /\ ~signals.closed]_deviceVars
  BY OnlyPublishConnects
<1> QED BY <1>1, PTL DEF DeviceSpec, NewestPublished

----------------------------------------------------------
(* The initialisation of helpers: the inductive invariant *)

CallerType ==
    [pc : {"idle", "lock", "join", "slot", "wait", "publish", "returned"},
     e : Engine \cup {NoEngine},
     result : {"none", "timeout", "connected", "error", "started"}]
AttemptType ==
    {"none", "lifecycle", "reap", "negotiate", "decision", "terminate", "finished"}
OfferType == {"none", "prepared", "connected", "error", "gone"}
DecisionType == {"none", "dropped", "accepted"}
Owner == Caller \cup {NoOne, Synthesis}

\* Attempts that hold the lifecycle lock of their engine.
Holding == {"reap", "negotiate", "decision", "terminate"}

InitializationTypeOK ==
    /\ queue \in Seq(Batch)
    /\ caller \in [Caller -> CallerType]
    /\ attempt \in [Caller -> AttemptType]
    /\ offer \in [Caller -> OfferType]
    /\ decision \in [Caller -> DecisionType]
    /\ lifecycle \in [Engine -> Owner]
    /\ published \in [Engine -> Owner]
    /\ retiring \in [Engine -> Owner \ {Synthesis}]
    /\ running \subseteq Owner \X Engine

\* A job in the queue is one that no thread has, and is there once.
QueueWaits ==
    /\ \A i \in DOMAIN queue : caller[queue[i]].pc = "idle"
    /\ \A i, j \in DOMAIN queue : queue[i] = queue[j] => i = j

\* How far a call is, and its channels.
CallerPhase(c) ==
    /\ caller[c].pc \in {"lock", "join", "slot", "wait", "publish"} => caller[c].e \in Engine
    /\ attempt[c] # "none" => caller[c].e \in Engine
    /\ caller[c].pc \in {"idle", "lock", "join", "slot"}
          => attempt[c] = "none" /\ offer[c] = "none"
    /\ caller[c].pc # "returned" => decision[c] = "none"
    /\ offer[c] = "prepared" => attempt[c] = "decision" /\ decision[c] = "none"
    /\ decision[c] # "none" => offer[c] = "gone"
    /\ caller[c].pc = "publish" => offer[c] = "prepared"

\* Under the lifecycle lock: the helper launched is still to be reaped, and it is
\* the engine's connection exactly if the caller has accepted it.
HolderOwns(c) ==
    attempt[c] \in Holding =>
        /\ lifecycle[caller[c].e] = c
        /\ attempt[c] # "reap" =>
              retiring[caller[c].e] = c /\ <<c, caller[c].e>> \in running
        /\ published[caller[c].e] =
              IF attempt[c] = "decision" /\ decision[c] = "accepted" THEN c ELSE NoOne

\* What runs for an engine is its connection, or is still to be reaped.
EngineKnows(e) ==
    /\ published[e] \in Caller =>
          /\ caller[published[e]].pc = "returned"
          /\ caller[published[e]].result = "started"
          /\ <<published[e], e>> \in running
    /\ \A x : <<x, e>> \in running =>
          x \in Caller \cup {Synthesis} /\ (published[e] = x \/ retiring[e] = x)
    /\ published[e] # NoOne /\ retiring[e] # NoOne => published[e] = retiring[e]

ActiveAttempts == {c \in Caller : attempt[c] \notin {"none", "finished"}}

SlotsCounted ==
    active = Cardinality(ActiveAttempts) /\ active <= EXTERNAL_INITIALIZATIONS

InitializationInv ==
    /\ InitializationTypeOK /\ QueueWaits /\ SlotsCounted
    /\ \A c \in Caller : CallerPhase(c) /\ HolderOwns(c)
    /\ \A e \in Engine : EngineKnows(e)

----------------------------------------------------------
(* The initialisation of helpers: its steps *)

\* There are finitely many calls, so the attempts under way can be counted.
LEMMA AttemptsAreFinite ==
    ASSUME InitializationAssumption
    PROVE  IsFiniteSet(ActiveAttempts) /\ Cardinality(ActiveAttempts) \in Nat
<1>1. Jobs \in Seq(Batch) /\ IsFiniteSet(Rescan)
  BY DEF InitializationAssumption
<1>2. Len(Jobs) \in Nat /\ DOMAIN Jobs = 1 .. Len(Jobs) /\ Jobs \in [1 .. Len(Jobs) -> Batch]
  BY <1>1
<1>3. Jobs \in Surjection(1 .. Len(Jobs), Batch)
  BY <1>2 DEF Surjection, Batch
<1>4. IsFiniteSet(Batch)
  BY <1>2, <1>3, FS_Interval, FS_Surjection
<1>5. IsFiniteSet(Caller)
  BY <1>1, <1>4, FS_Union DEF Caller
<1>6. ActiveAttempts \in SUBSET Caller
  BY DEF ActiveAttempts
<1> QED BY <1>5, <1>6, FS_Subset, FS_CardinalityType

\* A call that changes its own record and channels, and nothing of its engine.
LEMMA CallerMoves ==
    ASSUME InitializationInv, NEW c \in Caller, NEW r \in CallerType,
           caller[c].pc # "returned",
           caller' = [caller EXCEPT ![c] = r],
           attempt[c] # "none" => r.e = caller[c].e,
           offer' \in [Caller -> OfferType], decision' \in [Caller -> DecisionType],
           \A d \in Caller \ {c} : offer'[d] = offer[d] /\ decision'[d] = decision[d],
           decision'[c] # "accepted",
           CallerPhase(c)', QueueWaits', queue' \in Seq(Batch),
           UNCHANGED <<attempt, lifecycle, active, published, retiring, running>>
    PROVE  InitializationInv'
<1>1. InitializationTypeOK'
  BY DEF InitializationInv, InitializationTypeOK
<1>2. SlotsCounted'
  BY DEF InitializationInv, SlotsCounted, ActiveAttempts
<1>3. /\ caller'[c] = r
      /\ \A d \in Caller \ {c} : caller'[d] = caller[d]
  BY DEF InitializationInv, InitializationTypeOK
<1>4. decision[c] = "none"
  BY DEF InitializationInv, CallerPhase
<1>5. ASSUME NEW d \in Caller PROVE CallerPhase(d)' /\ HolderOwns(d)'
  <2>1. CASE d = c
    <3>1. HolderOwns(c)
      BY DEF InitializationInv
    <3>2. attempt[c] \in Holding => r.e = caller[c].e
      BY DEF Holding
    <3>3. HolderOwns(c)'
      BY <1>3, <1>4, <3>1, <3>2 DEF HolderOwns
    <3> QED BY <2>1, <3>3
  <2>2. CASE d # c
    <3>1. CallerPhase(d) /\ HolderOwns(d)
      BY DEF InitializationInv
    <3>2. caller'[d] = caller[d] /\ offer'[d] = offer[d] /\ decision'[d] = decision[d]
      BY <1>3, <2>2
    <3>3. CallerPhase(d)'
      BY <3>1, <3>2 DEF CallerPhase
    <3>4. HolderOwns(d)'
      BY SMTT(60), <3>1, <3>2 DEF HolderOwns
    <3> QED BY <3>3, <3>4
  <2> QED BY <2>1, <2>2
<1>6. ASSUME NEW e \in Engine PROVE EngineKnows(e)'
  <2>1. EngineKnows(e)
    BY DEF InitializationInv
  <2>2. published[e] \in Caller => published[e] # c
    BY <2>1 DEF EngineKnows
  <2> QED BY <1>3, <2>1, <2>2 DEF EngineKnows
<1> QED BY <1>1, <1>2, <1>5, <1>6 DEF InitializationInv

\* Every call that is under way and gives up, or finds the engine connected.
LEMMA ReturnsKeep ==
    ASSUME InitializationInv, NEW c \in Caller, NEW result \in {"timeout", "connected", "error"},
           caller[c].pc \notin {"idle", "returned"},
           CallerReturns(c, result),
           UNCHANGED <<queue, attempt, lifecycle, active, published, retiring, running>>
    PROVE  InitializationInv'
<1> DEFINE r == [caller[c] EXCEPT !.pc = "returned", !.result = result]
<1>1. caller[c] \in CallerType /\ caller \in [Caller -> CallerType]
  BY DEF InitializationInv, InitializationTypeOK
<1>2. /\ r \in CallerType /\ r.e = caller[c].e /\ r.pc = "returned"
  BY <1>1 DEF CallerType
<1>3. caller' = [caller EXCEPT ![c] = r]
  BY <1>1 DEF CallerReturns
<1> HIDE DEF r
<1>4. /\ offer \in [Caller -> OfferType] /\ decision \in [Caller -> DecisionType]
      /\ queue \in Seq(Batch)
  BY DEF InitializationInv, InitializationTypeOK
<1>5. /\ offer' \in [Caller -> OfferType] /\ offer'[c] = "gone"
      /\ \A d \in Caller \ {c} : offer'[d] = offer[d]
  BY <1>4 DEF CallerReturns, OfferType
<1>6. CallerPhase(c)
  BY DEF InitializationInv
<1>7. decision[c] = "none"
  BY <1>6 DEF CallerPhase
<1>8. /\ decision' \in [Caller -> DecisionType] /\ decision'[c] = "dropped"
      /\ \A d \in Caller \ {c} : decision'[d] = decision[d]
  BY <1>4, <1>7 DEF CallerReturns, DecisionType
<1>9. caller'[c] = r /\ \A d \in Caller \ {c} : caller'[d] = caller[d]
  BY <1>1, <1>3
<1>10. CallerPhase(c)'
  BY <1>2, <1>5, <1>6, <1>8, <1>9 DEF CallerPhase
<1>11. QueueWaits'
  <2>1. \A i \in DOMAIN queue : queue[i] \in Caller /\ queue[i] # c
    BY <1>4 DEF InitializationInv, QueueWaits, Caller
  <2> QED BY <1>9, <2>1 DEF InitializationInv, QueueWaits
<1> QED BY <1>2, <1>3, <1>4, <1>5, <1>8, <1>10, <1>11, CallerMoves

\* A call that goes on to its next lock or channel.
LEMMA CallerGoesOn ==
    ASSUME InitializationInv, NEW c \in Caller, NEW pc \in {"join", "slot", "publish"},
           caller[c].pc \in {"lock", "join", "wait"}, CallerTo(c, pc),
           pc \in {"join", "slot"} => caller[c].pc \in {"lock", "join"},
           pc = "publish" => caller[c].pc = "wait" /\ offer[c] = "prepared",
           UNCHANGED <<queue, offer, decision, attempt, lifecycle, active, published,
                       retiring, running>>
    PROVE  InitializationInv'
<1> DEFINE r == [caller[c] EXCEPT !.pc = pc]
<1>1. caller[c] \in CallerType /\ caller \in [Caller -> CallerType]
  BY DEF InitializationInv, InitializationTypeOK
<1>2. /\ r \in CallerType /\ r.e = caller[c].e /\ r.pc = pc
  BY <1>1 DEF CallerType
<1>3. caller' = [caller EXCEPT ![c] = r]
  BY <1>1 DEF CallerTo
<1> HIDE DEF r
<1>4. /\ offer \in [Caller -> OfferType] /\ decision \in [Caller -> DecisionType]
      /\ queue \in Seq(Batch)
  BY DEF InitializationInv, InitializationTypeOK
<1>5. CallerPhase(c)
  BY DEF InitializationInv
<1>6. decision[c] = "none"
  BY <1>5 DEF CallerPhase
<1>7. caller'[c] = r /\ \A d \in Caller \ {c} : caller'[d] = caller[d]
  BY <1>1, <1>3
<1>8. CallerPhase(c)'
  BY <1>2, <1>5, <1>6, <1>7 DEF CallerPhase
<1>9. QueueWaits'
  <2>1. \A i \in DOMAIN queue : queue[i] \in Caller /\ queue[i] # c
    BY <1>4 DEF InitializationInv, QueueWaits, Caller
  <2> QED BY <1>7, <2>1 DEF InitializationInv, QueueWaits
<1> QED BY <1>2, <1>3, <1>4, <1>6, <1>8, <1>9, CallerMoves

\* The head of the queue is an idle call, and the rest of it are others.
LEMMA HeadIsIdle ==
    ASSUME InitializationInv, queue # <<>>
    PROVE  /\ Head(queue) \in Batch /\ caller[Head(queue)].pc = "idle"
           /\ Tail(queue) \in Seq(Batch)
           /\ \A i \in DOMAIN Tail(queue) :
                 Tail(queue)[i] # Head(queue) /\ caller[Tail(queue)[i]].pc = "idle"
           /\ \A i, j \in DOMAIN Tail(queue) : Tail(queue)[i] = Tail(queue)[j] => i = j
<1>1. queue \in Seq(Batch) /\ QueueWaits
  BY DEF InitializationInv, InitializationTypeOK
<1>2. /\ Len(queue) \in Nat \ {0} /\ DOMAIN queue = 1 .. Len(queue)
      /\ Head(queue) = queue[1] /\ Tail(queue) \in Seq(Batch)
      /\ DOMAIN Tail(queue) = 1 .. Len(queue) - 1
      /\ \A i \in 1 .. Len(queue) - 1 : Tail(queue)[i] = queue[i + 1]
  BY <1>1
<1>3. \A i \in 1 .. Len(queue) - 1 : i + 1 \in DOMAIN queue /\ i + 1 # 1 /\ 1 \in DOMAIN queue
  BY <1>2
<1>4. \A i, j \in 1 .. Len(queue) - 1 : i + 1 = j + 1 => i = j
  OBVIOUS
<1>5. 1 \in DOMAIN queue /\ queue[1] \in Batch
  BY <1>1, <1>2
<1> QED BY <1>1, <1>2, <1>3, <1>4, <1>5 DEF QueueWaits

\* A call begins, or is never admitted.
LEMMA CallBegins ==
    ASSUME InitializationAssumption, InitializationInv, NEW c \in Caller,
           \/ TakeJob(c) \/ NeverAdmitted(c)
           \/ \E e \in Engine : AskAgain(c, e)
    PROVE  InitializationInv'
<1>1. /\ caller[c] \in CallerType /\ caller \in [Caller -> CallerType]
      /\ offer \in [Caller -> OfferType] /\ decision \in [Caller -> DecisionType]
      /\ queue \in Seq(Batch)
  BY DEF InitializationInv, InitializationTypeOK
<1>2. c \in Batch => JobEngine[c] \in Engine
  BY DEF InitializationAssumption
<1>3. caller[c].pc = "idle"
  BY HeadIsIdle DEF TakeJob, NeverAdmitted, AskAgain
<1>4. CallerPhase(c)
  BY DEF InitializationInv
<1>5. attempt[c] = "none" /\ offer[c] = "none" /\ decision[c] = "none"
  BY <1>3, <1>4 DEF CallerPhase
<1>6. PICK r \in CallerType : /\ caller' = [caller EXCEPT ![c] = r]
                              /\ \/ r.pc = "lock" /\ r.e \in Engine
                                 \/ r.pc = "returned"
  <2>1. CASE TakeJob(c)
    <3> DEFINE r == [caller[c] EXCEPT !.pc = "lock", !.e = JobEngine[c]]
    <3>1. JobEngine[c] \in Engine
      BY <1>2, <2>1, HeadIsIdle DEF TakeJob
    <3>2. r \in CallerType /\ r.pc = "lock" /\ r.e \in Engine
      BY <1>1, <3>1 DEF CallerType
    <3>3. caller' = [caller EXCEPT ![c] = r]
      BY <1>1, <2>1 DEF TakeJob
    <3> QED BY <3>2, <3>3
  <2>2. CASE NeverAdmitted(c)
    <3> DEFINE r == [caller[c] EXCEPT !.pc = "returned", !.result = "timeout"]
    <3>1. r \in CallerType /\ r.pc = "returned"
      BY <1>1 DEF CallerType
    <3>2. caller' = [caller EXCEPT ![c] = r]
      BY <1>1, <2>2 DEF NeverAdmitted
    <3> QED BY <3>1, <3>2
  <2>3. ASSUME NEW e \in Engine, AskAgain(c, e)
        PROVE  \E r \in CallerType : /\ caller' = [caller EXCEPT ![c] = r]
                                     /\ r.pc = "lock" /\ r.e \in Engine
    <3> DEFINE r == [pc |-> "lock", e |-> e, result |-> "none"]
    <3>1. r \in CallerType /\ r.pc = "lock" /\ r.e \in Engine
      BY DEF CallerType
    <3>2. caller' = [caller EXCEPT ![c] = r]
      BY <2>3 DEF AskAgain
    <3> QED BY <3>1, <3>2
  <2> QED BY <2>1, <2>2, <2>3
<1>7. UNCHANGED <<offer, decision, attempt, lifecycle, active, published, retiring, running>>
  BY DEF TakeJob, NeverAdmitted, AskAgain
<1>8. caller'[c] = r /\ \A d \in Caller \ {c} : caller'[d] = caller[d]
  BY <1>1, <1>6
<1>9. CallerPhase(c)'
  BY <1>5, <1>6, <1>7, <1>8 DEF CallerPhase
<1>10. QueueWaits' /\ queue' \in Seq(Batch)
  <2>1. CASE TakeJob(c) \/ NeverAdmitted(c)
    <3>1. queue # <<>> /\ c = Head(queue) /\ queue' = Tail(queue)
      BY <2>1 DEF TakeJob, NeverAdmitted
    <3>2. /\ Tail(queue) \in Seq(Batch)
          /\ \A i \in DOMAIN Tail(queue) :
                Tail(queue)[i] # c /\ caller[Tail(queue)[i]].pc = "idle"
          /\ \A i, j \in DOMAIN Tail(queue) : Tail(queue)[i] = Tail(queue)[j] => i = j
      BY <3>1, HeadIsIdle
    <3>3. \A i \in DOMAIN Tail(queue) : Tail(queue)[i] \in Caller
      BY <3>2 DEF Caller
    <3>4. \A i \in DOMAIN Tail(queue) : caller'[Tail(queue)[i]].pc = "idle"
      BY <1>8, <3>2, <3>3
    <3> QED BY <3>1, <3>2, <3>4 DEF QueueWaits
  <2>2. CASE \E e \in Engine : AskAgain(c, e)
    <3>1. c \notin Batch /\ queue' = queue
      BY <2>2 DEF AskAgain, InitializationAssumption
    <3>2. \A i \in DOMAIN queue : queue[i] \in Caller /\ queue[i] # c
      BY <1>1, <3>1 DEF Caller
    <3> QED BY <1>1, <1>8, <3>1, <3>2 DEF InitializationInv, QueueWaits
  <2> QED BY <2>1, <2>2
<1> QED BY <1>1, <1>3, <1>5, <1>6, <1>7, <1>9, <1>10, CallerMoves

\* The slot goes to a worker that begins.
LEMMA SlotIsTaken ==
    ASSUME InitializationAssumption, InitializationInv, NEW c \in Caller,
           AcquireSlot(c), c \notin expired
    PROVE  InitializationInv'
<1>1. /\ caller[c].pc = "slot" /\ active < EXTERNAL_INITIALIZATIONS
      /\ active' = active + 1 /\ attempt' = [attempt EXCEPT ![c] = "lifecycle"]
      /\ caller' = [caller EXCEPT ![c].pc = "wait"]
      /\ UNCHANGED <<offer, decision, queue, lifecycle, published, retiring, running>>
  BY DEF AcquireSlot, CallerTo
<1>2. /\ caller[c] \in CallerType /\ caller \in [Caller -> CallerType]
      /\ attempt \in [Caller -> AttemptType]
  BY DEF InitializationInv, InitializationTypeOK
<1> DEFINE r == [caller[c] EXCEPT !.pc = "wait"]
<1>3. /\ r \in CallerType /\ r.e = caller[c].e /\ r.pc = "wait" /\ r.result = caller[c].result
  BY <1>2 DEF CallerType
<1>4. caller' = [caller EXCEPT ![c] = r]
  BY <1>1, <1>2
<1> HIDE DEF r
<1>5. /\ caller'[c] = r /\ \A d \in Caller \ {c} : caller'[d] = caller[d]
      /\ attempt'[c] = "lifecycle" /\ \A d \in Caller \ {c} : attempt'[d] = attempt[d]
  BY <1>1, <1>2, <1>4
<1>6. attempt' \in [Caller -> AttemptType]
  BY <1>1, <1>2 DEF AttemptType
<1>7. InitializationTypeOK'
  <2>1. caller' \in [Caller -> CallerType]
    BY <1>2, <1>3, <1>4
  <2> QED BY <1>1, <1>6, <2>1 DEF InitializationInv, InitializationTypeOK
<1>8. QueueWaits'
  <2>1. \A i \in DOMAIN queue : queue[i] \in Caller /\ queue[i] # c
    BY <1>1 DEF InitializationInv, InitializationTypeOK, QueueWaits, Caller
  <2> QED BY <1>1, <1>5, <2>1 DEF InitializationInv, QueueWaits
<1>9. CallerPhase(c) /\ attempt[c] = "none" /\ offer[c] = "none" /\ decision[c] = "none"
  BY <1>1 DEF InitializationInv, CallerPhase
<1>10. SlotsCounted'
  <2>1. ActiveAttempts' = ActiveAttempts \cup {c} /\ c \notin ActiveAttempts
    BY <1>5, <1>9 DEF ActiveAttempts
  <2>2. /\ IsFiniteSet(ActiveAttempts) /\ Cardinality(ActiveAttempts) \in Nat
        /\ active = Cardinality(ActiveAttempts)
    BY AttemptsAreFinite DEF InitializationInv, SlotsCounted
  <2>3. Cardinality(ActiveAttempts') = active + 1
    BY <2>1, <2>2, FS_AddElement
  <2>4. active + 1 <= EXTERNAL_INITIALIZATIONS
    BY <1>1, <2>2 DEF InitializationAssumption
  <2> QED BY <1>1, <2>3, <2>4 DEF SlotsCounted
<1>11. ASSUME NEW d \in Caller PROVE CallerPhase(d)' /\ HolderOwns(d)'
  <2>1. CASE d = c
    <3>1. CallerPhase(c)'
      BY <1>1, <1>3, <1>5, <1>9 DEF CallerPhase
    <3>2. HolderOwns(c)'
      BY <1>5 DEF HolderOwns, Holding
    <3> QED BY <2>1, <3>1, <3>2
  <2>2. CASE d # c
    <3>1. caller'[d] = caller[d] /\ attempt'[d] = attempt[d] /\ CallerPhase(d) /\ HolderOwns(d)
      BY <1>5, <2>2 DEF InitializationInv
    <3>2. CallerPhase(d)'
      BY <1>1, <3>1 DEF CallerPhase
    <3>3. HolderOwns(d)'
      BY <1>1, <3>1 DEF HolderOwns
    <3> QED BY <3>2, <3>3
  <2> QED BY <2>1, <2>2
<1>12. ASSUME NEW e \in Engine PROVE EngineKnows(e)'
  <2>1. EngineKnows(e)
    BY DEF InitializationInv
  <2>2. published[e] \in Caller => published[e] # c
    BY <1>1, <2>1 DEF EngineKnows
  <2> QED BY <1>1, <1>5, <2>1, <2>2 DEF EngineKnows
<1> QED BY <1>7, <1>8, <1>10, <1>11, <1>12 DEF InitializationInv

\* The caller accepts: under both locks, the helper becomes the connection.
LEMMA CallerAccepts ==
    ASSUME InitializationAssumption, InitializationInv, NEW c \in Caller,
           PublishConnection(c), c \notin expired
    PROVE  InitializationInv'
<1>0. PICK e : e = caller[c].e
  OBVIOUS
<1> DEFINE r == [caller[c] EXCEPT !.pc = "returned", !.result = "started"]
<1>1. /\ caller[c].pc = "publish"
      /\ caller' = [caller EXCEPT ![c].pc = "returned", ![c].result = "started"]
      /\ published' = [published EXCEPT ![e] = c]
      /\ decision' = [decision EXCEPT ![c] = "accepted"]
      /\ offer' = [offer EXCEPT ![c] = "gone"]
  BY <1>0 DEF PublishConnection
<1>2. /\ UNCHANGED <<queue, attempt, lifecycle, active, retiring, running>>
      /\ caller[c].pc = "publish"
  BY DEF PublishConnection
<1>3. InitializationTypeOK /\ CallerPhase(c) /\ HolderOwns(c)
  BY DEF InitializationInv
<1>4. /\ caller[c] \in CallerType /\ caller \in [Caller -> CallerType]
      /\ offer \in [Caller -> OfferType] /\ decision \in [Caller -> DecisionType]
      /\ published \in [Engine -> Owner]
  BY <1>3 DEF InitializationTypeOK
<1>5. /\ e \in Engine /\ attempt[c] = "decision" /\ decision[c] = "none"
      /\ lifecycle[e] = c /\ retiring[e] = c /\ <<c, e>> \in running /\ published[e] = NoOne
  BY <1>0, <1>1, <1>3 DEF CallerPhase, HolderOwns, Holding
<1>6. r \in CallerType /\ r.e = e /\ r.pc = "returned" /\ r.result = "started"
  BY <1>0, <1>4 DEF CallerType
<1>7. caller' = [caller EXCEPT ![c] = r]
  BY <1>1, <1>4
<1> HIDE DEF r
<1>8. caller'[c] = r /\ \A d \in Caller \ {c} : caller'[d] = caller[d]
  BY <1>4, <1>7
<1>9. /\ offer'[c] = "gone" /\ decision'[c] = "accepted"
      /\ \A d \in Caller \ {c} : offer'[d] = offer[d] /\ decision'[d] = decision[d]
  BY <1>1, <1>4
<1>10. published'[e] = c /\ \A x \in Engine \ {e} : published'[x] = published[x]
  BY <1>1, <1>4, <1>5
<1>11. /\ caller' \in [Caller -> CallerType] /\ offer' \in [Caller -> OfferType]
       /\ decision' \in [Caller -> DecisionType] /\ published' \in [Engine -> Owner]
  <2>1. "gone" \in OfferType /\ "accepted" \in DecisionType /\ c \in Owner
    BY DEF OfferType, DecisionType, Owner
  <2>2. caller' \in [Caller -> CallerType]
    BY <1>4, <1>6, <1>7
  <2>3. offer' \in [Caller -> OfferType] /\ decision' \in [Caller -> DecisionType]
    BY <1>1, <1>4, <2>1
  <2>4. published' \in [Engine -> Owner]
    BY <1>1, <1>4, <2>1
  <2> QED BY <2>2, <2>3, <2>4
<1>12. InitializationTypeOK' /\ SlotsCounted'
  BY <1>2, <1>3, <1>11 DEF InitializationInv, InitializationTypeOK, SlotsCounted, ActiveAttempts
<1>13. QueueWaits'
  <2>1. \A i \in DOMAIN queue : queue[i] \in Caller /\ queue[i] # c
    BY <1>2, <1>3 DEF InitializationInv, InitializationTypeOK, QueueWaits, Caller
  <2> QED BY <1>2, <1>8, <2>1 DEF InitializationInv, QueueWaits
<1>14. ASSUME NEW d \in Caller PROVE CallerPhase(d)' /\ HolderOwns(d)'
  <2>1. CASE d = c
    <3>1. CallerPhase(c)'
      BY <1>2, <1>5, <1>6, <1>8, <1>9 DEF CallerPhase
    <3>2. HolderOwns(c)'
      BY <1>2, <1>5, <1>6, <1>8, <1>9, <1>10 DEF HolderOwns
    <3> QED BY <2>1, <3>1, <3>2
  <2>2. CASE d # c
    <3>1. /\ caller'[d] = caller[d] /\ offer'[d] = offer[d] /\ decision'[d] = decision[d]
          /\ CallerPhase(d) /\ HolderOwns(d)
      BY <1>8, <1>9, <2>2 DEF InitializationInv
    <3>2. CallerPhase(d)'
      BY <1>2, <3>1 DEF CallerPhase
    <3>3. attempt[d] \in Holding => caller[d].e \in Engine \ {e}
      BY <1>5, <2>2, <3>1 DEF CallerPhase, HolderOwns, Holding
    <3>4. attempt[d] \in Holding => published'[caller[d].e] = published[caller[d].e]
      BY <1>10, <3>3
    <3>5. HolderOwns(d)'
      BY <1>2, <3>1, <3>4 DEF HolderOwns
    <3> QED BY <3>2, <3>5
  <2> QED BY <2>1, <2>2
<1>15. ASSUME NEW x \in Engine PROVE EngineKnows(x)'
  <2>1. EngineKnows(x)
    BY DEF InitializationInv
  <2>2. CASE x = e
    <3>1. NoOne \notin Caller \cup {Synthesis}
      BY DEF InitializationAssumption
    <3>2. \A y : <<y, e>> \in running => y \in Caller \cup {Synthesis} /\ retiring[e] = y
      BY <1>5, <2>1, <2>2, <3>1 DEF EngineKnows
    <3> QED BY <1>2, <1>5, <1>6, <1>8, <1>10, <2>2, <3>2 DEF EngineKnows
  <2>3. CASE x # e
    <3>1. published'[x] = published[x] /\ (published[x] \in Caller => published[x] # c)
      BY <1>2, <1>10, <2>1, <2>3 DEF EngineKnows
    <3> QED BY <1>2, <1>8, <2>1, <3>1 DEF EngineKnows
  <2> QED BY <2>2, <2>3
<1> QED BY <1>12, <1>13, <1>14, <1>15 DEF InitializationInv

LEMMA CallersOfHelpersKeep ==
    ASSUME InitializationAssumption, InitializationInv, NEW c \in Caller,
           \/ CallerStep(c) \/ DeadlinePasses(c)
           \/ \E e \in Engine : AskAgain(c, e)
    PROVE  InitializationInv'
<1>1. CASE TakeJob(c) \/ NeverAdmitted(c) \/ \E e \in Engine : AskAgain(c, e)
  BY <1>1, CallBegins
<1>2. CASE LockInitialization(c)
  BY <1>2, ReturnsKeep, CallerGoesOn DEF LockInitialization
<1>3. CASE JoinPrevious(c)
  BY <1>3, ReturnsKeep, CallerGoesOn DEF JoinPrevious
<1>4. CASE AcquireSlot(c)
  <2>1. CASE c \in expired
    BY <1>4, <2>1, ReturnsKeep DEF AcquireSlot
  <2> QED BY <1>4, <2>1, SlotIsTaken
<1>5. CASE ReceiveOffer(c)
  BY <1>5, ReturnsKeep, CallerGoesOn DEF ReceiveOffer
<1>6. CASE PublishConnection(c)
  <2>1. CASE c \in expired
    BY <1>6, <2>1, ReturnsKeep DEF PublishConnection
  <2> QED BY <1>6, <2>1, CallerAccepts
<1>7. CASE DeadlinePasses(c)
  <2>1. UNCHANGED <<queue, caller, attempt, lifecycle, active, offer, decision, published,
                    retiring, running>>
    BY <1>7 DEF DeadlinePasses
  <2> QED BY <2>1 DEF InitializationInv, InitializationTypeOK, QueueWaits, SlotsCounted,
             ActiveAttempts, CallerPhase, HolderOwns, EngineKnows
<1> QED BY <1>1, <1>2, <1>3, <1>4, <1>5, <1>6, <1>7 DEF CallerStep

\* A worker that goes on: it disturbs nobody else on its engine, since nobody else
\* holds the lifecycle lock or since it leaves the lock and the helpers alone.
LEMMA AttemptMoves ==
    ASSUME InitializationAssumption, InitializationInv, NEW c \in Caller,
           NEW a \in AttemptType \ {"none"}, NEW e, e = caller[c].e,
           attempt[c] \notin {"none", "finished"}, attempt' = [attempt EXCEPT ![c] = a],
           active' = IF a = "finished" THEN active - 1 ELSE active,
           offer' \in [Caller -> OfferType], \A d \in Caller \ {c} : offer'[d] = offer[d],
           lifecycle' \in [Engine -> Owner], retiring' \in [Engine -> Owner \ {Synthesis}],
           running' \subseteq Owner \X Engine,
           \A x \in Engine \ {e} :
               /\ lifecycle'[x] = lifecycle[x] /\ retiring'[x] = retiring[x]
               /\ \A y : <<y, x>> \in running' <=> <<y, x>> \in running,
           lifecycle[e] \in {NoOne, c} \/ UNCHANGED <<lifecycle, retiring, running>>,
           CallerPhase(c)', HolderOwns(c)', EngineKnows(e)',
           UNCHANGED <<queue, caller, decision, published>>
    PROVE  InitializationInv'
<1>1. InitializationTypeOK /\ CallerPhase(c) /\ attempt \in [Caller -> AttemptType]
  BY DEF InitializationInv, InitializationTypeOK
<1>2. attempt'[c] = a /\ \A d \in Caller \ {c} : attempt'[d] = attempt[d]
  BY <1>1
<1>3. InitializationTypeOK'
  BY <1>1 DEF InitializationTypeOK
<1>4. QueueWaits'
  BY DEF InitializationInv, QueueWaits
<1>5. SlotsCounted'
  <2>1. /\ IsFiniteSet(ActiveAttempts) /\ Cardinality(ActiveAttempts) \in Nat
        /\ active = Cardinality(ActiveAttempts) /\ active <= EXTERNAL_INITIALIZATIONS
        /\ EXTERNAL_INITIALIZATIONS \in Nat
    BY AttemptsAreFinite DEF InitializationInv, SlotsCounted, InitializationAssumption
  <2>2. c \in ActiveAttempts
    BY DEF ActiveAttempts
  <2>3. CASE a = "finished"
    <3>1. ActiveAttempts' = ActiveAttempts \ {c}
      BY <1>2, <2>3 DEF ActiveAttempts
    <3>2. Cardinality(ActiveAttempts') = active - 1
      BY <2>1, <2>2, <3>1, FS_RemoveElement
    <3>3. active - 1 <= EXTERNAL_INITIALIZATIONS
      BY <2>1
    <3> QED BY <2>3, <3>2, <3>3 DEF SlotsCounted
  <2>4. CASE a # "finished"
    <3>1. ActiveAttempts' = ActiveAttempts
      BY <1>2, <2>4 DEF ActiveAttempts
    <3> QED BY <2>1, <2>4, <3>1 DEF SlotsCounted
  <2> QED BY <2>3, <2>4
<1>7. ASSUME NEW d \in Caller, d # c PROVE CallerPhase(d)' /\ HolderOwns(d)'
  <2>1. /\ attempt'[d] = attempt[d] /\ offer'[d] = offer[d]
        /\ CallerPhase(d) /\ HolderOwns(d)
    BY <1>2, <1>7 DEF InitializationInv
  <2>2. CallerPhase(d)'
    BY <2>1 DEF CallerPhase
  <2>3. attempt[d] \in Holding => caller[d].e \in Engine /\ lifecycle[caller[d].e] = d
    BY <2>1 DEF CallerPhase, HolderOwns, Holding
  <2>4. d # NoOne
    BY DEF InitializationAssumption
  <2>5. attempt[d] \in Holding =>
           /\ lifecycle'[caller[d].e] = lifecycle[caller[d].e]
           /\ retiring'[caller[d].e] = retiring[caller[d].e]
           /\ <<d, caller[d].e>> \in running' <=> <<d, caller[d].e>> \in running
    BY <1>7, <2>3, <2>4
  <2> QED BY <2>1, <2>2, <2>5 DEF HolderOwns
<1>8. ASSUME NEW x \in Engine PROVE EngineKnows(x)'
  <2>1. CASE x # e
    BY <2>1 DEF InitializationInv, EngineKnows
  <2> QED BY <2>1
<1> QED BY <1>3, <1>4, <1>5, <1>7, <1>8 DEF InitializationInv

\* A worker that ends, whatever it has done to the helper before.
LEMMA WorkerEndsKeeps ==
    ASSUME InitializationAssumption, InitializationInv, NEW c \in Caller,
           NEW answer \in {"none", "connected", "error"}, NEW e, e = caller[c].e,
           attempt[c] \notin {"none", "finished"}, offer[c] # "prepared",
           WorkerEnds(c, answer),
           retiring' \in [Engine -> Owner \ {Synthesis}], running' \subseteq Owner \X Engine,
           \A x \in Engine \ {e} :
               /\ retiring'[x] = retiring[x]
               /\ \A y : <<y, x>> \in running' <=> <<y, x>> \in running,
           lifecycle[e] \in {NoOne, c} \/ UNCHANGED <<retiring, running>>,
           EngineKnows(e)', UNCHANGED <<queue, caller, decision, published>>
    PROVE  InitializationInv'
<1>1. /\ CallerPhase(c) /\ attempt \in [Caller -> AttemptType]
      /\ offer \in [Caller -> OfferType] /\ lifecycle \in [Engine -> Owner]
  BY DEF InitializationInv, InitializationTypeOK
<1>2. /\ attempt' = [attempt EXCEPT ![c] = "finished"] /\ active' = active - 1
      /\ offer' = [offer EXCEPT ![c] = IF @ = "none" THEN answer ELSE @]
      /\ lifecycle' = [lifecycle EXCEPT ![e] = IF @ = c THEN NoOne ELSE @]
  BY DEF WorkerEnds
<1>3. e \in Engine
  BY <1>1 DEF CallerPhase
<1>4. /\ offer' \in [Caller -> OfferType] /\ \A d \in Caller \ {c} : offer'[d] = offer[d]
      /\ offer'[c] = IF offer[c] = "none" THEN answer ELSE offer[c]
  BY <1>1, <1>2 DEF OfferType
<1>5. /\ lifecycle' \in [Engine -> Owner]
      /\ \A x \in Engine \ {e} : lifecycle'[x] = lifecycle[x]
  BY <1>1, <1>2 DEF Owner
<1>6. lifecycle[e] \notin {NoOne, c} => lifecycle' = lifecycle
  BY <1>1, <1>2, <1>3
<1>7. attempt'[c] = "finished" /\ "finished" \in AttemptType \ {"none"}
  BY <1>1, <1>2 DEF AttemptType
<1>8. CallerPhase(c)'
  BY <1>1, <1>3, <1>4, <1>7 DEF CallerPhase
<1>9. HolderOwns(c)'
  BY <1>7 DEF HolderOwns, Holding
<1>10. active' = IF "finished" = "finished" THEN active - 1 ELSE active
  BY <1>2
<1>11. lifecycle[e] \in {NoOne, c} \/ UNCHANGED <<lifecycle, retiring, running>>
  BY <1>6
<1> QED BY <1>2, <1>4, <1>5, <1>7, <1>8, <1>9, <1>10, <1>11, AttemptMoves

\* With the helpers left alone, the engine knows what it knew.
LEMMA SameHelpers ==
    ASSUME NEW e, EngineKnows(e), UNCHANGED <<caller, published, retiring, running>>
    PROVE  EngineKnows(e)'
BY DEF EngineKnows

\* Once the helper to be reaped is confirmed to have ended, none runs; so where
\* there is none to be reaped and no connection, a launch is the only one.
LEMMA ReapedEngine ==
    ASSUME InitializationAssumption, NEW e \in Engine, EngineKnows(e), published[e] = NoOne
    PROVE  \A x : <<x, e>> \in running => x = retiring[e] /\ retiring[e] # NoOne
<1>1. NoOne \notin Caller \cup {Synthesis}
  BY DEF InitializationAssumption
<1> QED BY <1>1 DEF EngineKnows

LEMMA TerminationKeeps ==
    ASSUME InitializationAssumption, InitializationInv, NEW e \in Engine,
           published[e] = NoOne, TerminateConfirmed(e), UNCHANGED <<caller, published>>
    PROVE  /\ EngineKnows(e)' /\ retiring'[e] = NoOne
           /\ retiring' \in [Engine -> Owner \ {Synthesis}] /\ running' \subseteq Owner \X Engine
           /\ \A x \in Engine \ {e} :
                 /\ retiring'[x] = retiring[x]
                 /\ \A y : <<y, x>> \in running' <=> <<y, x>> \in running
<1>1. /\ EngineKnows(e) /\ retiring \in [Engine -> Owner \ {Synthesis}]
      /\ running \subseteq Owner \X Engine
  BY DEF InitializationInv, InitializationTypeOK
<1>2. /\ running' = running \ {<<retiring[e], e>>}
      /\ retiring' = [retiring EXCEPT ![e] = NoOne]
  BY DEF TerminateConfirmed
<1>3. NoOne \in Owner \ {Synthesis} /\ NoOne \notin Caller
  BY DEF Owner, InitializationAssumption
<1>4. \A x : <<x, e>> \notin running'
  BY <1>1, <1>2, ReapedEngine
<1>5. retiring'[e] = NoOne /\ retiring' \in [Engine -> Owner \ {Synthesis}]
  BY <1>1, <1>2, <1>3
<1>6. EngineKnows(e)'
  BY <1>3, <1>4, <1>5 DEF EngineKnows
<1>7. running' \subseteq Owner \X Engine
  BY <1>1, <1>2
<1>8. \A x \in Engine \ {e} : /\ retiring'[x] = retiring[x]
                              /\ \A y : <<y, x>> \in running' <=> <<y, x>> \in running
  BY <1>1, <1>2
<1> QED BY <1>5, <1>6, <1>7, <1>8

\* The types a worker's step starts from, and that other engines are not touched.
LEMMA HelperTypes ==
    ASSUME InitializationInv
    PROVE  /\ offer \in [Caller -> OfferType] /\ lifecycle \in [Engine -> Owner]
           /\ retiring \in [Engine -> Owner \ {Synthesis}] /\ running \subseteq Owner \X Engine
           /\ attempt \in [Caller -> AttemptType] /\ published \in [Engine -> Owner]
BY DEF InitializationInv, InitializationTypeOK

LEMMA EnterKeeps ==
    ASSUME InitializationAssumption, InitializationInv, NEW c \in Caller, EnterLifecycle(c)
    PROVE  InitializationInv'
<1>0. PICK e : e = caller[c].e
  OBVIOUS
<1>1. /\ attempt[c] = "lifecycle"
      /\ UNCHANGED <<queue, caller, decision, published, retiring, running>>
      /\ \/ WorkerEnds(c, "error") \/ WorkerEnds(c, "connected")
         \/ /\ lifecycle[e] = NoOne /\ published[e] = NoOne
            /\ lifecycle' = [lifecycle EXCEPT ![e] = c]
            /\ attempt' = [attempt EXCEPT ![c] = "reap"]
            /\ UNCHANGED <<offer, active>>
  BY <1>0 DEF EnterLifecycle
<1>2. CallerPhase(c) /\ e \in Engine /\ offer[c] # "prepared"
  BY <1>0, <1>1 DEF InitializationInv, CallerPhase
<1>3. EngineKnows(e)'
  BY <1>1, <1>2, SameHelpers DEF InitializationInv
<1>4. CASE WorkerEnds(c, "error") \/ WorkerEnds(c, "connected")
  BY <1>0, <1>1, <1>2, <1>3, <1>4, HelperTypes, WorkerEndsKeeps
<1>5. CASE /\ lifecycle[e] = NoOne /\ published[e] = NoOne
           /\ lifecycle' = [lifecycle EXCEPT ![e] = c]
           /\ attempt' = [attempt EXCEPT ![c] = "reap"]
           /\ UNCHANGED <<offer, active>>
  <2>1. "reap" \in AttemptType \ {"none"} /\ "reap" # "finished" /\ c \in Owner
    BY DEF AttemptType, Owner
  <2>2. attempt'[c] = "reap" /\ lifecycle'[e] = c
    BY <1>2, <1>5, HelperTypes
  <2>3. /\ lifecycle' \in [Engine -> Owner]
        /\ \A x \in Engine \ {e} : lifecycle'[x] = lifecycle[x]
    BY <1>5, <2>1, HelperTypes
  <2>4. CallerPhase(c)'
    BY <1>0, <1>1, <1>2, <1>5, <2>2 DEF CallerPhase
  <2>5. HolderOwns(c)'
    BY <1>0, <1>1, <1>5, <2>2 DEF HolderOwns
  <2>6. active' = IF "reap" = "finished" THEN active - 1 ELSE active
    BY <1>5
  <2> QED BY <1>0, <1>1, <1>3, <1>5, <2>1, <2>3, <2>4, <2>5, <2>6, HelperTypes, AttemptMoves
<1> QED BY <1>1, <1>4, <1>5

LEMMA ReapKeeps ==
    ASSUME InitializationAssumption, InitializationInv, NEW c \in Caller, ReapAndConnect(c)
    PROVE  InitializationInv'
<1>0. PICK e : e = caller[c].e
  OBVIOUS
<1>1. /\ attempt[c] = "reap"
      /\ UNCHANGED <<queue, caller, decision, published>>
      /\ \/ WorkerEnds(c, "error") /\ UNCHANGED <<retiring, running>>
         \/ TerminateConfirmed(e) /\ UNCHANGED <<attempt, offer, lifecycle, active>>
         \/ /\ retiring[e] = NoOne
            /\ retiring' = [retiring EXCEPT ![e] = c]
            /\ running' = running \cup {<<c, e>>}
            /\ attempt' = [attempt EXCEPT ![c] = "negotiate"]
            /\ UNCHANGED <<offer, lifecycle, active>>
  BY <1>0 DEF ReapAndConnect, TerminateUnconfirmed
<1>2. /\ CallerPhase(c) /\ e \in Engine /\ offer[c] # "prepared" /\ EngineKnows(e)
      /\ lifecycle[e] = c /\ published[e] = NoOne
  BY <1>0, <1>1 DEF InitializationInv, CallerPhase, HolderOwns, Holding
<1>3. /\ "reap" \in AttemptType \ {"none"} /\ "negotiate" \in AttemptType \ {"none"}
      /\ c \in Owner \ {Synthesis}
  BY DEF AttemptType, Owner, InitializationAssumption
<1>4. CASE WorkerEnds(c, "error") /\ UNCHANGED <<retiring, running>>
  <2>1. EngineKnows(e)'
    BY <1>1, <1>2, <1>4, SameHelpers
  <2> QED BY <1>0, <1>1, <1>2, <1>4, <2>1, HelperTypes, WorkerEndsKeeps
<1>5. CASE TerminateConfirmed(e) /\ UNCHANGED <<attempt, offer, lifecycle, active>>
  <2>1. /\ EngineKnows(e)' /\ retiring' \in [Engine -> Owner \ {Synthesis}]
        /\ running' \subseteq Owner \X Engine
        /\ \A x \in Engine \ {e} :
              /\ retiring'[x] = retiring[x]
              /\ \A y : <<y, x>> \in running' <=> <<y, x>> \in running
    BY <1>1, <1>2, <1>5, TerminationKeeps
  <2>2. attempt' = [attempt EXCEPT ![c] = "reap"]
    BY <1>1, <1>5, HelperTypes
  <2>3. CallerPhase(c)'
    BY <1>1, <1>2, <1>5 DEF CallerPhase
  <2>4. HolderOwns(c)'
    BY <1>0, <1>1, <1>2, <1>5 DEF HolderOwns
  <2>5. active' = IF "reap" = "finished" THEN active - 1 ELSE active
    BY <1>5
  <2> QED BY <1>0, <1>1, <1>2, <1>3, <1>5, <2>1, <2>2, <2>3, <2>4, <2>5, HelperTypes,
             AttemptMoves
<1>6. CASE /\ retiring[e] = NoOne
           /\ retiring' = [retiring EXCEPT ![e] = c]
           /\ running' = running \cup {<<c, e>>}
           /\ attempt' = [attempt EXCEPT ![c] = "negotiate"]
           /\ UNCHANGED <<offer, lifecycle, active>>
  <2>1. /\ retiring' \in [Engine -> Owner \ {Synthesis}] /\ retiring'[e] = c
        /\ \A x \in Engine \ {e} : retiring'[x] = retiring[x]
    BY <1>2, <1>3, <1>6, HelperTypes
  <2>2. /\ running' \subseteq Owner \X Engine
        /\ \A x \in Engine \ {e} : \A y : <<y, x>> \in running' <=> <<y, x>> \in running
    BY <1>2, <1>3, <1>6, HelperTypes
  <2>3. attempt'[c] = "negotiate"
    BY <1>6, HelperTypes
  <2>4. CallerPhase(c)'
    BY <1>0, <1>1, <1>2, <1>6, <2>3 DEF CallerPhase
  <2>5. HolderOwns(c)'
    BY <1>0, <1>1, <1>2, <1>6, <2>1, <2>3 DEF HolderOwns
  <2>6. \A x : <<x, e>> \in running' => x = c
    BY <1>2, <1>6, ReapedEngine
  <2>7. EngineKnows(e)'
    BY <1>1, <1>2, <2>1, <2>6, InitializationAssumption DEF EngineKnows, InitializationAssumption
  <2>8. active' = IF "negotiate" = "finished" THEN active - 1 ELSE active
    BY <1>6
  <2> QED BY <1>0, <1>1, <1>2, <1>3, <1>6, <2>1, <2>2, <2>4, <2>5, <2>7, <2>8, HelperTypes,
             AttemptMoves
<1> QED BY <1>1, <1>4, <1>5, <1>6

LEMMA NegotiateKeeps ==
    ASSUME InitializationAssumption, InitializationInv, NEW c \in Caller, Negotiate(c)
    PROVE  InitializationInv'
<1>0. PICK e : e = caller[c].e
  OBVIOUS
<1>1. /\ attempt[c] = "negotiate"
      /\ UNCHANGED <<queue, caller, lifecycle, active, decision, published, retiring, running>>
      /\ \/ /\ offer[c] = "none" /\ offer' = [offer EXCEPT ![c] = "prepared"]
            /\ attempt' = [attempt EXCEPT ![c] = "decision"]
         \/ attempt' = [attempt EXCEPT ![c] = "terminate"] /\ UNCHANGED offer
  BY DEF Negotiate
<1>2. /\ CallerPhase(c) /\ HolderOwns(c) /\ e \in Engine /\ EngineKnows(e)
      /\ lifecycle[e] = c
  BY <1>0, <1>1 DEF InitializationInv, CallerPhase, HolderOwns, Holding
<1>3. EngineKnows(e)'
  BY <1>1, <1>2, SameHelpers
<1>4. CASE /\ offer[c] = "none" /\ offer' = [offer EXCEPT ![c] = "prepared"]
           /\ attempt' = [attempt EXCEPT ![c] = "decision"]
  <2>1. "decision" \in AttemptType \ {"none"} /\ "prepared" \in OfferType
    BY DEF AttemptType, OfferType
  <2>2. /\ attempt'[c] = "decision" /\ offer'[c] = "prepared" /\ decision[c] = "none"
        /\ offer' \in [Caller -> OfferType] /\ \A d \in Caller \ {c} : offer'[d] = offer[d]
    BY <1>2, <1>4, <2>1, HelperTypes DEF CallerPhase
  <2>3. CallerPhase(c)'
    BY <1>0, <1>1, <1>2, <2>2 DEF CallerPhase
  <2>4. HolderOwns(c)'
    BY <1>0, <1>1, <1>2, <2>2 DEF HolderOwns, Holding
  <2>5. active' = IF "decision" = "finished" THEN active - 1 ELSE active
    BY <1>1
  <2> QED BY <1>0, <1>1, <1>2, <1>3, <1>4, <2>1, <2>2, <2>3, <2>4, <2>5, HelperTypes,
             AttemptMoves
<1>5. CASE attempt' = [attempt EXCEPT ![c] = "terminate"] /\ UNCHANGED offer
  <2>1. "terminate" \in AttemptType \ {"none"}
    BY DEF AttemptType
  <2>2. attempt'[c] = "terminate"
    BY <1>5, HelperTypes
  <2>3. CallerPhase(c)'
    BY <1>0, <1>1, <1>2, <1>5, <2>2 DEF CallerPhase
  <2>4. HolderOwns(c)'
    BY <1>0, <1>1, <1>2, <2>2 DEF HolderOwns, Holding
  <2>5. active' = IF "terminate" = "finished" THEN active - 1 ELSE active
    BY <1>1
  <2> QED BY <1>0, <1>1, <1>2, <1>3, <1>5, <2>1, <2>3, <2>4, <2>5, HelperTypes, AttemptMoves
<1> QED BY <1>1, <1>4, <1>5

LEMMA DecisionKeeps ==
    ASSUME InitializationAssumption, InitializationInv, NEW c \in Caller, AwaitDecision(c)
    PROVE  InitializationInv'
<1>0. PICK e : e = caller[c].e
  OBVIOUS
<1>1. /\ attempt[c] = "decision"
      /\ UNCHANGED <<queue, caller, decision, published, running>>
      /\ \/ /\ decision[c] = "accepted" /\ WorkerEnds(c, "none")
            /\ retiring' = [retiring EXCEPT ![e] = NoOne]
         \/ /\ decision[c] = "dropped" /\ attempt' = [attempt EXCEPT ![c] = "terminate"]
            /\ UNCHANGED <<retiring, offer, lifecycle, active>>
  BY <1>0 DEF AwaitDecision
<1>2. /\ CallerPhase(c) /\ HolderOwns(c) /\ e \in Engine /\ EngineKnows(e)
      /\ lifecycle[e] = c /\ retiring[e] = c
  BY <1>0, <1>1 DEF InitializationInv, CallerPhase, HolderOwns, Holding
<1>3. CASE /\ decision[c] = "accepted" /\ WorkerEnds(c, "none")
           /\ retiring' = [retiring EXCEPT ![e] = NoOne]
  <2>1. published[e] = c /\ offer[c] # "prepared"
    BY <1>0, <1>1, <1>2, <1>3 DEF HolderOwns, Holding, CallerPhase
  <2>2. NoOne \in Owner \ {Synthesis}
    BY DEF Owner, InitializationAssumption
  <2>3. /\ retiring' \in [Engine -> Owner \ {Synthesis}] /\ retiring'[e] = NoOne
        /\ \A x \in Engine \ {e} : retiring'[x] = retiring[x]
    BY <1>2, <1>3, <2>2, HelperTypes
  <2>4. EngineKnows(e)'
    BY <1>1, <1>2, <2>1, <2>3 DEF EngineKnows
  <2> QED BY <1>0, <1>1, <1>2, <1>3, <2>1, <2>3, <2>4, HelperTypes, WorkerEndsKeeps
<1>4. CASE /\ decision[c] = "dropped" /\ attempt' = [attempt EXCEPT ![c] = "terminate"]
           /\ UNCHANGED <<retiring, offer, lifecycle, active>>
  <2>1. "terminate" \in AttemptType \ {"none"}
    BY DEF AttemptType
  <2>2. attempt'[c] = "terminate"
    BY <1>4, HelperTypes
  <2>3. CallerPhase(c)'
    BY <1>0, <1>1, <1>2, <1>4, <2>2 DEF CallerPhase
  <2>4. HolderOwns(c)'
    BY <1>0, <1>1, <1>2, <1>4, <2>2 DEF HolderOwns, Holding
  <2>5. active' = IF "terminate" = "finished" THEN active - 1 ELSE active
    BY <1>4
  <2>6. EngineKnows(e)'
    BY <1>1, <1>2, <1>4, SameHelpers
  <2> QED BY <1>0, <1>1, <1>2, <1>4, <2>1, <2>3, <2>4, <2>5, <2>6, HelperTypes, AttemptMoves
<1> QED BY <1>1, <1>3, <1>4

LEMMA TerminateKeeps ==
    ASSUME InitializationAssumption, InitializationInv, NEW c \in Caller, TerminateOwn(c)
    PROVE  InitializationInv'
<1>0. PICK e : e = caller[c].e
  OBVIOUS
<1>1. /\ attempt[c] = "terminate" /\ WorkerEnds(c, "error")
      /\ UNCHANGED <<queue, caller, decision, published>>
      /\ TerminateConfirmed(e) \/ UNCHANGED <<retiring, running>>
  BY <1>0 DEF TerminateOwn, TerminateUnconfirmed
<1>2. /\ e \in Engine /\ EngineKnows(e) /\ offer[c] # "prepared"
      /\ lifecycle[e] = c /\ published[e] = NoOne
  BY <1>0, <1>1 DEF InitializationInv, CallerPhase, HolderOwns, Holding
<1>3. CASE TerminateConfirmed(e)
  <2>1. /\ EngineKnows(e)' /\ retiring' \in [Engine -> Owner \ {Synthesis}]
        /\ running' \subseteq Owner \X Engine
        /\ \A x \in Engine \ {e} :
              /\ retiring'[x] = retiring[x]
              /\ \A y : <<y, x>> \in running' <=> <<y, x>> \in running
    BY <1>1, <1>2, <1>3, TerminationKeeps
  <2> QED BY <1>0, <1>1, <1>2, <2>1, HelperTypes, WorkerEndsKeeps
<1>4. CASE UNCHANGED <<retiring, running>>
  <2>1. EngineKnows(e)'
    BY <1>1, <1>2, <1>4, SameHelpers
  <2> QED BY <1>0, <1>1, <1>2, <1>4, <2>1, HelperTypes, WorkerEndsKeeps
<1> QED BY <1>1, <1>3, <1>4

\* A synthesis connects an engine that has no helper.
LEMMA SynthesisKeeps ==
    ASSUME InitializationAssumption, InitializationInv, NEW e \in Engine, SynthesisConnects(e)
    PROVE  InitializationInv'
<1>1. /\ lifecycle[e] = NoOne /\ published[e] = NoOne /\ retiring[e] = NoOne
      /\ published' = [published EXCEPT ![e] = Synthesis]
      /\ running' = running \cup {<<Synthesis, e>>}
      /\ UNCHANGED <<queue, caller, attempt, lifecycle, active, offer, decision, retiring>>
  BY DEF SynthesisConnects
<1>2. /\ NoOne # Synthesis /\ Synthesis \notin Caller /\ NoOne \notin Caller
      /\ Synthesis \in Owner
  BY DEF InitializationAssumption, Owner
<1>3. /\ published' \in [Engine -> Owner] /\ published'[e] = Synthesis
      /\ \A x \in Engine \ {e} : published'[x] = published[x]
  BY <1>1, <1>2, HelperTypes
<1>4. running' \subseteq Owner \X Engine
  BY <1>1, <1>2, HelperTypes
<1>5. InitializationTypeOK' /\ QueueWaits' /\ SlotsCounted'
  BY <1>1, <1>3, <1>4 DEF InitializationInv, InitializationTypeOK, QueueWaits, SlotsCounted,
     ActiveAttempts
<1>6. ASSUME NEW d \in Caller PROVE CallerPhase(d)' /\ HolderOwns(d)'
  <2>1. CallerPhase(d) /\ HolderOwns(d)
    BY DEF InitializationInv
  <2>2. CallerPhase(d)'
    BY <1>1, <2>1 DEF CallerPhase
  <2>3. attempt[d] \in Holding => caller[d].e \in Engine \ {e}
    BY <1>1, <1>2, <2>1 DEF CallerPhase, HolderOwns, Holding
  <2>4. attempt[d] \in Holding => published'[caller[d].e] = published[caller[d].e]
    BY <1>3, <2>3
  <2>5. HolderOwns(d)'
    BY <1>1, <2>1, <2>4 DEF HolderOwns
  <2> QED BY <2>2, <2>5
<1>7. ASSUME NEW x \in Engine PROVE EngineKnows(x)'
  <2>1. EngineKnows(x)
    BY DEF InitializationInv
  <2>2. CASE x = e
    <3>1. \A y : <<y, e>> \in running' => y = Synthesis
      BY <1>1, <2>1, <2>2, ReapedEngine
    <3> QED BY <1>1, <1>2, <1>3, <2>2, <3>1 DEF EngineKnows
  <2>3. CASE x # e
    BY <1>1, <1>3, <2>1, <2>3 DEF EngineKnows
  <2> QED BY <2>2, <2>3
<1> QED BY <1>5, <1>6, <1>7 DEF InitializationInv

LEMMA InitializationInitially ==
    ASSUME InitializationAssumption, InitializationInit
    PROVE  InitializationInv
<1>1. /\ queue = Jobs /\ running = {} /\ active = 0
      /\ \A c \in Caller : /\ caller[c] = [pc |-> "idle", e |-> NoEngine, result |-> "none"]
                           /\ attempt[c] = "none" /\ offer[c] = "none" /\ decision[c] = "none"
      /\ \A e \in Engine : published[e] = NoOne /\ retiring[e] = NoOne
  BY DEF InitializationInit
<1>2. NoOne \in Owner \ {Synthesis} /\ NoOne \notin Caller
  BY DEF Owner, InitializationAssumption
<1>3. [pc |-> "idle", e |-> NoEngine, result |-> "none"] \in CallerType
  BY DEF CallerType
<1>4. caller \in [Caller -> CallerType]
  BY <1>3 DEF InitializationInit
<1>5. InitializationTypeOK
  BY <1>2, <1>4 DEF InitializationInit, InitializationTypeOK, InitializationAssumption,
     AttemptType, OfferType, DecisionType
<1>6. QueueWaits
  <2>1. \A i \in DOMAIN Jobs : Jobs[i] \in Caller
    BY DEF Caller, Batch
  <2> QED BY <1>1, <2>1 DEF QueueWaits, InitializationAssumption
<1>7. SlotsCounted
  <2>1. ActiveAttempts = {}
    BY <1>1 DEF ActiveAttempts
  <2> QED BY <1>1, <2>1, FS_EmptySet DEF SlotsCounted, InitializationAssumption
<1>8. \A c \in Caller : CallerPhase(c) /\ HolderOwns(c)
  BY <1>1 DEF CallerPhase, HolderOwns, Holding
<1>9. \A e \in Engine : EngineKnows(e)
  BY <1>1, <1>2 DEF EngineKnows
<1> QED BY <1>5, <1>6, <1>7, <1>8, <1>9 DEF InitializationInv

LEMMA InitializationKeeps ==
    ASSUME InitializationAssumption, InitializationInv, [InitializationNext]_initVars
    PROVE  InitializationInv'
<1>1. CASE UNCHANGED initVars
  BY <1>1 DEF initVars, InitializationInv, InitializationTypeOK, QueueWaits, SlotsCounted,
     ActiveAttempts, CallerPhase, HolderOwns, EngineKnows
<1>2. ASSUME NEW c \in Caller, CallerStep(c) \/ DeadlinePasses(c) PROVE InitializationInv'
  BY <1>2, CallersOfHelpersKeep
<1>3. ASSUME NEW c \in Caller, AttemptStep(c) PROVE InitializationInv'
  BY <1>3, EnterKeeps, ReapKeeps, NegotiateKeeps, DecisionKeeps, TerminateKeeps DEF AttemptStep
<1>4. ASSUME NEW c \in Rescan, NEW e \in Engine, AskAgain(c, e) PROVE InitializationInv'
  BY <1>4, CallersOfHelpersKeep DEF Caller
<1>5. ASSUME NEW e \in Engine, SynthesisConnects(e) PROVE InitializationInv'
  BY <1>5, SynthesisKeeps
<1>6. CASE InitializationIdle
  BY <1>1, <1>6 DEF InitializationIdle
<1> QED BY <1>1, <1>2, <1>3, <1>4, <1>5, <1>6 DEF InitializationNext

\* What the invariant is for: helpers published in time, and slots that cover them.
LEMMA InitializationIsSound ==
    ASSUME InitializationAssumption, InitializationInv
    PROVE  NoLatePublication /\ SlotsCoverAttempts
<1>1. NoLatePublication
  BY ZenonT(60) DEF InitializationInv, EngineKnows, NoLatePublication
<1>2. ASSUME NEW e \in Engine PROVE Cardinality({r \in running : r[2] = e}) <= 1
  <2> DEFINE R == {r \in running : r[2] = e}
             x == IF published[e] = NoOne THEN retiring[e] ELSE published[e]
  <2>1. EngineKnows(e) /\ running \subseteq Owner \X Engine
    BY DEF InitializationInv, InitializationTypeOK
  <2>2. NoOne \notin Caller \cup {Synthesis}
    BY DEF InitializationAssumption
  <2>3. \A y : <<y, e>> \in running => y = x
    BY <2>1, <2>2 DEF EngineKnows
  <2> HIDE DEF x
  <2>4. R \in SUBSET {<<x, e>>}
    BY <2>1, <2>3
  <2> HIDE DEF R
  <2>5. /\ Cardinality(R) <= Cardinality({<<x, e>>}) /\ Cardinality({<<x, e>>}) = 1
    BY <2>4, FS_Singleton, FS_Subset
  <2> QED BY <2>5 DEF R
<1>3. SlotsCoverAttempts
  BY <1>2 DEF InitializationInv, SlotsCounted, ActiveAttempts, SlotsCoverAttempts
<1> QED BY <1>1, <1>3

\* No helper that came up too late is published, none runs that nobody will reap,
\* and the slots cover every start, for any batch, rescans and number of slots.
THEOREM HelpersArePublishedInTime ==
    InitializationSpec => [](NoLatePublication /\ SlotsCoverAttempts)
<1>1. InitializationSpec => []InitializationInv
  BY InitializationAssumption, InitializationInitially, InitializationKeeps, PTL
     DEF InitializationSpec
<1>2. InitializationInv => NoLatePublication /\ SlotsCoverAttempts
  BY InitializationAssumption, InitializationIsSound
<1> QED BY <1>1, <1>2, PTL

----------------------------------------------------------
(* A PulseAudio lane: the inductive invariant *)

PuEntryType == [id : 1 .. Len(PuFrames), gen : Nat]
PuFrameType == [id : Nat, gen : Nat]
PuSourceType == [id : Nat, gen : Nat, left : Nat]

PuTypeOK ==
    /\ puQueue \in Seq(PuEntryType) /\ puGen \in Nat /\ puSeen \in Nat
    /\ puAppended \in Nat /\ puRead \in Nat
    /\ puCurrent \in PuSourceType /\ (puCurrent = PuNone \/ puCurrent.id # 0)
    /\ puBuffer \in Seq(PuFrameType)

\* What is pending is in the queue or with the worker, wherever the worker is.
PuCounts == puPending = Len(puQueue) + (IF PuHasSource THEN 1 ELSE 0)

\* The worker plays what was appended under the generation it has seen; a source
\* of a newer one it only keeps for the flush that must come first.
PuPlaces ==
    /\ puSeen <= puGen
    /\ puWorker \in {"feed", "write", "last"} => PuHasSource
    /\ puWorker \in {"idle", "rest", "waiting", "opening", "exiting", "exited"} => ~PuHasSource
    /\ puWorker \in {"choose", "feed", "write", "last"} /\ PuHasSource
          => puCurrent.gen = puSeen
    /\ puWorker = "top" /\ PuHasSource => puCurrent.gen = puSeen \/ puSeen < puGen

\* All of the server's buffer is of that generation; a new connection starts empty.
PuBuffered ==
    /\ \A i \in DOMAIN puBuffer : puBuffer[i].gen = puSeen
    /\ puWorker \in {"waiting", "opening"} => puBuffer = <<>>

PuInv == PuTypeOK /\ PuCounts /\ PuPlaces /\ PuBuffered

----------------------------------------------------------
(* A PulseAudio lane: its steps *)

\* Callers and time change the queue and the generation, nothing of the worker's.
LEMMA PuCallersKeep ==
    ASSUME PuInv,
           \/ PuAppend \/ PuClearRaises \/ PuClearTakes \/ PuDrain \/ PuShutdown
           \/ PuCooldownPasses \/ PuServerCloses \/ PuStallPasses
    PROVE  PuInv'
<1>1. UNCHANGED <<puWorker, puSeen, puCurrent, puRead, puBuffer>>
  BY DEF PuAppend, PuClearRaises, PuClearTakes, PuDrain, PuShutdown, PuCooldownPasses,
     PuServerCloses, PuStallPasses, puRun, puState
<1>2. /\ puQueue \in Seq(PuEntryType) /\ puGen \in Nat /\ puSeen \in Nat /\ puAppended \in Nat
      /\ Len(puQueue) \in Nat /\ PuCounts /\ puSeen <= puGen
  BY DEF PuInv, PuTypeOK, PuPlaces
<1>3. CASE PuAppend
  <2>1. UNCHANGED <<puQueue, puPending, puGen>>
        \/ /\ puQueue' = Append(puQueue, [id |-> puAppended + 1, gen |-> puGen])
           /\ puPending' = puPending + 1 /\ puGen' = puGen
    BY <1>3 DEF PuAppend, puState
  <2>2. puAppended' = puAppended + 1 /\ puAppended < Len(PuFrames) /\ Len(PuFrames) \in Nat
    BY <1>3, PuAssumption DEF PuAppend, PuAssumption
  <2>3. [id |-> puAppended + 1, gen |-> puGen] \in PuEntryType
    BY <1>2, <2>2 DEF PuEntryType
  <2> DEFINE n == [id |-> puAppended + 1, gen |-> puGen]
  <2> HIDE DEF n
  <2>4. Append(puQueue, n) \in Seq(PuEntryType) /\ Len(Append(puQueue, n)) = Len(puQueue) + 1
    BY <1>2, <2>3 DEF n
  <2>5. /\ puQueue' \in Seq(PuEntryType) /\ puGen' = puGen
        /\ puPending' = Len(puQueue') + (IF PuHasSource THEN 1 ELSE 0)
    BY SMTT(60), <1>2, <2>1, <2>4 DEF PuCounts, PuHasSource, n
  <2> QED BY <1>1, <1>2, <2>2, <2>5 DEF PuInv, PuTypeOK, PuCounts, PuPlaces, PuBuffered,
             PuHasSource
<1>4. CASE PuClearRaises
  <2>1. puGen' = puGen + 1 /\ UNCHANGED <<puQueue, puPending, puAppended>>
    BY <1>4 DEF PuClearRaises
  <2>2. puGen' \in Nat /\ puSeen <= puGen' /\ puSeen < puGen'
    BY <1>2, <2>1
  <2> QED BY <1>1, <1>2, <2>1, <2>2 DEF PuInv, PuTypeOK, PuCounts, PuPlaces, PuBuffered,
             PuHasSource
<1>5. CASE PuClearTakes
  <2>1. /\ UNCHANGED <<puGen, puAppended>>
        /\ \/ UNCHANGED <<puQueue, puPending>>
           \/ puQueue' = <<>> /\ puPending' = puPending - Len(puQueue)
    BY <1>5 DEF PuClearTakes, PuPendingAfterClear
  <2> DEFINE held == IF PuHasSource THEN 1 ELSE 0
  <2>2. held \in Nat /\ puPending = Len(puQueue) + held
    BY <1>2 DEF PuCounts
  <2> HIDE DEF held
  <2>3. CASE UNCHANGED <<puQueue, puPending>>
    BY <1>1, <1>2, <2>1, <2>3 DEF PuInv, PuTypeOK, PuCounts, PuPlaces, PuBuffered,
       PuHasSource
  <2>4. CASE puQueue' = <<>> /\ puPending' = puPending - Len(puQueue)
    <3>1. puQueue' \in Seq(PuEntryType) /\ Len(puQueue') = 0
      BY <2>4
    <3>2. puPending' = held
      BY <1>2, <2>2, <2>4
    <3>3. puPending' = Len(puQueue') + (IF PuHasSource THEN 1 ELSE 0)
      BY <3>1, <3>2 DEF held
    <3> QED BY <1>1, <1>2, <2>1, <3>1, <3>3 DEF PuInv, PuTypeOK, PuCounts, PuPlaces,
               PuBuffered, PuHasSource
  <2> QED BY <2>1, <2>3, <2>4
<1>6. CASE PuDrain \/ PuShutdown \/ PuCooldownPasses \/ PuServerCloses \/ PuStallPasses
  <2>1. UNCHANGED <<puQueue, puPending, puGen, puAppended>>
    BY <1>6 DEF PuDrain, PuShutdown, PuCooldownPasses, PuServerCloses, PuStallPasses, puState,
       puCaller
  <2> QED BY <1>1, <2>1 DEF PuInv, PuTypeOK, PuCounts, PuPlaces, PuBuffered, PuHasSource
<1> QED BY <1>3, <1>4, <1>5, <1>6

\* The server plays what is first.
LEMMA PuPlaysKeeps ==
    ASSUME PuInv, PuPlays
    PROVE  PuInv'
<1>1. /\ puBuffer # <<>> /\ puBuffer' = Tail(puBuffer)
      /\ UNCHANGED <<puQueue, puPending, puGen, puAppended, puWorker, puSeen, puCurrent, puRead>>
  BY DEF PuPlays, puState, puCaller, puRun
<1>2. puBuffer \in Seq(PuFrameType)
  BY DEF PuInv, PuTypeOK
<1>3. puBuffer' \in Seq(PuFrameType) /\ \A i \in DOMAIN puBuffer' : puBuffer'[i].gen = puSeen
  <2>1. /\ Len(puBuffer) \in Nat \ {0} /\ DOMAIN puBuffer = 1 .. Len(puBuffer)
        /\ Tail(puBuffer) \in Seq(PuFrameType) /\ DOMAIN Tail(puBuffer) = 1 .. Len(puBuffer) - 1
        /\ \A i \in 1 .. Len(puBuffer) - 1 : Tail(puBuffer)[i] = puBuffer[i + 1]
    BY <1>1, <1>2
  <2>2. \A i \in 1 .. Len(puBuffer) - 1 : i + 1 \in 1 .. Len(puBuffer)
    BY <2>1
  <2> QED BY <1>1, <2>1, <2>2 DEF PuInv, PuBuffered
<1>4. puWorker \notin {"waiting", "opening"}
  BY <1>1 DEF PuInv, PuBuffered
<1> QED BY <1>1, <1>3, <1>4 DEF PuInv, PuTypeOK, PuCounts, PuPlaces, PuBuffered, PuHasSource

\* Waiting, opening, and retiring with the whole backlog.
LEMMA PuConnectionKeeps ==
    ASSUME PuInv, PuAwaitAudio \/ PuOpen \/ PuRetires, UNCHANGED puCaller
    PROVE  PuInv'
<1>1. puGen \in Nat /\ puSeen \in Nat /\ puAppended' = puAppended
  BY DEF PuInv, PuTypeOK, puCaller
<1>2. CASE PuAwaitAudio
  <2>1. /\ UNCHANGED <<puQueue, puPending, puGen, puCurrent, puRead, puBuffer>>
        /\ puWorker = "waiting" /\ puWorker' \in {"exiting", "opening"} /\ puSeen' \in {puSeen, puGen}
    BY <1>2 DEF PuAwaitAudio, PuGoes, puState
  <2>2. puBuffer = <<>> /\ ~PuHasSource /\ puSeen' \in Nat /\ puSeen' <= puGen
    BY <1>1, <2>1 DEF PuInv, PuPlaces, PuBuffered
  <2> QED BY <1>1, <2>1, <2>2 DEF PuInv, PuTypeOK, PuCounts, PuPlaces, PuBuffered, PuHasSource
<1>3. CASE PuOpen
  <2>1. /\ UNCHANGED <<puQueue, puPending, puGen, puSeen, puCurrent, puRead, puBuffer>>
        /\ puWorker = "opening" /\ puWorker' \in {"retiring", "top"}
    BY <1>3 DEF PuOpen, PuGoes
  <2> QED BY <1>1, <2>1 DEF PuInv, PuTypeOK, PuCounts, PuPlaces, PuBuffered, PuHasSource
<1>4. CASE PuRetires
  <2>1. /\ puQueue' = <<>> /\ puPending' = 0 /\ puGen' = puGen + 1 /\ puCurrent' = PuNone
        /\ puRead' = 0 /\ puBuffer' = <<>> /\ puSeen' = puSeen
        /\ puWorker' \in {"waiting", "exited"}
    BY <1>4 DEF PuRetires, PuRetire, PuGoes, PuDisconnected
  <2>2. puGen' \in Nat /\ puSeen <= puGen'
    <3>1. puSeen <= puGen
      BY DEF PuInv, PuPlaces
    <3> QED BY <1>1, <2>1, <3>1
  <2>3. PuNone \in PuSourceType
    BY DEF PuNone, PuSourceType
  <2>4. PuTypeOK'
    BY <1>1, <2>1, <2>2, <2>3 DEF PuInv, PuTypeOK
  <2>5. PuCounts' /\ PuPlaces' /\ PuBuffered'
    BY <2>1, <2>2 DEF PuCounts, PuPlaces, PuBuffered, PuHasSource
  <2> QED BY <2>4, <2>5 DEF PuInv
<1> QED BY <1>2, <1>3, <1>4

\* A moved generation empties the buffer before anything else is played.
LEMMA PuTopKeeps ==
    ASSUME PuInv, PuTop, UNCHANGED puCaller
    PROVE  PuInv'
<1>1. /\ puGen \in Nat /\ puSeen \in Nat /\ puAppended' = puAppended /\ puSeen <= puGen
      /\ puWorker = "top" /\ puQueue \in Seq(PuEntryType) /\ Len(puQueue) \in Nat
  BY DEF PuInv, PuTypeOK, PuPlaces, puCaller, PuTop
<1>2. CASE PuFails
  <2>1. /\ puWorker' = "retiring"
        /\ UNCHANGED <<puQueue, puPending, puGen, puSeen, puCurrent, puRead, puBuffer>>
    BY <1>2 DEF PuFails, PuGoes, puState, puRun
  <2> QED BY <1>1, <2>1 DEF PuInv, PuTypeOK, PuCounts, PuPlaces, PuBuffered, PuHasSource
<1>3. CASE puGen = puSeen /\ PuGoes("choose") /\ UNCHANGED <<puState, puRun, puBuffer>>
  <2>1. /\ puWorker' = "choose" /\ ~(puSeen < puGen)
        /\ UNCHANGED <<puQueue, puPending, puGen, puSeen, puCurrent, puRead, puBuffer>>
    BY <1>1, <1>3 DEF PuGoes, puState, puRun
  <2> QED BY <1>1, <2>1 DEF PuInv, PuTypeOK, PuCounts, PuPlaces, PuBuffered, PuHasSource
<1>4. CASE /\ puBuffer' = <<>> /\ puSeen' = puGen /\ puWorker' = "choose"
           /\ IF PuHasSource /\ puCurrent.gen # puGen THEN PuFinishCurrent
              ELSE UNCHANGED <<puPending, puCurrent>>
           /\ UNCHANGED <<puQueue, puGen, puRead>>
  <2>1. PuNone \in PuSourceType
    BY DEF PuNone, PuSourceType
  <2>2. PuTypeOK'
    BY <1>1, <1>4, <2>1 DEF PuInv, PuTypeOK, PuFinishCurrent
  <2>3. PuCounts'
    BY <1>1, <1>4 DEF PuInv, PuCounts, PuFinishCurrent, PuHasSource
  <2>4. PuPlaces'
    BY <1>1, <1>4 DEF PuPlaces, PuFinishCurrent, PuHasSource
  <2>5. PuBuffered'
    BY <1>4 DEF PuBuffered
  <2> QED BY <2>2, <2>3, <2>4, <2>5 DEF PuInv
<1> QED BY <1>2, <1>3, <1>4 DEF PuTop, PuFlushed, PuGoes

\* The next source goes to the worker, or is dropped: either way it is accounted for.
LEMMA PuChooseKeeps ==
    ASSUME PuInv, PuChoose, UNCHANGED puCaller
    PROVE  PuInv'
<1>1. /\ puGen \in Nat /\ puSeen \in Nat /\ puSeen <= puGen /\ puAppended' = puAppended
      /\ puWorker = "choose" /\ puQueue \in Seq(PuEntryType) /\ PuCounts
      /\ UNCHANGED <<puGen, puSeen, puRead, puBuffer>>
  BY DEF PuInv, PuTypeOK, PuPlaces, puCaller, PuChoose
<1>2. CASE PuHasSource \/ puQueue = <<>>
  <2>1. /\ puWorker' = IF PuHasSource THEN "feed" ELSE "idle"
        /\ UNCHANGED <<puPending, puQueue, puCurrent>>
    BY <1>2 DEF PuChoose, PuGoes
  <2> QED BY <1>1, <2>1 DEF PuInv, PuTypeOK, PuCounts, PuPlaces, PuBuffered, PuHasSource
<1>3. CASE ~PuHasSource /\ puQueue # <<>>
  <2> DEFINE next == Head(puQueue)
             s == [id |-> next.id, gen |-> next.gen, left |-> PuFrames[next.id]]
  <2>1. /\ next \in PuEntryType /\ Tail(puQueue) \in Seq(PuEntryType)
        /\ Len(puQueue) \in Nat /\ Len(Tail(puQueue)) = Len(puQueue) - 1
    BY <1>1, <1>3
  <2>2. /\ next.gen \in Nat /\ PuFrames[next.id] \in Nat /\ next.id \in Nat /\ next.id # 0
    BY SMTT(60), <2>1, PuAssumption DEF PuEntryType, PuAssumption
  <2>3. /\ puQueue' = Tail(puQueue)
        /\ puWorker' = IF next.gen = puSeen THEN "feed" ELSE "top"
        /\ IF next.gen # puSeen /\ next.gen # puGen
           THEN puPending' = puPending - 1 /\ UNCHANGED puCurrent
           ELSE puCurrent' = s /\ UNCHANGED puPending
    BY <1>3 DEF PuChoose, PuGoes
  <2>4. s \in PuSourceType /\ s.id # 0 /\ s.gen = next.gen /\ s # PuNone
    BY <2>2 DEF PuSourceType, PuNone
  <2> HIDE DEF next, s
  <2>5. CASE next.gen # puSeen /\ next.gen # puGen
    <3>1. puPending' = puPending - 1 /\ puCurrent' = puCurrent /\ puWorker' = "top"
      BY <2>3, <2>5
    <3>2. PuCounts'
      BY <1>1, <1>3, <2>1, <2>3, <3>1 DEF PuCounts, PuHasSource
    <3> QED BY <1>1, <1>3, <2>1, <2>3, <3>1, <3>2 DEF PuInv, PuTypeOK, PuPlaces, PuBuffered,
               PuHasSource
  <2>6. CASE ~(next.gen # puSeen /\ next.gen # puGen)
    <3>1. /\ puPending' = puPending /\ puCurrent' = s
          /\ puWorker' = IF s.gen = puSeen THEN "feed" ELSE "top"
          /\ s.gen = puSeen \/ puSeen < puGen
      BY <1>1, <2>2, <2>3, <2>4, <2>6
    <3>2. PuCounts'
      BY <1>1, <1>3, <2>1, <2>3, <2>4, <3>1 DEF PuCounts, PuHasSource
    <3>3. PuPlaces'
      BY <1>1, <2>4, <3>1 DEF PuPlaces, PuHasSource
    <3>4. PuTypeOK'
      BY <1>1, <2>1, <2>3, <2>4, <3>1 DEF PuInv, PuTypeOK
    <3>5. PuBuffered'
      BY <1>1, <3>1 DEF PuInv, PuBuffered
    <3> QED BY <3>2, <3>3, <3>4, <3>5 DEF PuInv
  <2> QED BY <2>5, <2>6
<1> QED BY <1>2, <1>3

LEMMA PuIdleKeeps ==
    ASSUME PuInv, PuIdleStep \/ PuRest, UNCHANGED puCaller
    PROVE  PuInv'
<1>1. /\ UNCHANGED <<puQueue, puPending, puGen, puSeen, puCurrent, puRead, puBuffer, puAppended>>
      /\ puWorker \in {"idle", "rest"} /\ puWorker' \in {"rest", "retiring", "top"}
  BY DEF PuIdleStep, PuRest, PuGoes, puState, puRun, puCaller
<1> QED BY <1>1 DEF PuInv, PuTypeOK, PuCounts, PuPlaces, PuBuffered, PuHasSource

\* What is read is of the current source, which goes on with the rest.
LEMMA PuFeedKeeps ==
    ASSUME PuInv, PuFeed, UNCHANGED puCaller
    PROVE  PuInv'
<1>1. /\ UNCHANGED <<puQueue, puPending, puGen, puSeen, puBuffer, puAppended>>
      /\ puWorker = "feed" /\ PuHasSource /\ puCurrent \in PuSourceType /\ puCurrent.id # 0
      /\ puCurrent.gen = puSeen
  BY DEF PuFeed, puState, puCaller, PuInv, PuPlaces, PuTypeOK, PuHasSource
<1>2. CASE UNCHANGED <<puRead, puCurrent>> /\ puWorker' \in {"top", "retiring"}
  BY <1>1, <1>2 DEF PuInv, PuTypeOK, PuCounts, PuPlaces, PuBuffered, PuHasSource
<1>3. ASSUME NEW n \in 1 .. PuWriteFrames,
             puRead' = IF puCurrent.left < n THEN puCurrent.left ELSE n,
             puCurrent' = [puCurrent EXCEPT !.left = @ - puRead'],
             puWorker' \in {"last", "write"}
      PROVE  PuInv'
  <2>1. puCurrent.left \in Nat /\ n \in Nat
    BY <1>1, PuAssumption DEF PuSourceType, PuAssumption
  <2>2. puRead' \in Nat /\ puCurrent.left - puRead' \in Nat
    BY <1>3, <2>1
  <2>3. /\ puCurrent' \in PuSourceType /\ puCurrent'.id = puCurrent.id
        /\ puCurrent'.gen = puCurrent.gen
    BY <1>1, <1>3, <2>2 DEF PuSourceType
  <2>4. puCurrent' # PuNone
    BY <1>1, <2>3 DEF PuNone
  <2>5. PuTypeOK'
    BY <1>1, <2>2, <2>3 DEF PuInv, PuTypeOK
  <2>6. PuCounts'
    BY <1>1, <2>4 DEF PuInv, PuCounts, PuHasSource
  <2>7. PuPlaces' /\ PuBuffered'
    BY <1>1, <1>3, <2>3, <2>4 DEF PuInv, PuPlaces, PuBuffered, PuHasSource
  <2> QED BY <2>5, <2>6, <2>7 DEF PuInv
<1> QED BY <1>2, <1>3 DEF PuFeed, PuGoes

\* What is written is of the generation the worker has seen.
LEMMA PuWriteKeeps ==
    ASSUME PuInv, PuWrite, UNCHANGED puCaller
    PROVE  PuInv'
<1>1. /\ puAppended' = puAppended /\ puWorker \in {"write", "last"} /\ PuHasSource
      /\ puCurrent \in PuSourceType /\ puCurrent.gen = puSeen /\ puRead \in Nat
      /\ puBuffer \in Seq(PuFrameType) /\ Len(puQueue) \in Nat
  BY DEF PuWrite, puCaller, PuInv, PuPlaces, PuTypeOK
<1>2. CASE PuFails
  <2>1. /\ puWorker' = "retiring"
        /\ UNCHANGED <<puQueue, puPending, puGen, puSeen, puCurrent, puRead, puBuffer>>
    BY <1>2 DEF PuFails, PuGoes, puState, puRun
  <2> QED BY <1>1, <2>1 DEF PuInv, PuTypeOK, PuCounts, PuPlaces, PuBuffered, PuHasSource
<1>3. CASE /\ puBuffer' = puBuffer \o PuWritten /\ puRead' = 0 /\ puWorker' = "top"
           /\ \/ PuFinishCurrent
              \/ UNCHANGED <<puPending, puCurrent>>
           /\ UNCHANGED <<puQueue, puGen, puSeen>>
  <2> DEFINE W == PuWritten
  <2>1. /\ W \in Seq(PuFrameType) /\ \A k \in DOMAIN W : W[k].gen = puSeen
    BY <1>1 DEF PuWritten, PuFrameType, PuSourceType
  <2> HIDE DEF W
  <2>2. /\ puBuffer \o W \in Seq(PuFrameType)
        /\ \A i \in DOMAIN (puBuffer \o W) :
              (puBuffer \o W)[i] = IF i <= Len(puBuffer) THEN puBuffer[i]
                                   ELSE W[i - Len(puBuffer)]
        /\ \A i \in DOMAIN (puBuffer \o W) :
              IF i <= Len(puBuffer) THEN i \in DOMAIN puBuffer
              ELSE i - Len(puBuffer) \in DOMAIN W
    BY <1>1, <2>1
  <2>3. \A i \in DOMAIN puBuffer' : puBuffer'[i].gen = puSeen
    BY <1>3, <2>1, <2>2 DEF PuInv, PuBuffered, W
  <2>4. puBuffer' \in Seq(PuFrameType)
    BY <1>3, <2>2 DEF W
  <2>5. PuNone \in PuSourceType
    BY DEF PuNone, PuSourceType
  <2>6. PuTypeOK'
    BY <1>1, <1>3, <2>4, <2>5 DEF PuInv, PuTypeOK, PuFinishCurrent
  <2>7. PuCounts'
    BY <1>1, <1>3 DEF PuInv, PuCounts, PuFinishCurrent, PuHasSource
  <2>8. PuPlaces'
    BY <1>1, <1>3 DEF PuInv, PuPlaces, PuFinishCurrent, PuHasSource
  <2>9. PuBuffered'
    BY <1>3, <2>3 DEF PuBuffered
  <2> QED BY <2>6, <2>7, <2>8, <2>9 DEF PuInv
<1> QED BY <1>2, <1>3 DEF PuWrite, PuGoes

LEMMA PuInitially == PuInit => PuInv
<1> SUFFICES ASSUME PuInit PROVE PuInv
  OBVIOUS
<1>1. PuTypeOK
  BY DEF PuInit, PuTypeOK, PuNone, PuSourceType
<1>2. PuCounts /\ PuPlaces /\ PuBuffered
  BY DEF PuInit, PuCounts, PuPlaces, PuBuffered, PuHasSource
<1> QED BY <1>1, <1>2 DEF PuInv

LEMMA PuKeeps == PuInv /\ [PuNext]_puVars => PuInv'
<1> SUFFICES ASSUME PuInv, [PuNext]_puVars PROVE PuInv'
  OBVIOUS
<1>1. CASE UNCHANGED puVars
  BY <1>1 DEF puVars, puState, puCaller, puRun, PuInv, PuTypeOK, PuCounts, PuPlaces, PuBuffered,
     PuHasSource
<1>2. CASE PuWorkerStep
  BY <1>2, PuConnectionKeeps, PuTopKeeps, PuChooseKeeps, PuIdleKeeps, PuFeedKeeps, PuWriteKeeps
     DEF PuWorkerStep
<1>3. CASE PuPlays
  BY <1>3, PuPlaysKeeps
<1>4. CASE \/ PuAppend \/ PuClearRaises \/ PuClearTakes \/ PuDrain \/ PuShutdown
           \/ PuCooldownPasses \/ PuServerCloses \/ PuStallPasses
  BY <1>4, PuCallersKeep
<1> QED BY <1>1, <1>2, <1>3, <1>4 DEF PuNext

\* No PCM of a retired generation is mixed with its replacement, and the pending
\* count is exact, for any sources, clears and losses of the server.
THEOREM PulseIsSound == PuSpec => [](OneGenerationBuffered /\ PendingIsExact)
<1>1. PuSpec => []PuInv
  BY PuInitially, PuKeeps, PTL DEF PuSpec
<1>2. PuInv => OneGenerationBuffered /\ PendingIsExact
  BY DEF PuInv, PuBuffered, PuCounts, OneGenerationBuffered, PendingIsExact
<1> QED BY <1>1, <1>2, PTL

----------------------------------------------------------
(* A progressive source: the inductive invariant *)

PgMessage == [kind : {"Audio", "Complete"}, frames : Nat, cues : Seq(Nat)]
PgProducer == [pc : {"new", "ready", "send", "attach", "gate", "failed", "done"},
               frames : Nat, windows : Nat, cues : Seq(Nat), sending : Seq(PgMessage),
               last : Nat, token : Nat, generation : Nat, finished : BOOLEAN]
PgSource == [place : {"none", "held", "sink", "ended"}, position : Nat, current : Nat,
             cues : Seq(Nat), fade : {"Playing", "Fading", "Finished"}, faded : Nat,
             token : Nat]
PgReport == [cue : Nat, at : Nat]

PgTypeOK ==
    /\ producer \in PgProducer /\ channel \in Seq(PgMessage) /\ source \in PgSource
    /\ speech \in Seq({"p", "b"}) /\ reported \in Seq(PgReport)
    /\ stopState \in [generation : Nat, token : Nat, request : BOOLEAN, others : Nat,
                      null : BOOLEAN]
    /\ progTicket \in {"none", "pending", "Completed", "Cancelled"}

\* The source and its producer were stamped together, no later than the last
\* stop; while their token is the stream's, so is the generation.
PgStamped ==
    /\ source.token = producer.token /\ producer.token <= stopState.token
    /\ producer.pc # "new" /\ producer.token = stopState.token
          => producer.generation = stopState.generation

\* Where the source is: alone in the sink exactly while it is played.
PgPlaces ==
    /\ producer.pc = "new" <=> source.place = "none"
    /\ producer.pc = "gate" => source.place = "held"
    /\ \A i, j \in DOMAIN speech :
          speech[i] = "p" => source.place = "sink" /\ (speech[j] = "p" => i = j)
    /\ progTicket = "none" <=> source.place = "none"
    /\ progTicket \in {"Completed", "Cancelled"} => source.place = "ended"

\* One message is in the producer's hands, and only while it is sending;
\* completion is the last message, with nothing behind it.
PgSending ==
    /\ producer.pc = "send" => Len(producer.sending) = 1 /\ producer.cues = <<>>
    /\ producer.pc \in {"new", "ready", "attach", "gate"} => producer.sending = <<>>
    /\ \A i \in DOMAIN producer.sending :
          producer.sending[i].kind = "Complete" => producer.sending[i].frames = 0
    /\ producer.finished =>
          /\ producer.pc \in {"attach", "gate", "failed", "done"}
          /\ producer.sending = <<>> /\ producer.cues = <<>>
    /\ \A i \in DOMAIN channel :
          channel[i].kind = "Complete"
              => producer.finished /\ i = Len(channel) /\ channel[i].frames = 0

\* The frames the producer sent are played, in the source's window or in the
\* channel: h counts them up along the channel.
PgConserved ==
    \E h \in [0 .. Len(channel) -> Nat] :
        /\ h[0] = source.position + source.current
        /\ \A i \in DOMAIN channel : h[i] = h[i - 1] + channel[i].frames
        /\ h[Len(channel)] = producer.frames

\* The last cue that was accepted is somewhere between its push and its report.
CueIn(c, cues) == \E i \in DOMAIN cues : cues[i] = c
CueInSome(c, messages) == \E i \in DOMAIN messages : CueIn(c, messages[i].cues)
CueReported(c) == \E i \in DOMAIN reported : reported[i].cue = c

PgCueKept ==
    producer.last > 0 /\ progTicket # "Cancelled" =>
        \/ CueReported(producer.last) \/ CueIn(producer.last, source.cues)
        \/ CueInSome(producer.last, channel) \/ CueInSome(producer.last, producer.sending)
        \/ CueIn(producer.last, producer.cues)

\* Reports carry the frame of their cue, in order, none ahead of the playback.
PgReports ==
    \A i \in DOMAIN reported :
        /\ reported[i].cue = reported[i].at /\ reported[i].at <= source.position
        /\ \A j \in 1 .. i : reported[j].at <= reported[i].at

\* A source that completed has nothing left to play or to report.
PgCompleted ==
    progTicket = "Completed" =>
        /\ producer.finished /\ source.position = producer.frames
        /\ producer.last > 0 => CueReported(producer.last)

PgInv == /\ PgTypeOK /\ PgStamped /\ PgPlaces /\ PgSending /\ PgConserved /\ PgCueKept
         /\ PgReports /\ PgCompleted

\* A set of numbers from 1 that has whatever is below its members is an interval.
LEMMA FrontIsInterval ==
    ASSUME NEW L \in Nat, NEW S \in SUBSET (1 .. L),
           \A i \in S : 1 .. i \subseteq S
    PROVE  Cardinality(S) \in 0 .. L /\ S = 1 .. Cardinality(S)
<1>1. IsFiniteSet(1 .. L) /\ Cardinality(1 .. L) = L
  BY FS_Interval
<1>2. IsFiniteSet(S) /\ Cardinality(S) \in Nat /\ Cardinality(S) <= L
  BY ZenonT(60), <1>1, FS_Subset, FS_CardinalityType
<1>3. ASSUME NEW i \in S
      PROVE  i \in 1 .. Cardinality(S)
  <2>1. i \in Nat \ {0} /\ IsFiniteSet(1 .. i) /\ Cardinality(1 .. i) = i
    BY FS_Interval
  <2>2. i <= Cardinality(S)
    BY <1>2, <2>1, FS_Subset
  <2> QED BY <1>2, <2>1, <2>2
<1>4. IsFiniteSet(1 .. Cardinality(S)) /\ Cardinality(1 .. Cardinality(S)) = Cardinality(S)
  BY <1>2, FS_Interval
<1>5. S = 1 .. Cardinality(S)
  BY <1>2, <1>3, <1>4, FS_Subset
<1> QED BY <1>2, <1>5

\* What is due is at this frame, and what is not due stays.
LEMMA DueCuesSplit ==
    ASSUME NEW cues \in Seq(Nat), NEW position \in Nat
    PROVE  /\ TakeDue(cues, position).due \in Seq(Nat)
           /\ TakeDue(cues, position).left \in Seq(Nat)
           /\ \A i \in DOMAIN TakeDue(cues, position).due :
                 TakeDue(cues, position).due[i] = position
           /\ \A c \in Nat : CueIn(c, cues) =>
                 CueIn(c, TakeDue(cues, position).due)
                 \/ CueIn(c, TakeDue(cues, position).left)
<1> DEFINE S == {i \in DOMAIN cues : \A j \in 1 .. i : cues[j] = position}
           n == Cardinality(S)
<1>1. DOMAIN cues = 1 .. Len(cues) /\ Len(cues) \in Nat
  OBVIOUS
<1>2. S \in SUBSET (1 .. Len(cues)) /\ \A i \in S : 1 .. i \subseteq S
  <2>1. ASSUME NEW i \in S, NEW k \in 1 .. i
        PROVE  k \in S
    <3>1. k \in DOMAIN cues /\ 1 .. k \subseteq 1 .. i
      BY <1>1
    <3> QED BY <3>1
  <2> QED BY <1>1, <2>1
<1>3. n \in 0 .. Len(cues) /\ S = 1 .. n
  <2> HIDE DEF S
  <2> QED BY <1>1, <1>2, FrontIsInterval
<1>4. \A i \in 1 .. n : cues[i] = position
  <2>1. ASSUME NEW i \in 1 .. n
        PROVE  cues[i] = position
    <3>1. i \in S /\ i \in 1 .. i
      BY <1>3
    <3> QED BY <3>1
  <2> QED BY <2>1
<1>5. TakeDue(cues, position) = [due |-> SubSeq(cues, 1, n),
                                 left |-> SubSeq(cues, n + 1, Len(cues))]
  BY DEF TakeDue
<1> HIDE DEF n, S
<1>6. /\ SubSeq(cues, 1, n) \in Seq(Nat) /\ DOMAIN SubSeq(cues, 1, n) = 1 .. n
      /\ \A i \in 1 .. n : SubSeq(cues, 1, n)[i] = cues[i]
  BY <1>1, <1>3
<1>7. /\ SubSeq(cues, n + 1, Len(cues)) \in Seq(Nat)
      /\ DOMAIN SubSeq(cues, n + 1, Len(cues)) = 1 .. Len(cues) - n
      /\ \A i \in 1 .. Len(cues) - n : SubSeq(cues, n + 1, Len(cues))[i] = cues[n + i]
  BY <1>1, <1>3
<1>8. ASSUME NEW c \in Nat, CueIn(c, cues)
      PROVE  CueIn(c, SubSeq(cues, 1, n)) \/ CueIn(c, SubSeq(cues, n + 1, Len(cues)))
  <2>1. PICK i \in 1 .. Len(cues) : cues[i] = c
    BY <1>1, <1>8 DEF CueIn
  <2>2. CASE i <= n
    <3>1. i \in 1 .. n
      BY <1>3, <2>2
    <3> QED BY <1>6, <2>1, <3>1 DEF CueIn
  <2>3. CASE i > n
    <3>1. i - n \in 1 .. Len(cues) - n /\ n + (i - n) = i
      BY <1>1, <1>3, <2>3
    <3> QED BY <1>7, <2>1, <3>1 DEF CueIn
  <2> QED BY <1>3, <2>2, <2>3
<1> QED BY <1>4, <1>5, <1>6, <1>7, <1>8

\* Two sequences of the same things, one after the other.
LEMMA Joined ==
    ASSUME NEW T, NEW s \in Seq(T), NEW t \in Seq(T)
    PROVE  /\ s \o t \in Seq(T) /\ Len(s) \in Nat /\ Len(t) \in Nat
           /\ Len(s \o t) = Len(s) + Len(t) /\ DOMAIN (s \o t) = 1 .. Len(s) + Len(t)
           /\ \A i \in 1 .. Len(s) : (s \o t)[i] = s[i]
           /\ \A i \in 1 .. Len(s) + Len(t) :
                 i > Len(s) => (s \o t)[i] = t[i - Len(s)]
<1>1. s \o t \in Seq(T) /\ Len(s \o t) = Len(s) + Len(t)
  OBVIOUS
<1>2. \A i \in 1 .. Len(s) + Len(t) :
         (s \o t)[i] = IF i <= Len(s) THEN s[i] ELSE t[i - Len(s)]
  OBVIOUS
<1> QED BY <1>1, <1>2

LEMMA CuesJoined ==
    ASSUME NEW s \in Seq(Nat), NEW t \in Seq(Nat)
    PROVE  /\ s \o t \in Seq(Nat)
           /\ \A c \in Nat : CueIn(c, s) \/ CueIn(c, t) => CueIn(c, s \o t)
           /\ \A i \in DOMAIN (s \o t) : \/ \E j \in DOMAIN s : (s \o t)[i] = s[j]
                                         \/ \E j \in DOMAIN t : (s \o t)[i] = t[j]
<1> DEFINE both == s \o t
<1>1. /\ both \in Seq(Nat) /\ Len(s) \in Nat /\ Len(t) \in Nat
      /\ DOMAIN s = 1 .. Len(s) /\ DOMAIN t = 1 .. Len(t)
      /\ DOMAIN both = 1 .. Len(s) + Len(t)
      /\ \A i \in 1 .. Len(s) : both[i] = s[i]
      /\ \A i \in 1 .. Len(s) + Len(t) : i > Len(s) => both[i] = t[i - Len(s)]
  BY Joined
<1> HIDE DEF both
<1>2. ASSUME NEW c \in Nat, CueIn(c, s)
      PROVE  CueIn(c, both)
  <2>1. PICK i \in 1 .. Len(s) : s[i] = c
    BY <1>1, <1>2 DEF CueIn
  <2>2. i \in DOMAIN both /\ both[i] = c
    BY <1>1, <2>1
  <2> QED BY <2>2 DEF CueIn
<1>3. ASSUME NEW c \in Nat, CueIn(c, t)
      PROVE  CueIn(c, both)
  <2>1. PICK i \in 1 .. Len(t) : t[i] = c
    BY <1>1, <1>3 DEF CueIn
  <2>2. /\ Len(s) + i \in 1 .. Len(s) + Len(t) /\ Len(s) + i > Len(s)
        /\ (Len(s) + i) - Len(s) = i
    BY <1>1, <2>1
  <2>3. Len(s) + i \in DOMAIN both /\ both[Len(s) + i] = c
    BY <1>1, <2>1, <2>2
  <2> QED BY <2>3 DEF CueIn
<1>4. ASSUME NEW i \in DOMAIN both
      PROVE  (\E j \in DOMAIN s : both[i] = s[j]) \/ (\E j \in DOMAIN t : both[i] = t[j])
  <2>1. CASE i <= Len(s)
    <3>1. i \in DOMAIN s /\ both[i] = s[i]
      BY <1>1, <2>1
    <3> QED BY <3>1
  <2>2. CASE i > Len(s)
    <3>1. i - Len(s) \in DOMAIN t /\ both[i] = t[i - Len(s)]
      BY <1>1, <2>2
    <3> QED BY <3>1
  <2> QED BY <1>1, <2>1, <2>2
<1> QED BY <1>1, <1>2, <1>3, <1>4 DEF both

\* Reporting what is due at this frame.
LEMMA ReportsKeep ==
    ASSUME NEW cues \in Seq(Nat), \A i \in DOMAIN cues : cues[i] = source.position,
           PgTypeOK, PgReports, reported' = Reports(cues),
           source'.position \in Nat, source.position <= source'.position
    PROVE  /\ reported' \in Seq(PgReport) /\ PgReports'
           /\ \A c \in Nat : CueReported(c) \/ CueIn(c, cues) => CueReported(c)'
<1> DEFINE more == [i \in DOMAIN cues |-> [cue |-> cues[i], at |-> source.position]]
<1>1. /\ DOMAIN cues = 1 .. Len(cues) /\ Len(cues) \in Nat
      /\ source.position \in Nat /\ reported \in Seq(PgReport)
      /\ Len(reported) \in Nat /\ DOMAIN reported = 1 .. Len(reported)
  BY DEF PgTypeOK, PgSource
<1>2. \A i \in 1 .. Len(cues) : more[i] = [cue |-> cues[i], at |-> source.position]
                               /\ more[i] \in PgReport
  BY <1>1 DEF PgReport
<1>3. more \in Seq(PgReport) /\ Len(more) = Len(cues)
  <2>1. more \in [1 .. Len(cues) -> PgReport]
    BY <1>1, <1>2
  <2> QED BY <1>1, <2>1
<1>4. reported' = reported \o more
  BY DEF Reports
<1> HIDE DEF more
<1>5. /\ reported' \in Seq(PgReport) /\ Len(reported') = Len(reported) + Len(cues)
      /\ DOMAIN reported' = 1 .. Len(reported) + Len(cues)
      /\ \A i \in 1 .. Len(reported) : reported'[i] = reported[i]
      /\ \A i \in 1 .. Len(reported) + Len(cues) :
            i > Len(reported) => reported'[i] = more[i - Len(reported)]
  BY <1>1, <1>3, <1>4, Joined
<1>6. \A i \in DOMAIN reported' :
         \/ i \in 1 .. Len(reported) /\ reported'[i] = reported[i]
         \/ /\ i \notin 1 .. Len(reported)
            /\ reported'[i].cue = source.position /\ reported'[i].at = source.position
  <2>1. ASSUME NEW i \in DOMAIN reported', i > Len(reported)
        PROVE  reported'[i].cue = source.position /\ reported'[i].at = source.position
    <3>1. i - Len(reported) \in 1 .. Len(cues)
      BY <1>1, <1>5, <2>1
    <3>2. reported'[i] = [cue |-> cues[i - Len(reported)], at |-> source.position]
      BY <1>2, <1>5, <2>1, <3>1
    <3> QED BY <1>1, <3>1, <3>2
  <2> QED BY <1>1, <1>5, <2>1
<1>7. PgReports'
  <2>1. ASSUME NEW i \in DOMAIN reported'
        PROVE  /\ reported'[i].cue = reported'[i].at /\ reported'[i].at <= source'.position
               /\ \A j \in 1 .. i : reported'[j].at <= reported'[i].at
    <3>1. ASSUME NEW k \in 1 .. Len(reported)
          PROVE  /\ reported[k].cue = reported[k].at /\ reported[k].at \in Nat
                 /\ reported[k].at <= source.position
                 /\ \A j \in 1 .. k : reported[j].at <= reported[k].at
      <4>1. reported[k] \in PgReport /\ k \in DOMAIN reported
        BY <1>1
      <4> QED BY <4>1 DEF PgReports, PgReport
    <3>2. CASE i \in 1 .. Len(reported)
      <4>1. \A j \in 1 .. i : j \in 1 .. Len(reported)
        BY <1>1, <3>2
      <4> QED BY <1>1, <1>5, <3>1, <3>2, <4>1
    <3>3. CASE i \notin 1 .. Len(reported)
      <4>1. reported'[i].cue = source.position /\ reported'[i].at = source.position
        BY <1>6, <3>3
      <4>2. ASSUME NEW j \in 1 .. i
            PROVE  reported'[j].at <= source.position
        <5>1. j \in DOMAIN reported'
          BY <1>5
        <5> QED BY <1>1, <1>6, <3>1, <5>1
      <4> QED BY <1>1, <4>1, <4>2
    <3> QED BY <3>2, <3>3
  <2> QED BY <2>1 DEF PgReports
<1>8. ASSUME NEW c \in Nat, CueReported(c) \/ CueIn(c, cues)
      PROVE  CueReported(c)'
  <2>1. CASE CueReported(c)
    <3>1. PICK i \in 1 .. Len(reported) : reported[i].cue = c
      BY <1>1, <2>1 DEF CueReported
    <3>2. i \in DOMAIN reported' /\ reported'[i].cue = c
      BY <1>1, <1>5, <3>1
    <3> QED BY <3>2 DEF CueReported
  <2>2. CASE CueIn(c, cues)
    <3>1. PICK i \in 1 .. Len(cues) : cues[i] = c
      BY <1>1, <2>2 DEF CueIn
    <3>2. /\ Len(reported) + i \in DOMAIN reported' /\ Len(reported) + i > Len(reported)
          /\ (Len(reported) + i) - Len(reported) = i
      BY <1>1, <1>5, <3>1
    <3>3. reported'[Len(reported) + i] = more[i]
      BY <1>5, <3>2
    <3>4. more[i] = [cue |-> cues[i], at |-> source.position]
      BY <1>2
    <3>5. reported'[Len(reported) + i].cue = c
      BY <3>1, <3>3, <3>4
    <3> QED BY <3>2, <3>5 DEF CueReported
  <2> QED BY <1>8, <2>1, <2>2
<1> QED BY <1>5, <1>7, <1>8

\* What only the producer sees: the rest of the invariant is of the source.
LEMMA PgProducerMoves ==
    ASSUME PgInv, UNCHANGED <<channel, source, speech, stopState, progTicket, reported>>,
           producer' \in PgProducer, producer.pc # "new", producer'.pc # "new",
           producer'.token = producer.token, producer'.generation = producer.generation,
           producer'.frames = producer.frames, producer'.finished = producer.finished,
           producer.finished => producer'.last = producer.last,
           producer'.pc = "gate" => source.place = "held",
           PgSending', PgCueKept'
    PROVE  PgInv'
<1>1. PgTypeOK' /\ PgStamped'
  BY DEF PgInv, PgTypeOK, PgStamped
<1>2. PgPlaces'
  BY DEF PgInv, PgPlaces
<1>3. PgConserved'
  BY DEF PgInv, PgConserved
<1>4. PgReports'
  BY DEF PgInv, PgReports
<1>5. PgCompleted'
  BY DEF PgInv, PgCompleted, CueReported
<1> QED BY <1>1, <1>2, <1>3, <1>4, <1>5 DEF PgInv

LEMMA PgPushCueKeeps ==
    ASSUME PgInv, NEW offset \in 0 .. MaxFrames, PushCue(offset)
    PROVE  PgInv'
<1>1. /\ UNCHANGED <<channel, source, speech, stopState, progTicket, reported>>
      /\ producer \in PgProducer /\ producer.pc = "ready" /\ producer.cues = <<>>
      /\ offset \in Nat /\ ~producer.finished
  BY ProgressiveAssumption DEF PushCue, PgInv, PgTypeOK, PgSending, ProgressiveAssumption
<1>2. CASE producer' = [producer EXCEPT !.pc = "failed"]
  <2>1. producer' \in PgProducer
    BY <1>1, <1>2 DEF PgProducer
  <2>2. /\ producer'.pc = "failed" /\ producer'.sending = producer.sending
        /\ producer'.cues = producer.cues /\ producer'.last = producer.last
        /\ producer'.finished = producer.finished /\ producer'.frames = producer.frames
        /\ producer'.token = producer.token /\ producer'.generation = producer.generation
    BY <1>1, <1>2 DEF PgProducer
  <2>3. PgSending'
    BY <1>1, <2>2 DEF PgInv, PgSending
  <2>4. PgCueKept'
    BY <1>1, <2>2 DEF PgInv, PgCueKept, CueReported, CueIn, CueInSome
  <2> QED BY <1>1, <2>1, <2>2, <2>3, <2>4, PgProducerMoves
<1>3. CASE producer' = [producer EXCEPT !.cues = Append(@, offset), !.last = offset]
  <2>1. Append(producer.cues, offset) = <<offset>>
    BY <1>1
  <2>2. producer' = [producer EXCEPT !.cues = <<offset>>, !.last = offset]
    BY <1>1, <1>3, <2>1 DEF PgProducer
  <2>3. <<offset>> \in Seq(Nat)
    BY <1>1
  <2>4. producer' \in PgProducer
    BY <1>1, <2>2, <2>3 DEF PgProducer
  <2>5. /\ producer'.pc = "ready" /\ producer'.sending = producer.sending
        /\ producer'.cues = <<offset>> /\ producer'.last = offset
        /\ producer'.finished = producer.finished /\ producer'.frames = producer.frames
        /\ producer'.token = producer.token /\ producer'.generation = producer.generation
    BY <1>1, <2>2 DEF PgProducer
  <2>6. PgSending'
    BY <1>1, <2>5 DEF PgInv, PgSending
  <2>7. PgCueKept'
    <3>1. CueIn(offset, <<offset>>)
      <4>1. 1 \in DOMAIN <<offset>> /\ <<offset>>[1] = offset
        OBVIOUS
      <4> QED BY <4>1 DEF CueIn
    <3> QED BY <2>5, <3>1 DEF PgCueKept
  <2> QED BY <1>1, <2>4, <2>5, <2>6, <2>7, PgProducerMoves
<1> QED BY <1>2, <1>3 DEF PushCue

\* A message takes what the producer has accepted with it.
LEMMA PgSendStartKeeps ==
    ASSUME PgInv, NEW message \in PgMessage, message.cues = producer.cues,
           message.kind = "Complete" => message.frames = 0, SendStart(message)
    PROVE  PgInv'
<1>1. /\ UNCHANGED <<channel, source, speech, stopState, progTicket, reported>>
      /\ producer \in PgProducer /\ producer.pc = "ready"
      /\ ~producer.finished /\ producer.sending = <<>>
      /\ producer' = [producer EXCEPT !.pc = "send", !.sending = <<message>>, !.cues = <<>>]
  BY DEF SendStart, PgInv, PgTypeOK, PgSending
<1>2. <<message>> \in Seq(PgMessage) /\ Len(<<message>>) = 1
      /\ DOMAIN <<message>> = {1} /\ <<message>>[1] = message
  OBVIOUS
<1>3. <<>> \in Seq(Nat)
  OBVIOUS
<1>4. producer' \in PgProducer
  BY <1>1, <1>2, <1>3 DEF PgProducer
<1>5. /\ producer'.pc = "send" /\ producer'.sending = <<message>>
      /\ producer'.cues = <<>> /\ producer'.last = producer.last
      /\ producer'.finished = producer.finished /\ producer'.frames = producer.frames
      /\ producer'.token = producer.token /\ producer'.generation = producer.generation
  BY <1>1 DEF PgProducer
<1>6. PgSending'
  BY <1>1, <1>2, <1>5 DEF PgInv, PgSending
<1>7. PgCueKept'
  <2>1. ASSUME NEW c, CueIn(c, producer.cues)
        PROVE  CueInSome(c, <<message>>)
    BY <1>2, <2>1 DEF CueInSome
  <2>2. \A c : ~CueInSome(c, producer.sending)
    BY <1>1 DEF CueInSome
  <2>3. producer'.last > 0 /\ progTicket' # "Cancelled" =>
           \/ CueReported(producer.last) \/ CueIn(producer.last, source.cues)
           \/ CueInSome(producer.last, channel) \/ CueInSome(producer.last, <<message>>)
    BY <1>1, <1>5, <2>1, <2>2 DEF PgInv, PgCueKept
  <2> QED BY <1>1, <1>5, <2>3 DEF PgCueKept, CueReported
<1> QED BY <1>1, <1>4, <1>5, <1>6, <1>7, PgProducerMoves

LEMMA PgCallsKeep ==
    ASSUME PgInv, ProducerCall
    PROVE  PgInv'
<1>1. producer.cues \in Seq(Nat) /\ producer \in PgProducer
  BY DEF PgInv, PgTypeOK, PgProducer
<1>2. CASE \E offset \in 0 .. MaxFrames : PushCue(offset)
  BY <1>2, PgPushCueKeeps
<1>3. ASSUME NEW frames \in 1 .. MaxWindow, PushAudio(frames)
      PROVE  PgInv'
  <2> DEFINE m == [kind |-> "Audio", frames |-> frames, cues |-> producer.cues]
  <2>1. frames \in Nat
    BY ProgressiveAssumption DEF ProgressiveAssumption
  <2>2. m \in PgMessage /\ m.cues = producer.cues /\ m.kind = "Audio"
    BY <1>1, <2>1 DEF PgMessage
  <2>3. SendStart(m)
    BY <1>3 DEF PushAudio
  <2> HIDE DEF m
  <2> QED BY <2>2, <2>3, PgSendStartKeeps
<1>4. CASE FinishProgressive /\ producer.last > producer.frames
  <2>1. /\ UNCHANGED <<channel, source, speech, stopState, progTicket, reported>>
        /\ producer.pc = "ready" /\ producer' = [producer EXCEPT !.pc = "failed"]
    BY <1>4 DEF FinishProgressive
  <2>2. producer' \in PgProducer
    BY <1>1, <2>1 DEF PgProducer
  <2>3. /\ producer'.pc = "failed" /\ producer'.sending = producer.sending
        /\ producer'.cues = producer.cues /\ producer'.last = producer.last
        /\ producer'.finished = producer.finished /\ producer'.frames = producer.frames
        /\ producer'.token = producer.token /\ producer'.generation = producer.generation
    BY <1>1, <2>1 DEF PgProducer
  <2>4. PgSending'
    BY <2>1, <2>3 DEF PgInv, PgSending
  <2>5. PgCueKept'
    BY <2>1, <2>3 DEF PgInv, PgCueKept, CueReported, CueIn, CueInSome
  <2> QED BY <2>1, <2>2, <2>3, <2>4, <2>5, PgProducerMoves
<1>5. CASE FinishProgressive /\ ~(producer.last > producer.frames)
  <2> DEFINE m == [kind |-> "Complete", frames |-> 0, cues |-> producer.cues]
  <2>1. m \in PgMessage /\ m.cues = producer.cues /\ m.frames = 0
    BY <1>1 DEF PgMessage
  <2>2. SendStart(m)
    BY <1>5 DEF FinishProgressive
  <2> HIDE DEF m
  <2> QED BY <2>1, <2>2, PgSendStartKeeps
<1> QED BY <1>2, <1>3, <1>4, <1>5 DEF ProducerCall

\* What is sent is counted and stays behind everything sent before.
LEMMA PgSendRoundKeeps ==
    ASSUME PgInv, SendRound
    PROVE  PgInv'
<1> DEFINE message == Head(producer.sending)
<1>1. /\ UNCHANGED <<source, speech, stopState, progTicket, reported>>
      /\ producer.pc = "send" /\ producer \in PgProducer /\ ~producer.finished
      /\ producer.sending \in Seq(PgMessage) /\ Len(producer.sending) = 1
      /\ producer.cues = <<>> /\ channel \in Seq(PgMessage)
  BY DEF SendRound, PgInv, PgTypeOK, PgSending, PgProducer
<1>2. /\ message \in PgMessage /\ message = producer.sending[1]
      /\ DOMAIN producer.sending = {1}
      /\ message.kind = "Complete" => message.frames = 0
  <2>1. /\ message \in PgMessage /\ message = producer.sending[1]
        /\ DOMAIN producer.sending = {1}
    BY <1>1
  <2> HIDE DEF message
  <2> QED BY <1>1, <2>1 DEF PgInv, PgSending
<1>3. CASE producer' = [producer EXCEPT !.pc = "failed"] /\ UNCHANGED channel
  <2>1. producer' \in PgProducer
    BY <1>1, <1>3 DEF PgProducer
  <2>2. /\ producer'.pc = "failed" /\ producer'.sending = producer.sending
        /\ producer'.cues = producer.cues /\ producer'.last = producer.last
        /\ producer'.finished = producer.finished /\ producer'.frames = producer.frames
        /\ producer'.token = producer.token /\ producer'.generation = producer.generation
    BY <1>1, <1>3 DEF PgProducer
  <2>3. PgSending'
    BY <1>1, <1>3, <2>2 DEF PgInv, PgSending
  <2>4. PgCueKept'
    BY <1>1, <1>3, <2>2 DEF PgInv, PgCueKept, CueReported, CueIn, CueInSome
  <2> QED BY <1>1, <1>3, <2>1, <2>2, <2>3, <2>4, PgProducerMoves
<1>4. ASSUME channel' = Append(channel, message),
             producer' = [producer EXCEPT
                !.pc = "attach", !.sending = <<>>,
                !.frames = @ + message.frames,
                !.windows = IF message.kind = "Audio" THEN @ + 1 ELSE @,
                !.finished = message.kind = "Complete"]
      PROVE  PgInv'
  <2> HIDE DEF message
  <2> DEFINE n == Len(channel)
  <2>1. /\ n \in Nat /\ DOMAIN channel = 1 .. n
        /\ channel' \in Seq(PgMessage) /\ Len(channel') = n + 1
        /\ DOMAIN channel' = 1 .. n + 1 /\ channel'[n + 1] = message
        /\ \A i \in 1 .. n : channel'[i] = channel[i]
    BY <1>1, <1>2, <1>4
  <2>2. /\ message.frames \in Nat /\ producer.frames \in Nat /\ producer.windows \in Nat
        /\ message.kind \in {"Audio", "Complete"}
    BY <1>1, <1>2 DEF PgMessage, PgProducer
  <2>3. /\ producer.frames + message.frames \in Nat
        /\ (IF message.kind = "Audio" THEN producer.windows + 1 ELSE producer.windows) \in Nat
        /\ <<>> \in Seq(PgMessage)
    BY <2>2
  <2>4. producer' \in PgProducer
    BY <1>1, <1>4, <2>3 DEF PgProducer
  <2>5. /\ producer'.pc = "attach" /\ producer'.sending = <<>>
        /\ producer'.cues = <<>> /\ producer'.last = producer.last
        /\ producer'.finished = (message.kind = "Complete")
        /\ producer'.frames = producer.frames + message.frames
        /\ producer'.token = producer.token /\ producer'.generation = producer.generation
    BY <1>1, <1>4 DEF PgProducer
  <2> HIDE DEF n
  <2>6. PgTypeOK' /\ PgStamped' /\ PgPlaces'
    BY <1>1, <2>1, <2>4, <2>5 DEF PgInv, PgTypeOK, PgStamped, PgPlaces
  <2>7. \A i \in 1 .. n : channel[i].kind # "Complete"
    BY <1>1, <2>1 DEF PgInv, PgSending
  <2>8. PgSending'
    <3>1. ASSUME NEW i \in DOMAIN channel', channel'[i].kind = "Complete"
          PROVE  producer'.finished /\ i = Len(channel') /\ channel'[i].frames = 0
      <4>1. i = n + 1
        BY <2>1, <2>7, <3>1
      <4> QED BY <1>2, <2>1, <2>5, <3>1, <4>1
    <3> QED BY <2>5, <3>1 DEF PgSending
  <2>9. PgConserved'
    <3>1. PICK h \in [0 .. n -> Nat] :
             /\ h[0] = source.position + source.current
             /\ \A i \in 1 .. n : h[i] = h[i - 1] + channel[i].frames
             /\ h[n] = producer.frames
      BY <2>1 DEF PgInv, PgConserved, n
    <3> DEFINE g == [i \in 0 .. n + 1 |-> IF i <= n THEN h[i]
                                          ELSE producer.frames + message.frames]
    <3>2. g \in [0 .. n + 1 -> Nat]
      BY <2>1, <2>3, <3>1
    <3>3. g[0] = source'.position + source'.current
      BY <1>1, <2>1, <3>1
    <3>4. g[n + 1] = producer'.frames
      BY <2>1, <2>5
    <3>5. ASSUME NEW i \in 1 .. n + 1
          PROVE  g[i] = g[i - 1] + channel'[i].frames
      <4>1. CASE i <= n
        <5>1. i \in 1 .. n /\ i \in 0 .. n + 1 /\ i - 1 \in 0 .. n + 1 /\ i - 1 <= n
          BY <2>1, <4>1
        <5> QED BY <2>1, <3>1, <4>1, <5>1
      <4>2. CASE i = n + 1
        <5>1. i - 1 = n /\ n \in 0 .. n + 1 /\ g[n] = h[n] /\ n <= n
          BY <2>1, <4>2
        <5> QED BY <2>1, <2>5, <3>1, <3>4, <4>2, <5>1
      <4> QED BY <2>1, <4>1, <4>2
    <3> HIDE DEF g
    <3> QED BY <2>1, <3>2, <3>3, <3>4, <3>5 DEF PgConserved
  <2>10. PgCueKept'
    <3>1. ASSUME NEW c, CueInSome(c, producer.sending) \/ CueInSome(c, channel)
          PROVE  CueInSome(c, channel')
      <4>1. CASE CueInSome(c, producer.sending)
        <5>1. CueIn(c, channel'[n + 1].cues) /\ n + 1 \in DOMAIN channel'
          BY <1>2, <2>1, <4>1 DEF CueInSome
        <5> QED BY <5>1 DEF CueInSome
      <4>2. CASE CueInSome(c, channel)
        <5>1. PICK i \in 1 .. n : CueIn(c, channel[i].cues)
          BY <2>1, <4>2 DEF CueInSome
        <5>2. i \in DOMAIN channel' /\ channel'[i] = channel[i]
          BY <2>1
        <5>3. CueIn(c, channel'[i].cues)
          BY <5>1, <5>2
        <5> QED BY <5>2, <5>3 DEF CueInSome
      <4> QED BY <3>1, <4>1, <4>2
    <3>2. ~CueIn(producer.last, producer.cues)
      BY <1>1 DEF CueIn
    <3>3. producer'.last > 0 /\ progTicket' # "Cancelled" =>
             \/ CueReported(producer.last) \/ CueIn(producer.last, source.cues)
             \/ CueInSome(producer.last, channel')
      BY <1>1, <2>5, <3>1, <3>2 DEF PgInv, PgCueKept
    <3> QED BY <1>1, <2>5, <3>3 DEF PgCueKept, CueReported
  <2>11. PgReports' /\ PgCompleted'
    BY <1>1 DEF PgInv, PgReports, PgCompleted
  <2> QED BY <2>6, <2>8, <2>9, <2>10, <2>11 DEF PgInv
<1> QED BY <1>3, <1>4 DEF SendRound

\* The cancellations are looked at before the gate and again inside it.
LEMMA PgAttachChecksKeep ==
    ASSUME PgInv, (\E letter \in BOOLEAN : AttachCheck(letter)) \/ AttachRefused
    PROVE  PgInv'
<1>1. PICK pc \in {"ready", "done", "failed", "gate"} :
         /\ producer' = [producer EXCEPT !.pc = pc]
         /\ pc = "gate" => source.place = "held"
         /\ pc = "ready" => ~producer.finished
  BY DEF AttachCheck, AttachRefused, AfterAttach
<1>2. /\ UNCHANGED <<channel, source, speech, stopState, progTicket, reported>>
      /\ producer \in PgProducer /\ producer.pc \in {"attach", "gate"}
  BY DEF AttachCheck, AttachRefused, PgInv, PgTypeOK
<1>3. producer' \in PgProducer
  BY <1>1, <1>2 DEF PgProducer
<1>4. /\ producer'.pc = pc /\ producer'.sending = producer.sending
      /\ producer'.cues = producer.cues /\ producer'.last = producer.last
      /\ producer'.finished = producer.finished /\ producer'.frames = producer.frames
      /\ producer'.token = producer.token /\ producer'.generation = producer.generation
  BY <1>1, <1>2 DEF PgProducer
<1>5. PgSending'
  BY <1>1, <1>2, <1>4 DEF PgInv, PgSending
<1>6. PgCueKept'
  BY <1>2, <1>4 DEF PgInv, PgCueKept, CueReported, CueIn, CueInSome
<1> QED BY <1>1, <1>2, <1>3, <1>4, <1>5, <1>6, PgProducerMoves

\* Placing, stopping and clearing move no frame and no cue.
LEMMA PgNothingPlayed ==
    ASSUME PgInv, UNCHANGED <<channel, reported>>,
           producer'.frames = producer.frames, producer'.last = producer.last,
           producer'.cues = producer.cues, producer'.sending = producer.sending,
           producer'.finished = producer.finished,
           source'.position = source.position, source'.current = source.current,
           source'.cues = source.cues,
           PgTypeOK', PgStamped', PgPlaces', PgSending',
           progTicket' = "Completed" => progTicket = "Completed",
           progTicket' # "Cancelled" => progTicket # "Cancelled"
    PROVE  PgInv'
<1>1. PgConserved'
  BY DEF PgInv, PgConserved
<1>2. PgCueKept'
  BY DEF PgInv, PgCueKept, CueReported, CueIn, CueInSome
<1>3. PgReports' /\ PgCompleted'
  BY DEF PgInv, PgReports, PgCompleted, CueReported
<1> QED BY <1>1, <1>2, <1>3 DEF PgInv

LEMMA PgOpenKeeps ==
    ASSUME PgInv, NEW null \in BOOLEAN, OpenProgressive(null)
    PROVE  PgInv'
<1> DEFINE full == Len(speech) >= SpeechMax
           token == IF full THEN stopState.token + 1 ELSE stopState.token
           rest == IF full THEN <<>> ELSE speech
<1>1. /\ UNCHANGED <<channel, reported>> /\ progTicket' = "pending"
      /\ producer.pc = "new" /\ source.place = "none" /\ progTicket = "none"
      /\ producer \in PgProducer /\ source \in PgSource /\ speech \in Seq({"p", "b"})
      /\ stopState \in [generation : Nat, token : Nat, request : BOOLEAN, others : Nat,
                        null : BOOLEAN]
      /\ ~producer.finished
  BY DEF OpenProgressive, PgInv, PgTypeOK, PgPlaces, PgSending
<1>2. /\ stopState' = [stopState EXCEPT !.token = token, !.null = null]
      /\ producer' = [producer EXCEPT !.pc = "ready", !.token = token,
                                      !.generation = stopState.generation]
      /\ source' = [source EXCEPT !.token = token,
                                  !.place = IF null THEN "sink" ELSE "held"]
      /\ speech' = IF null THEN Append(rest, "p") ELSE rest
  BY DEF OpenProgressive
<1>3. token \in Nat /\ stopState.generation \in Nat
  BY <1>1
<1>4. /\ rest \in Seq({"p", "b"}) /\ Len(rest) \in Nat
      /\ \A i \in 1 .. Len(rest) : rest[i] # "p"
  <2>1. rest \in Seq({"p", "b"}) /\ (rest = <<>> \/ rest = speech)
    BY <1>1
  <2>2. \A i \in DOMAIN speech : speech[i] # "p"
    BY <1>1 DEF PgInv, PgPlaces
  <2> HIDE DEF rest
  <2> QED BY <2>1, <2>2
<1> HIDE DEF full, token, rest
<1>5. /\ producer' \in PgProducer /\ source' \in PgSource
      /\ stopState' \in [generation : Nat, token : Nat, request : BOOLEAN, others : Nat,
                         null : BOOLEAN]
  BY <1>1, <1>2, <1>3 DEF PgProducer, PgSource
<1>6. /\ producer'.pc = "ready" /\ producer'.token = token
      /\ producer'.generation = stopState.generation
      /\ producer'.frames = producer.frames /\ producer'.last = producer.last
      /\ producer'.cues = producer.cues /\ producer'.sending = producer.sending
      /\ producer'.finished = producer.finished
  BY <1>1, <1>2 DEF PgProducer
<1>7. /\ source'.token = token /\ source'.position = source.position
      /\ source'.place = (IF null THEN "sink" ELSE "held")
      /\ source'.current = source.current /\ source'.cues = source.cues
      /\ stopState'.token = token /\ stopState'.generation = stopState.generation
  BY <1>1, <1>2 DEF PgSource
<1>8. speech' \in Seq({"p", "b"}) /\ \A i, j \in DOMAIN speech' :
         speech'[i] = "p" => source'.place = "sink" /\ (speech'[j] = "p" => i = j)
  <2>1. CASE null
    <3>1. speech' = Append(rest, "p")
      BY <1>2, <2>1
    <3>2. /\ speech' \in Seq({"p", "b"}) /\ DOMAIN speech' = 1 .. Len(rest) + 1
          /\ \A i \in 1 .. Len(rest) : speech'[i] = rest[i]
      BY <1>4, <3>1
    <3>3. \A i \in DOMAIN speech' : speech'[i] = "p" => i = Len(rest) + 1
      BY <1>4, <3>2
    <3> QED BY <1>7, <2>1, <3>2, <3>3
  <2>2. CASE ~null
    <3>1. speech' = rest
      BY <1>2, <2>2
    <3> QED BY <1>4, <3>1
  <2> QED BY <2>1, <2>2
<1>9. PgTypeOK'
  BY <1>1, <1>5, <1>8 DEF PgInv, PgTypeOK
<1>10. PgStamped'
  BY <1>3, <1>6, <1>7 DEF PgStamped
<1>11. PgPlaces'
  BY <1>1, <1>6, <1>7, <1>8 DEF PgPlaces
<1>12. PgSending'
  BY <1>1, <1>6 DEF PgInv, PgSending
<1> QED BY <1>1, <1>6, <1>7, <1>9, <1>10, <1>11, <1>12, PgNothingPlayed

LEMMA PgAttachGateKeeps ==
    ASSUME PgInv, AttachGate
    PROVE  PgInv'
<1> DEFINE full == Len(speech) >= SpeechMax
           token == IF full THEN stopState.token + 1 ELSE producer.token
           refused == ProducerCancelled \/ stopState.generation # producer.generation
<1>1. /\ UNCHANGED <<channel, progTicket, reported>>
      /\ producer.pc = "gate" /\ source.place = "held" /\ progTicket = "pending"
      /\ producer \in PgProducer /\ source \in PgSource /\ speech \in Seq({"p", "b"})
      /\ stopState \in [generation : Nat, token : Nat, request : BOOLEAN, others : Nat,
                        null : BOOLEAN]
  BY DEF AttachGate, PgInv, PgTypeOK, PgPlaces
<1>2. CASE refused
  <2>1. /\ UNCHANGED <<source, speech, stopState>>
        /\ producer' = [producer EXCEPT !.pc = "failed"]
    BY <1>2 DEF AttachGate
  <2>2. producer' \in PgProducer
    BY <1>1, <2>1 DEF PgProducer
  <2>3. /\ producer'.pc = "failed" /\ producer'.sending = producer.sending
        /\ producer'.cues = producer.cues /\ producer'.last = producer.last
        /\ producer'.finished = producer.finished /\ producer'.frames = producer.frames
        /\ producer'.token = producer.token /\ producer'.generation = producer.generation
    BY <1>1, <2>1 DEF PgProducer
  <2>4. PgSending'
    BY <1>1, <2>3 DEF PgInv, PgSending
  <2>5. PgCueKept'
    BY <1>1, <2>1, <2>3 DEF PgInv, PgCueKept, CueReported, CueIn, CueInSome
  <2> QED BY <1>1, <2>1, <2>2, <2>3, <2>4, <2>5, PgProducerMoves
<1>3. CASE ~refused
  <2>1. /\ stopState' = [stopState EXCEPT !.token = IF full THEN token ELSE @]
        /\ producer' = [producer EXCEPT !.pc = AfterAttach, !.token = token]
        /\ source' = [source EXCEPT !.place = "sink", !.token = token]
        /\ speech' = IF full THEN <<"p">> ELSE Append(speech, "p")
    BY <1>3 DEF AttachGate
  <2>2. /\ producer.token = stopState.token
        /\ stopState.generation = producer.generation
    BY <1>3 DEF ProducerCancelled
  <2>3. token \in Nat /\ (full => token = stopState.token + 1)
        /\ (~full => token = stopState.token)
    BY <1>1, <2>2 DEF PgProducer
  <2> HIDE DEF token, full
  <2>4. AfterAttach \in {"ready", "done"} /\ (producer.finished => AfterAttach = "done")
    BY DEF AfterAttach
  <2>5. /\ producer' \in PgProducer /\ source' \in PgSource
        /\ stopState' \in [generation : Nat, token : Nat, request : BOOLEAN, others : Nat,
                           null : BOOLEAN]
    BY <1>1, <2>1, <2>3, <2>4 DEF PgProducer, PgSource
  <2>6. /\ producer'.pc = AfterAttach /\ producer'.token = token
        /\ producer'.generation = producer.generation
        /\ producer'.frames = producer.frames /\ producer'.last = producer.last
        /\ producer'.cues = producer.cues /\ producer'.sending = producer.sending
        /\ producer'.finished = producer.finished
    BY <1>1, <2>1 DEF PgProducer
  <2>7. /\ source'.token = token /\ source'.position = source.position
        /\ source'.place = "sink"
        /\ source'.current = source.current /\ source'.cues = source.cues
    BY <1>1, <2>1 DEF PgSource
  <2>8. stopState'.token = token /\ stopState'.generation = stopState.generation
    BY <1>1, <2>1, <2>3
  <2>9. speech' \in Seq({"p", "b"}) /\ \A i, j \in DOMAIN speech' :
           speech'[i] = "p" /\ speech'[j] = "p" => i = j
    <3>1. CASE full
      <4>1. speech' = <<"p">>
        BY <2>1, <3>1
      <4>2. speech' \in Seq({"p", "b"}) /\ DOMAIN speech' = {1}
        BY <4>1
      <4> QED BY <4>2
    <3>2. CASE ~full
      <4>1. speech' = Append(speech, "p")
        BY <2>1, <3>2
      <4>2. /\ speech' \in Seq({"p", "b"}) /\ DOMAIN speech' = 1 .. Len(speech) + 1
            /\ DOMAIN speech = 1 .. Len(speech) /\ Len(speech) \in Nat
            /\ \A i \in 1 .. Len(speech) : speech'[i] = speech[i]
        BY <1>1, <4>1
      <4>3. \A i \in 1 .. Len(speech) : speech[i] # "p"
        BY <1>1, <4>2 DEF PgInv, PgPlaces
      <4>4. \A i \in DOMAIN speech' : speech'[i] = "p" => i = Len(speech) + 1
        BY <4>2, <4>3
      <4> QED BY <4>2, <4>4
    <3> QED BY <3>1, <3>2
  <2>10. PgTypeOK'
    BY <1>1, <2>5, <2>9 DEF PgInv, PgTypeOK
  <2>11. PgStamped'
    BY <1>1, <2>2, <2>3, <2>6, <2>7, <2>8 DEF PgStamped
  <2>12. PgPlaces'
    BY <1>1, <2>4, <2>6, <2>7, <2>9 DEF PgPlaces
  <2>13. PgSending'
    BY <1>1, <2>4, <2>6 DEF PgInv, PgSending
  <2> QED BY <1>1, <2>6, <2>7, <2>10, <2>11, <2>12, <2>13, PgNothingPlayed
<1> QED BY <1>2, <1>3

LEMMA PgDropKeeps ==
    ASSUME PgInv, DropProducer
    PROVE  PgInv'
<1>1. /\ UNCHANGED <<channel, speech, stopState, reported>>
      /\ producer.pc \in {"ready", "failed"} /\ producer' = [producer EXCEPT !.pc = "done"]
      /\ producer \in PgProducer /\ source \in PgSource
      /\ \/ /\ source.place = "held" /\ source' = [source EXCEPT !.place = "ended"]
            /\ progTicket' = "Cancelled"
         \/ source.place # "held" /\ UNCHANGED <<source, progTicket>>
  BY DEF DropProducer, PgInv, PgTypeOK
<1>2. /\ producer'.pc = "done" /\ producer'.token = producer.token
      /\ producer'.generation = producer.generation
      /\ producer'.frames = producer.frames /\ producer'.last = producer.last
      /\ producer'.cues = producer.cues /\ producer'.sending = producer.sending
      /\ producer'.finished = producer.finished
      /\ producer' \in PgProducer
  BY <1>1 DEF PgProducer
<1>3. /\ source'.token = source.token /\ source'.position = source.position
      /\ source'.current = source.current /\ source'.cues = source.cues
      /\ source' \in PgSource
  BY <1>1 DEF PgSource
<1>4. \/ source.place = "held" /\ source'.place = "ended" /\ progTicket' = "Cancelled"
      \/ source.place # "held" /\ source'.place = source.place /\ UNCHANGED progTicket
  BY <1>1 DEF PgSource
<1>5. PgTypeOK' /\ PgStamped'
  BY <1>1, <1>2, <1>3, <1>4 DEF PgInv, PgTypeOK, PgStamped
<1>6. PgPlaces'
  BY <1>1, <1>2, <1>4 DEF PgInv, PgPlaces
<1>7. PgSending'
  BY <1>1, <1>2 DEF PgInv, PgSending
<1>8. (progTicket' # "Cancelled" => progTicket # "Cancelled")
      /\ (progTicket' = "Completed" => progTicket = "Completed")
  BY <1>4
<1> QED BY <1>1, <1>2, <1>3, <1>5, <1>6, <1>7, <1>8, PgNothingPlayed

\* Steps of neither end, and those that end the source unplayed.
LEMMA PgOutsideKeeps ==
    ASSUME PgInv, UNCHANGED <<producer, channel, reported>>,
           speech' \in Seq({"p", "b"}),
           stopState' \in [generation : Nat, token : Nat, request : BOOLEAN, others : Nat,
                           null : BOOLEAN],
           \/ stopState'.token = stopState.token /\ stopState'.generation = stopState.generation
           \/ stopState'.token = stopState.token + 1,
           \/ /\ UNCHANGED <<source, progTicket>>
              /\ \A i, j \in DOMAIN speech' :
                    speech'[i] = "p" => source.place = "sink" /\ (speech'[j] = "p" => i = j)
           \/ /\ source.place = "sink" /\ source' = [source EXCEPT !.place = "ended"]
              /\ progTicket' = "Cancelled" /\ \A i \in DOMAIN speech' : speech'[i] # "p"
    PROVE  PgInv'
<1>1. producer \in PgProducer /\ source \in PgSource /\ stopState.token \in Nat
  BY DEF PgInv, PgTypeOK
<1>2. /\ source'.token = source.token /\ source'.position = source.position
      /\ source'.current = source.current /\ source'.cues = source.cues
      /\ source' \in PgSource
  BY <1>1 DEF PgSource
<1>3. PgTypeOK'
  BY <1>2 DEF PgInv, PgTypeOK
<1>4. PgStamped'
  <2>1. producer.token \in Nat /\ stopState'.token \in Nat
    BY <1>1 DEF PgProducer
  <2> QED BY <1>1, <1>2, <2>1 DEF PgInv, PgStamped
<1>5. PgPlaces'
  <2>1. CASE UNCHANGED <<source, progTicket>>
    BY <2>1 DEF PgInv, PgPlaces
  <2>2. CASE /\ source.place = "sink" /\ source' = [source EXCEPT !.place = "ended"]
             /\ progTicket' = "Cancelled" /\ \A i \in DOMAIN speech' : speech'[i] # "p"
    <3>1. source'.place = "ended"
      BY <1>1, <2>2 DEF PgSource
    <3> QED BY <2>2, <3>1 DEF PgInv, PgPlaces
  <2> QED BY <2>1, <2>2
<1>6. PgSending'
  BY DEF PgInv, PgSending
<1> QED BY <1>2, <1>3, <1>4, <1>5, <1>6, PgNothingPlayed

\* While the source is played it is first, and nothing else behind it is it.
LEMMA PgPlaying ==
    ASSUME PgInv, Playing
    PROVE  /\ source.place = "sink" /\ progTicket = "pending" /\ producer.pc # "new"
           /\ Tail(speech) \in Seq({"p", "b"})
           /\ \A i \in DOMAIN Tail(speech) : Tail(speech)[i] # "p"
<1>1. speech \in Seq({"p", "b"}) /\ speech # <<>> /\ Head(speech) = "p"
  BY DEF PgInv, PgTypeOK, Playing
<1>2. /\ Len(speech) \in Nat \ {0} /\ DOMAIN speech = 1 .. Len(speech) /\ speech[1] = "p"
      /\ Tail(speech) \in Seq({"p", "b"}) /\ DOMAIN Tail(speech) = 1 .. Len(speech) - 1
      /\ \A i \in 1 .. Len(speech) - 1 : Tail(speech)[i] = speech[i + 1]
  BY <1>1
<1>3. /\ source.place = "sink" /\ \A j \in DOMAIN speech : speech[j] = "p" => j = 1
  BY <1>2 DEF PgInv, PgPlaces
<1>4. \A i \in 1 .. Len(speech) - 1 : i + 1 \in DOMAIN speech /\ i + 1 # 1
  BY <1>2
<1> QED BY <1>2, <1>3, <1>4 DEF PgInv, PgTypeOK, PgPlaces

LEMMA PgUnplayedEndsKeep ==
    ASSUME PgInv, SourceGainEnds \/ SourceFadeEnds \/ OtherEnds
    PROVE  PgInv'
<1>1. UNCHANGED <<producer, channel, stopState, reported>>
  BY DEF SourceGainEnds, SourceFadeEnds, OtherEnds
<1>2. stopState' \in [generation : Nat, token : Nat, request : BOOLEAN, others : Nat,
                      null : BOOLEAN]
  BY <1>1 DEF PgInv, PgTypeOK
<1>3. CASE SourceGainEnds \/ SourceFadeEnds
  <2>1. Playing /\ EndSource("Cancelled")
    BY <1>3 DEF SourceGainEnds, SourceFadeEnds
  <2> QED BY <1>1, <1>2, <2>1, PgPlaying, PgOutsideKeeps DEF EndSource
<1>4. CASE OtherEnds
  <2>1. speech \in Seq({"p", "b"}) /\ speech # <<>> /\ speech' = Tail(speech)
        /\ UNCHANGED <<source, progTicket>>
    BY <1>4 DEF OtherEnds, PgInv, PgTypeOK
  <2>2. /\ Len(speech) \in Nat \ {0} /\ DOMAIN speech = 1 .. Len(speech)
        /\ Tail(speech) \in Seq({"p", "b"}) /\ DOMAIN Tail(speech) = 1 .. Len(speech) - 1
        /\ \A i \in 1 .. Len(speech) - 1 : Tail(speech)[i] = speech[i + 1]
    BY <2>1
  <2>3. ASSUME NEW i \in 1 .. Len(speech) - 1, NEW j \in 1 .. Len(speech) - 1,
               Tail(speech)[i] = "p"
        PROVE  source.place = "sink" /\ (Tail(speech)[j] = "p" => i = j)
    <3>1. i + 1 \in DOMAIN speech /\ j + 1 \in DOMAIN speech /\ speech[i + 1] = "p"
      BY <2>2, <2>3
    <3>2. source.place = "sink" /\ (speech[j + 1] = "p" => i + 1 = j + 1)
      BY <3>1 DEF PgInv, PgPlaces
    <3> QED BY <2>2, <3>2
  <2> QED BY <1>1, <1>2, <2>1, <2>2, <2>3, PgOutsideKeeps
<1> QED BY <1>3, <1>4

\* Others queue on the stream, stop it, retire the output or cancel the request.
LEMMA PgInterferenceKeeps ==
    ASSUME PgInv, Interference
    PROVE  PgInv'
<1> DEFINE StopType == [generation : Nat, token : Nat, request : BOOLEAN, others : Nat,
                        null : BOOLEAN]
<1>1. /\ stopState \in StopType /\ speech \in Seq({"p", "b"})
      /\ \A i, j \in DOMAIN speech :
            speech[i] = "p" => source.place = "sink" /\ (speech[j] = "p" => i = j)
  BY DEF PgInv, PgTypeOK, PgPlaces
<1>2. ASSUME NEW next \in Seq({"p", "b"}), \A i \in DOMAIN next : next[i] # "p",
             ClearSpeech(next)
      PROVE  /\ speech' \in Seq({"p", "b"})
             /\ \/ /\ UNCHANGED <<source, progTicket>>
                   /\ \A i, j \in DOMAIN speech' :
                         speech'[i] = "p" => source.place = "sink" /\ (speech'[j] = "p" => i = j)
                \/ /\ source.place = "sink" /\ source' = [source EXCEPT !.place = "ended"]
                   /\ progTicket' = "Cancelled" /\ \A i \in DOMAIN speech' : speech'[i] # "p"
  BY <1>2 DEF ClearSpeech
<1>3. CASE QueueOther
  <2>1. UNCHANGED <<producer, channel, reported>>
        /\ stopState' = [stopState EXCEPT !.others = @ + 1]
    BY <1>3 DEF QueueOther
  <2>2. /\ stopState' \in StopType /\ stopState'.token = stopState.token
        /\ stopState'.generation = stopState.generation
    BY <1>1, <2>1
  <2>3. CASE Len(speech) >= SpeechMax
    <3>1. ClearSpeech(<<"b">>)
      BY <1>3, <2>3 DEF QueueOther
    <3>2. <<"b">> \in Seq({"p", "b"}) /\ \A i \in DOMAIN <<"b">> : <<"b">>[i] # "p"
      OBVIOUS
    <3> QED BY <1>2, <2>1, <2>2, <3>1, <3>2, PgOutsideKeeps
  <2>4. CASE ~(Len(speech) >= SpeechMax)
    <3>1. speech' = Append(speech, "b") /\ UNCHANGED <<source, progTicket>>
      BY <1>3, <2>4 DEF QueueOther
    <3>2. /\ speech' \in Seq({"p", "b"}) /\ DOMAIN speech' = 1 .. Len(speech) + 1
          /\ DOMAIN speech = 1 .. Len(speech) /\ Len(speech) \in Nat
          /\ speech'[Len(speech) + 1] = "b"
          /\ \A i \in 1 .. Len(speech) : speech'[i] = speech[i]
      BY <1>1, <3>1
    <3>3. \A i \in DOMAIN speech' :
             speech'[i] = "p" => i \in DOMAIN speech /\ speech[i] = "p"
      BY <3>2
    <3>4. \A i, j \in DOMAIN speech' :
             speech'[i] = "p" => source.place = "sink" /\ (speech'[j] = "p" => i = j)
      BY <1>1, <3>3
    <3> QED BY <2>1, <2>2, <3>1, <3>2, <3>4, PgOutsideKeeps
  <2> QED BY <2>3, <2>4
<1>4. CASE StopSpeech
  <2>1. /\ UNCHANGED <<producer, channel, source, speech, progTicket, reported>>
        /\ stopState' = [stopState EXCEPT !.generation = @ + 1, !.token = @ + 1]
    BY <1>4 DEF StopSpeech
  <2>2. stopState.generation + 1 \in Nat /\ stopState.token + 1 \in Nat
    BY <1>1
  <2>3. stopState' \in StopType /\ stopState'.token = stopState.token + 1
    BY <1>1, <2>1, <2>2
  <2> QED BY <1>1, <2>1, <2>3, PgOutsideKeeps
<1>5. CASE RetireOutput
  <2>1. /\ UNCHANGED <<producer, channel, reported>> /\ ClearSpeech(<<>>)
        /\ stopState' = [stopState EXCEPT !.generation = @ + 1, !.token = @ + 1]
    BY <1>5 DEF RetireOutput
  <2>2. stopState.generation + 1 \in Nat /\ stopState.token + 1 \in Nat
    BY <1>1
  <2>3. stopState' \in StopType /\ stopState'.token = stopState.token + 1
    BY <1>1, <2>1, <2>2
  <2>4. <<>> \in Seq({"p", "b"}) /\ \A i \in DOMAIN <<>> : <<>>[i] # "p"
    OBVIOUS
  <2> QED BY <1>2, <2>1, <2>3, <2>4, PgOutsideKeeps
<1>6. CASE CancelRequest
  <2>1. /\ UNCHANGED <<producer, channel, source, speech, progTicket, reported>>
        /\ stopState' = [stopState EXCEPT !.request = TRUE]
    BY <1>6 DEF CancelRequest
  <2>2. /\ stopState' \in StopType /\ stopState'.token = stopState.token
        /\ stopState'.generation = stopState.generation
    BY <1>1, <2>1
  <2> QED BY <1>1, <2>1, <2>2, PgOutsideKeeps
<1> QED BY <1>3, <1>4, <1>5, <1>6 DEF Interference

\* A frame is played after the cues at its boundary, unless it fades.
LEMMA PgFrameKeeps ==
    ASSUME PgInv, SourceFrame
    PROVE  PgInv'
<1>1. /\ Playing /\ source.current > 0
      /\ UNCHANGED <<producer, channel, speech, stopState, progTicket>>
  BY DEF SourceFrame
<1>2. /\ source.place = "sink" /\ progTicket = "pending" /\ source \in PgSource
      /\ source.cues \in Seq(Nat) /\ source.position \in Nat /\ source.current \in Nat
  BY <1>1, PgPlaying DEF PgInv, PgTypeOK, PgSource
<1> DEFINE fading == FadeState = "Fading"
           cues == IF fading THEN [due |-> <<>>, left |-> source.cues]
                   ELSE ReportCues(source)
           faded == IF fading THEN source.faded + 1 ELSE 0
           fade == IF faded >= SPEECH_STOP_FADE_FRAMES /\ fading
                   THEN "Finished" ELSE FadeState
<1>3. /\ reported' = Reports(cues.due)
      /\ source' = [source EXCEPT
            !.position = @ + 1, !.current = @ - 1, !.cues = cues.left,
            !.faded = faded, !.fade = fade]
  BY DEF SourceFrame
<1>4. /\ cues.due \in Seq(Nat) /\ cues.left \in Seq(Nat)
      /\ \A i \in DOMAIN cues.due : cues.due[i] = source.position
      /\ \A c \in Nat : CueIn(c, source.cues) => CueIn(c, cues.due) \/ CueIn(c, cues.left)
  <2>1. CASE fading
    <3>1. cues.due = <<>> /\ cues.left = source.cues
      BY <2>1
    <3> HIDE DEF cues
    <3> QED BY <1>2, <3>1
  <2>2. CASE ~fading
    <3>1. cues = TakeDue(source.cues, source.position)
      BY <2>2 DEF ReportCues
    <3> HIDE DEF cues
    <3> QED BY <1>2, <3>1, DueCuesSplit
  <2> QED BY <2>1, <2>2
<1>5. faded \in Nat /\ fade \in {"Playing", "Fading", "Finished"}
  BY <1>2 DEF FadeState, PgSource
<1> HIDE DEF cues, faded, fade
<1>6. source' \in PgSource
  <2>1. source.position + 1 \in Nat /\ source.current - 1 \in Nat
    BY <1>1, <1>2
  <2> QED BY <1>2, <1>3, <1>4, <1>5, <2>1 DEF PgSource
<1>7. /\ source'.position = source.position + 1 /\ source'.current = source.current - 1
      /\ source'.cues = cues.left /\ source'.place = source.place
      /\ source'.token = source.token
  BY <1>2, <1>3 DEF PgSource
<1>8. /\ reported' \in Seq(PgReport) /\ PgReports'
      /\ \A c \in Nat : CueReported(c) \/ CueIn(c, cues.due) => CueReported(c)'
  <2>1. source'.position \in Nat /\ source.position <= source'.position
    BY <1>2, <1>7
  <2>2. PgTypeOK /\ PgReports
    BY DEF PgInv
  <2> QED BY <1>3, <1>4, <2>1, <2>2, ReportsKeep
<1>9. PgTypeOK' /\ PgStamped' /\ PgPlaces' /\ PgSending'
  BY <1>1, <1>6, <1>7, <1>8 DEF PgInv, PgTypeOK, PgStamped, PgPlaces, PgSending
<1>10. PgConserved'
  <2>1. source'.position + source'.current = source.position + source.current
    BY <1>1, <1>2, <1>7
  <2> QED BY <1>1, <2>1 DEF PgInv, PgConserved
<1>11. PgCueKept'
  <2>1. PICK c \in Nat : c = producer.last
    BY DEF PgInv, PgTypeOK, PgProducer
  <2>2. CueReported(c) \/ CueIn(c, source.cues) => CueReported(c)' \/ CueIn(c, source'.cues)
    BY <1>4, <1>7, <1>8
  <2>3. producer'.last = c
    BY <1>1, <2>1
  <2> QED BY <1>1, <2>1, <2>2, <2>3 DEF PgInv, PgCueKept, CueReported, CueInSome
<1>12. PgCompleted'
  BY <1>1, <1>2 DEF PgCompleted
<1> QED BY <1>8, <1>9, <1>10, <1>11, <1>12 DEF PgInv

\* The message at the front of the channel, and what stays behind it.
LEMMA PgFirstMessage ==
    ASSUME PgInv, channel # <<>>
    PROVE  /\ Head(channel) \in PgMessage /\ Tail(channel) \in Seq(PgMessage)
           /\ Head(channel).kind = "Complete" =>
                 /\ producer.finished /\ Head(channel).frames = 0 /\ Tail(channel) = <<>>
           /\ \A i \in DOMAIN Tail(channel) : Tail(channel)[i].kind = "Complete" =>
                 /\ producer.finished /\ i = Len(Tail(channel)) /\ Tail(channel)[i].frames = 0
           /\ \E h \in [0 .. Len(Tail(channel)) -> Nat] :
                 /\ h[0] = source.position + source.current + Head(channel).frames
                 /\ \A i \in DOMAIN Tail(channel) : h[i] = h[i - 1] + Tail(channel)[i].frames
                 /\ h[Len(Tail(channel))] = producer.frames
           /\ \A c : CueInSome(c, channel) =>
                 CueIn(c, Head(channel).cues) \/ CueInSome(c, Tail(channel))
<1> DEFINE n == Len(channel)
           rest == Tail(channel)
<1>1. channel \in Seq(PgMessage)
  BY DEF PgInv, PgTypeOK
<1>2. /\ n \in Nat \ {0} /\ DOMAIN channel = 1 .. n
      /\ Head(channel) = channel[1] /\ Head(channel) \in PgMessage
      /\ rest \in Seq(PgMessage) /\ Len(rest) = n - 1 /\ DOMAIN rest = 1 .. n - 1
      /\ \A i \in 1 .. n - 1 : rest[i] = channel[i + 1]
  BY <1>1
<1> HIDE DEF n, rest
<1>3. ASSUME Head(channel).kind = "Complete"
      PROVE  producer.finished /\ Head(channel).frames = 0 /\ rest = <<>>
  <2>1. /\ 1 \in DOMAIN channel /\ channel[1].kind = "Complete"
    BY <1>2, <1>3
  <2>2. producer.finished /\ 1 = n /\ channel[1].frames = 0
    BY <2>1 DEF PgInv, PgSending, n
  <2>3. Len(rest) = 0
    BY <1>2, <2>2
  <2> QED BY <1>2, <2>2, <2>3
<1>4. ASSUME NEW i \in DOMAIN rest, rest[i].kind = "Complete"
      PROVE  producer.finished /\ i = Len(rest) /\ rest[i].frames = 0
  <2>1. i + 1 \in DOMAIN channel /\ rest[i] = channel[i + 1] /\ i \in Nat
    BY <1>2
  <2>2. producer.finished /\ i + 1 = n /\ channel[i + 1].frames = 0
    BY <1>4, <2>1 DEF PgInv, PgSending, n
  <2> QED BY <1>2, <2>1, <2>2
<1>5. \E h \in [0 .. Len(rest) -> Nat] :
         /\ h[0] = source.position + source.current + Head(channel).frames
         /\ \A i \in DOMAIN rest : h[i] = h[i - 1] + rest[i].frames
         /\ h[Len(rest)] = producer.frames
  <2>1. PICK h \in [0 .. n -> Nat] :
           /\ h[0] = source.position + source.current
           /\ \A i \in 1 .. n : h[i] = h[i - 1] + channel[i].frames
           /\ h[n] = producer.frames
    BY <1>2 DEF PgInv, PgConserved, n
  <2> DEFINE g == [i \in 0 .. n - 1 |-> h[i + 1]]
  <2>2. g \in [0 .. n - 1 -> Nat]
    BY <1>2, <2>1
  <2>3. g[0] = source.position + source.current + Head(channel).frames
    <3>1. 1 \in 1 .. n /\ 0 \in 0 .. n - 1 /\ 0 + 1 = 1 /\ 1 - 1 = 0
      BY <1>2
    <3>2. g[0] = h[1] /\ h[1] = h[0] + channel[1].frames
      BY <2>1, <3>1
    <3> QED BY <1>2, <2>1, <3>2
  <2>4. g[n - 1] = producer.frames
    <3>1. n - 1 \in 0 .. n - 1 /\ (n - 1) + 1 = n
      BY <1>2
    <3> QED BY <2>1, <3>1
  <2>5. ASSUME NEW i \in 1 .. n - 1
        PROVE  g[i] = g[i - 1] + rest[i].frames
    <3>1. /\ i \in 0 .. n - 1 /\ i - 1 \in 0 .. n - 1 /\ (i - 1) + 1 = i
          /\ i + 1 \in 1 .. n /\ (i + 1) - 1 = i
      BY <1>2
    <3>2. g[i] = h[i + 1] /\ g[i - 1] = h[i]
      BY <3>1
    <3>3. h[i + 1] = h[i] + channel[i + 1].frames
      BY <2>1, <3>1
    <3> QED BY <1>2, <3>2, <3>3
  <2> HIDE DEF g
  <2> QED BY <1>2, <2>2, <2>3, <2>4, <2>5
<1>6. ASSUME NEW c, CueInSome(c, channel)
      PROVE  CueIn(c, Head(channel).cues) \/ CueInSome(c, rest)
  <2>1. PICK i \in 1 .. n : CueIn(c, channel[i].cues)
    BY <1>2, <1>6 DEF CueInSome
  <2>2. CASE i = 1
    BY <1>2, <2>1, <2>2
  <2>3. CASE i # 1
    <3>1. i - 1 \in DOMAIN rest /\ (i - 1) + 1 = i
      BY <1>2, <2>3
    <3>2. rest[i - 1] = channel[i]
      BY <1>2, <3>1
    <3> QED BY <2>1, <3>1, <3>2 DEF CueInSome
  <2> QED BY <2>2, <2>3
<1> QED BY <1>2, <1>3, <1>4, <1>5, <1>6 DEF rest

\* A window is taken over with its cues, completion is the end of the channel.
LEMMA PgReceiveKeeps ==
    ASSUME PgInv, SourceReceive
    PROVE  PgInv'
<1> DEFINE before == ReportCues(source)
           message == Head(channel)
           cues == [source EXCEPT !.cues = before.left \o message.cues]
           after == ReportCues(cues)
<1>1. /\ Playing /\ source.current = 0 /\ UNCHANGED <<producer, stopState>>
      /\ source \in PgSource /\ source.cues \in Seq(Nat) /\ source.position \in Nat
      /\ channel \in Seq(PgMessage) /\ PgTypeOK /\ PgReports
  BY DEF SourceReceive, PgInv, PgTypeOK, PgSource
<1>2. /\ source.place = "sink" /\ progTicket = "pending" /\ producer.pc # "new"
      /\ Tail(speech) \in Seq({"p", "b"})
      /\ \A i \in DOMAIN Tail(speech) : Tail(speech)[i] # "p"
  BY <1>1, PgPlaying
<1>3. /\ before.due \in Seq(Nat) /\ before.left \in Seq(Nat)
      /\ \A i \in DOMAIN before.due : before.due[i] = source.position
      /\ \A c \in Nat : CueIn(c, source.cues) => CueIn(c, before.due) \/ CueIn(c, before.left)
  <2>1. before = TakeDue(source.cues, source.position)
    BY DEF ReportCues
  <2> HIDE DEF before
  <2> QED BY <1>1, <2>1, DueCuesSplit
<1>4. CASE channel = <<>>
  <2>1. /\ source' = [source EXCEPT !.place = "ended"] /\ progTicket' = "Cancelled"
        /\ speech' = Tail(speech) /\ reported' = Reports(before.due) /\ UNCHANGED channel
    BY <1>4 DEF SourceReceive, EndSource
  <2> HIDE DEF before
  <2>2. /\ source'.position = source.position /\ source'.current = source.current
        /\ source'.place = "ended" /\ source'.token = source.token /\ source' \in PgSource
    BY <1>1, <2>1 DEF PgSource
  <2>3. reported' \in Seq(PgReport) /\ PgReports'
    <3>1. source'.position \in Nat /\ source.position <= source'.position
      BY <1>1, <2>2
    <3> QED BY <1>1, <1>3, <2>1, <3>1, ReportsKeep
  <2>4. PgTypeOK' /\ PgStamped' /\ PgSending'
    BY <1>1, <1>2, <2>1, <2>2, <2>3 DEF PgInv, PgTypeOK, PgStamped, PgSending
  <2>5. PgPlaces'
    BY <1>1, <1>2, <2>1, <2>2 DEF PgInv, PgPlaces
  <2>6. PgConserved' /\ PgCueKept' /\ PgCompleted'
    BY ZenonT(60), <1>1, <2>1, <2>2 DEF PgInv, PgConserved, PgCueKept, PgCompleted
  <2> QED BY <2>3, <2>4, <2>5, <2>6 DEF PgInv
<1>5. CASE channel # <<>>
  <2> HIDE DEF before
  <2>1. /\ message \in PgMessage /\ Tail(channel) \in Seq(PgMessage)
        /\ message.kind = "Complete" =>
              producer.finished /\ message.frames = 0 /\ Tail(channel) = <<>>
        /\ \A i \in DOMAIN Tail(channel) : Tail(channel)[i].kind = "Complete" =>
              producer.finished /\ i = Len(Tail(channel)) /\ Tail(channel)[i].frames = 0
        /\ \E h \in [0 .. Len(Tail(channel)) -> Nat] :
              /\ h[0] = source.position + source.current + message.frames
              /\ \A i \in DOMAIN Tail(channel) : h[i] = h[i - 1] + Tail(channel)[i].frames
              /\ h[Len(Tail(channel))] = producer.frames
        /\ \A c : CueInSome(c, channel) =>
              CueIn(c, message.cues) \/ CueInSome(c, Tail(channel))
    BY <1>5, PgFirstMessage
  <2>2. channel' = Tail(channel)
    BY <1>5 DEF SourceReceive
  <2>3. message.cues \in Seq(Nat) /\ message.frames \in Nat
        /\ message.kind \in {"Audio", "Complete"}
    BY <2>1 DEF PgMessage
  <2> HIDE DEF message
  <2> DEFINE held == before.left \o message.cues
  <2>4. /\ held \in Seq(Nat)
        /\ \A c \in Nat : CueIn(c, before.left) \/ CueIn(c, message.cues) => CueIn(c, held)
    BY <1>3, <2>3, CuesJoined
  <2>5. cues.cues = held /\ cues.position = source.position
        /\ cues = [source EXCEPT !.cues = held]
    BY <1>1 DEF PgSource
  <2>9. ASSUME source'.position + source'.current
                  = source.position + source.current + message.frames
        PROVE  PgConserved'
    <3>1. PICK t : t = Tail(channel)
      OBVIOUS
    <3>2. PICK h \in [0 .. Len(t) -> Nat] :
            /\ h[0] = source.position + source.current + message.frames
            /\ \A i \in DOMAIN t : h[i] = h[i - 1] + t[i].frames
            /\ h[Len(t)] = producer.frames
      BY <2>1, <3>1
    <3>3. channel' = t /\ producer'.frames = producer.frames
      BY <1>1, <2>2, <3>1
    <3>4. h[0] = source'.position + source'.current
      BY <2>9, <3>2
    <3> QED BY <3>2, <3>3, <3>4 DEF PgConserved
  <2>6. PgSending'
    BY <1>1, <2>1, <2>2 DEF PgInv, PgSending
  <2>7. CASE message.kind = "Audio"
    <3>1. /\ source' = [cues EXCEPT !.current = message.frames]
          /\ reported' = Reports(before.due) /\ UNCHANGED <<speech, progTicket>>
      BY <1>5, <2>7 DEF SourceReceive, message, before
    <3>2. source' = [source EXCEPT !.cues = held, !.current = message.frames]
      BY <1>1, <2>5, <3>1 DEF PgSource
    <3> HIDE DEF cues, held
    <3>3. /\ source'.position = source.position /\ source'.current = message.frames
          /\ source'.place = source.place /\ source'.token = source.token
          /\ source'.cues = held /\ source' \in PgSource
      BY <1>1, <2>3, <2>4, <3>2 DEF PgSource
    <3>4. /\ reported' \in Seq(PgReport) /\ PgReports'
          /\ \A c \in Nat : CueReported(c) \/ CueIn(c, before.due) => CueReported(c)'
      <4>1. source'.position \in Nat /\ source.position <= source'.position
        BY <1>1, <3>3
      <4> QED BY <1>1, <1>3, <3>1, <4>1, ReportsKeep
    <3>5. PgTypeOK' /\ PgStamped' /\ PgPlaces'
      BY <1>1, <2>1, <2>2, <3>1, <3>3, <3>4 DEF PgInv, PgTypeOK, PgStamped, PgPlaces
    <3>6. PgConserved'
      <4>1. source'.position + source'.current
                = source.position + source.current + message.frames
        BY <1>1, <2>3, <3>3
      <4> QED BY <2>9, <4>1
    <3>7. PgCueKept'
      <4>1. PICK c \in Nat : c = producer.last
        BY <1>1 DEF PgTypeOK, PgProducer
      <4>2. CueReported(c) \/ CueIn(c, source.cues) \/ CueInSome(c, channel)
                => CueReported(c)' \/ CueIn(c, source'.cues) \/ CueInSome(c, channel')
        BY <1>3, <2>1, <2>2, <2>4, <3>3, <3>4
      <4>3. producer'.last = c
        BY <1>1, <4>1
      <4> QED BY <1>1, <3>1, <4>1, <4>2, <4>3 DEF PgInv, PgCueKept, CueReported
    <3>8. PgCompleted'
      BY <1>2, <3>1 DEF PgCompleted
    <3> QED BY <2>6, <3>4, <3>5, <3>6, <3>7, <3>8 DEF PgInv
  <2>8. CASE message.kind = "Complete"
    <3>1. /\ source' = [source EXCEPT !.place = "ended"]
          /\ progTicket' = (IF after.left = <<>> THEN "Completed" ELSE "Cancelled")
          /\ speech' = Tail(speech) /\ reported' = Reports(before.due \o after.due)
      BY <1>5, <2>8 DEF SourceReceive, EndSource, message, before
    <3>2. /\ after.due \in Seq(Nat) /\ after.left \in Seq(Nat)
          /\ \A i \in DOMAIN after.due : after.due[i] = source.position
          /\ \A c \in Nat : CueIn(c, held) => CueIn(c, after.due) \/ CueIn(c, after.left)
      <4>1. after = TakeDue(held, source.position)
        BY <2>5 DEF ReportCues
      <4> HIDE DEF after, held
      <4> QED BY <1>1, <2>4, <4>1, DueCuesSplit
    <3> HIDE DEF after, cues, held
    <3> DEFINE all == before.due \o after.due
    <3>3. /\ all \in Seq(Nat) /\ \A i \in DOMAIN all : all[i] = source.position
          /\ \A c \in Nat : CueIn(c, before.due) \/ CueIn(c, after.due) => CueIn(c, all)
      <4>1. /\ all \in Seq(Nat)
            /\ \A c \in Nat : CueIn(c, before.due) \/ CueIn(c, after.due) => CueIn(c, all)
            /\ \A i \in DOMAIN all : \/ \E j \in DOMAIN before.due : all[i] = before.due[j]
                                     \/ \E j \in DOMAIN after.due : all[i] = after.due[j]
        BY <1>3, <3>2, CuesJoined
      <4> HIDE DEF all
      <4>2. \A i \in DOMAIN all : all[i] = source.position
        BY <1>3, <3>2, <4>1
      <4> QED BY <4>1, <4>2
    <3>4. reported' = Reports(all)
      BY <3>1
    <3> HIDE DEF all
    <3>5. /\ source'.position = source.position /\ source'.current = source.current
          /\ source'.place = "ended" /\ source'.token = source.token
          /\ source'.cues = source.cues /\ source' \in PgSource
      BY <1>1, <3>1 DEF PgSource
    <3>6. /\ reported' \in Seq(PgReport) /\ PgReports'
          /\ \A c \in Nat : CueReported(c) \/ CueIn(c, all) => CueReported(c)'
      <4>1. source'.position \in Nat /\ source.position <= source'.position
        BY <1>1, <3>5
      <4> QED BY <1>1, <3>3, <3>4, <4>1, ReportsKeep
    <3>7. PgTypeOK' /\ PgStamped'
      BY <1>1, <1>2, <2>1, <2>2, <3>1, <3>5, <3>6 DEF PgInv, PgTypeOK, PgStamped
    <3>8. PgPlaces'
      BY <1>1, <1>2, <3>1, <3>5 DEF PgInv, PgPlaces
    <3>9. /\ producer.finished /\ message.frames = 0 /\ Tail(channel) = <<>>
          /\ producer.sending = <<>> /\ producer.cues = <<>>
      BY <2>1, <2>8 DEF PgInv, PgSending
    <3>10. PgConserved'
      <4>1. source'.position + source'.current
                = source.position + source.current + message.frames
        BY <1>1, <3>5, <3>9
      <4> QED BY <2>9, <4>1
    <3>11. source'.position = producer.frames
      <4>1. Len(Tail(channel)) = 0
        BY <3>9
      <4> QED BY <1>1, <2>1, <3>5, <3>9, <4>1
    <3>12. progTicket' # "Cancelled" /\ producer.last > 0 => CueReported(producer.last)'
      <4> SUFFICES ASSUME progTicket' # "Cancelled", producer.last > 0
                   PROVE  CueReported(producer.last)'
        OBVIOUS
      <4>1. PICK c \in Nat : c = producer.last
        BY <1>1 DEF PgTypeOK, PgProducer
      <4>2. after.left = <<>> /\ \A d \in Nat : ~CueIn(d, after.left)
        BY <3>1 DEF CueIn
      <4>3. ~CueInSome(c, producer.sending) /\ ~CueIn(c, producer.cues)
            /\ ~CueInSome(c, Tail(channel))
        BY <3>9 DEF CueIn, CueInSome
      <4>4. CueReported(c) \/ CueIn(c, source.cues) \/ CueIn(c, message.cues)
        BY <1>2, <2>1, <4>1, <4>3 DEF PgInv, PgCueKept
      <4>5. CueReported(c)'
        BY <1>3, <2>4, <3>2, <3>3, <3>6, <4>2, <4>4
      <4>6. producer'.last = c
        BY <1>1, <4>1
      <4> QED BY <4>5, <4>6 DEF CueReported
    <3>13. PgCueKept' /\ PgCompleted'
      BY <1>1, <3>9, <3>11, <3>12 DEF PgCueKept, PgCompleted
    <3> QED BY <2>6, <3>6, <3>7, <3>8, <3>10, <3>13 DEF PgInv
  <2> QED BY <2>3, <2>7, <2>8
<1> QED BY <1>4, <1>5

LEMMA PgInitially == ProgressiveInit => PgInv
<1> SUFFICES ASSUME ProgressiveInit PROVE PgInv
  OBVIOUS
<1>1. <<>> \in Seq(Nat) /\ <<>> \in Seq(PgMessage) /\ <<>> \in Seq(PgReport)
      /\ <<>> \in Seq({"p", "b"})
  OBVIOUS
<1>2. producer \in PgProducer /\ source \in PgSource
  BY <1>1 DEF ProgressiveInit, PgProducer, PgSource
<1>3. PgTypeOK
  BY <1>1, <1>2 DEF ProgressiveInit, PgTypeOK
<1>4. PgStamped /\ PgPlaces /\ PgSending /\ PgReports /\ PgCompleted
  BY DEF ProgressiveInit, PgStamped, PgPlaces, PgSending, PgReports, PgCompleted
<1>5. PgConserved
  <2> DEFINE h == [i \in 0 .. 0 |-> 0]
  <2>1. Len(channel) = 0 /\ DOMAIN channel = 1 .. 0
    BY DEF ProgressiveInit
  <2>2. h \in [0 .. 0 -> Nat] /\ h[0] = 0
    OBVIOUS
  <2>3. source.position + source.current = 0 /\ producer.frames = 0
    BY DEF ProgressiveInit
  <2> HIDE DEF h
  <2>4. \A i \in 1 .. 0 : FALSE
    OBVIOUS
  <2> QED BY <2>1, <2>2, <2>3, <2>4 DEF PgConserved
<1>6. PgCueKept
  BY DEF ProgressiveInit, PgCueKept
<1> QED BY <1>3, <1>4, <1>5, <1>6 DEF PgInv

LEMMA PgKeeps == PgInv /\ [ProgressiveNext]_progressiveVars => PgInv'
<1> SUFFICES ASSUME PgInv, [ProgressiveNext]_progressiveVars PROVE PgInv'
  OBVIOUS
<1>1. CASE UNCHANGED progressiveVars
  <2>1. UNCHANGED <<producer, channel, source, speech, stopState, progTicket, reported>>
    BY <1>1 DEF progressiveVars
  <2>2. PgTypeOK' /\ PgStamped' /\ PgPlaces'
    BY <2>1 DEF PgInv, PgTypeOK, PgStamped, PgPlaces
  <2>3. PgSending' /\ PgReports' /\ PgCompleted'
    BY <2>1 DEF PgInv, PgSending, PgReports, PgCompleted, CueReported
  <2>4. PgConserved' /\ PgCueKept'
    BY <2>1 DEF PgInv, PgConserved, PgCueKept, CueReported, CueIn, CueInSome
  <2> QED BY <2>2, <2>3, <2>4 DEF PgInv
<1>2. CASE \E null \in BOOLEAN : OpenProgressive(null)
  BY <1>2, PgOpenKeeps
<1>3. CASE ProducerStep
  BY <1>3, PgSendRoundKeeps, PgAttachChecksKeep, PgAttachGateKeeps DEF ProducerStep
<1>4. CASE SinkStep
  BY <1>4, PgFrameKeeps, PgReceiveKeeps, PgUnplayedEndsKeep DEF SinkStep
<1> QED BY <1>1, <1>2, <1>3, <1>4, PgCallsKeep, PgDropKeeps, PgInterferenceKeeps
           DEF ProgressiveNext, ProgressiveDone

LEMMA PgSound == PgInv => CuesExact /\ StopReachesProgressive
<1> SUFFICES ASSUME PgInv PROVE CuesExact /\ StopReachesProgressive
  OBVIOUS
<1>1. CuesExact
  BY DEF PgInv, PgReports, PgCompleted, CueReported, CuesExact
<1>2. StopReachesProgressive
  BY DEF PgInv, PgStamped, PgPlaces, StopReachesProgressive, SourceCancelled
<1> QED BY <1>1, <1>2

\* Cues are reported at their frames and in order, a source that completed has
\* played and reported all it was sent, and a source is heard only if no stop came
\* after its check, for any windows, channel, prebuffer and fade.
THEOREM ProgressiveIsSound == ProgressiveSpec => [](CuesExact /\ StopReachesProgressive)
<1>1. ProgressiveSpec => []PgInv
  BY PgInitially, PgKeeps, PTL DEF ProgressiveSpec
<1> QED BY <1>1, PgSound, PTL

----------------------------------------------------------
(* Marker reports: counting what is alive *)

LEMMA PairsFinite ==
    ASSUME NEW f, IsFiniteSet(DOMAIN f), \A x \in DOMAIN f : IsFiniteSet(f[x])
    PROVE  IsFiniteSet(Pairs(f)) /\ Cardinality(Pairs(f)) \in Nat
<1> DEFINE D == DOMAIN f
           C == {{x} \X f[x] : x \in D}
           g == [x \in D |-> {x} \X f[x]]
<1>1. g \in Surjection(D, C)
  <2>1. g \in [D -> C]
    OBVIOUS
  <2>2. \A t \in C : \E x \in D : g[x] = t
    OBVIOUS
  <2> QED BY <2>1, <2>2 DEF Surjection
<1>2. IsFiniteSet(C)
  BY <1>1, FS_Surjection
<1>3. ASSUME NEW t \in C
      PROVE  IsFiniteSet(t)
  <2>1. PICK x \in D : t = {x} \X f[x]
    OBVIOUS
  <2>2. IsFiniteSet({x}) /\ IsFiniteSet(f[x])
    BY FS_Singleton
  <2> QED BY <2>1, <2>2, FS_Product
<1>4. IsFiniteSet(UNION C)
  BY <1>2, <1>3, FS_UNION
<1>5. Pairs(f) = UNION C
  BY DEF Pairs
<1> QED BY <1>4, <1>5, FS_CardinalityType

\* What is at x is counted by itself.
LEMMA PairsAt ==
    ASSUME NEW f, NEW x \in DOMAIN f, IsFiniteSet(DOMAIN f),
           \A y \in DOMAIN f : IsFiniteSet(f[y])
    PROVE  /\ IsFiniteSet(Pairs([y \in DOMAIN f \ {x} |-> f[y]]))
           /\ Cardinality(Pairs([y \in DOMAIN f \ {x} |-> f[y]])) \in Nat
           /\ Cardinality(f[x]) \in Nat
           /\ Cardinality(Pairs(f)) =
                 Cardinality(Pairs([y \in DOMAIN f \ {x} |-> f[y]])) + Cardinality(f[x])
<1> DEFINE D == DOMAIN f
           g == [y \in D \ {x} |-> f[y]]
           A == {x} \X f[x]
<1>1. DOMAIN g = D \ {x} /\ \A y \in D \ {x} : g[y] = f[y]
  OBVIOUS
<1>2. IsFiniteSet(Pairs(g)) /\ Cardinality(Pairs(g)) \in Nat
  <2>1. IsFiniteSet(DOMAIN g)
    BY <1>1, FS_Subset
  <2>2. \A y \in DOMAIN g : IsFiniteSet(g[y])
    BY <1>1
  <2> HIDE DEF g
  <2> QED BY <2>1, <2>2, PairsFinite
<1>3. IsFiniteSet(A) /\ Cardinality(A) = Cardinality(f[x]) /\ Cardinality(f[x]) \in Nat
  <2>1. IsFiniteSet({x}) /\ Cardinality({x}) = 1
    BY FS_Singleton
  <2>2. IsFiniteSet(f[x]) /\ Cardinality(f[x]) \in Nat
    BY FS_CardinalityType
  <2>3. IsFiniteSet(A) /\ Cardinality(A) = 1 * Cardinality(f[x])
    BY <2>1, <2>2, FS_Product
  <2> QED BY <2>2, <2>3
<1>4. Pairs(f) = Pairs(g) \cup A
  BY <1>1 DEF Pairs
<1>5. Pairs(g) \cap A = {}
  BY <1>1 DEF Pairs
<1> HIDE DEF g, A, D
<1>6. Cardinality(Pairs(g) \cup A) = Cardinality(Pairs(g)) + Cardinality(A)
                                        - Cardinality(Pairs(g) \cap A)
  BY <1>2, <1>3, FS_Union
<1>7. Cardinality(Pairs(g) \cap A) = 0
  BY <1>5, FS_EmptySet
<1> QED BY <1>2, <1>3, <1>4, <1>6, <1>7 DEF g, D

\* Changing what is at x changes the count by the difference.
LEMMA PairsChange ==
    ASSUME NEW f, NEW x \in DOMAIN f, IsFiniteSet(DOMAIN f),
           \A y \in DOMAIN f : IsFiniteSet(f[y]), NEW S, IsFiniteSet(S)
    PROVE  /\ Cardinality(Pairs(f)) \in Nat /\ Cardinality(f[x]) \in Nat
           /\ Cardinality(S) \in Nat
           /\ Cardinality(Pairs([f EXCEPT ![x] = S])) =
                 Cardinality(Pairs(f)) - Cardinality(f[x]) + Cardinality(S)
<1> DEFINE g == [f EXCEPT ![x] = S]
           r == [y \in DOMAIN f \ {x} |-> f[y]]
<1>1. /\ DOMAIN g = DOMAIN f /\ g[x] = S
      /\ \A y \in DOMAIN f \ {x} : g[y] = f[y]
  OBVIOUS
<1>2. [y \in DOMAIN g \ {x} |-> g[y]] = r
  BY <1>1
<1>3. \A y \in DOMAIN g : IsFiniteSet(g[y])
  BY <1>1
<1> HIDE DEF g, r
<1>4. /\ Cardinality(Pairs(r)) \in Nat /\ Cardinality(S) \in Nat
      /\ Cardinality(Pairs(g)) = Cardinality(Pairs(r)) + Cardinality(S)
  BY <1>1, <1>2, <1>3, PairsAt
<1>5. /\ Cardinality(f[x]) \in Nat
      /\ Cardinality(Pairs(f)) = Cardinality(Pairs(r)) + Cardinality(f[x])
  BY PairsAt DEF r
<1> QED BY <1>4, <1>5 DEF g

LEMMA PairsAppend ==
    ASSUME NEW T, NEW s \in Seq(T), NEW S \in T,
           \A X \in T : IsFiniteSet(X)
    PROVE  Cardinality(Pairs(Append(s, S))) = Cardinality(Pairs(s)) + Cardinality(S)
<1> DEFINE n == Len(s)
           g == Append(s, S)
<1>1. /\ n \in Nat /\ DOMAIN s = 1 .. n /\ DOMAIN g = 1 .. n + 1 /\ g[n + 1] = S
      /\ \A y \in 1 .. n : g[y] = s[y] /\ s[y] \in T
  OBVIOUS
<1> HIDE DEF g
<1>2. (1 .. n + 1) \ {n + 1} = 1 .. n
  BY <1>1
<1>3. [y \in DOMAIN g \ {n + 1} |-> g[y]] = s
  <2>1. s = [y \in 1 .. n |-> s[y]]
    BY <1>1
  <2> QED BY <1>1, <1>2, <2>1
<1>4. IsFiniteSet(DOMAIN g)
  BY <1>1, FS_Interval
<1>5. n + 1 \in DOMAIN g /\ \A y \in DOMAIN g : IsFiniteSet(g[y])
  <2>1. ASSUME NEW y \in DOMAIN g
        PROVE  g[y] \in T
    <3>1. y = n + 1 \/ y \in 1 .. n
      BY <1>1
    <3> QED BY <1>1, <3>1
  <2> QED BY <1>1, <2>1
<1>6. Cardinality(Pairs(g)) = Cardinality(Pairs(s)) + Cardinality(g[n + 1])
  BY <1>3, <1>4, <1>5, PairsAt
<1> QED BY <1>1, <1>6 DEF g

LEMMA PairsTail ==
    ASSUME NEW T, NEW s \in Seq(T), s # <<>>,
           \A X \in T : IsFiniteSet(X)
    PROVE  Cardinality(Pairs(s)) = Cardinality(Pairs(Tail(s))) + Cardinality(Head(s))
<1> DEFINE n == Len(s)
           r == [y \in DOMAIN s \ {1} |-> s[y]]
           t == Tail(s)
           h == [p \in Pairs(t) |-> <<p[1] + 1, p[2]>>]
<1>1. /\ n \in Nat \ {0} /\ DOMAIN s = 1 .. n /\ Head(s) = s[1] /\ DOMAIN t = 1 .. n - 1
      /\ \A y \in 1 .. n - 1 : t[y] = s[y + 1]
      /\ \A y \in 1 .. n : s[y] \in T
  OBVIOUS
<1>2. IsFiniteSet(DOMAIN s) /\ 1 \in DOMAIN s /\ \A y \in DOMAIN s : IsFiniteSet(s[y])
  BY SMTT(60), <1>1, FS_Interval
<1>3. /\ IsFiniteSet(Pairs(r))
      /\ Cardinality(Pairs(s)) = Cardinality(Pairs(r)) + Cardinality(s[1])
  BY <1>2, PairsAt
<1>4. DOMAIN r = 2 .. n /\ \A y \in 2 .. n : r[y] = s[y]
  BY <1>1
<1> HIDE DEF r, t
<1>5. Pairs(t) = {p \in (1 .. n - 1) \X UNION {s[y] : y \in 1 .. n} : p[2] \in s[p[1] + 1]}
  BY <1>1 DEF Pairs
<1>6. Pairs(r) = {p \in (2 .. n) \X UNION {s[y] : y \in 1 .. n} : p[2] \in s[p[1]]}
  BY <1>1, <1>4 DEF Pairs
<1>7. h \in Bijection(Pairs(t), Pairs(r))
  <2>1. \A p \in Pairs(t) : h[p] \in Pairs(r)
    BY <1>1, <1>5, <1>6
  <2>2. h \in [Pairs(t) -> Pairs(r)]
    BY <2>1
  <2>3. ASSUME NEW p \in Pairs(t), NEW q \in Pairs(t), h[p] = h[q]
        PROVE  p = q
    <3>1. p[1] + 1 = q[1] + 1 /\ p[2] = q[2]
      BY <2>3
    <3>2. p[1] \in Int /\ q[1] \in Int /\ p = <<p[1], p[2]>> /\ q = <<q[1], q[2]>>
      BY <1>1, <1>5
    <3>3. p[1] = q[1]
      BY <3>1, <3>2
    <3> QED BY <3>1, <3>2, <3>3
  <2>4. ASSUME NEW q \in Pairs(r)
        PROVE  \E p \in Pairs(t) : h[p] = q
    <3>0. PICK y \in 2 .. n : \E e \in s[y] : q = <<y, e>>
      BY <1>1, <1>4 DEF Pairs
    <3>1. PICK e \in s[y] : q = <<y, e>>
      BY <3>0
    <3>2. <<y - 1, e>> \in Pairs(t)
      <4>1. y - 1 \in 1 .. n - 1 /\ t[y - 1] = s[y]
        BY <1>1
      <4> QED BY <1>1, <4>1 DEF Pairs
    <3>3. h[<<y - 1, e>>] = q
      BY <1>1, <3>1, <3>2
    <3> QED BY <3>2, <3>3
  <2> HIDE DEF h
  <2> QED BY <2>2, <2>3, <2>4 DEF Bijection, Injection, Surjection, IsInjective
<1>8. IsFiniteSet(Pairs(t))
  <2>0. IsFiniteSet(1 .. n - 1)
    BY <1>1, FS_Interval
  <2>1. IsFiniteSet(DOMAIN t) /\ \A y \in DOMAIN t : y + 1 \in 1 .. n /\ t[y] = s[y + 1]
    BY <1>1, <2>0
  <2>2. \A y \in DOMAIN t : IsFiniteSet(t[y])
    BY <1>2, <2>1
  <2> QED BY <2>1, <2>2, PairsFinite
<1>9. Cardinality(Pairs(r)) = Cardinality(Pairs(t))
  BY <1>7, <1>8, FS_Bijection DEF ExistsBijection
<1> QED BY <1>1, <1>3, <1>9 DEF t

\* Every message but the empty ones holds a record of its own.
LEMMA PairsCover ==
    ASSUME NEW T, NEW s \in Seq(T), \A X \in T : IsFiniteSet(X),
           \A i, j \in DOMAIN s : s[i] = {} /\ s[j] = {} => i = j
    PROVE  /\ Cardinality(Pairs(s)) \in Nat
           /\ Len(s) <= Cardinality(Pairs(s)) + 1
<1> DEFINE E == {i \in DOMAIN s : s[i] = {}}
           D == DOMAIN s \ E
           f == [i \in D |-> <<i, CHOOSE r \in s[i] : TRUE>>]
<1>1. /\ Len(s) \in Nat /\ DOMAIN s = 1 .. Len(s) /\ \A i \in DOMAIN s : s[i] \in T
  OBVIOUS
<1>2. IsFiniteSet(DOMAIN s) /\ Cardinality(DOMAIN s) = Len(s)
  <2>1. PICK n \in Nat : n = Len(s)
    BY <1>1
  <2>2. IsFiniteSet(1 .. n) /\ Cardinality(1 .. n) = n
    BY FS_Interval
  <2> QED BY SMTT(60), <1>1, <2>1, <2>2
<1>3. IsFiniteSet(Pairs(s)) /\ Cardinality(Pairs(s)) \in Nat
  <2>1. \A i \in DOMAIN s : IsFiniteSet(s[i])
    BY <1>1
  <2> QED BY <1>2, <2>1, PairsFinite
<1>4. IsFiniteSet(E) /\ Cardinality(E) \in Nat /\ Cardinality(E) <= 1
  <2>1. \A i, j \in E : i = j
    OBVIOUS
  <2> HIDE DEF E
  <2>2. CASE E = {}
    <3>1. IsFiniteSet({}) /\ Cardinality({}) = 0
      BY FS_EmptySet
    <3> QED BY <2>2, <3>1
  <2>3. CASE E # {}
    <3>0. PICK i : i \in E
      BY <2>3
    <3>1. E = {i}
      BY <2>1, <3>0
    <3>2. IsFiniteSet({i}) /\ Cardinality({i}) = 1
      BY FS_Singleton
    <3> QED BY <3>1, <3>2
  <2> QED BY <2>2, <2>3
<1>5. IsFiniteSet(D) /\ Cardinality(D) \in Nat /\ Cardinality(D) >= Len(s) - 1
  <2>1. DOMAIN s \cap E = E
    OBVIOUS
  <2> HIDE DEF E
  <2>2. /\ IsFiniteSet(DOMAIN s \ E)
        /\ Cardinality(DOMAIN s \ E) = Cardinality(DOMAIN s) - Cardinality(DOMAIN s \cap E)
    BY <1>2, FS_Difference
  <2>3. IsFiniteSet(D) /\ Cardinality(D) = Len(s) - Cardinality(E)
    BY <1>2, <2>1, <2>2
  <2>4. Cardinality(D) \in Nat
    BY <2>3, FS_CardinalityType
  <2> HIDE DEF D
  <2>5. Cardinality(D) >= Len(s) - 1
    BY <1>1, <1>4, <2>3
  <2> QED BY <2>3, <2>4, <2>5
<1>6. f \in Injection(D, Pairs(s))
  <2>1. ASSUME NEW i \in D
        PROVE  f[i] \in Pairs(s)
    <3>1. (CHOOSE r \in s[i] : TRUE) \in s[i]
      OBVIOUS
    <3> QED BY <3>1 DEF Pairs
  <2>2. f \in [D -> Pairs(s)]
    BY <2>1
  <2>3. \A i, j \in D : f[i] = f[j] => i = j
    OBVIOUS
  <2> HIDE DEF f, D
  <2> QED BY <2>2, <2>3 DEF Injection, IsInjective
<1> HIDE DEF f, D, E
<1>7. Cardinality(D) <= Cardinality(Pairs(s))
  BY <1>3, <1>6, FS_Injection
<1> QED BY <1>1, <1>3, <1>5, <1>7

----------------------------------------------------------
(* Marker reports: the inductive invariant *)

RecordId(d) == 0 .. Initial[d] + MAX_PROGRESSIVE_MARKERS - 1
MkMessage == {m \in [d : Dispatch, records : SUBSET Nat] : m.records \subseteq RecordId(m.d)}

MkTypeOK ==
    /\ capacity \in [events : Int, bytes : Int, terminal_in_flight : BOOLEAN,
                     closed : BOOLEAN]
    /\ worker \in [d : Nat, pc : {"prepare", "reserve", "queue", "push", "cues"},
                   batch : SUBSET Nat]
    /\ records \in [Dispatch -> Nat] /\ cue \in [Dispatch -> Nat]
    /\ unsent \in [Dispatch -> SUBSET Nat]
    /\ playback \in [Dispatch -> {"none", "queued", "ended"}]
    /\ terminal \in [Dispatch -> {"waiting", "reserved", "sent", "lost"}]
    /\ output \in Seq(Dispatch)
    /\ reports \in Seq(MkMessage) /\ written \in Seq(MkMessage)
    /\ writing \in Seq(MkMessage) /\ Len(writing) <= 1

\* Records are numbered as they are reserved; the choice of a start that was not
\* sent is not sent either.
MkRecords ==
    \A d \in Dispatch :
        /\ records[d] <= Initial[d] + MAX_PROGRESSIVE_MARKERS
        /\ \A r \in unsent[d] : r < records[d]
        /\ d \in Paired /\ cue[d] = 0 /\ 0 \in unsent[d] => 1 \in unsent[d]

\* The worker takes the dispatches in order, and reserves the next numbers.
MkWorker ==
    /\ worker.pc # "prepare" => worker.d \in Dispatch
    /\ \A d \in Dispatch :
          d > worker.d \/ (d = worker.d /\ worker.pc = "prepare")
              => records[d] = 0 /\ playback[d] = "none"
    /\ worker.pc = "reserve" =>
          \/ worker.batch = 0 .. Initial[worker.d] - 1 /\ records[worker.d] = 0
          \/ /\ worker.batch = {records[worker.d]} /\ records[worker.d] > 0
             /\ records[worker.d] < Initial[worker.d] + MAX_PROGRESSIVE_MARKERS
    /\ worker.pc \in {"queue", "push", "cues"} => records[worker.d] > 0
    /\ worker.pc = "queue" => playback[worker.d] = "none"

\* A dispatch is in the output once, while it is queued, and its completion
\* starts when it has ended and the worker is past it.
MkOutput ==
    /\ \A i, j \in DOMAIN output :
          playback[output[i]] = "queued" /\ (output[i] = output[j] => i = j)
    /\ \A d \in Dispatch :
          terminal[d] # "waiting" => playback[d] = "ended" /\ d < worker.d

\* One terminal record is under way at a time, from its reservation to its write.
Ends(s) == {i \in DOMAIN s : s[i].records = {}}
TerminalReserved == \E d \in Dispatch : terminal[d] = "reserved"

MkTerminals ==
    /\ Ends(writing) # {} \/ Ends(reports) # {} \/ TerminalReserved
          => capacity.terminal_in_flight
    /\ \A d, e \in Dispatch :
          terminal[d] = "reserved" /\ terminal[e] = "reserved" => d = e
    /\ TerminalReserved => Ends(writing) = {} /\ Ends(reports) = {}
    /\ Ends(writing) # {} => Ends(reports) = {}
    /\ \A i, j \in Ends(reports) : i = j

MkCounted ==
    /\ capacity.events = Reserved
    /\ capacity.events <= max_events /\ capacity.bytes <= max_bytes

\* Whatever was sent, in the order in which it is written: below the next cue,
\* a terminal record last.
Line == (written \o writing) \o reports

MkLine ==
    /\ \A i \in DOMAIN Line :
          /\ \A r \in Line[i].records : r < cue[Line[i].d]
          /\ Line[i].d \in Paired /\ 0 \in Line[i].records => 1 \in Line[i].records
          /\ Line[i].records = {} => terminal[Line[i].d] = "sent"
    /\ \A i, j \in DOMAIN Line : i < j /\ Line[i].d = Line[j].d =>
          /\ Line[i].records # {}
          /\ \A r \in Line[i].records, s \in Line[j].records : r < s

MkInv == /\ MkTypeOK /\ MkRecords /\ MkWorker /\ MkOutput /\ MkTerminals /\ MkCounted
         /\ MkLine

----------------------------------------------------------
(* Marker reports: what is counted *)

LEMMA IdsFinite ==
    ASSUME NEW d \in Dispatch, NEW S \in SUBSET RecordId(d)
    PROVE  /\ IsFiniteSet(S) /\ Cardinality(S) \in Nat /\ S \in SUBSET Nat
           /\ Bytes(S) \in Nat
<1> DEFINE n == Initial[d] + MAX_PROGRESSIVE_MARKERS - 1
           f == [i \in S |-> 1 .. Size[i]]
<1>1. /\ n \in Nat /\ \A i \in 0 .. n : Size[i] \in Nat
  BY MarkerAssumption DEF MarkerAssumption
<1> HIDE DEF n
<1>2. S \subseteq 0 .. n
  BY DEF RecordId, n
<1>3. IsFiniteSet(0 .. n)
  BY <1>1, FS_Interval
<1>4. IsFiniteSet(S) /\ Cardinality(S) \in Nat
  BY <1>2, <1>3, FS_Subset, FS_CardinalityType
<1>5. ASSUME NEW i \in S
      PROVE  IsFiniteSet(f[i])
  <2>1. Size[i] \in Nat /\ f[i] = 1 .. Size[i]
    BY <1>1, <1>2
  <2> QED BY <2>1, FS_Interval
<1>6. DOMAIN f = S
  OBVIOUS
<1> HIDE DEF f
<1>7. Cardinality(Pairs(f)) \in Nat
  BY <1>4, <1>5, <1>6, PairsFinite
<1> QED BY <1>1, <1>2, <1>4, <1>7 DEF Bytes, f

LEMMA MessageFinite ==
    ASSUME NEW m \in MkMessage
    PROVE  /\ m.d \in Dispatch /\ m.records \in SUBSET Nat
           /\ m.records \subseteq RecordId(m.d) /\ IsFiniteSet(m.records)
           /\ Cardinality(m.records) \in Nat /\ Bytes(m.records) \in Nat
<1>1. m.d \in Dispatch /\ m.records \in SUBSET Nat /\ m.records \subseteq RecordId(m.d)
  BY DEF MkMessage
<1> QED BY <1>1, IdsFinite

\* What the messages of a channel hold.
Loads(s) == [i \in DOMAIN s |-> s[i].records]
Load == {X \in SUBSET Nat : IsFiniteSet(X)}

LEMMA LoadsTyped ==
    ASSUME NEW s \in Seq(MkMessage)
    PROVE  /\ Loads(s) \in Seq(Load) /\ Len(Loads(s)) = Len(s) /\ DOMAIN Loads(s) = DOMAIN s
           /\ \A i \in DOMAIN s : Loads(s)[i] = s[i].records /\ s[i] \in MkMessage
<1>1. Len(s) \in Nat /\ DOMAIN s = 1 .. Len(s) /\ \A i \in DOMAIN s : s[i] \in MkMessage
  OBVIOUS
<1>2. \A i \in DOMAIN s : s[i].records \in Load
  BY <1>1, MessageFinite DEF Load
<1>3. Loads(s) \in [1 .. Len(s) -> Load]
  BY <1>1, <1>2 DEF Loads
<1>4. Loads(s) \in Seq(Load) /\ Len(Loads(s)) = Len(s)
  BY <1>1, <1>3
<1> QED BY <1>1, <1>4 DEF Loads

LEMMA LoadsFollow ==
    ASSUME NEW s \in Seq(MkMessage)
    PROVE  /\ \A m \in MkMessage :
                 /\ Cardinality(Pairs(Loads(Append(s, m))))
                       = Cardinality(Pairs(Loads(s))) + Cardinality(m.records)
           /\ s # <<>> => /\ Head(s) \in MkMessage /\ Tail(s) \in Seq(MkMessage)
                          /\ Cardinality(Pairs(Loads(s)))
                                = Cardinality(Pairs(Loads(Tail(s)))) + Cardinality(Head(s).records)
           /\ Cardinality(Pairs(Loads(s))) \in Nat
<1>1. \A X \in Load : IsFiniteSet(X)
  BY DEF Load
<1>2. ASSUME NEW m \in MkMessage
      PROVE  Cardinality(Pairs(Loads(Append(s, m))))
                = Cardinality(Pairs(Loads(s))) + Cardinality(m.records)
  <2>1. m.records \in Load
    BY MessageFinite DEF Load
  <2>2. Loads(Append(s, m)) = Append(Loads(s), m.records)
    <3>1. Append(s, m) \in Seq(MkMessage) /\ Len(Append(s, m)) = Len(s) + 1 /\ Len(s) \in Nat
      OBVIOUS
    <3>2. /\ Loads(Append(s, m)) \in Seq(Load)
          /\ Len(Loads(Append(s, m))) = Len(s) + 1
          /\ \A i \in 1 .. Len(s) + 1 : Loads(Append(s, m))[i] = Append(s, m)[i].records
      <4> DEFINE more == Append(s, m)
      <4>1. more \in Seq(MkMessage) /\ DOMAIN more = 1 .. Len(s) + 1 /\ Len(more) = Len(s) + 1
        BY <3>1
      <4> HIDE DEF more
      <4>2. /\ Loads(more) \in Seq(Load) /\ Len(Loads(more)) = Len(s) + 1
            /\ \A i \in 1 .. Len(s) + 1 : Loads(more)[i] = more[i].records
        BY <4>1, LoadsTyped
      <4> QED BY <4>2 DEF more
    <3>3. /\ Append(Loads(s), m.records) \in Seq(Load)
          /\ Len(Append(Loads(s), m.records)) = Len(s) + 1
          /\ \A i \in 1 .. Len(s) : Append(Loads(s), m.records)[i] = s[i].records
          /\ Append(Loads(s), m.records)[Len(s) + 1] = m.records
      BY <2>1, <3>1, LoadsTyped
    <3>4. /\ \A i \in 1 .. Len(s) : Append(s, m)[i] = s[i]
          /\ Append(s, m)[Len(s) + 1] = m
      OBVIOUS
    <3>5. \A i \in 1 .. Len(s) + 1 : i \in 1 .. Len(s) \/ i = Len(s) + 1
      BY <3>1
    <3>6. \A i \in 1 .. Len(s) + 1 : Loads(Append(s, m))[i] = Append(Loads(s), m.records)[i]
      BY <3>2, <3>3, <3>4, <3>5
    <3> QED BY <3>1, <3>2, <3>3, <3>6
  <2> QED BY <1>1, <2>1, <2>2, LoadsTyped, PairsAppend
<1>3. ASSUME s # <<>>
      PROVE  /\ Head(s) \in MkMessage /\ Tail(s) \in Seq(MkMessage)
             /\ Cardinality(Pairs(Loads(s)))
                   = Cardinality(Pairs(Loads(Tail(s)))) + Cardinality(Head(s).records)
  <2>1. /\ Head(s) \in MkMessage /\ Tail(s) \in Seq(MkMessage) /\ Len(s) \in Nat \ {0}
        /\ Len(Tail(s)) = Len(s) - 1 /\ Head(s) = s[1] /\ 1 \in DOMAIN s
        /\ \A i \in 1 .. Len(s) - 1 : Tail(s)[i] = s[i + 1] /\ i + 1 \in DOMAIN s
    BY <1>3
  <2>2. Loads(s) \in Seq(Load) /\ Len(Loads(s)) = Len(s) /\ Loads(s)[1] = Head(s).records
    BY <2>1, LoadsTyped
  <2>3. Loads(s) # <<>> /\ Head(Loads(s)) = Head(s).records
    BY <2>1, <2>2
  <2>4. Loads(Tail(s)) = Tail(Loads(s))
    <3>1. /\ Loads(Tail(s)) \in Seq(Load) /\ Len(Loads(Tail(s))) = Len(s) - 1
          /\ \A i \in 1 .. Len(s) - 1 : Loads(Tail(s))[i] = Tail(s)[i].records
      <4> DEFINE rest == Tail(s)
      <4>1. rest \in Seq(MkMessage) /\ DOMAIN rest = 1 .. Len(s) - 1 /\ Len(rest) = Len(s) - 1
        BY <2>1
      <4> HIDE DEF rest
      <4>2. /\ Loads(rest) \in Seq(Load) /\ Len(Loads(rest)) = Len(s) - 1
            /\ \A i \in 1 .. Len(s) - 1 : Loads(rest)[i] = rest[i].records
        BY <4>1, LoadsTyped
      <4> QED BY <4>2 DEF rest
    <3>2. /\ Tail(Loads(s)) \in Seq(Load) /\ Len(Tail(Loads(s))) = Len(s) - 1
          /\ \A i \in 1 .. Len(s) - 1 : Tail(Loads(s))[i] = Loads(s)[i + 1]
      BY <2>1, <2>2, <2>3
    <3>3. \A i \in 1 .. Len(s) - 1 : Loads(s)[i + 1] = s[i + 1].records
      BY <2>1, LoadsTyped
    <3>4. \A i \in 1 .. Len(s) - 1 : Loads(Tail(s))[i] = Tail(Loads(s))[i]
      BY <2>1, <3>1, <3>2, <3>3
    <3> QED BY <2>1, <3>1, <3>2, <3>4
  <2> QED BY <1>1, <2>1, <2>2, <2>3, <2>4, PairsTail
<1>4. Cardinality(Pairs(Loads(s))) \in Nat
  <2>1. Loads(s) \in Seq(Load) /\ DOMAIN Loads(s) = 1 .. Len(Loads(s)) /\ Len(Loads(s)) \in Nat
    BY LoadsTyped
  <2>2. IsFiniteSet(DOMAIN Loads(s)) /\ \A i \in DOMAIN Loads(s) : IsFiniteSet(Loads(s)[i])
    BY <1>1, <2>1, FS_Interval
  <2> QED BY <2>2, PairsFinite
<1> QED BY <1>2, <1>3, <1>4

LEMMA UnsentChanges ==
    ASSUME MkTypeOK, MkRecords, NEW d \in Dispatch, NEW S \in SUBSET RecordId(d)
    PROVE  /\ unsent[d] \in SUBSET RecordId(d)
           /\ Cardinality(Pairs(unsent)) \in Nat
           /\ Cardinality(Pairs([unsent EXCEPT ![d] = S])) =
                 Cardinality(Pairs(unsent)) - Cardinality(unsent[d]) + Cardinality(S)
<1>1. DOMAIN unsent = Dispatch /\ IsFiniteSet(Dispatch)
  BY MarkerAssumption DEF MkTypeOK, MarkerAssumption
<1>2. ASSUME NEW e \in Dispatch
      PROVE  unsent[e] \in SUBSET RecordId(e)
  <2>1. /\ records[e] \in Nat /\ unsent[e] \in SUBSET Nat
        /\ Initial[e] \in Nat /\ MAX_PROGRESSIVE_MARKERS \in Nat
    BY MarkerAssumption DEF MkTypeOK, MarkerAssumption
  <2>2. /\ records[e] <= Initial[e] + MAX_PROGRESSIVE_MARKERS
        /\ \A r \in unsent[e] : r < records[e]
    BY DEF MkRecords
  <2> QED BY <2>1, <2>2 DEF RecordId
<1>3. \A e \in DOMAIN unsent : IsFiniteSet(unsent[e])
  BY <1>1, <1>2, IdsFinite
<1>4. IsFiniteSet(S)
  BY IdsFinite
<1> QED BY <1>1, <1>2, <1>3, <1>4, PairsChange

\* The terms of the count.
LEMMA ReservedIs ==
    ASSUME MkTypeOK
    PROVE  /\ InChannel = Loads(reports) /\ Cardinality(Pairs(InChannel)) \in Nat
           /\ (IF writing = <<>> THEN 0 ELSE Cardinality(writing[1].records)) \in Nat
<1>1. InChannel = Loads(reports)
  BY DEF InChannel, Loads
<1>2. writing # <<>> => writing[1] \in MkMessage
  BY DEF MkTypeOK
<1>3. Cardinality(Pairs(Loads(reports))) \in Nat
  BY LoadsFollow DEF MkTypeOK
<1> QED BY <1>1, <1>2, <1>3, MessageFinite

\* Dropped records give their room back.
LEMMA MkReleases ==
    ASSUME MkInv, NEW d \in Dispatch, capacity' = Release(capacity, unsent[d]),
           unsent' = [unsent EXCEPT ![d] = {}], UNCHANGED <<reports, writing>>
    PROVE  /\ MkCounted' /\ capacity' \in [events : Int, bytes : Int,
                                           terminal_in_flight : BOOLEAN, closed : BOOLEAN]
           /\ capacity'.terminal_in_flight = capacity.terminal_in_flight
<1>1. capacity \in [events : Int, bytes : Int, terminal_in_flight : BOOLEAN, closed : BOOLEAN]
      /\ MkTypeOK /\ MkRecords
  BY DEF MkInv, MkTypeOK
<1>2. /\ unsent[d] \in SUBSET RecordId(d) /\ Cardinality(Pairs(unsent)) \in Nat
      /\ Cardinality(Pairs(unsent')) = Cardinality(Pairs(unsent)) - Cardinality(unsent[d])
  <2>1. {} \in SUBSET RecordId(d) /\ Cardinality({}) = 0
    BY FS_EmptySet
  <2>2. /\ unsent[d] \in SUBSET RecordId(d) /\ Cardinality(Pairs(unsent)) \in Nat
        /\ Cardinality(Pairs(unsent')) =
              Cardinality(Pairs(unsent)) - Cardinality(unsent[d]) + Cardinality({})
    BY <1>1, <2>1, UnsentChanges
  <2>3. Cardinality(unsent[d]) \in Nat
    BY <2>2, IdsFinite
  <2> QED BY <2>1, <2>2, <2>3
<1>3. Cardinality(unsent[d]) \in Nat /\ Bytes(unsent[d]) \in Nat
  BY <1>2, IdsFinite
<1>4. /\ capacity'.events = capacity.events - Cardinality(unsent[d])
      /\ capacity'.bytes = capacity.bytes - Bytes(unsent[d])
      /\ capacity'.terminal_in_flight = capacity.terminal_in_flight
      /\ capacity'.closed = capacity.closed
      /\ capacity' = [capacity EXCEPT !.events = capacity'.events, !.bytes = capacity'.bytes]
  BY <1>1 DEF Release
<1>5. capacity'.events \in Int /\ capacity'.bytes \in Int
      /\ capacity'.events <= capacity.events /\ capacity'.bytes <= capacity.bytes
  BY <1>1, <1>3, <1>4
<1>6. capacity' \in [events : Int, bytes : Int, terminal_in_flight : BOOLEAN,
                     closed : BOOLEAN]
  BY <1>1, <1>4, <1>5
<1>7. MkCounted'
  <2> DEFINE w == IF writing = <<>> THEN 0 ELSE Cardinality(writing[1].records)
  <2>1. w \in Nat /\ Cardinality(Pairs(InChannel)) \in Nat
    BY <1>1, ReservedIs
  <2>2. w' = w /\ InChannel' = InChannel
    BY DEF InChannel
  <2>3. Reserved = Cardinality(Pairs(unsent)) + Cardinality(Pairs(InChannel)) + w
    BY DEF Reserved
  <2>4. Reserved' = Cardinality(Pairs(unsent')) + Cardinality(Pairs(InChannel)) + w
    BY <2>2 DEF Reserved
  <2> HIDE DEF w
  <2>5. capacity'.events = Reserved'
    BY <1>2, <1>3, <1>4, <2>1, <2>3, <2>4 DEF MkInv, MkCounted
  <2>6. max_events \in Nat /\ max_bytes \in Nat
    BY MarkerAssumption DEF MarkerAssumption
  <2> QED BY <1>1, <1>5, <2>5, <2>6 DEF MkInv, MkCounted
<1> QED BY <1>4, <1>6, <1>7

\* Reserving the next numbers takes the room of as many records.
LEMMA MkGrants ==
    ASSUME MkInv, ReserveGranted
    PROVE  MkTypeOK' /\ MkRecords' /\ MkCounted'
<1> DEFINE d == worker.d
           batch == worker.batch
<1>1. /\ worker.pc = "reserve" /\ Fits(batch)
      /\ capacity' = [capacity EXCEPT !.events = @ + Cardinality(batch),
                                      !.bytes = @ + Bytes(batch)]
      /\ unsent' = [unsent EXCEPT ![d] = @ \cup batch]
      /\ records' = [records EXCEPT ![d] = @ + Cardinality(batch)]
      /\ worker' = [worker EXCEPT !.pc = IF playback[d] = "none" THEN "queue" ELSE "cues",
                                  !.batch = {}]
      /\ UNCHANGED <<cue, playback, output, terminal, reports, writing, written>>
  BY DEF ReserveGranted
<1>2. /\ d \in Dispatch /\ records[d] \in Nat /\ unsent[d] \in SUBSET Nat
      /\ Initial[d] \in Nat \ {0} /\ MAX_PROGRESSIVE_MARKERS \in Nat
      /\ (d \in Paired => Initial[d] >= 2)
      /\ \A r \in unsent[d] : r < records[d]
      /\ MkTypeOK /\ MkRecords
  BY <1>1, MarkerAssumption DEF MkInv, MkTypeOK, MkWorker, MkRecords, MarkerAssumption
<1>3. /\ batch \in SUBSET RecordId(d) /\ batch \cap unsent[d] = {}
      /\ records[d] + Cardinality(batch) <= Initial[d] + MAX_PROGRESSIVE_MARKERS
      /\ \A r \in batch : r < records[d] + Cardinality(batch)
      /\ (0 \in batch /\ d \in Paired => 1 \in batch)
  <2>1. CASE batch = 0 .. Initial[d] - 1 /\ records[d] = 0
    <3>1. Cardinality(0 .. Initial[d] - 1) = Initial[d]
      <4>1. PICK n \in Nat \ {0} : n = Initial[d]
        BY <1>2
      <4>2. Cardinality(0 .. n - 1) = n
        BY FS_Interval
      <4> QED BY <4>1, <4>2
    <3> QED BY <1>2, <2>1, <3>1 DEF RecordId
  <2>2. CASE /\ batch = {records[d]} /\ records[d] > 0
             /\ records[d] < Initial[d] + MAX_PROGRESSIVE_MARKERS
    <3>1. Cardinality(batch) = 1
      BY <2>2, FS_Singleton
    <3> QED BY <1>2, <2>2, <3>1 DEF RecordId
  <2> QED BY <1>1, <2>1, <2>2 DEF MkInv, MkWorker
<1>4. Cardinality(batch) \in Nat /\ Bytes(batch) \in Nat /\ batch \in SUBSET Nat
      /\ IsFiniteSet(batch)
  BY <1>2, <1>3, IdsFinite
<1>5. /\ unsent[d] \in SUBSET RecordId(d) /\ Cardinality(Pairs(unsent)) \in Nat
      /\ Cardinality(Pairs(unsent')) = Cardinality(Pairs(unsent)) + Cardinality(batch)
  <2>1. unsent[d] \in SUBSET RecordId(d)
    BY <1>2, UnsentChanges
  <2>2. unsent[d] \cup batch \in SUBSET RecordId(d)
    BY <1>3, <2>1
  <2>3. IsFiniteSet(unsent[d]) /\ Cardinality(unsent[d]) \in Nat
    BY <1>2, <2>1, IdsFinite
  <2>4. Cardinality(unsent[d] \cup batch) = Cardinality(unsent[d]) + Cardinality(batch)
    <3>1. unsent[d] \cap batch = {}
      BY <1>3
    <3>2. Cardinality(unsent[d] \cup batch) = Cardinality(unsent[d]) + Cardinality(batch)
                                                - Cardinality(unsent[d] \cap batch)
      BY <1>4, <2>3, FS_Union
    <3>3. Cardinality(unsent[d] \cap batch) = 0
      BY <3>1, FS_EmptySet
    <3>4. PICK a \in Nat, b \in Nat :
             a = Cardinality(unsent[d]) /\ b = Cardinality(batch)
      BY <1>4, <2>3
    <3>5. Cardinality(unsent[d] \cup batch) = a + b - 0
      BY <3>2, <3>3, <3>4
    <3> QED BY <3>4, <3>5
  <2>5. unsent' = [unsent EXCEPT ![d] = unsent[d] \cup batch]
    BY <1>1, <1>2 DEF MkTypeOK
  <2>6. /\ Cardinality(Pairs(unsent)) \in Nat
        /\ Cardinality(Pairs([unsent EXCEPT ![d] = unsent[d] \cup batch])) =
              Cardinality(Pairs(unsent)) - Cardinality(unsent[d])
                 + Cardinality(unsent[d] \cup batch)
    <3>1. PICK S \in SUBSET RecordId(d) : S = unsent[d] \cup batch
      BY <2>2
    <3> QED BY <1>2, <3>1, UnsentChanges
  <2> QED BY <1>4, <2>1, <2>3, <2>4, <2>5, <2>6
<1>6. /\ capacity \in [events : Int, bytes : Int, terminal_in_flight : BOOLEAN,
                       closed : BOOLEAN]
      /\ capacity.events = Reserved
      /\ max_events \in Nat /\ max_bytes \in Nat
  BY MarkerAssumption DEF MkInv, MkTypeOK, MkCounted, MarkerAssumption
<1>7. /\ capacity'.events = capacity.events + Cardinality(batch)
      /\ capacity'.bytes = capacity.bytes + Bytes(batch)
      /\ capacity' \in [events : Int, bytes : Int, terminal_in_flight : BOOLEAN,
                        closed : BOOLEAN]
  <2>1. capacity.events + Cardinality(batch) \in Int /\ capacity.bytes + Bytes(batch) \in Int
    BY <1>4, <1>6
  <2> QED BY <1>1, <1>6, <2>1
<1>8. MkCounted'
  <2> DEFINE w == IF writing = <<>> THEN 0 ELSE Cardinality(writing[1].records)
  <2>1. w \in Nat /\ Cardinality(Pairs(InChannel)) \in Nat
    BY <1>2, ReservedIs
  <2>2. w' = w /\ InChannel' = InChannel
    BY <1>1 DEF InChannel
  <2>3. Reserved = Cardinality(Pairs(unsent)) + Cardinality(Pairs(InChannel)) + w
    BY DEF Reserved
  <2>4. Reserved' = Cardinality(Pairs(unsent')) + Cardinality(Pairs(InChannel)) + w
    BY <2>2 DEF Reserved
  <2> HIDE DEF w
  <2>5. capacity'.events = Reserved'
    BY <1>4, <1>5, <1>6, <1>7, <2>1, <2>3, <2>4
  <2>6. capacity'.events <= max_events /\ capacity'.bytes <= max_bytes
    BY <1>1, <1>7 DEF Fits
  <2> QED BY <2>5, <2>6 DEF MkCounted
<1>9. MkTypeOK'
  <2>1. /\ records[d] + Cardinality(batch) \in Nat /\ unsent[d] \cup batch \in SUBSET Nat
        /\ {} \in SUBSET Nat
    BY <1>2, <1>4
  <2>2. unsent' \in [Dispatch -> SUBSET Nat] /\ records' \in [Dispatch -> Nat]
    BY <1>1, <1>2, <2>1 DEF MkTypeOK
  <2>3. worker' \in [d : Nat, pc : {"prepare", "reserve", "queue", "push", "cues"},
                     batch : SUBSET Nat]
    BY <1>1, <1>2, <2>1 DEF MkTypeOK
  <2> QED BY <1>1, <1>2, <1>7, <2>2, <2>3 DEF MkTypeOK
<1>10. MkRecords'
  <2> SUFFICES ASSUME NEW e \in Dispatch
               PROVE  /\ records'[e] <= Initial[e] + MAX_PROGRESSIVE_MARKERS
                      /\ \A r \in unsent'[e] : r < records'[e]
                      /\ e \in Paired /\ cue'[e] = 0 /\ 0 \in unsent'[e] => 1 \in unsent'[e]
    BY DEF MkRecords
  <2>1. CASE e = d
    <3>1. unsent'[d] = unsent[d] \cup batch /\ records'[d] = records[d] + Cardinality(batch)
      BY <1>1, <1>2 DEF MkTypeOK
    <3>2. \A r \in unsent[d] : r < records[d] + Cardinality(batch)
      BY <1>2, <1>4
    <3> QED BY <1>1, <1>2, <1>3, <2>1, <3>1, <3>2 DEF MkRecords
  <2>2. CASE e # d
    <3>1. unsent'[e] = unsent[e] /\ records'[e] = records[e]
      BY <1>1, <1>2, <2>2 DEF MkTypeOK
    <3> QED BY <1>1, <1>2, <3>1 DEF MkRecords
  <2> QED BY <2>1, <2>2
<1> QED BY <1>8, <1>9, <1>10

----------------------------------------------------------
(* Marker reports: what most steps leave alone *)

LEMMA MkLineStays ==
    ASSUME MkTypeOK, MkLine, UNCHANGED <<reports, writing, written, cue>>,
           \A d \in Dispatch : terminal[d] = "sent" => terminal'[d] = "sent"
    PROVE  MkLine'
<1>1. Line' = Line /\ cue' = cue
  BY DEF Line
<1>2. \A i \in DOMAIN Line : Line[i].d \in Dispatch
  <2>1. Line \in Seq(MkMessage)
    BY DEF Line, MkTypeOK
  <2> HIDE DEF Line
  <2>2. \A i \in DOMAIN Line : Line[i] \in MkMessage
    BY <2>1
  <2> QED BY <2>2, MessageFinite
<1>3. \A i \in DOMAIN Line' : Line'[i].records = {} => terminal'[Line'[i].d] = "sent"
  BY <1>1, <1>2 DEF MkLine
<1> QED BY <1>1, <1>3 DEF MkLine

LEMMA MkTerminalsStay ==
    ASSUME MkTerminals, UNCHANGED <<reports, writing, terminal>>,
           capacity'.terminal_in_flight = capacity.terminal_in_flight
    PROVE  MkTerminals'
<1>1. Ends(writing)' = Ends(writing) /\ Ends(reports)' = Ends(reports)
      /\ TerminalReserved' = TerminalReserved
  BY DEF Ends, TerminalReserved
<1> QED BY <1>1 DEF MkTerminals

LEMMA MkCountedStays ==
    ASSUME MkCounted, UNCHANGED <<unsent, reports, writing>>,
           capacity'.events = capacity.events, capacity'.bytes = capacity.bytes
    PROVE  MkCounted'
<1>1. Reserved' = Reserved
  BY DEF Reserved, InChannel
<1> QED BY <1>1 DEF MkCounted

\* Fewer records unsent.
LEMMA MkRecordsStay ==
    ASSUME MkTypeOK, MkRecords, UNCHANGED <<records, cue>>, NEW d \in Dispatch,
           unsent' = unsent \/ unsent' = [unsent EXCEPT ![d] = {}]
    PROVE  MkRecords' /\ unsent' \in [Dispatch -> SUBSET Nat]
<1>1. unsent \in [Dispatch -> SUBSET Nat] /\ {} \in SUBSET Nat
  BY DEF MkTypeOK
<1>2. unsent' \in [Dispatch -> SUBSET Nat]
  BY <1>1
<1>3. \A e \in Dispatch : unsent'[e] = unsent[e] \/ unsent'[e] = {}
  BY <1>1
<1> QED BY <1>2, <1>3 DEF MkRecords

----------------------------------------------------------
(* Marker reports: the worker's steps *)

\* What the worker leaves to the other threads.
LEMMA MkWorkerStep ==
    ASSUME MkInv, UNCHANGED <<cue, terminal, reports, writing, written, current>>,
           capacity'.terminal_in_flight = capacity.terminal_in_flight
    PROVE  MkTerminals' /\ MkLine'
BY MkTerminalsStay, MkLineStays DEF MkInv

\* The worker leaves a dispatch: what it has not queued has ended.
LEMMA MkMovesOn ==
    ASSUME MkTypeOK, MkWorker, MkOutput, worker.d \in Dispatch, worker' = NextDispatch,
           playback' = playback \/
              (playback[worker.d] = "none" /\ playback' = [playback EXCEPT ![worker.d] = "ended"]),
           UNCHANGED <<records, output, terminal>>
    PROVE  /\ MkWorker' /\ MkOutput'
           /\ worker' \in [d : Nat, pc : {"prepare", "reserve", "queue", "push", "cues"},
                           batch : SUBSET Nat]
           /\ playback' \in [Dispatch -> {"none", "queued", "ended"}]
<1>1. /\ worker.d \in Nat /\ Dispatch \subseteq Nat /\ playback \in [Dispatch -> {"none", "queued", "ended"}]
      /\ output \in Seq(Dispatch)
  BY MarkerAssumption DEF MkTypeOK, MarkerAssumption
<1>2. /\ worker'.d = worker.d + 1 /\ worker'.pc = "prepare" /\ worker'.batch = {}
      /\ worker' = [d |-> worker.d + 1, pc |-> "prepare", batch |-> {}]
  BY DEF NextDispatch
<1>3. /\ worker.d + 1 \in Nat
      /\ worker' \in [d : Nat, pc : {"prepare", "reserve", "queue", "push", "cues"},
                      batch : SUBSET Nat]
  BY <1>1, <1>2
<1>4. /\ playback' \in [Dispatch -> {"none", "queued", "ended"}]
      /\ \A e \in Dispatch : e # worker.d => playback'[e] = playback[e]
      /\ \A e \in Dispatch : playback[e] # "none" => playback'[e] = playback[e]
  BY <1>1
<1>5. MkWorker'
  <2>1. ASSUME NEW e \in Dispatch, e > worker.d + 1 \/ e = worker.d + 1
        PROVE  records[e] = 0 /\ playback'[e] = "none"
    <3>1. e \in Nat /\ e > worker.d /\ e # worker.d
      BY <1>1, <2>1
    <3> QED BY <1>4, <3>1 DEF MkWorker
  <2> QED BY <1>2, <2>1 DEF MkWorker
<1>6. MkOutput'
  <2>1. \A i \in DOMAIN output : output[i] \in Dispatch
    BY <1>1
  <2>2. \A i, j \in DOMAIN output :
           playback'[output[i]] = "queued" /\ (output[i] = output[j] => i = j)
    BY <1>4, <2>1 DEF MkOutput
  <2>3. ASSUME NEW e \in Dispatch, terminal[e] # "waiting"
        PROVE  playback'[e] = "ended" /\ e < worker.d + 1
    <3>1. playback[e] = "ended" /\ e < worker.d /\ e \in Nat
      BY <1>1, <2>3 DEF MkOutput
    <3> QED BY <1>1, <1>4, <3>1
  <2> QED BY <1>2, <2>2, <2>3 DEF MkOutput
<1> QED BY <1>3, <1>4, <1>5, <1>6

LEMMA MkKeepsPrepare ==
    ASSUME MkInv, PrepareUtterance
    PROVE  MkInv'
<1> DEFINE d == worker.d
<1>1. /\ d \in Dispatch /\ worker.pc = "prepare"
      /\ worker' = [worker EXCEPT !.pc = "reserve", !.batch = 0 .. Initial[d] - 1]
      /\ UNCHANGED <<capacity, records, unsent, cue, playback, output, current,
                     terminal, reports, writing, written>>
  BY DEF PrepareUtterance
<1>2. /\ Dispatch \subseteq Nat /\ Initial[d] \in Nat \ {0} /\ 0 .. Initial[d] - 1 \in SUBSET Nat
      /\ MkTypeOK /\ MkRecords /\ MkWorker /\ MkOutput /\ MkCounted
  BY <1>1, MarkerAssumption DEF MkInv, MarkerAssumption
<1>3. MkTerminals' /\ MkLine'
  BY <1>1, MkWorkerStep
<1>4. MkCounted'
  BY <1>1, <1>2, MkCountedStays
<1>5. /\ worker' \in [d : Nat, pc : {"prepare", "reserve", "queue", "push", "cues"},
                      batch : SUBSET Nat]
      /\ worker'.d = d /\ worker'.pc = "reserve" /\ worker'.batch = 0 .. Initial[d] - 1
  BY <1>1, <1>2 DEF MkTypeOK
<1>6. MkTypeOK'
  BY <1>1, <1>2, <1>5 DEF MkTypeOK
<1>7. MkRecords'
  BY <1>1, <1>2 DEF MkRecords
<1>8. MkWorker'
  <2>1. records[d] = 0
    BY <1>1, <1>2 DEF MkWorker
  <2> QED BY <1>1, <1>2, <1>5, <2>1 DEF MkWorker
<1>9. MkOutput'
  BY <1>1, <1>2, <1>5 DEF MkOutput
<1> QED BY <1>3, <1>4, <1>6, <1>7, <1>8, <1>9 DEF MkInv

LEMMA MkKeepsPush ==
    ASSUME MkInv, PushTimelineEvents \/ ReserveRefused
    PROVE  MkInv'
<1> DEFINE d == worker.d
<1>1. /\ worker.pc \in {"push", "reserve"}
      /\ UNCHANGED <<capacity, records, unsent, cue, output, current, terminal,
                     reports, writing, written>>
  BY DEF PushTimelineEvents, ReserveRefused
<1>2. /\ Dispatch \subseteq Nat /\ d \in Dispatch /\ Initial[d] \in Nat \ {0}
      /\ MAX_PROGRESSIVE_MARKERS \in Nat /\ records[d] \in Nat
      /\ MkTypeOK /\ MkRecords /\ MkWorker /\ MkOutput /\ MkCounted
  BY <1>1, MarkerAssumption DEF MkInv, MkTypeOK, MkWorker, MarkerAssumption
<1>3. MkTerminals' /\ MkLine' /\ MkCounted'
  BY <1>1, <1>2, MkWorkerStep, MkCountedStays
<1>4. MkRecords'
  BY <1>1, <1>2 DEF MkRecords
<1>5. CASE Abandon(d)
  <2>1. /\ worker' = NextDispatch
        /\ \/ playback' = playback
           \/ playback[d] = "none" /\ playback' = [playback EXCEPT ![d] = "ended"]
    BY <1>2, <1>5 DEF Abandon, MkTypeOK
  <2>2. /\ MkWorker' /\ MkOutput'
        /\ worker' \in [d : Nat, pc : {"prepare", "reserve", "queue", "push", "cues"},
                        batch : SUBSET Nat]
        /\ playback' \in [Dispatch -> {"none", "queued", "ended"}]
    BY <1>1, <1>2, <2>1, MkMovesOn
  <2>3. MkTypeOK'
    BY <1>1, <1>2, <2>2 DEF MkTypeOK
  <2> QED BY <1>3, <1>4, <2>2, <2>3 DEF MkInv
<1>6. CASE ~Abandon(d)
  <2>1. /\ worker.pc = "push" /\ records[d] - Initial[d] + 1 <= MAX_PROGRESSIVE_MARKERS
        /\ worker' = [worker EXCEPT !.pc = "reserve", !.batch = {records[d]}]
        /\ playback' = playback
    BY <1>6 DEF PushTimelineEvents, ReserveRefused
  <2>2. /\ worker' \in [d : Nat, pc : {"prepare", "reserve", "queue", "push", "cues"},
                        batch : SUBSET Nat]
        /\ worker'.d = d /\ worker'.pc = "reserve" /\ worker'.batch = {records[d]}
    BY <1>2, <2>1 DEF MkTypeOK
  <2>3. MkTypeOK'
    BY <1>1, <1>2, <2>1, <2>2 DEF MkTypeOK
  <2>4. MkWorker'
    <3>1. records[d] > 0 /\ records[d] < Initial[d] + MAX_PROGRESSIVE_MARKERS
      BY <1>2, <2>1 DEF MkWorker
    <3>2. \A e \in Dispatch : e > d => records[e] = 0 /\ playback[e] = "none"
      BY <1>2 DEF MkWorker
    <3> QED BY <1>1, <1>2, <2>1, <2>2, <3>1, <3>2 DEF MkWorker
  <2>5. MkOutput'
    BY <1>1, <1>2, <2>1, <2>2 DEF MkOutput
  <2> QED BY <1>3, <1>4, <2>3, <2>4, <2>5 DEF MkInv
<1> QED BY <1>5, <1>6

LEMMA MkKeepsGranted ==
    ASSUME MkInv, ReserveGranted
    PROVE  MkInv'
<1> DEFINE d == worker.d
<1>1. /\ worker.pc = "reserve"
      /\ capacity' = [capacity EXCEPT !.events = @ + Cardinality(worker.batch),
                                      !.bytes = @ + Bytes(worker.batch)]
      /\ records' = [records EXCEPT ![d] = @ + Cardinality(worker.batch)]
      /\ worker' = [worker EXCEPT !.pc = IF playback[d] = "none" THEN "queue" ELSE "cues",
                                  !.batch = {}]
      /\ UNCHANGED <<cue, playback, output, current, terminal, reports, writing, written>>
  BY DEF ReserveGranted
<1>2. /\ MkTypeOK' /\ MkRecords' /\ MkCounted'
      /\ MkTypeOK /\ MkWorker /\ MkOutput
  BY MkGrants DEF MkInv
<1>3. capacity'.terminal_in_flight = capacity.terminal_in_flight
  BY <1>1, <1>2 DEF MkTypeOK
<1>4. MkTerminals' /\ MkLine'
  BY <1>1, <1>3, MkWorkerStep
<1>5. /\ Dispatch \subseteq Nat /\ d \in Dispatch /\ records[d] \in Nat
      /\ worker'.d = d /\ worker'.pc \in {"queue", "cues"}
      /\ (worker'.pc = "queue" => playback[d] = "none")
      /\ records'[d] = records[d] + Cardinality(worker.batch)
      /\ \A e \in Dispatch \ {d} : records'[e] = records[e]
  BY <1>1, <1>2, MarkerAssumption DEF MkTypeOK, MkWorker, MarkerAssumption
<1>6. records'[d] > 0
  <2>1. CASE worker.batch = 0 .. Initial[d] - 1 /\ records[d] = 0
    <3>1. PICK n \in Nat \ {0} : n = Initial[d]
      BY <1>5, MarkerAssumption DEF MarkerAssumption
    <3>2. Cardinality(0 .. n - 1) = n
      BY FS_Interval
    <3> QED BY <1>5, <2>1, <3>1, <3>2
  <2>2. CASE worker.batch = {records[d]} /\ records[d] > 0
    <3>1. Cardinality(worker.batch) = 1
      BY <2>2, FS_Singleton
    <3> QED BY <1>5, <2>2, <3>1
  <2> QED BY <1>1, <1>2, <2>1, <2>2 DEF MkWorker
<1>7. MkWorker'
  <2>1. \A e \in Dispatch : e > d => records'[e] = 0 /\ playback[e] = "none"
    BY <1>2, <1>5 DEF MkWorker
  <2> QED BY <1>1, <1>5, <1>6, <2>1 DEF MkWorker
<1>8. MkOutput'
  BY <1>1, <1>2, <1>5 DEF MkOutput
<1> QED BY <1>2, <1>4, <1>7, <1>8 DEF MkInv

LEMMA MkKeepsQueue ==
    ASSUME MkInv, NEW queued \in BOOLEAN, QueueUtterance(queued)
    PROVE  MkInv'
<1> DEFINE d == worker.d
<1>1. /\ worker.pc = "queue"
      /\ UNCHANGED <<records, cue, current, terminal, reports, writing, written>>
  BY DEF QueueUtterance
<1>2. /\ Dispatch \subseteq Nat /\ d \in Dispatch
      /\ MkTypeOK /\ MkRecords /\ MkWorker /\ MkOutput /\ MkCounted
      /\ playback[d] = "none" /\ records[d] > 0
  BY <1>1, MarkerAssumption DEF MkInv, MkWorker, MarkerAssumption
<1>0. d \in Nat /\ d + 1 \in Nat
  <2>1. d \in Dispatch /\ Dispatch \subseteq Nat
    BY <1>2
  <2> HIDE DEF d
  <2> QED BY <2>1
<1>3. CASE queued /\ d \in current
  <2>1. /\ output' = Append(output, d) /\ playback' = [playback EXCEPT ![d] = "queued"]
        /\ worker' = IF d \in Progressive THEN [worker EXCEPT !.pc = "push"] ELSE NextDispatch
        /\ UNCHANGED <<capacity, unsent>>
    BY <1>3 DEF QueueUtterance
  <2>2. MkTerminals' /\ MkLine' /\ MkCounted' /\ MkRecords'
    BY <1>1, <1>2, <2>1, MkWorkerStep, MkCountedStays, MkRecordsStay
  <2>3. /\ output' \in Seq(Dispatch)
        /\ playback' \in [Dispatch -> {"none", "queued", "ended"}]
        /\ playback'[d] = "queued" /\ \A e \in Dispatch \ {d} : playback'[e] = playback[e]
    BY <1>2, <2>1 DEF MkTypeOK
  <2>4. /\ worker' \in [d : Nat, pc : {"prepare", "reserve", "queue", "push", "cues"},
                        batch : SUBSET Nat]
        /\ \/ worker'.d = d /\ worker'.pc = "push"
           \/ worker'.d = d + 1 /\ worker'.pc = "prepare"
    BY <1>0, <1>2, <2>1 DEF MkTypeOK, NextDispatch
  <2>5. MkTypeOK'
    BY <1>1, <1>2, <2>1, <2>3, <2>4 DEF MkTypeOK
  <2>6. MkWorker'
    <3>1. ASSUME NEW e \in Dispatch, e > d
          PROVE  records[e] = 0 /\ playback'[e] = "none"
      <4>1. e # d
        BY <1>2, <3>1
      <4> QED BY <1>2, <2>3, <3>1, <4>1 DEF MkWorker
    <3>2. \A e \in Dispatch : e > d + 1 \/ e = d + 1 => e > d
      <4>1. d \in Nat /\ Dispatch \subseteq Nat
        BY <1>0, <1>2
      <4> HIDE DEF d
      <4> QED BY <4>1
    <3> QED BY <1>1, <1>2, <2>4, <3>1, <3>2 DEF MkWorker
  <2>7. MkOutput'
    <3>1. /\ Len(output) \in Nat /\ DOMAIN output = 1 .. Len(output)
          /\ DOMAIN output' = 1 .. Len(output) + 1 /\ output'[Len(output) + 1] = d
          /\ \A i \in 1 .. Len(output) : output'[i] = output[i] /\ output[i] \in Dispatch
      BY <1>2, <2>1 DEF MkTypeOK
    <3>2. \A i \in 1 .. Len(output) : output[i] # d /\ playback'[output[i]] = "queued"
      <4>1. \A i \in 1 .. Len(output) : playback[output[i]] = "queued" /\ output[i] \in Dispatch
        BY <1>2, <3>1 DEF MkOutput, MkTypeOK
      <4>2. \A i \in 1 .. Len(output) : output[i] # d
        BY <1>2, <4>1
      <4> QED BY <2>3, <4>1, <4>2
    <3>3. \A i \in 1 .. Len(output) + 1 : i \in 1 .. Len(output) \/ i = Len(output) + 1
      BY <3>1
    <3>4. \A i, j \in DOMAIN output' :
             playback'[output'[i]] = "queued" /\ (output'[i] = output'[j] => i = j)
      BY <1>2, <2>3, <3>1, <3>2, <3>3 DEF MkOutput
    <3>5. ASSUME NEW e \in Dispatch, terminal[e] # "waiting"
          PROVE  playback'[e] = "ended" /\ e < worker'.d
      <4>1. playback[e] = "ended" /\ e < d /\ e \in Nat /\ d \in Nat
        BY <1>2, <3>5 DEF MkOutput
      <4> QED BY <1>2, <2>3, <2>4, <4>1
    <3> QED BY <1>1, <3>4, <3>5 DEF MkOutput
  <2> QED BY <2>2, <2>5, <2>6, <2>7 DEF MkInv
<1>4. CASE ~(queued /\ d \in current)
  <2>1. /\ capacity' = Release(capacity, unsent[d]) /\ unsent' = [unsent EXCEPT ![d] = {}]
        /\ worker' = NextDispatch /\ playback' = [playback EXCEPT ![d] = "ended"]
        /\ output' = output
    BY <1>2, <1>4 DEF QueueUtterance, Abandon, MkTypeOK
  <2>2. /\ MkCounted' /\ capacity' \in [events : Int, bytes : Int,
                                        terminal_in_flight : BOOLEAN, closed : BOOLEAN]
        /\ capacity'.terminal_in_flight = capacity.terminal_in_flight
    BY <1>1, <1>2, <2>1, MkReleases
  <2>3. MkTerminals' /\ MkLine' /\ MkRecords' /\ unsent' \in [Dispatch -> SUBSET Nat]
    BY <1>1, <1>2, <2>1, <2>2, MkWorkerStep, MkRecordsStay
  <2>4. /\ MkWorker' /\ MkOutput'
        /\ worker' \in [d : Nat, pc : {"prepare", "reserve", "queue", "push", "cues"},
                        batch : SUBSET Nat]
        /\ playback' \in [Dispatch -> {"none", "queued", "ended"}]
    BY <1>1, <1>2, <2>1, MkMovesOn
  <2>5. MkTypeOK'
    BY <1>1, <1>2, <2>1, <2>2, <2>3, <2>4 DEF MkTypeOK
  <2> QED BY <2>2, <2>3, <2>4, <2>5 DEF MkInv
<1> QED BY <1>3, <1>4

\* The last owner drops the records of a source that is over.
LEMMA MkKeepsEnd ==
    ASSUME MkInv, PushCues \/ EndProgressive
    PROVE  MkInv'
<1> DEFINE d == worker.d
<1>1. /\ worker.pc \in {"cues", "push"}
      /\ UNCHANGED <<records, cue, playback, output, current, terminal, reports,
                     writing, written>>
      /\ \/ worker' = NextDispatch
         \/ worker.pc = "cues" /\ worker' = [worker EXCEPT !.pc = "push"]
      /\ \/ UNCHANGED <<capacity, unsent>>
         \/ capacity' = Release(capacity, unsent[d]) /\ unsent' = [unsent EXCEPT ![d] = {}]
  BY DEF PushCues, EndProgressive
<1>2. /\ Dispatch \subseteq Nat /\ d \in Dispatch
      /\ MkTypeOK /\ MkRecords /\ MkWorker /\ MkOutput /\ MkCounted
  BY <1>1, MarkerAssumption DEF MkInv, MkWorker, MarkerAssumption
<1>3. /\ MkCounted' /\ capacity' \in [events : Int, bytes : Int,
                                      terminal_in_flight : BOOLEAN, closed : BOOLEAN]
      /\ capacity'.terminal_in_flight = capacity.terminal_in_flight
  <2>1. CASE UNCHANGED <<capacity, unsent>>
    BY <1>1, <1>2, <2>1, MkCountedStays DEF MkTypeOK
  <2>2. CASE capacity' = Release(capacity, unsent[d]) /\ unsent' = [unsent EXCEPT ![d] = {}]
    BY <1>1, <1>2, <2>2, MkReleases
  <2> QED BY <1>1, <2>1, <2>2
<1>4. MkTerminals' /\ MkLine'
  BY <1>1, <1>3, MkWorkerStep
<1>5. MkRecords' /\ unsent' \in [Dispatch -> SUBSET Nat]
  BY <1>1, <1>2, MkRecordsStay
<1>6. CASE worker' = NextDispatch
  <2>1. /\ MkWorker' /\ MkOutput'
        /\ worker' \in [d : Nat, pc : {"prepare", "reserve", "queue", "push", "cues"},
                        batch : SUBSET Nat]
    BY <1>1, <1>2, <1>6, MkMovesOn
  <2>2. MkTypeOK'
    BY <1>1, <1>2, <1>3, <1>5, <2>1 DEF MkTypeOK
  <2> QED BY <1>3, <1>4, <1>5, <2>1, <2>2 DEF MkInv
<1>7. CASE worker.pc = "cues" /\ worker' = [worker EXCEPT !.pc = "push"]
  <2>1. /\ worker' \in [d : Nat, pc : {"prepare", "reserve", "queue", "push", "cues"},
                        batch : SUBSET Nat]
        /\ worker'.d = d /\ worker'.pc = "push"
    BY <1>2, <1>7 DEF MkTypeOK
  <2>2. MkTypeOK'
    BY <1>1, <1>2, <1>3, <1>5, <2>1 DEF MkTypeOK
  <2>3. MkWorker'
    BY <1>1, <1>2, <1>7, <2>1 DEF MkWorker
  <2>4. MkOutput'
    BY <1>1, <1>2, <2>1 DEF MkOutput
  <2> QED BY <1>3, <1>4, <1>5, <2>2, <2>3, <2>4 DEF MkInv
<1> QED BY <1>1, <1>6, <1>7

----------------------------------------------------------
(* Marker reports: the steps of the other threads *)

LEMMA MkKeepsFinish ==
    ASSUME MkInv, SourceFinishes
    PROVE  MkInv'
<1> DEFINE d == Head(output)
<1>1. /\ output # <<>> /\ playback' = [playback EXCEPT ![d] = "ended"] /\ output' = Tail(output)
      /\ UNCHANGED <<worker, records, cue, current, terminal, reports, writing, written>>
      /\ \/ UNCHANGED <<capacity, unsent>>
         \/ capacity' = Release(capacity, unsent[d]) /\ unsent' = [unsent EXCEPT ![d] = {}]
  BY DEF SourceFinishes
<1>2. /\ MkTypeOK /\ MkRecords /\ MkWorker /\ MkOutput /\ MkCounted
      /\ Len(output) \in Nat \ {0} /\ DOMAIN output = 1 .. Len(output) /\ d = output[1]
      /\ \A i \in 1 .. Len(output) : output[i] \in Dispatch
      /\ output' \in Seq(Dispatch) /\ DOMAIN output' = 1 .. Len(output) - 1
      /\ \A i \in 1 .. Len(output) - 1 : output'[i] = output[i + 1]
  BY SMTT(60), <1>1 DEF MkInv, MkTypeOK
<1>3. 1 \in DOMAIN output /\ d \in Dispatch /\ playback[d] = "queued"
  BY <1>2 DEF MkOutput
<1>4. /\ playback' \in [Dispatch -> {"none", "queued", "ended"}] /\ playback'[d] = "ended"
      /\ \A e \in Dispatch \ {d} : playback'[e] = playback[e]
  BY <1>1, <1>2, <1>3 DEF MkTypeOK
<1>5. /\ MkCounted' /\ capacity' \in [events : Int, bytes : Int,
                                      terminal_in_flight : BOOLEAN, closed : BOOLEAN]
      /\ capacity'.terminal_in_flight = capacity.terminal_in_flight
  <2>1. CASE UNCHANGED <<capacity, unsent>>
    BY <1>1, <1>2, <2>1, MkCountedStays DEF MkTypeOK
  <2>2. CASE capacity' = Release(capacity, unsent[d]) /\ unsent' = [unsent EXCEPT ![d] = {}]
    BY <1>1, <1>3, <2>2, MkReleases
  <2> QED BY <1>1, <2>1, <2>2
<1>6. MkTerminals' /\ MkLine'
  BY <1>1, <1>5, MkWorkerStep
<1>7. MkRecords' /\ unsent' \in [Dispatch -> SUBSET Nat]
  BY <1>1, <1>2, <1>3, MkRecordsStay
<1>8. MkTypeOK'
  BY <1>1, <1>2, <1>4, <1>5, <1>7 DEF MkTypeOK
<1>9. MkWorker'
  BY <1>1, <1>2, <1>3, <1>4 DEF MkWorker
<1>10. MkOutput'
  <2>1. ASSUME NEW i \in DOMAIN output', NEW j \in DOMAIN output'
        PROVE  playback'[output'[i]] = "queued" /\ (output'[i] = output'[j] => i = j)
    <3>1. /\ i + 1 \in DOMAIN output /\ j + 1 \in DOMAIN output /\ i + 1 # 1
          /\ output'[i] = output[i + 1] /\ output'[j] = output[j + 1]
          /\ i \in Int /\ j \in Int
      BY <1>2
    <3>2. output[i + 1] # d /\ output[i + 1] \in Dispatch
      BY <1>2, <1>3, <3>1 DEF MkOutput
    <3>3. playback[output[i + 1]] = "queued" /\ (output[i + 1] = output[j + 1] => i + 1 = j + 1)
      BY <1>2, <3>1 DEF MkOutput
    <3> QED BY <1>4, <3>1, <3>2, <3>3
  <2>2. \A e \in Dispatch : terminal[e] # "waiting" => playback'[e] = "ended" /\ e < worker.d
    BY <1>2, <1>3, <1>4 DEF MkOutput
  <2> QED BY <1>1, <2>1, <2>2 DEF MkOutput
<1> QED BY <1>5, <1>6, <1>7, <1>8, <1>9, <1>10 DEF MkInv

LEMMA MkKeepsStop ==
    ASSUME MkInv, \/ ReporterEnds \/ MarkersDone
                  \/ \E d \in Dispatch : StopDispatch(d)
    PROVE  MkInv'
<1>1. /\ UNCHANGED <<worker, records, unsent, cue, playback, output, terminal, reports,
                     writing, written>>
      /\ capacity' = capacity \/ capacity' = [capacity EXCEPT !.closed = TRUE]
  BY DEF ReporterEnds, MarkersDone, StopDispatch, markerVars
<1>2. MkTypeOK /\ MkRecords /\ MkWorker /\ MkOutput /\ MkTerminals /\ MkCounted /\ MkLine
  BY DEF MkInv
<1>3. /\ capacity' \in [events : Int, bytes : Int, terminal_in_flight : BOOLEAN,
                        closed : BOOLEAN]
      /\ capacity'.terminal_in_flight = capacity.terminal_in_flight
      /\ capacity'.events = capacity.events /\ capacity'.bytes = capacity.bytes
  BY <1>1, <1>2 DEF MkTypeOK
<1>4. MkTerminals' /\ MkLine' /\ MkCounted'
  BY <1>1, <1>2, <1>3, MkTerminalsStay, MkLineStays, MkCountedStays
<1>5. MkTypeOK' /\ MkRecords' /\ MkWorker' /\ MkOutput'
  BY <1>1, <1>2, <1>3 DEF MkTypeOK, MkRecords, MkWorker, MkOutput
<1> QED BY <1>4, <1>5 DEF MkInv

LEMMA MkKeepsReserveTerminal ==
    ASSUME MkInv, NEW d \in Dispatch, ReserveTerminal(d)
    PROVE  MkInv'
<1>1. /\ terminal[d] = "waiting" /\ playback[d] = "ended" /\ worker.d # d
      /\ \/ capacity' = capacity /\ terminal' = [terminal EXCEPT ![d] = "lost"]
         \/ /\ ~capacity.terminal_in_flight
            /\ capacity' = [capacity EXCEPT !.terminal_in_flight = TRUE]
            /\ terminal' = [terminal EXCEPT ![d] = "reserved"]
      /\ UNCHANGED <<worker, records, unsent, cue, playback, output, current, reports,
                     writing, written>>
  BY DEF ReserveTerminal
<1>2. /\ MkTypeOK /\ MkRecords /\ MkWorker /\ MkOutput /\ MkTerminals /\ MkCounted /\ MkLine
      /\ Dispatch \subseteq Nat
  BY MarkerAssumption DEF MkInv, MarkerAssumption
<1>3. /\ capacity' \in [events : Int, bytes : Int, terminal_in_flight : BOOLEAN,
                        closed : BOOLEAN]
      /\ capacity'.events = capacity.events /\ capacity'.bytes = capacity.bytes
      /\ terminal' \in [Dispatch -> {"waiting", "reserved", "sent", "lost"}]
      /\ \A e \in Dispatch \ {d} : terminal'[e] = terminal[e]
  BY <1>1, <1>2 DEF MkTypeOK
<1>4. MkTypeOK' /\ MkRecords' /\ MkWorker' /\ MkCounted' /\ MkLine'
  <2>1. MkTypeOK' /\ MkRecords' /\ MkWorker'
    BY <1>1, <1>2, <1>3 DEF MkTypeOK, MkRecords, MkWorker
  <2>2. MkCounted'
    BY <1>1, <1>2, <1>3, MkCountedStays
  <2>3. \A e \in Dispatch : terminal[e] = "sent" => terminal'[e] = "sent"
    BY <1>1, <1>3
  <2>4. MkLine'
    BY <1>1, <1>2, <2>3, MkLineStays
  <2> QED BY <2>1, <2>2, <2>4
<1>5. MkOutput'
  <2>1. d < worker.d
    <3>1. d \in Nat /\ worker.d \in Nat
      BY <1>2 DEF MkTypeOK
    <3>2. ~(d > worker.d)
      BY <1>1, <1>2 DEF MkWorker
    <3> QED BY <1>1, <3>1, <3>2
  <2>2. \A e \in Dispatch : terminal'[e] # "waiting" => playback[e] = "ended" /\ e < worker.d
    BY <1>1, <1>2, <1>3, <2>1 DEF MkOutput
  <2> QED BY <1>1, <1>2, <2>2 DEF MkOutput
<1>6. MkTerminals'
  <2>1. Ends(writing)' = Ends(writing) /\ Ends(reports)' = Ends(reports)
    BY <1>1 DEF Ends
  <2>2. CASE capacity' = capacity /\ terminal' = [terminal EXCEPT ![d] = "lost"]
    <3>1. \A e \in Dispatch : terminal'[e] = "reserved" => terminal[e] = "reserved"
      BY <1>2, <2>2 DEF MkTypeOK
    <3>2. TerminalReserved' => TerminalReserved
      BY <3>1 DEF TerminalReserved
    <3> QED BY <1>2, <2>1, <2>2, <3>1, <3>2 DEF MkTerminals
  <2>3. CASE /\ ~capacity.terminal_in_flight
             /\ capacity' = [capacity EXCEPT !.terminal_in_flight = TRUE]
             /\ terminal' = [terminal EXCEPT ![d] = "reserved"]
    <3>1. Ends(writing) = {} /\ Ends(reports) = {} /\ ~TerminalReserved
      BY <1>2, <2>3 DEF MkTerminals
    <3>2. \A e \in Dispatch : terminal'[e] = "reserved" => e = d
      BY <1>2, <1>3, <2>3, <3>1 DEF MkTypeOK, TerminalReserved
    <3>3. capacity'.terminal_in_flight
      BY <1>2, <2>3 DEF MkTypeOK
    <3> QED BY <2>1, <3>1, <3>2, <3>3 DEF MkTerminals
  <2> QED BY <1>1, <2>2, <2>3
<1> QED BY <1>4, <1>5, <1>6 DEF MkInv

----------------------------------------------------------
(* Marker reports: the order in which they are written *)

LEMMA LinesJoin ==
    ASSUME NEW a \in Seq(MkMessage), NEW b \in Seq(MkMessage), NEW c \in Seq(MkMessage)
    PROVE  /\ (a \o b) \o c \in Seq(MkMessage)
           /\ \A m \in MkMessage : (a \o b) \o Append(c, m) = Append((a \o b) \o c, m)
           /\ c # <<>> => (a \o <<Head(c)>>) \o Tail(c) = (a \o <<>>) \o c
           /\ \A m \in MkMessage : (Append(a, m) \o <<>>) \o c = (a \o <<m>>) \o c
<1>1. ASSUME NEW u \in Seq(MkMessage), NEW m \in MkMessage
      PROVE  u \o Append(c, m) = Append(u \o c, m)
  OBVIOUS
<1>2. a \o b \in Seq(MkMessage)
  OBVIOUS
<1>3. a \o <<>> = a /\ \A m \in MkMessage : Append(a, m) \o <<>> = Append(a, m)
  OBVIOUS
<1>4. \A m \in MkMessage : a \o <<m>> = Append(a, m)
  OBVIOUS
<1>5. ASSUME c # <<>>
      PROVE  Append(a, Head(c)) \o Tail(c) = a \o c
  <2>1. /\ Len(c) \in Nat \ {0} /\ Len(a) \in Nat /\ Tail(c) \in Seq(MkMessage)
        /\ Head(c) \in MkMessage /\ Append(a, Head(c)) \in Seq(MkMessage)
        /\ Len(Tail(c)) = Len(c) - 1 /\ Len(Append(a, Head(c))) = Len(a) + 1
    BY <1>5
  <2> DEFINE u == Append(a, Head(c)) \o Tail(c)
             v == a \o c
  <2>2. /\ u \in Seq(MkMessage) /\ v \in Seq(MkMessage)
        /\ Len(u) = Len(a) + Len(c) /\ Len(v) = Len(a) + Len(c)
    BY <2>1
  <2>3. ASSUME NEW i \in 1 .. Len(a) + Len(c)
        PROVE  u[i] = v[i]
    <3>1. CASE i <= Len(a)
      BY <1>5, <2>1, <3>1
    <3>2. CASE i = Len(a) + 1
      BY <1>5, <2>1, <3>2
    <3>3. CASE i > Len(a) + 1
      <4>1. u[i] = Tail(c)[i - (Len(a) + 1)] /\ v[i] = c[i - Len(a)]
        BY SMTT(60), <1>5, <2>1, <3>3
      <4>2. PICK k \in 1 .. Len(c) - 1 : k = i - (Len(a) + 1)
        <5>1. PICK p \in Nat, q \in Nat : p = Len(a) /\ q = Len(c)
          BY <2>1
        <5>2. i \in 1 .. p + q /\ i > p + 1
          BY <3>3, <5>1
        <5>3. i - (p + 1) \in 1 .. q - 1
          BY <5>2
        <5> QED BY <5>1, <5>3
      <4>3. Tail(c)[k] = c[k + 1] /\ k + 1 = i - Len(a)
        BY <1>5, <2>1, <4>2
      <4> QED BY <4>1, <4>2, <4>3
    <3> QED BY <2>1, <3>1, <3>2, <3>3
  <2> HIDE DEF u, v
  <2>4. u = v
    BY <2>2, <2>3
  <2> QED BY <2>4 DEF u, v
<1>6. (a \o b) \o c \in Seq(MkMessage)
  BY <1>2
<1>7. \A m \in MkMessage : (a \o b) \o Append(c, m) = Append((a \o b) \o c, m)
  BY <1>1, <1>2
<1>8. c # <<>> => (a \o <<Head(c)>>) \o Tail(c) = (a \o <<>>) \o c
  <2>1. c # <<>> => Head(c) \in MkMessage
    OBVIOUS
  <2>2. c # <<>> => a \o <<Head(c)>> = Append(a, Head(c))
    BY <1>4, <2>1
  <2> QED BY <1>3, <1>5, <2>2
<1>9. \A m \in MkMessage : (Append(a, m) \o <<>>) \o c = (a \o <<m>>) \o c
  BY <1>3, <1>4
<1> QED BY <1>6, <1>7, <1>8, <1>9

LEMMA LineTyped ==
    ASSUME MkTypeOK
    PROVE  /\ Line \in Seq(MkMessage) /\ Len(Line) \in Nat /\ DOMAIN Line = 1 .. Len(Line)
           /\ \A i \in DOMAIN Line : /\ Line[i].d \in Dispatch
                                     /\ Line[i].records \subseteq RecordId(Line[i].d)
                                     /\ Line[i].records \in SUBSET Nat
<1>1. Line \in Seq(MkMessage)
  BY LinesJoin DEF Line, MkTypeOK
<1> HIDE DEF Line
<1>2. \A i \in DOMAIN Line : Line[i] \in MkMessage
  BY <1>1
<1> QED BY <1>1, <1>2, MessageFinite

LEMMA MkLineKept ==
    ASSUME MkTypeOK, MkLine, Line' = Line, cue' \in [Dispatch -> Nat],
           \A d \in Dispatch : cue'[d] >= cue[d],
           \A d \in Dispatch : terminal[d] = "sent" => terminal'[d] = "sent"
    PROVE  MkLine'
<1>1. ASSUME NEW i \in DOMAIN Line
      PROVE  /\ \A r \in Line[i].records : r < cue'[Line[i].d]
             /\ Line[i].records = {} => terminal'[Line[i].d] = "sent"
  <2>1. PICK d \in Dispatch : d = Line[i].d
    BY LineTyped
  <2>2. cue[d] \in Nat /\ cue'[d] \in Nat /\ cue'[d] >= cue[d] /\ Line[i].records \in SUBSET Nat
    BY LineTyped DEF MkTypeOK
  <2>3. /\ \A r \in Line[i].records : r < cue[d]
        /\ Line[i].records = {} => terminal[d] = "sent"
    BY <2>1 DEF MkLine
  <2>4. \A r \in Line[i].records : r < cue'[d]
    BY <2>2, <2>3
  <2> QED BY <2>1, <2>3, <2>4
<1> QED BY <1>1 DEF MkLine

\* One more message of a dispatch whose terminal record is not sent yet.
LEMMA MkLineGrows ==
    ASSUME MkTypeOK, MkLine, NEW m \in MkMessage, Line' = Append(Line, m),
           cue' \in [Dispatch -> Nat],
           \A d \in Dispatch : cue'[d] >= cue[d],
           \A d \in Dispatch : terminal[d] = "sent" => terminal'[d] = "sent",
           terminal[m.d] # "sent",
           \A r \in m.records : cue[m.d] <= r /\ r < cue'[m.d],
           m.d \in Paired /\ 0 \in m.records => 1 \in m.records,
           m.records = {} => terminal'[m.d] = "sent"
    PROVE  MkLine'
<1> DEFINE n == Len(Line)
<1>1. /\ n \in Nat /\ DOMAIN Line = 1 .. n /\ DOMAIN Line' = 1 .. n + 1
      /\ Line'[n + 1] = m /\ \A i \in 1 .. n : Line'[i] = Line[i]
  <2>1. PICK l \in Seq(MkMessage) : l = Line
    BY LineTyped
  <2>2. /\ Len(l) \in Nat /\ DOMAIN l = 1 .. Len(l) /\ DOMAIN Append(l, m) = 1 .. Len(l) + 1
        /\ Append(l, m)[Len(l) + 1] = m /\ \A i \in 1 .. Len(l) : Append(l, m)[i] = l[i]
    OBVIOUS
  <2> QED BY <2>1, <2>2
<1>2. \A i \in 1 .. n + 1 : i \in 1 .. n \/ i = n + 1
  BY <1>1
<1>3. ASSUME NEW i \in 1 .. n
      PROVE  /\ \A r \in Line[i].records : r < cue'[Line[i].d]
             /\ Line[i].d \in Paired /\ 0 \in Line[i].records => 1 \in Line[i].records
             /\ Line[i].records = {} => terminal'[Line[i].d] = "sent"
  <2>1. PICK d \in Dispatch : d = Line[i].d
    BY <1>1, LineTyped
  <2>2. cue[d] \in Nat /\ cue'[d] \in Nat /\ cue'[d] >= cue[d] /\ Line[i].records \in SUBSET Nat
    BY <1>1, LineTyped DEF MkTypeOK
  <2>3. /\ \A r \in Line[i].records : r < cue[d]
        /\ Line[i].d \in Paired /\ 0 \in Line[i].records => 1 \in Line[i].records
        /\ Line[i].records = {} => terminal[d] = "sent"
    BY <1>1, <2>1 DEF MkLine
  <2>4. \A r \in Line[i].records : r < cue'[d]
    BY <2>2, <2>3
  <2> QED BY <2>1, <2>3, <2>4
<1>4. ASSUME NEW i \in 1 .. n, Line[i].d = m.d
      PROVE  /\ Line[i].records # {}
             /\ \A r \in Line[i].records, s \in m.records : r < s
  <2>1. m.d \in Dispatch /\ m.records \in SUBSET Nat /\ cue[m.d] \in Nat
        /\ Line[i].records \in SUBSET Nat
    BY <1>1, LineTyped, MessageFinite DEF MkTypeOK
  <2>2. Line[i].records # {} /\ \A r \in Line[i].records : r < cue[m.d]
    BY <1>1, <1>4 DEF MkLine
  <2> QED BY <2>1, <2>2
<1>5. ASSUME NEW i \in 1 .. n + 1, NEW j \in 1 .. n + 1, i < j, Line'[i].d = Line'[j].d
      PROVE  /\ Line'[i].records # {}
             /\ \A r \in Line'[i].records, s \in Line'[j].records : r < s
  <2>1. i \in 1 .. n
    BY <1>1, <1>5
  <2>2. CASE j \in 1 .. n
    BY <1>1, <1>5, <2>1, <2>2 DEF MkLine
  <2>3. CASE j = n + 1
    BY <1>1, <1>4, <1>5, <2>1, <2>3
  <2> QED BY <1>2, <2>2, <2>3
<1>6. ASSUME NEW i \in 1 .. n + 1
      PROVE  /\ \A r \in Line'[i].records : r < cue'[Line'[i].d]
             /\ Line'[i].d \in Paired /\ 0 \in Line'[i].records => 1 \in Line'[i].records
             /\ Line'[i].records = {} => terminal'[Line'[i].d] = "sent"
  <2>1. CASE i \in 1 .. n
    BY <1>1, <1>3, <2>1
  <2>2. CASE i = n + 1
    BY <1>1, <2>2
  <2> QED BY <1>2, <2>1, <2>2
<1> HIDE DEF n
<1> QED BY <1>1, <1>5, <1>6 DEF MkLine

\* A cue sends what is left of its records, whatever it finds.
LEMMA MkKeepsCue ==
    ASSUME MkInv, OnCue
    PROVE  MkInv'
<1> DEFINE d == Head(output)
           taken == TakeCueRecords(d, cue[d])
           m == [d |-> d, records |-> taken]
<1>1. /\ output # <<>> /\ cue[d] < records[d]
      /\ reports' = IF taken = {} THEN reports ELSE Append(reports, m)
      /\ unsent' = [unsent EXCEPT ![d] = @ \ taken]
      /\ cue' = [cue EXCEPT ![d] = @ + CueStep(d)]
      /\ UNCHANGED <<capacity, worker, records, playback, output, current, terminal,
                     writing, written>>
  BY DEF OnCue
<1>2. /\ MkTypeOK /\ MkRecords /\ MkWorker /\ MkOutput /\ MkTerminals /\ MkCounted /\ MkLine
  BY DEF MkInv
<1>3. d \in Dispatch /\ 1 \in DOMAIN output /\ d = output[1] /\ playback[d] = "queued"
  <2>1. /\ d \in Dispatch /\ 1 \in DOMAIN output /\ d = output[1]
    BY <1>1, <1>2 DEF MkTypeOK
  <2> QED BY <1>2, <2>1 DEF MkOutput
<1>4. terminal[d] = "waiting"
  BY <1>2, <1>3 DEF MkOutput
<1>5. cue[d] \in Nat /\ CueStep(d) \in {1, 2} /\ cue[d] + CueStep(d) \in Nat
  <2>1. cue[d] \in Nat /\ CueStep(d) \in {1, 2}
    BY <1>2, <1>3 DEF MkTypeOK, CueStep
  <2> QED BY <2>1
<1>6. /\ cue' \in [Dispatch -> Nat] /\ cue'[d] = cue[d] + CueStep(d)
      /\ \A e \in Dispatch \ {d} : cue'[e] = cue[e]
  BY <1>1, <1>2, <1>3, <1>5 DEF MkTypeOK
<1>7. \A e \in Dispatch : cue'[e] >= cue[e]
  <2>1. \A e \in Dispatch : cue[e] \in Nat
    BY <1>2 DEF MkTypeOK
  <2>2. cue'[d] >= cue[d]
    BY <1>5, <1>6
  <2> QED BY <1>6, <2>1, <2>2
<1>8. /\ unsent[d] \in SUBSET RecordId(d) /\ taken \subseteq unsent[d]
      /\ unsent[d] \ taken \in SUBSET RecordId(d) /\ taken \in SUBSET RecordId(d)
  <2>1. {} \in SUBSET RecordId(d)
    OBVIOUS
  <2>2. unsent[d] \in SUBSET RecordId(d)
    BY <1>2, <1>3, <2>1, UnsentChanges
  <2>3. taken \subseteq unsent[d]
    BY DEF TakeCueRecords
  <2> QED BY <2>2, <2>3
<1>9. /\ IsFiniteSet(unsent[d]) /\ IsFiniteSet(taken) /\ Cardinality(unsent[d]) \in Nat
      /\ Cardinality(taken) \in Nat /\ taken \in SUBSET Nat
      /\ unsent[d] \ taken \in SUBSET Nat
  BY <1>3, <1>8, IdsFinite
<1>10. /\ \A r \in taken : cue[d] <= r /\ r < cue'[d]
       /\ d \in Paired /\ 0 \in taken => 1 \in taken
  <2>1. CASE cue[d] = 0 /\ d \in Paired
    <3>1. taken = unsent[d] \cap {0, 1} /\ cue'[d] = 2
      BY <1>6, <2>1 DEF TakeCueRecords, CueStep
    <3>2. 0 \in unsent[d] => 1 \in unsent[d]
      BY <1>2, <1>3, <2>1 DEF MkRecords
    <3> HIDE DEF taken
    <3> QED BY <2>1, <3>1, <3>2
  <2>2. CASE ~(cue[d] = 0 /\ d \in Paired)
    <3>1. taken = unsent[d] \cap {cue[d]} /\ cue'[d] = cue[d] + 1
      BY <1>6, <2>2 DEF TakeCueRecords, CueStep
    <3> HIDE DEF taken
    <3> QED BY <1>5, <2>2, <3>1
  <2> QED BY <2>1, <2>2
<1>11. m \in MkMessage /\ m.d = d /\ m.records = taken
  <2> HIDE DEF taken
  <2> QED BY <1>3, <1>8, <1>9 DEF MkMessage
<1> HIDE DEF taken, m
<1>12. /\ unsent' \in [Dispatch -> SUBSET Nat]
       /\ unsent' = [unsent EXCEPT ![d] = unsent[d] \ taken]
       /\ \A e \in Dispatch : unsent'[e] \subseteq unsent[e]
       /\ unsent'[d] = unsent[d] \ taken
       /\ \A e \in Dispatch \ {d} : unsent'[e] = unsent[e]
  BY <1>1, <1>2, <1>3, <1>9 DEF MkTypeOK
<1>13. reports' \in Seq(MkMessage)
  BY <1>1, <1>2, <1>11 DEF MkTypeOK
<1>14. MkTypeOK'
  BY <1>1, <1>2, <1>6, <1>12, <1>13 DEF MkTypeOK
<1>15. MkRecords'
  <2>1. ASSUME NEW e \in Dispatch, e \in Paired, cue'[e] = 0, 0 \in unsent'[e]
        PROVE  1 \in unsent'[e]
    <3>1. e # d
      BY <1>5, <1>6, <2>1
    <3> QED BY <1>2, <1>6, <1>12, <2>1, <3>1 DEF MkRecords
  <2> QED BY <1>1, <1>2, <1>12, <2>1 DEF MkRecords
<1>16. MkWorker' /\ MkOutput'
  BY <1>1, <1>2 DEF MkWorker, MkOutput
<1>17. MkTerminals' /\ MkLine'
  <2>1. CASE taken = {}
    <3>1. reports' = reports /\ Line' = Line
      BY <1>1, <2>1 DEF Line
    <3>2. MkTerminals'
      BY <1>1, <1>2, <3>1, MkTerminalsStay
    <3>3. MkLine'
      BY <1>1, <1>2, <1>6, <1>7, <3>1, MkLineKept
    <3> QED BY <3>2, <3>3
  <2>2. CASE taken # {}
    <3>1. reports' = Append(reports, m)
      BY <1>1, <2>2
    <3>2. Line' = Append(Line, m)
      <4>1. written \in Seq(MkMessage) /\ writing \in Seq(MkMessage) /\ reports \in Seq(MkMessage)
        BY <1>2 DEF MkTypeOK
      <4>2. \A x \in MkMessage : (written \o writing) \o Append(reports, x)
                                   = Append((written \o writing) \o reports, x)
        BY <4>1, LinesJoin
      <4>3. (written \o writing) \o Append(reports, m)
               = Append((written \o writing) \o reports, m)
        BY <1>11, <4>2
      <4> QED BY <1>1, <3>1, <4>3 DEF Line
    <3>3. MkLine'
      BY <1>1, <1>2, <1>4, <1>6, <1>7, <1>10, <1>11, <2>2, <3>2, MkLineGrows
    <3>4. Ends(reports') = Ends(reports)
      <4>1. /\ Len(reports) \in Nat /\ DOMAIN reports = 1 .. Len(reports)
            /\ DOMAIN reports' = 1 .. Len(reports) + 1 /\ reports'[Len(reports) + 1] = m
            /\ \A i \in 1 .. Len(reports) : reports'[i] = reports[i]
        BY <1>2, <1>11, <3>1 DEF MkTypeOK
      <4>2. \A i \in 1 .. Len(reports) + 1 : i \in 1 .. Len(reports) \/ i = Len(reports) + 1
        BY <4>1
      <4>3. \A i \in 1 .. Len(reports) : i \in 1 .. Len(reports) + 1
        BY <4>1
      <4> QED BY <1>11, <2>2, <4>1, <4>2, <4>3 DEF Ends
    <3>5. Ends(writing)' = Ends(writing) /\ TerminalReserved' = TerminalReserved
      BY <1>1 DEF Ends, TerminalReserved
    <3>6. MkTerminals'
      BY <1>1, <1>2, <3>4, <3>5 DEF MkTerminals
    <3> QED BY <3>3, <3>6
  <2> QED BY <2>1, <2>2
<1>18. MkCounted'
  <2> DEFINE w == IF writing = <<>> THEN 0 ELSE Cardinality(writing[1].records)
  <2>1. /\ w \in Nat /\ Cardinality(Pairs(InChannel)) \in Nat /\ w' = w
        /\ InChannel = Loads(reports)
    BY <1>1, <1>2, ReservedIs
  <2>2. InChannel' = Loads(reports')
    BY DEF InChannel, Loads
  <2>3. Cardinality(Pairs(InChannel')) = Cardinality(Pairs(InChannel)) + Cardinality(taken)
    <3>1. CASE taken = {}
      <4>1. Cardinality(taken) = 0
        BY <3>1, FS_EmptySet
      <4>2. InChannel' = InChannel
        BY <1>1, <2>1, <2>2, <3>1
      <4> QED BY <2>1, <4>1, <4>2
    <3>2. CASE taken # {}
      <4>1. reports' = Append(reports, m) /\ reports \in Seq(MkMessage)
        BY <1>1, <1>2, <3>2 DEF MkTypeOK
      <4> QED BY <1>11, <2>1, <2>2, <4>1, LoadsFollow
    <3> QED BY <3>1, <3>2
  <2>4. /\ Cardinality(Pairs(unsent)) \in Nat
        /\ Cardinality(Pairs(unsent')) = Cardinality(Pairs(unsent)) - Cardinality(taken)
    <3>1. PICK S \in SUBSET RecordId(d) : S = unsent[d] \ taken
      BY <1>8
    <3>2. /\ Cardinality(Pairs(unsent)) \in Nat
          /\ Cardinality(Pairs([unsent EXCEPT ![d] = S])) =
                Cardinality(Pairs(unsent)) - Cardinality(unsent[d]) + Cardinality(S)
      BY <1>2, <1>3, UnsentChanges
    <3>3. unsent[d] \cap taken = taken
      BY <1>8
    <3>4. Cardinality(S) = Cardinality(unsent[d]) - Cardinality(unsent[d] \cap taken)
      BY <1>9, <3>1, FS_Difference
    <3>5. Cardinality(S) = Cardinality(unsent[d]) - Cardinality(taken)
      BY <3>3, <3>4
    <3>6. Cardinality(Pairs(unsent')) =
             Cardinality(Pairs(unsent)) - Cardinality(unsent[d]) + Cardinality(S)
      BY <1>12, <3>1, <3>2
    <3> QED BY <1>9, <3>2, <3>5, <3>6
  <2>5. Reserved = Cardinality(Pairs(unsent)) + Cardinality(Pairs(InChannel)) + w
    BY DEF Reserved
  <2>6. Reserved' = Cardinality(Pairs(unsent')) + Cardinality(Pairs(InChannel')) + w
    BY <2>1 DEF Reserved
  <2> HIDE DEF w
  <2>7. Reserved' = Reserved
    BY <1>9, <2>1, <2>3, <2>4, <2>5, <2>6
  <2> QED BY <1>1, <1>2, <2>7 DEF MkCounted
<1> QED BY <1>14, <1>15, <1>16, <1>17, <1>18 DEF MkInv

LEMMA MkKeepsSend ==
    ASSUME MkInv, NEW d \in Dispatch, SendTerminal(d)
    PROVE  MkInv'
<1> DEFINE m == [d |-> d, records |-> {}]
<1>1. /\ terminal[d] = "reserved" /\ terminal' = [terminal EXCEPT ![d] = "sent"]
      /\ reports' = Append(reports, m)
      /\ UNCHANGED <<capacity, worker, records, unsent, cue, playback, output, current,
                     writing, written>>
  BY DEF SendTerminal
<1>2. /\ MkTypeOK /\ MkRecords /\ MkWorker /\ MkOutput /\ MkTerminals /\ MkCounted /\ MkLine
  BY DEF MkInv
<1>3. m \in MkMessage /\ m.d = d /\ m.records = {}
  BY DEF MkMessage
<1> HIDE DEF m
<1>4. /\ terminal' \in [Dispatch -> {"waiting", "reserved", "sent", "lost"}]
      /\ terminal'[d] = "sent" /\ \A e \in Dispatch \ {d} : terminal'[e] = terminal[e]
      /\ reports' \in Seq(MkMessage)
  BY <1>1, <1>2, <1>3 DEF MkTypeOK
<1>5. MkTypeOK' /\ MkRecords' /\ MkWorker'
  BY <1>1, <1>2, <1>4 DEF MkTypeOK, MkRecords, MkWorker
<1>6. MkOutput'
  <2>1. \A e \in Dispatch : terminal'[e] # "waiting" => terminal[e] # "waiting"
    BY <1>1, <1>4
  <2> QED BY <1>1, <1>2, <2>1 DEF MkOutput
<1>7. MkTerminals'
  <2>1. /\ TerminalReserved /\ Ends(writing) = {} /\ Ends(reports) = {}
        /\ capacity.terminal_in_flight
    BY <1>1, <1>2 DEF MkTerminals, TerminalReserved
  <2>2. \A e \in Dispatch : terminal'[e] # "reserved"
    BY <1>1, <1>2, <1>4 DEF MkTerminals
  <2>3. \A i \in Ends(reports') : i = Len(reports) + 1
    <3>1. /\ Len(reports) \in Nat /\ DOMAIN reports = 1 .. Len(reports)
          /\ DOMAIN reports' = 1 .. Len(reports) + 1
          /\ \A i \in 1 .. Len(reports) : reports'[i] = reports[i]
      BY <1>1, <1>2, <1>3 DEF MkTypeOK
    <3>2. \A i \in 1 .. Len(reports) + 1 : i \in 1 .. Len(reports) \/ i = Len(reports) + 1
      BY <3>1
    <3> QED BY <2>1, <3>1, <3>2 DEF Ends
  <2>4. Ends(writing)' = {} /\ ~TerminalReserved' /\ Ends(reports)' = Ends(reports')
    BY <1>1, <2>1, <2>2 DEF Ends, TerminalReserved
  <2> QED BY <1>1, <2>1, <2>2, <2>3, <2>4 DEF MkTerminals
<1>8. MkCounted'
  <2> DEFINE w == IF writing = <<>> THEN 0 ELSE Cardinality(writing[1].records)
  <2>1. w \in Nat /\ InChannel = Loads(reports) /\ Cardinality(Pairs(InChannel)) \in Nat
    BY <1>2, ReservedIs
  <2>2. w' = w /\ InChannel' = Loads(reports')
    BY <1>1 DEF InChannel, Loads
  <2>3. Cardinality(Pairs(InChannel')) = Cardinality(Pairs(InChannel))
    <3>1. /\ reports \in Seq(MkMessage) /\ Cardinality({}) = 0
      BY <1>2, FS_EmptySet DEF MkTypeOK
    <3>2. Cardinality(Pairs(Loads(reports'))) = Cardinality(Pairs(Loads(reports))) + 0
      BY <1>1, <1>3, <3>1, LoadsFollow
    <3> QED BY <2>1, <2>2, <3>2
  <2>4. Reserved' = Reserved
    BY <1>1, <2>2, <2>3 DEF Reserved
  <2> QED BY <1>1, <1>2, <2>4 DEF MkCounted
<1>9. MkLine'
  <2>1. Line' = Append(Line, m)
    <3>1. written \in Seq(MkMessage) /\ writing \in Seq(MkMessage) /\ reports \in Seq(MkMessage)
      BY <1>2 DEF MkTypeOK
    <3>2. \A x \in MkMessage : (written \o writing) \o Append(reports, x)
                                 = Append((written \o writing) \o reports, x)
      BY <3>1, LinesJoin
    <3>3. (written \o writing) \o Append(reports, m) = Append((written \o writing) \o reports, m)
      BY <1>3, <3>2
    <3> QED BY <1>1, <3>3 DEF Line
  <2>2. cue' \in [Dispatch -> Nat] /\ \A e \in Dispatch : cue'[e] >= cue[e]
    <3>1. \A e \in Dispatch : cue[e] \in Nat
      BY <1>2 DEF MkTypeOK
    <3> QED BY <1>1, <1>2, <3>1 DEF MkTypeOK
  <2>3. \A e \in Dispatch : terminal[e] = "sent" => terminal'[e] = "sent"
    BY <1>4
  <2>4. terminal[m.d] # "sent" /\ terminal'[m.d] = "sent"
    BY <1>1, <1>3, <1>4
  <2> QED BY <1>2, <1>3, <2>1, <2>2, <2>3, <2>4, MkLineGrows
<1> QED BY <1>5, <1>6, <1>7, <1>8, <1>9 DEF MkInv

LEMMA MkKeepsReceive ==
    ASSUME MkInv, ReporterReceive
    PROVE  MkInv'
<1> DEFINE h == Head(reports)
<1>1. /\ writing = <<>> /\ reports # <<>> /\ writing' = <<h>> /\ reports' = Tail(reports)
      /\ UNCHANGED <<capacity, worker, records, unsent, cue, playback, output, current,
                     terminal, written>>
  BY DEF ReporterReceive
<1>2. /\ MkTypeOK /\ MkRecords /\ MkWorker /\ MkOutput /\ MkTerminals /\ MkCounted /\ MkLine
  BY DEF MkInv
<1>3. /\ h \in MkMessage /\ reports' \in Seq(MkMessage)
      /\ writing' \in Seq(MkMessage) /\ Len(writing') = 1 /\ writing' # <<>>
      /\ DOMAIN writing' = {1} /\ writing'[1] = h
      /\ Cardinality(Pairs(Loads(reports)))
            = Cardinality(Pairs(Loads(reports'))) + Cardinality(h.records)
      /\ Cardinality(Pairs(Loads(reports'))) \in Nat
  <2>1. reports \in Seq(MkMessage)
    BY <1>2 DEF MkTypeOK
  <2>2. h \in MkMessage /\ Tail(reports) \in Seq(MkMessage)
        /\ Cardinality(Pairs(Loads(reports)))
              = Cardinality(Pairs(Loads(Tail(reports)))) + Cardinality(h.records)
    BY <1>1, <2>1, LoadsFollow
  <2>3. Cardinality(Pairs(Loads(Tail(reports)))) \in Nat
    BY <2>2, LoadsFollow
  <2> HIDE DEF h
  <2>4. writing' \in Seq(MkMessage) /\ Len(writing') = 1 /\ DOMAIN writing' = {1}
        /\ writing'[1] = h /\ writing' # <<>>
    BY <1>1, <2>2
  <2> QED BY <1>1, <2>2, <2>3, <2>4
<1>4. MkTypeOK' /\ MkRecords' /\ MkWorker' /\ MkOutput'
  BY SMTT(60), <1>1, <1>2, <1>3 DEF MkTypeOK, MkRecords, MkWorker, MkOutput
<1>5. MkTerminals'
  <2>1. /\ Len(reports) \in Nat /\ DOMAIN reports = 1 .. Len(reports) /\ h = reports[1]
        /\ 1 \in DOMAIN reports /\ DOMAIN reports' = 1 .. Len(reports) - 1
        /\ \A i \in 1 .. Len(reports) - 1 : reports'[i] = reports[i + 1]
    BY <1>1, <1>2 DEF MkTypeOK
  <2>3. Ends(writing') # {} => 1 \in Ends(reports)
    BY <1>3, <2>1 DEF Ends
  <2>4. \A i \in Ends(reports') : i \in Int /\ i > 0 /\ i + 1 \in Ends(reports)
    BY <2>1 DEF Ends
  <2>5. Ends(writing') # {} => Ends(reports') = {}
    <3>1. ASSUME NEW i \in Ends(reports'), 1 \in Ends(reports)
          PROVE  FALSE
      <4>1. i + 1 = 1 /\ i \in Int /\ i > 0
        BY <1>2, <2>4, <3>1 DEF MkTerminals
      <4> QED BY <4>1
    <3> QED BY <2>3, <3>1
  <2>6. \A i, j \in Ends(reports') : i = j
    <3>1. ASSUME NEW i \in Ends(reports'), NEW j \in Ends(reports')
          PROVE  i = j
      <4>1. i + 1 = j + 1 /\ i \in Int /\ j \in Int
        BY <1>2, <2>4 DEF MkTerminals
      <4> QED BY <4>1
    <3> QED BY <3>1
  <2>7. Ends(writing)' = Ends(writing') /\ Ends(reports)' = Ends(reports')
        /\ TerminalReserved' = TerminalReserved
    BY <1>1 DEF Ends, TerminalReserved
  <2>8. Ends(writing') # {} \/ Ends(reports') # {} => Ends(reports) # {}
    BY <2>3, <2>4
  <2> QED BY <1>1, <1>2, <2>5, <2>6, <2>7, <2>8 DEF MkTerminals
<1>6. MkCounted'
  <2>1. InChannel = Loads(reports) /\ InChannel' = Loads(reports')
    BY DEF InChannel, Loads
  <2>2. Reserved = Cardinality(Pairs(unsent)) + Cardinality(Pairs(Loads(reports))) + 0
    BY <1>1, <2>1 DEF Reserved
  <2>3. Reserved' = Cardinality(Pairs(unsent)) + Cardinality(Pairs(Loads(reports')))
                       + Cardinality(h.records)
    BY <1>1, <1>3, <2>1 DEF Reserved
  <2>4. Cardinality(Pairs(unsent)) \in Nat
    <3>1. CASE Dispatch = {}
      <4>1. DOMAIN unsent = {} /\ IsFiniteSet(DOMAIN unsent)
        BY <1>2, <3>1, FS_EmptySet DEF MkTypeOK
      <4> QED BY <4>1, PairsFinite
    <3>2. CASE Dispatch # {}
      <4>1. PICK e \in Dispatch : {} \in SUBSET RecordId(e)
        BY <3>2
      <4> QED BY <1>2, <4>1, UnsentChanges
    <3> QED BY <3>1, <3>2
  <2>5. Cardinality(h.records) \in Nat
    BY <1>3, MessageFinite
  <2>6. Reserved' = Reserved
    BY <1>3, <2>2, <2>3, <2>4, <2>5
  <2> QED BY <1>1, <1>2, <2>6 DEF MkCounted
<1>7. MkLine'
  <2>1. Line' = Line
    <3>1. reports \in Seq(MkMessage) /\ written \in Seq(MkMessage)
      BY <1>2 DEF MkTypeOK
    <3>2. (written \o <<Head(reports)>>) \o Tail(reports) = (written \o <<>>) \o reports
      BY <1>1, <3>1, LinesJoin
    <3> QED BY <1>1, <3>2 DEF Line
  <2>2. cue' \in [Dispatch -> Nat] /\ \A e \in Dispatch : cue'[e] >= cue[e]
    <3>1. \A e \in Dispatch : cue[e] \in Nat
      BY <1>2 DEF MkTypeOK
    <3> QED BY <1>1, <1>2, <3>1 DEF MkTypeOK
  <2> QED BY <1>1, <1>2, <2>1, <2>2, MkLineKept
<1> QED BY <1>4, <1>5, <1>6, <1>7 DEF MkInv

LEMMA MkKeepsWrite ==
    ASSUME MkInv, ReporterWrite
    PROVE  MkInv'
<1> DEFINE m == writing[1]
<1>1. /\ writing # <<>> /\ writing' = <<>> /\ written' = Append(written, m)
      /\ capacity' = IF m.records = {} THEN [capacity EXCEPT !.terminal_in_flight = FALSE]
                     ELSE Release(capacity, m.records)
      /\ UNCHANGED <<worker, records, unsent, cue, playback, output, current, terminal,
                     reports>>
  BY DEF ReporterWrite
<1>2. /\ MkTypeOK /\ MkRecords /\ MkWorker /\ MkOutput /\ MkTerminals /\ MkCounted /\ MkLine
  BY DEF MkInv
<1>3. m \in MkMessage /\ writing = <<m>> /\ DOMAIN writing = {1}
      /\ written' \in Seq(MkMessage) /\ writing' \in Seq(MkMessage) /\ Len(writing') <= 1
  <2>1. PICK w \in Seq(MkMessage) : w = writing
    BY <1>2 DEF MkTypeOK
  <2>2. Len(w) = 1
    <3>1. w # <<>> /\ Len(w) <= 1 /\ Len(w) \in Nat
      BY <1>1, <1>2, <2>1 DEF MkTypeOK
    <3>2. Len(w) # 0
      BY <3>1
    <3> QED BY <3>1, <3>2
  <2>3. w[1] \in MkMessage /\ w = <<w[1]>> /\ DOMAIN w = {1}
    BY <2>2
  <2>4. m = w[1]
    BY <2>1
  <2> HIDE DEF m
  <2>5. written' \in Seq(MkMessage) /\ writing' \in Seq(MkMessage) /\ Len(writing') <= 1
    BY <1>1, <1>2, <2>3, <2>4 DEF MkTypeOK
  <2> QED BY <2>1, <2>3, <2>4, <2>5
<1>4. Cardinality(m.records) \in Nat /\ Bytes(m.records) \in Nat
  BY <1>3, MessageFinite
<1> HIDE DEF m
<1>5. /\ capacity' \in [events : Int, bytes : Int, terminal_in_flight : BOOLEAN,
                        closed : BOOLEAN]
      /\ capacity'.events = capacity.events - Cardinality(m.records)
      /\ capacity'.bytes <= capacity.bytes /\ capacity'.events <= capacity.events
      /\ (m.records = {} => Ends(writing) # {})
      /\ (m.records # {} => /\ Ends(writing) = {}
                            /\ capacity'.terminal_in_flight = capacity.terminal_in_flight)
  <2>1. capacity \in [events : Int, bytes : Int, terminal_in_flight : BOOLEAN,
                      closed : BOOLEAN]
    BY <1>2 DEF MkTypeOK
  <2>2. CASE m.records = {}
    <3>1. Cardinality(m.records) = 0
      BY <2>2, FS_EmptySet
    <3>2. 1 \in Ends(writing)
      BY <1>3, <2>2 DEF Ends
    <3>3. /\ capacity' \in [events : Int, bytes : Int, terminal_in_flight : BOOLEAN,
                            closed : BOOLEAN]
          /\ capacity'.events = capacity.events /\ capacity'.bytes = capacity.bytes
          /\ capacity.events \in Int /\ capacity.bytes \in Int
      BY <1>1, <2>1, <2>2
    <3> QED BY <2>2, <3>1, <3>2, <3>3
  <2>3. CASE m.records # {}
    <3>1. Ends(writing) = {}
      BY <1>3, <2>3 DEF Ends
    <3>2. /\ capacity.events - Cardinality(m.records) \in Int
          /\ capacity.bytes - Bytes(m.records) \in Int
          /\ capacity.events - Cardinality(m.records) <= capacity.events
          /\ capacity.bytes - Bytes(m.records) <= capacity.bytes
      BY <1>4, <2>1
    <3>3. capacity' = [capacity EXCEPT !.events = capacity.events - Cardinality(m.records),
                                       !.bytes = capacity.bytes - Bytes(m.records)]
      BY <1>1, <2>1, <2>3 DEF Release
    <3> QED BY <2>1, <2>3, <3>1, <3>2, <3>3
  <2> QED BY <2>2, <2>3
<1>6. MkTypeOK' /\ MkRecords' /\ MkWorker' /\ MkOutput'
  <2>1. MkTypeOK'
    BY <1>1, <1>2, <1>3, <1>5 DEF MkTypeOK
  <2>2. MkRecords'
    BY <1>1, <1>2 DEF MkRecords
  <2>3. MkWorker'
    BY <1>1, <1>2 DEF MkWorker
  <2>4. MkOutput'
    BY <1>1, <1>2 DEF MkOutput
  <2> QED BY <2>1, <2>2, <2>3, <2>4
<1>7. MkTerminals'
  <2>1. Ends(writing)' = {} /\ Ends(reports)' = Ends(reports)
        /\ TerminalReserved' = TerminalReserved
    BY <1>1 DEF Ends, TerminalReserved
  <2>2. m.records = {} => Ends(reports) = {} /\ ~TerminalReserved
    BY <1>2, <1>5 DEF MkTerminals
  <2> QED BY <1>1, <1>2, <1>5, <2>1, <2>2 DEF MkTerminals
<1>8. MkCounted'
  <2>1. InChannel' = InChannel
    BY <1>1 DEF InChannel
  <2>2. /\ Cardinality(Pairs(InChannel)) \in Nat /\ Cardinality(Pairs(unsent)) \in Nat
    <3>1. Cardinality(Pairs(InChannel)) \in Nat
      BY <1>2, ReservedIs
    <3>2. m.d \in Dispatch /\ {} \in SUBSET RecordId(m.d)
      BY <1>3, MessageFinite
    <3> QED BY <1>2, <3>1, <3>2, UnsentChanges
  <2>3. Reserved = Cardinality(Pairs(unsent)) + Cardinality(Pairs(InChannel))
                      + Cardinality(m.records)
    BY <1>1 DEF Reserved, m
  <2>4. Reserved' = Cardinality(Pairs(unsent)) + Cardinality(Pairs(InChannel)) + 0
    BY <1>1, <2>1 DEF Reserved
  <2>5. capacity'.events = Reserved'
    BY <1>2, <1>4, <1>5, <2>2, <2>3, <2>4 DEF MkCounted
  <2>6. capacity'.events <= max_events /\ capacity'.bytes <= max_bytes
    <3>1. capacity.events <= max_events /\ capacity.bytes <= max_bytes
          /\ max_events \in Nat /\ max_bytes \in Nat
          /\ capacity \in [events : Int, bytes : Int, terminal_in_flight : BOOLEAN,
                           closed : BOOLEAN]
      BY <1>2, MarkerAssumption DEF MkCounted, MkTypeOK, MarkerAssumption
    <3> QED BY <1>5, <3>1
  <2> QED BY <2>5, <2>6 DEF MkCounted
<1>9. MkLine'
  <2>1. Line' = Line
    <3>1. reports \in Seq(MkMessage) /\ written \in Seq(MkMessage)
      BY <1>2 DEF MkTypeOK
    <3>2. \A x \in MkMessage :
             (Append(written, x) \o <<>>) \o reports = (written \o <<x>>) \o reports
      BY <3>1, LinesJoin
    <3>3. (Append(written, m) \o <<>>) \o reports = (written \o <<m>>) \o reports
      BY <1>3, <3>2
    <3> QED BY <1>1, <1>3, <3>3 DEF Line
  <2>2. cue' \in [Dispatch -> Nat] /\ \A e \in Dispatch : cue'[e] >= cue[e]
    <3>1. \A e \in Dispatch : cue[e] \in Nat
      BY <1>2 DEF MkTypeOK
    <3> QED BY <1>1, <1>2, <3>1 DEF MkTypeOK
  <2> QED BY <1>1, <1>2, <2>1, <2>2, MkLineKept
<1> QED BY <1>6, <1>7, <1>8, <1>9 DEF MkInv

----------------------------------------------------------
(* Marker reports: the invariant holds, and what follows *)

LEMMA MkInitially == MarkerInit => MkInv
<1> SUFFICES ASSUME MarkerInit PROVE MkInv
  OBVIOUS
<1>1. /\ capacity = [events |-> 0, bytes |-> 0, terminal_in_flight |-> FALSE,
                     closed |-> FALSE]
      /\ worker = [d |-> 1, pc |-> "prepare", batch |-> {}]
      /\ records = [d \in Dispatch |-> 0] /\ unsent = [d \in Dispatch |-> {}]
      /\ cue = [d \in Dispatch |-> 0] /\ playback = [d \in Dispatch |-> "none"]
      /\ output = <<>> /\ terminal = [d \in Dispatch |-> "waiting"]
      /\ reports = <<>> /\ writing = <<>> /\ written = <<>>
  BY DEF MarkerInit
<1>2. MkTypeOK
  BY <1>1 DEF MkTypeOK
<1>3. MkRecords
  BY <1>1, MarkerAssumption DEF MkRecords, MarkerAssumption
<1>4. MkWorker /\ MkOutput
  BY <1>1 DEF MkWorker, MkOutput
<1>5. MkTerminals
  BY <1>1 DEF MkTerminals, Ends, TerminalReserved
<1>6. MkCounted
  <2>1. Pairs(unsent) = {}
    BY <1>1 DEF Pairs
  <2>2. Pairs(InChannel) = {}
    BY <1>1 DEF Pairs, InChannel
  <2>3. Reserved = 0
    <3>1. Cardinality(Pairs(unsent)) = 0 /\ Cardinality(Pairs(InChannel)) = 0
      BY <2>1, <2>2, FS_EmptySet
    <3> QED BY <1>1, <3>1 DEF Reserved
  <2> QED BY <1>1, <2>3, MarkerAssumption DEF MkCounted, MarkerAssumption
<1>7. MkLine
  <2>1. Line = <<>>
    BY <1>1 DEF Line
  <2> QED BY <2>1 DEF MkLine
<1> QED BY <1>2, <1>3, <1>4, <1>5, <1>6, <1>7 DEF MkInv

LEMMA MkKeeps == MkInv /\ [MarkerNext]_markerVars => MkInv'
<1> SUFFICES ASSUME MkInv, [MarkerNext]_markerVars PROVE MkInv'
  OBVIOUS
<1>1. ASSUME MarkerWorker
      PROVE  MkInv'
  BY <1>1, MkKeepsPrepare, MkKeepsPush, MkKeepsGranted, MkKeepsQueue, MkKeepsEnd
     DEF MarkerWorker
<1>2. ASSUME AudioThread
      PROVE  MkInv'
  BY <1>2, MkKeepsCue, MkKeepsFinish DEF AudioThread
<1>3. ASSUME Reporter
      PROVE  MkInv'
  BY <1>3, MkKeepsReceive, MkKeepsWrite, MkKeepsStop DEF Reporter
<1>4. ASSUME MarkersDone
      PROVE  MkInv'
  BY <1>4, MkKeepsStop
<1>5. ASSUME NEW d \in Dispatch, Completion(d) \/ StopDispatch(d)
      PROVE  MkInv'
  BY <1>5, MkKeepsReserveTerminal, MkKeepsSend, MkKeepsStop DEF Completion
<1>6. ASSUME UNCHANGED markerVars
      PROVE  MkInv'
  <2>1. /\ MkTypeOK /\ MkRecords /\ MkWorker /\ MkOutput /\ MkTerminals /\ MkCounted /\ MkLine
    BY DEF MkInv
  <2>2. /\ UNCHANGED <<capacity, worker, records, unsent, cue, playback, output>>
        /\ UNCHANGED <<terminal, reports, writing, written>>
    BY <1>6 DEF markerVars
  <2>3. MkTerminals' /\ MkLine' /\ MkCounted'
    BY <2>1, <2>2, MkTerminalsStay, MkLineStays, MkCountedStays
  <2>4. MkTypeOK' /\ MkRecords' /\ MkWorker' /\ MkOutput'
    BY <2>1, <2>2 DEF MkTypeOK, MkRecords, MkWorker, MkOutput
  <2> QED BY <2>3, <2>4 DEF MkInv
<1> QED BY <1>1, <1>2, <1>3, <1>4, <1>5, <1>6 DEF MarkerNext

LEMMA MkSound == MkInv => ReservationsHold /\ WrittenInOrder
<1> SUFFICES ASSUME MkInv PROVE ReservationsHold /\ WrittenInOrder
  OBVIOUS
<1>1. /\ MkTypeOK /\ MkRecords /\ MkTerminals /\ MkCounted /\ MkLine
      /\ reports \in Seq(MkMessage) /\ written \in Seq(MkMessage)
      /\ writing \in Seq(MkMessage)
  BY DEF MkInv, MkTypeOK
<1>2. ReservationsHold
  <2> DEFINE w == IF writing = <<>> THEN 0 ELSE Cardinality(writing[1].records)
             held == Cardinality(Pairs(InChannel))
             u == Cardinality(Pairs(unsent))
  <2>1. w \in Nat /\ held \in Nat /\ InChannel = Loads(reports)
    BY <1>1, ReservedIs
  <2>2. IsFiniteSet(Pairs(unsent)) /\ u \in Nat
    <3>1. DOMAIN unsent = Dispatch /\ IsFiniteSet(Dispatch)
      BY <1>1, MarkerAssumption DEF MkTypeOK, MarkerAssumption
    <3>2. ASSUME NEW e \in Dispatch
          PROVE  IsFiniteSet(unsent[e])
      <4>1. {} \in SUBSET RecordId(e)
        OBVIOUS
      <4>2. unsent[e] \in SUBSET RecordId(e)
        BY <1>1, <4>1, UnsentChanges
      <4> QED BY <4>2, IdsFinite
    <3> QED BY <3>1, <3>2, PairsFinite
  <2>3. Len(reports) \in Nat /\ Len(reports) <= held + 1
    <3>1. /\ Loads(reports) \in Seq(Load) /\ Len(Loads(reports)) = Len(reports)
          /\ DOMAIN Loads(reports) = DOMAIN reports
          /\ \A i \in DOMAIN reports : Loads(reports)[i] = reports[i].records
      BY <1>1, LoadsTyped
    <3>2. \A i, j \in DOMAIN reports :
             reports[i].records = {} /\ reports[j].records = {} => i = j
      BY <1>1 DEF MkTerminals, Ends
    <3>3. \A i, j \in DOMAIN Loads(reports) :
             Loads(reports)[i] = {} /\ Loads(reports)[j] = {} => i = j
      BY <3>1, <3>2
    <3>4. \A X \in Load : IsFiniteSet(X)
      BY DEF Load
    <3>5. Len(Loads(reports)) <= Cardinality(Pairs(Loads(reports))) + 1
      BY <3>1, <3>3, <3>4, PairsCover
    <3> QED BY <1>1, <2>1, <3>1, <3>5
  <2>4. capacity.events = u + held + w /\ capacity.events <= max_events
        /\ capacity.bytes <= max_bytes /\ max_events \in Nat
    BY <1>1, MarkerAssumption DEF MkCounted, Reserved, MarkerAssumption
  <2>5. (\E d \in Dispatch : unsent[d] # {}) => u # 0
    <3>1. ASSUME NEW d \in Dispatch, unsent[d] # {}
          PROVE  Pairs(unsent) # {}
      <4>1. PICK r : r \in unsent[d]
        BY <3>1
      <4>2. DOMAIN unsent = Dispatch
        BY <1>1 DEF MkTypeOK
      <4>3. <<d, r>> \in {d} \X unsent[d]
        BY <4>1
      <4>4. <<d, r>> \in Pairs(unsent)
        BY <4>2, <4>3 DEF Pairs
      <4> QED BY <4>4
    <3>2. Pairs(unsent) # {} => u # 0
      BY <2>2, FS_EmptySet
    <3> QED BY <3>1, <3>2
  <2>6. capacity.events = Reserved
    BY <1>1 DEF MkCounted
  <2> HIDE DEF u, held, w
  <2>7. Len(reports) <= max_events + 1
    BY <2>1, <2>2, <2>3, <2>4
  <2>8. u # 0 => Len(reports) < max_events + 1
    BY <2>1, <2>2, <2>3, <2>4
  <2> QED BY <2>4, <2>5, <2>6, <2>7, <2>8 DEF ReservationsHold
<1>3. WrittenInOrder
  <2>1. \A i \in DOMAIN written : i \in DOMAIN Line /\ Line[i] = written[i]
    <3>1. /\ written \o writing \in Seq(MkMessage)
          /\ Len(written) \in Nat /\ Len(writing) \in Nat /\ DOMAIN written = 1 .. Len(written)
          /\ Len(written \o writing) = Len(written) + Len(writing)
          /\ \A i \in 1 .. Len(written) : (written \o writing)[i] = written[i]
      BY <1>1, Joined
    <3>2. PICK front \in Seq(MkMessage) : front = written \o writing
      BY <3>1
    <3>3. /\ DOMAIN (front \o reports) = 1 .. Len(front) + Len(reports)
          /\ Len(front) \in Nat /\ Len(reports) \in Nat
          /\ \A i \in 1 .. Len(front) : (front \o reports)[i] = front[i]
      BY <1>1, Joined
    <3>4. Line = front \o reports
      BY <3>2 DEF Line
    <3> QED BY <3>1, <3>2, <3>3, <3>4
  <2>2. ASSUME NEW d \in Dispatch, NEW i \in Lines(d), NEW j \in Lines(d), i < j
        PROVE  /\ written[i].records # {}
               /\ \A r \in written[i].records, s \in written[j].records : r < s
               /\ d \in Paired /\ 0 \in written[i].records => 1 \in written[i].records
    <3>1. /\ i \in DOMAIN Line /\ j \in DOMAIN Line /\ Line[i] = written[i]
          /\ Line[j] = written[j] /\ written[i].d = d /\ written[j].d = d
      BY <2>1 DEF Lines
    <3>2. /\ Line[i].records # {}
          /\ \A r \in Line[i].records, s \in Line[j].records : r < s
      BY <1>1, <2>2, <3>1 DEF MkLine
    <3>3. Line[i].d \in Paired /\ 0 \in Line[i].records => 1 \in Line[i].records
      BY <1>1, <3>1 DEF MkLine
    <3> QED BY <3>1, <3>2, <3>3
  <2> QED BY <2>2 DEF WrittenInOrder
<1> QED BY <1>2, <1>3

\* The limits hold, no cue ever waits for room, and the lines of a dispatch are
\* written in order with its terminal record last, for any number of dispatches and
\* records, any sizes and any limits.
THEOREM MarkerReportsAreSound == MarkerSpec => [](ReservationsHold /\ WrittenInOrder)
<1>1. MarkerSpec => []MkInv
  BY MkInitially, MkKeeps, PTL DEF MarkerSpec
<1> QED BY <1>1, MkSound, PTL

----------------------------------------------------------
(* The supervising threads as the run composes them *)

\* Initial state and steps of whichever component runs.
LEMMA HelpersOfTheRun ==
    SupervisionSpec => [](which = "init" => InitializationInv)
<1>1. SupervisionInit => (which = "init" => InitializationInv)
  BY InitializationAssumption, InitializationInitially DEF SupervisionInit
<1>2. (which = "init" => InitializationInv) /\ [SupervisionNext]_supervisionVars
          => (which = "init" => InitializationInv)'
  BY InitializationAssumption, InitializationKeeps DEF SupervisionNext, supervisionVars
<1> QED BY <1>1, <1>2, PTL DEF SupervisionSpec

LEMMA SessionsOfTheRun ==
    SupervisionSpec => [](which = "remote" => RemoteInv)
<1>1. SupervisionInit => (which = "remote" => RemoteInv)
  BY RemoteInitially DEF SupervisionInit
<1>2. (which = "remote" => RemoteInv) /\ [SupervisionNext]_supervisionVars
          => (which = "remote" => RemoteInv)'
  BY RemoteKeeps DEF SupervisionNext, supervisionVars
<1> QED BY <1>1, <1>2, PTL DEF SupervisionSpec

\* What the run shows of helper initialization, for every value of the constants.
THEOREM HelpersAreSound == SupervisionSpec => []HelpersSound
<1>1. (which = "init" => InitializationInv) => HelpersSound
  BY InitializationAssumption, InitializationIsSound DEF HelpersSound
<1> QED BY <1>1, HelpersOfTheRun, PTL

\* What the run shows of remote sessions, for every value of the constants.
THEOREM SessionsAreSound == SupervisionSpec => []SessionsSound
<1>1. (which = "remote" => RemoteInv) => SessionsSound
  BY RemoteSound DEF SessionsSound
<1> QED BY <1>1, SessionsOfTheRun, PTL

\* Whichever of the three plays, its invariant holds.
LEMMA PlaybackOfTheRun ==
    SupervisionSpec => []( /\ which = "device" => DeviceInv
                           /\ which = "progressive" => PgInv
                           /\ which = "pulse" => PuInv )
<1>1. SupervisionInit => /\ which = "device" => DeviceInv
                         /\ which = "progressive" => PgInv
                         /\ which = "pulse" => PuInv
  BY DeviceAssumption, DeviceInitially, PgInitially, PuInitially DEF SupervisionInit
<1>2. /\ which = "device" => DeviceInv
      /\ which = "progressive" => PgInv
      /\ which = "pulse" => PuInv
      /\ [SupervisionNext]_supervisionVars
      => /\ (which = "device" => DeviceInv)'
         /\ (which = "progressive" => PgInv)'
         /\ (which = "pulse" => PuInv)'
  <2> SUFFICES ASSUME which = "device" => DeviceInv,
                      which = "progressive" => PgInv,
                      which = "pulse" => PuInv,
                      [SupervisionNext]_supervisionVars
               PROVE  /\ (which = "device" => DeviceInv)'
                      /\ (which = "progressive" => PgInv)'
                      /\ (which = "pulse" => PuInv)'
    OBVIOUS
  <2>1. which' = which
    BY DEF SupervisionNext, supervisionVars
  <2>2. which = "device" => [DeviceNext]_deviceVars
    BY DEF SupervisionNext, supervisionVars
  <2>3. which = "progressive" => [ProgressiveNext]_progressiveVars
    BY DEF SupervisionNext, supervisionVars
  <2>4. which = "pulse" => [PuNext]_puVars
    BY DEF SupervisionNext, supervisionVars
  <2> QED BY <2>1, <2>2, <2>3, <2>4, DeviceAssumption, DeviceKeeps, PgKeeps, PuKeeps
<1> QED BY <1>1, <1>2, PTL DEF SupervisionSpec

\* The marker reports of the run.
LEMMA MarkersOfTheRun ==
    SupervisionSpec => [](which = "marker" => MkInv)
<1>1. SupervisionInit => (which = "marker" => MkInv)
  BY MkInitially DEF SupervisionInit
<1>2. (which = "marker" => MkInv) /\ [SupervisionNext]_supervisionVars
          => (which = "marker" => MkInv)'
  BY MkKeeps DEF SupervisionNext, supervisionVars
<1> QED BY <1>1, <1>2, PTL DEF SupervisionSpec

\* What the run shows of marker reports, for every value of the constants.
THEOREM MarkersAreSound == SupervisionSpec => []MarkersSound
<1>1. (which = "marker" => MkInv) => MarkersSound
  BY MkSound DEF MarkersSound
<1> QED BY <1>1, MarkersOfTheRun, PTL

\* What the run shows of playback, for every value of the constants.
THEOREM PlaybackIsSound == SupervisionSpec => []PlaybackSound
<1>1. /\ which = "device" => DeviceInv
      /\ which = "progressive" => PgInv
      /\ which = "pulse" => PuInv
      => PlaybackSound
  BY PgSound DEF PlaybackSound, DeviceInv, PuInv, PuBuffered, PuCounts, OneGenerationBuffered,
     PendingIsExact
<1> QED BY <1>1, PlaybackOfTheRun, PTL

=============================================================================

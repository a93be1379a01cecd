--------------------------- MODULE RemoteSession ---------------------------
(***************************************************************************)
(* The remote broker (omnivox-cli/src/remote.rs, worker_startup.rs): a     *)
(* loopback listener whose connections each own one lane of a session and  *)
(* one worker process, with a thread that writes to the worker, a thread   *)
(* that reads from it and the connection thread between them.              *)
(*                                                                         *)
(* The peer and the worker process are not ours: they send, stall, exit or *)
(* hang as they like.  Records are counted, not named; a startup snapshot  *)
(* is its session and a number; a number nobody holds is used again.       *)
(***************************************************************************)
EXTENDS Naturals, FiniteSets

CONSTANTS
    Conn,         \* the connections served at once (4); a surplus one is closed
    SessionId, NoSession,
    CHANNEL       \* records between connection and writer thread (4)

Lanes == {0, 1}  \* speaker and notification

ASSUME RemoteAssumption ==
    /\ CHANNEL \in Nat \ {0} /\ IsFiniteSet(Conn)
    /\ NoSession \notin SessionId

VARIABLES
    broker,     \* the accept loop: listening, joining or ended
    stopFlag,   \* STOP
    session,    \* the session: id, lanes in use, captured snapshot
    conn,       \* conn[c]: the connection thread
    link,       \* link[c]: worker process, threads, channel, peer of c
    done        \* connections whose done flag is set

remoteVars == <<broker, stopFlag, session, conn, link, done>>

NoSnapshot == <<NoSession, 0>>
Closed == [pc |-> "closed", lane |-> 0, snapshot |-> NoSnapshot]
NoLink == [worker |-> "none", chan |-> 0, tx |-> FALSE,
           writer |-> "none", output |-> "none", open |-> FALSE]

RemoteInit ==
    /\ broker = "listening"
    /\ stopFlag = FALSE
    /\ session = [id |-> NoSession, lanes |-> {}, startup |-> NoSnapshot]
    /\ conn = [c \in Conn |-> Closed]
    /\ link = [c \in Conn |-> NoLink]
    /\ done = {}

ConnAt(c, pc) == conn[c].pc = pc
Goto(c, pc) == conn' = [conn EXCEPT ![c].pc = pc]

-----------------------------------------------------------------------------
(* run: the accept loop *)

\* A finished connection's place is free for the next one.
Accept(c) ==
    /\ broker = "listening" /\ ~stopFlag /\ ConnAt(c, "closed")
    /\ Goto(c, "hello")
    /\ link' = [link EXCEPT ![c].open = TRUE]
    /\ UNCHANGED <<broker, stopFlag, session, done>>

\* quit on standard input, a signal, or a listener that fails.
Stop ==
    /\ ~stopFlag /\ stopFlag' = TRUE
    /\ UNCHANGED <<broker, session, conn, link, done>>

BrokerEnds ==
    \/ /\ broker = "listening" /\ stopFlag
       /\ broker' = "joining"
       /\ UNCHANGED <<stopFlag, session, conn, link, done>>
    \/ /\ broker = "joining" /\ \A c \in Conn : ConnAt(c, "closed")
       /\ broker' = "ended"
       /\ UNCHANGED <<stopFlag, session, conn, link, done>>

-----------------------------------------------------------------------------
(* connection: from the greeting to a worker *)

\* The thread ends; what it owned is gone.
Close(c) ==
    /\ conn' = [conn EXCEPT ![c] = Closed]
    /\ link' = [link EXCEPT ![c] = NoLink]
    /\ done' = done \ {c}

\* With it its lane is given back.
FreeLane(c) ==
    /\ Close(c)
    /\ session' = [session EXCEPT !.lanes = @ \ {conn[c].lane}]

\* No greeting in time, a wrong one, or the service stops.
RejectHello(c) ==
    /\ ConnAt(c, "hello")
    /\ Close(c)
    /\ UNCHANGED <<broker, stopFlag, session>>

\* Mutant: a new session does not forget the old one's startup.
ReserveKeepsStartup(id, lane) ==
    [id |-> id, lanes |-> session.lanes \cup {lane}, startup |-> session.startup]

CanReserve(id, lane) ==
    (session.lanes = {} \/ session.id = id) /\ lane \notin session.lanes

\* Lane::reserve
Reserve(id, lane) ==
    [id |-> id, lanes |-> session.lanes \cup {lane},
     startup |-> IF session.id = id THEN session.startup ELSE NoSnapshot]

\* authenticate, then the lane or "busy".
Hello(c, id, lane) ==
    /\ ConnAt(c, "hello")
    /\ IF CanReserve(id, lane)
       THEN /\ session' = Reserve(id, lane)
            /\ conn' = [conn EXCEPT ![c].pc = "startup", ![c].lane = lane]
            /\ UNCHANGED <<link, done>>
       ELSE Close(c) /\ UNCHANGED session
    /\ UNCHANGED <<broker, stopFlag>>

FreshCapture ==
    <<session.id, CHOOSE n \in 1..(Cardinality(Conn) + 1) :
                      \A c \in Conn : conn[c].snapshot[2] # n>>

\* Lane::startup: captured by the first lane of the session, or it fails.
Startup(c) ==
    /\ ConnAt(c, "startup")
    /\ \/ session.startup = NoSnapshot /\ FreeLane(c)
       \/ LET s == IF session.startup = NoSnapshot THEN FreshCapture ELSE session.startup IN
          /\ session' = [session EXCEPT !.startup = s]
          /\ conn' = [conn EXCEPT ![c].pc = "spawn", ![c].snapshot = s]
          /\ UNCHANGED <<link, done>>
    /\ UNCHANGED <<broker, stopFlag>>

\* Worker::start: the process, and a thread that writes the snapshot to it.
StartWorker(c) ==
    /\ ConnAt(c, "spawn")
    /\ \/ FreeLane(c)
       \/ /\ link' = [link EXCEPT ![c].worker = "booting"]
          /\ Goto(c, "starting")
          /\ UNCHANGED <<session, done>>
    /\ UNCHANGED <<broker, stopFlag>>

\* The snapshot is through in time and "ready" is written: the two threads start.
\* Or it is not, or the peer is gone: the worker is dropped.
Ready(c) ==
    /\ ConnAt(c, "starting")
    /\ \/ Goto(c, "drop") /\ UNCHANGED link
       \/ /\ link[c].worker # "booting"
          /\ Goto(c, "serve")
          /\ link' = [link EXCEPT ![c].writer = "waiting", ![c].output = "reading",
                                  ![c].tx = TRUE]
    /\ UNCHANGED <<broker, stopFlag, session, done>>

-----------------------------------------------------------------------------
(* connection: the loop between the peer and the threads *)

\* Mutant: the threads are joined while the worker still runs.
RetireJoinsFirst(c) ==
    /\ done' = done \cup {c}
    /\ link' = [link EXCEPT ![c].open = FALSE, ![c].tx = FALSE]
    /\ Goto(c, "join")

\* After the loop: done, the socket is shut down, the channel's sender dropped.
RetireSession(c) ==
    /\ done' = done \cup {c}
    /\ link' = [link EXCEPT ![c].open = FALSE, ![c].tx = FALSE]
    /\ Goto(c, "drop")

\* forward: a record goes to the writer when the channel has room.  (A ping is
\* answered here and leaves no trace.)
Forward(c) ==
    /\ ConnAt(c, "serve") /\ ~stopFlag /\ c \notin done
    /\ link[c].chan < CHANNEL
    /\ link' = [link EXCEPT ![c].chan = @ + 1]
    /\ UNCHANGED <<broker, stopFlag, session, conn, done>>

LeaveLoop(c) ==
    /\ ConnAt(c, "serve") /\ (stopFlag \/ c \in done)
    /\ RetireSession(c)
    /\ UNCHANGED <<broker, stopFlag, session>>

\* The peer closes, sends what it may not, or is silent for the lease; or forward
\* finds the channel full for two seconds.
LosePeer(c) ==
    /\ ConnAt(c, "serve")
    /\ RetireSession(c)
    /\ UNCHANGED <<broker, stopFlag, session>>

\* Drop for Worker: the whole tree is killed, also when its leader has exited.
DropWorker(c) ==
    /\ ConnAt(c, "drop")
    /\ link' = [link EXCEPT ![c].worker = "dead"]
    /\ Goto(c, "join")
    /\ UNCHANGED <<broker, stopFlag, session, done>>

JoinThreads(c) ==
    /\ ConnAt(c, "join")
    /\ link[c].writer \in {"none", "ended"} /\ link[c].output \in {"none", "ended"}
    /\ FreeLane(c)
    /\ UNCHANGED <<broker, stopFlag>>

-----------------------------------------------------------------------------
(* The writer and the output thread *)

EndThread(c, thread) ==
    /\ link' = [link EXCEPT ![c][thread] = "ended"]
    /\ done' = done \cup {c}

Writer(c) ==
    /\ \/ /\ link[c].writer = "waiting" /\ link[c].chan > 0
          /\ IF c \in done THEN EndThread(c, "writer")
             ELSE /\ link' = [link EXCEPT ![c].chan = @ - 1, ![c].writer = "writing"]
                  /\ UNCHANGED done
       \/ /\ link[c].writer = "waiting" /\ link[c].chan = 0 /\ ~link[c].tx
          /\ EndThread(c, "writer")
       \/ /\ link[c].writer = "writing" /\ link[c].worker \in {"exited", "dead"}
          /\ EndThread(c, "writer")
    /\ UNCHANGED <<broker, stopFlag, session, conn>>

Output(c) ==
    /\ \/ /\ link[c].output = "reading"
          /\ c \in done \/ link[c].worker \in {"exited", "dead"}
          /\ EndThread(c, "output")
       \/ /\ link[c].output = "writing"
          /\ \/ /\ link[c].open
                /\ link' = [link EXCEPT ![c].output = "reading"] /\ UNCHANGED done
             \/ EndThread(c, "output")
    /\ UNCHANGED <<broker, stopFlag, session, conn>>

-----------------------------------------------------------------------------
(* The worker process *)

\* It takes the snapshot and later its input, writes, exits and leaves helpers.
WorkerProcess(c) ==
    /\ \/ /\ link[c].worker = "booting"
          /\ link' = [link EXCEPT ![c].worker = "running"]
       \/ /\ link[c].worker = "running" /\ link[c].writer = "writing"
          /\ link' = [link EXCEPT ![c].writer = "waiting"]
       \/ /\ link[c].worker = "running" /\ link[c].output = "reading" /\ c \notin done
          /\ link' = [link EXCEPT ![c].output = "writing"]
       \/ /\ link[c].worker \in {"booting", "running"}
          /\ link' = [link EXCEPT ![c].worker = "exited"]
    /\ UNCHANGED <<broker, stopFlag, session, conn, done>>

-----------------------------------------------------------------------------
ConnectionStep(c) ==
    Startup(c) \/ StartWorker(c) \/ Ready(c) \/ RejectHello(c) \/ LeaveLoop(c)
    \/ DropWorker(c) \/ JoinThreads(c)

ThreadStep(c) == Writer(c) \/ Output(c)

RemoteIdle == broker = "ended" /\ UNCHANGED remoteVars

RemoteNext ==
    \/ Stop \/ BrokerEnds \/ RemoteIdle
    \/ \E c \in Conn :
          \/ Accept(c) \/ ConnectionStep(c) \/ ThreadStep(c)
          \/ Forward(c) \/ WorkerProcess(c) \/ LosePeer(c)
          \/ \E id \in SessionId, lane \in Lanes : Hello(c, id, lane)

\* Our threads run and their timeouts end; peer and worker owe nothing.
RemoteFairness ==
    /\ WF_remoteVars(BrokerEnds)
    /\ \A c \in Conn : /\ WF_remoteVars(ConnectionStep(c))
                       /\ WF_remoteVars(ThreadStep(c))

RemoteSpec == RemoteInit /\ [][RemoteNext]_remoteVars /\ RemoteFairness

-----------------------------------------------------------------------------
HasTree(c) == link[c].worker \in {"booting", "running", "exited"}

\* Process trees that exist at once belong to one session: one per lane, started
\* from the same snapshot, also while lanes disconnect, fail half-way and
\* reconnect; and that snapshot was captured by this session, not an earlier one.
OneSessionsWorkers ==
    /\ \A c, d \in Conn :
          HasTree(c) /\ HasTree(d) /\ c # d =>
              conn[c].lane # conn[d].lane /\ conn[c].snapshot = conn[d].snapshot
    /\ \A c \in Conn : HasTree(c) => /\ conn[c].lane \in session.lanes
                                     /\ conn[c].snapshot = session.startup
                                     /\ conn[c].snapshot[1] = session.id

\* Stopping ends the broker and every process tree, whatever the workers do; and
\* when a worker exits, what it leaves running is killed.
RemoteClaims == Conn \cup {"stop"}
RemoteOwed(k) == IF k = "stop" THEN stopFlag ELSE link[k].worker = "exited"
RemoteMet(k) ==
    IF k = "stop" THEN broker = "ended" /\ \A c \in Conn : ~HasTree(c) ELSE ~HasTree(k)
=============================================================================

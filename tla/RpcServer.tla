------------------------------ MODULE RpcServer ------------------------------
(***************************************************************************)
(* server/server.go: the accept loop, one reading goroutine per connection *)
(* (serveConn), one goroutine or pool worker per request                   *)
(* (processOneRequest), the LogicSync lock pool, Close and Shutdown.       *)
(*                                                                         *)
(* Sections under Server.mu are single steps.                              *)
(***************************************************************************)
EXTENDS Integers, FiniteSets, Sequences

CONSTANTS
    Conns,         \* connections clients may open
    TCP,           \* those of them that are *net.TCPConn (not TLS)
    Requests,      \* requests clients may send
    Sends,         \* connection -> the requests its client sends, in order
    Heartbeat,     \* heartbeat requests
    Oneway,        \* requests without a response
    LogicSync,     \* requests for methods declared LogicSync
    UserOf,        \* the __hash metadata of a request, Nil when it is empty
    HashString,    \* share.HashString, on users and connections
    LockPoolLen,   \* len(logicLockPool)
    Workers,       \* workers of the pool, 0 when there is no pool
    Capacity,      \* tasks that may wait in the pool
    AsyncWrite,    \* Server.AsyncWrite
    WriteTimeout,  \* Server.writeTimeout is set
    Stops,         \* which of Close and Shutdown the program calls
    Nil

ASSUME RequestsAssumption ==
    /\ IsFiniteSet(Requests)
    /\ TCP \subseteq Conns
    /\ Sends \in [Conns -> Seq(Requests)]
    /\ \A r \in Requests :
          \E c \in Conns : \E i \in 1 .. Len(Sends[c]) :
             /\ Sends[c][i] = r
             /\ \A d \in Conns : \A j \in 1 .. Len(Sends[d]) :
                   Sends[d][j] = r => d = c /\ j = i
    /\ Heartbeat \cup Oneway \cup LogicSync \subseteq Requests
    /\ Heartbeat \cap (Oneway \cup LogicSync) = {}
    /\ Nil \notin Requests
    /\ AsyncWrite \in BOOLEAN /\ WriteTimeout \in BOOLEAN
    /\ Stops \subseteq {"Close", "Shutdown"}

ASSUME LocksAssumption ==
    /\ LockPoolLen \in Nat \ {0}
    /\ Workers \in Nat /\ Capacity \in Nat \ {0}
    /\ HashString \in [({UserOf[r] : r \in Requests} \ {Nil}) \cup Conns -> Nat]

VARIABLES
    lpc,           \* where the accept loop is
    listening,     \* the listener is open
    cpc,           \* connection -> where its serving goroutine is
    activeConn,    \* Server.activeConn
    connOpen,      \* connections that are open on this side
    readOpen,      \* connections whose reading side is open
    postClose,     \* connection -> how often DoPostConnClose ran for it
    queue,         \* tasks waiting in the pool: requests to handle or to answer
    rpc,           \* request -> where its handling is
    outcome,       \* request -> what became of its response
    handlerMsgNum,
    logicLock,     \* lock of the pool -> the request that holds it
    inShutdown,
    doneChan,      \* doneChan has been closed
    pool,          \* the pool is running, being stopped under Server.mu, or stopped
    spc,           \* where Shutdown is
    expired,       \* Shutdown stopped waiting because its context was done
    closed,        \* Close has been called
    early          \* requests read or in progress when Shutdown began (history)

connVars == <<cpc, activeConn, connOpen, readOpen, postClose>>
reqVars == <<queue, rpc, outcome, handlerMsgNum, logicLock>>
downVars == <<inShutdown, doneChan, pool, spc, expired, closed, early>>
vars == <<lpc, listening, connVars, reqVars, downVars>>

Pooled == Workers > 0
Locks == 0 .. LockPoolLen - 1

ConnOf(r) == CHOOSE c \in Conns : r \in {Sends[c][i] : i \in 1 .. Len(Sends[c])}
Place(r) == CHOOSE i \in 1 .. Len(Sends[ConnOf(r)]) : Sends[ConnOf(r)][i] = r

(* Server.mu can be locked; only Close holds it across steps.              *)
MuFree == pool # "stopping"

(* Requests between the two atomic.AddInt32 of processOneRequest.          *)
HandledAt == {"started", "lock", "running", "write", "offer", "writing"}
InProgress == {r \in Requests : rpc[r] \in HandledAt}

(* Requests that serveConn refuses itself.                                 *)
RefusedAt == {"reject", "offerError", "refusing"}

ConnTypes ==
    /\ cpc \in [Conns -> {"none", "accepted", "serve", "loop", "read", "submit", "limit",
                          "auth", "exit", "drain", "close", "notify", "end"}]
    /\ activeConn \in SUBSET Conns
    /\ connOpen \in SUBSET Conns /\ readOpen \in SUBSET Conns

RequestTypes ==
    /\ rpc \in [Requests -> HandledAt \cup RefusedAt
                              \cup {"none", "submit", "queued", "async", "sending", "end"}]
    /\ outcome \in [Requests -> {"none", "written", "lost", "broken", "dropped", "panic"}]
    /\ handlerMsgNum \in Nat
    /\ logicLock \in [Locks -> Requests \cup {Nil}]

DownTypes ==
    /\ inShutdown \in BOOLEAN /\ doneChan \in BOOLEAN
    /\ pool \in {"running", "stopping", "stopped"}
    /\ spc \in {"idle", "begun", "polling", "closing", "done"}
    /\ expired \in BOOLEAN /\ closed \in BOOLEAN
    /\ early \in SUBSET (Requests \X (HandledAt \cup {"queued"}))

(* The variables have the types of the server's fields.                    *)
TypeOK ==
    /\ lpc \in {"accept", "waitDone", "returned"}
    /\ listening \in BOOLEAN
    /\ ConnTypes
    /\ postClose \in [Conns -> Nat]
    /\ queue \in Seq(Requests)
    /\ RequestTypes
    /\ DownTypes

Init ==
    /\ lpc = "accept"
    /\ listening = TRUE
    /\ cpc = [c \in Conns |-> "none"]
    /\ activeConn = {} /\ connOpen = {} /\ readOpen = {}
    /\ postClose = [c \in Conns |-> 0]
    /\ queue = <<>>
    /\ rpc = [r \in Requests |-> "none"]
    /\ outcome = [r \in Requests |-> "none"]
    /\ handlerMsgNum = 0
    /\ logicLock = [l \in Locks |-> Nil]
    /\ inShutdown = FALSE /\ doneChan = FALSE /\ pool = "running"
    /\ spc = "idle"
    /\ expired = FALSE /\ closed = FALSE
    /\ early = {}

-----------------------------------------------------------------------------
(* The accept loop.                                                        *)

(* ln.Accept returns a connection.                                         *)
Accept(c) ==
    /\ lpc = "accept" /\ listening
    /\ cpc[c] = "none"
    /\ \A d \in Conns : cpc[d] # "accepted"
    /\ cpc' = [cpc EXCEPT ![c] = "accepted"]
    /\ connOpen' = connOpen \cup {c}
    /\ readOpen' = readOpen \cup {c}
    /\ UNCHANGED <<lpc, listening, activeConn, postClose, reqVars, downVars>>

(* DoPostConnAccept refuses the connection, or it becomes active and gets  *)
(* a serving goroutine, even if the server was closed in the meantime.     *)
PostConnAccept(c) ==
    /\ cpc[c] = "accepted"
    /\ \/ /\ cpc' = [cpc EXCEPT ![c] = "end"]
          /\ connOpen' = connOpen \ {c}
          /\ UNCHANGED activeConn
       \/ /\ MuFree
          /\ cpc' = [cpc EXCEPT ![c] = "serve"]
          /\ activeConn' = activeConn \cup {c}
          /\ UNCHANGED connOpen
    /\ UNCHANGED <<lpc, listening, readOpen, postClose, reqVars, downVars>>

(* ln.Accept fails: during a shutdown Serve waits for its end, otherwise it *)
(* returns, but for a temporary error, after which the loop goes on.       *)
AcceptFails ==
    /\ lpc = "accept"
    /\ \A c \in Conns : cpc[c] # "accepted"
    /\ lpc' = IF inShutdown THEN "waitDone" ELSE "returned"
    /\ UNCHANGED <<listening, connVars, reqVars, downVars>>

ServeReturns ==
    /\ lpc = "waitDone" /\ doneChan
    /\ lpc' = "returned"
    /\ UNCHANGED <<listening, connVars, reqVars, downVars>>

-----------------------------------------------------------------------------
(* serveConn.                                                              *)

(* The first check: during a shutdown the connection is closed at once.    *)
ServeConn(c) ==
    /\ cpc[c] = "serve"
    /\ cpc' = [cpc EXCEPT ![c] = IF inShutdown THEN "close" ELSE "loop"]
    /\ UNCHANGED <<lpc, listening, activeConn, connOpen, readOpen, postClose,
                   reqVars, downVars>>

(* The top of the loop.                                                    *)
ServeLoop(c) ==
    /\ cpc[c] = "loop"
    /\ cpc' = [cpc EXCEPT ![c] = IF inShutdown THEN "exit" ELSE "read"]
    /\ UNCHANGED <<lpc, listening, activeConn, connOpen, readOpen, postClose,
                   reqVars, downVars>>

(* Reading fails: the client closed the connection, this side closed it or *)
(* its reading half, a timeout expired, or the data is wrong.              *)
ReadFails(c) ==
    /\ cpc[c] = "read"
    /\ cpc' = [cpc EXCEPT ![c] = "exit"]
    /\ UNCHANGED <<lpc, listening, activeConn, connOpen, readOpen, postClose,
                   reqVars, downVars>>

(* The next request of the client is read, perhaps from the reader's       *)
(* buffer after the connection was closed.                                 *)
Reads(c, r) ==
    /\ cpc[c] = "read"
    /\ ConnOf(r) = c
    /\ rpc[r] = "none"
    /\ \A q \in Requests : ConnOf(q) = c /\ Place(q) < Place(r) => rpc[q] # "none"

(* A plugin rejects it with ErrReqReachLimit (the connection goes on) or   *)
(* auth rejects it (serveConn returns); either way the error is sent.      *)
RejectRequest(c, r) ==
    /\ Reads(c, r)
    /\ \/ cpc' = [cpc EXCEPT ![c] = "limit"]
       \/ r \notin Heartbeat /\ cpc' = [cpc EXCEPT ![c] = "auth"]
    /\ rpc' = [rpc EXCEPT ![r] = "reject"]
    /\ UNCHANGED <<lpc, listening, activeConn, connOpen, readOpen, postClose, queue, outcome,
                   handlerMsgNum, logicLock, downVars>>

(* It gets a goroutine of its own, or goes to the pool. pool.Submit panics *)
(* when the pool is stopped; serveConn recovers and returns.               *)
ReadRequest(c, r) ==
    /\ Reads(c, r)
    /\ IF Pooled /\ pool # "running"
          THEN /\ cpc' = [cpc EXCEPT ![c] = "exit"]
               /\ rpc' = [rpc EXCEPT ![r] = "end"]
               /\ outcome' = [outcome EXCEPT ![r] = "dropped"]
          ELSE /\ cpc' = [cpc EXCEPT ![c] = IF Pooled THEN "submit" ELSE "loop"]
               /\ rpc' = [rpc EXCEPT ![r] = IF Pooled THEN "submit" ELSE "queued"]
               /\ UNCHANGED outcome
    /\ UNCHANGED <<lpc, listening, activeConn, connOpen, readOpen, postClose, queue,
                   handlerMsgNum, logicLock, downVars>>

(* Where serveConn goes on after it has refused a request.                 *)
Refused(p) == IF p = "limit" THEN "loop" ELSE "exit"

(* The task is put in the pool's channel, which blocks while it is full.   *)
(* It is a request to handle, a response (AsyncWrite), or the error of a   *)
(* request that was refused.                                               *)
Submit(r) ==
    LET c == ConnOf(r) IN
    /\ rpc[r] \in {"submit", "offer", "offerError"}
    /\ Len(queue) < Capacity
    /\ queue' = Append(queue, r)
    /\ rpc' = [rpc EXCEPT ![r] = IF @ = "submit" THEN "queued" ELSE "async"]
    /\ cpc' = [cpc EXCEPT ![c] = IF rpc[r] = "submit" THEN "loop"
                                 ELSE IF rpc[r] = "offerError" THEN Refused(@) ELSE @]
    /\ handlerMsgNum' = IF rpc[r] = "offer" THEN handlerMsgNum - 1 ELSE handlerMsgNum
    /\ UNCHANGED <<lpc, listening, activeConn, connOpen, readOpen, postClose, outcome,
                   logicLock, downVars>>

(* The deferred function: during a shutdown wait for its end ...           *)
ServeExit(c) ==
    /\ cpc[c] = "exit"
    /\ cpc' = [cpc EXCEPT ![c] = IF inShutdown THEN "drain" ELSE "close"]
    /\ UNCHANGED <<lpc, listening, activeConn, connOpen, readOpen, postClose,
                   reqVars, downVars>>

ServeDrained(c) ==
    /\ cpc[c] = "drain" /\ doneChan
    /\ cpc' = [cpc EXCEPT ![c] = "close"]
    /\ UNCHANGED <<lpc, listening, activeConn, connOpen, readOpen, postClose,
                   reqVars, downVars>>

(* ... then closeConn: forget the connection,                              *)
CloseConn(c) ==
    /\ cpc[c] = "close" /\ MuFree
    /\ cpc' = [cpc EXCEPT ![c] = "notify"]
    /\ activeConn' = activeConn \ {c}
    /\ UNCHANGED <<lpc, listening, connOpen, readOpen, postClose,
                   reqVars, downVars>>

(* close it and tell the plugins.                                          *)
CloseConnNotify(c) ==
    /\ cpc[c] = "notify"
    /\ cpc' = [cpc EXCEPT ![c] = "end"]
    /\ connOpen' = connOpen \ {c}
    /\ postClose' = [postClose EXCEPT ![c] = @ + 1]
    /\ UNCHANGED <<lpc, listening, activeConn, readOpen, reqVars, downVars>>

-----------------------------------------------------------------------------
(* processOneRequest.                                                      *)

(* Which task runs next: any of the goroutines, or the first one of the    *)
(* pool's queue once a worker is free.                                     *)
Busy == {r \in Requests : rpc[r] \in HandledAt \cup {"sending"}}
Scheduled(r) == Pooled => queue # <<>> /\ r = Head(queue) /\ Cardinality(Busy) < Workers
Dequeued(r) == SelectSeq(queue, LAMBDA q : q # r)

(* atomic.AddInt32(&s.handlerMsgNum, 1)                                    *)
Counted == handlerMsgNum + 1

(* The goroutine or worker of a request starts and counts it.              *)
StartRequest(r) ==
    /\ rpc[r] = "queued"
    /\ Scheduled(r)
    /\ queue' = Dequeued(r)
    /\ rpc' = [rpc EXCEPT ![r] = "started"]
    /\ handlerMsgNum' = Counted
    /\ UNCHANGED <<lpc, listening, connVars, outcome, logicLock, downVars>>

(* handleRequest up to the lock: a heartbeat is answered directly; no such *)
(* service or method, no codec, undecodable arguments or a plugin's error  *)
(* produce an error response.                                              *)
HandleRequest(r) ==
    /\ rpc[r] = "started"
    /\ \/ r \notin Heartbeat /\ rpc' = [rpc EXCEPT ![r] = "lock"]
       \/ rpc' = [rpc EXCEPT ![r] = "write"]
    /\ UNCHANGED <<lpc, listening, connVars, queue, outcome, handlerMsgNum, logicLock,
                   downVars>>

(* logicSyncLockOf: the lock of the user, or of the connection of a        *)
(* request without one.                                                    *)
LogicSyncLockOf_ByConn(r) == HashString[ConnOf(r)] % LockPoolLen
LogicSyncLockOf(r) ==
    HashString[IF UserOf[r] = Nil THEN ConnOf(r) ELSE UserOf[r]] % LockPoolLen

(* Take the lock of a LogicSync method and call the service.               *)
CallService(r) ==
    /\ rpc[r] = "lock"
    /\ rpc' = [rpc EXCEPT ![r] = "running"]
    /\ IF r \in LogicSync
          THEN /\ logicLock[LogicSyncLockOf(r)] = Nil
               /\ logicLock' = [logicLock EXCEPT ![LogicSyncLockOf(r)] = r]
          ELSE UNCHANGED logicLock
    /\ UNCHANGED <<lpc, listening, connVars, queue, outcome, handlerMsgNum, downVars>>

Unlocked_Kept(r) == logicLock
Unlocked(r) == [l \in Locks |-> IF logicLock[l] = r THEN Nil ELSE logicLock[l]]

(* The service returns, handleRequest encodes the reply and unlocks.       *)
ServiceReturns(r) ==
    /\ rpc[r] = "running"
    /\ rpc' = [rpc EXCEPT ![r] = "write"]
    /\ logicLock' = Unlocked(r)
    /\ UNCHANGED <<lpc, listening, connVars, queue, outcome, handlerMsgNum, downVars>>

(* A plugin or a codec panics: the request is recovered without response;  *)
(* when serveConn was refusing it, serveConn ends.                         *)
RequestPanics(r) ==
    /\ rpc[r] \in {"started", "running", "write", "reject"}
    /\ rpc' = [rpc EXCEPT ![r] = "end"]
    /\ outcome' = [outcome EXCEPT ![r] = "panic"]
    /\ logicLock' = Unlocked(r)
    /\ IF rpc[r] = "reject"
          THEN /\ cpc' = [cpc EXCEPT ![ConnOf(r)] = "exit"]
               /\ UNCHANGED handlerMsgNum
          ELSE /\ handlerMsgNum' = handlerMsgNum - 1
               /\ UNCHANGED cpc
    /\ UNCHANGED <<lpc, listening, activeConn, connOpen, readOpen, postClose, queue, downVars>>

(* sendResponse: conn.Write, or with AsyncWrite a task of the pool or a    *)
(* goroutine of its own. conn.Write fails at once on a connection this     *)
(* side closed; its error is ignored. pool.Submit panics when the pool is  *)
(* stopped.                                                                *)
Sent(at, o) == [at |-> at, outcome |-> o]

sendResponse(r, later, offer, writing) ==
    IF ~later
       THEN IF ConnOf(r) \in connOpen THEN Sent(writing, "none") ELSE Sent("end", "broken")
    ELSE IF ~Pooled THEN Sent("async", "none")
    ELSE IF pool = "running" THEN Sent(offer, "none") ELSE Sent("end", "panic")

(* The end of processOneRequest, with the deferred decrement. A oneway     *)
(* request has no response, and the one of a heartbeat is always written   *)
(* by the goroutine that handles it.                                       *)
SendResponse(r) ==
    LET s == IF r \in Oneway
                THEN Sent("end", "none")
                ELSE sendResponse(r, AsyncWrite /\ r \notin Heartbeat, "offer", "writing")
    IN
    /\ rpc[r] = "write"
    /\ rpc' = [rpc EXCEPT ![r] = s.at]
    /\ outcome' = [outcome EXCEPT ![r] = s.outcome]
    /\ handlerMsgNum' = IF s.at \in HandledAt THEN handlerMsgNum ELSE handlerMsgNum - 1
    /\ UNCHANGED <<lpc, listening, connVars, queue, logicLock, downVars>>

(* serveConn sends the error of a request it refuses.                      *)
SendError(r) ==
    LET c == ConnOf(r)
        s == IF r \in Oneway
                THEN Sent("end", "none")
                ELSE sendResponse(r, AsyncWrite, "offerError", "refusing")
    IN
    /\ rpc[r] = "reject"
    /\ rpc' = [rpc EXCEPT ![r] = s.at]
    /\ outcome' = [outcome EXCEPT ![r] = s.outcome]
    /\ cpc' = [cpc EXCEPT ![c] = IF s.outcome = "panic" THEN "exit"
                                 ELSE IF s.at \in RefusedAt THEN @ ELSE Refused(@)]
    /\ UNCHANGED <<lpc, listening, activeConn, connOpen, readOpen, postClose, queue,
                   handlerMsgNum, logicLock, downVars>>

(* The task or goroutine of an asynchronous write calls conn.Write.        *)
AsyncWrites(r) ==
    /\ rpc[r] = "async"
    /\ Scheduled(r)
    /\ queue' = Dequeued(r)
    /\ IF ConnOf(r) \in connOpen
          THEN /\ rpc' = [rpc EXCEPT ![r] = "sending"]
               /\ UNCHANGED outcome
          ELSE /\ rpc' = [rpc EXCEPT ![r] = "end"]
               /\ outcome' = [outcome EXCEPT ![r] = "broken"]
    /\ UNCHANGED <<lpc, listening, connVars, handlerMsgNum, logicLock, downVars>>

(* conn.Write returns: the client has read the response or has gone, the   *)
(* deadline has passed, or this side has closed the connection.            *)
WriteReturns(r) ==
    LET c == ConnOf(r) IN
    /\ rpc[r] \in {"writing", "refusing", "sending"}
    /\ rpc' = [rpc EXCEPT ![r] = "end"]
    /\ \E o \in {"written", "lost"} \cup (IF c \in connOpen THEN {} ELSE {"broken"}) :
          outcome' = [outcome EXCEPT ![r] = o]
    /\ cpc' = [cpc EXCEPT ![c] = IF rpc[r] = "refusing" THEN Refused(@) ELSE @]
    /\ handlerMsgNum' = IF rpc[r] = "writing" THEN handlerMsgNum - 1 ELSE handlerMsgNum
    /\ UNCHANGED <<lpc, listening, activeConn, connOpen, readOpen, postClose, queue,
                   logicLock, downVars>>

-----------------------------------------------------------------------------
(* Close and Shutdown.                                                     *)

(* closeDoneChanLocked                                                     *)
ClosedDoneChan_Not == doneChan
ClosedDoneChan == TRUE

(* Close every active connection, tell the plugins, close doneChan.        *)
CloseAll ==
    /\ connOpen' = connOpen \ activeConn
    /\ postClose' = [c \in Conns |-> IF c \in activeConn THEN postClose[c] + 1 ELSE postClose[c]]
    /\ activeConn' = {}
    /\ doneChan' = ClosedDoneChan

(* Close leaves inShutdown alone. It stops the pool before it unlocks mu.  *)
Close ==
    /\ "Close" \in Stops /\ ~closed /\ MuFree
    /\ closed' = TRUE
    /\ listening' = FALSE
    /\ CloseAll
    /\ pool' = IF Pooled THEN "stopping" ELSE pool
    /\ UNCHANGED <<lpc, cpc, readOpen, reqVars, inShutdown, spc, expired, early>>

(* pool.StopAndWaitFor returns, after ten seconds also with tasks left:    *)
(* the workers go on with them.                                            *)
PoolStopped ==
    /\ pool = "stopping"
    /\ pool' = "stopped"
    /\ UNCHANGED <<lpc, listening, connVars, reqVars, inShutdown, doneChan, spc, expired,
                   closed, early>>

(* serveConn is past its first check and has not begun to close.           *)
Serving == {"loop", "read", "submit", "limit", "auth", "exit"}

(* Shutdown, first the flag ...                                            *)
ShutdownBegins ==
    /\ "Shutdown" \in Stops /\ ~inShutdown
    /\ inShutdown' = TRUE
    /\ spc' = "begun"
    /\ early' = {p \in Requests \X (HandledAt \cup {"queued"}) :
                    rpc[p[1]] = p[2] /\ cpc[ConnOf(p[1])] \in Serving}
    /\ UNCHANGED <<lpc, listening, connVars, reqVars, doneChan, pool, expired, closed>>

(* ... then the services are unregistered, the listener and the reading    *)
(* half of the TCP connections closed, ...                                 *)
ShutdownStopsReading ==
    /\ spc = "begun" /\ MuFree
    /\ spc' = "polling"
    /\ listening' = FALSE
    /\ readOpen' = readOpen \ (activeConn \cap TCP)
    /\ UNCHANGED <<lpc, cpc, activeConn, connOpen, postClose, reqVars,
                   inShutdown, doneChan, pool, expired, closed, early>>

(* ... it waits until no request is being handled or its context is done   *)
CheckProcessMsg_Always == TRUE
CheckProcessMsg == handlerMsgNum = 0

ShutdownPolls ==
    /\ spc = "polling"
    /\ spc' = "closing"
    /\ \/ CheckProcessMsg /\ UNCHANGED expired
       \/ expired' = TRUE
    /\ UNCHANGED <<lpc, listening, connVars, reqVars, inShutdown, doneChan, pool,
                   closed, early>>

(* ... and closes the connections that are left.                           *)
ShutdownCloses ==
    /\ spc = "closing" /\ MuFree
    /\ spc' = "done"
    /\ CloseAll
    /\ UNCHANGED <<lpc, listening, cpc, readOpen, reqVars, inShutdown,
                   pool, expired, closed, early>>

-----------------------------------------------------------------------------
ServeStep(c) ==
    \/ ServeConn(c)
    \/ ServeLoop(c)
    \/ ServeExit(c)
    \/ ServeDrained(c)
    \/ CloseConn(c)
    \/ CloseConnNotify(c)

RequestStep(r) ==
    \/ Submit(r)
    \/ StartRequest(r)
    \/ HandleRequest(r)
    \/ CallService(r)
    \/ ServiceReturns(r)
    \/ SendResponse(r)
    \/ SendError(r)
    \/ AsyncWrites(r)

Next ==
    \/ \E c \in Conns :
          \/ Accept(c)
          \/ PostConnAccept(c)
          \/ ServeStep(c)
          \/ ReadFails(c)
          \/ \E r \in Requests : RejectRequest(c, r) \/ ReadRequest(c, r)
    \/ \E r \in Requests : RequestStep(r) \/ RequestPanics(r) \/ WriteReturns(r)
    \/ AcceptFails
    \/ ServeReturns
    \/ Close
    \/ PoolStopped
    \/ ShutdownBegins
    \/ ShutdownStopsReading
    \/ ShutdownPolls
    \/ ShutdownCloses

Spec == Init /\ [][Next]_vars

(* Goroutines and pool workers that can run do run, the mutexes of the     *)
(* pool are not taken unfairly for ever, a read from a connection this     *)
(* side closed fails, and the services return. A write returns when there  *)
(* is a timeout or this side closes the connection. Nothing is assumed of  *)
(* the clients, and Shutdown's context need not expire.                    *)
Fairness ==
    /\ \A c \in Conns :
          /\ WF_vars(PostConnAccept(c))
          /\ WF_vars(ServeStep(c))
          /\ WF_vars(c \notin connOpen \cap readOpen /\ ReadFails(c))
    /\ \A r \in Requests :
          /\ WF_vars(StartRequest(r) \/ HandleRequest(r) \/ ServiceReturns(r)
                     \/ SendResponse(r) \/ SendError(r) \/ AsyncWrites(r))
          /\ SF_vars(Submit(r))
          /\ SF_vars(CallService(r))
          /\ WF_vars((WriteTimeout \/ ConnOf(r) \notin connOpen) /\ WriteReturns(r))
    /\ WF_vars(~listening /\ AcceptFails) /\ WF_vars(ServeReturns)
    /\ WF_vars(PoolStopped) /\ WF_vars(ShutdownStopsReading)
    /\ WF_vars(CheckProcessMsg /\ ShutdownPolls)
    /\ WF_vars(ShutdownCloses)

FairSpec == Spec /\ Fairness

-----------------------------------------------------------------------------
(* handlerMsgNum counts the requests that are being handled, so Shutdown   *)
(* polls the right number (server.go:562-563, 1131-1135).                  *)
CountsInProgress == handlerMsgNum = Cardinality(InProgress)

(* The response of r is lost although nobody but Shutdown is to blame.     *)
Interrupted(r) ==
    /\ outcome[r] = "broken"
    /\ ~expired /\ ~closed

(* With synchronous writes, Shutdown interrupts no request whose goroutine *)
(* had started when Shutdown began: the connection stays open until its    *)
(* response is written (server.go:445-448, 1045-1058).                     *)
GracefulForStarted ==
    ~AsyncWrite => \A p \in early : p[2] # "queued" => ~Interrupted(p[1])

(* "Shutdown gracefully shuts down the server without interrupting any     *)
(* active connections" (server.go:1013): it interrupts no request that had *)
(* been read when it began.                                                *)
Graceful == \A p \in early : ~Interrupted(p[1])

(* Two requests of one user, or two anonymous requests of one connection.  *)
SameActor(q, r) ==
    /\ UserOf[q] = UserOf[r]
    /\ UserOf[q] = Nil => ConnOf(q) = ConnOf(r)

(* LogicSync methods run one at a time for one user, on whatever           *)
(* connections the user's requests arrive (server.go:712-744, 797-804).    *)
LogicSyncExclusive ==
    \A q, r \in LogicSync :
        rpc[q] = "running" /\ rpc[r] = "running" /\ SameActor(q, r) => q = r

(* All workers are taken: by a write that has not returned, or waiting for *)
(* room in the queue that only a worker can make (server.go:394-402).      *)
Exhausted ==
    /\ Pooled
    /\ Cardinality({r \in Requests : \/ rpc[r] \in {"writing", "sending"}
                                     \/ rpc[r] = "offer" /\ Len(queue) = Capacity}) = Workers

(* Once Shutdown begins it ends, Serve returns and every connection is     *)
(* closed, also the ones accepted while it ran: nobody waits for doneChan  *)
(* or for a count that never reaches zero (server.go:303-306, 446-450,     *)
(* 1045-1085), unless for ever a client does not read its response and     *)
(* there is no write timeout, or the pool is exhausted by its own tasks.   *)
ShutdownCompletes ==
    inShutdown ~> \/ /\ spc = "done"
                     /\ lpc = "returned"
                     /\ \A c \in Conns : cpc[c] \in {"none", "end"} /\ c \notin connOpen
                  \/ [](Exhausted \/ \E r \in Requests : rpc[r] = "writing")

(* Every request that was read is handled to the end: the lock pool and    *)
(* the workers do not block each other (server.go:543-549, 797-804). What  *)
(* may keep it for ever is its own client, which does not read the         *)
(* response, or a pool without a free worker (server.go:394-402).          *)
RequestsEnd ==
    \A r \in Requests :
        rpc[r] # "none" ~> \/ rpc[r] = "end"
                          \/ [](Exhausted \/ rpc[r] \in {"writing", "sending", "refusing"})

-----------------------------------------------------------------------------
(* The inductive invariant of the proofs.                                  *)

(* A LogicSync service runs with the lock of its actor.                    *)
LockInv ==
    \A r \in LogicSync : rpc[r] = "running" => logicLock[LogicSyncLockOf(r)] = r

(* A response is written, or lost, at the end of a request; it goes to the *)
(* pool only with AsyncWrite.                                              *)
OutcomeInv ==
    \A r \in Requests : /\ outcome[r] # "none" => rpc[r] = "end"
                        /\ rpc[r] = "offer" => AsyncWrite

(* serveConn is busy with one request while it waits for the pool or sends *)
(* an error.                                                               *)
Held(r) == rpc[r] \in RefusedAt \cup {"submit"}

SubmitInv ==
    /\ \A r \in Requests : Held(r) => cpc[ConnOf(r)] \in {"submit", "limit", "auth"}
    /\ \A q, r \in Requests : Held(q) /\ Held(r) /\ ConnOf(q) = ConnOf(r) => q = r

(* Only Close and the end of Shutdown close doneChan, and with it the      *)
(* connections whose serving goroutine has not ended.                      *)
DoneInv ==
    /\ doneChan => closed \/ spc = "done"
    /\ spc = "idle" <=> ~inShutdown
    /\ spc = "idle" => early = {} /\ ~expired
    /\ ~doneChan => \A c \in Conns : cpc[c] \notin {"none", "end"} => c \in connOpen

(* Requests that had started when Shutdown began: their connection stays   *)
(* open until Shutdown has seen that none of them is left.                 *)
DrainInv ==
    \A p \in early : p[2] # "queued" /\ ~closed /\ ~expired =>
        /\ rpc[p[1]] \in HandledAt \cup {"end"}
        /\ spc \in {"closing", "done"} => rpc[p[1]] = "end"
        /\ rpc[p[1]] # "end" => cpc[ConnOf(p[1])] \in Serving \cup {"drain"}
        /\ outcome[p[1]] # "broken"

IInv ==
    /\ ConnTypes /\ RequestTypes /\ DownTypes
    /\ CountsInProgress
    /\ LockInv
    /\ OutcomeInv
    /\ SubmitInv
    /\ DoneInv
    /\ ~AsyncWrite => DrainInv
=============================================================================

---------------------------- MODULE RpcServerProofs ----------------------------
(***************************************************************************)
(* The server's count of running requests is exact, Shutdown interrupts no *)
(* request that had started, and LogicSync methods exclude each other, for *)
(* all sets of connections and requests.                                   *)
(***************************************************************************)
EXTENDS RpcServer, FiniteSetTheorems, TLAPS

(* A request has a connection, and its actor a lock of the pool.           *)
LEMMA ConnOfType == \A r \in Requests : ConnOf(r) \in Conns
<1> TAKE r \in Requests
<1>1. PICK c \in Conns : \E i \in 1 .. Len(Sends[c]) : Sends[c][i] = r
  BY RequestsAssumption, Zenon
<1>2. r \in {Sends[c][i] : i \in 1 .. Len(Sends[c])}
  BY <1>1, Zenon
<1> QED
  BY <1>2, Zenon DEF ConnOf

LEMMA LogicSyncType == LogicSync \subseteq Requests /\ Nil \notin Requests
BY RequestsAssumption, Zenon

LEMMA LockOfType == \A r \in Requests : LogicSyncLockOf(r) \in Locks
<1> TAKE r \in Requests
<1> DEFINE k == IF UserOf[r] = Nil THEN ConnOf(r) ELSE UserOf[r]
<1>1. k \in ({UserOf[q] : q \in Requests} \ {Nil}) \cup Conns
  BY ConnOfType, Zenon
<1>2. HashString[k] \in Nat
  BY <1>1, LocksAssumption, Zenon
<1>3. \A h \in Nat : h % LockPoolLen \in 0 .. LockPoolLen - 1
  BY LocksAssumption
<1> QED
  BY <1>2, <1>3, Zenon DEF LogicSyncLockOf, Locks

(* One actor, one lock.                                                    *)
LEMMA SameLock ==
    \A q, r \in Requests : SameActor(q, r) => LogicSyncLockOf(q) = LogicSyncLockOf(r)
BY Zenon DEF SameActor, LogicSyncLockOf

LEMMA FiniteProgress == IsFiniteSet(InProgress) /\ IsFiniteSet(InProgress')
BY RequestsAssumption, FS_Subset, Zenon DEF InProgress

(* What the steps with several outcomes do to their request and to its     *)
(* connection.                                                             *)
LEMMA SendResponseMoves ==
    ASSUME NEW r \in Requests, SendResponse(r)
    PROVE  /\ rpc[r] = "write"
           /\ UNCHANGED <<connVars, logicLock, downVars>>
           /\ \E to \in {"offer", "writing", "async", "end"}, o \in {"none", "broken", "panic"} :
              /\ rpc' = [rpc EXCEPT ![r] = to]
              /\ outcome' = [outcome EXCEPT ![r] = o]
              /\ handlerMsgNum' = IF to \in {"offer", "writing"} THEN handlerMsgNum
                                                              ELSE handlerMsgNum - 1
              /\ o # "none" => to = "end"
              /\ o = "broken" => ConnOf(r) \notin connOpen
              /\ to \in {"offer", "async"} => AsyncWrite
<1> DEFINE s == IF r \in Oneway THEN Sent("end", "none")
                ELSE sendResponse(r, AsyncWrite /\ r \notin Heartbeat, "offer", "writing")
<1>1. /\ rpc' = [rpc EXCEPT ![r] = s.at]
      /\ outcome' = [outcome EXCEPT ![r] = s.outcome]
      /\ handlerMsgNum' = IF s.at \in HandledAt THEN handlerMsgNum ELSE handlerMsgNum - 1
  BY DEF SendResponse
<1>2. /\ s.at \in {"offer", "writing", "async", "end"}
      /\ s.outcome \in {"none", "broken", "panic"}
      /\ s.outcome # "none" => s.at = "end"
      /\ s.outcome = "broken" => ConnOf(r) \notin connOpen
      /\ s.at \in {"offer", "async"} => AsyncWrite
  BY DEF Sent, sendResponse
<1>3. rpc[r] = "write" /\ UNCHANGED <<connVars, logicLock, downVars>>
  BY Zenon DEF SendResponse
<1> HIDE DEF s
<1> QED
  BY <1>1, <1>2, <1>3, Zenon DEF HandledAt

LEMMA SendErrorMoves ==
    ASSUME NEW r \in Requests, ConnTypes, SendError(r)
    PROVE  /\ rpc[r] = "reject"
           /\ UNCHANGED <<handlerMsgNum, logicLock, connOpen, downVars>>
           /\ \E to \in {"offerError", "refusing", "async", "end"},
              o \in {"none", "broken", "panic"} :
              /\ rpc' = [rpc EXCEPT ![r] = to]
              /\ outcome' = [outcome EXCEPT ![r] = o]
              /\ o # "none" => to = "end"
              /\ o = "broken" => ConnOf(r) \notin connOpen
              /\ to \in {"offerError", "async"} => AsyncWrite
              /\ \/ to \in {"offerError", "refusing"} /\ cpc' = cpc
                 \/ \E p \in {"loop", "exit"} : cpc' = [cpc EXCEPT ![ConnOf(r)] = p]
                                              /\ to \in {"async", "end"}
<1> DEFINE s == IF r \in Oneway THEN Sent("end", "none")
                ELSE sendResponse(r, AsyncWrite, "offerError", "refusing")
           c == ConnOf(r)
           p == IF s.outcome = "panic" THEN "exit"
                ELSE IF s.at \in RefusedAt THEN cpc[c] ELSE Refused(cpc[c])
<1>1. /\ rpc' = [rpc EXCEPT ![r] = s.at]
      /\ outcome' = [outcome EXCEPT ![r] = s.outcome]
      /\ cpc' = [cpc EXCEPT ![c] = p]
  BY DEF SendError
<1>2. /\ s.at \in {"offerError", "refusing", "async", "end"}
      /\ s.outcome \in {"none", "broken", "panic"}
      /\ s.outcome # "none" => s.at = "end"
      /\ s.outcome = "broken" => ConnOf(r) \notin connOpen
      /\ s.at \in {"offerError", "async"} => AsyncWrite
  BY DEF Sent, sendResponse
<1>3. \/ s.at \in {"offerError", "refusing"} /\ p = cpc[c]
      \/ p \in {"loop", "exit"} /\ s.at \in {"async", "end"}
  <2> HIDE DEF s
  <2> QED
    BY <1>2, Zenon DEF RefusedAt, Refused
<1> HIDE DEF s, p
<1>4. [cpc EXCEPT ![c] = cpc[c]] = cpc
  BY Zenon DEF ConnTypes
<1>5. rpc[r] = "reject" /\ UNCHANGED <<handlerMsgNum, logicLock, connOpen, downVars>>
  BY Zenon DEF SendError
<1> QED
  BY <1>1, <1>2, <1>3, <1>4, <1>5, Zenon

LEMMA SubmitMoves ==
    ASSUME NEW r \in Requests, ConnTypes, Submit(r)
    PROVE  /\ rpc[r] \in {"submit", "offer", "offerError"}
           /\ UNCHANGED <<outcome, logicLock, connOpen, downVars>>
           /\ \E to \in {"queued", "async"} :
                 /\ rpc' = [rpc EXCEPT ![r] = to]
                 /\ to = "async" <=> rpc[r] # "submit"
           /\ handlerMsgNum' = IF rpc[r] = "offer" THEN handlerMsgNum - 1 ELSE handlerMsgNum
           /\ \/ rpc[r] = "offer" /\ cpc' = cpc
              \/ /\ rpc[r] # "offer"
                 /\ \E p \in {"loop", "exit"} : cpc' = [cpc EXCEPT ![ConnOf(r)] = p]
<1>1. [cpc EXCEPT ![ConnOf(r)] = cpc[ConnOf(r)]] = cpc
  BY Zenon DEF ConnTypes
<1> QED
  BY <1>1, Zenon DEF Submit, Refused

LEMMA WriteReturnsMoves ==
    ASSUME NEW r \in Requests, ConnTypes, WriteReturns(r)
    PROVE  /\ rpc[r] \in {"writing", "refusing", "sending"}
           /\ UNCHANGED <<logicLock, connOpen, downVars>>
           /\ rpc' = [rpc EXCEPT ![r] = "end"]
           /\ \E o \in {"written", "lost", "broken"} :
                 /\ outcome' = [outcome EXCEPT ![r] = o]
                 /\ o = "broken" => ConnOf(r) \notin connOpen
           /\ handlerMsgNum' = IF rpc[r] = "writing" THEN handlerMsgNum - 1 ELSE handlerMsgNum
           /\ \/ rpc[r] # "refusing" /\ cpc' = cpc
              \/ /\ rpc[r] = "refusing"
                 /\ \E p \in {"loop", "exit"} : cpc' = [cpc EXCEPT ![ConnOf(r)] = p]
<1>1. [cpc EXCEPT ![ConnOf(r)] = cpc[ConnOf(r)]] = cpc
  BY Zenon DEF ConnTypes
<1> QED
  BY <1>1, Zenon DEF WriteReturns, Refused

(* The initial state.                                                      *)
LEMMA InitIInv == Init => IInv
<1> SUFFICES ASSUME Init PROVE IInv
  OBVIOUS
<1> USE DEF Init
<1>1. ConnTypes /\ RequestTypes
  BY Zenon DEF ConnTypes, RequestTypes, Locks
<1>2. DownTypes
  BY Zenon DEF DownTypes
<1>3. InProgress = {}
  BY Zenon DEF InProgress, HandledAt
<1>4. CountsInProgress
  BY <1>3, FS_EmptySet, Zenon DEF CountsInProgress
<1>5. LockInv /\ OutcomeInv /\ SubmitInv
  BY LogicSyncType, Zenon DEF LockInv, OutcomeInv, SubmitInv, Held, RefusedAt
<1>6. DoneInv /\ DrainInv
  BY Zenon DEF DoneInv, DrainInv
<1> QED
  BY <1>1, <1>2, <1>4, <1>5, <1>6, Zenon DEF IInv

(* Every step keeps the types of the connections.                          *)
LEMMA ConnTypesStep == IInv /\ [Next]_vars => ConnTypes'
<1> SUFFICES ASSUME IInv, [Next]_vars PROVE ConnTypes'
  OBVIOUS
<1> USE DEF IInv
<1>1. CASE UNCHANGED <<cpc, activeConn, connOpen, readOpen>>
  BY <1>1, Zenon DEF ConnTypes
<1>2. ASSUME NEW c \in Conns, Accept(c) PROVE ConnTypes'
  BY <1>2, Zenon DEF ConnTypes, Accept, connVars, reqVars, downVars
<1>3. ASSUME NEW c \in Conns, PostConnAccept(c) PROVE ConnTypes'
  BY <1>3, Zenon DEF ConnTypes, PostConnAccept, connVars, reqVars, downVars
<1>4. ASSUME NEW c \in Conns, ServeConn(c) PROVE ConnTypes'
  BY <1>4, Zenon DEF ConnTypes, ServeConn, connVars, reqVars, downVars
<1>5. ASSUME NEW c \in Conns, ServeLoop(c) PROVE ConnTypes'
  BY <1>5, Zenon DEF ConnTypes, ServeLoop, connVars, reqVars, downVars
<1>6. ASSUME NEW c \in Conns, ServeExit(c) PROVE ConnTypes'
  BY <1>6, Zenon DEF ConnTypes, ServeExit, connVars, reqVars, downVars
<1>7. ASSUME NEW c \in Conns, ServeDrained(c) PROVE ConnTypes'
  BY <1>7, Zenon DEF ConnTypes, ServeDrained, connVars, reqVars, downVars
<1>8. ASSUME NEW c \in Conns, CloseConn(c) PROVE ConnTypes'
  BY <1>8, Zenon DEF ConnTypes, CloseConn, connVars, reqVars, downVars
<1>9. ASSUME NEW c \in Conns, CloseConnNotify(c) PROVE ConnTypes'
  BY <1>9, Zenon DEF ConnTypes, CloseConnNotify, connVars, reqVars, downVars
<1>10. ASSUME NEW c \in Conns, ReadFails(c) PROVE ConnTypes'
  BY <1>10, Zenon DEF ConnTypes, ReadFails, connVars, reqVars, downVars
<1>11. ASSUME NEW c \in Conns, NEW r \in Requests, RejectRequest(c, r) PROVE ConnTypes'
  BY <1>11, Zenon DEF ConnTypes, RejectRequest, Reads, connVars, reqVars, downVars
<1>12. ASSUME NEW c \in Conns, NEW r \in Requests, ReadRequest(c, r) PROVE ConnTypes'
  BY <1>12, Zenon DEF ConnTypes, ReadRequest, Reads, connVars, reqVars, downVars
<1>13. ASSUME NEW r \in Requests, Submit(r) PROVE ConnTypes'
  BY <1>13, SubmitMoves, Zenon DEF ConnTypes, Submit
<1>14. CASE Close
  BY <1>14, Zenon DEF ConnTypes, Close, CloseAll, connVars, reqVars, downVars
<1>15. CASE ShutdownStopsReading
  BY <1>15, Zenon DEF ConnTypes, ShutdownStopsReading, connVars, reqVars, downVars
<1>16. CASE ShutdownCloses
  BY <1>16, Zenon DEF ConnTypes, ShutdownCloses, CloseAll, connVars, reqVars, downVars
<1>17. ASSUME NEW c \in Conns, ServeStep(c) PROVE ConnTypes'
  BY <1>17, <1>1, <1>4, <1>5, <1>6, <1>7, <1>8, <1>9, Zenon DEF ServeStep,
     connVars, reqVars, downVars
<1>19. ASSUME NEW r \in Requests, SendError(r) PROVE ConnTypes'
  BY <1>19, SendErrorMoves, Zenon DEF ConnTypes, SendError
<1>20. ASSUME NEW r \in Requests, WriteReturns(r) PROVE ConnTypes'
  BY <1>20, WriteReturnsMoves, Zenon DEF ConnTypes, WriteReturns
<1>21. ASSUME NEW r \in Requests, RequestPanics(r) PROVE ConnTypes'
  BY <1>21, Zenon DEF ConnTypes, RequestPanics
<1>18. ASSUME NEW r \in Requests, RequestStep(r) PROVE ConnTypes'
  BY <1>18, <1>1, <1>13, <1>19, Zenon DEF RequestStep, StartRequest, HandleRequest,
     CallService, ServiceReturns, SendResponse, AsyncWrites, connVars,
     reqVars, downVars
<1> QED
  BY <1>1, <1>2, <1>3, <1>10, <1>11, <1>12, <1>14, <1>15, <1>16, <1>17, <1>18,
     <1>20, <1>21, Zenon DEF Next, vars, AcceptFails, ServeReturns,
     PoolStopped, ShutdownBegins, ShutdownPolls, connVars, reqVars, downVars

(* Every step counts the requests that start and end.                      *)
LEMMA CountsStep == IInv /\ [Next]_vars => CountsInProgress'
<1> SUFFICES ASSUME IInv, [Next]_vars PROVE CountsInProgress'
  OBVIOUS
<1> USE DEF IInv
<1>1. CASE UNCHANGED <<rpc, handlerMsgNum>>
  BY <1>1, Zenon DEF CountsInProgress, InProgress
<1>2. ASSUME NEW c \in Conns, NEW r \in Requests, RejectRequest(c, r) PROVE CountsInProgress'
  <2>1. InProgress' = InProgress /\ handlerMsgNum' = handlerMsgNum
    BY <1>2, Zenon
       DEF InProgress, HandledAt, RequestTypes, RejectRequest, Reads, connVars, reqVars, downVars
  <2> QED
    BY <2>1, Zenon DEF CountsInProgress
<1>3. ASSUME NEW c \in Conns, NEW r \in Requests, ReadRequest(c, r) PROVE CountsInProgress'
  <2>1. InProgress' = InProgress /\ handlerMsgNum' = handlerMsgNum
    BY <1>3, Zenon
       DEF InProgress, HandledAt, RequestTypes, ReadRequest, Reads, connVars, reqVars, downVars
  <2> QED
    BY <2>1, Zenon DEF CountsInProgress
<1>4. ASSUME NEW r \in Requests, Submit(r) PROVE CountsInProgress'
  <2>1. CASE rpc[r] = "offer"
    <3>1. InProgress' = InProgress \ {r} /\ r \in InProgress
      BY <1>4, <2>1, SubmitMoves, Zenon DEF InProgress, HandledAt, RequestTypes
    <3>2. handlerMsgNum' = handlerMsgNum - 1
      BY <1>4, <2>1, SubmitMoves, Zenon
    <3> QED
      BY <3>1, <3>2, FiniteProgress, FS_RemoveElement, Zenon DEF CountsInProgress
  <2>2. CASE rpc[r] # "offer"
    <3>1. InProgress' = InProgress /\ handlerMsgNum' = handlerMsgNum
      BY <1>4, <2>2, SubmitMoves, Zenon DEF InProgress, HandledAt, RequestTypes
    <3> QED
      BY <3>1, Zenon DEF CountsInProgress
  <2> QED
    BY <2>1, <2>2, Zenon
<1>5. ASSUME NEW r \in Requests, StartRequest(r) PROVE CountsInProgress'
  <2>1. InProgress' = InProgress \cup {r} /\ r \notin InProgress
    BY <1>5, Zenon DEF InProgress, HandledAt, RequestTypes, StartRequest
  <2>2. handlerMsgNum' = handlerMsgNum + 1
    BY <1>5, Zenon DEF StartRequest, Counted
  <2> QED
    BY <2>1, <2>2, FiniteProgress, FS_AddElement, Zenon DEF CountsInProgress
<1>6. ASSUME NEW r \in Requests, HandleRequest(r) PROVE CountsInProgress'
  <2>1. InProgress' = InProgress /\ handlerMsgNum' = handlerMsgNum
    BY <1>6, Zenon
       DEF InProgress, HandledAt, RequestTypes, HandleRequest, connVars, reqVars, downVars
  <2> QED
    BY <2>1, Zenon DEF CountsInProgress
<1>7. ASSUME NEW r \in Requests, CallService(r) PROVE CountsInProgress'
  <2>1. InProgress' = InProgress /\ handlerMsgNum' = handlerMsgNum
    BY <1>7, Zenon DEF InProgress, HandledAt, RequestTypes, CallService, connVars, reqVars, downVars
  <2> QED
    BY <2>1, Zenon DEF CountsInProgress
<1>8. ASSUME NEW r \in Requests, ServiceReturns(r) PROVE CountsInProgress'
  <2>1. InProgress' = InProgress /\ handlerMsgNum' = handlerMsgNum
    BY <1>8, Zenon
       DEF InProgress, HandledAt, RequestTypes, ServiceReturns, connVars, reqVars, downVars
  <2> QED
    BY <2>1, Zenon DEF CountsInProgress
<1>9. ASSUME NEW r \in Requests, SendResponse(r) PROVE CountsInProgress'
  <2>1. r \in InProgress
    BY <1>9, Zenon DEF SendResponse, InProgress, HandledAt
  <2>2. PICK to \in {"offer", "writing", "async", "end"} :
           /\ rpc' = [rpc EXCEPT ![r] = to]
           /\ handlerMsgNum' = IF to \in {"offer", "writing"} THEN handlerMsgNum
                                                           ELSE handlerMsgNum - 1
    BY <1>9, SendResponseMoves, Zenon
  <2>3. CASE to \in {"offer", "writing"}
    <3>1. InProgress' = InProgress /\ handlerMsgNum' = handlerMsgNum
      BY <2>1, <2>2, <2>3, Zenon DEF InProgress, HandledAt, RequestTypes
    <3> QED
      BY <3>1, Zenon DEF CountsInProgress
  <2>4. CASE to \notin {"offer", "writing"}
    <3>1. InProgress' = InProgress \ {r} /\ handlerMsgNum' = handlerMsgNum - 1
      BY <2>1, <2>2, <2>4, Zenon DEF InProgress, HandledAt, RequestTypes
    <3> QED
      BY <2>1, <3>1, FiniteProgress, FS_RemoveElement, Zenon DEF CountsInProgress
  <2> QED
    BY <2>3, <2>4, Zenon
<1>10. ASSUME NEW r \in Requests, AsyncWrites(r) PROVE CountsInProgress'
  <2>1. InProgress' = InProgress /\ handlerMsgNum' = handlerMsgNum
    BY <1>10, Zenon
       DEF InProgress, HandledAt, RequestTypes, AsyncWrites, connVars, reqVars, downVars
  <2> QED
    BY <2>1, Zenon DEF CountsInProgress
<1>11. ASSUME NEW r \in Requests, RequestPanics(r) PROVE CountsInProgress'
  <2>1. CASE rpc[r] = "reject"
    <3>1. InProgress' = InProgress /\ handlerMsgNum' = handlerMsgNum
      BY <1>11, <2>1, Zenon DEF InProgress, HandledAt, RequestTypes, RequestPanics
    <3> QED
      BY <3>1, Zenon DEF CountsInProgress
  <2>2. CASE rpc[r] # "reject"
    <3>1. InProgress' = InProgress \ {r} /\ r \in InProgress
      BY <1>11, <2>2, Zenon DEF InProgress, HandledAt, RequestTypes, RequestPanics
    <3>2. handlerMsgNum' = handlerMsgNum - 1
      BY <1>11, <2>2, Zenon DEF RequestPanics
    <3> QED
      BY <3>1, <3>2, FiniteProgress, FS_RemoveElement, Zenon DEF CountsInProgress
  <2> QED
    BY <2>1, <2>2, Zenon
<1>15. ASSUME NEW r \in Requests, SendError(r) PROVE CountsInProgress'
  <2>1. handlerMsgNum' = handlerMsgNum /\ rpc[r] = "reject"
    BY <1>15, Zenon DEF SendError
  <2>2. InProgress' = InProgress
    BY <1>15, <2>1, SendErrorMoves, Zenon DEF InProgress, HandledAt, RequestTypes
  <2> QED
    BY <2>1, <2>2, Zenon DEF CountsInProgress
<1>16. ASSUME NEW r \in Requests, WriteReturns(r) PROVE CountsInProgress'
  <2>1. CASE rpc[r] = "writing"
    <3>1. InProgress' = InProgress \ {r} /\ r \in InProgress
      BY <1>16, <2>1, WriteReturnsMoves, Zenon DEF InProgress, HandledAt, RequestTypes
    <3>2. handlerMsgNum' = handlerMsgNum - 1
      BY <1>16, <2>1, WriteReturnsMoves, Zenon
    <3> QED
      BY <3>1, <3>2, FiniteProgress, FS_RemoveElement, Zenon DEF CountsInProgress
  <2>2. CASE rpc[r] # "writing"
    <3>1. InProgress' = InProgress /\ handlerMsgNum' = handlerMsgNum
      BY <1>16, <2>2, WriteReturnsMoves, Zenon DEF InProgress, HandledAt, RequestTypes
    <3> QED
      BY <3>1, Zenon DEF CountsInProgress
  <2> QED
    BY <2>1, <2>2, Zenon
<1>12. CASE PoolStopped
  <2>1. InProgress' = InProgress /\ handlerMsgNum' = handlerMsgNum
    BY <1>12, Zenon
       DEF InProgress, HandledAt, RequestTypes, PoolStopped, connVars, reqVars, downVars
  <2> QED
    BY <2>1, Zenon DEF CountsInProgress
<1>13. ASSUME NEW c \in Conns, ServeStep(c) PROVE CountsInProgress'
  BY <1>13, <1>1, Zenon DEF ServeStep, ServeConn, ServeLoop, ServeExit,
     ServeDrained, CloseConn, CloseConnNotify, connVars, reqVars, downVars
<1>14. ASSUME NEW r \in Requests, RequestStep(r) PROVE CountsInProgress'
  BY <1>14, <1>1, <1>4, <1>5, <1>6, <1>7, <1>8, <1>9, <1>10, <1>15, Zenon DEF
     RequestStep, connVars, reqVars, downVars
<1> QED
  BY <1>1, <1>2, <1>3, <1>11, <1>12, <1>13, <1>14, <1>16, Zenon DEF Next, vars,
     Accept, PostConnAccept, ReadFails, AcceptFails, ServeReturns, Close,
     CloseAll, ShutdownBegins, ShutdownStopsReading, ShutdownPolls,
     ShutdownCloses, connVars, reqVars, downVars

(* Every step keeps the types of the requests.                             *)
LEMMA RequestTypesStep == IInv /\ CountsInProgress' /\ [Next]_vars => RequestTypes'
<1> SUFFICES ASSUME IInv, CountsInProgress', [Next]_vars PROVE RequestTypes'
  OBVIOUS
<1> USE DEF IInv
<1>0. handlerMsgNum' \in Nat
  BY FiniteProgress, FS_CardinalityType, Zenon DEF CountsInProgress
<1>1. CASE UNCHANGED <<rpc, outcome, handlerMsgNum, logicLock>>
  BY <1>1, Zenon DEF RequestTypes
<1>2. ASSUME NEW c \in Conns, NEW r \in Requests, RejectRequest(c, r) PROVE RequestTypes'
  BY <1>2, LockOfType, <1>0, Zenon
     DEF RequestTypes, RejectRequest, Reads, connVars, reqVars, downVars, HandledAt,
         RefusedAt, Unlocked
<1>3. ASSUME NEW c \in Conns, NEW r \in Requests, ReadRequest(c, r) PROVE RequestTypes'
  BY <1>3, LockOfType, <1>0, Zenon
     DEF RequestTypes, ReadRequest, Reads, connVars, reqVars, downVars, HandledAt,
         RefusedAt, Unlocked
<1>4. ASSUME NEW r \in Requests, Submit(r) PROVE RequestTypes'
  BY <1>4, SubmitMoves, <1>0, Zenon DEF RequestTypes, Submit
<1>5. ASSUME NEW r \in Requests, StartRequest(r) PROVE RequestTypes'
  BY <1>5, LockOfType, <1>0, Zenon
     DEF RequestTypes, StartRequest, connVars, reqVars, downVars, HandledAt, RefusedAt, Unlocked
<1>6. ASSUME NEW r \in Requests, HandleRequest(r) PROVE RequestTypes'
  BY <1>6, LockOfType, <1>0, Zenon
     DEF RequestTypes, HandleRequest, connVars, reqVars, downVars, HandledAt, RefusedAt,
         Unlocked
<1>7. ASSUME NEW r \in Requests, CallService(r) PROVE RequestTypes'
  BY <1>7, LockOfType, <1>0, Zenon
     DEF RequestTypes, CallService, connVars, reqVars, downVars, HandledAt, RefusedAt, Unlocked
<1>8. ASSUME NEW r \in Requests, ServiceReturns(r) PROVE RequestTypes'
  BY <1>8, LockOfType, <1>0, Zenon
     DEF RequestTypes, ServiceReturns, connVars, reqVars, downVars, HandledAt, RefusedAt,
         Unlocked
<1>9. ASSUME NEW r \in Requests, SendResponse(r) PROVE RequestTypes'
  BY <1>9, SendResponseMoves, <1>0, Zenon DEF RequestTypes, HandledAt
<1>10. ASSUME NEW r \in Requests, AsyncWrites(r) PROVE RequestTypes'
  BY <1>10, LockOfType, <1>0, Zenon
     DEF RequestTypes, AsyncWrites, connVars, reqVars, downVars, HandledAt, RefusedAt, Unlocked
<1>11. ASSUME NEW r \in Requests, RequestPanics(r) PROVE RequestTypes'
  BY <1>11, LockOfType, <1>0, Zenon
     DEF RequestTypes, RequestPanics, connVars, reqVars, downVars, HandledAt, RefusedAt,
         Unlocked
<1>12. CASE PoolStopped
  BY <1>12, LockOfType, <1>0, Zenon
     DEF RequestTypes, PoolStopped, connVars, reqVars, downVars, HandledAt, RefusedAt, Unlocked
<1>15. ASSUME NEW r \in Requests, SendError(r) PROVE RequestTypes'
  <2>1. PICK to \in {"offerError", "refusing", "async", "end"}, o \in {"none", "broken", "panic"} :
           rpc' = [rpc EXCEPT ![r] = to] /\ outcome' = [outcome EXCEPT ![r] = o]
    BY <1>15, SendErrorMoves, Zenon
  <2>2. logicLock' = logicLock
    BY <1>15, SendErrorMoves, Zenon
  <2> QED
    BY <2>1, <2>2, <1>0, Zenon DEF RequestTypes, RefusedAt
<1>16. ASSUME NEW r \in Requests, WriteReturns(r) PROVE RequestTypes'
  BY <1>16, WriteReturnsMoves, <1>0, Zenon DEF RequestTypes, WriteReturns
<1>13. ASSUME NEW c \in Conns, ServeStep(c) PROVE RequestTypes'
  BY <1>13, <1>1, Zenon DEF ServeStep, ServeConn, ServeLoop, ServeExit,
     ServeDrained, CloseConn, CloseConnNotify, connVars, reqVars, downVars
<1>14. ASSUME NEW r \in Requests, RequestStep(r) PROVE RequestTypes'
  BY <1>14, <1>1, <1>4, <1>5, <1>6, <1>7, <1>8, <1>9, <1>10, <1>15, Zenon DEF
     RequestStep, connVars, reqVars, downVars
<1> QED
  BY <1>1, <1>2, <1>3, <1>11, <1>12, <1>13, <1>14, <1>16, Zenon DEF Next, vars,
     Accept, PostConnAccept, ReadFails, AcceptFails, ServeReturns, Close,
     CloseAll, ShutdownBegins, ShutdownStopsReading, ShutdownPolls,
     ShutdownCloses, connVars, reqVars, downVars

(* Every step keeps the types of Close's and Shutdown's variables.         *)
LEMMA DownTypesStep == IInv /\ [Next]_vars => DownTypes'
<1> SUFFICES ASSUME IInv, [Next]_vars PROVE DownTypes'
  OBVIOUS
<1> USE DEF IInv
<1>1. CASE UNCHANGED <<inShutdown, doneChan, pool, spc, expired, closed, early>>
  BY <1>1, Zenon DEF DownTypes
<1>2. CASE Close
  BY <1>2, Zenon DEF DownTypes, Close, CloseAll, connVars, reqVars, downVars, ClosedDoneChan
<1>3. CASE PoolStopped
  BY <1>3, Zenon DEF DownTypes, PoolStopped, connVars, reqVars, downVars, ClosedDoneChan
<1>4. CASE ShutdownBegins
  BY <1>4, Zenon DEF DownTypes, ShutdownBegins, connVars, reqVars, downVars, ClosedDoneChan
<1>5. CASE ShutdownStopsReading
  BY <1>5, Zenon DEF DownTypes, ShutdownStopsReading, connVars, reqVars, downVars, ClosedDoneChan
<1>6. CASE ShutdownPolls
  BY <1>6, Zenon DEF DownTypes, ShutdownPolls, connVars, reqVars, downVars,
     ClosedDoneChan
<1>7. CASE ShutdownCloses
  BY <1>7, Zenon
     DEF DownTypes, ShutdownCloses, CloseAll, connVars, reqVars, downVars, ClosedDoneChan
<1>8. ASSUME NEW c \in Conns, ServeStep(c) PROVE DownTypes'
  BY <1>8, <1>1, Zenon DEF ServeStep, ServeConn, ServeLoop, ServeExit,
     ServeDrained, CloseConn, CloseConnNotify, connVars, reqVars, downVars
<1>9. ASSUME NEW r \in Requests, RequestStep(r) PROVE DownTypes'
  BY <1>9, <1>1, Zenon DEF RequestStep, Submit, StartRequest, HandleRequest,
     CallService, ServiceReturns, SendResponse, SendError, AsyncWrites, connVars,
     reqVars, downVars
<1> QED
  BY <1>1, <1>2, <1>3, <1>4, <1>5, <1>6, <1>7, <1>8, <1>9, Zenon DEF Next,
     vars, Accept, PostConnAccept, ReadFails, RejectRequest, Reads,
     ReadRequest, RequestPanics, WriteReturns, AcceptFails, ServeReturns, connVars, reqVars,
     downVars

(* A lock is taken free and released by its holder only.                   *)
LEMMA LockStep == IInv /\ [Next]_vars => LockInv'
<1> SUFFICES ASSUME IInv, [Next]_vars PROVE LockInv'
  OBVIOUS
<1> USE DEF IInv
<1>1. CASE UNCHANGED <<rpc, logicLock>>
  BY <1>1, Zenon DEF LockInv
<1>2. ASSUME NEW c \in Conns, NEW r \in Requests, RejectRequest(c, r) PROVE LockInv'
  BY <1>2, LockOfType, LogicSyncType, Zenon
     DEF LockInv, RejectRequest, Reads, connVars, reqVars, downVars, RequestTypes, Unlocked,
         Locks, HandledAt
<1>3. ASSUME NEW c \in Conns, NEW r \in Requests, ReadRequest(c, r) PROVE LockInv'
  BY <1>3, LockOfType, LogicSyncType, Zenon
     DEF LockInv, ReadRequest, Reads, connVars, reqVars, downVars, RequestTypes, Unlocked,
         Locks, HandledAt
<1>4. ASSUME NEW r \in Requests, Submit(r) PROVE LockInv'
  <2>1. logicLock' = logicLock /\ \A q \in LogicSync : rpc'[q] = "running" => rpc[q] = "running"
    BY <1>4, SubmitMoves, LogicSyncType, Zenon DEF Submit, RequestTypes
  <2> QED
    BY <2>1, Zenon DEF LockInv
<1>5. ASSUME NEW r \in Requests, StartRequest(r) PROVE LockInv'
  BY <1>5, LockOfType, LogicSyncType, Zenon
     DEF LockInv, StartRequest, connVars, reqVars, downVars, RequestTypes, Unlocked, Locks,
         HandledAt
<1>6. ASSUME NEW r \in Requests, HandleRequest(r) PROVE LockInv'
  <2>1. logicLock' = logicLock /\ \A q \in LogicSync : rpc'[q] = "running" => rpc[q] = "running"
    BY <1>6, LogicSyncType, Zenon DEF HandleRequest, connVars, reqVars, downVars, RequestTypes
  <2> QED
    BY <2>1, Zenon DEF LockInv
<1>7. ASSUME NEW r \in Requests, CallService(r) PROVE LockInv'
  <2>1. \A q \in LogicSync \ {r} : rpc'[q] = rpc[q]
    BY <1>7, LogicSyncType, Zenon DEF CallService, RequestTypes
  <2>2. CASE r \in LogicSync
    <3>1. logicLock' = [logicLock EXCEPT ![LogicSyncLockOf(r)] = r]
      BY <1>7, <2>2, Zenon DEF CallService
    <3>2. ASSUME NEW q \in LogicSync \ {r}, rpc[q] = "running"
          PROVE  logicLock[LogicSyncLockOf(q)] = q /\ LogicSyncLockOf(q) # LogicSyncLockOf(r)
      BY <1>7, <2>2, <3>2, LogicSyncType, Zenon DEF CallService, LockInv
    <3> QED
      BY <2>1, <3>1, <3>2, LockOfType, LogicSyncType, Zenon DEF LockInv, RequestTypes
  <2>3. CASE r \notin LogicSync
    BY <1>7, <2>1, <2>3, Zenon DEF CallService, LockInv
  <2> QED
    BY <2>2, <2>3, Zenon
<1>8. ASSUME NEW r \in Requests, ServiceReturns(r) PROVE LockInv'
  BY <1>8, LockOfType, LogicSyncType, Zenon
     DEF LockInv, ServiceReturns, connVars, reqVars, downVars, RequestTypes, Unlocked, Locks,
         HandledAt
<1>9. ASSUME NEW r \in Requests, SendResponse(r) PROVE LockInv'
  <2>1. logicLock' = logicLock /\ \A q \in LogicSync : rpc'[q] = "running" => rpc[q] = "running"
    BY <1>9, SendResponseMoves, LogicSyncType, Zenon DEF SendResponse, RequestTypes
  <2> QED
    BY <2>1, Zenon DEF LockInv
<1>10. ASSUME NEW r \in Requests, AsyncWrites(r) PROVE LockInv'
  BY <1>10, LockOfType, LogicSyncType, Zenon
     DEF LockInv, AsyncWrites, connVars, reqVars, downVars, RequestTypes, Unlocked, Locks, HandledAt
<1>11. ASSUME NEW r \in Requests, RequestPanics(r) PROVE LockInv'
  BY <1>11, LockOfType, LogicSyncType, Zenon
     DEF LockInv, RequestPanics, connVars, reqVars, downVars, RequestTypes, Unlocked, Locks,
         HandledAt
<1>12. CASE PoolStopped
  BY <1>12, LockOfType, LogicSyncType, Zenon
     DEF LockInv, PoolStopped, connVars, reqVars, downVars, RequestTypes, Unlocked, Locks, HandledAt
<1>15. ASSUME NEW r \in Requests, SendError(r) PROVE LockInv'
  <2>1. logicLock' = logicLock /\ \A q \in LogicSync : rpc'[q] = "running" => rpc[q] = "running"
    BY <1>15, SendErrorMoves, LogicSyncType, Zenon DEF RequestTypes
  <2> QED
    BY <2>1, Zenon DEF LockInv
<1>16. ASSUME NEW r \in Requests, WriteReturns(r) PROVE LockInv'
  <2>1. logicLock' = logicLock /\ \A q \in LogicSync : rpc'[q] = "running" => rpc[q] = "running"
    BY <1>16, WriteReturnsMoves, LogicSyncType, Zenon DEF WriteReturns, RequestTypes
  <2> QED
    BY <2>1, Zenon DEF LockInv
<1>13. ASSUME NEW c \in Conns, ServeStep(c) PROVE LockInv'
  BY <1>13, <1>1, Zenon DEF ServeStep, ServeConn, ServeLoop, ServeExit,
     ServeDrained, CloseConn, CloseConnNotify, connVars, reqVars, downVars
<1>14. ASSUME NEW r \in Requests, RequestStep(r) PROVE LockInv'
  BY <1>14, <1>1, <1>4, <1>5, <1>6, <1>7, <1>8, <1>9, <1>10, <1>15, Zenon DEF
     RequestStep, connVars, reqVars, downVars
<1> QED
  BY <1>1, <1>2, <1>3, <1>11, <1>12, <1>13, <1>14, <1>16, Zenon DEF Next, vars,
     Accept, PostConnAccept, ReadFails, AcceptFails, ServeReturns, Close,
     CloseAll, ShutdownBegins, ShutdownStopsReading, ShutdownPolls,
     ShutdownCloses, connVars, reqVars, downVars

(* A response is written, or lost, in the last step of its request.        *)
LEMMA OutcomeStep == IInv /\ [Next]_vars => OutcomeInv'
<1> SUFFICES ASSUME IInv, [Next]_vars PROVE OutcomeInv'
  OBVIOUS
<1> USE DEF IInv
<1>1. CASE UNCHANGED <<rpc, outcome>>
  BY <1>1, Zenon DEF OutcomeInv
<1>2. ASSUME NEW c \in Conns, NEW r \in Requests, RejectRequest(c, r) PROVE OutcomeInv'
  BY <1>2, Zenon DEF OutcomeInv, RejectRequest, Reads, connVars, reqVars, downVars, RequestTypes
<1>3. ASSUME NEW c \in Conns, NEW r \in Requests, ReadRequest(c, r) PROVE OutcomeInv'
  BY <1>3, Zenon DEF OutcomeInv, ReadRequest, Reads, connVars, reqVars, downVars, RequestTypes
<1>4. ASSUME NEW r \in Requests, Submit(r) PROVE OutcomeInv'
  BY <1>4, SubmitMoves, Zenon DEF OutcomeInv, Submit, RequestTypes
<1>5. ASSUME NEW r \in Requests, StartRequest(r) PROVE OutcomeInv'
  BY <1>5, Zenon DEF OutcomeInv, StartRequest, connVars, reqVars, downVars, RequestTypes
<1>6. ASSUME NEW r \in Requests, HandleRequest(r) PROVE OutcomeInv'
  BY <1>6, Zenon DEF OutcomeInv, HandleRequest, connVars, reqVars, downVars, RequestTypes
<1>7. ASSUME NEW r \in Requests, CallService(r) PROVE OutcomeInv'
  BY <1>7, Zenon DEF OutcomeInv, CallService, connVars, reqVars, downVars, RequestTypes
<1>8. ASSUME NEW r \in Requests, ServiceReturns(r) PROVE OutcomeInv'
  BY <1>8, Zenon DEF OutcomeInv, ServiceReturns, connVars, reqVars, downVars, RequestTypes
<1>9. ASSUME NEW r \in Requests, SendResponse(r) PROVE OutcomeInv'
  BY <1>9, SendResponseMoves, Zenon DEF OutcomeInv, RequestTypes
<1>10. ASSUME NEW r \in Requests, AsyncWrites(r) PROVE OutcomeInv'
  BY <1>10, Zenon DEF OutcomeInv, AsyncWrites, connVars, reqVars, downVars, RequestTypes
<1>11. ASSUME NEW r \in Requests, RequestPanics(r) PROVE OutcomeInv'
  BY <1>11, Zenon DEF OutcomeInv, RequestPanics, connVars, reqVars, downVars, RequestTypes
<1>12. CASE PoolStopped
  BY <1>12, Zenon DEF OutcomeInv, PoolStopped, connVars, reqVars, downVars, RequestTypes
<1>15. ASSUME NEW r \in Requests, SendError(r) PROVE OutcomeInv'
  BY <1>15, SendErrorMoves, Zenon DEF OutcomeInv, RequestTypes
<1>16. ASSUME NEW r \in Requests, WriteReturns(r) PROVE OutcomeInv'
  BY <1>16, WriteReturnsMoves, Zenon DEF OutcomeInv, RequestTypes
<1>13. ASSUME NEW c \in Conns, ServeStep(c) PROVE OutcomeInv'
  BY <1>13, <1>1, Zenon DEF ServeStep, ServeConn, ServeLoop, ServeExit,
     ServeDrained, CloseConn, CloseConnNotify, connVars, reqVars, downVars
<1>14. ASSUME NEW r \in Requests, RequestStep(r) PROVE OutcomeInv'
  BY <1>14, <1>1, <1>4, <1>5, <1>6, <1>7, <1>8, <1>9, <1>10, <1>15, Zenon DEF
     RequestStep, connVars, reqVars, downVars
<1> QED
  BY <1>1, <1>2, <1>3, <1>11, <1>12, <1>13, <1>14, <1>16, Zenon DEF Next, vars,
     Accept, PostConnAccept, ReadFails, AcceptFails, ServeReturns, Close,
     CloseAll, ShutdownBegins, ShutdownStopsReading, ShutdownPolls,
     ShutdownCloses, connVars, reqVars, downVars

(* serveConn submits the request it has just read, before it reads on.      *)
LEMMA SubmitStep == IInv /\ [Next]_vars => SubmitInv'
<1> SUFFICES ASSUME IInv, [Next]_vars PROVE SubmitInv'
  OBVIOUS
<1> USE DEF IInv
<1>1. CASE UNCHANGED <<rpc, cpc>>
  BY <1>1, Zenon DEF SubmitInv, Held
<1>2. ASSUME NEW c \in Conns, Accept(c) PROVE SubmitInv'
  BY <1>2, ConnOfType, Zenon
     DEF SubmitInv, Accept, connVars, reqVars, downVars, ConnTypes, RequestTypes, Held, RefusedAt
<1>3. ASSUME NEW c \in Conns, PostConnAccept(c) PROVE SubmitInv'
  BY <1>3, ConnOfType, Zenon
     DEF SubmitInv, PostConnAccept, connVars, reqVars, downVars, ConnTypes, RequestTypes, Held, RefusedAt
<1>4. ASSUME NEW c \in Conns, ServeConn(c) PROVE SubmitInv'
  BY <1>4, ConnOfType, Zenon
     DEF SubmitInv, ServeConn, connVars, reqVars, downVars, ConnTypes, RequestTypes, Held, RefusedAt
<1>5. ASSUME NEW c \in Conns, ServeLoop(c) PROVE SubmitInv'
  BY <1>5, ConnOfType, Zenon
     DEF SubmitInv, ServeLoop, connVars, reqVars, downVars, ConnTypes, RequestTypes, Held, RefusedAt
<1>6. ASSUME NEW c \in Conns, ServeExit(c) PROVE SubmitInv'
  BY <1>6, ConnOfType, Zenon
     DEF SubmitInv, ServeExit, connVars, reqVars, downVars, ConnTypes, RequestTypes, Held, RefusedAt
<1>7. ASSUME NEW c \in Conns, ServeDrained(c) PROVE SubmitInv'
  BY <1>7, ConnOfType, Zenon
     DEF SubmitInv, ServeDrained, connVars, reqVars, downVars, ConnTypes, RequestTypes, Held, RefusedAt
<1>8. ASSUME NEW c \in Conns, CloseConn(c) PROVE SubmitInv'
  BY <1>8, ConnOfType, Zenon
     DEF SubmitInv, CloseConn, connVars, reqVars, downVars, ConnTypes, RequestTypes, Held, RefusedAt
<1>9. ASSUME NEW c \in Conns, CloseConnNotify(c) PROVE SubmitInv'
  BY <1>9, ConnOfType, Zenon
     DEF SubmitInv, CloseConnNotify, connVars, reqVars, downVars, ConnTypes, RequestTypes, Held, RefusedAt
<1>10. ASSUME NEW c \in Conns, ReadFails(c) PROVE SubmitInv'
  BY <1>10, ConnOfType, Zenon
     DEF SubmitInv, ReadFails, connVars, reqVars, downVars, ConnTypes, RequestTypes, Held, RefusedAt
<1>11. ASSUME NEW c \in Conns, NEW r \in Requests, RejectRequest(c, r) PROVE SubmitInv'
  BY <1>11, ConnOfType DEF SubmitInv, RejectRequest, Reads, connVars, reqVars,
     downVars, ConnTypes, RequestTypes, Held, RefusedAt
<1>12. ASSUME NEW c \in Conns, NEW r \in Requests, ReadRequest(c, r) PROVE SubmitInv'
  <2>1. \A q \in Requests : Held(q)' => Held(q) \/ (q = r /\ cpc'[c] = "submit")
    BY <1>12, Zenon DEF ReadRequest, Reads, RequestTypes, ConnTypes, Held, RefusedAt
  <2>2. cpc[c] = "read" /\ ConnOf(r) = c /\ \A d \in Conns \ {c} : cpc'[d] = cpc[d]
    BY <1>12, Zenon DEF ReadRequest, Reads, ConnTypes
  <2>3. \A q \in Requests : Held(q) => ConnOf(q) # c
    BY <2>2, Zenon DEF SubmitInv
  <2> QED
    BY <2>1, <2>2, <2>3, ConnOfType, Zenon DEF SubmitInv
<1>13. ASSUME NEW r \in Requests, Submit(r) PROVE SubmitInv'
  <2>1. \A q \in Requests : Held(q)' => Held(q) /\ q # r
    BY <1>13, SubmitMoves, Zenon DEF RequestTypes, Held, RefusedAt
  <2>2. CASE cpc' = cpc
    BY <2>1, <2>2, Zenon DEF SubmitInv
  <2>3. CASE Held(r)
    BY <1>13, <2>1, <2>3, SubmitMoves, ConnOfType, Zenon DEF SubmitInv, ConnTypes
  <2> QED
    BY <1>13, <2>2, <2>3, SubmitMoves, Zenon DEF Held, RefusedAt
<1>14. ASSUME NEW r \in Requests, StartRequest(r) PROVE SubmitInv'
  BY <1>14, ConnOfType, Zenon
     DEF SubmitInv, StartRequest, connVars, reqVars, downVars, ConnTypes, RequestTypes, Held, RefusedAt
<1>15. ASSUME NEW r \in Requests, HandleRequest(r) PROVE SubmitInv'
  BY <1>15, ConnOfType, ZenonT(40)
     DEF SubmitInv, HandleRequest, connVars, reqVars, downVars, ConnTypes, RequestTypes, Held, RefusedAt
<1>16. ASSUME NEW r \in Requests, CallService(r) PROVE SubmitInv'
  BY <1>16, ConnOfType, Zenon
     DEF SubmitInv, CallService, connVars, reqVars, downVars, ConnTypes, RequestTypes, Held, RefusedAt
<1>17. ASSUME NEW r \in Requests, ServiceReturns(r) PROVE SubmitInv'
  BY <1>17, ConnOfType, Zenon
     DEF SubmitInv, ServiceReturns, connVars, reqVars, downVars, ConnTypes, RequestTypes, Held, RefusedAt
<1>18. ASSUME NEW r \in Requests, SendResponse(r) PROVE SubmitInv'
  <2>1. \A q \in Requests : Held(q)' => Held(q)
    BY <1>18, SendResponseMoves, Zenon DEF RequestTypes, Held, RefusedAt
  <2>2. cpc' = cpc
    BY <1>18, Zenon DEF SendResponse, connVars
  <2> QED
    BY <2>1, <2>2, Zenon DEF SubmitInv
<1>19. ASSUME NEW r \in Requests, AsyncWrites(r) PROVE SubmitInv'
  <2>1. \A q \in Requests : Held(q)' => Held(q)
    BY <1>19, Zenon DEF AsyncWrites, RequestTypes, Held, RefusedAt
  <2>2. cpc' = cpc
    BY <1>19, Zenon DEF AsyncWrites, connVars
  <2> QED
    BY <2>1, <2>2, Zenon DEF SubmitInv
<1>20. ASSUME NEW r \in Requests, RequestPanics(r) PROVE SubmitInv'
  BY <1>20, ConnOfType, Zenon
     DEF SubmitInv, RequestPanics, connVars, reqVars, downVars, ConnTypes, RequestTypes, Held, RefusedAt
<1>21. CASE PoolStopped
  BY <1>21, ConnOfType, Zenon
     DEF SubmitInv, PoolStopped, connVars, reqVars, downVars, ConnTypes, RequestTypes, Held, RefusedAt
<1>24. ASSUME NEW r \in Requests, SendError(r) PROVE SubmitInv'
  <2>1. Held(r)
    BY <1>24, Zenon DEF SendError, Held, RefusedAt
  <2>2. \A q \in Requests : Held(q)' => Held(q)
    BY <1>24, <2>1, SendErrorMoves, Zenon DEF RequestTypes, Held, RefusedAt
  <2>3. CASE cpc' = cpc
    BY <2>2, <2>3, Zenon DEF SubmitInv
  <2>4. CASE ~Held(r)'
    BY <1>24, <2>1, <2>2, <2>4, SendErrorMoves, ConnOfType, Zenon DEF SubmitInv, ConnTypes
  <2>5. \A to \in {"async", "end"} : rpc' = [rpc EXCEPT ![r] = to] => ~Held(r)'
    BY Zenon DEF RequestTypes, Held, RefusedAt
  <2> QED
    BY <1>24, <2>3, <2>4, <2>5, SendErrorMoves, Zenon
<1>25. ASSUME NEW r \in Requests, WriteReturns(r) PROVE SubmitInv'
  <2>1. \A q \in Requests : Held(q)' => Held(q) /\ q # r
    BY <1>25, WriteReturnsMoves, Zenon DEF RequestTypes, Held, RefusedAt
  <2>2. CASE cpc' = cpc
    BY <2>1, <2>2, Zenon DEF SubmitInv
  <2>3. CASE Held(r)
    BY <1>25, <2>1, <2>3, WriteReturnsMoves, ConnOfType, Zenon DEF SubmitInv, ConnTypes
  <2> QED
    BY <1>25, <2>2, <2>3, WriteReturnsMoves, Zenon DEF Held, RefusedAt
<1>22. ASSUME NEW c \in Conns, ServeStep(c) PROVE SubmitInv'
  BY <1>22, <1>1, <1>4, <1>5, <1>6, <1>7, <1>8, <1>9, Zenon DEF ServeStep,
     connVars, reqVars, downVars
<1>23. ASSUME NEW r \in Requests, RequestStep(r) PROVE SubmitInv'
  BY <1>23, <1>1, <1>13, <1>14, <1>15, <1>16, <1>17, <1>18, <1>19, <1>24, Zenon DEF
     RequestStep, connVars, reqVars, downVars
<1> QED
  BY <1>1, <1>2, <1>3, <1>10, <1>11, <1>12, <1>20, <1>21, <1>22, <1>23, <1>25, Zenon
     DEF Next, vars, AcceptFails, ServeReturns, Close, CloseAll,
     ShutdownBegins, ShutdownStopsReading, ShutdownPolls, ShutdownCloses,
     connVars, reqVars, downVars

-----------------------------------------------------------------------------
(* A connection is closed by Close, by the end of Shutdown or by the       *)
(* goroutine that serves it.                                               *)
LEMMA DoneStep == IInv /\ [Next]_vars => DoneInv'
<1> SUFFICES ASSUME IInv, [Next]_vars PROVE DoneInv'
  OBVIOUS
<1> USE DEF IInv
<1>1. CASE UNCHANGED <<cpc, connOpen, doneChan, closed, spc, inShutdown, early, expired>>
  BY <1>1, Zenon DEF DoneInv
<1>2. ASSUME NEW c \in Conns, Accept(c) PROVE DoneInv'
  BY <1>2, ConnOfType, Zenon
     DEF DoneInv, Accept, connVars, reqVars, downVars, ConnTypes, DownTypes, ClosedDoneChan,
         SubmitInv
<1>3. ASSUME NEW c \in Conns, PostConnAccept(c) PROVE DoneInv'
  BY <1>3, ConnOfType, Zenon
     DEF DoneInv, PostConnAccept, connVars, reqVars, downVars, ConnTypes, DownTypes,
         ClosedDoneChan, SubmitInv
<1>4. ASSUME NEW c \in Conns, ServeConn(c) PROVE DoneInv'
  BY <1>4, ConnOfType, Zenon
     DEF DoneInv, ServeConn, connVars, reqVars, downVars, ConnTypes, DownTypes, ClosedDoneChan,
         SubmitInv
<1>5. ASSUME NEW c \in Conns, ServeLoop(c) PROVE DoneInv'
  BY <1>5, ConnOfType, Zenon
     DEF DoneInv, ServeLoop, connVars, reqVars, downVars, ConnTypes, DownTypes, ClosedDoneChan,
         SubmitInv
<1>6. ASSUME NEW c \in Conns, ServeExit(c) PROVE DoneInv'
  BY <1>6, ConnOfType, Zenon
     DEF DoneInv, ServeExit, connVars, reqVars, downVars, ConnTypes, DownTypes, ClosedDoneChan,
         SubmitInv
<1>7. ASSUME NEW c \in Conns, ServeDrained(c) PROVE DoneInv'
  BY <1>7, ConnOfType, Zenon
     DEF DoneInv, ServeDrained, connVars, reqVars, downVars, ConnTypes, DownTypes,
         ClosedDoneChan, SubmitInv
<1>8. ASSUME NEW c \in Conns, CloseConn(c) PROVE DoneInv'
  BY <1>8, ConnOfType, Zenon
     DEF DoneInv, CloseConn, connVars, reqVars, downVars, ConnTypes, DownTypes, ClosedDoneChan,
         SubmitInv
<1>9. ASSUME NEW c \in Conns, CloseConnNotify(c) PROVE DoneInv'
  BY <1>9, ConnOfType, Zenon
     DEF DoneInv, CloseConnNotify, connVars, reqVars, downVars, ConnTypes, DownTypes,
         ClosedDoneChan, SubmitInv
<1>10. ASSUME NEW c \in Conns, ReadFails(c) PROVE DoneInv'
  BY <1>10, ConnOfType, Zenon
     DEF DoneInv, ReadFails, connVars, reqVars, downVars, ConnTypes, DownTypes, ClosedDoneChan,
         SubmitInv
<1>11. ASSUME NEW c \in Conns, NEW r \in Requests, RejectRequest(c, r) PROVE DoneInv'
  BY <1>11, ConnOfType, Zenon
     DEF DoneInv, RejectRequest, Reads, connVars, reqVars, downVars, ConnTypes, DownTypes,
         ClosedDoneChan, SubmitInv
<1>12. ASSUME NEW c \in Conns, NEW r \in Requests, ReadRequest(c, r) PROVE DoneInv'
  BY <1>12, ConnOfType, Zenon
     DEF DoneInv, ReadRequest, Reads, connVars, reqVars, downVars, ConnTypes, DownTypes,
         ClosedDoneChan, SubmitInv
<1>13. ASSUME NEW r \in Requests, Submit(r) PROVE DoneInv'
  BY <1>13, SubmitMoves, ConnOfType, Zenon DEF DoneInv, Submit, downVars, ConnTypes,
     SubmitInv, Held, RefusedAt
<1>21. ASSUME NEW r \in Requests, SendError(r) PROVE DoneInv'
  BY <1>21, SendErrorMoves, ConnOfType, Zenon DEF DoneInv, SendError, downVars, ConnTypes,
     SubmitInv, Held, RefusedAt
<1>22. ASSUME NEW r \in Requests, WriteReturns(r) PROVE DoneInv'
  BY <1>22, WriteReturnsMoves, ConnOfType, Zenon DEF DoneInv, WriteReturns, downVars,
     ConnTypes, SubmitInv, Held, RefusedAt
<1>23. ASSUME NEW r \in Requests, RequestPanics(r) PROVE DoneInv'
  BY <1>23, ConnOfType, Zenon DEF DoneInv, RequestPanics, downVars, ConnTypes, SubmitInv,
     Held, RefusedAt
<1>14. CASE Close
  BY <1>14, ConnOfType, Zenon
     DEF DoneInv, Close, CloseAll, connVars, reqVars, downVars, ConnTypes, DownTypes,
         ClosedDoneChan, SubmitInv
<1>15. CASE ShutdownStopsReading
  BY <1>15, ConnOfType, Zenon
     DEF DoneInv, ShutdownStopsReading, connVars, reqVars, downVars, ConnTypes, DownTypes,
         ClosedDoneChan, SubmitInv
<1>16. CASE ShutdownCloses
  BY <1>16, ConnOfType, Zenon
     DEF DoneInv, ShutdownCloses, CloseAll, connVars, reqVars, downVars, ConnTypes, DownTypes,
         ClosedDoneChan, SubmitInv
<1>17. CASE ShutdownBegins
  BY <1>17, ConnOfType, Zenon
     DEF DoneInv, ShutdownBegins, connVars, reqVars, downVars, ConnTypes, DownTypes,
         ClosedDoneChan, SubmitInv
<1>18. CASE ShutdownPolls
  BY <1>18, ConnOfType, Zenon
     DEF DoneInv, ShutdownPolls, connVars, reqVars, downVars, ConnTypes, DownTypes,
         ClosedDoneChan, SubmitInv
<1>19. ASSUME NEW c \in Conns, ServeStep(c) PROVE DoneInv'
  BY <1>19, <1>1, <1>4, <1>5, <1>6, <1>7, <1>8, <1>9, Zenon DEF ServeStep,
     connVars, reqVars, downVars
<1>20. ASSUME NEW r \in Requests, RequestStep(r) PROVE DoneInv'
  BY <1>20, <1>1, <1>13, <1>21, Zenon DEF RequestStep, StartRequest, HandleRequest,
     CallService, ServiceReturns, SendResponse, AsyncWrites, connVars,
     reqVars, downVars
<1> QED
  BY <1>1, <1>2, <1>3, <1>10, <1>11, <1>12, <1>14, <1>17, <1>15, <1>18, <1>16,
     <1>19, <1>20, <1>22, <1>23, Zenon DEF Next, vars, AcceptFails,
     ServeReturns, PoolStopped, connVars, reqVars, downVars

(* A started request keeps its connection until it ends.                   *)
LEMMA DrainKept ==
    ASSUME DrainInv, DownTypes, DoneInv, UNCHANGED <<early, spc, closed, expired>>,
           \A q \in Requests :
              \/ rpc'[q] = rpc[q] /\ outcome'[q] = outcome[q]
              \/ rpc[q] \notin HandledAt \cup {"end"}
              \/ /\ rpc[q] \in HandledAt
                 /\ rpc'[q] \in HandledAt \cup {"end"}
                 /\ outcome'[q] = "broken" => ConnOf(q) \notin connOpen,
           \A c \in Conns : cpc[c] \in Serving \cup {"drain"} => cpc'[c] \in Serving \cup {"drain"}
    PROVE  DrainInv'
<1> SUFFICES ASSUME NEW p \in early, p[2] # "queued", ~closed, ~expired
             PROVE  /\ rpc'[p[1]] \in HandledAt \cup {"end"}
                    /\ spc \in {"closing", "done"} => rpc'[p[1]] = "end"
                    /\ rpc'[p[1]] # "end" => cpc'[ConnOf(p[1])] \in Serving \cup {"drain"}
                    /\ outcome'[p[1]] # "broken"
  BY Zenon DEF DrainInv
<1> DEFINE q == p[1]
<1>1. q \in Requests /\ ConnOf(q) \in Conns
  BY ConnOfType, Zenon DEF DownTypes
<1>2. /\ rpc[q] \in HandledAt \cup {"end"}
      /\ spc \in {"closing", "done"} => rpc[q] = "end"
      /\ rpc[q] # "end" => cpc[ConnOf(q)] \in Serving \cup {"drain"}
      /\ outcome[q] # "broken"
  BY Zenon DEF DrainInv
<1>3. CASE rpc'[q] = rpc[q] /\ outcome'[q] = outcome[q]
  BY <1>1, <1>2, <1>3, Zenon
<1>4. CASE /\ rpc[q] \in HandledAt
           /\ rpc'[q] \in HandledAt \cup {"end"}
           /\ outcome'[q] = "broken" => ConnOf(q) \notin connOpen
  <2>1. rpc[q] # "end" /\ spc # "done" /\ spc # "closing"
    BY <1>2, <1>4, Zenon DEF HandledAt
  <2>2. cpc[ConnOf(q)] \in Serving \cup {"drain"} /\ ConnOf(q) \in connOpen
    BY <1>1, <1>2, <2>1, Zenon DEF DoneInv, Serving
  <2> QED
    BY <1>1, <1>4, <2>1, <2>2, Zenon
<1> QED
  BY <1>1, <1>2, <1>3, <1>4, Zenon

LEMMA DrainStep == ~AsyncWrite /\ IInv /\ [Next]_vars => DrainInv'
<1> SUFFICES ASSUME ~AsyncWrite, IInv, [Next]_vars PROVE DrainInv'
  OBVIOUS
<1> USE DEF IInv
<1>1. CASE UNCHANGED <<rpc, outcome, cpc, spc, closed, expired, early>>
  BY <1>1, Zenon DEF DrainInv
<1>2. ASSUME NEW c \in Conns, Accept(c) PROVE DrainInv'
  BY <1>2, ConnOfType, Zenon
     DEF DrainInv, Accept, connVars, reqVars, downVars, ConnTypes, RequestTypes, DownTypes,
         DoneInv, OutcomeInv, HandledAt, Serving
<1>3. ASSUME NEW c \in Conns, PostConnAccept(c) PROVE DrainInv'
  BY <1>3, ConnOfType DEF DrainInv, PostConnAccept, connVars, reqVars,
     downVars, ConnTypes, RequestTypes, DownTypes, DoneInv, OutcomeInv,
     HandledAt, Serving
<1>4. ASSUME NEW c \in Conns, ServeConn(c) PROVE DrainInv'
  BY <1>4, ConnOfType DEF DrainInv, ServeConn, connVars, reqVars, downVars,
     ConnTypes, RequestTypes, DownTypes, DoneInv, OutcomeInv, HandledAt, Serving
<1>5. ASSUME NEW c \in Conns, ServeLoop(c) PROVE DrainInv'
  BY <1>5, ConnOfType DEF DrainInv, ServeLoop, connVars, reqVars, downVars,
     ConnTypes, RequestTypes, DownTypes, DoneInv, OutcomeInv, HandledAt, Serving
<1>6. ASSUME NEW c \in Conns, ServeExit(c) PROVE DrainInv'
  BY <1>6, ConnOfType, Zenon
     DEF DrainInv, ServeExit, connVars, reqVars, downVars, ConnTypes, RequestTypes, DownTypes,
         DoneInv, OutcomeInv, HandledAt, Serving
<1>7. ASSUME NEW c \in Conns, ServeDrained(c) PROVE DrainInv'
  BY <1>7, ConnOfType, Zenon
     DEF DrainInv, ServeDrained, connVars, reqVars, downVars, ConnTypes, RequestTypes, DownTypes,
         DoneInv, OutcomeInv, HandledAt, Serving
<1>8. ASSUME NEW c \in Conns, CloseConn(c) PROVE DrainInv'
  BY <1>8, ConnOfType, Zenon
     DEF DrainInv, CloseConn, connVars, reqVars, downVars, ConnTypes, RequestTypes, DownTypes,
         DoneInv, OutcomeInv, HandledAt, Serving
<1>9. ASSUME NEW c \in Conns, CloseConnNotify(c) PROVE DrainInv'
  BY <1>9, ConnOfType DEF DrainInv, CloseConnNotify, connVars, reqVars,
     downVars, ConnTypes, RequestTypes, DownTypes, DoneInv, OutcomeInv,
     HandledAt, Serving
<1>10. ASSUME NEW c \in Conns, ReadFails(c) PROVE DrainInv'
  BY <1>10, ConnOfType, ZenonT(40)
     DEF DrainInv, ReadFails, connVars, reqVars, downVars, ConnTypes, RequestTypes, DownTypes,
         DoneInv, OutcomeInv, HandledAt, Serving
<1>11. ASSUME NEW c \in Conns, NEW r \in Requests, RejectRequest(c, r) PROVE DrainInv'
  BY <1>11, ConnOfType DEF DrainInv, RejectRequest, Reads, connVars, reqVars,
     downVars, ConnTypes, RequestTypes, DownTypes, DoneInv, OutcomeInv,
     HandledAt, Serving
<1>12. ASSUME NEW c \in Conns, NEW r \in Requests, ReadRequest(c, r) PROVE DrainInv'
  <2>1. UNCHANGED <<early, spc, closed, expired>>
    BY <1>12, Zenon DEF ReadRequest, downVars
  <2>2. rpc[r] = "none" /\ \A q \in Requests \ {r} : rpc'[q] = rpc[q] /\ outcome'[q] = outcome[q]
    BY <1>12, Zenon DEF ReadRequest, Reads, RequestTypes
  <2>3. \A d \in Conns : cpc[d] \in Serving \cup {"drain"} => cpc'[d] \in Serving \cup {"drain"}
    BY <1>12, Zenon DEF ReadRequest, ConnTypes, Serving
  <2>4. \A q \in Requests : \/ rpc'[q] = rpc[q] /\ outcome'[q] = outcome[q]
                           \/ rpc[q] \notin HandledAt \cup {"end"}
    BY <2>2, Zenon DEF HandledAt
  <2> QED
    BY <2>1, <2>3, <2>4, DrainKept, Zenon
<1>13. ASSUME NEW r \in Requests, Submit(r) PROVE DrainInv'
  <2>1. UNCHANGED <<early, spc, closed, expired>>
    BY <1>13, SubmitMoves, Zenon DEF downVars
  <2>2. \A q \in Requests : q # r => rpc'[q] = rpc[q] /\ outcome'[q] = outcome[q]
    BY <1>13, SubmitMoves, Zenon DEF RequestTypes
  <2>3. rpc[r] \notin HandledAt \cup {"end"}
    BY <1>13, SubmitMoves, Zenon DEF HandledAt, OutcomeInv
  <2>4. \A c \in Conns : cpc[c] \in Serving \cup {"drain"} => cpc'[c] \in Serving \cup {"drain"}
    BY <1>13, SubmitMoves, Zenon DEF ConnTypes, Serving, connVars
  <2> QED
    BY <2>1, <2>2, <2>3, <2>4, DrainKept, Zenon
<1>14. CASE Close
  BY <1>14, ConnOfType, Zenon
     DEF DrainInv, Close, CloseAll, connVars, reqVars, downVars, ConnTypes, RequestTypes,
         DownTypes, DoneInv, OutcomeInv, HandledAt, Serving
<1>15. CASE ShutdownStopsReading
  BY <1>15, ConnOfType, Zenon
     DEF DrainInv, ShutdownStopsReading, connVars, reqVars, downVars, ConnTypes, RequestTypes,
         DownTypes, DoneInv, OutcomeInv, HandledAt, Serving
<1>16. CASE ShutdownCloses
  BY <1>16, ConnOfType, Zenon
     DEF DrainInv, ShutdownCloses, CloseAll, connVars, reqVars, downVars, ConnTypes,
         RequestTypes, DownTypes, DoneInv, OutcomeInv, HandledAt, Serving
<1>17. ASSUME NEW r \in Requests, StartRequest(r) PROVE DrainInv'
  BY <1>17, ConnOfType, Zenon
     DEF DrainInv, StartRequest, connVars, reqVars, downVars, ConnTypes, RequestTypes, DownTypes,
         DoneInv, OutcomeInv, HandledAt, Serving
<1>18. ASSUME NEW r \in Requests, HandleRequest(r) PROVE DrainInv'
  BY <1>18, ConnOfType DEF DrainInv, HandleRequest, connVars, reqVars,
     downVars, ConnTypes, RequestTypes, DownTypes, DoneInv, OutcomeInv,
     HandledAt, Serving
<1>19. ASSUME NEW r \in Requests, CallService(r) PROVE DrainInv'
  BY <1>19, ConnOfType, Zenon
     DEF DrainInv, CallService, connVars, reqVars, downVars, ConnTypes, RequestTypes, DownTypes,
         DoneInv, OutcomeInv, HandledAt, Serving
<1>20. ASSUME NEW r \in Requests, ServiceReturns(r) PROVE DrainInv'
  BY <1>20, ConnOfType DEF DrainInv, ServiceReturns, connVars, reqVars,
     downVars, ConnTypes, RequestTypes, DownTypes, DoneInv, OutcomeInv,
     HandledAt, Serving
<1>21. ASSUME NEW r \in Requests, SendResponse(r) PROVE DrainInv'
  <2>1. UNCHANGED <<early, spc, closed, expired>>
    BY <1>21, SendResponseMoves, Zenon DEF downVars
  <2>2. \A q \in Requests : q # r => rpc'[q] = rpc[q] /\ outcome'[q] = outcome[q]
    BY <1>21, SendResponseMoves, Zenon DEF RequestTypes
  <2>3. \/ rpc[r] \notin HandledAt \cup {"end"}
        \/ /\ rpc[r] \in HandledAt
           /\ rpc'[r] \in HandledAt \cup {"end"}
           /\ outcome'[r] = "broken" => ConnOf(r) \notin connOpen
    BY <1>21, SendResponseMoves, Zenon DEF HandledAt, RequestTypes, OutcomeInv
  <2>4. \A c \in Conns : cpc[c] \in Serving \cup {"drain"} => cpc'[c] \in Serving \cup {"drain"}
    BY <1>21, SendResponseMoves, Zenon DEF ConnTypes, Serving, connVars
  <2> QED
    BY <2>1, <2>2, <2>3, <2>4, DrainKept, Zenon
<1>29. ASSUME NEW r \in Requests, SendError(r) PROVE DrainInv'
  <2>1. UNCHANGED <<early, spc, closed, expired>>
    BY <1>29, SendErrorMoves, Zenon DEF downVars
  <2>2. \A q \in Requests : q # r => rpc'[q] = rpc[q] /\ outcome'[q] = outcome[q]
    BY <1>29, SendErrorMoves, Zenon DEF RequestTypes
  <2>3. rpc[r] \notin HandledAt \cup {"end"}
    BY <1>29, SendErrorMoves, Zenon DEF HandledAt
  <2>4. \A c \in Conns : cpc[c] \in Serving \cup {"drain"} => cpc'[c] \in Serving \cup {"drain"}
    BY <1>29, SendErrorMoves, Zenon DEF ConnTypes, Serving, connVars
  <2> QED
    BY <2>1, <2>2, <2>3, <2>4, DrainKept, Zenon
<1>30. ASSUME NEW r \in Requests, WriteReturns(r) PROVE DrainInv'
  <2>1. UNCHANGED <<early, spc, closed, expired>>
    BY <1>30, WriteReturnsMoves, Zenon DEF downVars
  <2>2. \A q \in Requests : q # r => rpc'[q] = rpc[q] /\ outcome'[q] = outcome[q]
    BY <1>30, WriteReturnsMoves, Zenon DEF RequestTypes
  <2>3. \/ rpc[r] \notin HandledAt \cup {"end"}
        \/ /\ rpc[r] \in HandledAt
           /\ rpc'[r] \in HandledAt \cup {"end"}
           /\ outcome'[r] = "broken" => ConnOf(r) \notin connOpen
    BY <1>30, WriteReturnsMoves, Zenon DEF HandledAt, RequestTypes, OutcomeInv
  <2>4. \A c \in Conns : cpc[c] \in Serving \cup {"drain"} => cpc'[c] \in Serving \cup {"drain"}
    BY <1>30, WriteReturnsMoves, Zenon DEF ConnTypes, Serving, connVars
  <2> QED
    BY <2>1, <2>2, <2>3, <2>4, DrainKept, Zenon
<1>22. ASSUME NEW r \in Requests, AsyncWrites(r) PROVE DrainInv'
  BY <1>22, ConnOfType DEF DrainInv, AsyncWrites, connVars, reqVars, downVars,
     ConnTypes, RequestTypes, DownTypes, DoneInv, OutcomeInv, HandledAt, Serving
<1>23. ASSUME NEW r \in Requests, RequestPanics(r) PROVE DrainInv'
  BY <1>23, ConnOfType DEF DrainInv, RequestPanics, connVars, reqVars,
     downVars, ConnTypes, RequestTypes, DownTypes, DoneInv, OutcomeInv,
     HandledAt, Serving
<1>24. CASE PoolStopped
  BY <1>24, ConnOfType, Zenon
     DEF DrainInv, PoolStopped, connVars, reqVars, downVars, ConnTypes, RequestTypes, DownTypes,
         DoneInv, OutcomeInv, HandledAt, Serving
<1>25. CASE ShutdownBegins
  BY <1>25, ConnOfType DEF DrainInv, ShutdownBegins, connVars, reqVars,
     downVars, ConnTypes, RequestTypes, DownTypes, DoneInv, OutcomeInv,
     HandledAt, Serving
<1>26. CASE ShutdownPolls
  <2>1. CheckProcessMsg => InProgress = {}
    BY FiniteProgress, FS_EmptySet, Zenon DEF CheckProcessMsg, CountsInProgress
  <2>2. CheckProcessMsg => \A p \in early : rpc[p[1]] \notin HandledAt
    BY <2>1, Zenon DEF InProgress, DownTypes
  <2> QED
    BY <1>26, <2>2 DEF DrainInv, ShutdownPolls, connVars, reqVars
<1>27. ASSUME NEW c \in Conns, ServeStep(c) PROVE DrainInv'
  BY <1>27, <1>1, <1>4, <1>5, <1>6, <1>7, <1>8, <1>9, Zenon DEF ServeStep,
     connVars, reqVars, downVars
<1>28. ASSUME NEW r \in Requests, RequestStep(r) PROVE DrainInv'
  BY <1>28, <1>1, <1>13, <1>17, <1>18, <1>19, <1>20, <1>21, <1>22, <1>29, Zenon DEF
     RequestStep, connVars, reqVars, downVars
<1> QED
  BY <1>1, <1>2, <1>3, <1>10, <1>11, <1>12, <1>23, <1>14, <1>24, <1>25, <1>15,
     <1>26, <1>16, <1>27, <1>28, <1>30, Zenon DEF Next, vars, AcceptFails,
     ServeReturns, connVars, reqVars, downVars

(* The invariant is preserved by every step.                               *)
LEMMA StepIInv == IInv /\ [Next]_vars => IInv'
BY ConnTypesStep, CountsStep, RequestTypesStep, DownTypesStep, LockStep, OutcomeStep, SubmitStep, DoneStep, DrainStep, Zenon
   DEF IInv

(* IInv holds in every reachable state of the server.                      *)
THEOREM Invariance == Spec => []IInv
BY InitIInv, StepIInv, PTL DEF Spec

(* checkProcessMsg reads the number of requests that are being handled.    *)
THEOREM CountIsExact == Spec => []CountsInProgress
<1>1. IInv => CountsInProgress
  BY Zenon DEF IInv
<1> QED
  BY <1>1, Invariance, PTL

(* Shutdown interrupts no request that had started when it began, unless   *)
(* its context expires, Close is called or writes are asynchronous.        *)
THEOREM StartedAreAnswered == Spec => []GracefulForStarted
<1>1. IInv => GracefulForStarted
  BY Zenon DEF IInv, GracefulForStarted, DrainInv, Interrupted
<1> QED
  BY <1>1, Invariance, PTL

(* LogicSync methods of one user, or of one connection without a user, are *)
(* never executed together, whatever the size of the lock pool and the     *)
(* hash.                                                                   *)
THEOREM LogicSyncExcludes == Spec => []LogicSyncExclusive
<1>1. IInv => LogicSyncExclusive
  BY SameLock, LogicSyncType, Zenon DEF IInv, LogicSyncExclusive, LockInv
<1> QED
  BY <1>1, Invariance, PTL
=============================================================================

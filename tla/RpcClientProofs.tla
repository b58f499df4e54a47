--------------------------- MODULE RpcClientProofs ---------------------------
(***************************************************************************)
(* Proofs about RpcClient, for any number of callers, raw callers and      *)
(* asynchronous calls. The inductive invariant is IInv; every lemma        *)
(* <Part>Step shows that a step of the client preserves one part of it.    *)
(***************************************************************************)
EXTENDS RpcClient, TLAPS

(* The members of Calls and Seqs that the actions mention.                 *)
LEMMA Domains ==
    /\ Callers \subseteq Calls /\ Asyncs \subseteq Calls /\ Raws \subseteq Calls
    /\ Heartbeats \subseteq Callers
    /\ Nil \notin Calls /\ Nil \notin Seqs
    /\ 0 \in Seqs /\ 0 .. MaxSeq - 1 \subseteq Seqs
    /\ MaxSeq \in Nat \ {0}
    /\ \A r \in Raws : RawSeq[r] \in Seqs /\ RawSeq[r] \in Nat /\ RawSeq[r] \notin 0 .. MaxSeq - 1
    /\ \A c \in Callers : CtxOf[c] \in Contexts
BY CallsAssumption, SeqAssumption DEF Calls, Seqs, Contexts

(* The codes the actions assign.                                           *)
LEMMA Codes ==
    /\ "nil" \in ErrorCodes /\ "ctx" \in ErrorCodes /\ "shutdown" \in ErrorCodes
    /\ "codec" \in ErrorCodes /\ "encode" \in ErrorCodes /\ "write" \in ErrorCodes
    /\ "decode" \in ErrorCodes /\ "panic" \in ErrorCodes /\ "server" \in ErrorCodes
    /\ "eof" \in ErrorCodes /\ "net" \in ErrorCodes
BY Zenon DEF ErrorCodes

(* The initial state satisfies the invariant.                              *)
LEMMA InitIInv == Init => IInv
<1> SUFFICES ASSUME Init PROVE IInv
  OBVIOUS
<1>1. TypeOK
  <2>1. SendTypes
    BY Domains DEF Init, SendTypes
  <2>2. CallTypes
    BY Codes, Zenon DEF Init, CallTypes
  <2>3. ConnTypes
    BY Codes, Zenon DEF Init, ConnTypes
  <2> QED
    BY <2>1, <2>2, <2>3, Zenon DEF TypeOK
<1>2. NumberInv /\ PendingInv /\ RequestInv
  BY Domains, Zenon DEF Init, NumberInv, PendingInv, RequestInv
<1>3. ConnInv
  BY Zenon DEF Init, ConnInv
<1>4. DoneInv /\ ReplyInv
  BY Domains DEF Init, DoneInv, ReplyInv, Pended
<1>5. CellInv
  BY Domains, Zenon DEF Init, CellInv, Stored
<1> QED
  BY <1>1, <1>2, <1>3, <1>4, <1>5, Zenon DEF IInv

(* The numbers a call is about to be registered under are free: client.seq *)
(* is above every number in use, and the users of SendRaw keep theirs      *)
(* apart.                                                                  *)
LEMMA FreshNumbers ==
    ASSUME IInv
    PROVE  /\ seq < MaxSeq => /\ seq \in Seqs
                              /\ pending[seq] = Nil
                              /\ \A d \in Calls : mySeq[d] # seq
           /\ \A c \in Raws : cpc[c] = "idle" => /\ pending[RawSeq[c]] = Nil
                                                /\ \A d \in Calls : mySeq[d] # RawSeq[c]
<1> USE Domains, SeqAssumption DEF IInv, TypeOK, SendTypes
<1>1. seq < MaxSeq => seq \in Seqs /\ \A d \in Calls : mySeq[d] # seq
  BY DEF NumberInv, Calls
<1>2. ASSUME NEW c \in Raws, cpc[c] = "idle" PROVE \A d \in Calls : mySeq[d] # RawSeq[c]
  BY <1>2 DEF NumberInv, Calls
<1>3. \A s \in Seqs : (\A d \in Calls : mySeq[d] # s) => pending[s] = Nil
  BY Zenon DEF PendingInv
<1> QED
  BY <1>1, <1>2, <1>3, Zenon

(* The seq cells when Client.call publishes a new one in its context.      *)
LEMMA StartCallCell == ASSUME IInv, NEW c \in Callers, StartCall(c) PROVE CellInv'
<1> USE Domains DEF IInv, TypeOK, SendTypes
<1>1. slot' = [slot EXCEPT ![CtxOf[c]] = c] /\ cseq' = cseq /\ mySeq' = mySeq
  BY Zenon DEF StartCall
<1>2. \A d \in Callers : d # c => spc'[d] = spc[d]
  BY Zenon DEF StartCall
<1>3. mySeq[c] = Nil
  BY Zenon DEF StartCall, NumberInv
<1>4. \A d \in Callers : d # c /\ Private(d) => slot'[CtxOf[d]] = slot[CtxOf[d]]
  BY <1>1, Zenon DEF Private
<1>5. \A x \in Contexts : slot'[x] # Nil => CtxOf[slot'[x]] = x
  BY <1>1, Zenon DEF CellInv
<1>6. slot'[CtxOf[c]] = c
  BY <1>1, Zenon
<1> QED
  BY <1>1, <1>2, <1>3, <1>4, <1>5, <1>6, Zenon DEF CellInv, Stored

(* Every step keeps the types of the client's map, numbers and cells.      *)
LEMMA SendTypesStep == IInv /\ [Next]_vars => SendTypes'
<1> SUFFICES ASSUME IInv, [Next]_vars PROVE SendTypes'
  OBVIOUS
<1> USE Domains DEF IInv, TypeOK
<1>1. CASE UNCHANGED <<seq, pending, requests, slot, cseq, mySeq, spc>>
  BY <1>1, Zenon DEF SendTypes
<1>2. ASSUME NEW c \in Calls, Call(c) PROVE SendTypes'
  BY <1>2, Zenon
     DEF SendTypes, Call, StartCall, sendVars, callVars, doneVars, connVars, inputVars,
         CallTypes, NumberInv, LookupSeq
<1>3. ASSUME NEW c \in Calls, Go(c) PROVE SendTypes'
  BY <1>3, Zenon
     DEF SendTypes, Go, sendVars, callVars, doneVars, connVars, inputVars, CallTypes, NumberInv,
         LookupSeq
<1>4. ASSUME NEW c \in Calls, SendRaw(c) PROVE SendTypes'
  BY <1>4, Zenon
     DEF SendTypes, SendRaw, sendVars, callVars, doneVars, connVars, inputVars, CallTypes,
         NumberInv, LookupSeq
<1>5. ASSUME NEW c \in Calls, Cancel(c) PROVE SendTypes'
  BY <1>5, Zenon
     DEF SendTypes, Cancel, TakeAndFinish, Finish, sendVars, callVars, doneVars, connVars,
         inputVars, CallTypes, NumberInv, LookupSeq
<1>6. ASSUME NEW c \in Calls, SendRefused(c) PROVE SendTypes'
  BY <1>6, Zenon
     DEF SendTypes, SendRefused, Finish, sendVars, callVars, doneVars, connVars, inputVars,
         CallTypes, NumberInv, LookupSeq
<1>7. ASSUME NEW c \in Calls, SendRegister(c) PROVE SendTypes'
  BY <1>7 DEF SendTypes, SendRegister, NextSeq, sendVars, callVars, doneVars,
     connVars, inputVars, CallTypes, NumberInv, LookupSeq
<1>8. ASSUME NEW c \in Calls, SendStore(c) PROVE SendTypes'
  <2>1. mySeq[c] \in Seqs
    BY <1>8 DEF SendStore, SendTypes, NumberInv
  <2>2. cseq' \in [Callers -> Seqs]
    BY <1>8, <2>1, Zenon DEF SendStore, SendTypes
  <2> QED
    BY <1>8, <2>2, Zenon DEF SendTypes, SendStore
<1>9. ASSUME NEW c \in Calls, SendEncode(c) PROVE SendTypes'
  BY <1>9, Zenon
     DEF SendTypes, SendEncode, sendVars, callVars, doneVars, connVars, inputVars, CallTypes,
         NumberInv, LookupSeq
<1>10. ASSUME NEW c \in Calls, SendEncodeFails(c) PROVE SendTypes'
  BY <1>10, Zenon
     DEF SendTypes, SendEncodeFails, Finish, sendVars, callVars, doneVars, connVars, inputVars,
         CallTypes, NumberInv, LookupSeq
<1>11. ASSUME NEW c \in Calls, SendWrite(c) PROVE SendTypes'
  BY <1>11 DEF SendTypes, SendWrite, sendVars, callVars, doneVars, connVars,
     inputVars, CallTypes, NumberInv, LookupSeq
<1>12. ASSUME NEW c \in Calls, SendWriteFails(c) PROVE SendTypes'
  BY <1>12, Zenon
     DEF SendTypes, SendWriteFails, TakeAndFinish, Finish, sendVars, callVars, doneVars,
         connVars, inputVars, CallTypes, NumberInv, LookupSeq
<1>13. ASSUME NEW c \in Calls, SendOneway(c) PROVE SendTypes'
  BY <1>13, Zenon
     DEF SendTypes, SendOneway, TakeAndDone, sendVars, callVars, doneVars, connVars, inputVars,
         CallTypes, NumberInv, LookupSeq
<1>14. ASSUME NEW c \in Calls, HeartbeatTick(c) PROVE SendTypes'
  BY <1>14, Zenon
     DEF SendTypes, HeartbeatTick, StartCall, sendVars, callVars, doneVars, connVars, inputVars,
         CallTypes, NumberInv, LookupSeq
<1>15. ASSUME NEW c \in Calls, HeartbeatCheck(c) PROVE SendTypes'
  BY <1>15 DEF SendTypes, HeartbeatCheck, CloseBody, Finish, ClosedPending,
     ClosedConn, sendVars, callVars, doneVars, connVars, inputVars, CallTypes,
     NumberInv, LookupSeq
<1>16. ASSUME NEW m \in requests, NEW e \in ErrorCodes, HandleResponse(m, e)
      PROVE  SendTypes'
  BY <1>16, Zenon
     DEF SendTypes, HandleResponse, Finish, sendVars, callVars, doneVars, connVars, inputVars,
         CallTypes, NumberInv, LookupSeq
<1>17. ASSUME NEW m \in requests, HandleResponsePanics(m) PROVE SendTypes'
  BY <1>17, Zenon
     DEF SendTypes, HandleResponsePanics, sendVars, callVars, doneVars, connVars, inputVars,
         CallTypes, NumberInv, LookupSeq
<1>18. CASE Close
  BY <1>18, Zenon
     DEF SendTypes, Close, CloseBody, Finish, ClosedPending, ClosedConn, sendVars, callVars,
         doneVars, connVars, inputVars, CallTypes, NumberInv, LookupSeq
<1>19. ASSUME NEW c \in Calls, SendStep(c) PROVE SendTypes'
  BY <1>19, <1>1, <1>6, <1>7, <1>8, <1>9, <1>10, <1>11, <1>12, <1>13, Zenon DEF
     SendStep, sendVars, callVars, doneVars, connVars, inputVars
<1> QED
  BY <1>1, <1>2, <1>3, <1>4, <1>5, <1>14, <1>15, <1>16, <1>17, <1>18, <1>19,
     Zenon DEF Next, vars, ContextDone, Return, ReadFails, InputTerminate,
     Finish, TerminatedCalls, sendVars, callVars, doneVars, connVars, inputVars


(* Every step keeps the types of the calls' own fields.                    *)
LEMMA CallTypesStep == IInv /\ [Next]_vars => CallTypes'
<1> SUFFICES ASSUME IInv, [Next]_vars PROVE CallTypes'
  OBVIOUS
<1> USE Domains DEF IInv, TypeOK
<1>1. CASE UNCHANGED <<cpc, ctxDone, result, err, dones, reply>>
  BY <1>1, Zenon DEF CallTypes
<1>2. ASSUME NEW c \in Calls, Call(c) PROVE CallTypes'
  BY <1>2, Codes, Zenon
     DEF CallTypes, Call, StartCall, sendVars, callVars, doneVars, connVars, inputVars,
         SendTypes, ConnTypes
<1>3. ASSUME NEW c \in Calls, Go(c) PROVE CallTypes'
  BY <1>3, Codes, Zenon
     DEF CallTypes, Go, sendVars, callVars, doneVars, connVars, inputVars, SendTypes, ConnTypes
<1>4. ASSUME NEW c \in Calls, SendRaw(c) PROVE CallTypes'
  BY <1>4, Codes, Zenon
     DEF CallTypes, SendRaw, sendVars, callVars, doneVars, connVars, inputVars, SendTypes, ConnTypes
<1>5. ASSUME NEW c \in Calls, ContextDone(c) PROVE CallTypes'
  BY <1>5, Codes, Zenon
     DEF CallTypes, ContextDone, sendVars, callVars, doneVars, connVars, inputVars, SendTypes,
         ConnTypes
<1>6. ASSUME NEW c \in Calls, Cancel(c) PROVE CallTypes'
  BY <1>6, Codes DEF CallTypes, Cancel, TakeAndFinish, Finish, sendVars,
     callVars, doneVars, connVars, inputVars, SendTypes, ConnTypes
<1>7. ASSUME NEW c \in Calls, Return(c) PROVE CallTypes'
  BY <1>7, Codes, Zenon
     DEF CallTypes, Return, sendVars, callVars, doneVars, connVars, inputVars, SendTypes, ConnTypes
<1>8. ASSUME NEW c \in Calls, SendRefused(c) PROVE CallTypes'
  BY <1>8, Codes DEF CallTypes, SendRefused, Finish, sendVars, callVars,
     doneVars, connVars, inputVars, SendTypes, ConnTypes
<1>9. ASSUME NEW c \in Calls, SendEncodeFails(c) PROVE CallTypes'
  BY <1>9, Codes DEF CallTypes, SendEncodeFails, Finish, sendVars, callVars,
     doneVars, connVars, inputVars, SendTypes, ConnTypes
<1>10. ASSUME NEW c \in Calls, SendWrite(c) PROVE CallTypes'
  BY <1>10, Codes, Zenon
     DEF CallTypes, SendWrite, sendVars, callVars, doneVars, connVars, inputVars, SendTypes,
         ConnTypes
<1>11. ASSUME NEW c \in Calls, SendWriteFails(c) PROVE CallTypes'
  BY <1>11, Codes DEF CallTypes, SendWriteFails, TakeAndFinish, Finish,
     sendVars, callVars, doneVars, connVars, inputVars, SendTypes, ConnTypes
<1>12. ASSUME NEW c \in Calls, SendOneway(c) PROVE CallTypes'
  BY <1>12, Codes DEF CallTypes, SendOneway, TakeAndDone, sendVars, callVars,
     doneVars, connVars, inputVars, SendTypes, ConnTypes
<1>13. ASSUME NEW c \in Calls, HeartbeatTick(c) PROVE CallTypes'
  BY <1>13, Codes, Zenon
     DEF CallTypes, HeartbeatTick, StartCall, sendVars, callVars, doneVars, connVars, inputVars,
         SendTypes, ConnTypes
<1>14. ASSUME NEW c \in Calls, HeartbeatCheck(c) PROVE CallTypes'
  BY <1>14, Codes DEF CallTypes, HeartbeatCheck, CloseBody, Finish,
     ClosedPending, ClosedConn, sendVars, callVars, doneVars, connVars,
     inputVars, SendTypes, ConnTypes
<1>15. ASSUME NEW m \in requests, NEW e \in ErrorCodes, HandleResponse(m, e)
      PROVE  CallTypes'
  BY <1>15, Codes DEF CallTypes, HandleResponse, Finish, sendVars, callVars,
     doneVars, connVars, inputVars, SendTypes, ConnTypes
<1>16. CASE InputTerminate
  BY <1>16, Codes DEF CallTypes, InputTerminate, Finish, TerminatedCalls,
     sendVars, callVars, doneVars, connVars, inputVars, SendTypes, ConnTypes
<1>17. CASE Close
  BY <1>17, Codes DEF CallTypes, Close, CloseBody, Finish, ClosedPending,
     ClosedConn, sendVars, callVars, doneVars, connVars, inputVars, SendTypes,
     ConnTypes
<1>18. ASSUME NEW c \in Calls, SendStep(c) PROVE CallTypes'
  BY <1>18, <1>1, <1>8, <1>9, <1>10, <1>11, <1>12, Zenon DEF SendStep,
     SendRegister, NextSeq, SendStore, SendEncode, sendVars, callVars,
     doneVars, connVars, inputVars
<1> QED
  BY <1>1, <1>2, <1>3, <1>4, <1>5, <1>6, <1>7, <1>13, <1>14, <1>15, <1>16,
     <1>17, <1>18, Zenon DEF Next, vars, HandleResponsePanics, ReadFails,
     sendVars, callVars, doneVars, connVars, inputVars


(* Every step keeps the types of the connection's flags.                   *)
LEMMA ConnTypesStep == IInv /\ [Next]_vars => ConnTypes'
<1> SUFFICES ASSUME IInv, [Next]_vars PROVE ConnTypes'
  OBVIOUS
<1> USE Domains DEF IInv, TypeOK
<1>1. CASE UNCHANGED <<closing, shutdown, pluginClosed, connOpen, ipc, ierr>>
  BY <1>1, Zenon DEF ConnTypes
<1>2. ASSUME NEW c \in Calls, HeartbeatCheck(c) PROVE ConnTypes'
  BY <1>2, Codes, Zenon DEF ConnTypes, HeartbeatCheck, CloseBody, Finish,
     ClosedPending, ClosedConn, sendVars, callVars, doneVars, connVars,
     inputVars
<1>3. ASSUME NEW m \in requests, NEW e \in ErrorCodes, HandleResponse(m, e)
      PROVE  ConnTypes'
  BY <1>3, Codes, Zenon DEF ConnTypes, HandleResponse, Finish, sendVars, callVars,
     doneVars, connVars, inputVars
<1>4. ASSUME NEW m \in requests, HandleResponsePanics(m) PROVE ConnTypes'
  BY <1>4, Codes, Zenon DEF ConnTypes, HandleResponsePanics, sendVars, callVars,
     doneVars, connVars, inputVars
<1>5. ASSUME NEW e \in ErrorCodes, ReadFails(e) PROVE ConnTypes'
  BY <1>5, Codes, Zenon DEF ConnTypes, ReadFails, sendVars, callVars, doneVars,
     connVars, inputVars
<1>6. CASE InputTerminate
  BY <1>6, Codes, Zenon DEF ConnTypes, InputTerminate, Finish, TerminatedCalls,
     sendVars, callVars, doneVars, connVars, inputVars
<1>7. CASE Close
  BY <1>7, Codes, Zenon DEF ConnTypes, Close, CloseBody, Finish, ClosedPending,
     ClosedConn, sendVars, callVars, doneVars, connVars, inputVars
<1>8. ASSUME NEW c \in Calls, SendStep(c) PROVE ConnTypes'
  BY <1>8, <1>1, Zenon DEF SendStep, SendRefused, Finish, SendRegister,
     NextSeq, SendStore, SendEncode, SendEncodeFails, SendWrite,
     SendWriteFails, TakeAndFinish, SendOneway, TakeAndDone, sendVars,
     callVars, doneVars, connVars, inputVars
<1> QED
  BY <1>1, <1>2, <1>3, <1>4, <1>5, <1>6, <1>7, <1>8, Zenon DEF Next, vars,
     Call, StartCall, Go, SendRaw, ContextDone, Cancel, TakeAndFinish, Finish,
     Return, HeartbeatTick, sendVars, callVars, doneVars, connVars, inputVars


(* Sequence numbers stay unique: send takes client.seq and advances it     *)
(* under the mutex, SendRaw uses a number of its own.                      *)
LEMMA NumberStep == IInv /\ [Next]_vars => NumberInv'
<1> SUFFICES ASSUME IInv, [Next]_vars PROVE NumberInv'
  OBVIOUS
<1> USE Domains DEF IInv, TypeOK
<1>1. CASE UNCHANGED <<seq, mySeq, spc, cpc>>
  BY <1>1, Zenon DEF NumberInv
<1>2. ASSUME NEW c \in Calls, Call(c) PROVE NumberInv'
  BY <1>2, CallsAssumption, SeqAssumption DEF NumberInv, Call, StartCall,
     sendVars, callVars, doneVars, connVars, inputVars, SendTypes, CallTypes
<1>3. ASSUME NEW c \in Calls, Go(c) PROVE NumberInv'
  BY <1>3, CallsAssumption, SeqAssumption DEF NumberInv, Go, sendVars,
     callVars, doneVars, connVars, inputVars, SendTypes, CallTypes
<1>4. ASSUME NEW c \in Calls, SendRaw(c) PROVE NumberInv'
  <2>1. \A d \in Calls \ {c} : mySeq[d] # RawSeq[c]
    BY <1>4, SeqAssumption DEF SendRaw, SendTypes, NumberInv, Calls
  <2> QED
    BY <1>4, <2>1, CallsAssumption, SeqAssumption
    DEF NumberInv, SendRaw, SendTypes, CallTypes
<1>5. ASSUME NEW c \in Calls, Cancel(c) PROVE NumberInv'
  BY <1>5, CallsAssumption, SeqAssumption DEF NumberInv, Cancel, TakeAndFinish,
     Finish, sendVars, callVars, doneVars, connVars, inputVars, SendTypes,
     CallTypes
<1>6. ASSUME NEW c \in Calls, Return(c) PROVE NumberInv'
  BY <1>6, CallsAssumption, SeqAssumption DEF NumberInv, Return, sendVars,
     callVars, doneVars, connVars, inputVars, SendTypes, CallTypes
<1>7. ASSUME NEW c \in Calls, SendRefused(c) PROVE NumberInv'
  BY <1>7, CallsAssumption, SeqAssumption DEF NumberInv, SendRefused, Finish,
     sendVars, callVars, doneVars, connVars, inputVars, SendTypes, CallTypes
<1>8. ASSUME NEW c \in Calls, SendRegister(c) PROVE NumberInv'
  <2>1. seq \in 0 .. MaxSeq - 1 /\ seq \in Seqs /\ c \in Callers \cup Asyncs
    BY <1>8, SeqAssumption DEF SendRegister, SendTypes, NumberInv, Calls
  <2>2. \A d \in Calls : mySeq[d] # seq
    BY <2>1, SeqAssumption DEF SendTypes, NumberInv, Calls
  <2> QED
    BY <1>8, <2>1, <2>2, SeqAssumption
    DEF NumberInv, SendRegister, NextSeq, SendTypes, CallTypes, callVars
<1>9. ASSUME NEW c \in Calls, SendStore(c) PROVE NumberInv'
  BY <1>9, CallsAssumption, SeqAssumption DEF NumberInv, SendStore, sendVars,
     callVars, doneVars, connVars, inputVars, SendTypes, CallTypes
<1>10. ASSUME NEW c \in Calls, SendEncode(c) PROVE NumberInv'
  BY <1>10, CallsAssumption, SeqAssumption DEF NumberInv, SendEncode, sendVars,
     callVars, doneVars, connVars, inputVars, SendTypes, CallTypes
<1>11. ASSUME NEW c \in Calls, SendEncodeFails(c) PROVE NumberInv'
  BY <1>11, CallsAssumption, SeqAssumption DEF NumberInv, SendEncodeFails,
     Finish, sendVars, callVars, doneVars, connVars, inputVars, SendTypes,
     CallTypes
<1>12. ASSUME NEW c \in Calls, SendWrite(c) PROVE NumberInv'
  BY <1>12, CallsAssumption, SeqAssumption DEF NumberInv, SendWrite, sendVars,
     callVars, doneVars, connVars, inputVars, SendTypes, CallTypes
<1>13. ASSUME NEW c \in Calls, SendWriteFails(c) PROVE NumberInv'
  BY <1>13, CallsAssumption, SeqAssumption DEF NumberInv, SendWriteFails,
     TakeAndFinish, Finish, sendVars, callVars, doneVars, connVars, inputVars,
     SendTypes, CallTypes
<1>14. ASSUME NEW c \in Calls, SendOneway(c) PROVE NumberInv'
  BY <1>14, CallsAssumption, SeqAssumption DEF NumberInv, SendOneway,
     TakeAndDone, sendVars, callVars, doneVars, connVars, inputVars, SendTypes,
     CallTypes
<1>15. ASSUME NEW c \in Calls, HeartbeatTick(c) PROVE NumberInv'
  BY <1>15, CallsAssumption, SeqAssumption DEF NumberInv, HeartbeatTick,
     StartCall, sendVars, callVars, doneVars, connVars, inputVars, SendTypes,
     CallTypes
<1>16. ASSUME NEW c \in Calls, HeartbeatCheck(c) PROVE NumberInv'
  BY <1>16, CallsAssumption, SeqAssumption DEF NumberInv, HeartbeatCheck,
     CloseBody, Finish, ClosedPending, ClosedConn, sendVars, callVars,
     doneVars, connVars, inputVars, SendTypes, CallTypes
<1>17. ASSUME NEW c \in Calls, SendStep(c) PROVE NumberInv'
  BY <1>17, <1>1, <1>7, <1>8, <1>9, <1>10, <1>11, <1>12, <1>13, <1>14, Zenon
     DEF SendStep, sendVars, callVars, doneVars, connVars, inputVars
<1> QED
  BY <1>1, <1>2, <1>3, <1>4, <1>5, <1>6, <1>15, <1>16, <1>17, Zenon DEF Next,
     vars, ContextDone, HandleResponse, Finish, HandleResponsePanics,
     ReadFails, InputTerminate, TerminatedCalls, Close, CloseBody,
     ClosedPending, ClosedConn, sendVars, callVars, doneVars, connVars,
     inputVars


(* A call is in `pending' under its own number: only send and SendRaw put  *)
(* calls in.                                                               *)
LEMMA PendingStep == IInv /\ [Next]_vars => PendingInv'
<1> SUFFICES ASSUME IInv, [Next]_vars PROVE PendingInv'
  OBVIOUS
<1> USE Domains DEF IInv, TypeOK
<1>1. CASE UNCHANGED <<pending, mySeq>>
  BY <1>1, Zenon DEF PendingInv
<1>2. ASSUME NEW c \in Calls, SendRaw(c) PROVE PendingInv'
  <2>1. RawSeq[c] \in Seqs /\ pending[RawSeq[c]] = Nil
    BY <1>2, FreshNumbers, Zenon DEF SendRaw
  <2>2. \A s \in Seqs : pending[s] # c
    BY <1>2, <2>1 DEF PendingInv, SendRaw, SendTypes, NumberInv
  <2> QED
    BY <1>2, <2>1, <2>2, Zenon DEF PendingInv, SendRaw, SendTypes
<1>3. ASSUME NEW c \in Calls, Cancel(c) PROVE PendingInv'
  BY <1>3, Zenon
     DEF PendingInv, Cancel, TakeAndFinish, Finish, sendVars, callVars, doneVars, connVars,
         inputVars, SendTypes, NumberInv, RequestInv
<1>4. ASSUME NEW c \in Calls, SendRegister(c) PROVE PendingInv'
  BY <1>4 DEF PendingInv, SendRegister, NextSeq, sendVars, callVars, doneVars,
     connVars, inputVars, SendTypes, NumberInv, RequestInv
<1>5. ASSUME NEW c \in Calls, SendEncodeFails(c) PROVE PendingInv'
  BY <1>5 DEF PendingInv, SendEncodeFails, Finish, sendVars, callVars,
     doneVars, connVars, inputVars, SendTypes, NumberInv, RequestInv
<1>6. ASSUME NEW c \in Calls, SendWriteFails(c) PROVE PendingInv'
  BY <1>6, Zenon
     DEF PendingInv, SendWriteFails, TakeAndFinish, Finish, sendVars, callVars, doneVars,
         connVars, inputVars, SendTypes, NumberInv, RequestInv
<1>7. ASSUME NEW c \in Calls, SendOneway(c) PROVE PendingInv'
  BY <1>7 DEF PendingInv, SendOneway, TakeAndDone, sendVars, callVars,
     doneVars, connVars, inputVars, SendTypes, NumberInv, RequestInv
<1>8. ASSUME NEW c \in Calls, HeartbeatCheck(c) PROVE PendingInv'
  BY <1>8 DEF PendingInv, HeartbeatCheck, CloseBody, Finish, ClosedPending,
     ClosedConn, sendVars, callVars, doneVars, connVars, inputVars, SendTypes,
     NumberInv, RequestInv
<1>9. ASSUME NEW m \in requests, NEW e \in ErrorCodes, HandleResponse(m, e)
      PROVE  PendingInv'
  BY <1>9, ZenonT(40)
     DEF PendingInv, HandleResponse, Finish, sendVars, callVars, doneVars, connVars, inputVars,
         SendTypes, NumberInv, RequestInv
<1>10. ASSUME NEW m \in requests, HandleResponsePanics(m) PROVE PendingInv'
  BY <1>10, Zenon
     DEF PendingInv, HandleResponsePanics, sendVars, callVars, doneVars, connVars, inputVars,
         SendTypes, NumberInv, RequestInv
<1>11. CASE Close
  BY <1>11, Zenon
     DEF PendingInv, Close, CloseBody, Finish, ClosedPending, ClosedConn, sendVars, callVars,
         doneVars, connVars, inputVars, SendTypes, NumberInv, RequestInv
<1>12. ASSUME NEW c \in Calls, SendStep(c) PROVE PendingInv'
  BY <1>12, <1>1, <1>4, <1>5, <1>6, <1>7, Zenon DEF SendStep, SendRefused,
     Finish, SendStore, SendEncode, SendWrite, sendVars, callVars, doneVars,
     connVars, inputVars
<1> QED
  BY <1>1, <1>2, <1>3, <1>8, <1>9, <1>10, <1>11, <1>12, Zenon DEF Next, vars,
     Call, StartCall, Go, ContextDone, Return, HeartbeatTick, ReadFails,
     InputTerminate, Finish, TerminatedCalls, sendVars, callVars, doneVars,
     connVars, inputVars


(* What is written to the connection carries the call's own number.        *)
LEMMA RequestStep == IInv /\ [Next]_vars => RequestInv'
<1> SUFFICES ASSUME IInv, [Next]_vars PROVE RequestInv'
  OBVIOUS
<1> USE Domains DEF IInv, TypeOK
<1>1. CASE UNCHANGED <<requests, mySeq>>
  BY <1>1, Zenon DEF RequestInv
<1>2. ASSUME NEW c \in Calls, SendRaw(c) PROVE RequestInv'
  <2>1. \A m \in requests : m[2] # c /\ m[2] \in Calls
    BY <1>2 DEF SendRaw, RequestInv, NumberInv, SendTypes
  <2> QED
    BY <1>2, <2>1, Zenon DEF SendRaw, RequestInv, SendTypes
<1>3. ASSUME NEW c \in Calls, SendRegister(c) PROVE RequestInv'
  BY <1>3 DEF RequestInv, SendRegister, NextSeq, sendVars, callVars, doneVars,
     connVars, inputVars, SendTypes, NumberInv
<1>4. ASSUME NEW c \in Calls, SendWrite(c) PROVE RequestInv'
  BY <1>4 DEF RequestInv, SendWrite, sendVars, callVars, doneVars, connVars,
     inputVars, SendTypes, NumberInv
<1>5. ASSUME NEW m \in requests, NEW e \in ErrorCodes, HandleResponse(m, e)
      PROVE  RequestInv'
  BY <1>5, Zenon
     DEF RequestInv, HandleResponse, Finish, sendVars, callVars, doneVars, connVars, inputVars,
         SendTypes, NumberInv
<1>6. ASSUME NEW m \in requests, HandleResponsePanics(m) PROVE RequestInv'
  BY <1>6, Zenon
     DEF RequestInv, HandleResponsePanics, sendVars, callVars, doneVars, connVars, inputVars,
         SendTypes, NumberInv
<1>7. ASSUME NEW c \in Calls, SendStep(c) PROVE RequestInv'
  BY <1>7, <1>1, <1>3, <1>4, Zenon DEF SendStep, SendRefused, Finish,
     SendStore, SendEncode, SendEncodeFails, SendWriteFails, TakeAndFinish,
     SendOneway, TakeAndDone, sendVars, callVars, doneVars, connVars, inputVars
<1> QED
  BY <1>1, <1>2, <1>5, <1>6, <1>7, Zenon DEF Next, vars, Call, StartCall, Go,
     ContextDone, Cancel, TakeAndFinish, Finish, Return, HeartbeatTick,
     HeartbeatCheck, CloseBody, ClosedPending, ClosedConn, ReadFails,
     InputTerminate, TerminatedCalls, Close, sendVars, callVars, doneVars,
     connVars, inputVars


(* The seq cell of a caller with a private context keeps its number,       *)
(* although send finds the cell through the context only after             *)
(* registering.                                                            *)
LEMMA CellStep == IInv /\ [Next]_vars => CellInv'
<1> SUFFICES ASSUME IInv, [Next]_vars PROVE CellInv'
  OBVIOUS
<1> USE Domains DEF IInv, TypeOK
<1>1. CASE UNCHANGED <<slot, cseq, mySeq, spc>>
  BY <1>1, Zenon DEF CellInv, Stored
<1>2. ASSUME NEW c \in Calls, Call(c) PROVE CellInv'
  BY <1>2, StartCallCell, Domains, Zenon DEF Call
<1>3. ASSUME NEW c \in Calls, Go(c) PROVE CellInv'
  <2>1. c \notin Callers /\ slot' = slot /\ cseq' = cseq /\ mySeq' = mySeq
    BY <1>3, CallsAssumption, Zenon DEF Go
  <2>2. \A d \in Callers : spc'[d] = spc[d]
    BY <1>3, <2>1, Zenon DEF Go, SendTypes
  <2> QED
    BY <2>1, <2>2, Zenon DEF CellInv, Stored
<1>4. ASSUME NEW c \in Calls, SendRaw(c) PROVE CellInv'
  <2>1. c \notin Callers /\ slot' = slot /\ cseq' = cseq
    BY <1>4, CallsAssumption, Zenon DEF SendRaw
  <2>2. \A d \in Callers : spc'[d] = spc[d] /\ mySeq'[d] = mySeq[d]
    BY <1>4, <2>1, Zenon DEF SendRaw, SendTypes
  <2> QED
    BY <2>1, <2>2, Zenon DEF CellInv, Stored
<1>5. ASSUME NEW c \in Calls, SendRefused(c) PROVE CellInv'
  <2>1. slot' = slot /\ cseq' = cseq /\ mySeq' = mySeq /\ spc[c] # "none"
    BY <1>5, Zenon DEF SendRefused, sendVars
  <2>2. \A d \in Calls : spc'[d] = spc[d] \/ (d = c /\ (mySeq[c] = Nil \/ Stored(c)))
    BY <1>5, Zenon DEF SendRefused, SendTypes, NumberInv, Stored
  <2> QED
    BY <2>1, <2>2, Zenon DEF CellInv, Stored
<1>6. ASSUME NEW c \in Calls, SendRegister(c) PROVE CellInv'
  <2>1. slot' = slot /\ cseq' = cseq /\ spc[c] = "register" /\ spc'[c] = "store"
    BY <1>6, Zenon DEF SendRegister, SendTypes
  <2>2. \A d \in Calls \ {c} : spc'[d] = spc[d] /\ mySeq'[d] = mySeq[d]
    BY <1>6, Zenon DEF SendRegister, SendTypes
  <2> QED
    BY <2>1, <2>2, Zenon DEF CellInv, Stored
<1>7. ASSUME NEW c \in Calls, SendStore(c) PROVE CellInv'
  <2>1. slot' = slot /\ mySeq' = mySeq
    BY <1>7, Zenon DEF SendStore
  <2>2. ASSUME NEW d \in Callers, Private(d), Stored(d)' PROVE cseq'[d] = mySeq[d]
    <3>1. CASE d = c
      BY <1>7, <2>2, <3>1, Zenon DEF SendStore, SendTypes, NumberInv, CellInv
    <3>2. CASE d # c
      <4>1. Stored(d) /\ cseq[d] = mySeq[d]
        BY <1>7, <2>2, <3>2, Zenon DEF SendStore, SendTypes, CellInv, Stored
      <4>2. ASSUME c \in Callers PROVE slot[CtxOf[c]] # d
        BY <2>2, <3>2, <4>2 DEF CellInv, Private
      <4> QED
        BY <1>7, <4>1, <4>2, Zenon DEF SendStore, SendTypes
    <3> QED
      BY <3>1, <3>2, Zenon
  <2>3. \A d \in Calls : spc'[d] # "none" => spc[d] # "none"
    BY <1>7, Zenon DEF SendStore, SendTypes
  <2> QED
    BY <2>1, <2>2, <2>3, Zenon DEF CellInv
<1>8. ASSUME NEW c \in Calls, SendEncode(c) PROVE CellInv'
  <2>1. slot' = slot /\ cseq' = cseq /\ mySeq' = mySeq /\ spc[c] # "none"
    BY <1>8, Zenon DEF SendEncode, sendVars
  <2>2. \A d \in Calls : spc'[d] = spc[d] \/ (d = c /\ (mySeq[c] = Nil \/ Stored(c)))
    BY <1>8, Zenon DEF SendEncode, SendTypes, NumberInv, Stored
  <2> QED
    BY <2>1, <2>2, Zenon DEF CellInv, Stored
<1>9. ASSUME NEW c \in Calls, SendEncodeFails(c) PROVE CellInv'
  <2>1. slot' = slot /\ cseq' = cseq /\ mySeq' = mySeq /\ spc[c] # "none"
    BY <1>9, Zenon DEF SendEncodeFails, sendVars
  <2>2. \A d \in Calls : spc'[d] = spc[d] \/ (d = c /\ (mySeq[c] = Nil \/ Stored(c)))
    BY <1>9 DEF SendEncodeFails, SendTypes, NumberInv, Stored
  <2> QED
    BY <2>1, <2>2, Zenon DEF CellInv, Stored
<1>10. ASSUME NEW c \in Calls, SendWrite(c) PROVE CellInv'
  <2>1. slot' = slot /\ cseq' = cseq /\ mySeq' = mySeq /\ spc[c] # "none"
    BY <1>10, Zenon DEF SendWrite, sendVars
  <2>2. \A d \in Calls : spc'[d] = spc[d] \/ (d = c /\ (mySeq[c] = Nil \/ Stored(c)))
    BY <1>10, Zenon DEF SendWrite, SendTypes, NumberInv, Stored
  <2> QED
    BY <2>1, <2>2, Zenon DEF CellInv, Stored
<1>11. ASSUME NEW c \in Calls, SendWriteFails(c) PROVE CellInv'
  <2>1. slot' = slot /\ cseq' = cseq /\ mySeq' = mySeq /\ spc[c] # "none"
    BY <1>11, Zenon DEF SendWriteFails, sendVars
  <2>2. \A d \in Calls : spc'[d] = spc[d] \/ (d = c /\ (mySeq[c] = Nil \/ Stored(c)))
    BY <1>11, Zenon DEF SendWriteFails, SendTypes, NumberInv, Stored
  <2> QED
    BY <2>1, <2>2, Zenon DEF CellInv, Stored
<1>12. ASSUME NEW c \in Calls, SendOneway(c) PROVE CellInv'
  <2>1. slot' = slot /\ cseq' = cseq /\ mySeq' = mySeq /\ spc[c] # "none"
    BY <1>12, Zenon DEF SendOneway, sendVars
  <2>2. \A d \in Calls : spc'[d] = spc[d] \/ (d = c /\ (mySeq[c] = Nil \/ Stored(c)))
    BY <1>12, Zenon DEF SendOneway, SendTypes, NumberInv, Stored
  <2> QED
    BY <2>1, <2>2, Zenon DEF CellInv, Stored
<1>13. ASSUME NEW c \in Calls, HeartbeatTick(c) PROVE CellInv'
  BY <1>13, StartCallCell, Domains, Zenon DEF HeartbeatTick
<1>14. ASSUME NEW c \in Calls, SendStep(c) PROVE CellInv'
  BY <1>14, <1>1, <1>5, <1>6, <1>7, <1>8, <1>9, <1>10, <1>11, <1>12, Zenon DEF
     SendStep, sendVars, callVars, doneVars, connVars, inputVars
<1> QED
  BY <1>1, <1>2, <1>3, <1>4, <1>13, <1>14, Zenon DEF Next, vars, ContextDone,
     Cancel, TakeAndFinish, Finish, Return, HeartbeatCheck, CloseBody,
     ClosedPending, ClosedConn, HandleResponse, HandleResponsePanics,
     ReadFails, InputTerminate, TerminatedCalls, Close, sendVars, callVars,
     doneVars, connVars, inputVars


(* The connection is closed before closing or shutdown is set.             *)
LEMMA ConnStep == IInv /\ [Next]_vars => ConnInv'
<1> SUFFICES ASSUME IInv, [Next]_vars PROVE ConnInv'
  OBVIOUS
<1> USE Domains DEF IInv, TypeOK
<1>1. CASE UNCHANGED <<pluginClosed, connOpen, closing, shutdown, ipc, ierr>>
  BY <1>1, Zenon DEF ConnInv
<1>2. ASSUME NEW c \in Calls, HeartbeatCheck(c) PROVE ConnInv'
  BY <1>2, Zenon
     DEF ConnInv, HeartbeatCheck, CloseBody, Finish, ClosedPending, ClosedConn, sendVars,
         callVars, doneVars, connVars, inputVars, ConnTypes
<1>3. ASSUME NEW m \in requests, NEW e \in ErrorCodes, HandleResponse(m, e)
      PROVE  ConnInv'
  BY <1>3, Zenon
     DEF ConnInv, HandleResponse, Finish, sendVars, callVars, doneVars, connVars, inputVars,
         ConnTypes
<1>4. ASSUME NEW m \in requests, HandleResponsePanics(m) PROVE ConnInv'
  BY <1>4, Zenon
     DEF ConnInv, HandleResponsePanics, sendVars, callVars, doneVars, connVars, inputVars, ConnTypes
<1>5. ASSUME NEW e \in ErrorCodes, ReadFails(e) PROVE ConnInv'
  BY <1>5, Zenon
     DEF ConnInv, ReadFails, sendVars, callVars, doneVars, connVars, inputVars, ConnTypes
<1>6. CASE InputTerminate
  BY <1>6, Zenon
     DEF ConnInv, InputTerminate, Finish, TerminatedCalls, sendVars, callVars, doneVars,
         connVars, inputVars, ConnTypes
<1>7. CASE Close
  BY <1>7, Zenon
     DEF ConnInv, Close, CloseBody, Finish, ClosedPending, ClosedConn, sendVars, callVars,
         doneVars, connVars, inputVars, ConnTypes
<1>8. ASSUME NEW c \in Calls, SendStep(c) PROVE ConnInv'
  BY <1>8, <1>1, Zenon DEF SendStep, SendRefused, Finish, SendRegister,
     NextSeq, SendStore, SendEncode, SendEncodeFails, SendWrite,
     SendWriteFails, TakeAndFinish, SendOneway, TakeAndDone, sendVars,
     callVars, doneVars, connVars, inputVars
<1> QED
  BY <1>1, <1>2, <1>3, <1>4, <1>5, <1>6, <1>7, <1>8, Zenon DEF Next, vars,
     Call, StartCall, Go, SendRaw, ContextDone, Cancel, TakeAndFinish, Finish,
     Return, HeartbeatTick, sendVars, callVars, doneVars, connVars, inputVars

-----------------------------------------------------------------------------
(* What a step can do to one call d, as far as its completion goes.        *)

(* Nothing: it is not completed, and stays in `pending' or out of it.      *)
Kept(d) ==
    /\ dones'[d] = dones[d] /\ err'[d] = err[d] /\ reply'[d] = reply[d]
    /\ d \in Pended' <=> d \in Pended

(* send or SendRaw registers it.                                           *)
Entered(d) ==
    /\ dones'[d] = dones[d] /\ err'[d] = err[d] /\ reply'[d] = reply[d]
    /\ spc[d] \in {"none", "register"} /\ spc'[d] \in {"store", "write"}
    /\ d \in Pended'

(* Somebody takes it out of `pending' and completes it.                    *)
Taken(d) ==
    /\ dones'[d] = dones[d] + 1 /\ reply'[d] \in {reply[d], d}
    /\ err'[d] = "nil" => reply'[d] = d \/ d \in Oneway
    /\ d \in Pended /\ d \notin Pended'

(* The end of input completes it and leaves it in `pending'.               *)
Signalled(d) ==
    /\ dones'[d] = dones[d] + 1 /\ reply'[d] = reply[d] /\ err'[d] # "nil"
    /\ d \in Pended
    /\ ipc = "terminate" /\ ipc' = "exited"

(* Its sender completes it, without looking it up in `pending'.            *)
Dropped(d) ==
    /\ dones'[d] = dones[d] + 1 /\ reply'[d] = reply[d] /\ err'[d] # "nil"
    /\ spc[d] \in {"register", "encode"} /\ spc'[d] = "end"
    /\ d \notin Pended'

(* A panic takes it out of `pending' and does not complete it.             *)
Orphaned(d) ==
    /\ ierr' = "panic"
    /\ dones'[d] = dones[d] /\ err'[d] = err[d] /\ reply'[d] = reply[d]
    /\ d \notin Pended'

Effect(d) == Kept(d) \/ Entered(d) \/ Taken(d) \/ Signalled(d) \/ Dropped(d) \/ Orphaned(d)

(* Removing an entry of the map removes the call in it, since no call is   *)
(* in the map twice.                                                       *)
LEMMA TakeOut ==
    ASSUME SendTypes, PendingInv, NEW s \in Seqs, pending' = [pending EXCEPT ![s] = Nil]
    PROVE  Pended' = Pended \ {pending[s]}
<1>1. \A t \in Seqs : pending'[t] = IF t = s THEN Nil ELSE pending[t]
  BY Zenon DEF SendTypes
<1>2. \A t \in Seqs : pending[t] = pending[s] /\ pending[t] # Nil => t = s
  BY Zenon DEF PendingInv
<1> QED
  BY <1>1, <1>2, Domains DEF Pended

(* A new entry adds its call and overwrites none.                          *)
LEMMA PutIn ==
    ASSUME SendTypes, NEW s \in Seqs, NEW c \in Calls, pending[s] = Nil,
           pending' = [pending EXCEPT ![s] = c]
    PROVE  Pended' = Pended \cup {c}
<1>1. \A t \in Seqs : pending'[t] = IF t = s THEN c ELSE pending[t]
  BY Zenon DEF SendTypes
<1> QED
  BY <1>1, Domains DEF Pended

(* The call under a number is one of the map's calls.                      *)
LEMMA InPended ==
    ASSUME SendTypes, NEW s \in Seqs, pending[s] # Nil
    PROVE  pending[s] \in Pended
  BY Zenon DEF SendTypes, Pended

(* Finish completes the calls of S with e and leaves the others alone.     *)
LEMMA FinishEffect ==
    ASSUME NEW S, NEW e, Finish(S, e), NEW d \in Calls
    PROVE  /\ d \in S => dones'[d] = dones[d] + 1 /\ err'[d] = e
           /\ d \notin S => dones'[d] = dones[d] /\ err'[d] = err[d]
  BY Zenon DEF Finish

(* A call taken out of `pending' with an error is completed; the others    *)
(* are not affected.                                                       *)
LEMMA TakeEffect ==
    ASSUME SendTypes, PendingInv, NEW s \in Seqs, NEW e, e # "nil",
           TakeAndFinish(s, e), NEW d \in Calls
    PROVE  Effect(d)
<1>1. Pended' = Pended \ {pending[s]} /\ reply' = reply
  BY TakeOut, Zenon DEF TakeAndFinish
<1>2. CASE d = pending[s]
  <2>1. d \in Pended /\ d \in {pending[s]} \ {Nil}
    BY <1>2, InPended, Domains, Zenon
  <2> QED
    BY <1>1, <1>2, <2>1, FinishEffect DEF TakeAndFinish, Effect, Taken
<1>3. CASE d # pending[s]
  BY <1>1, <1>3, FinishEffect DEF TakeAndFinish, Effect, Kept
<1> QED
  BY <1>2, <1>3, Zenon

(* Close empties `pending' and completes every call in it.                 *)
LEMMA CloseEffect == ASSUME CloseBody, NEW d \in Calls PROVE Effect(d)
<1>1. Pended' = {} /\ reply' = reply
  BY Domains, Zenon DEF CloseBody, ClosedPending, Pended
<1>2. CASE d \in Pended
  BY <1>1, <1>2, FinishEffect DEF CloseBody, Effect, Taken
<1>3. CASE d \notin Pended
  BY <1>1, <1>3, FinishEffect, Zenon DEF CloseBody, Effect, Kept
<1> QED
  BY <1>2, <1>3, Zenon

(* Every step has one of these effects on every call.                      *)
LEMMA Effects == ASSUME IInv, [Next]_vars, NEW d \in Calls PROVE Effect(d)
<1> USE Domains
<1>1. SendTypes /\ PendingInv /\ ConnInv
  BY Zenon DEF IInv, TypeOK
<1>2. CASE UNCHANGED <<pending, doneVars>>
  BY <1>2, Zenon DEF Effect, Kept, Pended, doneVars
<1>3. ASSUME NEW c \in Calls, SendRaw(c) PROVE Effect(d)
  <2>1. RawSeq[c] \in Seqs /\ pending[RawSeq[c]] = Nil
    BY <1>3, FreshNumbers, Zenon DEF SendRaw
  <2>2. Pended' = Pended \cup {c}
    BY <1>1, <1>3, <2>1, PutIn, Zenon DEF SendRaw
  <2>3. spc[c] \in {"none", "register"} /\ spc'[c] = "write"
    BY <1>1, <1>3, Zenon DEF SendRaw, SendTypes, IInv, NumberInv
  <2> QED
    BY <1>3, <2>2, <2>3, Zenon DEF SendRaw, doneVars, Effect, Kept, Entered
<1>4. ASSUME NEW c \in Calls, SendRegister(c) PROVE Effect(d)
  <2>1. seq \in Seqs /\ pending[seq] = Nil
    BY <1>4, FreshNumbers, Zenon DEF SendRegister
  <2>2. Pended' = Pended \cup {c}
    BY <1>1, <1>4, <2>1, PutIn, Zenon DEF SendRegister
  <2>3. spc[c] = "register" /\ spc'[c] = "store"
    BY <1>1, <1>4, Zenon DEF SendRegister, SendTypes
  <2> QED
    BY <1>4, <2>2, <2>3, Zenon DEF SendRegister, doneVars, Effect, Kept, Entered
<1>5. ASSUME NEW c \in Calls, Cancel(c) PROVE Effect(d)
  <2>1. LookupSeq(c) \in Seqs
    BY <1>1, <1>5, Zenon DEF Cancel, LookupSeq, SendTypes, IInv, NumberInv
  <2> QED
    BY <1>1, <1>5, <2>1, TakeEffect, Zenon DEF Cancel
<1>6. ASSUME NEW c \in Calls, SendRefused(c) PROVE Effect(d)
  <2>1. PICK e \in {"shutdown", "codec"} : Finish({c}, e)
    BY <1>6, Zenon DEF SendRefused
  <2>2. Pended' = Pended /\ reply' = reply
    BY <1>6, Zenon DEF SendRefused, Pended
  <2>3. c \notin Pended /\ spc[c] = "register" /\ spc'[c] = "end"
    BY <1>1, <1>6 DEF SendRefused, SendTypes, Pended, PendingInv, IInv, NumberInv
  <2> QED
    BY <2>1, <2>2, <2>3, FinishEffect DEF Effect, Kept, Dropped
<1>7. ASSUME NEW c \in Calls, SendEncodeFails(c) PROVE Effect(d)
  <2>1. mySeq[c] \in Seqs
    BY <1>1, <1>7 DEF SendEncodeFails, SendTypes, IInv, NumberInv
  <2>2. Pended' = Pended \ {pending[mySeq[c]]}
    BY <1>1, <1>7, <2>1, TakeOut, Zenon DEF SendEncodeFails
  <2>3. pending[mySeq[c]] \in {Nil, c}
    BY <1>1, <2>1 DEF PendingInv, SendTypes, IInv, NumberInv
  <2>4. c \in Pended => pending[mySeq[c]] = c
    BY <1>1, Zenon DEF PendingInv, Pended
  <2>5. spc[c] = "encode" /\ spc'[c] = "end" /\ reply' = reply
    BY <1>1, <1>7, Zenon DEF SendEncodeFails, SendTypes
  <2> QED
    BY <1>7, <2>2, <2>3, <2>4, <2>5, FinishEffect DEF SendEncodeFails, Effect, Kept, Dropped
<1>8. ASSUME NEW c \in Calls, SendWriteFails(c) PROVE Effect(d)
  <2>1. mySeq[c] \in Seqs
    BY <1>1, <1>8 DEF SendWriteFails, SendTypes, IInv, NumberInv
  <2> QED
    BY <1>1, <1>8, <2>1, TakeEffect, Zenon DEF SendWriteFails
<1>9. ASSUME NEW c \in Calls, SendOneway(c) PROVE Effect(d)
  <2>1. mySeq[c] \in Seqs
    BY <1>1, <1>9 DEF SendOneway, SendTypes, IInv, NumberInv
  <2>2. Pended' = Pended \ {pending[mySeq[c]]} /\ reply' = reply /\ err' = err
    BY <1>1, <1>9, <2>1, TakeOut, Zenon DEF SendOneway, TakeAndDone
  <2>3. pending[mySeq[c]] \in {Nil, c} /\ c \in Oneway
    BY <1>1, <1>9, <2>1 DEF SendOneway, PendingInv, SendTypes, IInv, NumberInv, ReplyInv
  <2>4. dones'[d] = IF d = pending[mySeq[c]] THEN dones[d] + 1 ELSE dones[d]
    BY <1>9, Zenon DEF SendOneway, TakeAndDone
  <2>5. d = pending[mySeq[c]] => d \in Pended
    BY <1>1, <2>1, InPended, Zenon
  <2> QED
    BY <2>2, <2>3, <2>4, <2>5, Zenon DEF Effect, Kept, Taken
<1>10. ASSUME NEW c \in Calls, HeartbeatCheck(c) PROVE Effect(d)
  BY <1>2, <1>10, CloseEffect, Zenon DEF HeartbeatCheck
<1>11. ASSUME NEW m \in requests, NEW e \in ErrorCodes, HandleResponse(m, e)
       PROVE  Effect(d)
  <2>1. m[1] \in Seqs /\ m[2] \in Calls
    BY <1>1, Zenon DEF SendTypes
  <2>2. Pended' = Pended \ {pending[m[1]]} /\ Finish({pending[m[1]]} \ {Nil}, e)
    BY <1>1, <1>11, <2>1, TakeOut, Zenon DEF HandleResponse
  <2>3. pending[m[1]] \in {Nil, m[2]}
    BY <1>1, <2>1 DEF IInv, PendingInv, RequestInv, NumberInv, SendTypes
  <2>4. reply'[d] = IF d = pending[m[1]] THEN m[2] ELSE reply[d]
    BY <1>11, Zenon DEF HandleResponse
  <2>5. d = pending[m[1]] => d \in Pended
    BY <1>1, <2>1, InPended, Zenon
  <2>6. dones'[d] = (IF d = pending[m[1]] THEN dones[d] + 1 ELSE dones[d])
        /\ (d # pending[m[1]] => err'[d] = err[d])
    BY <2>2, FinishEffect
  <2> QED
    BY <2>2, <2>3, <2>4, <2>5, <2>6, Zenon DEF Effect, Kept, Taken
<1>12. ASSUME NEW m \in requests, HandleResponsePanics(m) PROVE Effect(d)
  <2>1. m[1] \in Seqs
    BY <1>1, Zenon DEF SendTypes
  <2>2. Pended' = Pended \ {pending[m[1]]} /\ ierr' = "panic" /\ UNCHANGED doneVars
    BY <1>1, <1>12, <2>1, TakeOut, Zenon DEF HandleResponsePanics
  <2> QED
    BY <2>2, Zenon DEF doneVars, Effect, Kept, Orphaned
<1>13. CASE InputTerminate
  <2>1. PICK e : e # "nil" /\ Finish(Pended, e)
    BY <1>1, <1>13, Zenon DEF InputTerminate, TerminatedCalls, ConnInv
  <2>2. Pended' = Pended /\ reply' = reply /\ ipc = "terminate" /\ ipc' = "exited"
    BY <1>13, Zenon DEF InputTerminate, Pended
  <2> QED
    BY <2>1, <2>2, FinishEffect DEF Effect, Kept, Signalled
<1>14. CASE Close
  BY <1>14, CloseEffect, Zenon DEF Close
<1> QED
  BY <1>2, <1>3, <1>4, <1>5, <1>6, <1>7, <1>8, <1>9, <1>10, <1>11, <1>12, <1>13, <1>14, Zenon
  DEF Next, SendStep, vars, Call, HeartbeatTick, StartCall, Go, ContextDone, Return,
      SendStore, SendEncode, SendWrite, ReadFails

(* What a step can do to the sender of a call, and to the goroutine and    *)
(* the flags that decide who completes it.                                 *)
Moves(d) ==
    /\ spc'[d] \in {"none", "register"} => spc[d] \in {"none", "register"}
    /\ spc[d] = "end" => spc'[d] = "end"
    /\ spc'[d] = "oneway" => spc[d] = "oneway" \/ d \in Oneway
    /\ ipc = "exited" => ipc' = "exited"

(* A sender leaves send's first check registered or completed, ...         *)
Starts(d) ==
    spc[d] \in {"none", "register"} /\ spc'[d] \notin {"none", "register"} =>
        /\ UNCHANGED <<closing, shutdown>>
        /\ \/ d \in Raws /\ spc'[d] = "write" /\ d \in Pended'
           \/ ~closing /\ ~shutdown /\ d \in Pended'
           \/ dones'[d] > 0

(* ... and ends on an open connection or with its call out of the map.     *)
Ends(d) ==
    spc[d] # "end" /\ spc'[d] = "end" =>
        /\ UNCHANGED <<closing, shutdown>>
        /\ connOpen \/ d \notin Pended'

(* Whoever takes the client down completes the calls in the map.           *)
Downs(d) ==
    closing' \/ shutdown' => closing \/ shutdown \/ (d \in Pended => dones'[d] > 0)

LEMMA MovesStep == ASSUME IInv, [Next]_vars, NEW d \in Calls PROVE Moves(d)
<1>1. spc \in [Calls -> {"none", "register", "store", "encode", "write", "oneway", "end"}]
  BY Zenon DEF IInv, TypeOK, SendTypes
<1>2. CASE UNCHANGED <<spc, ipc>>
  BY <1>2, Zenon DEF Moves
<1>3. ASSUME NEW c \in Calls, Call(c) \/ HeartbeatTick(c) PROVE Moves(d)
  BY <1>1, <1>3 DEF Call, HeartbeatTick, StartCall, Moves, IInv, NumberInv, inputVars
<1>4. ASSUME NEW c \in Calls, Go(c) PROVE Moves(d)
  BY <1>1, <1>4, Zenon DEF Go, Moves, IInv, NumberInv, inputVars
<1>5. ASSUME NEW c \in Calls, SendRaw(c) PROVE Moves(d)
  BY <1>1, <1>5, Zenon DEF SendRaw, Moves, IInv, NumberInv, inputVars
<1>6. ASSUME NEW c \in Calls, SendStep(c) PROVE Moves(d)
  BY <1>1, <1>6, Zenon
  DEF SendStep, SendRefused, SendRegister, SendStore, SendEncode, SendEncodeFails,
      SendWrite, SendWriteFails, SendOneway, Moves, inputVars
<1>7. ASSUME NEW m \in requests, NEW e \in ErrorCodes, HandleResponse(m, e) PROVE Moves(d)
  BY <1>7, Zenon DEF HandleResponse, Moves, sendVars, inputVars
<1>8. ASSUME NEW m \in requests, HandleResponsePanics(m) PROVE Moves(d)
  BY <1>8, Zenon DEF HandleResponsePanics, Moves, sendVars
<1>9. ASSUME NEW e \in ErrorCodes, ReadFails(e) PROVE Moves(d)
  BY <1>9, Zenon DEF ReadFails, Moves, sendVars
<1>10. CASE InputTerminate
  BY <1>10, Zenon DEF InputTerminate, Moves, sendVars
<1> QED
  BY <1>2, <1>3, <1>4, <1>5, <1>6, <1>7, <1>8, <1>9, <1>10, Zenon
  DEF Next, vars, ContextDone, Cancel, Return, HeartbeatCheck, Close, sendVars, inputVars

(* A call that is not registered yet is not in the map.                    *)
LEMMA NotYetPended ==
    ASSUME IInv, NEW d \in Calls, spc[d] \in {"none", "register"}
    PROVE  d \notin Pended /\ mySeq[d] = Nil
<1>1. mySeq[d] = Nil
  BY Zenon DEF IInv, NumberInv
<1> QED
  BY <1>1, Domains, Zenon DEF IInv, PendingInv, Pended

(* How often done() can have run for a call, whoever completes it.         *)
LEMMA DoneStep == IInv /\ [Next]_vars => DoneInv'
<1> SUFFICES ASSUME IInv, [Next]_vars, NEW d \in Calls
             PROVE  /\ dones'[d] <= 3
                    /\ spc'[d] # "end" => dones'[d] <= 2
                    /\ spc'[d] \in {"none", "register"} => dones'[d] = 0
                    /\ d \in Pended' => dones'[d] <= IF ipc' = "exited" THEN 1 ELSE 0
  BY Zenon DEF DoneInv
<1>1. /\ dones[d] \in Nat
      /\ dones[d] <= 3
      /\ spc[d] # "end" => dones[d] <= 2
      /\ spc[d] \in {"none", "register"} => dones[d] = 0
      /\ d \in Pended => dones[d] <= IF ipc = "exited" THEN 1 ELSE 0
  BY Zenon DEF IInv, DoneInv, TypeOK, CallTypes
<1>2. Moves(d) /\ Effect(d)
  BY MovesStep, Effects, Zenon
<1>3. d \in Pended => spc[d] \notin {"none", "register"}
  BY NotYetPended, Zenon
<1>4. CASE Kept(d) \/ Orphaned(d)
  BY <1>1, <1>2, <1>4 DEF Kept, Orphaned, Moves
<1>5. CASE Entered(d)
  BY <1>1, <1>2, <1>5 DEF Entered, Moves
<1>6. CASE Taken(d)
  BY <1>1, <1>2, <1>3, <1>6 DEF Taken, Moves
<1>7. CASE Signalled(d)
  BY <1>1, <1>2, <1>3, <1>7 DEF Signalled, Moves
<1>8. CASE Dropped(d)
  BY <1>1, <1>2, <1>8 DEF Dropped, Moves
<1> QED
  BY <1>2, <1>4, <1>5, <1>6, <1>7, <1>8, Zenon DEF Effect

(* Only the response to a call's own request completes it without an       *)
(* error, and call and SendRaw return what completed their call.           *)
LEMMA ReplyStep == IInv /\ [Next]_vars => ReplyInv'
<1> SUFFICES ASSUME IInv, [Next]_vars, NEW d \in Calls
             PROVE  /\ reply'[d] \in {Nil, d}
                    /\ d \notin Oneway /\ dones'[d] > 0 /\ err'[d] = "nil" => reply'[d] = d
                    /\ d \in (Callers \cup Raws) \ Oneway /\ result'[d] = "nil" => reply'[d] = d
                    /\ spc'[d] = "oneway" => d \in Oneway
  BY Domains, Zenon DEF ReplyInv
<1>1. /\ reply[d] \in {Nil, d}
      /\ d \notin Oneway /\ dones[d] > 0 /\ err[d] = "nil" => reply[d] = d
      /\ d \in (Callers \cup Raws) \ Oneway /\ result[d] = "nil" => reply[d] = d
      /\ spc[d] = "oneway" => d \in Oneway
  BY Zenon DEF IInv, ReplyInv
<1>2. Moves(d) /\ Effect(d)
  BY MovesStep, Effects, Zenon
<1>3. reply'[d] \in {reply[d], d}
  BY <1>2, Zenon DEF Effect, Kept, Entered, Taken, Signalled, Dropped, Orphaned
<1>4. dones[d] \in Nat /\ (spc[d] \in {"none", "register"} => dones[d] = 0)
  BY Zenon DEF IInv, DoneInv, TypeOK, CallTypes
<1>5. d \notin Oneway /\ dones'[d] > 0 /\ err'[d] = "nil" => reply'[d] = d
  BY <1>1, <1>2, <1>4, Zenon DEF Effect, Kept, Entered, Taken, Signalled, Dropped, Orphaned
<1>6. d \notin Oneway /\ result'[d] = "nil" =>
         result[d] = "nil" \/ (dones[d] > 0 /\ err[d] = "nil")
  <2> USE DEF IInv, TypeOK, CallTypes
  <2>1. CASE UNCHANGED result
    BY <2>1, Zenon
  <2>2. ASSUME NEW c \in Calls, Cancel(c)
        PROVE  result'[d] \in {result[d], "ctx"}
    BY <2>2, Zenon DEF Cancel
  <2>3. ASSUME NEW c \in Calls, Return(c)
        PROVE  result'[d] = "nil" => result[d] = "nil" \/ (dones[d] > 0 /\ err[d] = "nil")
    BY <2>3, Zenon DEF Return
  <2>4. ASSUME NEW c \in Calls, SendWriteFails(c)
        PROVE  result'[d] \in {result[d], "write"}
    BY <2>4, Zenon DEF SendWriteFails
  <2>5. ASSUME NEW c \in Calls, SendOneway(c)
        PROVE  result'[d] = result[d] \/ d \in Oneway
    BY <2>5, <1>1, Zenon DEF SendOneway
  <2> QED
    BY <2>1, <2>2, <2>3, <2>4, <2>5, ZenonT(40)
    DEF Next, SendStep, vars, callVars, Call, HeartbeatTick, StartCall, Go, SendRaw,
        ContextDone, SendRefused, SendRegister, SendStore, SendEncode, SendEncodeFails,
        SendWrite, HandleResponse, HandleResponsePanics, ReadFails, InputTerminate,
        Close, HeartbeatCheck
<1> QED
  BY <1>1, <1>2, <1>3, <1>5, <1>6, Zenon DEF Moves

(* Senders start registered or completed, and end on an open connection or *)
(* with their call out of the map.                                         *)
LEMMA SendersStep == ASSUME IInv, [Next]_vars, NEW d \in Calls PROVE Starts(d) /\ Ends(d)
<1> USE Domains
<1>1. /\ SendTypes /\ PendingInv
      /\ spc \in [Calls -> {"none", "register", "store", "encode", "write", "oneway", "end"}]
  BY Zenon DEF IInv, TypeOK, SendTypes
<1>2. dones[d] \in Nat
  BY Zenon DEF IInv, TypeOK, CallTypes
<1>3. CASE UNCHANGED spc
  BY <1>3, Zenon DEF Starts, Ends
<1>4. ASSUME NEW c \in Calls, Call(c) \/ HeartbeatTick(c) \/ Go(c)
      PROVE  Starts(d) /\ Ends(d)
  BY <1>1, <1>4, Zenon DEF Call, HeartbeatTick, StartCall, Go, Starts, Ends
<1>5. ASSUME NEW c \in Calls, SendRaw(c) PROVE Starts(d) /\ Ends(d)
  <2>1. RawSeq[c] \in Seqs /\ pending[RawSeq[c]] = Nil
    BY <1>5, FreshNumbers, Zenon DEF SendRaw
  <2>2. Pended' = Pended \cup {c}
    BY <1>1, <1>5, <2>1, PutIn, Zenon DEF SendRaw
  <2> QED
    BY <1>1, <1>5, <2>2, Zenon DEF SendRaw, Starts, Ends, connVars
<1>6. ASSUME NEW c \in Calls, SendRefused(c) PROVE Starts(d) /\ Ends(d)
  <2>1. c \notin Pended' /\ (c = d => dones'[d] = dones[d] + 1)
    BY <1>6, NotYetPended, Zenon DEF SendRefused, Pended, Finish
  <2> QED
    BY <1>1, <1>2, <1>6, <2>1 DEF SendRefused, Starts, Ends, connVars
<1>7. ASSUME NEW c \in Calls, SendRegister(c) PROVE Starts(d) /\ Ends(d)
  <2>1. seq \in Seqs /\ pending[seq] = Nil
    BY <1>7, FreshNumbers, Zenon DEF SendRegister
  <2>2. Pended' = Pended \cup {c}
    BY <1>1, <1>7, <2>1, PutIn, Zenon DEF SendRegister
  <2> QED
    BY <1>1, <1>7, <2>2, Zenon DEF SendRegister, Starts, Ends, connVars
<1>8. ASSUME NEW c \in Calls, SendStore(c) \/ SendEncode(c) PROVE Starts(d) /\ Ends(d)
  BY <1>1, <1>8, Zenon DEF SendStore, SendEncode, Starts, Ends
<1>9. ASSUME NEW c \in Calls, SendWrite(c) PROVE Starts(d) /\ Ends(d)
  BY <1>1, <1>9, Zenon DEF SendWrite, Starts, Ends, connVars
<1>10. ASSUME NEW c \in Calls,
              spc[c] \in {"encode", "write", "oneway"},
              spc' = [spc EXCEPT ![c] = "end"],
              pending' = [pending EXCEPT ![mySeq[c]] = Nil],
              UNCHANGED connVars
       PROVE  Starts(d) /\ Ends(d)
  <2>1. mySeq[c] \in Seqs
    BY <1>1, <1>10 DEF SendTypes, IInv, NumberInv
  <2>2. Pended' = Pended \ {pending[mySeq[c]]}
    BY <1>1, <1>10, <2>1, TakeOut, Zenon
  <2>3. c \notin Pended'
    BY <1>1, <2>2 DEF PendingInv, Pended
  <2> QED
    BY <1>1, <1>10, <2>3, Zenon DEF Starts, Ends, connVars
<1> QED
  BY <1>3, <1>4, <1>5, <1>6, <1>7, <1>8, <1>9, <1>10, Zenon
  DEF Next, SendStep, vars, sendVars, ContextDone, Cancel, Return, SendEncodeFails,
      SendWriteFails, SendOneway, TakeAndFinish, TakeAndDone, HandleResponse,
      HandleResponsePanics, ReadFails, InputTerminate, Close, HeartbeatCheck

(* Close, an abnormal heartbeat and the end of input complete every call   *)
(* in the map when they set closing or shutdown.                           *)
LEMMA DownsStep == ASSUME IInv, [Next]_vars, NEW d \in Calls PROVE Downs(d)
<1>1. dones[d] \in Nat
  BY Zenon DEF IInv, TypeOK, CallTypes
<1>2. CASE UNCHANGED connVars
  BY <1>2, Zenon DEF connVars, Downs
<1>3. CASE CloseBody
  BY <1>1, <1>3, FinishEffect DEF CloseBody, Downs
<1>4. CASE InputTerminate
  BY <1>1, <1>4, FinishEffect DEF InputTerminate, TerminatedCalls, Downs
<1> QED
  BY <1>2, <1>3, <1>4, ZenonT(40)
  DEF Next, SendStep, vars, Call, HeartbeatTick, StartCall, Go, SendRaw, ContextDone,
      Cancel, Return, SendRefused, SendRegister, SendStore, SendEncode, SendEncodeFails,
      SendWrite, SendWriteFails, SendOneway, HandleResponse, HandleResponsePanics,
      ReadFails, Close, HeartbeatCheck

(* The reason why the reading goroutine stopped does not change.           *)
LEMMA PanicStays == ASSUME IInv, [Next]_vars, ierr = "panic" PROVE ierr' = "panic"
<1>1. ipc # "read"
  BY Zenon DEF IInv, ConnInv
<1> QED
  BY <1>1, ZenonT(40)
  DEF Next, SendStep, vars, inputVars, Call, HeartbeatTick, StartCall, Go, SendRaw,
      ContextDone, Cancel, Return, SendRefused, SendRegister, SendStore, SendEncode,
      SendEncodeFails, SendWrite, SendWriteFails, SendOneway, TakeAndFinish,
      TakeAndDone, HandleResponse, HandleResponsePanics, ReadFails, InputTerminate,
      Close, HeartbeatCheck

(* Without a panic, a registered call that was not completed stays in      *)
(* `pending', and is completed when the client goes down.                  *)
LEMMA NoCallLostStep == NoCallLost /\ IInv /\ [Next]_vars => NoCallLost'
<1> SUFFICES ASSUME NoCallLost, IInv, [Next]_vars, ierr' # "panic", NEW d \in Calls,
                    spc'[d] \notin {"none", "register"}, dones'[d] = 0
             PROVE  /\ d \in Pended'
                    /\ closing' \/ shutdown' => d \in Raws /\ spc'[d] # "end"
  BY Zenon DEF NoCallLost
<1>1. Effect(d) /\ Starts(d) /\ Ends(d) /\ Downs(d) /\ Moves(d)
  BY Effects, SendersStep, DownsStep, MovesStep, Zenon
<1>2. dones[d] \in Nat /\ ierr # "panic"
  BY PanicStays, Zenon DEF IInv, TypeOK, CallTypes
<1>3. Kept(d) \/ Entered(d)
  BY <1>1, <1>2 DEF Effect, Taken, Signalled, Dropped, Orphaned
<1>4. CASE spc[d] \in {"none", "register"}
  BY <1>1, <1>4 DEF Starts
<1>5. CASE spc[d] \notin {"none", "register"}
  <2>1. Kept(d) /\ dones[d] = 0
    BY <1>3, <1>5, Zenon DEF Entered, Kept
  <2>2. d \in Pended /\ d \in Pended'
    BY <1>2, <1>5, <2>1, Zenon DEF NoCallLost, Kept
  <2>3. ASSUME closing' \/ shutdown' PROVE d \in Raws /\ spc'[d] # "end"
    <3>1. closing \/ shutdown
      BY <1>1, <2>2, <2>3 DEF Downs
    <3>2. d \in Raws /\ spc[d] # "end" /\ ~connOpen
      BY <1>2, <1>5, <2>1, <3>1, Zenon DEF NoCallLost, IInv, ConnInv
    <3> QED
      BY <1>1, <2>2, <3>2, Zenon DEF Ends
  <2> QED
    BY <2>2, <2>3, Zenon
<1> QED
  BY <1>4, <1>5, Zenon

-----------------------------------------------------------------------------
(* Every step of the client preserves the inductive invariant.             *)
LEMMA StepIInv == IInv /\ [Next]_vars => IInv'
  BY SendTypesStep, CallTypesStep, ConnTypesStep, NumberStep, PendingStep, RequestStep,
         DoneStep, ReplyStep, ConnStep, CellStep, Zenon
  DEF IInv, TypeOK

(* The inductive invariant holds of every behaviour of the client, for any *)
(* number of calls of each kind, any contexts and any bound on client.seq. *)
THEOREM Invariance == Spec => []IInv
  BY InitIInv, StepIInv, PTL DEF Spec

(* Every field and local variable of the client keeps its type.            *)
THEOREM TypeCorrect == Spec => []TypeOK
<1>1. IInv => TypeOK
  BY Zenon DEF IInv
<1> QED
  BY <1>1, Invariance, PTL

(* A reply reaches the call it answers and no other, and Call and SendRaw  *)
(* report success only for a call that was answered.                       *)
THEOREM RepliesAreOwn == Spec => []OwnReply
<1>1. IInv => OwnReply
  BY Zenon DEF IInv, ReplyInv, OwnReply
<1> QED
  BY <1>1, Invariance, PTL

(* done() runs at most three times for a call, although the end of input   *)
(* leaves completed calls in `pending': the Done channel never overflows.  *)
THEOREM SignalsAreKept == Spec => []DoneNeverDiscarded
<1>1. IInv => DoneNeverDiscarded
  BY Zenon DEF IInv, DoneInv, DoneNeverDiscarded
<1> QED
  BY <1>1, Invariance, PTL

(* Unless a codec or a plugin panics, no call is lost between send, a      *)
(* cancel, a response, a failed write, Close and the end of input.         *)
THEOREM CallsAreKept == Spec => []NoCallLost
<1>1. Init => NoCallLost
  BY Zenon DEF Init, NoCallLost
<1>2. NoCallLost /\ IInv /\ [Next]_vars => NoCallLost'
  BY NoCallLostStep, Zenon
<1> QED
  BY <1>1, <1>2, Invariance, PTL DEF Spec

(* Once Close or the end of input has set its flag no request is written,  *)
(* not even by SendRaw, which does not look at the flags: the connection   *)
(* was closed before.                                                      *)
THEOREM SilentAfterClose == Spec => NothingSentAfterClose
<1>1. IInv /\ [Next]_vars => (closing \/ shutdown => requests' \subseteq requests)
  <2> SUFFICES ASSUME IInv, [Next]_vars, closing \/ shutdown
               PROVE  requests' \subseteq requests
    OBVIOUS
  <2>1. ~connOpen
    BY Zenon DEF IInv, ConnInv
  <2>2. CASE UNCHANGED requests
    BY <2>2, Zenon
  <2>3. ASSUME NEW c \in Calls, SendWrite(c) PROVE FALSE
    BY <2>1, <2>3, Zenon DEF SendWrite
  <2>4. ASSUME NEW m \in requests, NEW e \in ErrorCodes, HandleResponse(m, e)
        PROVE  requests' \subseteq requests
    BY <2>4, Zenon DEF HandleResponse
  <2>5. ASSUME NEW m \in requests, HandleResponsePanics(m)
        PROVE  requests' \subseteq requests
    BY <2>5, Zenon DEF HandleResponsePanics
  <2> QED
    BY <2>2, <2>3, <2>4, <2>5, ZenonT(40)
    DEF Next, SendStep, vars, Call, HeartbeatTick, StartCall, Go, SendRaw, ContextDone,
        Cancel, Return, SendRefused, SendRegister, SendStore, SendEncode,
        SendEncodeFails, SendWriteFails, SendOneway, HeartbeatCheck, ReadFails,
        InputTerminate, Close
<1> QED
  BY <1>1, Invariance, PTL DEF Spec, NothingSentAfterClose

(* Cancelling a call whose number is stored in the seq cell of a private   *)
(* context takes that call out of `pending' and no other.                  *)
THEOREM CancelIsExact == Spec => CancelExact
<1>1. IInv => \A c \in Callers :
                 Private(c) /\ Stored(c) /\ Cancel(c) => Pended' = Pended \ {c}
  <2> SUFFICES ASSUME IInv, NEW c \in Callers, Private(c), Stored(c), Cancel(c)
               PROVE  Pended' = Pended \ {c}
    OBVIOUS
  <2> USE Domains DEF IInv, TypeOK, SendTypes
  <2>1. cseq[c] = mySeq[c] /\ mySeq[c] \in Seqs /\ c \notin Raws
    BY CallsAssumption, Zenon DEF CellInv, Stored
  <2>2. pending' = [pending EXCEPT ![mySeq[c]] = Nil]
    BY <2>1, Zenon DEF Cancel, TakeAndFinish, LookupSeq
  <2>3. \A s \in Seqs : pending[s] = c => s = mySeq[c]
    BY DEF PendingInv
  <2>4. pending[mySeq[c]] \in {Nil, c}
    <3>1. pending[mySeq[c]] # Nil => mySeq[pending[mySeq[c]]] = mySeq[c]
      BY <2>1, Zenon DEF PendingInv
    <3> QED
      BY <2>1, <3>1 DEF NumberInv
  <2> QED
    BY <2>1, <2>2, <2>3, <2>4, CallsAssumption DEF Pended
<1>2. IInv /\ [Next]_vars => \A c \in Callers :
                 Private(c) /\ Stored(c) /\ Cancel(c) => Pended' = Pended \ {c}
  BY <1>1, Zenon
<1> QED
  BY <1>2, Invariance, PTL DEF Spec, CancelExact
-----------------------------------------------------------------------------
(* The client implements the abstract call service.                        *)

(* A request on the wire, and a call that was answered, have left their    *)
(* senders; nothing completes an answered call again.                      *)
LEMMA AnswerStep == ASSUME IInv, AnswerInv, [Next]_vars PROVE AnswerInv'
<1>0. /\ spc \in [Calls -> {"none", "register", "store", "encode", "write", "oneway", "end"}]
      /\ cpc \in [Calls -> {"idle", "sending", "waiting", "returned", "checked"}]
      /\ requests \subseteq Seqs \X Calls
      /\ \A d \in Calls : Moves(d) /\ Effect(d)
  BY MovesStep, Effects, Zenon DEF IInv, TypeOK, SendTypes, CallTypes
<1>1. ASSUME NEW m \in requests' PROVE spc'[m[2]] = "end"
  <2>1. CASE m \in requests
    <3>1. m[2] \in Calls /\ spc[m[2]] = "end"
      BY <1>0, <2>1, Zenon DEF AnswerInv
    <3> QED
      BY <1>0, <3>1, Zenon DEF Moves
  <2>2. CASE m \notin requests
    <3>1. PICK c \in Calls : SendWrite(c) /\ m = <<mySeq[c], c>> /\ c \notin Oneway
      <4>1. \/ requests' \subseteq requests
            \/ \E c \in Calls : SendWrite(c)
        BY ZenonT(40)
        DEF Next, SendStep, vars, Call, HeartbeatTick, StartCall, Go, SendRaw, ContextDone,
            Cancel, Return, SendRefused, SendRegister, SendStore, SendEncode,
            SendEncodeFails, SendWriteFails, SendOneway, HeartbeatCheck, ReadFails,
            InputTerminate, Close, HandleResponse, HandleResponsePanics
      <4>2. PICK c \in Calls : SendWrite(c)
        BY <1>1, <2>2, <4>1, Zenon
      <4>3. requests' = IF c \in Oneway THEN requests ELSE requests \cup {<<mySeq[c], c>>}
        BY <4>2, Zenon DEF SendWrite
      <4> QED
        BY <1>1, <2>2, <4>2, <4>3, Zenon
    <3>2. m[2] = c
      BY <3>1, Zenon
    <3>3. spc'[c] = "end"
      BY <1>0, <3>1, Zenon DEF SendWrite
    <3> QED
      BY <3>2, <3>3, Zenon
  <2> QED
    BY <2>1, <2>2, Zenon
<1>2. ASSUME NEW c \in Calls, reply'[c] = c PROVE spc'[c] = "end" /\ c \notin Pended'
  <2>1. CASE reply[c] = c
    <3>1. spc[c] = "end" /\ c \notin Pended
      BY <2>1, Zenon DEF AnswerInv
    <3>2. spc'[c] = "end"
      BY <1>0, <3>1, Zenon DEF Moves
    <3> QED
      BY <1>0, <3>1, <3>2, Zenon DEF Effect, Kept, Entered, Taken, Signalled, Dropped, Orphaned
  <2>2. CASE reply[c] # c
    <3>1. Taken(c)
      BY <1>0, <1>2, <2>2, Zenon DEF Effect, Kept, Entered, Signalled, Dropped, Orphaned
    <3>2. PICK m \in requests, e \in ErrorCodes : HandleResponse(m, e)
      <4>1. UNCHANGED reply \/ \E m \in requests, e \in ErrorCodes : HandleResponse(m, e)
        BY ZenonT(40)
        DEF Next, SendStep, vars, doneVars, Call, HeartbeatTick, StartCall, Go, SendRaw,
            ContextDone, Cancel, Return, SendRefused, SendRegister, SendStore, SendEncode,
            SendEncodeFails, SendWrite, SendWriteFails, SendOneway, HeartbeatCheck, ReadFails,
            InputTerminate, Close, CloseBody, HandleResponsePanics, TakeAndFinish, TakeAndDone
      <4> QED
        BY <1>2, <2>2, <4>1, Zenon
    <3>3. m[2] = c
      <4>1. reply'[c] = IF c = pending[m[1]] THEN m[2] ELSE reply[c]
        BY <3>2, Zenon DEF HandleResponse
      <4> QED
        BY <1>2, <2>2, <4>1, Zenon
    <3>4. spc[c] = "end"
      BY <3>3, Zenon DEF AnswerInv
    <3>5. spc'[c] = "end"
      BY <1>0, <3>4, Zenon DEF Moves
    <3> QED
      BY <3>1, <3>5, Zenon DEF Taken
  <2> QED
    BY <2>1, <2>2, Zenon
<1>3. ASSUME NEW c \in Raws
      PROVE  /\ spc'[c] \in {"none", "write", "oneway", "end"}
             /\ spc'[c] \in {"write", "oneway"} => cpc'[c] = "sending"
  <2> DEFINE G == /\ spc'[c] \in {"none", "write", "oneway", "end"}
                  /\ spc'[c] \in {"write", "oneway"} => cpc'[c] = "sending"
  <2>0. c \in Calls /\ c \notin Callers /\ c \notin Asyncs
    BY Domains, CallsAssumption, Zenon
  <2>1. CASE UNCHANGED <<spc, cpc>>
    BY <1>3, <2>1, Zenon DEF AnswerInv
  <2>2. ASSUME NEW d \in Calls, Call(d) \/ HeartbeatTick(d) \/ Go(d) PROVE G
    <3>1. d # c
      BY <2>0, <2>2, CallsAssumption, Zenon DEF Call, HeartbeatTick, Go
    <3>2. spc'[c] = spc[c] /\ cpc'[c] = cpc[c]
      BY <1>0, <2>0, <2>2, <3>1, Zenon DEF Call, HeartbeatTick, StartCall, Go
    <3> QED
      BY <1>3, <3>2, Zenon DEF AnswerInv
  <2>3. ASSUME NEW d \in Calls, SendRaw(d) PROVE G
    BY <1>0, <1>3, <2>0, <2>3, Zenon DEF SendRaw, AnswerInv
  <2>4. ASSUME NEW d \in Calls, Cancel(d) \/ Return(d) \/ HeartbeatCheck(d)
        PROVE  G
    <3>1. spc' = spc /\ cpc[d] # "sending" /\ \A b \in Calls \ {d} : cpc'[b] = cpc[b]
      BY <1>0, <2>4, Zenon DEF Cancel, Return, HeartbeatCheck, sendVars
    <3> QED
      BY <1>3, <2>0, <3>1, Zenon DEF AnswerInv
  <2>5. ASSUME NEW d \in Calls, SendStep(d) PROVE G
    <3>1. CASE d # c
      <4>1. spc'[c] = spc[c] /\ cpc'[c] = cpc[c]
        BY <1>0, <2>0, <2>5, <3>1, Zenon DEF SendStep, SendRefused, SendRegister, SendStore,
           SendEncode, SendEncodeFails, SendWrite, SendWriteFails, SendOneway, callVars
      <4> QED
        BY <1>3, <4>1, Zenon DEF AnswerInv
    <3>2. CASE d = c
      <4>1. spc[c] \notin {"register", "store", "encode"}
        BY <2>0, Zenon DEF AnswerInv
      <4> QED
        BY <1>0, <1>3, <2>0, <2>5, <3>2, <4>1, Zenon DEF SendStep, SendRefused, SendRegister,
           SendStore,
           SendEncode, SendEncodeFails, SendWrite, SendWriteFails, SendOneway, AnswerInv
    <3> QED
      BY <3>1, <3>2, Zenon
  <2> QED
    BY <2>1, <2>2, <2>3, <2>4, <2>5, Zenon DEF Next, vars, sendVars, callVars, ContextDone,
       HandleResponse, HandleResponsePanics, ReadFails, InputTerminate, Close
<1>4. ASSUME shutdown' PROVE ipc' = "exited"
  <2>1. CASE InputTerminate
    BY <2>1, Zenon DEF InputTerminate
  <2>2. CASE ~InputTerminate
    <3>1. shutdown' = shutdown
      BY <2>2, ZenonT(40)
      DEF Next, SendStep, vars, connVars, Call, HeartbeatTick, StartCall, Go, SendRaw,
          ContextDone, Cancel, Return, SendRefused, SendRegister, SendStore, SendEncode,
          SendEncodeFails, SendWrite, SendWriteFails, SendOneway, HeartbeatCheck, ReadFails,
          Close, CloseBody, HandleResponse, HandleResponsePanics
    <3>2. ipc = "exited"
      BY <1>4, <3>1, Zenon DEF AnswerInv
    <3> QED
      BY <3>2, ZenonT(40)
      DEF Next, SendStep, vars, inputVars, Call, HeartbeatTick, StartCall, Go, SendRaw,
          ContextDone, Cancel, Return, SendRefused, SendRegister, SendStore, SendEncode,
          SendEncodeFails, SendWrite, SendWriteFails, SendOneway, HeartbeatCheck, ReadFails,
          Close, HandleResponse, HandleResponsePanics, InputTerminate
  <2> QED
    BY <2>1, <2>2, Zenon
<1> QED
  BY <1>1, <1>2, <1>3, <1>4, Zenon DEF AnswerInv

(* The steps of the abstract service, one call at a time.                  *)
SameCall(d) == Phase(d)' = Phase(d) /\ AnswerOf(d)' = AnswerOf(d) /\ Outcome(d)' = Outcome(d)
SameUp == (closing \/ shutdown)' <=> (closing \/ shutdown)

(* Nothing that the service shows changes.                                 *)
LEMMA ServiceStutters ==
    ASSUME ConnTypes, ConnTypes', SameUp, \A d \in Waiters : SameCall(d)
    PROVE  UNCHANGED Service!vars
BY DEF Service!vars, SameCall, SameUp, ConnTypes

(* A call begins.                                                          *)
LEMMA ServiceBegins ==
    ASSUME SameUp, NEW c \in Waiters, \A d \in Waiters \ {c} : SameCall(d),
           Phase(c) = "idle", Phase(c)' = "open",
           AnswerOf(c)' = AnswerOf(c), Outcome(c)' = Outcome(c)
    PROVE  Service!Begin(c)
BY Zenon DEF Service!Begin, SameCall, SameUp

(* The service answers a call.                                             *)
LEMMA ServiceAnswers ==
    ASSUME SameUp, ~(closing \/ shutdown), NEW c \in Waiters, \A d \in Waiters \ {c} : SameCall(d),
           Phase(c) # "idle", Phase(c)' = Phase(c), Outcome(c)' = Outcome(c),
           AnswerOf(c) = "none", AnswerOf(c)' \in {"ok", "error"}
    PROVE  Service!Answer(c)
BY Zenon DEF Service!Answer, SameCall, SameUp

(* A call returns without an error.                                        *)
LEMMA ServiceSucceeds ==
    ASSUME SameUp, NEW c \in Waiters, \A d \in Waiters \ {c} : SameCall(d),
           Phase(c) = "open", Phase(c)' = "ended", AnswerOf(c)' = AnswerOf(c), Outcome(c)' = "ok",
           AnswerOf(c) = "ok" \/ c \in Oneway
    PROVE  Service!Succeed(c)
BY Zenon DEF Service!Succeed, SameCall, SameUp

(* A call returns an error.                                                *)
LEMMA ServiceFails ==
    ASSUME SameUp, NEW c \in Waiters, \A d \in Waiters \ {c} : SameCall(d),
           Phase(c) = "open", Phase(c)' = "ended", AnswerOf(c)' = AnswerOf(c), Outcome(c)' = "fail"
    PROVE  Service!Fail(c)
BY Zenon DEF Service!Fail, SameCall, SameUp

(* The client goes down, or was down already.                              *)
LEMMA ServiceGoesDown ==
    ASSUME ConnTypes, ConnTypes', \A d \in Waiters : SameCall(d), (closing \/ shutdown)'
    PROVE  Service!GoDown \/ UNCHANGED Service!vars
BY DEF Service!GoDown, Service!vars, SameCall, ConnTypes

(* The phase of a call is where its caller is.                              *)
LEMMA PhaseIs ==
    ASSUME NEW c
    PROVE  /\ cpc[c] = "idle" => Phase(c) = "idle"
           /\ cpc[c] \in {"sending", "waiting"} => Phase(c) = "open"
           /\ cpc[c] \in {"returned", "checked"} => Phase(c) = "ended"
           /\ cpc'[c] \in {"sending", "waiting"} => Phase(c)' = "open"
           /\ cpc'[c] \in {"returned", "checked"} => Phase(c)' = "ended"
           /\ cpc'[c] = cpc[c] => Phase(c)' = Phase(c)
BY DEF Phase

(* Its outcome is what Call or SendRaw has returned.                        *)
LEMMA OutcomeIs ==
    ASSUME NEW c
    PROVE  /\ result'[c] = result[c] => Outcome(c)' = Outcome(c)
           /\ result'[c] = "nil" => Outcome(c)' = "ok"
           /\ result'[c] \in ErrorCodes \ {"nil"} => Outcome(c)' = "fail"
BY DEF Outcome, ErrorCodes

(* Its answer is a reply of its own.                                        *)
LEMMA AnswerIs ==
    ASSUME NEW c
    PROVE  /\ AnswerOf(c) = "none" <=> reply[c] # c
           /\ reply[c] = c /\ err[c] = "nil" => AnswerOf(c) = "ok"
           /\ reply'[c] = c => AnswerOf(c)' \in {"ok", "error"}
           /\ reply'[c] # c => AnswerOf(c)' = "none"
           /\ reply'[c] = reply[c] /\ err'[c] = err[c] => AnswerOf(c)' = AnswerOf(c)
BY DEF AnswerOf

(* Nothing but a response changes the answer of a call.                    *)
LEMMA AnswerStays ==
    ASSUME IInv, AnswerInv, [Next]_vars, NEW d \in Calls, reply'[d] = reply[d]
    PROVE  AnswerOf(d)' = AnswerOf(d)
<1>1. CASE reply[d] # d
  BY <1>1, AnswerIs, Zenon
<1>2. CASE reply[d] = d
  <2>1. spc[d] = "end" /\ d \notin Pended /\ Effect(d)
    BY <1>2, Effects, Zenon DEF AnswerInv
  <2>2. err'[d] = err[d]
    BY <2>1, Zenon DEF Effect, Kept, Entered, Taken, Signalled, Dropped, Orphaned
  <2> QED
    BY <2>2, AnswerIs, Zenon
<1> QED
  BY <1>1, <1>2, Zenon

(* Every step of the client is a step of the call service or leaves it     *)
(* unchanged.                                                              *)
LEMMA RefineStep ==
    ASSUME IInv, NoCallLost, AnswerInv, [Next]_vars, ConnTypes'
    PROVE  [Service!Next]_(Service!vars)
<1> DEFINE G == Service!Next \/ UNCHANGED Service!vars
<1> SUFFICES G
  OBVIOUS
<1>0. /\ Waiters \subseteq Calls /\ Callers \subseteq Waiters /\ Raws \subseteq Waiters
      /\ Asyncs \cap Waiters = {} /\ Heartbeats \subseteq Callers /\ ConnTypes
      /\ cpc \in [Calls -> {"idle", "sending", "waiting", "returned", "checked"}]
      /\ result \in [Calls -> ErrorCodes \cup {"none"}] /\ err \in [Calls -> ErrorCodes]
  BY Domains, CallsAssumption, Zenon DEF Waiters, IInv, TypeOK, CallTypes
<1>1. ASSUME NEW d \in Waiters, reply'[d] = reply[d] PROVE AnswerOf(d)' = AnswerOf(d)
  BY <1>0, <1>1, AnswerStays, Zenon
<1>2. ASSUME NEW d \in Waiters, reply'[d] = reply[d], cpc'[d] = cpc[d], result'[d] = result[d]
      PROVE  SameCall(d)
  BY <1>1, <1>2, PhaseIs, OutcomeIs, Zenon DEF SameCall
<1>3. CASE UNCHANGED <<cpc, result, reply, connVars>>
  BY <1>0, <1>2, <1>3, ServiceStutters, Zenon DEF connVars, SameUp
<1>4. ASSUME NEW c \in Calls, Call(c) \/ HeartbeatTick(c) \/ SendRaw(c) PROVE G
  <2>1. /\ c \in Waiters /\ cpc[c] = "idle" /\ cpc'[c] \in {"sending", "waiting"}
        /\ \A d \in Waiters \ {c} : cpc'[d] = cpc[d]
        /\ UNCHANGED <<result, reply, connVars>>
    BY <1>0, <1>4, Zenon DEF Call, HeartbeatTick, StartCall, SendRaw, doneVars
  <2>2. Service!Begin(c)
    BY <1>1, <1>2, <2>1, PhaseIs, OutcomeIs, ServiceBegins, Zenon DEF connVars, SameUp
  <2> QED
    BY <2>1, <2>2, Zenon DEF Service!Next
<1>5. ASSUME NEW c \in Calls, Go(c) PROVE G
  <2>1. /\ \A d \in Waiters : cpc'[d] = cpc[d]
        /\ UNCHANGED <<result, reply, connVars>>
    BY <1>0, <1>5, Zenon DEF Go, doneVars
  <2> QED
    BY <1>0, <1>2, <2>1, ServiceStutters, Zenon DEF connVars, SameUp
<1>6. ASSUME NEW c \in Waiters, cpc[c] \in {"sending", "waiting"},
             cpc' = [cpc EXCEPT ![c] = "returned"],
             \/ result' = [result EXCEPT ![c] = "nil"] /\ (AnswerOf(c) = "ok" \/ c \in Oneway)
             \/ \E e \in ErrorCodes \ {"nil"} : result' = [result EXCEPT ![c] = e],
             UNCHANGED <<reply, connVars>>
      PROVE  G
  <2>1. /\ Phase(c) = "open" /\ Phase(c)' = "ended" /\ SameUp
        /\ AnswerOf(c)' = AnswerOf(c) /\ \A d \in Waiters \ {c} : SameCall(d)
    BY <1>0, <1>1, <1>2, <1>6, PhaseIs, Zenon DEF connVars, SameUp
  <2>2. CASE result'[c] = "nil" /\ (AnswerOf(c) = "ok" \/ c \in Oneway)
    BY <2>1, <2>2, OutcomeIs, ServiceSucceeds, Zenon DEF Service!Next
  <2>3. CASE result'[c] \in ErrorCodes \ {"nil"}
    BY <2>1, <2>3, OutcomeIs, ServiceFails, Zenon DEF Service!Next
  <2> QED
    BY <1>0, <1>6, <2>2, <2>3, Zenon
<1>7. ASSUME NEW c \in Calls, Cancel(c) PROVE G
  BY <1>6, <1>7, Codes, Zenon DEF Cancel, TakeAndFinish, Waiters
<1>8. ASSUME NEW c \in Calls, Return(c) PROVE G
  <2>1. /\ c \in Waiters /\ cpc[c] = "waiting" /\ dones[c] > 0
        /\ result' = [result EXCEPT ![c] = err[c]]
        /\ cpc' = [cpc EXCEPT ![c] = "returned"] /\ UNCHANGED <<reply, connVars>>
    BY <1>8, Zenon DEF Return, Waiters, doneVars
  <2>2. err[c] = "nil" /\ c \notin Oneway => AnswerOf(c) = "ok"
    BY <2>1, AnswerIs, Zenon DEF IInv, ReplyInv
  <2> QED
    BY <1>0, <1>6, <2>1, <2>2, Zenon
<1>9. ASSUME NEW c \in Calls, SendWrite(c) PROVE G
  <2>1. UNCHANGED <<result, reply, connVars>> /\ \A d \in Waiters \ {c} : cpc'[d] = cpc[d]
    BY <1>0, <1>9, Zenon DEF SendWrite, doneVars
  <2>2. cpc'[c] = cpc[c] \/ (c \in Raws /\ cpc[c] = "sending" /\ cpc'[c] = "waiting")
    BY <1>0, <1>9, Zenon DEF SendWrite, AnswerInv
  <2>3. Phase(c)' = Phase(c)
    BY <2>2, PhaseIs, Zenon
  <2>4. \A d \in Waiters : SameCall(d)
    BY <1>1, <1>2, <2>1, <2>3, OutcomeIs, Zenon DEF SameCall
  <2> QED
    BY <1>0, <2>1, <2>4, ServiceStutters, Zenon DEF connVars, SameUp
<1>10. ASSUME NEW c \in Calls, SendWriteFails(c) \/ SendOneway(c) PROVE G
  <2>1. UNCHANGED <<reply, connVars>>
    BY <1>10, Zenon DEF SendWriteFails, SendOneway, TakeAndFinish, TakeAndDone
  <2>2. CASE c \notin Raws
    BY <1>3, <1>10, <2>1, <2>2, Zenon DEF SendWriteFails, SendOneway
  <2>3. CASE c \in Raws
    <3>1. c \in Waiters /\ cpc[c] = "sending" /\ cpc' = [cpc EXCEPT ![c] = "returned"]
      BY <1>0, <1>10, <2>3, Zenon DEF SendWriteFails, SendOneway, AnswerInv
    <3>2. \/ result' = [result EXCEPT ![c] = "write"]
          \/ result' = [result EXCEPT ![c] = "nil"] /\ c \in Oneway
      BY <1>10, <2>3, Zenon DEF SendWriteFails, SendOneway, IInv, ReplyInv
    <3> QED
      BY <1>6, <2>1, <3>1, <3>2, Codes, Zenon
  <2> QED
    BY <2>2, <2>3, Zenon
<1>11. ASSUME NEW m \in requests, NEW e \in ErrorCodes, HandleResponse(m, e) PROVE G
  <2>1. /\ UNCHANGED <<cpc, result, connVars>> /\ ipc = "read"
        /\ \A d \in Calls : reply'[d] = IF d = pending[m[1]] THEN m[2] ELSE reply[d]
    BY <1>11, Zenon DEF HandleResponse, callVars
  <2>2. CASE pending[m[1]] \notin Waiters
    BY <1>0, <1>2, <2>1, <2>2, ServiceStutters, Zenon DEF connVars, SameUp
  <2>3. ASSUME NEW c \in Waiters, c = pending[m[1]] PROVE G
    <3>1. m[1] \in Seqs /\ m[2] \in Calls /\ c # Nil
      BY <1>0, <2>3, Domains DEF IInv, TypeOK, SendTypes
    <3>2. mySeq[c] = m[1] /\ mySeq[m[2]] = m[1] /\ m[1] # Nil
      BY <2>3, <3>1, Domains DEF IInv, PendingInv, RequestInv
    <3>3. c = m[2]
      BY <1>0, <3>1, <3>2 DEF IInv, NumberInv
    <3>4. c \in Pended /\ spc[c] = "end"
      BY <1>0, <2>3, <3>1, <3>3, ZenonT(40) DEF Pended, AnswerInv
    <3>5. reply[c] # c /\ cpc[c] # "idle"
      BY <1>0, <3>4 DEF AnswerInv, IInv, NumberInv
    <3>6. dones[c] = 0 /\ ierr # "panic"
      BY <1>0, <2>1, <2>3, <3>4 DEF IInv, DoneInv, ConnInv, TypeOK, CallTypes
    <3>7. ~(closing \/ shutdown)
      BY <1>0, <2>3, <3>4, <3>6, Zenon DEF NoCallLost
    <3>8. \A d \in Waiters \ {c} : SameCall(d)
      <4> TAKE d \in Waiters \ {c}
      <4>1. d \in Waiters /\ reply'[d] = reply[d] /\ cpc'[d] = cpc[d] /\ result'[d] = result[d]
        BY <1>0, <2>1, <2>3
      <4> QED
        BY <1>2, <4>1, Zenon
    <3>9. Phase(c) # "idle" /\ Phase(c)' = Phase(c) /\ Outcome(c)' = Outcome(c)
      BY <2>1, <2>3, <3>5, PhaseIs, OutcomeIs DEF Phase
    <3>10. AnswerOf(c) = "none" /\ AnswerOf(c)' \in {"ok", "error"}
      BY <1>0, <2>1, <2>3, <3>3, <3>5, AnswerIs, Zenon
    <3>11. Service!Answer(c)
      BY <2>1, <2>3, <3>7, <3>8, <3>9, <3>10, ServiceAnswers, Zenon DEF connVars, SameUp
    <3> QED
      BY <2>3, <3>11, Zenon DEF Service!Next
  <2> QED
    BY <2>2, <2>3, Zenon
<1>12. ASSUME UNCHANGED <<result, reply>>, closing' \/ shutdown',
              \A d \in Waiters : Phase(d)' = Phase(d)
       PROVE  G
  <2>1. \A d \in Waiters : SameCall(d)
    BY <1>1, <1>12, OutcomeIs, Zenon DEF SameCall
  <2> QED
    BY <1>0, <1>12, <2>1, ServiceGoesDown, Zenon DEF Service!Next
<1>13. CASE CloseBody /\ UNCHANGED result /\ \A d \in Waiters : Phase(d)' = Phase(d)
  BY <1>0, <1>12, <1>13, Zenon DEF CloseBody, ConnTypes
<1>14. CASE Close
  BY <1>13, <1>14, PhaseIs, Zenon DEF Close, callVars
<1>15. CASE InputTerminate
  BY <1>12, <1>15, PhaseIs, Zenon DEF InputTerminate, callVars
<1>16. ASSUME NEW h \in Calls, HeartbeatCheck(h) PROVE G
  <2>1. cpc[h] = "returned" /\ cpc'[h] = "checked" /\ \A d \in Waiters \ {h} : cpc'[d] = cpc[d]
    BY <1>0, <1>16, Zenon DEF HeartbeatCheck
  <2>2. \A d \in Waiters : Phase(d)' = Phase(d)
    BY <2>1, PhaseIs, Zenon
  <2>3. CASE CloseBody
    BY <1>13, <1>16, <2>2, <2>3, Zenon DEF HeartbeatCheck
  <2>4. CASE UNCHANGED <<pending, doneVars, connVars>>
    <3>1. \A d \in Waiters : SameCall(d)
      BY <1>1, <1>16, <2>2, <2>4, OutcomeIs, Zenon DEF HeartbeatCheck, doneVars, SameCall
    <3> QED
      BY <1>0, <2>4, <3>1, ServiceStutters, Zenon DEF connVars, SameUp
  <2> QED
    BY <1>16, <2>3, <2>4, Zenon DEF HeartbeatCheck
<1> HIDE DEF G
<1>17. ASSUME NEW c \in Calls, SendStep(c) PROVE G
  BY <1>3, <1>9, <1>10, <1>17, Zenon DEF SendStep, SendRefused, SendRegister, SendStore, SendEncode,
     SendEncodeFails, callVars, doneVars
<1>18. CASE \E c \in Calls : ContextDone(c)
  BY <1>3, <1>18, Zenon DEF ContextDone, doneVars
<1>19. CASE \E m \in requests : HandleResponsePanics(m)
  BY <1>3, <1>19, Zenon DEF HandleResponsePanics, callVars, doneVars
<1>20. CASE \E e \in ErrorCodes : ReadFails(e)
  BY <1>3, <1>20, Zenon DEF ReadFails, callVars, doneVars
<1>21. CASE UNCHANGED vars
  BY <1>3, <1>21, Zenon DEF vars, callVars, doneVars
<1> QED
  BY <1>4, <1>5, <1>7, <1>8, <1>11, <1>14, <1>15, <1>16, <1>17, <1>18, <1>19, <1>20, <1>21,
     Zenon DEF Next

(* Client.Call, Client.SendRaw and the heartbeat implement the safety part *)
(* of the abstract call service: a call is answered at most once and only  *)
(* while the client is up, it returns once, and without an error only when *)
(* it was answered or is one-way.                                          *)
THEOREM ClientIsCallService == Spec => Service!SafeSpec
<1>1. Init => Service!Init
  <2> SUFFICES ASSUME Init PROVE Service!Init
    OBVIOUS
  <2>1. Waiters \subseteq Calls
    BY Domains, Zenon DEF Waiters
  <2>2. \A c \in Waiters : cpc[c] = "idle" /\ result[c] = "none" /\ reply[c] # c
    BY <2>1, Domains, Zenon DEF Init
  <2>3. \A c \in Waiters : Phase(c) = "idle" /\ Outcome(c) = "none" /\ AnswerOf(c) = "none"
    BY <2>2 DEF Phase, Outcome, AnswerOf
  <2> QED
    BY <2>3 DEF Service!Init, Init
<1>2. Init => AnswerInv
  BY Domains DEF Init, AnswerInv, Pended
<1>3. IInv /\ AnswerInv /\ [Next]_vars => AnswerInv'
  BY AnswerStep, Zenon
<1>4. IInv /\ IInv' /\ NoCallLost /\ AnswerInv /\ [Next]_vars => [Service!Next]_(Service!vars)
  BY RefineStep, Zenon DEF IInv, TypeOK
<1> QED
  BY <1>1, <1>2, <1>3, <1>4, Invariance, CallsAreKept, PTL DEF Spec, Service!SafeSpec
=============================================================================

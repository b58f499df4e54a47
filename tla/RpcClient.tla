------------------------------ MODULE RpcClient ------------------------------
(***************************************************************************)
(* client/client.go: one connection multiplexed by many concurrent calls.  *)
(*                                                                         *)
(* A call is registered in the map `pending' under a sequence number,      *)
(* written to the connection by a goroutine of its own (send) or by its    *)
(* caller (SendRaw), and completed by whoever takes it out of the map: the *)
(* reading goroutine (input), a failed write, a cancelled context, Close,  *)
(* or the termination of the reading goroutine, which completes the calls  *)
(* but leaves them in the map.                                             *)
(*                                                                         *)
(* Sections of the code under Client.mutex are single steps, and so is the *)
(* completion (call.Error = ..., call.done()) that follows the removal of  *)
(* a call from the map: nobody else holds the call in between.             *)
(***************************************************************************)
EXTENDS Integers, FiniteSets

CONSTANTS
    Callers,      \* invocations of Client.call
    Heartbeats,   \* those of them made by the heartbeat goroutine
    Asyncs,       \* invocations of Client.Go that nobody waits for (Oneshot)
    Raws,         \* invocations of Client.SendRaw
    Oneway,       \* calls without a reply (Reply == nil, or a one-way message)
    RawSeq,       \* the sequence numbers the users of SendRaw chose
    CtxOf,        \* the context each caller passes
    MaxSeq,       \* bound on client.seq
    Panics,       \* may a codec or a plugin panic while a response is handled?
    Nil

Calls == Callers \cup Asyncs \cup Raws
Contexts == {CtxOf[c] : c \in Callers}
Seqs == 0 .. MaxSeq - 1 \cup {RawSeq[r] : r \in Raws}

ASSUME CallsAssumption ==
    /\ Heartbeats \subseteq Callers
    /\ Oneway \subseteq Calls \ Heartbeats
    /\ Callers \cap (Asyncs \cup Raws) = {}
    /\ Asyncs \cap Raws = {}
    /\ Nil \notin Calls \cup Seqs
    /\ CtxOf = [c \in Callers |-> CtxOf[c]]

(* The users of SendRaw must keep their numbers apart from each other and  *)
(* from the ones Client.send hands out: SendRaw overwrites a pending call  *)
(* that has its number.                                                    *)
ASSUME SeqAssumption ==
    /\ MaxSeq \in Nat \ {0}
    /\ RawSeq \in [Raws -> Nat \ (0 .. MaxSeq - 1)]
    /\ \A q, r \in Raws : RawSeq[q] = RawSeq[r] => q = r
    /\ Panics \in BOOLEAN

VARIABLES
    seq,          \* Client.seq, the next sequence number
    pending,      \* Client.pending
    closing, shutdown, pluginClosed,
    connOpen,     \* Client.Conn has not been closed by this side
    slot,         \* context -> the caller whose seq cell is stored under seqKey
    cseq,         \* caller -> its seq cell, 0 until send stores the number
    mySeq,        \* call -> the number its sender registered it under
    spc,          \* call -> where its sender is
    cpc,          \* call -> where its caller is
    ctxDone,      \* callers (and raw callers) whose context is done
    err,          \* call -> call.Error
    dones,        \* call -> how many times call.done() ran
    reply,        \* call -> the request whose response filled its reply
    result,       \* call -> what its caller returned
    requests,     \* requests on the wire, <<number, call>>
    ipc,          \* where the reading goroutine is
    ierr          \* why the reading goroutine stopped

sendVars == <<spc, mySeq, cseq, slot>>
callVars == <<cpc, ctxDone, result>>
doneVars == <<err, dones, reply>>
connVars == <<closing, shutdown, pluginClosed, connOpen>>
inputVars == <<ipc, ierr>>
vars == <<seq, pending, requests, sendVars, callVars, doneVars, connVars, inputVars>>

ErrorCodes == {"nil", "ctx", "shutdown", "codec", "encode", "write",
               "server", "decode", "panic", "eof", "net"}

SendTypes ==
    /\ seq \in 0 .. MaxSeq
    /\ pending \in [Seqs -> Calls \cup {Nil}]
    /\ requests \in SUBSET (Seqs \X Calls)
    /\ slot \in [Contexts -> Callers \cup {Nil}]
    /\ cseq \in [Callers -> Seqs]
    /\ mySeq \in [Calls -> Seqs \cup {Nil}]
    /\ spc \in [Calls -> {"none", "register", "store", "encode", "write", "oneway", "end"}]

CallTypes ==
    /\ cpc \in [Calls -> {"idle", "sending", "waiting", "returned", "checked"}]
    /\ ctxDone \in SUBSET (Callers \cup Raws)
    /\ result \in [Calls -> ErrorCodes \cup {"none"}]
    /\ err \in [Calls -> ErrorCodes]
    /\ dones \in [Calls -> Nat]
    /\ reply \in [Calls -> Calls \cup {Nil}]

ConnTypes ==
    /\ closing \in BOOLEAN
    /\ shutdown \in BOOLEAN
    /\ pluginClosed \in BOOLEAN
    /\ connOpen \in BOOLEAN
    /\ ipc \in {"read", "terminate", "exited"}
    /\ ierr \in ErrorCodes

(* The variables have the types of the code's fields and local variables.  *)
TypeOK == SendTypes /\ CallTypes /\ ConnTypes

(* Connect has succeeded and started the reading goroutine.               *)
Init ==
    /\ seq = 0
    /\ pending = [s \in Seqs |-> Nil]
    /\ closing = FALSE
    /\ shutdown = FALSE
    /\ pluginClosed = FALSE
    /\ connOpen = TRUE
    /\ slot = [x \in Contexts |-> Nil]
    /\ cseq = [c \in Callers |-> 0]
    /\ mySeq = [c \in Calls |-> Nil]
    /\ spc = [c \in Calls |-> "none"]
    /\ cpc = [c \in Calls |-> "idle"]
    /\ ctxDone = {}
    /\ err = [c \in Calls |-> "nil"]
    /\ dones = [c \in Calls |-> 0]
    /\ reply = [c \in Calls |-> Nil]
    /\ result = [c \in Calls |-> "none"]
    /\ requests = {}
    /\ ipc = "read"
    /\ ierr = "nil"

-----------------------------------------------------------------------------
(* Completion of calls.                                                    *)

Pended == {c \in Calls : \E s \in Seqs : pending[s] = c}

(* call.Error = e; call.done(), for every call of S.                       *)
Finish(S, e) ==
    /\ err' = [c \in Calls |-> IF c \in S THEN e ELSE err[c]]
    /\ dones' = [c \in Calls |-> IF c \in S THEN dones[c] + 1 ELSE dones[c]]

(* call = pending[s]; delete(pending, s); if call != nil, finish it.       *)
TakeAndFinish(s, e) ==
    /\ pending' = [pending EXCEPT ![s] = Nil]
    /\ Finish({pending[s]} \ {Nil}, e)
    /\ UNCHANGED reply

(* The same for a one-way request, which leaves call.Error alone.          *)
TakeAndDone(s) ==
    /\ pending' = [pending EXCEPT ![s] = Nil]
    /\ dones' = [c \in Calls |-> IF c = pending[s] THEN dones[c] + 1 ELSE dones[c]]
    /\ UNCHANGED <<err, reply>>

-----------------------------------------------------------------------------
(* The callers.                                                            *)

(* Client.call: a new seq cell, published in the caller's context under    *)
(* seqKey, then Go, which starts the sending goroutine.                    *)
StartCall(c) ==
    /\ cpc[c] = "idle"
    /\ cpc' = [cpc EXCEPT ![c] = "waiting"]
    /\ slot' = [slot EXCEPT ![CtxOf[c]] = c]
    /\ spc' = [spc EXCEPT ![c] = "register"]
    /\ UNCHANGED <<seq, pending, requests, mySeq, cseq, ctxDone, result,
                   doneVars, connVars, inputVars>>

Call(c) ==
    /\ c \in Callers \ Heartbeats
    /\ StartCall(c)

(* Client.Go without a caller that waits.                                  *)
Go(c) ==
    /\ c \in Asyncs
    /\ cpc[c] = "idle"
    /\ cpc' = [cpc EXCEPT ![c] = "returned"]
    /\ spc' = [spc EXCEPT ![c] = "register"]
    /\ UNCHANGED <<seq, pending, requests, mySeq, cseq, slot, ctxDone, result,
                   doneVars, connVars, inputVars>>

(* SendRaw registers the call under the user's number; unlike send it      *)
(* checks neither closing nor shutdown.                                    *)
SendRaw(c) ==
    /\ c \in Raws
    /\ cpc[c] = "idle"
    /\ cpc' = [cpc EXCEPT ![c] = "sending"]
    /\ pending' = [pending EXCEPT ![RawSeq[c]] = c]
    /\ mySeq' = [mySeq EXCEPT ![c] = RawSeq[c]]
    /\ spc' = [spc EXCEPT ![c] = "write"]
    /\ UNCHANGED <<seq, requests, cseq, slot, ctxDone, result,
                   doneVars, connVars, inputVars>>

(* The context of a call is cancelled or times out.                        *)
ContextDone(c) ==
    /\ c \in Callers \cup Raws
    /\ \/ cpc[c] \in {"sending", "waiting"}
       \/ c \in Heartbeats /\ cpc[c] = "returned"
    /\ c \notin ctxDone
    /\ ctxDone' = ctxDone \cup {c}
    /\ UNCHANGED <<seq, pending, requests, cpc, result,
                   sendVars, doneVars, connVars, inputVars>>

(* The number a caller looks its call up with: call() reads its seq cell,  *)
(* SendRaw its own variable.                                               *)
LookupSeq_NeverStored(c) == IF c \in Raws THEN mySeq[c] ELSE 0
LookupSeq(c) == IF c \in Raws THEN mySeq[c] ELSE cseq[c]

(* select, case <-ctx.Done()                                               *)
Cancel(c) ==
    /\ c \in Callers \cup Raws
    /\ cpc[c] = "waiting"
    /\ c \in ctxDone
    /\ TakeAndFinish(LookupSeq(c), "ctx")
    /\ cpc' = [cpc EXCEPT ![c] = "returned"]
    /\ result' = [result EXCEPT ![c] = "ctx"]
    /\ UNCHANGED <<seq, requests, ctxDone, sendVars, connVars, inputVars>>

(* select, case call := <-Done                                             *)
Return(c) ==
    /\ c \in Callers \cup Raws
    /\ cpc[c] = "waiting"
    /\ dones[c] > 0
    /\ cpc' = [cpc EXCEPT ![c] = "returned"]
    /\ result' = [result EXCEPT ![c] = err[c]]
    /\ UNCHANGED <<seq, pending, requests, ctxDone,
                   sendVars, doneVars, connVars, inputVars>>

-----------------------------------------------------------------------------
(* The sender of a call: Client.send, and the second half of SendRaw.      *)

(* The client is closed, or has no codec for its serialize type.           *)
SendRefused(c) ==
    /\ spc[c] = "register"
    /\ \E e \in {"shutdown", "codec"} :
          /\ (closing \/ shutdown) <=> (e = "shutdown")
          /\ Finish({c}, e)
    /\ spc' = [spc EXCEPT ![c] = "end"]
    /\ UNCHANGED <<seq, pending, requests, mySeq, cseq, slot, reply,
                   callVars, connVars, inputVars>>

(* client.seq++                                                            *)
NextSeq_NotAdvanced == seq
NextSeq == seq + 1

SendRegister(c) ==
    /\ spc[c] = "register"
    /\ ~closing /\ ~shutdown
    /\ seq < MaxSeq
    /\ seq' = NextSeq
    /\ pending' = [pending EXCEPT ![seq] = c]
    /\ mySeq' = [mySeq EXCEPT ![c] = seq]
    /\ spc' = [spc EXCEPT ![c] = "store"]
    /\ UNCHANGED <<requests, cseq, slot, callVars, doneVars, connVars, inputVars>>

(* *cseq = seq: the cell is the one found in the context now, which is     *)
(* another caller's if a call with the same context has started since.     *)
SendStore(c) ==
    /\ spc[c] = "store"
    /\ cseq' = IF c \in Callers THEN [cseq EXCEPT ![slot[CtxOf[c]]] = mySeq[c]]
                                ELSE cseq
    /\ spc' = [spc EXCEPT ![c] = "encode"]
    /\ UNCHANGED <<seq, pending, requests, mySeq, slot,
                   callVars, doneVars, connVars, inputVars>>

SendEncode(c) ==
    /\ spc[c] = "encode"
    /\ spc' = [spc EXCEPT ![c] = "write"]
    /\ UNCHANGED <<seq, pending, requests, mySeq, cseq, slot,
                   callVars, doneVars, connVars, inputVars>>

(* The codec fails: the call is completed whether or not it was pending.   *)
SendEncodeFails(c) ==
    /\ spc[c] = "encode"
    /\ pending' = [pending EXCEPT ![mySeq[c]] = Nil]
    /\ Finish({c}, "encode")
    /\ spc' = [spc EXCEPT ![c] = "end"]
    /\ UNCHANGED <<seq, requests, mySeq, cseq, slot, reply,
                   callVars, connVars, inputVars>>

(* Conn.Write succeeds. SendRaw then starts to wait.                       *)
SendWrite(c) ==
    /\ spc[c] = "write"
    /\ connOpen
    /\ requests' = IF c \in Oneway THEN requests ELSE requests \cup {<<mySeq[c], c>>}
    /\ spc' = [spc EXCEPT ![c] = IF c \in Oneway THEN "oneway" ELSE "end"]
    /\ cpc' = IF c \in Raws \ Oneway THEN [cpc EXCEPT ![c] = "waiting"] ELSE cpc
    /\ UNCHANGED <<seq, pending, mySeq, cseq, slot, ctxDone, result,
                   doneVars, connVars, inputVars>>

(* Conn.Write fails; on a connection closed by this side it always does.   *)
SendWriteFails(c) ==
    /\ spc[c] = "write"
    /\ TakeAndFinish(mySeq[c], "write")
    /\ spc' = [spc EXCEPT ![c] = "end"]
    /\ IF c \in Raws
          THEN /\ cpc' = [cpc EXCEPT ![c] = "returned"]
               /\ result' = [result EXCEPT ![c] = "write"]
          ELSE UNCHANGED <<cpc, result>>
    /\ UNCHANGED <<seq, requests, mySeq, cseq, slot, ctxDone, connVars, inputVars>>

(* A one-way request is complete once written.                             *)
SendOneway(c) ==
    /\ spc[c] = "oneway"
    /\ TakeAndDone(mySeq[c])
    /\ spc' = [spc EXCEPT ![c] = "end"]
    /\ IF c \in Raws
          THEN /\ cpc' = [cpc EXCEPT ![c] = "returned"]
               /\ result' = [result EXCEPT ![c] = "nil"]
          ELSE UNCHANGED <<cpc, result>>
    /\ UNCHANGED <<seq, requests, mySeq, cseq, slot, ctxDone, connVars, inputVars>>

-----------------------------------------------------------------------------
(* The reading goroutine: input and handleResponse.                        *)

(* A response to request m arrives and is handled. The server answers      *)
(* requests in any order. The call found under its number is taken out of  *)
(* the map; the response carries a reply, a server error, a reply with an  *)
(* unknown codec, or a reply that cannot be decoded, which also ends the   *)
(* loop. A response whose call is gone is ignored.                         *)
HandleResponse(m, outcome) ==
    LET call == pending[m[1]] IN
    /\ ipc = "read"
    /\ m \in requests
    /\ outcome \in {"nil", "server"} \cup (IF call \in Raws THEN {} ELSE {"codec", "decode"})
    /\ requests' = requests \ {m}
    /\ pending' = [pending EXCEPT ![m[1]] = Nil]
    /\ Finish({call} \ {Nil}, outcome)
    /\ reply' = [c \in Calls |-> IF c = call THEN m[2] ELSE reply[c]]
    /\ IF outcome = "decode" /\ call # Nil
          THEN ipc' = "terminate" /\ ierr' = "decode"
          ELSE UNCHANGED inputVars
    /\ UNCHANGED <<seq, sendVars, callVars, connVars>>

(* Handling panics after the call was taken out of the map: recover turns  *)
(* the panic into an error that ends the loop.                             *)
HandleResponsePanics(m) ==
    /\ Panics
    /\ ipc = "read"
    /\ m \in requests
    /\ requests' = requests \ {m}
    /\ pending' = [pending EXCEPT ![m[1]] = Nil]
    /\ ipc' = "terminate"
    /\ ierr' = "panic"
    /\ UNCHANGED <<seq, sendVars, callVars, doneVars, connVars>>

(* Reading the next message fails: the peer closed the connection, the     *)
(* network failed, an idle timeout expired, or this side closed it.        *)
ReadFails(e) ==
    /\ ipc = "read"
    /\ e \in {"eof", "net"}
    /\ ipc' = "terminate"
    /\ ierr' = e
    /\ UNCHANGED <<seq, pending, requests, sendVars, callVars, doneVars, connVars>>

(* for _, call := range client.pending                                     *)
TerminatedCalls_None == {}
TerminatedCalls == Pended

(* The end of input: close the connection and complete every pending call, *)
(* without removing it from the map.                                       *)
InputTerminate ==
    /\ ipc = "terminate"
    /\ ipc' = "exited"
    /\ pluginClosed' = TRUE
    /\ connOpen' = FALSE
    /\ shutdown' = TRUE
    /\ Finish(TerminatedCalls, IF ierr = "eof" /\ closing THEN "shutdown" ELSE ierr)
    /\ UNCHANGED <<seq, pending, requests, closing, ierr, reply, sendVars, callVars>>

-----------------------------------------------------------------------------
(* Close, and the heartbeat goroutine that calls it.                       *)

(* delete(client.pending, seq), for every call                             *)
ClosedPending_Kept == pending
ClosedPending == [s \in Seqs |-> Nil]

(* Conn.Close is skipped when the connection was closed before.            *)
ClosedConn_Skipped == connOpen
ClosedConn == connOpen /\ pluginClosed

CloseBody ==
    /\ pending' = ClosedPending
    /\ Finish(Pended, "shutdown")
    /\ pluginClosed' = TRUE
    /\ connOpen' = ClosedConn
    /\ closing' = (closing \/ ~shutdown)
    /\ UNCHANGED <<shutdown, reply>>

Close ==
    /\ CloseBody
    /\ UNCHANGED <<seq, requests, sendVars, callVars, inputVars>>

(* A tick of the heartbeat's timer: one heartbeat at a time, none once the *)
(* client is closing or shut down.                                         *)
HeartbeatTick(h) ==
    /\ h \in Heartbeats
    /\ ~closing /\ ~shutdown
    /\ \A g \in Heartbeats : cpc[g] \in {"idle", "checked"}
    /\ StartCall(h)

(* An error, or a context that is done although the reply arrived.         *)
Abnormal_Ignored(h) == FALSE
Abnormal(h) == result[h] # "nil" \/ h \in ctxDone

(* The heartbeat call has returned: an abnormal one closes the client.     *)
HeartbeatCheck(h) ==
    /\ h \in Heartbeats
    /\ cpc[h] = "returned"
    /\ cpc' = [cpc EXCEPT ![h] = "checked"]
    /\ IF Abnormal(h)
          THEN CloseBody
          ELSE UNCHANGED <<pending, doneVars, connVars>>
    /\ UNCHANGED <<seq, requests, ctxDone, result, sendVars, inputVars>>

-----------------------------------------------------------------------------
SendStep(c) ==
    \/ SendRefused(c)
    \/ SendRegister(c)
    \/ SendStore(c)
    \/ SendEncode(c)
    \/ SendEncodeFails(c)
    \/ SendWrite(c)
    \/ SendWriteFails(c)
    \/ SendOneway(c)

Next ==
    \/ \E c \in Calls :
          \/ Call(c)
          \/ Go(c)
          \/ SendRaw(c)
          \/ ContextDone(c)
          \/ Cancel(c)
          \/ Return(c)
          \/ SendStep(c)
          \/ HeartbeatTick(c)
          \/ HeartbeatCheck(c)
    \/ \E m \in requests :
          \/ \E o \in ErrorCodes : HandleResponse(m, o)
          \/ HandleResponsePanics(m)
    \/ \E e \in ErrorCodes : ReadFails(e)
    \/ InputTerminate
    \/ Close

Spec == Init /\ [][Next]_vars

(* Goroutines that can run do run, a select with a ready case proceeds, a  *)
(* read of a connection this side closed fails, and a heartbeat's context  *)
(* has a timeout. Nothing is assumed of the server, the network, the users *)
(* or the contexts of other calls.                                         *)
Fairness ==
    /\ \A c \in Calls : WF_vars(SendStep(c)) /\ WF_vars(Return(c)) /\ WF_vars(Cancel(c))
    /\ \A h \in Heartbeats : WF_vars(ContextDone(h)) /\ WF_vars(HeartbeatCheck(h))
    /\ WF_vars(~connOpen /\ \E e \in ErrorCodes : ReadFails(e))
    /\ WF_vars(InputTerminate)

FairSpec == Spec /\ Fairness

-----------------------------------------------------------------------------
(* Safety.                                                                 *)

(* A reply reaches the call it answers: the response that completes a call *)
(* is the one to its own request, and Call or SendRaw reports success only *)
(* for a call that was answered (one-way calls aside). Sequence numbers    *)
(* in `pending' (client.go:533-535, 729) are what guarantees it.           *)
OwnReply ==
    /\ \A c \in Calls : reply[c] \in {Nil, c}
    /\ \A c \in (Callers \cup Raws) \ Oneway : result[c] = "nil" => reply[c] = c

(* call.done() runs at most three times for a call (once when it is taken  *)
(* out of `pending', once when input terminates with the call still in it, *)
(* once when encoding fails), so the channel of capacity 10 that call and  *)
(* SendRaw make never discards a signal (client.go:220-226, 320, 400).     *)
DoneNeverDiscarded == \A c \in Calls : dones[c] <= 3

(* A call that was registered and not yet completed is still in `pending', *)
(* where Close and the end of input find it, and once the client is        *)
(* closing or shut down none is left there without having been completed   *)
(* (a SendRaw that has yet to write will complete itself): no caller is    *)
(* left waiting (client.go:656-700, 709-712, 865-871). Only a panic while  *)
(* a response is handled may break it, since the call was taken out of the *)
(* map before (client.go:713-718, 727-733).                                *)
NoCallLost ==
    ierr # "panic" =>
        \A c \in Calls :
            spc[c] \notin {"none", "register"} /\ dones[c] = 0 =>
                /\ c \in Pended
                /\ closing \/ shutdown => c \in Raws /\ spc[c] # "end"

(* Once the client is closing or shut down, no further request reaches the *)
(* wire, although SendRaw does not check the flags (client.go:403-412).    *)
NothingSentAfterClose == [][closing \/ shutdown => requests' \subseteq requests]_vars

(* Cancelling a call whose number has been stored in its cell, by a        *)
(* context no other call uses, removes that call from `pending' and no     *)
(* other (client.go:324-332).                                              *)
Private(c) == \A d \in Callers \ {c} : CtxOf[d] # CtxOf[c]
Stored(c) == mySeq[c] # Nil /\ spc[c] \notin {"register", "store"}
CancelExact ==
    [][\A c \in Callers :
          Private(c) /\ Stored(c) /\ Cancel(c) => Pended' = Pended \ {c}]_vars

-----------------------------------------------------------------------------
(* The inductive invariant behind OwnReply, DoneNeverDiscarded and         *)
(* NoCallLost.                                                             *)

(* A call has a number exactly from its registration on, and no two calls  *)
(* have the same one.                                                      *)
NumberInv ==
    /\ \A c \in Callers \cup Asyncs : mySeq[c] # Nil => mySeq[c] \in 0 .. seq - 1
    /\ \A c \in Raws : mySeq[c] # Nil => mySeq[c] = RawSeq[c]
    /\ \A c, d \in Calls : mySeq[c] # Nil /\ mySeq[c] = mySeq[d] => c = d
    /\ \A c \in Calls : cpc[c] = "idle" => spc[c] = "none"
    /\ \A c \in Raws : cpc[c] # "idle" => mySeq[c] # Nil
    /\ \A c \in Calls : spc[c] \in {"none", "register"} => mySeq[c] = Nil
    /\ \A c \in Calls : spc[c] \in {"store", "encode", "write", "oneway"} => mySeq[c] # Nil

(* `pending' and the wire hold calls under their own numbers.              *)
PendingInv == \A s \in Seqs : pending[s] # Nil => mySeq[pending[s]] = s
RequestInv == \A m \in requests : mySeq[m[2]] = m[1]

(* How often a call can have been completed so far.                        *)
DoneInv ==
    \A c \in Calls :
        /\ dones[c] <= 3
        /\ spc[c] # "end" => dones[c] <= 2
        /\ spc[c] \in {"none", "register"} => dones[c] = 0
        /\ c \in Pended => dones[c] <= IF ipc = "exited" THEN 1 ELSE 0

(* A call completed without an error was answered, or is one-way.          *)
ReplyInv ==
    /\ \A c \in Calls : reply[c] \in {Nil, c}
    /\ \A c \in Calls \ Oneway : dones[c] > 0 /\ err[c] = "nil" => reply[c] = c
    /\ \A c \in (Callers \cup Raws) \ Oneway : result[c] = "nil" => reply[c] = c
    /\ \A c \in Calls : spc[c] = "oneway" => c \in Oneway

(* The flags say that the connection is closed.                            *)
ConnInv ==
    /\ pluginClosed <=> ~connOpen
    /\ closing \/ shutdown => ~connOpen
    /\ ipc = "terminate" => ierr # "nil"
    /\ ipc = "read" => ierr = "nil"

(* The cell of a caller with a context of its own holds its number.        *)
CellInv ==
    /\ \A x \in Contexts : slot[x] # Nil => CtxOf[slot[x]] = x
    /\ \A c \in Callers : Private(c) =>
          /\ spc[c] # "none" => slot[CtxOf[c]] = c
          /\ Stored(c) => cseq[c] = mySeq[c]

IInv ==
    /\ TypeOK
    /\ NumberInv
    /\ PendingInv
    /\ RequestInv
    /\ DoneInv
    /\ ReplyInv
    /\ ConnInv
    /\ CellInv

-----------------------------------------------------------------------------
(* Liveness.                                                               *)

(* A call that waits while a heartbeat is outstanding returns, unless the  *)
(* heartbeat is answered: a server that is gone does not keep callers      *)
(* without a deadline waiting for ever (client.go:837-856).                *)
HeartbeatReleasesCallers ==
    \A c \in Callers, h \in Heartbeats :
        cpc[c] = "waiting" /\ cpc[h] = "waiting" ~> cpc[c] # "waiting" \/ result[h] = "nil"

-----------------------------------------------------------------------------
(* The abstract specification that the client implements, for the calls    *)
(* that somebody waits for.                                                *)
Waiters == Callers \cup Raws

Phase(c) ==
    CASE cpc[c] = "idle" -> "idle"
      [] cpc[c] \in {"sending", "waiting"} -> "open"
      [] OTHER -> "ended"

AnswerOf(c) ==
    CASE reply[c] # c -> "none"
      [] reply[c] = c /\ err[c] = "nil" -> "ok"
      [] OTHER -> "error"

Outcome(c) ==
    CASE result[c] = "none" -> "none"
      [] result[c] = "nil" -> "ok"
      [] OTHER -> "fail"

Service == INSTANCE CallService WITH
    Calls <- Waiters,
    Oneway <- Oneway \cap Waiters,
    phase <- [c \in Waiters |-> Phase(c)],
    answer <- [c \in Waiters |-> AnswerOf(c)],
    outcome <- [c \in Waiters |-> Outcome(c)],
    up <- ~(closing \/ shutdown)

(* Client.Call and Client.SendRaw implement the abstract call service: a   *)
(* call is answered at most once, never after Close or the end of input,   *)
(* it succeeds only when answered, returns once, and returns once the      *)
(* client is down (client.go:304-461, 506-707, 862-891).                   *)
ImplementsCallService == Service!Spec

(* What the implementation rests on, besides IInv and NoCallLost: requests *)
(* on the wire and answered calls have left their senders, an answered     *)
(* call cannot be completed again, and the end of input is the last step   *)
(* of the reading goroutine.                                               *)
AnswerInv ==
    /\ \A m \in requests : spc[m[2]] = "end"
    /\ \A c \in Calls : reply[c] = c => spc[c] = "end" /\ c \notin Pended
    /\ \A c \in Raws : /\ spc[c] \in {"none", "write", "oneway", "end"}
                       /\ spc[c] \in {"write", "oneway"} => cpc[c] = "sending"
    /\ shutdown => ipc = "exited"
=============================================================================

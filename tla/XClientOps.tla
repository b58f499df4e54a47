----------------------------- MODULE XClientOps -----------------------------
(***************************************************************************)
(* client/xclient.go: one operation of an XClient. Call and SendRaw with   *)
(* the four fail modes; Go and Oneshot; Broadcast, Fork and Inform with a  *)
(* goroutine for each server. Which clients the cache hands out is the     *)
(* subject of XClientCache; here it returns a client or an error, as it    *)
(* does unless selection is sticky (XClientCache!ReturnSticky).            *)
(*                                                                         *)
(* Errors are told apart as the code does: "service" (a ServiceError),     *)
(* "ctx" (context.Canceled, context.DeadlineExceeded), "net" (any other    *)
(* error of a call), "select" (no client could be had).                    *)
(***************************************************************************)
EXTENDS Integers, FiniteSets, Sequences

CONSTANTS
    Servers,       \* keys of xClient.servers
    Kinds,         \* operations to consider
    FailModes,     \* fail modes to consider
    RetryCounts,   \* values of Option.Retries to consider
    Nil

Fans == {"Broadcast", "Fork", "Inform"}

ASSUME OpsAssumption ==
    /\ IsFiniteSet(Servers) /\ Nil \notin Servers
    /\ Kinds \subseteq Fans \cup {"Call", "SendRaw", "Go", "Oneshot"}
    /\ FailModes \subseteq {"Failover", "Failfast", "Failtry", "Failbackup"}
    /\ RetryCounts \subseteq Nat

VARIABLES
    kind,          \* the operation
    failMode,      \* xClient.failMode
    limit,         \* Option.Retries
    pc,            \* where the goroutine of the operation is
    retries,       \* the loop counter of Failtry and Failover
    client,        \* there is a client to call
    err,           \* the variable err of Call and SendRaw
    e,             \* the variable e of Call and SendRaw
    sent,          \* which calls of Go, Oneshot or Failbackup were sent
    attempts,      \* outcomes of the calls made so far
    result,        \* what the operation returned
    reply,         \* whose reply was copied to the caller's
    gpc,           \* server -> where the goroutine of Broadcast is
    gerr,          \* server -> the outcome of its call
    done,          \* the channel done
    left,          \* the variable l
    multi,         \* servers whose error was appended to the MultiError
    receipts       \* servers that have a receipt

callVars == <<retries, client, err, e, sent, attempts>>
fanVars == <<gpc, gerr, done, left, multi, receipts>>
confVars == <<kind, failMode, limit>>
vars == <<confVars, pc, callVars, result, reply, fanVars>>

Outcomes == {"nil", "service", "ctx", "net"}

Init ==
    /\ kind \in Kinds
    /\ failMode \in FailModes
    /\ limit \in RetryCounts
    /\ pc = "start"
    /\ retries = limit
    /\ client = FALSE
    /\ err = "nil" /\ e = "nil"
    /\ sent = {}
    /\ attempts = <<>>
    /\ result = "none"
    /\ reply = Nil
    /\ gpc = [k \in Servers |-> "none"]
    /\ gerr = [k \in Servers |-> "none"]
    /\ done = <<>>
    /\ left = 0
    /\ multi = {}
    /\ receipts = {}

-----------------------------------------------------------------------------
(* Call and SendRaw.                                                       *)

Returns(r) == pc' = "end" /\ result' = r

(* Operations of a shut down XClient return ErrXClientShutdown.            *)
Shutdown ==
    /\ pc = "start"
    /\ Returns("shutdown")
    /\ UNCHANGED <<confVars, callVars, reply, fanVars>>

(* selectClient; Failfast returns its error.                               *)
ModePc ==
    CASE failMode \in {"Failtry", "Failover"} -> "loop"
      [] failMode = "Failbackup" /\ kind = "Call" -> "backup"
      [] OTHER -> "fast"

Select ==
    /\ pc = "start" /\ kind \in {"Call", "SendRaw"}
    /\ \/ /\ client' = TRUE
          /\ pc' = ModePc
          /\ UNCHANGED <<err, result>>
       \/ /\ client' = FALSE
          /\ err' = "select"
          /\ IF failMode = "Failfast" THEN Returns("select")
             ELSE pc' = ModePc /\ UNCHANGED result
    /\ UNCHANGED <<confVars, retries, e, sent, attempts, reply, fanVars>>

(* Go and Oneshot select a client and send the request; whoever holds the  *)
(* Call that Go returns waits for it, nobody does for that of Oneshot.     *)
Go ==
    /\ pc = "start" /\ kind = "Go"
    /\ \/ Returns("select") /\ UNCHANGED sent
       \/ Returns("nil") /\ sent' = {1}
    /\ UNCHANGED <<confVars, retries, client, err, e, attempts, reply, fanVars>>

Oneshot ==
    /\ pc = "start" /\ kind = "Oneshot"
    /\ \/ Returns("select") /\ UNCHANGED sent
       \/ Returns("nil") /\ sent' = {1}
    /\ UNCHANGED <<confVars, retries, client, err, e, attempts, reply, fanVars>>

(* The condition of the loop of Failtry and Failover.                      *)
Remaining == retries >= 0

(* The loop ends with err, or with e without one.                          *)
LoopEnds ==
    /\ pc = "loop" /\ ~Remaining
    /\ Returns(IF err = "nil" THEN e ELSE err)
    /\ UNCHANGED <<confVars, callVars, reply, fanVars>>

LoopTop ==
    /\ pc = "loop" /\ Remaining
    /\ retries' = retries - 1
    /\ pc' = IF client THEN "call" ELSE "again"
    /\ UNCHANGED <<confVars, client, err, e, sent, attempts, result, reply, fanVars>>

(* wrapCall or wrapSendRaw of the loop. SendRaw declares an err of its own *)
(* there, so that the outer one keeps its value.                           *)
AttemptErr_Lost(o) == err
AttemptErr(o) == IF kind = "Call" THEN o ELSE err

(* Only errors that are neither of the service nor of the context retry.   *)
ContextCanceled(o) == o = "ctx"
Retried_Service(o) == o \notin {"nil", "ctx"}
Retried(o) == o # "nil" /\ ~ContextCanceled(o) /\ o # "service"

Attempt ==
    /\ pc = "call"
    /\ \E o \in Outcomes :
          /\ attempts' = Append(attempts, o)
          /\ err' = AttemptErr(o)
          /\ reply' = IF o = "nil" THEN "call" ELSE reply
          /\ IF Retried(o) THEN pc' = "again" /\ UNCHANGED result ELSE Returns(o)
    /\ UNCHANGED <<confVars, retries, client, e, sent, fanVars>>

(* removeClient, then Failtry takes a client of the same server and        *)
(* Failover selects one. uncoverError(err) holds, also for a nil err.      *)
Again ==
    /\ pc = "again"
    /\ pc' = "loop"
    /\ \/ client' = TRUE /\ e' = "nil"
       \/ client' = FALSE /\ e' = "select"
    /\ UNCHANGED <<confVars, retries, err, sent, attempts, result, reply, fanVars>>

(* Failfast: one call. SendRaw drops its error; Failbackup of SendRaw gets *)
(* here, perhaps without a client (ErrServerUnavailable).                  *)
Fast ==
    /\ pc = "fast"
    /\ IF client
          THEN \E o \in Outcomes :
                  /\ attempts' = Append(attempts, o)
                  /\ reply' = IF o = "nil" THEN "call" ELSE reply
                  /\ Returns(IF kind = "Call" THEN o ELSE "nil")
          ELSE /\ Returns("nil")
               /\ UNCHANGED <<attempts, reply>>
    /\ UNCHANGED <<confVars, retries, client, err, e, sent, fanVars>>

(* Failbackup: the first Go, whose error is kept in err1.                  *)
BackupGo ==
    /\ pc = "backup"
    /\ pc' = "wait1"
    /\ sent' \in {{}, {1}}
    /\ UNCHANGED <<confVars, retries, client, err, e, attempts, result, reply, fanVars>>

(* The timer fires: the second Go. When it fails err1 is returned, nil if  *)
(* the first call was sent.                                                *)
BackupAgain ==
    /\ pc = "wait1"
    /\ \/ /\ pc' = "wait2"
          /\ sent' = sent \cup {2}
          /\ UNCHANGED result
       \/ /\ Returns(IF 1 \in sent THEN "nil" ELSE "select")
          /\ UNCHANGED sent
    /\ UNCHANGED <<confVars, retries, client, err, e, attempts, reply, fanVars>>

(* The context is done, or one of the calls ends.                          *)
BackupEnds ==
    /\ pc \in {"wait1", "wait2"}
    /\ \/ /\ Returns("ctx")
          /\ UNCHANGED <<attempts, reply>>
       \/ /\ sent # {}
          /\ \E o \in Outcomes :
                /\ attempts' = Append(attempts, o)
                /\ reply' = IF o = "nil" THEN "call" ELSE reply
                /\ Returns(o)
    /\ UNCHANGED <<confVars, retries, client, err, e, sent, fanVars>>

-----------------------------------------------------------------------------
(* Broadcast, Fork and Inform.                                             *)

(* A client for each server, but servers that cannot be reached are left   *)
(* out; a goroutine for each client.                                       *)
FanOut ==
    /\ pc = "start" /\ kind \in Fans
    /\ \E R \in SUBSET Servers :
          /\ gpc' = [k \in Servers |-> IF k \in R THEN "call" ELSE "none"]
          /\ left' = Cardinality(R)
          /\ IF R = {} THEN Returns("select") ELSE pc' = "wait" /\ UNCHANGED result
    /\ UNCHANGED <<confVars, callVars, reply, gerr, done, multi, receipts>>

(* The goroutine of a server: what it does, in order.                      *)
Steps_DoneFirst(o) ==
    IF o = "nil"
       THEN CASE kind = "Inform" -> <<"call", "done", "reply", "receipt", "end">>
              [] OTHER -> <<"call", "done", "reply", "end">>
       ELSE CASE kind = "Inform" -> <<"call", "done", "append", "receipt", "end">>
              [] OTHER -> <<"call", "done", "append", "end">>
Steps(o) ==
    IF o = "nil"
       THEN CASE kind = "Broadcast" -> <<"call", "done", "reply", "end">>
              [] kind = "Fork" -> <<"call", "reply", "done", "end">>
              [] kind = "Inform" -> <<"call", "done", "reply", "receipt", "end">>
       ELSE CASE kind = "Inform" -> <<"call", "done", "append", "receipt", "end">>
              [] OTHER -> <<"call", "done", "append", "end">>

Advances(k, o) ==
    LET i == CHOOSE j \in 1 .. Len(Steps(o)) : Steps(o)[j] = gpc[k]
    IN  gpc' = [gpc EXCEPT ![k] = Steps(o)[i + 1]]

GoCall(k) ==
    /\ gpc[k] = "call"
    /\ \E o \in Outcomes : gerr' = [gerr EXCEPT ![k] = o] /\ Advances(k, o)
    /\ UNCHANGED <<confVars, pc, callVars, result, reply, done, left, multi, receipts>>

(* done <- (e == nil); done has room for every goroutine.                  *)
DoneCap_One == 1
DoneCap == Cardinality({k \in Servers : gpc[k] # "none"})

GoDone(k) ==
    /\ gpc[k] = "done"
    /\ Len(done) < DoneCap
    /\ done' = Append(done, gerr[k] = "nil")
    /\ Advances(k, gerr[k])
    /\ UNCHANGED <<confVars, pc, callVars, result, reply, gerr, left, multi, receipts>>

(* removeClient and err.Append(e).                                         *)
GoAppend(k) ==
    /\ gpc[k] = "append"
    /\ multi' = multi \cup {k}
    /\ Advances(k, gerr[k])
    /\ UNCHANGED <<confVars, pc, callVars, result, reply, gerr, done, left, receipts>>

(* replyOnce.Do                                                            *)
GoReply(k) ==
    /\ gpc[k] = "reply"
    /\ reply' = IF reply = Nil THEN k ELSE reply
    /\ Advances(k, gerr[k])
    /\ UNCHANGED <<confVars, pc, callVars, result, gerr, done, left, multi, receipts>>

GoReceipt(k) ==
    /\ gpc[k] = "receipt"
    /\ receipts' = receipts \cup {k}
    /\ Advances(k, gerr[k])
    /\ UNCHANGED <<confVars, pc, callVars, result, reply, gerr, done, left, multi>>

(* The operation receives from done.                                       *)
Receive ==
    /\ pc = "wait" /\ done # <<>>
    /\ done' = Tail(done)
    /\ left' = left - 1
    /\ IF kind = "Fork" /\ Head(done) THEN Returns("nil")
       ELSE /\ pc' = IF left' = 0 \/ (kind = "Broadcast" /\ ~Head(done)) THEN "check" ELSE "wait"
            /\ UNCHANGED result
    /\ UNCHANGED <<confVars, callVars, reply, gpc, gerr, multi, receipts>>

(* A minute has passed.                                                    *)
Timeout ==
    /\ pc = "wait"
    /\ multi' = multi \cup {"timeout"}
    /\ pc' = "check"
    /\ UNCHANGED <<confVars, callVars, result, reply, gpc, gerr, done, left, receipts>>

(* err.ErrorOrNil()                                                        *)
FanReturns ==
    /\ pc = "check"
    /\ Returns(IF multi = {} THEN "nil" ELSE "multi")
    /\ UNCHANGED <<confVars, callVars, reply, fanVars>>

-----------------------------------------------------------------------------
GoStep(k) == GoDone(k) \/ GoAppend(k) \/ GoReply(k) \/ GoReceipt(k)

Next ==
    \/ Shutdown \/ Select \/ Go \/ Oneshot
    \/ LoopTop \/ Attempt \/ Again \/ LoopEnds
    \/ Fast
    \/ BackupGo \/ BackupAgain \/ BackupEnds
    \/ FanOut \/ Receive \/ Timeout \/ FanReturns
    \/ \E k \in Servers : GoCall(k) \/ GoStep(k)

Spec == Init /\ [][Next]_vars

(* The goroutine of the operation and the goroutines it starts run, and    *)
(* the timer fires. Nothing makes a server answer (GoCall).                *)
Fairness ==
    /\ WF_vars(Receive) /\ WF_vars(Timeout) /\ WF_vars(FanReturns)
    /\ \A k \in Servers : WF_vars(GoStep(k))

FairSpec == Spec /\ Fairness

-----------------------------------------------------------------------------
(* The variables have the types of the local variables.                    *)
TypeOK ==
    /\ kind \in Kinds /\ failMode \in FailModes /\ limit \in RetryCounts
    /\ pc \in {"start", "loop", "call", "again", "fast", "backup", "wait1", "wait2", "wait",
               "check", "end"}
    /\ retries \in -1 .. limit
    /\ client \in BOOLEAN
    /\ err \in Outcomes \cup {"select"} /\ e \in {"nil", "select"}
    /\ sent \subseteq {1, 2}
    /\ attempts \in Seq(Outcomes)
    /\ result \in Outcomes \cup {"none", "select", "shutdown", "multi"}
    /\ reply \in Servers \cup {Nil, "call"}
    /\ gpc \in [Servers -> {"none", "call", "done", "append", "reply", "receipt", "end"}]
    /\ gerr \in [Servers -> Outcomes \cup {"none"}]
    /\ done \in Seq(BOOLEAN)
    /\ left \in 0 .. Cardinality(Servers)
    /\ multi \subseteq Servers \cup {"timeout"}
    /\ receipts \subseteq Servers

(* Call returns what its last attempt returned: nil only when a server     *)
(* answered, and a service's error even after other attempts failed        *)
(* (xclient.go:602-657, 712-720). Failbackup is excepted.                  *)
CallResult ==
    kind = "Call" /\ failMode # "Failbackup" /\ pc = "end" =>
        IF attempts = <<>> THEN result \in {"select", "shutdown"}
        ELSE result = attempts[Len(attempts)]

(* A request is repeated only if every earlier attempt failed with neither *)
(* a reply, nor an error of the service, nor a done context, and at most   *)
(* Option.Retries times (xclient.go:604-622, 631-651, 817-838).            *)
NoRetryAfterAnswer ==
    /\ Len(attempts) <= limit + 1
    /\ \A i \in 1 .. Len(attempts) - 1 : attempts[i] = "net"

(* When Fork returns nil the caller's reply has been set, unless every     *)
(* server failed (xclient.go:1072-1078).                                   *)
ForkReply ==
    kind = "Fork" /\ result = "nil" =>
        reply # Nil \/ \A k \in Servers : gerr[k] # "nil"

(* "Broadcast sends requests to all servers and Success only when all      *)
(* servers return OK" (xclient.go:931), for the servers it has sent the    *)
(* request to.                                                             *)
BroadcastSuccess ==
    kind = "Broadcast" /\ result = "nil" =>
        \A k \in Servers : gpc[k] # "none" => gerr[k] = "nil"

(* Broadcast, Fork and Inform return even if no server ever answers, and   *)
(* each goroutine whose call has ended runs to its end although nobody     *)
(* receives from done any more (xclient.go:974, 1000-1017).                *)
FanEnds ==
    /\ pc = "wait" ~> pc = "end"
    /\ \A k \in Servers : gerr[k] # "none" ~> gpc[k] = "end"

-----------------------------------------------------------------------------
(* The inductive invariant behind the three invariants above.              *)

(* Which operation and fail mode lead to which part of the code.           *)
WhereInv ==
    /\ pc \in {"loop", "call", "again"} => failMode \in {"Failtry", "Failover"}
    /\ pc \in {"loop", "call", "again", "fast"} => kind \in {"Call", "SendRaw"}
    /\ pc = "fast" /\ kind = "Call" => failMode = "Failfast" /\ client
    /\ pc \in {"backup", "wait1", "wait2"} => kind = "Call" /\ failMode = "Failbackup"
    /\ pc \in {"wait", "check"} => kind \in Fans
    /\ pc # "end" => result = "none"

(* An iteration of the loop makes at most one attempt. All attempts but    *)
(* the one that ended the operation have failed with an error that lets    *)
(* the code go on.                                                         *)
AttemptsInv ==
    /\ pc = "loop" => retries + Len(attempts) <= limit
    /\ pc = "call" => retries + Len(attempts) < limit
    /\ pc = "again" => retries + Len(attempts) <= limit
    /\ pc \in {"start", "fast", "backup", "wait1", "wait2"} => attempts = <<>>
    /\ pc = "start" => retries = limit
    /\ pc \in {"loop", "call", "again"} => \A i \in 1 .. Len(attempts) : attempts[i] = "net"
    /\ NoRetryAfterAnswer

(* What the variable err of Call knows of the attempts.                    *)
ErrInv ==
    kind = "Call" /\ pc \in {"loop", "call", "again"} =>
        IF attempts # <<>> THEN err = "net"
        ELSE \/ err = "select"
             \/ pc = "loop" /\ client /\ retries = limit
             \/ pc = "call"

(* The goroutines of Broadcast, Fork and Inform that have yet to send to   *)
(* done: what the operation can still receive is sent by them or is in the *)
(* channel already, which has room for it.                                 *)
Started == {k \in Servers : gpc[k] # "none"}
Unsent == {k \in Servers : gpc[k] \in {"call", "done"} \/ (kind = "Fork" /\ gpc[k] = "reply")}

FanInv ==
    /\ pc = "start" \/ kind \notin Fans => Started = {} /\ done = <<>>
    /\ Cardinality(Unsent) + Len(done) <= Cardinality(Started)
    /\ pc = "wait" => left = Cardinality(Unsent) + Len(done)
    /\ \A k \in Servers : gerr[k] = "none" <=> gpc[k] \in {"none", "call"}
    /\ \A k \in Servers : gpc[k] = "reply" => gerr[k] = "nil"
    /\ \A k \in Servers : gpc[k] = "append" => gerr[k] # "nil"
    /\ \A k \in Servers : gpc[k] = "receipt" => kind = "Inform"

(* A goroutine of Fork sets the reply before it sends to done.             *)
ForkInv ==
    kind = "Fork" =>
        /\ \A k \in Servers : gerr[k] = "nil" /\ gpc[k] # "reply" => reply # Nil
        /\ (\E i \in 1 .. Len(done) : done[i]) => reply # Nil
        /\ pc = "check" => multi # {} \/ Unsent = {}
        /\ result = "nil" => reply # Nil \/ Unsent = {}

IInv == TypeOK /\ WhereInv /\ AttemptsInv /\ CallResult /\ ErrInv /\ FanInv /\ ForkInv
=============================================================================

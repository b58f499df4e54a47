------------------------------ MODULE Transfer ------------------------------
(***************************************************************************)
(* Files and streams: server/file_transfer.go and server/stream.go with    *)
(* SendFile, DownloadFile and Stream of client/xclient.go, reached through *)
(* a pool of OneClients (module OneClient).                                *)
(*                                                                         *)
(* A user asks the service for a token by an RPC, dials the address of the *)
(* reply and sends the token as the first bytes of the new connection. One *)
(* goroutine per service accepts the connections, reads the token, looks   *)
(* it up in an LRU cache of waitNum tokens and starts the handler. Every   *)
(* user dials at most once, so a connection bears the name of its user.    *)
(*                                                                         *)
(* Stop is not an action: it closes the channel done, which nothing ever   *)
(* makes, so it panics and changes nothing; for the same reason the case   *)
(* <-s.done of the accept loop is never taken.                             *)
(***************************************************************************)
EXTENDS OneClient, Sequences

CONSTANTS
    KindOf,     \* user -> "SendFile", "DownloadFile", "Stream" or "Call"
    WaitNum,    \* service -> the size of its cache of tokens
    Handlers,   \* the kinds with a handler that is not nil
    Size,       \* chunks of a file
    MaxTokens   \* bound on the tokens a service issues

Transfers == {u \in Users : KindOf[u] # "Call"}
Services == {PathOf[u] : u \in Transfers}

ASSUME TransferAssumption ==
    /\ KindOf \in [Users -> {"SendFile", "DownloadFile", "Stream", "Call"}]
    /\ \A u, v \in Transfers : PathOf[u] = PathOf[v] => (KindOf[u] = "Stream") = (KindOf[v] = "Stream")
    /\ WaitNum \in [Services -> Nat]
    /\ Handlers \subseteq {"SendFile", "DownloadFile", "Stream"}
    /\ Size \in Nat
    /\ MaxTokens \in Nat

VARIABLES
    apc,        \* service -> where its accept loop is
    listening,  \* services whose listener is open
    cachedTokens, \* service -> the tokens in the cache, least recently used first
    issued,     \* service -> the user each of its tokens was made for
    token,      \* user -> the token in its reply, 0 for none
    backlog,    \* service -> connections not yet accepted
    conn,       \* service -> the connection its loop has accepted
    sent,       \* users whose token is on the wire
    near, far,  \* user -> its end of the connection, and the server's
    handled,    \* user -> the handler and the arguments its connection was given to
    refused,    \* users whose token was not in the cache
    written,    \* user -> chunks written by the sender of the file
    got,        \* user -> chunks DownloadFile has saved
    ctxDone,    \* users whose context is done
    result      \* user -> what it returned

acceptVars == <<apc, listening, cachedTokens, issued, backlog, conn>>
linkVars == <<token, sent, near, far, handled, refused>>
dataVars == <<written, got, ctxDone, result>>
vars == <<oneVars, acceptVars, linkVars, dataVars>>

Service(u) == PathOf[u]

(* A service that nobody uses is never enabled.                            *)
Init ==
    /\ OneInit
    /\ apc = [s \in Services |->
                 IF \E u \in Transfers : Service(u) = s /\ upc[u] # "absent" THEN "off" ELSE "failed"]
    /\ listening = {}
    /\ cachedTokens = [s \in Services |-> <<>>]
    /\ issued = [s \in Services |-> <<>>]
    /\ backlog = [s \in Services |-> <<>>]
    /\ conn = [s \in Services |-> nil]
    /\ token = [u \in Users |-> 0]
    /\ sent = {}
    /\ near = [u \in Users |-> "none"]
    /\ far = [u \in Users |-> "none"]
    /\ handled = [u \in Users |-> <<>>]
    /\ refused = {}
    /\ written = [u \in Users |-> 0]
    /\ got = [u \in Users |-> 0]
    /\ ctxDone = {}
    /\ result = [u \in Users |-> "none"]

(* A user returns; SendFile and DownloadFile close their connection, as    *)
(* Stream does when it fails.                                              *)
Return(u, r) ==
    /\ upc' = [upc EXCEPT ![u] = "end"]
    /\ result' = [result EXCEPT ![u] = r]
    /\ near' = [near EXCEPT ![u] =
                   IF @ = "open" /\ (KindOf[u] # "Stream" \/ r # "nil") THEN "closed" ELSE @]

-----------------------------------------------------------------------------
(* The service: EnableFileTransfer and EnableStreamService, the RPCs, and  *)
(* the accept loop.                                                        *)

Streaming(s) == \E u \in Transfers : Service(u) = s /\ KindOf[u] = "Stream"

Start(s) ==
    /\ apc[s] = "off"
    /\ apc' = [apc EXCEPT ![s] = "listen"]
    /\ UNCHANGED <<oneVars, listening, cachedTokens, issued, backlog, conn, linkVars, dataVars>>

EnableFileTransfer(s) == ~Streaming(s) /\ Start(s)
EnableStreamService(s) == Streaming(s) /\ Start(s)

(* The goroutine of start listens; nobody sees its error.                  *)
Listen(s) ==
    /\ apc[s] = "listen"
    /\ \/ apc' = [apc EXCEPT ![s] = "accept"] /\ listening' = listening \cup {s}
       \/ apc' = [apc EXCEPT ![s] = "failed"] /\ UNCHANGED listening
    /\ UNCHANGED <<oneVars, cachedTokens, issued, backlog, conn, linkVars, dataVars>>

(* lru.Cache.Add: a full cache drops its least recently used entry.        *)
LruAdd(c, t, n) == Append(IF Len(c) >= n THEN Tail(c) ELSE c, t)

Cached(c, t) == \E i \in 1 .. Len(c) : c[i] = t

(* lru.Cache.Remove: the entries after it move up.                         *)
LruRemove(c, t) ==
    LET i == CHOOSE j \in 1 .. Len(c) : c[j] = t
    IN  IF Cached(c, t) THEN [j \in 1 .. Len(c) - 1 |-> c[IF j < i THEN j ELSE j + 1]] ELSE c

(* lru.Cache.Get makes its entry the most recently used one.               *)
LruGet(c, t) == Append(LruRemove(c, t), t)

(* A token for user u is made and added; the reply arrives, is lost, or is *)
(* lost and the call repeated. Without a cache (lru.New fails for a size   *)
(* of 0) the method panics, and the call fails.                            *)
Issue(u) ==
    LET s == Service(u)
        t == Len(issued[s]) + 1
    IN
    /\ upc[u] = "call"
    /\ apc[s] # "off" /\ x[u] \notin shutDown
    /\ WaitNum[s] > 0 /\ t <= MaxTokens
    /\ issued' = [issued EXCEPT ![s] = Append(@, u)]
    /\ cachedTokens' = [cachedTokens EXCEPT ![s] = LruAdd(@, t, WaitNum[s])]
    /\ \/ /\ token' = [token EXCEPT ![u] = t]
          /\ upc' = [upc EXCEPT ![u] = "dial"]
          /\ UNCHANGED <<near, result>>
       \/ Return(u, "error") /\ UNCHANGED token
       \/ UNCHANGED <<token, upc, near, result>>
    /\ UNCHANGED <<index, oc, x, xclientVars, setterVars, apc, listening, backlog, conn,
                   sent, far, handled, refused, written, got, ctxDone>>

(* The methods of the services. NewStreamService does not keep its         *)
(* acceptor, so Stream accepts every client.                               *)
TransferFile(u) == KindOf[u] = "SendFile" /\ Issue(u)
DownloadFile(u) == KindOf[u] = "DownloadFile" /\ Issue(u)
Stream(u) == KindOf[u] = "Stream" /\ Issue(u)

(* The file cannot be opened, or c.Call fails: no server, a closed         *)
(* XClient, an error of the service.                                       *)
CallFails(u) ==
    /\ upc[u] = "call" /\ u \in Transfers
    /\ Return(u, "error")
    /\ UNCHANGED <<index, oc, x, xclientVars, setterVars, acceptVars,
                   token, sent, far, handled, refused, written, got, ctxDone>>

(* Accept returns a connection. (A temporary error is retried after a      *)
(* pause and changes nothing.)                                             *)
Accept(s) ==
    /\ apc[s] = "accept" /\ backlog[s] # <<>>
    /\ apc' = [apc EXCEPT ![s] = "token"]
    /\ conn' = [conn EXCEPT ![s] = Head(backlog[s])]
    /\ backlog' = [backlog EXCEPT ![s] = Tail(@)]
    /\ UNCHANGED <<oneVars, listening, cachedTokens, issued, linkVars, dataVars>>

(* Accept fails for good: the goroutine ends, the listener stays open.     *)
AcceptFails(s) ==
    /\ apc[s] = "accept"
    /\ apc' = [apc EXCEPT ![s] = "failed"]
    /\ UNCHANGED <<oneVars, listening, cachedTokens, issued, backlog, conn, linkVars, dataVars>>

(* `continue': the loop goes on to the next connection.                    *)
Continue_Returns == "returned"
Continue == "accept"

(* io.ReadFull returns the token; Get finds it, or the connection is       *)
(* closed.                                                                 *)
ReadToken(s) ==
    LET u == conn[s] IN
    /\ apc[s] = "token" /\ u \in sent
    /\ IF Cached(cachedTokens[s], token[u])
          THEN /\ apc' = [apc EXCEPT ![s] = "found"]
               /\ cachedTokens' = [cachedTokens EXCEPT ![s] = LruGet(@, token[u])]
               /\ UNCHANGED <<conn, far, refused>>
          ELSE /\ apc' = [apc EXCEPT ![s] = Continue]
               /\ conn' = [conn EXCEPT ![s] = nil]
               /\ far' = [far EXCEPT ![u] = "closed"]
               /\ refused' = refused \cup {u}
               /\ UNCHANGED cachedTokens
    /\ UNCHANGED <<oneVars, listening, issued, backlog, token, sent, near, handled, dataVars>>

(* io.ReadFull fails: the user's end was closed before the token was sent. *)
ReadTokenFails(s) ==
    LET u == conn[s] IN
    /\ apc[s] = "token" /\ u \notin sent /\ near[u] = "closed"
    /\ apc' = [apc EXCEPT ![s] = Continue]
    /\ conn' = [conn EXCEPT ![s] = nil]
    /\ far' = [far EXCEPT ![u] = "closed"]
    /\ UNCHANGED <<oneVars, listening, cachedTokens, issued, backlog, token, sent, near,
                   handled, refused, dataVars>>

(* The token is used up.                                                   *)
Used_Oldest(c, t) == Tail(c)
Used(c, t) == LruRemove(c, t)

(* The handler is started with the arguments of the request the token was  *)
(* made for, or the connection is closed because the handler is nil.       *)
StartHandler(s) ==
    LET u == conn[s]
        asked == issued[s][token[u]]
    IN
    /\ apc[s] = "found"
    /\ cachedTokens' = [cachedTokens EXCEPT ![s] = Used(@, token[u])]
    /\ IF KindOf[asked] \in Handlers
          THEN /\ handled' = [handled EXCEPT ![u] = Append(@, asked)]
               /\ far' = [far EXCEPT ![u] = "open"]
          ELSE /\ far' = [far EXCEPT ![u] = "closed"]
               /\ UNCHANGED handled
    /\ apc' = [apc EXCEPT ![s] = Continue]
    /\ conn' = [conn EXCEPT ![s] = nil]
    /\ UNCHANGED <<oneVars, listening, issued, backlog, token, sent, near, refused, dataVars>>

DispatchFile(s) == ~Streaming(s) /\ StartHandler(s)
DispatchStream(s) == Streaming(s) /\ StartHandler(s)

-----------------------------------------------------------------------------
(* The user: net.DialTimeout, the token, and the transfer itself.          *)

Dial(u) ==
    /\ upc[u] = "dial" /\ Service(u) \in listening
    /\ near' = [near EXCEPT ![u] = "open"]
    /\ far' = [far EXCEPT ![u] = "backlog"]
    /\ backlog' = [backlog EXCEPT ![Service(u)] = Append(@, u)]
    /\ upc' = [upc EXCEPT ![u] = "token"]
    /\ UNCHANGED <<index, oc, x, xclientVars, setterVars, apc, listening, cachedTokens, issued,
                   conn, token, sent, handled, refused, dataVars>>

(* Dialling fails or takes longer than ConnectTimeout, or writing the      *)
(* token fails.                                                            *)
ConnectFails(u) ==
    /\ upc[u] \in {"dial", "token"}
    /\ Return(u, "error")
    /\ UNCHANGED <<index, oc, x, xclientVars, setterVars, acceptVars,
                   token, sent, far, handled, refused, written, got, ctxDone>>

(* Stream returns the connection, the others go on to transfer the file.   *)
WriteToken(u) ==
    /\ upc[u] = "token"
    /\ sent' = sent \cup {u}
    /\ IF KindOf[u] = "Stream"
          THEN Return(u, "nil")
          ELSE upc' = [upc EXCEPT ![u] = "transfer"] /\ UNCHANGED <<near, result>>
    /\ UNCHANGED <<index, oc, x, xclientVars, setterVars, acceptVars, token, far, handled,
                   refused, written, got, ctxDone>>

(* The user's machine or the network stops before the token is sent, and   *)
(* nothing closes the connection.                                          *)
Stalls(u) ==
    /\ upc[u] = "token"
    /\ upc' = [upc EXCEPT ![u] = "stalled"]
    /\ UNCHANGED <<index, oc, x, xclientVars, setterVars, acceptVars, linkVars, dataVars>>

ContextDone(u) ==
    /\ upc[u] \in {"transfer", "reading"} /\ u \notin ctxDone
    /\ ctxDone' = ctxDone \cup {u}
    /\ UNCHANGED <<oneVars, acceptVars, linkVars, written, got, result>>

Moving(u, kind) == upc[u] = "transfer" /\ KindOf[u] = kind
transferVars == <<index, oc, x, xclientVars, setterVars, acceptVars,
                  token, sent, far, handled, refused, ctxDone>>

(* SendFile: the select takes ctx.Done() when it is ready. A chunk is read *)
(* and written, which may succeed although the server has closed its end.  *)
SendChunk(u) ==
    /\ Moving(u, "SendFile") /\ u \notin ctxDone /\ written[u] < Size
    /\ written' = [written EXCEPT ![u] = @ + 1]
    /\ UNCHANGED <<transferVars, upc, near, got, result>>

(* The end of the file.                                                    *)
AtEOF(u) == written[u] = Size

SendFileEnds(u) ==
    /\ Moving(u, "SendFile") /\ u \notin ctxDone /\ AtEOF(u)
    /\ Return(u, "nil")
    /\ UNCHANGED <<transferVars, written, got>>

(* A context that is done ends the loop, after which SendFile returns nil. *)
SendFileCancelled(u) ==
    /\ Moving(u, "SendFile") /\ u \in ctxDone
    /\ Return(u, "nil")
    /\ UNCHANGED <<transferVars, written, got>>

(* Reading the file, or writing to the connection, fails.                  *)
SendFileFails(u) ==
    /\ Moving(u, "SendFile") /\ u \notin ctxDone /\ written[u] < Size
    /\ Return(u, "error")
    /\ UNCHANGED <<transferVars, written, got>>

(* DownloadFile: a cancelled context is noticed before a read, not during  *)
(* one.                                                                    *)
DownloadReads(u) ==
    /\ Moving(u, "DownloadFile") /\ u \notin ctxDone
    /\ upc' = [upc EXCEPT ![u] = "reading"]
    /\ UNCHANGED <<transferVars, near, written, got, result>>

(* What has arrived is saved.                                              *)
SaveChunk(u) ==
    /\ upc[u] = "reading" /\ got[u] < written[u]
    /\ got' = [got EXCEPT ![u] = @ + 1]
    /\ upc' = [upc EXCEPT ![u] = "transfer"]
    /\ UNCHANGED <<transferVars, near, written, result>>

(* io.EOF: the server has closed its end, and everything was read.         *)
DownloadEnds(u) ==
    /\ upc[u] = "reading" /\ got[u] = written[u] /\ far[u] = "closed"
    /\ Return(u, "nil")
    /\ UNCHANGED <<transferVars, written, got>>

DownloadErr_Nil == "nil"
DownloadErr == "ctx"

DownloadCancelled(u) ==
    /\ Moving(u, "DownloadFile") /\ u \in ctxDone
    /\ Return(u, DownloadErr)
    /\ UNCHANGED <<transferVars, written, got>>

(* Reading from the connection, or saveTo.Write, fails.                    *)
DownloadFails(u) ==
    /\ upc[u] = "reading"
    /\ Return(u, "error")
    /\ UNCHANGED <<transferVars, written, got>>

(* The handlers are the program's: the one of DownloadFile writes some     *)
(* chunks, and all of them close the connection.                           *)
HandlerWrites(u) ==
    /\ far[u] = "open" /\ KindOf[u] = "DownloadFile" /\ written[u] < Size
    /\ written' = [written EXCEPT ![u] = @ + 1]
    /\ UNCHANGED <<oneVars, acceptVars, linkVars, got, ctxDone, result>>

HandlerCloses(u) ==
    /\ far[u] = "open"
    /\ far' = [far EXCEPT ![u] = "closed"]
    /\ UNCHANGED <<oneVars, acceptVars, token, sent, near, handled, refused, dataVars>>

-----------------------------------------------------------------------------
AcceptStep(s) == Accept(s) \/ ReadToken(s) \/ ReadTokenFails(s) \/ DispatchFile(s) \/ DispatchStream(s)

TransferStep(u) ==
    \/ TransferFile(u)
    \/ DownloadFile(u)
    \/ Stream(u)
    \/ CallFails(u)
    \/ Dial(u)
    \/ ConnectFails(u)
    \/ WriteToken(u)
    \/ Stalls(u)
    \/ ContextDone(u)
    \/ SendChunk(u)
    \/ SendFileEnds(u)
    \/ SendFileCancelled(u)
    \/ SendFileFails(u)
    \/ DownloadReads(u)
    \/ SaveChunk(u)
    \/ DownloadEnds(u)
    \/ DownloadCancelled(u)
    \/ DownloadFails(u)
    \/ HandlerWrites(u)
    \/ HandlerCloses(u)

Next ==
    \/ OneStep /\ UNCHANGED <<acceptVars, linkVars, dataVars>>
    \/ \E s \in Services :
          \/ EnableFileTransfer(s)
          \/ EnableStreamService(s)
          \/ Listen(s)
          \/ AcceptFails(s)
          \/ AcceptStep(s)
    \/ \E u \in Transfers : TransferStep(u)

Spec == Init /\ [][Next]_vars

(* The goroutine of the accept loop runs, and so does a user that has      *)
(* dialled: it writes its token, fails to, or stalls for ever.             *)
Fairness ==
    /\ \A s \in Services : WF_vars(AcceptStep(s))
    /\ \A u \in Transfers : WF_vars(WriteToken(u) \/ ConnectFails(u) \/ Stalls(u))

FairSpec == Spec /\ Fairness

-----------------------------------------------------------------------------
(* The variables have the types of the code's fields and local variables;  *)
(* OneTypeOK is about the variables of the OneClients.                     *)
TypeOK ==
    /\ upc \in [Users -> UserStates]
    /\ apc \in [Services -> {"off", "listen", "accept", "token", "found", "failed", "returned"}]
    /\ listening \in SUBSET Services
    /\ cachedTokens \in [Services -> Seq(1 .. MaxTokens)]
    /\ \A s \in Services : Len(cachedTokens[s]) <= WaitNum[s]
    /\ issued \in [Services -> Seq(Transfers)]
    /\ backlog \in [Services -> Seq(Transfers)]
    /\ conn \in [Services -> Transfers \cup {nil}]
    /\ token \in [Users -> 0 .. MaxTokens]
    /\ sent \in SUBSET Transfers
    /\ near \in [Users -> {"none", "open", "closed"}]
    /\ far \in [Users -> {"none", "backlog", "open", "closed"}]
    /\ handled \in [Users -> Seq(Transfers)]
    /\ refused \in SUBSET Transfers
    /\ written \in [Users -> 0 .. Size]
    /\ got \in [Users -> 0 .. Size]
    /\ ctxDone \in SUBSET Transfers
    /\ result \in [Users -> {"none", "nil", "error", "ctx"}]

(* A connection is given to a handler once, with the arguments and the     *)
(* kind of the request its user made, whatever was issued, evicted or      *)
(* retried meanwhile, and its token cannot be used again                   *)
(* (file_transfer.go:180-204, stream.go:151-169).                          *)
HandledAsAsked ==
    \A u \in Transfers :
        /\ handled[u] \in {<<>>, <<u>>}
        /\ handled[u] = <<u>> =>
              KindOf[u] \in Handlers /\ ~Cached(cachedTokens[Service(u)], token[u])

(* A user is turned away only if waitNum - 1 tokens, and at least one,     *)
(* were issued after its own: tokens that were used up, lost with their    *)
(* reply or issued by a retry make no other difference. (The token that    *)
(* the loop has looked up, the most recently used one now, keeps its place *)
(* until it is removed; otherwise it took waitNum.) (stream.go:90,         *)
(* file_transfer.go:96, 118, 180-187)                                      *)
RefusedWhenCrowded ==
    \A u \in refused :
        LET later == Len(issued[Service(u)]) - token[u]
        IN  later >= 1 /\ later >= WaitNum[Service(u)] - 1

(* The tokens decide who is served: whoever has a token that was not       *)
(* crowded out, and with it what was asked for.                            *)
TokensDecide == HandledAsAsked /\ RefusedWhenCrowded

(* DownloadFile returns nil only after the server has closed its end and   *)
(* all it wrote was saved; cancelled before, it returns an error           *)
(* (xclient.go:1326-1352). The server also closes the connection, with     *)
(* nothing written, when it does not find the token.                       *)
DownloadFaithful ==
    \A u \in Transfers :
        KindOf[u] = "DownloadFile" /\ result[u] = "nil" =>
            got[u] = written[u] /\ far[u] = "closed"

(* SendFile returns nil only after the whole file was written, unless its  *)
(* context was done (xclient.go:1264-1297).                                *)
SendFaithful ==
    \A u \in Transfers :
        KindOf[u] = "SendFile" /\ result[u] = "nil" => written[u] = Size \/ u \in ctxDone

(* A nil result means that the file has passed whole, in both directions.  *)
FilesWhole == DownloadFaithful /\ SendFaithful

(* A user that has dialled gets its handler or is turned away, unless the  *)
(* accept loop has failed or waits for a token that never comes: the loop  *)
(* survives users that fail and tokens it does not know                    *)
(* (file_transfer.go:140-206, stream.go:110-171).                          *)
Held(s) == apc[s] = "failed" \/ \E v \in Transfers : conn[s] = v /\ upc[v] = "stalled"
Served ==
    \A u \in Transfers : far[u] = "backlog" ~> far[u] # "backlog" \/ Held(Service(u))

-----------------------------------------------------------------------------
(* The inductive invariant behind the invariants above.                    *)

(* A token in a reply was issued to the user of the reply; it is there     *)
(* before the user dials, and a user dials once.                           *)
TokenInv ==
    \A u \in Transfers :
        /\ token[u] # 0 => token[u] <= Len(issued[Service(u)]) /\ issued[Service(u)][token[u]] = u
        /\ upc[u] \in Early \cup {"call"} => token[u] = 0
        /\ upc[u] \in {"dial", "token", "stalled"} \/ far[u] # "none" => token[u] # 0
        /\ upc[u] \in Early \cup {"call", "dial"} => far[u] = "none"

(* A connection waits in the backlog, or is in the accept loop, once.      *)
QueueInv ==
    \A s \in Services :
        /\ \A i \in 1 .. Len(backlog[s]) :
              /\ far[backlog[s][i]] = "backlog" /\ Service(backlog[s][i]) = s
              /\ backlog[s][i] # conn[s]
              /\ \A j \in 1 .. Len(backlog[s]) : i # j => backlog[s][i] # backlog[s][j]
        /\ conn[s] # nil => far[conn[s]] = "backlog" /\ Service(conn[s]) = s
        /\ apc[s] \in {"token", "found"} => conn[s] # nil

(* The token that the loop has looked up and not yet removed.              *)
Touched(s) == IF apc[s] = "found" THEN token[conn[s]] ELSE 0

(* Tokens are cached once, and since the one in place i was issued, at     *)
(* least as many were issued as there are places after it, except for the  *)
(* place of the touched token.                                             *)
After(c, i, t) == IF \E k \in i + 1 .. Len(c) : c[k] = t THEN 1 ELSE 0
Ranked(c, t, last) ==
    \A i \in 1 .. Len(c) :
        /\ c[i] <= last
        /\ \A j \in 1 .. Len(c) : i # j => c[i] # c[j]
        /\ c[i] # t => last - c[i] >= Len(c) - i - After(c, i, t)
CacheInv == \A s \in Services : Ranked(cachedTokens[s], Touched(s), Len(issued[s]))

(* A token that was not shown yet is cached, unless it was crowded out.    *)
CrowdInv ==
    \A u \in Transfers :
        LET s == Service(u)
            later == Len(issued[s]) - token[u]
        IN  token[u] \notin {0, Touched(s)} /\ far[u] \in {"none", "backlog"}
                /\ ~Cached(cachedTokens[s], token[u]) => later >= 1 /\ later >= WaitNum[s] - 1

(* A handler runs for a connection that the loop has left.                 *)
HandlerInv ==
    \A u \in Transfers :
        /\ far[u] \in {"none", "backlog"} => handled[u] = <<>>
        /\ u \in refused => far[u] # "none"

(* Who has returned is at the end.                                         *)
ReturnInv ==
    \A u \in Transfers :
        /\ result[u] # "none" => upc[u] = "end"
        /\ upc[u] = "reading" => KindOf[u] = "DownloadFile"

TransferInv ==
    /\ TypeOK
    /\ TokenInv /\ QueueInv /\ CacheInv /\ CrowdInv
    /\ HandlerInv /\ HandledAsAsked /\ RefusedWhenCrowded
    /\ ReturnInv /\ FilesWhole
=============================================================================

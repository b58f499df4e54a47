--------------------------- MODULE TransferProofs ---------------------------
(***************************************************************************)
(* Transfers, for all numbers of users and services, every size of the     *)
(* caches of tokens and of files; and that the users of OneClients do with *)
(* them what module OneClient assumes.                                     *)
(***************************************************************************)
EXTENDS Transfer, TLAPS

-----------------------------------------------------------------------------
(* The services and the transfers leave the OneClients alone, except for   *)
(* where the users are.                                                    *)
LEMMA LateStep ==
    ASSUME \/ \E s \in Services : \/ EnableFileTransfer(s) \/ EnableStreamService(s)
                                  \/ Listen(s) \/ AcceptFails(s) \/ AcceptStep(s)
           \/ \E u \in Transfers : TransferStep(u)
    PROVE  (\E u \in Users : UseXClient(u)) \/ UNCHANGED oneVars
<1>1. ASSUME NEW s \in Services,
             \/ EnableFileTransfer(s) \/ EnableStreamService(s) \/ Listen(s)
             \/ AcceptFails(s) \/ AcceptStep(s)
      PROVE  UNCHANGED oneVars
  BY <1>1, Zenon DEF EnableFileTransfer, EnableStreamService, Start, Listen, AcceptFails,
     AcceptStep, Accept, ReadToken, ReadTokenFails, DispatchFile, DispatchStream, StartHandler
<1>2. ASSUME NEW u \in Transfers, TransferStep(u) PROVE UseXClient(u) \/ UNCHANGED oneVars
  <2>1. UNCHANGED <<index, oc, x, xclientVars, setterVars>>
    BY <1>2, Zenon DEF TransferStep, TransferFile, DownloadFile, Stream, Issue, CallFails, Dial,
       ConnectFails, WriteToken, Stalls, ContextDone, SendChunk, SendFileEnds, SendFileCancelled,
       SendFileFails, DownloadReads, SaveChunk, DownloadEnds, DownloadCancelled, DownloadFails,
       HandlerWrites, HandlerCloses, transferVars, oneVars, userVars
  <2>2. \/ upc' = upc
        \/ /\ upc[u] \in {"call", "dial", "token", "transfer", "reading"}
           /\ \E p \in {"dial", "token", "transfer", "reading", "stalled", "end"} :
                 upc' = [upc EXCEPT ![u] = p]
    BY <1>2, Zenon DEF TransferStep, TransferFile, DownloadFile, Stream, Issue, CallFails, Dial,
       ConnectFails, WriteToken, Stalls, ContextDone, SendChunk, SendFileEnds, SendFileCancelled,
       SendFileFails, DownloadReads, SaveChunk, DownloadEnds, DownloadCancelled, DownloadFails,
       HandlerWrites, HandlerCloses, transferVars, oneVars, userVars, Return, Moving
  <2>3. CASE upc' = upc
    BY <2>1, <2>3, Zenon DEF oneVars, userVars
  <2>4. CASE upc' # upc
    <3>1. /\ upc[u] \notin Early
          /\ {"dial", "token", "transfer", "reading", "stalled", "end"} \subseteq UserStates \ Early
      BY <2>2, <2>4, Zenon DEF UserStates, Early
    <3> QED
      BY <2>1, <2>2, <2>4, <3>1, Zenon DEF UseXClient
  <2> QED
    BY <2>3, <2>4, Zenon
<1> QED
  BY <1>1, <1>2, Zenon DEF Transfers

(* The users of OneClients look up and create XClients as they do in       *)
(* module OneClient, and what their calls do with them is what it allows:  *)
(* what holds of OneSpec holds of the transfers (oneclient.go:193-335,     *)
(* xclient.go:1238-1410).                                                  *)
THEOREM TransfersUseOneClients == Spec => OneSpec
<1>1. Init => OneInit
  BY Zenon DEF Init
<1>2. [Next]_vars => [OneStep \/ \E u \in Users : UseXClient(u)]_oneVars
  BY LateStep, Zenon DEF Next, vars
<1> QED
  BY <1>1, <1>2, PTL DEF Spec, OneSpec

LEMMA UserMoves ==
    ASSUME upc \in [Users -> UserStates], [Next]_vars
    PROVE  upc' \in [Users -> UserStates]
<1>1. CASE OneStep
  <2>1. \/ upc' = upc
        \/ \E u \in Users : Get(u) \/ Lookup(u) \/ Create(u) \/ Install(u) \/ NewXClientFails(u)
    BY <1>1, Zenon DEF OneStep, SetField, RangeXClients, Visit, RUnlock, SetSelector, userVars
  <2>2. {"lookup", "create", "creating", "call", "end"} \subseteq UserStates
    BY Zenon DEF UserStates, Early
  <2>3. \/ upc' = upc
        \/ \E u \in Users, p \in UserStates : upc' = [upc EXCEPT ![u] = p]
    BY <2>1, <2>2, Zenon DEF Get, Lookup, Create, Install, NewXClientFails
  <2> QED
    BY <2>3, Zenon
<1>2. CASE (\E u \in Users : UseXClient(u)) \/ UNCHANGED oneVars
  <2>1. \/ upc' = upc
        \/ \E u \in Users, p \in UserStates : upc' = [upc EXCEPT ![u] = p]
    BY <1>2, Zenon DEF UseXClient, oneVars, userVars
  <2> QED
    BY <2>1, Zenon
<1> QED
  BY <1>1, <1>2, LateStep, Zenon DEF Next, vars

-----------------------------------------------------------------------------
(* The cache of tokens.                                                    *)
LEMMA RemoveDoes ==
    ASSUME NEW S, NEW c \in Seq(S), NEW t, Cached(c, t)
    PROVE  /\ LruRemove(c, t) \in Seq(S) /\ Len(LruRemove(c, t)) = Len(c) - 1
           /\ \E k \in 1 .. Len(c) :
                 /\ c[k] = t
                 /\ \A j \in 1 .. Len(c) - 1 : LruRemove(c, t)[j] = c[IF j < k THEN j ELSE j + 1]
<1> DEFINE i == CHOOSE j \in 1 .. Len(c) : c[j] = t
           d == [j \in 1 .. Len(c) - 1 |-> c[IF j < i THEN j ELSE j + 1]]
<1>1. i \in 1 .. Len(c) /\ c[i] = t
  BY Zenon DEF Cached
<1>2. LruRemove(c, t) = d
  BY Zenon DEF LruRemove
<1> HIDE DEF i
<1>3. Len(c) - 1 \in Nat /\ \A j \in 1 .. Len(c) - 1 : c[IF j < i THEN j ELSE j + 1] \in S
  BY <1>1
<1>4. d \in Seq(S) /\ Len(d) = Len(c) - 1
  BY <1>3
<1>5. \A j \in 1 .. Len(c) - 1 : d[j] = c[IF j < i THEN j ELSE j + 1]
  OBVIOUS
<1> HIDE DEF d
<1> QED
  BY <1>1, <1>2, <1>4, <1>5, Zenon

LEMMA RemoveOther ==
    ASSUME NEW c, NEW t, ~Cached(c, t)
    PROVE  LruRemove(c, t) = c
BY Zenon DEF LruRemove

Tokens == 1 .. MaxTokens

LEMMA TokensPositive == Tokens \subseteq Nat \ {0}
BY TransferAssumption DEF Tokens

LEMMA CachedAfterRemove ==
    ASSUME NEW c \in Seq(Tokens), NEW t, NEW v,
           \A i, j \in 1 .. Len(c) : i # j => c[i] # c[j]
    PROVE  Cached(LruRemove(c, t), v) <=> Cached(c, v) /\ v # t
<1>1. CASE ~Cached(c, t)
  BY <1>1, RemoveOther, Zenon DEF Cached
<1>2. CASE Cached(c, t)
  <2> DEFINE d == LruRemove(c, t)
  <2>1. /\ Len(c) \in Nat /\ Len(d) = Len(c) - 1
        /\ \E k \in 1 .. Len(c) :
              /\ c[k] = t
              /\ \A j \in 1 .. Len(c) - 1 : d[j] = c[IF j < k THEN j ELSE j + 1]
    BY <1>2, RemoveDoes
  <2> HIDE DEF d
  <2>2. PICK k \in 1 .. Len(c) :
              /\ c[k] = t
              /\ \A j \in 1 .. Len(c) - 1 : d[j] = c[IF j < k THEN j ELSE j + 1]
    BY <2>1, Zenon
  <2>3. ASSUME Cached(d, v) PROVE Cached(c, v) /\ v # t
    <3>1. PICK j \in 1 .. Len(c) - 1 : d[j] = v
      BY <2>1, <2>3, Zenon DEF Cached
    <3>2. PICK m \in 1 .. Len(c) : m # k /\ c[m] = v
      BY <2>1, <2>2, <3>1
    <3> QED
      BY <2>2, <3>2, Zenon DEF Cached
  <2>4. ASSUME Cached(c, v), v # t PROVE Cached(d, v)
    <3>1. PICK m \in 1 .. Len(c) : c[m] = v
      BY <2>4, Zenon DEF Cached
    <3>2. m # k
      BY <2>2, <2>4, <3>1, Zenon
    <3>3. CASE m < k
      BY <2>1, <2>2, <3>1, <3>3 DEF Cached
    <3>4. CASE m > k
      <4>1. m - 1 \in 1 .. Len(c) - 1 /\ d[m - 1] = v
        BY <2>1, <2>2, <3>1, <3>4
      <4> QED
        BY <2>1, <4>1, Zenon DEF Cached
    <3> QED
      BY <2>1, <3>2, <3>3, <3>4
  <2> QED
    BY <2>3, <2>4, Zenon DEF d
<1> QED
  BY <1>1, <1>2, Zenon

LEMMA CachedAppend ==
    ASSUME NEW c \in Seq(Tokens), NEW t \in Tokens, NEW v
    PROVE  Cached(Append(c, t), v) <=> Cached(c, v) \/ v = t
BY DEF Cached

LEMMA CachedTail ==
    ASSUME NEW c \in Seq(Tokens), c # <<>>, NEW v, Cached(c, v), v # c[1]
    PROVE  Cached(Tail(c), v)
<1>1. PICK i \in 1 .. Len(c) : c[i] = v
  BY Zenon DEF Cached
<1>2. i - 1 \in 1 .. Len(Tail(c)) /\ Tail(c)[i - 1] = v
  BY <1>1
<1> QED
  BY <1>2, Zenon DEF Cached

LEMMA TailCached ==
    ASSUME NEW c \in Seq(Tokens), c # <<>>, NEW v, Cached(Tail(c), v)
    PROVE  Cached(c, v)
<1>1. PICK i \in 1 .. Len(Tail(c)) : Tail(c)[i] = v
  BY Zenon DEF Cached
<1>2. i + 1 \in 1 .. Len(c) /\ c[i + 1] = v
  BY <1>1
<1> QED
  BY <1>2, Zenon DEF Cached

LEMMA RankedTail ==
    ASSUME NEW c \in Seq(Tokens), c # <<>>, NEW t \in Nat, NEW last \in Nat, Ranked(c, t, last)
    PROVE  Ranked(Tail(c), t, last)
<1> DEFINE d == Tail(c)
<1>1. d \in Seq(Tokens) /\ Len(c) \in Nat /\ Len(d) = Len(c) - 1 /\ \A i \in 1 .. Len(d) : d[i] = c[i + 1]
  OBVIOUS
<1> HIDE DEF d
<1>2. ASSUME NEW i \in 1 .. Len(d) PROVE i + 1 \in 1 .. Len(c) /\ After(d, i, t) = After(c, i + 1, t)
  <2>1. (\E k \in i + 1 .. Len(d) : d[k] = t) <=> \E k \in i + 2 .. Len(c) : c[k] = t
    <3>1. ASSUME NEW k \in i + 1 .. Len(d), d[k] = t PROVE \E m \in i + 2 .. Len(c) : c[m] = t
      <4>1. k + 1 \in i + 2 .. Len(c) /\ c[k + 1] = t
        BY <1>1, <3>1
      <4> QED
        BY <4>1, Zenon
    <3>2. ASSUME NEW k \in i + 2 .. Len(c), c[k] = t PROVE \E m \in i + 1 .. Len(d) : d[m] = t
      <4>1. k - 1 \in i + 1 .. Len(d) /\ d[k - 1] = t
        BY <1>1, <3>2
      <4> QED
        BY <4>1, Zenon
    <3> QED
      BY <3>1, <3>2, Zenon
  <2>2. (i + 1) + 1 = i + 2 /\ i + 1 \in 1 .. Len(c)
    BY <1>1
  <2> QED
    BY <2>1, <2>2, Zenon DEF After
<1>3. ASSUME NEW i \in 1 .. Len(d)
      PROVE  /\ d[i] <= last
             /\ \A j \in 1 .. Len(d) : i # j => d[i] # d[j]
             /\ d[i] # t => last - d[i] >= Len(d) - i - After(d, i, t)
  <2>1. After(d, i, t) \in {0, 1}
    BY Zenon DEF After
  <2>2. /\ c[i + 1] <= last
        /\ c[i + 1] # t => last - c[i + 1] >= Len(c) - (i + 1) - After(c, i + 1, t)
    BY <1>2, Zenon DEF Ranked
  <2>3. \A j \in 1 .. Len(d) : i # j => d[i] # d[j]
    BY <1>1, <1>2 DEF Ranked
  <2> QED
    BY <1>1, <1>2, <2>1, <2>2, <2>3
<1> QED
  BY <1>3, Zenon DEF Ranked, d

LEMMA RankedAppend ==
    ASSUME NEW c \in Seq(Tokens), NEW last \in Nat, last + 1 \in Tokens, NEW t \in 0 .. last,
           Ranked(c, t, last)
    PROVE  Ranked(Append(c, last + 1), t, last + 1)
<1> DEFINE d == Append(c, last + 1)
           n == Len(c)
<1>1. /\ d \in Seq(Tokens) /\ n \in Nat /\ Len(d) = n + 1 /\ d[n + 1] = last + 1
      /\ \A i \in 1 .. n : d[i] = c[i] /\ c[i] \in Nat
  <2>1. /\ d \in Seq(Tokens) /\ n \in Nat /\ Len(d) = n + 1 /\ d[n + 1] = last + 1
        /\ \A i \in 1 .. n : d[i] = c[i] /\ c[i] \in Tokens
    OBVIOUS
  <2> QED
    BY <2>1, TokensPositive, Zenon
<1> HIDE DEF d, n
<1>2. \A i \in 1 .. n : After(d, i, t) = After(c, i, t)
  <2> SUFFICES ASSUME NEW i \in 1 .. n PROVE After(d, i, t) = After(c, i, t)
    OBVIOUS
  <2>1. ASSUME NEW k \in i + 1 .. n, c[k] = t PROVE k \in i + 1 .. n + 1 /\ d[k] = t
    BY <1>1, <2>1
  <2>2. ASSUME NEW k \in i + 1 .. n + 1, d[k] = t PROVE k \in i + 1 .. n /\ c[k] = t
    <3>1. k # n + 1
      <4>1. t # last + 1
        OBVIOUS
      <4> QED
        BY <1>1, <2>2, <4>1, Zenon
    <3> QED
      BY <1>1, <2>2, <3>1
  <2>3. (\E k \in i + 1 .. n + 1 : d[k] = t) <=> \E k \in i + 1 .. n : c[k] = t
    BY <2>1, <2>2, Zenon
  <2> QED
    BY <1>1, <2>3, Zenon DEF After, n
<1>3. \A i \in 1 .. n + 1 : After(d, i, t) \in {0, 1}
  BY Zenon DEF After
<1>4. \A i \in 1 .. n : After(c, i, t) \in {0, 1}
  BY Zenon DEF After
<1>5. ASSUME NEW i \in 1 .. n
      PROVE  /\ c[i] <= last
             /\ \A j \in 1 .. n : i # j => c[i] # c[j]
             /\ c[i] # t => last - c[i] >= n - i - After(c, i, t)
  BY Zenon DEF Ranked, n
<1>6. ASSUME NEW i \in 1 .. n + 1
      PROVE  /\ d[i] <= last + 1
             /\ \A j \in 1 .. n + 1 : i # j => d[i] # d[j]
             /\ d[i] # t => (last + 1) - d[i] >= (n + 1) - i - After(d, i, t)
  <2>1. CASE i = n + 1
    BY <1>1, <1>3, <1>5, <2>1
  <2>2. CASE i \in 1 .. n
    <3>1. d[i] = c[i] /\ c[i] \in Nat /\ c[i] <= last
      BY <1>1, <1>5, <2>2, Zenon
    <3>2. \A j \in 1 .. n + 1 : i # j => d[i] # d[j]
      <4>1. \A j \in 1 .. n : i # j => d[i] # d[j]
        BY <1>1, <1>5, <2>2, <3>1, Zenon
      <4>2. d[i] # d[n + 1]
        BY <1>1, <3>1
      <4>3. \A j \in 1 .. n + 1 : j \in 1 .. n \/ j = n + 1
        BY <1>1
      <4> QED
        BY <4>1, <4>2, <4>3, Zenon
    <3>3. c[i] # t => last - c[i] >= n - i - After(c, i, t)
      BY <1>5, <2>2, Zenon
    <3> QED
      <4>1. After(d, i, t) = After(c, i, t) /\ After(c, i, t) \in {0, 1}
        BY <1>2, <1>4, <2>2, Zenon
      <4>2. c[i] # t => (last + 1) - c[i] >= (n + 1) - i - After(c, i, t)
        <5>1. CASE c[i] # t
          <6>1. last - c[i] >= n - i - After(c, i, t)
            BY <3>3, <5>1, Zenon
          <6> QED
            BY <1>1, <2>2, <3>1, <4>1, <6>1
        <5> QED
          BY <5>1, Zenon
      <4>3. c[i] <= last + 1
        BY <3>1
      <4> QED
        BY <3>1, <3>2, <4>1, <4>2, <4>3, Zenon
  <2> QED
    BY <1>1, <2>1, <2>2
<1> QED
  BY <1>1, <1>6, Zenon DEF Ranked, d

(* The least recently used token is the oldest, or the touched one is, or  *)
(* the touched one is after it.                                            *)
LEMMA RankedFirst ==
    ASSUME NEW c \in Seq(Tokens), c # <<>>, NEW t, NEW last \in Nat, Ranked(c, t, last), c[1] # t
    PROVE  last + 1 - c[1] >= 1 /\ last + 1 - c[1] >= Len(c) - 1
<1>1. Len(c) \in Nat /\ 1 \in 1 .. Len(c) /\ c[1] \in Nat /\ After(c, 1, t) \in {0, 1}
  <2>1. Len(c) \in Nat /\ 1 \in 1 .. Len(c) /\ c[1] \in Tokens
    OBVIOUS
  <2> QED
    BY <2>1, TokensPositive, Zenon DEF After
<1>2. c[1] <= last /\ last - c[1] >= Len(c) - 1 - After(c, 1, t)
  BY <1>1, Zenon DEF Ranked
<1> QED
  BY <1>1, <1>2

(* What is left after a token was removed.                                 *)
LEMMA RemoveLeaves ==
    ASSUME NEW c \in Seq(Tokens), NEW t, Cached(c, t), NEW last, NEW u, Ranked(c, u, last)
    PROVE  /\ LruRemove(c, t) \in Seq(Tokens) /\ Len(LruRemove(c, t)) = Len(c) - 1
           /\ \A i, j \in 1 .. Len(c) - 1 : i # j => LruRemove(c, t)[i] # LruRemove(c, t)[j]
           /\ \E k \in 1 .. Len(c) :
                 /\ c[k] = t
                 /\ \A j \in 1 .. Len(c) - 1 :
                       /\ j < k => LruRemove(c, t)[j] = c[j]
                       /\ j >= k => LruRemove(c, t)[j] = c[j + 1]
                       /\ LruRemove(c, t)[j] # t
<1> DEFINE d == LruRemove(c, t)
<1>1. d \in Seq(Tokens) /\ Len(d) = Len(c) - 1 /\ Len(c) \in Nat
  BY RemoveDoes
<1>2. PICK k \in 1 .. Len(c) :
          c[k] = t /\ \A j \in 1 .. Len(c) - 1 : d[j] = c[IF j < k THEN j ELSE j + 1]
  BY RemoveDoes
<1> HIDE DEF d
<1>3. \A i, j \in 1 .. Len(c) : i # j => c[i] # c[j]
  BY Zenon DEF Ranked
<1>4. ASSUME NEW j \in 1 .. Len(c) - 1
      PROVE  /\ j < k => d[j] = c[j]
             /\ j >= k => d[j] = c[j + 1]
             /\ d[j] # t
  <2>1. /\ j < k => j \in 1 .. Len(c) /\ j # k /\ d[j] = c[j]
        /\ j >= k => j + 1 \in 1 .. Len(c) /\ j + 1 # k /\ d[j] = c[j + 1]
    BY <1>1, <1>2, <1>4
  <2>2. j < k \/ j >= k
    BY <1>1
  <2> QED
    BY <1>2, <1>3, <2>1, <2>2, Zenon
<1>5. ASSUME NEW i \in 1 .. Len(c) - 1, NEW j \in 1 .. Len(c) - 1, i # j PROVE d[i] # d[j]
  <2> DEFINE m == IF i < k THEN i ELSE i + 1
             n == IF j < k THEN j ELSE j + 1
  <2>1. m \in 1 .. Len(c) /\ n \in 1 .. Len(c) /\ m # n
    BY <1>1, <1>5
  <2>2. d[i] = c[m] /\ d[j] = c[n]
    BY <1>2, <1>5, Zenon
  <2> HIDE DEF m, n
  <2> QED
    BY <1>3, <2>1, <2>2, Zenon
<1> QED
  BY <1>1, <1>2, <1>4, <1>5, Zenon DEF d

LEMMA RankedRemove ==
    ASSUME NEW c \in Seq(Tokens), NEW t \in Nat, NEW last \in Nat, Ranked(c, t, last)
    PROVE  Ranked(LruRemove(c, t), 0, last)
<1>0. /\ Len(c) \in Nat /\ \A i \in 1 .. Len(c) : c[i] \in Nat
      /\ \A d, i, v : After(d, i, v) \in {0, 1}
  <2>1. Len(c) \in Nat /\ \A i \in 1 .. Len(c) : c[i] \in Tokens
    OBVIOUS
  <2> QED
    BY <2>1, TokensPositive, Zenon DEF After
<1>1. ASSUME NEW i \in 1 .. Len(c)
      PROVE  /\ c[i] <= last
             /\ \A j \in 1 .. Len(c) : i # j => c[i] # c[j]
             /\ c[i] # t => last - c[i] >= Len(c) - i - After(c, i, t)
  BY Zenon DEF Ranked
<1>2. CASE ~Cached(c, t)
  <2>1. LruRemove(c, t) = c
    BY <1>2, RemoveOther, Zenon
  <2>2. ASSUME NEW i \in 1 .. Len(c) PROVE last - c[i] >= Len(c) - i - After(c, i, 0)
    <3>1. c[i] # t /\ After(c, i, t) = 0
      BY <1>0, <1>2, <2>2 DEF Cached, After
    <3>2. After(c, i, 0) \in {0, 1}
      BY <1>0, Zenon
    <3>3. last - c[i] >= Len(c) - i - 0
      BY <1>1, <2>2, <3>1, Zenon
    <3> QED
      BY <1>0, <2>2, <3>2, <3>3
  <2> QED
    BY <1>1, <2>1, <2>2, Zenon DEF Ranked
<1>3. CASE Cached(c, t)
  <2> DEFINE d == LruRemove(c, t)
  <2>1. /\ Len(d) = Len(c) - 1
        /\ \A i, j \in 1 .. Len(c) - 1 : i # j => d[i] # d[j]
    BY <1>3, RemoveLeaves
  <2>2. PICK k \in 1 .. Len(c) :
           /\ c[k] = t
           /\ \A j \in 1 .. Len(c) - 1 : /\ j < k => d[j] = c[j]
                                         /\ j >= k => d[j] = c[j + 1]
                                         /\ d[j] # t
    BY <1>3, RemoveLeaves, Zenon
  <2> HIDE DEF d
  <2>3. ASSUME NEW i \in 1 .. Len(c) - 1
        PROVE  d[i] <= last /\ last - d[i] >= Len(c) - 1 - i - After(d, i, 0)
    <3>1. After(d, i, 0) \in {0, 1}
      BY <1>0, Zenon
    <3>2. CASE i < k
      <4>1. i \in 1 .. Len(c) /\ d[i] = c[i] /\ c[i] # t /\ c[i] \in Nat
        BY <1>0, <2>2, <2>3, <3>2
      <4>2. After(c, i, t) \in {0, 1} /\ c[i] <= last /\ last - c[i] >= Len(c) - i - After(c, i, t)
        BY <1>0, <1>1, <4>1, Zenon
      <4> QED
        BY <1>0, <3>1, <4>1, <4>2
    <3>3. CASE i >= k
      <4>1. i + 1 \in 1 .. Len(c) /\ d[i] = c[i + 1] /\ c[i + 1] # t /\ c[i + 1] \in Nat
        <5>1. i + 1 \in 1 .. Len(c)
          BY <1>0, <2>3
        <5>2. d[i] = c[i + 1] /\ d[i] # t
          BY <2>2, <2>3, <3>3, Zenon
        <5> QED
          BY <1>0, <5>1, <5>2, Zenon
      <4>2. After(c, i + 1, t) = 0
        <5>1. ASSUME NEW m \in (i + 1) + 1 .. Len(c) PROVE c[m] # t
          BY <1>0, <1>1, <2>2, <3>3, <5>1
        <5> QED
          BY <5>1, Zenon DEF After
      <4>3. c[i + 1] <= last /\ last - c[i + 1] >= Len(c) - (i + 1) - 0
        BY <1>1, <4>1, <4>2, Zenon
      <4> QED
        BY <1>0, <3>1, <4>1, <4>3
    <3> QED
      BY <1>0, <2>2, <2>3, <3>2, <3>3
  <2> QED
    BY <2>1, <2>3, Zenon DEF Ranked, d
<1> QED
  BY <1>2, <1>3, Zenon

LEMMA RankedGet ==
    ASSUME NEW c \in Seq(Tokens), NEW t \in Tokens, NEW last \in Nat, Ranked(c, 0, last),
           Cached(c, t)
    PROVE  Ranked(LruGet(c, t), t, last)
<1> DEFINE d == LruRemove(c, t)
           e == LruGet(c, t)
<1>0. /\ Len(c) \in Nat /\ \A i \in 1 .. Len(c) : c[i] \in Nat \ {0}
      /\ \A i : After(c, i, 0) \in {0, 1}
  <2>1. Len(c) \in Nat /\ \A i \in 1 .. Len(c) : c[i] \in Tokens
    OBVIOUS
  <2> QED
    BY <2>1, TokensPositive, Zenon DEF After
<1>1. ASSUME NEW i \in 1 .. Len(c)
      PROVE  c[i] <= last /\ last - c[i] >= Len(c) - i
  <2>1. After(c, i, 0) = 0
    BY <1>0 DEF After
  <2>2. c[i] # 0 => last - c[i] >= Len(c) - i - 0
    BY <2>1, Zenon DEF Ranked
  <2>3. c[i] <= last
    BY Zenon DEF Ranked
  <2> QED
    BY <1>0, <2>2, <2>3
<1>2. /\ d \in Seq(Tokens) /\ Len(d) = Len(c) - 1
      /\ \A i, j \in 1 .. Len(c) - 1 : i # j => d[i] # d[j]
      /\ \E k \in 1 .. Len(c) :
            /\ c[k] = t
            /\ \A j \in 1 .. Len(c) - 1 : /\ j < k => d[j] = c[j]
                                          /\ j >= k => d[j] = c[j + 1]
                                          /\ d[j] # t
  BY RemoveLeaves, Zenon
<1>3. PICK k \in 1 .. Len(c) :
         /\ c[k] = t
         /\ \A j \in 1 .. Len(c) - 1 : /\ j < k => d[j] = c[j]
                                       /\ j >= k => d[j] = c[j + 1]
                                       /\ d[j] # t
  BY <1>2, Zenon
<1>4. /\ Len(e) = Len(c) /\ e[Len(c)] = t
      /\ \A i \in 1 .. Len(c) - 1 : e[i] = d[i]
  <2> HIDE DEF d
  <2>1. e = Append(d, t)
    BY Zenon DEF LruGet, d
  <2> QED
    BY <1>0, <1>2, <2>1
<1> HIDE DEF d, e
<1>5. ASSUME NEW i \in 1 .. Len(c) - 1 PROVE e[i] # t /\ e[i] <= last /\ last - e[i] >= Len(c) - i - 1
  <2>1. e[i] = d[i] /\ d[i] # t
    BY <1>3, <1>4, <1>5, Zenon
  <2>2. CASE i < k
    <3>1. i \in 1 .. Len(c) /\ d[i] = c[i] /\ c[i] \in Nat
      BY <1>0, <1>3, <1>5, <2>2
    <3> QED
      BY <1>0, <1>1, <2>1, <3>1
  <2>3. CASE i >= k
    <3>1. i + 1 \in 1 .. Len(c) /\ d[i] = c[i + 1] /\ c[i + 1] \in Nat
      BY <1>0, <1>3, <1>5, <2>3
    <3> QED
      BY <1>0, <1>1, <2>1, <3>1
  <2> QED
    BY <1>0, <1>3, <1>5, <2>2, <2>3
<1>6. ASSUME NEW i \in 1 .. Len(c) - 1 PROVE After(e, i, t) = 1
  <2>1. Len(c) \in i + 1 .. Len(e) /\ e[Len(c)] = t
    BY <1>0, <1>4, <1>6
  <2> QED
    BY <2>1, Zenon DEF After
<1>7. ASSUME NEW i \in 1 .. Len(c)
      PROVE  /\ e[i] <= last
             /\ \A j \in 1 .. Len(c) : i # j => e[i] # e[j]
             /\ e[i] # t => last - e[i] >= Len(c) - i - After(e, i, t)
  <2>1. \A j \in 1 .. Len(c) : j \in 1 .. Len(c) - 1 \/ j = Len(c)
    BY <1>0
  <2>2. CASE i = Len(c)
    <3>1. e[i] <= last
      BY <1>1, <1>3, <1>4, <2>2, Zenon
    <3> QED
      BY <1>4, <1>5, <2>1, <2>2, <3>1, Zenon
  <2>3. CASE i \in 1 .. Len(c) - 1
    <3>1. \A j \in 1 .. Len(c) : i # j => e[i] # e[j]
      BY <1>2, <1>4, <1>5, <2>1, <2>3, ZenonT(60)
    <3> QED
      BY <1>5, <1>6, <2>3, <3>1, Zenon
  <2> QED
    BY <2>1, <2>2, <2>3, Zenon
<1> QED
  BY <1>4, <1>7, Zenon DEF Ranked, e

(* What the three operations of the cache do.                              *)
LEMMA AddDoes ==
    ASSUME NEW c \in Seq(Tokens), NEW last \in Nat, last + 1 \in Tokens, NEW n \in Nat \ {0},
           Len(c) <= n, NEW t \in 0 .. last, Ranked(c, t, last)
    PROVE  /\ LruAdd(c, last + 1, n) \in Seq(Tokens) /\ Len(LruAdd(c, last + 1, n)) <= n
           /\ Ranked(LruAdd(c, last + 1, n), t, last + 1)
           /\ Cached(LruAdd(c, last + 1, n), last + 1)
           /\ \A v : Cached(LruAdd(c, last + 1, n), v) => Cached(c, v) \/ v = last + 1
           /\ \A v : Cached(c, v) /\ ~Cached(LruAdd(c, last + 1, n), v) /\ v # t =>
                        last + 1 - v >= 1 /\ last + 1 - v >= n - 1
<1> DEFINE d == IF Len(c) >= n THEN Tail(c) ELSE c
<1>0. Len(c) \in Nat
  OBVIOUS
<1>1. Len(c) >= n => c # <<>>
  OBVIOUS
<1>2. d \in Seq(Tokens) /\ Len(d) \in Nat /\ Len(d) <= n - 1
  BY <1>0, <1>1
<1>3. Ranked(d, t, last)
  BY <1>1, RankedTail
<1>4. \A v : Cached(d, v) => Cached(c, v)
  BY <1>1, TailCached, Zenon
<1>5. ASSUME NEW v, Cached(c, v), ~Cached(d, v), v # t
      PROVE  last + 1 - v >= 1 /\ last + 1 - v >= n - 1
  <2>1. Len(c) >= n /\ c # <<>> /\ v = c[1]
    BY <1>1, <1>5, CachedTail, Zenon
  <2>2. last + 1 - v >= 1 /\ last + 1 - v >= Len(c) - 1
    BY <1>5, <2>1, RankedFirst, Zenon
  <2>3. v \in Nat
    <3>1. c[1] \in Tokens
      BY <2>1
    <3> QED
      BY <2>1, <3>1, TokensPositive, Zenon
  <2> QED
    BY <1>0, <2>1, <2>2, <2>3
<1>6. LruAdd(c, last + 1, n) = Append(d, last + 1)
  BY Zenon DEF LruAdd
<1> HIDE DEF d
<1>7. Append(d, last + 1) \in Seq(Tokens) /\ Len(Append(d, last + 1)) <= n
  BY <1>2
<1>8. Ranked(Append(d, last + 1), t, last + 1)
  BY <1>2, <1>3, RankedAppend, Zenon
<1>9. \A v : Cached(Append(d, last + 1), v) <=> Cached(d, v) \/ v = last + 1
  BY <1>2, CachedAppend, Zenon
<1> QED
  BY <1>4, <1>5, <1>6, <1>7, <1>8, <1>9, Zenon

LEMMA GetDoes ==
    ASSUME NEW c \in Seq(Tokens), NEW t \in Tokens, NEW last \in Nat, Ranked(c, 0, last),
           Cached(c, t)
    PROVE  /\ LruGet(c, t) \in Seq(Tokens) /\ Len(LruGet(c, t)) = Len(c)
           /\ Ranked(LruGet(c, t), t, last)
           /\ \A v : Cached(LruGet(c, t), v) <=> Cached(c, v)
<1> DEFINE d == LruRemove(c, t)
<1>1. d \in Seq(Tokens) /\ Len(d) = Len(c) - 1 /\ Len(c) \in Nat
  BY RemoveDoes
<1>2. \A v : Cached(d, v) <=> Cached(c, v) /\ v # t
  <2>1. \A i, j \in 1 .. Len(c) : i # j => c[i] # c[j]
    BY Zenon DEF Ranked
  <2> QED
    BY <2>1, CachedAfterRemove, Zenon
<1>3. LruGet(c, t) = Append(d, t)
  BY Zenon DEF LruGet
<1>4. Ranked(LruGet(c, t), t, last)
  BY RankedGet, Zenon
<1> HIDE DEF d
<1>5. Append(d, t) \in Seq(Tokens) /\ Len(Append(d, t)) = Len(c)
  BY <1>1
<1>6. \A v : Cached(Append(d, t), v) <=> Cached(d, v) \/ v = t
  BY <1>1, CachedAppend, Zenon
<1> QED
  BY <1>2, <1>3, <1>4, <1>5, <1>6, Zenon

LEMMA UsedDoes ==
    ASSUME NEW c \in Seq(Tokens), NEW t \in Nat, NEW last \in Nat, Ranked(c, t, last)
    PROVE  /\ Used(c, t) \in Seq(Tokens) /\ Len(Used(c, t)) <= Len(c)
           /\ Ranked(Used(c, t), 0, last)
           /\ \A v : Cached(Used(c, t), v) <=> Cached(c, v) /\ v # t
<1>1. LruRemove(c, t) \in Seq(Tokens) /\ Len(LruRemove(c, t)) <= Len(c)
  BY RemoveDoes, RemoveOther
<1>2. \A v : Cached(LruRemove(c, t), v) <=> Cached(c, v) /\ v # t
  <2>1. \A i, j \in 1 .. Len(c) : i # j => c[i] # c[j]
    BY Zenon DEF Ranked
  <2> QED
    BY <2>1, CachedAfterRemove, Zenon
<1>3. Ranked(LruRemove(c, t), 0, last)
  BY RankedRemove, Zenon
<1> QED
  BY <1>1, <1>2, <1>3, Zenon DEF Used

-----------------------------------------------------------------------------
(* Tokens and connections. What each step does to them.                    *)

AcceptTypes ==
    /\ apc \in [Services -> {"off", "listen", "accept", "token", "found", "failed", "returned"}]
    /\ listening \in SUBSET Services
    /\ cachedTokens \in [Services -> Seq(Tokens)]
    /\ \A s \in Services : Len(cachedTokens[s]) <= WaitNum[s]
    /\ issued \in [Services -> Seq(Transfers)]
    /\ backlog \in [Services -> Seq(Transfers)]
    /\ conn \in [Services -> Transfers \cup {nil}]

LinkTypes ==
    /\ token \in [Users -> 0 .. MaxTokens]
    /\ sent \in SUBSET Transfers
    /\ near \in [Users -> {"none", "open", "closed"}]
    /\ far \in [Users -> {"none", "backlog", "open", "closed"}]
    /\ handled \in [Users -> Seq(Transfers)]
    /\ refused \in SUBSET Transfers

Types == AcceptTypes /\ LinkTypes /\ upc \in [Users -> UserStates]

LEMMA OfService ==
    /\ Transfers \subseteq Users /\ nil \notin Users /\ 0 \notin Tokens
    /\ \A u \in Transfers : Service(u) \in Services /\ WaitNum[Service(u)] \in Nat
BY OneClientAssumption, TransferAssumption, TokensPositive, Zenon DEF Transfers, Services, Service

(* Issue *)
DoIssue(u) ==
    LET s == Service(u)
        last == Len(issued[s])
    IN
    /\ upc[u] = "call" /\ WaitNum[s] > 0 /\ last + 1 \in Tokens
    /\ issued'[s] = Append(issued[s], u)
    /\ cachedTokens'[s] = LruAdd(cachedTokens[s], last + 1, WaitNum[s])
    /\ \A r \in Services \ {s} : issued'[r] = issued[r] /\ cachedTokens'[r] = cachedTokens[r]
    /\ \A v \in Users \ {u} : token'[v] = token[v] /\ upc'[v] = upc[v]
    /\ \/ token'[u] = last + 1 /\ upc'[u] = "dial"
       \/ token'[u] = token[u] /\ upc'[u] \in {"call", "end"}
    /\ UNCHANGED <<apc, backlog, conn, far, handled, refused>>

LEMMA IssueDoes ==
    ASSUME Types, NEW u \in Transfers, Issue(u)
    PROVE  DoIssue(u)
<1>0. /\ issued \in [Services -> Seq(Transfers)] /\ cachedTokens \in [Services -> Seq(Tokens)]
      /\ token \in [Users -> 0 .. MaxTokens] /\ upc \in [Users -> UserStates] /\ u \in Users
      /\ Service(u) \in Services
  BY OfService, Zenon DEF Types, AcceptTypes, LinkTypes
<1> DEFINE s == Service(u)
<1>1. /\ upc[u] = "call" /\ WaitNum[s] > 0 /\ Len(issued[s]) + 1 <= MaxTokens
      /\ issued' = [issued EXCEPT ![s] = Append(issued[s], u)]
      /\ cachedTokens' = [cachedTokens EXCEPT ![s] =
                             LruAdd(cachedTokens[s], Len(issued[s]) + 1, WaitNum[s])]
      /\ UNCHANGED <<apc, backlog, conn, far, handled, refused>>
  BY Zenon DEF Issue
<1>2. Len(issued[s]) + 1 \in Tokens
  BY <1>0, <1>1, TransferAssumption DEF Tokens
<1>3. \/ token' = [token EXCEPT ![u] = Len(issued[s]) + 1] /\ upc' = [upc EXCEPT ![u] = "dial"]
      \/ token' = token /\ (upc' = upc \/ upc' = [upc EXCEPT ![u] = "end"])
  BY Zenon DEF Issue, Return
<1> HIDE DEF s
<1>4. /\ issued'[s] = Append(issued[s], u)
      /\ cachedTokens'[s] = LruAdd(cachedTokens[s], Len(issued[s]) + 1, WaitNum[s])
      /\ \A r \in Services \ {s} : issued'[r] = issued[r] /\ cachedTokens'[r] = cachedTokens[r]
  BY <1>0, <1>1, Zenon DEF s
<1>5. /\ \A v \in Users \ {u} : token'[v] = token[v] /\ upc'[v] = upc[v]
      /\ \/ token'[u] = Len(issued[s]) + 1 /\ upc'[u] = "dial"
         \/ token'[u] = token[u] /\ upc'[u] \in {"call", "end"}
  BY <1>0, <1>1, <1>3, Zenon
<1> QED
  BY <1>1, <1>2, <1>4, <1>5, Zenon DEF DoIssue, s

(* Dial *)
DoDial(u) ==
    LET s == Service(u) IN
    /\ upc[u] = "dial" /\ upc'[u] = "token" /\ far'[u] = "backlog"
    /\ \A v \in Users \ {u} : far'[v] = far[v] /\ upc'[v] = upc[v]
    /\ backlog'[s] = Append(backlog[s], u)
    /\ \A r \in Services \ {s} : backlog'[r] = backlog[r]
    /\ UNCHANGED <<apc, cachedTokens, issued, conn, token, handled, refused>>

LEMMA DialDoes ==
    ASSUME Types, NEW u \in Transfers, Dial(u)
    PROVE  DoDial(u)
<1>0. /\ backlog \in [Services -> Seq(Transfers)] /\ upc \in [Users -> UserStates]
      /\ far \in [Users -> {"none", "backlog", "open", "closed"}]
      /\ u \in Users /\ Service(u) \in Services
  BY OfService, Zenon DEF Types, AcceptTypes, LinkTypes
<1> QED
  BY <1>0, Zenon DEF Dial, DoDial

(* Accept *)
DoAccept(s) ==
    /\ apc[s] = "accept" /\ apc'[s] = "token" /\ backlog[s] # <<>>
    /\ conn'[s] = Head(backlog[s]) /\ backlog'[s] = Tail(backlog[s])
    /\ \A r \in Services \ {s} : apc'[r] = apc[r] /\ conn'[r] = conn[r] /\ backlog'[r] = backlog[r]
    /\ UNCHANGED <<cachedTokens, issued, upc, token, far, handled, refused>>

LEMMA AcceptDoes ==
    ASSUME Types, NEW s \in Services, Accept(s)
    PROVE  DoAccept(s)
BY Zenon DEF Types, AcceptTypes, Accept, DoAccept, oneVars, userVars, linkVars

(* Where the loop is, or what it does not do with connections.             *)
DoApc(s) ==
    /\ apc[s] \notin {"token", "found"} /\ apc'[s] \notin {"token", "found"}
    /\ \A r \in Services \ {s} : apc'[r] = apc[r]
    /\ UNCHANGED <<cachedTokens, issued, backlog, conn, upc, token, far, handled, refused>>

LEMMA ApcDoes ==
    ASSUME Types, NEW s \in Services,
           EnableFileTransfer(s) \/ EnableStreamService(s) \/ Listen(s) \/ AcceptFails(s)
    PROVE  DoApc(s)
BY Zenon
   DEF Types, AcceptTypes, EnableFileTransfer, EnableStreamService, Start, Listen, AcceptFails,
       DoApc, oneVars, userVars, linkVars

(* ReadToken *)
DoFind(s) ==
    LET u == conn[s] IN
    /\ apc[s] = "token" /\ apc'[s] = "found"
    /\ Cached(cachedTokens[s], token[u])
    /\ cachedTokens'[s] = LruGet(cachedTokens[s], token[u])
    /\ \A r \in Services \ {s} : apc'[r] = apc[r] /\ cachedTokens'[r] = cachedTokens[r]
    /\ UNCHANGED <<issued, backlog, conn, upc, token, far, handled, refused>>

(* ReadToken and ReadTokenFails *)
DoTurnAway(s) ==
    LET u == conn[s] IN
    /\ apc[s] = "token" /\ apc'[s] = "accept"
    /\ conn'[s] = nil /\ far'[u] = "closed"
    /\ \A r \in Services \ {s} : apc'[r] = apc[r] /\ conn'[r] = conn[r]
    /\ \A v \in Users \ {u} : far'[v] = far[v]
    /\ \/ refused' = refused
       \/ refused' = refused \cup {u} /\ ~Cached(cachedTokens[s], token[u])
    /\ UNCHANGED <<cachedTokens, issued, backlog, upc, token, handled>>

(* StartHandler *)
DoDispatch(s) ==
    LET u == conn[s]
        asked == issued[s][token[u]]
    IN
    /\ apc[s] = "found" /\ apc'[s] = "accept" /\ conn'[s] = nil
    /\ cachedTokens'[s] = Used(cachedTokens[s], token[u])
    /\ \A r \in Services \ {s} :
          apc'[r] = apc[r] /\ conn'[r] = conn[r] /\ cachedTokens'[r] = cachedTokens[r]
    /\ \/ KindOf[asked] \in Handlers /\ handled'[u] = Append(handled[u], asked) /\ far'[u] = "open"
       \/ handled'[u] = handled[u] /\ far'[u] = "closed"
    /\ \A v \in Users \ {u} : handled'[v] = handled[v] /\ far'[v] = far[v]
    /\ UNCHANGED <<issued, backlog, upc, token, refused>>

LEMMA ReadTokenDoes ==
    ASSUME Types, QueueInv, NEW s \in Services, ReadToken(s) \/ ReadTokenFails(s)
    PROVE  DoFind(s) \/ DoTurnAway(s)
<1>0. /\ apc \in [Services -> {"off", "listen", "accept", "token", "found", "failed", "returned"}]
      /\ cachedTokens \in [Services -> Seq(Tokens)] /\ conn \in [Services -> Transfers \cup {nil}]
      /\ far \in [Users -> {"none", "backlog", "open", "closed"}]
  BY Zenon DEF Types, AcceptTypes, LinkTypes
<1>1. conn[s] \in Transfers /\ conn[s] \in Users
  BY <1>0, OfService DEF ReadToken, ReadTokenFails, QueueInv
<1>2. CASE ReadToken(s)
  BY <1>0, <1>1, <1>2, Zenon DEF ReadToken, Continue, DoFind, DoTurnAway, oneVars, userVars
<1>3. CASE ReadTokenFails(s)
  BY <1>0, <1>1, <1>3, Zenon DEF ReadTokenFails, Continue, DoTurnAway, oneVars, userVars
<1> QED
  BY <1>2, <1>3, Zenon

LEMMA DispatchDoes ==
    ASSUME Types, QueueInv, NEW s \in Services, DispatchFile(s) \/ DispatchStream(s)
    PROVE  DoDispatch(s)
<1>0. /\ apc \in [Services -> {"off", "listen", "accept", "token", "found", "failed", "returned"}]
      /\ cachedTokens \in [Services -> Seq(Tokens)] /\ conn \in [Services -> Transfers \cup {nil}]
      /\ far \in [Users -> {"none", "backlog", "open", "closed"}]
      /\ handled \in [Users -> Seq(Transfers)]
  BY Zenon DEF Types, AcceptTypes, LinkTypes
<1>1. StartHandler(s)
  BY Zenon DEF DispatchFile, DispatchStream
<1>2. conn[s] \in Transfers /\ conn[s] \in Users
  BY <1>0, <1>1, OfService DEF StartHandler, QueueInv
<1> QED
  BY <1>0, <1>1, <1>2, Zenon DEF StartHandler, Continue, DoDispatch, oneVars, userVars

(* HandlerCloses *)
DoClose(u) ==
    /\ far[u] = "open" /\ far'[u] = "closed"
    /\ \A v \in Users \ {u} : far'[v] = far[v]
    /\ UNCHANGED <<apc, cachedTokens, issued, backlog, conn, upc, token, handled, refused>>

LEMMA HandlerClosesDoes ==
    ASSUME Types, NEW u \in Transfers, HandlerCloses(u)
    PROVE  DoClose(u)
BY OfService, Zenon DEF Types, LinkTypes, HandlerCloses, DoClose, acceptVars, oneVars, userVars

(* All other steps, which leave tokens and connections alone.              *)
DoRest ==
    /\ UNCHANGED <<apc, cachedTokens, issued, backlog, conn, token, far, handled, refused>>
    /\ \A v \in Transfers :
          \/ upc'[v] = upc[v]
          \/ upc'[v] \in {"transfer", "reading", "end"}
          \/ upc[v] = "token" /\ upc'[v] = "stalled"
          \/ upc[v] \in Early /\ upc'[v] \in Early \cup {"call"}

LEMMA RestOfTransfers ==
    ASSUME Types, NEW u \in Transfers,
           \/ CallFails(u) \/ ConnectFails(u) \/ WriteToken(u) \/ Stalls(u) \/ ContextDone(u)
           \/ SendChunk(u) \/ SendFileEnds(u) \/ SendFileCancelled(u) \/ SendFileFails(u)
           \/ DownloadReads(u) \/ SaveChunk(u) \/ DownloadEnds(u) \/ DownloadCancelled(u)
           \/ DownloadFails(u) \/ HandlerWrites(u)
    PROVE  DoRest
<1>1. UNCHANGED <<apc, cachedTokens, issued, backlog, conn, token, far, handled, refused>>
  BY Zenon DEF CallFails, ConnectFails, WriteToken, Stalls, ContextDone, SendChunk, SendFileEnds,
     SendFileCancelled, SendFileFails, DownloadReads, SaveChunk, DownloadEnds, DownloadCancelled,
     DownloadFails, HandlerWrites, transferVars, acceptVars, linkVars
<1>2. \/ upc' = upc
      \/ \E p \in {"transfer", "reading", "end"} : upc' = [upc EXCEPT ![u] = p]
      \/ upc[u] = "token" /\ upc' = [upc EXCEPT ![u] = "stalled"]
  BY Zenon DEF CallFails, ConnectFails, WriteToken, Stalls, ContextDone, SendChunk, SendFileEnds,
     SendFileCancelled, SendFileFails, DownloadReads, SaveChunk, DownloadEnds, DownloadCancelled,
     DownloadFails, HandlerWrites, Return, oneVars, userVars
<1>3. upc \in [Users -> UserStates] /\ Transfers \subseteq Users
  BY OfService, Zenon DEF Types
<1>4. \A v \in Transfers : \/ upc'[v] = upc[v] \/ upc'[v] \in {"transfer", "reading", "end"}
                           \/ upc[v] = "token" /\ upc'[v] = "stalled"
  BY <1>2, <1>3, Zenon
<1> QED
  BY <1>1, <1>4, Zenon DEF DoRest

LEMMA OneMoves ==
    ASSUME upc \in [Users -> UserStates], OneStep
    PROVE  \A v \in Users : \/ upc'[v] = upc[v]
                            \/ upc[v] \in Early /\ upc'[v] \in Early \cup {"call", "end"}
<1>1. \/ upc' = upc
      \/ \E u \in Users : Get(u) \/ Lookup(u) \/ Create(u) \/ Install(u) \/ NewXClientFails(u)
  BY Zenon DEF OneStep, SetField, RangeXClients, Visit, RUnlock, SetSelector, userVars
<1>2. \/ upc' = upc
      \/ \E u \in Users, p \in Early \cup {"call", "end"} :
            upc[u] \in Early /\ upc' = [upc EXCEPT ![u] = p]
  BY <1>1, Zenon DEF Get, Lookup, Create, Install, NewXClientFails, Early
<1> QED
  BY <1>2, Zenon

LEMMA RestOfOneClients ==
    ASSUME Types, OneStep, UNCHANGED <<acceptVars, linkVars, dataVars>>
    PROVE  DoRest
<1>1. UNCHANGED <<apc, cachedTokens, issued, backlog, conn, token, far, handled, refused>>
  BY Zenon DEF acceptVars, linkVars
<1>2. upc \in [Users -> UserStates] /\ Transfers \subseteq Users
  BY OfService, Zenon DEF Types
<1>3. \A v \in Transfers : \/ upc'[v] = upc[v] \/ upc'[v] \in {"transfer", "reading", "end"}
                           \/ upc[v] \in Early /\ upc'[v] \in Early \cup {"call"}
  BY <1>2, OneMoves, Zenon
<1> QED
  BY <1>1, <1>3, Zenon DEF DoRest

LinkDoes ==
    \/ \E u \in Transfers : DoIssue(u) \/ DoDial(u) \/ DoClose(u)
    \/ \E s \in Services : DoAccept(s) \/ DoApc(s) \/ DoFind(s) \/ DoTurnAway(s) \/ DoDispatch(s)
    \/ DoRest

LEMMA LinkStep ==
    ASSUME Types, QueueInv, [Next]_vars
    PROVE  LinkDoes
<1>1. ASSUME NEW s \in Services,
             \/ EnableFileTransfer(s) \/ EnableStreamService(s) \/ Listen(s) \/ AcceptFails(s)
             \/ AcceptStep(s)
      PROVE  LinkDoes
  BY <1>1, ApcDoes, AcceptDoes, ReadTokenDoes, DispatchDoes, Zenon DEF AcceptStep, LinkDoes
<1>2. ASSUME NEW u \in Transfers, TransferStep(u) PROVE LinkDoes
  <2>1. CASE Issue(u)
    BY <2>1, IssueDoes, Zenon DEF LinkDoes
  <2>2. CASE Dial(u) \/ HandlerCloses(u)
    BY <2>2, DialDoes, HandlerClosesDoes, Zenon DEF LinkDoes
  <2>3. CASE \/ CallFails(u) \/ ConnectFails(u) \/ WriteToken(u) \/ Stalls(u) \/ ContextDone(u)
             \/ SendChunk(u) \/ SendFileEnds(u) \/ SendFileCancelled(u) \/ SendFileFails(u)
             \/ DownloadReads(u) \/ SaveChunk(u) \/ DownloadEnds(u) \/ DownloadCancelled(u)
             \/ DownloadFails(u) \/ HandlerWrites(u)
    BY <2>3, RestOfTransfers, Zenon DEF LinkDoes
  <2> QED
    BY <1>2, <2>1, <2>2, <2>3, Zenon DEF TransferStep, TransferFile, DownloadFile, Stream
<1>3. CASE OneStep /\ UNCHANGED <<acceptVars, linkVars, dataVars>>
  BY <1>3, RestOfOneClients, Zenon DEF LinkDoes
<1>4. CASE UNCHANGED vars
  BY <1>4, Zenon DEF vars, oneVars, userVars, acceptVars, linkVars, LinkDoes, DoRest
<1> QED
  BY <1>1, <1>2, <1>3, <1>4, Zenon DEF Next

(* Tokens are their users'.                                                *)
LEMMA TokenStep ==
    ASSUME Types, TokenInv, QueueInv, LinkDoes
    PROVE  TokenInv'
<1>0. /\ upc \in [Users -> UserStates] /\ token \in [Users -> 0 .. MaxTokens]
      /\ issued \in [Services -> Seq(Transfers)] /\ conn \in [Services -> Transfers \cup {nil}]
      /\ Transfers \subseteq Users /\ \A u \in Transfers : Service(u) \in Services
  BY OfService, Zenon DEF Types, AcceptTypes, LinkTypes
<1>1. ASSUME NEW u \in Transfers, DoIssue(u) PROVE TokenInv'
  <2> SUFFICES ASSUME NEW v \in Transfers
               PROVE  /\ token'[v] # 0 => /\ token'[v] <= Len(issued'[Service(v)])
                                          /\ issued'[Service(v)][token'[v]] = v
                      /\ upc'[v] \in Early \cup {"call"} => token'[v] = 0
                      /\ upc'[v] \in {"dial", "token", "stalled"} \/ far'[v] # "none" => token'[v] # 0
                      /\ upc'[v] \in Early \cup {"call", "dial"} => far'[v] = "none"
    BY Zenon DEF TokenInv, Service
  <2>1. /\ token[v] # 0 => token[v] <= Len(issued[Service(v)]) /\ issued[Service(v)][token[v]] = v
        /\ upc[v] \in Early \cup {"call"} => token[v] = 0
        /\ upc[v] \in {"dial", "token", "stalled"} \/ far[v] # "none" => token[v] # 0
        /\ upc[v] \in Early \cup {"call", "dial"} => far[v] = "none"
    BY Zenon DEF TokenInv
  <2>2. /\ Service(u) \in Services /\ Service(v) \in Services
        /\ issued[Service(u)] \in Seq(Transfers) /\ issued[Service(v)] \in Seq(Transfers)
        /\ token[v] \in Nat
    BY <1>0, TransferAssumption
  <2>3. \/ issued'[Service(v)] = issued[Service(v)]
        \/ issued'[Service(v)] = Append(issued[Service(v)], u)
    BY <1>1, <2>2, Zenon DEF DoIssue
  <2>4. token[v] # 0 => token[v] <= Len(issued'[Service(v)]) /\ issued'[Service(v)][token[v]] = v
    BY <2>1, <2>2, <2>3
  <2>5. CASE v # u
    <3>1. token'[v] = token[v] /\ upc'[v] = upc[v] /\ far'[v] = far[v]
      BY <1>0, <1>1, <2>5, Zenon DEF DoIssue
    <3> QED
      BY <2>1, <2>4, <3>1, Zenon
  <2>6. CASE v = u
    <3>1. upc[u] = "call" /\ far'[u] = "none" /\ token[u] = 0
      BY <1>1, <2>1, <2>6, Zenon DEF DoIssue
    <3>2. issued'[Service(u)] = Append(issued[Service(u)], u)
      BY <1>1, Zenon DEF DoIssue
    <3>3. CASE token'[u] = Len(issued[Service(u)]) + 1 /\ upc'[u] = "dial"
      BY <2>2, <2>6, <3>1, <3>2, <3>3 DEF Early
    <3>4. CASE token'[u] = token[u] /\ upc'[u] \in {"call", "end"}
      BY <2>6, <3>1, <3>4, Zenon DEF Early
    <3> QED
      BY <1>1, <3>3, <3>4, Zenon DEF DoIssue
  <2> QED
    BY <2>5, <2>6, Zenon
<1>2. ASSUME NEW u \in Transfers, DoDial(u) PROVE TokenInv'
  <2>1. /\ UNCHANGED <<token, issued>> /\ token[u] # 0 /\ upc'[u] = "token"
        /\ \A v \in Transfers \ {u} : far'[v] = far[v] /\ upc'[v] = upc[v]
    BY <1>0, <1>2, Zenon DEF DoDial, TokenInv
  <2>2. "token" \notin Early \cup {"call", "dial"}
    BY Zenon DEF Early
  <2>3. ASSUME NEW v \in Transfers
        PROVE  /\ upc'[v] \in Early \cup {"call"} => upc[v] \in Early \cup {"call"}
               /\ upc'[v] \in Early \cup {"call", "dial"} =>
                     upc[v] \in Early \cup {"call", "dial"} /\ far'[v] = far[v]
               /\ upc'[v] \in {"dial", "token", "stalled"} \/ far'[v] # "none" => token[v] # 0
    <3>1. CASE v = u
      BY <2>1, <2>2, <3>1, Zenon
    <3>2. CASE v # u
      BY <2>1, <2>3, <3>2, Zenon DEF TokenInv
    <3> QED
      BY <3>1, <3>2, Zenon
  <2> QED
    BY <2>1, <2>3, Zenon DEF TokenInv, Service
<1>3. ASSUME UNCHANGED <<upc, token, issued>>,
             \A v \in Transfers : far'[v] = far[v] \/ (far'[v] # "none" /\ far[v] # "none")
      PROVE  TokenInv'
  BY <1>3, Zenon DEF TokenInv, Service
<1>4. ASSUME NEW u \in Transfers, DoClose(u) PROVE TokenInv'
  BY <1>0, <1>3, <1>4, Zenon DEF DoClose
<1>5. ASSUME NEW s \in Services, DoAccept(s) \/ DoApc(s) \/ DoFind(s) PROVE TokenInv'
  BY <1>3, <1>5, Zenon DEF DoAccept, DoApc, DoFind
<1>6. ASSUME NEW s \in Services, DoTurnAway(s) \/ DoDispatch(s) PROVE TokenInv'
  <2>1. conn[s] \in Transfers /\ far[conn[s]] = "backlog"
    BY <1>0, <1>6 DEF DoTurnAway, DoDispatch, QueueInv
  <2>2. /\ UNCHANGED <<upc, token, issued>> /\ far'[conn[s]] # "none"
        /\ \A v \in Users \ {conn[s]} : far'[v] = far[v]
    BY <1>6, Zenon DEF DoTurnAway, DoDispatch
  <2> QED
    BY <1>0, <1>3, <2>1, <2>2, Zenon
<1>7. CASE DoRest
  <2>1. UNCHANGED <<token, issued, far>>
    BY <1>7, Zenon DEF DoRest
  <2>2. ASSUME NEW v \in Transfers
        PROVE  /\ upc'[v] \in Early \cup {"call"} => upc[v] \in Early \cup {"call"}
               /\ upc'[v] \in Early \cup {"call", "dial"} => upc[v] \in Early \cup {"call", "dial"}
               /\ upc'[v] \in {"dial", "token", "stalled"} => upc[v] \in {"dial", "token", "stalled"}
    BY <1>7, <2>2, Zenon DEF DoRest, Early
  <2> QED
    BY <2>1, <2>2, Zenon DEF TokenInv, Service
<1> QED
  BY <1>1, <1>2, <1>4, <1>5, <1>6, <1>7, Zenon DEF LinkDoes

(* Every connection is in one place.                                       *)
Queued(s) ==
    /\ \A i \in 1 .. Len(backlog[s]) :
          /\ far[backlog[s][i]] = "backlog" /\ Service(backlog[s][i]) = s
          /\ backlog[s][i] # conn[s]
          /\ \A j \in 1 .. Len(backlog[s]) : i # j => backlog[s][i] # backlog[s][j]
    /\ conn[s] # nil => far[conn[s]] = "backlog" /\ Service(conn[s]) = s
    /\ apc[s] \in {"token", "found"} => conn[s] # nil

LEMMA QueuedFrame ==
    ASSUME Types, NEW r \in Services, Queued(r), backlog'[r] = backlog[r], conn'[r] = conn[r],
           apc'[r] \in {"token", "found"} => apc[r] \in {"token", "found"},
           \A v \in Transfers : far'[v] = far[v] \/ far[v] # "backlog" \/ Service(v) # r
    PROVE  Queued(r)'
<1>1. /\ backlog[r] \in Seq(Transfers) /\ conn[r] \in Transfers \cup {nil}
      /\ \A i \in 1 .. Len(backlog[r]) : backlog[r][i] \in Transfers
  BY DEF Types, AcceptTypes
<1> QED
  BY <1>1 DEF Queued, Service

LEMMA QueueStep ==
    ASSUME Types, TokenInv, QueueInv, LinkDoes
    PROVE  QueueInv'
<1>0. /\ backlog \in [Services -> Seq(Transfers)] /\ conn \in [Services -> Transfers \cup {nil}]
      /\ Transfers \subseteq Users /\ \A u \in Transfers : Service(u) \in Services
      /\ nil \notin Users
  BY OfService, Zenon DEF Types, AcceptTypes
<1>1. \A r \in Services : Queued(r)
  BY Zenon DEF QueueInv, Queued
<1> SUFFICES ASSUME NEW r \in Services PROVE Queued(r)'
  BY Zenon DEF QueueInv, Queued, Service
<1>2. ASSUME UNCHANGED <<apc, backlog, conn, far>> PROVE Queued(r)'
  BY <1>1, <1>2, QueuedFrame, Zenon
<1>3. ASSUME NEW u \in Transfers, DoIssue(u) PROVE Queued(r)'
  BY <1>2, <1>3, Zenon DEF DoIssue
<1>4. ASSUME NEW u \in Transfers, DoDial(u) PROVE Queued(r)'
  <2>1. far[u] = "none" /\ far'[u] = "backlog" /\ UNCHANGED <<apc, conn>>
        /\ \A v \in Users \ {u} : far'[v] = far[v]
    BY <1>4, Zenon DEF DoDial, TokenInv
  <2>2. CASE r # Service(u)
    <3>1. backlog'[r] = backlog[r]
      BY <1>4, <2>2, Zenon DEF DoDial
    <3>2. \A v \in Transfers : far'[v] = far[v] \/ far[v] # "backlog"
      BY <1>0, <2>1, Zenon
    <3> QED
      BY <1>1, <2>1, <3>1, <3>2, QueuedFrame, Zenon
  <2>3. CASE r = Service(u)
    <3> DEFINE b == backlog[r]
    <3>1. backlog'[r] = Append(b, u) /\ b \in Seq(Transfers) /\ Len(b) \in Nat
      BY <1>0, <1>4, <2>3 DEF DoDial
    <3>2. ASSUME NEW i \in 1 .. Len(b)
          PROVE  /\ far[b[i]] = "backlog" /\ Service(b[i]) = r /\ b[i] # conn[r]
                 /\ \A j \in 1 .. Len(b) : i # j => b[i] # b[j]
      BY <1>1, <3>2 DEF Queued
    <3> HIDE DEF b
    <3>3. /\ Len(backlog'[r]) = Len(b) + 1 /\ backlog'[r][Len(b) + 1] = u
          /\ \A i \in 1 .. Len(b) : backlog'[r][i] = b[i] /\ b[i] \in Transfers
      BY <3>1
    <3>4. ASSUME NEW i \in 1 .. Len(b) PROVE b[i] # u /\ far'[b[i]] = "backlog"
      <4>1. b[i] \in Users /\ far[b[i]] = "backlog"
        BY <1>0, <3>2, <3>3, <3>4, Zenon
      <4>2. b[i] # u
        BY <2>1, <4>1, Zenon
      <4> QED
        BY <2>1, <4>1, <4>2, Zenon
    <3>5. conn[r] # u /\ (conn[r] # nil => far'[conn[r]] = "backlog" /\ Service(conn[r]) = r)
      BY <1>0, <1>1, <2>1 DEF Queued
    <3>6. \A i \in 1 .. Len(b) + 1 : i \in 1 .. Len(b) \/ i = Len(b) + 1
      BY <3>1
    <3>7. ASSUME NEW i \in 1 .. Len(b) + 1
          PROVE  /\ far'[backlog'[r][i]] = "backlog" /\ Service(backlog'[r][i]) = r
                 /\ backlog'[r][i] # conn[r]
                 /\ \A j \in 1 .. Len(b) + 1 : i # j => backlog'[r][i] # backlog'[r][j]
      BY <2>1, <2>3, <3>2, <3>3, <3>4, <3>5, <3>6
    <3>8. apc[r] \in {"token", "found"} => conn[r] # nil
      BY <1>1, Zenon DEF Queued
    <3> QED
      BY <2>1, <3>3, <3>5, <3>7, <3>8, Zenon DEF Queued, Service
  <2> QED
    BY <2>2, <2>3, Zenon
<1>5. ASSUME NEW u \in Transfers, DoClose(u) PROVE Queued(r)'
  <2>1. /\ UNCHANGED <<apc, conn, backlog>>
        /\ \A v \in Transfers : far'[v] = far[v] \/ far[v] # "backlog"
    BY <1>0, <1>5, Zenon DEF DoClose
  <2> QED
    BY <1>1, <2>1, QueuedFrame, Zenon
<1>6. ASSUME NEW s \in Services, DoAccept(s) PROVE Queued(r)'
  <2>1. CASE r # s
    <3>1. apc'[r] = apc[r] /\ conn'[r] = conn[r] /\ backlog'[r] = backlog[r] /\ UNCHANGED far
      BY <1>6, <2>1, Zenon DEF DoAccept
    <3> QED
      BY <1>1, <3>1, QueuedFrame, Zenon
  <2>2. CASE r = s
    <3> DEFINE b == backlog[r]
    <3>1. /\ b \in Seq(Transfers) /\ b # <<>> /\ conn'[r] = Head(b) /\ backlog'[r] = Tail(b)
          /\ UNCHANGED far
      BY <1>0, <1>6, <2>2, Zenon DEF DoAccept
    <3>2. ASSUME NEW i \in 1 .. Len(b)
          PROVE  /\ far[b[i]] = "backlog" /\ Service(b[i]) = r
                 /\ \A j \in 1 .. Len(b) : i # j => b[i] # b[j]
      BY <1>1, <3>2 DEF Queued
    <3> HIDE DEF b
    <3>3. /\ Len(b) \in Nat \ {0} /\ Len(backlog'[r]) = Len(b) - 1 /\ conn'[r] = b[1]
          /\ \A i \in 1 .. Len(b) - 1 : backlog'[r][i] = b[i + 1]
          /\ 1 \in 1 .. Len(b) /\ b[1] \in Transfers
      BY <3>1
    <3>4. ASSUME NEW i \in 1 .. Len(b) - 1
          PROVE  /\ i + 1 \in 1 .. Len(b) /\ i + 1 # 1
                 /\ \A j \in 1 .. Len(b) - 1 : i # j => j + 1 \in 1 .. Len(b) /\ i + 1 # j + 1
      BY <3>3
    <3>5. ASSUME NEW i \in 1 .. Len(b) - 1
          PROVE  /\ far'[backlog'[r][i]] = "backlog" /\ Service(backlog'[r][i]) = r
                 /\ backlog'[r][i] # conn'[r]
                 /\ \A j \in 1 .. Len(b) - 1 : i # j => backlog'[r][i] # backlog'[r][j]
      BY <3>1, <3>2, <3>3, <3>4
    <3>6. conn'[r] # nil /\ far'[conn'[r]] = "backlog" /\ Service(conn'[r]) = r
      BY <1>0, <3>1, <3>2, <3>3, Zenon
    <3> QED
      BY <3>3, <3>5, <3>6, Zenon DEF Queued, Service
  <2> QED
    BY <2>1, <2>2, Zenon
<1>7. ASSUME NEW s \in Services, DoApc(s) PROVE Queued(r)'
  <2>1. /\ UNCHANGED <<conn, backlog, far>>
        /\ apc'[r] \in {"token", "found"} => apc[r] \in {"token", "found"}
    BY <1>7, Zenon DEF DoApc
  <2> QED
    BY <1>1, <2>1, QueuedFrame, Zenon
<1>8. ASSUME NEW s \in Services, DoFind(s) PROVE Queued(r)'
  <2>1. /\ UNCHANGED <<conn, backlog, far>>
        /\ apc'[r] \in {"token", "found"} => apc[r] \in {"token", "found"}
    BY <1>8, Zenon DEF DoFind
  <2> QED
    BY <1>1, <2>1, QueuedFrame, Zenon
<1>9. ASSUME NEW s \in Services, DoTurnAway(s) \/ DoDispatch(s) PROVE Queued(r)'
  <2>1. conn[s] \in Transfers /\ far[conn[s]] = "backlog" /\ Service(conn[s]) = s
    BY <1>0, <1>1, <1>9 DEF DoTurnAway, DoDispatch, Queued
  <2>2. /\ apc'[s] = "accept" /\ conn'[s] = nil /\ UNCHANGED backlog
        /\ \A q \in Services \ {s} : apc'[q] = apc[q] /\ conn'[q] = conn[q]
        /\ \A v \in Users \ {conn[s]} : far'[v] = far[v]
    BY <1>9, Zenon DEF DoTurnAway, DoDispatch
  <2>3. CASE r # s
    <3>1. \A v \in Transfers : far'[v] = far[v] \/ Service(v) # r
      BY <1>0, <2>1, <2>2, <2>3, Zenon
    <3> QED
      BY <1>1, <2>2, <2>3, <3>1, QueuedFrame, Zenon
  <2>4. CASE r = s
    <3>1. /\ backlog[r] \in Seq(Transfers)
          /\ \A i \in 1 .. Len(backlog[r]) : backlog[r][i] \in Transfers /\ backlog[r][i] # conn[s]
      BY <1>0, <1>1, <2>4 DEF Queued
    <3>2. ASSUME NEW i \in 1 .. Len(backlog[r])
          PROVE  /\ far'[backlog[r][i]] = "backlog" /\ Service(backlog[r][i]) = r
                 /\ backlog[r][i] # nil
                 /\ \A j \in 1 .. Len(backlog[r]) : i # j => backlog[r][i] # backlog[r][j]
      <4>1. /\ far[backlog[r][i]] = "backlog" /\ Service(backlog[r][i]) = r
            /\ \A j \in 1 .. Len(backlog[r]) : i # j => backlog[r][i] # backlog[r][j]
        BY <1>1, <3>2 DEF Queued
      <4>2. backlog[r][i] \in Users \ {conn[s]} /\ backlog[r][i] # nil
        BY <1>0, <3>1, <3>2, Zenon
      <4> QED
        BY <2>2, <4>1, <4>2, Zenon
    <3> QED
      BY <2>2, <2>4, <3>2 DEF Queued, Service
  <2> QED
    BY <2>3, <2>4, Zenon
<1>10. CASE DoRest
  BY <1>2, <1>10, Zenon DEF DoRest
<1> QED
  BY <1>3, <1>4, <1>5, <1>6, <1>7, <1>8, <1>9, <1>10, Zenon DEF LinkDoes

(* Only the step that looks a token up, and the one that removes it,       *)
(* change what is touched.                                                 *)
LEMMA TouchedIs ==
    ASSUME Types, TokenInv, QueueInv, NEW s \in Services
    PROVE  /\ Touched(s) \in 0 .. Len(issued[s])
           /\ apc[s] = "found" => Touched(s) = token[conn[s]] /\ token[conn[s]] # 0
           /\ apc[s] \in {"token", "found"} =>
                 /\ conn[s] \in Transfers /\ Service(conn[s]) = s /\ far[conn[s]] = "backlog"
                 /\ token[conn[s]] \in Tokens
<1>0. /\ conn[s] \in Transfers \cup {nil} /\ Transfers \subseteq Users
      /\ \A u \in Transfers : token[u] \in 0 .. MaxTokens
      /\ issued[s] \in Seq(Transfers) /\ Len(issued[s]) \in Nat
  <2>1. /\ conn[s] \in Transfers \cup {nil} /\ Transfers \subseteq Users
        /\ token \in [Users -> 0 .. MaxTokens] /\ issued[s] \in Seq(Transfers)
    BY OfService, Zenon DEF Types, AcceptTypes, LinkTypes
  <2> QED
    BY <2>1
<1>1. apc[s] \in {"token", "found"} =>
         conn[s] \in Transfers /\ Service(conn[s]) = s /\ far[conn[s]] = "backlog"
  BY <1>0, Zenon DEF QueueInv
<1>2. apc[s] \in {"token", "found"} =>
         token[conn[s]] # 0 /\ token[conn[s]] <= Len(issued[s]) /\ token[conn[s]] \in Tokens
  BY <1>0, <1>1, TransferAssumption DEF TokenInv, Tokens
<1> QED
  BY <1>0, <1>1, <1>2, TokensPositive DEF Touched

LEMMA TouchedFrame ==
    ASSUME NEW s \in Services,
           apc[s] = "found" <=> apc'[s] = "found",
           apc[s] = "found" => conn'[s] = conn[s] /\ token'[conn[s]] = token[conn[s]]
    PROVE  Touched(s)' = Touched(s)
<1>1. CASE apc[s] = "found"
  BY <1>1, Zenon DEF Touched
<1>2. CASE apc[s] # "found"
  BY <1>2, Zenon DEF Touched
<1> QED
  BY <1>1, <1>2, Zenon

(* What each step does to the caches.                                      *)
CacheDoes ==
    \A s \in Services :
        \/ UNCHANGED <<cachedTokens[s], issued[s]>> /\ Touched(s)' = Touched(s)
        \/ \E u \in Transfers : DoIssue(u) /\ s = Service(u) /\ Touched(s)' = Touched(s)
        \/ DoFind(s) /\ Touched(s) = 0 /\ Touched(s)' = token[conn[s]] /\ UNCHANGED issued[s]
        \/ DoDispatch(s) /\ Touched(s) = token[conn[s]] /\ Touched(s)' = 0 /\ UNCHANGED issued[s]

LEMMA CacheChanges ==
    ASSUME Types, TokenInv, QueueInv, LinkDoes
    PROVE  CacheDoes
<1> SUFFICES ASSUME NEW s \in Services
             PROVE  \/ UNCHANGED <<cachedTokens[s], issued[s]>> /\ Touched(s)' = Touched(s)
                    \/ \E u \in Transfers : DoIssue(u) /\ s = Service(u) /\ Touched(s)' = Touched(s)
                    \/ DoFind(s) /\ Touched(s) = 0 /\ Touched(s)' = token[conn[s]] /\ UNCHANGED issued[s]
                    \/ /\ DoDispatch(s) /\ Touched(s) = token[conn[s]] /\ Touched(s)' = 0
                       /\ UNCHANGED issued[s]
  BY Zenon DEF CacheDoes
<1>0. /\ Transfers \subseteq Users
      /\ apc[s] = "found" => conn[s] \in Transfers /\ far[conn[s]] = "backlog"
  BY OfService, TouchedIs, Zenon
<1>1. ASSUME NEW u \in Transfers, DoIssue(u)
      PROVE  /\ Touched(s)' = Touched(s)
             /\ s # Service(u) => UNCHANGED <<cachedTokens[s], issued[s]>>
  <2>1. far[u] = "none"
    BY <1>1, Zenon DEF TokenInv, DoIssue
  <2>2. apc[s] = "found" => conn[s] \in Users \ {u}
    BY <1>0, <2>1, Zenon
  <2>3. /\ UNCHANGED <<apc, conn>> /\ \A v \in Users \ {u} : token'[v] = token[v]
        /\ s # Service(u) => UNCHANGED <<cachedTokens[s], issued[s]>>
    BY <1>1, Zenon DEF DoIssue
  <2> QED
    BY <2>2, <2>3, TouchedFrame, Zenon
<1>2. ASSUME UNCHANGED <<cachedTokens, issued, token>>,
             apc[s] = "found" <=> apc'[s] = "found", apc[s] = "found" => conn'[s] = conn[s]
      PROVE  UNCHANGED <<cachedTokens[s], issued[s]>> /\ Touched(s)' = Touched(s)
  BY <1>2, TouchedFrame, Zenon
<1>3. ASSUME NEW u \in Transfers, DoDial(u) \/ DoClose(u)
      PROVE  UNCHANGED <<cachedTokens[s], issued[s]>> /\ Touched(s)' = Touched(s)
  BY <1>2, <1>3, Zenon DEF DoDial, DoClose
<1>4. ASSUME NEW r \in Services, DoAccept(r) \/ DoApc(r) \/ DoTurnAway(r)
      PROVE  UNCHANGED <<cachedTokens[s], issued[s]>> /\ Touched(s)' = Touched(s)
  BY <1>2, <1>4, Zenon DEF DoAccept, DoApc, DoTurnAway
<1>5. ASSUME NEW r \in Services, DoFind(r) \/ DoDispatch(r), r # s
      PROVE  UNCHANGED <<cachedTokens[s], issued[s]>> /\ Touched(s)' = Touched(s)
  BY <1>5, TouchedFrame, Zenon DEF DoFind, DoDispatch
<1>6. ASSUME DoFind(s)
      PROVE  Touched(s) = 0 /\ Touched(s)' = token[conn[s]] /\ UNCHANGED issued[s]
  BY <1>6, Zenon DEF DoFind, Touched
<1>7. ASSUME DoDispatch(s)
      PROVE  Touched(s) = token[conn[s]] /\ Touched(s)' = 0 /\ UNCHANGED issued[s]
  BY <1>7, Zenon DEF DoDispatch, Touched
<1>8. CASE DoRest
  BY <1>2, <1>8, Zenon DEF DoRest
<1> QED
  BY <1>1, <1>3, <1>4, <1>5, <1>6, <1>7, <1>8, Zenon DEF LinkDoes

(* What a step did to the cache of s, told by its tokens.                  *)
CacheEffect(s) ==
    LET c == cachedTokens[s]
        d == cachedTokens'[s]
        last == Len(issued[s])
    IN
    /\ d \in Seq(Tokens) /\ Len(d) <= WaitNum[s]
    /\ Ranked(d, Touched(s)', Len(issued'[s]))
    /\ \A v : Cached(d, v) => Cached(c, v) \/ v = last + 1
    /\ \/ Len(issued'[s]) = last
       \/ Len(issued'[s]) = last + 1 /\ Touched(s)' = Touched(s) /\ Cached(d, last + 1)
    /\ \A v : Cached(c, v) /\ ~Cached(d, v) /\ v # Touched(s) =>
                 /\ Len(issued'[s]) = last + 1
                 /\ last + 1 - v >= 1 /\ last + 1 - v >= WaitNum[s] - 1

LEMMA CacheStep ==
    ASSUME Types, TokenInv, QueueInv, CacheInv, LinkDoes, NEW s \in Services
    PROVE  CacheEffect(s)
<1> DEFINE c == cachedTokens[s]
           d == cachedTokens'[s]
           last == Len(issued[s])
<1>0. /\ c \in Seq(Tokens) /\ Len(c) <= WaitNum[s] /\ WaitNum[s] \in Nat /\ last \in Nat
      /\ issued[s] \in Seq(Transfers)
      /\ Ranked(c, Touched(s), last) /\ Touched(s) \in 0 .. last
  <2>1. c \in Seq(Tokens) /\ Len(c) <= WaitNum[s] /\ issued[s] \in Seq(Transfers)
    BY Zenon DEF Types, AcceptTypes
  <2>2. WaitNum[s] \in Nat
    BY TransferAssumption, Zenon
  <2>3. Ranked(c, Touched(s), last) /\ Touched(s) \in 0 .. last
    BY TouchedIs, Zenon DEF CacheInv
  <2> QED
    BY <2>1, <2>2, <2>3
<1>1. CASE UNCHANGED <<cachedTokens[s], issued[s]>> /\ Touched(s)' = Touched(s)
  BY <1>0, <1>1, Zenon DEF CacheEffect
<1>2. ASSUME NEW u \in Transfers, DoIssue(u), s = Service(u), Touched(s)' = Touched(s)
      PROVE  CacheEffect(s)
  <2>1. /\ last + 1 \in Tokens /\ WaitNum[s] \in Nat \ {0}
        /\ d = LruAdd(c, last + 1, WaitNum[s]) /\ issued'[s] = Append(issued[s], u)
    BY <1>0, <1>2 DEF DoIssue
  <2>2. Len(issued'[s]) = last + 1
    BY <1>0, <2>1
  <2> HIDE DEF c, d, last
  <2>3. /\ d \in Seq(Tokens) /\ Len(d) <= WaitNum[s]
        /\ Ranked(d, Touched(s), last + 1)
        /\ Cached(d, last + 1)
        /\ \A v : Cached(d, v) => Cached(c, v) \/ v = last + 1
        /\ \A v : Cached(c, v) /\ ~Cached(d, v) /\ v # Touched(s) =>
                     last + 1 - v >= 1 /\ last + 1 - v >= WaitNum[s] - 1
    BY <1>0, <2>1, AddDoes, Zenon
  <2> QED
    BY <1>2, <2>2, <2>3, Zenon DEF CacheEffect, c, d, last
<1>3. CASE DoFind(s) /\ Touched(s) = 0 /\ Touched(s)' = token[conn[s]] /\ UNCHANGED issued[s]
  <2>1. token[conn[s]] \in Tokens
    BY <1>3, TouchedIs, Zenon DEF DoFind
  <2>2. d = LruGet(c, token[conn[s]]) /\ Cached(c, token[conn[s]])
    BY <1>3, Zenon DEF DoFind
  <2>3. /\ d \in Seq(Tokens) /\ Len(d) = Len(c)
        /\ Ranked(d, token[conn[s]], last)
        /\ \A v : Cached(d, v) <=> Cached(c, v)
    BY <1>0, <1>3, <2>1, <2>2, GetDoes
  <2>4. Len(issued'[s]) = last /\ Len(d) <= WaitNum[s]
    BY <1>0, <1>3, <2>3, Zenon
  <2> QED
    BY <1>3, <2>3, <2>4, Zenon DEF CacheEffect
<1>4. CASE DoDispatch(s) /\ Touched(s) = token[conn[s]] /\ Touched(s)' = 0 /\ UNCHANGED issued[s]
  <2>1. d = Used(c, token[conn[s]])
    BY <1>4, Zenon DEF DoDispatch
  <2>2. /\ d \in Seq(Tokens) /\ Len(d) <= Len(c)
        /\ Ranked(d, 0, last)
        /\ \A v : Cached(d, v) <=> Cached(c, v) /\ v # Touched(s)
    <3>1. Touched(s) \in Nat
      BY <1>0
    <3> QED
      BY <1>0, <1>4, <2>1, <3>1, UsedDoes
  <2>3. Len(issued'[s]) = last /\ Len(d) <= WaitNum[s]
    BY <1>0, <1>4, <2>2
  <2> QED
    BY <1>4, <2>2, <2>3, Zenon DEF CacheEffect
<1> QED
  BY <1>1, <1>2, <1>3, <1>4, CacheChanges, Zenon DEF CacheDoes

(* A token that the loop has not touched is another user's.                *)
LEMMA OwnToken ==
    ASSUME Types, TokenInv, QueueInv, NEW v \in Transfers, NEW s \in Services, Service(v) = s,
           apc[s] = "found", token[v] = token[conn[s]]
    PROVE  v = conn[s]
<1>1. conn[s] \in Transfers /\ Service(conn[s]) = s /\ token[conn[s]] \in Tokens
  BY TouchedIs, Zenon
<1>2. token[v] # 0
  BY <1>1, OfService, Zenon
<1> QED
  BY <1>1, <1>2 DEF TokenInv

(* Who is crowded out.                                                     *)
LEMMA CrowdStep ==
    ASSUME Types, TokenInv, QueueInv, CacheInv, CrowdInv, LinkDoes
    PROVE  CrowdInv'
<1> SUFFICES ASSUME NEW v \in Transfers,
                    token'[v] # 0, token'[v] # Touched(Service(v))',
                    far'[v] \in {"none", "backlog"},
                    ~Cached(cachedTokens'[Service(v)], token'[v])
             PROVE  /\ Len(issued'[Service(v)]) - token'[v] >= 1
                    /\ Len(issued'[Service(v)]) - token'[v] >= WaitNum[Service(v)] - 1
  BY Zenon DEF CrowdInv, Service
<1> DEFINE s == Service(v)
<1>0. /\ s \in Services /\ v \in Users /\ Len(issued[s]) \in Nat /\ WaitNum[s] \in Nat
      /\ token[v] \in Nat /\ Transfers \subseteq Users
      /\ conn \in [Services -> Transfers \cup {nil}]
  <2>1. s \in Services /\ v \in Users /\ WaitNum[s] \in Nat /\ Transfers \subseteq Users
    BY OfService, Zenon
  <2>2. issued[s] \in Seq(Transfers) /\ token[v] \in 0 .. MaxTokens
        /\ conn \in [Services -> Transfers \cup {nil}]
    BY <2>1, Zenon DEF Types, AcceptTypes, LinkTypes
  <2> QED
    BY <2>1, <2>2
<1>1. CacheEffect(s)
  BY <1>0, CacheStep, Zenon
<1> HIDE DEF s
<1>2. /\ token'[v] = token[v] \/ Cached(cachedTokens'[s], token'[v])
      /\ far'[v] = far[v] \/ far[v] = "none" \/ far'[v] = "closed"
      /\ apc[s] = "found" /\ apc'[s] # "found" => v # conn[s]
  <2> DEFINE G == /\ token'[v] = token[v] \/ Cached(cachedTokens'[s], token'[v])
                  /\ far'[v] = far[v] \/ far[v] = "none" \/ far'[v] = "closed"
                  /\ apc[s] = "found" /\ apc'[s] # "found" => v # conn[s]
  <2>1. ASSUME NEW u \in Transfers, DoIssue(u) PROVE G
    <3>1. UNCHANGED <<far, apc>> /\ \A w \in Users \ {u} : token'[w] = token[w]
      BY <2>1, Zenon DEF DoIssue
    <3>2. CASE v = u
      <4>1. \/ token'[v] = token[v]
            \/ token'[v] = Len(issued[s]) + 1
        BY <2>1, <3>2, Zenon DEF DoIssue, s
      <4>2. Len(issued'[s]) = Len(issued[s]) + 1
        <5>1. issued'[s] = Append(issued[s], u) /\ issued[s] \in Seq(Transfers)
          BY <1>0, <2>1, <3>2, Zenon DEF DoIssue, Types, AcceptTypes, s
        <5> QED
          BY <5>1
      <4>3. Cached(cachedTokens'[s], Len(issued[s]) + 1)
        BY <1>0, <1>1, <4>2 DEF CacheEffect
      <4> QED
        BY <3>1, <4>1, <4>3, Zenon
    <3> QED
      BY <1>0, <3>1, <3>2, Zenon
  <2>2. ASSUME NEW u \in Transfers, DoDial(u) \/ DoClose(u) PROVE G
    BY <1>0, <2>2, Zenon DEF DoDial, DoClose, TokenInv
  <2>3. ASSUME NEW r \in Services, DoAccept(r) \/ DoApc(r) \/ DoFind(r) PROVE G
    <3>1. UNCHANGED <<token, far>> /\ (apc[s] = "found" => apc'[s] = "found")
      BY <1>0, <2>3, Zenon DEF DoAccept, DoApc, DoFind
    <3> QED
      BY <3>1, Zenon
  <2>4. ASSUME NEW r \in Services, DoTurnAway(r) \/ DoDispatch(r) PROVE G
    <3>1. /\ UNCHANGED token /\ far'[conn[r]] \in {"open", "closed"}
          /\ \A w \in Users \ {conn[r]} : far'[w] = far[w]
          /\ \A q \in Services \ {r} : apc'[q] = apc[q]
      BY <2>4, Zenon DEF DoTurnAway, DoDispatch
    <3>2. v # conn[r]
      BY <3>1, Zenon
    <3> QED
      BY <1>0, <3>1, <3>2, Zenon
  <2>5. CASE DoRest
    BY <2>5, Zenon DEF DoRest
  <2> QED
    BY <2>1, <2>2, <2>3, <2>4, <2>5, Zenon DEF LinkDoes
<1>3. token'[v] = token[v] /\ ~Cached(cachedTokens'[s], token[v]) /\ token[v] # 0
  BY <1>2, Zenon DEF s
<1>4. token[v] # Touched(s)
  <2>1. CASE apc[s] = "found"
    <3>1. Touched(s) = token[conn[s]]
      BY <2>1, Zenon DEF Touched
    <3>2. CASE apc'[s] # "found"
      BY <1>0, <1>2, <2>1, <3>1, <3>2, OwnToken, Zenon DEF s
    <3>3. CASE apc'[s] = "found"
      <4>1. Touched(s)' = Touched(s)
        <5>1. ~DoFind(s) /\ ~DoDispatch(s)
          BY <2>1, <3>3, Zenon DEF DoFind, DoDispatch
        <5> QED
          BY <1>0, <5>1, CacheChanges, Zenon DEF CacheDoes
      <4> QED
        BY <1>3, <4>1, Zenon DEF s
    <3> QED
      BY <3>2, <3>3, Zenon
  <2>2. CASE apc[s] # "found"
    BY <1>3, <2>2, Zenon DEF Touched
  <2> QED
    BY <2>1, <2>2, Zenon
<1>5. CASE ~Cached(cachedTokens[s], token[v])
  <2>1. Len(issued[s]) - token[v] >= 1 /\ Len(issued[s]) - token[v] >= WaitNum[s] - 1
    <3>1. far[v] \in {"none", "backlog"}
      BY <1>2, Zenon
    <3> QED
      BY <1>3, <1>4, <1>5, <3>1, Zenon DEF CrowdInv, s
  <2>2. Len(issued'[s]) = Len(issued[s]) \/ Len(issued'[s]) = Len(issued[s]) + 1
    BY <1>1, Zenon DEF CacheEffect
  <2> QED
    BY <1>0, <1>3, <2>1, <2>2 DEF s
<1>6. CASE Cached(cachedTokens[s], token[v])
  <2>1. /\ Len(issued'[s]) = Len(issued[s]) + 1
        /\ Len(issued[s]) + 1 - token[v] >= 1
        /\ Len(issued[s]) + 1 - token[v] >= WaitNum[s] - 1
    BY <1>1, <1>3, <1>4, <1>6, Zenon DEF CacheEffect
  <2>2. Len(issued'[s]) - token'[v] >= 1 /\ Len(issued'[s]) - token'[v] >= WaitNum[s] - 1
    BY <1>0, <1>3, <2>1
  <2> QED
    BY <2>2, Zenon DEF s
<1> QED
  BY <1>5, <1>6, Zenon

(* Handlers and those turned away.                                         *)
LEMMA HandlerStep ==
    ASSUME Types, TokenInv, QueueInv, CacheInv, CrowdInv, HandlerInv, HandledAsAsked,
           RefusedWhenCrowded, LinkDoes
    PROVE  (HandlerInv /\ HandledAsAsked /\ RefusedWhenCrowded)'
<1>0. /\ Transfers \subseteq Users /\ \A u \in Transfers : Service(u) \in Services
      /\ conn \in [Services -> Transfers \cup {nil}] /\ refused \subseteq Transfers
      /\ \A u \in Transfers : token[u] \in Nat /\ Len(issued[Service(u)]) \in Nat
      /\ \A u \in Transfers : WaitNum[Service(u)] \in Nat
  <2>1. /\ Transfers \subseteq Users
        /\ \A u \in Transfers : Service(u) \in Services /\ WaitNum[Service(u)] \in Nat
    BY OfService, Zenon
  <2>2. /\ conn \in [Services -> Transfers \cup {nil}] /\ refused \subseteq Transfers
        /\ token \in [Users -> 0 .. MaxTokens] /\ issued \in [Services -> Seq(Transfers)]
    BY Zenon DEF Types, AcceptTypes, LinkTypes
  <2> QED
    BY <2>1, <2>2
<1>1. ASSUME NEW v \in Transfers
      PROVE  /\ \A t : Cached(cachedTokens'[Service(v)], t) =>
                   Cached(cachedTokens[Service(v)], t) \/ t = Len(issued[Service(v)]) + 1
             /\ \/ Len(issued'[Service(v)]) = Len(issued[Service(v)])
                \/ Len(issued'[Service(v)]) = Len(issued[Service(v)]) + 1
  BY <1>0, CacheStep, Zenon DEF CacheEffect
<1>2. ASSUME NEW v \in Transfers, token[v] # 0 PROVE token[v] # Len(issued[Service(v)]) + 1
  BY <1>0, <1>2 DEF TokenInv
<1>3. ASSUME NEW v \in Transfers,
             handled'[v] = handled[v], token'[v] = token[v],
             far'[v] \in {"none", "backlog"} => far[v] \in {"none", "backlog"},
             far'[v] = "none" => far[v] = "none"
      PROVE  /\ far'[v] \in {"none", "backlog"} => handled'[v] = <<>>
             /\ handled'[v] \in {<<>>, <<v>>}
             /\ handled'[v] = <<v>> =>
                   KindOf[v] \in Handlers /\ ~Cached(cachedTokens'[Service(v)], token'[v])
             /\ v \in refused =>
                   /\ far'[v] # "none"
                   /\ Len(issued'[Service(v)]) - token'[v] >= 1
                   /\ Len(issued'[Service(v)]) - token'[v] >= WaitNum[Service(v)] - 1
  <2>1. /\ far'[v] \in {"none", "backlog"} => handled'[v] = <<>>
        /\ handled'[v] \in {<<>>, <<v>>}
    BY <1>3, Zenon DEF HandlerInv, HandledAsAsked
  <2>2. ASSUME handled'[v] = <<v>>
        PROVE  KindOf[v] \in Handlers /\ ~Cached(cachedTokens'[Service(v)], token'[v])
    <3>1. KindOf[v] \in Handlers /\ ~Cached(cachedTokens[Service(v)], token[v])
      BY <1>3, <2>2, Zenon DEF HandledAsAsked
    <3>2. <<v>> # <<>>
      OBVIOUS
    <3>3. far[v] # "none"
      BY <1>3, <2>2, <3>2, Zenon DEF HandlerInv
    <3>4. token[v] # 0
      BY <3>3, Zenon DEF TokenInv
    <3> QED
      BY <1>1, <1>2, <1>3, <3>1, <3>4, Zenon
  <2>3. ASSUME v \in refused
        PROVE  /\ far'[v] # "none"
               /\ Len(issued'[Service(v)]) - token'[v] >= 1
               /\ Len(issued'[Service(v)]) - token'[v] >= WaitNum[Service(v)] - 1
    <3>1. far'[v] # "none"
      BY <1>3, <2>3, Zenon DEF HandlerInv
    <3>2. /\ Len(issued[Service(v)]) - token[v] >= 1
          /\ Len(issued[Service(v)]) - token[v] >= WaitNum[Service(v)] - 1
      BY <2>3, Zenon DEF RefusedWhenCrowded
    <3> QED
      BY <1>0, <1>1, <1>3, <3>1, <3>2
  <2> QED
    BY <2>1, <2>2, <2>3, Zenon
<1>4. ASSUME NEW v \in Transfers
      PROVE  /\ far'[v] \in {"none", "backlog"} => handled'[v] = <<>>
             /\ handled'[v] \in {<<>>, <<v>>}
             /\ handled'[v] = <<v>> =>
                   KindOf[v] \in Handlers /\ ~Cached(cachedTokens'[Service(v)], token'[v])
             /\ v \in refused' =>
                   /\ far'[v] # "none"
                   /\ Len(issued'[Service(v)]) - token'[v] >= 1
                   /\ Len(issued'[Service(v)]) - token'[v] >= WaitNum[Service(v)] - 1
  <2> DEFINE Kept == /\ handled'[v] = handled[v] /\ token'[v] = token[v]
                     /\ far'[v] \in {"none", "backlog"} => far[v] \in {"none", "backlog"}
                     /\ far'[v] = "none" => far[v] = "none"
             Good == /\ far'[v] \in {"none", "backlog"} => handled'[v] = <<>>
                     /\ handled'[v] \in {<<>>, <<v>>}
                     /\ handled'[v] = <<v>> =>
                           KindOf[v] \in Handlers /\ ~Cached(cachedTokens'[Service(v)], token'[v])
                     /\ v \in refused' =>
                           /\ far'[v] # "none"
                           /\ Len(issued'[Service(v)]) - token'[v] >= 1
                           /\ Len(issued'[Service(v)]) - token'[v] >= WaitNum[Service(v)] - 1
  <2>0. Kept /\ (v \in refused' => v \in refused) => Good
    BY <1>3, <1>4, Zenon
  <2>1. ASSUME NEW u \in Transfers, DoIssue(u) PROVE Good
    <3>1. CASE u # v
      <4>1. UNCHANGED <<handled, far, refused>> /\ token'[v] = token[v]
        BY <1>0, <1>4, <2>1, <3>1, Zenon DEF DoIssue
      <4> QED
        BY <2>0, <4>1, Zenon
    <3>2. CASE u = v
      <4>1. UNCHANGED <<handled, far, refused>> /\ far[v] = "none"
        BY <2>1, <3>2, Zenon DEF DoIssue, TokenInv
      <4>2. handled[v] = <<>> /\ v \notin refused /\ <<v>> # <<>>
        BY <4>1, Zenon DEF HandlerInv
      <4> QED
        BY <4>1, <4>2, Zenon
    <3> QED
      BY <3>1, <3>2, Zenon
  <2>2. ASSUME NEW u \in Transfers, DoDial(u) \/ DoClose(u) PROVE Good
    <3>1. Kept /\ UNCHANGED refused
      BY <1>0, <1>4, <2>2, Zenon DEF DoDial, DoClose, TokenInv
    <3> QED
      BY <2>0, <3>1, Zenon
  <2>3. ASSUME NEW s \in Services, DoAccept(s) \/ DoApc(s) \/ DoFind(s) PROVE Good
    <3>1. UNCHANGED <<handled, token, far, refused>>
      BY <2>3, Zenon DEF DoAccept, DoApc, DoFind
    <3> QED
      BY <2>0, <3>1, Zenon
  <2>4. ASSUME NEW s \in Services, DoTurnAway(s) PROVE Good
    <3>1. Kept
      BY <1>0, <1>4, <2>4, Zenon DEF DoTurnAway
    <3>2. CASE v \in refused' => v \in refused
      BY <2>0, <3>1, <3>2, Zenon
    <3>3. CASE v = conn[s] /\ ~Cached(cachedTokens[s], token[v])
      <4>1. /\ Service(v) = s /\ far[v] = "backlog" /\ token[v] \in Tokens /\ Touched(s) = 0
            /\ UNCHANGED issued /\ far'[v] = "closed"
        BY <2>4, <3>3, TouchedIs, Zenon DEF DoTurnAway, Touched
      <4>2. /\ Len(issued[s]) - token[v] >= 1 /\ Len(issued[s]) - token[v] >= WaitNum[s] - 1
        BY <3>3, <4>1, OfService, Zenon DEF CrowdInv
      <4>3. handled'[v] = <<>> /\ <<v>> # <<>>
        BY <3>1, <4>1, Zenon DEF HandlerInv
      <4> QED
        BY <3>1, <4>1, <4>2, <4>3, Zenon
    <3> QED
      BY <2>4, <3>2, <3>3, Zenon DEF DoTurnAway
  <2>5. ASSUME NEW s \in Services, DoDispatch(s) PROVE Good
    <3>1. CASE v # conn[s]
      <4>1. handled'[v] = handled[v] /\ far'[v] = far[v] /\ UNCHANGED <<token, refused>>
        BY <1>0, <1>4, <2>5, <3>1, Zenon DEF DoDispatch
      <4> QED
        BY <2>0, <4>1, Zenon
    <3>2. CASE v = conn[s]
      <4>1. /\ Service(v) = s /\ far[v] = "backlog" /\ token[v] \in Tokens
            /\ UNCHANGED <<token, issued, refused>>
        BY <2>5, <3>2, TouchedIs, Zenon DEF DoDispatch
      <4>2. handled[v] = <<>> /\ <<v>> # <<>> /\ issued[s][token[v]] = v
        BY <4>1, OfService, Zenon DEF HandlerInv, TokenInv
      <4>3. CASE handled'[v] = handled[v] /\ far'[v] = "closed"
        BY <2>0, <4>1, <4>3, Zenon
      <4>4. CASE KindOf[v] \in Handlers /\ handled'[v] = Append(handled[v], v) /\ far'[v] = "open"
        <5>1. handled'[v] = <<v>>
          BY <4>2, <4>4
        <5>2. ~Cached(cachedTokens'[s], token[v])
          <6>1. Touched(s) = token[v] /\ cachedTokens'[s] = Used(cachedTokens[s], token[v])
            BY <2>5, <3>2, Zenon DEF DoDispatch, Touched
          <6>2. Ranked(cachedTokens[s], token[v], Len(issued[s]))
            BY <6>1, Zenon DEF CacheInv
          <6>3. cachedTokens[s] \in Seq(Tokens)
            BY Zenon DEF Types, AcceptTypes
          <6> QED
            BY <1>0, <1>4, <4>1, <6>1, <6>2, <6>3, UsedDoes
        <5>3. v \in refused => /\ Len(issued[s]) - token[v] >= 1
                               /\ Len(issued[s]) - token[v] >= WaitNum[s] - 1
          BY <4>1, Zenon DEF RefusedWhenCrowded
        <5> QED
          BY <4>1, <4>4, <5>1, <5>2, <5>3, Zenon
      <4> QED
        BY <2>5, <3>2, <4>2, <4>3, <4>4, Zenon DEF DoDispatch
    <3> QED
      BY <3>1, <3>2, Zenon
  <2>6. CASE DoRest
    <3>1. UNCHANGED <<handled, token, far, refused>>
      BY <2>6, Zenon DEF DoRest
    <3> QED
      BY <2>0, <3>1, Zenon
  <2> QED
    BY <2>1, <2>2, <2>3, <2>4, <2>5, <2>6, Zenon DEF LinkDoes
<1>5. refused' \subseteq Transfers
  <2>1. ASSUME NEW s \in Services, DoTurnAway(s) PROVE refused' \subseteq Transfers
    <3>1. conn[s] \in Transfers
      BY <2>1, TouchedIs, Zenon DEF DoTurnAway
    <3> QED
      BY <1>0, <2>1, <3>1, Zenon DEF DoTurnAway
  <2>2. CASE UNCHANGED refused
    BY <1>0, <2>2, Zenon
  <2> QED
    BY <2>1, <2>2, Zenon DEF LinkDoes, DoIssue, DoDial, DoClose, DoAccept, DoApc, DoFind,
       DoDispatch, DoRest
<1>6. HandlerInv'
  BY <1>4, Zenon DEF HandlerInv
<1>7. HandledAsAsked'
  BY <1>4, Zenon DEF HandledAsAsked, Service
<1>8. RefusedWhenCrowded'
  BY <1>4, <1>5, Zenon DEF RefusedWhenCrowded, Service
<1> QED
  BY <1>6, <1>7, <1>8, Zenon

-----------------------------------------------------------------------------
(* Types of what the services and the transfers use.                       *)
DataTypes ==
    /\ written \in [Users -> 0 .. Size]
    /\ got \in [Users -> 0 .. Size]
    /\ ctxDone \in SUBSET Transfers
    /\ result \in [Users -> {"none", "nil", "error", "ctx"}]

LEMMA CacheTypes ==
    ASSUME Types, TokenInv, QueueInv, CacheInv, LinkDoes,
           \/ cachedTokens' = cachedTokens
           \/ \E s \in Services : \E c : cachedTokens' = [cachedTokens EXCEPT ![s] = c]
    PROVE  /\ cachedTokens' \in [Services -> Seq(Tokens)]
           /\ \A s \in Services : Len(cachedTokens'[s]) <= WaitNum[s]
<1>1. \A s \in Services : cachedTokens'[s] \in Seq(Tokens) /\ Len(cachedTokens'[s]) <= WaitNum[s]
  BY CacheStep, Zenon DEF CacheEffect
<1>2. cachedTokens \in [Services -> Seq(Tokens)]
  BY Zenon DEF Types, AcceptTypes
<1> QED
  BY <1>1, <1>2, Zenon

LEMMA ServiceTypes ==
    ASSUME Types, DataTypes, TokenInv, QueueInv, CacheInv, LinkDoes, NEW s \in Services,
           \/ EnableFileTransfer(s) \/ EnableStreamService(s) \/ Listen(s)
           \/ AcceptFails(s) \/ AcceptStep(s)
    PROVE  (AcceptTypes /\ LinkTypes /\ DataTypes)'
<1>0. /\ apc \in [Services -> {"off", "listen", "accept", "token", "found", "failed", "returned"}]
      /\ listening \in SUBSET Services /\ cachedTokens \in [Services -> Seq(Tokens)]
      /\ backlog \in [Services -> Seq(Transfers)] /\ conn \in [Services -> Transfers \cup {nil}]
      /\ far \in [Users -> {"none", "backlog", "open", "closed"}]
      /\ handled \in [Users -> Seq(Transfers)] /\ refused \in SUBSET Transfers
      /\ Transfers \subseteq Users
  BY OfService, Zenon DEF Types, AcceptTypes, LinkTypes
<1>1. UNCHANGED <<issued, token, sent, near, written, got, ctxDone, result>>
  BY Zenon DEF EnableFileTransfer, EnableStreamService, Start, Listen, AcceptFails, AcceptStep,
     Accept,
     ReadToken, ReadTokenFails, DispatchFile, DispatchStream, StartHandler, linkVars, dataVars
<1>2. \E p \in {"listen", "accept", "failed", "token", "found"} : apc' = [apc EXCEPT ![s] = p]
  BY Zenon DEF EnableFileTransfer, EnableStreamService, Start, Listen, AcceptFails, AcceptStep,
     Accept,
     ReadToken, ReadTokenFails, DispatchFile, DispatchStream, StartHandler, Continue
<1>3. listening' = listening \/ listening' = listening \cup {s}
  BY Zenon DEF EnableFileTransfer, EnableStreamService, Start, Listen, AcceptFails, AcceptStep,
     Accept,
     ReadToken, ReadTokenFails, DispatchFile, DispatchStream, StartHandler
<1>4. cachedTokens' = cachedTokens \/ \E c : cachedTokens' = [cachedTokens EXCEPT ![s] = c]
  BY Zenon DEF EnableFileTransfer, EnableStreamService, Start, Listen, AcceptFails, AcceptStep,
     Accept,
     ReadToken, ReadTokenFails, DispatchFile, DispatchStream, StartHandler
<1>5. \/ backlog' = backlog /\ (conn' = conn \/ conn' = [conn EXCEPT ![s] = nil])
      \/ /\ backlog[s] # <<>> /\ backlog' = [backlog EXCEPT ![s] = Tail(backlog[s])]
         /\ conn' = [conn EXCEPT ![s] = Head(backlog[s])]
  BY Zenon DEF EnableFileTransfer, EnableStreamService, Start, Listen, AcceptFails, AcceptStep,
     Accept,
     ReadToken, ReadTokenFails, DispatchFile, DispatchStream, StartHandler
<1>6. \/ UNCHANGED <<far, handled, refused>>
      \/ /\ apc[s] \in {"token", "found"}
         /\ \E p \in {"open", "closed"} : far' = [far EXCEPT ![conn[s]] = p]
         /\ refused' = refused \/ refused' = refused \cup {conn[s]}
         /\ \/ handled' = handled
            \/ handled' = [handled EXCEPT ![conn[s]] =
                             Append(handled[conn[s]], issued[s][token[conn[s]]])]
  BY Zenon DEF EnableFileTransfer, EnableStreamService, Start, Listen, AcceptFails, AcceptStep,
     Accept,
     ReadToken, ReadTokenFails, DispatchFile, DispatchStream, StartHandler, linkVars
<1>7. apc' \in [Services -> {"off", "listen", "accept", "token", "found", "failed", "returned"}]
      /\ listening' \in SUBSET Services
  BY <1>0, <1>2, <1>3, Zenon
<1>8. backlog' \in [Services -> Seq(Transfers)] /\ conn' \in [Services -> Transfers \cup {nil}]
  <2>1. backlog[s] # <<>> => Tail(backlog[s]) \in Seq(Transfers) /\ Head(backlog[s]) \in Transfers
    <3>1. backlog[s] \in Seq(Transfers)
      BY <1>0, Zenon
    <3> QED
      BY <3>1
  <2>2. backlog' \in [Services -> Seq(Transfers)]
    BY <1>0, <1>5, <2>1, Zenon
  <2>3. conn' \in [Services -> Transfers \cup {nil}]
    BY <1>0, <1>5, <2>1, Zenon
  <2> QED
    BY <2>2, <2>3, Zenon
<1>9. /\ far' \in [Users -> {"none", "backlog", "open", "closed"}]
      /\ handled' \in [Users -> Seq(Transfers)] /\ refused' \in SUBSET Transfers
  <2>1. CASE UNCHANGED <<far, handled, refused>>
    BY <1>0, <2>1, Zenon
  <2>2. CASE apc[s] \in {"token", "found"}
    <3>1. /\ conn[s] \in Transfers /\ Service(conn[s]) = s /\ token[conn[s]] # 0
      BY <2>2, TouchedIs, OfService, Zenon
    <3>2. issued[s][token[conn[s]]] = conn[s]
      BY <3>1, Zenon DEF TokenInv
    <3>3. Append(handled[conn[s]], conn[s]) \in Seq(Transfers)
      <4>1. handled[conn[s]] \in Seq(Transfers)
        BY <1>0, <3>1, Zenon
      <4> QED
        BY <3>1, <4>1
    <3>4. handled' = handled
          \/ handled' = [handled EXCEPT ![conn[s]] = Append(handled[conn[s]], conn[s])]
      BY <1>6, <3>2, Zenon
    <3>5. handled' \in [Users -> Seq(Transfers)]
      BY <1>0, <3>3, <3>4, Zenon
    <3> QED
      BY <1>0, <1>6, <3>1, <3>5, Zenon
  <2> QED
    BY <1>6, <2>1, <2>2, Zenon
<1>10. /\ cachedTokens' \in [Services -> Seq(Tokens)]
       /\ \A r \in Services : Len(cachedTokens'[r]) <= WaitNum[r]
  BY <1>4, CacheTypes, Zenon
<1> QED
  BY <1>1, <1>7, <1>8, <1>9, <1>10, Zenon DEF AcceptTypes, LinkTypes, DataTypes, Types

LEMMA TransferTypes ==
    ASSUME Types, DataTypes, TokenInv, QueueInv, CacheInv, LinkDoes, NEW u \in Transfers,
           TransferStep(u)
    PROVE  (AcceptTypes /\ LinkTypes /\ DataTypes)'
<1>0. /\ issued \in [Services -> Seq(Transfers)] /\ cachedTokens \in [Services -> Seq(Tokens)]
      /\ backlog \in [Services -> Seq(Transfers)] /\ token \in [Users -> 0 .. MaxTokens]
      /\ sent \in SUBSET Transfers /\ near \in [Users -> {"none", "open", "closed"}]
      /\ far \in [Users -> {"none", "backlog", "open", "closed"}]
      /\ Transfers \subseteq Users /\ Service(u) \in Services /\ Size \in Nat /\ MaxTokens \in Nat
  BY OfService, TransferAssumption, Zenon DEF Types, AcceptTypes, LinkTypes
<1>1. CASE Issue(u)
  <2>1. /\ issued' = [issued EXCEPT ![Service(u)] = Append(issued[Service(u)], u)]
        /\ \E c : cachedTokens' = [cachedTokens EXCEPT ![Service(u)] = c]
        /\ \/ token' = token
           \/ token' = [token EXCEPT ![u] = Len(issued[Service(u)]) + 1]
        /\ \/ UNCHANGED <<near, result>>
           \/ Return(u, "error")
        /\ UNCHANGED <<apc, listening, backlog, conn, sent, far, handled, refused, written, got, ctxDone>>
    BY <1>1, Zenon DEF Issue
  <2>2. Append(issued[Service(u)], u) \in Seq(Transfers) /\ Len(issued[Service(u)]) + 1 \in 0 .. MaxTokens
    <3>1. issued[Service(u)] \in Seq(Transfers)
      BY <1>0, Zenon
    <3>2. Len(issued[Service(u)]) + 1 <= MaxTokens
      BY <1>1, Zenon DEF Issue
    <3> QED
      BY <1>0, <3>1, <3>2
  <2>3. issued' \in [Services -> Seq(Transfers)] /\ token' \in [Users -> 0 .. MaxTokens]
    BY <1>0, <2>1, <2>2, Zenon
  <2>4. /\ cachedTokens' \in [Services -> Seq(Tokens)]
        /\ \A r \in Services : Len(cachedTokens'[r]) <= WaitNum[r]
    BY <1>0, <2>1, CacheTypes, Zenon
  <2>5. /\ near' \in [Users -> {"none", "open", "closed"}]
        /\ result' \in [Users -> {"none", "nil", "error", "ctx"}]
    <3>1. result \in [Users -> {"none", "nil", "error", "ctx"}]
      BY Zenon DEF DataTypes
    <3>2. CASE Return(u, "error")
      BY <1>0, <3>1, <3>2, Zenon DEF Return
    <3> QED
      BY <1>0, <2>1, <3>1, <3>2, Zenon
  <2> QED
    BY <2>1, <2>3, <2>4, <2>5, Zenon DEF AcceptTypes, LinkTypes, DataTypes, Types
<1>2. CASE Dial(u)
  <2>1. Append(backlog[Service(u)], u) \in Seq(Transfers)
    <3>1. backlog[Service(u)] \in Seq(Transfers)
      BY <1>0, Zenon
    <3> QED
      BY <3>1
  <2>2. backlog' \in [Services -> Seq(Transfers)]
    BY <1>0, <1>2, <2>1, Zenon DEF Dial
  <2>3. near' \in [Users -> {"none", "open", "closed"}] /\ far' \in [Users -> {"none", "backlog", "open", "closed"}]
    BY <1>0, <1>2, Zenon DEF Dial
  <2> QED
    BY <1>2, <2>2, <2>3, Zenon DEF Dial, AcceptTypes, LinkTypes, DataTypes, Types, dataVars
<1>3. CASE HandlerCloses(u)
  <2>1. far' \in [Users -> {"none", "backlog", "open", "closed"}]
    BY <1>0, <1>3, Zenon DEF HandlerCloses
  <2> QED
    BY <1>3, <2>1, Zenon DEF HandlerCloses, AcceptTypes, LinkTypes, DataTypes, Types, acceptVars,
       dataVars
<1>4. CASE WriteToken(u) \/ Stalls(u)
  <2>1. near' \in [Users -> {"none", "open", "closed"}] /\ sent' \in SUBSET Transfers
        /\ result' \in [Users -> {"none", "nil", "error", "ctx"}]
    BY <1>0, <1>4, Zenon DEF WriteToken, Stalls, Return, DataTypes, linkVars, dataVars
  <2>2. UNCHANGED <<apc, listening, cachedTokens, issued, backlog, conn>>
        /\ UNCHANGED <<token, far, handled, refused, written, got, ctxDone>>
    BY <1>4, Zenon DEF WriteToken, Stalls, acceptVars, linkVars, dataVars
  <2> QED
    BY <2>1, <2>2, Zenon DEF AcceptTypes, LinkTypes, DataTypes, Types
<1>5. ASSUME NEW r \in {"nil", "error", "ctx"}, Return(u, r),
             UNCHANGED <<acceptVars, token, sent, far, handled, refused, written, got, ctxDone>>
      PROVE  (AcceptTypes /\ LinkTypes /\ DataTypes)'
  <2>1. near' \in [Users -> {"none", "open", "closed"}]
        /\ result' \in [Users -> {"none", "nil", "error", "ctx"}]
    BY <1>0, <1>5, Zenon DEF Return, DataTypes
  <2> QED
    BY <1>5, <2>1, Zenon DEF AcceptTypes, LinkTypes, DataTypes, Types, acceptVars
<1>6. CASE \/ CallFails(u) \/ ConnectFails(u) \/ SendFileEnds(u) \/ SendFileCancelled(u)
           \/ SendFileFails(u) \/ DownloadEnds(u) \/ DownloadCancelled(u) \/ DownloadFails(u)
  BY <1>5, <1>6, Zenon DEF CallFails, ConnectFails, SendFileEnds, SendFileCancelled, SendFileFails,
     DownloadEnds, DownloadCancelled, DownloadFails, DownloadErr, transferVars
<1>7. CASE \/ ContextDone(u) \/ SendChunk(u) \/ DownloadReads(u) \/ SaveChunk(u) \/ HandlerWrites(u)
  <2>1. UNCHANGED <<acceptVars, linkVars, result>>
    BY <1>7, Zenon DEF ContextDone, SendChunk, DownloadReads, SaveChunk, HandlerWrites,
       transferVars,
       linkVars
  <2>2. written' \in [Users -> 0 .. Size]
    <3>1. \/ written' = written
          \/ written[u] < Size /\ written' = [written EXCEPT ![u] = written[u] + 1]
      BY <1>7, Zenon DEF ContextDone, SendChunk, DownloadReads, SaveChunk, HandlerWrites
    <3>2. written \in [Users -> 0 .. Size] /\ written[u] \in 0 .. Size
      BY <1>0, Zenon DEF DataTypes
    <3>3. written[u] < Size => written[u] + 1 \in 0 .. Size
      BY <1>0, <3>2
    <3> QED
      BY <3>1, <3>2, <3>3, Zenon
  <2>3. got' \in [Users -> 0 .. Size]
    <3>1. \/ got' = got
          \/ got[u] < written[u] /\ got' = [got EXCEPT ![u] = got[u] + 1]
      BY <1>7, Zenon DEF ContextDone, SendChunk, DownloadReads, SaveChunk, HandlerWrites
    <3>2. got \in [Users -> 0 .. Size] /\ got[u] \in 0 .. Size /\ written[u] \in 0 .. Size
      BY <1>0, Zenon DEF DataTypes
    <3>3. got[u] < written[u] => got[u] + 1 \in 0 .. Size
      BY <1>0, <3>2
    <3> QED
      BY <3>1, <3>2, <3>3, Zenon
  <2>4. ctxDone' \in SUBSET Transfers
    BY <1>7, Zenon
       DEF ContextDone, SendChunk, DownloadReads, SaveChunk, HandlerWrites, transferVars, DataTypes
  <2> QED
    BY <2>1, <2>2, <2>3, <2>4, Zenon DEF AcceptTypes, LinkTypes, DataTypes, Types, acceptVars,
       linkVars
<1> QED
  BY <1>1, <1>2, <1>3, <1>4, <1>6, <1>7, Zenon DEF TransferStep, TransferFile, DownloadFile, Stream

-----------------------------------------------------------------------------
(* Files.                                                                  *)

(* An end that is closed stays closed.                                     *)
LEMMA FarStep ==
    ASSUME Types, TokenInv, QueueInv, LinkDoes
    PROVE  \A v \in Transfers : far[v] = "closed" => far'[v] = "closed"
<1>0. Transfers \subseteq Users
  BY OfService, Zenon
<1> SUFFICES ASSUME NEW v \in Transfers, far[v] = "closed" PROVE far'[v] = "closed"
  OBVIOUS
<1>1. ASSUME NEW u \in Transfers, DoDial(u) \/ DoClose(u) PROVE far'[v] = "closed"
  BY <1>0, <1>1, Zenon DEF DoDial, DoClose, TokenInv
<1>2. ASSUME NEW s \in Services, DoTurnAway(s) \/ DoDispatch(s) PROVE far'[v] = "closed"
  <2>1. far[conn[s]] = "backlog"
    BY <1>2, TouchedIs, Zenon DEF DoTurnAway, DoDispatch
  <2>2. v # conn[s]
    BY <2>1, Zenon
  <2> QED
    BY <1>0, <1>2, <2>2, Zenon DEF DoTurnAway, DoDispatch
<1>3. CASE UNCHANGED far
  BY <1>3, Zenon
<1> QED
  BY <1>1, <1>2, <1>3, Zenon DEF LinkDoes, DoIssue, DoAccept, DoApc, DoFind, DoRest

(* The claims about one user.                                              *)
Whole(v) ==
    /\ result[v] # "none" => upc[v] = "end"
    /\ upc[v] = "reading" => KindOf[v] = "DownloadFile"
    /\ KindOf[v] = "DownloadFile" /\ result[v] = "nil" => got[v] = written[v] /\ far[v] = "closed"
    /\ KindOf[v] = "SendFile" /\ result[v] = "nil" => written[v] = Size \/ v \in ctxDone

LEMMA WholeFrame ==
    ASSUME NEW v \in Transfers, Whole(v), far[v] = "closed" => far'[v] = "closed",
           result'[v] = result[v],
           \/ upc'[v] = upc[v]
           \/ upc[v] # "end" /\ (upc'[v] = "reading" => KindOf[v] = "DownloadFile"),
           upc[v] = "end" => written'[v] = written[v] /\ got'[v] = got[v],
           v \in ctxDone => v \in ctxDone'
    PROVE  Whole(v)'
BY Zenon DEF Whole

LEMMA FileStep ==
    ASSUME Types, DataTypes, TokenInv, QueueInv, ReturnInv, FilesWhole, LinkDoes, [Next]_vars
    PROVE  (ReturnInv /\ FilesWhole)'
<1>0. /\ upc \in [Users -> UserStates] /\ result \in [Users -> {"none", "nil", "error", "ctx"}]
      /\ written \in [Users -> 0 .. Size] /\ got \in [Users -> 0 .. Size]
      /\ Transfers \subseteq Users
  BY OfService, Zenon DEF Types, DataTypes
<1>1. \A v \in Transfers : Whole(v)
  BY Zenon DEF ReturnInv, FilesWhole, DownloadFaithful, SendFaithful, Whole
<1>2. SUFFICES ASSUME NEW v \in Transfers PROVE Whole(v)'
  BY Zenon DEF ReturnInv, FilesWhole, DownloadFaithful, SendFaithful, Whole
<1>3. /\ far[v] = "closed" => far'[v] = "closed"
      /\ v \in Users
  BY <1>0, FarStep, Zenon
<1>4. ASSUME UNCHANGED <<written, got, ctxDone, result>>,
             \/ upc'[v] = upc[v]
             \/ upc[v] # "end" /\ (upc'[v] = "reading" => KindOf[v] = "DownloadFile")
      PROVE  Whole(v)'
  BY <1>1, <1>3, <1>4, WholeFrame, Zenon
<1>5. CASE OneStep /\ UNCHANGED <<acceptVars, linkVars, dataVars>>
  <2>1. upc'[v] = upc[v] \/ (upc[v] \in Early /\ upc'[v] \in Early \cup {"call", "end"})
    BY <1>0, <1>3, <1>5, OneMoves, Zenon
  <2> QED
    BY <1>4, <1>5, <2>1, Zenon DEF dataVars, Early
<1>6. ASSUME NEW s \in Services,
             \/ EnableFileTransfer(s) \/ EnableStreamService(s) \/ Listen(s)
             \/ AcceptFails(s) \/ AcceptStep(s)
      PROVE  Whole(v)'
  <2>1. UNCHANGED <<written, got, ctxDone, result, upc>>
    BY <1>6, Zenon DEF EnableFileTransfer, EnableStreamService, Start, Listen, AcceptFails,
       AcceptStep,
       Accept, ReadToken, ReadTokenFails, DispatchFile, DispatchStream, StartHandler, dataVars,
       oneVars, userVars
  <2> QED
    BY <1>4, <2>1, Zenon
<1>7. ASSUME NEW u \in Transfers, TransferStep(u) PROVE Whole(v)'
  <2>0. u \in Users
    BY <1>0, Zenon
  <2>1. ASSUME NEW r \in {"nil", "error", "ctx"}, Return(u, r), upc[u] # "end",
               UNCHANGED <<written, got, ctxDone>>,
               r = "nil" => \/ KindOf[u] = "Stream"
                            \/ KindOf[u] = "SendFile" /\ (written[u] = Size \/ u \in ctxDone)
                            \/ KindOf[u] = "DownloadFile" /\ got[u] = written[u] /\ far[u] = "closed"
        PROVE  Whole(v)'
    <3>1. /\ upc'[u] = "end" /\ result'[u] = r
          /\ \A w \in Users \ {u} : upc'[w] = upc[w] /\ result'[w] = result[w]
      BY <1>0, <2>0, <2>1, Zenon DEF Return
    <3>2. CASE v # u
      <4>1. upc'[v] = upc[v] /\ result'[v] = result[v]
        BY <1>3, <3>1, <3>2, Zenon
      <4> QED
        BY <1>1, <1>3, <2>1, <4>1, WholeFrame, Zenon
    <3>3. CASE v = u
      BY <1>3, <2>1, <3>1, <3>3, Zenon DEF Whole
    <3> QED
      BY <3>2, <3>3, Zenon
  <2>2. CASE Issue(u)
    <3>1. CASE Return(u, "error")
      BY <2>1, <2>2, <3>1, Zenon DEF Issue
    <3>2. CASE UNCHANGED result
      <4>1. upc[u] = "call" /\ (upc' = upc \/ upc' = [upc EXCEPT ![u] = "dial"] \/ Return(u, "error"))
        BY <2>2, Zenon DEF Issue
      <4>2. CASE upc' = upc \/ upc' = [upc EXCEPT ![u] = "dial"]
        <5>1. upc'[v] = upc[v] \/ (upc[v] # "end" /\ upc'[v] = "dial")
          BY <1>0, <1>3, <4>1, <4>2, Zenon
        <5>2. UNCHANGED <<written, got, ctxDone>>
          BY <2>2, Zenon DEF Issue
        <5> QED
          BY <1>4, <3>2, <5>1, <5>2, Zenon
      <4> QED
        BY <3>1, <4>1, <4>2, Zenon
    <3> QED
      BY <2>2, <3>1, <3>2, Zenon DEF Issue
  <2>3. CASE CallFails(u) \/ ConnectFails(u)
    BY <2>1, <2>3, Zenon DEF CallFails, ConnectFails
  <2>4. CASE WriteToken(u)
    <3>1. CASE KindOf[u] = "Stream"
      BY <2>1, <2>4, <3>1, Zenon DEF WriteToken
    <3>2. CASE KindOf[u] # "Stream"
      <4>1. /\ UNCHANGED <<written, got, ctxDone, result>>
            /\ upc[u] = "token" /\ upc' = [upc EXCEPT ![u] = "transfer"]
        BY <2>4, <3>2, Zenon DEF WriteToken
      <4>2. upc'[v] = upc[v] \/ (upc[v] # "end" /\ upc'[v] = "transfer")
        BY <1>0, <1>3, <4>1, Zenon
      <4> QED
        BY <1>4, <4>1, <4>2, Zenon
    <3> QED
      BY <3>1, <3>2, Zenon
  <2>5. CASE Dial(u) \/ Stalls(u) \/ DownloadReads(u)
    <3>1. UNCHANGED <<written, got, ctxDone, result>>
      BY <2>5, Zenon DEF Dial, Stalls, DownloadReads, dataVars, transferVars
    <3>2. \/ upc'[v] = upc[v]
          \/ upc[v] # "end" /\ (upc'[v] = "reading" => KindOf[v] = "DownloadFile")
      BY <1>0, <1>3, <2>5, Zenon DEF Dial, Stalls, DownloadReads, Moving
    <3> QED
      BY <1>4, <3>1, <3>2, Zenon
  <2>6. CASE SendFileEnds(u) \/ SendFileCancelled(u) \/ SendFileFails(u)
    BY <2>1, <2>6, Zenon
       DEF SendFileEnds, SendFileCancelled, SendFileFails, Moving, AtEOF, transferVars
  <2>7. CASE DownloadEnds(u) \/ DownloadCancelled(u) \/ DownloadFails(u)
    <3>1. upc[u] = "reading" => KindOf[u] = "DownloadFile"
      BY Zenon DEF ReturnInv
    <3> QED
      BY <2>1, <2>7, <3>1, Zenon
         DEF DownloadEnds, DownloadCancelled, DownloadFails, Moving, DownloadErr, transferVars
  <2>8. CASE ContextDone(u)
    <3>1. UNCHANGED <<upc, result, written, got>> /\ (v \in ctxDone => v \in ctxDone')
      BY <2>8, Zenon DEF ContextDone, oneVars, userVars
    <3> QED
      BY <1>1, <1>3, <3>1, WholeFrame, Zenon
  <2>9. CASE SendChunk(u) \/ SaveChunk(u)
    <3>1. /\ UNCHANGED <<ctxDone, result>>
          /\ upc[u] \in {"transfer", "reading"}
          /\ upc' = upc \/ upc' = [upc EXCEPT ![u] = "transfer"]
      BY <2>9, Zenon DEF SendChunk, SaveChunk, Moving, transferVars
    <3>2. \A w \in Users \ {u} : written'[w] = written[w] /\ got'[w] = got[w]
      BY <1>0, <2>9, Zenon DEF SendChunk, SaveChunk
    <3>3. upc'[v] = upc[v] \/ (upc[v] # "end" /\ upc'[v] = "transfer")
      BY <1>0, <1>3, <3>1, Zenon
    <3>4. upc[v] = "end" => written'[v] = written[v] /\ got'[v] = got[v]
      BY <1>3, <3>1, <3>2, Zenon
    <3>5. \/ upc'[v] = upc[v]
          \/ upc[v] # "end" /\ (upc'[v] = "reading" => KindOf[v] = "DownloadFile")
      BY <3>3, Zenon
    <3> QED
      BY <1>1, <1>3, <3>1, <3>4, <3>5, WholeFrame, Zenon
  <2>10. CASE HandlerWrites(u)
    <3>1. /\ UNCHANGED <<upc, result, got, ctxDone, far>> /\ far[u] = "open"
          /\ KindOf[u] = "DownloadFile"
      BY <2>10, Zenon DEF HandlerWrites, oneVars, userVars, linkVars
    <3>2. \A w \in Users \ {u} : written'[w] = written[w]
      BY <1>0, <2>10, Zenon DEF HandlerWrites
    <3> QED
      BY <1>1, <1>3, <3>1, <3>2, Zenon DEF Whole
  <2>11. CASE HandlerCloses(u)
    BY <1>4, <2>11, Zenon DEF HandlerCloses, dataVars, oneVars, userVars
  <2> QED
    BY <1>7, <2>2, <2>3, <2>4, <2>5, <2>6, <2>7, <2>8, <2>9, <2>10, <2>11, Zenon
       DEF TransferStep, TransferFile, DownloadFile, Stream
<1>8. CASE UNCHANGED vars
  BY <1>4, <1>8, Zenon DEF vars, oneVars, userVars, dataVars
<1> QED
  BY <1>5, <1>6, <1>7, <1>8, Zenon DEF Next

-----------------------------------------------------------------------------
(* All together.                                                           *)
LEMMA TypesSplit ==
    /\ TypeOK <=> Types /\ DataTypes
    /\ TypeOK' <=> (Types /\ DataTypes)'
BY Zenon DEF TypeOK, Types, AcceptTypes, LinkTypes, DataTypes, Tokens

LEMMA InitInv == Init => TransferInv
<1> SUFFICES ASSUME Init PROVE TransferInv
  OBVIOUS
<1>0. /\ 0 \in 0 .. MaxTokens /\ 0 \in 0 .. Size
      /\ Transfers \subseteq Users /\ nil \notin Users
      /\ \A s \in Services : WaitNum[s] \in Nat
      /\ \A u \in Transfers : Service(u) \in Services
  <2>2. 0 \in 0 .. MaxTokens /\ 0 \in 0 .. Size
    BY TransferAssumption
  <2>3. \A s \in Services : WaitNum[s] \in Nat
    BY TransferAssumption, Zenon
  <2> QED
    BY <2>2, <2>3, OfService, Zenon
<1>1. \A u \in Users : upc[u] \in {"idle", "absent"}
  <2>1. PICK sc \in Scenarios :
          upc = [u \in Users |-> IF u \in sc.users THEN "idle" ELSE "absent"]
    BY Zenon DEF Init, OneInit
  <2> QED
    BY <2>1, Zenon
<1>2. upc \in [Users -> UserStates]
  <2>1. PICK sc \in Scenarios :
          upc = [u \in Users |-> IF u \in sc.users THEN "idle" ELSE "absent"]
    BY Zenon DEF Init, OneInit
  <2>2. "idle" \in UserStates /\ "absent" \in UserStates
    BY Zenon DEF UserStates, Early
  <2> QED
    BY <2>1, <2>2, Zenon
<1>7. /\ apc \in [Services -> {"off", "failed"}] /\ listening = {}
      /\ cachedTokens = [s \in Services |-> <<>>] /\ issued = [s \in Services |-> <<>>]
      /\ backlog = [s \in Services |-> <<>>] /\ conn = [s \in Services |-> nil]
      /\ token = [u \in Users |-> 0] /\ sent = {} /\ near = [u \in Users |-> "none"]
      /\ far = [u \in Users |-> "none"] /\ handled = [u \in Users |-> <<>>] /\ refused = {}
      /\ written = [u \in Users |-> 0] /\ got = [u \in Users |-> 0] /\ ctxDone = {}
      /\ result = [u \in Users |-> "none"]
  BY Zenon DEF Init
<1>8. /\ \A s \in Services : /\ apc[s] \in {"off", "failed"} /\ cachedTokens[s] = <<>>
                             /\ issued[s] = <<>> /\ backlog[s] = <<>> /\ conn[s] = nil
                             /\ Len(cachedTokens[s]) = 0 /\ Len(backlog[s]) = 0
      /\ \A u \in Users : /\ token[u] = 0 /\ far[u] = "none" /\ handled[u] = <<>>
                          /\ result[u] = "none"
  BY <1>7, Zenon
<1>9. AcceptTypes
  <2>1. /\ cachedTokens \in [Services -> Seq(Tokens)] /\ issued \in [Services -> Seq(Transfers)]
        /\ backlog \in [Services -> Seq(Transfers)] /\ conn \in [Services -> Transfers \cup {nil}]
        /\ apc \in [Services -> {"off", "listen", "accept", "token", "found", "failed", "returned"}]
    BY <1>7
  <2>2. \A s \in Services : Len(cachedTokens[s]) <= WaitNum[s]
    BY <1>0, <1>8
  <2> QED
    BY <1>7, <2>1, <2>2, Zenon DEF AcceptTypes
<1>10. LinkTypes
  BY <1>0, <1>7 DEF LinkTypes
<1>11. DataTypes
  BY <1>0, <1>7, Zenon DEF DataTypes
<1>12. TypeOK
  <2>1. Types
    BY <1>2, <1>9, <1>10, Zenon DEF Types
  <2> QED
    BY <1>11, <2>1, TypesSplit, Zenon
<1>13. TokenInv /\ HandlerInv /\ CrowdInv
  <2>1. TokenInv
    BY <1>0, <1>1, <1>8, Zenon DEF TokenInv
  <2>2. HandlerInv
    BY <1>0, <1>7, <1>8, Zenon DEF HandlerInv
  <2>3. CrowdInv
    BY <1>0, <1>8, Zenon DEF CrowdInv
  <2> QED
    BY <2>1, <2>2, <2>3, Zenon
<1>14. QueueInv /\ CacheInv
  <2>1. QueueInv
    BY <1>8 DEF QueueInv
  <2>2. CacheInv
    BY <1>8 DEF CacheInv, Ranked
  <2> QED
    BY <2>1, <2>2, Zenon
<1>15. HandledAsAsked /\ RefusedWhenCrowded
  <2>1. \A u \in Transfers : handled[u] = <<>> /\ <<>> # <<u>>
    BY <1>0, <1>8, Zenon
  <2> QED
    BY <1>7, <2>1, Zenon DEF HandledAsAsked, RefusedWhenCrowded
<1>16. ReturnInv /\ FilesWhole
  BY <1>0, <1>1, <1>8, Zenon DEF ReturnInv, FilesWhole, DownloadFaithful, SendFaithful
<1> QED
  BY <1>12, <1>13, <1>14, <1>15, <1>16, Zenon DEF TransferInv

LEMMA StepInv ==
    ASSUME TransferInv, [Next]_vars
    PROVE  TransferInv'
<1>0. /\ Types /\ DataTypes
      /\ TokenInv /\ QueueInv /\ CacheInv /\ CrowdInv /\ HandlerInv /\ HandledAsAsked
      /\ RefusedWhenCrowded /\ ReturnInv /\ FilesWhole
      /\ upc \in [Users -> UserStates]
  BY TypesSplit, Zenon DEF TransferInv, Types
<1>2. LinkDoes
  BY <1>0, LinkStep, Zenon
<1>3. upc' \in [Users -> UserStates]
  BY <1>0, UserMoves, Zenon
<1>4. (TokenInv /\ QueueInv /\ CrowdInv)'
  BY <1>0, <1>2, TokenStep, QueueStep, CrowdStep, Zenon
<1>5. CacheInv'
  BY <1>0, <1>2, CacheStep, Zenon DEF CacheInv, CacheEffect
<1>6. (HandlerInv /\ HandledAsAsked /\ RefusedWhenCrowded)'
  BY <1>0, <1>2, HandlerStep, Zenon
<1>7. (ReturnInv /\ FilesWhole)'
  BY <1>0, <1>2, FileStep, Zenon
<1>8. (AcceptTypes /\ LinkTypes /\ DataTypes)'
  <2>1. CASE UNCHANGED <<acceptVars, linkVars, dataVars>>
    <3>1. UNCHANGED <<apc, listening, cachedTokens, issued, backlog, conn>>
          /\ UNCHANGED <<token, sent, near, far, handled, refused>>
          /\ UNCHANGED <<written, got, ctxDone, result>>
      BY <2>1, Zenon DEF acceptVars, linkVars, dataVars
    <3>2. AcceptTypes'
      BY <1>0, <3>1, Zenon DEF Types, AcceptTypes
    <3>3. LinkTypes'
      BY <1>0, <3>1, Zenon DEF Types, LinkTypes
    <3>4. DataTypes'
      BY <1>0, <3>1, Zenon DEF DataTypes
    <3> QED
      BY <3>2, <3>3, <3>4, Zenon
  <2>2. ASSUME NEW s \in Services,
               \/ EnableFileTransfer(s) \/ EnableStreamService(s) \/ Listen(s)
               \/ AcceptFails(s) \/ AcceptStep(s)
        PROVE  (AcceptTypes /\ LinkTypes /\ DataTypes)'
    BY <1>0, <1>2, <2>2, ServiceTypes, Zenon
  <2>3. ASSUME NEW u \in Transfers, TransferStep(u)
        PROVE  (AcceptTypes /\ LinkTypes /\ DataTypes)'
    BY <1>0, <1>2, <2>3, TransferTypes, Zenon
  <2>4. UNCHANGED vars => UNCHANGED <<acceptVars, linkVars, dataVars>>
    BY Zenon DEF vars
  <2> QED
    BY <2>1, <2>2, <2>3, <2>4, Zenon DEF Next
<1>9. TypeOK'
  BY <1>3, <1>8, TypesSplit, Zenon DEF Types
<1> QED
  BY <1>4, <1>5, <1>6, <1>7, <1>9, Zenon DEF TransferInv

(* What is claimed of tokens, connections and files, with what is known of *)
(* the queues and caches between them (server/file_transfer.go:89-206,     *)
(* server/stream.go:84-171, client/xclient.go:1238-1410), is an inductive  *)
(* invariant.                                                              *)
THEOREM Invariance == Spec => []TransferInv
<1>1. TransferInv /\ [Next]_vars => TransferInv'
  BY StepInv, Zenon
<1> QED
  BY InitInv, <1>1, PTL DEF Spec

(* Every variable stays in its type; in particular no cache ever holds     *)
(* more than waitNum tokens (file_transfer.go:65-70, stream.go:59-64).     *)
THEOREM TypesHold == Spec => []TypeOK
<1>1. TransferInv => TypeOK
  BY Zenon DEF TransferInv
<1> QED
  BY Invariance, <1>1, PTL

(* A connection gets the handler and the arguments of the request that its *)
(* token was issued for, once, and is turned away only when later requests *)
(* have crowded its token out of the cache, for every waitNum and however  *)
(* accepting and issuing interleave (file_transfer.go:89-206,              *)
(* stream.go:84-171).                                                      *)
THEOREM TokensAlwaysDecide == Spec => []TokensDecide
<1>1. TransferInv => TokensDecide
  BY Zenon DEF TransferInv, TokensDecide
<1> QED
  BY Invariance, <1>1, PTL

(* SendFile and DownloadFile return nil only for a file that has passed    *)
(* whole, or in SendFile's case one whose context was done, for files of   *)
(* every size (xclient.go:1264-1297, 1326-1352).                           *)
THEOREM FilesPassWhole == Spec => []FilesWhole
<1>1. TransferInv => FilesWhole
  BY Zenon DEF TransferInv
<1> QED
  BY Invariance, <1>1, PTL
=============================================================================

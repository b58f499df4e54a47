------------------------------- MODULE Selection -------------------------------
(***************************************************************************)
(* How the servers of a service reach the selector of an XClient.          *)
(* MultipleServersDiscovery.Update starts a goroutine for each watcher,    *)
(* which puts the new pairs in the watcher's channel                       *)
(* (client/multiple_servers_discovery.go); NewXClient reads the services,  *)
(* builds the selector and registers its channel; xClient.watch filters    *)
(* the pairs and updates the selector (client/xclient.go); the selectors   *)
(* are those of client/selector.go.                                        *)
(*                                                                         *)
(* The metadata of a server is a record: its weight, whether its state is  *)
(* inactive, its groups, and its distance (0 when it gives no location).   *)
(* A client in mode "closest" has had ConfigGeoSelector called at once. In *)
(* mode "icmp" (WeightedICMP) the weight is what the ping has given, 0 for *)
(* a server that does not answer (client/ping_utils.go).                   *)
(***************************************************************************)
EXTENDS Integers, Sequences, FiniteSets, Functions

CONSTANTS
    Servers,
    Pairs,         \* what discovery may publish: functions from servers to metadata
    Group,         \* option.Group, "" for none
    Modes,         \* select modes to explore
    ChanCap,       \* capacity of a watcher's channel (10 in the code)
    MaxUpdates,    \* calls of Update (a bound)
    MaxSelects,    \* selections counted between two updates (a bound)
    Nothing,       \* no pairs, no selection yet
    NoServer,      \* the empty key
    Panics         \* Select dereferences a nil ring

Updates == 1 .. MaxUpdates

ASSUME SelectionAssumption == MaxUpdates \in Nat /\ Nothing \notin Pairs

VARIABLES
    pairs,         \* MultipleServersDiscovery.pairs
    watched,       \* the channel is among MultipleServersDiscovery.chans
    sender,        \* update -> the pairs its goroutine has still to send, or Nothing
    ch,            \* the channel
    chClosed,
    updates,       \* calls of Update so far
    xpc,           \* where the XClient is in its life
    watchpc,       \* where its watch goroutine is
    muHeld,        \* xClient.mu was left locked by a panic
    mode,          \* xClient.selectMode
    servers,       \* xClient.servers
    selector,      \* the selector
    before,        \* the servers before the last UpdateServer, if any (history)
    selected,      \* the last selection since UpdateServer (history)
    picks,         \* rounds only: selections of each server since UpdateServer (history)
    unordered      \* the last Update may be lost or overtaken (history)

discoveryVars == <<pairs, watched, sender, ch, chClosed, updates, unordered>>
selectorVars == <<mode, servers, selector, before, selected, picks>>
selectionVars == <<discoveryVars, selectorVars, xpc, watchpc, muHeld>>

-----------------------------------------------------------------------------
(* The selectors.                                                          *)

Admitted(meta) == ~meta.inactive /\ (Group = "" \/ Group \in meta.groups)

filterByStateAndGroup(p) == [s \in {k \in DOMAIN p : Admitted(p[k])} |-> p[s]]

(* weightedRoundRobinSelector.next: every current weight is raised and the *)
(* first of the greatest is chosen, which then pays the total.             *)
Raised(ws, cw) == [j \in DOMAIN ws |-> cw[j] + ws[j]]

Best(cw) ==
    IF \A j \in DOMAIN cw : cw[j] <= 0
       THEN 1
       ELSE CHOOSE j \in DOMAIN cw : \A k \in DOMAIN cw :
               cw[k] < cw[j] \/ (cw[k] = cw[j] /\ j <= k)

Pays_Nothing(cw, j, total) == cw
Pays(cw, j, total) == [cw EXCEPT ![j] = @ - total]

Chosen(ws, cw, total) ==
    IF Len(ws) = 1
       THEN {[index |-> 1, cw |-> cw]}
       ELSE {[index |-> j, cw |-> Pays(Raised(ws, cw), j, total)] : j \in {Best(Raised(ws, cw))}}

TotalWeight(ws) == SumFunction(ws)

(* buildRing: totalWeight choices in a row, from the ring without any.     *)
BuildRing(sel) ==
    LET total == TotalWeight(sel.ws)
        grown(b) == {[ring |-> Append(b.ring, sel.ss[c.index]), cw |-> c.cw] :
                        c \in Chosen(sel.ws, b.cw, total)}
        rings[k \in 0 .. total] ==
            IF k = 0
               THEN {[ring |-> <<>>, cw |-> sel.cw]}
               ELSE UNION {grown(b) : b \in rings[k - 1]}
    IN  CHOOSE r \in {[sel EXCEPT !.ring = b.ring, !.cw = b.cw] : b \in rings[total]} : TRUE

(* The list a selector keeps, in any order: it ranges over a map.          *)
MapOrders(S) == Injection(1 .. Cardinality(S), S)

Listed(m, s) == IF m = "closest" THEN {k \in DOMAIN s : s[k].distance > 0} ELSE DOMAIN s

WithServers(sel, ss, s) ==
    [sel EXCEPT !.ss = ss, !.ws = [j \in DOMAIN ss |-> s[ss[j]].weight],
                !.cw = [j \in DOMAIN ss |-> 0]]

EmptySelector == [ss |-> <<>>, ws |-> <<>>, cw |-> <<>>, ring |-> <<>>, i |-> 0, hash |-> {}]

newSelector(m, ss, s) ==
    LET sel == WithServers(EmptySelector, ss, s) IN
    CASE m \in {"weighted", "icmp"} -> BuildRing(sel)
      [] m = "hash"     -> [sel EXCEPT !.hash = DOMAIN s]
      [] OTHER          -> sel

(* The consistent hash drops the servers that left.                        *)
Hashed_Added(sel, s) == sel.hash \cup DOMAIN s
Hashed(sel, s) == (sel.hash \cup DOMAIN s) \ {k \in Range(sel.ss) : k \notin DOMAIN s}

(* weightedRoundRobinSelector builds its ring before it takes the new      *)
(* list, weightedICMPSelector after.                                       *)
UpdateServer(m, sel, ss, s) ==
    CASE m = "weighted" -> WithServers(BuildRing(sel), ss, s)
      [] m = "icmp"     -> BuildRing(WithServers(sel, ss, s))
      [] m = "hash"     -> [WithServers(sel, ss, s) EXCEPT !.hash = Hashed(sel, s)]
      [] OTHER          -> WithServers(sel, ss, s)

(* Select: the answers it may give, each with the selector it leaves.      *)
Answer(k, sel) == [key |-> k, selector |-> sel]

RoundRobin(sel) ==
    LET i == sel.i % Len(sel.ss) IN Answer(sel.ss[i + 1], [sel EXCEPT !.i = i + 1])

Weighted(sel) ==
    IF sel.ring = <<>>
       THEN Answer(Panics, sel)
       ELSE Answer(Head(sel.ring), [sel EXCEPT !.ring = Append(Tail(@), Head(@))])

Nearest(sel) ==
    {k \in Range(sel.ss) : \A j \in Range(sel.ss) : servers[k].distance <= servers[j].distance}

Answers(m, sel) ==
    CASE sel.ss = <<>>     -> {Answer(NoServer, sel)}
      [] m = "random"      -> {Answer(k, sel) : k \in Range(sel.ss)}
      [] m = "roundrobin"  -> {RoundRobin(sel)}
      [] m \in {"weighted", "icmp"} -> {Weighted(sel)}
      [] m = "hash"        -> {Answer(k, sel) : k \in sel.hash}
      [] m = "closest"     -> {Answer(k, sel) : k \in Nearest(sel)}

-----------------------------------------------------------------------------
NoPicks == [s \in Servers |-> 0]

SelectionInit ==
    /\ pairs \in Pairs
    /\ watched = FALSE
    /\ sender = [u \in Updates |-> Nothing]
    /\ ch = <<>> /\ chClosed = FALSE
    /\ updates = 0
    /\ unordered = FALSE
    /\ xpc = "new" /\ watchpc = "none"
    /\ muHeld = FALSE
    /\ mode \in Modes
    /\ servers = <<>> /\ selector = EmptySelector
    /\ before = <<>> /\ selected = Nothing /\ picks = NoPicks

(* Update starts a goroutine for the watcher, then sets the pairs.         *)
Sent_Never(p) == Nothing
Sent(p) == IF watched THEN p ELSE Nothing

Update(p) ==
    /\ updates < MaxUpdates
    /\ updates' = updates + 1
    /\ sender' = [sender EXCEPT ![updates + 1] = Sent(p)]
    /\ unordered' = (~watched \/ \E u \in Updates : sender[u] # Nothing)
    /\ pairs' = p
    /\ UNCHANGED <<watched, ch, chClosed, selectorVars, xpc, watchpc, muHeld>>

(* The goroutine of an update: the pairs are put in the channel; a minute  *)
(* passes while it is full; or it is closed and the panic is recovered.    *)
Send(u) ==
    /\ sender[u] # Nothing /\ ~chClosed /\ Len(ch) < ChanCap
    /\ ch' = Append(ch, sender[u])
    /\ sender' = [sender EXCEPT ![u] = Nothing]
    /\ UNCHANGED <<pairs, watched, chClosed, updates, unordered, selectorVars, xpc, watchpc, muHeld>>

Abandons_WhileOpen(u) == ~chClosed /\ Len(ch) = ChanCap
Abandons(u) == chClosed \/ Len(ch) = ChanCap

SendEnds(u) ==
    /\ sender[u] # Nothing /\ Abandons(u)
    /\ sender' = [sender EXCEPT ![u] = Nothing]
    /\ unordered' = TRUE
    /\ UNCHANGED <<pairs, watched, ch, chClosed, updates, selectorVars, xpc, watchpc, muHeld>>

-----------------------------------------------------------------------------
(* The XClient.                                                            *)

Installs(kept) ==
    /\ servers' = kept
    /\ before' = IF xpc = "new" THEN kept ELSE servers
    /\ selected' = Nothing
    /\ picks' = NoPicks
    /\ UNCHANGED mode

(* NewXClient reads the services and builds the selector; later it         *)
(* registers its channel and starts watch.                                 *)
NewXClient ==
    /\ xpc = "new"
    /\ xpc' = "built"
    /\ LET kept == filterByStateAndGroup(pairs) IN
       /\ Installs(kept)
       /\ \E ss \in MapOrders(Listed(mode, kept)) : selector' = newSelector(mode, ss, kept)
    /\ unordered' = FALSE
    /\ UNCHANGED <<pairs, watched, sender, ch, chClosed, updates, watchpc, muHeld>>

WatchService ==
    /\ xpc = "built"
    /\ xpc' = "open"
    /\ watched' = TRUE
    /\ watchpc' = "range"
    /\ UNCHANGED <<pairs, sender, ch, chClosed, updates, unordered, selectorVars, muHeld>>

watch ==
    /\ watchpc = "range" /\ ch # <<>> /\ ~muHeld
    /\ ch' = Tail(ch)
    /\ LET kept == filterByStateAndGroup(Head(ch)) IN
       /\ Installs(kept)
       /\ \E ss \in MapOrders(Listed(mode, kept)) : selector' = UpdateServer(mode, selector, ss, kept)
    /\ UNCHANGED <<pairs, watched, sender, chClosed, updates, unordered, xpc, watchpc, muHeld>>

watchEnds ==
    /\ watchpc = "range" /\ ch = <<>> /\ chClosed
    /\ watchpc' = "end"
    /\ UNCHANGED <<discoveryVars, selectorVars, xpc, muHeld>>

(* selectClient up to the key, under mu, which a panic leaves locked.      *)
Select ==
    /\ xpc = "open" /\ ~muHeld
    /\ SumFunction(picks) < MaxSelects
    /\ \E a \in Answers(mode, selector) :
          /\ selector' = a.selector
          /\ selected' = a.key
          /\ picks' = IF a.key \in Servers /\ mode \in {"roundrobin", "weighted", "icmp"}
                         THEN [picks EXCEPT ![a.key] = @ + 1]
                         ELSE picks
          /\ muHeld' = (a.key = Panics)
    /\ UNCHANGED <<discoveryVars, mode, servers, before, xpc, watchpc>>

(* Close: a goroutine removes the watcher, then closes the channel.        *)
Close ==
    /\ xpc = "open" /\ ~muHeld
    /\ xpc' = "closing"
    /\ UNCHANGED <<discoveryVars, selectorVars, watchpc, muHeld>>

RemoveWatcher ==
    /\ xpc = "closing" /\ watched
    /\ watched' = FALSE
    /\ UNCHANGED <<pairs, sender, ch, chClosed, updates, unordered, selectorVars, xpc, watchpc,
                   muHeld>>

CloseChannel ==
    /\ xpc = "closing" /\ ~watched
    /\ xpc' = "closed"
    /\ chClosed' = TRUE
    /\ UNCHANGED <<pairs, watched, sender, ch, updates, unordered, selectorVars, watchpc, muHeld>>

-----------------------------------------------------------------------------
Senders == \E u \in Updates : Send(u) \/ SendEnds(u)

SelectionNext ==
    \/ \E p \in Pairs : Update(p)
    \/ NewXClient \/ WatchService \/ Select \/ Close
    \/ Senders \/ watch \/ watchEnds \/ RemoveWatcher \/ CloseChannel

SelectionSpec == SelectionInit /\ [][SelectionNext]_selectionVars

(* The goroutines of the updates run: the timer of a sender fires.         *)
FairSelectionSpec == SelectionSpec /\ WF_selectionVars(Senders)

-----------------------------------------------------------------------------
(* Select answers a server of the list that watch installed, and no server *)
(* exactly when the list is empty. The weighted selector builds its ring   *)
(* from the list before (selector.go:138-142), so it may still answer one  *)
(* of that list. The selectors with a ring fail only when no server of the *)
(* list it was built from has a weight: it is then nil.                    *)
SelectsInstalled ==
    LET list == Listed(mode, servers) IN
    selected # Nothing =>
        /\ (selected = NoServer) <=> (list = {})
        /\ \/ selected \in list \cup {NoServer}
           \/ mode = "weighted" /\ selected \in DOMAIN before
           \/ /\ selected = Panics /\ mode \in {"weighted", "icmp"}
              /\ LET ringed == IF mode = "weighted" THEN before ELSE servers
                 IN  \A k \in DOMAIN ringed : ringed[k].weight = 0

(* Since the last update the round robin selector has answered every       *)
(* server as often as any other, up to one (selector.go:92-102): the index *)
(* that survives UpdateServer does no harm.                                *)
RotatesFairly ==
    mode = "roundrobin" =>
        \A s, t \in DOMAIN servers : picks[s] <= picks[t] + 1

(* The ring of NewXClient, and for the selector that pings the ring of any *)
(* update, gives every server its weight in each round of totalWeight      *)
(* selections (selector.go:143-177, ping_utils.go:33-38).                  *)
WeighsFairly ==
    LET total == SumFunction(selector.ws)
        n == SumFunction(picks)
    IN  (mode = "icmp" \/ (mode = "weighted" /\ updates = 0)) /\ total > 0 /\ n % total = 0 =>
            \A s \in DOMAIN servers : picks[s] = servers[s].weight * (n \div total)

(* Selections are fair, with and without weights.                          *)
SelectsFairly == RotatesFairly /\ WeighsFairly

(* When every goroutine has delivered, the client has the servers of the   *)
(* last Update, unless that Update came before the channel was registered, *)
(* found the sender of an earlier one still waiting, or was dropped        *)
(* (multiple_servers_discovery.go:71-92, xclient.go:130-151, 219-238).     *)
Converges ==
    (/\ xpc = "open" /\ ~muHeld /\ ~unordered
     /\ ch = <<>> /\ \A u \in Updates : sender[u] = Nothing)
        => servers = filterByStateAndGroup(pairs)

(* No goroutine of an Update waits for ever, whatever becomes of the       *)
(* client, even one whose watch is blocked (multiple_servers_discovery.go: *)
(* 77-86).                                                                 *)
SendersEnd == \A u \in Updates : sender[u] # Nothing ~> sender[u] = Nothing

(* Where the pairs of the last Update are while nothing was overtaken or   *)
(* dropped: installed, last in the channel, or with the only goroutine     *)
(* that has still to send. Before the channel is registered nobody sends.  *)
DeliveryInv ==
    /\ pairs \in Pairs
    /\ sender \in [Updates -> Pairs \cup {Nothing}]
    /\ ch \in Seq(Pairs)
    /\ updates \in 0 .. MaxUpdates
    /\ xpc \in {"new", "built"} =>
          ~watched /\ watchpc = "none" /\ ch = <<>> /\ \A u \in Updates : sender[u] = Nothing
    /\ xpc # "new" /\ ~unordered =>
          \/ /\ \A u \in Updates : sender[u] = Nothing
             /\ \/ ch = <<>> /\ servers = filterByStateAndGroup(pairs)
                \/ ch # <<>> /\ ch[Len(ch)] = pairs
          \/ \E u \in Updates :
                sender[u] = pairs /\ \A v \in Updates \ {u} : sender[v] = Nothing
================================================================================

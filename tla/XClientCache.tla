---------------------------- MODULE XClientCache ----------------------------
(***************************************************************************)
(* client/xclient.go: the clients an XClient shares between the goroutines *)
(* that use it. A goroutine selects a server and takes the cached client   *)
(* of it or dials one (selectClient, getCachedClient); Broadcast, Fork and *)
(* Inform take one for every server while they hold the mutex; a failed    *)
(* call removes its client; Close closes the cached ones.                  *)
(*                                                                         *)
(* Sections under xClient.mu are single steps, except the one of           *)
(* Broadcast, Fork and Inform, which dials.                                *)
(***************************************************************************)
EXTENDS Integers, FiniteSets

CONSTANTS
    Servers,       \* keys of the servers the discovery may report
    Callers,       \* goroutines in Call, Go, Oneshot or SendRaw
    Fans,          \* goroutines in Broadcast, Fork or Inform
    Clients,       \* clients that may be dialled (a bound)
    Threshold,     \* failures that open a breaker, 0 without GenBreaker
    StickyOptions, \* the values of Option.Sticky to consider
    Nil

Procs == Callers \cup Fans

ASSUME CacheAssumption ==
    /\ Callers \cap Fans = {}
    /\ Nil \notin Servers \cup Procs \cup Clients
    /\ Threshold \in Nat
    /\ StickyOptions \subseteq BOOLEAN

VARIABLES
    sticky,        \* Option.Sticky
    servers,       \* xClient.servers
    cachedClient,  \* server -> client or Nil
    stickyRPCClient,
    failures,      \* server -> failures of its breaker
    slGroup,       \* server -> the goroutine whose function singleflight runs
    mu,            \* the goroutine that holds xClient.mu across steps
    isShutdown,
    made,          \* clients that were dialled
    lost,          \* those whose connection has ended
    closed,        \* those that were closed
    serverOf,      \* client -> the server it was dialled for
    pc,            \* goroutine -> where it is
    retry,         \* goroutines that called getCachedClient to retry (Failtry)
    key,           \* goroutine -> the server it selected
    todo,          \* goroutine -> servers Broadcast has still to visit
    flight,        \* goroutine -> whose singleflight function it waits for
    got,           \* goroutine -> the client it has dialled or getCachedClient returns
    held,          \* goroutine -> the clients it makes calls on
    barred         \* goroutine -> clients known dead when it began to look (history)

clientVars == <<made, lost, closed, serverOf>>
cacheVars == <<cachedClient, stickyRPCClient>>
flightVars == <<failures, slGroup, flight>>
procVars == <<pc, retry, key, todo, got, held, barred>>
confVars == <<sticky, servers, isShutdown>>
vars == <<clientVars, cacheVars, flightVars, procVars, confVars, mu>>

(* Neither IsClosing nor IsShutdown.                                       *)
Alive == made \ (lost \cup closed)

(* The clients of singleflight calls that have not returned yet.           *)
InFlight == {got[p] : p \in {q \in Procs : pc[q] = "dialled"}}

(* Client.Close does nothing to a client that is closing or shut down.     *)
Closing(X) == closed \cup (X \cap Alive)

(* p can lock xClient.mu, or holds it.                                     *)
MuFree(p) == mu \in {Nil, p}

Init ==
    /\ sticky \in StickyOptions
    /\ servers = Servers
    /\ cachedClient = [k \in Servers |-> Nil]
    /\ stickyRPCClient = Nil
    /\ failures = [k \in Servers |-> 0]
    /\ slGroup = [k \in Servers |-> Nil]
    /\ mu = Nil
    /\ isShutdown = FALSE
    /\ made = {} /\ lost = {} /\ closed = {}
    /\ serverOf = [x \in Clients |-> Nil]
    /\ pc = [p \in Procs |-> "idle"]
    /\ retry = {}
    /\ key = [p \in Procs |-> Nil]
    /\ todo = [p \in Procs |-> {}]
    /\ flight = [p \in Procs |-> Nil]
    /\ got = [p \in Procs |-> Nil]
    /\ held = [p \in Procs |-> {}]
    /\ barred = [p \in Procs |-> {}]

-----------------------------------------------------------------------------
(* watch: the discovery reports other servers. Their clients stay cached.  *)
Watch ==
    /\ mu = Nil /\ ~isShutdown
    /\ servers' \in SUBSET Servers
    /\ UNCHANGED <<clientVars, cacheVars, flightVars, procVars, sticky, isShutdown, mu>>

(* The connection of a client ends.                                        *)
ConnectionLost(x) ==
    /\ x \in Alive
    /\ lost' = lost \cup {x}
    /\ UNCHANGED <<made, closed, serverOf, cacheVars, flightVars, procVars, confVars, mu>>

-----------------------------------------------------------------------------
(* selectClient.                                                           *)

(* An operation begins unless the XClient is shut down. A sticky client    *)
(* that lives is taken; otherwise the selector chooses a server, if any.   *)
SelectClient(p) ==
    /\ pc[p] = "idle" /\ ~isShutdown
    /\ mu = Nil
    /\ barred' = [barred EXCEPT ![p] = (lost \cup closed) \ InFlight]
    /\ IF sticky /\ stickyRPCClient \in Alive
          THEN /\ pc' = [pc EXCEPT ![p] = "sticky"]
               /\ UNCHANGED <<stickyRPCClient, key>>
          ELSE /\ stickyRPCClient' = Nil
               /\ IF servers = {}
                     THEN /\ pc' = [pc EXCEPT ![p] = "failed"]
                          /\ key' = [key EXCEPT ![p] = Nil]
                     ELSE /\ pc' = [pc EXCEPT ![p] = "check"]
                          /\ \E k \in servers : key' = [key EXCEPT ![p] = k]
    /\ UNCHANGED <<clientVars, cachedClient, flightVars, retry, todo, got, held, confVars, mu>>

(* stickyK and stickyRPCClient are read after mu was unlocked: by then     *)
(* there may be no sticky client, or the key may be of none.               *)
ReturnSticky(p) ==
    /\ pc[p] = "sticky"
    /\ IF stickyRPCClient = Nil
          THEN /\ pc' = [pc EXCEPT ![p] = "failed"]
               /\ key' = [key EXCEPT ![p] = Nil]
               /\ UNCHANGED held
          ELSE /\ pc' = [pc EXCEPT ![p] = "has"]
               /\ \E k \in {serverOf[stickyRPCClient], Nil} : key' = [key EXCEPT ![p] = k]
               /\ held' = [held EXCEPT ![p] = {stickyRPCClient}]
    /\ UNCHANGED <<clientVars, cacheVars, flightVars, retry, todo, got, barred, confVars, mu>>

(* getCachedClient has returned to selectClient, to the retry of Failtry   *)
(* or to the loop of Broadcast, with x or with an error.                   *)
After(p, x) ==
    IF p \in Fans THEN "fan"
    ELSE IF x = Nil THEN "failed"
    ELSE IF sticky /\ p \notin retry THEN "stick" ELSE "has"

Returns(p, x) ==
    /\ pc' = [pc EXCEPT ![p] = After(p, x)]
    /\ held' = IF x = Nil THEN held ELSE [held EXCEPT ![p] = @ \cup {x}]

(* The end of selectClient: the client becomes the sticky one, and the     *)
(* sticky one there was is closed.                                         *)
Stick(p) ==
    /\ pc[p] = "stick" /\ mu = Nil
    /\ closed' = Closing({stickyRPCClient})
    /\ \E x \in held[p] : stickyRPCClient' = x
    /\ pc' = [pc EXCEPT ![p] = "has"]
    /\ UNCHANGED <<made, lost, serverOf, cachedClient, flightVars, retry, key, todo, got,
                   held, barred, confVars, mu>>

-----------------------------------------------------------------------------
(* getCachedClient, and getCachedClientWithoutLock from Find on.           *)

(* Breaker.Ready: closed, or open for longer than its window.              *)
Check(p) ==
    /\ pc[p] = "check"
    /\ \/ /\ isShutdown
          /\ Returns(p, Nil)
          /\ UNCHANGED failures
       \/ /\ ~isShutdown
          /\ Threshold > 0 /\ failures[key[p]] >= Threshold
          /\ Returns(p, Nil)
          /\ UNCHANGED failures
       \/ /\ ~isShutdown
          /\ \/ /\ failures' = [failures EXCEPT ![key[p]] = 0]
             \/ /\ Threshold > 0 => failures[key[p]] < Threshold
                /\ UNCHANGED failures
          /\ pc' = [pc EXCEPT ![p] = "find"]
          /\ UNCHANGED held
    /\ UNCHANGED <<clientVars, cacheVars, slGroup, flight, retry, key, todo, got, barred,
                   confVars, mu>>

(* Under mu: a cached client that lives is returned, a dead one deleted;   *)
(* closing that one has no effect.                                         *)
Usable_Any(x) == x # Nil
Usable(x) == x \in Alive

Find(p) ==
    /\ pc[p] = "find" /\ MuFree(p)
    /\ IF Usable(cachedClient[key[p]])
          THEN /\ Returns(p, cachedClient[key[p]])
               /\ UNCHANGED cachedClient
          ELSE /\ pc' = [pc EXCEPT ![p] = "flight"]
               /\ cachedClient' = [cachedClient EXCEPT ![key[p]] = Nil]
               /\ UNCHANGED held
    /\ UNCHANGED <<clientVars, stickyRPCClient, flightVars, retry, key, todo, got, barred,
                   confVars, mu>>

(* slGroup.Do: run the function, or wait for who runs it.                  *)
Join(p) ==
    LET k == key[p] IN
    /\ pc[p] = "flight"
    /\ pc' = [pc EXCEPT ![p] = "dial"]
    /\ IF slGroup[k] = Nil
          THEN /\ slGroup' = [slGroup EXCEPT ![k] = p]
               /\ flight' = [flight EXCEPT ![p] = p]
          ELSE /\ flight' = [flight EXCEPT ![p] = slGroup[k]]
               /\ UNCHANGED slGroup
    /\ UNCHANGED <<clientVars, cacheVars, failures, retry, key, todo, got, held, barred,
                   confVars, mu>>

(* generateClient returns. The client reads from its connection by now and *)
(* may find it broken, while others still join the call.                   *)
NextClient == CHOOSE x \in Clients : x \notin made

GenerateClient(p) ==
    /\ pc[p] = "dial" /\ flight[p] = p
    /\ pc' = [pc EXCEPT ![p] = "dialled"]
    /\ \/ /\ Clients # made
          /\ made' = made \cup {NextClient}
          /\ serverOf' = [serverOf EXCEPT ![NextClient] = key[p]]
          /\ got' = [got EXCEPT ![p] = NextClient]
          /\ UNCHANGED failures
       \/ /\ failures' = [failures EXCEPT ![key[p]] = IF @ < Threshold THEN @ + 1 ELSE @]
          /\ got' = [got EXCEPT ![p] = Nil]
          /\ UNCHANGED <<made, serverOf>>
    /\ UNCHANGED <<lost, closed, cacheVars, slGroup, flight, retry, key, todo, held, barred,
                   confVars, mu>>

(* Everyone who waits gets the result, and singleflight drops the call     *)
(* unless Forget has done so.                                              *)
Waiting(p) == {q \in Procs : flight[q] = p}

Delivered(p) ==
    LET k == key[p] IN
    /\ pc[p] = "dialled"
    /\ pc' = [q \in Procs |->
                 IF q \in Waiting(p) THEN IF got[p] = Nil THEN "forgetErr" ELSE "cache"
                 ELSE pc[q]]
    /\ got' = [q \in Procs |-> IF q \in Waiting(p) THEN got[p] ELSE got[q]]
    /\ flight' = [q \in Procs |-> IF q \in Waiting(p) THEN Nil ELSE flight[q]]
    /\ slGroup' = IF slGroup[k] = p THEN [slGroup EXCEPT ![k] = Nil] ELSE slGroup
    /\ UNCHANGED <<clientVars, cacheVars, failures, retry, key, todo, held, barred, confVars, mu>>

(* setCachedClient under mu.                                               *)
SetCachedClient(p) ==
    /\ pc[p] = "cache" /\ MuFree(p)
    /\ cachedClient' = [cachedClient EXCEPT ![key[p]] = got[p]]
    /\ pc' = [pc EXCEPT ![p] = "forget"]
    /\ UNCHANGED <<clientVars, stickyRPCClient, flightVars, retry, key, todo, got, held,
                   barred, confVars, mu>>

(* slGroup.Forget drops whatever call is registered now.                   *)
Forget(p) ==
    /\ pc[p] \in {"forget", "forgetErr"}
    /\ slGroup' = [slGroup EXCEPT ![key[p]] = Nil]
    /\ Returns(p, IF pc[p] = "forget" THEN got[p] ELSE Nil)
    /\ got' = [got EXCEPT ![p] = Nil]
    /\ UNCHANGED <<clientVars, cacheVars, failures, flight, retry, key, todo, barred,
                   confVars, mu>>

-----------------------------------------------------------------------------
(* Broadcast, Fork and Inform: a client for every server, under mu.        *)
FanBegins(p) ==
    /\ pc[p] = "idle" /\ ~isShutdown
    /\ pc' = [pc EXCEPT ![p] = "lock"]
    /\ barred' = [barred EXCEPT ![p] = (lost \cup closed) \ InFlight]
    /\ UNCHANGED <<clientVars, cacheVars, flightVars, retry, key, todo, got, held, confVars, mu>>

FanLocks(p) ==
    /\ pc[p] = "lock" /\ mu = Nil
    /\ mu' = p
    /\ pc' = [pc EXCEPT ![p] = "fan"]
    /\ todo' = [todo EXCEPT ![p] = servers]
    /\ UNCHANGED <<clientVars, cacheVars, flightVars, retry, key, got, held, barred, confVars>>

FanNext(p) ==
    /\ pc[p] = "fan"
    /\ \E k \in todo[p] :
          /\ key' = [key EXCEPT ![p] = k]
          /\ todo' = [todo EXCEPT ![p] = @ \ {k}]
    /\ pc' = [pc EXCEPT ![p] = "find"]
    /\ UNCHANGED <<clientVars, cacheVars, flightVars, retry, got, held, barred, confVars, mu>>

(* The operation of p ends.                                                *)
Leaves(p) ==
    /\ pc' = [pc EXCEPT ![p] = "idle"]
    /\ retry' = retry \ {p}
    /\ key' = [key EXCEPT ![p] = Nil]
    /\ held' = [held EXCEPT ![p] = {}]
    /\ barred' = [barred EXCEPT ![p] = {}]

(* mu is released, whether or not any client was found.                    *)
FanMu_Kept(p) == IF held[p] = {} THEN mu ELSE Nil
FanMu(p) == Nil

FanUnlocks(p) ==
    /\ pc[p] = "fan" /\ todo[p] = {}
    /\ mu' = FanMu(p)
    /\ \/ held[p] = {} /\ Leaves(p)
       \/ /\ held[p] # {}
          /\ pc' = [pc EXCEPT ![p] = "has"]
          /\ UNCHANGED <<retry, key, held, barred>>
    /\ UNCHANGED <<clientVars, cacheVars, flightVars, todo, got, confVars>>

-----------------------------------------------------------------------------
(* What happens to a client.                                               *)

(* The calls of p have ended with no error that removes a client.          *)
Return(p) ==
    /\ pc[p] = "has"
    /\ Leaves(p)
    /\ UNCHANGED <<clientVars, cacheVars, flightVars, todo, got, confVars, mu>>

(* removeClient for server k, under mu: the sticky client is forgotten,    *)
(* the client closed and deleted if it is the cached one.                  *)
Removed_Any(k, x) == cachedClient[k]
Removed(k, x) == IF cachedClient[k] = x THEN x ELSE Nil

RemoveClient(p) ==
    /\ pc[p] = "has" /\ mu = Nil
    /\ \E x \in held[p] :
          LET k == IF p \in Fans THEN serverOf[x] ELSE key[p]
              y == IF k = Nil THEN Nil ELSE Removed(k, x)
          IN  /\ cachedClient' = IF y = Nil THEN cachedClient ELSE [cachedClient EXCEPT ![k] = Nil]
              /\ closed' = Closing({y})
              /\ got' = [got EXCEPT ![p] = x]
    /\ stickyRPCClient' = IF sticky THEN Nil ELSE stickyRPCClient
    /\ pc' = [pc EXCEPT ![p] = "close"]
    /\ UNCHANGED <<made, lost, serverOf, flightVars, retry, key, todo, held, barred, confVars, mu>>

(* Failtry calls getCachedClient again for the server it has; these        *)
(* clients are dead by now.                                                *)
Retries(p, dead) ==
    /\ p \in Callers /\ key[p] # Nil
    /\ pc' = [pc EXCEPT ![p] = "check"]
    /\ retry' = retry \cup {p}
    /\ barred' = [barred EXCEPT ![p] = dead \ InFlight]
    /\ UNCHANGED key

(* After mu is unlocked the client is closed in any case. Failtry goes on  *)
(* with the same server, Failover selects again, and Broadcast has its     *)
(* other calls.                                                            *)
CloseRemoved(p) ==
    /\ pc[p] = "close"
    /\ closed' = Closing({got[p]})
    /\ got' = [got EXCEPT ![p] = Nil]
    /\ \/ held[p] = {got[p]} /\ Leaves(p)
       \/ /\ Retries(p, lost \cup closed')
          /\ held' = [held EXCEPT ![p] = {}]
       \/ /\ held[p] # {got[p]}
          /\ pc' = [pc EXCEPT ![p] = "has"]
          /\ held' = [held EXCEPT ![p] = @ \ {got[p]}]
          /\ UNCHANGED <<retry, key, barred>>
    /\ UNCHANGED <<made, lost, serverOf, cacheVars, flightVars, todo, confVars, mu>>

(* There is no client: removeClient(nil) only forgets the sticky client.   *)
RemoveNil(p) ==
    /\ pc[p] = "failed" /\ mu = Nil
    /\ stickyRPCClient' = IF sticky THEN Nil ELSE stickyRPCClient
    /\ \/ Leaves(p)
       \/ Retries(p, lost \cup closed) /\ UNCHANGED held
    /\ UNCHANGED <<clientVars, cachedClient, flightVars, todo, got, confVars, mu>>

(* Failfast, Go and Oneshot just return the error.                         *)
GiveUp(p) ==
    /\ pc[p] = "failed"
    /\ Leaves(p)
    /\ UNCHANGED <<clientVars, cacheVars, flightVars, todo, got, confVars, mu>>

(* Close: the cached clients are closed; the watcher is removed.           *)
Close ==
    /\ mu = Nil /\ ~isShutdown
    /\ isShutdown' = TRUE
    /\ closed' = Closing({cachedClient[k] : k \in Servers})
    /\ cachedClient' = [k \in Servers |-> Nil]
    /\ UNCHANGED <<made, lost, serverOf, stickyRPCClient, flightVars, procVars, sticky,
                   servers, mu>>

-----------------------------------------------------------------------------
Acquire(p) ==
    \/ ReturnSticky(p)
    \/ Stick(p)
    \/ Check(p)
    \/ Find(p)
    \/ Join(p)
    \/ GenerateClient(p)
    \/ Delivered(p)
    \/ SetCachedClient(p)
    \/ Forget(p)
    \/ FanLocks(p)
    \/ FanNext(p)
    \/ FanUnlocks(p)

Next ==
    \/ \E p \in Callers : SelectClient(p) \/ RemoveNil(p) \/ GiveUp(p)
    \/ \E p \in Fans : FanBegins(p)
    \/ \E p \in Procs : Acquire(p) \/ Return(p) \/ RemoveClient(p) \/ CloseRemoved(p)
    \/ \E x \in Clients : ConnectionLost(x)
    \/ Watch
    \/ Close

Spec == Init /\ [][Next]_vars

(* Dialling ends, by an answer or by its timeout, goroutines that can run  *)
(* do run, and a mutex that is free again and again is got.                *)
Fairness == \A p \in Procs : SF_vars(Acquire(p))

FairSpec == Spec /\ Fairness

-----------------------------------------------------------------------------
States == {"idle", "sticky", "stick", "check", "find", "flight", "dial", "dialled",
           "cache", "forget", "forgetErr", "lock", "fan", "has", "close", "failed"}

(* The variables have the types of the fields of xClient.                  *)
TypeOK ==
    /\ sticky \in BOOLEAN /\ isShutdown \in BOOLEAN
    /\ servers \in SUBSET Servers
    /\ cachedClient \in [Servers -> made \cup {Nil}]
    /\ stickyRPCClient \in made \cup {Nil}
    /\ failures \in [Servers -> 0 .. Threshold]
    /\ slGroup \in [Servers -> Procs \cup {Nil}]
    /\ mu \in Fans \cup {Nil}
    /\ made \in SUBSET Clients /\ lost \in SUBSET made /\ closed \in SUBSET made
    /\ serverOf \in [Clients -> Servers \cup {Nil}]
    /\ pc \in [Procs -> States]
    /\ retry \in SUBSET Callers
    /\ key \in [Procs -> Servers \cup {Nil}]
    /\ todo \in [Procs -> SUBSET Servers]
    /\ flight \in [Procs -> Procs \cup {Nil}]
    /\ got \in [Procs -> made \cup {Nil}]
    /\ held \in [Procs -> SUBSET made]
    /\ barred \in [Procs -> SUBSET made]

(* No call is made on a client that was known to be dead when the          *)
(* goroutine began to look for one: in particular a retry does not get the *)
(* client that has just failed, whoever cached it, removed it or shared    *)
(* the dialling in the meantime (xclient.go:335-346, 358-367). Nobody      *)
(* knows the client of a singleflight call that has not returned: one that *)
(* dies that early is handed to everyone who joins the call, and fails     *)
(* there. The sticky client is read without the mutex and is excepted.     *)
FreshClient == ~sticky => \A p \in Procs : pc[p] = "has" => held[p] \cap barred[p] = {}

(* Before Close, a live client is closed only by a goroutine whose own     *)
(* call on it failed: the late failure of one goroutine does not cut the   *)
(* calls of others on the client that has replaced its own                 *)
(* (xclient.go:416-419). Sticky selection is excepted.                     *)
NoBystander ==
    [][~sticky /\ ~isShutdown' =>
          \A x \in closed' \ closed :
              \E p \in Procs : x \in held[p] /\ "close" \in {pc[p], pc'[p]}]_vars

(* A goroutine that looks for a client gets one or an error: neither the   *)
(* mutex that Broadcast holds while it dials nor singleflight keeps it     *)
(* waiting (xclient.go:335-370, 949-960).                                  *)
Looking == {"sticky", "stick", "check", "find", "flight", "dial", "dialled", "cache",
            "forget", "forgetErr", "lock", "fan"}
AcquireEnds == \A p \in Procs : pc[p] \in Looking ~> pc[p] \notin Looking

-----------------------------------------------------------------------------
(* The inductive invariant of the proofs.                                  *)

(* What a goroutine knows at each place of selectClient and                *)
(* getCachedClient.                                                        *)
PlaceInv ==
    \A p \in Procs :
        /\ pc[p] \in {"check", "find", "flight", "dial", "dialled", "cache", "forget",
                     "forgetErr"}
              => key[p] \in Servers
        /\ pc[p] \in {"sticky", "stick", "check", "failed"} => p \in Callers
        /\ pc[p] \in {"lock", "fan"} => p \in Fans
        /\ flight[p] # Nil => pc[p] \in {"dial", "dialled"}
        /\ pc[p] = "stick" => sticky /\ held[p] # {}
        /\ pc[p] \in {"cache", "forget"} => got[p] # Nil /\ got[p] \notin barred[p]
        /\ pc[p] = "close" => got[p] \in held[p]

(* Only Broadcast, Fork and Inform hold clients while they look for more.  *)
HeldInv ==
    \A p \in Procs :
        held[p] # {} =>
            IF p \in Fans THEN pc[p] # "idle" ELSE pc[p] \in {"stick", "has", "close"}

(* The dead stay dead.                                                     *)
FreshInv ==
    \A p \in Procs :
        /\ barred[p] \subseteq lost \cup closed
        /\ ~sticky => held[p] \cap barred[p] = {}

(* A client that its singleflight call has not returned is not barred.     *)
FlightInv == \A p, q \in Procs : pc[q] = "dialled" => got[q] \notin barred[p]

(* Clients know the server they were dialled for.                          *)
ClientInv ==
    /\ \A x \in made : serverOf[x] # Nil
    /\ ~sticky => stickyRPCClient = Nil

IInv == TypeOK /\ PlaceInv /\ HeldInv /\ FreshInv /\ FlightInv /\ ClientInv
=============================================================================

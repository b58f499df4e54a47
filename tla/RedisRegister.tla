---------------------------- MODULE RedisRegister ----------------------------
(***************************************************************************)
(* serverplugin/redis.go: the lifecycle of RedisRegisterPlugin. Start,     *)
(* Register and Unregister are serialised by lifecycleLock and share       *)
(* Redis, under storeLock, with the goroutine that refreshes the TTL of    *)
(* the nodes; Stop waits, for a limited time, for a cleanup attempt that   *)
(* runs in the background.                                                 *)
(*                                                                         *)
(* A write to Redis is applied, or fails, or is applied although its       *)
(* answer is lost. An operation on Redis may also never end.               *)
(***************************************************************************)
EXTENDS Integers

CONSTANTS
    Names,         \* services that may be registered
    Callers,       \* goroutines that call Start, Register and Unregister
    Stoppers,      \* goroutines that call Stop
    MaxAttempts,   \* cleanup attempts (a bound, more than there are stoppers)
    Refreshing,    \* UpdateInterval > 0
    Nil

ASSUME RedisAssumption ==
    /\ Nil \notin Names \cup Callers \cup Stoppers
    /\ Callers \cap Stoppers = {}
    /\ MaxAttempts \in Nat
    /\ \A f \in [Stoppers -> 0 .. MaxAttempts] :
          \E a \in 1 .. MaxAttempts : \A s \in Stoppers : f[s] # a
    /\ Refreshing \in BOOLEAN

Attempts == 1 .. MaxAttempts

VARIABLES
    nodes,         \* services that have a node for this server in Redis
    orphans,       \* nodes whose creation was reported as failed (history)
    stranded,      \* services registered when a failed Start closed the store (history)
    Services,      \* RedisRegisterPlugin.Services
    kv,            \* the store is open
    started, stopped, stopComplete, stopRequested,
    dying,         \* the channel dying: nil, open or closed
    done,          \* the channel done: nil, open or closed
    lifecycleLock, \* who holds it
    storeLock,     \* what it is held for, "free" when it is not
    cpc,           \* caller -> where it is
    cop,           \* caller -> the operation and the service it is called for
    rpc,           \* where the refresh goroutine is
    rtodo,         \* the services it has still to refresh
    stopAttempt,   \* the attempt, 0 when there is none
    apc,           \* attempt -> where it is
    atodo,         \* attempt -> the services it has still to delete
    aerr,          \* attempt -> it has met an error
    spc,           \* stopper -> where it is
    waits          \* stopper -> the attempt it waits for

redisVars == <<nodes, orphans, stranded>>
lockVars == <<lifecycleLock, storeLock>>
stateVars == <<Services, kv, started>>
stopVars == <<stopped, stopComplete, stopRequested, dying, stopAttempt>>
callerVars == <<cpc, cop>>
refreshVars == <<rpc, rtodo, done>>
attemptVars == <<apc, atodo, aerr>>
stopperVars == <<spc, waits>>
vars == <<redisVars, lockVars, stateVars, stopVars, callerVars, refreshVars, attemptVars,
          stopperVars>>

Init ==
    /\ nodes = {} /\ orphans = {} /\ stranded = {}
    /\ Services = {}
    /\ kv = FALSE
    /\ started = FALSE /\ stopped = FALSE /\ stopComplete = FALSE /\ stopRequested = FALSE
    /\ dying = "nil" /\ done = "nil"
    /\ lifecycleLock = Nil /\ storeLock = "free"
    /\ cpc = [u \in Callers |-> "idle"]
    /\ cop = [u \in Callers |-> <<"none", Nil>>]
    /\ rpc = "none"
    /\ rtodo = {}
    /\ stopAttempt = 0
    /\ apc = [a \in Attempts |-> "none"]
    /\ atodo = [a \in Attempts |-> {}]
    /\ aerr = [a \in Attempts |-> FALSE]
    /\ spc = [s \in Stoppers |-> "idle"]
    /\ waits = [s \in Stoppers |-> 0]

(* A node expires two update intervals after it was written.               *)
Expire(n) ==
    /\ Refreshing /\ n \in nodes
    /\ nodes' = nodes \ {n}
    /\ orphans' = orphans \ {n}
    /\ UNCHANGED <<stranded, lockVars, stateVars, stopVars, callerVars, refreshVars,
                   attemptVars, stopperVars>>

-----------------------------------------------------------------------------
(* Start, Register and Unregister.                                         *)

Operations == {<<"Start", Nil>>} \cup ({"Register", "Unregister"} \X Names)

(* The first check of stopRequested.                                       *)
Begin(u) ==
    /\ cpc[u] = "idle" /\ ~stopRequested
    /\ \E o \in Operations : cop' = [cop EXCEPT ![u] = o]
    /\ cpc' = [cpc EXCEPT ![u] = "lock"]
    /\ UNCHANGED <<redisVars, lockVars, stateVars, stopVars, refreshVars, attemptVars,
                   stopperVars>>

Leaves(u) ==
    /\ cpc' = [cpc EXCEPT ![u] = "idle"]
    /\ cop' = [cop EXCEPT ![u] = <<"none", Nil>>]

(* Under lifecycleLock: the second check, nothing to do, or no store could *)
(* be created; otherwise there is a store now. Start makes new channels.   *)
Lock(u) ==
    /\ cpc[u] = "lock" /\ lifecycleLock = Nil
    /\ LET nothing == \/ stopRequested \/ stopped
                      \/ cop[u][1] = "Start" /\ started
                      \/ cop[u][1] = "Unregister" /\ Services = {}
       IN  \/ nothing /\ Leaves(u) /\ UNCHANGED <<lifecycleLock, kv, dying, done, stranded>>
           \/ /\ ~nothing
              /\ dying' = IF cop[u][1] = "Start" THEN "open" ELSE dying
              /\ \/ /\ ~kv
                    /\ Leaves(u)
                    /\ done' = IF cop[u][1] = "Start" THEN "closed" ELSE done
                    /\ UNCHANGED <<lifecycleLock, kv, stranded>>
                 \/ /\ kv' = TRUE
                    /\ stranded' = {}
                    /\ lifecycleLock' = u
                    /\ cpc' = [cpc EXCEPT ![u] = IF cop[u][1] = "Start" THEN "start" ELSE "store"]
                    /\ done' = IF cop[u][1] = "Start" THEN "open" ELSE done
                    /\ UNCHANGED cop
    /\ UNCHANGED <<nodes, orphans, storeLock, Services, started, stopped, stopComplete,
                   stopRequested, stopAttempt, rpc, rtodo, attemptVars, stopperVars>>

(* Start writes the base path. If that fails the store is closed; if not,  *)
(* the refresh goroutine starts.                                           *)
StartPut(u) ==
    /\ cpc[u] = "start"
    /\ Leaves(u)
    /\ lifecycleLock' = Nil
    /\ \/ /\ kv' = FALSE /\ done' = "closed"
          /\ stranded' = Services
          /\ UNCHANGED <<started, rpc>>
       \/ /\ started' = TRUE
          /\ done' = IF Refreshing THEN "open" ELSE "closed"
          /\ rpc' = IF Refreshing THEN "idle" ELSE rpc
          /\ UNCHANGED <<kv, stranded>>
    /\ UNCHANGED <<nodes, orphans, storeLock, Services, stopVars, rtodo, attemptVars, stopperVars>>

(* storeLock can be taken.                                                 *)
StoreFree_Always == TRUE
StoreFree == storeLock = "free"

StoreLock(u) ==
    /\ cpc[u] = "store" /\ StoreFree
    /\ storeLock' = "user"
    /\ cpc' = [cpc EXCEPT ![u] = "put"]
    /\ UNCHANGED <<redisVars, lifecycleLock, stateVars, stopVars, cop, refreshVars,
                   attemptVars, stopperVars>>

(* Register writes the two directories and the node, then remembers the    *)
(* service; Unregister writes the directories, deletes the node and        *)
(* forgets the service. An error leaves Services alone.                    *)
RegisterPut(u, n) ==
    /\ cop[u] = <<"Register", n>>
    /\ \/ /\ nodes' = nodes \cup {n}
          /\ Services' = Services \cup {n}
          /\ orphans' = orphans \ {n}
       \/ /\ nodes' = nodes \cup {n}
          /\ orphans' = orphans \cup ({n} \ Services)
          /\ UNCHANGED Services
       \/ UNCHANGED <<nodes, orphans, Services>>

UnregisterDelete(u, n) ==
    /\ cop[u] = <<"Unregister", n>>
    /\ \/ /\ nodes' = nodes \ {n}
          /\ Services' = Services \ {n}
          /\ orphans' = orphans \ {n}
       \/ /\ nodes' = nodes \ {n}
          /\ orphans' = orphans \ {n}
          /\ UNCHANGED Services
       \/ UNCHANGED <<nodes, orphans, Services>>

Put(u) ==
    /\ cpc[u] = "put"
    /\ \E n \in Names : RegisterPut(u, n) \/ UnregisterDelete(u, n)
    /\ Leaves(u)
    /\ lifecycleLock' = Nil /\ storeLock' = "free"
    /\ UNCHANGED <<stranded, kv, started, stopVars, refreshVars, attemptVars, stopperVars>>

-----------------------------------------------------------------------------
(* The refresh goroutine.                                                  *)

(* A tick: under storeLock the services are copied and each is written     *)
(* again. A tick that waits for storeLock no longer looks at dying.        *)
Tick ==
    /\ rpc = "idle"
    /\ rpc' = "lock"
    /\ UNCHANGED <<redisVars, lockVars, stateVars, stopVars, callerVars, rtodo, done,
                   attemptVars, stopperVars>>

TickLocks ==
    /\ rpc = "lock" /\ StoreFree
    /\ storeLock' = "refresh"
    /\ rpc' = "tick"
    /\ rtodo' = Services
    /\ UNCHANGED <<redisVars, lifecycleLock, stateVars, stopVars, callerVars, done,
                   attemptVars, stopperVars>>

TickPut(n) ==
    /\ rpc = "tick" /\ n \in rtodo
    /\ rtodo' = rtodo \ {n}
    /\ nodes' \in {nodes, nodes \cup {n}}
    /\ UNCHANGED <<orphans, stranded, lockVars, stateVars, stopVars, callerVars, rpc, done,
                   attemptVars, stopperVars>>

TickEnds ==
    /\ rpc = "tick" /\ rtodo = {}
    /\ rpc' = "idle"
    /\ storeLock' = "free"
    /\ UNCHANGED <<redisVars, lifecycleLock, stateVars, stopVars, callerVars, rtodo, done,
                   attemptVars, stopperVars>>

RefreshDies ==
    /\ rpc = "idle" /\ dying = "closed"
    /\ rpc' = "end"
    /\ done' = "closed"
    /\ UNCHANGED <<redisVars, lockVars, stateVars, stopVars, callerVars, rtodo, attemptVars,
                   stopperVars>>

-----------------------------------------------------------------------------
(* Stop.                                                                   *)

StopBegins(s) ==
    /\ spc[s] = "idle"
    /\ stopRequested' = TRUE
    /\ spc' = [spc EXCEPT ![s] = "lock"]
    /\ UNCHANGED <<redisVars, lockVars, stateVars, stopped, stopComplete, dying, stopAttempt,
                   callerVars, refreshVars, attemptVars, waits>>

(* An attempt that no Stop waits for any more is used again for a new one. *)
NewAttempt ==
    CHOOSE a \in Attempts : apc[a] \in {"none", "end"} /\ \A s \in Stoppers : waits[s] # a

(* A cleanup is under way.                                                 *)
UnderWay_Unseen == FALSE
UnderWay == stopAttempt # 0

(* The section under lifecycleLock: the first Stop closes dying; there is  *)
(* an attempt to wait for, or one is started.                              *)
StopLocks(s) ==
    /\ spc[s] = "lock" /\ lifecycleLock = Nil
    /\ \/ /\ stopComplete
          /\ spc' = [spc EXCEPT ![s] = "nil"]
          /\ UNCHANGED <<stopped, started, dying, stopAttempt, waits, apc, aerr>>
       \/ /\ ~stopComplete
          /\ stopped' = TRUE /\ started' = FALSE
          /\ dying' = IF dying = "open" THEN "closed" ELSE dying
          /\ spc' = [spc EXCEPT ![s] = "wait"]
          /\ IF UnderWay
                THEN /\ waits' = [waits EXCEPT ![s] = stopAttempt]
                     /\ UNCHANGED <<stopAttempt, apc, aerr>>
                ELSE /\ apc' = [apc EXCEPT ![NewAttempt] = "refresh"]
                     /\ aerr' = [aerr EXCEPT ![NewAttempt] = FALSE]
                     /\ stopAttempt' = NewAttempt
                     /\ waits' = [waits EXCEPT ![s] = NewAttempt]
    /\ UNCHANGED <<redisVars, lockVars, Services, kv, stopComplete, stopRequested, callerVars,
                   refreshVars, atodo>>

(* The attempt ends, with or without error.                                *)
StopReturns(s) ==
    /\ spc[s] = "wait" /\ apc[waits[s]] = "end"
    /\ spc' = [spc EXCEPT ![s] = IF aerr[waits[s]] THEN "error" ELSE "nil"]
    /\ waits' = [waits EXCEPT ![s] = 0]
    /\ UNCHANGED <<redisVars, lockVars, stateVars, stopVars, callerVars, refreshVars,
                   attemptVars>>

(* The deadline passes while another holds lifecycleLock, or before the    *)
(* attempt ends.                                                           *)
TimesOut_InWait(s) == spc[s] = "wait" /\ apc[waits[s]] # "end"
TimesOut(s) ==
    \/ spc[s] = "lock" /\ lifecycleLock # Nil
    \/ spc[s] = "wait" /\ apc[waits[s]] # "end"

StopTimeout(s) ==
    /\ TimesOut(s)
    /\ spc' = [spc EXCEPT ![s] = "timeout"]
    /\ waits' = [waits EXCEPT ![s] = 0]
    /\ UNCHANGED <<redisVars, lockVars, stateVars, stopVars, callerVars, refreshVars,
                   attemptVars>>

(* A Stop that did not succeed is called again.                            *)
StopAgain(s) ==
    /\ spc[s] \in {"error", "timeout"}
    /\ spc' = [spc EXCEPT ![s] = "lock"]
    /\ UNCHANGED <<redisVars, lockVars, stateVars, stopVars, callerVars, refreshVars,
                   attemptVars, waits>>

-----------------------------------------------------------------------------
(* runStopAttempt and cleanupRegistry.                                     *)

(* refreshDone, nil without a Start, has been closed.                      *)
RefreshDone == done # "open"

AttemptLocks(a) ==
    /\ apc[a] = "refresh" /\ RefreshDone /\ StoreFree
    /\ storeLock' = "attempt"
    /\ apc' = [apc EXCEPT ![a] = "clean"]
    /\ atodo' = [atodo EXCEPT ![a] = IF kv THEN Services ELSE {}]
    /\ UNCHANGED <<redisVars, lifecycleLock, stateVars, stopVars, callerVars, refreshVars,
                   aerr, stopperVars>>

(* Exists and Delete of one node: an error is kept and the next node is    *)
(* tried.                                                                  *)
AttemptDeletes(a, n) ==
    /\ apc[a] = "clean" /\ n \in atodo[a]
    /\ atodo' = [atodo EXCEPT ![a] = @ \ {n}]
    /\ \/ nodes' = nodes \ {n} /\ UNCHANGED aerr
       \/ nodes' \in {nodes, nodes \ {n}} /\ aerr' = [aerr EXCEPT ![a] = TRUE]
    /\ UNCHANGED <<orphans, stranded, lockVars, stateVars, stopVars, callerVars, refreshVars,
                   apc, stopperVars>>

(* Without an error the store is closed.                                   *)
AttemptCloses(a) ==
    /\ apc[a] = "clean" /\ atodo[a] = {}
    /\ apc' = [apc EXCEPT ![a] = "finish"]
    /\ kv' = (kv /\ aerr[a])
    /\ storeLock' = "free"
    /\ UNCHANGED <<redisVars, lifecycleLock, Services, started, stopVars, callerVars,
                   refreshVars, atodo, aerr, stopperVars>>

(* Under lifecycleLock the result is published.                            *)
Completes_Always(a) == TRUE
Completes(a) == ~aerr[a]

AttemptEnds(a) ==
    /\ apc[a] = "finish" /\ lifecycleLock = Nil
    /\ apc' = [apc EXCEPT ![a] = "end"]
    /\ stopComplete' = (stopComplete \/ Completes(a))
    /\ stopAttempt' = IF stopAttempt = a THEN 0 ELSE stopAttempt
    /\ UNCHANGED <<redisVars, lockVars, stateVars, stopped, stopRequested, dying, callerVars,
                   refreshVars, atodo, aerr, stopperVars>>

-----------------------------------------------------------------------------
UserStep(u) == Begin(u) \/ Lock(u) \/ StartPut(u) \/ StoreLock(u) \/ Put(u)

RefreshStep == Tick \/ TickLocks \/ TickEnds \/ RefreshDies \/ \E n \in Names : TickPut(n)

AttemptStep(a) ==
    AttemptLocks(a) \/ AttemptCloses(a) \/ AttemptEnds(a) \/ \E n \in Names : AttemptDeletes(a, n)

Next ==
    \/ \E n \in Names : Expire(n)
    \/ \E u \in Callers : UserStep(u)
    \/ RefreshStep
    \/ \E a \in Attempts : AttemptStep(a)
    \/ \E s \in Stoppers :
          StopBegins(s) \/ StopLocks(s) \/ StopReturns(s) \/ StopTimeout(s) \/ StopAgain(s)

Spec == Init /\ [][Next]_vars

(* Stop polls lifecycleLock, and its timer fires. Redis need not answer.    *)
FairSpec ==
    /\ Spec
    /\ \A s \in Stoppers : WF_vars(StopLocks(s) \/ StopReturns(s) \/ StopTimeout(s))

-----------------------------------------------------------------------------
(* The variables have the types of the fields of the plugin.               *)
TypeOK ==
    /\ nodes \subseteq Names /\ orphans \subseteq Names /\ Services \subseteq Names
    /\ stranded \subseteq Names /\ kv \in BOOLEAN /\ started \in BOOLEAN
    /\ stopped \in BOOLEAN /\ stopComplete \in BOOLEAN /\ stopRequested \in BOOLEAN
    /\ dying \in {"nil", "open", "closed"} /\ done \in {"nil", "open", "closed"}
    /\ lifecycleLock \in Callers \cup {Nil} /\ storeLock \in {"free", "user", "refresh", "attempt"}
    /\ cpc \in [Callers -> {"idle", "lock", "start", "store", "put"}]
    /\ cop \in [Callers -> Operations \cup {<<"none", Nil>>}]
    /\ rpc \in {"none", "idle", "lock", "tick", "end"} /\ rtodo \subseteq Names
    /\ stopAttempt \in Attempts \cup {0}
    /\ apc \in [Attempts -> {"none", "refresh", "clean", "finish", "end"}]
    /\ atodo \in [Attempts -> SUBSET Names] /\ aerr \in [Attempts -> BOOLEAN]
    /\ spc \in [Stoppers -> {"idle", "lock", "wait", "nil", "error", "timeout"}]
    /\ waits \in [Stoppers -> Attempts \cup {0}]

(* Whenever nobody works on Redis, each node of this server belongs to a   *)
(* registered service, or to a Register that reported an error: the        *)
(* refresh does not bring back a service that was unregistered             *)
(* (redis.go:154-183, 437-474).                                            *)
NodesRegistered == storeLock = "free" => nodes \subseteq Services \cup orphans

(* "Stop unregister all services" (redis.go:194): after a Stop that        *)
(* returned nil the nodes of the registered services are deleted, no       *)
(* operation or refresh puts one back, and the store is closed             *)
(* (redis.go:88-96, 211-217, 270-324). Left are only nodes the plugin      *)
(* cannot delete any more: those whose Register had reported an error, and *)
(* those of services that were registered when a later Start failed, which *)
(* closes the store (redis.go:120-124); Stop then returns nil all the same.*)
StopCleans ==
    stopComplete \/ (\E s \in Stoppers : spc[s] = "nil") =>
        /\ nodes \subseteq orphans \cup stranded
        /\ rpc \in {"none", "end"} /\ ~kv

(* The refresh and Register never use a store that the cleanup has closed  *)
(* (redis.go:127, 270-274, 318-321).                                       *)
StoreOpen ==
    /\ rpc \in {"lock", "tick"} => kv
    /\ \A u \in Callers : cpc[u] \in {"start", "store", "put"} => kv

(* Cleanup "remains serialized in the background" (redis.go:74-76): at     *)
(* most one attempt is under way, and it is the one new Stops wait for.    *)
OneAttempt ==
    \A a \in Attempts : apc[a] \in {"refresh", "clean", "finish"} => stopAttempt = a

(* "StopTimeout bounds how long each Stop call waits" (redis.go:39-41):    *)
(* Stop returns although an operation on Redis, with the locks it holds,   *)
(* never ends.                                                             *)
StopIsBounded == \A s \in Stoppers : spc[s] = "lock" ~> spc[s] \in {"nil", "error", "timeout"}

-----------------------------------------------------------------------------
(* The inductive invariant behind the four invariants above.               *)

(* A caller in its critical section holds lifecycleLock, and whoever works *)
(* on Redis holds storeLock.                                               *)
LockInv ==
    /\ \A u \in Callers : cpc[u] \in {"start", "store", "put"} <=> lifecycleLock = u
    /\ \A u \in Callers : cpc[u] = "put" => storeLock = "user"
    /\ rpc = "tick" <=> storeLock = "refresh"
    /\ \A a \in Attempts : apc[a] = "clean" => storeLock = "attempt"

(* The refresh runs from a successful Start on, with an open store, and    *)
(* done is open until it has ended; a Start is under way only before that. *)
RefreshInv ==
    /\ rpc # "none" => started \/ stopped
    /\ rpc \in {"idle", "lock", "tick"} => done = "open" /\ kv
    /\ rpc = "tick" => rtodo \subseteq Services
    /\ \A u \in Callers : cpc[u] = "start" => ~started
    /\ lifecycleLock # Nil => kv

(* Once a Stop has been in, nobody else is in its critical section and     *)
(* none will be. An attempt that ended without error has completed Stop,   *)
(* and after that there is no other.                                       *)
AttemptInv ==
    /\ stopped => lifecycleLock = Nil
    /\ stopAttempt # 0 => stopped
    /\ dying = "closed" => stopped
    /\ stopComplete => stopped /\ stopAttempt = 0
    /\ OneAttempt
    /\ \A a \in Attempts : apc[a] = "end" /\ ~aerr[a] => stopComplete
    /\ \A s \in Stoppers : spc[s] = "wait" => waits[s] # 0
    /\ \A s \in Stoppers : spc[s] = "nil" => stopComplete

(* What a cleanup has achieved: nodes that Services does not account for   *)
(* are orphans, and those of an attempt without errors are deleted as far  *)
(* as it got.                                                              *)
Cleaned == nodes \subseteq orphans \cup stranded /\ rpc \in {"none", "end"} /\ ~kv

CleanInv ==
    /\ nodes \subseteq Services \cup orphans
    /\ \A a \in Attempts :
          /\ apc[a] \in {"clean", "finish"} => rpc \in {"none", "end"}
          /\ apc[a] = "clean" /\ ~aerr[a] => nodes \subseteq orphans \cup stranded \cup atodo[a]
          /\ apc[a] = "finish" /\ ~aerr[a] => Cleaned
    /\ stopComplete => Cleaned

(* While the store is closed and no cleanup has deleted the nodes, a failed *)
(* Start has stranded the registered services.                              *)
StrandedInv ==
    \/ kv \/ stopComplete \/ Services \subseteq stranded
    \/ \E a \in Attempts : apc[a] = "finish" /\ ~aerr[a]

IInv == TypeOK /\ LockInv /\ RefreshInv /\ AttemptInv /\ CleanInv /\ StrandedInv
=============================================================================

------------------------------ MODULE Dispatch ------------------------------
(***************************************************************************)
(* server/service.go, server/plugin.go, server/pool.go and the handling of *)
(* one request in server/server.go: services are registered, unregistered  *)
(* and announced by plugins while requests look them up, run through the   *)
(* plugins' hooks and borrow argument and reply objects from pools.        *)
(*                                                                         *)
(* Server.serviceMapMu is a sync.RWMutex: a waiting writer keeps new       *)
(* readers out. Connections, the worker pool, shutdown and the LogicSync   *)
(* locks are the subject of RpcServer.                                     *)
(***************************************************************************)
EXTENDS Integers, FiniteSets, Sequences, FiniteSetsExt

CONSTANTS
    Requests,
    Oneway, Heartbeat, Routed,   \* requests without a response, heartbeats,
                                 \* requests for a handler of Server.router
    PathOf, NameOf,              \* ServicePath and ServiceMethod of a request
    Registrars,                  \* calls of Register and RegisterFunction
    Paths, Names,
    Sigs, ArgType, ReplyType,    \* signatures of methods and functions, their types
    Resettable,                  \* types that implement Reset
    Objs,                        \* argument and reply objects
    Plugins, Implements,         \* the hooks a plugin implements
    Ops,                         \* what a registrar may register
    Scenarios,                   \* what happens in one behaviour
    Nil

Types == {ArgType[x] : x \in Sigs} \cup {ReplyType[x] : x \in Sigs}
RequestHooks == {"PreReadRequest", "PostReadRequest", "HeartbeatRequest", "PreHandleRequest",
                 "PreCall", "PostCall", "PreWriteResponse", "PostWriteResponse"}

(* A call of Register of a receiver with methods, or of one without        *)
(* suitable methods; a call of RegisterFunction of a suitable function or  *)
(* of another one. The same name may come with another signature.          *)
Registrations == [kind : {"Register", "RegisterFunction"}, path : Paths, name : Names,
                  sig : Sigs, suitable : BOOLEAN]

(* The plugins added before serving, none of them twice, which requests    *)
(* arrive, who registers, whether UnregisterAll is called, how often       *)
(* plugins are added or removed while serving.                             *)
ScenarioType == [plugins : Seq(Plugins), requests : SUBSET Requests, registrars : SUBSET Registrars,
                 unregister : BOOLEAN, changes : Nat]

ASSUME DispatchAssumption ==
    /\ Oneway \cup Heartbeat \cup Routed \subseteq Requests
    /\ PathOf \in [Requests -> Paths] /\ NameOf \in [Requests -> Names]
    /\ ArgType = [x \in Sigs |-> ArgType[x]] /\ ReplyType = [x \in Sigs |-> ReplyType[x]]
    /\ Resettable \subseteq Types
    /\ Implements \in [Plugins -> SUBSET (RequestHooks \cup {"Register", "RegisterFunction"})]
    /\ Ops \in [Registrars -> SUBSET Registrations]
    /\ \A s \in Scenarios : s \in ScenarioType /\ IsInjective(s.plugins)
    /\ Nil \notin Registrars \cup Objs /\ Nil \notin Sigs

VARIABLES
    serviceMap,    \* path -> the service, named for the call that made it
    method,        \* service -> the signatures of its methods, by name
    function,      \* service -> the signatures of its functions, by name
    replaced,      \* registrars whose function took the place of another (history)
    inited,        \* types that have a pool in reflectTypePools
    pools,         \* type -> its pooled objects
    data,          \* object -> the requests whose data it holds
    plugins,       \* pluginContainer.plugins
    changes,       \* how often plugins may still be added or removed
    announced,     \* plugin -> the paths it announces
    writer, rlocked,             \* serviceMapMu: its writer, UnregisterAll reads
    gpc, op, gtodo, gerr,        \* registrar -> place, registration, plugins left, error
    upc, upath, utodo, uerr,     \* the same for UnregisterAll
    began,         \* registrars that had returned when UnregisterAll began (history)
    stayed,        \* plugins installed ever since UnregisterAll began (history)
    pc,            \* request -> where its handling is
    chain,         \* request -> index and bound of the loop over the plugins
    service,       \* request -> the service it looked up
    mtype,         \* request -> the signature it found there
    argv, replyv,  \* request -> the objects it holds
    err,           \* request -> handling it has produced an error
    payload,       \* request -> the requests whose data its response holds
    answer,        \* request -> what its client got
    agreed,        \* request -> plugins whose PreCall accepted it (history)
    shifted,       \* requests that saw plugins change from PreCall on (history)
    fatal          \* the Go runtime found a concurrent map read and map write

lockVars == <<writer, rlocked>>
mapVars == <<serviceMap, method, function, replaced>>
objVars == <<inited, pools, data, argv, replyv>>
pluginVars == <<plugins, changes, announced>>
regVars == <<gpc, op, gtodo, gerr>>
unregVars == <<upc, upath, utodo, uerr, began, stayed>>
reqVars == <<pc, chain, service, mtype, err, payload, answer, agreed, shifted>>
vars == <<lockVars, mapVars, objVars, pluginVars, regVars, unregVars, reqVars, fatal>>

NotServing == <<lockVars, mapVars, pluginVars, regVars, unregVars, fatal>>

Init ==
    /\ serviceMap = [k \in Paths |-> Nil]
    /\ method = [g \in Registrars |-> [n \in Names |-> Nil]]
    /\ function = [g \in Registrars |-> [n \in Names |-> Nil]]
    /\ replaced = {}
    /\ inited = {} /\ pools = [t \in Types |-> {}]
    /\ data = [o \in Objs |-> {}]
    /\ announced = [p \in Plugins |-> {}]
    /\ writer = Nil /\ rlocked = FALSE
    /\ \E s \in Scenarios :
          /\ gpc = [g \in Registrars |-> IF g \in s.registrars THEN "idle" ELSE "off"]
          /\ upc = IF s.unregister THEN "idle" ELSE "off"
          /\ pc = [r \in Requests |-> IF r \in s.requests THEN "PreReadRequest" ELSE "off"]
          /\ plugins = s.plugins /\ changes = s.changes
    /\ op = [g \in Registrars |-> Nil]
    /\ gtodo = [g \in Registrars |-> Nil]
    /\ gerr = [g \in Registrars |-> FALSE]
    /\ upath = {} /\ utodo = <<>> /\ uerr = {} /\ began = {} /\ stayed = {}
    /\ chain = [r \in Requests |-> <<0, 0>>]
    /\ service = [r \in Requests |-> Nil] /\ mtype = [r \in Requests |-> Nil]
    /\ argv = [r \in Requests |-> Nil] /\ replyv = [r \in Requests |-> Nil]
    /\ err = [r \in Requests |-> FALSE]
    /\ payload = [r \in Requests |-> {}]
    /\ answer = [r \in Requests |-> "none"]
    /\ agreed = [r \in Requests |-> {}]
    /\ shifted = {}
    /\ fatal = FALSE

-----------------------------------------------------------------------------
(* serviceMapMu.                                                           *)

Waiting == {g \in Registrars : gpc[g] = "wait"}
RLockable == writer = Nil /\ Waiting = {}
Lockable == writer = Nil /\ ~rlocked

-----------------------------------------------------------------------------
(* typePools.                                                              *)

(* Init installs new pools for the types of T, in place of the old ones.   *)
PoolsInit(T) ==
    /\ inited' = inited \cup T
    /\ pools' = [t \in Types |-> IF t \in T THEN {} ELSE pools[t]]

InUse == {argv[r] : r \in Requests} \cup {replyv[r] : r \in Requests}
         \cup UNION {pools[t] : t \in Types}
New == IF Objs \subseteq InUse THEN {} ELSE {CHOOSE o \in Objs : o \notin InUse}

(* Get returns an object of the pool or a new, blank one.                  *)
Get(t, o) ==
    /\ o \in pools[t] \cup New
    /\ pools' = [pools EXCEPT ![t] = @ \ {o}]
    /\ UNCHANGED inited
Content(t, o) == IF o \in pools[t] THEN data[o] ELSE {}

(* Put resets an object and returns it to the pool of its type; an object  *)
(* that has no Reset is left to the garbage collector.                     *)
Put_NoReset(t, o) ==
    /\ pools' = IF t \in Resettable /\ o # Nil THEN [pools EXCEPT ![t] = @ \cup {o}] ELSE pools
    /\ UNCHANGED <<inited, data>>
Put(t, o) ==
    IF t \in Resettable /\ o # Nil
       THEN /\ pools' = [pools EXCEPT ![t] = @ \cup {o}]
            /\ data' = [data EXCEPT ![o] = {}]
            /\ UNCHANGED inited
       ELSE UNCHANGED <<inited, pools, data>>

-----------------------------------------------------------------------------
(* Register, RegisterName, RegisterFunction and RegisterFunctionName.      *)

TypesOf(x) == {ArgType[x], ReplyType[x]}

(* The call asks for the lock, and gets it.                                *)
RegistrarWaits(g) ==
    /\ gpc[g] = "idle"
    /\ \E x \in Ops[g] : op' = [op EXCEPT ![g] = x]
    /\ gpc' = [gpc EXCEPT ![g] = "wait"]
    /\ UNCHANGED <<lockVars, mapVars, objVars, pluginVars, gtodo, gerr, unregVars, reqVars, fatal>>

RegistrarLocks(g) ==
    /\ gpc[g] = "wait" /\ Lockable
    /\ writer' = g
    /\ gpc' = [gpc EXCEPT ![g] = "locked"]
    /\ UNCHANGED <<rlocked, mapVars, objVars, pluginVars, op, gtodo, gerr, unregVars, reqVars, fatal>>

(* register: a service with suitable methods replaces the one of its path, *)
(* functions included.                                                     *)
register_Announces(g) ==
    /\ gpc[g] = "locked" /\ op[g].kind = "Register"
    /\ writer' = Nil
    /\ gpc' = [gpc EXCEPT ![g] = "announce"]
    /\ UNCHANGED <<mapVars, inited, pools, gerr>>
register(g) ==
    /\ gpc[g] = "locked" /\ op[g].kind = "Register"
    /\ writer' = Nil
    /\ \/ /\ op[g].suitable
          /\ PoolsInit(TypesOf(op[g].sig))
          /\ method' = [method EXCEPT ![g][op[g].name] = op[g].sig]
          /\ serviceMap' = [serviceMap EXCEPT ![op[g].path] = g]
          /\ gpc' = [gpc EXCEPT ![g] = "announce"]
          /\ UNCHANGED <<function, replaced, gerr>>
       \/ /\ ~op[g].suitable
          /\ gpc' = [gpc EXCEPT ![g] = "done"]
          /\ gerr' = [gerr EXCEPT ![g] = TRUE]
          /\ UNCHANGED <<mapVars, inited, pools>>

Registers(g) ==
    /\ register(g)
    /\ UNCHANGED <<rlocked, data, argv, replyv, pluginVars, op, gtodo, unregVars, reqVars, fatal>>

(* A service made by register has no map of functions.                     *)
NilMap(s) == op[s].kind = "Register"

(* registerFunction: the function joins the service of its path, if there  *)
(* is one. The assignment panics when that service has no map of           *)
(* functions.                                                              *)
registerFunction(g) ==
    LET k == op[g].path
        s == IF serviceMap[k] = Nil THEN g ELSE serviceMap[k]
        installs == op[g].suitable /\ ~NilMap(s)
    IN  /\ gpc[g] = "locked" /\ op[g].kind = "RegisterFunction"
        /\ serviceMap' = IF installs THEN [serviceMap EXCEPT ![k] = s] ELSE serviceMap
        /\ function' = IF installs THEN [function EXCEPT ![s][op[g].name] = op[g].sig] ELSE function
        /\ replaced' = IF installs /\ function[s][op[g].name] # Nil THEN replaced \cup {g} ELSE replaced
        /\ writer' = IF installs THEN writer ELSE Nil
        /\ gpc' = [gpc EXCEPT ![g] = IF installs THEN "init" ELSE "done"]
        /\ gerr' = [gerr EXCEPT ![g] = ~installs]

RegistersFunction(g) ==
    /\ registerFunction(g)
    /\ UNCHANGED <<rlocked, method, objVars, pluginVars, op, gtodo, unregVars, reqVars, fatal>>

(* ... then the pools of its types are installed, and the lock released.   *)
RegisterFunctionInits(g) ==
    /\ gpc[g] = "init"
    /\ PoolsInit(TypesOf(op[g].sig))
    /\ writer' = Nil
    /\ gpc' = [gpc EXCEPT ![g] = "announce"]
    /\ UNCHANGED <<rlocked, mapVars, data, argv, replyv, pluginVars, op, gtodo, gerr,
                   unregVars, reqVars, fatal>>

(* The plugins of a kind; only a RegisterPlugin has an Unregister.         *)
Registries(kind) == {p \in Plugins : kind \in Implements[p]}

(* DoRegister, DoRegisterFunction: the loop has a slice of its own, passes *)
(* over the plugins that are no registries of the kind, and an error does  *)
(* not end it.                                                             *)
DoRegister(g) ==
    LET todo == IF gtodo[g] = Nil THEN plugins ELSE gtodo[g] IN
    /\ gpc[g] = "announce"
    /\ IF todo = <<>>
          THEN /\ gpc' = [gpc EXCEPT ![g] = "done"]
               /\ gtodo' = [gtodo EXCEPT ![g] = Nil]
               /\ UNCHANGED <<announced, gerr>>
          ELSE /\ gtodo' = [gtodo EXCEPT ![g] = Tail(todo)]
               /\ \/ /\ announced' = IF Head(todo) \in Registries(op[g].kind)
                                       THEN [announced EXCEPT ![Head(todo)] = @ \cup {op[g].path}]
                                       ELSE announced
                     /\ UNCHANGED gerr
                  \/ /\ Head(todo) \in Registries(op[g].kind)
                     /\ gerr' = [gerr EXCEPT ![g] = TRUE]
                     /\ UNCHANGED announced
               /\ UNCHANGED gpc
    /\ UNCHANGED <<lockVars, mapVars, objVars, plugins, changes, op, unregVars, reqVars, fatal>>

(* The Go runtime may abort the process when a request reads the map of    *)
(* functions, which handleRequest and handleRequestForFunction do without  *)
(* the lock, while registerFunction writes it.                             *)
MapFault ==
    /\ \E g \in Registrars, r \in Requests :
          /\ gpc[g] = "locked" /\ op[g].kind = "RegisterFunction"
          /\ pc[r] \in {"resolve", "read"}
          /\ service[r] = serviceMap[op[g].path] /\ ~NilMap(service[r])
    /\ fatal' = TRUE
    /\ UNCHANGED <<lockVars, mapVars, objVars, pluginVars, regVars, unregVars, reqVars>>

-----------------------------------------------------------------------------
(* UnregisterAll, with the lock taken for reading.                         *)

UnregisterAll ==
    /\ upc = "idle" /\ RLockable
    /\ rlocked' = TRUE
    /\ upc' = "loop"
    /\ upath' = {k \in Paths : serviceMap[k] # Nil}
    /\ began' = {g \in Registrars : gpc[g] = "done"}
    /\ stayed' = Range(plugins)
    /\ UNCHANGED <<writer, mapVars, objVars, pluginVars, regVars, utodo, uerr, reqVars, fatal>>

(* DoUnregister for the next service: a failing plugin does not keep the   *)
(* others from being told.                                                 *)
DoUnregister(k) ==
    /\ upc = "loop" /\ utodo = <<>> /\ k \in upath
    /\ upath' = upath \ {k}
    /\ utodo' = [i \in 1 .. Len(plugins) |-> <<k, plugins[i]>>]
    /\ UNCHANGED <<lockVars, mapVars, objVars, pluginVars, regVars, upc, uerr, began, stayed,
                   reqVars, fatal>>

LeftAfterError_None == <<>>
LeftAfterError == Tail(utodo)

PluginUnregisters ==
    /\ upc = "loop" /\ utodo # <<>>
    /\ LET k == Head(utodo)[1]
           p == Head(utodo)[2]
       IN  \/ /\ announced' = IF p \in Registries("Register")
                                 THEN [announced EXCEPT ![p] = @ \ {k}] ELSE announced
              /\ utodo' = Tail(utodo)
              /\ UNCHANGED uerr
           \/ /\ p \in Registries("Register")
              /\ uerr' = uerr \cup {p}
              /\ utodo' = LeftAfterError
              /\ UNCHANGED announced
    /\ UNCHANGED <<lockVars, mapVars, objVars, plugins, changes, regVars, upc, upath, began,
                   stayed, reqVars, fatal>>

RUnlocked_Not == rlocked
RUnlocked == FALSE

UnregisterAllReturns ==
    /\ upc = "loop" /\ utodo = <<>> /\ upath = {}
    /\ upc' = "done"
    /\ rlocked' = RUnlocked
    /\ UNCHANGED <<writer, mapVars, objVars, pluginVars, regVars, upath, utodo, uerr, began,
                   stayed, reqVars, fatal>>

-----------------------------------------------------------------------------
(* pluginContainer.                                                        *)

BeingChecked == {r \in Requests : pc[r] = "PreCall" /\ chain[r][1] > 0}
                \cup {r \in Requests : pc[r] \in {"call", "PostCall"}}

Without(i) == [j \in 1 .. Len(plugins) - 1 |-> plugins[IF j < i THEN j ELSE j + 1]]

(* Remove replaces the slice of plugins, Add appends to it. No plugin is   *)
(* added twice, so that there is one to remove.                            *)
RemovePlugin(p) ==
    /\ changes > 0
    /\ \E i \in DOMAIN plugins : plugins[i] = p /\ plugins' = Without(i)
    /\ changes' = changes - 1
    /\ stayed' = stayed \ {p}
    /\ shifted' = shifted \cup BeingChecked
    /\ UNCHANGED <<lockVars, mapVars, objVars, announced, regVars, upc, upath, utodo, uerr,
                   began, pc, chain, service, mtype, err, payload, answer, agreed, fatal>>

AddPlugin(p) ==
    /\ changes > 0 /\ p \notin Range(plugins)
    /\ plugins' = Append(plugins, p)
    /\ changes' = changes - 1
    /\ shifted' = shifted \cup BeingChecked
    /\ UNCHANGED <<lockVars, mapVars, objVars, announced, regVars, unregVars, pc, chain, service,
                   mtype, err, payload, answer, agreed, fatal>>

(* One turn of the loop of a hook. Its bound is the length of the slice    *)
(* when it began, but it indexes the current slice: out of range, it       *)
(* panics. The first plugin that returns an error ends the loop.           *)
Invoke(r, out) ==
    LET i == chain[r][1]
        n == IF i = 0 THEN Len(plugins) ELSE chain[r][2]
        todo == {j \in i + 1 .. n : j > Len(plugins) \/ pc[r] \in Implements[plugins[j]]}
        ends == chain' = [chain EXCEPT ![r] = <<0, 0>>]
    IN  IF todo = {} THEN out = "ok" /\ ends
        ELSE IF Min(todo) > Len(plugins) THEN out = "panic" /\ ends
        ELSE \/ out = "err" /\ ends
             \/ out = "more" /\ chain' = [chain EXCEPT ![r] = <<Min(todo), n>>]

-----------------------------------------------------------------------------
(* One request, from readRequest to the end of processOneRequest.          *)

To(r, p) == pc' = [pc EXCEPT ![r] = p]
Fails(r, p) == To(r, p) /\ err' = [err EXCEPT ![r] = TRUE]
Keeps == UNCHANGED <<objVars, service, payload, agreed, shifted>>

(* The goroutine ends; the objects it still holds are left to the garbage  *)
(* collector.                                                              *)
Ends(r, a) ==
    /\ To(r, "end")
    /\ answer' = [answer EXCEPT ![r] = a]
    /\ argv' = [argv EXCEPT ![r] = Nil] /\ replyv' = [replyv EXCEPT ![r] = Nil]
    /\ UNCHANGED <<inited, pools, data>>

(* One turn of the loop of a hook: it goes on, or ends and the request     *)
(* proceeds to next, or to onErr after an error, or is given up with       *)
(* answer a after a panic or an error that closes the connection.          *)
Passes(r, next, onErr, a) ==
    \E out \in {"ok", "more", "err", "panic"} :
        /\ Invoke(r, out)
        /\ \/ out = "more" /\ UNCHANGED <<pc, err, answer, objVars>>
           \/ /\ out = "ok" \/ (out = "err" /\ onErr = "ignored")
              /\ To(r, next) /\ UNCHANGED <<err, answer, objVars>>
           \/ /\ out = "err" /\ onErr \notin {"ignored", "closed"}
              /\ Fails(r, onErr) /\ UNCHANGED <<answer, objVars>>
           \/ /\ out = "panic" \/ (out = "err" /\ onErr = "closed")
              /\ Ends(r, a) /\ UNCHANGED err

(* readRequest: an error or a panic closes the connection, but             *)
(* ErrReqReachLimit of DoPostReadRequest is only reported to the client.   *)
DoPreReadRequest(r) ==
    /\ pc[r] = "PreReadRequest"
    /\ Passes(r, "PostReadRequest", "closed", "closed")
    /\ UNCHANGED <<NotServing, service, mtype, payload, agreed, shifted>>

DoPostReadRequest(r) ==
    /\ pc[r] = "PostReadRequest"
    /\ \E onErr \in {"PreWriteResponse", "closed"} : Passes(r, "auth", onErr, "closed")
    /\ UNCHANGED <<NotServing, service, mtype, payload, agreed, shifted>>

(* auth, then processOneRequest begins.                                    *)
Auth(r) ==
    /\ pc[r] = "auth"
    /\ \/ /\ To(r, IF r \in Heartbeat THEN "HeartbeatRequest" ELSE "PreHandleRequest")
          /\ UNCHANGED err
       \/ r \notin Heartbeat /\ Fails(r, "PreWriteResponse")
    /\ Keeps /\ UNCHANGED <<NotServing, mtype, chain, answer>>

(* The errors of these hooks are ignored.                                  *)
DoHeartbeatRequest(r) ==
    /\ pc[r] = "HeartbeatRequest"
    /\ Passes(r, "write", "ignored", "panic")
    /\ UNCHANGED <<NotServing, service, mtype, payload, agreed, shifted>>

DoPreHandleRequest(r) ==
    /\ pc[r] = "PreHandleRequest"
    /\ Passes(r, IF r \in Routed THEN "handler" ELSE "lookup", "ignored", "panic")
    /\ UNCHANGED <<NotServing, service, mtype, payload, agreed, shifted>>

DoPreWriteResponse(r) ==
    /\ pc[r] = "PreWriteResponse"
    /\ Passes(r, IF r \in Oneway THEN "end" ELSE "write", "ignored", "panic")
    /\ UNCHANGED <<NotServing, service, mtype, payload, agreed, shifted>>

DoPostWriteResponse(r) ==
    /\ pc[r] = "PostWriteResponse"
    /\ Passes(r, "end", "ignored", answer[r])
    /\ UNCHANGED <<NotServing, service, mtype, payload, agreed, shifted>>

(* A handler of the router answers with Context.Write or WriteError, or    *)
(* not at all; its error is only logged.                                   *)
Handler(r) ==
    /\ pc[r] = "handler"
    /\ \E a \in IF r \in Oneway THEN {"none"} ELSE {"none", "ok", "error"} :
          /\ Ends(r, a)
          /\ payload' = [payload EXCEPT ![r] = IF a = "ok" THEN {r} ELSE {}]
    /\ UNCHANGED <<NotServing, chain, err, service, mtype, agreed, shifted>>

(* handleRequest looks the service up under the lock for reading,          *)
Lookup(r) ==
    /\ pc[r] = "lookup" /\ RLockable
    /\ service' = [service EXCEPT ![r] = serviceMap[PathOf[r]]]
    /\ IF serviceMap[PathOf[r]] = Nil
          THEN Fails(r, "respond")
          ELSE To(r, "resolve") /\ UNCHANGED err
    /\ UNCHANGED <<NotServing, objVars, chain, mtype, payload, answer, agreed, shifted>>

(* ... and its methods and functions without the lock.                     *)
MethodOf(r) == method[service[r]][NameOf[r]]
FunctionOf(r) == function[service[r]][NameOf[r]]

Found(r, x) ==
    /\ To(r, "args")
    /\ mtype' = [mtype EXCEPT ![r] = x]
    /\ UNCHANGED err

Resolve_Once(r) ==
    /\ pc[r] = "resolve"
    /\ \/ MethodOf(r) # Nil /\ Found(r, MethodOf(r))
       \/ MethodOf(r) = Nil /\ FunctionOf(r) # Nil /\ Found(r, FunctionOf(r))
       \/ MethodOf(r) = Nil /\ FunctionOf(r) = Nil /\ Fails(r, "respond") /\ UNCHANGED mtype
    /\ Keeps /\ UNCHANGED <<NotServing, chain, answer>>
Resolve(r) ==
    /\ pc[r] = "resolve"
    /\ \/ MethodOf(r) # Nil /\ Found(r, MethodOf(r))
       \/ MethodOf(r) = Nil /\ FunctionOf(r) # Nil /\ To(r, "function") /\ UNCHANGED <<err, mtype>>
       \/ MethodOf(r) = Nil /\ FunctionOf(r) = Nil /\ Fails(r, "respond") /\ UNCHANGED mtype
    /\ Keeps /\ UNCHANGED <<NotServing, chain, answer>>

(* handleRequestForFunction looks the service up again under the lock, and *)
(* reads its functions after it has released it.                           *)
LookupFunction(r) ==
    /\ pc[r] = "function" /\ RLockable
    /\ service' = [service EXCEPT ![r] = serviceMap[PathOf[r]]]
    /\ IF serviceMap[PathOf[r]] = Nil
          THEN Fails(r, "respond")
          ELSE To(r, "read") /\ UNCHANGED err
    /\ UNCHANGED <<NotServing, objVars, chain, mtype, payload, answer, agreed, shifted>>

ReadFunction(r) ==
    /\ pc[r] = "read"
    /\ IF FunctionOf(r) # Nil
          THEN Found(r, FunctionOf(r))
          ELSE Fails(r, "respond") /\ UNCHANGED mtype
    /\ Keeps /\ UNCHANGED <<NotServing, chain, answer>>

(* The arguments: without a codec, or when they cannot be decoded, the     *)
(* object is not returned to its pool. Get panics on a missing pool.       *)
TakeArgs(r) ==
    LET t == ArgType[mtype[r]] IN
    /\ pc[r] = "args"
    /\ IF t \notin inited
          THEN Ends(r, "panic") /\ UNCHANGED err
          ELSE \E o \in Objs :
                 /\ Get(t, o)
                 /\ \/ Fails(r, "respond") /\ UNCHANGED <<data, argv>>
                    \/ /\ To(r, "reply")
                       /\ argv' = [argv EXCEPT ![r] = o]
                       /\ data' = [data EXCEPT ![o] = Content(t, o) \cup {r}]
                       /\ UNCHANGED err
                 /\ UNCHANGED <<replyv, answer>>
    /\ UNCHANGED <<NotServing, chain, service, mtype, payload, agreed, shifted>>

TakeReply(r) ==
    LET t == ReplyType[mtype[r]] IN
    /\ pc[r] = "reply"
    /\ IF t \notin inited
          THEN Ends(r, "panic")
          ELSE \E o \in Objs :
                 /\ Get(t, o)
                 /\ To(r, "PreCall")
                 /\ replyv' = [replyv EXCEPT ![r] = o]
                 /\ data' = [data EXCEPT ![o] = Content(t, o)]
                 /\ UNCHANGED <<argv, answer>>
    /\ UNCHANGED <<NotServing, chain, err, service, mtype, payload, agreed, shifted>>

(* DoPreCall: on an error only the reply returns to its pool.              *)
AfterPreCallError_Calls(r) == To(r, "call") /\ UNCHANGED <<err, argv, replyv>>
AfterPreCallError(r) ==
    /\ Fails(r, "respond")
    /\ argv' = [argv EXCEPT ![r] = Nil]
    /\ replyv' = [replyv EXCEPT ![r] = Nil]

DoPreCall(r) ==
    /\ pc[r] = "PreCall"
    /\ \E out \in {"ok", "more", "err", "panic"} :
          /\ Invoke(r, out)
          /\ agreed' = IF out = "more"
                          THEN [agreed EXCEPT ![r] = @ \cup {plugins[chain'[r][1]]}]
                          ELSE agreed
          /\ \/ out = "more" /\ UNCHANGED <<pc, err, answer, objVars>>
             \/ out = "ok" /\ To(r, "call") /\ UNCHANGED <<err, answer, objVars>>
             \/ /\ out = "err"
                /\ Put(ReplyType[mtype[r]], replyv[r])
                /\ AfterPreCallError(r)
                /\ UNCHANGED answer
             \/ out = "panic" /\ Ends(r, "panic") /\ UNCHANGED err
    /\ UNCHANGED <<NotServing, service, mtype, payload, shifted>>

(* The method or function computes the reply from its arguments and may    *)
(* return an error; a panic of it is recovered and becomes its error.      *)
Call(r) ==
    /\ pc[r] = "call"
    /\ data' = [data EXCEPT ![replyv[r]] = @ \cup data[argv[r]]]
    /\ \E e \in BOOLEAN : err' = [err EXCEPT ![r] = e]
    /\ To(r, "PostCall")
    /\ UNCHANGED <<NotServing, inited, pools, argv, replyv, chain, service, mtype, payload, answer,
                   agreed, shifted>>

(* DoPostCall also runs after an error of the service.                     *)
DoPostCall(r) ==
    /\ pc[r] = "PostCall"
    /\ Passes(r, "putArgs", "putArgs", "panic")
    /\ UNCHANGED <<NotServing, service, mtype, payload, agreed, shifted>>

(* The arguments return to their pool.                                     *)
PutArgs(r) ==
    /\ pc[r] = "putArgs"
    /\ Put(ArgType[mtype[r]], argv[r])
    /\ argv' = [argv EXCEPT ![r] = Nil]
    /\ To(r, "encode")
    /\ UNCHANGED <<NotServing, replyv, chain, service, mtype, err, payload, answer, agreed, shifted>>

(* The reply of a method is encoded also after an error, the reply of a    *)
(* function is not; an encoding error replaces the error of the service.   *)
Encodes(r) == IF err[r] THEN NilMap(service[r]) ELSE r \notin Oneway

Encode(r) ==
    /\ pc[r] = "encode"
    /\ To(r, "putReply")
    /\ \/ /\ Encodes(r)
          /\ payload' = [payload EXCEPT ![r] = data[replyv[r]]]
          /\ UNCHANGED err
       \/ /\ Encodes(r)
          /\ err' = [err EXCEPT ![r] = TRUE]
          /\ UNCHANGED payload
       \/ ~Encodes(r) /\ UNCHANGED <<payload, err>>
    /\ UNCHANGED <<NotServing, objVars, chain, service, mtype, answer, agreed, shifted>>

PutReply(r) ==
    /\ pc[r] = "putReply"
    /\ Put(ReplyType[mtype[r]], replyv[r])
    /\ replyv' = [replyv EXCEPT ![r] = Nil]
    /\ To(r, "respond")
    /\ UNCHANGED <<NotServing, argv, chain, service, mtype, err, payload, answer, agreed, shifted>>

(* handleRequest returned, handleError has marked the response if there    *)
(* was an error.                                                           *)
Respond(r) ==
    /\ pc[r] = "respond"
    /\ IF r \in Oneway
          THEN Ends(r, "none")
          ELSE To(r, "PreWriteResponse") /\ UNCHANGED <<answer, objVars>>
    /\ UNCHANGED <<NotServing, chain, service, mtype, err, payload, agreed, shifted>>

(* The response is written between its two hooks, a heartbeat's at once    *)
(* unless it was refused.                                                  *)
Write(r) ==
    /\ pc[r] = "write"
    /\ IF r \in Heartbeat /\ ~err[r]
          THEN Ends(r, "ok")
          ELSE /\ To(r, "PostWriteResponse")
               /\ answer' = [answer EXCEPT ![r] = IF err[r] THEN "error" ELSE "ok"]
               /\ UNCHANGED objVars
    /\ UNCHANGED <<NotServing, chain, service, mtype, err, payload, agreed, shifted>>

-----------------------------------------------------------------------------
RegistrarStep(g) ==
    \/ RegistrarLocks(g)
    \/ Registers(g)
    \/ RegistersFunction(g)
    \/ RegisterFunctionInits(g)
    \/ DoRegister(g)

UnregisterStep == \/ \E k \in Paths : DoUnregister(k)
                  \/ PluginUnregisters
                  \/ UnregisterAllReturns

RequestStep(r) ==
    \/ DoPreReadRequest(r) \/ DoPostReadRequest(r)
    \/ Auth(r)
    \/ DoHeartbeatRequest(r)
    \/ DoPreHandleRequest(r)
    \/ Handler(r)
    \/ Lookup(r)
    \/ Resolve(r)
    \/ LookupFunction(r)
    \/ ReadFunction(r)
    \/ TakeArgs(r)
    \/ TakeReply(r)
    \/ DoPreCall(r)
    \/ Call(r)
    \/ DoPostCall(r)
    \/ PutArgs(r)
    \/ Encode(r)
    \/ PutReply(r)
    \/ Respond(r)
    \/ DoPreWriteResponse(r)
    \/ Write(r)
    \/ DoPostWriteResponse(r)

Next ==
    /\ ~fatal
    /\ \/ \E g \in Registrars : RegistrarWaits(g) \/ RegistrarStep(g)
       \/ UnregisterAll
       \/ UnregisterStep
       \/ \E p \in Plugins : RemovePlugin(p) \/ AddPlugin(p)
       \/ \E r \in Requests : RequestStep(r)
       \/ MapFault

Spec == Init /\ [][Next]_vars

(* Goroutines that can run do run and the plugins and services return. A   *)
(* request may wait for the lock while writers come and go: the lock is    *)
(* handed to waiting readers when a writer releases it.                    *)
Fairness ==
    /\ \A g \in Registrars : WF_vars(~fatal /\ RegistrarStep(g))
    /\ WF_vars(~fatal /\ UnregisterStep)
    /\ \A r \in Requests : WF_vars(~fatal /\ RequestStep(r))

FairSpec == Spec /\ Fairness

-----------------------------------------------------------------------------
(* The variables have the types of the fields and locals they model, and   *)
(* serviceMapMu is held by readers or by one registration (server.go:753,  *)
(* service.go:120-122, 163-165, 321-323).                                  *)
TypeOK ==
    /\ serviceMap \in [Paths -> Registrars \cup {Nil}]
    /\ method \in [Registrars -> [Names -> Sigs \cup {Nil}]]
    /\ function \in [Registrars -> [Names -> Sigs \cup {Nil}]]
    /\ replaced \subseteq Registrars
    /\ inited \in SUBSET Types /\ pools \in [Types -> SUBSET Objs]
    /\ data \in [Objs -> SUBSET Requests]
    /\ announced \in [Plugins -> SUBSET Paths]
    /\ writer \in Registrars \cup {Nil} /\ rlocked \in BOOLEAN
    /\ \A g \in Registrars : gpc[g] \in {"locked", "init"} => writer = g /\ ~rlocked
    /\ service \in [Requests -> Registrars \cup {Nil}]
    /\ mtype \in [Requests -> Sigs \cup {Nil}]
    /\ argv \in [Requests -> Objs \cup {Nil}] /\ replyv \in [Requests -> Objs \cup {Nil}]
    /\ err \in [Requests -> BOOLEAN]
    /\ payload \in [Requests -> SUBSET Requests]
    /\ answer \in [Requests -> {"none", "ok", "error", "closed", "panic"}]

(* An argument or reply object has one user: it is held by one request as  *)
(* its arguments or as its reply, or it lies in one pool, and whoever gets *)
(* it next is alone with it (server.go:774-843, pool.go:44-61).            *)
SoleOwner ==
    /\ \A q, r \in Requests :
          /\ argv[q] # Nil => argv[q] # replyv[r] /\ (argv[q] = argv[r] => q = r)
          /\ replyv[q] # Nil /\ replyv[q] = replyv[r] => q = r
    /\ \A t \in Types :
          \A r \in Requests : argv[r] \notin pools[t] /\ replyv[r] \notin pools[t]

(* A response holds the data of its own request and of no other, although  *)
(* the objects it was computed in are shared over the pools                *)
(* (server.go:774-843, pool.go:44-53).                                     *)
OwnData ==
    \A r \in Requests :
        /\ payload[r] \subseteq {r}
        /\ answer[r] = "ok" /\ r \notin Heartbeat => payload[r] = {r}

(* A request finds a method or function whose types have their pools: a    *)
(* new function is visible to a request that already has its service       *)
(* before its pools are, but the second lookup waits for the lock          *)
(* (service.go:230-236, server.go:766-768, 859-866). The exception is a    *)
(* function that is being registered again with other types: its map is    *)
(* read after the lock was released, and Get then panics on the missing    *)
(* pool (server.go:866-872).                                               *)
Replacing(x) == \E g \in replaced : gpc[g] = "init" /\ op[g].sig = x

PoolReady ==
    \A r \in Requests :
        /\ pc[r] = "args" => ArgType[mtype[r]] \in inited \/ Replacing(mtype[r])
        /\ pc[r] \in {"args", "reply"} => ReplyType[mtype[r]] \in inited \/ Replacing(mtype[r])

(* A service runs only after every plugin with a PreCall accepted the      *)
(* request, unless plugins were added or removed meanwhile                 *)
(* (plugin.go:143-156, 302-314, server.go:791-796).                        *)
GuardedCall ==
    \A r \in Requests : pc[r] \in {"call", "PostCall"} /\ r \notin shifted =>
        \A p \in Range(plugins) : "PreCall" \in Implements[p] => p \in agreed[r]

(* A plugin announces only services the server has: the map is written     *)
(* before the plugins are told and never emptied (service.go:73-118, 159). *)
AnnouncedServed ==
    \A p \in Plugins : \A k \in announced[p] : serviceMap[k] # Nil

(* Once UnregisterAll has returned, a RegisterPlugin that was installed    *)
(* all the time announces only services registered meanwhile, unless it    *)
(* failed itself: the failure of another plugin does not keep it from      *)
(* withdrawing them, nor do plugins that are added or removed beside it    *)
(* (service.go:321-336, plugin.go:137-156, 199-214).                       *)
Meanwhile(k) == \E g \in Registrars \ began : gpc[g] \notin {"off", "idle"} /\ op[g].path = k

Withdrawn ==
    upc = "done" =>
        \A p \in (stayed \cap Registries("Register")) \ uerr : \A k \in announced[p] : Meanwhile(k)

(* Every request that is being handled comes to an end: it does not wait   *)
(* for ever for UnregisterAll or a registration to release the lock        *)
(* (server.go:753-760, service.go:120-122, 321-323).                       *)
RequestsFinish == \A r \in Requests : pc[r] = "lookup" ~> pc[r] = "end" \/ fatal

-----------------------------------------------------------------------------
(* The inductive invariant from which the properties above follow.         *)

RegistrarStates == {"off", "idle", "wait", "locked", "init", "announce", "done"}
RequestStates == RequestHooks \cup
                 {"off", "auth", "handler", "lookup", "resolve", "function", "read", "args", "reply",
                  "call", "putArgs", "encode", "putReply", "respond", "write", "end"}

(* Where a request has found its method or function.                       *)
Using == {"args", "reply", "PreCall", "call", "PostCall", "putArgs", "encode", "putReply"}

(* A registrar that has begun has a registration to carry out.             *)
ControlInv ==
    /\ gpc \in [Registrars -> RegistrarStates]
    /\ pc \in [Requests -> RequestStates]
    /\ op \in [Registrars -> Registrations \cup {Nil}]
    /\ \A g \in Registrars : gpc[g] \notin {"off", "idle"} => op[g] \in Registrations

(* A path that has been found or is announced has a service.               *)
ServedInv ==
    /\ \A g \in Registrars : gpc[g] \in {"init", "announce"} => serviceMap[op[g].path] # Nil
    /\ \A r \in Requests : pc[r] \in {"resolve", "function"} => serviceMap[PathOf[r]] # Nil
    /\ \A r \in Requests : pc[r] \in {"resolve", "function", "read"} => service[r] # Nil

(* A service comes from a call that has got past the lock. Only a service  *)
(* that a function made has functions, and nothing but a service of        *)
(* methods takes the place of another.                                     *)
Installed(s) == s # Nil => gpc[s] \in {"init", "announce", "done"}

ServiceInv ==
    /\ \A k \in Paths : Installed(serviceMap[k])
    /\ \A r \in Requests : Installed(service[r])
    /\ \A g \in Registrars : \A n \in Names : function[g][n] # Nil => Installed(g) /\ ~NilMap(g)
    /\ \A r \in Requests : pc[r] \in {"resolve", "function"} =>
          serviceMap[PathOf[r]] = service[r] \/ NilMap(serviceMap[PathOf[r]])

(* Methods have their pools; so have functions, but for one that the       *)
(* holder of the lock has just put into the map. A request that has looked *)
(* its function up for the second time meets such a one only where it      *)
(* replaces another.                                                       *)
ReadyInv ==
    /\ \A g \in Registrars : \A n \in Names : method[g][n] # Nil => TypesOf(method[g][n]) \subseteq inited
    /\ \A g \in Registrars : \A n \in Names : function[g][n] # Nil =>
          \/ TypesOf(function[g][n]) \subseteq inited
          \/ \E h \in Registrars : gpc[h] = "init" /\ op[h].sig = function[g][n]
    /\ \A r \in Requests : pc[r] = "function" => FunctionOf(r) # Nil
    /\ \A r \in Requests : pc[r] = "read" =>
          \/ NilMap(service[r])
          \/ FunctionOf(r) # Nil /\ TypesOf(FunctionOf(r)) \subseteq inited
          \/ FunctionOf(r) # Nil /\ Replacing(FunctionOf(r))
    /\ \A r \in Requests : pc[r] \in Using => mtype[r] \in Sigs

(* No object is in two pools.                                              *)
PoolsApart == \A s, t \in Types : s # t => pools[s] \cap pools[t] = {}

(* Pooled objects are blank, and an object in use holds data of its user   *)
(* only.                                                                   *)
DataInv ==
    /\ \A t \in Types : \A o \in pools[t] : data[o] = {}
    /\ \A r \in Requests :
          /\ pc[r] \in {"reply", "PreCall", "call", "PostCall", "putArgs"} => argv[r] # Nil
          /\ pc[r] \in {"PreCall", "call", "PostCall", "putArgs", "encode", "putReply"} => replyv[r] # Nil
          /\ argv[r] # Nil => data[argv[r]] = {r}
          /\ replyv[r] # Nil => data[replyv[r]] \subseteq {r}
          /\ pc[r] \in {"PostCall", "putArgs", "encode"} => data[replyv[r]] = {r}

(* A response without an error has its payload by the time it is written.  *)
AnswerInv ==
    \A r \in Requests :
        /\ pc[r] = "HeartbeatRequest" => r \in Heartbeat
        /\ pc[r] = "write" => r \in Heartbeat \/ r \notin Oneway
        /\ pc[r] \in {"putReply", "respond", "PreWriteResponse", "write"} /\ ~err[r]
           /\ r \notin Oneway \cup Heartbeat => payload[r] = {r}

(* Together they are preserved by every step of registrations, requests,   *)
(* UnregisterAll and plugin changes (service.go:62-239, server.go:733-922, *)
(* pool.go:34-61).                                                         *)
IInv == TypeOK /\ ControlInv /\ ServedInv /\ ServiceInv /\ ReadyInv /\ PoolReady /\ AnnouncedServed
        /\ SoleOwner /\ PoolsApart /\ DataInv /\ AnswerInv /\ OwnData

(* The loop of DoPreCall has asked every plugin before its index, and      *)
(* while the plugins are the same it will ask them all.                    *)
HookInv ==
    /\ plugins \in Seq(Plugins)
    /\ chain \in [Requests -> Nat \X Nat]
    /\ agreed \in [Requests -> SUBSET Plugins]
    /\ \A r \in Requests : pc[r] \notin RequestHooks => chain[r][1] = 0
    /\ \A r \in Requests : pc[r] = "PreCall" /\ chain[r][1] > 0 /\ r \notin shifted =>
          /\ chain[r][1] <= Len(plugins) /\ chain[r][2] = Len(plugins)
          /\ \A j \in 1 .. chain[r][1] : "PreCall" \in Implements[plugins[j]] => plugins[j] \in agreed[r]
    /\ GuardedCall

(* UnregisterAll still has to withdraw whatever it has not withdrawn.      *)
UnregInv ==
    /\ upc \in {"off", "idle", "loop", "done"}
    /\ gtodo \in [Registrars -> Seq(Plugins) \cup {Nil}]
    /\ utodo \in Seq(Paths \X Plugins)
    /\ stayed \subseteq Range(plugins)
    /\ began \subseteq {g \in Registrars : gpc[g] = "done"}
    /\ upc \in {"loop", "done"} =>
          \A p \in (stayed \cap Registries("Register")) \ uerr : \A k \in announced[p] :
              \/ Meanwhile(k)
              \/ upc = "loop" /\ (k \in upath \/ \E i \in DOMAIN utodo : utodo[i] = <<k, p>>)
=============================================================================

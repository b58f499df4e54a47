--------------------------- MODULE DispatchProofs ---------------------------
(***************************************************************************)
(* Proofs about Dispatch, for any number of registrations, requests and    *)
(* services: the parts of the inductive invariant that concern types, the  *)
(* lock, the services with their announcements and the pools' existence,   *)
(* then the objects of the pools and what they hold, then the properties,  *)
(* and last the loops over the plugins and UnregisterAll.                  *)
(***************************************************************************)
EXTENDS Dispatch, WellFoundedInduction, TLAPS

USE DEF lockVars, mapVars, objVars, pluginVars, regVars, unregVars, reqVars, NotServing

-----------------------------------------------------------------------------
(* What steps leave alone.                                                 *)

(* What the invariant is about, but for announced and rlocked.             *)
core == <<mapVars, objVars, writer, gpc, op, pc, service, mtype, err, payload, answer>>

(* UnregisterAll, changes of the plugins and the fault of the runtime.     *)
Aside ==
    \/ UnregisterAll
    \/ UnregisterStep
    \/ \E p \in Plugins : RemovePlugin(p) \/ AddPlugin(p)
    \/ MapFault

(* These leave the core alone, announce nothing (service.go:315-336) and   *)
(* take the lock for reading only when no registration holds it.           *)
LEMMA AsideFrame ==
    ASSUME TypeOK, Aside
    PROVE  /\ UNCHANGED core
           /\ announced' \in [Plugins -> SUBSET Paths]
           /\ \A p \in Plugins : announced'[p] \subseteq announced[p]
           /\ rlocked' \in BOOLEAN
           /\ rlocked' => rlocked \/ writer = Nil
<1>1. CASE UnregisterAll
  BY <1>1, Zenon DEF UnregisterAll, RLockable, core, TypeOK
<1>2. CASE \E k \in Paths : DoUnregister(k)
  BY <1>2 DEF DoUnregister, core, TypeOK
<1>3. CASE PluginUnregisters
  <2>1. PICK p, k : announced' \in {announced, [announced EXCEPT ![p] = @ \ {k}]}
    BY <1>3, Zenon DEF PluginUnregisters
  <2>2. UNCHANGED <<core, rlocked>>
    BY <1>3, Zenon DEF PluginUnregisters, core
  <2> QED
    BY <2>1, <2>2 DEF TypeOK
<1>4. CASE UnregisterAllReturns
  BY <1>4, Zenon DEF UnregisterAllReturns, RUnlocked, core, TypeOK
<1>5. CASE \E p \in Plugins : RemovePlugin(p) \/ AddPlugin(p)
  BY <1>5 DEF RemovePlugin, AddPlugin, core, TypeOK
<1>6. CASE MapFault
  BY <1>6, Zenon DEF MapFault, core, TypeOK
<1> QED
  BY <1>1, <1>2, <1>3, <1>4, <1>5, <1>6, Zenon DEF Aside, UnregisterStep

(* One turn of the loop of a hook (plugin.go:245-357).                     *)
LEMMA PassesFrame ==
    ASSUME NEW r, NEW next, NEW onErr, NEW a, Passes(r, next, onErr, a)
    PROVE  \/ UNCHANGED <<pc, err, answer, objVars>>
           \/ To(r, next) /\ UNCHANGED <<err, answer, objVars>>
           \/ /\ onErr \notin {"ignored", "closed"}
              /\ Fails(r, onErr) /\ UNCHANGED <<answer, objVars>>
           \/ Ends(r, a) /\ UNCHANGED err
BY Zenon DEF Passes

(* The steps of requests that run a hook.                                  *)
Hook(r) ==
    \/ DoPreReadRequest(r) \/ DoPostReadRequest(r)
    \/ DoHeartbeatRequest(r)
    \/ DoPreHandleRequest(r)
    \/ DoPostCall(r)
    \/ DoPreWriteResponse(r)
    \/ DoPostWriteResponse(r)

(* Where each of them leads to.                                            *)
HookGoes(r, next) ==
    \/ pc[r] = "PreReadRequest" /\ next = "PostReadRequest"
    \/ pc[r] = "PostReadRequest" /\ next = "auth"
    \/ pc[r] = "HeartbeatRequest" /\ next = "write"
    \/ pc[r] = "PreHandleRequest" /\ next \in {"handler", "lookup"}
    \/ pc[r] = "PostCall" /\ next = "putArgs"
    \/ pc[r] = "PreWriteResponse" /\ next = (IF r \in Oneway THEN "end" ELSE "write")
    \/ pc[r] = "PostWriteResponse" /\ next = "end"

HookFails(r, next) ==
    \/ pc[r] = "PostReadRequest" /\ next = "PreWriteResponse"
    \/ pc[r] = "PostCall" /\ next = "putArgs"

(* A hook goes on to the next place, reports an error or ends the request; *)
(* in no case does it touch the pools (server.go:620-645, 685-731).        *)
LEMMA HookFrame ==
    ASSUME NEW r \in Requests, Hook(r)
    PROVE  /\ UNCHANGED <<NotServing, service, mtype, payload, inited, pools, data>>
           /\ \/ UNCHANGED <<pc, err, answer, argv, replyv>>
              \/ /\ \E next : HookGoes(r, next) /\ To(r, next)
                 /\ UNCHANGED <<err, answer, argv, replyv>>
              \/ /\ \E next : HookFails(r, next) /\ Fails(r, next)
                 /\ UNCHANGED <<answer, argv, replyv>>
              \/ (\E a \in {"closed", "panic", answer[r]} : Ends(r, a)) /\ UNCHANGED err
<1>1. CASE DoPreReadRequest(r)
  BY <1>1, PassesFrame, ZenonT(60) DEF DoPreReadRequest, HookGoes, Ends
<1>2. CASE DoPostReadRequest(r)
  BY <1>2, PassesFrame, ZenonT(60) DEF DoPostReadRequest, HookGoes, HookFails, Ends
<1>3. CASE DoHeartbeatRequest(r)
  BY <1>3, PassesFrame, ZenonT(60) DEF DoHeartbeatRequest, HookGoes, Ends
<1>4. CASE DoPreHandleRequest(r)
  BY <1>4, PassesFrame, ZenonT(60) DEF DoPreHandleRequest, HookGoes, Ends
<1>5. CASE DoPostCall(r)
  BY <1>5, PassesFrame, ZenonT(60) DEF DoPostCall, HookGoes, HookFails, Ends
<1>6. CASE DoPreWriteResponse(r)
  BY <1>6, PassesFrame, ZenonT(60) DEF DoPreWriteResponse, HookGoes, Ends
<1>7. CASE DoPostWriteResponse(r)
  BY <1>7, PassesFrame, ZenonT(60) DEF DoPostWriteResponse, HookGoes, Ends
<1> QED
  BY <1>1, <1>2, <1>3, <1>4, <1>5, <1>6, <1>7, Zenon DEF Hook

-----------------------------------------------------------------------------
(* Types and control.                                                      *)

(* No registrar, no object and no signature is nil.                        *)
LEMMA NilFact == Nil \notin Registrars /\ Nil \notin Objs /\ Nil \notin Sigs
BY DispatchAssumption, Zenon

(* Get returns an object of the pool or one nobody uses (pool.go:56-61).   *)
LEMMA ObjFact ==
    ASSUME NEW t, NEW o, o \in Objs, o \in pools[t] \cup New, t \in Types, TypeOK
    PROVE  \/ o \in pools[t]
           \/ o \notin InUse
BY Zenon DEF New

(* PoolsInit replaces the pools of some types by empty ones.               *)
LEMMA PoolsInitFrame ==
    ASSUME TypeOK, NEW x \in Sigs, PoolsInit(TypesOf(x))
    PROVE  /\ inited' \in SUBSET Types /\ inited \subseteq inited' /\ TypesOf(x) \subseteq inited'
           /\ pools' \in [Types -> SUBSET Objs]
           /\ \A t \in Types : pools'[t] \subseteq pools[t]
BY Zenon DEF TypeOK, PoolsInit, TypesOf, Types

(* Put adds at most o to the pool of t.                                    *)
LEMMA PutFrame ==
    ASSUME TypeOK, NEW t \in Types, NEW o \in Objs \cup {Nil}, Put(t, o)
    PROVE  /\ UNCHANGED inited
           /\ \/ UNCHANGED <<pools, data>>
              \/ /\ o # Nil
                 /\ pools' = [pools EXCEPT ![t] = @ \cup {o}]
                 /\ data' = [data EXCEPT ![o] = {}]
           /\ pools' \in [Types -> SUBSET Objs] /\ data' \in [Objs -> SUBSET Requests]
<1>1. pools \in [Types -> SUBSET Objs] /\ data \in [Objs -> SUBSET Requests]
  BY Zenon DEF TypeOK
<1>2. CASE t \in Resettable /\ o # Nil
  <2>1. /\ pools' = [pools EXCEPT ![t] = @ \cup {o}] /\ data' = [data EXCEPT ![o] = {}]
        /\ UNCHANGED inited
    BY <1>2, Zenon DEF Put
  <2>2. pools' \in [Types -> SUBSET Objs] /\ data' \in [Objs -> SUBSET Requests]
    BY <1>1, <1>2, <2>1
  <2> QED
    BY <1>2, <2>1, <2>2, Zenon
<1>3. CASE ~(t \in Resettable /\ o # Nil)
  BY <1>1, <1>3, Zenon DEF Put
<1> QED
  BY <1>2, <1>3, Zenon

(* At the start nothing is registered and no request holds an object.      *)
LEMMA InitInv == Init => IInv
<1> SUFFICES ASSUME Init PROVE IInv
  OBVIOUS
<1> USE DispatchAssumption DEF Init
<1>1. TypeOK
  <2>1. \A g \in Registrars : gpc[g] \in {"idle", "off"}
    OBVIOUS
  <2>2. /\ data \in [Objs -> SUBSET Requests] /\ payload \in [Requests -> SUBSET Requests]
        /\ err \in [Requests -> BOOLEAN]
        /\ answer \in [Requests -> {"none", "ok", "error", "closed", "panic"}]
    OBVIOUS
  <2>3. pools \in [Types -> SUBSET Objs] /\ inited \in SUBSET Types
    OBVIOUS
  <2>4. /\ method \in [Registrars -> [Names -> Sigs \cup {Nil}]]
        /\ function \in [Registrars -> [Names -> Sigs \cup {Nil}]]
        /\ replaced \subseteq Registrars
        /\ announced \in [Plugins -> SUBSET Paths]
        /\ serviceMap \in [Paths -> Registrars \cup {Nil}]
    OBVIOUS
  <2>5. /\ service \in [Requests -> Registrars \cup {Nil}] /\ mtype \in [Requests -> Sigs \cup {Nil}]
        /\ argv \in [Requests -> Objs \cup {Nil}] /\ replyv \in [Requests -> Objs \cup {Nil}]
    OBVIOUS
  <2> QED
    BY <2>1, <2>2, <2>3, <2>4, <2>5, Zenon DEF TypeOK
<1>2. ControlInv
  BY DEF ControlInv, RegistrarStates, RequestStates, RequestHooks
<1>3. ServedInv /\ ServiceInv
  BY DEF ServedInv, ServiceInv, Installed
<1>4. ReadyInv /\ PoolReady /\ AnnouncedServed
  BY DEF ReadyInv, PoolReady, AnnouncedServed, Using
<1>5. SoleOwner /\ PoolsApart
  BY Zenon DEF SoleOwner, PoolsApart
<1>6. DataInv /\ AnswerInv /\ OwnData
  BY DEF DataInv, AnswerInv, OwnData
<1> QED
  BY <1>1, <1>2, <1>3, <1>4, <1>5, <1>6, Zenon DEF IInv

(* A registrar that holds the lock is the only one (service.go:120, 163).  *)
LEMMA OneWriter ==
    ASSUME TypeOK, NEW g \in Registrars, NEW h \in Registrars,
           gpc[g] \in {"locked", "init"}, gpc[h] \in {"locked", "init"}
    PROVE  g = h
BY Zenon DEF TypeOK

(* What the steps of registrars leave alone.                               *)
LEMMA RegistrarFrame ==
    ASSUME NEW g \in Registrars, RegistrarWaits(g) \/ RegistrarStep(g)
    PROVE  UNCHANGED <<data, argv, replyv, pc, service, mtype, err, payload, answer, rlocked>>
BY Zenon
   DEF RegistrarWaits, RegistrarStep, RegistrarLocks, Registers, RegistersFunction,
       RegisterFunctionInits, DoRegister

(* registerFunction installs the function or gives the lock back           *)
(* (service.go:163-232). It installs it in the service of the path, or in  *)
(* one of its own.                                                         *)
Installs(g, s) ==
    /\ serviceMap' = [serviceMap EXCEPT ![op[g].path] = s]
    /\ function' = [function EXCEPT ![s][op[g].name] = op[g].sig]
    /\ replaced' \in {replaced, replaced \cup {g}}
    /\ function[s][op[g].name] # Nil => g \in replaced'
    /\ ~NilMap(s)
    /\ serviceMap[op[g].path] = s \/ (serviceMap[op[g].path] = Nil /\ s = g)

LEMMA FunctionFrame ==
    ASSUME IInv, NEW g \in Registrars, RegistersFunction(g)
    PROVE  /\ gpc[g] = "locked" /\ UNCHANGED <<method, inited, pools, announced, op>>
           /\ \/ /\ gpc' = [gpc EXCEPT ![g] = "done"]
                 /\ writer' = Nil /\ UNCHANGED <<serviceMap, function, replaced>>
              \/ /\ gpc' = [gpc EXCEPT ![g] = "init"]
                 /\ UNCHANGED writer
                 /\ \E s \in Registrars : Installs(g, s)
<1>1. op[g].path \in Paths
  BY Zenon DEF IInv, RegistersFunction, registerFunction, ControlInv, Registrations
<1> DEFINE s == IF serviceMap[op[g].path] = Nil THEN g ELSE serviceMap[op[g].path]
<1>2. s \in Registrars
  BY <1>1, Zenon DEF IInv, TypeOK
<1>3. CASE op[g].suitable /\ ~NilMap(s)
  <2>1. /\ serviceMap' = [serviceMap EXCEPT ![op[g].path] = s]
        /\ function' = [function EXCEPT ![s][op[g].name] = op[g].sig]
    BY <1>3, Zenon DEF RegistersFunction, registerFunction
  <2>2. /\ function[s][op[g].name] # Nil => replaced' = replaced \cup {g}
        /\ function[s][op[g].name] = Nil => replaced' = replaced
    BY <1>3, Zenon DEF RegistersFunction, registerFunction
  <2>3. /\ gpc[g] = "locked" /\ UNCHANGED <<method, inited, pools, announced, op>>
        /\ gpc' = [gpc EXCEPT ![g] = "init"] /\ UNCHANGED writer
    BY <1>3, Zenon DEF RegistersFunction, registerFunction
  <2>4. serviceMap[op[g].path] = s \/ (serviceMap[op[g].path] = Nil /\ s = g)
    BY Zenon
  <2> HIDE DEF s
  <2>5. Installs(g, s)
    BY <1>3, <2>1, <2>2, <2>4, Zenon DEF Installs
  <2> QED
    BY <1>2, <2>3, <2>5, Zenon
<1>4. CASE ~(op[g].suitable /\ ~NilMap(s))
  BY <1>4, Zenon DEF RegistersFunction, registerFunction
<1> QED
  BY <1>3, <1>4, Zenon

(* What the maps of methods and functions hold.                            *)
LEMMA MapFact ==
    ASSUME TypeOK, NEW h \in Registrars, NEW n \in Names
    PROVE  method[h][n] \in Sigs \cup {Nil} /\ function[h][n] \in Sigs \cup {Nil}
<1>1. method \in [Registrars -> [Names -> Sigs \cup {Nil}]] /\ function \in [Registrars -> [Names -> Sigs \cup {Nil}]]
  BY Zenon DEF TypeOK
<1> QED
  BY <1>1

(* A step of a registration keeps the types and where everybody stands.    *)
LEMMA RegistrarTypes ==
    ASSUME IInv, NEW g \in Registrars, RegistrarWaits(g) \/ RegistrarStep(g)
    PROVE  TypeOK' /\ ControlInv'
<1> USE RegistrarFrame, NilFact DEF IInv
<1>0. gpc[g] \notin {"off", "idle"} => op[g].path \in Paths /\ op[g].name \in Names /\ op[g].sig \in Sigs
  BY Zenon DEF ControlInv, Registrations
<1>1. CASE RegistrarWaits(g)
  <2>1. PICK x \in Registrations : op' = [op EXCEPT ![g] = x]
    BY <1>1, DispatchAssumption, Zenon DEF RegistrarWaits
  <2>2. ControlInv'
    BY <1>1, <2>1, Zenon DEF RegistrarWaits, ControlInv, RegistrarStates
  <2>3. TypeOK'
    BY <1>1, Zenon DEF RegistrarWaits, ControlInv, TypeOK
  <2> QED
    BY <2>2, <2>3, Zenon
<1>2. CASE RegistrarLocks(g)
  <2>1. ControlInv'
    BY <1>2, Zenon DEF RegistrarLocks, ControlInv, RegistrarStates
  <2>2. TypeOK'
    BY <1>2, Zenon DEF RegistrarLocks, Lockable, ControlInv, TypeOK
  <2> QED
    BY <2>1, <2>2, Zenon
<1>3. CASE Registers(g)
  <2>1. ControlInv'
    BY <1>3, Zenon DEF Registers, register, ControlInv, RegistrarStates
  <2>2. /\ serviceMap' \in [Paths -> Registrars \cup {Nil}]
        /\ method' \in [Registrars -> [Names -> Sigs \cup {Nil}]]
        /\ UNCHANGED <<function, replaced>>
    <3>1. op[g].path \in Paths /\ op[g].name \in Names /\ op[g].sig \in Sigs
      BY <1>0, <1>3, Zenon DEF Registers, register
    <3>2. CASE UNCHANGED mapVars
      BY <3>2, Zenon DEF TypeOK
    <3>3. CASE /\ method' = [method EXCEPT ![g][op[g].name] = op[g].sig]
               /\ serviceMap' = [serviceMap EXCEPT ![op[g].path] = g]
               /\ UNCHANGED <<function, replaced>>
      BY <3>1, <3>3 DEF TypeOK
    <3> QED
      BY <1>3, <3>2, <3>3, Zenon DEF Registers, register
  <2>3. inited' \in SUBSET Types /\ pools' \in [Types -> SUBSET Objs]
    BY <1>0, <1>3, PoolsInitFrame, Zenon DEF Registers, register, TypeOK
  <2>4. \A h \in Registrars : gpc'[h] \notin {"locked", "init"}
    BY <1>3, OneWriter, Zenon DEF Registers, register, ControlInv
  <2>5. writer' = Nil /\ UNCHANGED announced
    BY <1>3, Zenon DEF Registers, register
  <2> QED
    BY <2>1, <2>2, <2>3, <2>4, <2>5, Zenon DEF TypeOK
<1>4. CASE RegistersFunction(g)
  <2>1. ControlInv'
    BY <1>4, FunctionFrame, ZenonT(60) DEF ControlInv, RegistrarStates
  <2>2. /\ serviceMap' \in [Paths -> Registrars \cup {Nil}]
        /\ function' \in [Registrars -> [Names -> Sigs \cup {Nil}]]
        /\ replaced' \subseteq Registrars
    <3>0. op[g].path \in Paths /\ op[g].name \in Names /\ op[g].sig \in Sigs
      BY <1>0, <1>4, FunctionFrame, Zenon
    <3>1. CASE UNCHANGED <<serviceMap, function, replaced>>
      BY <3>1, Zenon DEF TypeOK
    <3>2. ASSUME NEW s \in Registrars,
                 serviceMap' = [serviceMap EXCEPT ![op[g].path] = s],
                 function' = [function EXCEPT ![s][op[g].name] = op[g].sig],
                 replaced' \in {replaced, replaced \cup {g}}
          PROVE  /\ serviceMap' \in [Paths -> Registrars \cup {Nil}]
                 /\ function' \in [Registrars -> [Names -> Sigs \cup {Nil}]]
                 /\ replaced' \subseteq Registrars
      BY <3>0, <3>2 DEF TypeOK
    <3> QED
      BY <1>4, <3>1, <3>2, FunctionFrame, Zenon DEF Installs
  <2>3. \A h \in Registrars : gpc'[h] \in {"locked", "init"} => writer' = h /\ ~rlocked
    BY <1>4, OneWriter, FunctionFrame DEF ControlInv, TypeOK
  <2>4. writer' \in Registrars \cup {Nil} /\ UNCHANGED <<method, inited, pools, announced>>
    BY <1>4, FunctionFrame, Zenon DEF TypeOK
  <2> QED
    BY <2>1, <2>2, <2>3, <2>4, Zenon DEF TypeOK
<1>5. CASE RegisterFunctionInits(g)
  <2>1. ControlInv'
    BY <1>5, Zenon DEF RegisterFunctionInits, ControlInv, RegistrarStates
  <2>2. inited' \in SUBSET Types /\ pools' \in [Types -> SUBSET Objs]
    BY <1>0, <1>5, PoolsInitFrame, Zenon DEF RegisterFunctionInits
  <2>3. \A h \in Registrars : gpc'[h] \notin {"locked", "init"}
    BY <1>5, OneWriter, Zenon DEF RegisterFunctionInits, ControlInv
  <2>4. writer' = Nil /\ UNCHANGED <<mapVars, announced>>
    BY <1>5, Zenon DEF RegisterFunctionInits
  <2> QED
    BY <2>1, <2>2, <2>3, <2>4, Zenon DEF TypeOK
<1>6. CASE DoRegister(g)
  <2>1. ControlInv'
    BY <1>6, Zenon DEF DoRegister, ControlInv, RegistrarStates
  <2>2. PICK p : announced' \in {announced, [announced EXCEPT ![p] = @ \cup {op[g].path}]}
    BY <1>6, Zenon DEF DoRegister
  <2>3. \A h \in Registrars : gpc'[h] \in {"locked", "init"} => gpc[h] \in {"locked", "init"}
    BY <1>6, Zenon DEF DoRegister, ControlInv
  <2>4. announced' \in [Plugins -> SUBSET Paths]
    BY <1>0, <1>6, <2>2 DEF DoRegister, TypeOK
  <2>5. UNCHANGED <<mapVars, inited, pools, writer>>
    BY <1>6, Zenon DEF DoRegister
  <2> QED
    BY <2>1, <2>3, <2>4, <2>5, Zenon DEF TypeOK
<1> QED
  BY <1>1, <1>2, <1>3, <1>4, <1>5, <1>6, Zenon DEF RegistrarStep

(* Requests leave services, registrations and plugins alone.               *)
LEMMA RequestFrame ==
    ASSUME NEW r \in Requests, RequestStep(r)
    PROVE  UNCHANGED <<NotServing, inited>>
<1>1. CASE Hook(r)
  BY <1>1, HookFrame, Zenon
<1>2. CASE Auth(r) \/ Handler(r) \/ Lookup(r) \/ Resolve(r) \/ LookupFunction(r) \/ ReadFunction(r)
  BY <1>2, Zenon DEF Auth, Handler, Lookup, Resolve, LookupFunction, ReadFunction, Keeps, Ends
<1>3. CASE TakeArgs(r) \/ TakeReply(r)
  BY <1>3, Zenon DEF TakeArgs, TakeReply, Get, Ends
<1>4. CASE DoPreCall(r) \/ Call(r) \/ PutArgs(r) \/ Encode(r) \/ PutReply(r)
  BY <1>4, Zenon DEF DoPreCall, Call, PutArgs, Encode, PutReply, Put, Ends
<1>5. CASE Respond(r) \/ Write(r)
  BY <1>5, Zenon DEF Respond, Write, Ends
<1> QED
  BY <1>1, <1>2, <1>3, <1>4, <1>5, Zenon DEF RequestStep, Hook

(* The end of a request keeps the types.                                   *)
LEMMA EndsTypes ==
    ASSUME TypeOK, ControlInv, NEW r \in Requests,
           NEW a \in {"none", "ok", "error", "closed", "panic"}, Ends(r, a)
    PROVE  /\ answer' \in [Requests -> {"none", "ok", "error", "closed", "panic"}]
           /\ argv' \in [Requests -> Objs \cup {Nil}] /\ replyv' \in [Requests -> Objs \cup {Nil}]
           /\ pools' \in [Types -> SUBSET Objs] /\ data' \in [Objs -> SUBSET Requests]
           /\ pc' \in [Requests -> RequestStates]
BY Zenon DEF TypeOK, ControlInv, Ends, To, RequestStates

(* Where a request goes next.                                              *)
LEMMA GoesTypes ==
    ASSUME ControlInv, NEW r \in Requests, NEW next \in RequestStates, To(r, next)
    PROVE  pc' \in [Requests -> RequestStates]
BY Zenon DEF ControlInv, To

(* Where a request that fails goes next.                                   *)
LEMMA FailsTypes ==
    ASSUME TypeOK, ControlInv, NEW r \in Requests, NEW next \in RequestStates, Fails(r, next)
    PROVE  pc' \in [Requests -> RequestStates] /\ err' \in [Requests -> BOOLEAN]
BY GoesTypes, Zenon DEF TypeOK, Fails

(* The path and the name a request asks for are known ones.                *)
LEMMA NameFact ==
    ASSUME NEW r \in Requests
    PROVE  NameOf[r] \in Names /\ PathOf[r] \in Paths
BY DispatchAssumption, Zenon

(* The two types of what it has found are known ones.                      *)
LEMMA SigFact ==
    ASSUME NEW x \in Sigs
    PROVE  /\ ArgType[x] \in Types /\ ReplyType[x] \in Types
           /\ TypesOf(x) = {ArgType[x], ReplyType[x]}
BY DispatchAssumption, Zenon DEF Types, TypesOf

(* A request that uses a pool has found a method or function.              *)
LEMMA UsingFact ==
    ASSUME ReadyInv, NEW r \in Requests, pc[r] \in Using
    PROVE  /\ mtype[r] \in Sigs
           /\ ArgType[mtype[r]] \in Types /\ ReplyType[mtype[r]] \in Types
BY SigFact, Zenon DEF ReadyInv

(* The objects of a request: taken from a pool or new (server.go:774-789), *)
(* or there is no pool.                                                    *)
ArgsTaken(r, o) ==
    /\ Get(ArgType[mtype[r]], o)
    /\ \/ Fails(r, "respond") /\ UNCHANGED <<data, argv>>
       \/ /\ To(r, "reply")
          /\ argv' = [argv EXCEPT ![r] = o]
          /\ data' = [data EXCEPT ![o] = Content(ArgType[mtype[r]], o) \cup {r}]
          /\ UNCHANGED err
    /\ UNCHANGED <<replyv, answer, service, mtype, payload>>

(* Taking the arguments: a panic without the pool, else an object of it    *)
(* (server.go:774-780, 859).                                               *)
LEMMA TakeArgsFrame ==
    ASSUME NEW r \in Requests, TakeArgs(r)
    PROVE  /\ pc[r] = "args"
           /\ \/ ArgType[mtype[r]] \notin inited /\ Ends(r, "panic")
                 /\ UNCHANGED <<err, service, mtype, payload>>
              \/ ArgType[mtype[r]] \in inited /\ \E o \in Objs : ArgsTaken(r, o)
BY Zenon DEF TakeArgs, ArgsTaken

ReplyTaken(r, o) ==
    /\ Get(ReplyType[mtype[r]], o)
    /\ To(r, "PreCall")
    /\ replyv' = [replyv EXCEPT ![r] = o]
    /\ data' = [data EXCEPT ![o] = Content(ReplyType[mtype[r]], o)]
    /\ UNCHANGED <<argv, answer, err, service, mtype, payload>>

(* Taking the reply: likewise (server.go:786-789, 862-866).                *)
LEMMA TakeReplyFrame ==
    ASSUME NEW r \in Requests, TakeReply(r)
    PROVE  /\ pc[r] = "reply"
           /\ \/ ReplyType[mtype[r]] \notin inited /\ Ends(r, "panic")
                 /\ UNCHANGED <<err, service, mtype, payload>>
              \/ ReplyType[mtype[r]] \in inited /\ \E o \in Objs : ReplyTaken(r, o)
BY Zenon DEF TakeReply, ReplyTaken

(* Before the call the reply alone may go back (server.go:791-796).        *)
LEMMA PreCallFrame ==
    ASSUME NEW r \in Requests, DoPreCall(r)
    PROVE  /\ pc[r] = "PreCall" /\ UNCHANGED <<service, mtype, payload>>
           /\ \/ UNCHANGED <<pc, err, answer, objVars>>
              \/ To(r, "call") /\ UNCHANGED <<err, answer, objVars>>
              \/ /\ Put(ReplyType[mtype[r]], replyv[r]) /\ AfterPreCallError(r)
                 /\ UNCHANGED answer
              \/ Ends(r, "panic") /\ UNCHANGED err
BY Zenon DEF DoPreCall

(* The variables of requests.                                              *)
ReqTypes ==
    /\ pools \in [Types -> SUBSET Objs]
    /\ data \in [Objs -> SUBSET Requests]
    /\ service \in [Requests -> Registrars \cup {Nil}] /\ mtype \in [Requests -> Sigs \cup {Nil}]
    /\ argv \in [Requests -> Objs \cup {Nil}] /\ replyv \in [Requests -> Objs \cup {Nil}]
    /\ err \in [Requests -> BOOLEAN]
    /\ payload \in [Requests -> SUBSET Requests]
    /\ answer \in [Requests -> {"none", "ok", "error", "closed", "panic"}]
    /\ pc \in [Requests -> RequestStates]

(* A step of a request keeps the types and where everybody stands.         *)
LEMMA RequestTypes ==
    ASSUME IInv, NEW r \in Requests, RequestStep(r)
    PROVE  TypeOK' /\ ControlInv'
<1> USE DEF IInv
<1> SUFFICES ReqTypes'
  BY RequestFrame, Zenon DEF ReqTypes, TypeOK, ControlInv
<1>0. ReqTypes
  BY Zenon DEF TypeOK, ControlInv, ReqTypes
<1>a. {"HeartbeatRequest", "PreHandleRequest", "PreWriteResponse", "resolve", "function", "read",
       "args", "reply", "encode", "respond"} \subseteq RequestStates
  BY Zenon DEF RequestStates, RequestHooks
<1>b. pc[r] \in {"args", "reply", "PreCall", "putArgs", "putReply"} =>
         mtype[r] \in Sigs /\ ArgType[mtype[r]] \in Types /\ ReplyType[mtype[r]] \in Types
  BY UsingFact, Zenon DEF Using
<1>1. CASE Hook(r)
  <2>1. CASE UNCHANGED <<pc, err, answer, argv, replyv>>
    BY <1>0, <1>1, <2>1, HookFrame, Zenon DEF ReqTypes
  <2>2. CASE (\E next : HookGoes(r, next) /\ To(r, next)) /\ UNCHANGED <<err, answer, argv, replyv>>
    <3>1. PICK next : HookGoes(r, next) /\ To(r, next)
      BY <2>2, Zenon
    <3>2. next \in RequestStates
      BY <3>1, Zenon DEF HookGoes, RequestStates, RequestHooks
    <3> QED
      BY <1>0, <1>1, <2>2, <3>1, <3>2, HookFrame, GoesTypes, Zenon DEF ReqTypes
  <2>3. CASE (\E next : HookFails(r, next) /\ Fails(r, next)) /\ UNCHANGED <<answer, argv, replyv>>
    <3>1. PICK next : HookFails(r, next) /\ Fails(r, next)
      BY <2>3, Zenon
    <3>2. next \in RequestStates
      BY <3>1, Zenon DEF HookFails, RequestStates, RequestHooks
    <3> QED
      BY <1>0, <1>1, <2>3, <3>1, <3>2, HookFrame, FailsTypes, Zenon DEF ReqTypes
  <2>4. CASE (\E a \in {"closed", "panic", answer[r]} : Ends(r, a)) /\ UNCHANGED err
    <3>1. PICK a \in {"closed", "panic", answer[r]} : Ends(r, a)
      BY <2>4, Zenon
    <3>2. a \in {"none", "ok", "error", "closed", "panic"}
      BY <1>0, Zenon DEF ReqTypes
    <3> QED
      BY <1>0, <1>1, <2>4, <3>1, <3>2, HookFrame, EndsTypes, Zenon DEF ReqTypes
  <2> QED
    BY <1>1, <2>1, <2>2, <2>3, <2>4, HookFrame, Zenon
<1>2. CASE Auth(r)
  <2>1. pc' \in [Requests -> RequestStates] /\ err' \in [Requests -> BOOLEAN]
    BY <1>0, <1>a, <1>2, GoesTypes, FailsTypes, Zenon DEF ReqTypes, Auth
  <2> QED
    BY <1>0, <1>2, <2>1, Zenon DEF ReqTypes, Auth, Keeps
<1>3. CASE Handler(r)
  <2>1. PICK a \in {"none", "ok", "error"} :
           Ends(r, a) /\ payload' = [payload EXCEPT ![r] = IF a = "ok" THEN {r} ELSE {}]
    BY <1>3, Zenon DEF Handler
  <2> QED
    <3>1. a \in {"none", "ok", "error", "closed", "panic"}
      OBVIOUS
    <3>2. payload' \in [Requests -> SUBSET Requests]
      BY <1>0, <2>1, SMT DEF ReqTypes
    <3>3. UNCHANGED <<err, service, mtype>>
      BY <1>3, Zenon DEF Handler
    <3>4. /\ answer' \in [Requests -> {"none", "ok", "error", "closed", "panic"}]
          /\ argv' \in [Requests -> Objs \cup {Nil}] /\ replyv' \in [Requests -> Objs \cup {Nil}]
          /\ pools' \in [Types -> SUBSET Objs] /\ data' \in [Objs -> SUBSET Requests]
          /\ pc' \in [Requests -> RequestStates]
      BY <2>1, <3>1, EndsTypes, Zenon
    <3> QED
      BY <1>0, <3>2, <3>3, <3>4, Zenon DEF ReqTypes
<1>4. CASE Lookup(r) \/ LookupFunction(r)
  <2>1. pc' \in [Requests -> RequestStates] /\ err' \in [Requests -> BOOLEAN]
    BY <1>0, <1>a, <1>4, GoesTypes, FailsTypes, Zenon DEF ReqTypes, Lookup, LookupFunction
  <2>2. service' \in [Requests -> Registrars \cup {Nil}]
    BY <1>0, <1>4, NameFact, Zenon DEF ReqTypes, TypeOK, Lookup, LookupFunction
  <2> QED
    BY <1>0, <1>4, <2>1, <2>2, Zenon DEF ReqTypes, Lookup, LookupFunction
<1>13. CASE Resolve(r) \/ ReadFunction(r)
  <2>0. pc[r] \in {"resolve", "read"} /\ UNCHANGED <<objVars, service, payload, answer>>
    BY <1>13, Zenon DEF Resolve, ReadFunction, Keeps
  <2>1. service[r] \in Registrars
    BY <1>0, <2>0, Zenon DEF ReqTypes, ServedInv
  <2>2. MethodOf(r) \in Sigs \cup {Nil} /\ FunctionOf(r) \in Sigs \cup {Nil}
    BY <2>1, NameFact, MapFact, Zenon DEF MethodOf, FunctionOf
  <2>3. \A x \in Sigs : Found(r, x) => ReqTypes'
    BY <1>0, <1>a, <2>0, GoesTypes, Zenon DEF ReqTypes, Found
  <2>4. Fails(r, "respond") /\ UNCHANGED mtype => ReqTypes'
    BY <1>0, <1>a, <2>0, FailsTypes, Zenon DEF ReqTypes
  <2>5. To(r, "function") /\ UNCHANGED <<err, mtype>> => ReqTypes'
    BY <1>0, <1>a, <2>0, GoesTypes, Zenon DEF ReqTypes
  <2> QED
    BY <1>13, <2>2, <2>3, <2>4, <2>5, Zenon DEF Resolve, ReadFunction
<1>5. CASE TakeArgs(r)
  <2>1. CASE Ends(r, "panic") /\ UNCHANGED <<err, service, mtype, payload>>
    BY <1>0, <2>1, EndsTypes, Zenon DEF ReqTypes
  <2>2. ASSUME NEW o \in Objs, ArgsTaken(r, o) PROVE ReqTypes'
    <3>1. pools' \in [Types -> SUBSET Objs] /\ Content(ArgType[mtype[r]], o) \in SUBSET Requests
      BY <1>0, <1>b, <1>5, <2>2, TakeArgsFrame, Zenon DEF ReqTypes, ArgsTaken, Get, Content
    <3> QED
      <4>1. pc' \in [Requests -> RequestStates] /\ err' \in [Requests -> BOOLEAN]
        BY <1>0, <1>a, <2>2, GoesTypes, FailsTypes, Zenon DEF ReqTypes, ArgsTaken
      <4>2. argv' \in [Requests -> Objs \cup {Nil}] /\ data' \in [Objs -> SUBSET Requests]
        BY <1>0, <2>2, <3>1 DEF ReqTypes, ArgsTaken
      <4> QED
        BY <1>0, <2>2, <3>1, <4>1, <4>2, Zenon DEF ReqTypes, ArgsTaken
  <2> QED
    BY <1>5, <2>1, <2>2, TakeArgsFrame, Zenon
<1>6. CASE TakeReply(r)
  <2>1. CASE Ends(r, "panic") /\ UNCHANGED <<err, service, mtype, payload>>
    BY <1>0, <2>1, EndsTypes, Zenon DEF ReqTypes
  <2>2. ASSUME NEW o \in Objs, ReplyTaken(r, o) PROVE ReqTypes'
    <3>1. pools' \in [Types -> SUBSET Objs] /\ Content(ReplyType[mtype[r]], o) \in SUBSET Requests
      BY <1>0, <1>b, <1>6, <2>2, TakeReplyFrame, Zenon DEF ReqTypes, ReplyTaken, Get, Content
    <3> QED
      BY <1>0, <2>2, <3>1, Zenon DEF ReqTypes, ReplyTaken, To, RequestStates, RequestHooks
  <2> QED
    BY <1>6, <2>1, <2>2, TakeReplyFrame, Zenon
<1>7. CASE DoPreCall(r)
  <2>1. CASE UNCHANGED <<pc, err, answer, objVars>>
    BY <1>0, <1>7, <2>1, PreCallFrame, Zenon DEF ReqTypes
  <2>2. CASE To(r, "call") /\ UNCHANGED <<err, answer, objVars>>
    BY <1>0, <1>7, <2>2, PreCallFrame, Zenon DEF ReqTypes, To, RequestStates
  <2>3. CASE Put(ReplyType[mtype[r]], replyv[r]) /\ AfterPreCallError(r) /\ UNCHANGED answer
    <3>1. pools' \in [Types -> SUBSET Objs] /\ data' \in [Objs -> SUBSET Requests]
      BY <1>0, <1>b, <1>7, <2>3, PreCallFrame, PutFrame, Zenon DEF ReqTypes
    <3> QED
      BY <1>0, <1>7, <2>3, <3>1, PreCallFrame, Zenon
         DEF ReqTypes, AfterPreCallError, Fails, To, RequestStates
  <2>4. CASE Ends(r, "panic") /\ UNCHANGED err
    BY <1>0, <1>7, <2>4, PreCallFrame, EndsTypes, Zenon DEF ReqTypes
  <2> QED
    BY <1>7, <2>1, <2>2, <2>3, <2>4, PreCallFrame, Zenon
<1>8. CASE Call(r)
  <2>1. argv[r] \in Objs /\ replyv[r] \in Objs
    BY <1>0, <1>8, Zenon DEF Call, DataInv, ReqTypes
  <2>2. data' \in [Objs -> SUBSET Requests]
    BY <1>0, <1>8, <2>1, Zenon DEF Call, ReqTypes
  <2>3. err' \in [Requests -> BOOLEAN] /\ pc' \in [Requests -> RequestStates]
    BY <1>0, <1>8, Zenon DEF Call, To, ReqTypes, RequestStates, RequestHooks
  <2> QED
    BY <1>0, <1>8, <2>2, <2>3, Zenon DEF Call, ReqTypes
<1>9. CASE Encode(r)
  <2>2. replyv[r] \in Objs
    BY <1>0, <1>9, Zenon DEF Encode, DataInv, ReqTypes
  <2>3. err' \in [Requests -> BOOLEAN] /\ payload' \in [Requests -> SUBSET Requests]
    BY <1>0, <1>9, <2>2, Zenon DEF Encode, ReqTypes
  <2>4. pc' \in [Requests -> RequestStates]
    BY <1>0, <1>9, Zenon DEF Encode, To, ReqTypes, RequestStates
  <2> QED
    BY <1>0, <1>9, <2>3, <2>4, Zenon DEF Encode, ReqTypes
<1>14. CASE PutArgs(r)
  <2>1. pools' \in [Types -> SUBSET Objs] /\ data' \in [Objs -> SUBSET Requests]
    BY <1>0, <1>b, <1>14, PutFrame, Zenon DEF PutArgs, ReqTypes
  <2>2. pc' \in [Requests -> RequestStates] /\ argv' \in [Requests -> Objs \cup {Nil}]
    BY <1>0, <1>14, Zenon DEF PutArgs, To, ReqTypes, RequestStates
  <2> QED
    BY <1>0, <1>14, <2>1, <2>2, Zenon DEF PutArgs, ReqTypes
<1>10. CASE PutReply(r)
  <2>1. pools' \in [Types -> SUBSET Objs] /\ data' \in [Objs -> SUBSET Requests]
    BY <1>0, <1>b, <1>10, PutFrame, Zenon DEF PutReply, ReqTypes
  <2> QED
    BY <1>0, <1>10, <2>1, Zenon DEF PutReply, To, ReqTypes, RequestStates
<1>11. CASE Respond(r)
  <2>1. CASE Ends(r, "none")
    BY <1>0, <1>11, <2>1, EndsTypes, Zenon DEF Respond, ReqTypes
  <2>2. CASE ~Ends(r, "none")
    BY <1>0, <1>11, <2>2, Zenon DEF Respond, To, ReqTypes, RequestStates, RequestHooks
  <2> QED
    BY <2>1, <2>2, Zenon
<1>12. CASE Write(r)
  <2>1. CASE Ends(r, "ok")
    BY <1>0, <1>12, <2>1, EndsTypes, Zenon DEF Write, ReqTypes
  <2>2. CASE ~Ends(r, "ok")
    BY <1>0, <1>12, <2>2, Zenon DEF Write, To, ReqTypes, RequestStates, RequestHooks
  <2> QED
    BY <2>1, <2>2, Zenon
<1> QED
  BY <1>1, <1>2, <1>3, <1>4, <1>5, <1>6, <1>7, <1>8, <1>9, <1>10, <1>11, <1>12, <1>13, <1>14,
     Zenon
     DEF RequestStep, Hook

-----------------------------------------------------------------------------
(* Services, their pools and their announcements.                          *)

(* No path loses its service and no type its pools (service.go:120-239).   *)
LEMMA RegistrarKeeps ==
    ASSUME IInv, NEW g \in Registrars, RegistrarWaits(g) \/ RegistrarStep(g)
    PROVE  /\ \A k \in Paths : serviceMap[k] # Nil => serviceMap'[k] # Nil
           /\ inited \subseteq inited'
<1>f. RegistersFunction(g) =>
         /\ gpc[g] = "locked" /\ UNCHANGED inited
         /\ \/ UNCHANGED serviceMap
            \/ \E s \in Registrars : serviceMap' = [serviceMap EXCEPT ![op[g].path] = s]
  BY FunctionFrame, Zenon DEF Installs
<1> USE NilFact DEF IInv, TypeOK
<1>0. gpc[g] \notin {"off", "idle"} => op[g].path \in Paths /\ op[g].name \in Names /\ op[g].sig \in Sigs
  BY Zenon DEF ControlInv, Registrations
<1>1. CASE RegistrarWaits(g) \/ RegistrarLocks(g) \/ DoRegister(g)
  BY <1>1, Zenon DEF RegistrarWaits, RegistrarLocks, DoRegister
<1>2. CASE Registers(g)
  BY <1>0, <1>2, ZenonT(60) DEF Registers, register, PoolsInit
<1>3. CASE RegistersFunction(g)
  <2>1. UNCHANGED inited /\ gpc[g] = "locked"
    BY <1>f, <1>3, Zenon
  <2>2. CASE UNCHANGED serviceMap
    BY <2>1, <2>2, Zenon
  <2>3. ASSUME NEW s \in Registrars, serviceMap' = [serviceMap EXCEPT ![op[g].path] = s]
        PROVE  \A k \in Paths : serviceMap[k] # Nil => serviceMap'[k] # Nil
    BY <1>0, <2>1, <2>3, Zenon
  <2> QED
    BY <1>f, <1>3, <2>1, <2>2, <2>3, Zenon
<1>4. CASE RegisterFunctionInits(g)
  BY <1>0, <1>4, Zenon DEF RegisterFunctionInits, PoolsInit
<1> QED
  BY <1>1, <1>2, <1>3, <1>4, Zenon DEF RegistrarStep

(* What has been installed stays so, and the call that holds the lock      *)
(* between its function and its pools installs them (service.go:163-239).  *)
LEMMA RegistrarStays ==
    ASSUME IInv, NEW g \in Registrars, RegistrarWaits(g) \/ RegistrarStep(g)
    PROVE  /\ \A h \in Registrars : gpc[h] \in {"init", "announce", "done"} =>
                 gpc'[h] \in {"init", "announce", "done"} /\ op'[h] = op[h]
           /\ \A h \in Registrars : gpc[h] = "init" =>
                 op'[h] = op[h] /\ (gpc'[h] = "init" \/ TypesOf(op[h].sig) \subseteq inited')
           /\ replaced \subseteq replaced'
<1> USE DEF IInv
<1>0. gpc \in [Registrars -> RegistrarStates] /\ op \in [Registrars -> Registrations \cup {Nil}]
  BY Zenon DEF ControlInv
<1>1. CASE RegistrarWaits(g)
  <2>1. /\ gpc[g] = "idle" /\ UNCHANGED replaced
        /\ gpc' = [gpc EXCEPT ![g] = "wait"] /\ \E x : op' = [op EXCEPT ![g] = x]
    BY <1>1, Zenon DEF RegistrarWaits
  <2> QED
    BY <1>0, <2>1, Zenon
<1>2. CASE RegistrarLocks(g)
  <2>1. gpc[g] = "wait" /\ UNCHANGED <<op, replaced>> /\ gpc' = [gpc EXCEPT ![g] = "locked"]
    BY <1>2, Zenon DEF RegistrarLocks
  <2> QED
    BY <1>0, <2>1, Zenon
<1>3. CASE Registers(g)
  <2>1. /\ gpc[g] = "locked" /\ UNCHANGED <<op, replaced>>
        /\ \E x \in {"announce", "done"} : gpc' = [gpc EXCEPT ![g] = x]
    BY <1>3, Zenon DEF Registers, register
  <2> QED
    BY <1>0, <2>1, Zenon
<1>4. CASE RegistersFunction(g)
  <2>1. /\ gpc[g] = "locked" /\ UNCHANGED op /\ replaced' \in {replaced, replaced \cup {g}}
        /\ \E x \in {"init", "done"} : gpc' = [gpc EXCEPT ![g] = x]
    BY <1>4, FunctionFrame, Zenon DEF Installs
  <2> QED
    BY <1>0, <2>1, Zenon
<1>5. CASE RegisterFunctionInits(g)
  <2>1. /\ UNCHANGED <<op, replaced>> /\ gpc[g] = "init"
        /\ gpc' = [gpc EXCEPT ![g] = "announce"] /\ TypesOf(op[g].sig) \subseteq inited'
    BY <1>5, Zenon DEF RegisterFunctionInits, PoolsInit
  <2> QED
    BY <1>0, <2>1, Zenon
<1>6. CASE DoRegister(g)
  <2>1. /\ UNCHANGED <<op, replaced>> /\ gpc[g] = "announce"
        /\ gpc' \in {gpc, [gpc EXCEPT ![g] = "done"]}
    BY <1>6, Zenon DEF DoRegister
  <2> QED
    BY <1>0, <2>1, Zenon
<1> QED
  BY <1>1, <1>2, <1>3, <1>4, <1>5, <1>6, Zenon DEF RegistrarStep

(* A function that changes is one the step has just put into a service of  *)
(* functions that it made or found (service.go:163-232).                   *)
Writes(g, h, n) ==
    /\ gpc'[g] = "init" /\ op'[g] = op[g]
    /\ function'[h][n] = op[g].sig /\ op[g].sig \in Sigs
    /\ ~NilMap(h) /\ op'[h] = op[h]
    /\ function[h][n] # Nil => g \in replaced'
    /\ h = g \/ \E k \in Paths : serviceMap[k] = h

LEMMA FunctionsChange ==
    ASSUME IInv, NEW g \in Registrars, RegistrarWaits(g) \/ RegistrarStep(g),
           NEW h \in Registrars, NEW n \in Names
    PROVE  function'[h][n] = function[h][n] \/ Writes(g, h, n)
<1> SUFFICES ASSUME function'[h][n] # function[h][n] PROVE Writes(g, h, n)
  OBVIOUS
<1> USE DEF IInv
<1>1. CASE UNCHANGED function
  BY <1>1, Zenon
<1>2. CASE RegistersFunction(g)
  <2>1. op[g].path \in Paths /\ op[g].name \in Names /\ op[g].sig \in Sigs
    BY <1>2, FunctionFrame, Zenon DEF ControlInv, Registrations
  <2>2. PICK s \in Registrars : Installs(g, s) /\ gpc' = [gpc EXCEPT ![g] = "init"]
    BY <1>1, <1>2, FunctionFrame, Zenon
  <2>3. /\ function' = [function EXCEPT ![s][op[g].name] = op[g].sig]
        /\ function[s][op[g].name] # Nil => g \in replaced'
        /\ ~NilMap(s) /\ (s = g \/ serviceMap[op[g].path] = s)
    BY <2>2, Zenon DEF Installs
  <2>4. function \in [Registrars -> [Names -> Sigs \cup {Nil}]]
    BY Zenon DEF TypeOK
  <2>5. h = s /\ n = op[g].name /\ function'[h][n] = op[g].sig
    BY <2>1, <2>3, <2>4
  <2>6. gpc'[g] = "init" /\ UNCHANGED op
    BY <1>2, <2>2, FunctionFrame, Zenon DEF ControlInv
  <2> QED
    BY <2>1, <2>3, <2>5, <2>6, Zenon DEF Writes
<1>3. CASE RegistrarWaits(g) \/ RegistrarLocks(g) \/ DoRegister(g) \/ RegisterFunctionInits(g)
  BY <1>1, <1>3, Zenon DEF RegistrarWaits, RegistrarLocks, DoRegister, RegisterFunctionInits
<1>4. CASE Registers(g)
  BY <1>1, <1>4, Zenon DEF Registers, register
<1> QED
  BY <1>2, <1>3, <1>4, Zenon DEF RegistrarStep

(* Whatever is announced is in the map, and stays there                    *)
(* (service.go:120-239).                                                   *)
LEMMA RegistrarServed ==
    ASSUME IInv, NEW g \in Registrars, RegistrarWaits(g) \/ RegistrarStep(g)
    PROVE  ServedInv' /\ AnnouncedServed'
<1> USE NilFact DEF IInv
<1>0. gpc[g] \notin {"off", "idle"} => op[g].path \in Paths /\ op[g].name \in Names
  BY Zenon DEF ControlInv, Registrations
<1>2. \A r \in Requests :
         /\ pc'[r] \in {"resolve", "function"} => serviceMap'[PathOf[r]] # Nil
         /\ pc'[r] \in {"resolve", "function", "read"} => service'[r] # Nil
  BY RegistrarKeeps, RegistrarFrame, DispatchAssumption, Zenon DEF ServedInv
<1>3. ASSUME UNCHANGED announced PROVE AnnouncedServed'
  BY <1>3, RegistrarKeeps, Zenon DEF AnnouncedServed, TypeOK
<1>4. CASE RegistrarWaits(g)
  <2>1. /\ UNCHANGED <<mapVars, inited, announced>>
        /\ gpc' = [gpc EXCEPT ![g] = "wait"] /\ \E x : op' = [op EXCEPT ![g] = x]
        /\ gpc[g] = "idle"
    BY <1>4, Zenon DEF RegistrarWaits
  <2>2. \A h \in Registrars : gpc'[h] \in {"init", "announce"}
                                  => h # g /\ gpc'[h] = gpc[h] /\ op'[h] = op[h]
    BY <2>1, Zenon DEF ControlInv
  <2>4. ServedInv'
    BY <1>2, <2>1, <2>2, Zenon DEF ServedInv
  <2> QED
    BY <1>3, <2>1, <2>4, Zenon
<1>5. CASE RegistrarLocks(g)
  <2>1. /\ UNCHANGED <<mapVars, inited, announced, op>>
        /\ gpc' = [gpc EXCEPT ![g] = "locked"] /\ gpc[g] = "wait"
    BY <1>5, Zenon DEF RegistrarLocks
  <2>2. ServedInv'
    BY <1>2, <2>1, Zenon DEF ServedInv, ControlInv
  <2> QED
    BY <1>3, <2>1, <2>2, Zenon
<1>6. CASE Registers(g)
  <2>1. UNCHANGED <<announced, op>> /\ gpc[g] = "locked"
    BY <1>6, Zenon DEF Registers, register
  <2>2. \A h \in Registrars : gpc'[h] \in {"init", "announce"} =>
           serviceMap'[op[h].path] # Nil
    <3>1. \A h \in Registrars : h # g => gpc'[h] = gpc[h]
      BY <1>6, Zenon DEF Registers, register, ControlInv
    <3>2. \A h \in Registrars : gpc[h] \in {"init", "announce"} => op[h].path \in Paths
      BY Zenon DEF ControlInv, Registrations
    <3>3. gpc'[g] \in {"init", "announce"} => serviceMap'[op[g].path] # Nil
      BY <1>0, <1>6, ZenonT(60) DEF Registers, register, ControlInv, TypeOK
    <3> QED
      BY <3>1, <3>2, <3>3, RegistrarKeeps, Zenon DEF ServedInv
  <2>5. ServedInv'
    BY <1>2, <2>1, <2>2, RegistrarKeeps, Zenon DEF ServedInv
  <2> QED
    BY <1>3, <2>1, <2>5, Zenon
<1>7. CASE RegistersFunction(g)
  <2>1. UNCHANGED <<announced, op>> /\ gpc[g] = "locked"
    BY <1>7, FunctionFrame, Zenon
  <2>2. \A h \in Registrars : h # g => gpc'[h] = gpc[h]
    BY <1>7, FunctionFrame DEF ControlInv
  <2>4. \A h \in Registrars : gpc[h] \in {"init", "announce"} => op[h].path \in Paths
    BY Zenon DEF ControlInv, Registrations
  <2>5. gpc'[g] \in {"init", "announce"} => serviceMap'[op[g].path] # Nil
    <3>1. CASE gpc' = [gpc EXCEPT ![g] = "done"]
      BY <3>1, Zenon DEF ControlInv
    <3>2. CASE \E s \in Registrars : Installs(g, s)
      <4>1. PICK s \in Registrars : serviceMap' = [serviceMap EXCEPT ![op[g].path] = s]
        BY <3>2, Zenon DEF Installs
      <4>2. op[g].path \in Paths /\ serviceMap \in [Paths -> Registrars \cup {Nil}]
        BY <1>0, <2>1, Zenon DEF TypeOK
      <4> QED
        BY <4>1, <4>2, Zenon
    <3> QED
      BY <1>7, <3>1, <3>2, FunctionFrame, Zenon
  <2>6. \A h \in Registrars : gpc'[h] \in {"init", "announce"} => serviceMap'[op[h].path] # Nil
    BY <2>2, <2>4, <2>5, RegistrarKeeps, Zenon DEF ServedInv
  <2>7. ServedInv'
    BY <1>2, <2>1, <2>6, Zenon DEF ServedInv
  <2> QED
    BY <1>3, <2>1, <2>7, Zenon
<1>8. CASE RegisterFunctionInits(g)
  <2>1. /\ UNCHANGED <<announced, op, mapVars>> /\ gpc[g] = "init"
        /\ gpc' = [gpc EXCEPT ![g] = "announce"]
    BY <1>8, Zenon DEF RegisterFunctionInits
  <2>2. ServedInv'
    BY <1>2, <2>1, Zenon DEF ServedInv, ControlInv
  <2> QED
    BY <1>3, <2>1, <2>2, Zenon
<1>9. CASE DoRegister(g)
  <2>1. UNCHANGED <<op, mapVars>> /\ gpc[g] = "announce"
    BY <1>9, Zenon DEF DoRegister
  <2>2. \A h \in Registrars : gpc'[h] = gpc[h] \/ (gpc'[h] = "done" /\ gpc[h] = "announce")
    <3>1. gpc' \in {gpc, [gpc EXCEPT ![g] = "done"]}
      BY <1>9, Zenon DEF DoRegister
    <3> QED
      BY <2>1, <3>1, Zenon DEF ControlInv
  <2>3. PICK p : announced' \in {announced, [announced EXCEPT ![p] = @ \cup {op[g].path}]}
    BY <1>9, Zenon DEF DoRegister
  <2>4. AnnouncedServed'
    <3>1. serviceMap'[op[g].path] # Nil
      BY <2>1, Zenon DEF ServedInv
    <3>2. \A q \in Plugins : \A k \in announced'[q] : k \in announced[q] \/ k = op[g].path
      BY <2>3 DEF TypeOK
    <3> QED
      BY <2>1, <3>1, <3>2, Zenon DEF AnnouncedServed
  <2>5. ServedInv'
    BY <1>2, <2>1, <2>2, Zenon DEF ServedInv
  <2> QED
    BY <2>4, <2>5, Zenon
<1> QED
  BY <1>4, <1>5, <1>6, <1>7, <1>8, <1>9, Zenon DEF RegistrarStep

(* A service changes only where a service of methods takes its place       *)
(* (service.go:120-160, 163-232).                                          *)
LEMMA ServicesChange ==
    ASSUME IInv, NEW g \in Registrars, RegistrarWaits(g) \/ RegistrarStep(g),
           NEW k \in Paths, serviceMap'[k] # serviceMap[k]
    PROVE  /\ serviceMap'[k] = g /\ gpc'[g] \in {"init", "announce"} /\ op'[g] = op[g]
           /\ serviceMap[k] = Nil \/ NilMap(g)
<1> USE DEF IInv
<1>1. CASE UNCHANGED serviceMap
  BY <1>1, Zenon
<1>2. CASE Registers(g)
  <2>1. serviceMap' = [serviceMap EXCEPT ![op[g].path] = g] /\ gpc' = [gpc EXCEPT ![g] = "announce"]
        /\ UNCHANGED op /\ NilMap(g)
    BY <1>1, <1>2, Zenon DEF Registers, register, NilMap
  <2> QED
    BY <2>1, Zenon DEF TypeOK, ControlInv
<1>3. CASE RegistersFunction(g)
  <2>1. PICK s \in Registrars : Installs(g, s) /\ gpc' = [gpc EXCEPT ![g] = "init"] /\ UNCHANGED op
    BY <1>1, <1>3, FunctionFrame, Zenon
  <2> QED
    BY <2>1, Zenon DEF Installs, TypeOK, ControlInv
<1>4. CASE RegistrarWaits(g) \/ RegistrarLocks(g) \/ DoRegister(g) \/ RegisterFunctionInits(g)
  BY <1>1, <1>4, Zenon DEF RegistrarWaits, RegistrarLocks, DoRegister, RegisterFunctionInits
<1> QED
  BY <1>2, <1>3, <1>4, Zenon DEF RegistrarStep

(* Services come from calls that are past the lock, and keep their kind.   *)
LEMMA RegistrarServices ==
    ASSUME IInv, NEW g \in Registrars, RegistrarWaits(g) \/ RegistrarStep(g)
    PROVE  ServiceInv'
<1>c. \A h \in Registrars : \A n \in Names : function'[h][n] = function[h][n] \/ Writes(g, h, n)
  BY FunctionsChange, Zenon
<1> USE NilFact, NameFact DEF IInv
<1>0. /\ \A k \in Paths : serviceMap[k] \in Registrars \cup {Nil}
      /\ \A r \in Requests : service[r] \in Registrars \cup {Nil}
  BY Zenon DEF TypeOK
<1>1. \A s \in Registrars \cup {Nil} : Installed(s) => Installed(s)'
  BY RegistrarStays, Zenon DEF Installed
<1>2. ASSUME NEW k \in Paths PROVE Installed(serviceMap[k])'
  <2>1. CASE serviceMap'[k] = serviceMap[k]
    BY <1>0, <1>1, <2>1, Zenon DEF ServiceInv, Installed
  <2>2. CASE serviceMap'[k] # serviceMap[k]
    BY <2>2, ServicesChange, Zenon DEF Installed
  <2> QED
    BY <2>1, <2>2, Zenon
<1>3. ASSUME NEW r \in Requests PROVE Installed(service[r])'
  BY <1>0, <1>1, RegistrarFrame, Zenon DEF ServiceInv, Installed
<1>4. ASSUME NEW h \in Registrars, NEW n \in Names, function'[h][n] # Nil
      PROVE  Installed(h)' /\ ~NilMap(h)'
  <2>1. CASE function'[h][n] = function[h][n]
    BY <1>4, <2>1, RegistrarStays, Zenon DEF ServiceInv, Installed, NilMap
  <2>2. CASE function'[h][n] # function[h][n]
    <3>1. ~NilMap(h)'
      BY <1>c, <2>2, Zenon DEF Writes, NilMap
    <3>2. CASE h = g
      BY <1>c, <2>2, <3>1, <3>2, Zenon DEF Writes, Installed
    <3>3. ASSUME NEW k \in Paths, serviceMap[k] = h PROVE Installed(h)'
      BY <1>1, <3>3, Zenon DEF ServiceInv
    <3>4. h = g \/ \E k \in Paths : serviceMap[k] = h
      BY <1>c, <2>2, Zenon DEF Writes
    <3> QED
      BY <3>1, <3>2, <3>3, <3>4, Zenon
  <2> QED
    BY <2>1, <2>2, Zenon
<1>5. ASSUME NEW r \in Requests, pc'[r] \in {"resolve", "function"}
      PROVE  serviceMap'[PathOf[r]] = service'[r] \/ NilMap(serviceMap[PathOf[r]])'
  <2>0. /\ pc[r] \in {"resolve", "function"} /\ UNCHANGED service
        /\ serviceMap[PathOf[r]] \in Registrars
    BY <1>0, <1>5, RegistrarFrame, Zenon DEF ServedInv
  <2>1. CASE serviceMap'[PathOf[r]] = serviceMap[PathOf[r]]
    <3>1. op'[serviceMap[PathOf[r]]] = op[serviceMap[PathOf[r]]]
      BY <2>0, RegistrarStays, Zenon DEF ServiceInv, Installed
    <3> QED
      BY <2>0, <2>1, <3>1, Zenon DEF ServiceInv, NilMap
  <2>2. CASE serviceMap'[PathOf[r]] # serviceMap[PathOf[r]]
    <3> HIDE DEF IInv
    <3>1. /\ serviceMap'[PathOf[r]] = g /\ op'[g] = op[g]
          /\ serviceMap[PathOf[r]] = Nil \/ NilMap(g)
      BY <2>2, ServicesChange, Zenon
    <3> QED
      BY <2>0, <3>1, Zenon DEF NilMap
  <2> QED
    BY <2>1, <2>2, Zenon
<1> QED
  BY <1>2, <1>3, <1>4, <1>5, Zenon DEF ServiceInv

(* A function that replaces another gets its pools (service.go:230-236).   *)
LEMMA ReplacingStays ==
    ASSUME IInv, NEW g \in Registrars, RegistrarWaits(g) \/ RegistrarStep(g), NEW x, Replacing(x)
    PROVE  Replacing(x)' \/ TypesOf(x) \subseteq inited'
<1>1. PICK h \in replaced : gpc[h] = "init" /\ op[h].sig = x
  BY Zenon DEF Replacing
<1>2. h \in Registrars
  BY <1>1, Zenon DEF IInv, TypeOK
<1> QED
  BY <1>1, <1>2, RegistrarStays, Zenon DEF Replacing

(* Registration keeps what has been looked up usable: whatever is in a map *)
(* has its pools, or gets them before the lock is released                 *)
(* (service.go:120-239).                                                   *)
LEMMA RegistrarReady ==
    ASSUME IInv, NEW g \in Registrars, RegistrarWaits(g) \/ RegistrarStep(g)
    PROVE  ReadyInv' /\ PoolReady'
<1>c. \A h \in Registrars : \A n \in Names : function'[h][n] = function[h][n] \/ Writes(g, h, n)
  BY FunctionsChange, Zenon
<1> USE NilFact, NameFact DEF IInv
<1>0. UNCHANGED <<pc, service, mtype>> /\ inited \subseteq inited'
  BY RegistrarFrame, RegistrarKeeps, Zenon
<1>1. PoolReady'
  <2>1. ASSUME NEW r \in Requests, pc'[r] = "args"
        PROVE  ArgType[mtype'[r]] \in inited' \/ Replacing(mtype[r])'
    <3>1. ArgType[mtype[r]] \in inited \/ Replacing(mtype[r])
      BY <1>0, <2>1, Zenon DEF PoolReady
    <3> QED
      BY <1>0, <3>1, ReplacingStays, Zenon DEF TypesOf, Replacing
  <2>2. ASSUME NEW r \in Requests, pc'[r] \in {"args", "reply"}
        PROVE  ReplyType[mtype'[r]] \in inited' \/ Replacing(mtype[r])'
    <3>1. ReplyType[mtype[r]] \in inited \/ Replacing(mtype[r])
      BY <1>0, <2>2, Zenon DEF PoolReady
    <3> QED
      BY <1>0, <3>1, ReplacingStays, Zenon DEF TypesOf, Replacing
  <2> QED
    BY <2>1, <2>2, Zenon DEF PoolReady
<1>2. ASSUME NEW h \in Registrars, NEW n \in Names, method'[h][n] # Nil
      PROVE  TypesOf(method'[h][n]) \subseteq inited'
  <2>1. CASE UNCHANGED method
    BY <1>0, <1>2, <2>1, Zenon DEF ReadyInv
  <2>2. CASE Registers(g) /\ op[g].suitable
    <3>1. /\ method' = [method EXCEPT ![g][op[g].name] = op[g].sig]
          /\ TypesOf(op[g].sig) \subseteq inited'
      BY <2>2, Zenon DEF Registers, register, PoolsInit
    <3>2. method \in [Registrars -> [Names -> Sigs \cup {Nil}]]
      BY Zenon DEF TypeOK
    <3>3. method'[h][n] \in {method[h][n], op[g].sig}
      BY <3>1, <3>2
    <3> QED
      BY <1>0, <1>2, <3>1, <3>3, Zenon DEF ReadyInv
  <2>3. CASE Registers(g) /\ ~op[g].suitable
    BY <2>1, <2>3, Zenon DEF Registers, register
  <2>4. CASE RegistersFunction(g)
    BY <2>1, <2>4, FunctionFrame, Zenon
  <2>5. CASE RegistrarWaits(g) \/ RegistrarLocks(g) \/ DoRegister(g) \/ RegisterFunctionInits(g)
    BY <2>1, <2>5, Zenon DEF RegistrarWaits, RegistrarLocks, DoRegister, RegisterFunctionInits
  <2> QED
    BY <2>2, <2>3, <2>4, <2>5, Zenon DEF RegistrarStep
<1>3. ASSUME NEW h \in Registrars, NEW n \in Names, function'[h][n] # Nil
      PROVE  \/ TypesOf(function'[h][n]) \subseteq inited'
             \/ \E j \in Registrars : gpc'[j] = "init" /\ op'[j].sig = function'[h][n]
  <2>1. CASE function'[h][n] = function[h][n]
    <3>1. \/ TypesOf(function[h][n]) \subseteq inited
          \/ \E j \in Registrars : gpc[j] = "init" /\ op[j].sig = function[h][n]
      BY <1>3, <2>1, Zenon DEF ReadyInv
    <3>2. CASE TypesOf(function[h][n]) \subseteq inited
      BY <1>0, <2>1, <3>2, Zenon
    <3>3. ASSUME NEW j \in Registrars, gpc[j] = "init", op[j].sig = function[h][n]
          PROVE  \/ TypesOf(function[h][n]) \subseteq inited'
                 \/ gpc'[j] = "init" /\ op'[j].sig = function[h][n]
      <4> HIDE DEF IInv
      <4>1. op'[j] = op[j] /\ (gpc'[j] = "init" \/ TypesOf(op[j].sig) \subseteq inited')
        BY <3>3, RegistrarStays, Zenon
      <4> QED
        BY <3>3, <4>1, Zenon
    <3> QED
      BY <2>1, <3>1, <3>2, <3>3, Zenon
  <2>2. CASE function'[h][n] # function[h][n]
    <3>1. gpc'[g] = "init" /\ op'[g] = op[g] /\ function'[h][n] = op[g].sig
      BY <1>c, <2>2, Zenon DEF Writes
    <3> QED
      BY <3>1, Zenon
  <2> QED
    BY <2>1, <2>2, Zenon
<1>4. ASSUME NEW r \in Requests, pc'[r] \in {"function", "read"} PROVE service[r] \in Registrars
  BY <1>0, <1>4, Zenon DEF ServedInv, TypeOK
<1>5. ASSUME NEW r \in Requests, pc'[r] = "function" PROVE FunctionOf(r)' # Nil
  <2>1. FunctionOf(r) # Nil
    BY <1>0, <1>5, Zenon DEF ReadyInv
  <2> QED
    BY <1>c, <1>0, <1>4, <1>5, <2>1, Zenon DEF Writes, FunctionOf
<1>6. ASSUME NEW r \in Requests, pc'[r] = "read"
      PROVE  \/ NilMap(service[r])'
             \/ FunctionOf(r)' # Nil /\ TypesOf(FunctionOf(r)') \subseteq inited'
             \/ FunctionOf(r)' # Nil /\ Replacing(FunctionOf(r))'
  <2>0. service[r] \in Registrars /\ UNCHANGED service
    BY <1>0, <1>4, <1>6, Zenon
  <2>1. op'[service[r]] = op[service[r]]
    BY <2>0, RegistrarStays, Zenon DEF ServiceInv, Installed
  <2>2. CASE NilMap(service[r])
    BY <2>0, <2>1, <2>2, Zenon DEF NilMap
  <2>3. CASE ~NilMap(service[r])
    <3>1. FunctionOf(r) # Nil /\ (TypesOf(FunctionOf(r)) \subseteq inited \/ Replacing(FunctionOf(r)))
      BY <1>0, <1>6, <2>3, Zenon DEF ReadyInv
    <3>2. CASE FunctionOf(r)' = FunctionOf(r)
      <4>1. TypesOf(FunctionOf(r)) \subseteq inited' \/ Replacing(FunctionOf(r))'
        <5>1. CASE TypesOf(FunctionOf(r)) \subseteq inited
          BY <1>0, <5>1, Zenon
        <5>2. CASE Replacing(FunctionOf(r))
          <6>1. PICK j \in replaced : gpc[j] = "init" /\ op[j].sig = FunctionOf(r)
            BY <5>2, Zenon DEF Replacing
          <6>2. j \in Registrars
            BY <6>1, Zenon DEF TypeOK
          <6> QED
            BY <3>2, <6>1, <6>2, RegistrarStays, Zenon DEF Replacing
        <5> QED
          BY <3>1, <5>1, <5>2, Zenon
      <4> QED
        BY <3>1, <3>2, <4>1, Zenon
    <3>3. CASE FunctionOf(r)' # FunctionOf(r)
      <4>1. function'[service[r]][NameOf[r]] # function[service[r]][NameOf[r]]
            /\ function[service[r]][NameOf[r]] # Nil
            /\ FunctionOf(r)' = function'[service[r]][NameOf[r]]
        BY <2>0, <3>1, <3>3, Zenon DEF FunctionOf
      <4>2. /\ g \in replaced' /\ gpc'[g] = "init" /\ op'[g].sig = FunctionOf(r)'
            /\ op[g].sig \in Sigs /\ FunctionOf(r)' = op[g].sig
        <5>1. /\ gpc'[g] = "init" /\ op'[g] = op[g] /\ op[g].sig \in Sigs
              /\ function'[service[r]][NameOf[r]] = op[g].sig /\ g \in replaced'
          BY <1>c, <2>0, <4>1, Zenon DEF Writes
        <5> QED
          BY <4>1, <5>1, Zenon
      <4> QED
        BY <4>2, Zenon DEF Replacing
    <3> QED
      BY <3>2, <3>3, Zenon
  <2> QED
    BY <2>2, <2>3, Zenon
<1>7. \A r \in Requests : pc'[r] \in Using => mtype'[r] \in Sigs
  BY <1>0, Zenon DEF ReadyInv
<1>8. ReadyInv'
  BY <1>2, <1>3, <1>5, <1>6, <1>7, Zenon DEF ReadyInv
<1> QED
  BY <1>1, <1>8, Zenon

(* The places at which a request has found a service or its method.        *)
Looking == {"resolve", "function", "read", "args", "reply"}

Moves(r) ==
    \/ UNCHANGED pc
    \/ \E x : /\ x \notin Looking /\ (x \in Using => pc[r] \in Using)
              /\ pc' = [pc EXCEPT ![r] = x]

(* Requests come there through five steps only (server.go:746-789,         *)
(* 852-870), and no other step changes what they have found.               *)
LEMMA RequestElsewhere ==
    ASSUME NEW r \in Requests, RequestStep(r), ~Lookup(r), ~Resolve(r), ~LookupFunction(r),
           ~ReadFunction(r), ~TakeArgs(r)
    PROVE  Moves(r) /\ UNCHANGED <<service, mtype>>
<1>1. ASSUME NEW x, x \notin Looking, x \in Using => pc[r] \in Using, To(r, x) PROVE Moves(r)
  BY <1>1, Zenon DEF Moves, To
<1>2. ASSUME NEW x, x \notin Looking, x \in Using => pc[r] \in Using, Fails(r, x) PROVE Moves(r)
  BY <1>1, <1>2, Zenon DEF Fails
<1>3. "end" \notin Looking /\ "HeartbeatRequest" \notin Looking /\ "PreHandleRequest" \notin Looking
      /\ "PreWriteResponse" \notin Looking /\ "PostWriteResponse" \notin Looking
      /\ "PreCall" \notin Looking /\ "call" \notin Looking /\ "PostCall" \notin Looking
      /\ "putArgs" \notin Looking /\ "encode" \notin Looking /\ "putReply" \notin Looking
      /\ "respond" \notin Looking
  BY Zenon DEF Looking
<1>u. /\ "end" \notin Using /\ "HeartbeatRequest" \notin Using /\ "PreHandleRequest" \notin Using
      /\ "PreWriteResponse" \notin Using /\ "PostWriteResponse" \notin Using /\ "respond" \notin Using
      /\ {"reply", "PreCall", "call", "PostCall", "putArgs", "encode", "putReply"} \subseteq Using
  BY Zenon DEF Using
<1>4. ASSUME NEW a, Ends(r, a) PROVE Moves(r)
  BY <1>1, <1>3, <1>u, <1>4, Zenon DEF Ends
<1>5. CASE Hook(r)
  <2>1. \A next : HookGoes(r, next) \/ HookFails(r, next) =>
           next \notin Looking /\ (next \in Using => pc[r] \in Using)
    BY Zenon DEF HookGoes, HookFails, Looking, Using
  <2>2. CASE UNCHANGED pc
    BY <1>5, <2>2, HookFrame, Zenon DEF Moves
  <2>3. CASE \E next : HookGoes(r, next) /\ To(r, next)
    BY <1>1, <1>5, <2>1, <2>3, HookFrame, Zenon
  <2>4. CASE \E next : HookFails(r, next) /\ Fails(r, next)
    BY <1>2, <1>5, <2>1, <2>4, HookFrame, Zenon
  <2>5. CASE \E a : Ends(r, a)
    BY <1>4, <1>5, <2>5, HookFrame, Zenon
  <2> QED
    BY <1>5, <2>2, <2>3, <2>4, <2>5, HookFrame, Zenon
<1>6. CASE Auth(r)
  <2>1. To(r, "HeartbeatRequest") \/ To(r, "PreHandleRequest") \/ Fails(r, "PreWriteResponse")
    BY <1>6, Zenon DEF Auth
  <2> QED
    BY <1>1, <1>2, <1>3, <1>u, <1>6, <2>1, Zenon DEF Auth, Keeps
<1>7. CASE Handler(r)
  BY <1>4, <1>7, Zenon DEF Handler
<1>8. CASE TakeReply(r)
  BY <1>1, <1>3, <1>u, <1>4, <1>8, TakeReplyFrame, Zenon DEF ReplyTaken
<1>9. CASE DoPreCall(r)
  <2>1. UNCHANGED pc => Moves(r)
    BY Zenon DEF Moves
  <2> QED
    BY <1>1, <1>2, <1>3, <1>u, <1>4, <1>9, <2>1, PreCallFrame, Zenon DEF AfterPreCallError
<1>10. CASE Call(r)
  BY <1>1, <1>3, <1>u, <1>10, Zenon DEF Call
<1>11. CASE PutArgs(r) \/ Encode(r)
  BY <1>1, <1>3, <1>u, <1>11, Zenon DEF PutArgs, Encode
<1>12. CASE PutReply(r)
  BY <1>1, <1>3, <1>u, <1>12, Zenon DEF PutReply
<1>13. CASE Respond(r)
  BY <1>1, <1>3, <1>u, <1>4, <1>13, Zenon DEF Respond
<1>14. CASE Write(r)
  BY <1>1, <1>3, <1>u, <1>4, <1>14, Zenon DEF Write
<1> QED
  BY <1>5, <1>6, <1>7, <1>8, <1>9, <1>10, <1>11, <1>12, <1>13, <1>14, Zenon DEF RequestStep, Hook

(* What the invariant says of one request that looks its service up.       *)
Looks(r) ==
    /\ pc[r] \in {"resolve", "function"} => serviceMap[PathOf[r]] # Nil
    /\ pc[r] \in {"resolve", "function", "read"} => service[r] # Nil
    /\ Installed(service[r])
    /\ pc[r] \in {"resolve", "function"} =>
          serviceMap[PathOf[r]] = service[r] \/ NilMap(serviceMap[PathOf[r]])
    /\ pc[r] = "function" => FunctionOf(r) # Nil
    /\ pc[r] = "read" =>
          \/ NilMap(service[r])
          \/ FunctionOf(r) # Nil /\ TypesOf(FunctionOf(r)) \subseteq inited
          \/ FunctionOf(r) # Nil /\ Replacing(FunctionOf(r))
    /\ pc[r] \in Using => mtype[r] \in Sigs
    /\ pc[r] = "args" => ArgType[mtype[r]] \in inited \/ Replacing(mtype[r])
    /\ pc[r] \in {"args", "reply"} => ReplyType[mtype[r]] \in inited \/ Replacing(mtype[r])

(* The invariant says it of every request.                                 *)
LEMMA LooksFact ==
    ASSUME IInv, NEW r \in Requests
    PROVE  Looks(r)
BY Zenon DEF IInv, ServedInv, ServiceInv, ReadyInv, PoolReady, Looks

(* A request that keeps its place and what it has found still does.        *)
LEMMA LooksKept ==
    ASSUME NEW r \in Requests, Looks(r), UNCHANGED <<mapVars, inited, gpc, op>>,
           service'[r] = service[r], mtype'[r] = mtype[r],
           pc'[r] \in Looking => pc'[r] = pc[r],
           pc'[r] \in Using => pc[r] \in Using
    PROVE  Looks(r)'
BY Zenon DEF Looks, Looking, Installed, NilMap, FunctionOf, Replacing

(* While the maps and the registrations stand still, the invariant is kept *)
(* if every request is still entitled to what it has found.                *)
LEMMA StandStill ==
    ASSUME IInv, UNCHANGED <<mapVars, inited, announced, gpc, op>>, \A r \in Requests : Looks(r)'
    PROVE  ServedInv' /\ ServiceInv' /\ ReadyInv' /\ PoolReady' /\ AnnouncedServed'
<1>1. /\ AnnouncedServed'
      /\ \A g \in Registrars : gpc'[g] \in {"init", "announce"} => serviceMap'[op'[g].path] # Nil
      /\ \A k \in Paths : Installed(serviceMap[k])'
      /\ \A g \in Registrars : \A n \in Names : function'[g][n] # Nil => Installed(g)' /\ ~NilMap(g)'
  BY Zenon DEF IInv, ServedInv, ServiceInv, AnnouncedServed, Installed, NilMap
<1>2. /\ \A g \in Registrars : \A n \in Names :
            method'[g][n] # Nil => TypesOf(method'[g][n]) \subseteq inited'
      /\ \A g \in Registrars : \A n \in Names : function'[g][n] # Nil =>
            \/ TypesOf(function'[g][n]) \subseteq inited'
            \/ \E h \in Registrars : gpc'[h] = "init" /\ op'[h].sig = function'[g][n]
  BY Zenon DEF IInv, ReadyInv
<1>3. ServedInv'
  BY <1>1, Zenon DEF ServedInv, Looks
<1>4. ServiceInv'
  BY <1>1, Zenon DEF ServiceInv, Looks
<1>5. ReadyInv'
  BY <1>2, Zenon DEF ReadyInv, Looks
<1>6. PoolReady'
  BY Zenon DEF PoolReady, Looks
<1> QED
  BY <1>1, <1>3, <1>4, <1>5, <1>6, Zenon

(* A request that has found its service finds its pools (server.go:733-789,*)
(* 852-870).                                                               *)
LEMMA RequestReady ==
    ASSUME IInv, NEW r \in Requests, RequestStep(r)
    PROVE  ServedInv' /\ ServiceInv' /\ ReadyInv' /\ PoolReady' /\ AnnouncedServed'
<1>0. UNCHANGED <<mapVars, inited, announced, writer, gpc, op>>
  BY RequestFrame, Zenon
<1>3. SUFFICES /\ \A q \in Requests : q # r =>
                     pc'[q] = pc[q] /\ service'[q] = service[q] /\ mtype'[q] = mtype[q]
               /\ Looks(r)'
  <2>1. \A q \in Requests : Looks(q)'
    BY <1>0, <1>3, LooksFact, LooksKept, Zenon
  <2> QED
    BY <1>0, <2>1, StandStill, Zenon
<1> USE NilFact, NameFact DEF IInv
<1>t. /\ pc \in [Requests -> RequestStates] /\ service \in [Requests -> Registrars \cup {Nil}]
      /\ mtype \in [Requests -> Sigs \cup {Nil}]
  BY Zenon DEF TypeOK, ControlInv
<1>l. Looks(r)
  BY LooksFact, Zenon
<1>4. CASE ~Lookup(r) /\ ~Resolve(r) /\ ~LookupFunction(r) /\ ~ReadFunction(r) /\ ~TakeArgs(r)
  <2>1. Moves(r) /\ UNCHANGED <<service, mtype>>
    BY <1>4, RequestElsewhere, Zenon
  <2>2. /\ \A q \in Requests : q # r => pc'[q] = pc[q]
        /\ pc'[r] \in Looking => pc'[r] = pc[r]
        /\ pc'[r] \in Using => pc[r] \in Using
    BY <1>t, <2>1, Zenon DEF Moves
  <2> QED
    BY <1>0, <1>l, <2>1, <2>2, LooksKept, Zenon
<1>r. ASSUME pc'[r] = "respond", service'[r] = service[r] \/ Installed(service'[r]) PROVE Looks(r)'
  BY <1>0, <1>l, <1>r, Zenon DEF Looks, Using, Installed
<1>5. CASE Lookup(r)
  <2>1. UNCHANGED mtype /\ service' = [service EXCEPT ![r] = serviceMap[PathOf[r]]]
    BY <1>5, Zenon DEF Lookup
  <2>2. service'[r] = serviceMap[PathOf[r]] /\ Installed(serviceMap[PathOf[r]])
    BY <1>t, <2>1, Zenon DEF ServiceInv
  <2>3. CASE serviceMap[PathOf[r]] = Nil
    <3>1. pc' = [pc EXCEPT ![r] = "respond"]
      BY <1>5, <2>3, Zenon DEF Lookup, Fails, To
    <3> QED
      BY <1>t, <1>r, <2>1, <2>2, <3>1, Zenon
  <2>4. CASE serviceMap[PathOf[r]] # Nil
    <3>1. pc' = [pc EXCEPT ![r] = "resolve"]
      BY <1>5, <2>4, Zenon DEF Lookup, To
    <3>2. pc'[r] = "resolve"
      BY <1>t, <3>1, Zenon
    <3>3. Looks(r)'
      BY <1>0, <2>2, <2>4, <3>2, Zenon DEF Looks, Using, Installed
    <3> QED
      BY <1>t, <2>1, <3>1, <3>3, Zenon
  <2> QED
    BY <2>3, <2>4, Zenon
(* What is found in a map of functions is used at once.                    *)
<1>f. ASSUME NEW x \in Sigs, Found(r, x), UNCHANGED service, TypesOf(x) \subseteq inited \/ Replacing(x)
      PROVE  /\ \A q \in Requests : q # r =>
                   pc'[q] = pc[q] /\ service'[q] = service[q] /\ mtype'[q] = mtype[q]
             /\ Looks(r)'
  <2>1. /\ \A q \in Requests : q # r => pc'[q] = pc[q] /\ mtype'[q] = mtype[q]
        /\ pc'[r] = "args" /\ mtype'[r] = x
    BY <1>t, <1>f, Zenon DEF Found, To
  <2>2. (ArgType[x] \in inited /\ ReplyType[x] \in inited) \/ Replacing(x)
    BY <1>f, Zenon DEF TypesOf
  <2>3. Installed(service[r])'
    BY <1>0, <1>l, <1>f, Zenon DEF Looks, Installed
  <2>4. (ArgType[x] \in inited' /\ ReplyType[x] \in inited') \/ Replacing(mtype[r])'
    BY <1>0, <2>1, <2>2, Zenon DEF Replacing
  <2> QED
    BY <1>f, <2>1, <2>3, <2>4, Zenon DEF Looks
<1>6. CASE Resolve(r)
  <2>1. pc[r] = "resolve" /\ UNCHANGED service
    BY <1>6, Zenon DEF Resolve, Keeps
  <2>2. service[r] \in Registrars
    BY <1>t, <1>l, <2>1, Zenon DEF Looks
  <2>3. CASE MethodOf(r) # Nil
    <3>1. MethodOf(r) \in Sigs /\ TypesOf(MethodOf(r)) \subseteq inited
      BY <2>2, <2>3, MapFact, Zenon DEF MethodOf, ReadyInv
    <3> QED
      BY <1>f, <1>6, <2>1, <2>3, <3>1, Zenon DEF Resolve
  <2>4. CASE MethodOf(r) = Nil /\ FunctionOf(r) # Nil
    <3>1. pc' = [pc EXCEPT ![r] = "function"] /\ UNCHANGED mtype
      BY <1>6, <2>4, Zenon DEF Resolve, To
    <3>2. pc'[r] = "function"
      BY <1>t, <3>1, Zenon
    <3>3. Looks(r)'
      BY <1>0, <1>l, <2>1, <2>4, <3>2, Zenon DEF Looks, Using, Installed, NilMap, FunctionOf
    <3> QED
      BY <1>t, <2>1, <3>1, <3>3, Zenon
  <2>5. CASE MethodOf(r) = Nil /\ FunctionOf(r) = Nil
    <3>1. pc' = [pc EXCEPT ![r] = "respond"] /\ UNCHANGED mtype
      BY <1>6, <2>5, Zenon DEF Resolve, To, Fails
    <3> QED
      BY <1>t, <1>r, <2>1, <3>1, Zenon
  <2> QED
    BY <2>3, <2>4, <2>5, Zenon
<1>7. CASE LookupFunction(r)
  <2>1. /\ pc[r] = "function" /\ UNCHANGED mtype
        /\ service' = [service EXCEPT ![r] = serviceMap[PathOf[r]]]
    BY <1>7, Zenon DEF LookupFunction
  <2>2. serviceMap[PathOf[r]] \in Registrars /\ service[r] \in Registrars
    BY <1>t, <1>l, <2>1, Zenon DEF Looks, TypeOK
  <2>3. \A h \in Registrars : gpc[h] # "init"
    BY <1>7, Zenon DEF LookupFunction, RLockable, TypeOK
  <2>4. pc' = [pc EXCEPT ![r] = "read"]
    BY <1>7, <2>2, Zenon DEF LookupFunction, To
  <2>5. pc'[r] = "read" /\ service'[r] = serviceMap[PathOf[r]]
    BY <1>t, <2>1, <2>4, Zenon
  <2>6. Installed(service[r])'
    BY <1>0, <2>5, Zenon DEF ServiceInv, Installed
  <2>7. CASE NilMap(serviceMap[PathOf[r]])
    <3>1. NilMap(service[r])'
      BY <1>0, <2>5, <2>7, Zenon DEF NilMap
    <3>2. Looks(r)'
      BY <2>2, <2>5, <2>6, <3>1, Zenon DEF Looks, Using
    <3> QED
      BY <1>t, <2>1, <2>4, <3>2, Zenon
  <2>8. CASE ~NilMap(serviceMap[PathOf[r]])
    <3>1. service'[r] = service[r] /\ FunctionOf(r) # Nil
      BY <1>l, <2>1, <2>5, <2>8, Zenon DEF Looks
    <3>2. FunctionOf(r)' = FunctionOf(r)
      BY <1>0, <3>1, Zenon DEF FunctionOf
    <3>3. TypesOf(FunctionOf(r)) \subseteq inited
      <4>0. function[service[r]][NameOf[r]] # Nil
        BY <3>1, Zenon DEF FunctionOf
      <4>1. \/ TypesOf(function[service[r]][NameOf[r]]) \subseteq inited
            \/ \E h \in Registrars : gpc[h] = "init"
        <5>1. \A s \in Registrars : \A n \in Names : function[s][n] # Nil =>
                 \/ TypesOf(function[s][n]) \subseteq inited
                 \/ \E h \in Registrars : gpc[h] = "init"
          BY Zenon DEF ReadyInv
        <5> QED
          BY <2>2, <4>0, <5>1, Zenon
      <4> QED
        BY <2>3, <4>1, Zenon DEF FunctionOf
    <3>4. FunctionOf(r)' # Nil /\ TypesOf(FunctionOf(r)') \subseteq inited'
      BY <1>0, <3>1, <3>2, <3>3, Zenon
    <3>5. Looks(r)'
      BY <2>2, <2>5, <2>6, <3>4, Zenon DEF Looks, Using
    <3> QED
      BY <1>t, <2>1, <2>4, <3>5, Zenon
  <2> QED
    BY <2>7, <2>8, Zenon
<1>8. CASE ReadFunction(r)
  <2>1. pc[r] = "read" /\ UNCHANGED service
    BY <1>8, Zenon DEF ReadFunction, Keeps
  <2>2. service[r] \in Registrars
    BY <1>t, <1>l, <2>1, Zenon DEF Looks
  <2>3. CASE FunctionOf(r) # Nil
    <3>1. FunctionOf(r) \in Sigs /\ ~NilMap(service[r])
      BY <2>2, <2>3, MapFact, Zenon DEF FunctionOf, ServiceInv
    <3>2. TypesOf(FunctionOf(r)) \subseteq inited \/ Replacing(FunctionOf(r))
      BY <1>l, <2>1, <3>1, Zenon DEF Looks
    <3> QED
      BY <1>f, <1>8, <2>1, <2>3, <3>1, <3>2, Zenon DEF ReadFunction
  <2>4. CASE FunctionOf(r) = Nil
    <3>1. pc' = [pc EXCEPT ![r] = "respond"] /\ UNCHANGED mtype
      BY <1>8, <2>4, Zenon DEF ReadFunction, To, Fails
    <3> QED
      BY <1>t, <1>r, <2>1, <3>1, Zenon
  <2> QED
    BY <2>3, <2>4, Zenon
<1>9. CASE TakeArgs(r)
  <2>1. UNCHANGED <<service, mtype>> /\ pc[r] = "args"
    BY <1>9, Zenon DEF TakeArgs
  <2>2. pc' = [pc EXCEPT ![r] = "end"] \/ pc' = [pc EXCEPT ![r] = "respond"]
        \/ pc' = [pc EXCEPT ![r] = "reply"]
    BY <1>9, TakeArgsFrame, Zenon DEF ArgsTaken, Ends, Fails, To
  <2>3. pc'[r] \in {"end", "respond", "reply"} /\ \A q \in Requests : q # r => pc'[q] = pc[q]
    BY <1>t, <2>2, Zenon
  <2>4. Installed(service[r])'
    BY <1>0, <1>l, <2>1, Zenon DEF Looks, Installed
  <2>5. mtype'[r] \in Sigs /\ (ReplyType[mtype'[r]] \in inited' \/ Replacing(mtype[r])')
    BY <1>0, <1>l, <2>1, Zenon DEF Looks, Using, Replacing
  <2>6. Looks(r)'
    BY <2>3, <2>4, <2>5, Zenon DEF Looks
  <2> QED
    BY <2>1, <2>3, <2>6, Zenon
<1> QED
  BY <1>4, <1>5, <1>6, <1>7, <1>8, <1>9, Zenon

-----------------------------------------------------------------------------
(* Objects and what they hold.                                             *)

(* The part of the invariant that does not depend on where requests are.   *)
Owned ==
    /\ SoleOwner /\ PoolsApart
    /\ \A t \in Types : \A o \in pools[t] : data[o] = {}
    /\ \A r \in Requests : /\ argv[r] # Nil => data[argv[r]] = {r}
                           /\ replyv[r] # Nil => data[replyv[r]] \subseteq {r}

(* The part that does.                                                     *)
Holds(r) ==
    /\ pc[r] \in {"reply", "PreCall", "call", "PostCall", "putArgs"} => argv[r] # Nil
    /\ pc[r] \in {"PreCall", "call", "PostCall", "putArgs", "encode", "putReply"} => replyv[r] # Nil
    /\ pc[r] \in {"PostCall", "putArgs", "encode"} => data[replyv[r]] = {r}

Answers(r) ==
    /\ pc[r] = "HeartbeatRequest" => r \in Heartbeat
    /\ pc[r] = "write" => r \in Heartbeat \/ r \notin Oneway
    /\ pc[r] \in {"putReply", "respond", "PreWriteResponse", "write"} /\ ~err[r]
       /\ r \notin Oneway \cup Heartbeat => payload[r] = {r}
    /\ payload[r] \subseteq {r}
    /\ answer[r] = "ok" /\ r \notin Heartbeat => payload[r] = {r}

(* The conjuncts about objects, request by request.                        *)
LEMMA InvParts ==
    SoleOwner /\ PoolsApart /\ DataInv /\ AnswerInv /\ OwnData
       <=> Owned /\ \A r \in Requests : Holds(r) /\ Answers(r)
BY Zenon DEF Owned, Holds, Answers, DataInv, AnswerInv, OwnData

(* The same in the next state.                                             *)
LEMMA InvPartsNext ==
    ASSUME Owned', \A r \in Requests : Holds(r)' /\ Answers(r)'
    PROVE  SoleOwner' /\ PoolsApart' /\ DataInv' /\ AnswerInv' /\ OwnData'
BY Zenon DEF Owned, Holds, Answers, DataInv, AnswerInv, OwnData

(* Nobody gains an object when pools shrink and requests let objects go.   *)
LEMMA Drops ==
    ASSUME Owned, UNCHANGED data,
           \A t \in Types : pools'[t] \subseteq pools[t],
           \A q \in Requests : argv'[q] \in {argv[q], Nil} /\ replyv'[q] \in {replyv[q], Nil},
           \A t \in Types : Nil \notin pools[t]
    PROVE  Owned'
<1>1. SoleOwner'
  BY DEF Owned, SoleOwner
<1>2. PoolsApart'
  BY DEF Owned, PoolsApart
<1>3. /\ \A t \in Types : \A o \in pools'[t] : data'[o] = {}
      /\ \A r \in Requests : /\ argv'[r] # Nil => data'[argv'[r]] = {r}
                             /\ replyv'[r] # Nil => data'[replyv'[r]] \subseteq {r}
  BY Zenon DEF Owned
<1> QED
  BY <1>1, <1>2, <1>3, Zenon DEF Owned

(* A request that puts an object back does not keep it (server.go:791-796, *)
(* 811, 843).                                                              *)
LEMMA Returns ==
    ASSUME TypeOK, Owned, NEW r \in Requests, NEW t \in Types, NEW o \in Objs \cup {Nil}, Put(t, o),
           o \in {argv[r], replyv[r]},
           \A q \in Requests : argv'[q] \in {argv[q], Nil} /\ replyv'[q] \in {replyv[q], Nil},
           o # Nil => argv'[r] # o /\ replyv'[r] # o
    PROVE  Owned'
<1> USE NilFact
<1>0. \A s \in Types : Nil \notin pools[s]
  BY Zenon DEF TypeOK
<1>1. CASE UNCHANGED <<pools, data>>
  BY <1>0, <1>1, Drops, Zenon
<1>2. CASE o # Nil /\ pools' = [pools EXCEPT ![t] = @ \cup {o}] /\ data' = [data EXCEPT ![o] = {}]
  <2>1. \A q \in Requests : argv'[q] # o /\ replyv'[q] # o
    BY <1>2 DEF Owned, SoleOwner
  <2>2. \A s \in Types : \A x : x \in pools'[s] => x \in pools[s] \/ (x = o /\ s = t)
    BY <1>2, Zenon DEF TypeOK
  <2>3. \A s \in Types : o \notin pools[s]
    BY <1>2 DEF Owned, SoleOwner
  <2>4. data'[o] = {} /\ \A x \in Objs : x # o => data'[x] = data[x]
    BY <1>2, Zenon DEF TypeOK
  <2>5. SoleOwner'
    <3>1. \A s \in Types : \A q \in Requests : argv'[q] \notin pools'[s] /\ replyv'[q] \notin pools'[s]
      BY <1>0, <2>1, <2>2 DEF Owned, SoleOwner
    <3>2. \A p, q \in Requests :
             /\ argv'[q] # Nil => argv'[q] # replyv'[p] /\ (argv'[q] = argv'[p] => q = p)
             /\ replyv'[q] # Nil /\ replyv'[q] = replyv'[p] => q = p
      BY DEF Owned, SoleOwner
    <3> QED
      BY <3>1, <3>2, Zenon DEF SoleOwner
  <2>6. PoolsApart'
    <3>1. ASSUME NEW s \in Types, NEW u \in Types, s # u, NEW x, x \in pools'[s], x \in pools'[u]
          PROVE  FALSE
      BY <2>2, <2>3, <3>1 DEF Owned, PoolsApart
    <3> QED
      BY <3>1, SMT DEF PoolsApart
  <2>7. \A s \in Types : \A x \in pools'[s] : data'[x] = {}
    BY <2>2, <2>4, ZenonT(60) DEF Owned, TypeOK
  <2>8. \A q \in Requests : /\ argv'[q] # Nil => data'[argv'[q]] = {q}
                            /\ replyv'[q] # Nil => data'[replyv'[q]] \subseteq {q}
    <3>1. \A q \in Requests : argv[q] \in Objs \cup {Nil} /\ replyv[q] \in Objs \cup {Nil}
      BY Zenon DEF TypeOK
    <3> QED
      BY <2>1, <2>4, <3>1 DEF Owned
  <2> QED
    BY <2>5, <2>6, <2>7, <2>8, Zenon DEF Owned
<1> QED
  BY <1>1, <1>2, PutFrame, Zenon

(* Get gives an object that no request holds and that is in no pool any    *)
(* more (pool.go:56-61).                                                   *)
LEMMA GetAlone ==
    ASSUME TypeOK, Owned, NEW t \in Types, NEW o \in Objs, Get(t, o)
    PROVE  /\ \A s \in Types : o \notin pools'[s] /\ pools'[s] \subseteq pools[s]
           /\ \A q \in Requests : argv[q] # o /\ replyv[q] # o
           /\ Content(t, o) = {}
<1>1. o \in pools[t] \/ o \notin InUse
  BY ObjFact, Zenon DEF Get
<1>2. \A q \in Requests : argv[q] # o /\ replyv[q] # o
  BY <1>1 DEF InUse, Owned, SoleOwner
<1>3. Content(t, o) = {}
  BY Zenon DEF Content, Owned
<1>4. pools' = [pools EXCEPT ![t] = @ \ {o}]
  BY Zenon DEF Get
<1>5. \A s \in Types : s # t => o \notin pools[s]
  BY <1>1 DEF InUse, Owned, PoolsApart
<1>6. \A s \in Types : o \notin pools'[s] /\ pools'[s] \subseteq pools[s]
  BY <1>4, <1>5, Zenon DEF TypeOK
<1> QED
  BY <1>2, <1>3, <1>6, Zenon

(* Whoever gets an object is alone with it (server.go:774-789).            *)
LEMMA Takes ==
    ASSUME TypeOK, Owned, NEW r \in Requests, NEW t \in Types, NEW o \in Objs, Get(t, o),
           NEW d, data' = [data EXCEPT ![o] = d],
           \/ argv' = [argv EXCEPT ![r] = o] /\ d = {r} /\ UNCHANGED replyv
           \/ replyv' = [replyv EXCEPT ![r] = o] /\ d = {} /\ UNCHANGED argv
    PROVE  Owned'
<1> USE NilFact
<1>1. /\ \A s \in Types : o \notin pools'[s] /\ pools'[s] \subseteq pools[s]
      /\ \A q \in Requests : argv[q] # o /\ replyv[q] # o
  BY GetAlone, Zenon
<1>2. data'[o] = d /\ \A x \in Objs : x # o => data'[x] = data[x]
  BY Zenon DEF TypeOK
<1>3. /\ \A q \in Requests : q # r => argv'[q] = argv[q] /\ replyv'[q] = replyv[q]
      /\ \/ argv'[r] = o /\ d = {r} /\ replyv'[r] = replyv[r]
         \/ argv'[r] = argv[r] /\ replyv'[r] = o /\ d = {}
  BY Zenon DEF TypeOK
<1>4. \A q \in Requests : argv[q] \in Objs \cup {Nil} /\ replyv[q] \in Objs \cup {Nil}
  BY Zenon DEF TypeOK
<1>5. SoleOwner'
  <2>1. \A s \in Types : \A q \in Requests : argv'[q] \notin pools'[s] /\ replyv'[q] \notin pools'[s]
    BY <1>1, <1>3 DEF Owned, SoleOwner
  <2>2. \A p, q \in Requests :
           /\ argv'[q] # Nil => argv'[q] # replyv'[p] /\ (argv'[q] = argv'[p] => q = p)
           /\ replyv'[q] # Nil /\ replyv'[q] = replyv'[p] => q = p
    BY <1>1, <1>3 DEF Owned, SoleOwner
  <2> QED
    BY <2>1, <2>2, Zenon DEF SoleOwner
<1>6. PoolsApart'
  BY <1>1 DEF Owned, PoolsApart
<1>7. \A s \in Types : \A x \in pools'[s] : data'[x] = {}
  BY <1>1, <1>2 DEF Owned, TypeOK
<1>8. \A q \in Requests : /\ argv'[q] # Nil => data'[argv'[q]] = {q}
                          /\ replyv'[q] # Nil => data'[replyv'[q]] \subseteq {q}
  BY <1>1, <1>2, <1>3, <1>4 DEF Owned
<1> QED
  BY <1>5, <1>6, <1>7, <1>8, Zenon DEF Owned

-----------------------------------------------------------------------------
(* The steps of requests.                                                  *)

(* A step of a request changes nothing of the others.                      *)
OthersKeep(r) ==
    \A q \in Requests : q # r =>
        /\ pc'[q] = pc[q] /\ argv'[q] = argv[q] /\ replyv'[q] = replyv[q]
        /\ err'[q] = err[q] /\ payload'[q] = payload[q] /\ answer'[q] = answer[q]

(* A step that assigns only the variables of r leaves the others alone.    *)
LEMMA OnlyFact ==
    ASSUME IInv, NEW r \in Requests,
           UNCHANGED pc \/ \E v : pc' = [pc EXCEPT ![r] = v],
           UNCHANGED argv \/ \E v : argv' = [argv EXCEPT ![r] = v],
           UNCHANGED replyv \/ \E v : replyv' = [replyv EXCEPT ![r] = v],
           UNCHANGED err \/ \E v : err' = [err EXCEPT ![r] = v],
           UNCHANGED payload \/ \E v : payload' = [payload EXCEPT ![r] = v],
           UNCHANGED answer \/ \E v : answer' = [answer EXCEPT ![r] = v]
    PROVE  OthersKeep(r)
<1>1. /\ \A q \in Requests : q # r => pc'[q] = pc[q]
      /\ \A q \in Requests : q # r => argv'[q] = argv[q]
      /\ \A q \in Requests : q # r => replyv'[q] = replyv[q]
  BY Zenon DEF IInv, TypeOK, ControlInv
<1>2. /\ \A q \in Requests : q # r => err'[q] = err[q]
      /\ \A q \in Requests : q # r => payload'[q] = payload[q]
      /\ \A q \in Requests : q # r => answer'[q] = answer[q]
  BY DEF IInv, TypeOK
<1> QED
  BY <1>1, <1>2, Zenon DEF OthersKeep

(* No step of a request writes the variables of another one.               *)
LEMMA RequestOthers ==
    ASSUME IInv, NEW r \in Requests, RequestStep(r)
    PROVE  OthersKeep(r)
<1>1. CASE Hook(r)
  BY <1>1, HookFrame, OnlyFact, Zenon DEF To, Fails, Ends
<1>2. CASE Auth(r)
  BY <1>2, OnlyFact, Zenon DEF Auth, Keeps, To, Fails
<1>3. CASE Handler(r)
  BY <1>3, OnlyFact, Zenon DEF Handler, Ends, To
<1>4. CASE Lookup(r) \/ LookupFunction(r)
  BY <1>4, OnlyFact, Zenon DEF Lookup, LookupFunction, To, Fails
<1>5. CASE Resolve(r) \/ ReadFunction(r)
  BY <1>5, OnlyFact, Zenon DEF Resolve, ReadFunction, Found, Keeps, To, Fails
<1>6. CASE TakeArgs(r)
  BY <1>6, OnlyFact, TakeArgsFrame, Zenon DEF ArgsTaken, Ends, To, Fails
<1>7. CASE TakeReply(r)
  BY <1>7, OnlyFact, TakeReplyFrame, Zenon DEF ReplyTaken, Ends, To
<1>8. CASE DoPreCall(r)
  BY <1>8, OnlyFact, PreCallFrame, Zenon DEF AfterPreCallError, Ends, To, Fails
<1>9. CASE Call(r)
  BY <1>9, OnlyFact, Zenon DEF Call, To
<1>10. CASE PutArgs(r) \/ Encode(r)
  BY <1>10, OnlyFact, Zenon DEF PutArgs, Encode, To
<1>11. CASE PutReply(r)
  BY <1>11, OnlyFact, Zenon DEF PutReply, To
<1>12. CASE Respond(r) \/ Write(r)
  BY <1>12, OnlyFact, Zenon DEF Respond, Write, Ends, To
<1> QED
  BY <1>1, <1>2, <1>3, <1>4, <1>5, <1>6, <1>7, <1>8, <1>9, <1>10, <1>11, <1>12, Zenon
     DEF RequestStep, Hook

(* The call computes the reply of r from the arguments of r                *)
(* (server.go:798-803).                                                    *)
LEMMA CallOwned ==
    ASSUME IInv, NEW r \in Requests, Call(r)
    PROVE  Owned' /\ data'[replyv[r]] = {r} /\ argv[r] # Nil /\ replyv[r] # Nil
<1> USE NilFact
<1>0. Owned /\ Holds(r)
  BY InvParts, Zenon DEF IInv
<1>1. argv[r] \in Objs /\ replyv[r] \in Objs /\ argv[r] # Nil /\ replyv[r] # Nil
  BY <1>0, Zenon DEF Call, Holds, IInv, TypeOK
<1>2. data' = [data EXCEPT ![replyv[r]] = @ \cup data[argv[r]]] /\ UNCHANGED <<pools, argv, replyv>>
  BY Zenon DEF Call
<1>3. data'[replyv[r]] = {r} /\ \A x \in Objs : x # replyv[r] => data'[x] = data[x]
  BY <1>0, <1>1, <1>2 DEF IInv, TypeOK, Owned
<1>4. \A t \in Types : replyv[r] \notin pools[t]
  BY <1>0, Zenon DEF Owned, SoleOwner
<1>5. \A q \in Requests : argv[q] # replyv[r] /\ (q # r => replyv[q] # replyv[r])
  BY <1>0, <1>1, Zenon DEF Owned, SoleOwner
<1>6. \A q \in Requests : argv[q] \in Objs \cup {Nil} /\ replyv[q] \in Objs \cup {Nil}
  BY Zenon DEF IInv, TypeOK
<1>7. SoleOwner' /\ PoolsApart'
  BY <1>0, <1>2, Zenon DEF Owned, SoleOwner, PoolsApart
<1>8. \A t \in Types : \A o \in pools[t] : data'[o] = {}
  BY <1>0, <1>3, <1>4 DEF Owned, IInv, TypeOK
<1>9. \A q \in Requests : /\ argv[q] # Nil => data'[argv[q]] = {q}
                          /\ replyv[q] # Nil => data'[replyv[q]] \subseteq {q}
  BY <1>0, <1>3, <1>5, <1>6, Zenon DEF Owned
<1> QED
  BY <1>1, <1>2, <1>3, <1>7, <1>8, <1>9, Zenon DEF Owned

(* No step of a request lets a second one have its objects                 *)
(* (server.go:774-843).                                                    *)
LEMMA RequestOwned ==
    ASSUME IInv, NEW r \in Requests, RequestStep(r)
    PROVE  Owned'
<1> USE NilFact
<1>0. TypeOK /\ Owned
  BY InvParts, Zenon DEF IInv
<1>u. pc[r] \in {"args", "reply", "PreCall", "putArgs", "putReply"} =>
         ArgType[mtype[r]] \in Types /\ ReplyType[mtype[r]] \in Types
  BY UsingFact, Zenon DEF Using, IInv
<1>a. \A t \in Types : Nil \notin pools[t]
  BY <1>0, Zenon DEF TypeOK
<1>b. /\ \A v : argv' = [argv EXCEPT ![r] = v] =>
             argv'[r] = v /\ \A q \in Requests : argv'[q] \in {argv[q], v}
      /\ \A v : replyv' = [replyv EXCEPT ![r] = v] =>
             replyv'[r] = v /\ \A q \in Requests : replyv'[q] \in {replyv[q], v}
  BY <1>0, ZenonT(60) DEF TypeOK
<1>c. argv[r] \in Objs \cup {Nil} /\ replyv[r] \in Objs \cup {Nil}
  BY <1>0, Zenon DEF TypeOK
<1>d. ASSUME UNCHANGED <<data, argv, replyv>>, \A t \in Types : pools'[t] \subseteq pools[t]
      PROVE  Owned'
  BY <1>0, <1>a, <1>d, Drops, Zenon
<1>e. ASSUME NEW a, Ends(r, a) PROVE Owned'
  BY <1>0, <1>a, <1>b, <1>e, Drops, Zenon DEF Ends
<1>1. CASE Hook(r)
  BY <1>d, <1>e, <1>1, HookFrame, Zenon
<1>2. CASE Auth(r) \/ Lookup(r) \/ Resolve(r) \/ LookupFunction(r) \/ ReadFunction(r) \/ Encode(r)
  BY <1>d, <1>2, Zenon DEF Auth, Lookup, Resolve, LookupFunction, ReadFunction, Encode, Keeps
<1>3. CASE Handler(r)
  BY <1>e, <1>3, Zenon DEF Handler
<1>4. CASE TakeArgs(r)
  <2>1. ASSUME NEW o \in Objs, ArgsTaken(r, o) PROVE Owned'
    <3>1. /\ \A s \in Types : pools'[s] \subseteq pools[s]
          /\ Content(ArgType[mtype[r]], o) = {}
      BY <1>0, <1>u, <1>4, <2>1, GetAlone, TakeArgsFrame, Zenon DEF ArgsTaken
    <3>2. CASE UNCHANGED <<data, argv>>
      BY <1>d, <2>1, <3>1, <3>2, Zenon DEF ArgsTaken
    <3>3. CASE argv' = [argv EXCEPT ![r] = o] /\ data' = [data EXCEPT ![o] = {r}]
      BY <1>0, <1>u, <1>4, <2>1, <3>3, Takes, TakeArgsFrame, Zenon DEF ArgsTaken
    <3>4. {} \cup {r} = {r}
      OBVIOUS
    <3> QED
      BY <2>1, <3>1, <3>2, <3>3, <3>4, Zenon DEF ArgsTaken
  <2> QED
    BY <1>e, <1>4, <2>1, TakeArgsFrame, Zenon
<1>5. CASE TakeReply(r)
  <2>1. ASSUME NEW o \in Objs, ReplyTaken(r, o) PROVE Owned'
    <3>1. Content(ReplyType[mtype[r]], o) = {}
      BY <1>0, <1>u, <1>5, <2>1, GetAlone, TakeReplyFrame, Zenon DEF ReplyTaken
    <3> QED
      BY <1>0, <1>u, <1>5, <2>1, <3>1, Takes, TakeReplyFrame, Zenon DEF ReplyTaken
  <2> QED
    BY <1>e, <1>5, <2>1, TakeReplyFrame, Zenon
<1>6. CASE DoPreCall(r)
  <2>1. CASE Put(ReplyType[mtype[r]], replyv[r]) /\ AfterPreCallError(r)
    <3>1. ReplyType[mtype[r]] \in Types
      BY <1>u, <1>6, PreCallFrame, Zenon
    <3> QED
      BY <1>0, <1>b, <1>c, <2>1, <3>1, Returns, ZenonT(60) DEF AfterPreCallError
  <2> QED
    BY <1>d, <1>e, <1>6, <2>1, PreCallFrame, Zenon
<1>7. CASE Call(r)
  BY <1>7, CallOwned, Zenon
<1>8. CASE PutArgs(r)
  <2>1. argv[r] # Nil => argv[r] # replyv[r]
    BY <1>0, Zenon DEF Owned, SoleOwner
  <2> QED
    BY <1>0, <1>u, <1>b, <1>c, <1>8, <2>1, Returns, Zenon DEF PutArgs
<1>9. CASE PutReply(r)
  <2>1. replyv[r] # Nil => argv[r] # replyv[r]
    BY <1>0, <1>c, Zenon DEF Owned, SoleOwner
  <2> QED
    BY <1>0, <1>u, <1>b, <1>c, <1>9, <2>1, Returns, Zenon DEF PutReply
<1>10. CASE Respond(r) \/ Write(r)
  BY <1>d, <1>e, <1>10, Zenon DEF Respond, Write
<1> QED
  BY <1>1, <1>2, <1>3, <1>4, <1>5, <1>6, <1>7, <1>8, <1>9, <1>10, Zenon DEF RequestStep, Hook

(* A step of r writes only into objects that no other request holds.       *)
LEMMA RequestData ==
    ASSUME IInv, NEW r \in Requests, RequestStep(r), NEW q \in Requests, q # r, replyv[q] # Nil
    PROVE  data'[replyv[q]] = data[replyv[q]]
<1> USE NilFact
<1>0. TypeOK /\ Owned
  BY InvParts, Zenon DEF IInv
<1>u. pc[r] \in {"args", "reply", "PreCall", "putArgs", "putReply"} =>
         ArgType[mtype[r]] \in Types /\ ReplyType[mtype[r]] \in Types
  BY UsingFact, Zenon DEF Using, IInv
<1>a. replyv[q] \in Objs /\ argv[r] \in Objs \cup {Nil} /\ replyv[r] \in Objs \cup {Nil}
  BY <1>0, Zenon DEF TypeOK
<1>b. replyv[q] # replyv[r] /\ replyv[q] # argv[r]
  BY <1>0, Zenon DEF Owned, SoleOwner
<1>c. \A o, d : data' = [data EXCEPT ![o] = d] /\ o # replyv[q] => data'[replyv[q]] = data[replyv[q]]
  BY <1>0, <1>a, Zenon DEF TypeOK
<1>d. ASSUME NEW t \in Types, NEW o \in {argv[r], replyv[r]}, Put(t, o)
      PROVE  data'[replyv[q]] = data[replyv[q]]
  <2>1. o \in Objs \cup {Nil} /\ o # replyv[q]
    BY <1>a, <1>b, Zenon
  <2>2. UNCHANGED data \/ data' = [data EXCEPT ![o] = {}]
    BY <1>0, <1>d, <2>1, PutFrame, Zenon
  <2> QED
    BY <1>c, <2>1, <2>2, Zenon
<1>e. ASSUME NEW t \in Types, NEW o \in Objs, Get(t, o), NEW d, data' = [data EXCEPT ![o] = d]
      PROVE  data'[replyv[q]] = data[replyv[q]]
  <2>1. o # replyv[q]
    BY <1>0, <1>e, GetAlone, Zenon
  <2> QED
    BY <1>c, <1>e, <2>1, Zenon
<1>1. CASE UNCHANGED data
  BY <1>1, Zenon
<1>2. CASE TakeArgs(r)
  <2>1. ASSUME NEW o \in Objs, ArgsTaken(r, o) PROVE data'[replyv[q]] = data[replyv[q]]
    <3>1. ArgType[mtype[r]] \in Types /\ Get(ArgType[mtype[r]], o)
      BY <1>u, <1>2, <2>1, TakeArgsFrame, Zenon DEF ArgsTaken
    <3>2. UNCHANGED data \/ \E d : data' = [data EXCEPT ![o] = d]
      BY <2>1, Zenon DEF ArgsTaken
    <3> QED
      BY <1>1, <1>e, <3>1, <3>2, Zenon
  <2>2. CASE Ends(r, "panic")
    BY <1>1, <2>2, Zenon DEF Ends
  <2> QED
    BY <1>2, <2>1, <2>2, TakeArgsFrame, Zenon
<1>3. CASE TakeReply(r)
  <2>1. ASSUME NEW o \in Objs, ReplyTaken(r, o) PROVE data'[replyv[q]] = data[replyv[q]]
    <3>1. ReplyType[mtype[r]] \in Types /\ Get(ReplyType[mtype[r]], o)
      BY <1>u, <1>3, <2>1, TakeReplyFrame, Zenon DEF ReplyTaken
    <3>2. UNCHANGED data \/ \E d : data' = [data EXCEPT ![o] = d]
      BY <2>1, Zenon DEF ReplyTaken
    <3> QED
      BY <1>1, <1>e, <3>1, <3>2, Zenon
  <2>2. CASE Ends(r, "panic")
    BY <1>1, <2>2, Zenon DEF Ends
  <2> QED
    BY <1>3, <2>1, <2>2, TakeReplyFrame, Zenon
<1>4. CASE DoPreCall(r)
  BY <1>u, <1>1, <1>d, <1>4, PreCallFrame, Zenon DEF Ends
<1>5. CASE Call(r)
  BY <1>b, <1>c, <1>5, Zenon DEF Call
<1>6. CASE PutArgs(r) \/ PutReply(r)
  BY <1>u, <1>d, <1>6, Zenon DEF PutArgs, PutReply
<1>7. CASE Hook(r) \/ Auth(r) \/ Handler(r) \/ Lookup(r) \/ Resolve(r) \/ LookupFunction(r)
  BY <1>1, <1>7, HookFrame, Zenon DEF Auth, Handler, Lookup, Resolve, LookupFunction, Keeps, Ends
<1>8. CASE ReadFunction(r) \/ Encode(r) \/ Respond(r) \/ Write(r)
  BY <1>1, <1>8, Zenon DEF ReadFunction, Encode, Respond, Write, Keeps, Ends
<1> QED
  BY <1>2, <1>3, <1>4, <1>5, <1>6, <1>7, <1>8, Zenon DEF RequestStep, Hook

(* Where the request itself is led (server.go:685-922).                    *)
LEMMA RequestOwn ==
    ASSUME IInv, NEW r \in Requests, RequestStep(r)
    PROVE  Holds(r)' /\ Answers(r)'
<1> USE NilFact
<1>0. Holds(r) /\ Answers(r)
  BY InvParts, Zenon DEF IInv
<1>t. /\ pc \in [Requests -> RequestStates] /\ err \in [Requests -> BOOLEAN]
      /\ answer \in [Requests -> {"none", "ok", "error", "closed", "panic"}]
      /\ argv \in [Requests -> Objs \cup {Nil}] /\ replyv \in [Requests -> Objs \cup {Nil}]
      /\ payload \in [Requests -> SUBSET Requests]
  BY Zenon DEF IInv, TypeOK, ControlInv
<1>a. \A x : To(r, x) => pc'[r] = x
  BY <1>t, Zenon DEF To
<1>b. \A x : Fails(r, x) => pc'[r] = x /\ err'[r] = TRUE
  BY <1>t, Zenon DEF To, Fails
<1>c. \A a : Ends(r, a) => pc'[r] = "end" /\ answer'[r] = a
  BY <1>t, Zenon DEF To, Ends
(* The ends of the request, and the errors before there is an answer.      *)
<1>p. \A a \in {"none", "panic"} : Ends(r, a) => pc'[r] = "end" /\ answer'[r] # "ok"
  BY <1>c, Zenon
<1>e. ASSUME pc'[r] = "end", answer'[r] = answer[r] \/ answer'[r] # "ok", UNCHANGED payload
      PROVE  Holds(r)' /\ Answers(r)'
  BY <1>0, <1>e, Zenon DEF Holds, Answers
<1>f. ASSUME pc'[r] \in {"respond", "PreWriteResponse"}, err'[r] = TRUE, UNCHANGED <<payload, answer>>
      PROVE  Holds(r)' /\ Answers(r)'
  BY <1>0, <1>f, Zenon DEF Holds, Answers
<1>g. ASSUME pc'[r] \in {"PostReadRequest", "auth", "PreHandleRequest", "handler", "lookup", "resolve",
                        "function", "read", "args"}, UNCHANGED <<payload, answer>>
      PROVE  Holds(r)' /\ Answers(r)'
  BY <1>0, <1>g, Zenon DEF Holds, Answers
<1>1. CASE Hook(r)
  <2>0. UNCHANGED <<payload, data>>
    BY <1>1, HookFrame, Zenon
  <2>1. CASE UNCHANGED <<pc, err, answer, argv, replyv>>
    BY <1>0, <2>0, <2>1, Zenon DEF Holds, Answers
  <2>2. ASSUME NEW next, HookGoes(r, next), pc'[r] = next, UNCHANGED <<err, answer, argv, replyv>>
        PROVE  Holds(r)' /\ Answers(r)'
    <3>1. CASE pc[r] = "PostCall"
      BY <1>0, <2>0, <2>2, <3>1, Zenon DEF HookGoes, Holds, Answers
    <3>2. CASE pc[r] = "PreWriteResponse"
      BY <1>0, <2>0, <2>2, <3>2, Zenon DEF HookGoes, Holds, Answers
    <3>3. CASE pc[r] = "HeartbeatRequest"
      BY <1>0, <2>0, <2>2, <3>3, Zenon DEF HookGoes, Holds, Answers
    <3>4. CASE pc[r] = "PostWriteResponse"
      BY <1>e, <2>0, <2>2, <3>4, Zenon DEF HookGoes
    <3>5. CASE pc[r] \in {"PreReadRequest", "PostReadRequest", "PreHandleRequest"}
      BY <1>g, <2>0, <2>2, <3>5, Zenon DEF HookGoes
    <3> QED
      BY <2>2, <3>1, <3>2, <3>3, <3>4, <3>5, Zenon DEF HookGoes
  <2>3. ASSUME NEW next, HookFails(r, next), pc'[r] = next, err'[r] = TRUE,
               UNCHANGED <<answer, argv, replyv>>
        PROVE  Holds(r)' /\ Answers(r)'
    <3>1. CASE pc[r] = "PostCall"
      BY <1>0, <2>0, <2>3, <3>1, Zenon DEF HookFails, Holds, Answers
    <3>2. CASE pc[r] = "PostReadRequest"
      BY <1>f, <2>0, <2>3, <3>2, Zenon DEF HookFails
    <3> QED
      BY <2>3, <3>1, <3>2, Zenon DEF HookFails
  <2>4. ASSUME NEW a \in {"closed", "panic", answer[r]}, Ends(r, a) PROVE Holds(r)' /\ Answers(r)'
    <3>1. pc'[r] = "end" /\ answer'[r] = a
      BY <1>c, <2>4, Zenon
    <3>2. answer'[r] = answer[r] \/ answer'[r] # "ok"
      BY <3>1, Zenon
    <3> QED
      BY <1>e, <2>0, <3>1, <3>2, Zenon
  <2> QED
    BY <1>a, <1>b, <1>1, <2>1, <2>2, <2>3, <2>4, HookFrame, Zenon
<1>2. CASE Auth(r)
  <2>1. UNCHANGED <<payload, answer, argv, replyv, data>>
    BY <1>2, Zenon DEF Auth, Keeps
  <2>2. \/ pc'[r] = "HeartbeatRequest" /\ r \in Heartbeat
        \/ pc'[r] = "PreHandleRequest"
        \/ pc'[r] = "PreWriteResponse" /\ err'[r] = TRUE
    BY <1>a, <1>b, <1>2, Zenon DEF Auth
  <2>3. CASE pc'[r] = "HeartbeatRequest" /\ r \in Heartbeat
    BY <1>0, <2>1, <2>3, Zenon DEF Holds, Answers
  <2> QED
    BY <1>f, <1>g, <2>1, <2>2, <2>3, Zenon
<1>3. CASE Handler(r)
  <2>1. PICK a \in {"none", "ok", "error"} :
           Ends(r, a) /\ payload' = [payload EXCEPT ![r] = IF a = "ok" THEN {r} ELSE {}]
    BY <1>3, Zenon DEF Handler
  <2>2. pc'[r] = "end" /\ answer'[r] = a /\ payload'[r] = IF a = "ok" THEN {r} ELSE {}
    BY <1>c, <1>t, <2>1, Zenon
  <2> QED
    BY <2>2, Zenon DEF Holds, Answers
<1>4. CASE Lookup(r) \/ Resolve(r) \/ LookupFunction(r) \/ ReadFunction(r)
  <2>1. UNCHANGED <<payload, answer>>
    BY <1>4, Zenon DEF Lookup, Resolve, LookupFunction, ReadFunction, Keeps
  <2>2. \/ pc'[r] \in {"resolve", "function", "read", "args"}
        \/ pc'[r] = "respond" /\ err'[r] = TRUE
    BY <1>a, <1>b, <1>4, Zenon DEF Lookup, Resolve, LookupFunction, ReadFunction, Found
  <2> QED
    BY <1>f, <1>g, <2>1, <2>2, Zenon
<1>5. CASE TakeArgs(r)
  <2>1. ASSUME NEW o \in Objs, ArgsTaken(r, o) PROVE Holds(r)' /\ Answers(r)'
    <3>1. UNCHANGED <<payload, answer>>
      BY <2>1, Zenon DEF ArgsTaken
    <3>2. \/ pc'[r] = "respond" /\ err'[r] = TRUE
          \/ pc'[r] = "reply" /\ argv'[r] = o
      BY <1>a, <1>b, <1>t, <2>1, Zenon DEF ArgsTaken
    <3>3. CASE pc'[r] = "reply" /\ argv'[r] = o
      BY <1>0, <3>1, <3>3, Zenon DEF Holds, Answers
    <3> QED
      BY <1>f, <3>1, <3>2, <3>3, Zenon
  <2>2. CASE Ends(r, "panic") /\ UNCHANGED payload
    BY <1>p, <1>e, <2>2, Zenon
  <2> QED
    BY <1>5, <2>1, <2>2, TakeArgsFrame, Zenon
<1>6. CASE TakeReply(r)
  <2>1. ASSUME NEW o \in Objs, ReplyTaken(r, o) PROVE Holds(r)' /\ Answers(r)'
    <3>1. UNCHANGED <<payload, answer, argv>> /\ pc'[r] = "PreCall" /\ replyv'[r] = o /\ pc[r] = "reply"
      BY <1>a, <1>t, <1>6, <2>1, TakeReplyFrame, Zenon DEF ReplyTaken
    <3> QED
      BY <1>0, <3>1, Zenon DEF Holds, Answers
  <2>2. CASE Ends(r, "panic") /\ UNCHANGED payload
    BY <1>p, <1>e, <2>2, Zenon
  <2> QED
    BY <1>6, <2>1, <2>2, TakeReplyFrame, Zenon
<1>7. CASE DoPreCall(r)
  <2>0. pc[r] = "PreCall" /\ UNCHANGED payload
    BY <1>7, PreCallFrame, Zenon
  <2>1. CASE UNCHANGED <<pc, err, answer, objVars>>
    BY <1>0, <2>0, <2>1, Zenon DEF Holds, Answers
  <2>2. CASE To(r, "call") /\ UNCHANGED <<err, answer, objVars>>
    <3>1. pc'[r] = "call"
      BY <1>a, <2>2, Zenon
    <3> QED
      BY <1>0, <2>0, <2>2, <3>1, Zenon DEF Holds, Answers
  <2>3. CASE AfterPreCallError(r) /\ UNCHANGED answer
    BY <1>b, <1>f, <2>0, <2>3, Zenon DEF AfterPreCallError
  <2>4. CASE Ends(r, "panic")
    BY <1>p, <1>e, <2>0, <2>4, Zenon
  <2> QED
    BY <1>7, <2>1, <2>2, <2>3, <2>4, PreCallFrame, Zenon
<1>8. CASE Call(r)
  <2>1. pc'[r] = "PostCall" /\ UNCHANGED <<argv, replyv, payload, answer>>
    BY <1>a, <1>8, Zenon DEF Call
  <2>2. argv[r] # Nil /\ replyv[r] # Nil /\ data'[replyv[r]] = {r}
    BY <1>8, CallOwned, Zenon
  <2> QED
    BY <1>0, <2>1, <2>2, Zenon DEF Holds, Answers
<1>13. CASE PutArgs(r)
  <2>1. /\ pc[r] = "putArgs" /\ pc'[r] = "encode" /\ UNCHANGED <<replyv, payload, answer, err>>
        /\ Put(ArgType[mtype[r]], argv[r])
    BY <1>a, <1>13, Zenon DEF PutArgs
  <2>2. replyv[r] # Nil /\ data[replyv[r]] = {r}
    BY <1>0, <2>1, Zenon DEF Holds
  <2>3. argv[r] # replyv[r] /\ replyv[r] \in Objs
    BY <1>0, <1>t, <2>1, <2>2, Zenon DEF Holds, IInv, SoleOwner
  <2>4. data'[replyv[r]] = data[replyv[r]]
    BY <2>1, <2>3, Zenon DEF Put, IInv, TypeOK
  <2>5. Holds(r)'
    BY <2>1, <2>2, <2>4, Zenon DEF Holds
  <2>6. Answers(r)'
    BY <1>0, <2>1, Zenon DEF Answers
  <2> QED
    BY <2>5, <2>6, Zenon
<1>9. CASE Encode(r)
  <2>1. pc[r] = "encode" /\ pc'[r] = "putReply" /\ UNCHANGED <<replyv, answer>>
    BY <1>a, <1>9, Zenon DEF Encode
  <2>2. replyv[r] # Nil /\ data[replyv[r]] = {r}
    BY <1>0, <2>1, Zenon DEF Holds
  <2>3. \/ payload'[r] = {r} /\ UNCHANGED err
        \/ err'[r] = TRUE /\ UNCHANGED payload
        \/ (err[r] \/ r \in Oneway) /\ UNCHANGED <<payload, err>>
    BY <1>t, <1>9, <2>2, Zenon DEF Encode, Encodes
  <2>4. Holds(r)'
    BY <2>1, <2>2, Zenon DEF Holds
  <2>5. Answers(r)'
    BY <1>0, <2>1, <2>3, Zenon DEF Answers
  <2> QED
    BY <2>4, <2>5, Zenon
<1>10. CASE PutReply(r)
  <2>1. pc[r] = "putReply" /\ pc'[r] = "respond" /\ UNCHANGED <<err, payload, answer>>
    BY <1>a, <1>10, Zenon DEF PutReply
  <2> QED
    BY <1>0, <2>1, Zenon DEF Holds, Answers
<1>11. CASE Respond(r)
  <2>0. pc[r] = "respond" /\ UNCHANGED <<err, payload>>
    BY <1>11, Zenon DEF Respond
  <2>1. CASE Ends(r, "none")
    BY <1>p, <1>e, <2>0, <2>1, Zenon
  <2>2. CASE ~Ends(r, "none")
    <3>1. pc'[r] = "PreWriteResponse" /\ UNCHANGED answer
      BY <1>a, <1>11, <2>2, Zenon DEF Respond
    <3> QED
      BY <1>0, <2>0, <3>1, Zenon DEF Holds, Answers
  <2> QED
    BY <2>1, <2>2, Zenon
<1>12. CASE Write(r)
  <2>0. pc[r] = "write" /\ UNCHANGED <<err, payload>>
    BY <1>12, Zenon DEF Write
  <2>1. CASE r \in Heartbeat /\ ~err[r]
    <3>1. pc'[r] = "end"
      BY <1>c, <1>12, <2>1, Zenon DEF Write
    <3> QED
      BY <1>0, <2>0, <2>1, <3>1, Zenon DEF Holds, Answers
  <2>2. CASE ~(r \in Heartbeat /\ ~err[r])
    <3>1. pc'[r] = "PostWriteResponse" /\ answer'[r] = IF err[r] THEN "error" ELSE "ok"
      BY <1>a, <1>t, <1>12, <2>2, Zenon DEF Write
    <3> QED
      BY <1>0, <2>0, <2>2, <3>1, Zenon DEF Holds, Answers
  <2> QED
    BY <2>1, <2>2, Zenon
<1> QED
  BY <1>1, <1>2, <1>3, <1>4, <1>5, <1>6, <1>7, <1>8, <1>9, <1>10, <1>11, <1>12, <1>13, Zenon
     DEF RequestStep, Hook

(* A step of a request keeps the invariant.                                *)
LEMMA RequestInv ==
    ASSUME IInv, NEW r \in Requests, RequestStep(r)
    PROVE  IInv'
<1>1. \A q \in Requests : Holds(q) /\ Answers(q)
  BY InvParts, Zenon DEF IInv
<1>2. ASSUME NEW q \in Requests, q # r PROVE Holds(q)' /\ Answers(q)'
  <2>1. /\ pc'[q] = pc[q] /\ argv'[q] = argv[q] /\ replyv'[q] = replyv[q]
        /\ err'[q] = err[q] /\ payload'[q] = payload[q] /\ answer'[q] = answer[q]
    BY <1>2, RequestOthers, Zenon DEF OthersKeep
  <2>2. replyv[q] # Nil => data'[replyv[q]] = data[replyv[q]]
    BY <1>2, RequestData, Zenon
  <2>3. Holds(q) /\ Answers(q)
    BY <1>1, Zenon
  <2>4. Holds(q)'
    BY <2>1, <2>2, <2>3, Zenon DEF Holds
  <2>5. Answers(q)'
    BY <2>1, <2>3, Zenon DEF Answers
  <2> QED
    BY <2>4, <2>5, Zenon
<1>3. \A q \in Requests : Holds(q)' /\ Answers(q)'
  BY <1>2, RequestOwn, Zenon
<1>4. SoleOwner' /\ PoolsApart' /\ DataInv' /\ AnswerInv' /\ OwnData'
  BY <1>3, RequestOwned, InvPartsNext, Zenon
<1> QED
  BY <1>4, RequestTypes, RequestReady, Zenon DEF IInv

-----------------------------------------------------------------------------
(* The other steps.                                                        *)

(* Registration touches objects only by installing empty pools.            *)
LEMMA RegistrarInv ==
    ASSUME IInv, NEW g \in Registrars, RegistrarWaits(g) \/ RegistrarStep(g)
    PROVE  IInv'
<1> USE NilFact
<1>0. TypeOK /\ Owned /\ \A q \in Requests : Holds(q) /\ Answers(q)
  BY InvParts, Zenon DEF IInv
<1>1. \A t \in Types : pools'[t] \subseteq pools[t]
  <2>0. gpc[g] \notin {"off", "idle"} => op[g].sig \in Sigs
    BY Zenon DEF IInv, ControlInv, Registrations
  <2>1. CASE UNCHANGED pools
    BY <2>1, Zenon
  <2>2. CASE Registers(g) \/ RegisterFunctionInits(g)
    BY <1>0, <2>0, <2>1, <2>2, PoolsInitFrame, Zenon DEF Registers, register, RegisterFunctionInits
  <2>3. CASE RegistersFunction(g)
    BY <2>1, <2>3, FunctionFrame, Zenon
  <2>4. CASE RegistrarWaits(g) \/ RegistrarLocks(g) \/ DoRegister(g)
    BY <2>1, <2>4, Zenon DEF RegistrarWaits, RegistrarLocks, DoRegister
  <2> QED
    BY <2>2, <2>3, <2>4, Zenon DEF RegistrarStep
<1>2. UNCHANGED <<data, argv, replyv, pc, err, payload, answer>>
  BY RegistrarFrame, Zenon
<1>3. Owned'
  <2>1. \A t \in Types : Nil \notin pools[t]
    BY <1>0, Zenon DEF TypeOK
  <2> QED
    BY <1>0, <1>1, <1>2, <2>1, Drops, Zenon
<1>4. \A q \in Requests : Holds(q)' /\ Answers(q)'
  BY <1>0, <1>2, Zenon DEF Holds, Answers
<1>5. SoleOwner' /\ PoolsApart' /\ DataInv' /\ AnswerInv' /\ OwnData'
  BY <1>3, <1>4, InvPartsNext, Zenon
<1> QED
  BY <1>5, RegistrarTypes, RegistrarServed, RegistrarServices, RegistrarReady, Zenon DEF IInv

(* Steps that touch neither the maps nor the requests keep them usable.    *)
LEMMA ServicesKept ==
    ASSUME IInv, UNCHANGED <<mapVars, inited, gpc, op, pc, service, mtype>>
    PROVE  ServiceInv' /\ ReadyInv' /\ PoolReady'
<1>1. ServiceInv'
  BY Zenon DEF IInv, ServiceInv, Installed, NilMap
<1>2. \A r \in Requests : Looks(r)'
  BY LooksFact, LooksKept, Zenon
<1>3. /\ \A g \in Registrars : \A n \in Names :
            method'[g][n] # Nil => TypesOf(method'[g][n]) \subseteq inited'
      /\ \A g \in Registrars : \A n \in Names : function'[g][n] # Nil =>
            \/ TypesOf(function'[g][n]) \subseteq inited'
            \/ \E h \in Registrars : gpc'[h] = "init" /\ op'[h].sig = function'[g][n]
  BY Zenon DEF IInv, ReadyInv
<1>4. ReadyInv' /\ PoolReady'
  BY <1>2, <1>3, Zenon DEF ReadyInv, PoolReady, Looks
<1> QED
  BY <1>1, <1>4, Zenon

(* UnregisterAll and plugin changes only withdraw announcements            *)
(* (service.go:315-336, plugin.go:143-170).                                *)
LEMMA AsideInv ==
    ASSUME IInv, Aside
    PROVE  IInv'
<1> USE DEF IInv
<1>0. UNCHANGED core
  BY AsideFrame, Zenon
<1>1. TypeOK'
  <2>1. rlocked' => rlocked \/ writer = Nil
    BY AsideFrame, Zenon
  <2>2. \A g \in Registrars : gpc'[g] \in {"locked", "init"} => writer' = g /\ ~rlocked'
    <3>1. UNCHANGED <<gpc, writer>>
      BY <1>0, Zenon DEF core
    <3>2. \A g \in Registrars : gpc[g] \in {"locked", "init"} => writer = g /\ ~rlocked
      BY Zenon DEF TypeOK
    <3> QED
      BY <2>1, <3>1, <3>2, NilFact, Zenon
  <2>3. announced' \in [Plugins -> SUBSET Paths] /\ rlocked' \in BOOLEAN
    BY AsideFrame, Zenon
  <2> QED
    BY <1>0, <2>2, <2>3, Zenon DEF TypeOK, core
<1>2. ControlInv' /\ ServedInv'
  BY <1>0, Zenon DEF ControlInv, ServedInv, core
<1>5. ServiceInv' /\ ReadyInv' /\ PoolReady'
  BY <1>0, ServicesKept, Zenon DEF core
<1>3. AnnouncedServed'
  BY <1>0, AsideFrame, Zenon DEF AnnouncedServed, core
<1>4. SoleOwner' /\ PoolsApart' /\ DataInv' /\ AnswerInv' /\ OwnData'
  BY <1>0, Zenon DEF SoleOwner, PoolsApart, DataInv, AnswerInv, OwnData, core
<1> QED
  BY <1>1, <1>2, <1>3, <1>4, <1>5, Zenon

-----------------------------------------------------------------------------
(* Every behaviour of registrations, requests, UnregisterAll and plugin    *)
(* changes satisfies the inductive invariant (service.go:62-239,           *)
(* server.go:733-922, pool.go:34-61).                                      *)
THEOREM Invariance == Spec => []IInv
<1>1. IInv /\ [Next]_vars => IInv'
  <2> SUFFICES ASSUME IInv, [Next]_vars PROVE IInv'
    OBVIOUS
  <2>1. CASE Next
    BY <2>1, RegistrarInv, RequestInv, AsideInv, Zenon DEF Next, Aside
  <2>2. CASE UNCHANGED vars
    <3>1. TypeOK' /\ ControlInv' /\ ServedInv'
      BY <2>2, Zenon DEF vars, IInv, TypeOK, ControlInv, ServedInv
    <3>4. ServiceInv' /\ ReadyInv' /\ PoolReady'
      BY <2>2, ServicesKept, Zenon DEF vars
    <3>2. AnnouncedServed' /\ SoleOwner' /\ PoolsApart'
      BY <2>2, Zenon DEF vars, IInv, AnnouncedServed, SoleOwner, PoolsApart
    <3>3. DataInv' /\ AnswerInv' /\ OwnData'
      BY <2>2, Zenon DEF vars, IInv, DataInv, AnswerInv, OwnData
    <3> QED
      BY <3>1, <3>2, <3>3, <3>4, Zenon DEF IInv
  <2> QED
    BY <2>1, <2>2, Zenon
<1> QED
  BY <1>1, InitInv, PTL DEF Spec

(* Whatever the requests, services, plugins and types: an object that is   *)
(* lent from a pool has one user at a time, although requests that fail,   *)
(* panic or are refused keep or drop theirs at different places            *)
(* (server.go:774-843, pool.go:44-61).                                     *)
THEOREM ObjectsHaveOneUser == Spec => []SoleOwner
<1>1. IInv => SoleOwner
  BY Zenon DEF IInv
<1> QED
  BY <1>1, Invariance, PTL

(* A response carries its own request's data and no other's, over any      *)
(* number of reuses of the objects (server.go:774-843, pool.go:44-53).     *)
THEOREM ResponsesHoldOwnData == Spec => []OwnData
<1>1. IInv => OwnData
  BY Zenon DEF IInv
<1> QED
  BY <1>1, Invariance, PTL

(* Whatever is registered meanwhile and however often: a request reaches   *)
(* Get for a type without a pool, where it would panic, only between the   *)
(* two halves of a registration that replaces its function by one of other *)
(* types, because handleRequestForFunction takes the lock a second time    *)
(* before it reads the function (service.go:230-236, server.go:859-872).   *)
THEOREM PoolsAreReady == Spec => []PoolReady
<1>1. IInv => PoolReady
  BY Zenon DEF IInv
<1> QED
  BY <1>1, Invariance, PTL

(* What plugins announce is served, however registrations, withdrawals and *)
(* plugin changes interleave (service.go:73-118, 159, 321-336).            *)
THEOREM AnnouncementsAreServed == Spec => []AnnouncedServed
<1>1. IInv => AnnouncedServed
  BY Zenon DEF IInv
<1> QED
  BY <1>1, Invariance, PTL

-----------------------------------------------------------------------------
(* The loops over the plugins.                                             *)

(* A set of numbers that is not empty has a least one.                     *)
LEMMA MinIs ==
    ASSUME NEW T, T \subseteq Nat, T # {}
    PROVE  Min(T) \in T /\ \A y \in T : Min(T) <= y
<1> DEFINE R == OpToRel(<, Nat)
<1>1. IsWellFoundedOn(R, Nat)
  BY NatLessThanWellFounded, Zenon DEF OpToRel
<1> HIDE DEF R
<1>2. PICK x \in T : \A y \in T : ~ (<<y, x>> \in R)
  BY <1>1, WFMin, Zenon
<1>3. \A y \in T : ~ (y < x)
  BY <1>2, Zenon DEF R, OpToRel
<1>4. \A y \in T : x <= y
  BY <1>3
<1> QED
  BY <1>4, Zenon DEF Min

(* Where the loop of a hook ends, and the plugins it passes over.          *)
Bound(r) == IF chain[r][1] = 0 THEN Len(plugins) ELSE chain[r][2]
Skipped(r, j) == j <= Len(plugins) /\ pc[r] \notin Implements[plugins[j]]

HookTypes ==
    /\ plugins \in Seq(Plugins)
    /\ chain \in [Requests -> Nat \X Nat]
    /\ agreed \in [Requests -> SUBSET Plugins]

(* One turn of a loop: it ends after the last plugin, or stops at the next *)
(* plugin that has the hook (plugin.go:245-357).                           *)
LEMMA InvokeEffect ==
    ASSUME HookTypes, NEW r \in Requests, NEW out, Invoke(r, out)
    PROVE  /\ chain' \in [Requests -> Nat \X Nat]
           /\ \A q \in Requests : q # r => chain'[q] = chain[q]
           /\ out # "more" => chain'[r][1] = 0
           /\ out = "ok" => \A j \in chain[r][1] + 1 .. Bound(r) : Skipped(r, j)
           /\ out = "more" =>
                 /\ chain'[r][1] \in chain[r][1] + 1 .. Bound(r) /\ chain'[r][1] <= Len(plugins)
                 /\ chain'[r][2] = Bound(r)
                 /\ \A j \in chain[r][1] + 1 .. chain'[r][1] - 1 : Skipped(r, j)
<1> DEFINE i == chain[r][1]
           n == Bound(r)
           todo == {j \in i + 1 .. n : j > Len(plugins) \/ pc[r] \in Implements[plugins[j]]}
<1>0. Len(plugins) \in Nat /\ chain \in [Requests -> Nat \X Nat]
  BY DEF HookTypes
<1>1. i \in Nat /\ n \in Nat
  BY <1>0, Zenon DEF Bound
<1>2. todo \subseteq Nat
  BY <1>1
<1>3. \A j \in i + 1 .. n : j \notin todo => Skipped(r, j)
  BY <1>0, <1>1 DEF Skipped
<1>4. IF todo = {} THEN out = "ok" /\ chain' = [chain EXCEPT ![r] = <<0, 0>>]
      ELSE IF Min(todo) > Len(plugins) THEN out = "panic" /\ chain' = [chain EXCEPT ![r] = <<0, 0>>]
      ELSE \/ out = "err" /\ chain' = [chain EXCEPT ![r] = <<0, 0>>]
           \/ out = "more" /\ chain' = [chain EXCEPT ![r] = <<Min(todo), n>>]
  BY Zenon DEF Invoke, Bound
<1>5. todo # {} => /\ Min(todo) \in i + 1 .. n /\ Min(todo) \in Nat
                   /\ \A j \in i + 1 .. Min(todo) - 1 : Skipped(r, j)
  <2> SUFFICES ASSUME todo # {} PROVE /\ Min(todo) \in i + 1 .. n /\ Min(todo) \in Nat
                                      /\ \A j \in i + 1 .. Min(todo) - 1 : Skipped(r, j)
    OBVIOUS
  <2>1. Min(todo) \in todo /\ \A y \in todo : Min(todo) <= y
    BY <1>2, MinIs, Zenon
  <2> DEFINE m == Min(todo)
  <2>2. m \in i + 1 .. n /\ m \in Nat
    BY <1>2, <2>1, Zenon
  <2>3. m \in i + 1 .. n /\ m \in Nat /\ \A y \in todo : m <= y
    BY <2>1, <2>2, Zenon
  <2> HIDE DEF m, todo
  <2>4. \A j \in i + 1 .. m - 1 : j \in i + 1 .. n /\ j \notin todo
    BY <1>1, <2>3
  <2> QED
    BY <1>3, <2>3, <2>4, Zenon DEF m
<1> HIDE DEF todo, n, i
<1>6. CASE chain' = [chain EXCEPT ![r] = <<0, 0>>] /\ out # "more"
  <2>1. chain' \in [Requests -> Nat \X Nat] /\ \A q \in Requests : q # r => chain'[q] = chain[q]
    BY <1>0, <1>6, Zenon
  <2>2. chain'[r][1] = 0
    BY <1>0, <1>6, Zenon
  <2>3. out = "ok" => \A j \in i + 1 .. n : Skipped(r, j)
    BY <1>3, <1>4, Zenon
  <2> QED
    BY <1>6, <2>1, <2>2, <2>3, Zenon DEF i, n
<1>7. CASE chain' = [chain EXCEPT ![r] = <<Min(todo), n>>] /\ out = "more" /\ todo # {}
           /\ ~(Min(todo) > Len(plugins))
  <2>1. chain' \in [Requests -> Nat \X Nat] /\ \A q \in Requests : q # r => chain'[q] = chain[q]
    BY <1>0, <1>1, <1>5, <1>7, Zenon
  <2>2. chain'[r][1] = Min(todo) /\ chain'[r][2] = n
    BY <1>0, <1>7, Zenon
  <2>3. Min(todo) <= Len(plugins)
    BY <1>0, <1>5, <1>7
  <2> QED
    BY <1>5, <1>7, <2>1, <2>2, <2>3, Zenon DEF i, n
<1> QED
  BY <1>4, <1>6, <1>7, Zenon

(* What the invariant says of one request.                                 *)
Guarded(r) ==
    pc[r] \in {"call", "PostCall"} /\ r \notin shifted =>
        \A p \in Range(plugins) : "PreCall" \in Implements[p] => p \in agreed[r]

Asked(r) ==
    /\ pc[r] \notin RequestHooks => chain[r][1] = 0
    /\ pc[r] = "PreCall" /\ chain[r][1] > 0 /\ r \notin shifted =>
          /\ chain[r][1] <= Len(plugins) /\ chain[r][2] = Len(plugins)
          /\ \A j \in 1 .. chain[r][1] : "PreCall" \in Implements[plugins[j]] => plugins[j] \in agreed[r]

(* The invariant of the hooks, request by request.                         *)
LEMMA HookParts ==
    /\ HookInv => HookTypes /\ \A r \in Requests : Asked(r) /\ Guarded(r)
    /\ HookTypes' /\ (\A r \in Requests : Asked(r)' /\ Guarded(r)') => HookInv'
<1>1. HookInv => HookTypes /\ \A r \in Requests : Asked(r) /\ Guarded(r)
  BY Zenon DEF HookInv, HookTypes, Asked, Guarded, GuardedCall
<1>2. HookTypes' /\ (\A r \in Requests : Asked(r)' /\ Guarded(r)') => HookInv'
  BY Zenon DEF HookInv, HookTypes, Asked, Guarded, GuardedCall
<1> QED
  BY <1>1, <1>2, Zenon

(* Requests that are not being checked.                                    *)
LEMMA Unasked ==
    ASSUME NEW r, chain'[r][1] = 0, pc'[r] \notin {"call", "PostCall"}
    PROVE  Asked(r)' /\ Guarded(r)'
BY DEF Asked, Guarded

(* A request that a step leaves alone stays as far as it was.              *)
LEMMA Untouched ==
    ASSUME NEW r, Asked(r), Guarded(r), pc'[r] = pc[r], chain'[r] = chain[r], agreed'[r] = agreed[r],
           UNCHANGED <<plugins, shifted>>
    PROVE  Asked(r)' /\ Guarded(r)'
<1>1. Asked(r)'
  BY Zenon DEF Asked
<1>2. Guarded(r)'
  BY Zenon DEF Guarded
<1> QED
  BY <1>1, <1>2, Zenon

(* DoPreCall asks the plugins one after the other (plugin.go:302-314).     *)
LEMMA PreCallAsks ==
    ASSUME IInv, HookTypes, NEW r \in Requests, Asked(r), DoPreCall(r)
    PROVE  /\ HookTypes' /\ Asked(r)' /\ Guarded(r)'
           /\ \A q \in Requests : q # r => chain'[q] = chain[q] /\ agreed'[q] = agreed[q]
<1>a. /\ pc \in [Requests -> RequestStates] /\ pc[r] = "PreCall"
      /\ plugins' = plugins /\ shifted' = shifted /\ plugins \in Seq(Plugins)
      /\ agreed \in [Requests -> SUBSET Plugins] /\ chain \in [Requests -> Nat \X Nat]
  BY Zenon DEF DoPreCall, IInv, ControlInv, HookTypes
<1>b. Len(plugins) \in Nat /\ DOMAIN plugins = 1 .. Len(plugins)
  BY <1>a
<1>0. /\ pc \in [Requests -> RequestStates] /\ pc[r] = "PreCall"
      /\ plugins' = plugins /\ shifted' = shifted
      /\ Len(plugins) \in Nat /\ DOMAIN plugins = 1 .. Len(plugins) /\ plugins \in Seq(Plugins)
      /\ agreed \in [Requests -> SUBSET Plugins] /\ chain \in [Requests -> Nat \X Nat]
  BY <1>a, <1>b, Zenon
<1>1. PICK out \in {"ok", "more", "err", "panic"} :
           /\ Invoke(r, out)
           /\ agreed' = IF out = "more" THEN [agreed EXCEPT ![r] = @ \cup {plugins[chain'[r][1]]}]
                                        ELSE agreed
           /\ \/ out = "more" /\ pc' = pc
              \/ out = "ok" /\ To(r, "call")
              \/ out = "err" /\ To(r, "respond")
              \/ out = "panic" /\ To(r, "end")
  BY Zenon DEF DoPreCall, AfterPreCallError, Fails, Ends
<1>2. /\ chain' \in [Requests -> Nat \X Nat]
      /\ \A q \in Requests : q # r => chain'[q] = chain[q]
      /\ out # "more" => chain'[r][1] = 0
      /\ out = "ok" => \A j \in chain[r][1] + 1 .. Bound(r) : Skipped(r, j)
      /\ out = "more" =>
            /\ chain'[r][1] \in chain[r][1] + 1 .. Bound(r) /\ chain'[r][1] <= Len(plugins)
            /\ chain'[r][2] = Bound(r)
            /\ \A j \in chain[r][1] + 1 .. chain'[r][1] - 1 : Skipped(r, j)
  BY <1>1, InvokeEffect, Zenon
<1>3. chain[r][1] \in Nat
  BY <1>0, Zenon
<1>4. r \notin shifted =>
         /\ Bound(r) = Len(plugins)
         /\ \A j \in 1 .. chain[r][1] : "PreCall" \in Implements[plugins[j]] => plugins[j] \in agreed[r]
  <2>1. CASE chain[r][1] = 0
    BY <2>1 DEF Bound
  <2>2. CASE chain[r][1] # 0
    <3>1. chain[r][1] > 0
      BY <1>3, <2>2
    <3> QED
      BY <1>0, <2>2, <3>1, Zenon DEF Bound, Asked
  <2> QED
    BY <2>1, <2>2, Zenon
<1>5. CASE out = "more"
  <2> DEFINE m == chain'[r][1]
  <2>1. /\ m \in chain[r][1] + 1 .. Bound(r) /\ m <= Len(plugins)
        /\ \A j \in chain[r][1] + 1 .. m - 1 : Skipped(r, j)
        /\ agreed' = [agreed EXCEPT ![r] = @ \cup {plugins[m]}] /\ pc' = pc
    BY <1>1, <1>2, <1>5, Zenon
  <2>2. m \in Nat /\ m \in 1 .. Len(plugins) /\ chain'[r][2] = Bound(r)
    BY <1>0, <1>2, <1>3, <1>5, <2>1
  <2> HIDE DEF m
  <2>3. plugins[m] \in Plugins
    BY <1>0, <2>2
  <2>4. agreed' \in [Requests -> SUBSET Plugins] /\ agreed'[r] = agreed[r] \cup {plugins[m]}
        /\ \A q \in Requests : q # r => agreed'[q] = agreed[q]
    BY <1>0, <2>1, <2>3, Zenon
  <2>5. \A j \in 1 .. m : j \in 1 .. chain[r][1] \/ j \in chain[r][1] + 1 .. m - 1 \/ j = m
    BY <1>3, <2>2
  <2>6. r \notin shifted
           => \A j \in 1 .. m : "PreCall" \in Implements[plugins[j]] => plugins[j] \in agreed'[r]
    <3> SUFFICES ASSUME r \notin shifted, NEW j \in 1 .. m, "PreCall" \in Implements[plugins[j]]
                 PROVE  plugins[j] \in agreed[r] \cup {plugins[m]}
      BY <2>4, Zenon
    <3>1. CASE j \in 1 .. chain[r][1]
      BY <1>4, <3>1, Zenon
    <3>2. j \notin chain[r][1] + 1 .. m - 1
      BY <1>0, <2>1, Zenon DEF Skipped
    <3> QED
      BY <2>5, <3>1, <3>2, Zenon
  <2>7. Asked(r)' /\ Guarded(r)'
    BY <1>0, <1>4, <2>1, <2>2, <2>6, Zenon DEF Asked, Guarded, RequestHooks, m
  <2>8. HookTypes'
    BY <1>0, <1>2, <2>4, Zenon DEF HookTypes
  <2> QED
    BY <1>2, <2>4, <2>7, <2>8, Zenon
<1>6. CASE out # "more"
  <2>1. agreed' = agreed /\ chain'[r][1] = 0
    BY <1>1, <1>2, <1>6, Zenon
  <2>2. HookTypes' /\ \A q \in Requests : q # r => chain'[q] = chain[q] /\ agreed'[q] = agreed[q]
    BY <1>0, <1>2, <2>1, Zenon DEF HookTypes
  <2>3. CASE out # "ok"
    <3>1. pc'[r] \in {"respond", "end"}
      BY <1>0, <1>1, <1>6, <2>3, Zenon DEF To
    <3> QED
      BY <2>1, <2>2, <3>1, Unasked, Zenon
  <2>4. CASE out = "ok"
    <3>1. pc'[r] = "call"
      BY <1>0, <1>1, <2>4, Zenon DEF To
    <3>2. Asked(r)'
      BY <2>1, <3>1, Zenon DEF Asked
    <3>3. ASSUME r \notin shifted, NEW p \in Range(plugins), "PreCall" \in Implements[p]
          PROVE  p \in agreed[r]
      <4>1. PICK j \in 1 .. Len(plugins) : p = plugins[j]
        BY <1>0, <3>3, Zenon DEF Range
      <4>2. j \in 1 .. chain[r][1] \/ j \in chain[r][1] + 1 .. Len(plugins)
        BY <1>0, <1>3
      <4> QED
        BY <1>0, <1>2, <1>4, <2>4, <3>3, <4>1, <4>2, Zenon DEF Skipped
    <3>4. Guarded(r)'
      BY <1>0, <2>1, <3>3, Zenon DEF Guarded
    <3> QED
      BY <2>2, <3>2, <3>4, Zenon
  <2> QED
    BY <2>3, <2>4, Zenon
<1> QED
  BY <1>5, <1>6, Zenon

(* The steps of a request at a hook other than DoPreCall.                  *)
LEMMA HookAsks ==
    ASSUME IInv, HookTypes, NEW r \in Requests, Asked(r), Guarded(r), Hook(r)
    PROVE  /\ HookTypes' /\ Asked(r)' /\ Guarded(r)'
           /\ \A q \in Requests : q # r => chain'[q] = chain[q] /\ agreed'[q] = agreed[q]
<1>0. /\ pc \in [Requests -> RequestStates] /\ pc[r] \in RequestHooks /\ pc[r] # "PreCall"
      /\ UNCHANGED <<plugins, shifted, agreed>>
  BY Zenon DEF Hook, DoPreReadRequest, DoPostReadRequest, DoHeartbeatRequest, DoPreHandleRequest,
     DoPostCall, DoPreWriteResponse, DoPostWriteResponse, RequestHooks, IInv, ControlInv
<1>1. PICK out : Invoke(r, out) /\ (out = "more" => pc' = pc)
  BY Zenon DEF Hook, DoPreReadRequest, DoPostReadRequest, DoHeartbeatRequest, DoPreHandleRequest,
     DoPostCall, DoPreWriteResponse, DoPostWriteResponse, Passes
<1>2. /\ chain' \in [Requests -> Nat \X Nat]
      /\ \A q \in Requests : q # r => chain'[q] = chain[q]
      /\ out # "more" => chain'[r][1] = 0
  BY <1>1, InvokeEffect, Zenon
<1>3. HookTypes'
  BY <1>0, <1>2, Zenon DEF HookTypes
<1>4. CASE pc'[r] = pc[r]
  <2>1. Asked(r)'
    BY <1>0, <1>4, Zenon DEF Asked
  <2>2. Guarded(r)'
    BY <1>0, <1>4, Zenon DEF Guarded
  <2> QED
    BY <1>0, <1>2, <1>3, <2>1, <2>2, Zenon
<1>5. CASE pc'[r] # pc[r]
  <2>1. chain'[r][1] = 0
    BY <1>1, <1>2, <1>5, Zenon
  <2>2. pc'[r] \notin {"call", "PostCall"}
    BY <1>0, <1>5, HookFrame, Zenon DEF HookGoes, HookFails, To, Fails, Ends
  <2> QED
    BY <1>0, <1>2, <1>3, <2>1, <2>2, Unasked, Zenon
<1> QED
  BY <1>4, <1>5, Zenon

(* The other steps of a request start no call of the service.              *)
LEMMA ElsewhereAsks ==
    ASSUME IInv, HookTypes, NEW r \in Requests, Asked(r), Guarded(r),
           RequestStep(r), ~Hook(r), ~DoPreCall(r)
    PROVE  UNCHANGED <<chain, agreed>> /\ Asked(r)' /\ Guarded(r)'
<1>0. pc \in [Requests -> RequestStates]
  BY Zenon DEF IInv, ControlInv
<1>1. CASE Call(r)
  <2>1. /\ pc[r] = "call" /\ pc'[r] = "PostCall" /\ UNCHANGED <<chain, agreed, plugins, shifted>>
    BY <1>0, <1>1, Zenon DEF Call, To
  <2>2. Asked(r)'
    BY <2>1, Zenon DEF Asked, RequestHooks
  <2>3. Guarded(r)'
    BY <2>1, Zenon DEF Guarded
  <2> QED
    BY <2>1, <2>2, <2>3, Zenon
<1>2. CASE ~Call(r)
  <2>1. \/ Auth(r) \/ Handler(r) \/ Lookup(r) \/ Resolve(r) \/ LookupFunction(r) \/ ReadFunction(r)
        \/ TakeArgs(r) \/ TakeReply(r) \/ PutArgs(r) \/ Encode(r) \/ PutReply(r) \/ Respond(r)
        \/ Write(r)
    BY <1>2, Zenon DEF RequestStep, Hook
  <2>2. UNCHANGED <<chain, agreed>> /\ pc[r] \notin RequestHooks
    BY <2>1, Zenon DEF Auth, Handler, Lookup, Resolve, LookupFunction, ReadFunction, TakeArgs,
       TakeReply, PutArgs, Encode, PutReply, Respond, Write, Keeps, RequestHooks
  <2>3. pc'[r] \notin {"call", "PostCall"}
    <3>1. CASE Auth(r)
      <4>1. \/ To(r, "HeartbeatRequest") \/ To(r, "PreHandleRequest") \/ To(r, "PreWriteResponse")
        BY <3>1, Zenon DEF Auth, Fails
      <4> QED
        BY <1>0, <4>1, Zenon DEF To
    <3>2. CASE Handler(r) \/ TakeArgs(r) \/ TakeReply(r)
      <4>1. \/ To(r, "end") \/ To(r, "respond") \/ To(r, "reply") \/ To(r, "PreCall")
        BY <3>2, Zenon DEF Handler, TakeArgs, TakeReply, Fails, Ends
      <4> QED
        BY <1>0, <4>1, Zenon DEF To
    <3>3. CASE Lookup(r) \/ Resolve(r) \/ LookupFunction(r) \/ ReadFunction(r)
      <4>1. \/ To(r, "respond") \/ To(r, "resolve") \/ To(r, "args") \/ To(r, "function")
            \/ To(r, "read")
        BY <3>3, Zenon DEF Lookup, Resolve, LookupFunction, ReadFunction, Found, Fails
      <4> QED
        BY <1>0, <4>1, Zenon DEF To
    <3>4. CASE PutArgs(r) \/ Encode(r) \/ PutReply(r) \/ Respond(r) \/ Write(r)
      <4>1. \/ To(r, "encode") \/ To(r, "putReply") \/ To(r, "respond") \/ To(r, "end") \/ To(r, "PreWriteResponse")
            \/ To(r, "PostWriteResponse")
        BY <3>4, Zenon DEF PutArgs, Encode, PutReply, Respond, Write, Ends
      <4> QED
        BY <1>0, <4>1, Zenon DEF To
    <3> QED
      BY <2>1, <3>1, <3>2, <3>3, <3>4, Zenon
  <2>4. pc'[r] \notin {"call", "PostCall"} /\ chain'[r][1] = 0
    BY <2>2, <2>3, Zenon DEF Asked
  <2> QED
    BY <2>2, <2>4, Unasked, Zenon
<1> QED
  BY <1>1, <1>2, Zenon

(* Requests.                                                               *)
LEMMA RequestHookInv ==
    ASSUME IInv, HookInv, NEW r \in Requests, RequestStep(r)
    PROVE  HookInv'
<1>0. HookTypes /\ \A q \in Requests : Asked(q) /\ Guarded(q)
  BY HookParts, Zenon
<1>1. /\ HookTypes' /\ Asked(r)' /\ Guarded(r)'
      /\ \A q \in Requests : q # r => chain'[q] = chain[q] /\ agreed'[q] = agreed[q]
  <2>1. CASE Hook(r)
    BY <1>0, <2>1, HookAsks, Zenon
  <2>2. CASE DoPreCall(r)
    BY <1>0, <2>2, PreCallAsks, Zenon
  <2>3. CASE ~Hook(r) /\ ~DoPreCall(r)
    <3>1. UNCHANGED <<chain, agreed, plugins>> /\ Asked(r)' /\ Guarded(r)'
      BY <1>0, <2>3, ElsewhereAsks, RequestFrame, Zenon
    <3> QED
      BY <1>0, <3>1, Zenon DEF HookTypes
  <2> QED
    BY <2>1, <2>2, <2>3, Zenon
<1>2. UNCHANGED <<plugins, shifted>>
  <2>1. UNCHANGED shifted
    BY Zenon DEF RequestStep, DoPreReadRequest, DoPostReadRequest, DoHeartbeatRequest,
       DoPreHandleRequest, DoPostCall, DoPreWriteResponse, DoPostWriteResponse, DoPreCall, Call,
       Auth, Handler, Lookup, Resolve, LookupFunction, ReadFunction, TakeArgs, TakeReply, PutArgs,
       Encode, PutReply, Respond, Write, Keeps
  <2> QED
    BY <2>1, RequestFrame, Zenon
<1>3. ASSUME NEW q \in Requests, q # r PROVE Asked(q)' /\ Guarded(q)'
  <2>1. pc'[q] = pc[q]
    BY <1>3, RequestOthers, Zenon DEF OthersKeep
  <2> QED
    BY <1>0, <1>1, <1>2, <1>3, <2>1, Untouched, Zenon
<1> QED
  BY <1>1, <1>3, HookParts, Zenon

(* Add and Remove: whoever was being checked has seen the plugins change.  *)
LEMMA PluginHookInv ==
    ASSUME HookInv, NEW p \in Plugins, RemovePlugin(p) \/ AddPlugin(p)
    PROVE  HookInv'
<1>0. HookTypes /\ \A q \in Requests : Asked(q) /\ Guarded(q)
  BY HookParts, Zenon
<1>1. plugins' \in Seq(Plugins)
  <2>0. plugins \in Seq(Plugins)
    BY <1>0, Zenon DEF HookTypes
  <2>1. CASE AddPlugin(p)
    <3>1. plugins' = Append(plugins, p)
      BY <2>1, Zenon DEF AddPlugin
    <3> QED
      BY <2>0, <3>1
  <2>2. CASE RemovePlugin(p)
    <3>1. PICK i \in DOMAIN plugins : plugins' = Without(i)
      BY <2>2, Zenon DEF RemovePlugin
    <3> QED
      BY <2>0, <3>1 DEF Without
  <2> QED
    BY <2>1, <2>2, Zenon
<1>2. UNCHANGED <<chain, agreed, pc>> /\ shifted' = shifted \cup BeingChecked
  BY Zenon DEF RemovePlugin, AddPlugin
<1>3. HookTypes'
  BY <1>0, <1>1, <1>2, Zenon DEF HookTypes
<1>4. ASSUME NEW q \in Requests PROVE Asked(q)' /\ Guarded(q)'
  <2>1. Asked(q)'
    BY <1>0, <1>2, Zenon DEF Asked, BeingChecked
  <2>2. Guarded(q)'
    BY <1>2, Zenon DEF Guarded, BeingChecked
  <2> QED
    BY <2>1, <2>2, Zenon
<1> QED
  BY <1>3, <1>4, HookParts, Zenon

(* Nobody else touches the plugins or the requests.                        *)
LEMMA HookStep == IInv /\ HookInv /\ [Next]_vars => HookInv'
<1> SUFFICES ASSUME IInv, HookInv, [Next]_vars PROVE HookInv'
  OBVIOUS
<1>1. CASE UNCHANGED <<plugins, chain, agreed, shifted, pc>>
  <2>0. HookTypes /\ \A q \in Requests : Asked(q) /\ Guarded(q)
    BY HookParts, Zenon
  <2>1. HookTypes'
    BY <1>1, <2>0, Zenon DEF HookTypes
  <2>2. \A q \in Requests : Asked(q)' /\ Guarded(q)'
    BY <1>1, <2>0, Untouched, Zenon
  <2> QED
    BY <2>1, <2>2, HookParts, Zenon
<1>2. CASE \E g \in Registrars : RegistrarWaits(g) \/ RegistrarStep(g)
  BY <1>1, <1>2, Zenon DEF RegistrarWaits, RegistrarStep, RegistrarLocks, Registers,
     RegistersFunction,
     RegisterFunctionInits, DoRegister
<1>3. CASE UnregisterAll \/ UnregisterStep \/ MapFault
  BY <1>1, <1>3, Zenon DEF UnregisterAll, UnregisterStep, DoUnregister, PluginUnregisters,
     UnregisterAllReturns, MapFault
<1>4. CASE UNCHANGED vars
  BY <1>1, <1>4, Zenon DEF vars
<1> QED
  BY <1>2, <1>3, <1>4, RequestHookInv, PluginHookInv, Zenon DEF Next

(* The loops keep to their invariant in every behaviour.                   *)
LEMMA HooksHold == Spec => []HookInv
<1>1. Init => HookInv
  <2> SUFFICES ASSUME Init PROVE HookInv
    OBVIOUS
  <2>1. PICK s \in Scenarios :
             /\ pc = [r \in Requests |-> IF r \in s.requests THEN "PreReadRequest" ELSE "off"]
             /\ plugins = s.plugins
    BY Zenon DEF Init
  <2>2. s \in ScenarioType
    BY <2>1, DispatchAssumption, Zenon
  <2>3. plugins \in Seq(Plugins)
    BY <2>1, <2>2, Zenon DEF ScenarioType
  <2>4. chain = [r \in Requests |-> <<0, 0>>] /\ agreed = [r \in Requests |-> {}]
    BY Zenon DEF Init
  <2>5. \A r \in Requests : chain[r][1] = 0 /\ ~(chain[r][1] > 0)
    BY <2>4
  <2>6. \A r \in Requests : pc[r] \notin {"call", "PostCall"}
    BY <2>1, Zenon
  <2>7. chain \in [Requests -> Nat \X Nat] /\ agreed \in [Requests -> SUBSET Plugins]
    BY <2>4, Zenon
  <2> QED
    BY <2>3, <2>5, <2>6, <2>7, Zenon DEF HookInv, GuardedCall
<1> QED
  BY <1>1, HookStep, Invariance, PTL DEF Spec

(* Whatever plugins there are and however requests, registrations and      *)
(* changes of the plugins interleave: a service runs only after every      *)
(* plugin with a PreCall accepted the request, unless plugins were added   *)
(* or removed meanwhile (plugin.go:143-156, 302-314, server.go:791-796).   *)
THEOREM CallsAreGuarded == Spec => []GuardedCall
<1>1. HookInv => GuardedCall
  BY Zenon DEF HookInv
<1> QED
  BY <1>1, HooksHold, PTL

-----------------------------------------------------------------------------
(* UnregisterAll.                                                          *)

UnregTypes ==
    /\ upc \in {"off", "idle", "loop", "done"}
    /\ gtodo \in [Registrars -> Seq(Plugins) \cup {Nil}]
    /\ utodo \in Seq(Paths \X Plugins)
    /\ stayed \subseteq Range(plugins)
    /\ began \subseteq {g \in Registrars : gpc[g] = "done"}

(* What a plugin announces was registered meanwhile or will be withdrawn.  *)
Todo(k, p) == upc = "loop" /\ (k \in upath \/ \E i \in DOMAIN utodo : utodo[i] = <<k, p>>)
Told == stayed \cap Registries("Register")
Accounted == \A p \in Told \ uerr : \A k \in announced[p] : Meanwhile(k) \/ Todo(k, p)

(* The parts of the invariant of UnregisterAll.                            *)
LEMMA UnregParts ==
    /\ UnregInv => UnregTypes /\ (upc \in {"loop", "done"} => Accounted)
    /\ UnregTypes' /\ (upc' \in {"loop", "done"} => Accounted') => UnregInv'
<1>1. UnregInv => UnregTypes /\ (upc \in {"loop", "done"} => Accounted)
  BY Zenon DEF UnregInv, UnregTypes, Accounted, Told, Todo
<1>2. UnregTypes' /\ (upc' \in {"loop", "done"} => Accounted') => UnregInv'
  BY Zenon DEF UnregInv, UnregTypes, Accounted, Told, Todo
<1> QED
  BY <1>1, <1>2, Zenon

(* Steps that leave UnregisterAll and the plugins alone.                   *)
LEMMA UnregFrame ==
    ASSUME UnregInv, HookTypes, UNCHANGED <<unregVars, plugins, gtodo, gpc, op, announced>>
    PROVE  UnregInv'
<1>0. UnregTypes /\ (upc \in {"loop", "done"} => Accounted)
  BY UnregParts, Zenon
<1>1. UnregTypes'
  BY <1>0, Zenon DEF UnregTypes, Range
<1>2. Accounted => Accounted'
  BY Zenon DEF Accounted, Told, Meanwhile, Todo
<1> QED
  BY <1>0, <1>1, <1>2, UnregParts, Zenon

(* A registration announces its own path, and is not one that had ended    *)
(* before UnregisterAll began (service.go:73-118, plugin.go:162-197).      *)
LEMMA RegistrarUnregInv ==
    ASSUME IInv, UnregInv, HookTypes, NEW g \in Registrars, RegistrarWaits(g) \/ RegistrarStep(g)
    PROVE  UnregInv'
<1>0. UnregTypes /\ (upc \in {"loop", "done"} => Accounted)
  BY UnregParts, Zenon
<1>1. /\ gpc \in [Registrars -> RegistrarStates] /\ op \in [Registrars -> Registrations \cup {Nil}]
      /\ announced \in [Plugins -> SUBSET Paths] /\ plugins \in Seq(Plugins)
      /\ gtodo \in [Registrars -> Seq(Plugins) \cup {Nil}]
  BY <1>0, Zenon DEF IInv, TypeOK, ControlInv, HookTypes, UnregTypes
<1>2. UNCHANGED <<unregVars, plugins>>
  BY Zenon DEF RegistrarWaits, RegistrarStep, RegistrarLocks, Registers, RegistersFunction,
     RegisterFunctionInits, DoRegister
<1>3. gpc[g] # "done" /\ \A h \in Registrars : h # g => gpc'[h] = gpc[h] /\ op'[h] = op[h]
  BY <1>1, Zenon DEF RegistrarWaits, RegistrarStep, RegistrarLocks, Registers, register,
     RegistersFunction, registerFunction, RegisterFunctionInits, DoRegister
<1>4. gpc[g] \notin {"off", "idle"} => op'[g] = op[g] /\ gpc'[g] \notin {"off", "idle"}
  BY <1>1, Zenon DEF RegistrarWaits, RegistrarStep, RegistrarLocks, Registers, register,
     RegistersFunction, registerFunction, RegisterFunctionInits, DoRegister
<1>5. \A k : Meanwhile(k) => Meanwhile(k)'
  BY <1>2, <1>3, <1>4, Zenon DEF Meanwhile
<1>6. began' \subseteq {h \in Registrars : gpc'[h] = "done"} /\ g \notin began
  BY <1>0, <1>2, <1>3, Zenon DEF UnregTypes
<1>7. CASE ~DoRegister(g)
  <2>1. UNCHANGED <<gtodo, announced>>
    BY <1>7, Zenon DEF RegistrarWaits, RegistrarStep, RegistrarLocks, Registers, RegistersFunction,
       RegisterFunctionInits
  <2>2. UnregTypes'
    BY <1>0, <1>2, <1>6, <2>1, Zenon DEF UnregTypes, Range
  <2>3. Accounted => Accounted'
    BY <1>2, <1>5, <2>1, Zenon DEF Accounted, Told, Todo
  <2> QED
    BY <1>0, <1>2, <2>2, <2>3, UnregParts, Zenon
<1>8. CASE DoRegister(g)
  <2> DEFINE todo == IF gtodo[g] = Nil THEN plugins ELSE gtodo[g]
  <2>1. todo \in Seq(Plugins)
    BY <1>1, Zenon
  <2>2. \/ gtodo' = [gtodo EXCEPT ![g] = Nil] /\ announced' = announced
        \/ /\ todo # <<>> /\ gtodo' = [gtodo EXCEPT ![g] = Tail(todo)]
           /\ announced' \in {announced, [announced EXCEPT ![Head(todo)] = @ \cup {op[g].path}]}
    BY <1>8, Zenon DEF DoRegister
  <2>3. gpc[g] = "announce"
    BY <1>8, Zenon DEF DoRegister
  <2> HIDE DEF todo
  <2>4. todo # <<>> => Tail(todo) \in Seq(Plugins)
    BY <2>1
  <2>5. gtodo' \in [Registrars -> Seq(Plugins) \cup {Nil}]
    BY <1>1, <2>2, <2>4, Zenon
  <2>6. UnregTypes'
    BY <1>0, <1>2, <1>6, <2>5, ZenonT(60) DEF UnregTypes, Range
  <2>7. ASSUME NEW k, k = op[g].path PROVE Meanwhile(k)'
    BY <1>2, <1>4, <1>6, <2>3, <2>7, Zenon DEF Meanwhile
  <2>8. \A p \in Plugins : \A k \in announced'[p] : k \in announced[p] \/ k = op[g].path
    <3>1. CASE announced' = announced
      BY <3>1, Zenon
    <3>2. CASE announced' = [announced EXCEPT ![Head(todo)] = @ \cup {op[g].path}]
      <4>1. \A p \in Plugins : \/ announced'[p] = announced[p]
                               \/ announced'[p] = announced[p] \cup {op[g].path}
        BY <1>1, <3>2, Zenon
      <4> QED
        BY <4>1, Zenon
    <3> QED
      BY <2>2, <3>1, <3>2, Zenon
  <2>9. stayed \subseteq Plugins
    <3>1. Range(plugins) \subseteq Plugins
      BY <1>1 DEF Range
    <3> QED
      BY <1>0, <3>1, Zenon DEF UnregTypes
  <2>10. ASSUME Accounted, NEW p \in Told' \ uerr', NEW k \in announced'[p]
         PROVE  Meanwhile(k)' \/ Todo(k, p)'
    <3>1. CASE k = op[g].path
      BY <2>7, <3>1, Zenon
    <3>2. CASE k \in announced[p]
      BY <1>2, <1>5, <2>10, <3>2, Zenon DEF Accounted, Told, Todo
    <3> QED
      BY <1>2, <2>8, <2>9, <2>10, <3>1, <3>2, Zenon DEF Told
  <2> QED
    BY <1>0, <1>2, <2>6, <2>10, UnregParts, Zenon DEF Accounted
<1> QED
  BY <1>7, <1>8, Zenon

(* UnregisterAll turns to every path that has a service, and thereby to    *)
(* every path that is announced; DoUnregister to every plugin.             *)
LEMMA UnregisterInv ==
    ASSUME IInv, UnregInv, HookTypes, UnregisterAll \/ UnregisterStep
    PROVE  UnregInv'
<1>0. UnregTypes /\ (upc \in {"loop", "done"} => Accounted)
  BY UnregParts, Zenon
<1>1. /\ announced \in [Plugins -> SUBSET Paths] /\ AnnouncedServed /\ plugins \in Seq(Plugins)
      /\ utodo \in Seq(Paths \X Plugins) /\ stayed \subseteq Range(plugins)
      /\ \A p \in Plugins : \A k \in announced[p] : k \in Paths
  BY <1>0, Zenon DEF IInv, TypeOK, HookTypes, UnregTypes
<1>2. Range(plugins) \subseteq Plugins /\ DOMAIN plugins = 1 .. Len(plugins)
  BY <1>1 DEF Range
<1>3. UNCHANGED <<gpc, op, plugins, gtodo>>
  BY Zenon DEF UnregisterAll, UnregisterStep, DoUnregister, PluginUnregisters, UnregisterAllReturns
<1>4. CASE UnregisterAll
  <2>1. /\ upc' = "loop" /\ upath' = {k \in Paths : serviceMap[k] # Nil} /\ stayed' = Range(plugins)
        /\ began' = {g \in Registrars : gpc[g] = "done"} /\ UNCHANGED <<utodo, uerr, announced>>
    BY <1>4, Zenon DEF UnregisterAll
  <2>2. UnregTypes'
    BY <1>0, <1>3, <2>1, Zenon DEF UnregTypes, Range
  <2>3. \A p \in stayed' : \A k \in announced'[p] : Todo(k, p)'
    BY <1>1, <1>2, <2>1, Zenon DEF Todo, AnnouncedServed
  <2> QED
    BY <2>2, <2>3, UnregParts, Zenon DEF Accounted, Told
<1>5. ASSUME NEW h \in Paths, DoUnregister(h) PROVE UnregInv'
  <2>1. /\ upc = "loop" /\ upc' = "loop" /\ utodo = <<>> /\ upath' = upath \ {h}
        /\ utodo' = [i \in 1 .. Len(plugins) |-> <<h, plugins[i]>>]
        /\ UNCHANGED <<announced, uerr, stayed, began>>
    BY <1>5, Zenon DEF DoUnregister
  <2>2. utodo' \in Seq(Paths \X Plugins)
    BY <1>1, <2>1
  <2>3. UnregTypes'
    BY <1>0, <1>3, <2>1, <2>2, Zenon DEF UnregTypes, Range
  <2>4. ASSUME NEW p \in stayed PROVE \E i \in DOMAIN utodo' : utodo'[i] = <<h, p>>
    <3>1. PICK i \in 1 .. Len(plugins) : p = plugins[i]
      BY <1>1, <1>2, <2>4, Zenon DEF Range
    <3> QED
      BY <2>1, <3>1, Zenon
  <2>5. DOMAIN utodo = {}
    BY <2>1
  <2>6. ASSUME NEW p \in stayed, NEW k, Meanwhile(k) \/ Todo(k, p) PROVE Meanwhile(k)' \/ Todo(k, p)'
    BY <1>3, <2>1, <2>4, <2>5, <2>6, Zenon DEF Meanwhile, Todo
  <2> QED
    BY <1>0, <2>1, <2>3, <2>6, UnregParts, Zenon DEF Accounted, Told
<1>6. CASE PluginUnregisters
  <2>1. /\ upc = "loop" /\ upc' = "loop" /\ utodo # <<>> /\ utodo' = Tail(utodo)
        /\ UNCHANGED <<upath, stayed, began>>
    BY <1>6, Zenon DEF PluginUnregisters, LeftAfterError
  <2>2. /\ utodo' \in Seq(Paths \X Plugins) /\ Head(utodo) = utodo[1]
        /\ \A i \in DOMAIN utodo : i # 1 => i - 1 \in DOMAIN utodo' /\ utodo'[i - 1] = utodo[i]
        /\ utodo[1] \in Paths \X Plugins
    BY <1>1, <2>1
  <2>3. PICK k0 \in Paths, p0 \in Plugins : utodo[1] = <<k0, p0>>
    BY <2>2
  <2>4. k0 = Head(utodo)[1] /\ p0 = Head(utodo)[2]
    BY <2>2, <2>3
  <2>5. \/ /\ announced' = IF p0 \in Registries("Register")
                              THEN [announced EXCEPT ![p0] = @ \ {k0}] ELSE announced
           /\ uerr' = uerr
        \/ uerr' = uerr \cup {p0} /\ announced' = announced
    BY <1>6, <2>4, Zenon DEF PluginUnregisters
  <2>6. UnregTypes'
    <3>1. utodo' \in Seq(Paths \X Plugins)
      BY <2>2, Zenon
    <3>2. stayed' \subseteq Range(plugins')
      BY <1>1, <1>3, <2>1, Zenon
    <3> QED
      BY <1>0, <1>3, <2>1, <3>1, <3>2, Zenon DEF UnregTypes
  <2>7. ASSUME NEW p \in Told' \ uerr', NEW k \in announced'[p] PROVE Meanwhile(k)' \/ Todo(k, p)'
    <3>1. p \in Told \ uerr /\ p \in Plugins /\ p \in Registries("Register")
      BY <1>1, <1>2, <2>1, <2>5, <2>7, Zenon DEF Told
    <3>2. k \in announced[p] /\ ~(k = k0 /\ p = p0)
      BY <1>1, <2>5, <2>7, <3>1, Zenon DEF Told
    <3>3. Meanwhile(k) \/ Todo(k, p)
      BY <1>0, <2>1, <3>1, <3>2, Zenon DEF Accounted
    <3>4. CASE Meanwhile(k)
      BY <1>3, <2>1, <3>4, Zenon DEF Meanwhile
    <3>5. CASE k \in upath
      BY <2>1, <3>5, Zenon DEF Todo
    <3>6. ASSUME NEW i \in DOMAIN utodo, utodo[i] = <<k, p>> PROVE Todo(k, p)'
      <4>1. i # 1
        BY <2>3, <3>2, <3>6
      <4> QED
        BY <2>1, <2>2, <3>6, <4>1, Zenon DEF Todo
    <3> QED
      BY <3>3, <3>4, <3>5, <3>6, Zenon DEF Todo
  <2> QED
    BY <2>6, <2>7, UnregParts, Zenon DEF Accounted
<1>7. CASE UnregisterAllReturns
  <2>1. /\ upc = "loop" /\ upc' = "done" /\ utodo = <<>> /\ upath = {}
        /\ UNCHANGED <<utodo, uerr, stayed, began, announced>>
    BY <1>7, Zenon DEF UnregisterAllReturns
  <2>2. UnregTypes'
    BY <1>0, <1>3, <2>1, Zenon DEF UnregTypes, Range
  <2>3. DOMAIN utodo = {}
    BY <2>1
  <2>4. \A p, k : ~Todo(k, p)
    BY <2>1, <2>3, Zenon DEF Todo
  <2>5. Accounted'
    BY <1>0, <1>3, <2>1, <2>4, Zenon DEF Accounted, Told, Meanwhile
  <2> QED
    BY <2>2, <2>5, UnregParts, Zenon
<1> QED
  BY <1>4, <1>5, <1>6, <1>7, Zenon DEF UnregisterStep

(* A plugin that is not removed is still installed.                        *)
LEMMA PluginUnregInv ==
    ASSUME UnregInv, HookTypes, NEW p \in Plugins, RemovePlugin(p) \/ AddPlugin(p)
    PROVE  UnregInv'
<1>0. UnregTypes /\ (upc \in {"loop", "done"} => Accounted)
  BY UnregParts, Zenon
<1>1. /\ UNCHANGED <<gpc, op, gtodo, upc, upath, utodo, uerr, began, announced>>
      /\ stayed' \subseteq stayed
  BY Zenon DEF RemovePlugin, AddPlugin
<1>2. plugins \in Seq(Plugins)
  BY Zenon DEF HookTypes
<1>3. stayed' \subseteq Range(plugins')
  <2>1. ASSUME NEW q \in stayed' PROVE q \in Range(plugins')
    <3>1. PICK j \in DOMAIN plugins : q = plugins[j]
      BY <1>0, <1>1, <2>1, Zenon DEF UnregTypes, Range
    <3>2. CASE AddPlugin(p)
      <4>1. plugins' = Append(plugins, p)
        BY <3>2, Zenon DEF AddPlugin
      <4>2. j \in DOMAIN plugins' /\ plugins'[j] = q
        BY <1>2, <3>1, <4>1
      <4> QED
        BY <4>2, Zenon DEF Range
    <3>3. CASE RemovePlugin(p)
      <4>1. PICK i \in DOMAIN plugins : plugins[i] = p /\ plugins' = Without(i)
        BY <3>3, Zenon DEF RemovePlugin
      <4>2. q # p
        BY <2>1, <3>3, Zenon DEF RemovePlugin
      <4>3. i # j /\ i \in 1 .. Len(plugins) /\ j \in 1 .. Len(plugins) /\ Len(plugins) \in Nat
        BY <1>2, <3>1, <4>1, <4>2
      <4>4. plugins' = [l \in 1 .. Len(plugins) - 1 |-> plugins[IF l < i THEN l ELSE l + 1]]
        BY <4>1, Zenon DEF Without
      <4>5. CASE j < i
        <5>1. j \in 1 .. Len(plugins) - 1
          BY <4>3, <4>5
        <5>2. j \in DOMAIN plugins' /\ plugins'[j] = q
          BY <3>1, <4>4, <4>5, <5>1, Zenon
        <5> QED
          BY <5>2, Zenon DEF Range
      <4>6. CASE ~(j < i)
        <5>1. j - 1 \in 1 .. Len(plugins) - 1 /\ ~(j - 1 < i) /\ (j - 1) + 1 = j
          BY <4>3, <4>6
        <5>2. j - 1 \in DOMAIN plugins' /\ plugins'[j - 1] = q
          BY <3>1, <4>4, <5>1, Zenon
        <5> QED
          BY <5>2, Zenon DEF Range
      <4> QED
        BY <4>5, <4>6, Zenon
    <3> QED
      BY <3>2, <3>3, Zenon
  <2> QED
    BY <2>1, Zenon
<1>4. UnregTypes'
  BY <1>0, <1>1, <1>3, Zenon DEF UnregTypes
<1>5. Accounted => Accounted'
  BY <1>1, Zenon DEF Accounted, Told, Meanwhile, Todo
<1> QED
  BY <1>0, <1>1, <1>4, <1>5, UnregParts, Zenon

(* Every step.                                                             *)
LEMMA UnregStep == IInv /\ HookInv /\ UnregInv /\ [Next]_vars => UnregInv'
<1> SUFFICES ASSUME IInv, HookInv, UnregInv, [Next]_vars PROVE UnregInv'
  OBVIOUS
<1>0. HookTypes
  BY HookParts, Zenon
<1>1. CASE \E g \in Registrars : RegistrarWaits(g) \/ RegistrarStep(g)
  BY <1>0, <1>1, RegistrarUnregInv, Zenon
<1>2. CASE UnregisterAll \/ UnregisterStep
  BY <1>0, <1>2, UnregisterInv, Zenon
<1>3. CASE \E p \in Plugins : RemovePlugin(p) \/ AddPlugin(p)
  BY <1>0, <1>3, PluginUnregInv, Zenon
<1>4. CASE \E r \in Requests : RequestStep(r)
  <2>1. UNCHANGED NotServing
    BY <1>4, RequestFrame, Zenon
  <2> QED
    BY <1>0, <2>1, UnregFrame, Zenon
<1>5. CASE MapFault
  BY <1>0, <1>5, UnregFrame, Zenon DEF MapFault
<1>6. CASE UNCHANGED vars
  BY <1>0, <1>6, UnregFrame, Zenon DEF vars
<1> QED
  BY <1>1, <1>2, <1>3, <1>4, <1>5, <1>6, Zenon DEF Next

(* Whatever is registered, added, removed and fails meanwhile: once        *)
(* UnregisterAll has returned, a RegisterPlugin that was installed all the *)
(* time and did not fail itself announces only services registered         *)
(* meanwhile (service.go:321-336, plugin.go:137-156, 199-214).             *)
THEOREM ServicesAreWithdrawn == Spec => []Withdrawn
<1>1. Init => UnregInv
  <2> SUFFICES ASSUME Init PROVE UnregInv
    OBVIOUS
  <2>1. upc \in {"off", "idle"} /\ stayed = {} /\ began = {} /\ utodo = <<>>
        /\ gtodo = [g \in Registrars |-> Nil]
    BY Zenon DEF Init
  <2>2. utodo \in Seq(Paths \X Plugins)
    BY <2>1
  <2> QED
    BY <2>1, <2>2, Zenon DEF UnregInv
<1>2. UnregInv => Withdrawn
  BY Zenon DEF UnregInv, Withdrawn
<1> QED
  BY <1>1, <1>2, HooksHold, UnregStep, Invariance, PTL DEF Spec
=============================================================================

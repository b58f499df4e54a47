------------------------------ MODULE OneClient ------------------------------
(***************************************************************************)
(* client/oneclient.go and client/oneclient_pool.go: a pool of OneClients, *)
(* each with one XClient per service path, created when a user first needs *)
(* it and configured by Auth, SetPlugins, ConfigGeoSelector and            *)
(* SetSelector while users create and use XClients.                        *)
(*                                                                         *)
(* The fields auth, Plugins, selectMode and the location are written       *)
(* without a lock, the map is read under mu.RLock and written under        *)
(* mu.Lock. A setter that meets the nil XClient that a failed creation has *)
(* left in the map panics and keeps the lock it holds.                     *)
(***************************************************************************)
EXTENDS Integers

CONSTANTS
    Users,      \* invocations of Call, SendFile, Stream ... of a OneClient
    PathOf,     \* user -> the service path it asks for
    Paths,
    Setters,    \* invocations of the setters and of the pool's Auth and Close
    OpOf,       \* setter -> which one it is
    OnPath,     \* setter -> the path given to SetSelector
    Count,      \* OneClients in the pool
    MaxIndex,   \* bound on the pool's index
    Scenarios,  \* which users and setters take part
    Absent,     \* no entry in the map
    nil         \* a nil XClient, and the value of a field that was never set

Fields == {"Auth", "SetPlugins", "ConfigGeoSelector"}
Pool == 0 .. Count - 1

ASSUME OneClientAssumption ==
    /\ Count \in Nat \ {0}
    /\ MaxIndex \in Nat
    /\ PathOf \in [Users -> Paths]
    /\ OpOf \in [Setters -> Fields \cup {"SetSelector", "Close"}]
    /\ OnPath \in [Setters -> Paths]
    /\ Absent # nil
    /\ {Absent, nil} \cap (Users \cup Setters) = {}
    /\ \A s \in Scenarios : s.users \subseteq Users /\ s.setters \subseteq Setters

VARIABLES
    index,      \* OneClientPool.index
    xclients,   \* OneClient, path -> its XClient (named by its creator), nil or Absent
    conf,       \* OneClient, field -> the setter whose value it holds
    selectors,  \* OneClient, path -> the setter whose selector it holds
    attr,       \* XClient -> the values it was configured with
    shutDown,   \* XClients that were closed
    upc,        \* user -> where it is
    oc,         \* user -> the OneClient it uses
    x,          \* user -> the XClient it uses
    gpc,        \* setter -> where it is
    gi,         \* setter -> the OneClient it is at
    gtodo       \* setter -> paths it has yet to visit

userVars == <<upc, oc, x>>
setterVars == <<gpc, gi, gtodo>>
xclientVars == <<xclients, conf, selectors, attr, shutDown>>
oneVars == <<index, xclientVars, userVars, setterVars>>

OneInit ==
    \E s \in Scenarios :
        /\ index = 0
        /\ xclients = [i \in Pool |-> [p \in Paths |-> Absent]]
        /\ conf = [i \in Pool |-> [f \in Fields |-> nil]]
        /\ selectors = [i \in Pool |-> [p \in Paths |-> nil]]
        /\ attr = [u \in Users |-> [Auth |-> nil, SetPlugins |-> nil, selector |-> nil]]
        /\ shutDown = {}
        /\ upc = [u \in Users |-> IF u \in s.users THEN "idle" ELSE "absent"]
        /\ oc = [u \in Users |-> 0]
        /\ x = [u \in Users |-> nil]
        /\ gpc = [g \in Setters |-> IF g \in s.setters THEN "idle" ELSE "absent"]
        /\ gi = [g \in Setters |-> 0]
        /\ gtodo = [g \in Setters |-> {}]

-----------------------------------------------------------------------------
(* mu of a OneClient.                                                      *)

(* Who holds mu.RLock for more than one step, and who holds mu.Lock.       *)
Readers(i) == {g \in Setters : gpc[g] \in {"loop", "panicked"} /\ gi[g] = i}
Writers(i) == {u \in Users : upc[u] = "creating" /\ oc[u] = i}
              \cup {g \in Setters : gpc[g] = "stuck" /\ gi[g] = i}

RLockable_Always(i) == TRUE
RLockable(i) == Writers(i) = {}
Lockable(i) == Writers(i) = {} /\ Readers(i) = {}

-----------------------------------------------------------------------------
(* Users: OneClientPool.Get, and what Go, Call, SendRaw, Broadcast, Fork,  *)
(* SendFile, DownloadFile and Stream have in common.                       *)

(* picked := int(i % p.count)                                              *)
Picked(i) == i % Count

Get(u) ==
    /\ upc[u] = "idle"
    /\ index < MaxIndex
    /\ \A g \in Setters : OpOf[g] = "Close" => gpc[g] # "end"
    /\ index' = index + 1
    /\ oc' = [oc EXCEPT ![u] = Picked(index + 1)]
    /\ upc' = [upc EXCEPT ![u] = "lookup"]
    /\ UNCHANGED <<x, xclientVars, setterVars>>

Stored(u) == xclients[oc[u]][PathOf[u]]

(* The map is read under RLock.                                            *)
Lookup(u) ==
    /\ upc[u] = "lookup"
    /\ RLockable(oc[u])
    /\ IF Stored(u) \in Users
          THEN /\ x' = [x EXCEPT ![u] = Stored(u)]
               /\ upc' = [upc EXCEPT ![u] = "call"]
          ELSE /\ upc' = [upc EXCEPT ![u] = "create"]
               /\ UNCHANGED x
    /\ UNCHANGED <<index, oc, xclientVars, setterVars>>

(* The selector a new XClient ends up with: that of the location if there  *)
(* is one, otherwise the user's, otherwise the one of its selectMode.      *)
SelectorFor(i, p) ==
    IF conf[i]["ConfigGeoSelector"] # nil THEN conf[i]["ConfigGeoSelector"] ELSE selectors[i][p]

Missing_NoRecheck(u) == TRUE
Missing(u) == Stored(u) \notin Users

(* The map is read again under Lock; newXClient reads the fields.          *)
Create(u) ==
    /\ upc[u] = "create"
    /\ Lockable(oc[u])
    /\ IF Missing(u)
          THEN /\ upc' = [upc EXCEPT ![u] = "creating"]
               /\ attr' = [attr EXCEPT ![u] =
                     [Auth |-> conf[oc[u]]["Auth"],
                      SetPlugins |-> conf[oc[u]]["SetPlugins"],
                      selector |-> SelectorFor(oc[u], PathOf[u])]]
               /\ UNCHANGED x
          ELSE /\ upc' = [upc EXCEPT ![u] = "call"]
               /\ x' = [x EXCEPT ![u] = Stored(u)]
               /\ UNCHANGED attr
    /\ UNCHANGED <<index, oc, xclients, conf, selectors, shutDown, setterVars>>

(* The new XClient is put in the map and mu unlocked ...                   *)
Install(u) ==
    /\ upc[u] = "creating"
    /\ xclients' = [xclients EXCEPT ![oc[u]][PathOf[u]] = u]
    /\ x' = [x EXCEPT ![u] = u]
    /\ upc' = [upc EXCEPT ![u] = "call"]
    /\ UNCHANGED <<index, oc, conf, selectors, attr, shutDown, setterVars>>

(* ... or Clone failed or NewXClient panicked, and nil is put there.       *)
NewXClientFails(u) ==
    /\ upc[u] = "creating"
    /\ xclients' = [xclients EXCEPT ![oc[u]][PathOf[u]] = nil]
    /\ upc' = [upc EXCEPT ![u] = "end"]
    /\ UNCHANGED <<index, oc, x, conf, selectors, attr, shutDown, setterVars>>

-----------------------------------------------------------------------------
(* Setters. Auth and Close of the pool visit every OneClient in turn.      *)

OfAll(g) == OpOf[g] \in {"Auth", "Close"}

(* A setter is called, or goes on to the next OneClient of the pool:       *)
(* c.auth = auth, and likewise c.Plugins and the location, without a lock. *)
SetField(g) ==
    /\ gpc[g] \in {"idle", "next"} /\ OpOf[g] # "SetSelector"
    /\ gpc' = [gpc EXCEPT ![g] = "lock"]
    /\ conf' = IF OpOf[g] \in Fields THEN [conf EXCEPT ![gi[g]][OpOf[g]] = g] ELSE conf
    /\ UNCHANGED <<index, xclients, selectors, attr, shutDown, userVars, gi, gtodo>>

RangeXClients(g) ==
    /\ gpc[g] = "lock"
    /\ RLockable(gi[g])
    /\ gpc' = [gpc EXCEPT ![g] = "loop"]
    /\ gtodo' = [gtodo EXCEPT ![g] = {p \in Paths : xclients[gi[g]][p] # Absent}]
    /\ UNCHANGED <<index, xclientVars, userVars, gi>>

(* v.Auth(auth), v.SetPlugins(plugins), v.ConfigGeoSelector(...).          *)
Configured(a, g) ==
    IF OpOf[g] = "ConfigGeoSelector" THEN [a EXCEPT !.selector = g] ELSE [a EXCEPT ![OpOf[g]] = g]

(* One XClient of the map; a method of a nil one panics with mu read       *)
(* locked.                                                                 *)
Visit(g, p) ==
    /\ gpc[g] = "loop" /\ p \in gtodo[g]
    /\ LET c == xclients[gi[g]][p] IN
       IF c = nil
       THEN /\ gpc' = [gpc EXCEPT ![g] = "panicked"]
            /\ UNCHANGED <<attr, shutDown, gtodo>>
       ELSE /\ gtodo' = [gtodo EXCEPT ![g] = @ \ {p}]
            /\ IF OpOf[g] = "Close"
                  THEN shutDown' = shutDown \cup {c} /\ UNCHANGED attr
                  ELSE attr' = [attr EXCEPT ![c] = Configured(@, g)] /\ UNCHANGED shutDown
            /\ UNCHANGED gpc
    /\ UNCHANGED <<index, xclients, conf, selectors, userVars, gi>>

RUnlock(g) ==
    /\ gpc[g] = "loop" /\ gtodo[g] = {}
    /\ IF OfAll(g) /\ gi[g] < Count - 1
          THEN /\ gpc' = [gpc EXCEPT ![g] = "next"]
               /\ gi' = [gi EXCEPT ![g] = @ + 1]
          ELSE /\ gpc' = [gpc EXCEPT ![g] = "end"]
               /\ UNCHANGED gi
    /\ UNCHANGED <<index, xclientVars, userVars, gtodo>>

(* SetSelector does all of it under mu.Lock.                               *)
SetSelector(g) ==
    /\ gpc[g] = "idle" /\ OpOf[g] = "SetSelector"
    /\ Lockable(gi[g])
    /\ selectors' = [selectors EXCEPT ![gi[g]][OnPath[g]] = g]
    /\ LET c == xclients[gi[g]][OnPath[g]] IN
       /\ gpc' = [gpc EXCEPT ![g] = IF c = nil THEN "stuck" ELSE "end"]
       /\ attr' = IF c \in Users THEN [attr EXCEPT ![c].selector = g] ELSE attr
    /\ UNCHANGED <<index, xclients, conf, shutDown, userVars, gi, gtodo>>

-----------------------------------------------------------------------------
OneStep ==
    \/ \E u \in Users : Get(u) \/ Lookup(u) \/ Create(u) \/ Install(u) \/ NewXClientFails(u)
    \/ \E g \in Setters :
          \/ SetField(g)
          \/ RangeXClients(g)
          \/ \E p \in Paths : Visit(g, p)
          \/ RUnlock(g)
          \/ SetSelector(g)

(* Where a user is before it has an XClient, and where it may be at all.   *)
Early == {"absent", "idle", "lookup", "create", "creating"}
UserStates ==
    Early \cup {"call", "dial", "token", "transfer", "reading", "stalled", "end"}

(* What a user does with its XClient leaves the OneClients alone; the      *)
(* steps are those of the operation it has called (module Transfer).       *)
UseXClient(u) ==
    /\ upc[u] \notin Early
    /\ \E s \in UserStates \ Early : upc' = [upc EXCEPT ![u] = s]
    /\ UNCHANGED <<index, oc, x, xclientVars, setterVars>>

OneSpec == OneInit /\ [][OneStep \/ \E u \in Users : UseXClient(u)]_oneVars

-----------------------------------------------------------------------------
Attributes == [Auth : Setters \cup {nil}, SetPlugins : Setters \cup {nil},
               selector : Setters \cup {nil}]

OneTypeOK ==
    /\ index \in 0 .. MaxIndex
    /\ xclients \in [Pool -> [Paths -> Users \cup {nil, Absent}]]
    /\ conf \in [Pool -> [Fields -> Setters \cup {nil}]]
    /\ selectors \in [Pool -> [Paths -> Setters \cup {nil}]]
    /\ attr \in [Users -> Attributes]
    /\ shutDown \in SUBSET Users
    /\ upc \in [Users -> UserStates]
    /\ oc \in [Users -> Pool]
    /\ x \in [Users -> Users \cup {nil}]
    /\ gpc \in [Setters -> {"absent", "idle", "lock", "loop", "next", "panicked", "stuck", "end"}]
    /\ gi \in [Setters -> Pool]
    /\ gtodo \in [Setters -> SUBSET Paths]

(* Users of one path of a OneClient share one XClient, and an XClient that *)
(* was created stays in the map, where Close finds it, however many users  *)
(* find the map empty at the same time (oneclient.go:112-126, 177-191).    *)
OnePerPath == \A u \in Users : x[u] # nil => x[u] = Stored(u)

(* Operations that set the same thing.                                     *)
Rival(g, h) ==
    \/ OpOf[g] = OpOf[h]
    \/ {OpOf[g], OpOf[h]} = {"ConfigGeoSelector", "SetSelector"}

(* The setters that have begun to set on OneClient i what setter g sets.   *)
HasSet(i, h) ==
    /\ gpc[h] \notin {"absent", "idle"}
    /\ gi[h] >= i
    /\ gi[h] = i => gpc[h] # "next"
Begun(i, g) == {h \in Setters : Rival(g, h) /\ HasSet(i, h)}
Passed(i, g) == gpc[g] = "end" \/ gi[g] > i

(* Once a setter has done with a OneClient, every XClient of it has the    *)
(* setter's value, the ones that were being created meanwhile included,    *)
(* unless another setter of the same thing has begun: there is no moment   *)
(* at which a new XClient can miss both the field and the loop             *)
(* (oneclient.go:72-107, 150-168; oneclient_pool.go:62-69).                *)
Has(c, p, g) ==
    CASE OpOf[g] = "SetSelector" -> p = OnPath[g] => attr[c].selector = g
      [] OpOf[g] = "ConfigGeoSelector" -> attr[c].selector = g
      [] OTHER -> attr[c][OpOf[g]] = g
SettingsReach ==
    \A g \in Setters, i \in Pool :
        Passed(i, g) /\ Begun(i, g) = {g} /\ OpOf[g] # "Close" =>
            \A p \in Paths : xclients[i][p] \in Users => Has(xclients[i][p], p, g)

-----------------------------------------------------------------------------
(* The inductive invariant behind the two invariants above.                *)

(* A user has no XClient before it has left the code of getXClient, and    *)
(* the XClient that user u has created is in the map of u's OneClient      *)
(* under u's path, if anywhere.                                            *)
OwnInv ==
    /\ \A u \in Users : x[u] # nil => upc[u] \notin Early /\ x[u] = Stored(u)
    /\ \A i \in Pool, p \in Paths, c \in Users :
          xclients[i][p] = c => oc[c] = i /\ PathOf[c] = p /\ upc[c] \notin Early

(* Whoever creates an XClient holds mu, and the map has none yet.          *)
MuInv ==
    /\ \A u \in Users : upc[u] = "creating" => Stored(u) \notin Users
    /\ \A u, v \in Users :
          upc[u] = "creating" /\ upc[v] = "creating" /\ oc[u] = oc[v] => u = v
    /\ \A u \in Users, g \in Setters :
          upc[u] = "creating" /\ gi[g] = oc[u] => gpc[g] \notin {"loop", "panicked", "stuck"}

(* The loops of the setters run over entries of the map.                   *)
LoopInv ==
    \A g \in Setters :
        /\ gpc[g] = "loop" => \A p \in gtodo[g] : xclients[gi[g]][p] # Absent
        /\ gpc[g] \in {"lock", "loop", "next", "panicked"} => OpOf[g] # "SetSelector"
        /\ gpc[g] \in {"absent", "idle"} => gi[g] = 0

MapInv == OwnInv /\ MuInv /\ LoopInv

(* A field holds the value of a setter that has set it.                    *)
FieldInv ==
    \A i \in Pool, f \in Fields :
        conf[i][f] # nil => OpOf[conf[i][f]] = f /\ HasSet(i, conf[i][f])

(* Setter g has yet to visit the XClient for path p of OneClient i.        *)
Visiting(i, p, g) ==
    gi[g] = i /\ (gpc[g] = "lock" \/ (gpc[g] \in {"loop", "panicked"} /\ p \in gtodo[g]))

(* The value of a setter without a rival is in its field, and in every     *)
(* XClient, created or being created, that the setter will not visit.      *)
Reached(i, g) ==
    /\ IF OpOf[g] \in Fields THEN conf[i][OpOf[g]] = g ELSE selectors[i][OnPath[g]] = g
    /\ \A p \in Paths :
          xclients[i][p] \in Users => Has(xclients[i][p], p, g) \/ Visiting(i, p, g)
    /\ \A u \in Users :
          upc[u] = "creating" /\ oc[u] = i =>
              Has(u, PathOf[u], g) \/ (gi[g] = i /\ gpc[g] = "lock")

ReachInv ==
    \A g \in Setters, i \in Pool :
        HasSet(i, g) /\ Begun(i, g) = {g} /\ OpOf[g] # "Close" => Reached(i, g)

OneInv == OneTypeOK /\ MapInv /\ FieldInv /\ ReachInv
=============================================================================

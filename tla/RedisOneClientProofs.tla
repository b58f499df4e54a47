---------------------- MODULE RedisOneClientProofs ----------------------
(***************************************************************************)
(* Two components that share nothing: the OneClients, for every pool, set  *)
(* of users, of setters and of paths, whatever their users do with the     *)
(* XClients they get; and the Redis registration plugin, for all services, *)
(* callers of its operations, stoppers and numbers of attempts.            *)
(***************************************************************************)
EXTENDS RedisRegister, OneClient, TLAPS

-----------------------------------------------------------------------------
(* OneClients. What users do with their XClients, and stuttering.          *)
LateDoes ==
    /\ UNCHANGED <<index, oc, x, xclientVars, setterVars>>
    /\ upc' \in [Users -> UserStates]
    /\ \A u \in Users : upc'[u] = upc[u] \/ (upc[u] \notin Early /\ upc'[u] \notin Early)

LEMMA UseDoes ==
    ASSUME OneTypeOK, (\E u \in Users : UseXClient(u)) \/ UNCHANGED oneVars
    PROVE  LateDoes
<1>0. upc \in [Users -> UserStates]
  BY Zenon DEF OneTypeOK
<1>1. ASSUME NEW u \in Users, UseXClient(u) PROVE LateDoes
  <2>1. PICK s \in UserStates \ Early : upc' = [upc EXCEPT ![u] = s]
    BY <1>1, Zenon DEF UseXClient
  <2>2. upc'[u] = s /\ \A v \in Users \ {u} : upc'[v] = upc[v]
    BY <1>0, <2>1, Zenon
  <2>3. upc' \in [Users -> UserStates]
    BY <1>0, <2>1, Zenon
  <2> QED
    BY <1>1, <2>2, <2>3, Zenon DEF UseXClient, LateDoes
<1>2. CASE UNCHANGED oneVars
  BY <1>0, <1>2, Zenon DEF LateDoes, oneVars, userVars
<1> QED
  BY <1>1, <1>2, Zenon

LEMMA AttributeType ==
    /\ \A a, b, c \in Setters \cup {nil} :
          [Auth |-> a, SetPlugins |-> b, selector |-> c] \in Attributes
    /\ \A a \in Attributes, g \in Setters :
          /\ [a EXCEPT !.selector = g] \in Attributes
          /\ OpOf[g] \in Fields => Configured(a, g) \in Attributes
BY Zenon DEF Attributes, Configured, Fields

LEMMA OneTypeStep ==
    ASSUME OneTypeOK, MapInv, OneStep \/ LateDoes
    PROVE  OneTypeOK'
<1>0. OneTypeOK /\ {"lookup", "create", "creating", "call", "end"} \subseteq UserStates
  BY Zenon DEF UserStates, Early
<1>1. ASSUME NEW u \in Users, Get(u) PROVE OneTypeOK'
  <2>1. index + 1 \in 0 .. MaxIndex /\ Picked(index + 1) \in Pool
    BY <1>0, <1>1, OneClientAssumption DEF Get, Picked, Pool, OneTypeOK
  <2>2. oc' \in [Users -> Pool] /\ upc' \in [Users -> UserStates]
    BY <1>0, <1>1, <2>1, Zenon DEF Get, OneTypeOK
  <2> QED
    BY <1>0, <1>1, <2>1, <2>2, Zenon DEF Get, OneTypeOK, xclientVars, setterVars
<1>2. ASSUME NEW u \in Users, Lookup(u) PROVE OneTypeOK'
  <2>1. x' \in [Users -> Users \cup {nil}]
    BY <1>0, <1>2, Zenon DEF Lookup, OneTypeOK
  <2>2. upc' \in [Users -> UserStates]
    BY <1>0, <1>2, Zenon DEF Lookup, OneTypeOK
  <2> QED
    BY <1>0, <1>2, <2>1, <2>2, Zenon DEF Lookup, OneTypeOK, xclientVars, setterVars
<1>3. ASSUME NEW u \in Users, Create(u) PROVE OneTypeOK'
  <2>1. oc[u] \in Pool /\ PathOf[u] \in Paths
    BY <1>0, OneClientAssumption, Zenon DEF OneTypeOK
  <2>2. /\ conf[oc[u]]["Auth"] \in Setters \cup {nil}
        /\ conf[oc[u]]["SetPlugins"] \in Setters \cup {nil}
        /\ SelectorFor(oc[u], PathOf[u]) \in Setters \cup {nil}
    BY <1>0, <2>1 DEF OneTypeOK, Fields, SelectorFor
  <2>3. attr' \in [Users -> Attributes]
    <3>1. attr \in [Users -> Attributes]
      BY <1>0, Zenon DEF OneTypeOK
    <3>2. \/ attr' = attr
          \/ \E a \in Attributes : attr' = [attr EXCEPT ![u] = a]
      BY <1>3, <2>2, AttributeType, Zenon DEF Create
    <3> QED
      BY <3>1, <3>2, Zenon
  <2>4. x' \in [Users -> Users \cup {nil}]
    BY <1>0, <1>3, Zenon DEF Create, Missing, OneTypeOK
  <2>5. upc' \in [Users -> UserStates]
    BY <1>0, <1>3, Zenon DEF Create, OneTypeOK
  <2> QED
    BY <1>0, <1>3, <2>3, <2>4, <2>5, Zenon DEF Create, OneTypeOK, setterVars
<1>4. ASSUME NEW u \in Users, Install(u) PROVE OneTypeOK'
  <2>1. oc[u] \in Pool /\ PathOf[u] \in Paths
    BY <1>0, OneClientAssumption, Zenon DEF OneTypeOK
  <2>2. xclients' \in [Pool -> [Paths -> Users \cup {nil, Absent}]]
    BY <1>0, <1>4, <2>1, Zenon DEF Install, OneTypeOK
  <2>3. x' \in [Users -> Users \cup {nil}] /\ upc' \in [Users -> UserStates]
    BY <1>0, <1>4, Zenon DEF Install, OneTypeOK
  <2> QED
    BY <1>0, <1>4, <2>2, <2>3, Zenon DEF Install, OneTypeOK, setterVars
<1>5. ASSUME NEW u \in Users, NewXClientFails(u) PROVE OneTypeOK'
  <2>1. oc[u] \in Pool /\ PathOf[u] \in Paths
    BY <1>0, OneClientAssumption, Zenon DEF OneTypeOK
  <2>2. xclients' \in [Pool -> [Paths -> Users \cup {nil, Absent}]]
    BY <1>0, <1>5, <2>1, Zenon DEF NewXClientFails, OneTypeOK
  <2>3. upc' \in [Users -> UserStates]
    BY <1>0, <1>5, Zenon DEF NewXClientFails, OneTypeOK
  <2> QED
    BY <1>0, <1>5, <2>2, <2>3, Zenon DEF NewXClientFails, OneTypeOK, setterVars
<1>6. ASSUME NEW g \in Setters, SetField(g) PROVE OneTypeOK'
  <2>1. conf' \in [Pool -> [Fields -> Setters \cup {nil}]]
    BY <1>0, <1>6, Zenon DEF SetField, OneTypeOK
  <2>2. gpc' \in [Setters -> {"absent", "idle", "lock", "loop", "next", "panicked", "stuck", "end"}]
    BY <1>0, <1>6, Zenon DEF SetField, OneTypeOK
  <2> QED
    BY <1>0, <1>6, <2>1, <2>2, Zenon DEF SetField, OneTypeOK, userVars
<1>7. ASSUME NEW g \in Setters, RangeXClients(g) PROVE OneTypeOK'
  <2>1. gtodo' \in [Setters -> SUBSET Paths]
    BY <1>0, <1>7, Zenon DEF RangeXClients, OneTypeOK
  <2>2. gpc' \in [Setters -> {"absent", "idle", "lock", "loop", "next", "panicked", "stuck", "end"}]
    BY <1>0, <1>7, Zenon DEF RangeXClients, OneTypeOK
  <2> QED
    BY <1>0, <1>7, <2>1, <2>2, Zenon DEF RangeXClients, OneTypeOK, xclientVars, userVars
<1>8. ASSUME NEW g \in Setters, RUnlock(g) PROVE OneTypeOK'
  <2>1. gi' \in [Setters -> Pool]
    <3>1. gi[g] < Count - 1 => gi[g] + 1 \in Pool
      BY <1>0, OneClientAssumption DEF OneTypeOK, Pool
    <3> QED
      BY <1>0, <1>8, <3>1, Zenon DEF RUnlock, OneTypeOK
  <2>2. gpc' \in [Setters -> {"absent", "idle", "lock", "loop", "next", "panicked", "stuck", "end"}]
    BY <1>0, <1>8, Zenon DEF RUnlock, OneTypeOK
  <2> QED
    BY <1>0, <1>8, <2>1, <2>2, Zenon DEF RUnlock, OneTypeOK, xclientVars, userVars
<1>9. ASSUME NEW g \in Setters, SetSelector(g) PROVE OneTypeOK'
  <2>1. selectors' \in [Pool -> [Paths -> Setters \cup {nil}]]
    BY <1>0, <1>9, OneClientAssumption, Zenon DEF SetSelector, OneTypeOK
  <2>2. gpc' \in [Setters -> {"absent", "idle", "lock", "loop", "next", "panicked", "stuck", "end"}]
    BY <1>0, <1>9, Zenon DEF SetSelector, OneTypeOK
  <2>3. attr' \in [Users -> Attributes]
    BY <1>0, <1>9, AttributeType, Zenon DEF SetSelector, OneTypeOK
  <2> QED
    BY <1>0, <1>9, <2>1, <2>2, <2>3, Zenon DEF SetSelector, OneTypeOK, userVars
<1>10. ASSUME NEW g \in Setters, NEW p \in Paths, Visit(g, p) PROVE OneTypeOK'
  <2>1. gpc' \in [Setters -> {"absent", "idle", "lock", "loop", "next", "panicked", "stuck", "end"}]
    BY <1>0, <1>10, Zenon DEF Visit, OneTypeOK
  <2>2. gtodo' \in [Setters -> SUBSET Paths]
    <3>1. gtodo' = gtodo \/ gtodo' = [gtodo EXCEPT ![g] = gtodo[g] \ {p}]
      BY <1>10, Zenon DEF Visit
    <3>2. gtodo \in [Setters -> SUBSET Paths] /\ gtodo[g] \ {p} \in SUBSET Paths
      BY <1>0, Zenon DEF OneTypeOK
    <3> QED
      BY <3>1, <3>2, Zenon
  <2>3. xclients[gi[g]][p] # nil => xclients[gi[g]][p] \in Users
    BY <1>0, <1>10 DEF Visit, MapInv, LoopInv, OneTypeOK
  <2>4. shutDown' \in SUBSET Users
    BY <1>0, <1>10, <2>3, Zenon DEF Visit, OneTypeOK
  <2>5. OpOf[g] \in Fields \cup {"SetSelector", "Close"} /\ OpOf[g] # "SetSelector"
    BY <1>10, OneClientAssumption, Zenon DEF Visit, MapInv, LoopInv
  <2>6. attr' \in [Users -> Attributes]
    <3> DEFINE c == xclients[gi[g]][p]
    <3>1. attr \in [Users -> Attributes]
      BY <1>0, Zenon DEF OneTypeOK
    <3>2. \/ attr' = attr
          \/ /\ c # nil /\ OpOf[g] \in Fields
             /\ attr' = [attr EXCEPT ![c] = Configured(attr[c], g)]
      BY <1>10, <2>5, Zenon DEF Visit
    <3>3. c # nil /\ OpOf[g] \in Fields => Configured(attr[c], g) \in Attributes
      BY <2>3, <3>1, AttributeType, Zenon
    <3> QED
      BY <2>3, <3>1, <3>2, <3>3, Zenon
  <2> QED
    BY <1>0, <1>10, <2>1, <2>2, <2>4, <2>6, Zenon DEF Visit, OneTypeOK, userVars
<1>11. CASE LateDoes
  BY <1>0, <1>11, Zenon DEF LateDoes, OneTypeOK, xclientVars, setterVars
<1> QED
  BY <1>1, <1>2, <1>3, <1>4, <1>5, <1>6, <1>7, <1>8, <1>9, <1>10, <1>11, Zenon DEF OneStep

LEMMA MuFrame ==
    ASSUME MuInv,
           \A v \in Users :
              upc'[v] = "creating" =>
                  /\ upc[v] = "creating" /\ oc'[v] = oc[v]
                  /\ (Stored(v) \in Users)' => Stored(v) \in Users,
           \A g \in Setters :
              /\ gi'[g] = gi[g]
              /\ gpc'[g] \in {"loop", "panicked", "stuck"} => gpc[g] \in {"loop", "panicked", "stuck"}
    PROVE  MuInv'
<1>1. ASSUME NEW v \in Users, upc'[v] = "creating" PROVE (Stored(v) \notin Users)'
  BY <1>1, Zenon DEF MuInv
<1>2. ASSUME NEW u \in Users, NEW v \in Users,
             upc'[u] = "creating", upc'[v] = "creating", oc'[u] = oc'[v]
      PROVE  u = v
  <2>1. upc[u] = "creating" /\ upc[v] = "creating" /\ oc[u] = oc[v]
    BY <1>2, Zenon
  <2> QED
    BY <2>1, Zenon DEF MuInv
<1>3. ASSUME NEW v \in Users, NEW g \in Setters, upc'[v] = "creating", gi'[g] = oc'[v]
      PROVE  gpc'[g] \notin {"loop", "panicked", "stuck"}
  <2>1. upc[v] = "creating" /\ gi[g] = oc[v]
    BY <1>3, Zenon
  <2>2. gpc[g] \notin {"loop", "panicked", "stuck"}
    BY <2>1, Zenon DEF MuInv
  <2> QED
    BY <2>2, Zenon
<1> QED
  BY <1>1, <1>2, <1>3, Zenon DEF MuInv

(* Where XClients are, and who creates them.                               *)
LEMMA MapStep ==
    ASSUME OneTypeOK, MapInv, OneStep \/ LateDoes
    PROVE  MapInv'
<1>0. /\ upc \in [Users -> UserStates] /\ oc \in [Users -> Pool] /\ x \in [Users -> Users \cup {nil}]
      /\ xclients \in [Pool -> [Paths -> Users \cup {nil, Absent}]]
      /\ gpc \in [Setters -> {"absent", "idle", "lock", "loop", "next", "panicked", "stuck", "end"}]
      /\ gi \in [Setters -> Pool] /\ gtodo \in [Setters -> SUBSET Paths]
      /\ PathOf \in [Users -> Paths] /\ nil \notin Users /\ Absent \notin Users /\ Absent # nil
  BY OneClientAssumption, Zenon DEF OneTypeOK
<1>. OwnInv /\ MuInv /\ LoopInv
  BY Zenon DEF MapInv
<1>1. ASSUME NEW u \in Users, Get(u) PROVE MapInv'
  <2>1. /\ upc[u] = "idle" /\ upc'[u] = "lookup" /\ \A v \in Users \ {u} : upc'[v] = upc[v]
        /\ \A v \in Users \ {u} : oc'[v] = oc[v]
        /\ UNCHANGED <<x, xclients, gpc, gi, gtodo>>
    BY <1>0, <1>1, Zenon DEF Get, xclientVars, setterVars
  <2>7. OwnInv'
    BY <1>0, <2>1 DEF OwnInv, MuInv, Stored, Early
  <2>3. \A v \in Users :
           upc'[v] = "creating" =>
               /\ upc[v] = "creating" /\ oc'[v] = oc[v]
               /\ (Stored(v) \in Users)' => Stored(v) \in Users
    BY <1>0, <2>1, Zenon DEF MuInv, Stored
  <2>8. MuInv'
    BY <2>1, <2>3, MuFrame, Zenon
  <2>9. LoopInv'
    BY <1>0, <2>1, Zenon DEF LoopInv
  <2> QED
    BY <2>7, <2>8, <2>9, Zenon DEF MapInv
<1>2. ASSUME NEW u \in Users, Lookup(u) PROVE MapInv'
  <2>1. /\ upc[u] = "lookup" /\ upc'[u] \in {"call", "create"}
        /\ \A v \in Users \ {u} : upc'[v] = upc[v] /\ x'[v] = x[v]
        /\ \/ x'[u] = x[u]
           \/ x'[u] = xclients[oc[u]][PathOf[u]] /\ upc'[u] = "call"
        /\ UNCHANGED <<oc, xclients, gpc, gi, gtodo>>
    BY <1>0, <1>2, Zenon DEF Lookup, Stored, xclientVars, setterVars
  <2>7. OwnInv'
    BY <1>0, <2>1 DEF OwnInv, MuInv, Stored, Early
  <2>3. \A v \in Users :
           upc'[v] = "creating" =>
               /\ upc[v] = "creating" /\ oc'[v] = oc[v]
               /\ (Stored(v) \in Users)' => Stored(v) \in Users
    BY <1>0, <2>1, Zenon DEF MuInv, Stored
  <2>8. MuInv'
    BY <2>1, <2>3, MuFrame, Zenon
  <2>9. LoopInv'
    BY <1>0, <2>1, Zenon DEF LoopInv
  <2> QED
    BY <2>7, <2>8, <2>9, Zenon DEF MapInv
<1>3. ASSUME NEW u \in Users, Create(u) PROVE MapInv'
  <2>1. /\ upc[u] = "create"
        /\ \A v \in Users \ {u} : upc'[v] = upc[v] /\ x'[v] = x[v]
        /\ UNCHANGED <<oc, xclients, gpc, gi, gtodo>>
    BY <1>0, <1>3, Zenon DEF Create, setterVars
  <2>2. \/ /\ upc'[u] = "creating" /\ x'[u] = x[u] /\ xclients[oc[u]][PathOf[u]] \notin Users
        \/ upc'[u] = "call" /\ x'[u] = xclients[oc[u]][PathOf[u]]
    BY <1>0, <1>3, Zenon DEF Create, Missing, Stored
  <2>3. /\ \A v \in Users : upc[v] = "creating" => oc[v] # oc[u]
        /\ \A g \in Setters : gi[g] = oc[u] => gpc[g] \notin {"loop", "panicked", "stuck"}
    BY <1>3, Zenon DEF Create, Lockable, Writers, Readers
  <2>7. OwnInv'
    BY <1>0, <2>1, <2>2, <2>3 DEF OwnInv, MuInv, Stored, Early
  <2>8. MuInv'
    BY <1>0, <2>1, <2>2, <2>3 DEF OwnInv, MuInv, Stored, Early
  <2>9. LoopInv'
    BY <1>0, <2>1, <2>2, <2>3, Zenon DEF LoopInv
  <2> QED
    BY <2>7, <2>8, <2>9, Zenon DEF MapInv
<1>4. ASSUME NEW u \in Users, Install(u) PROVE MapInv'
  <2>1. /\ upc[u] = "creating" /\ upc'[u] = "call" /\ x'[u] = u
        /\ \A v \in Users \ {u} : upc'[v] = upc[v] /\ x'[v] = x[v]
        /\ UNCHANGED <<oc, gpc, gi, gtodo>>
    BY <1>0, <1>4, Zenon DEF Install, setterVars
  <2>2. \A i \in Pool, q \in Paths :
           xclients'[i][q] = IF i = oc[u] /\ q = PathOf[u] THEN u ELSE xclients[i][q]
    BY <1>0, <1>4, Zenon DEF Install
  <2>4. \A v \in Users \ {u} : x[v] # nil => xclients'[oc[v]][PathOf[v]] = xclients[oc[v]][PathOf[v]]
    <3>1. xclients[oc[u]][PathOf[u]] \notin Users
      BY <2>1, Zenon DEF MuInv, Stored
    <3>2. \A v \in Users : x[v] # nil => xclients[oc[v]][PathOf[v]] \in Users
      BY <1>0 DEF OwnInv, Stored
    <3> QED
      BY <1>0, <2>2, <3>1, <3>2
  <2>5. x[u] = nil
    BY <2>1, Zenon DEF OwnInv, Early
  <2>6. \A v \in Users : x'[v] # nil => upc'[v] \notin Early /\ x'[v] = xclients'[oc'[v]][PathOf[v]]
    BY <1>0, <2>1, <2>2, <2>4, <2>5 DEF OwnInv, Stored, Early
  <2>61. \A i \in Pool, q \in Paths, c \in Users :
           xclients'[i][q] = c => oc'[c] = i /\ PathOf[c] = q /\ upc'[c] \notin Early
    BY <1>0, <2>1, <2>2 DEF OwnInv, Early
  <2>7. OwnInv'
    BY <2>6, <2>61, Zenon DEF OwnInv, Stored
  <2>3. \A v \in Users :
           upc'[v] = "creating" =>
               /\ upc[v] = "creating" /\ oc'[v] = oc[v]
               /\ (Stored(v) \in Users)' => Stored(v) \in Users
    BY <1>0, <2>1, <2>2 DEF MuInv, Stored
  <2>8. MuInv'
    BY <2>1, <2>3, MuFrame, Zenon
  <2>9. LoopInv'
    BY <1>0, <2>1, <2>2 DEF LoopInv
  <2> QED
    BY <2>7, <2>8, <2>9, Zenon DEF MapInv
<1>5. ASSUME NEW u \in Users, NewXClientFails(u) PROVE MapInv'
  <2>1. /\ upc[u] = "creating" /\ upc'[u] = "end"
        /\ \A v \in Users \ {u} : upc'[v] = upc[v]
        /\ UNCHANGED <<oc, x, gpc, gi, gtodo>>
    BY <1>0, <1>5, Zenon DEF NewXClientFails, setterVars
  <2>2. \A i \in Pool, q \in Paths :
           xclients'[i][q] = IF i = oc[u] /\ q = PathOf[u] THEN nil ELSE xclients[i][q]
    BY <1>0, <1>5, Zenon DEF NewXClientFails
  <2>4. \A v \in Users \ {u} : x[v] # nil => xclients'[oc[v]][PathOf[v]] = xclients[oc[v]][PathOf[v]]
    <3>1. xclients[oc[u]][PathOf[u]] \notin Users
      BY <2>1, Zenon DEF MuInv, Stored
    <3>2. \A v \in Users : x[v] # nil => xclients[oc[v]][PathOf[v]] \in Users
      BY <1>0 DEF OwnInv, Stored
    <3> QED
      BY <1>0, <2>2, <3>1, <3>2
  <2>5. x[u] = nil
    BY <2>1, Zenon DEF OwnInv, Early
  <2>6. \A v \in Users : x'[v] # nil => upc'[v] \notin Early /\ x'[v] = xclients'[oc'[v]][PathOf[v]]
    BY <1>0, <2>1, <2>2, <2>4, <2>5, Zenon DEF OwnInv, Stored, Early
  <2>61. \A i \in Pool, q \in Paths, c \in Users :
           xclients'[i][q] = c => oc'[c] = i /\ PathOf[c] = q /\ upc'[c] \notin Early
    BY <1>0, <2>1, <2>2 DEF OwnInv, Early
  <2>7. OwnInv'
    BY <2>6, <2>61, Zenon DEF OwnInv, Stored
  <2>3. \A v \in Users :
           upc'[v] = "creating" =>
               /\ upc[v] = "creating" /\ oc'[v] = oc[v]
               /\ (Stored(v) \in Users)' => Stored(v) \in Users
    BY <1>0, <2>1, <2>2 DEF MuInv, Stored
  <2>8. MuInv'
    BY <2>1, <2>3, MuFrame, Zenon
  <2>9. LoopInv'
    BY <1>0, <2>1, <2>2 DEF LoopInv
  <2> QED
    BY <2>7, <2>8, <2>9, Zenon DEF MapInv
<1>6. ASSUME NEW g \in Setters, SetField(g) PROVE MapInv'
  <2>1. /\ gpc'[g] = "lock" /\ OpOf[g] # "SetSelector"
        /\ \A h \in Setters \ {g} : gpc'[h] = gpc[h]
        /\ UNCHANGED <<upc, oc, x, xclients, gi, gtodo>>
    BY <1>0, <1>6, Zenon DEF SetField, userVars
  <2>7. OwnInv'
    BY <1>0, <2>1 DEF OwnInv, MuInv, Stored, Early
  <2>8. MuInv'
    BY <1>0, <2>1 DEF OwnInv, MuInv, Stored, Early
  <2>9. LoopInv'
    BY <1>0, <2>1, Zenon DEF LoopInv
  <2> QED
    BY <2>7, <2>8, <2>9, Zenon DEF MapInv
<1>7. ASSUME NEW g \in Setters, RangeXClients(g) PROVE MapInv'
  <2>1. /\ gpc[g] = "lock" /\ gpc'[g] = "loop"
        /\ gtodo'[g] = {q \in Paths : xclients[gi[g]][q] # Absent}
        /\ \A h \in Setters \ {g} : gpc'[h] = gpc[h] /\ gtodo'[h] = gtodo[h]
        /\ UNCHANGED <<upc, oc, x, xclients, gi>>
    BY <1>0, <1>7, Zenon DEF RangeXClients, userVars, xclientVars
  <2>2. \A v \in Users : upc[v] = "creating" => oc[v] # gi[g]
    BY <1>7, Zenon DEF RangeXClients, RLockable, Writers
  <2>7. OwnInv'
    BY <1>0, <2>1, <2>2 DEF OwnInv, MuInv, Stored, Early
  <2>8. MuInv'
    BY <1>0, <2>1, <2>2 DEF OwnInv, MuInv, Stored, Early
  <2>9. LoopInv'
    BY <1>0, <2>1, <2>2 DEF LoopInv
  <2> QED
    BY <2>7, <2>8, <2>9, Zenon DEF MapInv
<1>8. ASSUME NEW g \in Setters, RUnlock(g) PROVE MapInv'
  <2>1. /\ gpc[g] = "loop" /\ gpc'[g] \in {"next", "end"}
        /\ \A h \in Setters \ {g} : gpc'[h] = gpc[h] /\ gi'[h] = gi[h]
        /\ UNCHANGED <<upc, oc, x, xclients, gtodo>>
    BY <1>0, <1>8, Zenon DEF RUnlock, userVars, xclientVars
  <2>7. OwnInv'
    BY <1>0, <2>1 DEF OwnInv, MuInv, Stored, Early
  <2>8. MuInv'
    BY <1>0, <2>1 DEF OwnInv, MuInv, Stored, Early
  <2>9. LoopInv'
    BY <1>0, <2>1 DEF LoopInv
  <2> QED
    BY <2>7, <2>8, <2>9, Zenon DEF MapInv
<1>9. ASSUME NEW g \in Setters, SetSelector(g) PROVE MapInv'
  <2>1. /\ gpc[g] = "idle" /\ gpc'[g] \in {"stuck", "end"}
        /\ \A h \in Setters \ {g} : gpc'[h] = gpc[h]
        /\ UNCHANGED <<upc, oc, x, xclients, gi, gtodo>>
    BY <1>0, <1>9, Zenon DEF SetSelector, userVars
  <2>2. \A v \in Users : upc[v] = "creating" => oc[v] # gi[g]
    BY <1>9, Zenon DEF SetSelector, Lockable, Writers
  <2>7. OwnInv'
    BY <1>0, <2>1, <2>2 DEF OwnInv, MuInv, Stored, Early
  <2>8. MuInv'
    BY <1>0, <2>1, <2>2 DEF OwnInv, MuInv, Stored, Early
  <2>9. LoopInv'
    BY <1>0, <2>1, <2>2, Zenon DEF LoopInv
  <2> QED
    BY <2>7, <2>8, <2>9, Zenon DEF MapInv
<1>10. ASSUME NEW g \in Setters, NEW p \in Paths, Visit(g, p) PROVE MapInv'
  <2>1. /\ gpc[g] = "loop" /\ gpc'[g] \in {"loop", "panicked"}
        /\ \A h \in Setters \ {g} : gpc'[h] = gpc[h] /\ gtodo'[h] = gtodo[h]
        /\ gtodo'[g] \subseteq gtodo[g]
        /\ UNCHANGED <<upc, oc, x, xclients, gi>>
    BY <1>0, <1>10 DEF Visit, userVars
  <2>7. OwnInv'
    BY <1>0, <2>1 DEF OwnInv, MuInv, Stored, Early
  <2>8. MuInv'
    BY <1>0, <2>1 DEF OwnInv, MuInv, Stored, Early
  <2>9. LoopInv'
    BY <1>0, <2>1 DEF LoopInv
  <2> QED
    BY <2>7, <2>8, <2>9, Zenon DEF MapInv
<1>11. CASE LateDoes
  <2>1. /\ UNCHANGED <<oc, x, xclients, gpc, gi, gtodo>>
        /\ \A v \in Users : upc'[v] = upc[v] \/ (upc[v] \notin Early /\ upc'[v] \notin Early)
    BY <1>0, <1>11, Zenon DEF LateDoes, xclientVars, setterVars
  <2>7. OwnInv'
    BY <1>0, <2>1 DEF OwnInv, MuInv, Stored, Early
  <2>8. MuInv'
    BY <1>0, <2>1 DEF OwnInv, MuInv, Stored, Early
  <2>9. LoopInv'
    BY <1>0, <2>1, Zenon DEF LoopInv
  <2> QED
    BY <2>7, <2>8, <2>9, Zenon DEF MapInv
<1> QED
  BY <1>1, <1>2, <1>3, <1>4, <1>5, <1>6, <1>7, <1>8, <1>9, <1>10, <1>11, Zenon DEF OneStep

(* A setter has set what it sets on a OneClient from SetField or           *)
(* SetSelector on.                                                         *)
Starts(g) == SetField(g) \/ SetSelector(g)

LEMMA SetGrows ==
    ASSUME OneTypeOK, MapInv, OneStep \/ LateDoes
    PROVE  \A h \in Setters, i \in Pool :
              HasSet(i, h)' <=> HasSet(i, h) \/ (i = gi[h] /\ Starts(h))
<1>0. /\ gpc \in [Setters -> {"absent", "idle", "lock", "loop", "next", "panicked", "stuck", "end"}]
      /\ gi \in [Setters -> Pool] /\ Pool \subseteq Nat /\ LoopInv
  BY OneClientAssumption DEF OneTypeOK, MapInv, Pool
<1> SUFFICES ASSUME NEW h \in Setters, NEW i \in Pool
             PROVE  HasSet(i, h)' <=> HasSet(i, h) \/ (i = gi[h] /\ Starts(h))
  OBVIOUS
<1>1. ~Starts(h) \/ gpc[h] \in {"idle", "next"}
  BY Zenon DEF Starts, SetField, SetSelector
<1>2. CASE gpc'[h] = gpc[h] /\ gi'[h] = gi[h]
  <2>1. ~Starts(h)
    BY <1>0, <1>2, Zenon DEF Starts, SetField, SetSelector
  <2> QED
    BY <1>2, <2>1, Zenon DEF HasSet
<1>3. CASE ~(gpc'[h] = gpc[h] /\ gi'[h] = gi[h])
  <2>1. \/ SetField(h) \/ SetSelector(h) \/ RangeXClients(h) \/ RUnlock(h)
        \/ \E p \in Paths : Visit(h, p)
    <3>1. CASE UNCHANGED <<gpc, gi>>
      BY <1>3, <3>1, Zenon
    <3>2. CASE ~UNCHANGED <<gpc, gi>>
      <4>1. PICK g \in Setters : \/ SetField(g) \/ SetSelector(g) \/ RangeXClients(g) \/ RUnlock(g)
                                 \/ \E p \in Paths : Visit(g, p)
        BY <3>2, Zenon DEF OneStep, LateDoes, setterVars, Get, Lookup, Create, Install,
           NewXClientFails
      <4>2. \A k \in Setters \ {g} : gpc'[k] = gpc[k] /\ gi'[k] = gi[k]
        BY <1>0, <4>1, Zenon DEF SetField, SetSelector, RangeXClients, RUnlock, Visit
      <4> QED
        BY <1>3, <4>1, <4>2, Zenon
    <3> QED
      BY <3>1, <3>2, Zenon
  <2>2. CASE SetField(h)
    <3>1. gpc[h] \in {"idle", "next"} /\ gpc'[h] = "lock" /\ gi'[h] = gi[h]
      BY <1>0, <2>2, Zenon DEF SetField
    <3> QED
      BY <1>0, <2>2, <3>1 DEF HasSet, Starts, LoopInv
  <2>3. CASE SetSelector(h)
    <3>1. gpc[h] = "idle" /\ gpc'[h] \in {"stuck", "end"} /\ gi'[h] = gi[h]
      BY <1>0, <2>3, Zenon DEF SetSelector
    <3> QED
      BY <1>0, <2>3, <3>1 DEF HasSet, Starts, LoopInv
  <2>4. CASE RangeXClients(h)
    <3>1. gpc[h] = "lock" /\ gpc'[h] = "loop" /\ gi'[h] = gi[h]
      BY <1>0, <2>4, Zenon DEF RangeXClients
    <3> QED
      BY <1>0, <1>1, <3>1, Zenon DEF HasSet
  <2>5. CASE RUnlock(h)
    <3>1. gpc[h] = "loop" /\ \/ gpc'[h] = "end" /\ gi'[h] = gi[h]
                             \/ gpc'[h] = "next" /\ gi'[h] = gi[h] + 1
      BY <1>0, <2>5, Zenon DEF RUnlock
    <3> QED
      BY <1>0, <1>1, <3>1 DEF HasSet
  <2>6. CASE \E p \in Paths : Visit(h, p)
    <3>1. gpc[h] = "loop" /\ gpc'[h] \in {"loop", "panicked"} /\ gi'[h] = gi[h]
      BY <1>0, <2>6, Zenon DEF Visit
    <3> QED
      BY <1>0, <1>1, <3>1, Zenon DEF HasSet
  <2> QED
    BY <2>1, <2>2, <2>3, <2>4, <2>5, <2>6, Zenon
<1> QED
  BY <1>2, <1>3, Zenon

(* Who is without a rival now was so before.                               *)
LEMMA BegunGrows ==
    ASSUME OneTypeOK, MapInv, OneStep \/ LateDoes, NEW g \in Setters, NEW i \in Pool,
           Begun(i, g)' = {g}
    PROVE  /\ HasSet(i, g) => Begun(i, g) = {g}
           /\ \A h \in Setters : h # g /\ HasSet(i, h)' => ~Rival(g, h)
<1>1. \A h \in Setters : h # g /\ HasSet(i, h)' => ~Rival(g, h)
  BY Zenon DEF Begun, Rival
<1>2. \A h \in Setters : HasSet(i, h) => HasSet(i, h)'
  BY SetGrows, Zenon
<1>3. Rival(g, g)
  BY Zenon DEF Rival
<1> QED
  BY <1>1, <1>2, <1>3, Zenon DEF Begun

(* A field holds what was set.                                             *)
LEMMA FieldStep ==
    ASSUME OneTypeOK, MapInv, FieldInv, OneStep \/ LateDoes
    PROVE  FieldInv'
<1>0. /\ conf \in [Pool -> [Fields -> Setters \cup {nil}]] /\ gi \in [Setters -> Pool]
  BY Zenon DEF OneTypeOK
<1>1. \A h \in Setters, i \in Pool : HasSet(i, h) => HasSet(i, h)'
  BY SetGrows, Zenon
<1>2. CASE UNCHANGED conf
  BY <1>0, <1>1, <1>2 DEF FieldInv
<1>3. CASE ~UNCHANGED conf
  <2>1. PICK g \in Setters : SetField(g)
    BY <1>3, Zenon DEF OneStep, LateDoes, xclientVars, Get, Lookup, Create, Install,
       NewXClientFails,
       RangeXClients, Visit, RUnlock, SetSelector
  <2>2. \A i \in Pool : i = gi[g] => HasSet(i, g)'
    BY <1>0, <2>1, SetGrows, Zenon DEF Starts
  <2>3. OpOf[g] \in Fields /\ conf' = [conf EXCEPT ![gi[g]][OpOf[g]] = g]
    BY <1>3, <2>1, Zenon DEF SetField
  <2>4. \A i \in Pool, f \in Fields :
           conf'[i][f] = IF i = gi[g] /\ f = OpOf[g] THEN g ELSE conf[i][f]
    BY <1>0, <2>3, Zenon
  <2> QED
    BY <1>0, <1>1, <2>2, <2>3, <2>4 DEF FieldInv
<1> QED
  BY <1>2, <1>3, Zenon


(* The value that setter g sets is the same in XClient c.                  *)
Keeps(c, g) ==
    IF OpOf[g] \in {"SetSelector", "ConfigGeoSelector"} THEN attr'[c].selector = attr[c].selector
    ELSE attr'[c][OpOf[g]] = attr[c][OpOf[g]]

LEMMA HasKept ==
    ASSUME NEW g \in Setters, NEW c \in Users, Keeps(c, g)
    PROVE  \A p \in Paths : Has(c, p, g)' <=> Has(c, p, g)
BY Zenon DEF Keeps, Has

LEMMA Configures ==
    ASSUME NEW a \in Attributes, NEW g \in Setters, OpOf[g] \in Fields
    PROVE  /\ OpOf[g] = "ConfigGeoSelector" => Configured(a, g).selector = g
           /\ OpOf[g] # "ConfigGeoSelector" => Configured(a, g)[OpOf[g]] = g
           /\ OpOf[g] # "ConfigGeoSelector" => Configured(a, g).selector = a.selector
           /\ \A f \in {"Auth", "SetPlugins"} : f # OpOf[g] => Configured(a, g)[f] = a[f]
BY Zenon DEF Attributes, Configured, Fields

(* What a step has to leave alone for a setting to stay reached.           *)
LEMMA ReachedFrame ==
    ASSUME NEW g \in Setters, NEW i \in Pool, Reached(i, g),
           /\ OpOf[g] \in Fields => conf'[i][OpOf[g]] = conf[i][OpOf[g]]
           /\ OpOf[g] \notin Fields => selectors'[i][OnPath[g]] = selectors[i][OnPath[g]],
           \A p \in Paths : xclients'[i][p] \in Users =>
               xclients'[i][p] = xclients[i][p] /\ Keeps(xclients[i][p], g),
           \A u \in Users : upc'[u] = "creating" /\ oc'[u] = i =>
               upc[u] = "creating" /\ oc[u] = i /\ Keeps(u, g),
           \A p \in Paths : Visiting(i, p, g) => Visiting(i, p, g)',
           gi[g] = i /\ gpc[g] = "lock" => gi'[g] = i /\ gpc'[g] = "lock",
           PathOf \in [Users -> Paths]
    PROVE  Reached(i, g)'
<1>1. IF OpOf[g] \in Fields THEN conf'[i][OpOf[g]] = g ELSE selectors'[i][OnPath[g]] = g
  BY Zenon DEF Reached
<1>2. ASSUME NEW p \in Paths, xclients'[i][p] \in Users
      PROVE  Has(xclients[i][p], p, g)' \/ Visiting(i, p, g)'
  <2>1. PICK c \in Users : xclients[i][p] = c /\ xclients'[i][p] = c /\ Keeps(c, g)
    BY <1>2, Zenon
  <2>2. Has(c, p, g) \/ Visiting(i, p, g)
    BY <2>1, Zenon DEF Reached
  <2>3. Has(c, p, g)' <=> Has(c, p, g)
    BY <2>1, HasKept, Zenon
  <2>4. Has(xclients[i][p], p, g)' <=> Has(c, p, g)'
    BY <2>1, Zenon DEF Has
  <2> QED
    BY <2>2, <2>3, <2>4, Zenon
<1>3. ASSUME NEW u \in Users, upc'[u] = "creating", oc'[u] = i
      PROVE  Has(u, PathOf[u], g)' \/ (gi'[g] = i /\ gpc'[g] = "lock")
  BY <1>3, HasKept, Zenon DEF Reached
<1> QED
  BY <1>1, <1>2, <1>3, Zenon DEF Reached


(* No XClient misses a setting: neither the setter's loop and the field    *)
(* that new XClients read, nor two setters of different things, undo it.   *)
LEMMA ReachStep ==
    ASSUME OneTypeOK, MapInv, FieldInv, ReachInv, OneStep \/ LateDoes
    PROVE  ReachInv'
<1>0. /\ upc \in [Users -> UserStates] /\ oc \in [Users -> Pool]
      /\ xclients \in [Pool -> [Paths -> Users \cup {nil, Absent}]]
      /\ conf \in [Pool -> [Fields -> Setters \cup {nil}]]
      /\ selectors \in [Pool -> [Paths -> Setters \cup {nil}]]
      /\ attr \in [Users -> Attributes]
      /\ gpc \in [Setters -> {"absent", "idle", "lock", "loop", "next", "panicked", "stuck", "end"}]
      /\ gi \in [Setters -> Pool] /\ gtodo \in [Setters -> SUBSET Paths]
      /\ PathOf \in [Users -> Paths] /\ OnPath \in [Setters -> Paths]
      /\ OpOf \in [Setters -> Fields \cup {"SetSelector", "Close"}]
      /\ nil \notin Users /\ Absent \notin Users /\ nil \notin Setters
  BY OneClientAssumption, Zenon DEF OneTypeOK
<1> SUFFICES ASSUME NEW g \in Setters, NEW i \in Pool,
                    HasSet(i, g)', Begun(i, g)' = {g}, OpOf[g] # "Close"
             PROVE  Reached(i, g)'
  BY Zenon DEF ReachInv
<1>1. /\ HasSet(i, g) \/ (i = gi[g] /\ Starts(g))
      /\ \A h \in Setters : h # g /\ HasSet(i, h)' => ~Rival(g, h)
      /\ \A h \in Setters : h # g /\ HasSet(i, h) => ~Rival(g, h)
  <2>1. \A h \in Setters : HasSet(i, h)' <=> HasSet(i, h) \/ (i = gi[h] /\ Starts(h))
    BY SetGrows, Zenon
  <2>2. \A h \in Setters : h # g /\ HasSet(i, h)' => ~Rival(g, h)
    BY BegunGrows, Zenon
  <2> QED
    BY <2>1, <2>2, Zenon
<1>2. OpOf[g] \in Fields \cup {"SetSelector"} /\ Fields = {"Auth", "SetPlugins", "ConfigGeoSelector"}
  BY <1>0, Zenon DEF Fields
<1>3. CASE SetField(g) /\ i = gi[g]
  <2>1. /\ OpOf[g] \in Fields /\ gpc'[g] = "lock" /\ gi'[g] = i
        /\ conf'[i][OpOf[g]] = g
    BY <1>0, <1>2, <1>3, Zenon DEF SetField
  <2> QED
    BY <2>1, Zenon DEF Reached, Visiting
<1>4. CASE SetSelector(g) /\ i = gi[g]
  <2>1. /\ OpOf[g] = "SetSelector" /\ UNCHANGED <<xclients, upc, oc>>
        /\ \A u \in Users : ~(upc[u] = "creating" /\ oc[u] = i)
    BY <1>4, Zenon DEF SetSelector, userVars, Lockable, Writers
  <2>2. selectors'[i][OnPath[g]] = g /\ OpOf[g] \notin Fields
    BY <1>0, <1>2, <1>4, <2>1 DEF SetSelector
  <2>3. \A c \in Users : c = xclients[i][OnPath[g]] => attr'[c].selector = g
    BY <1>0, <1>4 DEF SetSelector, Attributes
  <2>4. ASSUME NEW p \in Paths, xclients'[i][p] \in Users PROVE Has(xclients[i][p], p, g)'
    BY <1>0, <2>1, <2>3, <2>4, Zenon DEF Has
  <2> QED
    BY <2>1, <2>2, <2>4, Zenon DEF Reached
<1>5. CASE HasSet(i, g)
  <2>1. Reached(i, g)
    BY <1>5, BegunGrows, Zenon DEF ReachInv
  <2>2. OwnInv /\ MuInv /\ LoopInv
    BY Zenon DEF MapInv
  <2>0. \A j \in Pool, p \in Paths : xclients[j][p] \in Users =>
            oc[xclients[j][p]] = j /\ PathOf[xclients[j][p]] = p /\ upc[xclients[j][p]] \notin Early
    BY <2>2, Zenon DEF OwnInv
  <2>3. (\A c \in Users : attr'[c] = attr[c]) => \A c \in Users : Keeps(c, g)
    BY Zenon DEF Keeps
  <2>4. ASSUME UNCHANGED <<xclients, conf, selectors, attr, gpc, gi, gtodo>>,
               \A u \in Users : upc'[u] = "creating" => upc[u] = "creating" /\ oc'[u] = oc[u]
        PROVE  Reached(i, g)'
    <3>1. \A p \in Paths : Visiting(i, p, g) => Visiting(i, p, g)'
      BY <2>4, Zenon DEF Visiting
    <3>2. \A c \in Users : Keeps(c, g)
      BY <2>3, <2>4, Zenon
    <3> QED
      BY <1>0, <2>1, <2>4, <3>1, <3>2, ReachedFrame, Zenon
  <2>5. ASSUME NEW u \in Users, Get(u) PROVE Reached(i, g)'
    <3>1. upc'[u] = "lookup" /\ \A v \in Users \ {u} : upc'[v] = upc[v] /\ oc'[v] = oc[v]
      BY <1>0, <2>5, Zenon DEF Get
    <3> QED
      BY <2>4, <2>5, <3>1, Zenon DEF Get, xclientVars, setterVars
  <2>6. ASSUME NEW u \in Users, Lookup(u) PROVE Reached(i, g)'
    <3>1. upc'[u] \in {"call", "create"} /\ \A v \in Users \ {u} : upc'[v] = upc[v]
      BY <1>0, <2>6, Zenon DEF Lookup
    <3> QED
      BY <2>4, <2>6, <3>1, Zenon DEF Lookup, xclientVars, setterVars
  <2>7. CASE LateDoes
    <3>1. \A u \in Users : upc'[u] = "creating" => upc[u] = "creating"
      BY <2>7, Zenon DEF LateDoes, Early
    <3> QED
      BY <2>4, <2>7, <3>1, Zenon DEF LateDoes, xclientVars, setterVars
  <2>8. ASSUME NEW u \in Users, Create(u) PROVE Reached(i, g)'
    <3>1. /\ UNCHANGED <<oc, xclients, conf, selectors, gpc, gi, gtodo>>
          /\ \A v \in Users \ {u} : upc'[v] = upc[v] /\ attr'[v] = attr[v]
          /\ upc[u] = "create"
      BY <1>0, <2>8, Zenon DEF Create, setterVars
    <3>2. \A p \in Paths : xclients[i][p] # u
      BY <2>2, <3>1 DEF OwnInv, Early
    <3>3. \A v \in Users \ {u} : Keeps(v, g)
      BY <3>1, Zenon DEF Keeps
    <3>4. \A p \in Paths : Visiting(i, p, g) => Visiting(i, p, g)'
      BY <3>1, Zenon DEF Visiting
    <3>5. CASE ~(upc'[u] = "creating" /\ oc[u] = i)
      <4>1. \A p \in Paths : xclients'[i][p] \in Users =>
                xclients'[i][p] = xclients[i][p] /\ Keeps(xclients[i][p], g)
        BY <3>1, <3>2, <3>3, Zenon
      <4>2. \A v \in Users : upc'[v] = "creating" /\ oc'[v] = i =>
                upc[v] = "creating" /\ oc[v] = i /\ Keeps(v, g)
        BY <3>1, <3>3, <3>5, Zenon
      <4> QED
        BY <1>0, <2>1, <3>1, <3>4, <4>1, <4>2, ReachedFrame, Zenon
    <3>6. CASE upc'[u] = "creating" /\ oc[u] = i
      <4>1. attr'[u] = [Auth |-> conf[i]["Auth"], SetPlugins |-> conf[i]["SetPlugins"],
                        selector |-> SelectorFor(i, PathOf[u])]
        BY <1>0, <2>8, <3>6, Zenon DEF Create
      <4>2. IF OpOf[g] \in Fields THEN conf[i][OpOf[g]] = g ELSE selectors[i][OnPath[g]] = g
        BY <2>1, Zenon DEF Reached
      <4>3. OpOf[g] = "SetSelector" => conf[i]["ConfigGeoSelector"] = nil
        <5> DEFINE h == conf[i]["ConfigGeoSelector"]
        <5>1. SUFFICES ASSUME OpOf[g] = "SetSelector", h # nil PROVE FALSE
          BY Zenon
        <5>2. h \in Setters /\ OpOf[h] = "ConfigGeoSelector" /\ HasSet(i, h)
          BY <1>0, <1>2, <5>1 DEF FieldInv
        <5>3. ~Rival(g, h) /\ h # g
          BY <1>1, <5>1, <5>2, Zenon
        <5> QED
          BY <5>1, <5>2, <5>3, Zenon DEF Rival
      <4>4. Has(u, PathOf[u], g)'
        BY <1>0, <1>2, <4>1, <4>2, <4>3 DEF Has, SelectorFor
      <4>5. ASSUME NEW p \in Paths, xclients'[i][p] \in Users
            PROVE  Has(xclients[i][p], p, g)' \/ Visiting(i, p, g)'
        <5>1. PICK c \in Users : xclients[i][p] = c /\ xclients'[i][p] = c /\ Keeps(c, g)
          BY <3>1, <3>2, <3>3, <4>5, Zenon
        <5>2. Has(c, p, g) \/ Visiting(i, p, g)
          BY <2>1, <5>1, Zenon DEF Reached
        <5>3. Has(c, p, g)' <=> Has(c, p, g)
          BY <5>1, HasKept, Zenon
        <5>4. Has(xclients[i][p], p, g)' <=> Has(c, p, g)'
          BY <5>1, Zenon DEF Has
        <5> QED
          BY <3>4, <5>2, <5>3, <5>4, Zenon
      <4>6. ASSUME NEW v \in Users \ {u}, upc'[v] = "creating", oc'[v] = i
            PROVE  Has(v, PathOf[v], g)' \/ (gi'[g] = i /\ gpc'[g] = "lock")
        BY <1>0, <2>1, <3>1, <3>3, <4>6, HasKept, Zenon DEF Reached
      <4>7. IF OpOf[g] \in Fields THEN conf'[i][OpOf[g]] = g ELSE selectors'[i][OnPath[g]] = g
        BY <3>1, <4>2, Zenon
      <4> QED
        BY <4>4, <4>5, <4>6, <4>7, Zenon DEF Reached
    <3> QED
      BY <3>5, <3>6, Zenon
  <2>9. ASSUME NEW u \in Users, Install(u) PROVE Reached(i, g)'
    <3>1. /\ UNCHANGED <<oc, conf, selectors, attr, gpc, gi, gtodo>>
          /\ \A v \in Users \ {u} : upc'[v] = upc[v]
          /\ upc[u] = "creating" /\ upc'[u] = "call"
          /\ \A p \in Paths :
                xclients'[i][p] = IF i = oc[u] /\ p = PathOf[u] THEN u ELSE xclients[i][p]
      BY <1>0, <2>9 DEF Install, setterVars
    <3>2. /\ \A p \in Paths : Visiting(i, p, g) => Visiting(i, p, g)'
          /\ \A p \in Paths : gi[g] = i /\ gpc[g] = "lock" => Visiting(i, p, g)'
      BY <3>1, Zenon DEF Visiting
    <3>3. \A c \in Users : Keeps(c, g)
      BY <2>3, <3>1, Zenon
    <3>4. IF OpOf[g] \in Fields THEN conf'[i][OpOf[g]] = g ELSE selectors'[i][OnPath[g]] = g
      BY <2>1, <3>1, Zenon DEF Reached
    <3>5. ASSUME NEW p \in Paths, xclients'[i][p] \in Users
          PROVE  Has(xclients[i][p], p, g)' \/ Visiting(i, p, g)'
      <4>1. PICK c \in Users : xclients'[i][p] = c
        BY <3>5, Zenon
      <4>2. Has(c, p, g) \/ Visiting(i, p, g)'
        <5>1. CASE i = oc[u] /\ p = PathOf[u]
          BY <2>1, <3>1, <3>2, <4>1, <5>1, Zenon DEF Reached
        <5>2. CASE ~(i = oc[u] /\ p = PathOf[u])
          BY <2>1, <3>1, <3>2, <4>1, <5>2, Zenon DEF Reached
        <5> QED
          BY <5>1, <5>2, Zenon
      <4>3. Has(c, p, g)' <=> Has(c, p, g)
        BY <3>3, HasKept, Zenon
      <4>4. Has(xclients[i][p], p, g)' <=> Has(c, p, g)'
        BY <4>1, Zenon DEF Has
      <4> QED
        BY <4>2, <4>3, <4>4, Zenon
    <3>6. ASSUME NEW v \in Users, upc'[v] = "creating", oc'[v] = i
          PROVE  Has(v, PathOf[v], g)' \/ (gi'[g] = i /\ gpc'[g] = "lock")
      <4>1. upc[v] = "creating" /\ oc[v] = i
        BY <3>1, <3>6, Zenon
      <4> QED
        BY <1>0, <2>1, <3>1, <3>3, <4>1, HasKept, Zenon DEF Reached
    <3> QED
      BY <3>4, <3>5, <3>6, Zenon DEF Reached
  <2>10. ASSUME NEW u \in Users, NewXClientFails(u) PROVE Reached(i, g)'
    <3>1. /\ \A v \in Users \ {u} : upc'[v] = upc[v]
          /\ upc'[u] = "end"
          /\ \A p \in Paths : xclients'[i][p] \in {xclients[i][p], nil}
          /\ UNCHANGED <<oc, conf, selectors, attr, gpc, gi, gtodo>>
      BY <1>0, <2>10 DEF NewXClientFails, setterVars
    <3>2. \A p \in Paths : Visiting(i, p, g) => Visiting(i, p, g)'
      BY <3>1, Zenon DEF Visiting
    <3>3. \A c \in Users : Keeps(c, g)
      BY <2>3, <3>1, Zenon
    <3>4. \A p \in Paths : xclients'[i][p] \in Users =>
              xclients'[i][p] = xclients[i][p] /\ Keeps(xclients[i][p], g)
      BY <1>0, <3>1, <3>3, Zenon
    <3>5. \A v \in Users : upc'[v] = "creating" /\ oc'[v] = i =>
              upc[v] = "creating" /\ oc[v] = i /\ Keeps(v, g)
      BY <3>1, <3>3, Zenon
    <3> QED
      BY <1>0, <2>1, <3>1, <3>2, <3>4, <3>5, ReachedFrame, Zenon
  <2>11. ASSUME NEW h \in Setters, SetField(h) PROVE Reached(i, g)'
    <3>1. /\ UNCHANGED <<xclients, selectors, attr, upc, oc, gi, gtodo>>
          /\ gpc[h] \in {"idle", "next"} /\ \A k \in Setters \ {h} : gpc'[k] = gpc[k]
          /\ \A j \in Pool, f \in Fields :
                conf'[j][f] = IF j = gi[h] /\ f = OpOf[h] THEN h ELSE conf[j][f]
      BY <1>0, <2>11, Zenon DEF SetField, userVars
    <3>2. h = g => gi[h] # i
      BY <1>0, <1>5, <2>2, <3>1, Zenon DEF HasSet
    <3>3. i = gi[h] => HasSet(i, h)'
      BY <2>11, SetGrows, Zenon DEF Starts
    <3>4. i = gi[h] => OpOf[h] # OpOf[g]
      BY <1>1, <3>2, <3>3, Zenon DEF Rival
    <3>5. OpOf[g] \in Fields => conf'[i][OpOf[g]] = conf[i][OpOf[g]]
      BY <3>1, <3>4, Zenon
    <3>6. /\ \A p \in Paths : Visiting(i, p, g) => Visiting(i, p, g)'
          /\ gi[g] = i /\ gpc[g] = "lock" => gi'[g] = i /\ gpc'[g] = "lock"
      BY <3>1, <3>2, Zenon DEF Visiting
    <3>7. \A c \in Users : Keeps(c, g)
      BY <2>3, <3>1, Zenon
    <3> QED
      BY <1>0, <2>1, <3>1, <3>5, <3>6, <3>7, ReachedFrame, Zenon
  <2>12. ASSUME NEW h \in Setters, RangeXClients(h) PROVE Reached(i, g)'
    <3>1. /\ UNCHANGED <<xclients, conf, selectors, attr, upc, oc, gi>>
          /\ \A k \in Setters \ {h} : gpc'[k] = gpc[k] /\ gtodo'[k] = gtodo[k]
          /\ gpc[h] = "lock" /\ gpc'[h] = "loop"
          /\ gtodo'[h] = {p \in Paths : xclients[gi[h]][p] # Absent}
      BY <1>0, <2>12, Zenon DEF RangeXClients, xclientVars, userVars
    <3>2. \A c \in Users : Keeps(c, g)
      BY <2>3, <3>1, Zenon
    <3>3. CASE h # g
      <4>1. \A p \in Paths : Visiting(i, p, g) => Visiting(i, p, g)'
        BY <3>1, <3>3, Zenon DEF Visiting
      <4> QED
        BY <1>0, <2>1, <3>1, <3>2, <3>3, <4>1, ReachedFrame, Zenon
    <3>4. CASE h = g
      <4>1. \A v \in Users : ~(upc[v] = "creating" /\ oc[v] = gi[g])
        BY <2>12, <3>4, Zenon DEF RangeXClients, RLockable, Writers
      <4>2. IF OpOf[g] \in Fields THEN conf'[i][OpOf[g]] = g ELSE selectors'[i][OnPath[g]] = g
        BY <2>1, <3>1, Zenon DEF Reached
      <4>3. ASSUME NEW p \in Paths, xclients'[i][p] \in Users
            PROVE  Has(xclients[i][p], p, g)' \/ Visiting(i, p, g)'
        <5>1. PICK c \in Users : xclients[i][p] = c /\ xclients'[i][p] = c
          BY <3>1, <4>3, Zenon
        <5>2. Has(c, p, g) \/ Visiting(i, p, g)
          BY <2>1, <5>1, Zenon DEF Reached
        <5>3. Has(c, p, g)' <=> Has(c, p, g)
          BY <3>2, HasKept, Zenon
        <5>4. Has(xclients[i][p], p, g)' <=> Has(c, p, g)'
          BY <5>1, Zenon DEF Has
        <5>5. Visiting(i, p, g) => Visiting(i, p, g)'
          BY <1>0, <3>1, <3>4, <5>1 DEF Visiting
        <5> QED
          BY <5>2, <5>3, <5>4, <5>5, Zenon
      <4>4. ASSUME NEW v \in Users, upc'[v] = "creating", oc'[v] = i
            PROVE  Has(v, PathOf[v], g)'
        <5>1. upc[v] = "creating" /\ oc[v] = i /\ gi[g] # i
          BY <3>1, <4>1, <4>4, Zenon
        <5> QED
          BY <1>0, <2>1, <3>2, <5>1, HasKept, Zenon DEF Reached
      <4> QED
        BY <4>2, <4>3, <4>4, Zenon DEF Reached
    <3> QED
      BY <3>3, <3>4, Zenon
  <2>13. ASSUME NEW h \in Setters, NEW q \in Paths, Visit(h, q) PROVE Reached(i, g)'
    <3> DEFINE c == xclients[gi[h]][q]
    <3>1. /\ UNCHANGED <<xclients, conf, selectors, upc, oc, gi>>
          /\ gpc[h] = "loop" /\ gpc'[h] \in {"loop", "panicked"} /\ q \in gtodo[h]
          /\ \A k \in Setters \ {h} : gpc'[k] = gpc[k] /\ gtodo'[k] = gtodo[k]
      BY <1>0, <2>13, Zenon DEF Visit, userVars
    <3>2. c # nil => c \in Users
      BY <1>0, <2>2, <3>1 DEF LoopInv
    <3>3. OpOf[h] \in Fields \cup {"Close"} /\ HasSet(gi[h], h)
      <4>1. gi[h] \in Nat
        BY <1>0, OneClientAssumption DEF Pool
      <4> QED
        BY <1>0, <2>2, <3>1, <4>1 DEF LoopInv, HasSet
    <3>4. \/ /\ c = nil \/ OpOf[h] = "Close"
             /\ UNCHANGED attr
          \/ /\ c # nil /\ OpOf[h] \in Fields
             /\ attr'[c] = Configured(attr[c], h)
             /\ \A v \in Users \ {c} : attr'[v] = attr[v]
      BY <1>0, <2>13, <3>2, <3>3, Zenon DEF Visit
    <3>5. \/ c = nil /\ gtodo'[h] = gtodo[h]
          \/ c # nil /\ gtodo'[h] = gtodo[h] \ {q}
      BY <1>0, <2>13, Zenon DEF Visit
    <3>6. \A v \in Users : upc[v] = "creating" => v # c
      <4>1. gi[h] \in Pool /\ q \in Paths
        BY <1>0, Zenon
      <4>2. c \in Users => upc[c] \notin Early
        BY <2>2, <4>1 DEF OwnInv
      <4> HIDE DEF c
      <4> QED
        BY <4>2, Zenon DEF Early
    <3>7. \A p \in Paths : xclients[i][p] = c /\ c # nil => i = gi[h] /\ p = q
      BY <1>0, <2>2, <3>2 DEF OwnInv
    <3>8. \A v \in Users \ {c} : Keeps(v, g)
      BY <3>4, Zenon DEF Keeps
    <3>9. CASE h # g
      <4>1. /\ \A p \in Paths : Visiting(i, p, g) => Visiting(i, p, g)'
            /\ gi[g] = i /\ gpc[g] = "lock" => gi'[g] = i /\ gpc'[g] = "lock"
        BY <3>1, <3>9, Zenon DEF Visiting
      <4>2. c # nil /\ i = gi[h] => Keeps(c, g)
        <5>1. i = gi[h] => ~Rival(g, h)
          BY <1>1, <3>3, <3>9, Zenon
        <5>2. CASE attr' = attr
          BY <5>2, Zenon DEF Keeps
        <5>3. CASE c # nil /\ i = gi[h] /\ attr'[c] = Configured(attr[c], h) /\ OpOf[h] \in Fields
          <6>1. OpOf[h] # OpOf[g] /\ {OpOf[g], OpOf[h]} # {"ConfigGeoSelector", "SetSelector"}
            BY <5>1, <5>3, Zenon DEF Rival
          <6>2. /\ OpOf[h] # "ConfigGeoSelector" => attr'[c].selector = attr[c].selector
                /\ \A f \in {"Auth", "SetPlugins"} : f # OpOf[h] => attr'[c][f] = attr[c][f]
            BY <1>0, <3>2, <5>3, Configures
          <6> QED
            BY <1>2, <6>1, <6>2, Zenon DEF Keeps
        <5> QED
          BY <3>4, <5>2, <5>3, Zenon
      <4>3. \A p \in Paths : xclients'[i][p] \in Users =>
                xclients'[i][p] = xclients[i][p] /\ Keeps(xclients[i][p], g)
        <5> HIDE DEF c
        <5> QED
          BY <1>0, <3>1, <3>7, <3>8, <4>2, Zenon
      <4>4. \A v \in Users : upc'[v] = "creating" /\ oc'[v] = i =>
                upc[v] = "creating" /\ oc[v] = i /\ Keeps(v, g)
        BY <3>1, <3>6, <3>8, Zenon
      <4> QED
        BY <1>0, <2>1, <3>1, <4>1, <4>3, <4>4, ReachedFrame, Zenon
    <3>10. CASE h = g
      <4>1. IF OpOf[g] \in Fields THEN conf'[i][OpOf[g]] = g ELSE selectors'[i][OnPath[g]] = g
        BY <2>1, <3>1, Zenon DEF Reached
      <4>2. ASSUME NEW p \in Paths, NEW d \in Users, xclients[i][p] = d
            PROVE  Has(d, p, g)' \/ Visiting(i, p, g)'
        <5>1. Has(d, p, g) \/ Visiting(i, p, g)
          BY <2>1, <4>2, Zenon DEF Reached
        <5>2. CASE d = c
          <6>1. OpOf[g] \in Fields /\ attr'[d] = Configured(attr[d], g)
            BY <1>0, <3>3, <3>4, <3>10, <5>2, Zenon
          <6>2. IF OpOf[g] = "ConfigGeoSelector" THEN attr'[d].selector = g ELSE attr'[d][OpOf[g]] = g
            BY <1>0, <6>1, Configures
          <6> QED
            BY <1>2, <6>1, <6>2, Zenon DEF Has
        <5>3. CASE d # c
          <6>1. Has(d, p, g)' <=> Has(d, p, g)
            BY <3>8, <5>3, HasKept, Zenon
          <6>2. Visiting(i, p, g) => Visiting(i, p, g)'
            <7>1. c # nil => p # q \/ i # gi[g]
              BY <3>10, <4>2, <5>3, Zenon
            <7> QED
              BY <3>1, <3>5, <3>10, <7>1, Zenon DEF Visiting
          <6> QED
            BY <5>1, <6>1, <6>2, Zenon
        <5> QED
          BY <5>2, <5>3, Zenon
      <4>3. ASSUME NEW p \in Paths, xclients'[i][p] \in Users
            PROVE  Has(xclients[i][p], p, g)' \/ Visiting(i, p, g)'
        <5>1. PICK d \in Users : xclients[i][p] = d /\ xclients'[i][p] = d
          BY <3>1, <4>3, Zenon
        <5>2. Has(xclients[i][p], p, g)' <=> Has(d, p, g)'
          BY <5>1, Zenon DEF Has
        <5> QED
          BY <4>2, <5>1, <5>2, Zenon
      <4>4. ASSUME NEW v \in Users, upc'[v] = "creating", oc'[v] = i
            PROVE  Has(v, PathOf[v], g)'
        <5>1. upc[v] = "creating" /\ oc[v] = i /\ v # c /\ gpc[g] # "lock"
          BY <3>1, <3>6, <3>10, <4>4, Zenon
        <5>2. Keeps(v, g)
          BY <3>8, <5>1, Zenon
        <5> QED
          BY <1>0, <2>1, <5>1, <5>2, HasKept, Zenon DEF Reached
      <4> QED
        BY <4>1, <4>3, <4>4, Zenon DEF Reached
    <3> QED
      BY <3>9, <3>10, Zenon
  <2>14. ASSUME NEW h \in Setters, RUnlock(h) PROVE Reached(i, g)'
    <3>1. /\ UNCHANGED <<xclients, conf, selectors, attr, upc, oc, gtodo>>
          /\ gpc[h] = "loop" /\ gtodo[h] = {}
          /\ \A k \in Setters \ {h} : gpc'[k] = gpc[k] /\ gi'[k] = gi[k]
      BY <1>0, <2>14, Zenon DEF RUnlock, xclientVars, userVars
    <3>2. /\ \A p \in Paths : Visiting(i, p, g) => Visiting(i, p, g)'
          /\ gi[g] = i /\ gpc[g] = "lock" => gi'[g] = i /\ gpc'[g] = "lock"
      BY <3>1, Zenon DEF Visiting
    <3>3. \A c \in Users : Keeps(c, g)
      BY <2>3, <3>1, Zenon
    <3> QED
      BY <1>0, <2>1, <3>1, <3>2, <3>3, ReachedFrame, Zenon
  <2>15. ASSUME NEW h \in Setters, SetSelector(h) PROVE Reached(i, g)'
    <3> DEFINE c == xclients[gi[h]][OnPath[h]]
    <3>1. /\ UNCHANGED <<xclients, conf, upc, oc, gi, gtodo>>
          /\ gpc[h] = "idle" /\ OpOf[h] = "SetSelector"
          /\ \A k \in Setters \ {h} : gpc'[k] = gpc[k]
          /\ \A j \in Pool, p \in Paths : j # gi[h] => selectors'[j][p] = selectors[j][p]
      BY <1>0, <2>15, Zenon DEF SetSelector, userVars
    <3>2. h # g
      BY <1>5, <3>1, Zenon DEF HasSet
    <3>3. i = gi[h] => OpOf[g] \notin {"SetSelector", "ConfigGeoSelector"}
      <4>1. i = gi[h] => HasSet(i, h)'
        BY <2>15, SetGrows, Zenon DEF Starts
      <4> QED
        BY <1>1, <3>1, <3>2, <4>1, Zenon DEF Rival
    <3>4. /\ \A v \in Users \ {c} : attr'[v] = attr[v]
          /\ \A v \in Users, f \in {"Auth", "SetPlugins"} : attr'[v][f] = attr[v][f]
      <4>1. attr' = attr \/ (c \in Users /\ attr' = [attr EXCEPT ![c].selector = h])
        BY <2>15, Zenon DEF SetSelector
      <4>2. attr \in [Users -> Attributes]
        BY <1>0, Zenon
      <4> HIDE DEF c
      <4>3. CASE attr' = attr
        BY <4>3, Zenon
      <4>4. CASE c \in Users /\ attr' = [attr EXCEPT ![c].selector = h]
        <5>1. attr'[c] = [attr[c] EXCEPT !.selector = h] /\ \A v \in Users \ {c} : attr'[v] = attr[v]
          BY <4>2, <4>4, Zenon
        <5>2. attr'[c]["Auth"] = attr[c]["Auth"] /\ attr'[c]["SetPlugins"] = attr[c]["SetPlugins"]
          BY <4>2, <4>4, <5>1 DEF Attributes
        <5> QED
          BY <5>1, <5>2, Zenon
      <4> QED
        BY <4>1, <4>3, <4>4, Zenon
    <3>5. \A v \in Users \ {c} : Keeps(v, g)
      BY <3>4, Zenon DEF Keeps
    <3>6. i = gi[h] => \A v \in Users : Keeps(v, g)
      BY <1>2, <3>3, <3>4, Zenon DEF Keeps
    <3>7. c \in Users => oc[c] = gi[h] /\ upc[c] # "creating"
      <4>1. gi[h] \in Pool /\ OnPath[h] \in Paths
        BY <1>0, OneClientAssumption, Zenon
      <4>2. c \in Users => oc[c] = gi[h] /\ upc[c] \notin Early
        BY <2>0, <4>1, Zenon
      <4> QED
        BY <4>2, Zenon DEF Early
    <3>8. \A p \in Paths : xclients[i][p] = c /\ c \in Users => i = gi[h]
      <4> HIDE DEF c
      <4>1. ASSUME NEW p \in Paths, xclients[i][p] = c, c \in Users PROVE oc[c] = i
        <5>1. oc[xclients[i][p]] = i
          BY <2>0, <4>1, Zenon
        <5> QED
          BY <4>1, <5>1, Zenon
      <4> QED
        BY <3>7, <4>1, Zenon
    <3>9. \A p \in Paths : xclients'[i][p] \in Users =>
              xclients'[i][p] = xclients[i][p] /\ Keeps(xclients[i][p], g)
      <4> HIDE DEF c
      <4> QED
        BY <3>1, <3>5, <3>6, <3>8, Zenon
    <3>10. \A v \in Users : upc'[v] = "creating" /\ oc'[v] = i =>
              upc[v] = "creating" /\ oc[v] = i /\ Keeps(v, g)
      BY <3>1, <3>5, <3>7, Zenon
    <3>11. \A p \in Paths : Visiting(i, p, g) => Visiting(i, p, g)'
      BY <3>1, <3>2, Zenon DEF Visiting
    <3>12. /\ OpOf[g] \in Fields => conf'[i][OpOf[g]] = conf[i][OpOf[g]]
           /\ OpOf[g] \notin Fields => selectors'[i][OnPath[g]] = selectors[i][OnPath[g]]
      BY <1>0, <1>2, <3>1, <3>3, Zenon
    <3> QED
      BY <1>0, <2>1, <3>1, <3>2, <3>9, <3>10, <3>11, <3>12, ReachedFrame, Zenon
  <2> QED
    BY <2>5, <2>6, <2>7, <2>8, <2>9, <2>10, <2>11, <2>12, <2>13, <2>14, <2>15, Zenon DEF OneStep
<1> QED
  BY <1>1, <1>3, <1>4, <1>5, Zenon DEF Starts

LEMMA OneInitInv == OneInit => OneInv
<1> SUFFICES ASSUME OneInit PROVE OneInv
  OBVIOUS
<1>0. /\ 0 \in Pool /\ 0 \in 0 .. MaxIndex
      /\ Absent # nil /\ nil \notin Users /\ Absent \notin Users
  <2>1. 0 \in Pool /\ 0 \in 0 .. MaxIndex
    BY OneClientAssumption DEF Pool
  <2> QED
    BY <2>1, OneClientAssumption, Zenon
<1>1. PICK sc \in Scenarios :
        /\ index = 0
        /\ xclients = [i \in Pool |-> [p \in Paths |-> Absent]]
        /\ conf = [i \in Pool |-> [f \in Fields |-> nil]]
        /\ selectors = [i \in Pool |-> [p \in Paths |-> nil]]
        /\ attr = [u \in Users |-> [Auth |-> nil, SetPlugins |-> nil, selector |-> nil]]
        /\ shutDown = {}
        /\ upc = [u \in Users |-> IF u \in sc.users THEN "idle" ELSE "absent"]
        /\ oc = [u \in Users |-> 0]
        /\ x = [u \in Users |-> nil]
        /\ gpc = [g \in Setters |-> IF g \in sc.setters THEN "idle" ELSE "absent"]
        /\ gi = [g \in Setters |-> 0]
        /\ gtodo = [g \in Setters |-> {}]
  BY Zenon DEF OneInit
<1>2. /\ \A u \in Users : upc[u] \in {"idle", "absent"} /\ x[u] = nil /\ oc[u] = 0
      /\ \A g \in Setters : gpc[g] \in {"idle", "absent"} /\ gi[g] = 0 /\ gtodo[g] = {}
      /\ \A i \in Pool, p \in Paths : xclients[i][p] = Absent
      /\ \A i \in Pool, f \in Fields : conf[i][f] = nil
  BY <1>1, Zenon
<1>3. OneTypeOK
  <2>1. attr \in [Users -> Attributes]
    BY <1>1, Zenon DEF Attributes
  <2>2. upc \in [Users -> UserStates] /\ oc \in [Users -> Pool] /\ x \in [Users -> Users \cup {nil}]
    BY <1>0, <1>1, Zenon DEF UserStates, Early
  <2>3. /\ xclients \in [Pool -> [Paths -> Users \cup {nil, Absent}]]
        /\ conf \in [Pool -> [Fields -> Setters \cup {nil}]]
        /\ selectors \in [Pool -> [Paths -> Setters \cup {nil}]]
    BY <1>1, Zenon
  <2>4. /\ gpc \in [Setters -> {"absent", "idle", "lock", "loop", "next", "panicked", "stuck", "end"}]
        /\ gi \in [Setters -> Pool] /\ gtodo \in [Setters -> SUBSET Paths]
        /\ shutDown \in SUBSET Users /\ index \in 0 .. MaxIndex
    BY <1>0, <1>1, Zenon
  <2> QED
    BY <2>1, <2>2, <2>3, <2>4, Zenon DEF OneTypeOK
<1>4. MapInv
  <2>1. OwnInv
    BY <1>0, <1>2, Zenon DEF OwnInv
  <2>2. MuInv
    BY <1>2, Zenon DEF MuInv
  <2>3. LoopInv
    BY <1>2, Zenon DEF LoopInv
  <2> QED
    BY <2>1, <2>2, <2>3, Zenon DEF MapInv
<1>5. FieldInv
  BY <1>2, Zenon DEF FieldInv
<1>6. ReachInv
  BY <1>2, Zenon DEF ReachInv, HasSet
<1> QED
  BY <1>3, <1>4, <1>5, <1>6, Zenon DEF OneInv

(* What is claimed of the OneClients' maps, fields and setters is an       *)
(* inductive invariant, for every size of the pool and all numbers of      *)
(* users, setters and paths (client/oneclient.go:72-191,                   *)
(* client/oneclient_pool.go:40-82).                                        *)
THEOREM OneInvariance == OneSpec => []OneInv
<1>1. OneInv /\ [OneStep \/ \E u \in Users : UseXClient(u)]_oneVars => OneInv'
  <2> SUFFICES ASSUME OneInv, [OneStep \/ \E u \in Users : UseXClient(u)]_oneVars
               PROVE  OneInv'
    OBVIOUS
  <2>1. OneTypeOK /\ MapInv /\ FieldInv /\ ReachInv
    BY Zenon DEF OneInv
  <2>2. OneStep \/ LateDoes
    BY <2>1, UseDoes, Zenon
  <2> QED
    BY <2>1, <2>2, OneTypeStep, MapStep, FieldStep, ReachStep, Zenon DEF OneInv
<1> QED
  BY OneInitInv, <1>1, PTL DEF OneSpec

(* Users of one path of a OneClient use the XClient that the map holds for *)
(* it, although each looks it up under RLock and creates it under Lock     *)
(* (oneclient.go:112-126, 177-191).                                        *)
THEOREM PathHasOneXClient == OneSpec => []OnePerPath
<1>1. OneInv => OnePerPath
  BY Zenon DEF OneInv, MapInv, OwnInv, OnePerPath
<1> QED
  BY OneInvariance, <1>1, PTL

(* A setting that no other setting competes with has reached all XClients  *)
(* of a OneClient once its setter has left the OneClient, although the     *)
(* fields are written without a lock (oneclient.go:72-107, 150-168).       *)
THEOREM SettingsHaveReached == OneSpec => []SettingsReach
<1>1. OneInv => SettingsReach
  <2> SUFFICES ASSUME OneInv, NEW g \in Setters, NEW i \in Pool, NEW p \in Paths,
                      Passed(i, g), Begun(i, g) = {g}, OpOf[g] # "Close",
                      xclients[i][p] \in Users
               PROVE  Has(xclients[i][p], p, g)
    BY Zenon DEF SettingsReach
  <2>1. HasSet(i, g)
    BY Zenon DEF Begun
  <2>2. Reached(i, g)
    BY <2>1, Zenon DEF OneInv, ReachInv
  <2>3. i \in Nat /\ gi[g] \in Nat
    BY OneClientAssumption DEF OneInv, OneTypeOK, Pool
  <2>4. ~Visiting(i, p, g)
    BY <2>3 DEF Passed, Visiting
  <2> QED
    BY <2>2, <2>4, Zenon DEF Reached
<1> QED
  BY OneInvariance, <1>1, PTL

-----------------------------------------------------------------------------
(* The Redis registration plugin.                                          *)

(* A Stop that starts an attempt finds one that no Stop waits for: there   *)
(* are more attempts than stoppers.                                        *)
LEMMA NewAttemptFree ==
    ASSUME TypeOK, OneAttempt, stopAttempt = 0
    PROVE  /\ NewAttempt \in Attempts
           /\ \A s \in Stoppers : waits[s] # NewAttempt
<1>1. \A a \in Attempts : apc[a] \in {"none", "end"}
  BY DEF TypeOK, OneAttempt, Attempts
<1>2. waits \in [Stoppers -> 0 .. MaxAttempts]
  BY RedisAssumption DEF TypeOK, Attempts
<1>3. \E a \in Attempts : \A s \in Stoppers : waits[s] # a
  BY <1>2, RedisAssumption, Zenon DEF Attempts
<1> QED
  BY <1>1, <1>3, Zenon DEF NewAttempt

(* What Lock does to the locks, the store and the channels.                *)
LockDoes(u) ==
    /\ cpc[u] = "lock" /\ lifecycleLock = Nil
    /\ cpc' \in [Callers -> {"idle", "lock", "start", "store", "put"}]
    /\ cop' \in [Callers -> Operations \cup {<<"none", Nil>>}]
    /\ \A v \in Callers \ {u} : cpc'[v] = cpc[v]
    /\ \/ cpc'[u] = "idle" /\ lifecycleLock' = Nil /\ kv' = kv /\ stranded' = stranded
       \/ /\ cpc'[u] \in {"start", "store"} /\ lifecycleLock' = u /\ kv' = TRUE /\ ~stopped
          /\ stranded' = {}
    /\ cpc'[u] = "start" => ~started
    /\ dying' \in {dying, "open"} /\ done' \in {done, "open", "closed"}
    /\ stopped => dying' = dying /\ done' = done
    /\ started => done' = done
    /\ UNCHANGED <<nodes, orphans, storeLock, Services, started, stopped, stopComplete,
                   stopRequested, stopAttempt, rpc, rtodo, attemptVars, stopperVars>>

LEMMA LockEffect ==
    ASSUME TypeOK, NEW u \in Callers, Lock(u)
    PROVE  LockDoes(u)
<1>1. /\ cpc[u] = "lock" /\ lifecycleLock = Nil
      /\ UNCHANGED <<nodes, orphans, storeLock, Services, started, stopped, stopComplete,
                     stopRequested, stopAttempt, rpc, rtodo, attemptVars, stopperVars>>
  BY Zenon DEF Lock
<1>2. CASE Leaves(u) /\ UNCHANGED <<lifecycleLock, kv, dying, done, stranded>>
  BY <1>1, <1>2, Zenon DEF LockDoes, Leaves, TypeOK
<1> QED
  BY <1>1, <1>2, Zenon DEF LockDoes, Lock, Leaves, TypeOK

(* What StartPut does.                                                     *)
StartPutDoes(u) ==
    /\ cpc[u] = "start" /\ cpc'[u] = "idle" /\ lifecycleLock' = Nil
    /\ cpc' \in [Callers -> {"idle", "lock", "start", "store", "put"}]
    /\ cop' \in [Callers -> Operations \cup {<<"none", Nil>>}]
    /\ \A v \in Callers \ {u} : cpc'[v] = cpc[v]
    /\ \/ kv' = FALSE /\ done' = "closed" /\ stranded' = Services /\ UNCHANGED <<started, rpc>>
       \/ /\ started' = TRUE /\ kv' = kv /\ stranded' = stranded
          /\ \/ done' = "open" /\ rpc' = "idle"
             \/ done' = "closed" /\ rpc' = rpc
    /\ UNCHANGED <<nodes, orphans, storeLock, Services, stopVars, rtodo, attemptVars, stopperVars>>

LEMMA StartPutEffect ==
    ASSUME TypeOK, NEW u \in Callers, StartPut(u)
    PROVE  StartPutDoes(u)
<1>1. /\ cpc[u] = "start" /\ lifecycleLock' = Nil /\ Leaves(u)
      /\ UNCHANGED <<nodes, orphans, storeLock, Services, stopVars, rtodo, attemptVars, stopperVars>>
  BY Zenon DEF StartPut
<1>2. \/ kv' = FALSE /\ done' = "closed" /\ stranded' = Services /\ UNCHANGED <<started, rpc>>
      \/ /\ started' = TRUE /\ kv' = kv /\ stranded' = stranded
         /\ \/ done' = "open" /\ rpc' = "idle"
            \/ done' = "closed" /\ rpc' = rpc
  BY Zenon DEF StartPut
<1>3. /\ cpc' \in [Callers -> {"idle", "lock", "start", "store", "put"}]
      /\ cop' \in [Callers -> Operations \cup {<<"none", Nil>>}]
      /\ cpc'[u] = "idle" /\ \A v \in Callers \ {u} : cpc'[v] = cpc[v]
  BY <1>1, Zenon DEF Leaves, TypeOK
<1> QED
  BY <1>1, <1>2, <1>3, Zenon DEF StartPutDoes

(* What Register and Unregister do: nodes that are not of Services are     *)
(* orphans.                                                                *)
PutDoes(u) ==
    /\ cpc[u] = "put" /\ cpc'[u] = "idle" /\ lifecycleLock' = Nil /\ storeLock' = "free"
    /\ cpc' \in [Callers -> {"idle", "lock", "start", "store", "put"}]
    /\ cop' \in [Callers -> Operations \cup {<<"none", Nil>>}]
    /\ \A v \in Callers \ {u} : cpc'[v] = cpc[v]
    /\ nodes' \subseteq Names /\ orphans' \subseteq Names /\ Services' \subseteq Names
    /\ nodes \subseteq Services \cup orphans => nodes' \subseteq Services' \cup orphans'
    /\ UNCHANGED <<stranded, kv, started, stopVars, refreshVars, attemptVars, stopperVars>>

LEMMA PutEffect ==
    ASSUME TypeOK, NEW u \in Callers, Put(u)
    PROVE  PutDoes(u)
<1>1. PICK n \in Names : RegisterPut(u, n) \/ UnregisterDelete(u, n)
  BY Zenon DEF Put
<1>2. /\ nodes' \subseteq Names /\ orphans' \subseteq Names /\ Services' \subseteq Names
      /\ nodes \subseteq Services \cup orphans => nodes' \subseteq Services' \cup orphans'
  <2>1. CASE RegisterPut(u, n)
    BY <2>1, Zenon DEF RegisterPut, TypeOK
  <2>2. CASE UnregisterDelete(u, n)
    BY <2>2, Zenon DEF UnregisterDelete, TypeOK
  <2> QED
    BY <1>1, <2>1, <2>2, Zenon
<1> QED
  BY <1>2, Zenon DEF PutDoes, Put, Leaves, TypeOK

(* What StopLocks does: nothing but return when the cleanup is complete,   *)
(* and otherwise wait for the attempt under way or for a new one.          *)
StopLocksDoes(s) ==
    /\ spc[s] = "lock" /\ lifecycleLock = Nil
    /\ spc' \in [Stoppers -> {"idle", "lock", "wait", "nil", "error", "timeout"}]
    /\ waits' \in [Stoppers -> Attempts \cup {0}]
    /\ \A t \in Stoppers \ {s} : spc'[t] = spc[t] /\ waits'[t] = waits[t]
    /\ UNCHANGED <<redisVars, lockVars, Services, kv, stopComplete, stopRequested,
                   callerVars, refreshVars, atodo>>
    /\ \/ /\ stopComplete /\ spc'[s] = "nil"
          /\ UNCHANGED <<stopped, started, dying, stopAttempt, apc, aerr>>
       \/ /\ ~stopComplete /\ spc'[s] = "wait" /\ waits'[s] # 0
          /\ stopped' = TRUE /\ started' = FALSE /\ dying' \in {dying, "closed"}
          /\ stopAttempt' \in Attempts
          /\ \/ UNCHANGED <<stopAttempt, apc, aerr>>
             \/ /\ stopAttempt = 0
                /\ apc' = [apc EXCEPT ![stopAttempt'] = "refresh"]
                /\ aerr' = [aerr EXCEPT ![stopAttempt'] = FALSE]

LEMMA StopLocksEffect ==
    ASSUME TypeOK, OneAttempt, NEW s \in Stoppers, StopLocks(s)
    PROVE  StopLocksDoes(s)
<1>1. /\ spc[s] = "lock" /\ lifecycleLock = Nil
      /\ UNCHANGED <<redisVars, lockVars, Services, kv, stopComplete, stopRequested,
                     callerVars, refreshVars, atodo>>
  BY Zenon DEF StopLocks
<1>2. 0 \notin Attempts
  BY RedisAssumption DEF Attempts
<1>3. CASE stopComplete
  BY <1>1, <1>3, Zenon DEF StopLocksDoes, StopLocks, TypeOK
<1>4. CASE ~stopComplete /\ stopAttempt # 0
  BY <1>1, <1>2, <1>4 DEF StopLocksDoes, StopLocks, UnderWay, TypeOK
<1>5. CASE ~stopComplete /\ stopAttempt = 0
  <2>1. NewAttempt \in Attempts
    BY <1>5, NewAttemptFree, Zenon
  <2>2. /\ waits' = [waits EXCEPT ![s] = NewAttempt] /\ spc' = [spc EXCEPT ![s] = "wait"]
        /\ stopped' = TRUE /\ started' = FALSE /\ dying' \in {dying, "closed"}
        /\ stopAttempt' = NewAttempt
        /\ apc' = [apc EXCEPT ![NewAttempt] = "refresh"]
        /\ aerr' = [aerr EXCEPT ![NewAttempt] = FALSE]
    BY <1>5, Zenon DEF StopLocks, UnderWay
  <2> QED
    BY <1>1, <1>2, <1>5, <2>1, <2>2, Zenon DEF StopLocksDoes, TypeOK
<1> QED
  BY <1>3, <1>4, <1>5, Zenon


(* There is an attempt at work only after a Stop, and only one.            *)
LEMMA AtWork ==
    ASSUME IInv, NEW a \in Attempts, apc[a] \in {"refresh", "clean", "finish"}
    PROVE  /\ stopAttempt = a /\ stopped /\ ~stopComplete /\ lifecycleLock = Nil
           /\ \A b \in Attempts \ {a} : apc[b] \in {"none", "end"}
<1>1. a # 0
  BY RedisAssumption DEF Attempts
<1> QED
  BY <1>1, Zenon DEF IInv, AttemptInv, OneAttempt, TypeOK

(* Whoever holds lifecycleLock is alone: no Stop has been in, there is no  *)
(* attempt at work, and no refresh either if it is a Start.                *)
LEMMA UserAlone ==
    ASSUME IInv, NEW u \in Callers, cpc[u] \in {"start", "store", "put"}
    PROVE  /\ lifecycleLock = u /\ u # Nil /\ ~stopped /\ ~stopComplete /\ kv
           /\ cpc[u] = "start" => rpc = "none"
           /\ \A a \in Attempts : apc[a] \in {"none", "end"}
           /\ \A v \in Callers \ {u} : cpc[v] \notin {"start", "store", "put"}
<1>1. lifecycleLock = u /\ u # Nil
  BY RedisAssumption, Zenon DEF IInv, LockInv
<1>2. ~stopped /\ ~stopComplete /\ kv
  BY <1>1, Zenon DEF IInv, AttemptInv, RefreshInv
<1>3. cpc[u] = "start" => rpc = "none"
  BY <1>2, Zenon DEF IInv, RefreshInv
<1>4. \A a \in Attempts : apc[a] \in {"none", "end"}
  BY <1>2, AtWork, Zenon DEF IInv, TypeOK
<1>5. \A v \in Callers \ {u} : cpc[v] \notin {"start", "store", "put"}
  BY <1>1, Zenon DEF IInv, LockInv
<1> QED
  BY <1>1, <1>2, <1>3, <1>4, <1>5, Zenon

(* The type invariant is inductive, with OneAttempt.                       *)
LEMMA TypeStep ==
    ASSUME TypeOK, OneAttempt, [Next]_vars
    PROVE  TypeOK'
<1> USE DEF TypeOK
<1>1. ASSUME NEW n \in Names, Expire(n) PROVE TypeOK'
  BY <1>1 DEF Expire, redisVars, lockVars, stateVars, stopVars, callerVars, refreshVars,
       attemptVars, stopperVars
<1>2. ASSUME NEW u \in Callers, Begin(u) PROVE TypeOK'
  BY <1>2 DEF Begin, redisVars, lockVars, stateVars, stopVars, callerVars, refreshVars,
       attemptVars, stopperVars, Operations
<1>3. ASSUME NEW u \in Callers, Lock(u) PROVE TypeOK'
  <2>1. LockDoes(u)
    BY <1>3, LockEffect, Zenon
  <2>2. lifecycleLock' \in Callers \cup {Nil} /\ kv' \in BOOLEAN
    BY <2>1, Zenon DEF LockDoes
  <2>3. dying' \in {"nil", "open", "closed"} /\ done' \in {"nil", "open", "closed"}
    BY <2>1, Zenon DEF LockDoes
  <2> QED
    BY <2>1, <2>2, <2>3 DEF LockDoes, redisVars, attemptVars, stopperVars
<1>4. ASSUME NEW u \in Callers, StartPut(u) PROVE TypeOK'
  <2>1. StartPutDoes(u)
    BY <1>4, StartPutEffect, Zenon
  <2>2. lifecycleLock' \in Callers \cup {Nil} /\ kv' \in BOOLEAN /\ started' \in BOOLEAN
    BY <2>1, Zenon DEF StartPutDoes
  <2>3. /\ done' \in {"nil", "open", "closed"}
        /\ rpc' \in {"none", "idle", "lock", "tick", "end"}
    BY <2>1, Zenon DEF StartPutDoes
  <2> QED
    BY <2>1, <2>2, <2>3 DEF StartPutDoes, redisVars, stopVars, attemptVars, stopperVars
<1>5. ASSUME NEW u \in Callers, StoreLock(u) PROVE TypeOK'
  BY <1>5 DEF StoreLock, redisVars, lockVars, stateVars, stopVars, callerVars, refreshVars,
       attemptVars, stopperVars, StoreFree
<1>6. ASSUME NEW u \in Callers, Put(u) PROVE TypeOK'
  <2>1. PutDoes(u)
    BY <1>6, PutEffect, Zenon DEF IInv, AttemptInv
  <2> QED
    BY <2>1 DEF PutDoes, stopVars, refreshVars, attemptVars, stopperVars
<1>7. CASE Tick
  BY <1>7 DEF Tick, redisVars, lockVars, stateVars, stopVars, callerVars, refreshVars,
       attemptVars, stopperVars
<1>8. CASE TickLocks
  BY <1>8 DEF TickLocks, redisVars, lockVars, stateVars, stopVars, callerVars, refreshVars,
       attemptVars, stopperVars, StoreFree
<1>9. ASSUME NEW n \in Names, TickPut(n) PROVE TypeOK'
  BY <1>9 DEF TickPut, redisVars, lockVars, stateVars, stopVars, callerVars, refreshVars,
       attemptVars, stopperVars
<1>10. CASE TickEnds
  BY <1>10 DEF TickEnds, redisVars, lockVars, stateVars, stopVars, callerVars, refreshVars,
       attemptVars, stopperVars
<1>11. CASE RefreshDies
  BY <1>11 DEF RefreshDies, redisVars, lockVars, stateVars, stopVars, callerVars, refreshVars,
       attemptVars, stopperVars
<1>12. ASSUME NEW s \in Stoppers, StopBegins(s) PROVE TypeOK'
  BY <1>12 DEF StopBegins, redisVars, lockVars, stateVars, stopVars, callerVars, refreshVars,
       attemptVars, stopperVars
<1>13. ASSUME NEW s \in Stoppers, StopLocks(s) PROVE TypeOK'
  <2>1. StopLocksDoes(s)
    BY <1>13, StopLocksEffect, Zenon
  <2>2. stopped' \in BOOLEAN /\ started' \in BOOLEAN /\ dying' \in {"nil", "open", "closed"}
    BY <2>1, Zenon DEF StopLocksDoes
  <2>3. stopAttempt' \in Attempts \cup {0}
    BY <2>1, Zenon DEF StopLocksDoes
  <2>4. /\ apc' \in [Attempts -> {"none", "refresh", "clean", "finish", "end"}]
        /\ aerr' \in [Attempts -> BOOLEAN]
    BY <2>1, Zenon DEF StopLocksDoes
  <2> QED
    BY <2>1, <2>2, <2>3, <2>4 DEF StopLocksDoes, redisVars, lockVars, callerVars, refreshVars
<1>14. ASSUME NEW s \in Stoppers, StopReturns(s) PROVE TypeOK'
  BY <1>14 DEF StopReturns, redisVars, lockVars, stateVars, stopVars, callerVars, refreshVars,
       attemptVars, stopperVars
<1>15. ASSUME NEW s \in Stoppers, StopTimeout(s) PROVE TypeOK'
  BY <1>15 DEF StopTimeout, redisVars, lockVars, stateVars, stopVars, callerVars, refreshVars,
       attemptVars, stopperVars, TimesOut
<1>16. ASSUME NEW s \in Stoppers, StopAgain(s) PROVE TypeOK'
  BY <1>16 DEF StopAgain, redisVars, lockVars, stateVars, stopVars, callerVars, refreshVars,
       attemptVars, stopperVars
<1>17. ASSUME NEW a \in Attempts, AttemptLocks(a) PROVE TypeOK'
  BY <1>17 DEF AttemptLocks, redisVars, lockVars, stateVars, stopVars, callerVars, refreshVars,
       attemptVars, stopperVars, RefreshDone, StoreFree
<1>18. ASSUME NEW a \in Attempts, NEW n \in Names, AttemptDeletes(a, n) PROVE TypeOK'
  <2>1. nodes' \subseteq Names /\ aerr' \in [Attempts -> BOOLEAN]
    BY <1>18, Zenon DEF AttemptDeletes
  <2>2. atodo' \in [Attempts -> SUBSET Names]
    BY <1>18, Zenon DEF AttemptDeletes
  <2> QED
    BY <1>18, <2>1, <2>2 DEF AttemptDeletes, redisVars, lockVars, stateVars, stopVars, callerVars,
       refreshVars,
                           stopperVars
<1>19. ASSUME NEW a \in Attempts, AttemptCloses(a) PROVE TypeOK'
  BY <1>19 DEF AttemptCloses, redisVars, lockVars, stateVars, stopVars, callerVars, refreshVars,
       attemptVars, stopperVars
<1>20. ASSUME NEW a \in Attempts, AttemptEnds(a) PROVE TypeOK'
  BY <1>20 DEF AttemptEnds, redisVars, lockVars, stateVars, stopVars, callerVars, refreshVars,
       attemptVars, stopperVars, Completes
<1>21. CASE UNCHANGED vars
  BY <1>21 DEF vars, redisVars, lockVars, stateVars, stopVars, callerVars, refreshVars,
       attemptVars, stopperVars
<1> QED
  BY <1>1, <1>2, <1>3, <1>4, <1>5, <1>6, <1>7, <1>8, <1>9, <1>10, <1>11, <1>12, <1>13, <1>14,
     <1>15, <1>16, <1>17, <1>18, <1>19, <1>20, <1>21, Zenon
   DEF Next, UserStep, RefreshStep, AttemptStep

(* The locks are held by those who should.                                 *)
LEMMA LockStep ==
    ASSUME IInv, [Next]_vars
    PROVE  LockInv'
<1> USE DEF LockInv
<1>0. LockInv /\ cpc \in [Callers -> {"idle", "lock", "start", "store", "put"}]
      /\ apc \in [Attempts -> {"none", "refresh", "clean", "finish", "end"}]
  BY ZenonT(30) DEF IInv, TypeOK
<1>1. ASSUME NEW n \in Names, Expire(n) PROVE LockInv'
  BY <1>0, <1>1, Zenon DEF Expire, lockVars, callerVars, refreshVars, attemptVars
<1>2. ASSUME NEW u \in Callers, Begin(u) PROVE LockInv'
  BY <1>0, <1>2, Zenon DEF Begin, lockVars, callerVars, refreshVars, attemptVars, Operations
<1>3. ASSUME NEW u \in Callers, Lock(u) PROVE LockInv'
  <2>1. LockDoes(u)
    BY <1>3, LockEffect, Zenon DEF IInv
  <2>2. Nil \notin Callers
    BY RedisAssumption, Zenon
  <2> QED
    BY <1>0, <2>1, <2>2 DEF LockDoes, attemptVars
<1>4. ASSUME NEW u \in Callers, StartPut(u) PROVE LockInv'
  <2>1. StartPutDoes(u)
    BY <1>4, StartPutEffect, Zenon DEF IInv
  <2>2. /\ rpc = "none" /\ u # Nil /\ lifecycleLock = u
        /\ \A v \in Callers \ {u} : cpc[v] \notin {"start", "store", "put"}
    BY <2>1, UserAlone, Zenon DEF StartPutDoes
  <2>3. \A v \in Callers : v # Nil
    BY RedisAssumption, Zenon
  <2> QED
    BY <1>0, <2>1, <2>2, <2>3, Zenon DEF StartPutDoes, attemptVars
<1>5. ASSUME NEW u \in Callers, StoreLock(u) PROVE LockInv'
  BY <1>0, <1>5, Zenon DEF StoreLock, lockVars, callerVars, refreshVars, attemptVars, StoreFree
<1>6. ASSUME NEW u \in Callers, Put(u) PROVE LockInv'
  <2>1. PutDoes(u)
    BY <1>6, PutEffect, Zenon DEF IInv
  <2>2. /\ u # Nil /\ lifecycleLock = u
        /\ \A v \in Callers \ {u} : cpc[v] \notin {"start", "store", "put"}
    BY <2>1, UserAlone, Zenon DEF PutDoes
  <2>3. \A v \in Callers : v # Nil
    BY RedisAssumption, Zenon
  <2>4. /\ \A v \in Callers : cpc'[v] \notin {"start", "store", "put"}
        /\ storeLock = "user" /\ rpc # "tick" /\ \A a \in Attempts : apc[a] # "clean"
    BY <1>0, <2>1, <2>2, Zenon DEF PutDoes
  <2> QED
    BY <2>1, <2>3, <2>4, Zenon DEF PutDoes, refreshVars, attemptVars
<1>7. CASE Tick
  BY <1>0, <1>7, Zenon DEF Tick, lockVars, callerVars, refreshVars, attemptVars
<1>8. CASE TickLocks
  BY <1>0, <1>8, Zenon DEF TickLocks, lockVars, callerVars, refreshVars, attemptVars, StoreFree
<1>9. ASSUME NEW n \in Names, TickPut(n) PROVE LockInv'
  BY <1>0, <1>9, Zenon DEF TickPut, lockVars, callerVars, refreshVars, attemptVars
<1>10. CASE TickEnds
  BY <1>0, <1>10, Zenon DEF TickEnds, lockVars, callerVars, refreshVars, attemptVars
<1>11. CASE RefreshDies
  BY <1>0, <1>11, Zenon DEF RefreshDies, lockVars, callerVars, refreshVars, attemptVars
<1>12. ASSUME NEW s \in Stoppers, StopBegins(s) PROVE LockInv'
  BY <1>0, <1>12, Zenon DEF StopBegins, lockVars, callerVars, refreshVars, attemptVars
<1>13. ASSUME NEW s \in Stoppers, StopLocks(s) PROVE LockInv'
  <2>1. StopLocksDoes(s)
    BY <1>13, StopLocksEffect, Zenon DEF IInv, AttemptInv
  <2> QED
    BY <1>0, <2>1, Zenon DEF StopLocksDoes, lockVars, callerVars, refreshVars
<1>14. ASSUME NEW s \in Stoppers, StopReturns(s) PROVE LockInv'
  BY <1>0, <1>14, Zenon DEF StopReturns, lockVars, callerVars, refreshVars, attemptVars
<1>15. ASSUME NEW s \in Stoppers, StopTimeout(s) PROVE LockInv'
  BY <1>0, <1>15, Zenon DEF StopTimeout, lockVars, callerVars, refreshVars, attemptVars, TimesOut
<1>16. ASSUME NEW s \in Stoppers, StopAgain(s) PROVE LockInv'
  BY <1>0, <1>16, Zenon DEF StopAgain, lockVars, callerVars, refreshVars, attemptVars
<1>17. ASSUME NEW a \in Attempts, AttemptLocks(a) PROVE LockInv'
  BY <1>0, <1>17, Zenon
   DEF AttemptLocks, lockVars, callerVars, refreshVars, attemptVars, RefreshDone, StoreFree
<1>18. ASSUME NEW a \in Attempts, NEW n \in Names, AttemptDeletes(a, n) PROVE LockInv'
  BY <1>0, <1>18, Zenon DEF AttemptDeletes, lockVars, callerVars, refreshVars, attemptVars
<1>19. ASSUME NEW a \in Attempts, AttemptCloses(a) PROVE LockInv'
  <2>1. \A b \in Attempts \ {a} : apc[b] \in {"none", "end"}
    BY <1>19, AtWork, Zenon DEF AttemptCloses
  <2> QED
    BY <1>0, <1>19, <2>1, Zenon DEF AttemptCloses, callerVars, refreshVars
<1>20. ASSUME NEW a \in Attempts, AttemptEnds(a) PROVE LockInv'
  BY <1>0, <1>20, Zenon DEF AttemptEnds, lockVars, callerVars, refreshVars, attemptVars, Completes
<1>21. CASE UNCHANGED vars
  BY <1>0, <1>21, Zenon DEF vars, lockVars, callerVars, refreshVars, attemptVars
<1> QED
  BY <1>1, <1>2, <1>3, <1>4, <1>5, <1>6, <1>7, <1>8, <1>9, <1>10, <1>11, <1>12, <1>13, <1>14,
     <1>15, <1>16, <1>17, <1>18, <1>19, <1>20, <1>21, Zenon
   DEF Next, UserStep, RefreshStep, AttemptStep

(* The refresh keeps its store and its channel.                            *)
LEMMA RefreshStepInv ==
    ASSUME IInv, [Next]_vars
    PROVE  RefreshInv'
<1> USE DEF RefreshInv
<1>0. RefreshInv /\ cpc \in [Callers -> {"idle", "lock", "start", "store", "put"}]
  BY ZenonT(30) DEF IInv, TypeOK
<1>1. ASSUME NEW n \in Names, Expire(n) PROVE RefreshInv'
  BY <1>0, <1>1, Zenon DEF Expire, lockVars, stateVars, stopVars, callerVars, refreshVars
<1>2. ASSUME NEW u \in Callers, Begin(u) PROVE RefreshInv'
  BY <1>0, <1>2, Zenon DEF Begin, lockVars, stateVars, stopVars, callerVars, refreshVars, Operations
<1>3. ASSUME NEW u \in Callers, Lock(u) PROVE RefreshInv'
  <2>1. LockDoes(u)
    BY <1>3, LockEffect, Zenon DEF IInv, AttemptInv
  <2> QED
    BY <1>0, <2>1 DEF LockDoes
<1>4. ASSUME NEW u \in Callers, StartPut(u) PROVE RefreshInv'
  <2>1. StartPutDoes(u)
    BY <1>4, StartPutEffect, Zenon DEF IInv
  <2>2. /\ rpc = "none" /\ ~stopped /\ kv
        /\ \A v \in Callers \ {u} : cpc[v] \notin {"start", "store", "put"}
    BY <2>1, UserAlone, Zenon DEF StartPutDoes
  <2> QED
    BY <1>0, <2>1, <2>2, Zenon DEF StartPutDoes, stopVars
<1>5. ASSUME NEW u \in Callers, StoreLock(u) PROVE RefreshInv'
  BY <1>0, <1>5, Zenon DEF StoreLock, lockVars, stateVars, stopVars, callerVars, refreshVars,
     StoreFree
<1>6. ASSUME NEW u \in Callers, Put(u) PROVE RefreshInv'
  <2>1. PutDoes(u)
    BY <1>6, PutEffect, Zenon DEF IInv
  <2>2. rpc # "tick"
    BY <2>1, Zenon DEF PutDoes, IInv, LockInv
  <2> QED
    BY <1>0, <2>1, <2>2, Zenon DEF PutDoes, stopVars, refreshVars
<1>7. CASE Tick
  BY <1>0, <1>7, Zenon DEF Tick, lockVars, stateVars, stopVars, callerVars, refreshVars
<1>8. CASE TickLocks
  BY <1>0, <1>8, Zenon DEF TickLocks, lockVars, stateVars, stopVars, callerVars, refreshVars,
     StoreFree
<1>9. ASSUME NEW n \in Names, TickPut(n) PROVE RefreshInv'
  BY <1>0, <1>9, Zenon DEF TickPut, lockVars, stateVars, stopVars, callerVars, refreshVars
<1>10. CASE TickEnds
  BY <1>0, <1>10, Zenon DEF TickEnds, lockVars, stateVars, stopVars, callerVars, refreshVars
<1>11. CASE RefreshDies
  BY <1>0, <1>11, Zenon DEF RefreshDies, lockVars, stateVars, stopVars, callerVars, refreshVars
<1>12. ASSUME NEW s \in Stoppers, StopBegins(s) PROVE RefreshInv'
  BY <1>0, <1>12, Zenon DEF StopBegins, lockVars, stateVars, stopVars, callerVars, refreshVars
<1>13. ASSUME NEW s \in Stoppers, StopLocks(s) PROVE RefreshInv'
  <2>1. StopLocksDoes(s)
    BY <1>13, StopLocksEffect, Zenon DEF IInv, AttemptInv
  <2> QED
    BY <1>0, <2>1 DEF StopLocksDoes, lockVars, callerVars, refreshVars
<1>14. ASSUME NEW s \in Stoppers, StopReturns(s) PROVE RefreshInv'
  BY <1>0, <1>14, Zenon DEF StopReturns, lockVars, stateVars, stopVars, callerVars, refreshVars
<1>15. ASSUME NEW s \in Stoppers, StopTimeout(s) PROVE RefreshInv'
  BY <1>0, <1>15, Zenon
   DEF StopTimeout, lockVars, stateVars, stopVars, callerVars, refreshVars, TimesOut
<1>16. ASSUME NEW s \in Stoppers, StopAgain(s) PROVE RefreshInv'
  BY <1>0, <1>16, Zenon DEF StopAgain, lockVars, stateVars, stopVars, callerVars, refreshVars
<1>17. ASSUME NEW a \in Attempts, AttemptLocks(a) PROVE RefreshInv'
  BY <1>0, <1>17, Zenon
   DEF AttemptLocks, lockVars, stateVars, stopVars, callerVars, refreshVars, RefreshDone, StoreFree
<1>18. ASSUME NEW a \in Attempts, NEW n \in Names, AttemptDeletes(a, n) PROVE RefreshInv'
  BY <1>0, <1>18, Zenon DEF AttemptDeletes, lockVars, stateVars, stopVars, callerVars, refreshVars
<1>19. ASSUME NEW a \in Attempts, AttemptCloses(a) PROVE RefreshInv'
  <2>1. lifecycleLock = Nil /\ rpc \in {"none", "end"}
    BY <1>19, AtWork, Zenon DEF AttemptCloses, IInv, CleanInv
  <2> QED
    BY <1>0, <1>19, <2>1, Zenon DEF AttemptCloses, refreshVars, callerVars, stopVars
<1>20. ASSUME NEW a \in Attempts, AttemptEnds(a) PROVE RefreshInv'
  BY <1>0, <1>20, Zenon
   DEF AttemptEnds, lockVars, stateVars, stopVars, callerVars, refreshVars, Completes
<1>21. CASE UNCHANGED vars
  BY <1>0, <1>21, Zenon DEF vars, lockVars, stateVars, stopVars, callerVars, refreshVars
<1> QED
  BY <1>1, <1>2, <1>3, <1>4, <1>5, <1>6, <1>7, <1>8, <1>9, <1>10, <1>11, <1>12, <1>13, <1>14,
     <1>15, <1>16, <1>17, <1>18, <1>19, <1>20, <1>21, Zenon DEF Next, UserStep, RefreshStep,
     AttemptStep

(* Stops and attempts agree.                                               *)
LEMMA AttemptStepInv ==
    ASSUME IInv, [Next]_vars
    PROVE  AttemptInv'
<1> USE DEF AttemptInv, OneAttempt
<1>0. /\ AttemptInv /\ apc \in [Attempts -> {"none", "refresh", "clean", "finish", "end"}]
      /\ aerr \in [Attempts -> BOOLEAN] /\ waits \in [Stoppers -> Attempts \cup {0}]
      /\ spc \in [Stoppers -> {"idle", "lock", "wait", "nil", "error", "timeout"}]
      /\ 0 \notin Attempts
  <2>1. 0 \notin Attempts
    BY RedisAssumption DEF Attempts
  <2> QED
    BY <2>1, ZenonT(30) DEF IInv, TypeOK
<1>1. ASSUME NEW n \in Names, Expire(n) PROVE AttemptInv'
  BY <1>0, <1>1, Zenon DEF Expire, lockVars, stopVars, attemptVars, stopperVars
<1>2. ASSUME NEW u \in Callers, Begin(u) PROVE AttemptInv'
  BY <1>0, <1>2, Zenon DEF Begin, lockVars, stopVars, attemptVars, stopperVars, Operations
<1>3. ASSUME NEW u \in Callers, Lock(u) PROVE AttemptInv'
  <2>1. LockDoes(u)
    BY <1>3, LockEffect, Zenon DEF IInv, AttemptInv
  <2> QED
    BY <1>0, <2>1, Zenon DEF LockDoes, attemptVars, stopperVars
<1>4. ASSUME NEW u \in Callers, StartPut(u) PROVE AttemptInv'
  <2>1. StartPutDoes(u)
    BY <1>4, StartPutEffect, Zenon DEF IInv, AttemptInv
  <2> QED
    BY <1>0, <2>1, Zenon DEF StartPutDoes, stopVars, attemptVars, stopperVars
<1>5. ASSUME NEW u \in Callers, StoreLock(u) PROVE AttemptInv'
  BY <1>0, <1>5, Zenon DEF StoreLock, lockVars, stopVars, attemptVars, stopperVars, StoreFree
<1>6. ASSUME NEW u \in Callers, Put(u) PROVE AttemptInv'
  <2>1. PutDoes(u)
    BY <1>6, PutEffect, Zenon DEF IInv, AttemptInv
  <2> QED
    BY <1>0, <2>1, Zenon DEF PutDoes, stopVars, attemptVars, stopperVars
<1>7. CASE Tick
  BY <1>0, <1>7, Zenon DEF Tick, lockVars, stopVars, attemptVars, stopperVars
<1>8. CASE TickLocks
  BY <1>0, <1>8, Zenon DEF TickLocks, lockVars, stopVars, attemptVars, stopperVars, StoreFree
<1>9. ASSUME NEW n \in Names, TickPut(n) PROVE AttemptInv'
  BY <1>0, <1>9, Zenon DEF TickPut, lockVars, stopVars, attemptVars, stopperVars
<1>10. CASE TickEnds
  BY <1>0, <1>10, Zenon DEF TickEnds, lockVars, stopVars, attemptVars, stopperVars
<1>11. CASE RefreshDies
  BY <1>0, <1>11, Zenon DEF RefreshDies, lockVars, stopVars, attemptVars, stopperVars
<1>12. ASSUME NEW s \in Stoppers, StopBegins(s) PROVE AttemptInv'
  BY <1>0, <1>12, Zenon DEF StopBegins, lockVars, stopVars, attemptVars, stopperVars
<1>13. ASSUME NEW s \in Stoppers, StopLocks(s) PROVE AttemptInv'
  <2>1. StopLocksDoes(s)
    BY <1>13, StopLocksEffect, Zenon DEF IInv
  <2>2. /\ stopped' => lifecycleLock' = Nil
        /\ stopAttempt' # 0 => stopped'
        /\ dying' = "closed" => stopped'
        /\ stopComplete' => stopped' /\ stopAttempt' = 0
    BY <1>0, <2>1 DEF StopLocksDoes, lockVars
  <2>3. OneAttempt'
    BY <1>0, <2>1 DEF StopLocksDoes
  <2>4. \A a \in Attempts : apc'[a] = "end" /\ ~aerr'[a] => stopComplete'
    BY <1>0, <2>1, Zenon DEF StopLocksDoes
  <2>5. /\ \A t \in Stoppers : spc'[t] = "wait" => waits'[t] # 0
        /\ \A t \in Stoppers : spc'[t] = "nil" => stopComplete'
    BY <1>0, <2>1, Zenon DEF StopLocksDoes
  <2> QED
    BY <1>0, <2>2, <2>3, <2>4, <2>5, Zenon
<1>14. ASSUME NEW s \in Stoppers, StopReturns(s) PROVE AttemptInv'
  <2>1. spc[s] = "wait" /\ apc[waits[s]] = "end" /\ waits[s] \in Attempts
    BY <1>0, <1>14, Zenon DEF StopReturns, IInv, TypeOK
  <2>2. ~aerr[waits[s]] => stopComplete
    BY <1>0, <2>1, Zenon
  <2>3. /\ spc' = [spc EXCEPT ![s] = IF aerr[waits[s]] THEN "error" ELSE "nil"]
        /\ waits' = [waits EXCEPT ![s] = 0]
        /\ UNCHANGED <<lifecycleLock, stopped, stopComplete, stopAttempt, dying, apc, aerr>>
    BY <1>14, Zenon DEF StopReturns, lockVars, stopVars, attemptVars
  <2> QED
    BY <1>0, <2>2, <2>3, Zenon
<1>15. ASSUME NEW s \in Stoppers, StopTimeout(s) PROVE AttemptInv'
  BY <1>0, <1>15, Zenon DEF StopTimeout, lockVars, stopVars, attemptVars, stopperVars, TimesOut
<1>16. ASSUME NEW s \in Stoppers, StopAgain(s) PROVE AttemptInv'
  BY <1>0, <1>16, Zenon DEF StopAgain, lockVars, stopVars, attemptVars, stopperVars
<1>17. ASSUME NEW a \in Attempts, AttemptLocks(a) PROVE AttemptInv'
  BY <1>0, <1>17, Zenon
   DEF AttemptLocks, lockVars, stopVars, attemptVars, stopperVars, RefreshDone, StoreFree
<1>18. ASSUME NEW a \in Attempts, NEW n \in Names, AttemptDeletes(a, n) PROVE AttemptInv'
  BY <1>0, <1>18, Zenon DEF AttemptDeletes, lockVars, stopVars, attemptVars, stopperVars
<1>19. ASSUME NEW a \in Attempts, AttemptCloses(a) PROVE AttemptInv'
  BY <1>0, <1>19, Zenon DEF AttemptCloses, lockVars, stopVars, attemptVars, stopperVars
<1>20. ASSUME NEW a \in Attempts, AttemptEnds(a) PROVE AttemptInv'
  <2>1. stopAttempt = a /\ stopped /\ \A b \in Attempts \ {a} : apc[b] \in {"none", "end"}
    BY <1>20, AtWork, Zenon DEF AttemptEnds
  <2>2. /\ stopAttempt' = 0 /\ apc' = [apc EXCEPT ![a] = "end"]
        /\ stopComplete' = (stopComplete \/ ~aerr[a])
    BY <1>20, <2>1, Zenon DEF AttemptEnds, Completes
  <2>3. UNCHANGED <<lifecycleLock, stopped, dying, aerr, spc, waits>>
    BY <1>20, Zenon DEF AttemptEnds, lockVars, stopperVars
  <2> QED
    BY <1>0, <2>1, <2>2, <2>3, Zenon
<1>21. CASE UNCHANGED vars
  BY <1>0, <1>21, Zenon DEF vars, lockVars, stopVars, attemptVars, stopperVars
<1> QED
  BY <1>1, <1>2, <1>3, <1>4, <1>5, <1>6, <1>7, <1>8, <1>9, <1>10, <1>11, <1>12, <1>13, <1>14,
     <1>15, <1>16, <1>17, <1>18, <1>19, <1>20, <1>21, Zenon
   DEF Next, UserStep, RefreshStep, AttemptStep

(* Nodes are accounted for, and a cleanup deletes them.                    *)
LEMMA CleanStep ==
    ASSUME IInv, [Next]_vars
    PROVE  CleanInv'
<1> USE DEF CleanInv, Cleaned
<1>0. /\ CleanInv /\ apc \in [Attempts -> {"none", "refresh", "clean", "finish", "end"}]
      /\ aerr \in [Attempts -> BOOLEAN] /\ atodo \in [Attempts -> SUBSET Names]
  BY ZenonT(30) DEF IInv, TypeOK
<1>1. ASSUME NEW n \in Names, Expire(n) PROVE CleanInv'
  BY <1>0, <1>1, Zenon DEF Expire, redisVars, stateVars, stopVars, refreshVars, attemptVars
<1>2. ASSUME NEW u \in Callers, Begin(u) PROVE CleanInv'
  BY <1>0, <1>2, Zenon DEF Begin, redisVars, stateVars, stopVars, refreshVars, attemptVars,
     Operations
<1>3. ASSUME NEW u \in Callers, Lock(u) PROVE CleanInv'
  <2>1. LockDoes(u)
    BY <1>3, LockEffect, Zenon DEF IInv
  <2>2. stopComplete \/ (\E a \in Attempts : apc[a] \in {"clean", "finish"}) =>
           kv' = kv /\ stranded' = stranded
    BY <1>0, <2>1, AtWork, Zenon DEF LockDoes, IInv, AttemptInv
  <2> QED
    BY <1>0, <2>1, <2>2, Zenon DEF LockDoes, redisVars, attemptVars
<1>4. ASSUME NEW u \in Callers, StartPut(u) PROVE CleanInv'
  <2>1. StartPutDoes(u)
    BY <1>4, StartPutEffect, Zenon DEF IInv
  <2>2. ~stopComplete /\ \A a \in Attempts : apc[a] \in {"none", "end"}
    BY <2>1, UserAlone, Zenon DEF StartPutDoes
  <2> QED
    BY <1>0, <2>1, <2>2, Zenon DEF StartPutDoes, redisVars, stopVars, attemptVars
<1>5. ASSUME NEW u \in Callers, StoreLock(u) PROVE CleanInv'
  BY <1>0, <1>5, Zenon
   DEF StoreLock, redisVars, stateVars, stopVars, refreshVars, attemptVars, StoreFree
<1>6. ASSUME NEW u \in Callers, Put(u) PROVE CleanInv'
  <2>1. PutDoes(u)
    BY <1>6, PutEffect, Zenon DEF IInv
  <2>2. ~stopComplete /\ \A a \in Attempts : apc[a] \in {"none", "end"}
    BY <2>1, UserAlone, Zenon DEF PutDoes
  <2> QED
    BY <1>0, <2>1, <2>2, Zenon DEF PutDoes, stopVars, attemptVars
<1>7. CASE Tick
  BY <1>0, <1>7, Zenon DEF Tick, redisVars, stateVars, stopVars, refreshVars, attemptVars
<1>8. CASE TickLocks
  BY <1>0, <1>8, Zenon
   DEF TickLocks, redisVars, stateVars, stopVars, refreshVars, attemptVars, StoreFree
<1>9. ASSUME NEW n \in Names, TickPut(n) PROVE CleanInv'
  <2>1. rtodo \subseteq Services
    BY <1>9, Zenon DEF TickPut, IInv, RefreshInv
  <2>2. rpc = "tick" /\ nodes' \subseteq nodes \cup rtodo
    BY <1>9, Zenon DEF TickPut
  <2>3. ~stopComplete /\ \A a \in Attempts : apc[a] \notin {"clean", "finish"}
    BY <1>0, <2>2, Zenon
  <2>4. UNCHANGED <<orphans, stranded, Services, stopComplete, apc>>
    BY <1>9, Zenon DEF TickPut, stateVars, stopVars, attemptVars
  <2> QED
    BY <1>0, <2>1, <2>2, <2>3, <2>4, Zenon
<1>10. CASE TickEnds
  BY <1>0, <1>10, Zenon DEF TickEnds, redisVars, stateVars, stopVars, refreshVars, attemptVars
<1>11. CASE RefreshDies
  BY <1>0, <1>11, Zenon DEF RefreshDies, redisVars, stateVars, stopVars, refreshVars, attemptVars
<1>12. ASSUME NEW s \in Stoppers, StopBegins(s) PROVE CleanInv'
  BY <1>0, <1>12, Zenon DEF StopBegins, redisVars, stateVars, stopVars, refreshVars, attemptVars
<1>13. ASSUME NEW s \in Stoppers, StopLocks(s) PROVE CleanInv'
  <2>1. StopLocksDoes(s)
    BY <1>13, StopLocksEffect, Zenon DEF IInv, AttemptInv
  <2> QED
    BY <1>0, <2>1, ZenonT(60) DEF StopLocksDoes, redisVars, refreshVars
<1>14. ASSUME NEW s \in Stoppers, StopReturns(s) PROVE CleanInv'
  BY <1>0, <1>14, Zenon DEF StopReturns, redisVars, stateVars, stopVars, refreshVars, attemptVars
<1>15. ASSUME NEW s \in Stoppers, StopTimeout(s) PROVE CleanInv'
  BY <1>0, <1>15, Zenon
   DEF StopTimeout, redisVars, stateVars, stopVars, refreshVars, attemptVars, TimesOut
<1>16. ASSUME NEW s \in Stoppers, StopAgain(s) PROVE CleanInv'
  BY <1>0, <1>16, Zenon DEF StopAgain, redisVars, stateVars, stopVars, refreshVars, attemptVars
<1>17. ASSUME NEW a \in Attempts, AttemptLocks(a) PROVE CleanInv'
  <2>1. rpc \in {"none", "end"} /\ ~stopComplete
    BY <1>17, AtWork, Zenon DEF AttemptLocks, RefreshDone, IInv, RefreshInv, TypeOK
  <2>2. \A b \in Attempts \ {a} : apc[b] \in {"none", "end"}
    BY <1>17, AtWork, Zenon DEF AttemptLocks
  <2>3. /\ apc' = [apc EXCEPT ![a] = "clean"]
        /\ atodo' = [atodo EXCEPT ![a] = IF kv THEN Services ELSE {}]
        /\ UNCHANGED <<nodes, orphans, stranded, Services, kv, rpc, stopComplete, aerr>>
    BY <1>17, Zenon DEF AttemptLocks, redisVars, stateVars, refreshVars, stopVars
  <2>5. kv \/ Services \subseteq stranded
    BY <1>17, <2>1, <2>2, Zenon DEF AttemptLocks, IInv, StrandedInv
  <2>4. nodes \subseteq orphans \cup stranded \cup atodo'[a]
    <3>1. atodo'[a] = IF kv THEN Services ELSE {}
      BY <1>0, <2>3, Zenon
    <3> QED
      BY <1>0, <2>5, <3>1, Zenon
  <2> QED
    BY <1>0, <2>1, <2>2, <2>3, <2>4, Zenon
<1>18. ASSUME NEW a \in Attempts, NEW n \in Names, AttemptDeletes(a, n) PROVE CleanInv'
  BY <1>0, <1>18, Zenon DEF AttemptDeletes, redisVars, stateVars, stopVars, refreshVars, attemptVars
<1>19. ASSUME NEW a \in Attempts, AttemptCloses(a) PROVE CleanInv'
  BY <1>0, <1>19, Zenon DEF AttemptCloses, redisVars, stateVars, stopVars, refreshVars, attemptVars
<1>20. ASSUME NEW a \in Attempts, AttemptEnds(a) PROVE CleanInv'
  BY <1>0, <1>20, Zenon
   DEF AttemptEnds, redisVars, stateVars, stopVars, refreshVars, attemptVars, Completes
<1>21. CASE UNCHANGED vars
  BY <1>0, <1>21, Zenon DEF vars, redisVars, stateVars, stopVars, refreshVars, attemptVars
<1> QED
  BY <1>1, <1>2, <1>3, <1>4, <1>5, <1>6, <1>7, <1>8, <1>9, <1>10, <1>11, <1>12, <1>13, <1>14,
     <1>15, <1>16, <1>17, <1>18, <1>19, <1>20, <1>21, Zenon DEF Next, UserStep, RefreshStep,
     AttemptStep

(* The store is closed by a failed Start, which strands the services, or   *)
(* by a cleanup, and no service is added while it is closed.               *)
LEMMA StrandedStep ==
    ASSUME IInv, [Next]_vars
    PROVE  StrandedInv'
<1> USE DEF StrandedInv
<1>0. /\ StrandedInv /\ apc \in [Attempts -> {"none", "refresh", "clean", "finish", "end"}]
      /\ aerr \in [Attempts -> BOOLEAN]
  BY ZenonT(30) DEF IInv, TypeOK
<1>1. ASSUME NEW n \in Names, Expire(n) PROVE StrandedInv'
  BY <1>0, <1>1, Zenon DEF Expire, redisVars, stateVars, stopVars, attemptVars
<1>2. ASSUME NEW u \in Callers, Begin(u) PROVE StrandedInv'
  BY <1>0, <1>2, Zenon DEF Begin, redisVars, stateVars, stopVars, attemptVars
<1>3. ASSUME NEW u \in Callers, Lock(u) PROVE StrandedInv'
  <2>1. LockDoes(u)
    BY <1>3, LockEffect, Zenon DEF IInv
  <2>2. kv' \/ (kv' = kv /\ stranded' = stranded)
    BY <2>1, Zenon DEF LockDoes
  <2>3. UNCHANGED <<stopComplete, Services, apc, aerr>>
    BY <2>1, Zenon DEF LockDoes, attemptVars
  <2> QED
    BY <1>0, <2>2, <2>3, Zenon
<1>4. ASSUME NEW u \in Callers, StartPut(u) PROVE StrandedInv'
  <2>1. StartPutDoes(u)
    BY <1>4, StartPutEffect, Zenon DEF IInv
  <2>2. stranded' = Services \/ (kv' = kv /\ stranded' = stranded)
    BY <2>1, Zenon DEF StartPutDoes
  <2>3. UNCHANGED <<stopComplete, Services, apc, aerr>>
    BY <2>1, Zenon DEF StartPutDoes, stopVars, attemptVars
  <2> QED
    BY <1>0, <2>2, <2>3, Zenon
<1>5. ASSUME NEW u \in Callers, StoreLock(u) PROVE StrandedInv'
  BY <1>0, <1>5, Zenon DEF StoreLock, redisVars, stateVars, stopVars, attemptVars
<1>6. ASSUME NEW u \in Callers, Put(u) PROVE StrandedInv'
  <2>1. PutDoes(u)
    BY <1>6, PutEffect, Zenon DEF IInv
  <2>2. kv
    BY <2>1, UserAlone, Zenon DEF PutDoes
  <2> QED
    BY <2>1, <2>2, Zenon DEF PutDoes
<1>7. CASE RefreshStep
  <2>1. UNCHANGED <<kv, stopComplete, Services, stranded, apc, aerr>>
    BY <1>7, Zenon DEF RefreshStep, Tick, TickLocks, TickEnds, RefreshDies, TickPut, redisVars,
       stateVars, stopVars, attemptVars
  <2> QED
    BY <1>0, <2>1, Zenon
<1>8. ASSUME NEW s \in Stoppers, StopBegins(s) \/ StopReturns(s) \/ StopTimeout(s) \/ StopAgain(s)
      PROVE  StrandedInv'
  <2>1. UNCHANGED <<kv, stopComplete, Services, stranded, apc, aerr>>
    BY <1>8, Zenon DEF StopBegins, StopReturns, StopTimeout, StopAgain, redisVars, stateVars,
       stopVars, attemptVars
  <2> QED
    BY <1>0, <2>1, Zenon
<1>9. ASSUME NEW s \in Stoppers, StopLocks(s) PROVE StrandedInv'
  <2>1. StopLocksDoes(s)
    BY <1>9, StopLocksEffect, Zenon DEF IInv, AttemptInv
  <2>2. CASE \E a \in Attempts : apc[a] = "finish" /\ ~aerr[a]
    <3>1. stopAttempt # 0
      BY <2>2, AtWork, RedisAssumption DEF Attempts
    <3> QED
      BY <2>1, <2>2, <3>1, Zenon DEF StopLocksDoes
  <2> QED
    BY <1>0, <2>1, <2>2, Zenon DEF StopLocksDoes, redisVars
<1>10. ASSUME NEW a \in Attempts, AttemptLocks(a) PROVE StrandedInv'
  <2>1. \A b \in Attempts \ {a} : apc[b] \in {"none", "end"}
    BY <1>10, AtWork, Zenon DEF AttemptLocks
  <2> QED
    BY <1>0, <1>10, <2>1, Zenon DEF AttemptLocks, redisVars, stateVars, stopVars
<1>11. ASSUME NEW a \in Attempts, NEW n \in Names, AttemptDeletes(a, n) PROVE StrandedInv'
  <2>1. \A b \in Attempts : apc[b] # "finish"
    BY <1>11, AtWork, Zenon DEF AttemptDeletes
  <2> QED
    BY <1>0, <1>11, <2>1, Zenon DEF AttemptDeletes, stateVars, stopVars
<1>12. ASSUME NEW a \in Attempts, AttemptCloses(a) PROVE StrandedInv'
  <2>1. \A b \in Attempts : apc[b] # "finish"
    BY <1>12, AtWork, Zenon DEF AttemptCloses
  <2>2. kv' = (kv /\ aerr[a]) /\ apc'[a] = "finish"
    BY <1>0, <1>12, Zenon DEF AttemptCloses
  <2>3. UNCHANGED <<stopComplete, Services, stranded, aerr>>
    BY <1>12, Zenon DEF AttemptCloses, redisVars, stopVars
  <2> QED
    BY <1>0, <2>1, <2>2, <2>3, Zenon
<1>13. ASSUME NEW a \in Attempts, AttemptEnds(a) PROVE StrandedInv'
  <2>1. \A b \in Attempts \ {a} : apc[b] \in {"none", "end"}
    BY <1>13, AtWork, Zenon DEF AttemptEnds
  <2>2. /\ stopComplete' = (stopComplete \/ ~aerr[a])
        /\ UNCHANGED <<kv, Services, stranded, aerr>>
    BY <1>13, Zenon DEF AttemptEnds, Completes, redisVars, stateVars
  <2> QED
    BY <1>0, <2>1, <2>2, Zenon
<1>14. CASE UNCHANGED vars
  BY <1>0, <1>14, Zenon DEF vars, redisVars, stateVars, stopVars, attemptVars
<1> QED
  BY <1>1, <1>2, <1>3, <1>4, <1>5, <1>6, <1>7, <1>8, <1>9, <1>10, <1>11, <1>12, <1>13, <1>14,
     Zenon DEF Next, UserStep, AttemptStep

(* The invariant holds at the start and every step keeps it.               *)
LEMMA Inductive == IInv /\ [Next]_vars => IInv'
<1> SUFFICES ASSUME IInv, [Next]_vars PROVE IInv'
  OBVIOUS
<1>1. TypeOK'
  BY TypeStep, Zenon DEF IInv, AttemptInv
<1> QED
  BY <1>1, LockStep, RefreshStepInv, AttemptStepInv, CleanStep, StrandedStep, Zenon DEF IInv

(* The inductive invariant of the register's lifecycle: who holds the two  *)
(* locks, when the refresh may run, and what a cleanup has achieved        *)
(* (redis.go:88-324), for all sets of services and goroutines.             *)
THEOREM Invariance == Spec => []IInv
<1>1. ASSUME Init PROVE IInv
  <2> USE <1>1, RedisAssumption DEF Init
  <2>1. TypeOK
    BY Zenon DEF TypeOK
  <2>2. LockInv /\ RefreshInv
    BY Zenon DEF LockInv, RefreshInv
  <2>3. AttemptInv /\ CleanInv /\ StrandedInv
    BY Zenon DEF AttemptInv, CleanInv, StrandedInv, OneAttempt
  <2> QED
    BY <2>1, <2>2, <2>3, Zenon DEF IInv
<1> QED
  BY <1>1, Inductive, PTL DEF Spec

(* Variables keep their types: locks are held by their kinds of goroutine, *)
(* a stopper waits for an attempt that exists.                             *)
THEOREM Types == Spec => []TypeOK
<1>1. IInv => TypeOK
  BY Zenon DEF IInv
<1> QED
  BY <1>1, Invariance, PTL

(* A node in Redis belongs to a service of Services or to a Register that  *)
(* was told it had failed (redis.go:154-183, 437-474).                     *)
THEOREM NodesAreRegistered == Spec => []NodesRegistered
<1>1. IInv => NodesRegistered
  BY Zenon DEF IInv, CleanInv, NodesRegistered
<1> QED
  BY <1>1, Invariance, PTL

(* After a Stop that returned nil the refresh has ended, the store is      *)
(* closed, and the nodes left are those of a Register that was told it had *)
(* failed and those that a failed Start had stranded (redis.go:88-96,      *)
(* 120-124, 270-324).                                                      *)
THEOREM StopHasCleaned == Spec => []StopCleans
<1>1. IInv => StopCleans
  BY Zenon DEF IInv, CleanInv, AttemptInv, Cleaned, StopCleans
<1> QED
  BY <1>1, Invariance, PTL

(* The refresh, Start and Register never use a store that the cleanup has  *)
(* closed (redis.go:127, 270-274, 318-321).                                *)
THEOREM StoreIsOpen == Spec => []StoreOpen
<1>1. IInv => StoreOpen
  <2> SUFFICES ASSUME IInv PROVE StoreOpen
    OBVIOUS
  <2>1. \A u \in Callers : u # Nil
    BY RedisAssumption, Zenon
  <2>2. \A u \in Callers : cpc[u] \in {"start", "store", "put"} => kv
    BY <2>1, Zenon DEF IInv, LockInv, RefreshInv
  <2>3. rpc \in {"lock", "tick"} => kv
    BY Zenon DEF IInv, RefreshInv
  <2> QED
    BY <2>2, <2>3, Zenon DEF StoreOpen
<1> QED
  BY <1>1, Invariance, PTL

(* However many Stops time out and are called again, at most one cleanup   *)
(* attempt is under way, and it is the one that new Stops wait for         *)
(* (redis.go:74-76, 88-120).                                               *)
THEOREM AttemptsAreSerial == Spec => []OneAttempt
<1>1. IInv => OneAttempt
  BY Zenon DEF IInv, AttemptInv
<1> QED
  BY <1>1, Invariance, PTL
=============================================================================

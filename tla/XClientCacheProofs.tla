------------------------- MODULE XClientCacheProofs -------------------------
(* Proofs about XClientCache, for any number of goroutines, servers and    *)
(* clients.                                                                *)
EXTENDS XClientCache, TLAPS

(* generateClient makes a client that was not there before.                *)
LEMMA NextUnused == TypeOK /\ Clients # made => NextClient \in Clients \ made
BY Zenon DEF TypeOK, NextClient

(* Every step keeps the types.                                             *)
LEMMA TypeStep == IInv /\ [Next]_vars => TypeOK'
<1> SUFFICES ASSUME IInv, [Next]_vars PROVE TypeOK'
  OBVIOUS
<1> USE CacheAssumption DEF IInv
<1>1. ASSUME NEW p \in Callers, SelectClient(p) PROVE TypeOK'
  BY <1>1, NextUnused DEF TypeOK, SelectClient, clientVars, cacheVars,
     flightVars, procVars, confVars, States, Procs, PlaceInv, ClientInv
<1>2. ASSUME NEW p \in Callers, RemoveNil(p) PROVE TypeOK'
  BY <1>2, NextUnused DEF TypeOK, RemoveNil, Leaves, Retries, clientVars,
     cacheVars, flightVars, procVars, confVars, States, Procs, PlaceInv,
     ClientInv
<1>3. ASSUME NEW p \in Callers, GiveUp(p) PROVE TypeOK'
  BY <1>3, NextUnused, Zenon
     DEF TypeOK, GiveUp, Leaves, clientVars, cacheVars, flightVars, procVars, confVars, States,
         Procs, PlaceInv, ClientInv
<1>4. ASSUME NEW p \in Fans, FanBegins(p) PROVE TypeOK'
  BY <1>4, NextUnused, Zenon
     DEF TypeOK, FanBegins, clientVars, cacheVars, flightVars, procVars, confVars, States,
         Procs, PlaceInv, ClientInv
<1>5. ASSUME NEW p \in Procs, ReturnSticky(p) PROVE TypeOK'
  BY <1>5, NextUnused DEF TypeOK, ReturnSticky, clientVars, cacheVars,
     flightVars, procVars, confVars, States, Procs, PlaceInv, ClientInv
<1>6. ASSUME NEW p \in Procs, Stick(p) PROVE TypeOK'
  BY <1>6, NextUnused DEF TypeOK, Stick, Closing, Alive, clientVars, cacheVars,
     flightVars, procVars, confVars, States, Procs, PlaceInv, ClientInv
<1>7. ASSUME NEW p \in Procs, Check(p) PROVE TypeOK'
  BY <1>7, NextUnused DEF TypeOK, Check, Returns, After, clientVars, cacheVars,
     flightVars, procVars, confVars, States, Procs, PlaceInv, ClientInv
<1>8. ASSUME NEW p \in Procs, Find(p) PROVE TypeOK'
  BY <1>8, NextUnused DEF TypeOK, Find, Returns, After, Usable, Alive,
     clientVars, cacheVars, flightVars, procVars, confVars, States, Procs,
     PlaceInv, ClientInv
<1>9. ASSUME NEW p \in Procs, Join(p) PROVE TypeOK'
  BY <1>9, NextUnused DEF TypeOK, Join, clientVars, cacheVars, flightVars,
     procVars, confVars, States, Procs, PlaceInv, ClientInv
<1>10. ASSUME NEW p \in Procs, GenerateClient(p) PROVE TypeOK'
  BY <1>10, NextUnused DEF TypeOK, GenerateClient,
     clientVars, cacheVars, flightVars, procVars, confVars, States, Procs,
     PlaceInv, ClientInv
<1>11. ASSUME NEW p \in Procs, SetCachedClient(p) PROVE TypeOK'
  BY <1>11, NextUnused, Zenon
     DEF TypeOK, SetCachedClient, clientVars, cacheVars, flightVars, procVars, confVars, States,
         Procs, PlaceInv, ClientInv
<1>12. ASSUME NEW p \in Procs, Forget(p) PROVE TypeOK'
  BY <1>12, NextUnused DEF TypeOK, Forget, Returns, After, clientVars,
     cacheVars, flightVars, procVars, confVars, States, Procs, PlaceInv,
     ClientInv
<1>13. ASSUME NEW p \in Procs, FanNext(p) PROVE TypeOK'
  BY <1>13, NextUnused DEF TypeOK, FanNext, clientVars, cacheVars, flightVars,
     procVars, confVars, States, Procs, PlaceInv, ClientInv
<1>14. ASSUME NEW p \in Procs, FanUnlocks(p) PROVE TypeOK'
  BY <1>14, NextUnused DEF TypeOK, FanUnlocks, FanMu, Leaves, clientVars,
     cacheVars, flightVars, procVars, confVars, States, Procs, PlaceInv,
     ClientInv
<1>15. ASSUME NEW p \in Procs, Return(p) PROVE TypeOK'
  BY <1>15, NextUnused, Zenon
     DEF TypeOK, Return, Leaves, clientVars, cacheVars, flightVars, procVars, confVars, States,
         Procs, PlaceInv, ClientInv
<1>16. ASSUME NEW p \in Procs, RemoveClient(p) PROVE TypeOK'
  BY <1>16, NextUnused DEF TypeOK, RemoveClient, Removed, Closing, Alive,
     clientVars, cacheVars, flightVars, procVars, confVars, States, Procs,
     PlaceInv, ClientInv
<1>17. ASSUME NEW p \in Procs, CloseRemoved(p) PROVE TypeOK'
  BY <1>17, NextUnused DEF TypeOK, CloseRemoved, Leaves, Retries, Closing,
     Alive, clientVars, cacheVars, flightVars, procVars, confVars, States,
     Procs, PlaceInv, ClientInv
<1>18. ASSUME NEW x \in Clients, ConnectionLost(x) PROVE TypeOK'
  BY <1>18, NextUnused DEF TypeOK, ConnectionLost, Alive, clientVars, cacheVars,
     flightVars, procVars, confVars, States, Procs, PlaceInv, ClientInv
<1>19. CASE Watch
  BY <1>19, NextUnused, Zenon
     DEF TypeOK, Watch, clientVars, cacheVars, flightVars, procVars, confVars, States, Procs,
         PlaceInv, ClientInv
<1>20. CASE Close
  BY <1>20, NextUnused, Zenon
     DEF TypeOK, Close, Closing, Alive, clientVars, cacheVars, flightVars, procVars, confVars,
         States, Procs, PlaceInv, ClientInv
<1>21. CASE UNCHANGED vars
  BY <1>21, Zenon
     DEF TypeOK, vars, clientVars, cacheVars, flightVars, procVars, confVars, States, Procs,
         PlaceInv, ClientInv
<1>22. ASSUME NEW p \in Procs, Delivered(p) PROVE TypeOK'
  BY <1>22, Zenon DEF TypeOK, Waiting, States, Procs, PlaceInv, Delivered, clientVars, cacheVars, confVars
<1>23. ASSUME NEW p \in Procs, FanLocks(p) PROVE TypeOK'
  BY <1>23, Zenon DEF TypeOK, States, Procs, PlaceInv, FanLocks, clientVars, cacheVars, flightVars, confVars
<1> QED
  BY <1>1, <1>2, <1>3, <1>4, <1>5, <1>6, <1>7, <1>8, <1>9, <1>10, <1>11, <1>12,
     <1>13, <1>14, <1>15, <1>16, <1>17, <1>18, <1>19, <1>20, <1>21, <1>22, <1>23, Zenon DEF
     Next, Acquire, Procs

(* Every step keeps what the goroutines know.                              *)
LEMMA PlaceStep == IInv /\ [Next]_vars => PlaceInv'
<1> SUFFICES ASSUME IInv, [Next]_vars PROVE PlaceInv'
  OBVIOUS
<1> USE CacheAssumption DEF IInv
<1>1. ASSUME NEW p \in Callers, SelectClient(p) PROVE PlaceInv'
  BY <1>1, NextUnused DEF PlaceInv, SelectClient, clientVars, cacheVars,
     flightVars, procVars, confVars, TypeOK, States, Procs, HeldInv, FreshInv
<1>2. ASSUME NEW p \in Callers, RemoveNil(p) PROVE PlaceInv'
  BY <1>2, NextUnused DEF PlaceInv, RemoveNil, Leaves, Retries, clientVars,
     cacheVars, flightVars, procVars, confVars, TypeOK, States, Procs, HeldInv,
     FreshInv
<1>3. ASSUME NEW p \in Callers, GiveUp(p) PROVE PlaceInv'
  BY <1>3, NextUnused, Zenon
     DEF PlaceInv, GiveUp, Leaves, clientVars, cacheVars, flightVars, procVars, confVars,
         TypeOK, States, Procs, HeldInv, FreshInv
<1>4. ASSUME NEW p \in Fans, FanBegins(p) PROVE PlaceInv'
  BY <1>4, NextUnused DEF PlaceInv, FanBegins, clientVars, cacheVars,
     flightVars, procVars, confVars, TypeOK, States, Procs, HeldInv, FreshInv
<1>5. ASSUME NEW p \in Procs, ReturnSticky(p) PROVE PlaceInv'
  BY <1>5, NextUnused DEF PlaceInv, ReturnSticky, clientVars, cacheVars,
     flightVars, procVars, confVars, TypeOK, States, Procs, HeldInv, FreshInv
<1>6. ASSUME NEW p \in Procs, Stick(p) PROVE PlaceInv'
  BY <1>6, NextUnused, Zenon
     DEF PlaceInv, Stick, Closing, Alive, clientVars, cacheVars, flightVars, procVars, confVars,
         TypeOK, States, Procs, HeldInv, FreshInv
<1>7. ASSUME NEW p \in Procs, Check(p) PROVE PlaceInv'
  BY <1>7, NextUnused DEF PlaceInv, Check, Returns, After, clientVars,
     cacheVars, flightVars, procVars, confVars, TypeOK, States, Procs, HeldInv,
     FreshInv
<1>8. ASSUME NEW p \in Procs, Find(p) PROVE PlaceInv'
  <2>1. CASE ~Usable(cachedClient[key[p]])
    BY <1>8, <2>1 DEF Find, PlaceInv, TypeOK, clientVars, cacheVars, flightVars, procVars, confVars
  <2>2. CASE Usable(cachedClient[key[p]])
    <3> DEFINE x == cachedClient[key[p]]
    <3>1. /\ pc' = [pc EXCEPT ![p] = After(p, x)]
          /\ held' = [held EXCEPT ![p] = @ \cup {x}]
          /\ x \in Clients
      BY <1>8, <2>2, Zenon DEF Find, Returns, Usable, Alive, TypeOK
    <3>2. held'[p] # {} /\ pc'[p] \in {"fan", "stick", "has"}
      BY <3>1, <2>2, Zenon DEF After, TypeOK
    <3>3. (pc'[p] = "stick" => sticky) /\ (pc'[p] = "fan" <=> p \in Fans)
      BY <3>1, <2>2, Zenon DEF After, TypeOK
    <3>4. UNCHANGED <<key, flight, sticky, got, barred>>
      BY <1>8, Zenon DEF Find, clientVars, cacheVars, flightVars, procVars, confVars
    <3>5. \A q \in Procs \ {p} : pc'[q] = pc[q] /\ held'[q] = held[q]
      BY <3>1, Zenon DEF TypeOK
    <3>6. pc[p] = "find"
      BY <1>8, Zenon DEF Find
    <3> HIDE DEF x
    <3> QED
      BY <3>2, <3>3, <3>4, <3>5, <3>6 DEF PlaceInv, Procs
  <2> QED
    BY <2>1, <2>2, Zenon
<1>9. ASSUME NEW p \in Procs, Join(p) PROVE PlaceInv'
  BY <1>9, NextUnused DEF PlaceInv, Join, clientVars, cacheVars, flightVars,
     procVars, confVars, TypeOK, States, Procs, HeldInv, FreshInv
<1>10. ASSUME NEW p \in Procs, GenerateClient(p) PROVE PlaceInv'
  BY <1>10, NextUnused DEF PlaceInv, GenerateClient,
     clientVars, cacheVars, flightVars, procVars, confVars, TypeOK, States,
     Procs, HeldInv, FreshInv
<1>11. ASSUME NEW p \in Procs, SetCachedClient(p) PROVE PlaceInv'
  BY <1>11, NextUnused, Zenon
     DEF PlaceInv, SetCachedClient, clientVars, cacheVars, flightVars, procVars, confVars,
         TypeOK, States, Procs, HeldInv, FreshInv
<1>12. ASSUME NEW p \in Procs, Forget(p) PROVE PlaceInv'
  <2> DEFINE x == IF pc[p] = "forget" THEN got[p] ELSE Nil
  <2>1. /\ pc' = [pc EXCEPT ![p] = After(p, x)]
        /\ held' = IF x = Nil THEN held ELSE [held EXCEPT ![p] = @ \cup {x}]
        /\ got' = [got EXCEPT ![p] = Nil]
    BY <1>12, Zenon DEF Forget, Returns
  <2>2. pc'[p] \in {"fan", "failed", "stick", "has"}
    BY <2>1, Zenon DEF After, TypeOK
  <2>3. (pc'[p] = "stick" => sticky /\ held'[p] # {}) /\ (pc'[p] = "fan" <=> p \in Fans)
    BY <2>1, Zenon DEF After, TypeOK
  <2>4. UNCHANGED <<key, flight, sticky, barred>>
    BY <1>12, Zenon DEF Forget, clientVars, cacheVars, flightVars, procVars, confVars
  <2>5. \A q \in Procs \ {p} : pc'[q] = pc[q] /\ held'[q] = held[q] /\ got'[q] = got[q]
    BY <2>1, Zenon DEF TypeOK
  <2>6. pc[p] \in {"forget", "forgetErr"}
    BY <1>12, Zenon DEF Forget
  <2> HIDE DEF x
  <2> QED
    BY <2>2, <2>3, <2>4, <2>5, <2>6 DEF PlaceInv, Procs
<1>13. ASSUME NEW p \in Procs, FanNext(p) PROVE PlaceInv'
  BY <1>13, NextUnused DEF PlaceInv, FanNext, clientVars, cacheVars, flightVars,
     procVars, confVars, TypeOK, States, Procs, HeldInv, FreshInv
<1>14. ASSUME NEW p \in Procs, FanUnlocks(p) PROVE PlaceInv'
  BY <1>14, NextUnused DEF PlaceInv, FanUnlocks, FanMu, Leaves, clientVars,
     cacheVars, flightVars, procVars, confVars, TypeOK, States, Procs, HeldInv,
     FreshInv
<1>15. ASSUME NEW p \in Procs, Return(p) PROVE PlaceInv'
  BY <1>15, NextUnused, Zenon
     DEF PlaceInv, Return, Leaves, clientVars, cacheVars, flightVars, procVars, confVars,
         TypeOK, States, Procs, HeldInv, FreshInv
<1>16. ASSUME NEW p \in Procs, RemoveClient(p) PROVE PlaceInv'
  BY <1>16, NextUnused DEF PlaceInv, RemoveClient, Removed, Closing, Alive,
     clientVars, cacheVars, flightVars, procVars, confVars, TypeOK, States,
     Procs, HeldInv, FreshInv
<1>17. ASSUME NEW p \in Procs, CloseRemoved(p) PROVE PlaceInv'
  BY <1>17, NextUnused DEF PlaceInv, CloseRemoved, Leaves, Retries, Closing,
     Alive, clientVars, cacheVars, flightVars, procVars, confVars, TypeOK,
     States, Procs, HeldInv, FreshInv
<1>18. ASSUME NEW x \in Clients, ConnectionLost(x) PROVE PlaceInv'
  BY <1>18, NextUnused, Zenon
     DEF PlaceInv, ConnectionLost, Alive, clientVars, cacheVars, flightVars, procVars, confVars,
         TypeOK, States, Procs, HeldInv, FreshInv
<1>19. CASE Watch
  BY <1>19, NextUnused, Zenon
     DEF PlaceInv, Watch, clientVars, cacheVars, flightVars, procVars, confVars, TypeOK, States,
         Procs, HeldInv, FreshInv
<1>20. CASE Close
  BY <1>20, NextUnused, Zenon
     DEF PlaceInv, Close, Closing, Alive, clientVars, cacheVars, flightVars, procVars, confVars,
         TypeOK, States, Procs, HeldInv, FreshInv
<1>21. CASE UNCHANGED vars
  BY <1>21, Zenon
     DEF PlaceInv, vars, clientVars, cacheVars, flightVars, procVars, confVars, TypeOK, States,
         Procs, HeldInv, FreshInv
<1>22. ASSUME NEW p \in Procs, Delivered(p) PROVE PlaceInv'
  BY <1>22, Zenon DEF PlaceInv, Waiting, TypeOK, Procs, FlightInv, Delivered, clientVars, cacheVars, confVars
<1>23. ASSUME NEW p \in Procs, FanLocks(p) PROVE PlaceInv'
  BY <1>23, Zenon DEF PlaceInv, TypeOK, Procs, FanLocks, clientVars, cacheVars, flightVars, confVars
<1> QED
  BY <1>1, <1>2, <1>3, <1>4, <1>5, <1>6, <1>7, <1>8, <1>9, <1>10, <1>11, <1>12,
     <1>13, <1>14, <1>15, <1>16, <1>17, <1>18, <1>19, <1>20, <1>21, <1>22, <1>23, Zenon DEF
     Next, Acquire, Procs

(* Every step keeps who holds clients.                                     *)
LEMMA HeldStep == IInv /\ [Next]_vars => HeldInv'
<1> SUFFICES ASSUME IInv, [Next]_vars PROVE HeldInv'
  OBVIOUS
<1> USE CacheAssumption DEF IInv
<1>1. ASSUME NEW p \in Callers, SelectClient(p) PROVE HeldInv'
  BY <1>1 DEF HeldInv, SelectClient, clientVars, cacheVars, flightVars,
     procVars, confVars, TypeOK, States, Procs, PlaceInv
<1>2. ASSUME NEW p \in Callers, RemoveNil(p) PROVE HeldInv'
  BY <1>2 DEF HeldInv, RemoveNil, Leaves, Retries, clientVars, cacheVars,
     flightVars, procVars, confVars, TypeOK, States, Procs, PlaceInv
<1>3. ASSUME NEW p \in Callers, GiveUp(p) PROVE HeldInv'
  BY <1>3, Zenon
     DEF HeldInv, GiveUp, Leaves, clientVars, cacheVars, flightVars, procVars, confVars, TypeOK,
         States, Procs, PlaceInv
<1>4. ASSUME NEW p \in Fans, FanBegins(p) PROVE HeldInv'
  BY <1>4, Zenon
     DEF HeldInv, FanBegins, clientVars, cacheVars, flightVars, procVars, confVars, TypeOK,
         States, Procs, PlaceInv
<1>5. ASSUME NEW p \in Procs, ReturnSticky(p) PROVE HeldInv'
  BY <1>5 DEF HeldInv, ReturnSticky, clientVars, cacheVars, flightVars,
     procVars, confVars, TypeOK, States, Procs, PlaceInv
<1>6. ASSUME NEW p \in Procs, Stick(p) PROVE HeldInv'
  BY <1>6, Zenon
     DEF HeldInv, Stick, Closing, Alive, clientVars, cacheVars, flightVars, procVars, confVars,
         TypeOK, States, Procs, PlaceInv
<1>7. ASSUME NEW p \in Procs, Check(p) PROVE HeldInv'
  BY <1>7, Zenon
     DEF HeldInv, Check, Returns, After, clientVars, cacheVars, flightVars, procVars, confVars,
         TypeOK, States, Procs, PlaceInv
<1>8. ASSUME NEW p \in Procs, Find(p) PROVE HeldInv'
  BY <1>8 DEF HeldInv, Find, Returns, After, Usable, Alive, clientVars,
     cacheVars, flightVars, procVars, confVars, TypeOK, States, Procs, PlaceInv
<1>9. ASSUME NEW p \in Procs, Join(p) PROVE HeldInv'
  BY <1>9, Zenon
     DEF HeldInv, Join, clientVars, cacheVars, flightVars, procVars, confVars, TypeOK, States,
         Procs, PlaceInv
<1>10. ASSUME NEW p \in Procs, GenerateClient(p) PROVE HeldInv'
  BY <1>10 DEF HeldInv, GenerateClient, clientVars,
     cacheVars, flightVars, procVars, confVars, TypeOK, States, Procs, PlaceInv
<1>11. ASSUME NEW p \in Procs, SetCachedClient(p) PROVE HeldInv'
  BY <1>11, Zenon
     DEF HeldInv, SetCachedClient, clientVars, cacheVars, flightVars, procVars, confVars,
         TypeOK, States, Procs, PlaceInv
<1>12. ASSUME NEW p \in Procs, Forget(p) PROVE HeldInv'
  BY <1>12 DEF HeldInv, Forget, Returns, After, clientVars, cacheVars,
     flightVars, procVars, confVars, TypeOK, States, Procs, PlaceInv
<1>13. ASSUME NEW p \in Procs, FanNext(p) PROVE HeldInv'
  BY <1>13, Zenon
     DEF HeldInv, FanNext, clientVars, cacheVars, flightVars, procVars, confVars, TypeOK,
         States, Procs, PlaceInv
<1>14. ASSUME NEW p \in Procs, FanUnlocks(p) PROVE HeldInv'
  BY <1>14 DEF HeldInv, FanUnlocks, FanMu, Leaves, clientVars, cacheVars,
     flightVars, procVars, confVars, TypeOK, States, Procs, PlaceInv
<1>15. ASSUME NEW p \in Procs, Return(p) PROVE HeldInv'
  BY <1>15, Zenon
     DEF HeldInv, Return, Leaves, clientVars, cacheVars, flightVars, procVars, confVars, TypeOK,
         States, Procs, PlaceInv
<1>16. ASSUME NEW p \in Procs, RemoveClient(p) PROVE HeldInv'
  BY <1>16, Zenon
     DEF HeldInv, RemoveClient, Removed, Closing, Alive, clientVars, cacheVars, flightVars,
         procVars, confVars, TypeOK, States, Procs, PlaceInv
<1>17. ASSUME NEW p \in Procs, CloseRemoved(p) PROVE HeldInv'
  BY <1>17 DEF HeldInv, CloseRemoved, Leaves, Retries, Closing, Alive,
     clientVars, cacheVars, flightVars, procVars, confVars, TypeOK, States,
     Procs, PlaceInv
<1>18. ASSUME NEW x \in Clients, ConnectionLost(x) PROVE HeldInv'
  BY <1>18, Zenon
     DEF HeldInv, ConnectionLost, Alive, clientVars, cacheVars, flightVars, procVars, confVars,
         TypeOK, States, Procs, PlaceInv
<1>19. CASE Watch
  BY <1>19, Zenon
     DEF HeldInv, Watch, clientVars, cacheVars, flightVars, procVars, confVars, TypeOK, States,
         Procs, PlaceInv
<1>20. CASE Close
  BY <1>20, Zenon
     DEF HeldInv, Close, Closing, Alive, clientVars, cacheVars, flightVars, procVars, confVars,
         TypeOK, States, Procs, PlaceInv
<1>21. CASE UNCHANGED vars
  BY <1>21, Zenon
     DEF HeldInv, vars, clientVars, cacheVars, flightVars, procVars, confVars, TypeOK, States,
         Procs, PlaceInv
<1>22. ASSUME NEW p \in Procs, Delivered(p) PROVE HeldInv'
  BY <1>22, Zenon DEF HeldInv, Waiting, TypeOK, Procs, PlaceInv, Delivered, clientVars, cacheVars, confVars
<1>23. ASSUME NEW p \in Procs, FanLocks(p) PROVE HeldInv'
  BY <1>23, Zenon DEF HeldInv, TypeOK, Procs, PlaceInv, FanLocks, clientVars, cacheVars, flightVars, confVars
<1> QED
  BY <1>1, <1>2, <1>3, <1>4, <1>5, <1>6, <1>7, <1>8, <1>9, <1>10, <1>11, <1>12,
     <1>13, <1>14, <1>15, <1>16, <1>17, <1>18, <1>19, <1>20, <1>21, <1>22, <1>23, Zenon DEF
     Next, Acquire, Procs

(* Every step keeps the clients that are held apart from the barred ones.  *)
LEMMA FreshStep == IInv /\ [Next]_vars => FreshInv'
<1> SUFFICES ASSUME IInv, [Next]_vars PROVE FreshInv'
  OBVIOUS
<1> USE CacheAssumption DEF IInv
<1>1. ASSUME NEW p \in Callers, SelectClient(p) PROVE FreshInv'
  BY <1>1 DEF FreshInv, SelectClient, clientVars, cacheVars, flightVars,
     procVars, confVars, TypeOK, States, Procs, HeldInv, PlaceInv, ClientInv,
     Alive
<1>2. ASSUME NEW p \in Callers, RemoveNil(p) PROVE FreshInv'
  BY <1>2 DEF FreshInv, RemoveNil, Leaves, Retries, clientVars, cacheVars,
     flightVars, procVars, confVars, TypeOK, States, Procs, HeldInv, PlaceInv,
     ClientInv, Alive
<1>3. ASSUME NEW p \in Callers, GiveUp(p) PROVE FreshInv'
  BY <1>3, ZenonT(60)
     DEF FreshInv, GiveUp, Leaves, clientVars, cacheVars, flightVars, procVars, confVars,
         TypeOK, States, Procs, HeldInv, PlaceInv, ClientInv, Alive
<1>4. ASSUME NEW p \in Fans, FanBegins(p) PROVE FreshInv'
  BY <1>4, ZenonT(60)
     DEF FreshInv, FanBegins, clientVars, cacheVars, flightVars, procVars, confVars, TypeOK,
         States, Procs, HeldInv, PlaceInv, ClientInv, Alive
<1>5. ASSUME NEW p \in Procs, ReturnSticky(p) PROVE FreshInv'
  BY <1>5, Zenon
     DEF FreshInv, ReturnSticky, clientVars, cacheVars, flightVars, procVars, confVars, TypeOK,
         States, Procs, HeldInv, PlaceInv, ClientInv, Alive
<1>6. ASSUME NEW p \in Procs, Stick(p) PROVE FreshInv'
  BY <1>6, Zenon
     DEF FreshInv, Stick, Closing, Alive, clientVars, cacheVars, flightVars, procVars, confVars,
         TypeOK, States, Procs, HeldInv, PlaceInv, ClientInv, Alive
<1>7. ASSUME NEW p \in Procs, Check(p) PROVE FreshInv'
  BY <1>7, Zenon
     DEF FreshInv, Check, Returns, After, clientVars, cacheVars, flightVars, procVars, confVars,
         TypeOK, States, Procs, HeldInv, PlaceInv, ClientInv, Alive
<1>8. ASSUME NEW p \in Procs, Find(p) PROVE FreshInv'
  BY <1>8 DEF FreshInv, Find, Returns, After, Usable, Alive, clientVars,
     cacheVars, flightVars, procVars, confVars, TypeOK, States, Procs, HeldInv,
     PlaceInv, ClientInv, Alive
<1>9. ASSUME NEW p \in Procs, Join(p) PROVE FreshInv'
  BY <1>9, Zenon
     DEF FreshInv, Join, clientVars, cacheVars, flightVars, procVars, confVars, TypeOK, States,
         Procs, HeldInv, PlaceInv, ClientInv, Alive
<1>10. ASSUME NEW p \in Procs, GenerateClient(p) PROVE FreshInv'
  BY <1>10, Zenon
     DEF FreshInv, GenerateClient, clientVars, cacheVars, flightVars,
         procVars, confVars, TypeOK, States, Procs, HeldInv, PlaceInv, ClientInv, Alive
<1>11. ASSUME NEW p \in Procs, SetCachedClient(p) PROVE FreshInv'
  BY <1>11, Zenon
     DEF FreshInv, SetCachedClient, clientVars, cacheVars, flightVars, procVars, confVars,
         TypeOK, States, Procs, HeldInv, PlaceInv, ClientInv, Alive
<1>12. ASSUME NEW p \in Procs, Forget(p) PROVE FreshInv'
  BY <1>12 DEF FreshInv, Forget, Returns, After, clientVars, cacheVars,
     flightVars, procVars, confVars, TypeOK, States, Procs, HeldInv, PlaceInv,
     ClientInv, Alive
<1>13. ASSUME NEW p \in Procs, FanNext(p) PROVE FreshInv'
  BY <1>13, Zenon
     DEF FreshInv, FanNext, clientVars, cacheVars, flightVars, procVars, confVars, TypeOK,
         States, Procs, HeldInv, PlaceInv, ClientInv, Alive
<1>14. ASSUME NEW p \in Procs, FanUnlocks(p) PROVE FreshInv'
  BY <1>14, ZenonT(60)
     DEF FreshInv, FanUnlocks, FanMu, Leaves, clientVars, cacheVars, flightVars, procVars,
         confVars, TypeOK, States, Procs, HeldInv, PlaceInv, ClientInv, Alive
<1>15. ASSUME NEW p \in Procs, Return(p) PROVE FreshInv'
  BY <1>15 DEF FreshInv, Return, Leaves, clientVars, cacheVars, flightVars,
     procVars, confVars, TypeOK, States, Procs, HeldInv, PlaceInv, ClientInv,
     Alive
<1>16. ASSUME NEW p \in Procs, RemoveClient(p) PROVE FreshInv'
  BY <1>16, Zenon
     DEF FreshInv, RemoveClient, Removed, Closing, Alive, clientVars, cacheVars, flightVars,
         procVars, confVars, TypeOK, States, Procs, HeldInv, PlaceInv, ClientInv, Alive
<1>17. ASSUME NEW p \in Procs, CloseRemoved(p) PROVE FreshInv'
  BY <1>17 DEF FreshInv, CloseRemoved, Leaves, Retries, Closing, Alive,
     clientVars, cacheVars, flightVars, procVars, confVars, TypeOK, States,
     Procs, HeldInv, PlaceInv, ClientInv, Alive
<1>18. ASSUME NEW x \in Clients, ConnectionLost(x) PROVE FreshInv'
  BY <1>18, Zenon
     DEF FreshInv, ConnectionLost, Alive, clientVars, cacheVars, flightVars, procVars, confVars,
         TypeOK, States, Procs, HeldInv, PlaceInv, ClientInv, Alive
<1>19. CASE Watch
  BY <1>19, Zenon
     DEF FreshInv, Watch, clientVars, cacheVars, flightVars, procVars, confVars, TypeOK, States,
         Procs, HeldInv, PlaceInv, ClientInv, Alive
<1>20. CASE Close
  BY <1>20, Zenon
     DEF FreshInv, Close, Closing, Alive, clientVars, cacheVars, flightVars, procVars, confVars,
         TypeOK, States, Procs, HeldInv, PlaceInv, ClientInv, Alive
<1>21. CASE UNCHANGED vars
  BY <1>21, Zenon
     DEF FreshInv, vars, clientVars, cacheVars, flightVars, procVars, confVars, TypeOK, States,
         Procs, HeldInv, PlaceInv, ClientInv, Alive
<1>22. ASSUME NEW p \in Procs, Delivered(p) PROVE FreshInv'
  BY <1>22, Zenon DEF FreshInv, TypeOK, Procs, Delivered, clientVars, cacheVars, confVars
<1>23. ASSUME NEW p \in Procs, FanLocks(p) PROVE FreshInv'
  BY <1>23, Zenon DEF FreshInv, TypeOK, Procs, FanLocks, clientVars, cacheVars, flightVars, confVars
<1> QED
  BY <1>1, <1>2, <1>3, <1>4, <1>5, <1>6, <1>7, <1>8, <1>9, <1>10, <1>11, <1>12,
     <1>13, <1>14, <1>15, <1>16, <1>17, <1>18, <1>19, <1>20, <1>21, <1>22, <1>23, Zenon DEF
     Next, Acquire, Procs

(* Every step keeps the servers of the clients.                            *)
LEMMA ClientStep == IInv /\ [Next]_vars => ClientInv'
<1> SUFFICES ASSUME IInv, [Next]_vars PROVE ClientInv'
  OBVIOUS
<1> USE CacheAssumption DEF IInv
<1>1. ASSUME NEW p \in Callers, SelectClient(p) PROVE ClientInv'
  BY <1>1, NextUnused, Zenon
     DEF ClientInv, SelectClient, clientVars, cacheVars, flightVars, procVars, confVars, TypeOK,
         States, Procs, PlaceInv
<1>2. ASSUME NEW p \in Callers, RemoveNil(p) PROVE ClientInv'
  BY <1>2, NextUnused, Zenon
     DEF ClientInv, RemoveNil, Leaves, Retries, clientVars, cacheVars, flightVars, procVars,
         confVars, TypeOK, States, Procs, PlaceInv
<1>3. ASSUME NEW p \in Callers, GiveUp(p) PROVE ClientInv'
  BY <1>3, NextUnused, Zenon
     DEF ClientInv, GiveUp, Leaves, clientVars, cacheVars, flightVars, procVars, confVars,
         TypeOK, States, Procs, PlaceInv
<1>4. ASSUME NEW p \in Fans, FanBegins(p) PROVE ClientInv'
  BY <1>4, NextUnused, Zenon
     DEF ClientInv, FanBegins, clientVars, cacheVars, flightVars, procVars, confVars, TypeOK,
         States, Procs, PlaceInv
<1>5. ASSUME NEW p \in Procs, ReturnSticky(p) PROVE ClientInv'
  BY <1>5, NextUnused, Zenon
     DEF ClientInv, ReturnSticky, clientVars, cacheVars, flightVars, procVars, confVars, TypeOK,
         States, Procs, PlaceInv
<1>6. ASSUME NEW p \in Procs, Stick(p) PROVE ClientInv'
  BY <1>6, NextUnused, Zenon
     DEF ClientInv, Stick, Closing, Alive, clientVars, cacheVars, flightVars, procVars,
         confVars, TypeOK, States, Procs, PlaceInv
<1>7. ASSUME NEW p \in Procs, Check(p) PROVE ClientInv'
  BY <1>7, NextUnused, Zenon
     DEF ClientInv, Check, Returns, After, clientVars, cacheVars, flightVars, procVars,
         confVars, TypeOK, States, Procs, PlaceInv
<1>8. ASSUME NEW p \in Procs, Find(p) PROVE ClientInv'
  BY <1>8, NextUnused, Zenon
     DEF ClientInv, Find, Returns, After, Usable, Alive, clientVars, cacheVars, flightVars,
         procVars, confVars, TypeOK, States, Procs, PlaceInv
<1>9. ASSUME NEW p \in Procs, Join(p) PROVE ClientInv'
  BY <1>9, NextUnused, Zenon
     DEF ClientInv, Join, clientVars, cacheVars, flightVars, procVars, confVars, TypeOK, States,
         Procs, PlaceInv
<1>10. ASSUME NEW p \in Procs, GenerateClient(p) PROVE ClientInv'
  <2>1. sticky' = sticky /\ stickyRPCClient' = stickyRPCClient
    BY <1>10, Zenon DEF GenerateClient, clientVars, cacheVars, flightVars, procVars, confVars
  <2>2. ASSUME NEW x \in made' PROVE serverOf'[x] # Nil
    <3>1. CASE UNCHANGED <<made, serverOf>>
      BY <2>2, <3>1, Zenon DEF ClientInv
    <3>2. CASE /\ Clients # made
               /\ made' = made \cup {NextClient}
               /\ serverOf' = [serverOf EXCEPT ![NextClient] = key[p]]
      BY <1>10, <2>2, <3>2, NextUnused DEF ClientInv, PlaceInv, TypeOK, GenerateClient
    <3> QED
      BY <1>10, <3>1, <3>2, Zenon DEF GenerateClient
  <2> QED
    BY <2>1, <2>2, Zenon DEF ClientInv
<1>11. ASSUME NEW p \in Procs, SetCachedClient(p) PROVE ClientInv'
  BY <1>11, NextUnused, Zenon
     DEF ClientInv, SetCachedClient, clientVars, cacheVars, flightVars, procVars, confVars,
         TypeOK, States, Procs, PlaceInv
<1>12. ASSUME NEW p \in Procs, Forget(p) PROVE ClientInv'
  BY <1>12, NextUnused, Zenon
     DEF ClientInv, Forget, Returns, After, clientVars, cacheVars, flightVars, procVars,
         confVars, TypeOK, States, Procs, PlaceInv
<1>13. ASSUME NEW p \in Procs, FanNext(p) PROVE ClientInv'
  BY <1>13, NextUnused, Zenon
     DEF ClientInv, FanNext, clientVars, cacheVars, flightVars, procVars, confVars, TypeOK,
         States, Procs, PlaceInv
<1>14. ASSUME NEW p \in Procs, FanUnlocks(p) PROVE ClientInv'
  BY <1>14, NextUnused, Zenon
     DEF ClientInv, FanUnlocks, FanMu, Leaves, clientVars, cacheVars, flightVars, procVars,
         confVars, TypeOK, States, Procs, PlaceInv
<1>15. ASSUME NEW p \in Procs, Return(p) PROVE ClientInv'
  BY <1>15, NextUnused, Zenon
     DEF ClientInv, Return, Leaves, clientVars, cacheVars, flightVars, procVars, confVars,
         TypeOK, States, Procs, PlaceInv
<1>16. ASSUME NEW p \in Procs, RemoveClient(p) PROVE ClientInv'
  BY <1>16, NextUnused, Zenon
     DEF ClientInv, RemoveClient, Removed, Closing, Alive, clientVars, cacheVars, flightVars,
         procVars, confVars, TypeOK, States, Procs, PlaceInv
<1>17. ASSUME NEW p \in Procs, CloseRemoved(p) PROVE ClientInv'
  BY <1>17, NextUnused, Zenon
     DEF ClientInv, CloseRemoved, Leaves, Retries, Closing, Alive, clientVars, cacheVars,
         flightVars, procVars, confVars, TypeOK, States, Procs, PlaceInv
<1>18. ASSUME NEW x \in Clients, ConnectionLost(x) PROVE ClientInv'
  BY <1>18, NextUnused, Zenon
     DEF ClientInv, ConnectionLost, Alive, clientVars, cacheVars, flightVars, procVars,
         confVars, TypeOK, States, Procs, PlaceInv
<1>19. CASE Watch
  BY <1>19, NextUnused, Zenon
     DEF ClientInv, Watch, clientVars, cacheVars, flightVars, procVars, confVars, TypeOK,
         States, Procs, PlaceInv
<1>20. CASE Close
  BY <1>20, NextUnused, Zenon
     DEF ClientInv, Close, Closing, Alive, clientVars, cacheVars, flightVars, procVars,
         confVars, TypeOK, States, Procs, PlaceInv
<1>21. CASE UNCHANGED vars
  BY <1>21, Zenon
     DEF ClientInv, vars, clientVars, cacheVars, flightVars, procVars, confVars, TypeOK, States,
         Procs, PlaceInv
<1>22. ASSUME NEW p \in Procs, Delivered(p) PROVE ClientInv'
  BY <1>22, Zenon DEF ClientInv, Delivered, clientVars, cacheVars, confVars
<1>23. ASSUME NEW p \in Procs, FanLocks(p) PROVE ClientInv'
  BY <1>23, Zenon DEF ClientInv, FanLocks, clientVars, cacheVars, flightVars, confVars
<1> QED
  BY <1>1, <1>2, <1>3, <1>4, <1>5, <1>6, <1>7, <1>8, <1>9, <1>10, <1>11, <1>12,
     <1>13, <1>14, <1>15, <1>16, <1>17, <1>18, <1>19, <1>20, <1>21, <1>22, <1>23, Zenon DEF
     Next, Acquire, Procs

(* A step closes a live client only for the goroutine whose call on it      *)
(* failed.                                                                 *)
LEMMA BystanderStep ==
    IInv /\ [Next]_vars /\ ~sticky /\ ~isShutdown' =>
        \A x \in closed' \ closed :
            \E p \in Procs : x \in held[p] /\ "close" \in {pc[p], pc'[p]}
<1> SUFFICES ASSUME IInv, [Next]_vars, ~sticky, ~isShutdown', NEW x \in closed' \ closed
             PROVE  \E p \in Procs : x \in held[p] /\ "close" \in {pc[p], pc'[p]}
  OBVIOUS
<1> USE CacheAssumption DEF IInv
<1>1. ASSUME NEW p \in Procs, Stick(p) PROVE FALSE
  BY <1>1 DEF Stick, Closing, Alive, ClientInv, TypeOK
<1>2. ASSUME NEW p \in Procs, RemoveClient(p) PROVE x \in held[p] /\ pc'[p] = "close"
  BY <1>2 DEF RemoveClient, Removed, Closing, Alive, TypeOK
<1>3. ASSUME NEW p \in Procs, CloseRemoved(p) PROVE x \in held[p] /\ pc[p] = "close"
  BY <1>3, Zenon DEF CloseRemoved, Closing, PlaceInv
<1>4. CASE Close
  BY <1>4, Zenon DEF Close
<1>5. CASE UNCHANGED closed
  BY <1>5, Zenon
<1> QED
  BY <1>1, <1>2, <1>3, <1>4, <1>5, ZenonT(60) DEF Next, Acquire, Procs, vars,
     SelectClient, RemoveNil, GiveUp, FanBegins, ReturnSticky, Check, Find,
     Join, GenerateClient, Delivered, SetCachedClient, Forget, FanLocks, FanNext, FanUnlocks, Return,
     ConnectionLost, Watch, clientVars, cacheVars, flightVars, procVars,
     confVars

(* The initial states satisfy the invariant.                               *)
LEMMA InitInv == Init => IInv
<1> SUFFICES ASSUME Init PROVE IInv
  OBVIOUS
<1> USE CacheAssumption DEF Init
<1>1. sticky \in BOOLEAN
  BY Zenon
<1>2. TypeOK
  <2>1. /\ cachedClient \in [Servers -> made \cup {Nil}]
        /\ failures \in [Servers -> 0 .. Threshold]
        /\ slGroup \in [Servers -> Procs \cup {Nil}]
        /\ serverOf \in [Clients -> Servers \cup {Nil}]
    OBVIOUS
  <2>2. /\ pc \in [Procs -> States]
        /\ key \in [Procs -> Servers \cup {Nil}]
        /\ todo \in [Procs -> SUBSET Servers]
        /\ flight \in [Procs -> Procs \cup {Nil}]
    BY Zenon DEF States
  <2>3. /\ got \in [Procs -> made \cup {Nil}]
        /\ held \in [Procs -> SUBSET made]
        /\ barred \in [Procs -> SUBSET made]
    OBVIOUS
  <2>4. isShutdown \in BOOLEAN
    BY Zenon
  <2> QED
    BY <1>1, <2>1, <2>2, <2>3, <2>4, Zenon DEF TypeOK
<1>3. PlaceInv
  BY Zenon DEF PlaceInv
<1>4. HeldInv /\ FreshInv /\ FlightInv /\ ClientInv
  BY Zenon DEF HeldInv, FreshInv, FlightInv, ClientInv
<1> QED
  BY <1>2, <1>3, <1>4, Zenon DEF IInv

(* What keeps the client of a call that has not returned from being barred *)
(* is that it is new, and that those who begin to look do not know it.     *)
LEMMA FlightKept ==
    ASSUME FlightInv,
           \A q \in Procs : pc'[q] = "dialled" => pc[q] = "dialled" /\ got'[q] = got[q],
           \A p \in Procs : \A x \in barred'[p] : x \in barred[p] \/ x \notin InFlight
    PROVE  FlightInv'
BY Zenon DEF FlightInv, InFlight

LEMMA FlightStep == IInv /\ [Next]_vars => FlightInv'
<1> SUFFICES ASSUME IInv, [Next]_vars PROVE FlightInv'
  OBVIOUS
<1>0. /\ pc \in [Procs -> States] /\ got \in [Procs -> made \cup {Nil}]
      /\ barred \in [Procs -> SUBSET made] /\ Callers \subseteq Procs /\ Fans \subseteq Procs
  BY Zenon DEF IInv, TypeOK, Procs
<1>1. ASSUME NEW p \in Callers, SelectClient(p) PROVE FlightInv'
  <2>1. \A q \in Procs : pc'[q] = "dialled" => pc[q] = "dialled" /\ got'[q] = got[q]
    BY <1>0, <1>1, Zenon DEF SelectClient, procVars
  <2>2. \A q \in Procs : \A x \in barred'[q] : x \in barred[q] \/ x \notin InFlight
    BY <1>0, <1>1, Zenon DEF SelectClient, procVars
  <2> QED
    BY <2>1, <2>2, FlightKept, Zenon DEF IInv
<1>2. ASSUME NEW p \in Callers, RemoveNil(p) PROVE FlightInv'
  <2>1. \A q \in Procs : pc'[q] = "dialled" => pc[q] = "dialled" /\ got'[q] = got[q]
    BY <1>0, <1>2, Zenon DEF RemoveNil, Leaves, Retries
  <2>2. \A q \in Procs : \A x \in barred'[q] : x \in barred[q] \/ x \notin InFlight
    BY <1>0, <1>2, Zenon DEF RemoveNil, Leaves, Retries
  <2> QED
    BY <2>1, <2>2, FlightKept, Zenon DEF IInv
<1>3. ASSUME NEW p \in Callers, GiveUp(p) PROVE FlightInv'
  <2>1. \A q \in Procs : pc'[q] = "dialled" => pc[q] = "dialled" /\ got'[q] = got[q]
    BY <1>0, <1>3, Zenon DEF GiveUp, Leaves
  <2>2. \A q \in Procs : \A x \in barred'[q] : x \in barred[q] \/ x \notin InFlight
    BY <1>0, <1>3, Zenon DEF GiveUp, Leaves
  <2> QED
    BY <2>1, <2>2, FlightKept, Zenon DEF IInv
<1>4. ASSUME NEW p \in Fans, FanBegins(p) PROVE FlightInv'
  <2>1. \A q \in Procs : pc'[q] = "dialled" => pc[q] = "dialled" /\ got'[q] = got[q]
    BY <1>0, <1>4, Zenon DEF FanBegins, procVars
  <2>2. \A q \in Procs : \A x \in barred'[q] : x \in barred[q] \/ x \notin InFlight
    BY <1>0, <1>4, Zenon DEF FanBegins, procVars
  <2> QED
    BY <2>1, <2>2, FlightKept, Zenon DEF IInv
<1>5. ASSUME NEW p \in Procs, ReturnSticky(p) PROVE FlightInv'
  <2>1. \A q \in Procs : pc'[q] = "dialled" => pc[q] = "dialled" /\ got'[q] = got[q]
    BY <1>0, <1>5, Zenon DEF ReturnSticky
  <2>2. \A q \in Procs : \A x \in barred'[q] : x \in barred[q] \/ x \notin InFlight
    BY <1>0, <1>5, Zenon DEF ReturnSticky
  <2> QED
    BY <2>1, <2>2, FlightKept, Zenon DEF IInv
<1>6. ASSUME NEW p \in Procs, Stick(p) PROVE FlightInv'
  <2>1. \A q \in Procs : pc'[q] = "dialled" => pc[q] = "dialled" /\ got'[q] = got[q]
    BY <1>0, <1>6, Zenon DEF Stick
  <2>2. \A q \in Procs : \A x \in barred'[q] : x \in barred[q] \/ x \notin InFlight
    BY <1>0, <1>6, Zenon DEF Stick
  <2> QED
    BY <2>1, <2>2, FlightKept, Zenon DEF IInv
<1>7. ASSUME NEW p \in Procs, Check(p) PROVE FlightInv'
  <2>1. \A q \in Procs : pc'[q] = "dialled" => pc[q] = "dialled" /\ got'[q] = got[q]
    BY <1>0, <1>7, Zenon DEF Check, Returns, After
  <2>2. \A q \in Procs : \A x \in barred'[q] : x \in barred[q] \/ x \notin InFlight
    BY <1>0, <1>7, Zenon DEF Check, Returns, After
  <2> QED
    BY <2>1, <2>2, FlightKept, Zenon DEF IInv
<1>8. ASSUME NEW p \in Procs, Find(p) PROVE FlightInv'
  <2>1. \A q \in Procs : pc'[q] = "dialled" => pc[q] = "dialled" /\ got'[q] = got[q]
    BY <1>0, <1>8, Zenon DEF Find, Returns, After
  <2>2. \A q \in Procs : \A x \in barred'[q] : x \in barred[q] \/ x \notin InFlight
    BY <1>0, <1>8, Zenon DEF Find, Returns, After
  <2> QED
    BY <2>1, <2>2, FlightKept, Zenon DEF IInv
<1>9. ASSUME NEW p \in Procs, Join(p) PROVE FlightInv'
  <2>1. \A q \in Procs : pc'[q] = "dialled" => pc[q] = "dialled" /\ got'[q] = got[q]
    BY <1>0, <1>9, Zenon DEF Join
  <2>2. \A q \in Procs : \A x \in barred'[q] : x \in barred[q] \/ x \notin InFlight
    BY <1>0, <1>9, Zenon DEF Join
  <2> QED
    BY <2>1, <2>2, FlightKept, Zenon DEF IInv
<1>10. ASSUME NEW p \in Procs, Delivered(p) PROVE FlightInv'
  <2>1. \A q \in Procs : pc'[q] = "dialled" => pc[q] = "dialled" /\ got'[q] = got[q]
    BY <1>0, <1>10, Zenon DEF Delivered, Waiting
  <2>2. \A q \in Procs : \A x \in barred'[q] : x \in barred[q] \/ x \notin InFlight
    BY <1>0, <1>10, Zenon DEF Delivered, Waiting
  <2> QED
    BY <2>1, <2>2, FlightKept, Zenon DEF IInv
<1>11. ASSUME NEW p \in Procs, SetCachedClient(p) PROVE FlightInv'
  <2>1. \A q \in Procs : pc'[q] = "dialled" => pc[q] = "dialled" /\ got'[q] = got[q]
    BY <1>0, <1>11, Zenon DEF SetCachedClient
  <2>2. \A q \in Procs : \A x \in barred'[q] : x \in barred[q] \/ x \notin InFlight
    BY <1>0, <1>11, Zenon DEF SetCachedClient
  <2> QED
    BY <2>1, <2>2, FlightKept, Zenon DEF IInv
<1>12. ASSUME NEW p \in Procs, Forget(p) PROVE FlightInv'
  <2>1. \A q \in Procs : pc'[q] = "dialled" => pc[q] = "dialled" /\ got'[q] = got[q]
    BY <1>0, <1>12, Zenon DEF Forget, Returns, After
  <2>2. \A q \in Procs : \A x \in barred'[q] : x \in barred[q] \/ x \notin InFlight
    BY <1>0, <1>12, Zenon DEF Forget, Returns, After
  <2> QED
    BY <2>1, <2>2, FlightKept, Zenon DEF IInv
<1>13. ASSUME NEW p \in Procs, FanLocks(p) PROVE FlightInv'
  <2>1. \A q \in Procs : pc'[q] = "dialled" => pc[q] = "dialled" /\ got'[q] = got[q]
    BY <1>0, <1>13, Zenon DEF FanLocks
  <2>2. \A q \in Procs : \A x \in barred'[q] : x \in barred[q] \/ x \notin InFlight
    BY <1>0, <1>13, Zenon DEF FanLocks
  <2> QED
    BY <2>1, <2>2, FlightKept, Zenon DEF IInv
<1>14. ASSUME NEW p \in Procs, FanNext(p) PROVE FlightInv'
  <2>1. \A q \in Procs : pc'[q] = "dialled" => pc[q] = "dialled" /\ got'[q] = got[q]
    BY <1>0, <1>14, Zenon DEF FanNext
  <2>2. \A q \in Procs : \A x \in barred'[q] : x \in barred[q] \/ x \notin InFlight
    BY <1>0, <1>14, Zenon DEF FanNext
  <2> QED
    BY <2>1, <2>2, FlightKept, Zenon DEF IInv
<1>15. ASSUME NEW p \in Procs, FanUnlocks(p) PROVE FlightInv'
  <2>1. \A q \in Procs : pc'[q] = "dialled" => pc[q] = "dialled" /\ got'[q] = got[q]
    BY <1>0, <1>15, Zenon DEF FanUnlocks, Leaves
  <2>2. \A q \in Procs : \A x \in barred'[q] : x \in barred[q] \/ x \notin InFlight
    BY <1>0, <1>15, Zenon DEF FanUnlocks, Leaves
  <2> QED
    BY <2>1, <2>2, FlightKept, Zenon DEF IInv
<1>16. ASSUME NEW p \in Procs, Return(p) PROVE FlightInv'
  <2>1. \A q \in Procs : pc'[q] = "dialled" => pc[q] = "dialled" /\ got'[q] = got[q]
    BY <1>0, <1>16, Zenon DEF Return, Leaves
  <2>2. \A q \in Procs : \A x \in barred'[q] : x \in barred[q] \/ x \notin InFlight
    BY <1>0, <1>16, Zenon DEF Return, Leaves
  <2> QED
    BY <2>1, <2>2, FlightKept, Zenon DEF IInv
<1>17. ASSUME NEW p \in Procs, RemoveClient(p) PROVE FlightInv'
  <2>1. \A q \in Procs : pc'[q] = "dialled" => pc[q] = "dialled" /\ got'[q] = got[q]
    BY <1>0, <1>17, Zenon DEF RemoveClient
  <2>2. \A q \in Procs : \A x \in barred'[q] : x \in barred[q] \/ x \notin InFlight
    BY <1>0, <1>17, Zenon DEF RemoveClient
  <2> QED
    BY <2>1, <2>2, FlightKept, Zenon DEF IInv
<1>18. ASSUME NEW p \in Procs, CloseRemoved(p) PROVE FlightInv'
  <2>1. \A q \in Procs : pc'[q] = "dialled" => pc[q] = "dialled" /\ got'[q] = got[q]
    BY <1>0, <1>18, Zenon DEF CloseRemoved, Leaves, Retries
  <2>2. \A q \in Procs : \A x \in barred'[q] : x \in barred[q] \/ x \notin InFlight
    BY <1>0, <1>18, Zenon DEF CloseRemoved, Leaves, Retries
  <2> QED
    BY <2>1, <2>2, FlightKept, Zenon DEF IInv
<1>19. ASSUME NEW p \in Procs, GenerateClient(p) PROVE FlightInv'
  <2>1. \A q \in Procs : q # p => pc'[q] = pc[q] /\ got'[q] = got[q]
    BY <1>0, <1>19, Zenon DEF GenerateClient
  <2>2. barred' = barred /\ got'[p] \notin made
    <3>1. Clients # made => NextClient \notin made
      BY NextUnused, Zenon DEF IInv
    <3>2. Nil \notin made
      BY CacheAssumption, Zenon DEF IInv, TypeOK
    <3> QED
      BY <1>0, <1>19, <3>1, <3>2, Zenon DEF GenerateClient
  <2>3. \A q \in Procs : got'[p] \notin barred[q]
    BY <1>0, <2>2, Zenon
  <2> QED
    BY <2>1, <2>2, <2>3, Zenon DEF IInv, FlightInv
<1>20. ASSUME UNCHANGED <<pc, got, barred>> PROVE FlightInv'
  BY <1>20, Zenon DEF IInv, FlightInv
<1> QED
  BY <1>1, <1>2, <1>3, <1>4, <1>5, <1>6, <1>7, <1>8, <1>9, <1>10, <1>11, <1>12, <1>13, <1>14, <1>15, <1>16, <1>17, <1>18, <1>19, <1>20,
     Zenon DEF Next, Acquire, Procs, ConnectionLost, Watch, Close, vars, procVars

(* Every step keeps the invariant.                                         *)
LEMMA NextInv == IInv /\ [Next]_vars => IInv'
BY TypeStep, PlaceStep, HeldStep, FreshStep, FlightStep, ClientStep, Zenon DEF IInv

(* Every reachable state satisfies the inductive invariant.                *)
THEOREM Invariance == Spec => []IInv
<1>1. Init => IInv
  BY InitInv, Zenon
<1>2. IInv /\ [Next]_vars => IInv'
  BY NextInv, Zenon
<1> QED
  BY <1>1, <1>2, PTL DEF Spec

(* getCachedClient and getCachedClientWithoutLock never hand out a client  *)
(* that had been closed, or whose connection had ended, when the goroutine *)
(* began to look for one, but for a client that the singleflight call it   *)
(* joins had dialled and not yet returned.                                 *)
THEOREM HandsOutFresh == Spec => []FreshClient
<1>1. IInv => FreshClient
  BY Zenon DEF IInv, FreshInv, FreshClient
<1> QED
  BY <1>1, Invariance, PTL

(* removeClient never closes a client other than the one its goroutine     *)
(* used, and nothing else but Close closes a live one.                     *)
THEOREM ClosesOwnClient == Spec => NoBystander
<1>1. IInv /\ [Next]_vars =>
         [~sticky /\ ~isShutdown' =>
            \A x \in closed' \ closed :
                \E p \in Procs : x \in held[p] /\ "close" \in {pc[p], pc'[p]}]_vars
  BY BystanderStep, Zenon
<1> QED
  BY <1>1, Invariance, PTL DEF Spec, NoBystander
=============================================================================

-------------------------- MODULE XClientOpsProofs --------------------------
(***************************************************************************)
(* What an operation of an XClient returns, for every number of servers    *)
(* and every number of retries: one inductive invariant, proved part by    *)
(* part, and the properties that follow from it.                           *)
(***************************************************************************)
EXTENDS XClientOps, FiniteSetTheorems, TLAPS

-----------------------------------------------------------------------------
(* The goroutine of a server goes from one step to the next.               *)
After(o, g) ==
    CASE g = "call" -> IF kind = "Fork" /\ o = "nil" THEN "reply" ELSE "done"
      [] g = "done" -> IF o # "nil" THEN "append" ELSE IF kind = "Fork" THEN "end" ELSE "reply"
      [] g = "reply" -> CASE kind = "Fork" -> "done" [] kind = "Inform" -> "receipt"
                          [] OTHER -> "end"
      [] g = "append" -> IF kind = "Inform" THEN "receipt" ELSE "end"
      [] g = "receipt" -> "end"

(* The steps a goroutine takes if its call has outcome o.                  *)
Takes(o, g) ==
    \/ g \in {"call", "done"}
    \/ g = "reply" /\ o = "nil"
    \/ g = "append" /\ o # "nil"
    \/ g = "receipt" /\ kind = "Inform"

LEMMA AdvancesTo ==
    ASSUME kind \in Fans, NEW k \in Servers, NEW o \in Outcomes, Takes(o, gpc[k]), Advances(k, o)
    PROVE  gpc' = [gpc EXCEPT ![k] = After(o, gpc[k])]
<1> DEFINE i == CHOOSE j \in 1 .. Len(Steps(o)) : Steps(o)[j] = gpc[k]
<1>1. \E j \in 1 .. Len(Steps(o)) : Steps(o)[j] = gpc[k]
  BY DEF Takes, Steps, Fans
<1>2. i \in 1 .. Len(Steps(o)) /\ Steps(o)[i] = gpc[k]
  BY <1>1, Zenon
<1>3. gpc' = [gpc EXCEPT ![k] = Steps(o)[i + 1]]
  BY Zenon DEF Advances
<1> HIDE DEF i
<1>4. Steps(o)[i + 1] = After(o, gpc[k])
  BY <1>2 DEF Takes, Steps, Fans, After
<1> QED
  BY <1>3, <1>4, Zenon

(* A step of a server's goroutine.                                         *)
GoDoes(k) ==
    /\ kind \in Fans /\ pc # "start"
    /\ gpc[k] \in {"call", "done", "append", "reply", "receipt"}
    /\ gerr'[k] \in Outcomes /\ gerr' = [gerr EXCEPT ![k] = gerr'[k]]
    /\ gpc[k] # "call" => gerr' = gerr
    /\ Takes(gerr'[k], gpc[k])
    /\ gpc' = [gpc EXCEPT ![k] = After(gerr'[k], gpc[k])]
    /\ IF gpc[k] = "done" THEN done' = Append(done, gerr[k] = "nil") ELSE done' = done
    /\ IF gpc[k] = "append" THEN multi' = multi \cup {k} ELSE multi' = multi
    /\ IF gpc[k] = "reply" THEN reply' = IF reply = Nil THEN k ELSE reply ELSE reply' = reply
    /\ IF gpc[k] = "receipt" THEN receipts' = receipts \cup {k} ELSE receipts' = receipts
    /\ UNCHANGED <<confVars, pc, callVars, result, left>>

LEMMA GoEffect ==
    ASSUME IInv, NEW k \in Servers, GoCall(k) \/ GoStep(k)
    PROVE  GoDoes(k)
<1>0. /\ gpc \in [Servers -> {"none", "call", "done", "append", "reply", "receipt", "end"}]
      /\ gerr \in [Servers -> Outcomes \cup {"none"}]
  BY Zenon DEF IInv, TypeOK
<1>1. gpc[k] \in {"call", "done", "append", "reply", "receipt"}
  BY Zenon DEF GoCall, GoStep, GoDone, GoAppend, GoReply, GoReceipt
<1>2. kind \in Fans /\ pc # "start"
  BY <1>1, Zenon DEF IInv, FanInv, Started
<1>3. CASE GoCall(k)
  <2>1. PICK o \in Outcomes : gerr' = [gerr EXCEPT ![k] = o] /\ Advances(k, o)
    BY <1>3, Zenon DEF GoCall
  <2>2. gerr'[k] = o /\ gpc[k] = "call"
    BY <1>0, <1>3, <2>1, Zenon DEF GoCall
  <2>3. gpc' = [gpc EXCEPT ![k] = After(o, gpc[k])]
    BY <1>2, <2>1, <2>2, AdvancesTo, Zenon DEF Takes
  <2> QED
    BY <1>2, <1>3, <2>1, <2>2, <2>3, Zenon DEF GoDoes, GoCall, Takes
<1>4. CASE GoStep(k)
  <2>1. gerr' = gerr /\ Advances(k, gerr[k]) /\ gpc[k] # "call"
    BY <1>4, Zenon DEF GoStep, GoDone, GoAppend, GoReply, GoReceipt
  <2>2. gerr[k] \in Outcomes /\ Takes(gerr[k], gpc[k])
    BY <1>0, <1>1, <2>1, Zenon DEF IInv, FanInv, Takes, Outcomes
  <2>3. gpc' = [gpc EXCEPT ![k] = After(gerr[k], gpc[k])]
    BY <1>2, <2>1, <2>2, AdvancesTo, Zenon
  <2>4. gerr' = [gerr EXCEPT ![k] = gerr'[k]]
    BY <1>0, <2>1, Zenon
  <2>5. /\ IF gpc[k] = "done" THEN done' = Append(done, gerr[k] = "nil") ELSE done' = done
        /\ IF gpc[k] = "append" THEN multi' = multi \cup {k} ELSE multi' = multi
        /\ IF gpc[k] = "reply" THEN reply' = IF reply = Nil THEN k ELSE reply ELSE reply' = reply
        /\ IF gpc[k] = "receipt" THEN receipts' = receipts \cup {k} ELSE receipts' = receipts
        /\ UNCHANGED <<confVars, pc, callVars, result, left>>
    BY <1>4, Zenon DEF GoStep, GoDone, GoAppend, GoReply, GoReceipt
  <2> QED
    BY <1>1, <1>2, <2>1, <2>2, <2>3, <2>4, <2>5, Zenon DEF GoDoes
<1> QED
  BY <1>3, <1>4, Zenon

(* It sends to done once.                                                  *)
LEMMA GoSends ==
    ASSUME IInv, NEW k \in Servers, GoDoes(k)
    PROVE  /\ Started' = Started
           /\ Unsent' = IF gpc[k] = "done" THEN Unsent \ {k} ELSE Unsent
           /\ gpc[k] = "done" => k \in Unsent
<1>0. gpc \in [Servers -> {"none", "call", "done", "append", "reply", "receipt", "end"}]
  BY Zenon DEF IInv, TypeOK
<1>1. kind' = kind /\ gpc'[k] = After(gerr'[k], gpc[k]) /\ \A j \in Servers \ {k} : gpc'[j] = gpc[j]
  BY <1>0, Zenon DEF GoDoes, confVars
<1>2. After(gerr'[k], gpc[k]) # "none"
  BY Zenon DEF After, GoDoes
<1>3. k \in Unsent' <=> k \in Unsent /\ gpc[k] # "done"
  BY <1>1 DEF Unsent, After, Takes, GoDoes
<1>4. Started' = Started
  BY <1>1, <1>2, Zenon DEF Started, GoDoes
<1>5. \A j \in Servers \ {k} : j \in Unsent' <=> j \in Unsent
  BY <1>1, Zenon DEF Unsent
<1>6. Unsent \subseteq Servers /\ Unsent' \subseteq Servers
  BY Zenon DEF Unsent
<1>7. gpc[k] = "done" => k \in Unsent
  BY Zenon DEF Unsent
<1> QED
  BY <1>3, <1>4, <1>5, <1>6, <1>7

LEMMA Finite ==
    /\ IsFiniteSet(Unsent) /\ Cardinality(Unsent) \in Nat
    /\ IsFiniteSet(Started) /\ Cardinality(Started) \in Nat
    /\ Cardinality(Servers) \in Nat
<1>1. Unsent \subseteq Servers /\ Started \subseteq Servers
  BY Zenon DEF Unsent, Started
<1> QED
  BY <1>1, OpsAssumption, FS_Subset, FS_CardinalityType, Zenon

(* What is appended to a sequence or taken from it.                        *)
LEMMA AppendType ==
    ASSUME NEW S, NEW q \in Seq(S), NEW v \in S
    PROVE  /\ Append(q, v) \in Seq(S) /\ Len(Append(q, v)) = Len(q) + 1
           /\ \A i \in 1 .. Len(q) : Append(q, v)[i] = q[i]
           /\ Append(q, v)[Len(q) + 1] = v /\ Append(q, v) # <<>>
OBVIOUS

LEMMA TailType ==
    ASSUME NEW S, NEW q \in Seq(S), q # <<>>
    PROVE  /\ Tail(q) \in Seq(S) /\ Len(Tail(q)) = Len(q) - 1 /\ Len(q) \in Nat \ {0}
           /\ \A i \in 1 .. Len(Tail(q)) : Tail(q)[i] = q[i + 1]
           /\ Head(q) = q[1] /\ Head(q) \in S
OBVIOUS

-----------------------------------------------------------------------------
(* Every step keeps the types: those of the operation itself, of the       *)
(* variables of a call, and of the goroutines of a fan-out.                *)
PlainTypes ==
    /\ pc \in {"start", "loop", "call", "again", "fast", "backup", "wait1", "wait2", "wait",
               "check", "end"}
    /\ result \in Outcomes \cup {"none", "select", "shutdown", "multi"}
    /\ reply \in Servers \cup {Nil, "call"}

CallTypes ==
    /\ retries \in -1 .. limit
    /\ client \in BOOLEAN
    /\ err \in Outcomes \cup {"select"} /\ e \in {"nil", "select"}
    /\ sent \subseteq {1, 2}
    /\ attempts \in Seq(Outcomes)

FanTypes ==
    /\ gpc \in [Servers -> {"none", "call", "done", "append", "reply", "receipt", "end"}]
    /\ gerr \in [Servers -> Outcomes \cup {"none"}]
    /\ done \in Seq(BOOLEAN)
    /\ left \in 0 .. Cardinality(Servers)
    /\ multi \subseteq Servers \cup {"timeout"}
    /\ receipts \subseteq Servers

LEMMA TypeParts ==
    /\ TypeOK => PlainTypes /\ CallTypes /\ FanTypes
    /\ TypeOK /\ UNCHANGED confVars /\ PlainTypes' /\ CallTypes' /\ FanTypes' => TypeOK'
    /\ CallTypes /\ UNCHANGED <<confVars, callVars>> => CallTypes'
    /\ FanTypes /\ UNCHANGED fanVars => FanTypes'
<1>1. TypeOK => PlainTypes /\ CallTypes /\ FanTypes
  BY Zenon DEF TypeOK, PlainTypes, CallTypes, FanTypes
<1>2. TypeOK /\ UNCHANGED confVars /\ PlainTypes' /\ CallTypes' /\ FanTypes' => TypeOK'
  BY Zenon DEF TypeOK, PlainTypes, CallTypes, FanTypes, confVars
<1>3. CallTypes /\ UNCHANGED <<confVars, callVars>> => CallTypes'
  BY Zenon DEF CallTypes, confVars, callVars
<1>4. FanTypes /\ UNCHANGED fanVars => FanTypes'
  BY Zenon DEF FanTypes, fanVars
<1> QED
  BY <1>1, <1>2, <1>3, <1>4, Zenon

LEMMA AppendAttempt ==
    ASSUME CallTypes, NEW o \in Outcomes, attempts' = Append(attempts, o)
    PROVE  attempts' \in Seq(Outcomes)
<1>1. attempts \in Seq(Outcomes)
  BY Zenon DEF CallTypes
<1> QED
  BY <1>1, AppendType, Zenon

LEMMA TypeStep == IInv /\ [Next]_vars => TypeOK'
<1> SUFFICES ASSUME IInv, [Next]_vars PROVE TypeOK'
  OBVIOUS
<1>0. TypeOK /\ PlainTypes /\ CallTypes /\ FanTypes /\ "nil" \in Outcomes /\ "ctx" \in Outcomes
  BY TypeParts, Zenon DEF IInv, Outcomes
<1>c. ASSUME UNCHANGED <<confVars, fanVars>>, PlainTypes', CallTypes' PROVE TypeOK'
  BY <1>0, <1>c, TypeParts, Zenon
<1>f. ASSUME UNCHANGED <<confVars, callVars>>, PlainTypes', FanTypes' PROVE TypeOK'
  BY <1>0, <1>f, TypeParts, Zenon
<1>1. CASE Shutdown \/ LoopEnds \/ FanReturns
  <2>1. UNCHANGED <<confVars, callVars, fanVars>>
    BY <1>1, Zenon DEF Shutdown, LoopEnds, FanReturns
  <2>2. PlainTypes'
    BY <1>0, <1>1, Zenon DEF Shutdown, LoopEnds, FanReturns, Returns, PlainTypes, CallTypes
  <2> QED
    BY <1>0, <1>c, <2>1, <2>2, TypeParts, Zenon
<1>2. CASE Select
  <2>1. PlainTypes'
    BY <1>0, <1>2, Zenon DEF Select, ModePc, Returns, PlainTypes
  <2>2. CallTypes'
    BY <1>0, <1>2, Zenon DEF Select, CallTypes, confVars
  <2> QED
    BY <1>2, <1>c, <2>1, <2>2, Zenon DEF Select
<1>3. CASE Go \/ Oneshot
  <2>1. PlainTypes'
    BY <1>0, <1>3, Zenon DEF Go, Oneshot, Returns, PlainTypes
  <2>2. CallTypes'
    BY <1>0, <1>3, Zenon DEF Go, Oneshot, CallTypes, confVars
  <2> QED
    BY <1>3, <1>c, <2>1, <2>2, Zenon DEF Go, Oneshot
<1>4. CASE LoopTop
  <2>1. PlainTypes'
    BY <1>0, <1>4, Zenon DEF LoopTop, PlainTypes
  <2>2. retries' \in -1 .. limit
    <3>1. limit \in Nat /\ retries \in -1 .. limit /\ retries >= 0 /\ retries' = retries - 1
      BY <1>0, <1>4, OpsAssumption, Zenon DEF LoopTop, Remaining, TypeOK
    <3> QED
      BY <3>1
  <2>3. CallTypes'
    BY <1>0, <1>4, <2>2, Zenon DEF LoopTop, CallTypes, confVars
  <2> QED
    BY <1>4, <1>c, <2>1, <2>3, Zenon DEF LoopTop
<1>5. CASE Attempt
  <2>1. PICK o \in Outcomes :
             /\ attempts' = Append(attempts, o) /\ err' = AttemptErr(o)
             /\ reply' = IF o = "nil" THEN "call" ELSE reply
             /\ IF Retried(o) THEN pc' = "again" /\ UNCHANGED result ELSE Returns(o)
    BY <1>5, Zenon DEF Attempt
  <2>2. PlainTypes'
    BY <1>0, <2>1, Zenon DEF Returns, PlainTypes
  <2>3. attempts' \in Seq(Outcomes) /\ err' \in Outcomes \cup {"select"}
    BY <1>0, <2>1, AppendAttempt, Zenon DEF AttemptErr, CallTypes
  <2>4. CallTypes'
    BY <1>0, <1>5, <2>3, Zenon DEF Attempt, CallTypes, confVars
  <2> QED
    BY <1>5, <1>c, <2>2, <2>4, Zenon DEF Attempt
<1>6. CASE Again
  <2>1. PlainTypes'
    BY <1>0, <1>6, Zenon DEF Again, PlainTypes
  <2>2. CallTypes'
    BY <1>0, <1>6, Zenon DEF Again, CallTypes, confVars
  <2> QED
    BY <1>6, <1>c, <2>1, <2>2, Zenon DEF Again
<1>7. CASE Fast \/ BackupEnds
  <2>1. \/ attempts' = attempts /\ reply' = reply
        \/ \E o \in Outcomes : attempts' = Append(attempts, o) /\ reply' \in {reply, "call"}
    BY <1>7, Zenon DEF Fast, BackupEnds
  <2>2. attempts' \in Seq(Outcomes)
    BY <1>0, <2>1, AppendAttempt, Zenon DEF CallTypes
  <2>3. pc' = "end" /\ result' \in Outcomes
    BY <1>0, <1>7, Zenon DEF Fast, BackupEnds, Returns
  <2>4. PlainTypes'
    BY <1>0, <2>1, <2>3, Zenon DEF PlainTypes
  <2>5. CallTypes'
    BY <1>0, <1>7, <2>2, Zenon DEF Fast, BackupEnds, CallTypes, confVars
  <2> QED
    BY <1>7, <1>c, <2>4, <2>5, Zenon DEF Fast, BackupEnds
<1>8. CASE BackupGo \/ BackupAgain
  <2>1. PlainTypes'
    BY <1>0, <1>8, Zenon DEF BackupGo, BackupAgain, Returns, PlainTypes
  <2>2. sent' \subseteq {1, 2}
    BY <1>0, <1>8, Zenon DEF BackupGo, BackupAgain, CallTypes
  <2>3. CallTypes'
    BY <1>0, <1>8, <2>2, Zenon DEF BackupGo, BackupAgain, CallTypes, confVars
  <2> QED
    BY <1>8, <1>c, <2>1, <2>3, Zenon DEF BackupGo, BackupAgain
<1>9. CASE FanOut
  <2>1. PICK R \in SUBSET Servers :
             /\ gpc' = [k \in Servers |-> IF k \in R THEN "call" ELSE "none"]
             /\ left' = Cardinality(R)
             /\ IF R = {} THEN Returns("select") ELSE pc' = "wait" /\ UNCHANGED result
    BY <1>9, Zenon DEF FanOut
  <2>2. left' \in 0 .. Cardinality(Servers)
    <3>1. IsFiniteSet(R) /\ Cardinality(R) <= Cardinality(Servers)
      BY OpsAssumption, FS_Subset, Zenon
    <3> QED
      BY <2>1, <3>1, Finite, FS_CardinalityType
  <2>3. gpc' \in [Servers -> {"none", "call", "done", "append", "reply", "receipt", "end"}]
    BY <2>1, Zenon
  <2>4. PlainTypes'
    BY <1>0, <1>9, <2>1, Zenon DEF FanOut, Returns, PlainTypes
  <2>5. FanTypes'
    BY <1>0, <1>9, <2>2, <2>3, Zenon DEF FanOut, FanTypes
  <2> QED
    BY <1>9, <1>f, <2>4, <2>5, Zenon DEF FanOut
<1>10. CASE Receive
  <2>1. /\ done # <<>> /\ done \in Seq(BOOLEAN) /\ done' = Tail(done)
        /\ left' = left - 1 /\ left \in 0 .. Cardinality(Servers)
    BY <1>0, <1>10, Zenon DEF Receive, FanTypes
  <2>2. left = Cardinality(Unsent) + Len(done)
    BY <1>10, Zenon DEF Receive, IInv, FanInv
  <2>3. done' \in Seq(BOOLEAN) /\ Len(done) \in Nat \ {0}
    BY <2>1, TailType, Zenon
  <2>4. left' \in 0 .. Cardinality(Servers)
    BY <2>1, <2>2, <2>3, Finite
  <2>5. PlainTypes'
    BY <1>0, <1>10, Zenon DEF Receive, Returns, PlainTypes
  <2>6. FanTypes'
    BY <1>0, <1>10, <2>3, <2>4, Zenon DEF Receive, FanTypes
  <2> QED
    BY <1>10, <1>f, <2>5, <2>6, Zenon DEF Receive
<1>11. CASE Timeout
  <2>1. PlainTypes'
    BY <1>0, <1>11, Zenon DEF Timeout, PlainTypes
  <2>2. FanTypes'
    BY <1>0, <1>11, Zenon DEF Timeout, FanTypes
  <2> QED
    BY <1>11, <1>f, <2>1, <2>2, Zenon DEF Timeout
<1>12. ASSUME NEW k \in Servers, GoCall(k) \/ GoStep(k) PROVE TypeOK'
  <2>0. GoDoes(k)
    BY <1>12, GoEffect, Zenon
  <2>1. gpc' \in [Servers -> {"none", "call", "done", "append", "reply", "receipt", "end"}]
    <3>1. After(gerr'[k], gpc[k]) \in {"done", "append", "reply", "receipt", "end"}
      BY <2>0, Zenon DEF GoDoes, After
    <3> QED
      BY <1>0, <2>0, <3>1, Zenon DEF GoDoes, FanTypes
  <2>2. gerr' \in [Servers -> Outcomes \cup {"none"}]
    BY <1>0, <2>0, Zenon DEF GoDoes, FanTypes
  <2>3. done' \in Seq(BOOLEAN)
    <3>1. (gerr[k] = "nil") \in BOOLEAN /\ done \in Seq(BOOLEAN)
      BY <1>0, Zenon DEF FanTypes
    <3>2. \A b \in BOOLEAN : Append(done, b) \in Seq(BOOLEAN)
      BY <3>1, AppendType, Zenon
    <3>3. done' = done \/ done' = Append(done, gerr[k] = "nil")
      BY <2>0, Zenon DEF GoDoes
    <3> QED
      BY <3>1, <3>2, <3>3, Zenon
  <2>4. /\ multi' \subseteq Servers \cup {"timeout"} /\ receipts' \subseteq Servers
        /\ reply' \in Servers \cup {Nil, "call"}
    BY <1>0, <2>0 DEF GoDoes, PlainTypes, FanTypes
  <2>5. PlainTypes'
    BY <1>0, <2>0, <2>4, Zenon DEF GoDoes, PlainTypes
  <2>6. FanTypes'
    BY <1>0, <2>0, <2>1, <2>2, <2>3, <2>4, Zenon DEF GoDoes, FanTypes
  <2> QED
    BY <1>f, <2>0, <2>5, <2>6, Zenon DEF GoDoes
<1>13. CASE UNCHANGED vars
  BY <1>0, <1>13, <1>c, TypeParts, Zenon DEF vars, PlainTypes
<1> QED
  BY <1>1, <1>2, <1>3, <1>4, <1>5, <1>6, <1>7, <1>8, <1>9, <1>10, <1>11, <1>12, <1>13,
     Zenon DEF Next

-----------------------------------------------------------------------------
(* Call and SendRaw.                                                       *)

(* Where an operation is depends on its kind and fail mode.                *)
LEMMA WhereStep == IInv /\ [Next]_vars => WhereInv'
<1> SUFFICES ASSUME IInv, [Next]_vars PROVE WhereInv'
  OBVIOUS
<1>0. WhereInv /\ kind \in Kinds /\ failMode \in FailModes
  BY Zenon DEF IInv, TypeOK
<1>1. CASE Shutdown
  BY <1>0, <1>1, Zenon DEF Shutdown, WhereInv, Fans, Returns, confVars, callVars, fanVars
<1>2. CASE Select
  BY <1>0, <1>2, OpsAssumption, Zenon DEF Select, ModePc, WhereInv, Returns, confVars
<1>3. CASE Go
  BY <1>0, <1>3, Zenon DEF Go, WhereInv, Fans, Returns, confVars, callVars, fanVars
<1>4. CASE Oneshot
  BY <1>0, <1>4, Zenon DEF Oneshot, WhereInv, Fans, Returns, confVars, callVars, fanVars
<1>5. CASE LoopTop
  BY <1>0, <1>5, Zenon DEF LoopTop, WhereInv, Fans, Returns, confVars, callVars, fanVars
<1>6. CASE Attempt
  BY <1>0, <1>6, Zenon DEF Attempt, WhereInv, Fans, Returns, confVars, callVars, fanVars
<1>7. CASE Again
  BY <1>0, <1>7, Zenon DEF Again, WhereInv, Fans, Returns, confVars, callVars, fanVars
<1>8. CASE LoopEnds
  BY <1>0, <1>8, Zenon DEF LoopEnds, WhereInv, Fans, Returns, confVars, callVars, fanVars
<1>9. CASE Fast
  BY <1>0, <1>9, Zenon DEF Fast, WhereInv, Fans, Returns, confVars, callVars, fanVars
<1>10. CASE BackupGo
  BY <1>0, <1>10, Zenon DEF BackupGo, WhereInv, Fans, Returns, confVars, callVars, fanVars
<1>11. CASE BackupAgain
  BY <1>0, <1>11, Zenon DEF BackupAgain, WhereInv, Fans, Returns, confVars, callVars, fanVars
<1>12. CASE BackupEnds
  BY <1>0, <1>12, Zenon DEF BackupEnds, WhereInv, Fans, Returns, confVars, callVars, fanVars
<1>13. CASE FanOut
  BY <1>0, <1>13, Zenon DEF FanOut, WhereInv, Fans, Returns, confVars, callVars, fanVars
<1>14. CASE Receive
  BY <1>0, <1>14, Zenon DEF Receive, WhereInv, Fans, Returns, confVars, callVars, fanVars
<1>15. CASE Timeout
  BY <1>0, <1>15, Zenon DEF Timeout, WhereInv, Fans, Returns, confVars, callVars, fanVars
<1>16. CASE FanReturns
  BY <1>0, <1>16, Zenon DEF FanReturns, WhereInv, Fans, Returns, confVars, callVars, fanVars
<1>17. ASSUME NEW k \in Servers, GoCall(k) \/ GoStep(k) PROVE WhereInv'
  BY <1>0, <1>17, GoEffect, Zenon DEF GoDoes, confVars, callVars, WhereInv
<1>18. CASE UNCHANGED vars
  BY <1>0, <1>18, Zenon
     DEF vars, confVars, callVars, fanVars, WhereInv, Fans, Returns, confVars, callVars, fanVars
<1> QED
  BY <1>1, <1>2, <1>3, <1>4, <1>5, <1>6, <1>7, <1>8, <1>9, <1>10, <1>11, <1>12, <1>13,
     <1>14, <1>15, <1>16, <1>17, <1>18, Zenon DEF Next

(* The attempts made so far.                                               *)
LEMMA AttemptsStep == IInv /\ [Next]_vars => AttemptsInv'
<1> SUFFICES ASSUME IInv, [Next]_vars PROVE AttemptsInv'
  OBVIOUS
<1>0. /\ AttemptsInv /\ attempts \in Seq(Outcomes) /\ Len(attempts) \in Nat
      /\ limit \in Nat /\ retries \in -1 .. limit
  <2>1. AttemptsInv /\ attempts \in Seq(Outcomes) /\ limit \in RetryCounts /\ retries \in -1 .. limit
    BY Zenon DEF IInv, TypeOK
  <2> QED
    BY <2>1, OpsAssumption
<1>1. CASE Shutdown
  BY <1>0, <1>1, Zenon
     DEF Shutdown, AttemptsInv, NoRetryAfterAnswer, Returns, confVars, callVars, fanVars
<1>2. CASE Select
  BY <1>0, <1>2 DEF Select, ModePc, AttemptsInv, NoRetryAfterAnswer, Returns, confVars
<1>3. CASE Go
  BY <1>0, <1>3, Zenon DEF Go, AttemptsInv, NoRetryAfterAnswer, Returns, confVars, callVars, fanVars
<1>4. CASE Oneshot
  BY <1>0, <1>4, Zenon
     DEF Oneshot, AttemptsInv, NoRetryAfterAnswer, Returns, confVars, callVars, fanVars
<1>5. CASE LoopTop
  BY <1>0, <1>5 DEF LoopTop, Remaining, AttemptsInv, NoRetryAfterAnswer, confVars
<1>6. CASE Attempt
  <2>1. PICK o \in Outcomes :
             /\ attempts' = Append(attempts, o)
             /\ IF Retried(o) THEN pc' = "again" ELSE pc' = "end"
    BY <1>6, Zenon DEF Attempt, Returns
  <2>2. /\ pc = "call" /\ limit' = limit /\ retries' = retries
        /\ retries + Len(attempts) < limit
        /\ \A i \in 1 .. Len(attempts) : attempts[i] = "net"
    BY <1>0, <1>6, Zenon DEF Attempt, AttemptsInv, confVars
  <2>3. /\ Len(attempts') = Len(attempts) + 1 /\ attempts'[Len(attempts')] = o
        /\ \A i \in 1 .. Len(attempts) : attempts'[i] = "net"
    BY <1>0, <2>1, <2>2
  <2>4. Retried(o) => o = "net"
    BY Zenon DEF Retried, ContextCanceled, Outcomes
  <2>5. NoRetryAfterAnswer'
    BY <1>0, <2>2, <2>3 DEF NoRetryAfterAnswer
  <2>6. Retried(o) => \A i \in 1 .. Len(attempts') : attempts'[i] = "net"
    BY <1>0, <2>3, <2>4
  <2> QED
    BY <1>0, <2>1, <2>2, <2>3, <2>5, <2>6 DEF AttemptsInv
<1>7. CASE Again
  BY <1>0, <1>7, Zenon
     DEF Again, AttemptsInv, NoRetryAfterAnswer, Returns, confVars, callVars, fanVars
<1>8. CASE LoopEnds
  BY <1>0, <1>8, Zenon
     DEF LoopEnds, AttemptsInv, NoRetryAfterAnswer, Returns, confVars, callVars, fanVars
<1>9. CASE Fast
  <2>1. \/ attempts' = attempts
        \/ \E o \in Outcomes : attempts' = Append(attempts, o)
    BY <1>9, Zenon DEF Fast
  <2>2. attempts = <<>> /\ pc' = "end" /\ limit' = limit
    BY <1>0, <1>9, Zenon DEF Fast, AttemptsInv, Returns, confVars
  <2>3. Len(attempts') <= 1
    <3>1. \A o \in Outcomes : Len(Append(attempts, o)) = Len(attempts) + 1
      BY <1>0, AppendType, Zenon
    <3>2. Len(attempts) = 0
      BY <2>2, Zenon
    <3> QED
      BY <2>1, <3>1, <3>2
  <2> QED
    BY <1>0, <2>2, <2>3 DEF AttemptsInv, NoRetryAfterAnswer
<1>10. CASE BackupGo
  BY <1>0, <1>10, Zenon
     DEF BackupGo, AttemptsInv, NoRetryAfterAnswer, Returns, confVars, callVars, fanVars
<1>11. CASE BackupAgain
  BY <1>0, <1>11, Zenon
     DEF BackupAgain, AttemptsInv, NoRetryAfterAnswer, Returns, confVars, callVars, fanVars
<1>12. CASE BackupEnds
  <2>1. \/ attempts' = attempts
        \/ \E o \in Outcomes : attempts' = Append(attempts, o)
    BY <1>12, Zenon DEF BackupEnds
  <2>2. attempts = <<>> /\ pc' = "end" /\ limit' = limit
    BY <1>0, <1>12, Zenon DEF BackupEnds, AttemptsInv, Returns, confVars
  <2>3. Len(attempts') <= 1
    <3>1. \A o \in Outcomes : Len(Append(attempts, o)) = Len(attempts) + 1
      BY <1>0, AppendType, Zenon
    <3>2. Len(attempts) = 0
      BY <2>2, Zenon
    <3> QED
      BY <2>1, <3>1, <3>2
  <2> QED
    BY <1>0, <2>2, <2>3 DEF AttemptsInv, NoRetryAfterAnswer
<1>13. CASE FanOut
  BY <1>0, <1>13, Zenon
     DEF FanOut, AttemptsInv, NoRetryAfterAnswer, Returns, confVars, callVars, fanVars
<1>14. CASE Receive
  BY <1>0, <1>14, Zenon
     DEF Receive, AttemptsInv, NoRetryAfterAnswer, Returns, confVars, callVars, fanVars
<1>15. CASE Timeout
  BY <1>0, <1>15, Zenon
     DEF Timeout, AttemptsInv, NoRetryAfterAnswer, Returns, confVars, callVars, fanVars
<1>16. CASE FanReturns
  BY <1>0, <1>16, Zenon
     DEF FanReturns, AttemptsInv, NoRetryAfterAnswer, Returns, confVars, callVars, fanVars
<1>17. ASSUME NEW k \in Servers, GoCall(k) \/ GoStep(k) PROVE AttemptsInv'
  BY <1>0, <1>17, GoEffect, Zenon DEF GoDoes, confVars, callVars, AttemptsInv, NoRetryAfterAnswer
<1>18. CASE UNCHANGED vars
  BY <1>0, <1>18, Zenon
     DEF vars, confVars, callVars, fanVars, AttemptsInv, NoRetryAfterAnswer, Returns, confVars,
         callVars, fanVars
<1> QED
  BY <1>1, <1>2, <1>3, <1>4, <1>5, <1>6, <1>7, <1>8, <1>9, <1>10, <1>11, <1>12, <1>13,
     <1>14, <1>15, <1>16, <1>17, <1>18, Zenon DEF Next

(* err tells what the last attempt of Call has returned.                   *)
LEMMA ErrStep == IInv /\ [Next]_vars => ErrInv'
<1> SUFFICES ASSUME IInv, [Next]_vars PROVE ErrInv'
  OBVIOUS
<1>0. /\ ErrInv /\ attempts \in Seq(Outcomes) /\ client \in BOOLEAN
      /\ pc = "start" => retries = limit /\ attempts = <<>>
  BY Zenon DEF IInv, TypeOK, AttemptsInv
<1>1. CASE Shutdown
  BY <1>0, <1>1, Zenon DEF Shutdown, ErrInv, Returns, confVars, callVars, fanVars
<1>2. CASE Select
  BY <1>0, <1>2, Zenon DEF Select, ModePc, ErrInv, Returns, confVars
<1>3. CASE Go
  BY <1>0, <1>3, Zenon DEF Go, ErrInv, Returns, confVars, callVars, fanVars
<1>4. CASE Oneshot
  BY <1>0, <1>4, Zenon DEF Oneshot, ErrInv, Returns, confVars, callVars, fanVars
<1>5. CASE LoopTop
  BY <1>0, <1>5, Zenon DEF LoopTop, ErrInv, Returns, confVars, callVars, fanVars
<1>6. CASE Attempt
  <2>1. PICK o \in Outcomes :
             /\ attempts' = Append(attempts, o) /\ err' = AttemptErr(o)
             /\ IF Retried(o) THEN pc' = "again" ELSE pc' = "end"
    BY <1>6, Zenon DEF Attempt, Returns
  <2>2. Retried(o) => o = "net"
    BY Zenon DEF Retried, ContextCanceled, Outcomes
  <2>3. attempts' # <<>> /\ kind' = kind
    BY <1>0, <1>6, <2>1, AppendType DEF Attempt, confVars
  <2> QED
    BY <2>1, <2>2, <2>3, Zenon DEF ErrInv, AttemptErr
<1>7. CASE Again
  BY <1>0, <1>7, Zenon DEF Again, ErrInv, Returns, confVars, callVars, fanVars
<1>8. CASE LoopEnds
  BY <1>0, <1>8, Zenon DEF LoopEnds, ErrInv, Returns, confVars, callVars, fanVars
<1>9. CASE Fast
  BY <1>0, <1>9, Zenon DEF Fast, ErrInv, Returns, confVars, callVars, fanVars
<1>10. CASE BackupGo
  BY <1>0, <1>10, Zenon DEF BackupGo, ErrInv, Returns, confVars, callVars, fanVars
<1>11. CASE BackupAgain
  BY <1>0, <1>11, Zenon DEF BackupAgain, ErrInv, Returns, confVars, callVars, fanVars
<1>12. CASE BackupEnds
  BY <1>0, <1>12, Zenon DEF BackupEnds, ErrInv, Returns, confVars, callVars, fanVars
<1>13. CASE FanOut
  BY <1>0, <1>13, Zenon DEF FanOut, ErrInv, Returns, confVars, callVars, fanVars
<1>14. CASE Receive
  BY <1>0, <1>14, Zenon DEF Receive, ErrInv, Returns, confVars, callVars, fanVars
<1>15. CASE Timeout
  BY <1>0, <1>15, Zenon DEF Timeout, ErrInv, Returns, confVars, callVars, fanVars
<1>16. CASE FanReturns
  BY <1>0, <1>16, Zenon DEF FanReturns, ErrInv, Returns, confVars, callVars, fanVars
<1>17. ASSUME NEW k \in Servers, GoCall(k) \/ GoStep(k) PROVE ErrInv'
  BY <1>0, <1>17, GoEffect, Zenon DEF GoDoes, confVars, callVars, ErrInv
<1>18. CASE UNCHANGED vars
  BY <1>0, <1>18, Zenon
     DEF vars, confVars, callVars, fanVars, ErrInv, Returns, confVars, callVars, fanVars
<1> QED
  BY <1>1, <1>2, <1>3, <1>4, <1>5, <1>6, <1>7, <1>8, <1>9, <1>10, <1>11, <1>12, <1>13,
     <1>14, <1>15, <1>16, <1>17, <1>18, Zenon DEF Next

(* Call returns what its last attempt has.                                 *)
LEMMA ResultStep == IInv /\ [Next]_vars => CallResult'
<1> SUFFICES ASSUME IInv, [Next]_vars PROVE CallResult'
  OBVIOUS
<1>0. /\ CallResult /\ WhereInv /\ attempts \in Seq(Outcomes)
      /\ pc \in {"start", "fast", "backup", "wait1", "wait2"} => attempts = <<>>
  BY Zenon DEF IInv, TypeOK, AttemptsInv
<1>1. CASE Shutdown
  BY <1>0, <1>1, Zenon
     DEF Shutdown, CallResult, WhereInv, Fans, Returns, confVars, callVars, fanVars
<1>2. CASE Select
  BY <1>0, <1>2, Zenon DEF Select, ModePc, CallResult, Returns, confVars
<1>3. CASE Go
  BY <1>0, <1>3, Zenon DEF Go, CallResult, WhereInv, Fans, Returns, confVars, callVars, fanVars
<1>4. CASE Oneshot
  BY <1>0, <1>4, Zenon DEF Oneshot, CallResult, WhereInv, Fans, Returns, confVars, callVars, fanVars
<1>5. CASE LoopTop
  BY <1>0, <1>5, Zenon DEF LoopTop, CallResult, WhereInv, Fans, Returns, confVars, callVars, fanVars
<1>6. CASE Attempt
  <2>1. PICK o \in Outcomes :
             /\ attempts' = Append(attempts, o)
             /\ IF Retried(o) THEN pc' = "again" ELSE pc' = "end" /\ result' = o
    BY <1>6, Zenon DEF Attempt, Returns
  <2>2. attempts' # <<>> /\ attempts'[Len(attempts')] = o
    BY <1>0, <2>1, AppendType
  <2> QED
    BY <2>1, <2>2, Zenon DEF CallResult
<1>7. CASE Again
  BY <1>0, <1>7, Zenon DEF Again, CallResult, WhereInv, Fans, Returns, confVars, callVars, fanVars
<1>8. CASE LoopEnds
  <2>1. SUFFICES ASSUME kind = "Call", pc' = "end"
               PROVE  IF attempts' = <<>> THEN result' \in {"select", "shutdown"}
                      ELSE result' = attempts'[Len(attempts')]
    BY <1>8, Zenon DEF CallResult, LoopEnds, confVars
  <2>2. /\ pc = "loop" /\ retries < 0 /\ attempts' = attempts
        /\ result' = IF err = "nil" THEN e ELSE err
    BY <1>8 DEF LoopEnds, Remaining, Returns, callVars, IInv, TypeOK
  <2>3. retries # limit
    BY <2>2, OpsAssumption DEF IInv, TypeOK
  <2>4. IF attempts # <<>> THEN err = "net" ELSE err = "select"
    BY <2>1, <2>2, <2>3, Zenon DEF IInv, ErrInv
  <2>5. attempts # <<>> => attempts[Len(attempts)] = "net"
    <3>1. \A i \in 1 .. Len(attempts) : attempts[i] = "net"
      BY <2>2, Zenon DEF IInv, AttemptsInv
    <3> QED
      BY <1>0, <3>1
  <2> QED
    BY <2>2, <2>4, <2>5, Zenon
<1>9. CASE Fast
  <2>1. SUFFICES ASSUME kind = "Call"
               PROVE  attempts' # <<>> /\ result' = attempts'[Len(attempts')]
    BY <1>9, Zenon DEF CallResult, Fast, confVars
  <2>2. client
    BY <1>0, <1>9, <2>1, Zenon DEF Fast, WhereInv
  <2>3. PICK o \in Outcomes : attempts' = Append(attempts, o) /\ result' = o
    BY <1>9, <2>1, <2>2, Zenon DEF Fast, Returns
  <2> QED
    BY <1>0, <2>3, AppendType
<1>10. CASE BackupGo
  BY <1>0, <1>10, Zenon
     DEF BackupGo, CallResult, WhereInv, Fans, Returns, confVars, callVars, fanVars
<1>11. CASE BackupAgain
  BY <1>0, <1>11, Zenon
     DEF BackupAgain, CallResult, WhereInv, Fans, Returns, confVars, callVars, fanVars
<1>12. CASE BackupEnds
  BY <1>0, <1>12, Zenon
     DEF BackupEnds, CallResult, WhereInv, Fans, Returns, confVars, callVars, fanVars
<1>13. CASE FanOut
  BY <1>0, <1>13, Zenon DEF FanOut, CallResult, WhereInv, Fans, Returns, confVars, callVars, fanVars
<1>14. CASE Receive
  BY <1>0, <1>14, Zenon
     DEF Receive, CallResult, WhereInv, Fans, Returns, confVars, callVars, fanVars
<1>15. CASE Timeout
  BY <1>0, <1>15, Zenon
     DEF Timeout, CallResult, WhereInv, Fans, Returns, confVars, callVars, fanVars
<1>16. CASE FanReturns
  BY <1>0, <1>16, Zenon
     DEF FanReturns, CallResult, WhereInv, Fans, Returns, confVars, callVars, fanVars
<1>17. ASSUME NEW k \in Servers, GoCall(k) \/ GoStep(k) PROVE CallResult'
  BY <1>0, <1>17, GoEffect, Zenon DEF GoDoes, confVars, callVars, CallResult
<1>18. CASE UNCHANGED vars
  BY <1>0, <1>18, Zenon
     DEF vars, confVars, callVars, fanVars, CallResult, WhereInv, Fans, Returns, confVars,
         callVars, fanVars
<1> QED
  BY <1>1, <1>2, <1>3, <1>4, <1>5, <1>6, <1>7, <1>8, <1>9, <1>10, <1>11, <1>12, <1>13,
     <1>14, <1>15, <1>16, <1>17, <1>18, Zenon DEF Next

-----------------------------------------------------------------------------
(* Broadcast, Fork and Inform.                                             *)

LEMMA FanFrame ==
    ASSUME FanInv, UNCHANGED <<kind, gpc, gerr, done>>, pc' \notin {"start", "wait"}
    PROVE  FanInv'
<1>1. Unsent' = Unsent /\ Started' = Started
  BY Zenon DEF Unsent, Started
<1> QED
  BY <1>1, Zenon DEF FanInv

(* Every goroutine sends to done once, and has room to.                    *)
LEMMA FanStep == IInv /\ [Next]_vars => FanInv'
<1> SUFFICES ASSUME IInv, [Next]_vars PROVE FanInv'
  OBVIOUS
<1>0. FanInv /\ WhereInv
  BY Zenon DEF IInv
<1>1. CASE Shutdown
  BY <1>0, <1>1, FanFrame, Zenon DEF Shutdown, Returns, confVars, callVars, fanVars
<1>2. CASE Select
  <2>1. pc' \in {"loop", "backup", "fast", "end"}
    BY <1>2, Zenon DEF Select, ModePc, Returns
  <2> QED
    BY <1>0, <1>2, <2>1, FanFrame, Zenon DEF Select, confVars, fanVars
<1>3. CASE Go
  BY <1>0, <1>3, FanFrame, Zenon DEF Go, Returns, confVars, callVars, fanVars
<1>4. CASE Oneshot
  BY <1>0, <1>4, FanFrame, Zenon DEF Oneshot, Returns, confVars, callVars, fanVars
<1>5. CASE LoopTop
  <2>1. pc' \in {"call", "again"}
    BY <1>5, Zenon DEF LoopTop
  <2> QED
    BY <1>0, <1>5, <2>1, FanFrame, Zenon DEF LoopTop, confVars, fanVars
<1>6. CASE Attempt
  BY <1>0, <1>6, FanFrame, Zenon DEF Attempt, Returns, confVars, callVars, fanVars
<1>7. CASE Again
  BY <1>0, <1>7, FanFrame, Zenon DEF Again, Returns, confVars, callVars, fanVars
<1>8. CASE LoopEnds
  BY <1>0, <1>8, FanFrame, Zenon DEF LoopEnds, Returns, confVars, callVars, fanVars
<1>9. CASE Fast
  BY <1>0, <1>9, FanFrame, Zenon DEF Fast, Returns, confVars, callVars, fanVars
<1>10. CASE BackupGo
  BY <1>0, <1>10, FanFrame, Zenon DEF BackupGo, Returns, confVars, callVars, fanVars
<1>11. CASE BackupAgain
  BY <1>0, <1>11, FanFrame, Zenon DEF BackupAgain, Returns, confVars, callVars, fanVars
<1>12. CASE BackupEnds
  BY <1>0, <1>12, FanFrame, Zenon DEF BackupEnds, Returns, confVars, callVars, fanVars
<1>13. CASE FanOut
  <2>1. PICK R \in SUBSET Servers :
             /\ gpc' = [k \in Servers |-> IF k \in R THEN "call" ELSE "none"]
             /\ left' = Cardinality(R)
    BY <1>13, Zenon DEF FanOut
  <2>2. /\ kind \in Fans /\ pc' # "start" /\ done = <<>> /\ Started = {}
        /\ done' = done /\ kind' = kind /\ gerr' = gerr
    BY <1>0, <1>13, Zenon DEF FanInv, FanOut, Returns, confVars
  <2>3. Started' = R /\ Unsent' = R
    BY <2>1, Zenon DEF Started, Unsent
  <2>4. \A k \in Servers : gerr[k] = "none"
    BY <1>0, <2>2, Zenon DEF FanInv, Started
  <2>5. Cardinality(R) \in Nat /\ Len(done') = 0
    <3>1. IsFiniteSet(R)
      BY OpsAssumption, FS_Subset, Zenon
    <3> QED
      BY <2>2, <3>1, FS_CardinalityType, Zenon
  <2>6. /\ Cardinality(Unsent') + Len(done') <= Cardinality(Started')
        /\ left' = Cardinality(Unsent') + Len(done')
    BY <2>1, <2>3, <2>5
  <2>7. \A k \in Servers : gpc'[k] \in {"none", "call"}
    BY <2>1, Zenon
  <2> QED
    BY <2>2, <2>4, <2>6, <2>7, Zenon DEF FanInv
<1>14. CASE Receive
  <2>0. /\ done \in Seq(BOOLEAN) /\ left \in 0 .. Cardinality(Servers)
        /\ done # <<>> /\ done' = Tail(done) /\ left' = left - 1 /\ pc = "wait"
        /\ pc' # "start" /\ kind \in Fans /\ UNCHANGED <<kind, gpc, gerr>>
    BY <1>0, <1>14, Zenon DEF Receive, IInv, TypeOK, WhereInv, Returns, confVars
  <2>1. Unsent' = Unsent /\ Started' = Started
    BY <2>0, Zenon DEF Unsent, Started
  <2>2. Len(done') = Len(done) - 1 /\ Len(done) \in Nat
    BY <2>0
  <2>3. Cardinality(Unsent) + Len(done) <= Cardinality(Started) /\ left = Cardinality(Unsent) + Len(done)
    BY <1>0, <2>0, Zenon DEF FanInv
  <2>4. /\ Cardinality(Unsent) + Len(done') <= Cardinality(Started)
        /\ left' = Cardinality(Unsent) + Len(done')
    <3>1. Cardinality(Unsent) \in Nat /\ Cardinality(Started) \in Nat
      BY Finite, Zenon
    <3>2. Cardinality(Unsent) + Len(done') <= Cardinality(Started)
      BY <2>2, <2>3, <3>1
    <3>3. left' = Cardinality(Unsent) + Len(done')
      BY <2>0, <2>2, <2>3, <3>1
    <3> QED
      BY <3>2, <3>3, Zenon
  <2> QED
    BY <1>0, <2>0, <2>1, <2>4, Zenon DEF FanInv
<1>15. CASE Timeout
  BY <1>0, <1>15, FanFrame, Zenon DEF Timeout, Returns, confVars, callVars, fanVars
<1>16. CASE FanReturns
  BY <1>0, <1>16, FanFrame, Zenon DEF FanReturns, Returns, confVars, callVars, fanVars
<1>17. ASSUME NEW k \in Servers, GoCall(k) \/ GoStep(k) PROVE FanInv'
  <2>0. GoDoes(k)
    BY <1>17, GoEffect, Zenon
  <2>1. /\ done \in Seq(BOOLEAN) /\ left \in 0 .. Cardinality(Servers)
        /\ gpc \in [Servers -> {"none", "call", "done", "append", "reply", "receipt", "end"}]
        /\ gerr \in [Servers -> Outcomes \cup {"none"}]
    BY Zenon DEF IInv, TypeOK
  <2>2. /\ Started' = Started
        /\ Unsent' = IF gpc[k] = "done" THEN Unsent \ {k} ELSE Unsent
        /\ gpc[k] = "done" => k \in Unsent
    BY <2>0, GoSends, Zenon
  <2>3. Cardinality(Unsent') + Len(done') = Cardinality(Unsent) + Len(done)
    <3>1. CASE gpc[k] = "done"
      <4>1. Cardinality(Unsent') = Cardinality(Unsent) - 1
        BY <2>2, <3>1, Finite, FS_RemoveElement, Zenon
      <4>2. Len(done') = Len(done) + 1 /\ Len(done) \in Nat
        <5>1. (gerr[k] = "nil") \in BOOLEAN
          OBVIOUS
        <5>2. done' = Append(done, gerr[k] = "nil")
          BY <2>0, <3>1, Zenon DEF GoDoes
        <5>3. \A b \in BOOLEAN : Len(Append(done, b)) = Len(done) + 1
          BY <2>1, AppendType
        <5>4. Len(done') = Len(done) + 1
          BY <5>1, <5>2, <5>3, Zenon
        <5> QED
          BY <2>1, <5>4
      <4> QED
        BY <4>1, <4>2, Finite
    <3>2. CASE gpc[k] # "done"
      BY <2>0, <2>2, <3>2, Zenon DEF GoDoes
    <3> QED
      BY <3>1, <3>2, Zenon
  <2>4. /\ kind' = kind /\ pc' = pc /\ left' = left /\ kind \in Fans /\ pc # "start"
        /\ gpc'[k] = After(gerr'[k], gpc[k]) /\ gerr'[k] \in Outcomes /\ Takes(gerr'[k], gpc[k])
        /\ \A j \in Servers \ {k} : gpc'[j] = gpc[j] /\ gerr'[j] = gerr[j]
    BY <2>0, <2>1, Zenon DEF GoDoes, confVars
  <2>5. /\ gerr'[k] # "none" /\ gpc'[k] \notin {"none", "call"}
        /\ gpc'[k] = "reply" => gerr'[k] = "nil"
        /\ gpc'[k] = "append" => gerr'[k] # "nil"
        /\ gpc'[k] = "receipt" => kind = "Inform"
    BY <2>0, <2>4 DEF After, Takes, Outcomes, GoDoes
  <2>6. \A j \in Servers :
           /\ gerr'[j] = "none" <=> gpc'[j] \in {"none", "call"}
           /\ gpc'[j] = "reply" => gerr'[j] = "nil"
           /\ gpc'[j] = "append" => gerr'[j] # "nil"
           /\ gpc'[j] = "receipt" => kind' = "Inform"
    BY <1>0, <2>4, <2>5, Zenon DEF FanInv
  <2> QED
    BY <1>0, <2>2, <2>3, <2>4, <2>6, Zenon DEF FanInv
<1>18. CASE UNCHANGED vars
  <2>1. Unsent' = Unsent /\ Started' = Started
    BY <1>18, Zenon DEF Unsent, Started, vars, confVars, fanVars
  <2> QED
    BY <1>0, <1>18, <2>1, Zenon DEF vars, confVars, fanVars, FanInv
<1> QED
  BY <1>1, <1>2, <1>3, <1>4, <1>5, <1>6, <1>7, <1>8, <1>9, <1>10, <1>11, <1>12, <1>13,
     <1>14, <1>15, <1>16, <1>17, <1>18, Zenon DEF Next

(* A goroutine of Fork sets the reply before it sends to done.             *)
LEMMA ForkStep == IInv /\ [Next]_vars => ForkInv'
<1> SUFFICES ASSUME IInv, [Next]_vars PROVE ForkInv'
  OBVIOUS
<1>0. ForkInv /\ WhereInv /\ (kind' = kind /\ UNCHANGED gpc => Unsent' = Unsent)
  BY Zenon DEF IInv, Unsent
<1>1. CASE Shutdown
  BY <1>0, <1>1, Zenon DEF Shutdown, ForkInv, Returns, confVars, fanVars
<1>2. CASE Select
  BY <1>0, <1>2, Zenon DEF Select, ForkInv, confVars
<1>3. CASE Go
  BY <1>0, <1>3, Zenon DEF Go, ForkInv, WhereInv, confVars
<1>4. CASE Oneshot
  BY <1>0, <1>4, Zenon DEF Oneshot, ForkInv, WhereInv, confVars
<1>5. CASE LoopTop
  BY <1>0, <1>5, Zenon DEF LoopTop, ForkInv, WhereInv, confVars
<1>6. CASE Attempt
  BY <1>0, <1>6, Zenon DEF Attempt, ForkInv, WhereInv, confVars
<1>7. CASE Again
  BY <1>0, <1>7, Zenon DEF Again, ForkInv, WhereInv, confVars
<1>8. CASE LoopEnds
  BY <1>0, <1>8, Zenon DEF LoopEnds, ForkInv, WhereInv, confVars
<1>9. CASE Fast
  BY <1>0, <1>9, Zenon DEF Fast, ForkInv, WhereInv, confVars
<1>10. CASE BackupGo
  BY <1>0, <1>10, Zenon DEF BackupGo, ForkInv, WhereInv, confVars
<1>11. CASE BackupAgain
  BY <1>0, <1>11, Zenon DEF BackupAgain, ForkInv, WhereInv, confVars
<1>12. CASE BackupEnds
  BY <1>0, <1>12, Zenon DEF BackupEnds, ForkInv, WhereInv, confVars
<1>13. CASE FanOut
  <2>1. PICK R \in SUBSET Servers :
             /\ gpc' = [k \in Servers |-> IF k \in R THEN "call" ELSE "none"]
             /\ IF R = {} THEN Returns("select") ELSE pc' = "wait" /\ UNCHANGED result
    BY <1>13, Zenon DEF FanOut
  <2>2. /\ \A k \in Servers : gerr[k] # "nil"
        /\ done = <<>>
    BY <1>13, Zenon DEF IInv, FanInv, Started, FanOut
  <2>3. gerr' = gerr /\ done' = done /\ result' # "nil" /\ pc' # "check"
    BY <1>0, <1>13, <2>1, Zenon DEF FanOut, Returns, WhereInv
  <2> QED
    BY <2>2, <2>3 DEF ForkInv
<1>14. CASE Receive
  <2>0. /\ done \in Seq(BOOLEAN) /\ done # <<>> /\ done' = Tail(done) /\ pc = "wait"
        /\ left' = left - 1 /\ UNCHANGED <<kind, gpc, gerr, reply, multi>> /\ result = "none"
    BY <1>0, <1>14, Zenon DEF Receive, IInv, TypeOK, WhereInv, confVars
  <2>1. SUFFICES ASSUME kind = "Fork" PROVE ForkInv'
    BY <2>0, Zenon DEF ForkInv
  <2>2. \A i \in 1 .. Len(done') : i + 1 \in 1 .. Len(done) /\ done'[i] = done[i + 1]
    BY <2>0, TailType
  <2>3. Head(done) => \E i \in 1 .. Len(done) : done[i]
    <3>1. 1 \in 1 .. Len(done) /\ Head(done) = done[1]
      BY <2>0, TailType
    <3> QED
      BY <3>1, Zenon
  <2>4. (\E i \in 1 .. Len(done') : done'[i]) => reply # Nil
    BY <1>0, <2>1, <2>2, Zenon DEF ForkInv
  <2>5. left' = 0 => Unsent = {}
    <3>1. left = Cardinality(Unsent) + Len(done) /\ Len(done) \in Nat \ {0}
      BY <2>0, TailType, Zenon DEF IInv, FanInv
    <3>2. left' = 0 => Cardinality(Unsent) = 0
      BY <2>0, <3>1, Finite
    <3> QED
      BY <3>2, Finite, FS_EmptySet, Zenon
  <2>6. CASE Head(done)
    <3>1. pc' = "end" /\ reply # Nil
      BY <1>0, <1>14, <2>1, <2>3, <2>6, Zenon DEF Receive, Returns, ForkInv
    <3> QED
      BY <1>0, <2>0, <2>4, <3>1, Zenon DEF ForkInv
  <2>7. CASE ~Head(done)
    <3>1. result' = result /\ (pc' = "check" => left' = 0)
      BY <1>14, <2>1, <2>7, Zenon DEF Receive
    <3> QED
      BY <1>0, <2>0, <2>4, <2>5, <3>1, Zenon DEF ForkInv
  <2> QED
    BY <2>6, <2>7, Zenon
<1>15. CASE Timeout
  <2>1. multi' # {} /\ result # "nil"
    BY <1>0, <1>15, Zenon DEF Timeout, WhereInv
  <2> QED
    BY <1>0, <1>15, <2>1, Zenon DEF Timeout, ForkInv, confVars
<1>16. CASE FanReturns
  <2>1. pc = "check" /\ pc' = "end" /\ (result' = "nil" => multi = {})
    BY <1>16, Zenon DEF FanReturns, Returns
  <2> QED
    BY <1>0, <1>16, <2>1, Zenon DEF FanReturns, ForkInv, confVars, fanVars
<1>17. ASSUME NEW k \in Servers, GoCall(k) \/ GoStep(k) PROVE ForkInv'
  <2>0. GoDoes(k)
    BY <1>17, GoEffect, Zenon
  <2>1. SUFFICES ASSUME kind = "Fork" PROVE ForkInv'
    BY <2>0, Zenon DEF ForkInv, GoDoes, confVars
  <2>2. /\ done \in Seq(BOOLEAN)
        /\ gpc \in [Servers -> {"none", "call", "done", "append", "reply", "receipt", "end"}]
        /\ gerr \in [Servers -> Outcomes \cup {"none"}]
    BY Zenon DEF IInv, TypeOK
  <2>3. /\ gpc'[k] = After(gerr'[k], gpc[k]) /\ Takes(gerr'[k], gpc[k])
        /\ \A j \in Servers \ {k} : gpc'[j] = gpc[j] /\ gerr'[j] = gerr[j]
        /\ gpc[k] # "call" => gerr' = gerr
    BY <2>0, <2>2, Zenon DEF GoDoes
  <2>4. reply # Nil => reply' # Nil
    BY <2>0, Zenon DEF GoDoes
  <2>5. gpc[k] = "reply" => reply' # Nil
    BY <2>0, OpsAssumption, Zenon DEF GoDoes
  <2>6. gerr'[k] = "nil" /\ gpc'[k] # "reply" => reply' # Nil
    <3>1. gpc[k] = "call" /\ gerr'[k] = "nil" => gpc'[k] = "reply"
      BY <2>1, <2>3, Zenon DEF After
    <3>2. gpc[k] # "call" /\ gpc[k] # "reply" /\ gerr[k] = "nil" => reply # Nil
      BY <1>0, <2>1, Zenon DEF ForkInv
    <3> QED
      BY <2>3, <2>4, <2>5, <3>1, <3>2, Zenon
  <2>7. \A j \in Servers : gerr'[j] = "nil" /\ gpc'[j] # "reply" => reply' # Nil
    BY <1>0, <2>1, <2>3, <2>4, <2>6, Zenon DEF ForkInv
  <2>8. (\E i \in 1 .. Len(done') : done'[i]) => reply' # Nil
    <3>1. CASE gpc[k] = "done"
      <4>1. done' = Append(done, gerr[k] = "nil")
        BY <2>0, <3>1, Zenon DEF GoDoes
      <4>2. \A b \in BOOLEAN, i \in 1 .. Len(done) + 1 :
               Append(done, b)[i] = IF i = Len(done) + 1 THEN b ELSE done[i]
        BY <2>2
      <4>3. \A b \in BOOLEAN : Len(Append(done, b)) = Len(done) + 1
        BY <2>2, AppendType
      <4>4. (gerr[k] = "nil") \in BOOLEAN
        OBVIOUS
      <4>5. \A i \in 1 .. Len(done') : done'[i] = IF i = Len(done) + 1 THEN gerr[k] = "nil" ELSE done[i]
        BY <4>1, <4>2, <4>3, <4>4, Zenon
      <4>6. Len(done') = Len(done) + 1
        BY <4>1, <4>3, <4>4, Zenon
      <4>7. \A i \in 1 .. Len(done') : i \in 1 .. Len(done) \/ i = Len(done) + 1
        BY <2>2, <4>6
      <4>8. gerr[k] = "nil" => reply # Nil
        BY <1>0, <2>1, <3>1, Zenon DEF ForkInv
      <4> QED
        BY <1>0, <2>1, <2>4, <4>5, <4>7, <4>8, Zenon DEF ForkInv
    <3>2. CASE gpc[k] # "done"
      BY <1>0, <2>0, <2>1, <2>4, <3>2, Zenon DEF ForkInv, GoDoes
    <3> QED
      BY <3>1, <3>2, Zenon
  <2>9. Unsent = {} => Unsent' = {}
    BY <2>0, GoSends, Zenon
  <2>10. multi # {} => multi' # {}
    BY <2>0, Zenon DEF GoDoes
  <2>11. pc' = pc /\ result' = result
    BY <2>0, Zenon DEF GoDoes
  <2> QED
    BY <1>0, <2>1, <2>4, <2>7, <2>8, <2>9, <2>10, <2>11, Zenon DEF ForkInv
<1>18. CASE UNCHANGED vars
  BY <1>0, <1>18, Zenon DEF vars, confVars, fanVars, ForkInv
<1> QED
  BY <1>1, <1>2, <1>3, <1>4, <1>5, <1>6, <1>7, <1>8, <1>9, <1>10, <1>11, <1>12, <1>13,
     <1>14, <1>15, <1>16, <1>17, <1>18, Zenon DEF Next

-----------------------------------------------------------------------------
(* The inductive invariant of an operation, for every number of servers    *)
(* and of retries (xclient.go:560-1217).                                   *)
THEOREM Invariance == Spec => []IInv
<1>1. ASSUME Init PROVE IInv
  <2>1. Started = {} /\ Unsent = {}
    BY <1>1, Zenon DEF Init, Started, Unsent
  <2>2. Cardinality({}) = 0
    BY FS_EmptySet, Zenon
  <2>3. TypeOK
    <3>1. 0 \in 0 .. Cardinality(Servers)
      BY Finite
    <3>2. limit \in -1 .. limit
      BY <1>1, OpsAssumption DEF Init
    <3>3. <<>> \in Seq(Outcomes) /\ <<>> \in Seq(BOOLEAN)
      OBVIOUS
    <3> QED
      BY <1>1, <3>1, <3>2, <3>3, Zenon DEF Init, TypeOK, Outcomes
  <2>4. WhereInv /\ ErrInv /\ CallResult /\ ForkInv
    BY <1>1, <2>1 DEF Init, WhereInv, ErrInv, CallResult, ForkInv
  <2>5. AttemptsInv
    BY <1>1, OpsAssumption DEF Init, AttemptsInv, NoRetryAfterAnswer
  <2>6. FanInv
    BY <1>1, <2>1, <2>2 DEF Init, FanInv
  <2> QED
    BY <2>3, <2>4, <2>5, <2>6, Zenon DEF IInv
<1>2. IInv /\ [Next]_vars => IInv'
  BY TypeStep, WhereStep, AttemptsStep, ErrStep, ResultStep, FanStep, ForkStep, Zenon DEF IInv
<1> QED
  BY <1>1, <1>2, PTL DEF Spec

(* Call returns what its last attempt returned, whatever was tried before  *)
(* (xclient.go:602-657, 712-720).                                          *)
THEOREM CallReturnsLast == Spec => []CallResult
<1>1. IInv => CallResult
  BY Zenon DEF IInv
<1> QED
  BY <1>1, Invariance, PTL

(* No request is repeated after an answer, an error of the service or a    *)
(* done context, nor more than Option.Retries times (xclient.go:604-622,   *)
(* 631-651, 817-838).                                                      *)
THEOREM RetriesAreBounded == Spec => []NoRetryAfterAnswer
<1>1. IInv => NoRetryAfterAnswer
  BY Zenon DEF IInv, AttemptsInv
<1> QED
  BY <1>1, Invariance, PTL

(* When Fork returns nil it has set the reply, or every server has failed  *)
(* (xclient.go:1072-1078).                                                 *)
THEOREM ForkHasReply == Spec => []ForkReply
<1>1. IInv => ForkReply
  BY Zenon DEF IInv, FanInv, ForkInv, ForkReply, Unsent
<1> QED
  BY <1>1, Invariance, PTL

(* A goroutine of Broadcast, Fork or Inform that is about to send to done  *)
(* finds room in it, though the operation may have returned                *)
(* (xclient.go:974).                                                       *)
DoneHasRoom == \A k \in Servers : gpc[k] = "done" => Len(done) < DoneCap

(* No goroutine of a fan-out is left blocked on the channel done: its      *)
(* capacity is the number of goroutines (xclient.go:974).                  *)
THEOREM SendersHaveRoom == Spec => []DoneHasRoom
<1>1. ASSUME IInv, NEW k \in Servers, gpc[k] = "done" PROVE Len(done) < DoneCap
  <2>1. k \in Unsent /\ DoneCap = Cardinality(Started)
    BY <1>1, Zenon DEF Unsent, Started, DoneCap
  <2>2. Cardinality(Unsent) # 0
    BY <2>1, Finite, FS_EmptySet, Zenon
  <2>3. done \in Seq(BOOLEAN) /\ Cardinality(Unsent) + Len(done) <= Cardinality(Started)
    BY <1>1, Zenon DEF IInv, TypeOK, FanInv
  <2> QED
    BY <2>1, <2>2, <2>3, Finite
<1>2. IInv => DoneHasRoom
  BY <1>1, Zenon DEF DoneHasRoom
<1> QED
  BY <1>2, Invariance, PTL
=============================================================================

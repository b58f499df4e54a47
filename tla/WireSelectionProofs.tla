------------------------- MODULE WireSelectionProofs -------------------------
(***************************************************************************)
(* Of Wire: nobody encodes into a buffer that is in use, for every number   *)
(* of writers and buffers and all sizes of the pool's levels; the two       *)
(* encoders write the same frame; Decode finds the fields of a frame where  *)
(* they were written. Of Selection: the last update of the discovery        *)
(* arrives, for every number of updates.                                    *)
(***************************************************************************)
EXTENDS Wire, Selection, WellFoundedInduction, TLAPS

-----------------------------------------------------------------------------
(* Wire and BufferPool.                                                     *)

(* A nonempty set of natural numbers has a least element.                   *)
LEMMA LeastNat ==
    ASSUME NEW T \in SUBSET Nat, T # {}
    PROVE  \E i \in T : \A j \in T : i <= j
<1> DEFINE R == OpToRel(<, Nat)
<1>1. \E i \in T : \A j \in T : ~(<<j, i>> \in R)
  <2>1. IsWellFoundedOn(R, Nat)
    BY NatLessThanWellFounded, Zenon
  <2>. HIDE DEF R
  <2>. QED
    BY <2>1, WFMin, Zenon
<1>2. \A i, j \in Nat : <<j, i>> \in R <=> j < i
  BY Zenon DEF OpToRel
<1>. HIDE DEF R
<1>3. PICK i \in T : \A j \in T : ~(<<j, i>> \in R)
  BY <1>1, Zenon
<1>4. \A j \in T : ~(j < i)
  BY <1>2, <1>3, Zenon
<1>5. \A j \in T : i <= j
  BY <1>4
<1>. QED
  BY <1>5, Zenon

(* findPool returns a level whose buffers are large enough for the request. *)
LEMMA FindPoolFits ==
    ASSUME NEW n \in Nat, findPool(n) # -1
    PROVE  findPool(n) \in 0..Levels /\ n <= size(findPool(n))
<1> USE SizesAssumption
<1>1. n <= maxSize
  BY DEF findPool
<1> DEFINE T == {i \in 0..Levels : n <= minSize * Power[i]}
<1>2. PICK i \in T : \A j \in T : i <= j
  <2>1. Levels \in T
    BY <1>1
  <2>2. T \in SUBSET Nat
    OBVIOUS
  <2>. QED
    BY <2>1, <2>2, LeastNat, Zenon
<1>3. /\ i \in 0..Levels
      /\ n <= minSize * Power[i]
      /\ \A j \in 0..(i - 1) : n > minSize * Power[j]
  BY <1>2
<1>4. /\ findPool(n) \in 0..Levels
      /\ n <= minSize * Power[findPool(n)]
  BY <1>1, <1>3, Zenon DEF findPool
<1>. QED
  BY <1>1, <1>4, Zenon DEF size

(* findPutPool returns a level whose size the buffer reaches.               *)
LEMMA FindPutPoolFits ==
    ASSUME NEW c \in Nat, findPutPool(c) # -1
    PROVE  findPutPool(c) \in 0..Levels /\ size(findPutPool(c)) <= c
<1> USE SizesAssumption
<1>1. minSize <= c /\ c <= maxSize
  BY DEF findPutPool
<1> DEFINE T == {k \in 0..Levels : minSize * Power[Levels - k] <= c}
<1>2. PICK k \in T : \A j \in T : k <= j
  <2>1. Levels \in T
    BY <1>1
  <2>2. T \in SUBSET Nat
    OBVIOUS
  <2>. QED
    BY <2>1, <2>2, LeastNat, Zenon
<1> DEFINE i == Levels - k
<1>3. /\ i \in 0..Levels
      /\ minSize * Power[i] <= c
      /\ \A j \in (i + 1)..Levels : minSize * Power[j] > c
  <2>1. \A j \in (i + 1)..Levels :
           Levels - j \in 0..Levels /\ Levels - j < k /\ Levels - (Levels - j) = j
    BY <1>2
  <2>. QED
    BY <1>2, <2>1
<1>4. /\ findPutPool(c) \in 0..Levels
      /\ minSize * Power[findPutPool(c)] <= c
  <2> HIDE DEF i
  <2>. QED
    BY <1>1, <1>3, Zenon DEF findPutPool
<1>. QED
  BY <1>1, <1>4 DEF size

(* Get takes a buffer that nobody uses and that is large enough.            *)
LEMMA GetPreserves ==
    ASSUME PoolInv, NEW n, NEW b \in Bufs, Get(n, b)
    PROVE  /\ PoolInv'
           /\ slice[b] = 0 /\ slice' = [slice EXCEPT ![b] = n] /\ n \in Nat \ {0}
<1> USE SizesAssumption
<1>1. n \in Nat \ {0} /\ slice' = [slice EXCEPT ![b] = n]
  BY Zenon DEF Get
<1>2. ASSUME findPool(n) # -1
      PROVE  findPool(n) \in 0..Levels /\ n <= size(findPool(n)) /\ size(findPool(n)) \in Nat
  <2>1. findPool(n) \in 0..Levels /\ n <= size(findPool(n))
    BY <1>1, <1>2, FindPoolFits, Zenon
  <2>2. \A i \in 0..Levels : size(i) \in Nat
    BY DEF size
  <2>. QED
    BY <2>1, <2>2, Zenon
<1>3. CASE \E c \in Nat : n <= c /\ Allocate(b, c)
  <2>1. PICK c \in Nat : n <= c /\ Allocate(b, c)
    BY <1>3, Zenon
  <2>2. slice[b] = 0 /\ \A i \in 0..Levels : b \notin pools[i]
    <3>1. \A i \in 0..Levels : size(i) > 0
      BY DEF size
    <3>2. cap[b] = 0
      BY <2>1, Zenon DEF Allocate
    <3>3. \A i \in 0..Levels : b \in pools[i] => cap[b] >= size(i) /\ size(i) \in Nat
      BY DEF PoolInv, LevelInv, size
    <3>4. slice[b] \in Nat /\ slice[b] <= cap[b]
      BY Zenon DEF PoolInv, PoolTypeOK, SliceFits
    <3>. QED
      BY <3>1, <3>2, <3>3, <3>4
  <2>3. /\ cap' = [cap EXCEPT ![b] = c] /\ pools' = pools
        /\ cap \in [Bufs -> Nat] /\ slice \in [Bufs -> Nat] /\ SliceFits
    BY <2>1, Zenon DEF Allocate, PoolInv, PoolTypeOK
  <2>4. PoolTypeOK' /\ SliceFits'
    BY <1>1, <2>1, <2>3 DEF PoolInv, PoolTypeOK, SliceFits
  <2>5. \A i \in 0..Levels : \A a \in pools[i] : a \in Bufs /\ a # b
    BY <2>2, Zenon DEF PoolInv, PoolTypeOK
  <2>6. SoleUser' /\ LevelInv'
    BY <1>1, <2>3, <2>5, Zenon DEF PoolInv, SoleUser, LevelInv
  <2>. QED
    BY <1>1, <2>2, <2>4, <2>6, Zenon DEF PoolInv
<1>4. CASE findPool(n) # -1 /\ b \in pools[findPool(n)]
           /\ pools' = [pools EXCEPT ![findPool(n)] = @ \ {b}] /\ UNCHANGED cap
  <2> DEFINE i == findPool(n)
  <2>1. i \in 0..Levels /\ n <= size(i) /\ b \in pools[i] /\ size(i) \in Nat
    BY <1>2, <1>4, Zenon
  <2>2. pools' = [pools EXCEPT ![i] = @ \ {b}] /\ UNCHANGED cap
    BY <1>4, Zenon
  <2> HIDE DEF i
  <2>3. slice[b] = 0 /\ size(i) <= cap[b]
    BY <2>1, Zenon DEF PoolInv, SoleUser, LevelInv
  <2>4. PoolTypeOK' /\ SliceFits'
    BY <1>1, <2>1, <2>2, <2>3 DEF PoolInv, PoolTypeOK, SliceFits
  <2>5. \A j \in 0..Levels : pools'[j] \subseteq pools[j] /\ b \notin pools'[j]
    BY <2>1, <2>2, Zenon DEF PoolInv, PoolTypeOK, SoleUser
  <2>6. SoleUser' /\ LevelInv'
    BY <1>1, <2>2, <2>5 DEF PoolInv, PoolTypeOK, SoleUser, LevelInv, size
  <2>. QED
    BY <1>1, <2>3, <2>4, <2>6, Zenon DEF PoolInv
<1>. QED
  BY <1>1, <1>2, <1>3, <1>4 DEF Get

(* Put returns a buffer to a level it is large enough for.                  *)
LEMMA PutPreserves ==
    ASSUME PoolInv, NEW b \in Bufs, Put(b)
    PROVE  PoolInv' /\ slice' = [slice EXCEPT ![b] = 0]
<1> DEFINE i == findPutPool(cap[b])
<1>1. slice[b] # 0 /\ slice' = [slice EXCEPT ![b] = 0] /\ cap[b] \in Nat
  BY Zenon DEF Put, PoolInv, PoolTypeOK
<1>2. \A j \in 0..Levels : b \notin pools[j]
  BY <1>1, Zenon DEF PoolInv, SoleUser
<1>3. CASE i = -1 /\ cap' = [cap EXCEPT ![b] = 0] /\ UNCHANGED pools
  BY <1>1, <1>2, <1>3 DEF PoolInv, PoolTypeOK, SliceFits, SoleUser, LevelInv, size
<1>4. CASE i # -1 /\ pools' = [pools EXCEPT ![i] = @ \cup {b}] /\ UNCHANGED cap
  <2>1. i \in 0..Levels /\ size(i) <= cap[b]
    BY <1>1, <1>4, FindPutPoolFits, Zenon
  <2> HIDE DEF i
  <2>2. \A j \in 0..Levels : pools'[j] = IF j = i THEN pools[j] \cup {b} ELSE pools[j]
    BY <1>4, <2>1, Zenon DEF PoolInv, PoolTypeOK
  <2>3. PoolTypeOK' /\ SliceFits'
    <3>1. PoolTypeOK'
      BY <1>1, <1>4, <2>1, Zenon DEF PoolInv, PoolTypeOK
    <3>2. \A c \in Bufs : slice'[c] = 0 \/ slice'[c] = slice[c]
      BY <1>1, Zenon DEF PoolInv, PoolTypeOK
    <3>3. \A c \in Bufs : cap[c] \in Nat /\ cap'[c] = cap[c] /\ slice[c] <= cap[c]
      BY <1>4, Zenon DEF PoolInv, PoolTypeOK, SliceFits
    <3>4. SliceFits'
      BY <3>2, <3>3 DEF SliceFits
    <3>. QED
      BY <3>1, <3>4, Zenon
  <2>4. SoleUser'
    <3> SUFFICES ASSUME NEW k \in 0..Levels, NEW c \in pools'[k]
                 PROVE  slice'[c] = 0 /\ \A j \in 0..Levels : c \in pools'[j] => j = k
      BY Zenon DEF SoleUser
    <3>1. CASE c = b
      BY <1>1, <1>2, <2>1, <2>2, <3>1, Zenon DEF PoolInv, PoolTypeOK
    <3>2. CASE c # b
      <4>1. c \in pools[k] /\ c \in Bufs
        <5>1. c \in pools[k]
          BY <2>2, <3>2, Zenon
        <5>. QED
          BY <5>1, Zenon DEF PoolInv, PoolTypeOK
      <4>2. slice[c] = 0 /\ \A j \in 0..Levels : c \in pools[j] => j = k
        BY <4>1, Zenon DEF PoolInv, SoleUser
      <4>. QED
        BY <1>1, <2>2, <3>2, <4>1, <4>2, Zenon DEF PoolInv, PoolTypeOK
    <3>. QED
      BY <3>1, <3>2, Zenon
  <2>5. LevelInv'
    BY <1>4, <2>1, <2>2, Zenon DEF PoolInv, PoolTypeOK, LevelInv, size
  <2>. QED
    BY <1>1, <2>3, <2>4, <2>5, Zenon DEF PoolInv
<1>. QED
  BY <1>1, <1>3, <1>4, Zenon DEF Put

(* A collected buffer leaves its level; nobody was using it.                *)
LEMMA CollectPreserves ==
    ASSUME PoolInv, NEW b \in Bufs, Collect(b)
    PROVE  PoolInv' /\ slice' = slice /\ slice[b] = 0
<1>1. PICK i \in 0..Levels : b \in pools[i] /\ pools' = [pools EXCEPT ![i] = @ \ {b}]
  BY Zenon DEF Collect
<1>2. slice[b] = 0 /\ slice' = slice /\ cap' = [cap EXCEPT ![b] = 0]
  BY <1>1, Zenon DEF Collect, PoolInv, SoleUser
<1>3. \A j \in 0..Levels : pools'[j] \subseteq pools[j] /\ b \notin pools'[j]
  BY <1>1, Zenon DEF PoolInv, PoolTypeOK, SoleUser
<1>4. PoolTypeOK' /\ SliceFits'
  <2>1. pools' \in [0..Levels -> SUBSET Bufs]
    BY <1>1, Zenon DEF PoolInv, PoolTypeOK
  <2>2. cap' \in [Bufs -> Nat] /\ \A c \in Bufs : cap'[c] = IF c = b THEN 0 ELSE cap[c]
    BY <1>2 DEF PoolInv, PoolTypeOK
  <2>3. \A c \in Bufs : slice'[c] <= cap'[c]
    BY <1>2, <2>2 DEF PoolInv, SliceFits
  <2>. QED
    BY <1>2, <2>1, <2>2, <2>3, Zenon DEF PoolInv, PoolTypeOK, SliceFits
<1>5. SoleUser'
  <2> SUFFICES ASSUME NEW k \in 0..Levels, NEW c \in pools'[k]
               PROVE  slice'[c] = 0 /\ \A j \in 0..Levels : c \in pools'[j] => j = k
    BY Zenon DEF SoleUser
  <2>1. c \in pools[k]
    BY <1>3, Zenon
  <2>2. slice[c] = 0 /\ \A j \in 0..Levels : c \in pools[j] => j = k
    BY <2>1, Zenon DEF PoolInv, SoleUser
  <2>. QED
    BY <1>2, <1>3, <2>2, Zenon
<1>6. LevelInv'
  <2>1. \A j \in 0..Levels : \A c \in pools'[j] : c \in pools[j] /\ c \in Bufs /\ c # b
    BY <1>3, Zenon DEF PoolInv, PoolTypeOK
  <2>2. \A c \in Bufs : c # b => cap'[c] = cap[c]
    BY <1>2, Zenon DEF PoolInv, PoolTypeOK
  <2>. QED
    BY <2>1, <2>2, Zenon DEF PoolInv, LevelInv, size
<1>. QED
  BY <1>2, <1>4, <1>5, <1>6, Zenon DEF PoolInv

(* Steps that take or return no buffer keep the invariant.                  *)
LEMMA OtherPreserves ==
    ASSUME BufferInv, UNCHANGED <<poolVars, buf>>,
           wpc' \in [Writers -> {"idle", "zip", "encode", "write", "put"}],
           \A w \in Writers : wpc[w] \in {"write", "put"} <=> wpc'[w] \in {"write", "put"}
    PROVE  BufferInv'
<1>1. PoolInv'
  BY Zenon DEF BufferInv, PoolInv, PoolTypeOK, SliceFits, SoleUser, LevelInv, size, poolVars
<1>2. HoldInv'
  BY Zenon DEF BufferInv, HoldInv, poolVars
<1>. QED
  BY <1>1, <1>2, Zenon DEF BufferInv

(* EncodeSlicePointer takes a buffer that nobody holds.                     *)
LEMMA EncodePreserves ==
    ASSUME BufferInv, NEW w \in Writers, NEW b \in Bufs, EncodeSlicePointer(w, b)
    PROVE  BufferInv'
<1>1. PICK n : Get(n, b)
  BY Zenon DEF EncodeSlicePointer
<1>2. /\ PoolInv'
      /\ slice[b] = 0 /\ slice' = [slice EXCEPT ![b] = n] /\ n \in Nat \ {0}
  BY <1>1, GetPreserves, Zenon DEF BufferInv
<1>3. /\ wpc[w] = "encode"
      /\ wpc' = [wpc EXCEPT ![w] = "write"] /\ buf' = [buf EXCEPT ![w] = b]
  BY Zenon DEF EncodeSlicePointer
<1>4. HoldInv'
  <2>1. \A v \in Writers : buf[v] # b
    BY <1>2, NilAssumption, Zenon DEF BufferInv, HoldInv
  <2>2. /\ slice \in [Bufs -> Nat]
        /\ wpc \in [Writers -> {"idle", "zip", "encode", "write", "put"}]
        /\ buf \in [Writers -> Bufs \cup {Nil}]
    BY Zenon DEF BufferInv, PoolInv, PoolTypeOK, HoldInv
  <2>3. /\ buf'[w] = b /\ wpc'[w] = "write" /\ slice'[b] # 0
        /\ \A v \in Writers \ {w} : buf'[v] = buf[v] /\ wpc'[v] = wpc[v]
        /\ \A c \in Bufs \ {b} : slice'[c] = slice[c]
    BY <1>2, <1>3, <2>2, Zenon
  <2>4. /\ wpc' \in [Writers -> {"idle", "zip", "encode", "write", "put"}]
        /\ buf' \in [Writers -> Bufs \cup {Nil}]
    BY <1>3, <2>2, Zenon
  <2>5. ASSUME NEW u \in Writers
        PROVE  /\ wpc'[u] \in {"write", "put"} => buf'[u] \in Bufs /\ slice'[buf'[u]] # 0
               /\ wpc'[u] \notin {"write", "put"} => buf'[u] = Nil
               /\ \A v \in Writers : v # u /\ buf'[u] # Nil => buf'[v] # buf'[u]
    <3>1. CASE u = w
      BY <2>1, <2>3, <3>1, Zenon
    <3>2. CASE u # w
      BY <2>1, <2>3, <3>2, NilAssumption DEF BufferInv, HoldInv
    <3>. QED
      BY <3>1, <3>2, Zenon
  <2>. QED
    BY <2>4, <2>5, Zenon DEF HoldInv
<1>. QED
  BY <1>2, <1>4, Zenon DEF BufferInv

(* PutData returns the writer's own buffer.                                 *)
LEMMA PutDataPreserves ==
    ASSUME BufferInv, NEW w \in Writers, PutData(w)
    PROVE  BufferInv'
<1>1. wpc[w] = "put" /\ buf[w] \in Bufs /\ Put(buf[w])
  BY Zenon DEF PutData, BufferInv, HoldInv
<1>2. PoolInv' /\ slice' = [slice EXCEPT ![buf[w]] = 0]
  BY <1>1, PutPreserves, Zenon DEF BufferInv
<1>3. wpc' = [wpc EXCEPT ![w] = "idle"] /\ buf' = [buf EXCEPT ![w] = Nil]
  BY Zenon DEF PutData
<1>4. HoldInv'
  <2>1. /\ slice \in [Bufs -> Nat]
        /\ wpc \in [Writers -> {"idle", "zip", "encode", "write", "put"}]
        /\ buf \in [Writers -> Bufs \cup {Nil}]
    BY Zenon DEF BufferInv, PoolInv, PoolTypeOK, HoldInv
  <2>2. /\ buf'[w] = Nil /\ wpc'[w] = "idle"
        /\ \A v \in Writers \ {w} : buf'[v] = buf[v] /\ wpc'[v] = wpc[v]
        /\ \A c \in Bufs \ {buf[w]} : slice'[c] = slice[c]
    BY <1>1, <1>2, <1>3, <2>1, Zenon
  <2>3. \A v \in Writers \ {w} : buf[v] # Nil => buf[v] # buf[w]
    BY Zenon DEF BufferInv, HoldInv
  <2>4. /\ wpc' \in [Writers -> {"idle", "zip", "encode", "write", "put"}]
        /\ buf' \in [Writers -> Bufs \cup {Nil}]
    BY <1>3, <2>1, Zenon
  <2>5. ASSUME NEW u \in Writers
        PROVE  /\ wpc'[u] \in {"write", "put"} => buf'[u] \in Bufs /\ slice'[buf'[u]] # 0
               /\ wpc'[u] \notin {"write", "put"} => buf'[u] = Nil
               /\ \A v \in Writers : v # u /\ buf'[u] # Nil => buf'[v] # buf'[u]
    <3>1. CASE u = w
      BY <2>2, <3>1, Zenon
    <3>2. CASE u # w
      BY <2>2, <2>3, <3>2, NilAssumption DEF BufferInv, HoldInv
    <3>. QED
      BY <3>1, <3>2, Zenon
  <2>. QED
    BY <2>4, <2>5, Zenon DEF HoldInv
<1>. QED
  BY <1>2, <1>4, Zenon DEF BufferInv

(* Every step of the writers, the reader and the collector keeps the        *)
(* buffers apart.                                                           *)
LEMMA NextPreserves ==
    ASSUME BufferInv, [Next]_vars
    PROVE  BufferInv'
<1>1. ASSUME NEW w \in Writers, NEW f \in Drafts, Make(w, f)
      PROVE  BufferInv'
  BY <1>1, OtherPreserves, Zenon DEF Make, BufferInv, HoldInv
<1>2. ASSUME NEW w \in Writers, Compress(w)
      PROVE  BufferInv'
  BY <1>2, OtherPreserves, Zenon DEF Compress, BufferInv, HoldInv
<1>3. ASSUME NEW w \in Writers, NEW b \in Bufs, EncodeSlicePointer(w, b)
      PROVE  BufferInv'
  BY <1>3, EncodePreserves, Zenon
<1>4. ASSUME NEW w \in Writers, Write(w)
      PROVE  BufferInv'
  BY <1>4, OtherPreserves, Zenon DEF Write, BufferInv, HoldInv
<1>5. ASSUME NEW w \in Writers, PutData(w)
      PROVE  BufferInv'
  BY <1>5, PutDataPreserves, Zenon
<1>6. ASSUME NEW m, Read(m)
      PROVE  BufferInv'
  BY <1>6, OtherPreserves, Zenon DEF Read, encVars, BufferInv, HoldInv
<1>7. ASSUME NEW b \in Bufs, Forget(b)
      PROVE  BufferInv'
  <2>1. PoolInv' /\ slice' = slice
    BY <1>7, CollectPreserves, Zenon DEF Forget, BufferInv
  <2>2. UNCHANGED <<wpc, buf>>
    BY <1>7, Zenon DEF Forget, encVars
  <2>. QED
    BY <2>1, <2>2, Zenon DEF BufferInv, HoldInv
<1>8. CASE Misread
  BY <1>8, OtherPreserves, Zenon DEF Misread, encVars, BufferInv, HoldInv
<1>9. CASE UNCHANGED vars
  BY <1>9, OtherPreserves, Zenon DEF vars, encVars, BufferInv, HoldInv
<1>. QED
  BY <1>1, <1>2, <1>3, <1>4, <1>5, <1>6, <1>7, <1>8, <1>9, Zenon DEF Next

(* No goroutine encodes into a buffer that another one has not yet written  *)
(* out, and Get never slices a buffer beyond its capacity.                  *)
THEOREM BuffersNeverShared == Spec => []BufferInv
<1>1. Init => BufferInv
  BY SizesAssumption DEF Init, PoolInit, BufferInv, HoldInv, PoolInv, PoolTypeOK, SliceFits,
     SoleUser, LevelInv
<1>2. BufferInv /\ [Next]_vars => BufferInv'
  BY NextPreserves, Zenon
<1>. QED
  BY <1>1, <1>2, PTL DEF Spec

-----------------------------------------------------------------------------
(* What the encoders write and Decode reads.                                *)

(* What is written behind the n cells of s: one cell, or the k cells of t.  *)
Follows(S, s, n, c, r) ==
    s \in Seq(S) /\ Len(s) = n /\ c \in S /\ r = s \o <<c>> =>
        /\ r \in Seq(S) /\ Len(r) = n + 1
        /\ \A i \in 1 .. n : r[i] = s[i]
        /\ r[n + 1] = c

Follow(S, s, t) ==
    s \in Seq(S) /\ t \in Seq(S) =>
        /\ s \o t \in Seq(S) /\ Len(s \o t) = Len(s) + Len(t)
        /\ \A i \in 1 .. Len(s) : (s \o t)[i] = s[i]
        /\ \A i \in 1 .. Len(t) : (s \o t)[Len(s) + i] = t[i]

(* The writer appends (message.go:290-359).                                 *)
LEMMA CellBehind == \A S, s, n, c, r : Follows(S, s, n, c, r)
BY DEF Follows

(* Likewise for several cells.                                              *)
LEMMA CellsBehind == \A S, s, t : Follow(S, s, t)
<1>1. ASSUME NEW S, NEW s \in Seq(S), NEW t \in Seq(S)
      PROVE  Follow(S, s, t)
  BY DEF Follow
<1>2. ASSUME NEW S, NEW s, NEW t
      PROVE  Follow(S, s, t)
  <2>1. CASE s \in Seq(S) /\ t \in Seq(S)
    BY <1>1, <2>1, Zenon
  <2>2. CASE ~(s \in Seq(S) /\ t \in Seq(S))
    BY <2>2, Zenon DEF Follow
  <2> QED
    BY <2>1, <2>2, Zenon
<1> QED
  BY <1>2, Zenon

(* Where the cells of a frame are: the header, the total length, and each   *)
(* field behind its length.                                                 *)
Frame(f, m, meta, pay, p, q, e, y) ==
    /\ Len(f) = 6 + p + q + e + y
    /\ f[1] = m.header /\ f[2] = 4 + p + q + e + y
    /\ f[3] = p /\ \A i \in 1 .. p : f[3 + i] = m.path[i]
    /\ f[4 + p] = q /\ \A i \in 1 .. q : f[4 + p + i] = m.method[i]
    /\ f[5 + p + q] = e /\ \A i \in 1 .. e : f[5 + p + q + i] = meta[i]
    /\ f[6 + p + q + e] = y /\ \A i \in 1 .. y : f[6 + p + q + e + i] = pay[i]

FrameOf(f, m, meta, pay) ==
    Frame(f, m, meta, pay, Len(m.path), Len(m.method), Len(meta), Len(pay))

(* WriteTo, which writes one piece after the other, writes such a frame.    *)
LEMMA PiecesIs ==
    ASSUME NEW S, Nat \subseteq S, NEW m, m.header \in S,
           m.path \in Seq(S), m.method \in Seq(S), NEW meta \in Seq(S), NEW pay \in Seq(S)
    PROVE  Pieces(m, meta, pay) \in Seq(S) /\ FrameOf(Pieces(m, meta, pay), m, meta, pay)
<1>1. PICK p, q, e, y \in Nat :
        p = Len(m.path) /\ q = Len(m.method) /\ e = Len(meta) /\ y = Len(pay)
  OBVIOUS
<1>2. PICK total \in Nat : total = (1 + p) + (1 + q) + (1 + e) + (1 + y)
  OBVIOUS
<1>3. /\ 2 = 1 + 1 /\ 3 = 2 + 1 /\ 4 + p = 3 + p + 1
      /\ 5 + p + q = 4 + p + q + 1 /\ 6 + p + q + e = 5 + p + q + e + 1
      /\ total = 4 + p + q + e + y
  BY <1>2
<1>4. total \in S /\ p \in S /\ q \in S /\ e \in S /\ y \in S
  OBVIOUS
<1>5. PICK P1 : P1 = <<m.header>>
  OBVIOUS
<1>6. P1 \in Seq(S) /\ Len(P1) = 1 /\ P1[1] = m.header
  BY <1>5
<1>7. PICK P2 : P2 = P1 \o <<total>>
  OBVIOUS
<1>8. /\ P2 \in Seq(S) /\ Len(P2) = 2
      /\ \A i \in 1 .. 1 : P2[i] = P1[i]
      /\ P2[2] = total
  <2>1. Follows(S, P1, 1, total, P2)
    BY CellBehind, Zenon
  <2> QED
    BY <1>3, <1>4, <1>6, <1>7, <2>1, Zenon DEF Follows
<1>9. PICK P3 : P3 = P2 \o <<p>>
  OBVIOUS
<1>10. /\ P3 \in Seq(S) /\ Len(P3) = 3
       /\ \A i \in 1 .. 2 : P3[i] = P2[i]
       /\ P3[3] = p
  <2>1. Follows(S, P2, 2, p, P3)
    BY CellBehind, Zenon
  <2> QED
    BY <1>3, <1>4, <1>8, <1>9, <2>1, Zenon DEF Follows
<1>11. PICK P4 : P4 = P3 \o m.path
  OBVIOUS
<1>12. /\ P4 \in Seq(S) /\ Len(P4) = 3 + p
       /\ \A i \in 1 .. 3 : P4[i] = P3[i]
       /\ \A i \in 1 .. p : P4[3 + i] = m.path[i]
  <2>1. Follow(S, P3, m.path)
    BY CellsBehind, Zenon
  <2>2. /\ P3 \o m.path \in Seq(S) /\ Len(P3 \o m.path) = Len(P3) + Len(m.path)
        /\ \A i \in 1 .. Len(P3) : (P3 \o m.path)[i] = P3[i]
        /\ \A i \in 1 .. Len(m.path) : (P3 \o m.path)[Len(P3) + i] = m.path[i]
    BY <1>10, <2>1, Zenon DEF Follow
  <2> QED
    BY <1>1, <1>10, <1>11, <2>2
<1>13. PICK P5 : P5 = P4 \o <<q>>
  OBVIOUS
<1>14. /\ P5 \in Seq(S) /\ Len(P5) = 4 + p
       /\ \A i \in 1 .. 3 + p : P5[i] = P4[i]
       /\ P5[4 + p] = q
  <2>1. Follows(S, P4, 3 + p, q, P5)
    BY CellBehind, Zenon
  <2> QED
    BY <1>3, <1>4, <1>12, <1>13, <2>1, Zenon DEF Follows
<1>15. PICK P6 : P6 = P5 \o m.method
  OBVIOUS
<1>16. /\ P6 \in Seq(S) /\ Len(P6) = 4 + p + q
       /\ \A i \in 1 .. 4 + p : P6[i] = P5[i]
       /\ \A i \in 1 .. q : P6[4 + p + i] = m.method[i]
  <2>1. Follow(S, P5, m.method)
    BY CellsBehind, Zenon
  <2>2. /\ P5 \o m.method \in Seq(S) /\ Len(P5 \o m.method) = Len(P5) + Len(m.method)
        /\ \A i \in 1 .. Len(P5) : (P5 \o m.method)[i] = P5[i]
        /\ \A i \in 1 .. Len(m.method) : (P5 \o m.method)[Len(P5) + i] = m.method[i]
    BY <1>14, <2>1, Zenon DEF Follow
  <2> QED
    BY <1>1, <1>14, <1>15, <2>2
<1>17. PICK P7 : P7 = P6 \o <<e>>
  OBVIOUS
<1>18. /\ P7 \in Seq(S) /\ Len(P7) = 5 + p + q
       /\ \A i \in 1 .. 4 + p + q : P7[i] = P6[i]
       /\ P7[5 + p + q] = e
  <2>1. Follows(S, P6, 4 + p + q, e, P7)
    BY CellBehind, Zenon
  <2> QED
    BY <1>3, <1>4, <1>16, <1>17, <2>1, Zenon DEF Follows
<1>19. PICK P8 : P8 = P7 \o meta
  OBVIOUS
<1>20. /\ P8 \in Seq(S) /\ Len(P8) = 5 + p + q + e
       /\ \A i \in 1 .. 5 + p + q : P8[i] = P7[i]
       /\ \A i \in 1 .. e : P8[5 + p + q + i] = meta[i]
  <2>1. Follow(S, P7, meta)
    BY CellsBehind, Zenon
  <2>2. /\ P7 \o meta \in Seq(S) /\ Len(P7 \o meta) = Len(P7) + Len(meta)
        /\ \A i \in 1 .. Len(P7) : (P7 \o meta)[i] = P7[i]
        /\ \A i \in 1 .. Len(meta) : (P7 \o meta)[Len(P7) + i] = meta[i]
    BY <1>18, <2>1, Zenon DEF Follow
  <2> QED
    BY <1>1, <1>18, <1>19, <2>2
<1>21. PICK P9 : P9 = P8 \o <<y>>
  OBVIOUS
<1>22. /\ P9 \in Seq(S) /\ Len(P9) = 6 + p + q + e
       /\ \A i \in 1 .. 5 + p + q + e : P9[i] = P8[i]
       /\ P9[6 + p + q + e] = y
  <2>1. Follows(S, P8, 5 + p + q + e, y, P9)
    BY CellBehind, Zenon
  <2> QED
    BY <1>3, <1>4, <1>20, <1>21, <2>1, Zenon DEF Follows
<1>23. PICK W : W = P9 \o pay
  OBVIOUS
<1>24. /\ W \in Seq(S) /\ Len(W) = 6 + p + q + e + y
       /\ \A i \in 1 .. 6 + p + q + e : W[i] = P9[i]
       /\ \A i \in 1 .. y : W[6 + p + q + e + i] = pay[i]
  <2>1. Follow(S, P9, pay)
    BY CellsBehind, Zenon
  <2>2. /\ P9 \o pay \in Seq(S) /\ Len(P9 \o pay) = Len(P9) + Len(pay)
        /\ \A i \in 1 .. Len(P9) : (P9 \o pay)[i] = P9[i]
        /\ \A i \in 1 .. Len(pay) : (P9 \o pay)[Len(P9) + i] = pay[i]
    BY <1>22, <2>1, Zenon DEF Follow
  <2> QED
    BY <1>1, <1>22, <1>23, <2>2
<1>25. W = Pieces(m, meta, pay)
  BY <1>1, <1>2, <1>5, <1>7, <1>9, <1>11, <1>13, <1>15, <1>17, <1>19, <1>21, <1>23, Zenon
     DEF Pieces, LenL
<1>26. \A i \in 1 .. 5 + p + q + e : W[i] = P8[i]
  BY <1>22, <1>24
<1>27. \A i \in 1 .. 5 + p + q : W[i] = P7[i]
  BY <1>20, <1>26
<1>28. \A i \in 1 .. 4 + p + q : W[i] = P6[i]
  BY <1>18, <1>27
<1>29. \A i \in 1 .. 4 + p : W[i] = P5[i]
  BY <1>16, <1>28
<1>30. \A i \in 1 .. 3 + p : W[i] = P4[i]
  BY <1>14, <1>29
<1>31. \A i \in 1 .. 3 : W[i] = P3[i]
  BY <1>12, <1>30
<1>32. \A i \in 1 .. 2 : W[i] = P2[i]
  BY <1>10, <1>31
<1>33. \A i \in 1 .. 1 : W[i] = P1[i]
  BY <1>8, <1>32
<1>34. W[1] = m.header
  BY <1>6, <1>33
<1>35. W[2] = 4 + p + q + e + y
  BY <1>8, <1>32, <1>3
<1>36. W[3] = p
  BY <1>10, <1>31
<1>37. \A i \in 1 .. p : W[3 + i] = m.path[i]
  <2>1. \A i \in 1 .. p : 3 + i \in 1 .. 3 + p
    OBVIOUS
  <2> QED
    BY <1>12, <1>30, <2>1
<1>38. W[4 + p] = q
  BY <1>14, <1>29
<1>39. \A i \in 1 .. q : W[4 + p + i] = m.method[i]
  <2>1. \A i \in 1 .. q : 4 + p + i \in 1 .. 4 + p + q
    OBVIOUS
  <2> QED
    BY <1>16, <1>28, <2>1
<1>40. W[5 + p + q] = e
  BY <1>18, <1>27
<1>41. \A i \in 1 .. e : W[5 + p + q + i] = meta[i]
  <2>1. \A i \in 1 .. e : 5 + p + q + i \in 1 .. 5 + p + q + e
    OBVIOUS
  <2> QED
    BY <1>20, <1>26, <2>1
<1>42. W[6 + p + q + e] = y
  BY <1>22, <1>24
<1>43. Frame(W, m, meta, pay, p, q, e, y)
  BY <1>24, <1>34, <1>35, <1>36, <1>37, <1>38, <1>39, <1>40, <1>41, <1>42 DEF Frame
<1> QED
  BY <1>1, <1>25, <1>24, <1>43, Zenon DEF FrameOf

(* n pieces lie in data one behind the other, piece k from b[k] to b[k + 1].*)
Placed(data, pieces, n, b) ==
    /\ Len(data) \in Nat /\ n \in Nat /\ Len(pieces) = n
    /\ \A j \in 1 .. n : b[j] \in Nat /\ b[j + 1] \in Nat /\ b[j + 1] <= Len(data)
    /\ \A j \in 1 .. n : pieces[j].at = b[j] /\ Len(pieces[j].cells) = b[j + 1] - b[j]
    /\ \A k \in 1 .. n : \A j \in 1 .. n : j < k => b[j + 1] <= b[k]

Copied(data, pieces, b, k) ==
    \A i \in 1 .. Len(pieces[k].cells) : CopyAll(data, pieces)[b[k] + i] = pieces[k].cells[i]

(* A cell of one piece is in no other.                                      *)
LEMMA Outside ==
    ASSUME NEW bk \in Nat, NEW ek \in Nat, NEW bj \in Nat, NEW ej \in Nat,
           NEW i \in 1 .. (ek - bk), ej <= bk \/ ek <= bj
    PROVE  (bk + i) - bj \notin 1 .. (ej - bj)
OBVIOUS

(* Such a piece is found in its place (copy, message.go:264-283).           *)
LEMMA PieceIsCopied ==
    ASSUME NEW data, NEW pieces, NEW n, NEW b, Placed(data, pieces, n, b), NEW k \in 1 .. n
    PROVE  Copied(data, pieces, b, k)
<1> SUFFICES ASSUME NEW i \in 1 .. Len(pieces[k].cells)
             PROVE  CopyAll(data, pieces)[b[k] + i] = pieces[k].cells[i]
  BY Zenon DEF Copied
<1>1. /\ b[k] \in Nat /\ b[k + 1] \in Nat /\ b[k + 1] <= Len(data) /\ Len(data) \in Nat
      /\ i \in 1 .. (b[k + 1] - b[k]) /\ pieces[k].at = b[k]
  BY Zenon DEF Placed
<1>2. PICK x : x = b[k] + i
  OBVIOUS
<1>3. x \in 1 .. Len(data) /\ x - pieces[k].at = i
  BY <1>1, <1>2
<1>4. ASSUME NEW j \in 1 .. n, j # k
      PROVE  x - pieces[j].at \notin 1 .. Len(pieces[j].cells)
  <2>1. j < k \/ k < j
    BY <1>4 DEF Placed
  <2>2. b[j + 1] <= b[k] \/ b[k + 1] <= b[j]
    BY <2>1, Zenon DEF Placed
  <2>3. b[j] \in Nat /\ b[j + 1] \in Nat 
        /\ pieces[j].at = b[j] /\ Len(pieces[j].cells) = b[j + 1] - b[j]
    BY Zenon DEF Placed
  <2>4. (b[k] + i) - b[j] \notin 1 .. (b[j + 1] - b[j])
    BY <1>1, <2>2, <2>3, Outside, Zenon
  <2> QED
    BY <1>2, <2>3, <2>4, Zenon
<1> DEFINE over == {j \in 1 .. Len(pieces) : x - pieces[j].at \in 1 .. Len(pieces[j].cells)}
<1>5. over = {k}
  BY <1>3, <1>4, Zenon DEF Placed
<1>6. Max(over) = k
  <2>1. k \in Nat
    BY DEF Placed
  <2> HIDE DEF over
  <2> QED
    BY <1>5, <2>1 DEF Max
<1>7. CopyAll(data, pieces)[x]
        = IF over = {} THEN data[x] ELSE pieces[Max(over)].cells[x - pieces[Max(over)].at]
  BY <1>3, Zenon DEF CopyAll
<1> HIDE DEF over
<1>8. CopyAll(data, pieces)[x] = pieces[k].cells[i]
  BY <1>3, <1>5, <1>6, <1>7, Zenon
<1> QED
  BY <1>2, <1>8, Zenon

(* Whatever comes before piece k ends where k begins, or earlier.           *)
Below(b, k) == \A j \in 1 .. 10 : j < k => b[j + 1] <= b[k]

(* If it holds of piece k it holds of piece k + 1.                          *)
LEMMA BelowNext ==
    ASSUME NEW b, NEW k \in 1 .. 10, Below(b, k),
           \A j \in 1 .. 10 : b[j] \in Nat /\ b[j + 1] \in Nat /\ b[j] <= b[j + 1]
    PROVE  Below(b, k + 1)
<1> SUFFICES ASSUME NEW j \in 1 .. 10, j < k + 1
             PROVE  b[j + 1] <= b[k + 1]
  BY Zenon DEF Below
<1>1. b[j + 1] \in Nat /\ b[k] \in Nat /\ b[k + 1] \in Nat /\ b[k] <= b[k + 1]
  BY Zenon
<1>2. CASE j < k
  <2>1. b[j + 1] <= b[k]
    BY <1>2, Zenon DEF Below
  <2> QED
    BY <1>1, <2>1
<1>3. CASE j = k
  BY <1>1, <1>3
<1> QED
  BY <1>2, <1>3

(* f has n cells.                                                           *)
IsCells(f, n) == f = [i \in 1 .. n |-> f[i]]

(* EncodeSlicePointer, which copies the pieces to computed offsets of a     *)
(* buffer of the computed length, writes such a frame whatever the buffer   *)
(* held.                                                                    *)
LEMMA LayoutIs ==
    ASSUME NEW S, NEW m, m.path \in Seq(S), m.method \in Seq(S),
           NEW meta \in Seq(S), NEW pay \in Seq(S),
           NEW data, Len(data) = EncodedLen(m, meta, pay)
    PROVE  /\ FrameOf(Layout(m, meta, pay, data), m, meta, pay)
           /\ IsCells(Layout(m, meta, pay, data), Len(data))
<1>1. PICK p, q, e, y \in Nat :
        p = Len(m.path) /\ q = Len(m.method) /\ e = Len(meta) /\ y = Len(pay)
  OBVIOUS
<1>2. PICK total \in Nat : total = (1 + p) + (1 + q) + (1 + e) + (1 + y)
  OBVIOUS
<1>3. Len(data) = 6 + p + q + e + y /\ total = 4 + p + q + e + y
  <2>1. Len(data) = 1 + 1 + (1 + p) + (1 + q) + (1 + e) + (1 + y)
    BY <1>1, Zenon DEF EncodedLen, HeaderL, LenL
  <2> QED
    BY <1>2, <2>1
<1>4. /\ 0 + 1 = 1 /\ 1 + 1 = 2 /\ 2 + 1 = 3 /\ 2 + 1 + p = 3 + p /\ 3 + p + 1 = 4 + p
      /\ 3 + p + 1 + q = 4 + p + q /\ 4 + p + q + 1 = 5 + p + q
      /\ 4 + p + q + 1 + e = 5 + p + q + e /\ 5 + p + q + e + 1 = 6 + p + q + e
  OBVIOUS
<1>5. PICK b : b = <<0, 1, 2, 3, 3 + p, 4 + p, 4 + p + q,
                    5 + p + q, 5 + p + q + e, 6 + p + q + e, 6 + p + q + e + y>>
  OBVIOUS
<1>6. /\ b[1] = 0
      /\ b[2] = 1
      /\ b[3] = 2
      /\ b[4] = 3
      /\ b[5] = 3 + p
      /\ b[6] = 4 + p
      /\ b[7] = 4 + p + q
      /\ b[8] = 5 + p + q
      /\ b[9] = 5 + p + q + e
      /\ b[10] = 6 + p + q + e
      /\ b[11] = 6 + p + q + e + y
  BY <1>5
<1>7. PICK pieces : pieces = <<Piece(0, <<m.header>>), Piece(1, <<total>>), Piece(2, <<p>>),
                               Piece(3, m.path), Piece(3 + p, <<q>>),
                               Piece(4 + p, m.method), Piece(4 + p + q, <<e>>),
                               Piece(5 + p + q, meta), Piece(5 + p + q + e, <<y>>),
                               Piece(6 + p + q + e, pay)>>
  OBVIOUS
<1>8. Len(pieces) = 10
  BY <1>7
<1>9. /\ pieces[1].at = 0 /\ pieces[1].cells = <<m.header>>
      /\ pieces[2].at = 1 /\ pieces[2].cells = <<total>>
      /\ pieces[3].at = 2 /\ pieces[3].cells = <<p>>
      /\ pieces[4].at = 3 /\ pieces[4].cells = m.path
      /\ pieces[5].at = 3 + p /\ pieces[5].cells = <<q>>
      /\ pieces[6].at = 4 + p /\ pieces[6].cells = m.method
      /\ pieces[7].at = 4 + p + q /\ pieces[7].cells = <<e>>
      /\ pieces[8].at = 5 + p + q /\ pieces[8].cells = meta
      /\ pieces[9].at = 5 + p + q + e /\ pieces[9].cells = <<y>>
      /\ pieces[10].at = 6 + p + q + e /\ pieces[10].cells = pay
  BY <1>7 DEF Piece
<1>10. Layout(m, meta, pay, data) = CopyAll(data, pieces)
  <2>1. Layout(m, meta, pay, data)
          = CopyAll(data, <<Piece(0, <<m.header>>), Piece(1, <<total>>),
                        Piece(1 + 1, <<p>>), Piece(1 + 1 + 1, m.path),
                        Piece(1 + 1 + 1 + p, <<q>>), Piece(1 + 1 + 1 + p + 1, m.method),
                        Piece(1 + 1 + 1 + p + 1 + q, <<e>>), Piece(1 + 1 + 1 + p + 1 + q + 1, meta),
                        Piece(1 + 1 + 1 + p + 1 + q + 1 + e, <<y>>),
                        Piece(1 + 1 + 1 + p + 1 + q + 1 + e + 1, pay)>>)
    BY <1>1, <1>2, Zenon DEF Layout, LenL, HeaderL
  <2> QED
    BY <1>4, <1>7, <2>1, Zenon
<1>11. \A j \in 1 .. 10 :
         j = 1 \/ j = 2 \/ j = 3 \/ j = 4 \/ j = 5 \/ j = 6 \/ j = 7 \/ j = 8 \/ j = 9 \/ j = 10
  OBVIOUS
<1>12. /\ b[1 + 1] = 1
       /\ b[2 + 1] = 2
       /\ b[3 + 1] = 3
       /\ b[4 + 1] = 3 + p
       /\ b[5 + 1] = 4 + p
       /\ b[6 + 1] = 4 + p + q
       /\ b[7 + 1] = 5 + p + q
       /\ b[8 + 1] = 5 + p + q + e
       /\ b[9 + 1] = 6 + p + q + e
       /\ b[10 + 1] = 6 + p + q + e + y
  BY <1>6
<1>13. \A j \in 1 .. 10 :
         b[j] \in Nat /\ b[j + 1] \in Nat /\ b[j] <= b[j + 1] /\ b[j + 1] <= Len(data)
  <2>1. b[1] \in Nat /\ b[1 + 1] \in Nat /\ b[1] <= b[1 + 1] /\ b[1 + 1] <= Len(data)
    BY <1>3, <1>6, <1>12
  <2>2. b[2] \in Nat /\ b[2 + 1] \in Nat /\ b[2] <= b[2 + 1] /\ b[2 + 1] <= Len(data)
    BY <1>3, <1>6, <1>12
  <2>3. b[3] \in Nat /\ b[3 + 1] \in Nat /\ b[3] <= b[3 + 1] /\ b[3 + 1] <= Len(data)
    BY <1>3, <1>6, <1>12
  <2>4. b[4] \in Nat /\ b[4 + 1] \in Nat /\ b[4] <= b[4 + 1] /\ b[4 + 1] <= Len(data)
    BY <1>3, <1>6, <1>12
  <2>5. b[5] \in Nat /\ b[5 + 1] \in Nat /\ b[5] <= b[5 + 1] /\ b[5 + 1] <= Len(data)
    BY <1>3, <1>6, <1>12
  <2>6. b[6] \in Nat /\ b[6 + 1] \in Nat /\ b[6] <= b[6 + 1] /\ b[6 + 1] <= Len(data)
    BY <1>3, <1>6, <1>12
  <2>7. b[7] \in Nat /\ b[7 + 1] \in Nat /\ b[7] <= b[7 + 1] /\ b[7 + 1] <= Len(data)
    BY <1>3, <1>6, <1>12
  <2>8. b[8] \in Nat /\ b[8 + 1] \in Nat /\ b[8] <= b[8 + 1] /\ b[8 + 1] <= Len(data)
    BY <1>3, <1>6, <1>12
  <2>9. b[9] \in Nat /\ b[9 + 1] \in Nat /\ b[9] <= b[9 + 1] /\ b[9 + 1] <= Len(data)
    BY <1>3, <1>6, <1>12
  <2>10. b[10] \in Nat /\ b[10 + 1] \in Nat /\ b[10] <= b[10 + 1] /\ b[10 + 1] <= Len(data)
    BY <1>3, <1>6, <1>12
  <2> QED
    BY <1>11, <2>1, <2>2, <2>3, <2>4, <2>5, <2>6, <2>7, <2>8, <2>9, <2>10, Zenon
<1>14. \A j \in 1 .. 10 : pieces[j].at = b[j] /\ Len(pieces[j].cells) = b[j + 1] - b[j]
  <2>1. pieces[1].at = b[1] /\ Len(pieces[1].cells) = b[1 + 1] - b[1]
    <3>1. Len(<<m.header>>) = 1
      OBVIOUS
    <3>2. (1) - (0) = 1
      OBVIOUS
    <3> QED
      BY <1>6, <1>9, <1>12, <3>1, <3>2, Zenon
  <2>2. pieces[2].at = b[2] /\ Len(pieces[2].cells) = b[2 + 1] - b[2]
    <3>1. Len(<<total>>) = 1
      OBVIOUS
    <3>2. (2) - (1) = 1
      OBVIOUS
    <3> QED
      BY <1>6, <1>9, <1>12, <3>1, <3>2, Zenon
  <2>3. pieces[3].at = b[3] /\ Len(pieces[3].cells) = b[3 + 1] - b[3]
    <3>1. Len(<<p>>) = 1
      OBVIOUS
    <3>2. (3) - (2) = 1
      OBVIOUS
    <3> QED
      BY <1>6, <1>9, <1>12, <3>1, <3>2, Zenon
  <2>4. pieces[4].at = b[4] /\ Len(pieces[4].cells) = b[4 + 1] - b[4]
    <3>1. Len(m.path) = p
      BY <1>1, Zenon
    <3>2. (3 + p) - (3) = p
      OBVIOUS
    <3> QED
      BY <1>6, <1>9, <1>12, <3>1, <3>2, Zenon
  <2>5. pieces[5].at = b[5] /\ Len(pieces[5].cells) = b[5 + 1] - b[5]
    <3>1. Len(<<q>>) = 1
      OBVIOUS
    <3>2. (4 + p) - (3 + p) = 1
      OBVIOUS
    <3> QED
      BY <1>6, <1>9, <1>12, <3>1, <3>2, Zenon
  <2>6. pieces[6].at = b[6] /\ Len(pieces[6].cells) = b[6 + 1] - b[6]
    <3>1. Len(m.method) = q
      BY <1>1, Zenon
    <3>2. (4 + p + q) - (4 + p) = q
      OBVIOUS
    <3> QED
      BY <1>6, <1>9, <1>12, <3>1, <3>2, Zenon
  <2>7. pieces[7].at = b[7] /\ Len(pieces[7].cells) = b[7 + 1] - b[7]
    <3>1. Len(<<e>>) = 1
      OBVIOUS
    <3>2. (5 + p + q) - (4 + p + q) = 1
      OBVIOUS
    <3> QED
      BY <1>6, <1>9, <1>12, <3>1, <3>2, Zenon
  <2>8. pieces[8].at = b[8] /\ Len(pieces[8].cells) = b[8 + 1] - b[8]
    <3>1. Len(meta) = e
      BY <1>1, Zenon
    <3>2. (5 + p + q + e) - (5 + p + q) = e
      OBVIOUS
    <3> QED
      BY <1>6, <1>9, <1>12, <3>1, <3>2, Zenon
  <2>9. pieces[9].at = b[9] /\ Len(pieces[9].cells) = b[9 + 1] - b[9]
    <3>1. Len(<<y>>) = 1
      OBVIOUS
    <3>2. (6 + p + q + e) - (5 + p + q + e) = 1
      OBVIOUS
    <3> QED
      BY <1>6, <1>9, <1>12, <3>1, <3>2, Zenon
  <2>10. pieces[10].at = b[10] /\ Len(pieces[10].cells) = b[10 + 1] - b[10]
    <3>1. Len(pay) = y
      BY <1>1, Zenon
    <3>2. (6 + p + q + e + y) - (6 + p + q + e) = y
      OBVIOUS
    <3> QED
      BY <1>6, <1>9, <1>12, <3>1, <3>2, Zenon
  <2> QED
    BY <1>11, <2>1, <2>2, <2>3, <2>4, <2>5, <2>6, <2>7, <2>8, <2>9, <2>10, ZenonT(60)
<1>15. \A k \in 1 .. 10 : Below(b, k)
  <2>1. Below(b, 1)
    BY DEF Below
  <2>2. Below(b, 2)
    <3>1. 1 \in 1 .. 10 /\ 1 + 1 = 2
      OBVIOUS
    <3> QED
      BY <1>13, <2>1, <3>1, BelowNext, Zenon
  <2>3. Below(b, 3)
    <3>1. 2 \in 1 .. 10 /\ 2 + 1 = 3
      OBVIOUS
    <3> QED
      BY <1>13, <2>2, <3>1, BelowNext, Zenon
  <2>4. Below(b, 4)
    <3>1. 3 \in 1 .. 10 /\ 3 + 1 = 4
      OBVIOUS
    <3> QED
      BY <1>13, <2>3, <3>1, BelowNext, Zenon
  <2>5. Below(b, 5)
    <3>1. 4 \in 1 .. 10 /\ 4 + 1 = 5
      OBVIOUS
    <3> QED
      BY <1>13, <2>4, <3>1, BelowNext, Zenon
  <2>6. Below(b, 6)
    <3>1. 5 \in 1 .. 10 /\ 5 + 1 = 6
      OBVIOUS
    <3> QED
      BY <1>13, <2>5, <3>1, BelowNext, Zenon
  <2>7. Below(b, 7)
    <3>1. 6 \in 1 .. 10 /\ 6 + 1 = 7
      OBVIOUS
    <3> QED
      BY <1>13, <2>6, <3>1, BelowNext, Zenon
  <2>8. Below(b, 8)
    <3>1. 7 \in 1 .. 10 /\ 7 + 1 = 8
      OBVIOUS
    <3> QED
      BY <1>13, <2>7, <3>1, BelowNext, Zenon
  <2>9. Below(b, 9)
    <3>1. 8 \in 1 .. 10 /\ 8 + 1 = 9
      OBVIOUS
    <3> QED
      BY <1>13, <2>8, <3>1, BelowNext, Zenon
  <2>10. Below(b, 10)
    <3>1. 9 \in 1 .. 10 /\ 9 + 1 = 10
      OBVIOUS
    <3> QED
      BY <1>13, <2>9, <3>1, BelowNext, Zenon
  <2> QED
    BY <1>11, <2>1, <2>2, <2>3, <2>4, <2>5, <2>6, <2>7, <2>8, <2>9, <2>10, Zenon
<1>16. Placed(data, pieces, 10, b)
  <2>1. Len(data) \in Nat
    BY <1>3
  <2> QED
    BY <1>8, <1>13, <1>14, <1>15, <2>1, Zenon DEF Placed, Below
<1>17. \A k \in 1 .. 10 : Copied(data, pieces, b, k)
  BY <1>16, PieceIsCopied, Zenon
<1> DEFINE f == CopyAll(data, pieces)
<1>18. /\ 1 .. p = 1 .. Len(m.path) /\ 1 .. q = 1 .. Len(m.method)
       /\ 1 .. e = 1 .. Len(meta) /\ 1 .. y = 1 .. Len(pay)
  BY <1>1, Zenon
<1>19. f[1] = m.header
  <2>1. 1 \in 1 .. 10
    OBVIOUS
  <2>2. \A i \in 1 .. Len(<<m.header>>) : f[0 + i] = <<m.header>>[i]
    BY <1>6, <1>9, <1>17, <2>1, Zenon DEF Copied
  <2>3. 1 \in 1 .. Len(<<m.header>>) /\ <<m.header>>[1] = m.header
    OBVIOUS
  <2> QED
    BY <1>3, <1>4, <2>2, <2>3, Zenon
<1>20. f[2] = 4 + p + q + e + y
  <2>1. 2 \in 1 .. 10
    OBVIOUS
  <2>2. \A i \in 1 .. Len(<<total>>) : f[1 + i] = <<total>>[i]
    BY <1>6, <1>9, <1>17, <2>1, Zenon DEF Copied
  <2>3. 1 \in 1 .. Len(<<total>>) /\ <<total>>[1] = total
    OBVIOUS
  <2> QED
    BY <1>3, <1>4, <2>2, <2>3, Zenon
<1>21. f[3] = p
  <2>1. 3 \in 1 .. 10
    OBVIOUS
  <2>2. \A i \in 1 .. Len(<<p>>) : f[2 + i] = <<p>>[i]
    BY <1>6, <1>9, <1>17, <2>1, Zenon DEF Copied
  <2>3. 1 \in 1 .. Len(<<p>>) /\ <<p>>[1] = p
    OBVIOUS
  <2> QED
    BY <1>3, <1>4, <2>2, <2>3, Zenon
<1>22. \A i \in 1 .. p : f[3 + i] = m.path[i]
  <2>1. 4 \in 1 .. 10
    OBVIOUS
  <2>2. \A i \in 1 .. Len(m.path) : f[3 + i] = m.path[i]
    BY <1>6, <1>9, <1>17, <2>1, Zenon DEF Copied
  <2> QED
    BY <1>18, <2>2, Zenon
<1>23. f[4 + p] = q
  <2>1. 5 \in 1 .. 10
    OBVIOUS
  <2>2. \A i \in 1 .. Len(<<q>>) : f[3 + p + i] = <<q>>[i]
    BY <1>6, <1>9, <1>17, <2>1, Zenon DEF Copied
  <2>3. 1 \in 1 .. Len(<<q>>) /\ <<q>>[1] = q
    OBVIOUS
  <2> QED
    BY <1>3, <1>4, <2>2, <2>3, Zenon
<1>24. \A i \in 1 .. q : f[4 + p + i] = m.method[i]
  <2>1. 6 \in 1 .. 10
    OBVIOUS
  <2>2. \A i \in 1 .. Len(m.method) : f[4 + p + i] = m.method[i]
    BY <1>6, <1>9, <1>17, <2>1, Zenon DEF Copied
  <2> QED
    BY <1>18, <2>2, Zenon
<1>25. f[5 + p + q] = e
  <2>1. 7 \in 1 .. 10
    OBVIOUS
  <2>2. \A i \in 1 .. Len(<<e>>) : f[4 + p + q + i] = <<e>>[i]
    BY <1>6, <1>9, <1>17, <2>1, Zenon DEF Copied
  <2>3. 1 \in 1 .. Len(<<e>>) /\ <<e>>[1] = e
    OBVIOUS
  <2> QED
    BY <1>3, <1>4, <2>2, <2>3, Zenon
<1>26. \A i \in 1 .. e : f[5 + p + q + i] = meta[i]
  <2>1. 8 \in 1 .. 10
    OBVIOUS
  <2>2. \A i \in 1 .. Len(meta) : f[5 + p + q + i] = meta[i]
    BY <1>6, <1>9, <1>17, <2>1, Zenon DEF Copied
  <2> QED
    BY <1>18, <2>2, Zenon
<1>27. f[6 + p + q + e] = y
  <2>1. 9 \in 1 .. 10
    OBVIOUS
  <2>2. \A i \in 1 .. Len(<<y>>) : f[5 + p + q + e + i] = <<y>>[i]
    BY <1>6, <1>9, <1>17, <2>1, Zenon DEF Copied
  <2>3. 1 \in 1 .. Len(<<y>>) /\ <<y>>[1] = y
    OBVIOUS
  <2> QED
    BY <1>3, <1>4, <2>2, <2>3, Zenon
<1>28. \A i \in 1 .. y : f[6 + p + q + e + i] = pay[i]
  <2>1. 10 \in 1 .. 10
    OBVIOUS
  <2>2. \A i \in 1 .. Len(pay) : f[6 + p + q + e + i] = pay[i]
    BY <1>6, <1>9, <1>17, <2>1, Zenon DEF Copied
  <2> QED
    BY <1>18, <2>2, Zenon
<1>29. f = [i \in 1 .. Len(data) |-> f[i]]
  BY Zenon DEF CopyAll
<1> HIDE DEF f
<1>30. Len(f) = 6 + p + q + e + y
  BY <1>3, <1>29
<1>31. Frame(f, m, meta, pay, p, q, e, y)
  BY <1>30, <1>19, <1>20, <1>21, <1>22, <1>23, <1>24, <1>25, <1>26, <1>27, <1>28 DEF Frame
<1> QED
  BY <1>1, <1>10, <1>29, <1>31, Zenon DEF FrameOf, IsCells, f

(* f and g have the same first n cells.                                     *)
SameCells(f, g, n) == \A i \in 1 .. n : f[i] = g[i]

(* A frame of a message has these cells and no others.                      *)
LEMMA FrameCells ==
    ASSUME NEW m, NEW meta, NEW pay, NEW p \in Nat, NEW q \in Nat, NEW e \in Nat, NEW y \in Nat,
           NEW f, NEW g, Frame(f, m, meta, pay, p, q, e, y), Frame(g, m, meta, pay, p, q, e, y)
    PROVE  SameCells(f, g, 6 + p + q + e + y)
<1> SUFFICES ASSUME NEW i \in 1 .. (6 + p + q + e + y)
             PROVE  f[i] = g[i]
  BY Zenon DEF SameCells
<1>1. CASE i \in {1, 2, 3, 4 + p, 5 + p + q, 6 + p + q + e}
  BY <1>1, Zenon DEF Frame
<1>2. CASE i \in 3 + 1 .. 3 + p
  <2>1. PICK j : j = i - (3)
    OBVIOUS
  <2>2. j \in 1 .. p /\ i = 3 + j
    BY <1>2, <2>1
  <2>3. f[3 + j] = m.path[j] /\ g[3 + j] = m.path[j]
    BY <2>2, Zenon DEF Frame
  <2> QED
    BY <2>2, <2>3, Zenon
<1>3. CASE i \in 4 + p + 1 .. 4 + p + q
  <2>1. PICK j : j = i - (4 + p)
    OBVIOUS
  <2>2. j \in 1 .. q /\ i = 4 + p + j
    BY <1>3, <2>1
  <2>3. f[4 + p + j] = m.method[j] /\ g[4 + p + j] = m.method[j]
    BY <2>2, Zenon DEF Frame
  <2> QED
    BY <2>2, <2>3, Zenon
<1>4. CASE i \in 5 + p + q + 1 .. 5 + p + q + e
  <2>1. PICK j : j = i - (5 + p + q)
    OBVIOUS
  <2>2. j \in 1 .. e /\ i = 5 + p + q + j
    BY <1>4, <2>1
  <2>3. f[5 + p + q + j] = meta[j] /\ g[5 + p + q + j] = meta[j]
    BY <2>2, Zenon DEF Frame
  <2> QED
    BY <2>2, <2>3, Zenon
<1>5. CASE i \in 6 + p + q + e + 1 .. 6 + p + q + e + y
  <2>1. PICK j : j = i - (6 + p + q + e)
    OBVIOUS
  <2>2. j \in 1 .. y /\ i = 6 + p + q + e + j
    BY <1>5, <2>1
  <2>3. f[6 + p + q + e + j] = pay[j] /\ g[6 + p + q + e + j] = pay[j]
    BY <2>2, Zenon DEF Frame
  <2> QED
    BY <2>2, <2>3, Zenon
<1>6. \/ i \in {1, 2, 3, 4 + p, 5 + p + q, 6 + p + q + e}
      \/ i \in 3 + 1 .. 3 + p
      \/ i \in 4 + p + 1 .. 4 + p + q
      \/ i \in 5 + p + q + 1 .. 5 + p + q + e
      \/ i \in 6 + p + q + e + 1 .. 6 + p + q + e + y
  OBVIOUS
<1> QED
  BY <1>1, <1>2, <1>3, <1>4, <1>5, <1>6, Zenon

(* Copying to offsets of a buffer gives the cells that writing one piece    *)
(* after the other gives.                                                   *)
LEMMA LayoutIsPieces ==
    ASSUME NEW S, Nat \subseteq S, NEW m, m.header \in S,
           m.path \in Seq(S), m.method \in Seq(S), NEW meta \in Seq(S), NEW pay \in Seq(S),
           NEW data, Len(data) = EncodedLen(m, meta, pay)
    PROVE  Layout(m, meta, pay, data) = Pieces(m, meta, pay)
<1>1. PICK f : f = Layout(m, meta, pay, data)
  OBVIOUS
<1>2. PICK g : g = Pieces(m, meta, pay)
  OBVIOUS
<1>3. PICK p, q, e, y \in Nat :
        p = Len(m.path) /\ q = Len(m.method) /\ e = Len(meta) /\ y = Len(pay)
  OBVIOUS
<1>4. FrameOf(f, m, meta, pay) /\ IsCells(f, Len(data))
  BY <1>1, LayoutIs, Zenon
<1>5. g \in Seq(S) /\ FrameOf(g, m, meta, pay)
  BY <1>2, PiecesIs, Zenon
<1>6. Frame(f, m, meta, pay, p, q, e, y) /\ Frame(g, m, meta, pay, p, q, e, y)
  BY <1>3, <1>4, <1>5, Zenon DEF FrameOf
<1>7. SameCells(f, g, 6 + p + q + e + y)
  BY <1>6, FrameCells, Zenon
<1>8. Len(g) = 6 + p + q + e + y /\ Len(f) = 6 + p + q + e + y
  BY <1>6, Zenon DEF Frame
<1>9. Len(data) = 6 + p + q + e + y
  <2>1. Len(data) = 1 + 1 + (1 + p) + (1 + q) + (1 + e) + (1 + y)
    BY <1>3, Zenon DEF EncodedLen, HeaderL, LenL
  <2> QED
    BY <2>1
<1>10. IsCells(g, 6 + p + q + e + y)
  BY <1>5, <1>8 DEF IsCells
<1>11. IsCells(f, 6 + p + q + e + y)
  BY <1>4, <1>9, Zenon
<1> QED
  BY <1>1, <1>2, <1>7, <1>10, <1>11, Zenon DEF IsCells, SameCells

(* The two encoders of a message write the same frame: EncodeSlicePointer,  *)
(* which computes offsets and copies into a pooled buffer, whatever an      *)
(* earlier message left in it, and WriteTo, which writes one piece after    *)
(* the other; for any names, encoded metadata and payload, of any length    *)
(* that a length field can hold (message.go:256-283, 290-359), except where *)
(* WriteTo gives up on the compressor (message.go:306-315).                 *)
THEOREM EncodersWriteTheSame ==
    ASSUME NEW S, Nat \subseteq S, NEW m, m.header \in S,
           m.path \in Seq(S), m.method \in Seq(S), NEW meta \in Seq(S), NEW pay \in Seq(S),
           NEW data, Len(data) = EncodedLen(m, meta, pay), NEW zipFails \in BOOLEAN,
           \/ CompressType(m.header) = None
           \/ Supported(CompressType(m.header)) /\ ~zipFails
    PROVE  WriteTo(m, meta, pay, zipFails) = [err |-> Nil, cells |-> Layout(m, meta, pay, data)]
<1>1. WriteTo(m, meta, pay, zipFails) = [err |-> Nil, cells |-> Pieces(m, meta, pay)]
  BY Zenon DEF WriteTo
<1> QED
  BY <1>1, LayoutIsPieces, Zenon

(* A slice of k cells behind the first n ones.                              *)
SliceIs(S, g, n, k, t) ==
    /\ t \in Seq(S) /\ Len(t) = k
    /\ \A i \in 1 .. k : t[i] = g[n + i]

HoldsCells(g, n, k, cells) == \A i \in 1 .. k : g[n + i] = cells[i]

(* SubSeq takes such a slice.                                               *)
LEMMA SubSeqIs ==
    ASSUME NEW S, NEW g \in Seq(S), NEW n \in Nat, NEW k \in Nat, n + k <= Len(g)
    PROVE  SliceIs(S, g, n, k, SubSeq(g, n + 1, n + k))
<1>1. PICK t : t = SubSeq(g, n + 1, n + k)
  OBVIOUS
<1>2. t \in Seq(S)
  BY <1>1
<1>3. Len(t) = k
  BY <1>1
<1>4. ASSUME NEW i \in 1 .. k PROVE t[i] = g[n + i]
  BY <1>1
<1> QED
  BY <1>1, <1>2, <1>3, <1>4, Zenon DEF SliceIs

(* A slice is what its cells are.                                           *)
LEMMA SliceOf ==
    ASSUME NEW S, NEW g, NEW n, NEW k \in Nat, NEW t, SliceIs(S, g, n, k, t),
           NEW cells \in Seq(S), Len(cells) = k, HoldsCells(g, n, k, cells)
    PROVE  t = cells
<1>1. t \in Seq(S) /\ Len(t) = k
  BY Zenon DEF SliceIs
<1>2. \A i \in 1 .. k : t[i] = cells[i]
  BY Zenon DEF SliceIs, HoldsCells
<1> QED
  BY <1>1, <1>2

(* A length at n and as many cells behind it: Field returns these cells and *)
(* where they end (message.go:465-477).                                     *)
HoldsField(data, n, cells, k) == data[n + 1] = k /\ HoldsCells(data, n + 1, k, cells)

(* Field reads such a field.                                                *)
LEMMA FieldIs ==
    ASSUME NEW S, NEW data \in Seq(S), NEW n \in Nat, NEW cells \in Seq(S), NEW k \in Nat,
           k = Len(cells), n + 1 + k <= Len(data), HoldsField(data, n, cells, k)
    PROVE  Field(data, n) = [ok |-> TRUE, cells |-> cells, end |-> n + 1 + k]
<1>1. n + LenL <= Len(data) /\ n + LenL + data[n + 1] <= Len(data)
  BY DEF LenL, HoldsField
<1>2. SubSeq(data, n + 1 + 1, n + 1 + k) = cells
  <2>1. n + 1 \in Nat
    OBVIOUS
  <2>2. SliceIs(S, data, n + 1, k, SubSeq(data, n + 1 + 1, n + 1 + k))
    BY <2>1, SubSeqIs, Zenon
  <2> QED
    BY <2>2, SliceOf, Zenon DEF HoldsField
<1> QED
  BY <1>1, <1>2, Zenon DEF Field, LenL, HoldsField

(* The cells behind the header and the total length.                        *)
LEMMA DataIs ==
    ASSUME NEW S, NEW g \in Seq(S), NEW total \in Nat, Len(g) = 2 + total, g[2] = total,
           NEW data, data = SubSeq(g, HeaderL + LenL + 1, HeaderL + LenL + g[HeaderL + 1])
    PROVE  SliceIs(S, g, 2, total, data)
<1>1. data = SubSeq(g, 2 + 1, 2 + total)
  <2>1. HeaderL + LenL = 2 /\ HeaderL + 1 = 2
    BY DEF HeaderL, LenL
  <2> QED
    BY <2>1, Zenon
<1>2. 2 + total <= Len(g) /\ 2 \in Nat
  OBVIOUS
<1> QED
  BY <1>1, <1>2, SubSeqIs, Zenon

(* The field at cell a of the frame, which is at offset n of the data.      *)
FieldAt(g, a, cells, k) == g[a] = k /\ HoldsCells(g, a, k, cells)

(* A field of the frame is a field of the data.                             *)
LEMMA FieldOfData ==
    ASSUME NEW S, NEW g, NEW total \in Nat, NEW data, SliceIs(S, g, 2, total, data),
           NEW n \in Nat, NEW k \in Nat, NEW a \in Nat, NEW cells, a = 3 + n, n + 1 + k <= total,
           FieldAt(g, a, cells, k)
    PROVE  HoldsField(data, n, cells, k)
<1>1. n + 1 \in 1 .. total /\ 2 + (n + 1) = a
  OBVIOUS
<1>2. data[n + 1] = k
  BY <1>1, Zenon DEF SliceIs, FieldAt
<1>3. ASSUME NEW i \in 1 .. k PROVE data[n + 1 + i] = cells[i]
  <2>1. n + 1 + i \in 1 .. total /\ 2 + (n + 1 + i) = a + i
    OBVIOUS
  <2>2. data[n + 1 + i] = g[2 + (n + 1 + i)]
    BY <2>1, Zenon DEF SliceIs
  <2>3. g[a + i] = cells[i]
    BY Zenon DEF FieldAt, HoldsCells
  <2> QED
    BY <2>1, <2>2, <2>3, Zenon
<1> QED
  BY <1>2, <1>3, Zenon DEF HoldsField, HoldsCells

(* What Field returns for it.                                               *)
ReadsField(S, data, n, cells, k) ==
    data \in Seq(S) /\ cells \in Seq(S) /\ Len(cells) = k /\ n + 1 + k <= Len(data)
      /\ HoldsField(data, n, cells, k)
    => Field(data, n) = [ok |-> TRUE, cells |-> cells, end |-> n + 1 + k]

(* The same of all data, cells and offsets.                                 *)
LEMMA FieldReads == \A S, data, cells : \A n, k \in Nat : ReadsField(S, data, n, cells, k)
BY FieldIs, Zenon DEF ReadsField

(* What Decode takes out of the data of a frame.                            *)
Parsed(data, m, meta, pay) ==
    LET sp == Field(data, 0)
        sm == Field(data, sp.end)
        me == Field(data, sm.end)
    IN  /\ sp.ok /\ sp.cells = m.path
        /\ sm.ok /\ sm.cells = m.method
        /\ me.ok /\ me.cells = meta
        /\ me.end + LenL <= Len(data)
        /\ SubSeq(data, me.end + LenL + 1, Len(data)) = pay

(* Decode reads the lengths where the encoders put them, and takes out of   *)
(* a frame the service path, the method, the encoded metadata and the       *)
(* payload that went into it, of any length that a length field can hold,   *)
(* without slicing beyond the data (message.go:256-283, 426-510).           *)
THEOREM FramesReadBack ==
    ASSUME NEW S, Nat \subseteq S, NEW m, m.header \in S,
           m.path \in Seq(S), m.method \in Seq(S), NEW meta \in Seq(S), NEW pay \in Seq(S),
           NEW frame, frame = Pieces(m, meta, pay),
           NEW data, data = SubSeq(frame, HeaderL + LenL + 1, HeaderL + LenL + frame[HeaderL + 1])
    PROVE  /\ frame[1] = m.header
           /\ Len(frame) = HeaderL + LenL + frame[HeaderL + 1]
           /\ Parsed(data, m, meta, pay)
<1>1. PICK p, q, e, y \in Nat :
        p = Len(m.path) /\ q = Len(m.method) /\ e = Len(meta) /\ y = Len(pay)
  OBVIOUS
<1>2. frame \in Seq(S) /\ Frame(frame, m, meta, pay, p, q, e, y)
  BY <1>1, PiecesIs, Zenon DEF FrameOf
<1>3. PICK total \in Nat : total = 4 + p + q + e + y
  OBVIOUS
<1>4. /\ Len(frame) = 2 + total /\ frame[2] = total
      /\ HeaderL + LenL = 2 /\ HeaderL + 1 = 2
  <2>1. Len(frame) = 6 + p + q + e + y /\ frame[2] = 4 + p + q + e + y
    BY <1>2, Zenon DEF Frame
  <2>2. 6 + p + q + e + y = 2 + total
    BY <1>3
  <2> QED
    BY <1>3, <2>1, <2>2 DEF HeaderL, LenL
<1>5. SliceIs(S, frame, 2, total, data)
  BY <1>2, <1>4, DataIs, Zenon
<1>6. data \in Seq(S) /\ Len(data) = total
  BY <1>5, Zenon DEF SliceIs
<1>7. Field(data, 0) = [ok |-> TRUE, cells |-> m.path, end |-> 1 + p]
  <2>1. PICK n \in Nat : n = 0
    OBVIOUS
  <2>2. PICK a \in Nat : a = 3
    OBVIOUS
  <2>3. n + 1 + p = 1 + p /\ n + 1 + p <= total /\ a = 3 + n
    BY <1>3, <2>1, <2>2
  <2>4. FieldAt(frame, 3, m.path, p)
    BY <1>2, Zenon DEF Frame, FieldAt, HoldsCells
  <2>5. HoldsField(data, n, m.path, p)
    <3>1. FieldAt(frame, a, m.path, p)
      BY <2>2, <2>4, Zenon
    <3> QED
      BY <1>5, <2>3, <3>1, FieldOfData, Zenon
  <2>6. ReadsField(S, data, n, m.path, p)
    BY FieldReads, Zenon
  <2>7. Field(data, n) = [ok |-> TRUE, cells |-> m.path, end |-> n + 1 + p]
    BY <1>1, <1>6, <2>3, <2>5, <2>6, Zenon DEF ReadsField
  <2> QED
    BY <2>1, <2>3, <2>7, Zenon
<1>8. Field(data, 1 + p) = [ok |-> TRUE, cells |-> m.method, end |-> 2 + p + q]
  <2>1. PICK n \in Nat : n = 1 + p
    OBVIOUS
  <2>2. PICK a \in Nat : a = 4 + p
    OBVIOUS
  <2>3. n + 1 + q = 2 + p + q /\ n + 1 + q <= total /\ a = 3 + n
    BY <1>3, <2>1, <2>2
  <2>4. FieldAt(frame, 4 + p, m.method, q)
    BY <1>2, Zenon DEF Frame, FieldAt, HoldsCells
  <2>5. HoldsField(data, n, m.method, q)
    <3>1. FieldAt(frame, a, m.method, q)
      BY <2>2, <2>4, Zenon
    <3> QED
      BY <1>5, <2>3, <3>1, FieldOfData, Zenon
  <2>6. ReadsField(S, data, n, m.method, q)
    BY FieldReads, Zenon
  <2>7. Field(data, n) = [ok |-> TRUE, cells |-> m.method, end |-> n + 1 + q]
    BY <1>1, <1>6, <2>3, <2>5, <2>6, Zenon DEF ReadsField
  <2> QED
    BY <2>1, <2>3, <2>7, Zenon
<1>9. Field(data, 2 + p + q) = [ok |-> TRUE, cells |-> meta, end |-> 3 + p + q + e]
  <2>1. PICK n \in Nat : n = 2 + p + q
    OBVIOUS
  <2>2. PICK a \in Nat : a = 5 + p + q
    OBVIOUS
  <2>3. n + 1 + e = 3 + p + q + e /\ n + 1 + e <= total /\ a = 3 + n
    BY <1>3, <2>1, <2>2
  <2>4. FieldAt(frame, 5 + p + q, meta, e)
    BY <1>2, Zenon DEF Frame, FieldAt, HoldsCells
  <2>5. HoldsField(data, n, meta, e)
    <3>1. FieldAt(frame, a, meta, e)
      BY <2>2, <2>4, Zenon
    <3> QED
      BY <1>5, <2>3, <3>1, FieldOfData, Zenon
  <2>6. ReadsField(S, data, n, meta, e)
    BY FieldReads, Zenon
  <2>7. Field(data, n) = [ok |-> TRUE, cells |-> meta, end |-> n + 1 + e]
    BY <1>1, <1>6, <2>3, <2>5, <2>6, Zenon DEF ReadsField
  <2> QED
    BY <2>1, <2>3, <2>7, Zenon
<1>10. HoldsField(data, 3 + p + q + e, pay, y)
  <2>1. PICK n \in Nat : n = 3 + p + q + e
    OBVIOUS
  <2>2. PICK a \in Nat : a = 6 + p + q + e
    OBVIOUS
  <2>3. n + 1 + y = 4 + p + q + e + y /\ n + 1 + y <= total /\ a = 3 + n
    BY <1>3, <2>1, <2>2
  <2>4. FieldAt(frame, 6 + p + q + e, pay, y)
    BY <1>2, Zenon DEF Frame, FieldAt, HoldsCells
  <2>5. HoldsField(data, n, pay, y)
    <3>1. FieldAt(frame, a, pay, y)
      BY <2>2, <2>4, Zenon
    <3> QED
      BY <1>5, <2>3, <3>1, FieldOfData, Zenon
  <2> QED
    BY <2>1, <2>5, Zenon
<1>11. SubSeq(data, 3 + p + q + e + 1 + 1, Len(data)) = pay
  <2>1. PICK n \in Nat : n = 3 + p + q + e + 1
    OBVIOUS
  <2>2. n + y = total /\ n + y <= Len(data)
    BY <1>3, <1>6, <2>1
  <2>3. SliceIs(S, data, n, y, SubSeq(data, n + 1, n + y))
    BY <1>6, <2>2, SubSeqIs, Zenon
  <2>4. HoldsCells(data, n, y, pay)
    BY <1>10, <2>1, Zenon DEF HoldsField
  <2>5. SubSeq(data, n + 1, n + y) = pay
    BY <1>1, <2>3, <2>4, SliceOf, Zenon
  <2> QED
    BY <1>6, <2>1, <2>2, <2>5, Zenon
<1>12. 3 + p + q + e + 1 <= Len(data)
  BY <1>3, <1>6
<1>13. Parsed(data, m, meta, pay)
  <2>1. PICK sp : sp = Field(data, 0)
    OBVIOUS
  <2>2. sp.ok /\ sp.cells = m.path /\ sp.end = 1 + p
    BY <1>7, <2>1
  <2>3. PICK sm : sm = Field(data, sp.end)
    OBVIOUS
  <2>4. sm.ok /\ sm.cells = m.method /\ sm.end = 2 + p + q
    BY <1>8, <2>2, <2>3
  <2>5. PICK me : me = Field(data, sm.end)
    OBVIOUS
  <2>6. me.ok /\ me.cells = meta /\ me.end = 3 + p + q + e
    BY <1>9, <2>4, <2>5
  <2>7. me.end + LenL <= Len(data) /\ SubSeq(data, me.end + LenL + 1, Len(data)) = pay
    BY <1>11, <1>12, <2>6, Zenon DEF LenL
  <2> QED
    BY <2>1, <2>2, <2>3, <2>4, <2>5, <2>6, <2>7, Zenon DEF Parsed
<1> QED
  BY <1>2, <1>4, <1>13, Zenon DEF Frame

-----------------------------------------------------------------------------
(* Selection.                                                               *)

(* The last update is installed, in the channel or about to be sent, as     *)
(* long as none was overtaken: one step of the discovery, of a goroutine    *)
(* that sends, or of the client.                                            *)
LEMMA DeliveryStep ==
    ASSUME DeliveryInv, [SelectionNext]_selectionVars
    PROVE  DeliveryInv'
<1> USE SelectionAssumption
<1> DEFINE Quiet == \A u \in Updates : sender[u] = Nothing
<1>0. /\ pairs \in Pairs /\ sender \in [Updates -> Pairs \cup {Nothing}] /\ ch \in Seq(Pairs)
      /\ updates \in 0 .. MaxUpdates
      /\ xpc \in {"new", "built"} => ~watched /\ watchpc = "none" /\ ch = <<>> /\ Quiet
  BY Zenon DEF DeliveryInv
<1>1. ASSUME NEW p \in Pairs, Update(p)
      PROVE  DeliveryInv'
  <2>1. /\ updates < MaxUpdates /\ updates' = updates + 1 /\ pairs' = p
        /\ sender' = [sender EXCEPT ![updates + 1] = IF watched THEN p ELSE Nothing]
        /\ unordered' = (~watched \/ \E u \in Updates : sender[u] # Nothing)
        /\ UNCHANGED <<watched, ch, xpc, watchpc, servers>>
    BY <1>1, Zenon DEF Update, Sent, selectorVars
  <2>2. updates + 1 \in Updates /\ updates' \in 0 .. MaxUpdates
    BY <1>0, <2>1 DEF Updates
  <2>3. sender' \in [Updates -> Pairs \cup {Nothing}]
    BY <1>0, <2>1, <2>2, Zenon
  <2>4. xpc \in {"new", "built"} => \A u \in Updates : sender'[u] = Nothing
    BY <1>0, <2>1, <2>2, Zenon
  <2>5. ~unordered' => /\ sender'[updates + 1] = pairs'
                       /\ \A v \in Updates \ {updates + 1} : sender'[v] = Nothing
    BY <1>0, <2>1, <2>2, Zenon
  <2> QED
    BY <1>0, <2>1, <2>2, <2>3, <2>4, <2>5, Zenon DEF DeliveryInv
<1>2. ASSUME NEW u \in Updates, Send(u)
      PROVE  DeliveryInv'
  <2>1. /\ sender[u] # Nothing /\ ch' = Append(ch, sender[u])
        /\ sender' = [sender EXCEPT ![u] = Nothing]
        /\ UNCHANGED <<pairs, watched, updates, unordered, xpc, watchpc, servers>>
    BY <1>2, Zenon DEF Send, selectorVars
  <2>2. sender[u] \in Pairs
    BY <1>0, <1>2, <2>1, Zenon
  <2>3. ch' \in Seq(Pairs) /\ ch' # <<>> /\ ch'[Len(ch')] = sender[u]
    BY <1>0, <2>1, <2>2
  <2>4. /\ sender' \in [Updates -> Pairs \cup {Nothing}]
        /\ \A v \in Updates : sender'[v] = IF v = u THEN Nothing ELSE sender[v]
    BY <1>0, <1>2, <2>1, Zenon
  <2>5. xpc \notin {"new", "built"}
    BY <1>0, <1>2, <2>1, Zenon
  <2>6. ~unordered => sender[u] = pairs /\ \A v \in Updates : sender'[v] = Nothing
    BY <1>2, <2>1, <2>4, <2>5, Zenon DEF DeliveryInv
  <2> QED
    BY <1>0, <2>1, <2>3, <2>4, <2>5, <2>6, Zenon DEF DeliveryInv
<1>3. ASSUME NEW u \in Updates, SendEnds(u)
      PROVE  DeliveryInv'
  <2>1. /\ sender[u] # Nothing /\ sender' = [sender EXCEPT ![u] = Nothing] /\ unordered' = TRUE
        /\ UNCHANGED <<pairs, watched, ch, updates, xpc, watchpc>>
    BY <1>3, Zenon DEF SendEnds
  <2>2. sender' \in [Updates -> Pairs \cup {Nothing}]
    BY <1>0, <1>3, <2>1, Zenon
  <2>3. xpc \notin {"new", "built"}
    BY <1>0, <1>3, <2>1, Zenon
  <2> QED
    BY <1>0, <2>1, <2>2, <2>3, Zenon DEF DeliveryInv
<1>4. CASE NewXClient
  <2>1. /\ xpc = "new" /\ xpc' = "built"
        /\ servers' = filterByStateAndGroup(pairs)
        /\ UNCHANGED <<pairs, watched, sender, ch, updates, watchpc>>
    BY <1>4, Zenon DEF NewXClient, Installs
  <2>2. (filterByStateAndGroup(pairs))' = filterByStateAndGroup(pairs)
    BY <2>1, Zenon DEF filterByStateAndGroup
  <2> QED
    BY <1>0, <2>1, <2>2, Zenon DEF DeliveryInv
<1>5. CASE WatchService
  <2>1. /\ xpc = "built" /\ xpc' = "open"
        /\ UNCHANGED <<pairs, sender, ch, updates, unordered, servers>>
    BY <1>5, Zenon DEF WatchService, selectorVars
  <2>2. (filterByStateAndGroup(pairs))' = filterByStateAndGroup(pairs)
    BY <2>1, Zenon DEF filterByStateAndGroup
  <2> QED
    BY <1>0, <2>1, <2>2, Zenon DEF DeliveryInv
<1>6. CASE watch
  <2>1. /\ watchpc = "range" /\ ch # <<>> /\ ch' = Tail(ch)
        /\ servers' = filterByStateAndGroup(Head(ch))
        /\ UNCHANGED <<pairs, watched, sender, updates, unordered, xpc, watchpc>>
    BY <1>6, Zenon DEF watch, Installs
  <2>2. (filterByStateAndGroup(pairs))' = filterByStateAndGroup(pairs)
    BY <2>1, Zenon DEF filterByStateAndGroup
  <2>3. ch' \in Seq(Pairs) /\ (ch' = <<>> => Head(ch) = ch[Len(ch)])
        /\ (ch' # <<>> => ch'[Len(ch')] = ch[Len(ch)])
    BY <1>0, <2>1
  <2>4. xpc \notin {"new", "built"}
    BY <1>0, <2>1, Zenon
  <2> QED
    BY <1>0, <2>1, <2>2, <2>3, <2>4, Zenon DEF DeliveryInv
<1>7. ASSUME UNCHANGED <<pairs, sender, ch, updates, unordered, servers>>,
             \/ UNCHANGED <<xpc, watched, watchpc>>
             \/ xpc \notin {"new", "built"} /\ xpc' \notin {"new", "built"}
      PROVE  DeliveryInv'
  <2>1. (filterByStateAndGroup(pairs))' = filterByStateAndGroup(pairs)
    BY <1>7, Zenon DEF filterByStateAndGroup
  <2>2. xpc' \in {"new", "built"} => xpc \in {"new", "built"} /\ UNCHANGED <<watched, watchpc>>
    BY <1>7, Zenon
  <2>3. xpc' # "new" => xpc # "new"
    BY <1>7, Zenon
  <2>4. UNCHANGED <<pairs, sender, ch, updates, unordered, servers>>
    BY <1>7, Zenon
  <2>5. xpc' \in {"new", "built"} =>
           ~watched' /\ watchpc' = "none" /\ ch' = <<>> /\ \A u \in Updates : sender'[u] = Nothing
    BY <1>0, <2>2, <2>4, Zenon
  <2> QED
    BY <1>0, <2>1, <2>3, <2>4, <2>5, Zenon DEF DeliveryInv
<1>8. CASE watchEnds
  <2>1. watchpc = "range" /\ xpc' = xpc /\ xpc \notin {"new", "built"}
    BY <1>0, <1>8, Zenon DEF watchEnds
  <2> QED
    BY <1>7, <1>8, <2>1, Zenon DEF watchEnds, discoveryVars, selectorVars
<1>9. CASE Select
  BY <1>7, <1>9, Zenon DEF Select, discoveryVars
<1>10. CASE Close
  BY <1>7, <1>10, Zenon DEF Close, discoveryVars, selectorVars
<1>11. CASE RemoveWatcher
  BY <1>7, <1>11, Zenon DEF RemoveWatcher, selectorVars
<1>12. CASE CloseChannel
  BY <1>7, <1>12, Zenon DEF CloseChannel, selectorVars
<1>13. CASE UNCHANGED selectionVars
  BY <1>7, <1>13, Zenon DEF selectionVars, discoveryVars, selectorVars
<1> QED
  BY <1>1, <1>2, <1>3, <1>4, <1>5, <1>6, <1>8, <1>9, <1>10, <1>11, <1>12, <1>13, Zenon
     DEF SelectionNext, Senders

(* When every goroutine has delivered, the client has the servers of the    *)
(* last Update, for any number of updates and any capacity of the channel,  *)
(* unless that Update was overtaken, dropped, or came too early.            *)
THEOREM LastUpdateArrives == SelectionSpec => []Converges
<1>1. SelectionInit => DeliveryInv
  <2> SUFFICES ASSUME SelectionInit PROVE DeliveryInv
    OBVIOUS
  <2>1. /\ pairs \in Pairs /\ sender \in [Updates -> Pairs \cup {Nothing}]
        /\ xpc = "new" /\ ~watched /\ watchpc = "none" /\ ch = <<>>
        /\ \A u \in Updates : sender[u] = Nothing
    BY Zenon DEF SelectionInit
  <2>2. updates \in 0 .. MaxUpdates /\ ch \in Seq(Pairs)
    BY SelectionAssumption DEF SelectionInit
  <2> QED
    BY <2>1, <2>2, Zenon DEF DeliveryInv
<1>2. DeliveryInv /\ [SelectionNext]_selectionVars => DeliveryInv'
  BY DeliveryStep, Zenon
<1>3. DeliveryInv => Converges
  <2> SUFFICES ASSUME DeliveryInv, xpc = "open", ~unordered, ch = <<>>,
                      \A u \in Updates : sender[u] = Nothing
               PROVE  servers = filterByStateAndGroup(pairs)
    BY Zenon DEF Converges
  <2>1. ~ \E u \in Updates : sender[u] = pairs
    BY SelectionAssumption, Zenon DEF DeliveryInv
  <2> QED
    BY <2>1, Zenon DEF DeliveryInv
<1> QED
  BY <1>1, <1>2, <1>3, PTL DEF SelectionSpec
=============================================================================

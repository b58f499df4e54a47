------------------------------ MODULE BufferPool ------------------------------
(***************************************************************************)
(* LimitedPool of util/buffer_pool.go: byte buffers kept in levels whose    *)
(* sizes double from minSize up to maxSize.  Encoders take a buffer of the  *)
(* size they need (Get) and give it back when it has been written (Put).    *)
(*                                                                         *)
(* A buffer is its capacity here; Wire adds the contents.  Each level is a  *)
(* sync.Pool: it returns any buffer it holds, or a new one although it      *)
(* holds some, and it may drop what it holds (Collect).                     *)
(***************************************************************************)
EXTENDS Integers, FiniteSets

CONSTANTS
    Bufs,       \* identities of buffers; an identity is reused once collected
    minSize,    \* 512 in protocol/message.go
    maxSize,    \* 4096 there
    Levels      \* number of the last level

VARIABLES
    cap,        \* capacity of each buffer, 0 while the identity is unused
    pools,      \* buffers held by each level
    slice       \* length of the slice its user holds, 0 when nobody uses it

poolVars == <<cap, pools, slice>>

(* Power[i] is 2^i, the factor NewLimitedPool multiplies minSize with.      *)
Power[i \in 0..Levels] == IF i = 0 THEN 1 ELSE 2 * Power[i - 1]

(* The levels NewLimitedPool makes: minSize doubled while it is below       *)
(* maxSize, then one level of maxSize.                                      *)
size(i) == IF i < Levels THEN minSize * Power[i] ELSE maxSize

(* minSize is positive, maxSize is between the last two powers: Levels is   *)
(* the number of doublings.  The first and fourth line say of Power what    *)
(* its definition gives.                                                    *)
ASSUME SizesAssumption ==
    /\ Power[0] = 1
    /\ minSize \in Nat \ {0} /\ maxSize \in Nat /\ Levels \in Nat
    /\ minSize <= maxSize
    /\ \A i \in 0..Levels : Power[i] \in Nat \ {0}
    /\ \A i \in 0..(Levels - 1) : minSize * Power[i] < maxSize
    /\ maxSize <= minSize * Power[Levels]

(* findPool: the level for a request, by rounding log2(size / minSize) up.  *)
(* -1 stands for nil.                                                       *)
findPool(n) ==
    IF n > maxSize THEN -1
    ELSE CHOOSE i \in 0..Levels :
            /\ n <= minSize * Power[i]
            /\ \A j \in 0..(i - 1) : n > minSize * Power[j]

(* findPutPool: the level a buffer is returned to, by rounding down.        *)
findPutPool(c) ==
    IF c > maxSize \/ c < minSize THEN -1
    ELSE CHOOSE i \in 0..Levels :
            /\ minSize * Power[i] <= c
            /\ \A j \in (i + 1)..Levels : minSize * Power[j] > c

-----------------------------------------------------------------------------
PoolInit ==
    /\ cap = [b \in Bufs |-> 0]
    /\ pools = [i \in 0..Levels |-> {}]
    /\ slice = [b \in Bufs |-> 0]

(* make([]byte, c): an identity nobody uses becomes a buffer.               *)
Allocate(b, c) == cap[b] = 0 /\ cap' = [cap EXCEPT ![b] = c] /\ UNCHANGED pools

Get_Shared(n, b) ==
    LET i == findPool(n) IN
    /\ n \in Nat \ {0}
    /\ IF i # -1 /\ b \in pools[i] THEN UNCHANGED <<cap, pools>>
       ELSE Allocate(b, IF i = -1 THEN n ELSE size(i))
    /\ slice' = [slice EXCEPT ![b] = n]

(* Get: a buffer of the level found, new or pooled, or one of just the      *)
(* size when there is no level; then it is sliced to the size asked for,    *)
(* a positive length.                                                       *)
Get(n, b) ==
    LET i == findPool(n) IN
    /\ n \in Nat \ {0}
    /\ \/ i = -1 /\ Allocate(b, n)
       \/ i # -1 /\ Allocate(b, size(i))
       \/ /\ i # -1
          /\ b \in pools[i]
          /\ pools' = [pools EXCEPT ![i] = @ \ {b}]
          /\ UNCHANGED cap
    /\ slice' = [slice EXCEPT ![b] = n]

(* Put: the buffer goes to the level below its capacity, or is dropped.     *)
Put(b) ==
    LET i == findPutPool(cap[b]) IN
    /\ slice[b] # 0
    /\ slice' = [slice EXCEPT ![b] = 0]
    /\ \/ i = -1 /\ cap' = [cap EXCEPT ![b] = 0] /\ UNCHANGED pools
       \/ i # -1 /\ pools' = [pools EXCEPT ![i] = @ \cup {b}] /\ UNCHANGED cap

(* The garbage collector empties a sync.Pool.                               *)
Collect(b) ==
    /\ \E i \in 0..Levels :
          b \in pools[i] /\ pools' = [pools EXCEPT ![i] = @ \ {b}]
    /\ cap' = [cap EXCEPT ![b] = 0]
    /\ UNCHANGED slice

-----------------------------------------------------------------------------
PoolTypeOK ==
    /\ cap \in [Bufs -> Nat]
    /\ pools \in [0..Levels -> SUBSET Bufs]
    /\ slice \in [Bufs -> Nat]

(* Get may slice whatever it takes from a level to the size asked for: a    *)
(* buffer in use is at least as large as its slice, although Put rounds     *)
(* down where Get rounds up (slicing beyond the capacity panics).           *)
SliceFits == \A b \in Bufs : slice[b] <= cap[b]

(* A buffer in use is in no level, and no buffer is held twice: an encoder  *)
(* never writes into a buffer another one is still using.                   *)
SoleUser ==
    \A i \in 0..Levels : \A b \in pools[i] :
        slice[b] = 0 /\ \A j \in 0..Levels : b \in pools[j] => j = i

(* What a level holds is large enough for every request the level serves.   *)
LevelInv == \A i \in 0..Levels : \A b \in pools[i] : cap[b] >= size(i)

PoolInv == PoolTypeOK /\ SliceFits /\ SoleUser /\ LevelInv
=============================================================================

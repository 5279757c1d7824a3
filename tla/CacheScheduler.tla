--------------------------- MODULE CacheScheduler ---------------------------
(***************************************************************************)
(* The scheduler of waprox's requests to its disk cache (HashCache): the   *)
(* array of loopback connections, the first-class (GET) and second-class   *)
(* (PUT) queues, and the chunks kept in memory until their PUT finishes.   *)
(* From waprox/disk.c, the cache half of waprox/connection.c and           *)
(* ProcessCacheResponse of waprox/waprox.c.                                *)
(*                                                                         *)
(* The proxy is one thread.  A handler is one action.  The two loops that  *)
(* call a handler once per connection (the 5 s timer and the clean-up of   *)
(* dead connections) take one step per connection, and no other handler    *)
(* runs until they are through: timerAt and toDestroy are their positions. *)
(***************************************************************************)
EXTENDS Integers, Sequences, FiniteSets

CONSTANTS MaxCacheConns,    \* g_MaxCacheConns: size of g_CacheConnections
          Gets,             \* ids of GET transactions
          KeepAlives,       \* ids of the keep-alive GETs of the timer
          Puts,             \* ids of PUT transactions
          Chunks,           \* SHA1 names of the chunks that are PUT
          NoTrans,          \* a NULL pCurTrans
          NoChunk,          \* the chunk of a PUT id that is not in use
          MaxPutDiskQueue,  \* MAX_PUT_DISK_QUEUE
          KeepAliveLimit,   \* g_MaxCacheConns * 10: no keep-alive beyond
          RemoteChunks      \* the chunks that are PUT to another peer's cache

FirstClass == Gets \cup KeepAlives
Trans == FirstClass \cup Puts
Slots == 1..MaxCacheConns

ASSUME ConnsAssumption == MaxCacheConns \in Nat \ {0}
ASSUME TransAssumption == /\ Gets \cap KeepAlives = {}
                          /\ FirstClass \cap Puts = {}
                          /\ NoTrans \notin Trans
                          /\ NoChunk \notin Chunks
ASSUME LimitAssumption == /\ MaxPutDiskQueue \in Nat
                          /\ KeepAliveLimit \in Nat
                          /\ RemoteChunks \subseteq Chunks

VARIABLES
    slot,       \* g_CacheConnections[i]: "null", "active" or "closed" (in
                \*   the dead list, not yet destroyed)
    cur,        \* pCurTrans of the connection
    stale,      \* connections whose lastAccessTime is 15 s old
    firstQ,     \* g_FirstClassRequestList
    secondQ,    \* g_SecondClassRequestList
    putChunk,   \* sha1name of each outstanding PUT transaction
    putTmp,     \* put_tmp_ht: chunks kept until their PUT finishes
    remote,     \* chunks whose PUT request is at another peer
    deadList,   \* the cache connections in g_DeadConnList
    toDestroy,  \* what CleanUpClosedConnections has still to destroy
    timerAt     \* position of CheckDiskCacheConnections, 0 outside it

queues == <<firstQ, secondQ>>
puts   == <<putChunk, putTmp, remote>>
vars   == <<slot, cur, stale, firstQ, secondQ, putChunk, putTmp, remote,
            deadList, toDestroy, timerAt>>

InQueue(t)     == \/ \E i \in 1..Len(firstQ)  : firstQ[i] = t
                  \/ \E i \in 1..Len(secondQ) : secondQ[i] = t
InFlight(t)    == \E i \in Slots : cur[i] = t
Outstanding(t) == InQueue(t) \/ InFlight(t)
MainLoop       == toDestroy = <<>> /\ timerAt = 0
NumPending     == Len(firstQ) + Len(secondQ)

Init == /\ slot = [i \in Slots |-> "active"]
        /\ cur = [i \in Slots |-> NoTrans]
        /\ stale = {}
        /\ firstQ = <<>> /\ secondQ = <<>>
        /\ putChunk = [p \in Puts |-> NoChunk]
        /\ putTmp = {} /\ remote = {}
        /\ deadList = <<>> /\ toDestroy = <<>>
        /\ timerAt = 0
-----------------------------------------------------------------------------
(* The one increasing enumeration of a set of slots: the order in which    *)
(* GetIdleCacheConn, called again and again, returns them.                 *)
SlotOrders(S) ==
    {f \in [1..Cardinality(S) -> S] :
        /\ \A i, j \in 1..Cardinality(S) : i < j => f[i] < f[j]
        /\ \A s \in S : \E i \in 1..Cardinality(S) : f[i] = s}

(* A closed connection counts as idle until it is destroyed.               *)
IdleIncludesNull(sl, cu) == {i \in Slots : cu[i] = NoTrans}      \* mutant
IdleCacheConns(sl, cu) == {i \in Slots : sl[i] # "null" /\ cu[i] = NoTrans}

Least(m, n) == IF m <= n THEN m ELSE n

(* Queue a request by its class; a retried PUT goes to the tail as well.   *)
ForgetRetried(t, addTail) ==                                    \* mutant
    IF t \in FirstClass /\ addTail THEN Append(firstQ, t) ELSE firstQ
ScheduleFirst(t, addTail) ==
    IF t \notin FirstClass THEN firstQ
    ELSE IF addTail THEN Append(firstQ, t) ELSE <<t>> \o firstQ
ScheduleSecond(t) == IF t \in Puts THEN Append(secondQ, t) ELSE secondQ

(* IssueCacheRequest, on the first n of the idle connections in order: the *)
(* j-th gets the j-th request of all.  On those in failed the write fails  *)
(* (SendData, Write, SetDead), which closes the connection.                *)
IssueCacheRequests(order, failed, n, all, sl, cu, st, dl) ==
    /\ failed \subseteq {order[j] : j \in 1..n}
    /\ cur' = [i \in Slots |-> IF \E j \in 1..n : order[j] = i
                               THEN all[CHOOSE j \in 1..n : order[j] = i]
                               ELSE cu[i]]
    /\ slot' = [i \in Slots |-> IF i \in failed THEN "closed" ELSE sl[i]]
    /\ stale' = st \ {order[j] : j \in 1..n}
    /\ \E newlyDead \in SlotOrders({i \in failed : sl[i] = "active"}) :
          deadList' = dl \o newlyDead

(* Hand the queued requests to the idle connections, first class first.    *)
IssuePendingCacheRequests(sl, cu, st, first, second, dl) ==
    LET idle == IdleCacheConns(sl, cu)
        n    == Least(Cardinality(idle), Len(first \o second))
    IN  /\ \E order \in SlotOrders(idle), failed \in SUBSET Slots :
              IssueCacheRequests(order, failed, n, first \o second, sl, cu, st, dl)
        /\ firstQ'  = SubSeq(first, n + 1, Len(first))
        /\ secondQ' = IF n <= Len(first) THEN second
                      ELSE SubSeq(second, n - Len(first) + 1, Len(second))
-----------------------------------------------------------------------------
(* A chunk of a name delivery or of a peer's request is read from disk.    *)
SendCacheRequest(t) ==
    /\ MainLoop
    /\ ~Outstanding(t)
    /\ IssuePendingCacheRequests(slot, cur, stale, ScheduleFirst(t, TRUE),
                                 secondQ, deadList)
    /\ UNCHANGED <<puts, toDestroy, timerAt>>

(* A chunk is written to the local disk, unless it is already being        *)
(* written or the queue of PUTs is too long.  Which of the free ids the    *)
(* transaction has makes no difference, here and for a keep-alive.         *)
PutTwice(c)     == ~(Len(secondQ) > MaxPutDiskQueue)            \* mutant
MayPut(c) == c \notin putTmp /\ ~(Len(secondQ) > MaxPutDiskQueue)

PutDisk(p, c) ==
    /\ MainLoop
    /\ ~Outstanding(p) /\ p = CHOOSE q \in Puts : ~Outstanding(q)
    /\ MayPut(c)
    /\ putTmp' = putTmp \cup {c}
    /\ putChunk' = [putChunk EXCEPT ![p] = c]
    /\ IssuePendingCacheRequests(slot, cur, stale, firstQ, ScheduleSecond(p),
                                 deadList)
    /\ UNCHANGED <<remote, toDestroy, timerAt>>

(* A chunk is sent to the peer that must store it.                         *)
DistributePutRequest(c) ==
    /\ MainLoop
    /\ c \in RemoteChunks \ remote
    /\ remote' = remote \cup {c}
    /\ putTmp' = putTmp \cup {c}
    /\ UNCHANGED <<slot, cur, stale, queues, putChunk, deadList, toDestroy,
                   timerAt>>

(* The peer has the chunk: PutDone.                                        *)
ProcessPutResponse(c) ==
    /\ MainLoop
    /\ c \in remote
    /\ remote' = remote \ {c}
    /\ putTmp' = putTmp \ {c}
    /\ UNCHANGED <<slot, cur, stale, queues, putChunk, deadList, toDestroy,
                   timerAt>>

(* A whole response is in the read buffer of connection i.                 *)
ProcessCacheResponse(i) ==
    /\ MainLoop
    /\ slot[i] # "null" /\ cur[i] # NoTrans
    /\ IF cur[i] \in Puts
       THEN /\ putTmp' = putTmp \ {putChunk[cur[i]]}
            /\ putChunk' = [putChunk EXCEPT ![cur[i]] = NoChunk]
       ELSE UNCHANGED <<putChunk, putTmp>>
    /\ IssuePendingCacheRequests(slot, [cur EXCEPT ![i] = NoTrans], stale,
                                 firstQ, secondQ, deadList)
    /\ UNCHANGED <<remote, toDestroy, timerAt>>

(* EOF, a read error or a response that cannot be understood: SetDead.     *)
CloseCacheConnection(i) ==
    /\ MainLoop
    /\ slot[i] = "active"
    /\ slot' = [slot EXCEPT ![i] = "closed"]
    /\ deadList' = Append(deadList, i)
    /\ UNCHANGED <<cur, stale, queues, puts, toDestroy, timerAt>>
-----------------------------------------------------------------------------
CleanUpClosedConnections ==
    /\ MainLoop
    /\ deadList # <<>>
    /\ toDestroy' = deadList
    /\ deadList' = <<>>
    /\ UNCHANGED <<slot, cur, stale, queues, puts, timerAt>>

(* The interrupted request of the connection is queued again.              *)
DestroyCacheConnectionInfo ==
    /\ toDestroy # <<>>
    /\ LET i == Head(toDestroy)
           t == cur[i]
       IN  IssuePendingCacheRequests([slot EXCEPT ![i] = "null"],
               [cur EXCEPT ![i] = NoTrans], stale \ {i},
               ScheduleFirst(t, FALSE), ScheduleSecond(t), deadList)
    /\ toDestroy' = Tail(toDestroy)
    /\ UNCHANGED <<puts, timerAt>>

(* Connection i has not been used for 15 s.                                *)
TimePasses(i) ==
    /\ slot[i] # "null" /\ i \notin stale
    /\ stale' = stale \cup {i}
    /\ UNCHANGED <<slot, cur, queues, puts, deadList, toDestroy, timerAt>>

TimerCB == /\ MainLoop
           /\ timerAt' = 1
           /\ UNCHANGED <<slot, cur, stale, queues, puts, deadList, toDestroy>>

(* One turn of the loop of CheckDiskCacheConnections.                      *)
NextSlot == timerAt' = IF timerAt = MaxCacheConns THEN 0 ELSE timerAt + 1

MakeNewCacheConnection ==
    /\ timerAt # 0 /\ slot[timerAt] = "null"
    /\ slot' = [slot EXCEPT ![timerAt] = "active"]
    /\ NextSlot
    /\ UNCHANGED <<cur, stale, queues, puts, deadList, toDestroy>>

KeepAliveIfNoWork(i) == slot[i] # "null" /\ i \in stale /\ NumPending = 0 \* mutant
NeedsKeepAlive(i) == slot[i] # "null" /\ i \in stale /\ NumPending < KeepAliveLimit

KeepAlive(t) ==
    /\ timerAt # 0 /\ NeedsKeepAlive(timerAt)
    /\ ~Outstanding(t) /\ t = CHOOSE u \in KeepAlives : ~Outstanding(u)
    /\ IssuePendingCacheRequests(slot, cur, stale, ScheduleFirst(t, TRUE),
                                 secondQ, deadList)
    /\ NextSlot
    /\ UNCHANGED <<puts, toDestroy>>

(* KeepAlives is a bound: with all of them outstanding none is sent.       *)
SkipSlot ==
    /\ timerAt # 0 /\ slot[timerAt] # "null"
    /\ ~NeedsKeepAlive(timerAt) \/ \A t \in KeepAlives : Outstanding(t)
    /\ NextSlot
    /\ UNCHANGED <<slot, cur, stale, queues, puts, deadList, toDestroy>>

CheckDiskCacheConnections ==
    MakeNewCacheConnection \/ SkipSlot \/ \E t \in KeepAlives : KeepAlive(t)
-----------------------------------------------------------------------------
Next ==
    \/ \E t \in Gets : SendCacheRequest(t)
    \/ \E p \in Puts, c \in Chunks : PutDisk(p, c)
    \/ \E c \in Chunks : DistributePutRequest(c) \/ ProcessPutResponse(c)
    \/ \E i \in Slots : \/ ProcessCacheResponse(i)
                        \/ CloseCacheConnection(i)
                        \/ TimePasses(i)
    \/ CleanUpClosedConnections \/ DestroyCacheConnectionInfo
    \/ TimerCB \/ CheckDiskCacheConnections

Spec == Init /\ [][Next]_vars

(* The loop runs for ever and goes through its two lists, the timer fires  *)
(* again and again and an idle connection ages.  HashCache answers, or the *)
(* connection breaks: a request does not stay on it for ever.  Each is     *)
(* stated of the states it leads to.                                       *)
Answer(t) == \E i \in Slots : cur[i] = t /\ ProcessCacheResponse(i)
Fairness ==
    /\ []<>(deadList = <<>>) /\ []<>(toDestroy = <<>>)
    /\ []<>(timerAt # 0) /\ []<>(timerAt = 0)
    /\ \A i \in Slots : []<>(slot[i] = "null" \/ i \in stale)
    /\ \A i \in Slots, t \in Trans : []<>(cur[i] # t)
FairSpec == Spec /\ Fairness
-----------------------------------------------------------------------------
(* Every variable keeps the shape its C declaration gives it.              *)
TypeOK == /\ slot \in [Slots -> {"null", "active", "closed"}]
          /\ cur \in [Slots -> Trans \cup {NoTrans}]
          /\ stale \subseteq Slots
          /\ firstQ \in Seq(FirstClass) /\ secondQ \in Seq(Puts)
          /\ putChunk \in [Puts -> Chunks \cup {NoChunk}]
          /\ putTmp \subseteq Chunks /\ remote \subseteq Chunks
          /\ deadList \in Seq(Slots) /\ toDestroy \in Seq(Slots)
          /\ timerAt \in 0..MaxCacheConns

(* A transaction is in one place: it is queued once, or it is the current  *)
(* transaction of one connection that exists.  IssuePendingCacheRequests,  *)
(* the retry of DestroyCacheConnectionInfo and the free() of               *)
(* ProcessCacheResponse would otherwise send it twice or free it twice.    *)
OnePlace ==
    /\ \A i, j \in 1..Len(firstQ) : firstQ[i] = firstQ[j] => i = j
    /\ \A i, j \in 1..Len(secondQ) : secondQ[i] = secondQ[j] => i = j
    /\ \A i, j \in Slots : cur[i] = cur[j] /\ cur[i] # NoTrans => i = j
    /\ \A i \in Slots : cur[i] # NoTrans => ~InQueue(cur[i])
    /\ \A i \in Slots : slot[i] = "null" => cur[i] = NoTrans

(* No request is lost: it stays outstanding until its response has been    *)
(* processed, whatever connections close and are destroyed meanwhile.      *)
NeverLost ==
    [][\A t \in Trans : Outstanding(t) /\ ~Outstanding(t)' => Answer(t)]_vars

(* disk.c:302: a chunk stays readable in put_tmp_ht until its PUT finishes,*)
(* so no chunk has two PUTs at a time, the first of which would drop the   *)
(* copy of the second.  A chunk that is PUT to another peer at the same    *)
(* time has no such promise: both share one entry of the table.            *)
Own(p) == Outstanding(p) /\ putChunk[p] \notin RemoteChunks
KeptUntilPutDone ==
    /\ \A p \in Puts : Own(p) => putChunk[p] \in putTmp
    /\ \A p, q \in Puts : Own(p) /\ Own(q) /\ putChunk[p] = putChunk[q] => p = q

(* Some connection could take a request that is waiting.                   *)
Stalled == NumPending > 0 /\ IdleCacheConns(slot, cur) # {}

(* A GET is answered unless another connection dies first, even one that a *)
(* dead connection gave back and that no response will push on; only a     *)
(* backlog beyond which the timer sends no keep-alive may stall for ever.  *)
GetsAnswered ==
    \A t \in Gets : Outstanding(t) ~>
        (\/ ~Outstanding(t)
         \/ \E i \in Slots : slot[i] = "closed"
         \/ Stalled /\ NumPending >= KeepAliveLimit)
=============================================================================

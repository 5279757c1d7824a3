------------------------------ MODULE SetIndex ------------------------------
(***************************************************************************)
(* One set of the index at work: lookups by joinFlow, entries written by   *)
(* formDiskBatches and unlocked when their blocks are on disk, entries     *)
(* discarded by processFurtherBlocks, and its read locks.                  *)
(***************************************************************************)
EXTENDS ClockSet, Sequences

CONSTANTS Hashes,     \* hashes that map to this set
          Responses,  \* responses being stored in it at a time
          MaxReads    \* read locks at a time (bound of the model)

ASSUME SetAssumption == Hashes \subseteq Int /\ MaxReads \in Nat

VARIABLES headers,  \* headers[] of the set
          clocks,   \* clocks of the set
          locks,    \* the lock table, for the ways of this set
          match,    \* the match of each response that waits for its write
          refused   \* a response was stored when every way was locked

vars == <<headers, clocks, locks, match, refused>>

Idle == -2   \* a response that is not waiting for a write

Init == /\ headers = [w \in Way |-> NeverUsed]
        /\ clocks = InitClocks
        /\ locks = NoLocks
        /\ match = [p \in Responses |-> Idle]
        /\ refused = FALSE

(* joinFlow looks the hash up; a hit makes the way the most recent one.  A *)
(* hit on an entry the log has overtaken, like a miss, changes nothing.    *)
Lookup(h) ==
    LET w == getBestMatchByIndex(headers, clocks, h)
    IN  /\ w # NoWay
        /\ clocks' = updateClocks(clocks, w)
        /\ UNCHANGED <<headers, locks, match, refused>>

(* formDiskBatches takes a way for a response, locks it and fills it in.   *)
(* With no way free the response keeps match 0 and is written all the same.*)
Store(p, h) ==
    LET w == getFreeLocation(clocks, Held(locks))
    IN  /\ match[p] = Idle
        /\ IF w = NoWay
           THEN /\ match' = [match EXCEPT ![p] = 0]
                /\ refused' = TRUE
                /\ UNCHANGED <<headers, clocks, locks>>
           ELSE /\ match' = [match EXCEPT ![p] = w]
                /\ locks' = addWriteLock(locks, w)
                /\ headers' = [headers EXCEPT ![w] = h]
                /\ clocks' = updateClocks(clocks, w)
                /\ UNCHANGED refused

(* The blocks of the response are on disk: handleDataHelperRead.           *)
Written(p) ==
    /\ match[p] # Idle
    /\ locks' = removeWriteLock(locks, match[p])
    /\ match' = [match EXCEPT ![p] = Idle]
    /\ UNCHANGED <<headers, clocks, refused>>

(* checkBatchWritesNow drops the batch when the log wrapped around inside  *)
(* it: the response goes and its lock stays.                               *)
Dropped(p) ==
    /\ match[p] # Idle
    /\ match' = [match EXCEPT ![p] = Idle]
    /\ UNCHANGED <<headers, clocks, locks, refused>>

(* discardHeaders, for an object that has gone or cannot be parsed.        *)
discardHeaders(w) ==
    /\ clocks[w] # 0
    /\ headers' = [headers EXCEPT ![w] = Discarded]
    /\ clocks' = discardClocks(clocks, w)
    /\ UNCHANGED <<locks, match, refused>>

(* processFurtherBlocks locks way 0 for its reader, whatever way was hit:  *)
(* the match it passes on indexes copies of a single block.                *)
StartReading ==
    /\ locks[0].reads < MaxReads
    /\ locks' = addReadLock(locks, 0)
    /\ UNCHANGED <<headers, clocks, match, refused>>

DoneReading ==
    /\ locks[0].reads > 0
    /\ locks' = removeReadLock(locks, 0)
    /\ UNCHANGED <<headers, clocks, match, refused>>

Next == \/ \E h \in Hashes : Lookup(h) \/ \E p \in Responses : Store(p, h)
        \/ \E p \in Responses : Written(p) \/ Dropped(p)
        \/ \E w \in Way : discardHeaders(w)
        \/ StartReading \/ DoneReading

Spec == Init /\ [][Next]_vars

-----------------------------------------------------------------------------
(* The set's fields hold the values their C types allow.                   *)
TypeOK == /\ headers \in [Way -> Hashes \cup {NeverUsed, Discarded}]
          /\ clocks \in [Way -> Way]
          /\ locks \in [Way -> [reads : Nat, write : {0, 1}]]
          /\ match \in [Responses -> Way \cup {Idle}]
          /\ refused \in BOOLEAN

(* The clocks are a permutation of 0 .. WAYS-1 after any sequence of hits, *)
(* stores and discards: the debug builds of getFreeLocation, updateClocks  *)
(* and getBestMatchByIndex exit when the clocks of a set do not add up     *)
(* to 28.                                                                  *)
Permutation(clk) == /\ \A v, w \in Way : clk[v] = clk[w] => v = w
                    /\ \A c \in Way : \E w \in Way : clk[w] = c
ClocksPermuted == clocks \in [Way -> Way] /\ Permutation(clocks)

(* Until a response is refused a way, two responses whose writes are       *)
(* outstanding never have the same way, and each has its way locked:       *)
(* nobody else may take it before the blocks are on disk.                  *)
WritersApart ==
    ~refused => \A p, q \in Responses :
        match[p] # Idle => /\ locks[match[p]].write = 1
                           /\ (match[q] = match[p] => p = q)

(* The order of the ways that the clocks stand for.                        *)
Older == {pair \in Way \X Way : clocks[pair[1]] < clocks[pair[2]]}

LRU == INSTANCE LruSet WITH older <- Older, busy <- Held(locks)

(* The set keeps its ways in the order of their last use: a hit or a store *)
(* makes a way the most recent, a discard the least recent, neither        *)
(* disturbs the order of the others, and a store takes the least recent    *)
(* way without a lock.                                                     *)
IsLru == LRU!LruSpec
=============================================================================

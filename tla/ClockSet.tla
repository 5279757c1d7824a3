------------------------------ MODULE ClockSet ------------------------------
(***************************************************************************)
(* One set of HashCache's set-associative index: the recency of its ways,  *)
(* packed as clocks, the search for a hash, the choice of a way to         *)
(* overwrite, and the locks on ways.  From index.c, locks.c,               *)
(* getFreeLocation of loop.c and getBestMatchByIndex of proxy.c (build     *)
(* FULL, COMPLETE_LOG).                                                    *)
(***************************************************************************)
EXTENDS Integers

CONSTANT Ways   \* WAYS: entries of a set (8 in the build)

ASSUME WaysAssumption == Ways \in Nat \ {0}

Way == 0 .. Ways - 1

NoWay == -1

NeverUsed == 0    \* the header initIndex gives an entry
Discarded == -1   \* the header discardHeaders leaves

InitClocks == [w \in Way |-> w]

(* updateClocks: the way becomes the most recent one, those above its old  *)
(* place move down by one.                                                 *)
updateClocks(clk, m) ==
    [w \in Way |-> IF clk[w] > clk[m] THEN clk[w] - 1
                   ELSE IF clk[w] = clk[m] THEN Ways - 1 ELSE clk[w]]

(* The clocks after discardHeaders: the way becomes the least recent one.  *)
discardClocks(clk, m) ==
    [w \in Way |-> IF clk[w] < clk[m] THEN clk[w] + 1
                   ELSE IF clk[w] = clk[m] THEN 0 ELSE clk[w]]

(* getBestMatchByIndex: the most recent way that holds the hash; the least *)
(* recent way of the set (clock 0) is never a match.                       *)
getBestMatchByIndex(hdr, clk, h) ==
    LET hits == {w \in Way : clk[w] > 0 /\ hdr[w] = h}
    IN  IF hits = {} THEN NoWay
        ELSE CHOOSE w \in hits : \A v \in hits : clk[v] <= clk[w]

(* getFreeLocation: the least recent way that nobody holds a lock on.      *)
MostRecent(clk, held) ==                                             \* mutant
    IF Way \subseteq held THEN NoWay
    ELSE CHOOSE w \in Way \ held : \A v \in Way \ held : clk[v] <= clk[w]
IgnoresLocks(clk, held) ==                                           \* mutant
    CHOOSE w \in Way : \A v \in Way : clk[w] <= clk[v]
getFreeLocation(clk, held) ==
    IF Way \subseteq held THEN NoWay
    ELSE CHOOSE w \in Way \ held : \A v \in Way \ held : clk[w] <= clk[v]

(* The lock table, keyed by way: the readers and writers of each entry.  A *)
(* pair of zeros stands for no entry.                                      *)
NoLocks == [w \in Way |-> [reads |-> 0, write |-> 0]]

lockOn(lk, w) == lk[w].reads + lk[w].write > 0
Held(lk) == {w \in Way : lockOn(lk, w)}

addReadLock(lk, w) == [lk EXCEPT ![w].reads = @ + 1]

addWriteLock(lk, w) == IF lockOn(lk, w) THEN lk ELSE [lk EXCEPT ![w].write = 1]

removeReadLock(lk, w) ==
    IF lk[w].reads = 0 THEN lk ELSE [lk EXCEPT ![w].reads = @ - 1]

removeWriteLock(lk, w) ==
    IF lk[w].write = 0 THEN lk ELSE [lk EXCEPT ![w].write = @ - 1]
=============================================================================

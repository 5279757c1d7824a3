-------------------------- MODULE SetIndex_proofs --------------------------
(***************************************************************************)
(* A set of the index, for every number of ways, every set of hashes and   *)
(* any number of responses: its clocks are a permutation of its ways, so   *)
(* that they implement LruSet, and two responses never write to one way.   *)
(***************************************************************************)
EXTENDS SetIndex, WellFoundedInduction, TLAPS

(* A permutation stays one when a way becomes the most recent.             *)
LEMMA UpdatePermutes ==
    ASSUME NEW clk \in [Way -> Way], Permutation(clk), NEW m \in Way
    PROVE  /\ updateClocks(clk, m) \in [Way -> Way]
           /\ Permutation(updateClocks(clk, m))
<1> DEFINE new == updateClocks(clk, m)
<1>1. Ways \in Nat /\ Ways > 0 BY WaysAssumption
<1>2. \A w \in Way : clk[w] \in 0 .. Ways - 1 BY DEF Way
<1>3. \A w \in Way : new[w] = IF clk[w] > clk[m] THEN clk[w] - 1
                              ELSE IF clk[w] = clk[m] THEN Ways - 1 ELSE clk[w]
  BY DEF updateClocks
<1>4. \A v, w \in Way : clk[v] = clk[w] => v = w BY DEF Permutation
<1>5. new \in [Way -> Way]
  <2>1. ASSUME NEW w \in Way PROVE new[w] \in 0 .. Ways - 1
    <3>1. clk[w] \in 0 .. Ways - 1 /\ clk[m] \in 0 .. Ways - 1 BY <1>2
    <3> HIDE DEF new
    <3> QED BY <3>1, <1>1, <1>3
  <2>2. new = [w \in Way |-> new[w]] BY DEF updateClocks
  <2>3. \A w \in Way : new[w] \in Way BY <2>1 DEF Way
  <2> HIDE DEF new
  <2> QED BY <2>2, <2>3
<1>6. ASSUME NEW v \in Way, NEW w \in Way, new[v] = new[w] PROVE v = w
  <2> DEFINE a == clk[v]  b == clk[w]  c == clk[m]
  <2>1. a \in 0 .. Ways - 1 /\ b \in 0 .. Ways - 1 /\ c \in 0 .. Ways - 1 BY <1>2
  <2>2. /\ new[v] = IF a > c THEN a - 1 ELSE IF a = c THEN Ways - 1 ELSE a
        /\ new[w] = IF b > c THEN b - 1 ELSE IF b = c THEN Ways - 1 ELSE b
    BY <1>3
  <2>3. a = b
    <3> HIDE DEF a, b, c, new
    <3> QED BY <2>1, <2>2, <1>1, <1>6
  <2> QED BY <2>3, <1>4
<1>7. ASSUME NEW c \in Way PROVE \E w \in Way : new[w] = c
  <2>1. CASE c = Ways - 1 BY <2>1, <1>2, <1>3
  <2>2. CASE c # Ways - 1 /\ c < clk[m]
    <3>1. PICK w \in Way : clk[w] = c BY DEF Permutation
    <3> QED BY <3>1, <2>2, <1>2, <1>3
  <2>3. CASE c # Ways - 1 /\ ~(c < clk[m])
    <3>1. c + 1 \in Way BY <2>3, <1>1 DEF Way
    <3>2. PICK w \in Way : clk[w] = c + 1 BY <3>1 DEF Permutation
    <3>3. c \in Int BY DEF Way
    <3> QED BY <3>2, <3>3, <2>3, <1>2, <1>3
  <2> QED BY <2>1, <2>2, <2>3
<1> QED BY <1>5, <1>6, <1>7 DEF Permutation

(* And when a way becomes the least recent.                                *)
LEMMA DiscardPermutes ==
    ASSUME NEW clk \in [Way -> Way], Permutation(clk), NEW m \in Way
    PROVE  /\ discardClocks(clk, m) \in [Way -> Way]
           /\ Permutation(discardClocks(clk, m))
<1> DEFINE new == discardClocks(clk, m)
<1>1. Ways \in Nat /\ Ways > 0 BY WaysAssumption
<1>2. \A w \in Way : clk[w] \in 0 .. Ways - 1 BY DEF Way
<1>3. \A w \in Way : new[w] = IF clk[w] < clk[m] THEN clk[w] + 1
                              ELSE IF clk[w] = clk[m] THEN 0 ELSE clk[w]
  BY DEF discardClocks
<1>4. \A v, w \in Way : clk[v] = clk[w] => v = w BY DEF Permutation
<1>5. new \in [Way -> Way]
  <2>1. ASSUME NEW w \in Way PROVE new[w] \in 0 .. Ways - 1
    <3>1. clk[w] \in 0 .. Ways - 1 /\ clk[m] \in 0 .. Ways - 1 BY <1>2
    <3> HIDE DEF new
    <3> QED BY <3>1, <1>1, <1>3
  <2>2. new = [w \in Way |-> new[w]] BY DEF discardClocks
  <2>3. \A w \in Way : new[w] \in Way BY <2>1 DEF Way
  <2> HIDE DEF new
  <2> QED BY <2>2, <2>3
<1>6. ASSUME NEW v \in Way, NEW w \in Way, new[v] = new[w] PROVE v = w
  <2> DEFINE a == clk[v]  b == clk[w]  c == clk[m]
  <2>1. a \in 0 .. Ways - 1 /\ b \in 0 .. Ways - 1 /\ c \in 0 .. Ways - 1 BY <1>2
  <2>2. /\ new[v] = IF a < c THEN a + 1 ELSE IF a = c THEN 0 ELSE a
        /\ new[w] = IF b < c THEN b + 1 ELSE IF b = c THEN 0 ELSE b
    BY <1>3
  <2>3. a = b
    <3> HIDE DEF a, b, c, new
    <3> QED BY <2>1, <2>2, <1>1, <1>6
  <2> QED BY <2>3, <1>4
<1>7. ASSUME NEW c \in Way PROVE \E w \in Way : new[w] = c
  <2>1. CASE c = 0 BY <2>1, <1>2, <1>3
  <2>2. CASE c # 0 /\ c > clk[m]
    <3>1. PICK w \in Way : clk[w] = c BY DEF Permutation
    <3> QED BY <3>1, <2>2, <1>2, <1>3
  <2>3. CASE c # 0 /\ ~(c > clk[m])
    <3>1. c - 1 \in Way BY <2>3, <1>1 DEF Way
    <3>2. PICK w \in Way : clk[w] = c - 1 BY <3>1 DEF Permutation
    <3>3. c \in Int BY DEF Way
    <3> QED BY <3>2, <3>3, <2>3, <1>2, <1>3
  <2> QED BY <2>1, <2>2, <2>3
<1> QED BY <1>5, <1>6, <1>7 DEF Permutation

(* A set of naturals that is not empty has a least element.                *)
LEMMA LeastNatural ==
    ASSUME NEW T \in SUBSET Nat, T # {}
    PROVE  \E x \in T : \A y \in T : x <= y
<1>1. \E x \in T : \A y \in T : ~ (<<y, x>> \in OpToRel(<, Nat))
  BY NatLessThanWellFounded, WFMin
<1>2. ASSUME NEW x \in Nat, NEW y \in Nat, ~ (<<y, x>> \in OpToRel(<, Nat))
      PROVE  x <= y
  BY <1>2 DEF OpToRel
<1> QED BY <1>1, <1>2

(* A search that finds something finds a way of the set.                   *)
LEMMA MatchIsAWay ==
    ASSUME NEW hdr, NEW clk \in [Way -> Way], NEW h,
           getBestMatchByIndex(hdr, clk, h) # NoWay
    PROVE  getBestMatchByIndex(hdr, clk, h) \in Way
<1> DEFINE hits == {w \in Way : clk[w] > 0 /\ hdr[w] = h}
           T == {Ways - 1 - clk[w] : w \in hits}
<1>1. hits # {} BY DEF getBestMatchByIndex
<1>2. Ways \in Nat BY WaysAssumption
<1>3. \A w \in Way : clk[w] \in 0 .. Ways - 1 BY DEF Way
<1>4. T \in SUBSET Nat BY <1>2, <1>3
<1>5. T # {} BY <1>1
<1>6. PICK x \in T : \A y \in T : x <= y BY <1>4, <1>5, LeastNatural
<1>7. PICK w \in hits : x = Ways - 1 - clk[w] BY <1>6
<1>8. \A v \in hits : Ways - 1 - clk[w] <= Ways - 1 - clk[v] BY <1>6, <1>7
<1>9. \A v \in hits : clk[v] <= clk[w] BY <1>8, <1>2, <1>3
<1>10. getBestMatchByIndex(hdr, clk, h) =
         CHOOSE u \in hits : \A v \in hits : clk[v] <= clk[u]
  BY <1>1 DEF getBestMatchByIndex
<1> QED BY <1>7, <1>9, <1>10

(* So does a search for a way that nobody has locked, and it is the least  *)
(* recent of these.                                                        *)
LEMMA FreeIsAWay ==
    ASSUME NEW clk \in [Way -> Way], NEW held,
           getFreeLocation(clk, held) # NoWay
    PROVE  /\ getFreeLocation(clk, held) \in Way \ held
           /\ \A v \in Way \ held : clk[getFreeLocation(clk, held)] <= clk[v]
<1> DEFINE free == Way \ held
           T == {clk[w] : w \in free}
<1>1. free # {} BY DEF getFreeLocation
<1>3. \A w \in Way : clk[w] \in Nat BY DEF Way
<1>4. T \in SUBSET Nat /\ T # {} BY <1>1, <1>3
<1>6. PICK x \in T : \A y \in T : x <= y BY <1>4, LeastNatural
<1>7. PICK w \in free : x = clk[w] BY <1>6
<1>9. \A v \in free : clk[w] <= clk[v] BY <1>6, <1>7
<1>10. getFreeLocation(clk, held) =
         CHOOSE u \in free : \A v \in free : clk[u] <= clk[v]
  BY <1>1 DEF getFreeLocation
<1> QED BY <1>7, <1>9, <1>10

-----------------------------------------------------------------------------
(* What the clocks, and the rest of the set, are after any step.           *)
Inv == TypeOK /\ ClocksPermuted

LEMMA InitInv == Init => Inv
<1> SUFFICES ASSUME Init PROVE Inv OBVIOUS
<1>1. TypeOK
  BY WaysAssumption DEF Init, TypeOK, InitClocks, NoLocks, Idle
<1>2. ClocksPermuted
  BY DEF Init, InitClocks, ClocksPermuted, Permutation
<1> QED BY <1>1, <1>2 DEF Inv

LEMMA StepInv == Inv /\ [Next]_vars => Inv'
<1> SUFFICES ASSUME Inv, [Next]_vars PROVE Inv' OBVIOUS
<1> USE DEF Inv
<1>0. /\ clocks \in [Way -> Way] /\ Permutation(clocks)
      /\ 0 \in Way
  <2>1. 0 \in Way BY WaysAssumption DEF Way
  <2> QED BY <2>1 DEF ClocksPermuted
<1>1. ASSUME NEW h \in Hashes, Lookup(h) PROVE Inv'
  <2> DEFINE w == getBestMatchByIndex(headers, clocks, h)
  <2>1. w \in Way BY <1>0, <1>1, MatchIsAWay DEF Lookup
  <2>2. clocks' = updateClocks(clocks, w) BY <1>1 DEF Lookup
  <2>3. ClocksPermuted'
    <3> HIDE DEF w
    <3>1. /\ updateClocks(clocks, w) \in [Way -> Way]
          /\ Permutation(updateClocks(clocks, w))
      BY <2>1, <1>0, UpdatePermutes
    <3> QED BY <3>1, <2>2 DEF ClocksPermuted, Permutation
  <2> QED BY <2>3, <1>1 DEF Lookup, TypeOK, ClocksPermuted
<1>2. ASSUME NEW p \in Responses, NEW h \in Hashes, Store(p, h) PROVE Inv'
  <2> DEFINE w == getFreeLocation(clocks, Held(locks))
  <2>1. CASE w = NoWay
    <3>1. /\ match' = [match EXCEPT ![p] = 0] /\ refused' = TRUE
          /\ UNCHANGED <<headers, clocks, locks>>
      BY <1>2, <2>1 DEF Store
    <3> QED BY <3>1, <1>0 DEF TypeOK, ClocksPermuted, Permutation
  <2>2. CASE w # NoWay
    <3>1. w \in Way \ Held(locks) BY <1>0, <2>2, FreeIsAWay
    <3>2. /\ match' = [match EXCEPT ![p] = w]
          /\ locks' = addWriteLock(locks, w)
          /\ headers' = [headers EXCEPT ![w] = h]
          /\ clocks' = updateClocks(clocks, w)
          /\ UNCHANGED refused
      BY <1>2, <2>2 DEF Store
    <3> HIDE DEF w
    <3>3. ClocksPermuted'
      <4>1. /\ updateClocks(clocks, w) \in [Way -> Way]
            /\ Permutation(updateClocks(clocks, w))
        BY <3>1, <1>0, UpdatePermutes
      <4> QED BY <4>1, <3>2 DEF ClocksPermuted, Permutation
    <3>4. locks' \in [Way -> [reads : Nat, write : {0, 1}]]
      BY <3>1, <3>2 DEF addWriteLock, TypeOK
    <3> QED BY <3>1, <3>2, <3>3, <3>4 DEF TypeOK, ClocksPermuted
  <2> QED BY <2>1, <2>2
<1>3. ASSUME NEW p \in Responses, Written(p) PROVE Inv'
  <2>1. match[p] \in Way BY <1>3 DEF Written, TypeOK
  <2>2. locks' \in [Way -> [reads : Nat, write : {0, 1}]]
    BY <1>3, <2>1 DEF Written, removeWriteLock, TypeOK
  <2> QED BY <1>3, <2>2 DEF Written, TypeOK, ClocksPermuted, Permutation
<1>4. ASSUME NEW p \in Responses, Dropped(p) PROVE Inv'
  BY <1>4 DEF Dropped, TypeOK, ClocksPermuted, Permutation
<1>5. ASSUME NEW w \in Way, discardHeaders(w) PROVE Inv'
  <2>1. clocks' = discardClocks(clocks, w) BY <1>5 DEF discardHeaders
  <2>2. ClocksPermuted'
    <3>1. /\ discardClocks(clocks, w) \in [Way -> Way]
          /\ Permutation(discardClocks(clocks, w))
      BY <1>0, DiscardPermutes
    <3> QED BY <3>1, <2>1 DEF ClocksPermuted, Permutation
  <2> QED BY <2>2, <1>5 DEF discardHeaders, TypeOK, ClocksPermuted
<1>6. CASE StartReading
  <2>1. locks' \in [Way -> [reads : Nat, write : {0, 1}]]
    BY <1>6, <1>0 DEF StartReading, addReadLock, TypeOK
  <2> QED BY <1>6, <2>1 DEF StartReading, TypeOK, ClocksPermuted, Permutation
<1>7. CASE DoneReading
  <2>1. locks' \in [Way -> [reads : Nat, write : {0, 1}]]
    BY <1>7, <1>0 DEF DoneReading, removeReadLock, TypeOK
  <2> QED BY <1>7, <2>1 DEF DoneReading, TypeOK, ClocksPermuted, Permutation
<1>8. CASE UNCHANGED vars
  BY <1>8 DEF vars, TypeOK, ClocksPermuted, Permutation
<1> QED BY <1>1, <1>2, <1>3, <1>4, <1>5, <1>6, <1>7, <1>8 DEF Next

(* The fields of a set keep their types, whatever is looked up, stored,    *)
(* dropped or discarded in it.                                             *)
THEOREM TypeCorrect == Spec => []TypeOK
<1>1. Inv => TypeOK BY DEF Inv
<1> QED BY InitInv, StepInv, <1>1, PTL DEF Spec

(* updateClocks and discardHeaders keep the clocks of a set a permutation  *)
(* of 0 .. WAYS-1, for every number of ways.                               *)
THEOREM ClocksAlwaysPermuted == Spec => []ClocksPermuted
<1>1. Inv => ClocksPermuted BY DEF Inv
<1> QED BY InitInv, StepInv, <1>1, PTL DEF Spec

(* WritersApart is inductive given the types: a store takes a way without  *)
(* a lock, so no response that waits can have it, and a finished write     *)
(* takes away only the lock of a way that no other response has.           *)
LEMMA StepWriters == Inv /\ WritersApart /\ [Next]_vars => WritersApart'
<1> SUFFICES ASSUME Inv, WritersApart, [Next]_vars, ~refused'
             PROVE  WritersApart'
  BY DEF WritersApart
<1> USE DEF Inv
<1>0. /\ match \in [Responses -> Way \cup {Idle}]
      /\ locks \in [Way -> [reads : Nat, write : {0, 1}]]
      /\ 0 \in Way
      /\ Idle \notin Way
  BY WaysAssumption, SMTT(30) DEF TypeOK, Way, Idle
<1>1. ASSUME NEW h \in Hashes, Lookup(h) PROVE WritersApart'
  BY <1>1 DEF Lookup, WritersApart
<1>2. ASSUME NEW p \in Responses, NEW h \in Hashes, Store(p, h)
      PROVE  WritersApart'
  <2> DEFINE w == getFreeLocation(clocks, Held(locks))
  <2>1. w # NoWay BY <1>2 DEF Store
  <2>2. w \in Way \ Held(locks)
    BY <2>1, FreeIsAWay DEF ClocksPermuted
  <2>3. /\ match' = [match EXCEPT ![p] = w]
        /\ locks' = addWriteLock(locks, w)
        /\ ~refused
    BY <1>2, <2>1 DEF Store
  <2> HIDE DEF w
  <2>4. ~lockOn(locks, w) BY <2>2 DEF Held
  <2>5. locks[w].write # 1 BY <2>2, <2>4, <1>0 DEF lockOn
  <2>6. locks' = [locks EXCEPT ![w].write = 1] BY <2>3, <2>4 DEF addWriteLock
  <2>7. locks'[w].write = 1 /\ \A v \in Way \ {w} : locks'[v] = locks[v]
    BY <2>2, <2>6, <1>0
  <2>8. match'[p] = w /\ \A r \in Responses \ {p} : match'[r] = match[r]
    BY <2>3, <1>0
  <2>9. ASSUME NEW r \in Responses \ {p}, match[r] # Idle
        PROVE  match[r] \in Way \ {w} /\ locks[match[r]].write = 1
    BY <2>9, <2>3, <2>5, <1>0 DEF WritersApart
  <2> QED BY <2>2, <2>3, <2>7, <2>8, <2>9, <1>0 DEF WritersApart
<1>3. ASSUME NEW p \in Responses, Written(p) PROVE WritersApart'
  <2> DEFINE m == match[p]
  <2>1. m \in Way /\ ~refused /\ match' = [match EXCEPT ![p] = Idle]
    BY <1>0, <1>3 DEF Written
  <2>2. \A v \in Way \ {m} : locks'[v] = locks[v]
    BY <2>1, <1>0, <1>3 DEF Written, removeWriteLock
  <2>3. ASSUME NEW r \in Responses, match'[r] # Idle
        PROVE  /\ r # p /\ match'[r] = match[r] /\ match[r] \in Way \ {m}
               /\ locks[match[r]].write = 1
    BY <2>1, <2>3, <1>0 DEF WritersApart
  <2> QED BY <2>1, <2>2, <2>3, <1>0 DEF WritersApart
<1>4. ASSUME NEW p \in Responses, Dropped(p) PROVE WritersApart'
  BY <1>0, <1>4 DEF Dropped, WritersApart
<1>5. ASSUME NEW w \in Way, discardHeaders(w) PROVE WritersApart'
  BY <1>5 DEF discardHeaders, WritersApart
<1>6. CASE StartReading
  <2>1. \A v \in Way : locks'[v].write = locks[v].write
    BY <1>6, <1>0 DEF StartReading, addReadLock
  <2> QED BY <1>6, <2>1, <1>0 DEF StartReading, WritersApart
<1>7. CASE DoneReading
  <2>1. \A v \in Way : locks'[v].write = locks[v].write
    BY <1>7, <1>0 DEF DoneReading, removeReadLock
  <2> QED BY <1>7, <2>1, <1>0 DEF DoneReading, WritersApart
<1>8. CASE UNCHANGED vars
  BY <1>8 DEF vars, WritersApart
<1> QED BY <1>1, <1>2, <1>3, <1>4, <1>5, <1>6, <1>7, <1>8 DEF Next

(* While no response has been refused a way, each response whose write is  *)
(* outstanding has a way, and its lock, to itself, for any number of       *)
(* responses and readers.                                                  *)
THEOREM WritersStayApart == Spec => []WritersApart
<1>1. Init => WritersApart BY DEF Init, WritersApart
<1> QED BY <1>1, InitInv, StepInv, StepWriters, PTL DEF Spec
-----------------------------------------------------------------------------
(* The order of the ways after updateClocks and after discardHeaders.      *)
LEMMA UpdateOlder ==
    ASSUME NEW clk \in [Way -> Way], Permutation(clk),
           NEW m \in Way, NEW u \in Way, NEW v \in Way
    PROVE  updateClocks(clk, m)[u] < updateClocks(clk, m)[v]
             <=> u # m /\ (v = m \/ clk[u] < clk[v])
<1> DEFINE new == updateClocks(clk, m)
           a == clk[u]  b == clk[v]  c == clk[m]
<1>1. Ways \in Nat /\ Ways > 0 BY WaysAssumption
<1>2. a \in 0 .. Ways - 1 /\ b \in 0 .. Ways - 1 /\ c \in 0 .. Ways - 1 BY DEF Way
<1>3. /\ new[u] = IF a > c THEN a - 1 ELSE IF a = c THEN Ways - 1 ELSE a
      /\ new[v] = IF b > c THEN b - 1 ELSE IF b = c THEN Ways - 1 ELSE b
  BY DEF updateClocks
<1>4. (u = m <=> a = c) /\ (v = m <=> b = c) BY DEF Permutation
<1>5. new[u] < new[v] <=> a # c /\ (b = c \/ a < b)
  <2> HIDE DEF a, b, c, new
  <2> QED BY <1>1, <1>2, <1>3
<1> QED BY <1>4, <1>5

LEMMA DiscardOlder ==
    ASSUME NEW clk \in [Way -> Way], Permutation(clk),
           NEW m \in Way, NEW u \in Way, NEW v \in Way
    PROVE  discardClocks(clk, m)[u] < discardClocks(clk, m)[v]
             <=> v # m /\ (u = m \/ clk[u] < clk[v])
<1> DEFINE new == discardClocks(clk, m)
           a == clk[u]  b == clk[v]  c == clk[m]
<1>1. Ways \in Nat /\ Ways > 0 BY WaysAssumption
<1>2. a \in 0 .. Ways - 1 /\ b \in 0 .. Ways - 1 /\ c \in 0 .. Ways - 1 BY DEF Way
<1>3. /\ new[u] = IF a < c THEN a + 1 ELSE IF a = c THEN 0 ELSE a
      /\ new[v] = IF b < c THEN b + 1 ELSE IF b = c THEN 0 ELSE b
  BY DEF discardClocks
<1>4. (u = m <=> a = c) /\ (v = m <=> b = c) BY DEF Permutation
<1>5. new[u] < new[v] <=> b # c /\ (a = c \/ a < b)
  <2> HIDE DEF a, b, c, new
  <2> QED BY <1>1, <1>2, <1>3
<1> QED BY <1>4, <1>5

(* The same of the relation that the refinement maps the clocks to.        *)
LEMMA UsedIsRecent ==
    ASSUME Inv, NEW w \in Way, clocks' = updateClocks(clocks, w)
    PROVE  LRU!MostRecently(w)
<1>1. clocks \in [Way -> Way] /\ Permutation(clocks) BY DEF Inv, ClocksPermuted
<1>2. \A u, v \in Way : clocks'[u] < clocks'[v]
                          <=> u # w /\ (v = w \/ clocks[u] < clocks[v])
  BY <1>1, UpdateOlder
<1>3. \A v \in Way : v # w => ~ (clocks[w] < clocks[w]) BY <1>1 DEF Way
<1>4. LRU!AllWays = Way BY DEF LRU!AllWays, Way
<1>5. Older' = {pair \in Older : pair[1] # w /\ pair[2] # w} \cup {<<v, w>> : v \in Way \ {w}}
  BY <1>2, <1>3 DEF Older
<1> QED BY <1>4, <1>5 DEF LRU!MostRecently, LRU!Without

LEMMA DiscardedIsOldest ==
    ASSUME Inv, NEW w \in Way, clocks' = discardClocks(clocks, w), locks' = locks
    PROVE  LRU!Discard(w)
<1>1. clocks \in [Way -> Way] /\ Permutation(clocks) BY DEF Inv, ClocksPermuted
<1>2. \A u, v \in Way : clocks'[u] < clocks'[v]
                          <=> v # w /\ (u = w \/ clocks[u] < clocks[v])
  BY <1>1, DiscardOlder
<1>4. LRU!AllWays = Way BY DEF LRU!AllWays, Way
<1>5. Older' = {pair \in Older : pair[1] # w /\ pair[2] # w} \cup {<<w, v>> : v \in Way \ {w}}
  BY <1>2 DEF Older
<1>6. Held(locks)' = Held(locks) BY DEF Held, lockOn
<1> QED BY <1>4, <1>5, <1>6 DEF LRU!Discard, LRU!Without

(* What the changes of the lock table do to the ways that are held.        *)
LEMMA HeldChanges ==
    ASSUME NEW lk \in [Way -> [reads : Nat, write : {0, 1}]], NEW w \in Way
    PROVE  /\ Held(addReadLock(lk, w)) = Held(lk) \cup {w}
           /\ Held(addWriteLock(lk, w)) = Held(lk) \cup {w}
           /\ Held(removeReadLock(lk, w)) \in {Held(lk), Held(lk) \ {w}}
           /\ Held(removeWriteLock(lk, w)) \in {Held(lk), Held(lk) \ {w}}
<1>0. \A v \in Way : lk[v].reads \in Nat /\ lk[v].write \in {0, 1} OBVIOUS
<1>1. Held(addReadLock(lk, w)) = Held(lk) \cup {w}
  <2> DEFINE new == addReadLock(lk, w)
  <2>1. /\ new[w].reads = lk[w].reads + 1 /\ new[w].write = lk[w].write
        /\ \A v \in Way \ {w} : new[v] = lk[v]
    BY DEF addReadLock
  <2> HIDE DEF new
  <2>2. lockOn(new, w) BY <2>1, <1>0 DEF lockOn
  <2>3. \A v \in Way \ {w} : lockOn(new, v) <=> lockOn(lk, v) BY <2>1 DEF lockOn
  <2> QED BY <2>2, <2>3 DEF Held, new
<1>2. Held(addWriteLock(lk, w)) = Held(lk) \cup {w}
  <2>1. CASE lockOn(lk, w) BY <2>1 DEF addWriteLock, Held
  <2>2. CASE ~ lockOn(lk, w)
    <3> DEFINE new == addWriteLock(lk, w)
    <3>1. /\ new[w].reads = lk[w].reads /\ new[w].write = 1
          /\ \A v \in Way \ {w} : new[v] = lk[v]
      BY <2>2 DEF addWriteLock
    <3> HIDE DEF new
    <3>2. lockOn(new, w) BY <3>1, <1>0 DEF lockOn
    <3>3. \A v \in Way \ {w} : lockOn(new, v) <=> lockOn(lk, v) BY <3>1 DEF lockOn
    <3> QED BY <3>2, <3>3 DEF Held, new
  <2> QED BY <2>1, <2>2
<1>3. Held(removeReadLock(lk, w)) \in {Held(lk), Held(lk) \ {w}}
  <2> DEFINE new == removeReadLock(lk, w)
  <2>1. \A v \in Way \ {w} : new[v] = lk[v] BY DEF removeReadLock
  <2>2. lockOn(new, w) => lockOn(lk, w)
    <3>1. CASE lk[w].reads = 0 BY <3>1 DEF removeReadLock
    <3>2. CASE lk[w].reads # 0 BY <3>2, <1>0 DEF lockOn
    <3> QED BY <3>1, <3>2
  <2> HIDE DEF new
  <2>3. \A v \in Way \ {w} : lockOn(new, v) <=> lockOn(lk, v) BY <2>1 DEF lockOn
  <2> QED BY <2>2, <2>3 DEF Held, new
<1>4. Held(removeWriteLock(lk, w)) \in {Held(lk), Held(lk) \ {w}}
  <2> DEFINE new == removeWriteLock(lk, w)
  <2>1. \A v \in Way \ {w} : new[v] = lk[v] BY DEF removeWriteLock
  <2>2. lockOn(new, w) => lockOn(lk, w)
    <3>1. CASE lk[w].write = 0 BY <3>1 DEF removeWriteLock
    <3>2. CASE lk[w].write # 0 BY <3>2, <1>0 DEF lockOn
    <3> QED BY <3>1, <3>2
  <2> HIDE DEF new
  <2>3. \A v \in Way \ {w} : lockOn(new, v) <=> lockOn(lk, v) BY <2>1 DEF lockOn
  <2> QED BY <2>2, <2>3 DEF Held, new
<1> QED BY <1>1, <1>2, <1>3, <1>4

(* Every step of the set is a step of the ordered ways, or leaves them.    *)
LEMMA StepLru == Inv /\ [Next]_vars => [LRU!LruNext]_(LRU!lruVars)
<1> SUFFICES ASSUME Inv, [Next]_vars PROVE [LRU!LruNext]_(LRU!lruVars) OBVIOUS
<1>0. /\ clocks \in [Way -> Way] /\ Permutation(clocks)
      /\ locks \in [Way -> [reads : Nat, write : {0, 1}]]
      /\ match \in [Responses -> Way \cup {Idle}]
      /\ 0 \in Way /\ LRU!AllWays = Way
  <2>1. 0 \in Way /\ LRU!AllWays = Way BY WaysAssumption DEF Way, LRU!AllWays
  <2> QED BY <2>1 DEF Inv, ClocksPermuted, TypeOK
<1>a. ASSUME NEW w \in Way, clocks' = clocks, Held(locks)' = Held(locks) \cup {w}
      PROVE  LRU!LruNext
  <2>1. LRU!Lock(w) BY <1>a DEF LRU!Lock, Older
  <2> QED BY <2>1, <1>0 DEF LRU!LruNext
<1>b. ASSUME NEW w \in Way, clocks' = clocks, Held(locks)' \in {Held(locks), Held(locks) \ {w}}
      PROVE  [LRU!LruNext]_(LRU!lruVars)
  <2>1. CASE Held(locks)' = Held(locks) BY <1>b, <2>1 DEF LRU!lruVars, Older
  <2>2. CASE Held(locks)' = Held(locks) \ {w}
    <3>1. LRU!Unlock(w) BY <1>b, <2>2 DEF LRU!Unlock, Older
    <3> QED BY <3>1, <1>0 DEF LRU!LruNext
  <2> QED BY <1>b, <2>1, <2>2
<1>c. ASSUME clocks' = clocks, locks' = locks PROVE UNCHANGED LRU!lruVars
  BY <1>c DEF LRU!lruVars, Older, Held, lockOn
<1>1. ASSUME NEW h \in Hashes, Lookup(h) PROVE LRU!LruNext
  <2>1. PICK w \in Way : w = getBestMatchByIndex(headers, clocks, h)
    BY <1>0, <1>1, MatchIsAWay DEF Lookup
  <2>2. clocks' = updateClocks(clocks, w) /\ locks' = locks BY <1>1, <2>1 DEF Lookup
  <2>3. LRU!MostRecently(w) BY <2>2, UsedIsRecent
  <2>4. Held(locks)' = Held(locks) BY <2>2 DEF Held, lockOn
  <2>5. LRU!Use(w) BY <2>3, <2>4 DEF LRU!Use
  <2> QED BY <2>5, <1>0 DEF LRU!LruNext
<1>2. ASSUME NEW p \in Responses, NEW h \in Hashes, Store(p, h)
      PROVE  [LRU!LruNext]_(LRU!lruVars)
  <2>1. CASE getFreeLocation(clocks, Held(locks)) = NoWay
    BY <1>2, <2>1, <1>c DEF Store
  <2>2. CASE getFreeLocation(clocks, Held(locks)) # NoWay
    <3>1. PICK w \in Way : w = getFreeLocation(clocks, Held(locks))
      BY <1>0, <2>2, FreeIsAWay
    <3>2. w \notin Held(locks) /\ \A v \in Way \ Held(locks) : clocks[w] <= clocks[v]
      BY <1>0, <2>2, <3>1, FreeIsAWay
    <3>3. clocks' = updateClocks(clocks, w) /\ locks' = addWriteLock(locks, w)
      BY <1>2, <2>2, <3>1 DEF Store
    <3>4. LRU!MostRecently(w) BY <3>3, UsedIsRecent
    <3>5. Held(locks)' = Held(locks) \cup {w}
      <4>1. Held(locks)' = Held(locks') BY DEF Held, lockOn
      <4> QED BY <4>1, <3>3, <1>0, HeldChanges
    <3>6. \A v \in Way \ (Held(locks) \cup {w}) : <<w, v>> \in Older
      <4> SUFFICES ASSUME NEW v \in Way \ (Held(locks) \cup {w}) PROVE clocks[w] < clocks[v]
        BY DEF Older
      <4>1. clocks[w] <= clocks[v] /\ clocks[w] # clocks[v]
        BY <3>2, <1>0 DEF Permutation
      <4>2. clocks[w] \in Int /\ clocks[v] \in Int BY <1>0 DEF Way
      <4> QED BY <4>1, <4>2
    <3>7. LRU!Take(w) BY <3>2, <3>4, <3>5, <3>6, <1>0 DEF LRU!Take
    <3> QED BY <3>7, <1>0 DEF LRU!LruNext
  <2> QED BY <2>1, <2>2
<1>3. ASSUME NEW p \in Responses, Written(p) PROVE [LRU!LruNext]_(LRU!lruVars)
  <2>1. PICK w \in Way : w = match[p] BY <1>0, <1>3 DEF Written
  <2>2. clocks' = clocks /\ locks' = removeWriteLock(locks, w) BY <1>3, <2>1 DEF Written
  <2>3. Held(locks)' = Held(locks') BY DEF Held, lockOn
  <2>4. Held(locks)' \in {Held(locks), Held(locks) \ {w}}
    BY <2>2, <2>3, <1>0, HeldChanges
  <2> QED BY <2>2, <2>4, <1>b
<1>4. ASSUME NEW p \in Responses, Dropped(p) PROVE UNCHANGED LRU!lruVars
  BY <1>4, <1>c DEF Dropped
<1>5. ASSUME NEW w \in Way, discardHeaders(w) PROVE LRU!LruNext
  <2>1. LRU!Discard(w) BY <1>5, DiscardedIsOldest DEF discardHeaders
  <2> QED BY <2>1, <1>0 DEF LRU!LruNext
<1>6. CASE StartReading
  <2>1. clocks' = clocks /\ locks' = addReadLock(locks, 0) BY <1>6 DEF StartReading
  <2>2. Held(locks)' = Held(locks') BY DEF Held, lockOn
  <2>3. Held(locks)' = Held(locks) \cup {0} BY <2>1, <2>2, <1>0, HeldChanges
  <2> QED BY <2>1, <2>3, <1>0, <1>a
<1>7. CASE DoneReading
  <2>1. clocks' = clocks /\ locks' = removeReadLock(locks, 0) BY <1>7 DEF DoneReading
  <2>2. Held(locks)' = Held(locks') BY DEF Held, lockOn
  <2>3. Held(locks)' \in {Held(locks), Held(locks) \ {0}}
    BY <2>1, <2>2, <1>0, HeldChanges
  <2> QED BY <2>1, <2>3, <1>0, <1>b
<1>8. CASE UNCHANGED vars
  BY <1>8, <1>c DEF vars
<1> QED BY <1>1, <1>2, <1>3, <1>4, <1>5, <1>6, <1>7, <1>8 DEF Next

(* The packed clocks of a set, with updateClocks, discardHeaders and       *)
(* getFreeLocation on them, implement its ways in the order of their last  *)
(* use, for every number of ways and any number of responses and readers.  *)
THEOREM SetIsLru == Spec => IsLru
<1>1. Init => LRU!LruInit
  <2> SUFFICES ASSUME Init PROVE LRU!LruInit OBVIOUS
  <2>1. Held(locks) = {} BY DEF Init, NoLocks, Held, lockOn
  <2>2. Older = {pair \in Way \X Way : pair[1] < pair[2]}
    BY DEF Init, InitClocks, Older
  <2> QED BY <2>1, <2>2 DEF LRU!LruInit, LRU!AllWays, Way
<1> QED BY <1>1, InitInv, StepInv, StepLru, PTL DEF Spec, IsLru, LRU!LruSpec

=============================================================================

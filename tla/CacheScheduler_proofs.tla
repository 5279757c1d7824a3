----------------------- MODULE CacheScheduler_proofs -----------------------
(* The cache scheduler loses and duplicates no request, for any number of  *)
(* connections and of requests.                                            *)
EXTENDS CacheScheduler, TLAPS, FiniteSetTheorems, SequenceTheorems

(* OnePlace and Outstanding, of queues and connections that a handler has  *)
(* computed but not yet stored.                                            *)
Queued(first, second, t) == \/ \E i \in 1..Len(first)  : first[i] = t
                            \/ \E i \in 1..Len(second) : second[i] = t

Unique(sl, cu, first, second) ==
    /\ \A i, j \in 1..Len(first) : first[i] = first[j] => i = j
    /\ \A i, j \in 1..Len(second) : second[i] = second[j] => i = j
    /\ \A i, j \in Slots : cu[i] = cu[j] /\ cu[i] # NoTrans => i = j
    /\ \A i \in Slots : cu[i] # NoTrans => ~Queued(first, second, cu[i])
    /\ \A i \in Slots : sl[i] = "null" => cu[i] = NoTrans

Held(cu, first, second, t) == Queued(first, second, t) \/ \E i \in Slots : cu[i] = t

SlotStates == {"null", "active", "closed"}

(* What a handler hands to IssuePendingCacheRequests.                      *)
Ready(sl, cu, st, first, second, dl) ==
    /\ sl \in [Slots -> SlotStates] /\ cu \in [Slots -> Trans \cup {NoTrans}]
    /\ st \in SUBSET Slots /\ dl \in Seq(Slots)
    /\ first \in Seq(FirstClass) /\ second \in Seq(Puts)
    /\ Unique(sl, cu, first, second)

(* The slots and any set of them are finite.                               *)
LEMMA SlotsFinite == \A S \in SUBSET Slots : IsFiniteSet(S) /\ Cardinality(S) \in Nat
  <1>1. IsFiniteSet(Slots)
    BY FS_Interval, ConnsAssumption DEF Slots
  <1>2. QED
    BY <1>1, FS_Subset, FS_CardinalityType

LEMMA OutstandingHeld ==
  /\ \A t : Outstanding(t) <=> Held(cur, firstQ, secondQ, t)
  /\ \A t : Outstanding(t)' <=> Held(cur', firstQ', secondQ', t)
  BY DEF Outstanding, InQueue, InFlight, Held, Queued

(* Issuing keeps the types, keeps every request in one place and neither   *)
(* adds nor drops a request.                                               *)
LEMMA Issuing ==
  ASSUME NEW sl, NEW cu, NEW st, NEW first, NEW second, NEW dl,
         Ready(sl, cu, st, first, second, dl),
         IssuePendingCacheRequests(sl, cu, st, first, second, dl)
  PROVE  /\ slot' \in [Slots -> SlotStates]
         /\ cur' \in [Slots -> Trans \cup {NoTrans}]
         /\ stale' \subseteq Slots
         /\ firstQ' \in Seq(FirstClass) /\ secondQ' \in Seq(Puts)
         /\ deadList' \in Seq(Slots)
         /\ OnePlace'
         /\ \A t \in Trans : Held(cur', firstQ', secondQ', t) <=> Held(cu, first, second, t)
  <1> DEFINE idle == IdleCacheConns(sl, cu)
             all  == first \o second
             n    == Least(Cardinality(idle), Len(all))
  <1>0. /\ \E order \in SlotOrders(idle), failed \in SUBSET Slots :
              IssueCacheRequests(order, failed, n, all, sl, cu, st, dl)
        /\ firstQ'  = SubSeq(first, n + 1, Len(first))
        /\ secondQ' = IF n <= Len(first) THEN second
                      ELSE SubSeq(second, n - Len(first) + 1, Len(second))
    BY DEF IssuePendingCacheRequests
  <1>1. PICK order \in SlotOrders(idle), failed \in SUBSET Slots :
           IssueCacheRequests(order, failed, n, all, sl, cu, st, dl)
    BY <1>0
  <1>2. /\ idle \in SUBSET Slots /\ Cardinality(idle) \in Nat
        /\ \A i \in idle : sl[i] # "null" /\ cu[i] = NoTrans
    BY SlotsFinite DEF IdleCacheConns
  <1>3. /\ first \in Seq(FirstClass) /\ second \in Seq(Puts)
        /\ Len(first) \in Nat /\ Len(second) \in Nat
        /\ all \in Seq(Trans) /\ Len(all) = Len(first) + Len(second)
        /\ \A k \in 1..Len(first) : all[k] = first[k] /\ first[k] \in FirstClass
        /\ \A k \in (Len(first)+1)..Len(all) : all[k] = second[k - Len(first)] /\ second[k - Len(first)] \in Puts
    BY DEF Ready, Trans
  <1>4. n \in Nat /\ n <= Cardinality(idle) /\ n <= Len(all)
    BY <1>2, <1>3 DEF Least
  <1> HIDE DEF idle, all, n
  <1>5. /\ \A j \in 1..n : order[j] \in idle /\ order[j] \in Slots
        /\ \A i, j \in 1..n : order[i] = order[j] => i = j
    <2>1. /\ order \in [1..Cardinality(idle) -> idle]
          /\ \A i, j \in 1..Cardinality(idle) : i < j => order[i] < order[j]
      BY <1>1 DEF SlotOrders
    <2>2. \A j \in 1..Cardinality(idle) : order[j] \in Nat
      <3>1. \A x \in Slots : x \in Nat
        BY ConnsAssumption DEF Slots
      <3>2. QED
        BY <2>1, <1>2, <3>1
    <2>3. QED
      BY <2>1, <2>2, <1>2, <1>4
  <1>6. /\ \A j \in 1..n : cur'[order[j]] = all[j]
        /\ \A i \in Slots : (\A j \in 1..n : order[j] # i) => cur'[i] = cu[i]
    BY <1>1, <1>5 DEF IssueCacheRequests
  <1>7. \A k \in 1..Len(all) : all[k] \in Trans /\ all[k] # NoTrans
    BY <1>3, TransAssumption DEF Trans
  <1>8. \A k, m \in 1..Len(all) : all[k] = all[m] => k = m
    <2> SUFFICES ASSUME NEW k \in 1..Len(all), NEW m \in 1..Len(all), all[k] = all[m]
                 PROVE  k = m
      OBVIOUS
    <2>1. CASE k <= Len(first) /\ m <= Len(first)
      BY <2>1, <1>3 DEF Ready, Unique
    <2>2. CASE k > Len(first) /\ m > Len(first)
      <3>1. k - Len(first) \in 1..Len(second) /\ m - Len(first) \in 1..Len(second)
        BY <2>2, <1>3
      <3>2. second[k - Len(first)] = second[m - Len(first)]
        <4>1. k \in (Len(first)+1)..Len(all) /\ m \in (Len(first)+1)..Len(all)
          BY <2>2, <1>3
        <4>2. QED
          BY <4>1, <1>3
      <3>3. k - Len(first) = m - Len(first)
        BY <3>1, <3>2 DEF Ready, Unique
      <3>4. QED
        BY <3>3, <1>3
    <2>3. ASSUME NEW a \in 1..Len(all), NEW b \in 1..Len(all),
                 a <= Len(first), b > Len(first)
          PROVE  all[a] # all[b]
      <3>1. a \in 1..Len(first) /\ b \in (Len(first)+1)..Len(all)
        BY <2>3, <1>3
      <3>2. all[a] \in FirstClass /\ all[b] \in Puts
        BY <3>1, <1>3
      <3>3. QED
        BY <3>2, TransAssumption
    <2>4. QED
      BY <2>1, <2>2, <2>3, <1>3
  <1>9. \A t : Queued(first, second, t) <=> \E k \in 1..Len(all) : all[k] = t
    <2>1. ASSUME NEW i \in 1..Len(second) PROVE i + Len(first) \in 1..Len(all) /\ all[i + Len(first)] = second[i]
      <3>1. i + Len(first) \in (Len(first)+1)..Len(all) /\ (i + Len(first)) - Len(first) = i
        BY <1>3
      <3>2. all[i + Len(first)] = second[(i + Len(first)) - Len(first)]
        BY <3>1, <1>3
      <3>3. QED
        BY <3>1, <3>2, <1>3
    <2>2. ASSUME NEW k \in 1..Len(all), k > Len(first) PROVE k - Len(first) \in 1..Len(second) /\ all[k] = second[k - Len(first)]
      BY <2>2, <1>3
    <2>3. 1..Len(first) \subseteq 1..Len(all)
      BY <1>3
    <2>4. ASSUME NEW t, Queued(first, second, t) PROVE \E k \in 1..Len(all) : all[k] = t
      BY <2>4, <2>1, <2>3, <1>3 DEF Queued
    <2>5. ASSUME NEW t, NEW k \in 1..Len(all), all[k] = t PROVE Queued(first, second, t)
      <3>1. CASE k > Len(first)
        BY <3>1, <2>2, <2>5 DEF Queued
      <3>2. CASE k <= Len(first)
        <4>1. k \in 1..Len(first)
          BY <3>2, <1>3
        <4>2. QED
          BY <4>1, <1>3, <2>5 DEF Queued
      <3>3. QED
        BY <3>1, <3>2, <1>3
    <2>6. QED
      BY <2>4, <2>5
  <1>10. /\ firstQ' \in Seq(FirstClass)
         /\ Len(firstQ') = IF n < Len(first) THEN Len(first) - n ELSE 0
         /\ \A k \in 1..Len(firstQ') : firstQ'[k] = all[k + n] /\ k + n \in 1..Len(first)
    BY <1>0, <1>3, <1>4
  <1> DEFINE off == IF n <= Len(first) THEN Len(first) ELSE n
  <1>11. /\ secondQ' \in Seq(Puts)
         /\ off \in Nat /\ off >= n /\ off >= Len(first)
         /\ Len(secondQ') = Len(all) - off /\ Len(secondQ') \in Nat
         /\ \A k \in 1..Len(secondQ') : secondQ'[k] = all[k + off] /\ k + off \in 1..Len(all)
         /\ \A k \in (n+1)..Len(all) : k > Len(first) => k > off
    <2>1. CASE n <= Len(first)
      <3>1. secondQ' = second /\ off = Len(first)
        BY <2>1, <1>0
      <3>2. ASSUME NEW k \in 1..Len(second)
            PROVE  second[k] = all[k + Len(first)] /\ k + Len(first) \in 1..Len(all)
        <4>1. k + Len(first) \in (Len(first)+1)..Len(all) /\ (k + Len(first)) - Len(first) = k
          BY <1>3
        <4>2. all[k + Len(first)] = second[(k + Len(first)) - Len(first)]
          BY <4>1, <1>3
        <4>3. QED
          BY <4>1, <4>2, <1>3
      <3>3. secondQ' \in Seq(Puts) /\ Len(secondQ') = Len(all) - Len(first)
        BY <3>1, <1>3
      <3> HIDE DEF off
      <3>4. QED
        BY <3>1, <3>2, <3>3, <2>1, <1>3, <1>4
    <2>2. CASE n > Len(first)
      <3>1. secondQ' = SubSeq(second, n - Len(first) + 1, Len(second)) /\ off = n
        BY <2>2, <1>0, <1>3, <1>4
      <3>2. n - Len(first) \in 1..Len(second)
        BY <2>2, <1>3, <1>4
      <3>3. /\ secondQ' \in Seq(Puts)
            /\ Len(secondQ') = Len(second) - (n - Len(first))
            /\ \A k \in 1..Len(secondQ') : secondQ'[k] = second[k + (n - Len(first))]
        BY <3>1, <3>2, <1>3
      <3>4. ASSUME NEW k \in 1..Len(secondQ')
            PROVE  secondQ'[k] = all[k + n] /\ k + n \in 1..Len(all)
        <4>1. k + n \in (Len(first)+1)..Len(all) /\ (k + n) - Len(first) = k + (n - Len(first))
          BY <3>3, <2>2, <1>3, <1>4
        <4>2. QED
          BY <4>1, <3>3, <1>3, <1>4
      <3>5. Len(secondQ') = Len(all) - n /\ Len(secondQ') \in Nat
        BY <3>3, <1>3, <1>4
      <3>6. off \in Nat /\ off >= n /\ off >= Len(first)
        BY <3>1, <2>2, <1>3, <1>4
      <3> HIDE DEF off
      <3>7. \A k \in (n+1)..Len(all) : k > off
        BY <3>1, <1>3, <1>4
      <3>8. QED
        BY <3>1, <3>3, <3>4, <3>5, <3>6, <3>7
    <2>3. QED
      BY <2>1, <2>2, <1>3, <1>4
  <1> HIDE DEF off
  <1>12. \A t : Queued(firstQ', secondQ', t) <=> \E k \in (n+1)..Len(all) : all[k] = t
    <2>1. ASSUME NEW t, Queued(firstQ', secondQ', t) PROVE \E k \in (n+1)..Len(all) : all[k] = t
      <3>1. CASE \E k \in 1..Len(firstQ') : firstQ'[k] = t
        <4>1. PICK k \in 1..Len(firstQ') : firstQ'[k] = t
          BY <3>1
        <4>2. all[k + n] = t /\ k + n \in 1..Len(first)
          BY <4>1, <1>10
        <4>4. k \in Nat /\ k >= 1
          BY <1>10, <1>3, <1>4
        <4>5. k + n \in (n+1)..Len(all)
          BY <4>2, <4>4, <1>3, <1>4
        <4>3. QED
          BY <4>2, <4>5
      <3>2. CASE \E k \in 1..Len(secondQ') : secondQ'[k] = t
        <4>1. PICK k \in 1..Len(secondQ') : secondQ'[k] = t
          BY <3>2
        <4>2. all[k + off] = t /\ k + off \in 1..Len(all)
          BY <4>1, <1>11
        <4>3. k + off \in (n+1)..Len(all)
          BY <4>2, <1>11, <1>4
        <4>4. QED
          BY <4>2, <4>3
      <3>3. QED
        BY <2>1, <3>1, <3>2 DEF Queued
    <2>2. ASSUME NEW t, NEW k \in (n+1)..Len(all), all[k] = t PROVE Queued(firstQ', secondQ', t)
      <3>1. CASE k <= Len(first)
        <4>1. k - n \in 1..Len(firstQ') /\ firstQ'[k - n] = t
          BY <2>2, <3>1, <1>3, <1>4, <1>10
        <4>2. QED
          BY <4>1 DEF Queued
      <3>2. CASE k > Len(first)
        <4>1. k - off \in 1..Len(secondQ') /\ (k - off) + off = k
          BY <3>2, <1>3, <1>4, <1>11
        <4>2. secondQ'[k - off] = all[(k - off) + off]
          BY <4>1, <1>11
        <4>3. QED
          BY <2>2, <4>1, <4>2 DEF Queued
      <3>3. QED
        BY <3>1, <3>2, <1>3, <1>4
    <2>3. QED
      BY <2>1, <2>2
  <1>13. cur' \in [Slots -> Trans \cup {NoTrans}]
    <2>1. cu \in [Slots -> Trans \cup {NoTrans}]
      BY DEF Ready
    <2>2. \A i \in Slots : cur'[i] \in Trans \cup {NoTrans}
      BY <2>1, <1>6, <1>7, <1>4, <1>3
    <2>3. cur' = [i \in Slots |-> cur'[i]]
      BY <1>1 DEF IssueCacheRequests
    <2>4. QED
      BY <2>2, <2>3
  <1>14. /\ slot' \in [Slots -> SlotStates]
         /\ stale' \subseteq Slots
         /\ \A i \in Slots : slot'[i] = "null" => sl[i] = "null"
    BY <1>1 DEF IssueCacheRequests, Ready, SlotStates
  <1>15. deadList' \in Seq(Slots)
    <2> DEFINE D == {i \in failed : sl[i] = "active"}
    <2>1. D \in SUBSET Slots
      OBVIOUS
    <2>2. PICK newlyDead \in SlotOrders(D) : deadList' = dl \o newlyDead
      BY <1>1 DEF IssueCacheRequests
    <2>3. newlyDead \in [1..Cardinality(D) -> D] /\ Cardinality(D) \in Nat
      BY <2>1, <2>2, SlotsFinite DEF SlotOrders
    <2>4. newlyDead \in Seq(Slots)
      <3> HIDE DEF D
      <3>1. newlyDead \in [1..Cardinality(D) -> Slots]
        BY <2>1, <2>3
      <3>2. QED
        BY <3>1, <2>3, SeqDef
    <2>5. QED
      BY <2>2, <2>4 DEF Ready
  <1>16. OnePlace'
    <2>1. \A i, j \in 1..Len(firstQ') : firstQ'[i] = firstQ'[j] => i = j
      BY <1>10, <1>8, <1>3, <1>4
    <2>2. ASSUME NEW i \in 1..Len(secondQ'), NEW j \in 1..Len(secondQ'), secondQ'[i] = secondQ'[j]
          PROVE  i = j
      <3>1. i + off = j + off
        BY <2>2, <1>11, <1>8
      <3>2. QED
        BY <3>1, <1>11
    <2>3. ASSUME NEW i \in Slots, NEW j \in Slots, cur'[i] = cur'[j], cur'[i] # NoTrans
          PROVE  i = j
      <3>1. CASE \E a \in 1..n : order[a] = i
        <4>1. PICK a \in 1..n : order[a] = i
          BY <3>1
        <4>2. cur'[i] = all[a] /\ a \in 1..Len(all)
          BY <4>1, <1>6, <1>4, <1>3
        <4>3. Queued(first, second, cur'[i])
          BY <4>2, <1>9
        <4>4. \E b \in 1..n : order[b] = j
          <5> SUFFICES ASSUME \A b \in 1..n : order[b] # j PROVE FALSE
            OBVIOUS
          <5>1. cur'[j] = cu[j]
            BY <1>6
          <5>2. QED
            BY <5>1, <2>3, <4>3 DEF Ready, Unique
        <4>5. PICK b \in 1..n : order[b] = j
          BY <4>4
        <4>6. a = b
          <5>1. cur'[j] = all[b] /\ b \in 1..Len(all)
            BY <4>5, <1>6, <1>4, <1>3
          <5>2. QED
            BY <5>1, <4>2, <1>8, <2>3
        <4>7. QED
          BY <4>1, <4>5, <4>6
      <3>2. CASE \A a \in 1..n : order[a] # i
        <4>1. cur'[i] = cu[i]
          BY <3>2, <1>6
        <4>2. \A b \in 1..n : order[b] # j
          <5> SUFFICES ASSUME NEW b \in 1..n, order[b] = j PROVE FALSE
            OBVIOUS
          <5>1. cur'[j] = all[b] /\ b \in 1..Len(all)
            BY <1>6, <1>4, <1>3
          <5>2. Queued(first, second, cu[i])
            BY <5>1, <4>1, <2>3, <1>9
          <5>3. QED
            BY <5>2, <4>1, <2>3 DEF Ready, Unique
        <4>3. cur'[j] = cu[j]
          BY <4>2, <1>6
        <4>4. QED
          BY <4>1, <4>3, <2>3 DEF Ready, Unique
      <3>3. QED
        BY <3>1, <3>2
    <2>4. ASSUME NEW i \in Slots, cur'[i] # NoTrans, Queued(firstQ', secondQ', cur'[i])
          PROVE  FALSE
      <3>1. PICK k \in (n+1)..Len(all) : all[k] = cur'[i]
        BY <2>4, <1>12
      <3>2. CASE \E a \in 1..n : order[a] = i
        BY <3>1, <3>2, <1>6, <1>8, <1>4, <1>3
      <3>3. CASE \A a \in 1..n : order[a] # i
        <4>1. cur'[i] = cu[i]
          BY <3>3, <1>6
        <4>2. k \in 1..Len(all)
          BY <1>3, <1>4
        <4>3. Queued(first, second, cu[i])
          BY <4>1, <4>2, <3>1, <1>9
        <4>4. QED
          BY <4>1, <4>3, <2>4 DEF Ready, Unique
      <3>4. QED
        BY <3>2, <3>3
    <2>5. ASSUME NEW i \in Slots, slot'[i] = "null" PROVE cur'[i] = NoTrans
      <3>1. sl[i] = "null"
        BY <1>14, <2>5
      <3>2. \A j \in 1..n : order[j] # i
        BY <3>1, <1>5, <1>2
      <3>3. QED
        BY <3>1, <3>2, <1>6 DEF Ready, Unique
    <2>6. QED
      BY <2>1, <2>2, <2>3, <2>4, <2>5 DEF OnePlace, InQueue, Queued
  <1>17. ASSUME NEW t \in Trans
         PROVE  Held(cur', firstQ', secondQ', t) <=> Held(cu, first, second, t)
    <2>1. ASSUME NEW i \in Slots, cur'[i] = t
          PROVE  Queued(first, second, t) \/ \E s \in Slots : cu[s] = t
      <3>1. CASE \E a \in 1..n : order[a] = i
        BY <2>1, <3>1, <1>6, <1>9, <1>4, <1>3
      <3>2. CASE \A a \in 1..n : order[a] # i
        BY <2>1, <3>2, <1>6
      <3>3. QED
        BY <3>1, <3>2
    <2>2. ASSUME Queued(firstQ', secondQ', t) PROVE Queued(first, second, t)
      <3>1. PICK k \in (n+1)..Len(all) : all[k] = t
        BY <2>2, <1>12
      <3>2. k \in 1..Len(all)
        BY <1>3, <1>4
      <3>3. QED
        BY <3>1, <3>2, <1>9
    <2>3. ASSUME Queued(first, second, t)
          PROVE  Queued(firstQ', secondQ', t) \/ \E i \in Slots : cur'[i] = t
      <3>1. PICK k \in 1..Len(all) : all[k] = t
        BY <2>3, <1>9
      <3>2. CASE k <= n
        <4>1. order[k] \in Slots /\ cur'[order[k]] = t
          BY <3>1, <3>2, <1>3, <1>4, <1>5, <1>6
        <4>2. QED
          BY <4>1
      <3>3. CASE k > n
        <4>1. k \in (n+1)..Len(all)
          BY <3>3, <1>3, <1>4
        <4>2. QED
          BY <4>1, <3>1, <1>12
      <3>4. QED
        BY <3>2, <3>3, <1>3, <1>4
    <2>4. ASSUME NEW i \in Slots, cu[i] = t PROVE \E s \in Slots : cur'[s] = t
      <3>1. cu[i] # NoTrans
        BY <2>4, TransAssumption
      <3>2. \A j \in 1..n : order[j] # i
        BY <3>1, <1>2, <1>5
      <3>3. QED
        BY <3>2, <1>6, <2>4
    <2>5. QED
      BY <2>1, <2>2, <2>3, <2>4 DEF Held
  <1>18. QED
    BY <1>10, <1>11, <1>13, <1>14, <1>15, <1>16, <1>17

-----------------------------------------------------------------------------
(* The inductive invariant: types, one place, the temporary copies, and    *)
(* which chunks are on their way to another peer.                          *)
Inv == TypeOK /\ OnePlace /\ KeptUntilPutDone /\ remote \subseteq RemoteChunks

LEMMA ReadyNow ==
  Inv => Ready(slot, cur, stale, firstQ, secondQ, deadList)
  BY DEF Inv, TypeOK, OnePlace, Ready, Unique, Queued, InQueue, SlotStates

(* A new request may be queued.                                            *)
LEMMA ScheduleNew ==
  ASSUME Inv, NEW t \in Trans, ~Outstanding(t)
  PROVE  /\ t \in FirstClass =>
              /\ Ready(slot, cur, stale, ScheduleFirst(t, TRUE), secondQ, deadList)
              /\ \A u : Queued(ScheduleFirst(t, TRUE), secondQ, u) <=> InQueue(u) \/ u = t
         /\ t \in Puts =>
              /\ Ready(slot, cur, stale, firstQ, ScheduleSecond(t), deadList)
              /\ \A u : Queued(firstQ, ScheduleSecond(t), u) <=> InQueue(u) \/ u = t
  <1>0. /\ firstQ \in Seq(FirstClass) /\ secondQ \in Seq(Puts)
        /\ Len(firstQ) \in Nat /\ Len(secondQ) \in Nat
    BY DEF Inv, TypeOK
  <1>1. CASE t \in FirstClass
    <2> DEFINE q == Append(firstQ, t)
    <2>1. ScheduleFirst(t, TRUE) = q
      BY <1>1 DEF ScheduleFirst
    <2>2. /\ q \in Seq(FirstClass) /\ Len(q) = Len(firstQ) + 1
          /\ \A k \in 1..Len(firstQ) : q[k] = firstQ[k]
          /\ q[Len(firstQ) + 1] = t
      BY <1>0, <1>1
    <2> HIDE DEF q
    <2>3. \A u : Queued(q, secondQ, u) <=> InQueue(u) \/ u = t
      BY <2>2, <1>0 DEF Queued, InQueue
    <2>4. \A i, j \in 1..Len(q) : q[i] = q[j] => i = j
      <3>1. \A k \in 1..Len(firstQ) : firstQ[k] # t
        BY DEF Outstanding, InQueue
      <3>2. \A i, j \in 1..Len(firstQ) : firstQ[i] = firstQ[j] => i = j
        BY DEF Inv, OnePlace
      <3>3. \A k \in 1..Len(q) : k \in 1..Len(firstQ) \/ k = Len(firstQ) + 1
        BY <2>2, <1>0
      <3>4. QED
        BY <3>1, <3>2, <3>3, <2>2
    <2>5. Unique(slot, cur, q, secondQ)
      BY <2>3, <2>4 DEF Inv, OnePlace, Unique, Outstanding, InFlight
    <2>6. Ready(slot, cur, stale, q, secondQ, deadList)
      BY <2>5, <2>2, ReadyNow DEF Ready
    <2>7. t \notin Puts
      BY <1>1, TransAssumption
    <2>8. QED
      BY <2>1, <2>3, <2>6, <2>7
  <1>2. CASE t \in Puts
    <2> DEFINE q == Append(secondQ, t)
    <2>1. ScheduleSecond(t) = q
      BY <1>2 DEF ScheduleSecond
    <2>2. /\ q \in Seq(Puts) /\ Len(q) = Len(secondQ) + 1
          /\ \A k \in 1..Len(secondQ) : q[k] = secondQ[k]
          /\ q[Len(secondQ) + 1] = t
      BY <1>0, <1>2
    <2> HIDE DEF q
    <2>3. \A u : Queued(firstQ, q, u) <=> InQueue(u) \/ u = t
      BY <2>2, <1>0 DEF Queued, InQueue
    <2>4. \A i, j \in 1..Len(q) : q[i] = q[j] => i = j
      <3>1. \A k \in 1..Len(secondQ) : secondQ[k] # t
        BY DEF Outstanding, InQueue
      <3>2. \A i, j \in 1..Len(secondQ) : secondQ[i] = secondQ[j] => i = j
        BY DEF Inv, OnePlace
      <3>3. \A k \in 1..Len(q) : k \in 1..Len(secondQ) \/ k = Len(secondQ) + 1
        BY <2>2, <1>0
      <3>4. QED
        BY <3>1, <3>2, <3>3, <2>2
    <2>5. Unique(slot, cur, firstQ, q)
      BY <2>3, <2>4 DEF Inv, OnePlace, Unique, Outstanding, InFlight
    <2>6. Ready(slot, cur, stale, firstQ, q, deadList)
      BY <2>5, <2>2, ReadyNow DEF Ready
    <2>7. t \notin FirstClass
      BY <1>2, TransAssumption
    <2>8. QED
      BY <2>1, <2>3, <2>6, <2>7
  <1>3. QED
    BY <1>1, <1>2 DEF Trans

(* A connection may give up its request, answered or not.                  *)
LEMMA ReadyAfterResponse ==
  ASSUME Inv, NEW i \in Slots
  PROVE  Ready(slot, [cur EXCEPT ![i] = NoTrans], stale, firstQ, secondQ, deadList)
  BY ReadyNow DEF Ready, Unique

(* The request of a connection that is destroyed goes back to its queue.   *)
LEMMA ScheduleAgain ==
  ASSUME Inv, NEW i \in Slots
  PROVE  /\ Ready([slot EXCEPT ![i] = "null"], [cur EXCEPT ![i] = NoTrans],
                  stale \ {i}, ScheduleFirst(cur[i], FALSE),
                  ScheduleSecond(cur[i]), deadList)
         /\ \A u \in Trans : Queued(ScheduleFirst(cur[i], FALSE), ScheduleSecond(cur[i]), u)
                              <=> InQueue(u) \/ u = cur[i]
  <1> DEFINE t  == cur[i]
             f  == ScheduleFirst(t, FALSE)
             s  == ScheduleSecond(t)
             sl == [slot EXCEPT ![i] = "null"]
             cu == [cur EXCEPT ![i] = NoTrans]
  <1>0. /\ firstQ \in Seq(FirstClass) /\ secondQ \in Seq(Puts)
        /\ Len(firstQ) \in Nat /\ Len(secondQ) \in Nat
        /\ t \in FirstClass \/ t \in Puts \/ t = NoTrans
    BY DEF Inv, TypeOK, Trans
  <1>1. /\ \A j \in Slots : cu[j] = IF j = i THEN NoTrans ELSE cur[j]
        /\ \A j \in Slots : sl[j] = IF j = i THEN "null" ELSE slot[j]
        /\ cu \in [Slots -> Trans \cup {NoTrans}] /\ sl \in [Slots -> SlotStates]
    BY DEF Inv, TypeOK, SlotStates
  <1>2. CASE t \in FirstClass
    <2>1. f = <<t>> \o firstQ /\ s = secondQ
      BY <1>2, TransAssumption DEF ScheduleFirst, ScheduleSecond
    <2>2. /\ f \in Seq(FirstClass) /\ Len(f) = Len(firstQ) + 1
          /\ f[1] = t
          /\ \A k \in 1..Len(f) : k # 1 => f[k] = firstQ[k - 1] /\ k - 1 \in 1..Len(firstQ)
      <3>1. /\ <<t>> \in Seq(FirstClass) /\ Len(<<t>>) = 1 /\ <<t>>[1] = t
        BY <1>2
      <3> HIDE DEF f, t
      <3>2. /\ f \in Seq(FirstClass) /\ Len(f) = 1 + Len(firstQ)
            /\ \A k \in 1..(1 + Len(firstQ)) :
                  f[k] = IF k <= 1 THEN <<t>>[k] ELSE firstQ[k - 1]
        BY <2>1, <3>1, <1>0, ConcatProperties
      <3>3. QED
        BY <3>1, <3>2, <1>0
    <2>3. t # NoTrans /\ ~InQueue(t)
      BY <1>2, TransAssumption DEF Trans, Inv, OnePlace
    <2>4. s \in Seq(Puts)
      BY <2>1, <1>0
    <2> HIDE DEF f, s, t, cu, sl
    <2>5. \A u : Queued(f, s, u) <=> InQueue(u) \/ u = t
      <3>1. ASSUME NEW u, Queued(f, s, u) PROVE InQueue(u) \/ u = t
        BY <3>1, <2>2, <2>1, <1>0 DEF Queued, InQueue
      <3>2. ASSUME NEW k \in 1..Len(firstQ) PROVE \E m \in 1..Len(f) : f[m] = firstQ[k]
        <4>1. k + 1 \in 1..Len(f) /\ k + 1 # 1 /\ (k + 1) - 1 = k
          BY <2>2, <1>0
        <4>2. f[k + 1] = firstQ[(k + 1) - 1]
          BY <4>1, <2>2
        <4>3. QED
          BY <4>1, <4>2
      <3>3. 1 \in 1..Len(f)
        BY <2>2, <1>0
      <3>4. ASSUME NEW u, InQueue(u) PROVE Queued(f, s, u)
        BY <3>4, <3>2, <2>1 DEF Queued, InQueue
      <3>5. Queued(f, s, t)
        BY <3>3, <2>2 DEF Queued
      <3>6. QED
        BY <3>1, <3>4, <3>5
    <2>6. \A a, b \in 1..Len(f) : f[a] = f[b] => a = b
      <3> SUFFICES ASSUME NEW a \in 1..Len(f), NEW b \in 1..Len(f), f[a] = f[b]
                   PROVE  a = b
        OBVIOUS
      <3>1. CASE a = 1 \/ b = 1
        BY <3>1, <2>2, <2>3 DEF InQueue
      <3>2. CASE a # 1 /\ b # 1
        <4>0. /\ a - 1 \in 1..Len(firstQ) /\ b - 1 \in 1..Len(firstQ)
              /\ firstQ[a - 1] = firstQ[b - 1]
          BY <3>2, <2>2
        <4>1. a - 1 = b - 1
          BY <4>0 DEF Inv, OnePlace
        <4>2. QED
          BY <4>1, <2>2, <1>0
      <3>3. QED
        BY <3>1, <3>2
    <2>7. Unique(sl, cu, f, s)
      <3>1. \A a, b \in 1..Len(s) : s[a] = s[b] => a = b
        BY <2>1 DEF Inv, OnePlace
      <3>2. \A a, b \in Slots : cu[a] = cu[b] /\ cu[a] # NoTrans => a = b
        BY <1>1 DEF Inv, OnePlace
      <3>3. \A a \in Slots : cu[a] # NoTrans => ~Queued(f, s, cu[a])
        BY <1>1, <2>5, <2>3 DEF Inv, OnePlace, t
      <3>4. \A a \in Slots : sl[a] = "null" => cu[a] = NoTrans
        BY <1>1 DEF Inv, OnePlace
      <3>5. QED
        BY <2>6, <3>1, <3>2, <3>3, <3>4 DEF Unique
    <2>8. stale \ {i} \in SUBSET Slots /\ deadList \in Seq(Slots)
      BY DEF Inv, TypeOK
    <2>9. QED
      BY <1>1, <2>2, <2>4, <2>5, <2>7, <2>8 DEF Ready, f, s, t, cu, sl
  <1>3. CASE t \in Puts
    <2>1. f = firstQ /\ s = Append(secondQ, t)
      BY <1>3, TransAssumption DEF ScheduleFirst, ScheduleSecond
    <2>2. /\ s \in Seq(Puts) /\ Len(s) = Len(secondQ) + 1
          /\ s[Len(s)] = t
          /\ \A k \in 1..Len(secondQ) : s[k] = secondQ[k]
      BY <2>1, <1>3, <1>0
    <2>3. t # NoTrans /\ ~InQueue(t)
      BY <1>3, TransAssumption DEF Trans, Inv, OnePlace
    <2>4. f \in Seq(FirstClass)
      BY <2>1, <1>0
    <2> HIDE DEF f, s, t, cu, sl
    <2>5. \A u : Queued(f, s, u) <=> InQueue(u) \/ u = t
      BY <2>1, <2>2, <1>0 DEF Queued, InQueue
    <2>6. \A a, b \in 1..Len(s) : s[a] = s[b] => a = b
      <3>1. \A k \in 1..Len(s) : k \in 1..Len(secondQ) \/ k = Len(s)
        BY <2>2, <1>0
      <3>2. \A k \in 1..Len(secondQ) : secondQ[k] # t
        BY <2>3 DEF InQueue
      <3>3. \A a, b \in 1..Len(secondQ) : secondQ[a] = secondQ[b] => a = b
        BY DEF Inv, OnePlace
      <3>4. QED
        BY <3>1, <3>2, <3>3, <2>2
    <2>7. Unique(sl, cu, f, s)
      <3>1. \A a, b \in 1..Len(f) : f[a] = f[b] => a = b
        BY <2>1 DEF Inv, OnePlace
      <3>2. \A a, b \in Slots : cu[a] = cu[b] /\ cu[a] # NoTrans => a = b
        BY <1>1 DEF Inv, OnePlace
      <3>3. \A a \in Slots : cu[a] # NoTrans => ~Queued(f, s, cu[a])
        BY <1>1, <2>5, <2>3 DEF Inv, OnePlace, t
      <3>4. \A a \in Slots : sl[a] = "null" => cu[a] = NoTrans
        BY <1>1 DEF Inv, OnePlace
      <3>5. QED
        BY <2>6, <3>1, <3>2, <3>3, <3>4 DEF Unique
    <2>8. stale \ {i} \in SUBSET Slots /\ deadList \in Seq(Slots)
      BY DEF Inv, TypeOK
    <2>9. QED
      BY <1>1, <2>2, <2>4, <2>5, <2>7, <2>8 DEF Ready, f, s, t, cu, sl
  <1>4. CASE t = NoTrans
    <2>1. f = firstQ /\ s = secondQ
      BY <1>4, TransAssumption DEF ScheduleFirst, ScheduleSecond, Trans
    <2>2. \A u \in Trans : Queued(f, s, u) <=> InQueue(u) \/ u = t
      BY <2>1, <1>4, TransAssumption DEF Queued, InQueue
    <2> HIDE DEF f, s, t, cu, sl
    <2>3. Unique(sl, cu, f, s)
      BY <1>1, <2>1 DEF Inv, OnePlace, Unique, Queued, InQueue
    <2>4. stale \ {i} \in SUBSET Slots /\ deadList \in Seq(Slots)
      BY DEF Inv, TypeOK
    <2>5. QED
      BY <1>0, <1>1, <2>1, <2>2, <2>3, <2>4 DEF Ready, f, s, t, cu, sl
  <1>5. QED
    BY <1>0, <1>2, <1>3, <1>4

-----------------------------------------------------------------------------
(* The effect of each handler on what is outstanding.                      *)
LEMMA NewRequest ==
  ASSUME Inv, NEW t \in FirstClass, ~Outstanding(t),
         IssuePendingCacheRequests(slot, cur, stale, ScheduleFirst(t, TRUE),
                                   secondQ, deadList),
         UNCHANGED <<puts, toDestroy>>, timerAt' \in 0..MaxCacheConns
  PROVE  /\ Inv'
         /\ \A u \in Trans : Outstanding(u)' <=> Outstanding(u) \/ u = t
  <1>1. t \in Trans
    BY DEF Trans
  <1>2. /\ Ready(slot, cur, stale, ScheduleFirst(t, TRUE), secondQ, deadList)
        /\ \A u : Queued(ScheduleFirst(t, TRUE), secondQ, u) <=> InQueue(u) \/ u = t
    BY <1>1, ScheduleNew
  <1>3. TypeOK' /\ OnePlace'
    BY <1>2, Issuing DEF Inv, TypeOK, SlotStates, puts
  <1>4. \A u \in Trans : Outstanding(u)' <=> Outstanding(u) \/ u = t
    <2>1. \A u \in Trans : Held(cur', firstQ', secondQ', u)
              <=> Held(cur, ScheduleFirst(t, TRUE), secondQ, u)
      BY <1>2, Issuing
    <2>2. QED
      BY <1>2, <2>1, OutstandingHeld DEF Outstanding, InFlight, Held
  <1>5. \A p \in Puts : Outstanding(p)' <=> Outstanding(p)
    BY <1>4, TransAssumption DEF Trans
  <1>6. KeptUntilPutDone'
    BY <1>5 DEF Inv, KeptUntilPutDone, Own, puts
  <1>7. QED
    BY <1>3, <1>4, <1>6 DEF Inv, puts

LEMMA SendCacheRequestInv ==
  ASSUME Inv, NEW t \in Gets, SendCacheRequest(t)
  PROVE  Inv' /\ \A u \in Trans : Outstanding(u) => Outstanding(u)'
  <1>1. timerAt' \in 0..MaxCacheConns
    BY DEF SendCacheRequest, Inv, TypeOK
  <1>2. QED
    BY <1>1, NewRequest DEF SendCacheRequest, FirstClass

LEMMA NextSlotType == Inv /\ timerAt # 0 /\ NextSlot => timerAt' \in 0..MaxCacheConns
  BY ConnsAssumption DEF Inv, TypeOK, NextSlot

LEMMA KeepAliveInv ==
  ASSUME Inv, NEW t \in KeepAlives, KeepAlive(t)
  PROVE  Inv' /\ \A u \in Trans : Outstanding(u) => Outstanding(u)'
  BY NewRequest, NextSlotType DEF KeepAlive, FirstClass

LEMMA PutDiskInv ==
  ASSUME Inv, NEW p \in Puts, NEW c \in Chunks, PutDisk(p, c)
  PROVE  Inv' /\ \A u \in Trans : Outstanding(u) => Outstanding(u)'
  <1>1. p \in Trans /\ ~Outstanding(p)
    BY DEF Trans, PutDisk
  <1>2. /\ Ready(slot, cur, stale, firstQ, ScheduleSecond(p), deadList)
        /\ \A u : Queued(firstQ, ScheduleSecond(p), u) <=> InQueue(u) \/ u = p
    BY <1>1, ScheduleNew
  <1>3. IssuePendingCacheRequests(slot, cur, stale, firstQ, ScheduleSecond(p), deadList)
    BY DEF PutDisk
  <1>4. \A u \in Trans : Outstanding(u)' <=> Outstanding(u) \/ u = p
    <2>1. \A u \in Trans : Held(cur', firstQ', secondQ', u)
              <=> Held(cur, firstQ, ScheduleSecond(p), u)
      BY <1>2, <1>3, Issuing
    <2>2. QED
      BY <1>2, <2>1, OutstandingHeld DEF Outstanding, InFlight, Held
  <1>5. /\ putTmp' = putTmp \cup {c} /\ c \notin putTmp
        /\ putChunk' = [putChunk EXCEPT ![p] = c]
        /\ UNCHANGED <<remote, toDestroy, timerAt>>
    BY DEF PutDisk, MayPut
  <1>6. TypeOK' /\ OnePlace'
    BY <1>2, <1>3, <1>5, Issuing DEF Inv, TypeOK, SlotStates
  <1>7. KeptUntilPutDone'
    <2>1. \A q \in Puts : Outstanding(q)' <=> Outstanding(q) \/ q = p
      BY <1>4 DEF Trans
    <2>2. \A q \in Puts : putChunk'[q] = IF q = p THEN c ELSE putChunk[q]
      BY <1>5 DEF Inv, TypeOK
    <2>3. QED
      BY <2>1, <2>2, <1>5 DEF Inv, KeptUntilPutDone, Own
  <1>8. QED
    BY <1>4, <1>5, <1>6, <1>7 DEF Inv

LEMMA ResponseInv ==
  ASSUME Inv, NEW i \in Slots, ProcessCacheResponse(i)
  PROVE  Inv' /\ \A u \in Trans : Outstanding(u) /\ u # cur[i] => Outstanding(u)'
  <1> DEFINE cu == [cur EXCEPT ![i] = NoTrans]
  <1>1. /\ Ready(slot, cu, stale, firstQ, secondQ, deadList)
        /\ IssuePendingCacheRequests(slot, cu, stale, firstQ, secondQ, deadList)
    BY ReadyAfterResponse DEF ProcessCacheResponse
  <1>2. \A j \in Slots : cu[j] = IF j = i THEN NoTrans ELSE cur[j]
    BY DEF Inv, TypeOK
  <1> HIDE DEF cu
  <1>3. \A u \in Trans : Outstanding(u)' <=> InQueue(u) \/ \E j \in Slots : cu[j] = u
    <2>1. \A u \in Trans : Held(cur', firstQ', secondQ', u) <=> Held(cu, firstQ, secondQ, u)
      BY <1>1, Issuing
    <2>2. QED
      BY <2>1, OutstandingHeld DEF Held, Queued, InQueue
  <1>4. \A u \in Trans : Outstanding(u)' <=> Outstanding(u) /\ u # cur[i]
    <2>1. ASSUME NEW u \in Trans, Outstanding(u), u # cur[i] PROVE Outstanding(u)'
      BY <2>1, <1>2, <1>3 DEF Outstanding, InFlight
    <2>2. ASSUME NEW u \in Trans, InQueue(u) PROVE u # cur[i]
      BY <2>2, TransAssumption DEF Inv, OnePlace
    <2>3. ASSUME NEW u \in Trans, NEW j \in Slots, cu[j] = u PROVE cur[j] = u /\ u # cur[i]
      BY <2>3, <1>2, TransAssumption DEF Inv, OnePlace
    <2>4. QED
      BY <2>1, <2>2, <2>3, <1>3 DEF Outstanding, InFlight
  <1>5. /\ UNCHANGED <<remote, toDestroy, timerAt>>
        /\ cur[i] \in Puts => /\ putTmp' = putTmp \ {putChunk[cur[i]]}
                              /\ putChunk' = [putChunk EXCEPT ![cur[i]] = NoChunk]
        /\ cur[i] \notin Puts => UNCHANGED <<putChunk, putTmp>>
    BY DEF ProcessCacheResponse
  <1>6. TypeOK' /\ OnePlace'
    <2>1. putChunk' \in [Puts -> Chunks \cup {NoChunk}] /\ putTmp' \subseteq Chunks
      BY <1>5 DEF Inv, TypeOK
    <2>2. QED
      BY <1>1, <1>5, <2>1, Issuing DEF Inv, TypeOK, SlotStates
  <1>7. KeptUntilPutDone'
    <2>1. \A q \in Puts : Outstanding(q)' <=> Outstanding(q) /\ q # cur[i]
      BY <1>4 DEF Trans
    <2>2. CASE cur[i] \in Puts
      <3>1. Outstanding(cur[i])
        BY DEF Outstanding, InFlight
      <3>2. \A q \in Puts : q # cur[i] => putChunk'[q] = putChunk[q]
        BY <2>2, <1>5 DEF Inv, TypeOK
      <3>3. QED
        BY <2>1, <2>2, <3>1, <3>2, <1>5 DEF Inv, KeptUntilPutDone, Own
    <2>3. CASE cur[i] \notin Puts
      BY <2>1, <2>3, <1>5 DEF Inv, KeptUntilPutDone, Own
    <2>4. QED
      BY <2>2, <2>3
  <1>8. QED
    BY <1>4, <1>5, <1>6, <1>7 DEF Inv

LEMMA DestroyInv ==
  ASSUME Inv, DestroyCacheConnectionInfo
  PROVE  Inv' /\ \A u \in Trans : Outstanding(u) => Outstanding(u)'
  <1> DEFINE i  == Head(toDestroy)
             cu == [cur EXCEPT ![i] = NoTrans]
  <1>1. i \in Slots /\ toDestroy' \in Seq(Slots) /\ UNCHANGED <<puts, timerAt>>
    BY DEF DestroyCacheConnectionInfo, Inv, TypeOK
  <1>2. IssuePendingCacheRequests([slot EXCEPT ![i] = "null"], cu, stale \ {i},
             ScheduleFirst(cur[i], FALSE), ScheduleSecond(cur[i]), deadList)
    BY DEF DestroyCacheConnectionInfo
  <1>3. \A j \in Slots : cu[j] = IF j = i THEN NoTrans ELSE cur[j]
    BY DEF Inv, TypeOK
  <1> HIDE DEF i
  <1>4. /\ Ready([slot EXCEPT ![i] = "null"], cu, stale \ {i},
             ScheduleFirst(cur[i], FALSE), ScheduleSecond(cur[i]), deadList)
        /\ \A u \in Trans : Queued(ScheduleFirst(cur[i], FALSE), ScheduleSecond(cur[i]), u)
                              <=> InQueue(u) \/ u = cur[i]
    BY <1>1, ScheduleAgain
  <1> HIDE DEF cu
  <1>5. \A u \in Trans : Outstanding(u)' <=>
           InQueue(u) \/ u = cur[i] \/ \E j \in Slots : cu[j] = u
    <2>1. \A u \in Trans : Held(cur', firstQ', secondQ', u)
              <=> Held(cu, ScheduleFirst(cur[i], FALSE), ScheduleSecond(cur[i]), u)
      BY <1>2, <1>4, Issuing
    <2>2. QED
      BY <1>4, <2>1, OutstandingHeld DEF Held
  <1>6. \A u \in Trans : Outstanding(u)' <=> Outstanding(u)
    BY <1>1, <1>3, <1>5, TransAssumption DEF Outstanding, InFlight
  <1>7. TypeOK' /\ OnePlace'
    BY <1>1, <1>2, <1>4, Issuing DEF Inv, TypeOK, SlotStates, puts
  <1>8. KeptUntilPutDone'
    BY <1>1, <1>6 DEF Inv, KeptUntilPutDone, Own, puts, Trans
  <1>9. QED
    BY <1>1, <1>6, <1>7, <1>8 DEF Inv, puts

(* The other handlers move no request.                                     *)
LEMMA QuietInv ==
  ASSUME Inv, UNCHANGED <<cur, firstQ, secondQ, putChunk>>,
         \/ UNCHANGED <<slot, stale, deadList, toDestroy, timerAt>>
            /\ \E c \in Chunks : DistributePutRequest(c) \/ ProcessPutResponse(c)
         \/ \E i \in Slots : CloseCacheConnection(i) \/ TimePasses(i)
         \/ CleanUpClosedConnections \/ TimerCB
         \/ MakeNewCacheConnection \/ SkipSlot
  PROVE  Inv' /\ \A u \in Trans : Outstanding(u) => Outstanding(u)'
  <1>1. \A u : Outstanding(u)' <=> Outstanding(u)
    BY DEF Outstanding, InQueue, InFlight
  <1> DEFINE Quiet == /\ TypeOK' /\ (\A i \in Slots : slot'[i] = "null" => slot[i] = "null")
                      /\ remote' \subseteq RemoteChunks
                      /\ \A c \in Chunks \ RemoteChunks : c \in putTmp => c \in putTmp'
  <1>2. Quiet
    <2> USE DEF Inv, TypeOK, puts, queues
    <2>1. ASSUME NEW c \in Chunks, DistributePutRequest(c) \/ ProcessPutResponse(c) PROVE Quiet
      BY <2>1 DEF DistributePutRequest, ProcessPutResponse
    <2>2. ASSUME NEW i \in Slots, CloseCacheConnection(i) PROVE Quiet
      BY <2>2 DEF CloseCacheConnection
    <2>3. ASSUME NEW i \in Slots, TimePasses(i) PROVE Quiet
      BY <2>3 DEF TimePasses
    <2>4. CASE CleanUpClosedConnections
      BY <2>4 DEF CleanUpClosedConnections
    <2>5. CASE TimerCB
      BY <2>5, ConnsAssumption DEF TimerCB
    <2>6. CASE MakeNewCacheConnection
      BY <2>6, NextSlotType DEF MakeNewCacheConnection, Slots
    <2>7. CASE SkipSlot
      BY <2>7, NextSlotType DEF SkipSlot
    <2>8. QED
      BY <2>1, <2>2, <2>3, <2>4, <2>5, <2>6, <2>7
  <1>4. OnePlace'
    BY <1>2 DEF Inv, OnePlace, InQueue
  <1>6. KeptUntilPutDone'
    <2>1. \A p \in Puts : Own(p)' <=> Own(p)
      BY <1>1 DEF Own
    <2>2. \A p \in Puts : Own(p) => putChunk[p] \in Chunks \ RemoteChunks
      BY DEF Inv, KeptUntilPutDone, Own, TypeOK
    <2>3. \A c \in Chunks \ RemoteChunks : c \in putTmp => c \in putTmp'
      BY <1>2
    <2>4. KeptUntilPutDone
      BY DEF Inv
    <2> HIDE DEF Quiet
    <2>5. QED
      BY <2>1, <2>2, <2>3, <2>4 DEF KeptUntilPutDone
  <1>7. QED
    BY <1>1, <1>2, <1>4, <1>6 DEF Inv

-----------------------------------------------------------------------------
LEMMA InitInv == Init => Inv
  <1> SUFFICES ASSUME Init PROVE Inv
    OBVIOUS
  <1>1. TypeOK
    BY ConnsAssumption DEF Init, TypeOK
  <1>2. \A t : ~InQueue(t)
    BY DEF Init, InQueue
  <1>3. \A i \in Slots : cur[i] = NoTrans
    BY DEF Init
  <1>4. OnePlace
    BY <1>2, <1>3 DEF Init, OnePlace
  <1>5. \A p \in Puts : ~Outstanding(p)
    BY <1>2, <1>3, TransAssumption DEF Outstanding, InFlight, Trans
  <1>6. QED
    BY <1>1, <1>4, <1>5 DEF Inv, KeptUntilPutDone, Own, Init

(* Each step keeps the invariant, and only an answer ends a request.       *)
LEMMA NextInv ==
  ASSUME Inv, [Next]_vars
  PROVE  Inv' /\ \A t \in Trans : Outstanding(t) /\ ~Outstanding(t)' => Answer(t)
  <1> DEFINE Kept == Inv' /\ \A t \in Trans : Outstanding(t) /\ ~Outstanding(t)' => Answer(t)
  <1>1. ASSUME NEW t \in Gets, SendCacheRequest(t) PROVE Kept
    BY <1>1, SendCacheRequestInv
  <1>2. ASSUME NEW p \in Puts, NEW c \in Chunks, PutDisk(p, c) PROVE Kept
    BY <1>2, PutDiskInv
  <1>3. ASSUME NEW c \in Chunks, DistributePutRequest(c) \/ ProcessPutResponse(c)
        PROVE  Kept
    BY <1>3, QuietInv DEF DistributePutRequest, ProcessPutResponse, queues
  <1>4. ASSUME NEW i \in Slots, ProcessCacheResponse(i) PROVE Kept
    BY <1>4, ResponseInv DEF Answer
  <1>5. ASSUME NEW i \in Slots, CloseCacheConnection(i) \/ TimePasses(i) PROVE Kept
    BY <1>5, QuietInv DEF CloseCacheConnection, TimePasses, queues, puts
  <1>6. CASE CleanUpClosedConnections
    BY <1>6, QuietInv DEF CleanUpClosedConnections, queues, puts
  <1>7. CASE DestroyCacheConnectionInfo
    BY <1>7, DestroyInv
  <1>8. CASE TimerCB
    BY <1>8, QuietInv DEF TimerCB, queues, puts
  <1>9. CASE MakeNewCacheConnection
    BY <1>9, QuietInv DEF MakeNewCacheConnection, queues, puts
  <1>10. CASE SkipSlot
    BY <1>10, QuietInv DEF SkipSlot, queues, puts
  <1>11. ASSUME NEW t \in KeepAlives, KeepAlive(t) PROVE Kept
    BY <1>11, KeepAliveInv
  <1>12. CASE UNCHANGED vars
    <2>1. TypeOK'
      BY <1>12 DEF vars, Inv, TypeOK
    <2>2. OnePlace' /\ \A u : Outstanding(u)' <=> Outstanding(u)
      BY <1>12 DEF vars, Inv, OnePlace, Outstanding, InQueue, InFlight
    <2>3. KeptUntilPutDone'
      BY <1>12, <2>2 DEF vars, Inv, KeptUntilPutDone, Own
    <2>4. QED
      BY <1>12, <2>1, <2>2, <2>3 DEF Inv, vars
  <1>13. QED
    BY <1>1, <1>2, <1>3, <1>4, <1>5, <1>6, <1>7, <1>8, <1>9, <1>10, <1>11, <1>12
    DEF Next, CheckDiskCacheConnections

LEMMA Invariance == Spec => []Inv
  <1>1. Inv /\ [Next]_vars => Inv'
    BY NextInv
  <1>2. QED
    BY <1>1, InitInv, PTL DEF Spec

(* The shape of the scheduler's state, for any number of connections and   *)
(* any sets of requests.                                                   *)
THEOREM TypeCorrect == Spec => []TypeOK
  BY Invariance, PTL DEF Inv

(* A request is never queued twice, on two connections, or both queued and *)
(* on a connection: the retry of DestroyCacheConnectionInfo and the hand   *)
(* out of IssuePendingCacheRequests keep it in one place.                  *)
THEOREM RequestsInOnePlace == Spec => []OnePlace
  BY Invariance, PTL DEF Inv

(* A chunk that is not also PUT to another peer stays in put_tmp_ht until  *)
(* its PUT finishes, and has one PUT at a time.                            *)
THEOREM ChunksKept == Spec => []KeptUntilPutDone
  BY Invariance, PTL DEF Inv

(* No request is dropped: only the processing of its response ends it.     *)
THEOREM RequestsNeverLost == Spec => NeverLost
  <1> DEFINE OnlyAnswered == \A t \in Trans : Outstanding(t) /\ ~Outstanding(t)' => Answer(t)
  <1>1. Inv /\ [Next]_vars => OnlyAnswered
    BY NextInv
  <1>2. QED
    BY <1>1, Invariance, PTL DEF Spec, NeverLost
=============================================================================

---------------------------- MODULE Peers_proofs ----------------------------
(* Proofs about Peers: its types, the exact value of g_NumLivePeers, that  *)
(* a receiver always has a peer to pick, and that it drops no peer that is *)
(* up, for every peer file, any number of strangers and any timeout.       *)
EXTENDS Peers, FiniteSetTheorems, TLAPS

LEMMA PingsAndPongs ==
    \A n, p \in Proxies : Ping(n, p) \in Datagrams /\ Pong(n, p) \in Datagrams
BY DEF Ping, Pong, Datagrams

(* Every step keeps the types of the variables of peer.c.                  *)
THEOREM TypeCorrect == Spec => []TypeOK
<1>1. Init => TypeOK
  BY PeersAssumption DEF Init, TypeOK, Proxies
<1>2. TypeOK /\ [Next]_vars => TypeOK'
  <2> SUFFICES ASSUME TypeOK, [Next]_vars PROVE TypeOK'
    OBVIOUS
  <2> USE PeersAssumption DEF TypeOK, Proxies
  <2>1. ASSUME NEW n \in Conf, NEW p \in known[n], UpdatePeerLiveness(n, p)
        PROVE  /\ alive' \in [Conf -> SUBSET Proxies]
               /\ numLive' \in [Conf -> Int]
               /\ age' \in [Conf -> [Proxies -> 0..PingTimeout]]
    <3>1. p \in Proxies /\ alive[n] \in SUBSET Proxies
      OBVIOUS
    <3>2. IsFiniteSet({p} \ alive[n])
      BY FS_Difference, FS_Singleton
    <3>3. NewlyAlive(alive[n], {p}) \in Int
      BY <3>2, FS_CardinalityType DEF NewlyAlive
    <3>4. alive' \in [Conf -> SUBSET Proxies]
      BY <2>1, <3>1 DEF UpdatePeerLiveness
    <3>5. numLive' \in [Conf -> Int]
      BY <2>1, <3>3 DEF UpdatePeerLiveness
    <3>6. [age[n] EXCEPT ![p] = 0] \in [Proxies -> 0..PingTimeout]
      BY <3>1
    <3>7. age' \in [Conf -> [Proxies -> 0..PingTimeout]]
      BY <2>1, <3>6 DEF UpdatePeerLiveness
    <3> QED
      BY <3>4, <3>5, <3>7
  <2>2. CASE \E n \in Conf : CheckNodeStatus(n)
    <3> PICK n \in Conf : CheckNodeStatus(n)
      BY <2>2
    <3>1. /\ IsFiniteSet(Proxies) /\ Expired(n) \subseteq Proxies
          /\ Always(n) \subseteq Proxies
      BY FS_Union DEF Expired, Always
    <3>2. Cardinality(Expired(n)) \in Int
      BY <3>1, FS_Subset, FS_CardinalityType
    <3>a. IsFiniteSet(Always(n) \ (alive[n] \ Expired(n)))
      BY <3>1, FS_Subset, FS_Difference
    <3>3. NewlyAlive(alive[n] \ Expired(n), Always(n)) \in Int
      BY <3>a, FS_CardinalityType DEF NewlyAlive
    <3>4. numLive' \in [Conf -> Int]
      BY <3>2, <3>3 DEF CheckNodeStatus
    <3>5. alive' \in [Conf -> SUBSET Proxies]
      BY <3>1 DEF CheckNodeStatus
    <3>6. age' \in [Conf -> [Proxies -> 0..PingTimeout]]
      <4>1. 0 \in 0..PingTimeout
        OBVIOUS
      <4>2. [p \in Proxies |-> IF p \in Always(n) THEN 0 ELSE age[n][p]]
                \in [Proxies -> 0..PingTimeout]
        BY <4>1
      <4> QED
        BY <4>2, Zenon DEF CheckNodeStatus
    <3>7. net' \subseteq Datagrams
      <4>1. n \in Proxies /\ known[n] \subseteq Proxies
        OBVIOUS
      <4>2. {Ping(n, p) : p \in Pinged(n)} \subseteq Datagrams
        BY <4>1, PingsAndPongs DEF Pinged
      <4> QED
        BY <4>2 DEF CheckNodeStatus
    <3> QED
      BY <3>4, <3>5, <3>6, <3>7 DEF CheckNodeStatus
  <2>3. CASE \E m \in net : ProcessPing(m)
    <3> PICK m \in net : ProcessPing(m)
      BY <2>3
    <3>1. net' \subseteq Datagrams
      <4>1. m.to \in Proxies /\ m.from \in Proxies
        BY DEF Datagrams
      <4>2. Pong(m.to, m.from) \in Datagrams
        BY <4>1, PingsAndPongs
      <4> QED
        BY <4>2 DEF ProcessPing
    <3>2. CASE m.from \in known[m.to]
      <4>1. m.to \in Conf /\ UpdatePeerLiveness(m.to, m.from)
        BY <3>2 DEF ProcessPing
      <4>2. /\ alive' \in [Conf -> SUBSET Proxies]
            /\ numLive' \in [Conf -> Int]
            /\ age' \in [Conf -> [Proxies -> 0..PingTimeout]]
        BY <2>1, <3>2, <4>1
      <4> QED
        BY <3>1, <3>2, <4>2 DEF ProcessPing
    <3>3. CASE m.from \notin known[m.to]
      BY <3>1, <3>3 DEF ProcessPing, table
    <3> QED
      BY <3>2, <3>3
  <2>4. CASE \E n \in Conf, p \in Proxies : WriteToPeer(n, p)
    <3> PICK n \in Conf, p \in Proxies : WriteToPeer(n, p)
      BY <2>4
    <3>1. p \in known[n] /\ UpdatePeerLiveness(n, p)
      BY DEF WriteToPeer
    <3>2. /\ alive' \in [Conf -> SUBSET Proxies]
          /\ numLive' \in [Conf -> Int]
          /\ age' \in [Conf -> [Proxies -> 0..PingTimeout]]
      BY <2>1, <3>1
    <3> QED
      <4>1. writes' \in 0..MaxWrites
        BY DEF WriteToPeer
      <4> QED
        BY <3>2, <4>1 DEF WriteToPeer
  <2>5. CASE \E n \in Conf, p \in Proxies : AddUnknownPeerInfo(n, p)
    <3> PICK n \in Conf, p \in Proxies : AddUnknownPeerInfo(n, p)
      BY <2>5
    <3>1. known' \in [Conf -> SUBSET Proxies]
      BY DEF AddUnknownPeerInfo
    <3>2. alive' \in [Conf -> SUBSET Proxies]
      BY DEF AddUnknownPeerInfo
    <3> QED
      BY <3>1, <3>2 DEF AddUnknownPeerInfo
  <2>6. CASE \E n \in Conf : Stop(n)
    BY <2>6 DEF Stop, table
  <2>7. CASE \E m \in net : Lose(m) \/ Unreceived(m) \/ StrangerAnswers(m)
    <3> PICK m \in net : Lose(m) \/ Unreceived(m) \/ StrangerAnswers(m)
      BY <2>7
    <3>1. lost' \in 0..MaxLost
      BY DEF Lose, Unreceived, StrangerAnswers
    <3>2. net' \subseteq Datagrams
      <4>1. Pong(m.to, m.from) \in Datagrams
        BY PingsAndPongs DEF Datagrams
      <4> QED
        BY <4>1 DEF Lose, Unreceived, StrangerAnswers
    <3> QED
      BY <3>1, <3>2 DEF Lose, Unreceived, StrangerAnswers, table
  <2>8. CASE NextInterval
    <3>1. age' \in [Conf -> [Proxies -> 0..PingTimeout]]
      BY <2>8 DEF NextInterval
    <3> QED
      BY <2>8, <3>1 DEF NextInterval
  <2>9. CASE UNCHANGED vars
    BY <2>9 DEF vars, table
  <2> QED
    BY <2>2, <2>3, <2>4, <2>5, <2>6, <2>7, <2>8, <2>9 DEF Next
<1> QED
  BY <1>1, <1>2, PTL DEF Spec
-----------------------------------------------------------------------------
(* What reviving, and expiring, a set of peers does to their number.       *)
LEMMA CountRevived ==
    ASSUME NEW A, NEW ps, IsFiniteSet(A), IsFiniteSet(ps)
    PROVE  /\ Cardinality(A) \in Nat
           /\ NewlyAlive(A, ps) \in Nat
           /\ Cardinality(A \cup ps) = Cardinality(A) + NewlyAlive(A, ps)
<1>1. IsFiniteSet(ps \ A)
  BY FS_Difference
<1>2. A \cup ps = A \cup (ps \ A) /\ A \cap (ps \ A) = {}
  OBVIOUS
<1>3. Cardinality(A \cup (ps \ A))
        = Cardinality(A) + Cardinality(ps \ A) - Cardinality(A \cap (ps \ A))
  BY <1>1, FS_Union
<1>5. Cardinality({}) = 0
  BY FS_EmptySet
<1>4. Cardinality(A) \in Nat /\ Cardinality(ps \ A) \in Nat
  BY <1>1, FS_CardinalityType
<1>6. Cardinality(A \cap (ps \ A)) = 0
  BY <1>2, <1>5, Zenon
<1>7. Cardinality(A \cup ps) = Cardinality(A \cup (ps \ A))
  BY <1>2, Zenon
<1> QED
  BY <1>3, <1>4, <1>6, <1>7 DEF NewlyAlive

LEMMA CountExpired ==
    ASSUME NEW A, NEW E \in SUBSET A, IsFiniteSet(A)
    PROVE  /\ IsFiniteSet(A \ E)
           /\ Cardinality(E) \in Nat /\ Cardinality(A) \in Nat
           /\ Cardinality(A \ E) = Cardinality(A) - Cardinality(E)
<1>1. A \cap E = E
  OBVIOUS
<1>2. IsFiniteSet(E)
  BY FS_Subset
<1> QED
  BY <1>1, <1>2, FS_Difference, FS_CardinalityType

(* LiveCount needs that the peer file is never forgotten: the two peers    *)
(* that the timer revives are entries of the table.                        *)
CountInv == /\ TypeOK
            /\ LiveCount
            /\ \A n \in Conf : Conf \subseteq known[n]

LEMMA TablesFinite ==
    ASSUME TypeOK, NEW n \in Conf
    PROVE  IsFiniteSet(alive[n]) /\ IsFiniteSet(known[n])
           /\ IsFiniteSet(known[n] \ Conf)
<1>1. IsFiniteSet(Proxies)
  BY PeersAssumption, FS_Union DEF Proxies
<1>2. alive[n] \subseteq Proxies /\ known[n] \subseteq Proxies
  BY DEF TypeOK
<1> QED
  BY <1>1, <1>2, FS_Subset, FS_Difference

LEMMA CountInit == Init => CountInv
<1> SUFFICES ASSUME Init PROVE CountInv
  OBVIOUS
<1>1. TypeOK
  BY PeersAssumption DEF Init, TypeOK, Proxies
<1>2. LiveCount
  <2> SUFFICES ASSUME NEW n \in Conf
               PROVE  /\ numLive[n] + Cardinality(known[n] \ Conf) = Cardinality(alive[n])
                      /\ alive[n] \subseteq known[n]
    BY DEF LiveCount
  <2>1. known[n] \ Conf = {} /\ alive[n] = {} /\ numLive[n] = 0
    BY DEF Init
  <2> QED
    BY <2>1, FS_EmptySet
<1> QED
  BY <1>1, <1>2 DEF CountInv, Init

(* A peer that is heard from, or written to, is counted once.              *)
LEMMA CountUpdate ==
    ASSUME CountInv, NEW n \in Conf, NEW p \in known[n],
           UpdatePeerLiveness(n, p), known' = known
    PROVE  LiveCount'
<1> SUFFICES ASSUME NEW k \in Conf
             PROVE  /\ numLive'[k] + Cardinality(known'[k] \ Conf) = Cardinality(alive'[k])
                    /\ alive'[k] \subseteq known'[k]
  BY DEF LiveCount
<1> USE DEF CountInv
<1>1. CASE k # n
  BY <1>1 DEF UpdatePeerLiveness, LiveCount, TypeOK
<1>2. CASE k = n
  <2>1. /\ alive'[n] = alive[n] \cup {p}
        /\ numLive'[n] = numLive[n] + NewlyAlive(alive[n], {p})
    BY DEF UpdatePeerLiveness, TypeOK
  <2>2. /\ NewlyAlive(alive[n], {p}) \in Nat
        /\ Cardinality(alive[n] \cup {p})
              = Cardinality(alive[n]) + NewlyAlive(alive[n], {p})
    BY CountRevived, TablesFinite, FS_Singleton
  <2>3. Cardinality(known[n] \ Conf) \in Nat /\ numLive[n] \in Int
    BY TablesFinite, FS_CardinalityType DEF TypeOK
  <2>4. alive'[n] \subseteq known[n]
    BY <2>1 DEF LiveCount
  <2> QED
    BY <1>2, <2>1, <2>2, <2>3, <2>4 DEF LiveCount
<1> QED
  BY <1>1, <1>2

(* The timer takes off what it expires and adds what it revives.           *)
LEMMA CountCheck ==
    ASSUME CountInv, NEW n \in Conf, CheckNodeStatus(n)
    PROVE  LiveCount'
<1> SUFFICES ASSUME NEW k \in Conf
             PROVE  /\ numLive'[k] + Cardinality(known'[k] \ Conf) = Cardinality(alive'[k])
                    /\ alive'[k] \subseteq known'[k]
  BY DEF LiveCount
<1> USE DEF CountInv
<1>0. known' = known
  BY DEF CheckNodeStatus
<1>1. CASE k # n
  BY <1>0, <1>1 DEF CheckNodeStatus, LiveCount, TypeOK
<1>2. CASE k = n
  <2> DEFINE left == alive[n] \ Expired(n)
  <2>1. /\ alive'[n] = left \cup Always(n)
        /\ numLive'[n] = numLive[n] - Cardinality(Expired(n))
                            + NewlyAlive(left, Always(n))
    BY DEF CheckNodeStatus, TypeOK
  <2>2. /\ Cardinality(Expired(n)) \in Nat /\ IsFiniteSet(left)
        /\ Cardinality(alive[n]) \in Nat
        /\ Cardinality(left) = Cardinality(alive[n]) - Cardinality(Expired(n))
    <3>1. Expired(n) \in SUBSET alive[n]
      BY DEF Expired
    <3> QED
      BY <3>1, CountExpired, TablesFinite
  <2>3. IsFiniteSet(Always(n)) /\ Always(n) \subseteq known[n]
    <3>1. IsFiniteSet({n} \cup {First})
      BY FS_Singleton, FS_AddElement
    <3>2. Always(n) = {n} \cup {First}
      BY DEF Always
    <3>3. n \in known[n] /\ First \in known[n]
      BY PeersAssumption
    <3> QED
      BY <3>1, <3>2, <3>3
  <2>4. /\ NewlyAlive(left, Always(n)) \in Nat
        /\ Cardinality(left \cup Always(n))
              = Cardinality(left) + NewlyAlive(left, Always(n))
    BY <2>2, <2>3, CountRevived
  <2>5. Cardinality(known[n] \ Conf) \in Nat /\ numLive[n] \in Int
    BY TablesFinite, FS_CardinalityType DEF TypeOK
  <2>6. alive'[n] \subseteq known[n]
    BY <2>1, <2>3 DEF LiveCount
  <2>7. numLive[n] + Cardinality(known[n] \ Conf) = Cardinality(alive[n])
    BY DEF LiveCount
  <2> HIDE DEF left
  <2> QED
    BY <1>0, <1>2, <2>1, <2>2, <2>4, <2>5, <2>6, <2>7
<1> QED
  BY <1>1, <1>2

(* g_NumLivePeers stays exact through every interleaving of the timer, the *)
(* datagrams, the writes and the connections of unknown peers.             *)
THEOREM LiveCountExact == Spec => []LiveCount
<1>1. CountInv /\ TypeOK' /\ [Next]_vars => CountInv'
  <2> SUFFICES ASSUME CountInv, TypeOK', [Next]_vars PROVE CountInv'
    OBVIOUS
  <2>1. \A n \in Conf : Conf \subseteq known'[n]
    <3>1. CASE known' = known
      BY <3>1 DEF CountInv
    <3>2. CASE \E n \in Conf, p \in Proxies : AddUnknownPeerInfo(n, p)
      BY <3>2 DEF AddUnknownPeerInfo, CountInv, TypeOK
    <3> QED
      BY <3>1, <3>2 DEF Next, vars, table, CheckNodeStatus, Stop, WriteToPeer,
             ProcessPing, Lose, Unreceived, StrangerAnswers, NextInterval
  <2>2. LiveCount'
    <3>1. ASSUME NEW n \in Conf, CheckNodeStatus(n) PROVE LiveCount'
      BY <3>1, CountCheck
    <3>2. ASSUME NEW n \in Conf, NEW p \in Proxies, WriteToPeer(n, p)
          PROVE  LiveCount'
      <4>1. p \in known[n] /\ UpdatePeerLiveness(n, p) /\ known' = known
        BY <3>2 DEF WriteToPeer
      <4> QED
        BY <4>1, CountUpdate
    <3>3. ASSUME NEW m \in net, ProcessPing(m) PROVE LiveCount'
      <4>1. CASE m.from \in known[m.to]
        <5>1. /\ m.to \in Conf /\ UpdatePeerLiveness(m.to, m.from)
              /\ known' = known
          BY <3>3, <4>1 DEF ProcessPing
        <5> QED
          BY <4>1, <5>1, CountUpdate
      <4>2. CASE m.from \notin known[m.to]
        BY <3>3, <4>2 DEF ProcessPing, table, CountInv, LiveCount
      <4> QED
        BY <4>1, <4>2
    <3>4. ASSUME NEW n \in Conf, NEW p \in Proxies, AddUnknownPeerInfo(n, p)
          PROVE  LiveCount'
      <4> SUFFICES ASSUME NEW k \in Conf
                   PROVE  /\ numLive'[k] + Cardinality(known'[k] \ Conf)
                                = Cardinality(alive'[k])
                          /\ alive'[k] \subseteq known'[k]
        BY DEF LiveCount
      <4>1. CASE k # n
        BY <3>4, <4>1 DEF AddUnknownPeerInfo, CountInv, LiveCount, TypeOK
      <4>2. CASE k = n
        <5>0. /\ p \notin Conf /\ p \notin known[n] /\ alive[n] \subseteq known[n]
              /\ alive'[n] = alive[n] \cup {p} /\ numLive'[n] = numLive[n]
              /\ known'[n] = known[n] \cup {p}
          BY <3>4, PeersAssumption DEF AddUnknownPeerInfo, CountInv, LiveCount, TypeOK
        <5>1. /\ alive'[n] = alive[n] \cup {p} /\ p \notin alive[n]
              /\ known'[n] \ Conf = (known[n] \ Conf) \cup {p}
              /\ p \notin known[n] \ Conf
              /\ numLive'[n] = numLive[n]
              /\ alive'[n] \subseteq known'[n]
          BY <5>0
        <5>2. Cardinality(alive[n] \cup {p}) = Cardinality(alive[n]) + 1
          BY <5>1, TablesFinite, FS_AddElement DEF CountInv
        <5>3. Cardinality((known[n] \ Conf) \cup {p}) = Cardinality(known[n] \ Conf) + 1
          BY <5>1, TablesFinite, FS_AddElement DEF CountInv
        <5>4. /\ numLive[n] \in Int /\ Cardinality(known[n] \ Conf) \in Nat
              /\ Cardinality(alive[n]) \in Nat
          BY TablesFinite, FS_CardinalityType DEF CountInv, TypeOK
        <5>5. numLive[n] + Cardinality(known[n] \ Conf) = Cardinality(alive[n])
          BY DEF CountInv, LiveCount
        <5>6. Cardinality(known'[n] \ Conf) = Cardinality(known[n] \ Conf) + 1
          BY <5>1, <5>3
        <5>7. Cardinality(alive'[n]) = Cardinality(alive[n]) + 1
          BY <5>1, <5>2
        <5> QED
          BY <4>2, <5>1, <5>4, <5>5, <5>6, <5>7
      <4> QED
        BY <4>1, <4>2
    <3>5. CASE UNCHANGED <<known, alive, numLive>>
      BY <3>5 DEF CountInv, LiveCount
    <3> QED
      BY <3>1, <3>2, <3>3, <3>4, <3>5 DEF Next, vars, table, Stop, Lose,
             Unreceived, StrangerAnswers, NextInterval
  <2> QED
    BY <2>1, <2>2 DEF CountInv
<1>2. CountInv => LiveCount
  BY DEF CountInv
<1> QED
  BY <1>1, <1>2, CountInit, TypeCorrect, PTL DEF Spec

(* A receiver never finds its table of live peers empty: First is alive    *)
(* from its first timer on, and no expiry outlives the timer that makes it.*)
THEOREM AlwaysAPeerToPick == Spec => []PeerToPick
<1> DEFINE Inv == \A n \in Conf : n \in alive[n] => First \in alive[n]
<1>1. Init => Inv
  BY DEF Init
<1>2. TypeOK /\ Inv /\ [Next]_vars => Inv'
  <2> SUFFICES ASSUME TypeOK, Inv, [Next]_vars, NEW n \in Conf
               PROVE  n \in alive'[n] => First \in alive'[n]
    OBVIOUS
  <2>1. CASE \E k \in Conf : CheckNodeStatus(k)
    BY <2>1 DEF CheckNodeStatus, Always, TypeOK
  <2>2. ASSUME NEW k \in Conf, NEW p, Started(k), UpdatePeerLiveness(k, p)
        PROVE  n \in alive'[n] => First \in alive'[n]
    BY <2>2 DEF UpdatePeerLiveness, Started, TypeOK
  <2>3. ASSUME NEW m \in net, ProcessPing(m)
        PROVE  n \in alive'[n] => First \in alive'[n]
    BY <2>2, <2>3 DEF ProcessPing, table
  <2>4. CASE \E k \in Conf, p \in Proxies : WriteToPeer(k, p)
    BY <2>2, <2>4 DEF WriteToPeer
  <2>5. CASE \E k \in Conf, p \in Proxies : AddUnknownPeerInfo(k, p)
    BY <2>5 DEF AddUnknownPeerInfo, Started, TypeOK
  <2>6. CASE UNCHANGED alive
    BY <2>6
  <2> QED
    BY <2>1, <2>3, <2>4, <2>5, <2>6 DEF Next, vars, table, Stop, Lose,
           Unreceived, StrangerAnswers, NextInterval
<1>3. Inv => PeerToPick
  BY DEF PeerToPick, Started
<1> QED
  BY <1>1, <1>2, <1>3, TypeCorrect, PTL DEF Spec

-----------------------------------------------------------------------------
(* The two ways in which n can still hear of p in this interval: p's own   *)
(* ping, and the pong to n's ping.                                         *)
ByPing(n, p) == p \in due \/ Ping(p, n) \in net
ByPong(n, p) == n \in due \/ Ping(n, p) \in net \/ Pong(p, n) \in net
One(b) == IF b THEN 1 ELSE 0

(* An interval in which n does not hear of p has cost two datagrams.       *)
Heard(n, p) ==
    p \in alive[n] /\ n \notin stopped /\ p \notin stopped =>
        2 * age[n][p] <= lost + One(ByPing(n, p)) + One(ByPong(n, p))
HeardInv ==
    /\ \A n \in Conf : Conf \subseteq known[n]
    /\ due \cap stopped = {}
    /\ \A n \in Conf \ {First} : \A p \in Conf \ {First, n} : Heard(n, p)

LEMMA OneType == \A b : One(b) \in {0, 1} /\ (b => One(b) = 1) /\ (~b => One(b) = 0)
BY DEF One

LEMMA HeardTypes ==
    ASSUME TypeOK, NEW n \in Conf, NEW p \in Conf
    PROVE  /\ age \in [Conf -> [Proxies -> 0..PingTimeout]] /\ lost \in Nat
           /\ p \in Proxies /\ age[n][p] \in Nat /\ alive \in [Conf -> SUBSET Proxies]
  <1>1. /\ age \in [Conf -> [Proxies -> 0..PingTimeout]] /\ lost \in 0..MaxLost
        /\ alive \in [Conf -> SUBSET Proxies]
    BY DEF TypeOK
  <1>2. p \in Proxies /\ MaxLost \in Nat /\ PingTimeout \in Nat
    BY PeersAssumption DEF Proxies
  <1>3. age[n][p] \in 0..PingTimeout
    BY <1>1, <1>2
  <1> QED
    BY <1>1, <1>2, <1>3

(* A step that leaves what n knows of p, and takes away no way to hear.    *)
LEMMA HeardKept ==
    ASSUME NEW n, NEW p, Heard(n, p), stopped \subseteq stopped',
           p \in alive'[n] => p \in alive[n], age'[n][p] = age[n][p],
           lost' = lost, lost \in Nat, age[n][p] \in Nat,
           ByPing(n, p) => ByPing(n, p)', ByPong(n, p) => ByPong(n, p)'
    PROVE  Heard(n, p)'
  <1> SUFFICES ASSUME p \in alive'[n], n \notin stopped', p \notin stopped'
               PROVE  2 * age'[n][p] <= lost' + One(ByPing(n, p)') + One(ByPong(n, p)')
    BY DEF Heard
  <1> DEFINE a == ByPing(n, p)
             b == ByPong(n, p)
             c == ByPing(n, p)'
             d == ByPong(n, p)'
  <1>1. 2 * age[n][p] <= lost + One(a) + One(b)
    BY DEF Heard
  <1>2. (a => c) /\ (b => d)
    OBVIOUS
  <1> HIDE DEF a, b, c, d
  <1>3. One(a) <= One(c) /\ One(b) <= One(d)
    BY <1>2 DEF One
  <1>4. One(a) \in {0,1} /\ One(b) \in {0,1} /\ One(c) \in {0,1} /\ One(d) \in {0,1}
    BY OneType
  <1>5. 2 * age[n][p] <= lost + One(c) + One(d)
    BY <1>1, <1>3, <1>4
  <1> QED
    BY <1>5 DEF c, d

(* n hears of p.                                                           *)
LEMMA HeardNow ==
    ASSUME NEW n, NEW p, age'[n][p] = 0, lost' \in Nat
    PROVE  Heard(n, p)'
  <1> SUFFICES 2 * age'[n][p] <= lost' + One(ByPing(n, p)') + One(ByPong(n, p)')
    BY DEF Heard
  <1>1. One(ByPing(n, p)') \in {0, 1} /\ One(ByPong(n, p)') \in {0, 1}
    BY OneType
  <1> QED
    BY <1>1

LEMMA HeardUpdate ==
    ASSUME TypeOK, NEW n \in Conf, NEW p \in Conf, Heard(n, p), stopped' = stopped,
           NEW k \in Conf, NEW q \in Proxies, UpdatePeerLiveness(k, q), lost' = lost,
           ~(k = n /\ q = p) => (ByPing(n, p) => ByPing(n, p)'),
           ~(k = n /\ q = p) => (ByPong(n, p) => ByPong(n, p)')
    PROVE  Heard(n, p)'
  <1>1. age \in [Conf -> [Proxies -> 0..PingTimeout]] /\ lost \in Nat /\ p \in Proxies
        /\ age[n][p] \in Nat /\ alive \in [Conf -> SUBSET Proxies]
    BY HeardTypes
  <1>2. age' = [age EXCEPT ![k] = [age[k] EXCEPT ![q] = 0]]
    BY DEF UpdatePeerLiveness
  <1>3. CASE k = n /\ q = p
    <2>1. age'[n][p] = 0
      BY <1>1, <1>2, <1>3
    <2> QED
      BY <1>1, <2>1, HeardNow
  <1>4. CASE ~(k = n /\ q = p)
    <2>1. age'[n][p] = age[n][p]
      BY <1>1, <1>2, <1>4
    <2>2. p \in alive'[n] => p \in alive[n]
      BY <1>1, <1>4 DEF UpdatePeerLiveness
    <2> QED
      BY <1>1, <1>4, <2>1, <2>2, HeardKept
  <1> QED
    BY <1>3, <1>4

LEMMA Differ ==
    \A n, p : n # p => /\ Ping(n, p) # Ping(p, n) /\ Ping(n, p) # Pong(p, n)
                       /\ Ping(p, n) # Pong(p, n)
  <1> TAKE n, p
  <1> HAVE n # p
  <1>1. Ping(n, p).from = n /\ Ping(p, n).from = p /\ Ping(n, p).isPing /\ Ping(p, n).isPing
        /\ ~Pong(p, n).isPing
    BY DEF Ping, Pong
  <1> QED
    BY <1>1

LEMMA HeardNext ==
    ASSUME TypeOK, HeardInv, Next,
           NEW n \in Conf \ {First}, NEW p \in Conf \ {First, n}
    PROVE  Heard(n, p)'
  <1>0. /\ age \in [Conf -> [Proxies -> 0..PingTimeout]] /\ lost \in Nat /\ p \in Proxies
        /\ age[n][p] \in Nat /\ alive \in [Conf -> SUBSET Proxies] /\ Heard(n, p)
        /\ n \in Conf /\ p \in Conf /\ n # p /\ n # First /\ p # First
        /\ n \in known[p] /\ p \in known[n]
    BY HeardTypes DEF HeardInv
  <1>1. ASSUME NEW k \in Conf, CheckNodeStatus(k) PROVE Heard(n, p)'
    <2>1. /\ k \in due /\ due' = due \ {k} /\ lost' = lost /\ stopped' = stopped
          /\ net' = net \cup {Ping(k, q) : q \in Pinged(k)}
          /\ alive' = [alive EXCEPT ![k] = (alive[k] \ Expired(k)) \cup Always(k)]
          /\ age' = [age EXCEPT ![k] = [q \in Proxies |->
                        IF q \in Always(k) THEN 0 ELSE age[k][q]]]
      BY <1>1 DEF CheckNodeStatus
    <2>2. age'[n][p] = age[n][p] /\ (p \in alive'[n] => p \in alive[n])
      BY <1>0, <2>1 DEF Always
    <2>3. (k = p => Ping(p, n) \in net') /\ (k = n => Ping(n, p) \in net')
      BY <1>0, <2>1 DEF Pinged
    <2>4. ByPing(n, p) => ByPing(n, p)'
      BY <2>1, <2>3 DEF ByPing
    <2>5. ByPong(n, p) => ByPong(n, p)'
      BY <2>1, <2>3 DEF ByPong
    <2> QED
      BY <1>0, <2>1, <2>2, <2>4, <2>5, HeardKept
  <1>2. ASSUME NEW k \in Conf, NEW q \in Proxies, WriteToPeer(k, q) PROVE Heard(n, p)'
    <2>1. UpdatePeerLiveness(k, q) /\ due' = due /\ net' = net /\ lost' = lost
          /\ stopped' = stopped
      BY <1>2 DEF WriteToPeer
    <2>2. (ByPing(n, p) => ByPing(n, p)') /\ (ByPong(n, p) => ByPong(n, p)')
      BY <2>1 DEF ByPing, ByPong
    <2> QED
      BY <1>0, <2>1, <2>2, HeardUpdate
  <1>3. ASSUME NEW m \in net, ProcessPing(m) PROVE Heard(n, p)'
    <2>1. m.to \in Conf /\ due' = due /\ lost' = lost /\ stopped' = stopped /\ m \in Datagrams
      BY <1>3 DEF ProcessPing, TypeOK
    <2>2. /\ Ping(p, n).from = p /\ Ping(p, n).to = n
          /\ Ping(n, p).from = n /\ Ping(n, p).to = p /\ Ping(n, p).isPing
          /\ Pong(p, n).from = p /\ Pong(p, n).to = n
      BY DEF Ping, Pong
    <2>3. CASE m.from \in known[m.to]
      <3>1. /\ UpdatePeerLiveness(m.to, m.from)
            /\ net' = (net \ {m}) \cup {a \in {Pong(m.to, m.from)} :
                                           m.isPing /\ m.from # First}
        BY <1>3, <2>3 DEF ProcessPing
      <3>2. m.from \in Proxies
        BY <2>1 DEF Datagrams
      <3>3. ~(m.to = n /\ m.from = p) => m # Ping(p, n) /\ m # Pong(p, n)
        BY <2>2
      <3>4. m = Ping(n, p) => Pong(p, n) \in net'
        BY <1>0, <2>2, <3>1
      <3>5. ~(m.to = n /\ m.from = p) => (ByPing(n, p) => ByPing(n, p)')
        BY <2>1, <3>1, <3>3 DEF ByPing
      <3>6. ~(m.to = n /\ m.from = p) => (ByPong(n, p) => ByPong(n, p)')
        BY <2>1, <3>1, <3>3, <3>4 DEF ByPong
      <3> QED
        BY <1>0, <2>1, <3>1, <3>2, <3>5, <3>6, HeardUpdate
    <2>4. CASE m.from \notin known[m.to]
      <3>1. net' = net \ {m} /\ alive' = alive /\ age' = age
        BY <1>3, <2>4 DEF ProcessPing, table
      <3>2. m # Ping(p, n) /\ m # Pong(p, n) /\ m # Ping(n, p)
        BY <1>0, <2>2, <2>4
      <3>3. (ByPing(n, p) => ByPing(n, p)') /\ (ByPong(n, p) => ByPong(n, p)')
        BY <2>1, <3>1, <3>2 DEF ByPing, ByPong
      <3> QED
        BY <1>0, <2>1, <3>1, <3>3, HeardKept
    <2> QED
      BY <2>3, <2>4
  <1>4. ASSUME NEW m \in net, Lose(m) PROVE Heard(n, p)'
    <2>1. /\ net' = net \ {m} /\ lost' = lost + 1 /\ alive' = alive /\ age' = age
          /\ due' = due /\ stopped' = stopped
      BY <1>4 DEF Lose, table
    <2> SUFFICES ASSUME p \in alive[n], n \notin stopped, p \notin stopped
                 PROVE  2 * age[n][p] <= lost + 1 + One(ByPing(n, p)') + One(ByPong(n, p)')
      BY <2>1 DEF Heard
    <2> DEFINE a == ByPing(n, p)
               b == ByPong(n, p)
               c == ByPing(n, p)'
               d == ByPong(n, p)'
    <2>2. 2 * age[n][p] <= lost + One(a) + One(b)
      BY <1>0 DEF Heard
    <2>3. (a => c) \/ m = Ping(p, n)
      BY <2>1 DEF ByPing
    <2>4. (b => d) \/ m = Ping(n, p) \/ m = Pong(p, n)
      BY <2>1 DEF ByPong
    <2>5. (a => c) \/ (b => d)
      BY <1>0, <2>3, <2>4, Differ
    <2> HIDE DEF a, b, c, d
    <2>6. One(a) + One(b) <= 1 + One(c) + One(d)
      BY <2>5 DEF One
    <2>7. One(a) \in {0,1} /\ One(b) \in {0,1} /\ One(c) \in {0,1} /\ One(d) \in {0,1}
      BY OneType
    <2>8. 2 * age[n][p] <= lost + 1 + One(c) + One(d)
      BY <1>0, <2>2, <2>6, <2>7
    <2> QED
      BY <2>8 DEF c, d
  <1>5. ASSUME NEW m \in net, Unreceived(m) \/ StrangerAnswers(m) PROVE Heard(n, p)'
    <2>1. /\ net \ {m} \subseteq net' /\ lost' = lost /\ alive' = alive /\ age' = age
          /\ due' = due /\ stopped' = stopped
      BY <1>5 DEF Unreceived, StrangerAnswers, table
    <2>2. CASE n \notin stopped /\ p \notin stopped
      <3>1. Ping(p, n).to = n /\ Ping(n, p).to = p /\ Pong(p, n).to = n
        BY DEF Ping, Pong
      <3>2. m.to # n /\ m.to # p
        BY <1>0, <1>5, <2>2, PeersAssumption DEF Unreceived, StrangerAnswers
      <3>3. m # Ping(p, n) /\ m # Pong(p, n) /\ m # Ping(n, p)
        BY <3>1, <3>2
      <3>4. (ByPing(n, p) => ByPing(n, p)') /\ (ByPong(n, p) => ByPong(n, p)')
        BY <2>1, <3>3 DEF ByPing, ByPong
      <3> QED
        BY <1>0, <2>1, <3>4, HeardKept
    <2>3. CASE n \in stopped \/ p \in stopped
      BY <2>1, <2>3 DEF Heard
    <2> QED
      BY <2>2, <2>3
  <1>6. ASSUME NEW k \in Conf, NEW q \in Proxies, AddUnknownPeerInfo(k, q)
        PROVE  Heard(n, p)'
    <2>1. /\ net' = net /\ lost' = lost /\ age' = age /\ due' = due /\ stopped' = stopped
          /\ alive' = [alive EXCEPT ![k] = @ \cup {q}] /\ q \in Strangers
      BY <1>6, PeersAssumption DEF AddUnknownPeerInfo
    <2>2. q # p
      BY <1>0, <2>1, PeersAssumption
    <2>3. p \in alive'[n] => p \in alive[n]
      BY <1>0, <2>1, <2>2
    <2>4. (ByPing(n, p) => ByPing(n, p)') /\ (ByPong(n, p) => ByPong(n, p)')
      BY <2>1 DEF ByPing, ByPong
    <2> QED
      BY <1>0, <2>1, <2>3, <2>4, HeardKept
  <1>7. ASSUME NEW k \in Conf, Stop(k) PROVE Heard(n, p)'
    <2>1. /\ net' = net /\ lost' = lost /\ age' = age /\ due' = due \ {k}
          /\ stopped' = stopped \cup {k} /\ alive' = alive
      BY <1>7 DEF Stop, table
    <2>2. CASE k = n \/ k = p
      BY <2>1, <2>2 DEF Heard
    <2>3. CASE k # n /\ k # p
      <3>1. (ByPing(n, p) => ByPing(n, p)') /\ (ByPong(n, p) => ByPong(n, p)')
        BY <2>1, <2>3 DEF ByPing, ByPong
      <3> QED
        BY <1>0, <2>1, <3>1, HeardKept
    <2> QED
      BY <2>2, <2>3
  <1>8. CASE NextInterval
    <2>1. /\ due = {} /\ net = {} /\ due' = Conf \ stopped /\ lost' = lost
          /\ stopped' = stopped /\ alive' = alive
          /\ age' = [k \in Conf |-> [q \in Proxies |->
                  IF age[k][q] < PingTimeout THEN age[k][q] + 1 ELSE PingTimeout]]
      BY <1>8 DEF NextInterval
    <2> SUFFICES ASSUME p \in alive[n], n \notin stopped, p \notin stopped
                 PROVE  2 * age'[n][p] <= lost + One(ByPing(n, p)') + One(ByPong(n, p)')
      BY <2>1 DEF Heard
    <2>2. ~ByPing(n, p) /\ ~ByPong(n, p) /\ ByPing(n, p)' /\ ByPong(n, p)'
      BY <1>0, <2>1 DEF ByPing, ByPong
    <2>3. One(ByPing(n, p)') = 1 /\ One(ByPong(n, p)') = 1
      BY <2>2, OneType
    <2>4. One(ByPing(n, p)) = 0 /\ One(ByPong(n, p)) = 0
      BY <2>2, OneType
    <2>5. 2 * age[n][p] <= lost
      BY <1>0, <2>4 DEF Heard
    <2>6. age[n][p] \in 0..PingTimeout /\ PingTimeout \in Nat
      BY <1>0, PeersAssumption
    <2>7. age'[n][p] <= age[n][p] + 1 /\ age'[n][p] \in Nat
      BY <1>0, <2>1, <2>6
    <2>8. 2 * age'[n][p] <= lost + 1 + 1
      BY <1>0, <2>5, <2>6, <2>7
    <2> QED
      BY <2>3, <2>8
  <1> QED
    BY <1>1, <1>2, <1>3, <1>4, <1>5, <1>6, <1>7, <1>8 DEF Next

(* A receiver does not drop a peer that is up, as long as fewer than       *)
(* 2 * PingTimeout - 2 datagrams are lost: with the timeout of three       *)
(* intervals of peer.c, up to three.                                       *)
THEOREM KeepsThePeersUp ==
    ASSUME MaxLost < 2 * PingTimeout - 2
    PROVE  Spec => DropsOnlyTheStopped
  <1> DEFINE Drops == \A n \in Conf \ {First} :
                         \A p \in (alive[n] \cap Conf) \ alive'[n] : p \in stopped
  <1>1. Init => HeardInv
    BY DEF Init, HeardInv, Heard
  <1>2. TypeOK /\ HeardInv /\ [Next]_vars => HeardInv'
    <2> SUFFICES ASSUME TypeOK, HeardInv, [Next]_vars PROVE HeardInv'
      OBVIOUS
    <2>1. CASE vars' = vars
      BY <2>1 DEF vars, table, HeardInv, Heard, ByPing, ByPong
    <2>2. CASE Next
      <3>1. \A n \in Conf : Conf \subseteq known'[n]
        <4>1. CASE known' = known
          BY <4>1 DEF HeardInv
        <4>2. CASE \E n \in Conf, p \in Proxies : AddUnknownPeerInfo(n, p)
          BY <4>2 DEF AddUnknownPeerInfo, HeardInv, TypeOK
        <4> QED
          BY <2>2, <4>1, <4>2 DEF Next, table, CheckNodeStatus, Stop, WriteToPeer,
                 ProcessPing, Lose, Unreceived, StrangerAnswers, NextInterval
      <3>2. due' \cap stopped' = {}
        <4>1. CASE \E n \in Conf : Stop(n) \/ CheckNodeStatus(n)
          BY <4>1 DEF Stop, CheckNodeStatus, HeardInv
        <4>2. CASE NextInterval
          BY <4>2 DEF NextInterval
        <4>3. CASE due' = due /\ stopped' = stopped
          BY <4>3 DEF HeardInv
        <4> QED
          BY <2>2, <4>1, <4>2, <4>3 DEF Next, WriteToPeer, AddUnknownPeerInfo,
                 ProcessPing, Lose, Unreceived, StrangerAnswers
      <3> QED
        BY <2>2, <3>1, <3>2, HeardNext DEF HeardInv
    <2> QED
      BY <2>1, <2>2
  <1>3. TypeOK /\ HeardInv /\ [Next]_vars => [Drops]_vars
    <2> SUFFICES ASSUME TypeOK, HeardInv, Next, NEW n \in Conf \ {First},
                        NEW p \in (alive[n] \cap Conf) \ alive'[n]
                 PROVE  p \in stopped
      OBVIOUS
    <2>0. alive \in [Conf -> SUBSET Proxies] /\ n \in Conf /\ p \in Conf
      BY DEF TypeOK
    <2>1. CheckNodeStatus(n)
      <3>1. ASSUME NEW k \in Conf, NEW q, UpdatePeerLiveness(k, q) PROVE FALSE
        BY <2>0, <3>1 DEF UpdatePeerLiveness
      <3>2. ~ \E k \in Conf, q \in Proxies : WriteToPeer(k, q)
        BY <3>1 DEF WriteToPeer
      <3>3. ~ \E m \in net : ProcessPing(m)
        BY <3>1 DEF ProcessPing, table
      <3>4. ~ \E k \in Conf, q \in Proxies : AddUnknownPeerInfo(k, q)
        BY <2>0 DEF AddUnknownPeerInfo
      <3>5. alive' # alive
        OBVIOUS
      <3>6. PICK k \in Conf : CheckNodeStatus(k)
        BY <3>2, <3>3, <3>4, <3>5 DEF Next, Stop, Lose, Unreceived, StrangerAnswers,
               NextInterval, table
      <3> QED
        BY <2>0, <3>6 DEF CheckNodeStatus
    <2>2. n \in due /\ p \in Expired(n) /\ p \notin {n, First}
      BY <2>0, <2>1 DEF CheckNodeStatus, Always
    <2>3. age[n][p] >= PingTimeout /\ n \notin stopped
      BY <2>2 DEF Expired, HeardInv
    <2>4. Heard(n, p)
      BY <2>0, <2>2 DEF HeardInv
    <2>5. /\ One(ByPing(n, p)) \in {0, 1} /\ One(ByPong(n, p)) \in {0, 1}
          /\ lost \in 0..MaxLost /\ age[n][p] \in Nat /\ PingTimeout \in Nat /\ MaxLost \in Nat
      BY <2>0, OneType, HeardTypes, PeersAssumption DEF TypeOK
    <2>6. CASE p \notin stopped
      <3>1. 2 * age[n][p] <= lost + One(ByPing(n, p)) + One(ByPong(n, p))
        BY <2>3, <2>4, <2>6 DEF Heard
      <3> QED
        BY <2>3, <2>5, <3>1
    <2> QED
      BY <2>6
  <1> QED
    BY <1>1, <1>2, <1>3, TypeCorrect, PTL DEF Spec, DropsOnlyTheStopped
=============================================================================

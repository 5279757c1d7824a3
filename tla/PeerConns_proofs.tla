-------------------------- MODULE PeerConns_proofs --------------------------
(***************************************************************************)
(* For every number of slots, connections, messages and breaks: the        *)
(* assertion of GetNextChunkFlowID, the order of a user's name messages,   *)
(* when a message is lost, and when a name message finds no connection.    *)
(***************************************************************************)
EXTENDS PeerConns, FiniteSetTheorems, WellFoundedInduction, TLAPS

(* A set of numbers that is not empty has a least one.                     *)
LEMMA Least ==
    ASSUME NEW T \in SUBSET Nat, T # {}
    PROVE  \E k \in T : \A j \in T : k <= j
  <1>1. PICK k \in T : \A j \in T : ~ (<<j, k>> \in OpToRel(<, Nat))
    BY NatLessThanWellFounded, WFMin, Zenon
  <1>2. k \in T /\ \A j \in T : ~ (j < k)
    BY <1>1, Zenon DEF OpToRel
  <1>3. k \in Nat
    BY <1>2
  <1> QED
    BY <1>2, <1>3

(* The turn comes to the first slot within one round.                      *)
LEMMA TurnReachesFirst ==
    ASSUME NEW p \in Proxies, flowID \in [Proxies -> Flow]
    PROVE  \E k \in 1 .. g_MaxPeerConns : Turn(p, k) = 0
  <1> DEFINE n == g_MaxPeerConns
  <1>1. n \in Nat /\ n > 0 /\ flowID[p] \in 0 .. n - 1
    BY PeerConnsAssumption DEF Flow
  <1>2. n - flowID[p] \in 1 .. n /\ flowID[p] + (n - flowID[p]) = n
    BY <1>1
  <1>3. n % n = 0
    BY <1>1, Z3
  <1> QED
    BY <1>2, <1>3 DEF Turn

(* Every slot GetNextChunkFlowID can return is one of the row.             *)
LEMMA TurnType ==
    ASSUME NEW p \in Proxies, flowID \in [Proxies -> Flow], NEW k \in Nat
    PROVE  Turn(p, k) \in Flow
  <1>1. g_MaxPeerConns \in Nat /\ g_MaxPeerConns > 0 /\ flowID[p] \in Nat
    BY PeerConnsAssumption DEF Flow
  <1>2. flowID[p] + k \in Nat
    BY <1>1
  <1>3. \A m \in Nat : m % g_MaxPeerConns \in 0 .. g_MaxPeerConns - 1
    BY <1>1
  <1> QED
    BY <1>2, <1>3 DEF Turn, Flow

(* With a connection in the first slot GetNextChunkFlowID finds one.       *)
LEMMA FlowFound ==
    ASSUME NEW p \in Proxies, flowID \in [Proxies -> Flow], NEW s, s[0] # NULL
    PROVE  /\ GetNextChunkFlowID(p, s) \in Flow
           /\ s[GetNextChunkFlowID(p, s)] # NULL
  <1> DEFINE full == {k \in 1 .. g_MaxPeerConns : s[Turn(p, k)] # NULL}
             least == CHOOSE k \in full : \A j \in full : k <= j
  <1>1. full # {}
    BY TurnReachesFirst
  <1>2. full \in SUBSET Nat
    BY PeerConnsAssumption
  <1>3. \E k \in full : \A j \in full : k <= j
    <2> HIDE DEF full
    <2> QED BY <1>1, <1>2, Least
  <1>4. least \in full
    <2> HIDE DEF full
    <2> QED BY <1>3
  <1>5. GetNextChunkFlowID(p, s) = Turn(p, least)
    BY <1>1 DEF GetNextChunkFlowID
  <1> HIDE DEF least
  <1>6. least \in Nat /\ s[Turn(p, least)] # NULL
    BY <1>4, <1>2
  <1> QED
    BY <1>5, <1>6, TurnType

(* After WriteToChunkPeer has connected, the first slot has a connection.  *)
LEMMA FirstConnected ==
    ASSUME NEW s, conns \in Nat
    PROVE  Connected(s)[0] # NULL
  <1>1. 0 \in Flow
    BY PeerConnsAssumption DEF Flow
  <1>2. CASE s[0] # NULL
    BY <1>1, <1>2 DEF Connected, ToConnect
  <1>3. CASE s[0] = NULL
    <2> DEFINE G == {g \in ToConnect(s) : g <= 0}
    <2>1. IsFiniteSet(Flow)
      BY PeerConnsAssumption, FS_Interval DEF Flow
    <2>2. G \in SUBSET Flow
      BY DEF ToConnect
    <2>3. 0 \in G
      BY <1>1, <1>3 DEF ToConnect
    <2> HIDE DEF G
    <2>4. IsFiniteSet(G)
      BY <2>1, <2>2, FS_Subset
    <2>5. Cardinality(G) \in Nat /\ Cardinality(G) # 0
      BY <2>3, <2>4, FS_CardinalityType, FS_EmptySet
    <2>6. NewConn(s, 0) = conns + Cardinality(G)
      BY DEF NewConn, G
    <2>7. Connected(s)[0] = NewConn(s, 0)
      BY <1>1, <1>3 DEF Connected, ToConnect
    <2> QED
      BY <2>5, <2>6, <2>7 DEF NULL
  <1> QED
    BY <1>2, <1>3

-----------------------------------------------------------------------------
(* What the assertion rests on.                                            *)
FlowInv == /\ kind \in Kinds /\ conns \in Nat
           /\ flowID \in [Proxies -> Flow]
           /\ ChunkSlotFound

LEMMA InitFlow == Init => FlowInv
  <1>1. 0 \in Flow
    BY PeerConnsAssumption DEF Flow
  <1> QED
    BY <1>1 DEF Init, FlowInv, ChunkSlotFound

LEMMA WriteFlow ==
    ASSUME FlowInv, NEW p \in Proxies, NEW user \in Flow, Write(p, user)
    PROVE  FlowInv'
  <1> DEFINE s == Connected(slot[p])
             f == FlowOf(p, s, user)
  <1>1. Len(NewConns(slot[p])) \in Nat
    <2>1. IsFiniteSet(Flow)
      BY PeerConnsAssumption, FS_Interval DEF Flow
    <2>2. ToConnect(slot[p]) \in SUBSET Flow
      BY DEF ToConnect
    <2>3. Cardinality(ToConnect(slot[p])) \in Nat
      BY <2>1, <2>2, FS_Subset, FS_CardinalityType
    <2> QED
      BY <2>3 DEF NewConns
  <1>2. conns' \in Nat /\ kind' = kind
    <2>1. conns' = conns + Len(NewConns(slot[p])) /\ kind' = kind
      BY Zenon DEF Write
    <2> QED
      BY <2>1, <1>1 DEF FlowInv
  <1>3. CASE kind = "chunk"
    <2>1. f \in Flow /\ s[f] # NULL
      BY <1>3, FirstConnected, FlowFound DEF FlowInv, FlowOf
    <2>2. flowID' = [flowID EXCEPT ![p] = f] /\ failed' = failed
      BY <1>3, <2>1, Zenon DEF Write
    <2> QED
      BY <1>2, <2>1, <2>2 DEF FlowInv, ChunkSlotFound
  <1>4. CASE kind # "chunk"
    <2>1. flowID' = flowID
      BY <1>4, Zenon DEF Write
    <2> QED
      BY <1>2, <1>4, <2>1 DEF FlowInv, ChunkSlotFound
  <1> QED
    BY <1>3, <1>4

LEMMA NextFlow == FlowInv /\ [Next]_vars => FlowInv'
  <1> SUFFICES ASSUME FlowInv, [Next]_vars PROVE FlowInv'
    OBVIOUS
  <1> USE DEF FlowInv, ChunkSlotFound
  <1>1. ASSUME NEW p \in Proxies, NEW user \in Flow, Write(p, user) PROVE FlowInv'
    BY <1>1, WriteFlow
  <1>2. ASSUME NEW p \in Proxies, SocketAcceptCB(p) PROVE FlowInv'
    BY <1>2, Zenon DEF SocketAcceptCB
  <1>3. ASSUME NEW p \in Proxies, NEW c \in Conns, Read(p, c) PROVE FlowInv'
    BY <1>3 DEF Read, row
  <1>4. ASSUME NEW p \in Proxies, NEW c \in Conns, ReadEnds(p, c) PROVE FlowInv'
    BY <1>4 DEF ReadEnds
  <1>5. ASSUME NEW p \in Proxies, NEW c \in Conns, DestroyConnectionInfo(p, c)
        PROVE  FlowInv'
    BY <1>5 DEF DestroyConnectionInfo
  <1>6. ASSUME NEW c \in Conns, Break(c) PROVE FlowInv'
    BY <1>6 DEF Break, row
  <1>7. CASE UNCHANGED vars
    BY <1>7 DEF vars, row
  <1> QED
    BY <1>1, <1>2, <1>3, <1>4, <1>5, <1>6, <1>7 DEF Next

(* GetNextChunkFlowID's assertion holds, for every number of slots and     *)
(* however many connections have closed.                                   *)
THEOREM ChunkSlotAlwaysFound == Spec => []ChunkSlotFound
  <1>1. FlowInv => ChunkSlotFound
    BY DEF FlowInv
  <1> QED
    BY InitFlow, NextFlow, <1>1, PTL DEF Spec
-----------------------------------------------------------------------------
(* The order of a user's name messages.  First the types.                  *)
Message == [user : Flow, no : Nat]
EndStates == {"none", "open", "dead", "closed"}
Types == /\ conns \in 0 .. MaxConns /\ flowID \in [Proxies -> Flow]
         /\ slot \in [Proxies -> [Flow -> Conns \cup {NULL}]]
         /\ end \in [Conns -> [Proxies -> EndStates]]
         /\ listen \in [Proxies -> Seq(Conns)]
         /\ chan \in [Conns -> [Proxies -> Seq(Message)]]
         /\ writes \in [Proxies -> Nat] /\ got \in [Proxies -> Seq(Message)]
         /\ breaks \in SUBSET Conns

(* The life of a connection: nothing happens before it is opened, it waits *)
(* to be accepted at most once, a broken one carries nothing, and an end   *)
(* dies only when the other cannot read any more.                          *)
Used == \A p \in Proxies : \A f \in Flow : slot[p][f] <= conns
Waiting == \A p \in Proxies : \A i \in DOMAIN listen[p] :
             /\ listen[p][i] <= conns /\ end[listen[p][i]][p] = "none"
             /\ \A j \in DOMAIN listen[p] : listen[p][i] = listen[p][j] => i = j
Lives == \A c \in Conns : \A p \in Proxies :
             /\ c > conns => end[c][p] = "none" /\ chan[c][p] = <<>>
             /\ c \in breaks => c <= conns /\ chan[c][p] = <<>>
             /\ end[c][p] = "dead" => c \in breaks \/ end[c][Other[p]] = "closed"

(* What proxy q can still read of a user is all on the connection that the *)
(* writer has in the user's slot, in order, and later than what q has read.*)
CanRead(c, q) == end[c][q] \in {"none", "open"}
OneConnection ==
    \A q \in Proxies : \A c \in Conns : CanRead(c, q) =>
        \A i \in DOMAIN chan[c][q] : slot[Other[q]][chan[c][q][i].user] = c
Sorted ==
    \A q \in Proxies : \A c \in Conns : \A i \in DOMAIN chan[c][q] :
        /\ chan[c][q][i].no <= writes[Other[q]]
        /\ \A j \in DOMAIN chan[c][q] : i < j => chan[c][q][i].no < chan[c][q][j].no
Later ==
    \A q \in Proxies : \A k \in DOMAIN got[q] :
        /\ got[q][k].no <= writes[Other[q]]
        /\ \A c \in Conns : CanRead(c, q) => \A i \in DOMAIN chan[c][q] :
             chan[c][q][i].user = got[q][k].user => got[q][k].no < chan[c][q][i].no
OrderInv == Types /\ Used /\ Waiting /\ Lives /\ FlowOrder
            /\ (kind = "name" => OneConnection /\ Sorted /\ Later)

(* The elements of sequences that are built or cut.                        *)
LEMMA ConcatElements ==
    ASSUME NEW S, NEW a \in Seq(S), NEW b \in Seq(S), NEW k \in DOMAIN (a \o b)
    PROVE  IF k <= Len(a) THEN k \in DOMAIN a /\ (a \o b)[k] = a[k]
           ELSE k - Len(a) \in DOMAIN b /\ (a \o b)[k] = b[k - Len(a)]
  OBVIOUS

LEMMA AppendElements ==
    ASSUME NEW S, NEW a \in Seq(S), NEW e \in S
    PROVE  /\ Append(a, e) \in Seq(S) /\ Len(Append(a, e)) = Len(a) + 1
           /\ DOMAIN Append(a, e) = DOMAIN a \cup {Len(a) + 1}
           /\ \A k \in DOMAIN a : k < Len(a) + 1 /\ Append(a, e)[k] = a[k]
           /\ Append(a, e)[Len(a) + 1] = e
  OBVIOUS

LEMMA TailElements ==
    ASSUME NEW S, NEW a \in Seq(S), a # <<>>
    PROVE  /\ Head(a) \in S /\ Head(a) = a[1] /\ 1 \in DOMAIN a
           /\ Tail(a) \in Seq(S)
           /\ \A k \in DOMAIN Tail(a) : k + 1 \in DOMAIN a /\ 1 < k + 1 /\ Tail(a)[k] = a[k + 1]
  OBVIOUS

(* The proxies come in pairs.                                              *)
LEMMA Pairs == \A p \in Proxies : Other[p] \in Proxies /\ Other[p] # p /\ Other[Other[p]] = p
  BY PeerConnsAssumption

LEMMA SomeElement ==
    ASSUME NEW S, NEW s \in Seq(S), s # <<>>
    PROVE  Len(s) > 0
  OBVIOUS

LEMMA SomePlace ==
    ASSUME NEW S, NEW s \in Seq(S), NEW k \in DOMAIN s
    PROVE  k \in Nat
  OBVIOUS

LEMMA ConcatLen ==
    ASSUME NEW S, NEW s \in Seq(S), NEW t \in Seq(S)
    PROVE  Len(s \o t) = Len(s) + Len(t) /\ Len(s) \in Nat /\ Len(t) \in Nat
  OBVIOUS

LEMMA NumOpened ==
    ASSUME NEW s
    PROVE  /\ Cardinality(ToConnect(s)) \in Nat
           /\ Len(NewConns(s)) = Cardinality(ToConnect(s))
  <1>1. IsFiniteSet(Flow)
    BY PeerConnsAssumption, FS_Interval DEF Flow
  <1>2. ToConnect(s) \in SUBSET Flow
    BY DEF ToConnect
  <1>3. Cardinality(ToConnect(s)) \in Nat
    BY <1>1, <1>2, FS_Subset, FS_CardinalityType
  <1> QED
    BY <1>3 DEF NewConns

(* The connections that a write opens are the next ones.                   *)
LEMMA Opens ==
    ASSUME NEW s, conns \in Nat
    PROVE  /\ Len(NewConns(s)) \in Nat /\ NewConns(s) \in Seq(Nat)
           /\ \A i \in DOMAIN NewConns(s) : NewConns(s)[i] = conns + i
           /\ \A f \in ToConnect(s) : /\ NewConn(s, f) \in Nat
                                      /\ NewConn(s, f) > conns
                                      /\ NewConn(s, f) <= conns + Len(NewConns(s))
  <1>1. IsFiniteSet(ToConnect(s))
    <2>1. IsFiniteSet(Flow)
      BY PeerConnsAssumption, FS_Interval DEF Flow
    <2>2. ToConnect(s) \in SUBSET Flow
      BY DEF ToConnect
    <2> QED
      BY <2>1, <2>2, FS_Subset
  <1>2. Cardinality(ToConnect(s)) \in Nat
    BY <1>1, FS_CardinalityType
  <1>3. Len(NewConns(s)) = Cardinality(ToConnect(s)) /\ NewConns(s) \in Seq(Nat)
    BY <1>2 DEF NewConns
  <1>4. ASSUME NEW f \in ToConnect(s)
        PROVE  /\ NewConn(s, f) \in Nat /\ NewConn(s, f) > conns
               /\ NewConn(s, f) <= conns + Len(NewConns(s))
    <2> DEFINE G == {g \in ToConnect(s) : g <= f}
    <2>1. G \in SUBSET ToConnect(s)
      OBVIOUS
    <2>2. f \in G
      BY PeerConnsAssumption DEF ToConnect, Flow
    <2>3. NewConn(s, f) = conns + Cardinality(G)
      BY DEF NewConn
    <2> HIDE DEF G
    <2>4. IsFiniteSet(G) /\ Cardinality(G) <= Cardinality(ToConnect(s))
      BY <1>1, <2>1, FS_Subset
    <2>5. Cardinality(G) \in Nat /\ Cardinality(G) # 0
      BY <2>2, <2>4, FS_CardinalityType, FS_EmptySet
    <2> QED
      BY <1>2, <1>3, <2>3, <2>4, <2>5
  <1>5. \A i \in DOMAIN NewConns(s) : NewConns(s)[i] = conns + i
    BY <1>2 DEF NewConns
  <1> QED
    BY <1>3, <1>4, <1>5, <1>2

LEMMA InitOrder == Init => OrderInv
  <1>1. 0 \in Flow
    BY PeerConnsAssumption DEF Flow
  <1>2. MaxConns \in Nat
    BY PeerConnsAssumption
  <1> QED
    BY <1>1, <1>2, Pairs DEF Init, OrderInv, Types, Used, Waiting, Lives, FlowOrder,
       OneConnection, Sorted, Later, EndStates, Conns, NULL

(* What a write does to the variables: new connections, and at most one    *)
(* message, on a connection that works.                                    *)
Opened(p) == conns + 1 .. conns + Len(NewConns(slot[p]))
Sends(p, user) ==
    \/ chan' = chan
    \/ \E c \in Conns :
         /\ CanReach(c, p) /\ c <= conns'
         /\ kind = "name" => Connected(slot[p])[user] = c
         /\ chan' = [chan EXCEPT ![c][Other[p]] =
                       Append(@, [user |-> user, no |-> writes[p] + 1])]
WriteStep(p, user) ==
    /\ kind' = kind /\ got' = got /\ breaks' = breaks
    /\ conns' = conns + Len(NewConns(slot[p])) /\ conns' <= MaxConns
    /\ writes' = [writes EXCEPT ![p] = @ + 1]
    /\ slot' = [slot EXCEPT ![p] = Connected(slot[p])]
    /\ \A g \in Flow : /\ Connected(slot[p])[g] \in Conns \cup {NULL}
                       /\ Connected(slot[p])[g] <= conns'
                       /\ slot[p][g] # NULL => Connected(slot[p])[g] = slot[p][g]
    /\ end' = [d \in Conns |-> IF d \in Opened(p)
                               THEN [end[d] EXCEPT ![p] = "open"] ELSE end[d]]
    /\ listen' = [listen EXCEPT ![Other[p]] = @ \o NewConns(slot[p])]
    /\ flowID' \in [Proxies -> Flow]
    /\ Sends(p, user)
LEMMA WriteSteps ==
    ASSUME Types, Used, NEW p \in Proxies, NEW user \in Flow, Write(p, user)
    PROVE  WriteStep(p, user)
  <1> DEFINE s == Connected(slot[p])
             f == FlowOf(p, s, user)
  <1>1. conns \in Nat /\ MaxConns \in Nat
    BY PeerConnsAssumption DEF Types
  <1>2. conns' = conns + Len(NewConns(slot[p])) /\ conns' <= MaxConns
    BY Zenon DEF Write
  <1>3. \A g \in Flow : /\ s[g] \in Conns \cup {NULL} /\ s[g] <= conns'
                        /\ slot[p][g] # NULL => s[g] = slot[p][g]
    <2> SUFFICES ASSUME NEW g \in Flow
                 PROVE  /\ s[g] \in Conns \cup {NULL} /\ s[g] <= conns'
                        /\ slot[p][g] # NULL => s[g] = slot[p][g]
      OBVIOUS
    <2>1. CASE g \in ToConnect(slot[p])
      <3>1. slot[p][g] = NULL /\ s[g] = NewConn(slot[p], g)
        BY <2>1 DEF ToConnect, Connected
      <3>2. NewConn(slot[p], g) \in Nat /\ NewConn(slot[p], g) > conns
            /\ NewConn(slot[p], g) <= conns + Len(NewConns(slot[p]))
        BY <2>1, <1>1, Opens
      <3>3. Len(NewConns(slot[p])) \in Nat
        BY <1>1, Opens, Zenon
      <3> QED
        BY <3>1, <3>2, <3>3, <1>1, <1>2 DEF Conns
    <2>2. CASE g \notin ToConnect(slot[p])
      <3>1. s[g] = slot[p][g] /\ slot[p][g] \in Conns \cup {NULL}
        BY <2>2 DEF Connected, Types
      <3>2. slot[p][g] <= conns
        BY DEF Used
      <3>3. Len(NewConns(slot[p])) \in Nat
        BY <1>1, Opens
      <3> QED
        BY <3>1, <3>2, <3>3, <1>1, <1>2 DEF Conns, NULL
    <2> QED
      BY <2>1, <2>2
  <1>4. f \in Flow
    <2>1. s[0] # NULL
      BY FirstConnected, <1>1
    <2> QED
      BY <2>1, FlowFound, Zenon DEF FlowOf, Types
  <1>5. flowID' \in [Proxies -> Flow]
    BY <1>4, Zenon DEF Write, Types
  <1>6. \/ chan' = chan
        \/ /\ s[f] # NULL /\ CanReach(s[f], p)
           /\ chan' = [chan EXCEPT ![s[f]][Other[p]] =
                         Append(@, [user |-> user, no |-> writes[p] + 1])]
    BY Zenon DEF Write
  <1>7. kind = "name" => f = user
    BY DEF FlowOf
  <1>8. s[f] # NULL => s[f] \in Conns /\ s[f] <= conns'
    BY <1>3, <1>4, Zenon
  <1>9. end' = [d \in Conns |-> IF d \in Opened(p)
                                THEN [end[d] EXCEPT ![p] = "open"] ELSE end[d]]
    BY <1>2, Zenon DEF Write, Opened
  <1>10. /\ kind' = kind /\ got' = got /\ breaks' = breaks
         /\ writes' = [writes EXCEPT ![p] = @ + 1]
         /\ slot' = [slot EXCEPT ![p] = s]
         /\ listen' = [listen EXCEPT ![Other[p]] = @ \o NewConns(slot[p])]
    BY Zenon DEF Write
  <1> HIDE DEF f
  <1>11. Sends(p, user)
    BY <1>6, <1>7, <1>8, Zenon DEF Sends
  <1> QED
    BY <1>2, <1>3, <1>5, <1>9, <1>10, <1>11, Zenon DEF WriteStep

LEMMA WriteKeeps ==
    ASSUME OrderInv, NEW p \in Proxies, NEW user \in Flow, Write(p, user)
    PROVE  OrderInv'
  <1> DEFINE q == Other[p]
             n == Len(NewConns(slot[p]))
             s == Connected(slot[p])
             msg == [user |-> user, no |-> writes[p] + 1]
             sent(c) == /\ CanReach(c, p) /\ c <= conns' /\ (kind = "name" => s[user] = c)
                        /\ chan' = [chan EXCEPT ![c][q] = Append(@, msg)]
  <1>1. Types /\ Used /\ Waiting /\ Lives /\ FlowOrder
    BY DEF OrderInv
  <1>2. q \in Proxies /\ q # p /\ Other[q] = p
    BY Pairs
  <1>3. n \in Nat /\ NewConns(slot[p]) \in Seq(Nat)
        /\ \A i \in DOMAIN NewConns(slot[p]) : NewConns(slot[p])[i] = conns + i
    BY <1>1, Opens, PeerConnsAssumption DEF Types
  <1>0. WriteStep(p, user)
    BY <1>1, WriteSteps
  <1>4. conns \in Nat /\ MaxConns \in Nat /\ conns' = conns + n /\ conns' <= MaxConns
    BY <1>0, <1>1, PeerConnsAssumption DEF Types, WriteStep
  <1>5. /\ s \in [Flow -> Conns \cup {NULL}]
        /\ \A g \in Flow : slot[p][g] # NULL => s[g] = slot[p][g]
        /\ slot' = [slot EXCEPT ![p] = s]
    BY <1>0, Zenon DEF Connected, WriteStep
  <1>6. \A d \in Conns : \A r \in Proxies :
           end'[d][r] = IF d \in Opened(p) /\ r = p THEN "open" ELSE end[d][r]
    BY <1>0, <1>1, Zenon DEF Types, WriteStep
  <1>7. msg \in Message /\ writes[p] \in Nat
        /\ writes' = [writes EXCEPT ![p] = @ + 1]
    BY <1>0, <1>1 DEF Message, Types, WriteStep
  <1>8. kind' = kind /\ got' = got /\ breaks' = breaks
    BY <1>0, Zenon DEF WriteStep
  <1>9. chan' = chan \/ \E c \in Conns : sent(c)
    BY <1>0, Zenon DEF WriteStep, Sends
  <1>10. \A d \in Opened(p) : d > conns /\ d <= conns'
    BY <1>3, <1>4 DEF Opened
  <1> HIDE DEF n, s
  <1>12. NewConns(slot[p]) \in Seq(Conns) /\ Len(NewConns(slot[p])) = n
    <2>1. Cardinality(ToConnect(slot[p])) = n
      BY <1>3, NumOpened, Zenon DEF n
    <2>2. \A i \in 1 .. n : conns + i \in Conns
      BY <1>3, <1>4 DEF Conns
    <2>3. NewConns(slot[p]) = [i \in 1 .. n |-> conns + i]
      BY <2>1, Zenon DEF NewConns
    <2>4. Len(NewConns(slot[p])) = n
      BY DEF n
    <2>5. NewConns(slot[p]) \in Seq(Conns)
      BY <2>2, <2>3, <1>3
    <2> QED
      BY <2>4, <2>5, Zenon
  <1>11. Types'
    <2>1. end' \in [Conns -> [Proxies -> EndStates]]
      BY <1>0, <1>1, Zenon DEF Types, EndStates, WriteStep
    <2>3. listen' \in [Proxies -> Seq(Conns)]
      BY <1>12, <1>0, <1>1, <1>2 DEF Types, WriteStep
    <2>4. chan' \in [Conns -> [Proxies -> Seq(Message)]]
      <3>1. chan \in [Conns -> [Proxies -> Seq(Message)]]
        BY <1>1 DEF Types
      <3>2. ASSUME NEW c \in Conns, sent(c) PROVE chan' \in [Conns -> [Proxies -> Seq(Message)]]
        <4>1. Append(chan[c][q], msg) \in Seq(Message)
          BY <3>1, <1>2, <1>7, AppendElements
        <4> QED
          BY <3>1, <3>2, <4>1, <1>2
      <3> QED
        BY <3>1, <3>2, <1>9, Zenon
    <2>5. writes' \in [Proxies -> Nat]
      BY <1>1, <1>7 DEF Types
    <2>6. flowID' \in [Proxies -> Flow] /\ slot' \in [Proxies -> [Flow -> Conns \cup {NULL}]]
      BY <1>0, <1>1, <1>5 DEF Types, WriteStep
    <2> QED
      BY <1>1, <1>3, <1>4, <1>8, <2>1, <2>3, <2>4, <2>5, <2>6 DEF Types
  <1>13. Waiting'
    <2> SUFFICES ASSUME NEW r \in Proxies, NEW i \in DOMAIN listen'[r],
                        NEW j \in DOMAIN listen'[r]
                 PROVE  /\ listen'[r][i] <= conns' /\ end'[listen'[r][i]][r] = "none"
                        /\ listen'[r][i] = listen'[r][j] => i = j
      BY DEF Waiting
    <2>1. listen' = [listen EXCEPT ![q] = @ \o NewConns(slot[p])]
      BY <1>0, Zenon DEF WriteStep
    <2>2. \A k \in DOMAIN listen[r] :
             /\ listen[r][k] \in Conns /\ listen[r][k] <= conns
             /\ end'[listen[r][k]][r] = "none"
      <3>1. listen[r] \in Seq(Conns)
        BY <1>1 DEF Types
      <3>2. \A k \in DOMAIN listen[r] :
              listen[r][k] <= conns /\ end[listen[r][k]][r] = "none"
        BY <1>1 DEF Waiting
      <3>3. \A k \in DOMAIN listen[r] : listen[r][k] \in Conns
        BY <3>1
      <3>4. \A d \in Conns : d <= conns => d \notin Opened(p)
        BY <1>4, <1>10 DEF Conns
      <3> QED
        BY <3>2, <3>3, <3>4, <1>6
    <2>3. CASE r # q
      <3>1. listen'[r] = listen[r]
        BY <2>1, <2>3, <1>1, Zenon DEF Types
      <3> QED
        <4>1. listen[r][i] = listen[r][j] => i = j
          BY <3>1, <1>1, Zenon DEF Waiting
        <4>2. \A d \in Conns : d <= conns => d <= conns'
          BY <1>3, <1>4 DEF Conns
        <4> QED
          BY <3>1, <2>2, <4>1, <4>2
    <2>4. CASE r = q
      <3>1. listen'[r] = listen[r] \o NewConns(slot[p]) /\ listen[r] \in Seq(Conns)
        BY <2>1, <2>4, <1>1, <1>2, Zenon DEF Types
      <3>2. \A k \in 1 .. n : end'[conns + k][r] = "none" /\ conns + k \in Conns
        BY <2>4, <1>1, <1>2, <1>3, <1>4, <1>6 DEF Lives, Conns
      <3>3. \A k \in DOMAIN listen'[r] :
               IF k <= Len(listen[r]) THEN listen'[r][k] = listen[r][k] /\ k \in DOMAIN listen[r]
               ELSE k - Len(listen[r]) \in 1 .. n
                    /\ listen'[r][k] = conns + (k - Len(listen[r]))
        <4> SUFFICES ASSUME NEW k \in DOMAIN (listen[r] \o NewConns(slot[p]))
                     PROVE  IF k <= Len(listen[r])
                            THEN /\ listen'[r][k] = listen[r][k]
                                 /\ k \in DOMAIN listen[r]
                            ELSE /\ k - Len(listen[r]) \in 1 .. n
                                 /\ listen'[r][k] = conns + (k - Len(listen[r]))
          BY <3>1, Zenon
        <4>1. DOMAIN NewConns(slot[p]) = 1 .. n
          BY <1>12
        <4>2. IF k <= Len(listen[r])
              THEN k \in DOMAIN listen[r] /\ listen'[r][k] = listen[r][k]
              ELSE /\ k - Len(listen[r]) \in DOMAIN NewConns(slot[p])
                   /\ listen'[r][k] = NewConns(slot[p])[k - Len(listen[r])]
          <5>1. PICK w : w = NewConns(slot[p])
            BY Zenon
          <5>2. /\ listen[r] \in Seq(Conns) /\ w \in Seq(Conns)
                /\ k \in DOMAIN (listen[r] \o w) /\ listen'[r] = listen[r] \o w
            BY <5>1, <3>1, <1>12, Zenon
          <5>3. IF k <= Len(listen[r])
                THEN k \in DOMAIN listen[r] /\ (listen[r] \o w)[k] = listen[r][k]
                ELSE /\ k - Len(listen[r]) \in DOMAIN w
                     /\ (listen[r] \o w)[k] = w[k - Len(listen[r])]
            BY <5>2, ConcatElements, Zenon
          <5> QED
            BY <5>1, <5>2, <5>3, Zenon
        <4> QED
          BY <4>1, <4>2, <1>3, Zenon
      <3>4. listen'[r][i] <= conns' /\ end'[listen'[r][i]][r] = "none"
        <4>1. \A d \in Conns : d <= conns => d <= conns'
          BY <1>3, <1>4 DEF Conns
        <4>2. \A k \in 1 .. n : conns + k <= conns'
          BY <1>3, <1>4
        <4>3. CASE i <= Len(listen[r])
          BY <2>2, <3>3, <4>1, <4>3, Zenon
        <4>4. CASE ~(i <= Len(listen[r]))
          BY <3>2, <3>3, <4>2, <4>4
        <4> QED
          BY <4>3, <4>4
      <3>5. listen'[r][i] = listen'[r][j] => i = j
        <4>1. \A k, l \in DOMAIN listen[r] : listen[r][k] = listen[r][l] => k = l
          BY <1>1 DEF Waiting
        <4>2. i \in Nat /\ j \in Nat /\ Len(listen[r]) \in Nat
          BY <3>1
        <4>3. \A k \in DOMAIN listen[r] : listen[r][k] \in Nat /\ listen[r][k] <= conns
          BY <2>2, <1>4 DEF Conns
        <4>4. \A k \in DOMAIN listen[r] : \A l \in Nat : l > 0 => listen[r][k] # conns + l
          BY <4>3, <1>4
        <4>5. CASE i <= Len(listen[r]) /\ j <= Len(listen[r])
          BY <3>3, <4>1, <4>5, Zenon
        <4>6. CASE ~(i <= Len(listen[r])) /\ ~(j <= Len(listen[r]))
          BY <3>3, <4>2, <4>6, <1>4, SMTT(30)
        <4>7. CASE i <= Len(listen[r]) /\ ~(j <= Len(listen[r]))
          BY <3>3, <4>2, <4>4, <4>7, <1>3
        <4>8. CASE ~(i <= Len(listen[r])) /\ j <= Len(listen[r])
          BY <3>3, <4>2, <4>4, <4>8, <1>3
        <4> QED
          BY <4>5, <4>6, <4>7, <4>8
      <3> QED
        BY <3>4, <3>5
    <2> QED
      BY <2>3, <2>4
  <1>14. Used'
    <2>1. \A g \in Flow : s[g] <= conns'
      BY <1>0, Zenon DEF WriteStep, s
    <2>2. \A r \in Proxies : \A g \in Flow : slot[r][g] <= conns'
      <3>1. \A r \in Proxies : \A g \in Flow : slot[r][g] \in Nat /\ slot[r][g] <= conns
        BY <1>1 DEF Used, Types, Conns, NULL
      <3>2. \A k \in Nat : k <= conns => k <= conns'
        BY <1>3, <1>4
      <3> QED
        BY <3>1, <3>2, Zenon
    <2> QED
      BY <2>1, <2>2, <1>1, <1>5 DEF Used, Types
  <1>15. ASSUME NEW c \in Conns, NEW r \in Proxies, chan'[c][r] # chan[c][r]
         PROVE  sent(c) /\ r = q
    <2>1. PICK d \in Conns : sent(d)
      BY <1>15, <1>9, Zenon
    <2>2. chan \in [Conns -> [Proxies -> Seq(Message)]]
      BY <1>1 DEF Types
    <2>3. d = c /\ r = q
      BY <2>1, <2>2, <1>15, <1>2, Zenon
    <2> QED
      BY <2>1, <2>3, Zenon
  <1>16. Lives'
    <2> SUFFICES ASSUME NEW c \in Conns, NEW r \in Proxies
                 PROVE  /\ c > conns' => end'[c][r] = "none" /\ chan'[c][r] = <<>>
                        /\ c \in breaks' => c <= conns' /\ chan'[c][r] = <<>>
                        /\ end'[c][r] = "dead" => c \in breaks' \/ end'[c][Other[r]] = "closed"
      BY DEF Lives
    <2>1. /\ c > conns => end[c][r] = "none" /\ chan[c][r] = <<>>
          /\ c > conns => end[c][Other[r]] = "none"
          /\ c \in breaks => c <= conns /\ chan[c][r] = <<>>
          /\ end[c][r] = "dead" => c \in breaks \/ end[c][Other[r]] = "closed"
      BY <1>1, Pairs DEF Lives
    <2>2. c \in Nat /\ (c > conns' => c > conns) /\ (c <= conns => c <= conns')
      BY <1>3, <1>4 DEF Conns
    <2>3. c \in Opened(p) => c > conns /\ ~ (c > conns')
      BY <1>3, <1>4, <2>2, <1>10
    <2>4. sent(c) => ~ (c > conns') /\ c \notin breaks
      BY <2>2, <1>3, <1>4 DEF CanReach
    <2>5. /\ c > conns' => chan'[c][r] = chan[c][r]
          /\ c \in breaks => chan'[c][r] = chan[c][r]
      BY <2>4, <1>15, Zenon
    <2>6. c > conns' => end'[c][r] = end[c][r]
      BY <2>3, <1>6
    <2>7. end'[c][r] = "dead" => end[c][r] = "dead" /\ end'[c][Other[r]] = end[c][Other[r]]
      BY <2>1, <2>3, <1>6, Pairs
    <2> QED
      BY <2>1, <2>2, <2>5, <2>6, <2>7, <1>8, Zenon
  <1>17. CASE kind # "name"
    BY <1>17, <1>8, <1>11, <1>13, <1>14, <1>16 DEF OrderInv, FlowOrder
  <1>18. CASE kind = "name"
    <2>1. OneConnection /\ Sorted /\ Later
      BY <1>18 DEF OrderInv
    <2>2. \A c \in Conns : \A r \in Proxies : chan[c][r] \in Seq(Message)
      BY <1>1 DEF Types
    <2>3. \A c \in Conns, r \in Proxies : CanRead(c, r)' => CanRead(c, r)
      <3> SUFFICES ASSUME NEW c \in Conns, NEW r \in Proxies, CanRead(c, r)'
                   PROVE  CanRead(c, r)
        OBVIOUS
      <3>1. CASE c \in Opened(p)
        BY <3>1, <1>10, <1>1 DEF Lives, CanRead
      <3>2. CASE c \notin Opened(p)
        BY <3>2, <1>6 DEF CanRead
      <3> QED
        BY <3>1, <3>2
    <2> DEFINE old(c, r, i) == i \in DOMAIN chan[c][r] /\ chan'[c][r][i] = chan[c][r][i]
               new(c, r, i) == /\ sent(c) /\ r = q /\ i = Len(chan[c][r]) + 1
                               /\ chan'[c][r][i] = msg
    <2>4. ASSUME NEW c \in Conns, NEW r \in Proxies, NEW i \in DOMAIN chan'[c][r]
          PROVE  old(c, r, i) \/ new(c, r, i)
      <3>1. CASE chan'[c][r] = chan[c][r]
        BY <3>1, Zenon
      <3>2. CASE chan'[c][r] # chan[c][r]
        <4>1. sent(c) /\ r = q
          BY <3>2, <1>15, Zenon
        <4>2. chan'[c][r] = Append(chan[c][r], msg)
          BY <4>1, <1>1, <1>2, Zenon DEF Types
        <4> QED
          BY <4>1, <4>2, <2>2, <1>7, AppendElements
      <3> QED
        BY <3>1, <3>2, Zenon
    <2>5. ASSUME NEW c \in Conns, NEW r \in Proxies, NEW i \in DOMAIN chan[c][r]
          PROVE  /\ chan[c][r][i].user \in Flow /\ chan[c][r][i].no \in Nat
                 /\ i \in Nat /\ i < Len(chan[c][r]) + 1
      <3>1. chan[c][r][i] \in Message /\ i \in 1 .. Len(chan[c][r])
        BY <2>2
      <3> QED
        BY <3>1, <2>2 DEF Message
    <2>6. msg.user = user /\ msg.no = writes[p] + 1
      OBVIOUS
    <2> HIDE DEF old, new, msg, sent
    <2>7. OneConnection'
      <3> SUFFICES ASSUME NEW r \in Proxies, NEW c \in Conns, CanRead(c, r)',
                          NEW i \in DOMAIN chan'[c][r]
                   PROVE  slot'[Other[r]][chan'[c][r][i].user] = c
        BY Zenon DEF OneConnection
      <3>1. CASE old(c, r, i)
        <4> DEFINE u == chan[c][r][i].user
        <4>1. slot[Other[r]][u] = c /\ u \in Flow /\ c # NULL
          BY <3>1, <2>1, <2>3, <2>5 DEF OneConnection, old, Conns, NULL
        <4>2. slot'[Other[r]][u] = c
          <5>1. Other[r] \in Proxies /\ slot \in [Proxies -> [Flow -> Conns \cup {NULL}]]
            BY <1>1, Pairs, Zenon DEF Types
          <5>2. CASE Other[r] = p
            BY <4>1, <5>1, <5>2, <1>5, Zenon
          <5>3. CASE Other[r] # p
            BY <4>1, <5>1, <5>3, <1>5, Zenon
          <5> QED
            BY <5>2, <5>3, Zenon
        <4> QED
          BY <3>1, <4>2, Zenon DEF old
      <3>2. CASE new(c, r, i)
        <4>1. s[user] = c /\ Other[r] = p /\ chan'[c][r][i].user = user
          BY <3>2, <2>6, <1>2, <1>18, Zenon DEF new, sent
        <4>2. slot'[p] = s
          BY <1>1, <1>5, Zenon DEF Types
        <4> QED
          BY <4>1, <4>2, Zenon
      <3> QED
        BY <3>1, <3>2, <2>4, Zenon
    <2>8. \A r \in Proxies : writes[r] \in Nat /\ writes'[r] \in Nat /\ writes[r] <= writes'[r]
      BY <1>1, <1>7 DEF Types
    <2>9. writes'[p] = writes[p] + 1
      BY <1>1, <1>7 DEF Types
    <2>10. Sorted'
      <3> SUFFICES ASSUME NEW r \in Proxies, NEW c \in Conns, NEW i \in DOMAIN chan'[c][r],
                          NEW j \in DOMAIN chan'[c][r]
                   PROVE  /\ chan'[c][r][i].no <= writes'[Other[r]]
                          /\ i < j => chan'[c][r][i].no < chan'[c][r][j].no
        BY DEF Sorted
      <3>1. \A k \in DOMAIN chan[c][r] : chan[c][r][k].no <= writes[Other[r]]
        BY <2>1 DEF Sorted
      <3>2. \A k \in DOMAIN chan[c][r] : /\ chan[c][r][k].no <= writes'[Other[r]]
                                         /\ chan[c][r][k].no < writes[Other[r]] + 1
        BY <3>1, <2>5, <2>8, Pairs
      <3>3. CASE old(c, r, i) /\ old(c, r, j)
        BY <3>2, <3>3, <2>1, Zenon DEF Sorted, old
      <3>4. CASE old(c, r, i) /\ new(c, r, j)
        BY <3>2, <3>4, <2>6, <1>2, Zenon DEF old, new
      <3>5. CASE new(c, r, i)
        <4>1. chan'[c][r][i].no = writes'[Other[r]] /\ writes'[Other[r]] \in Nat
          BY <3>5, <2>6, <2>8, <2>9, <1>2, Zenon DEF new
        <4>2. ~ (i < j)
          <5>1. Len(chan[c][r]) \in Nat
            BY <2>2
          <5> QED
            BY <3>5, <2>4, <2>5, <5>1 DEF old, new
        <4> QED
          BY <4>1, <4>2
      <3> QED
        BY <3>3, <3>4, <3>5, <2>4, Zenon
    <2>11. Later'
      <3> SUFFICES ASSUME NEW r \in Proxies, NEW k \in DOMAIN got[r]
                   PROVE  /\ got[r][k].no <= writes'[Other[r]]
                          /\ \A c \in Conns : CanRead(c, r)' => \A i \in DOMAIN chan'[c][r] :
                               chan'[c][r][i].user = got[r][k].user
                                 => got[r][k].no < chan'[c][r][i].no
        BY <1>8 DEF Later
      <3>1. got[r][k].no \in Nat /\ got[r][k].no <= writes[Other[r]]
        <4>1. got[r] \in Seq(Message)
          BY <1>1 DEF Types
        <4>2. got[r][k] \in Message
          BY <4>1
        <4> QED
          BY <4>2, <2>1, Zenon DEF Message, Later
      <3>2. got[r][k].no <= writes'[Other[r]] /\ got[r][k].no < writes[Other[r]] + 1
        BY <3>1, <2>8, Pairs
      <3>3. ASSUME NEW c \in Conns, CanRead(c, r)', NEW i \in DOMAIN chan'[c][r],
                   chan'[c][r][i].user = got[r][k].user
            PROVE  got[r][k].no < chan'[c][r][i].no
        <4>1. CASE old(c, r, i)
          BY <4>1, <3>3, <2>1, <2>3, Zenon DEF old, Later
        <4>2. CASE new(c, r, i)
          BY <4>2, <3>2, <2>6, <1>2, Zenon DEF new
        <4> QED
          BY <4>1, <4>2, <2>4, Zenon
      <3> QED
        BY <3>2, <3>3, Zenon
    <2>12. FlowOrder'
      BY <1>1, <1>8 DEF FlowOrder
    <2> QED
      BY <1>11, <1>13, <1>14, <1>16, <2>7, <2>10, <2>11, <2>12 DEF OrderInv
  <1> QED
    BY <1>17, <1>18, Zenon

(* An accepted connection takes an empty slot; a refused one is closed,    *)
(* and what is on it cannot be read any more.                              *)
LEMMA AcceptKeeps ==
    ASSUME OrderInv, NEW p \in Proxies, SocketAcceptCB(p)
    PROVE  OrderInv'
  <1> DEFINE c == Head(listen[p])
             free == EmptySlots(slot[p])
             i == CHOOSE f \in free : \A g \in free : f <= g
  <1>1. Types /\ Used /\ Waiting /\ Lives /\ FlowOrder
    BY DEF OrderInv
  <1>2. listen[p] \in Seq(Conns) /\ listen[p] # <<>>
    BY <1>1, Zenon DEF Types, SocketAcceptCB
  <1>3. /\ c \in Conns /\ c = listen[p][1] /\ 1 \in DOMAIN listen[p]
        /\ Tail(listen[p]) \in Seq(Conns)
        /\ \A k \in DOMAIN Tail(listen[p]) :
              k + 1 \in DOMAIN listen[p] /\ 1 < k + 1 /\ Tail(listen[p])[k] = listen[p][k + 1]
    BY <1>2, TailElements, Zenon
  <1>4. c <= conns /\ end[c][p] = "none" /\ \A k \in DOMAIN listen[p] : c = listen[p][k] => k = 1
    BY <1>1, <1>3 DEF Waiting
  <1>5. free # {} => i \in free
    <2>1. free \in SUBSET Nat
      BY PeerConnsAssumption DEF EmptySlots, Flow
    <2> HIDE DEF free
    <2>2. ASSUME free # {} PROVE \E f \in free : \A g \in free : f <= g
      BY <2>1, <2>2, Least
    <2> QED
      BY <2>2
  <1>6. /\ listen' = [listen EXCEPT ![p] = Tail(@)]
        /\ kind' = kind /\ flowID' = flowID /\ conns' = conns /\ writes' = writes
        /\ got' = got /\ breaks' = breaks
    BY Zenon DEF SocketAcceptCB
  <1>7. \/ /\ free = {} /\ end' = [end EXCEPT ![c][p] = "closed"]
           /\ chan' = [chan EXCEPT ![c][p] = <<>>] /\ slot' = slot
        \/ /\ i \in free /\ end' = [end EXCEPT ![c][p] = "open"]
           /\ slot' = [slot EXCEPT ![p][i] = c] /\ chan' = chan
    BY <1>5, Zenon DEF SocketAcceptCB, Refused
  <1> HIDE DEF c, i, free
  <1>8. /\ end \in [Conns -> [Proxies -> EndStates]]
        /\ chan \in [Conns -> [Proxies -> Seq(Message)]]
        /\ slot \in [Proxies -> [Flow -> Conns \cup {NULL}]]
    BY <1>1 DEF Types
  <1>9. /\ end' \in [Conns -> [Proxies -> EndStates]]
        /\ end'[c][p] \in {"open", "closed"}
        /\ \A d \in Conns, r \in Proxies : d # c \/ r # p => end'[d][r] = end[d][r]
    <2>1. CASE end' = [end EXCEPT ![c][p] = "closed"]
      BY <2>1, <1>3, <1>8, Zenon DEF EndStates
    <2>2. CASE end' = [end EXCEPT ![c][p] = "open"]
      BY <2>2, <1>3, <1>8, Zenon DEF EndStates
    <2> QED
      BY <2>1, <2>2, <1>7, Zenon
  <1>10. /\ chan' \in [Conns -> [Proxies -> Seq(Message)]]
         /\ \A d \in Conns, r \in Proxies : chan'[d][r] = chan[d][r] \/ chan'[d][r] = <<>>
    <2>1. CASE chan' = [chan EXCEPT ![c][p] = <<>>]
      BY <2>1, <1>3, <1>8
    <2>2. CASE chan' = chan
      BY <2>2, <1>8
    <2> QED
      BY <2>1, <2>2, <1>7, Zenon
  <1>11. /\ slot' \in [Proxies -> [Flow -> Conns \cup {NULL}]]
         /\ \A r \in Proxies, f \in Flow :
               slot'[r][f] = slot[r][f] \/ (slot[r][f] = NULL /\ slot'[r][f] = c)
    <2>1. i \in free => i \in Flow /\ slot[p][i] = NULL
      BY DEF free, EmptySlots
    <2>2. CASE i \in free /\ slot' = [slot EXCEPT ![p][i] = c]
      BY <2>1, <2>2, <1>3, <1>8
    <2>3. CASE slot' = slot
      BY <2>3, <1>8
    <2> QED
      BY <2>2, <2>3, <1>7
  <1>16. Types'
    <2>2. listen' \in [Proxies -> Seq(Conns)]
      BY <1>1, <1>3, <1>6, Zenon DEF Types
    <2> QED
      BY <1>1, <1>6, <1>9, <1>10, <1>11, <2>2, Zenon DEF Types
  <1>17. Used'
    BY <1>1, <1>4, <1>6, <1>11 DEF Used
  <1>12. Waiting'
    <2> SUFFICES ASSUME NEW r \in Proxies, NEW k \in DOMAIN listen'[r],
                        NEW j \in DOMAIN listen'[r]
                 PROVE  /\ listen'[r][k] <= conns /\ end'[listen'[r][k]][r] = "none"
                        /\ listen'[r][k] = listen'[r][j] => k = j
      BY <1>6 DEF Waiting
    <2>0. \A l, m \in DOMAIN listen[r] :
            /\ listen[r][l] <= conns /\ end[listen[r][l]][r] = "none"
            /\ listen[r][l] \in Conns
            /\ listen[r][l] = listen[r][m] => l = m
      <3>1. listen[r] \in Seq(Conns)
        BY <1>1 DEF Types
      <3> QED
        BY <3>1, <1>1 DEF Waiting
    <2>1. CASE r # p
      <3>1. listen'[r] = listen[r]
        BY <2>1, <1>1, <1>6 DEF Types
      <3> QED
        BY <3>1, <2>0, <2>1, <1>9
    <2>2. CASE r = p
      <3>1. listen'[r] = Tail(listen[p])
        BY <2>2, <1>1, <1>6 DEF Types
      <3>2. /\ k \in Nat /\ j \in Nat /\ k + 1 \in DOMAIN listen[p] /\ j + 1 \in DOMAIN listen[p]
            /\ listen'[r][k] = listen[p][k + 1] /\ listen'[r][j] = listen[p][j + 1]
            /\ k + 1 # 1
        BY <3>1, <1>3
      <3>3. listen[p][k + 1] # c
        BY <3>2, <1>4
      <3> QED
        BY <3>2, <3>3, <2>0, <2>2, <1>9
    <2> QED
      BY <2>1, <2>2, Zenon
  <1>13. Lives'
    <2> SUFFICES ASSUME NEW d \in Conns, NEW r \in Proxies
                 PROVE  /\ d > conns => end'[d][r] = "none" /\ chan'[d][r] = <<>>
                        /\ d \in breaks => d <= conns /\ chan'[d][r] = <<>>
                        /\ end'[d][r] = "dead" => d \in breaks \/ end'[d][Other[r]] = "closed"
      BY <1>6 DEF Lives
    <2>1. /\ d > conns => end[d][r] = "none" /\ chan[d][r] = <<>>
          /\ d \in breaks => d <= conns /\ chan[d][r] = <<>>
          /\ end[d][r] = "dead" => d \in breaks \/ end[d][Other[r]] = "closed"
      BY <1>1, Zenon DEF Lives
    <2>2. d > conns => d # c
      BY <1>1, <1>3, <1>4 DEF Types, Conns
    <2>3. end'[c][p] # "dead"
      BY <1>9
    <2>4. end'[d][r] = "dead" => end[d][r] = "dead"
      BY <2>3, <1>9, Zenon
    <2>5. end[d][Other[r]] = "closed" => end'[d][Other[r]] = "closed"
      BY <1>4, <1>9, Pairs
    <2> QED
      BY <2>1, <2>2, <2>4, <2>5, <1>9, <1>10, Zenon
  <1>14. CASE kind # "name"
    BY <1>14, <1>6, <1>16, <1>17, <1>12, <1>13, Zenon DEF OrderInv, FlowOrder
  <1>15. CASE kind = "name"
    <2>1. OneConnection /\ Sorted /\ Later
      BY <1>15 DEF OrderInv
    <2>2. \A d \in Conns, r \in Proxies :
             CanRead(d, r)' => CanRead(d, r)
      BY <1>4, <1>9 DEF CanRead
    <2>3. \A d \in Conns, r \in Proxies : \A k \in DOMAIN chan'[d][r] :
             k \in DOMAIN chan[d][r] /\ chan'[d][r] = chan[d][r]
      BY <1>10
    <2>4. ASSUME NEW r \in Proxies, NEW f \in Flow, slot[r][f] \in Conns
          PROVE  slot'[r][f] = slot[r][f]
      BY <2>4, <1>11 DEF Conns, NULL
    <2>5. OneConnection'
      <3> SUFFICES ASSUME NEW r \in Proxies, NEW d \in Conns, CanRead(d, r)',
                          NEW k \in DOMAIN chan'[d][r]
                   PROVE  slot'[Other[r]][chan'[d][r][k].user] = d
        BY Zenon DEF OneConnection
      <3>1. slot[Other[r]][chan[d][r][k].user] = d
        BY <2>1, <2>2, <2>3 DEF OneConnection
      <3>2. chan[d][r][k].user \in Flow
        <4>1. chan[d][r] \in Seq(Message)
          BY <1>1 DEF Types
        <4>2. chan[d][r][k] \in Message
          BY <4>1, <2>3
        <4> QED
          BY <4>2, Zenon DEF Message
      <3>3. Other[r] \in Proxies /\ chan'[d][r] = chan[d][r]
        BY <2>3, Pairs, Zenon
      <3>4. slot'[Other[r]][chan[d][r][k].user] = slot[Other[r]][chan[d][r][k].user]
        BY <3>1, <3>2, <3>3, <2>4, Zenon
      <3> QED
        BY <3>1, <3>3, <3>4, Zenon
    <2>6. Sorted'
      BY <2>1, <2>3, <1>6 DEF Sorted
    <2>7. Later'
      BY <2>1, <2>2, <2>3, <1>6 DEF Later
    <2> QED
      BY <2>5, <2>6, <2>7, <1>1, <1>6, <1>16, <1>17, <1>12, <1>13 DEF OrderInv, FlowOrder
  <1> QED
    BY <1>14, <1>15, Zenon

(* The message that is read is the first on its connection, and what is    *)
(* left of its user is behind it.                                          *)
LEMMA ReadKeeps ==
    ASSUME OrderInv, NEW p \in Proxies, NEW c \in Conns, Read(p, c)
    PROVE  OrderInv'
  <1> DEFINE m == Head(chan[c][p])
             rest == Tail(chan[c][p])
  <1>1. Types /\ Used /\ Waiting /\ Lives /\ FlowOrder
    BY DEF OrderInv
  <1>2. chan[c][p] \in Seq(Message) /\ chan[c][p] # <<>> /\ end[c][p] = "open"
    BY <1>1 DEF Types, Read
  <1>3. /\ m \in Message /\ m = chan[c][p][1] /\ 1 \in DOMAIN chan[c][p]
        /\ rest \in Seq(Message)
        /\ \A k \in DOMAIN rest :
             k + 1 \in DOMAIN chan[c][p] /\ 1 < k + 1 /\ rest[k] = chan[c][p][k + 1]
    BY <1>2, TailElements, Zenon
  <1>4. /\ got' = [got EXCEPT ![p] = Append(@, m)]
        /\ chan' = [chan EXCEPT ![c][p] = rest]
        /\ kind' = kind /\ slot' = slot /\ flowID' = flowID /\ conns' = conns
        /\ end' = end /\ listen' = listen /\ writes' = writes /\ breaks' = breaks
    BY Zenon DEF Read, row
  <1> HIDE DEF m, rest
  <1>5. /\ chan' \in [Conns -> [Proxies -> Seq(Message)]]
        /\ chan'[c][p] = rest
        /\ \A d \in Conns, r \in Proxies : d # c \/ r # p => chan'[d][r] = chan[d][r]
    BY <1>1, <1>3, <1>4, Zenon DEF Types
  <1>6. /\ got[p] \in Seq(Message) /\ got'[p] = Append(got[p], m)
        /\ got' \in [Proxies -> Seq(Message)]
        /\ \A r \in Proxies : r # p => got'[r] = got[r]
    BY <1>1, <1>3, <1>4 DEF Types
  <1>7. Types'
    BY <1>1, <1>4, <1>5, <1>6, Zenon DEF Types
  <1>8. Used' /\ Waiting'
    BY <1>1, <1>4 DEF Used, Waiting
  <1>9. Lives'
    <2>1. c \notin breaks /\ ~ (c > conns)
      BY <1>1, <1>2 DEF Lives
    <2> QED
      BY <2>1, <1>1, <1>4, <1>5 DEF Lives
  <1>10. CASE kind # "name"
    BY <1>10, <1>4, <1>7, <1>8, <1>9, Zenon DEF OrderInv, FlowOrder
  <1>11. CASE kind = "name"
    <2>1. OneConnection /\ Sorted /\ Later
      BY <1>11 DEF OrderInv
    <2>2. CanRead(c, p) /\ \A d \in Conns, r \in Proxies : CanRead(d, r)' <=> CanRead(d, r)
      BY <1>2, <1>4 DEF CanRead
    <2> DEFINE at(d, r, k) == IF d = c /\ r = p THEN k + 1 ELSE k
    <2>3. \A d \in Conns, r \in Proxies : \A k \in DOMAIN chan'[d][r] :
            /\ at(d, r, k) \in DOMAIN chan[d][r]
            /\ chan'[d][r][k] = chan[d][r][at(d, r, k)]
            /\ k \in Nat
      <3> SUFFICES ASSUME NEW d \in Conns, NEW r \in Proxies, NEW k \in DOMAIN chan'[d][r]
                   PROVE  /\ at(d, r, k) \in DOMAIN chan[d][r]
                          /\ chan'[d][r][k] = chan[d][r][at(d, r, k)]
                          /\ k \in Nat
        BY Zenon
      <3>1. chan'[d][r] \in Seq(Message)
        BY <1>5
      <3>2. k \in Nat
        BY <3>1, SomePlace, Zenon
      <3> QED
        BY <3>2, <1>3, <1>5, Zenon
    <2>4. OneConnection'
      BY <2>1, <2>2, <2>3, <1>4, SMTT(30) DEF OneConnection
    <2>5. Sorted'
      <3> SUFFICES ASSUME NEW r \in Proxies, NEW d \in Conns,
                          NEW k \in DOMAIN chan'[d][r], NEW j \in DOMAIN chan'[d][r]
                   PROVE  /\ chan'[d][r][k].no <= writes[Other[r]]
                          /\ k < j => chan'[d][r][k].no < chan'[d][r][j].no
        BY <1>4 DEF Sorted
      <3>1. k < j => at(d, r, k) < at(d, r, j)
        BY <2>3
      <3> QED
        BY <3>1, <2>1, <2>3 DEF Sorted
    <2>6. m.no <= writes[Other[p]]
      BY <2>1, <1>3, Zenon DEF Sorted
    <2>7. ASSUME NEW d \in Conns, CanRead(d, p), NEW k \in DOMAIN chan'[d][p],
                 chan'[d][p][k].user = m.user
          PROVE  m.no < chan'[d][p][k].no
      <3>1. slot[Other[p]][m.user] = c
        BY <2>1, <2>2, <1>3, Zenon DEF OneConnection
      <3>2. slot[Other[p]][chan'[d][p][k].user] = d
        BY <2>1, <2>3, <2>7 DEF OneConnection
      <3>3. d = c
        BY <3>1, <3>2, <2>7
      <3>4. k + 1 \in DOMAIN chan[c][p] /\ 1 < k + 1 /\ chan'[d][p][k] = chan[c][p][k + 1]
        BY <3>3, <1>3, <1>5, Zenon
      <3> QED
        BY <3>4, <1>3, <2>1 DEF Sorted
    <2>8. \A r \in Proxies : \A k \in DOMAIN got'[r] :
            \/ k \in DOMAIN got[r] /\ got'[r][k] = got[r][k]
            \/ r = p /\ k = Len(got[p]) + 1 /\ got'[r][k] = m
      BY <1>3, <1>6, AppendElements
    <2>9. Later'
      <3> SUFFICES ASSUME NEW r \in Proxies, NEW k \in DOMAIN got'[r]
                   PROVE  /\ got'[r][k].no <= writes[Other[r]]
                          /\ \A d \in Conns : CanRead(d, r) => \A l \in DOMAIN chan'[d][r] :
                               chan'[d][r][l].user = got'[r][k].user
                                 => got'[r][k].no < chan'[d][r][l].no
        BY <1>4, <2>2 DEF Later
      <3>1. CASE k \in DOMAIN got[r] /\ got'[r][k] = got[r][k]
        BY <3>1, <2>1, <2>3 DEF Later
      <3>2. CASE r = p /\ got'[r][k] = m
        BY <3>2, <2>6, <2>7, Zenon
      <3> QED
        BY <3>1, <3>2, <2>8, Zenon
    <2>10. FlowOrder'
      <3> SUFFICES ASSUME NEW r \in Proxies, NEW k \in DOMAIN got'[r], NEW j \in DOMAIN got'[r],
                          k < j, got'[r][k].user = got'[r][j].user
                   PROVE  got'[r][k].no < got'[r][j].no
        BY Zenon DEF FlowOrder
      <3>1. CASE k \in DOMAIN got[r] /\ got'[r][k] = got[r][k]
                 /\ j \in DOMAIN got[r] /\ got'[r][j] = got[r][j]
        BY <3>1, <1>1, <1>11, Zenon DEF FlowOrder
      <3>2. CASE k \in DOMAIN got[r] /\ got'[r][k] = got[r][k] /\ r = p /\ got'[r][j] = m
        BY <3>2, <2>1, <2>2, <1>3 DEF Later
      <3>3. ~ (r = p /\ k = Len(got[p]) + 1)
        <4> SUFFICES ASSUME r = p, k = Len(got[p]) + 1 PROVE FALSE
          OBVIOUS
        <4>1. j \in DOMAIN got[p] \cup {Len(got[p]) + 1}
          BY <1>3, <1>6, AppendElements
        <4>2. Len(got[p]) \in Nat /\ DOMAIN got[p] = 1 .. Len(got[p])
          BY <1>6
        <4> QED
          BY <4>1, <4>2
      <3> QED
        BY <3>1, <3>2, <3>3, <2>8
    <2> QED
      BY <2>4, <2>5, <2>9, <2>10, <1>7, <1>8, <1>9 DEF OrderInv
  <1> QED
    BY <1>10, <1>11, Zenon

(* An end that dies reads no more: fewer messages are left to speak of.    *)
LEMMA EndKeeps ==
    ASSUME OrderInv, NEW p \in Proxies, NEW c \in Conns, ReadEnds(p, c)
    PROVE  OrderInv'
  <1>1. Types /\ Used /\ Waiting /\ Lives /\ FlowOrder
    BY DEF OrderInv
  <1>2. /\ end[c][p] = "open" /\ (c \in breaks \/ end[c][Other[p]] = "closed")
        /\ end' = [end EXCEPT ![c][p] = "dead"]
        /\ kind' = kind /\ slot' = slot /\ flowID' = flowID /\ conns' = conns
        /\ listen' = listen /\ chan' = chan /\ writes' = writes /\ got' = got
        /\ breaks' = breaks
    BY DEF ReadEnds
  <1>3. /\ end' \in [Conns -> [Proxies -> EndStates]] /\ end'[c][p] = "dead"
        /\ \A d \in Conns, r \in Proxies : d # c \/ r # p => end'[d][r] = end[d][r]
    <2>1. end \in [Conns -> [Proxies -> EndStates]]
      BY <1>1 DEF Types
    <2> QED
      BY <2>1, <1>2 DEF EndStates
  <1>4. Types'
    BY <1>1, <1>2, <1>3, Zenon DEF Types
  <1>5. Used'
    BY <1>1, <1>2, Zenon DEF Used
  <1>6. Waiting'
    <2> SUFFICES ASSUME NEW r \in Proxies, NEW k \in DOMAIN listen[r]
                 PROVE  end'[listen[r][k]][r] = "none"
      BY <1>1, <1>2 DEF Waiting
    <2>1. listen[r] \in Seq(Conns)
      BY <1>1 DEF Types
    <2>2. listen[r][k] \in Conns /\ end[listen[r][k]][r] = "none"
      BY <2>1, <1>1 DEF Waiting
    <2> QED
      BY <2>2, <1>2, <1>3
  <1>7. Lives'
    <2> SUFFICES ASSUME NEW d \in Conns, NEW r \in Proxies
                 PROVE  /\ d > conns => end'[d][r] = "none" /\ chan[d][r] = <<>>
                        /\ d \in breaks => d <= conns /\ chan[d][r] = <<>>
                        /\ end'[d][r] = "dead" => d \in breaks \/ end'[d][Other[r]] = "closed"
      BY <1>2 DEF Lives
    <2>1. /\ d > conns => end[d][r] = "none" /\ chan[d][r] = <<>>
          /\ d \in breaks => d <= conns /\ chan[d][r] = <<>>
          /\ end[d][r] = "dead" => d \in breaks \/ end[d][Other[r]] = "closed"
      BY <1>1 DEF Lives
    <2>2. end[d][Other[r]] = "closed" => end'[d][Other[r]] = "closed"
      BY <1>2, <1>3, Pairs
    <2>3. CASE d = c /\ r = p
      BY <2>1, <2>2, <2>3, <1>2, <1>3, Zenon
    <2>4. CASE d # c \/ r # p
      BY <2>1, <2>2, <2>4, <1>3, Zenon
    <2> QED
      BY <2>3, <2>4
  <1>8. \A d \in Conns, r \in Proxies : CanRead(d, r)' => CanRead(d, r)
    BY <1>3 DEF CanRead
  <1>9. kind = "name" => (OneConnection /\ Sorted /\ Later)'
    <2> SUFFICES ASSUME kind = "name" PROVE (OneConnection /\ Sorted /\ Later)'
      OBVIOUS
    <2>1. OneConnection /\ Sorted /\ Later
      BY DEF OrderInv
    <2>2. OneConnection'
      BY <2>1, <1>2, <1>8, Zenon DEF OneConnection
    <2>3. Sorted'
      BY <2>1, <1>2 DEF Sorted
    <2>4. Later'
      BY <2>1, <1>2, <1>8 DEF Later
    <2> QED
      BY <2>2, <2>3, <2>4
  <1> QED
    BY <1>1, <1>2, <1>4, <1>5, <1>6, <1>7, <1>9 DEF OrderInv, FlowOrder

(* The slot of a dead connection is emptied: what was left on it can no    *)
(* longer be read by the other proxy.                                      *)
LEMMA DestroyKeeps ==
    ASSUME OrderInv, NEW p \in Proxies, NEW c \in Conns, DestroyConnectionInfo(p, c)
    PROVE  OrderInv'
  <1>1. Types /\ Used /\ Waiting /\ Lives /\ FlowOrder
    BY Zenon DEF OrderInv
  <1>2. /\ end[c][p] = "dead"
        /\ end' = [end EXCEPT ![c][p] = "closed"]
        /\ slot' = [slot EXCEPT ![p] = ClearSlot(@, c)]
        /\ kind' = kind /\ flowID' = flowID /\ conns' = conns
        /\ listen' = listen /\ chan' = chan /\ writes' = writes /\ got' = got
        /\ breaks' = breaks
    BY DEF DestroyConnectionInfo
  <1>3. /\ end' \in [Conns -> [Proxies -> EndStates]] /\ end'[c][p] = "closed"
        /\ \A d \in Conns, r \in Proxies : d # c \/ r # p => end'[d][r] = end[d][r]
    <2>1. end \in [Conns -> [Proxies -> EndStates]]
      BY <1>1 DEF Types
    <2> QED
      BY <2>1, <1>2 DEF EndStates
  <1>4. /\ slot' \in [Proxies -> [Flow -> Conns \cup {NULL}]]
        /\ \A r \in Proxies, f \in Flow :
             slot'[r][f] = IF r = p /\ slot[r][f] = c THEN NULL ELSE slot[r][f]
    <2>1. slot \in [Proxies -> [Flow -> Conns \cup {NULL}]]
      BY <1>1 DEF Types
    <2>2. ClearSlot(slot[p], c) \in [Flow -> Conns \cup {NULL}]
      BY <2>1 DEF ClearSlot
    <2>3. \A f \in Flow : ClearSlot(slot[p], c)[f] = IF slot[p][f] = c THEN NULL ELSE slot[p][f]
      BY DEF ClearSlot
    <2>4. slot' = [slot EXCEPT ![p] = ClearSlot(slot[p], c)]
      BY <1>2
    <2> QED
      BY <2>1, <2>2, <2>3, <2>4
  <1>5. Types'
    BY <1>1, <1>2, <1>3, <1>4, Zenon DEF Types
  <1>6. Used'
    <2> SUFFICES ASSUME NEW r \in Proxies, NEW f \in Flow PROVE slot'[r][f] <= conns
      BY <1>2, Zenon DEF Used
    <2>1. conns \in Nat /\ slot[r][f] <= conns
      BY <1>1 DEF Types, Used
    <2> QED
      BY <2>1, <1>4 DEF NULL
  <1>7. Waiting'
    <2> SUFFICES ASSUME NEW r \in Proxies, NEW k \in DOMAIN listen[r]
                 PROVE  end'[listen[r][k]][r] = "none"
      BY <1>1, <1>2 DEF Waiting
    <2>1. listen[r] \in Seq(Conns)
      BY <1>1 DEF Types
    <2>2. listen[r][k] \in Conns /\ end[listen[r][k]][r] = "none"
      BY <2>1, <1>1 DEF Waiting
    <2> QED
      BY <2>2, <1>2, <1>3
  <1>8. Lives'
    <2> SUFFICES ASSUME NEW d \in Conns, NEW r \in Proxies
                 PROVE  /\ d > conns => end'[d][r] = "none" /\ chan[d][r] = <<>>
                        /\ d \in breaks => d <= conns /\ chan[d][r] = <<>>
                        /\ end'[d][r] = "dead" => d \in breaks \/ end'[d][Other[r]] = "closed"
      BY <1>2 DEF Lives
    <2>1. /\ d > conns => end[d][r] = "none" /\ chan[d][r] = <<>>
          /\ d \in breaks => d <= conns /\ chan[d][r] = <<>>
          /\ end[d][r] = "dead" => d \in breaks \/ end[d][Other[r]] = "closed"
      BY <1>1, Zenon DEF Lives
    <2>2. end[d][Other[r]] = "closed" => end'[d][Other[r]] = "closed"
      BY <1>2, <1>3, Pairs
    <2>3. CASE d = c /\ r = p
      BY <2>1, <2>3, <1>2, <1>3, Zenon
    <2>4. CASE d # c \/ r # p
      BY <2>1, <2>2, <2>4, <1>3, Zenon
    <2> QED
      BY <2>3, <2>4, Zenon
  <1>9. \A d \in Conns, r \in Proxies : CanRead(d, r)' => CanRead(d, r)
    BY <1>2, <1>3 DEF CanRead
  <1>10. kind = "name" => (OneConnection /\ Sorted /\ Later)'
    <2> SUFFICES ASSUME kind = "name" PROVE (OneConnection /\ Sorted /\ Later)'
      OBVIOUS
    <2>1. OneConnection /\ Sorted /\ Later
      BY Zenon DEF OrderInv
    <2>2. OneConnection'
      <3> SUFFICES ASSUME NEW r \in Proxies, NEW d \in Conns, CanRead(d, r)',
                          NEW k \in DOMAIN chan[d][r]
                   PROVE  slot'[Other[r]][chan[d][r][k].user] = d
        BY <1>2, Zenon DEF OneConnection
      <3>1. slot[Other[r]][chan[d][r][k].user] = d /\ CanRead(d, r)
        BY <2>1, <1>9, Zenon DEF OneConnection
      <3>2. chan[d][r][k].user \in Flow
        <4>1. chan[d][r] \in Seq(Message)
          BY <1>1 DEF Types
        <4>2. chan[d][r][k] \in Message
          BY <4>1
        <4> QED
          BY <4>2, Zenon DEF Message
      <3>3. ~ (Other[r] = p /\ d = c)
        <4> SUFFICES ASSUME Other[r] = p, d = c PROVE FALSE
          BY Zenon
        <4>1. Other[p] = r
          BY Pairs, Zenon
        <4>2. c \in breaks \/ end[c][r] = "closed"
          BY <4>1, <1>1, <1>2 DEF Lives
        <4>3. c \in breaks => chan[c][r] = <<>>
          BY <1>1 DEF Lives
        <4> QED
          BY <4>2, <4>3, <3>1 DEF CanRead
      <3> QED
        BY <3>1, <3>2, <3>3, <1>4, Pairs
    <2>3. Sorted'
      BY <2>1, <1>2 DEF Sorted
    <2>4. Later'
      BY <2>1, <1>2, <1>9 DEF Later
    <2> QED
      BY <2>2, <2>3, <2>4, Zenon
  <1> QED
    BY <1>1, <1>2, <1>5, <1>6, <1>7, <1>8, <1>10 DEF OrderInv, FlowOrder

(* A connection that breaks loses all that was on it.                      *)
LEMMA BreakKeeps ==
    ASSUME OrderInv, NEW c \in Conns, Break(c)
    PROVE  OrderInv'
  <1>1. Types /\ Used /\ Waiting /\ Lives /\ FlowOrder
    BY Zenon DEF OrderInv
  <1>2. /\ c <= conns /\ breaks' = breaks \cup {c}
        /\ chan' = [chan EXCEPT ![c] = [p \in Proxies |-> <<>>]]
        /\ kind' = kind /\ slot' = slot /\ flowID' = flowID /\ conns' = conns
        /\ end' = end /\ listen' = listen /\ writes' = writes /\ got' = got
    BY Zenon DEF Break, row
  <1>3. /\ chan' \in [Conns -> [Proxies -> Seq(Message)]]
        /\ \A r \in Proxies : chan'[c][r] = <<>>
        /\ \A d \in Conns, r \in Proxies : chan'[d][r] = chan[d][r] \/ chan'[d][r] = <<>>
    <2>1. chan \in [Conns -> [Proxies -> Seq(Message)]]
      BY <1>1, Zenon DEF Types
    <2> QED
      BY <2>1, <1>2
  <1>4. Types'
    BY <1>1, <1>2, <1>3, Zenon DEF Types
  <1>5. Used' /\ Waiting'
    BY <1>1, <1>2 DEF Used, Waiting
  <1>6. Lives'
    BY <1>1, <1>2, <1>3 DEF Lives
  <1>7. \A d \in Conns, r \in Proxies : \A k \in DOMAIN chan'[d][r] :
           k \in DOMAIN chan[d][r] /\ chan'[d][r] = chan[d][r]
    BY <1>3
  <1>8. kind = "name" => (OneConnection /\ Sorted /\ Later)'
    <2> SUFFICES ASSUME kind = "name" PROVE (OneConnection /\ Sorted /\ Later)'
      OBVIOUS
    <2>1. OneConnection /\ Sorted /\ Later
      BY Zenon DEF OrderInv
    <2>2. OneConnection'
      BY <2>1, <1>2, <1>7 DEF OneConnection, CanRead
    <2>3. Sorted'
      <3> SUFFICES ASSUME NEW r \in Proxies, NEW d \in Conns, NEW i \in DOMAIN chan'[d][r]
                   PROVE  /\ chan'[d][r][i].no <= writes'[Other[r]]
                          /\ \A j \in DOMAIN chan'[d][r] :
                               i < j => chan'[d][r][i].no < chan'[d][r][j].no
        BY Zenon DEF Sorted
      <3>1. i \in DOMAIN chan[d][r] /\ chan'[d][r] = chan[d][r] /\ writes' = writes
        BY <1>2, <1>7, Zenon
      <3> QED
        BY <2>1, <3>1, Zenon DEF Sorted
    <2>4. Later'
      BY <2>1, <1>2, <1>7 DEF Later, CanRead
    <2> QED
      BY <2>2, <2>3, <2>4
  <1> QED
    BY <1>1, <1>2, <1>4, <1>5, <1>6, <1>8, Zenon DEF OrderInv, FlowOrder

LEMMA NextOrder == OrderInv /\ [Next]_vars => OrderInv'
  <1> SUFFICES ASSUME OrderInv, [Next]_vars PROVE OrderInv'
    OBVIOUS
  <1>1. ASSUME NEW p \in Proxies, NEW user \in Flow, Write(p, user) PROVE OrderInv'
    BY <1>1, WriteKeeps, Zenon
  <1>2. ASSUME NEW p \in Proxies, SocketAcceptCB(p) PROVE OrderInv'
    BY <1>2, AcceptKeeps, Zenon
  <1>3. ASSUME NEW p \in Proxies, NEW c \in Conns,
               Read(p, c) \/ ReadEnds(p, c) \/ DestroyConnectionInfo(p, c)
        PROVE  OrderInv'
    BY <1>3, ReadKeeps, EndKeeps, DestroyKeeps, Zenon
  <1>4. ASSUME NEW c \in Conns, Break(c) PROVE OrderInv'
    BY <1>4, BreakKeeps
  <1>5. CASE UNCHANGED vars
    <2>1. /\ kind' = kind /\ slot' = slot /\ flowID' = flowID /\ conns' = conns
          /\ end' = end /\ listen' = listen /\ chan' = chan /\ writes' = writes
          /\ got' = got /\ breaks' = breaks
      BY <1>5, Zenon DEF vars, row
    <2>2. Types' /\ Used' /\ Waiting' /\ Lives' /\ FlowOrder'
      <3>1. Types'
        BY <2>1, Zenon DEF OrderInv, Types
      <3>2. Used' /\ Waiting'
        BY <2>1, Zenon DEF OrderInv, Used, Waiting
      <3>3. Lives'
        BY <2>1, SMT DEF OrderInv, Lives
      <3>4. FlowOrder'
        BY <2>1, Zenon DEF OrderInv, FlowOrder
      <3> QED
        BY <3>1, <3>2, <3>3, <3>4, Zenon
    <2>3. ASSUME kind = "name" PROVE OneConnection' /\ Sorted' /\ Later'
      BY <2>1, <2>3, Zenon DEF OrderInv, OneConnection, Sorted, Later, CanRead
    <2> QED
      BY <2>1, <2>2, <2>3, Zenon DEF OrderInv
  <1> QED
    BY <1>1, <1>2, <1>3, <1>4, <1>5 DEF Next

(* The name messages of a user are read in the order in which they were    *)
(* written: WriteToNamePeer keeps the user to one slot, SocketAcceptCB     *)
(* never fills a slot that is taken, and DestroyConnectionInfo empties a   *)
(* slot only when nothing on its connection can be read any more.          *)
THEOREM NamesReadInOrder == Spec => []FlowOrder
  <1>1. OrderInv => FlowOrder
    BY DEF OrderInv
  <1> QED
    BY <1>1, InitOrder, NextOrder, PTL DEF Spec

-----------------------------------------------------------------------------
(* As long as no connection breaks, no proxy dies and not both of them     *)
(* have opened connections, the rows are as the first one to write made    *)
(* them: its slots hold connections 1 to g_MaxPeerConns, the other proxy   *)
(* has accepted the first of these in the same slots and has room for the  *)
(* rest, and every message has been read or can be.                        *)
Here(m, q) ==
    \/ \E k \in DOMAIN got[q] : got[q][k].no = m
    \/ \E c \in Conns : /\ CanRead(c, q)
                        /\ \E k \in DOMAIN chan[c][q] : chan[c][q][k].no = m
AllHere == \A p \in Proxies : \A m \in 1 .. writes[p] : Here(m, Other[p])
NobodyOpened == /\ conns = 0
                /\ \A p \in Proxies : /\ listen[p] = <<>> /\ writes[p] = 0
                                      /\ \A f \in Flow : slot[p][f] = NULL
Accepted(q) == g_MaxPeerConns - Len(listen[q])
RowsOf(p, q) ==
    /\ conns = g_MaxPeerConns
    /\ listen[p] = <<>> /\ Len(listen[q]) <= g_MaxPeerConns
    /\ \A i \in DOMAIN listen[q] : listen[q][i] = Accepted(q) + i
    /\ \A f \in Flow : /\ slot[p][f] = f + 1
                       /\ slot[q][f] = IF f < Accepted(q) THEN f + 1 ELSE NULL
    /\ \A c \in 1 .. g_MaxPeerConns : CanRead(c, p) /\ CanRead(c, q)
OneSided == \/ opened = {} /\ NobodyOpened
            \/ \E p \in Proxies : opened = {p} /\ RowsOf(p, Other[p])
Quiet == breaks = {} /\ failed = {} /\ opened # Proxies
LossInv == Quiet => OneSided /\ AllHere

LEMMA InitLoss == Init => LossInv
  BY Pairs DEF Init, LossInv, OneSided, NobodyOpened, AllHere, NULL

(* A message that goes onto a connection that can be read is there.        *)
LEMMA SentIsHere ==
    ASSUME Types, NEW c \in Conns, NEW q \in Proxies, NEW msg \in Message, got' = got,
           chan' = [chan EXCEPT ![c][q] = Append(@, msg)],
           \A d \in Conns, r \in Proxies : CanRead(d, r) => CanRead(d, r)'
    PROVE  /\ \A m, r : r \in Proxies /\ Here(m, r) => Here(m, r)'
           /\ CanRead(c, q)' => Here(msg.no, q)'
  <1>1. chan \in [Conns -> [Proxies -> Seq(Message)]] /\ chan[c][q] \in Seq(Message)
    BY DEF Types
  <1>2. /\ chan'[c][q] = Append(chan[c][q], msg)
        /\ \A d \in Conns, r \in Proxies : d # c \/ r # q => chan'[d][r] = chan[d][r]
    BY <1>1, Zenon
  <1>3. /\ \A k \in DOMAIN chan[c][q] :
             k \in DOMAIN chan'[c][q] /\ chan'[c][q][k] = chan[c][q][k]
        /\ Len(chan[c][q]) + 1 \in DOMAIN chan'[c][q]
        /\ chan'[c][q][Len(chan[c][q]) + 1] = msg
    BY <1>1, <1>2
  <1>4. \A d \in Conns, r \in Proxies : \A k \in DOMAIN chan[d][r] :
          k \in DOMAIN chan'[d][r] /\ chan'[d][r][k] = chan[d][r][k]
    BY <1>2, <1>3
  <1>5. ASSUME NEW m, NEW r \in Proxies, Here(m, r) PROVE Here(m, r)'
    <2>1. CASE \E k \in DOMAIN got[r] : got[r][k].no = m
      BY <2>1, Zenon DEF Here
    <2>2. CASE \E d \in Conns : CanRead(d, r) /\ \E k \in DOMAIN chan[d][r] : chan[d][r][k].no = m
      <3>1. PICK d \in Conns : CanRead(d, r) /\ \E k \in DOMAIN chan[d][r] : chan[d][r][k].no = m
        BY <2>2, Zenon
      <3>2. CanRead(d, r)' /\ \E k \in DOMAIN chan'[d][r] : chan'[d][r][k].no = m
        BY <3>1, <1>4
      <3> QED
        BY <3>2, Zenon DEF Here
    <2> QED
      BY <1>5, <2>1, <2>2, Zenon DEF Here
  <1>6. ASSUME CanRead(c, q)' PROVE Here(msg.no, q)'
    BY <1>3, <1>6, Zenon DEF Here
  <1> QED
    BY <1>5, <1>6, Zenon

(* The first write opens the whole row.                                    *)
LEMMA OpensAll ==
    ASSUME NEW s, \A f \in Flow : s[f] = NULL, conns = 0
    PROVE  /\ ToConnect(s) = Flow
           /\ Len(NewConns(s)) = g_MaxPeerConns
           /\ DOMAIN NewConns(s) = 1 .. g_MaxPeerConns
           /\ NewConns(s) \in Seq(Nat)
           /\ \A i \in 1 .. g_MaxPeerConns : NewConns(s)[i] = i
           /\ \A f \in Flow : Connected(s)[f] = f + 1
  <1>1. g_MaxPeerConns \in Nat \ {0} /\ Flow = 0 .. g_MaxPeerConns - 1 /\ 0 \in Flow
    BY PeerConnsAssumption DEF Flow
  <1>2. ToConnect(s) = Flow
    BY <1>1, Zenon DEF ToConnect
  <1>3. Cardinality(Flow) = g_MaxPeerConns
    BY <1>1, FS_Interval
  <1>4. ASSUME NEW f \in Flow PROVE Connected(s)[f] = f + 1
    <2> DEFINE G == {g \in ToConnect(s) : g <= f}
    <2>1. G = 0 .. f
      BY <1>1, <1>2
    <2>2. f \in Nat /\ Cardinality(0 .. f) = f + 1
      BY <1>1, FS_Interval
    <2>3. NewConn(s, f) = 0 + Cardinality(G)
      BY Zenon DEF NewConn
    <2> HIDE DEF G
    <2>4. Connected(s)[f] = NewConn(s, f)
      BY <1>2 DEF Connected
    <2> QED
      BY <2>1, <2>2, <2>3, <2>4
  <1>5. NewConns(s) = [i \in 1 .. g_MaxPeerConns |-> 0 + i]
    BY <1>2, <1>3 DEF NewConns
  <1> QED
    BY <1>1, <1>2, <1>4, <1>5

(* A write that finds its first slot taken opens nothing.                  *)
LEMMA OpensNone ==
    ASSUME Types, NEW p \in Proxies, NEW user \in Flow, Write(p, user),
           ToConnect(slot[p]) = {}
    PROVE  /\ Connected(slot[p]) = slot[p] /\ slot' = slot /\ conns' = conns
           /\ end' = end /\ listen' = listen /\ opened' = opened
  <1>1. slot \in [Proxies -> [Flow -> Conns \cup {NULL}]] /\ conns \in Nat
    BY DEF Types
  <1>2. Connected(slot[p]) = slot[p]
    BY <1>1, Zenon DEF Connected
  <1>3. NewConns(slot[p]) = <<>> /\ Len(NewConns(slot[p])) = 0
    BY FS_EmptySet DEF NewConns
  <1>4. slot' = slot /\ conns' = conns /\ opened' = opened
    <2>1. /\ slot' = [slot EXCEPT ![p] = slot[p]] /\ conns' = conns + 0
          /\ opened' = opened
      BY <1>2, <1>3, Zenon DEF Write
    <2>2. [slot EXCEPT ![p] = slot[p]] = slot
      BY <1>1, Zenon
    <2> QED
      BY <2>1, <2>2, <1>1
  <1>5. end' = end
    <2>1. end' = [d \in Conns |-> IF d \in conns + 1 .. conns'
                                   THEN [end[d] EXCEPT ![p] = "open"] ELSE end[d]]
      BY Zenon DEF Write
    <2>2. \A d \in Conns : d \notin conns + 1 .. conns'
      BY <1>1, <1>4
    <2> QED
      BY <2>1, <2>2, Zenon DEF Types
  <1>6. listen' = listen
    <2>1. listen' = [listen EXCEPT ![Other[p]] = @ \o NewConns(slot[p])]
      BY Zenon DEF Write
    <2>2. listen[Other[p]] \in Seq(Conns)
      BY Pairs, Zenon DEF Types
    <2>3. listen[Other[p]] \o <<>> = listen[Other[p]]
      BY <2>2
    <2> QED
      BY <2>1, <2>3, <1>3, Pairs DEF Types
  <1> QED
    BY <1>2, <1>4, <1>5, <1>6, Zenon

LEMMA WriteLoss ==
    ASSUME OrderInv, LossInv, NEW p \in Proxies, NEW user \in Flow, Write(p, user), Quiet'
    PROVE  (OneSided /\ AllHere)'
  <1> DEFINE s == Connected(slot[p])
             f == FlowOf(p, s, user)
             c == s[f]
             q == Other[p]
  <1>0. /\ q \in Proxies /\ q # p /\ Other[q] = p /\ Proxies = {p, q}
        /\ g_MaxPeerConns \in Nat \ {0} /\ Flow = 0 .. g_MaxPeerConns - 1 /\ 0 \in Flow
    BY PeerConnsAssumption DEF Flow
  <1>1. Types /\ Used /\ Lives /\ conns \in Nat /\ writes[p] \in Nat /\ MaxConns \in Nat
    BY PeerConnsAssumption DEF OrderInv, Types
  <1>2. Quiet
    BY Zenon DEF Quiet, Write
  <1>3. OneSided /\ AllHere
    BY <1>2 DEF LossInv
  <1>4. f \in Flow
    <2>1. s[0] # NULL
      BY FirstConnected, <1>1, Zenon
    <2> QED
      BY <2>1, <1>1, FlowFound, Zenon DEF FlowOf, Types
  <1>5. c # NULL
    BY Zenon DEF Quiet, Write
  <1>6. /\ got' = got /\ writes' = [writes EXCEPT ![p] = @ + 1]
        /\ CanReach(c, p) => chan' = [chan EXCEPT ![c][q] =
                                  Append(@, [user |-> user, no |-> writes[p] + 1])]
    BY <1>5, Zenon DEF Write
  <1> HIDE DEF f
  <1>8. ASSUME NEW e \in Conns, e = c, CanReach(e, p), CanRead(e, q)',
               \A d \in Conns, r \in Proxies : CanRead(d, r) => CanRead(d, r)'
        PROVE  AllHere'
    <2>0. PICK n \in Nat : n = writes[p] + 1
      BY <1>1
    <2>6. [user |-> user, no |-> n] \in Message
      BY Zenon DEF Message
    <2>5. chan' = [chan EXCEPT ![e][q] = Append(@, [user |-> user, no |-> n])]
      BY <2>0, <1>6, <1>8, Zenon
    <2>1. /\ \A m, r : r \in Proxies /\ Here(m, r) => Here(m, r)'
          /\ Here([user |-> user, no |-> n].no, q)'
      BY <2>5, <2>6, <1>0, <1>1, <1>6, <1>8, SentIsHere, Zenon
    <2>7. Here(n, q)'
      BY <2>1, Zenon
    <2>2. /\ writes'[p] = n /\ n = writes[p] + 1 /\ writes'[q] = writes[q]
          /\ writes[q] \in Nat
      BY <2>0, <1>0, <1>1, <1>6, Zenon DEF Types
    <2>3. ASSUME NEW m \in 1 .. writes'[p] PROVE Here(m, q)'
      <3>1. m = n \/ m \in 1 .. writes[p]
        BY <2>2, <1>1
      <3>2. m \in 1 .. writes[p] => Here(m, q)
        BY <1>3, Zenon DEF AllHere
      <3> QED
        BY <3>1, <3>2, <2>1, <2>7, <1>0, Zenon
    <2>4. \A m \in 1 .. writes'[q] : Here(m, p)'
      BY <2>1, <2>2, <1>0, <1>3, Zenon DEF AllHere
    <2> QED
      BY <2>3, <2>4, <1>0, Zenon DEF AllHere
  <1>9. CASE opened = {} /\ NobodyOpened
    <2>1. /\ ToConnect(slot[p]) = Flow
          /\ Len(NewConns(slot[p])) = g_MaxPeerConns
          /\ DOMAIN NewConns(slot[p]) = 1 .. g_MaxPeerConns
          /\ NewConns(slot[p]) \in Seq(Nat)
          /\ \A i \in 1 .. g_MaxPeerConns : NewConns(slot[p])[i] = i
          /\ \A k \in Flow : s[k] = k + 1
      BY <1>9, OpensAll, Zenon DEF NobodyOpened
    <2>2. /\ conns = 0 /\ conns' = g_MaxPeerConns /\ g_MaxPeerConns <= MaxConns
          /\ opened' = {p}
      <3>1. /\ conns + Len(NewConns(slot[p])) <= MaxConns
            /\ conns' = conns + Len(NewConns(slot[p]))
            /\ opened' = IF ToConnect(slot[p]) = {} THEN opened ELSE opened \cup {p}
        BY Zenon DEF Write
      <3>2. conns = 0 /\ opened = {}
        BY <1>9, Zenon DEF NobodyOpened
      <3>3. opened' = {p}
        BY <3>1, <3>2, <2>1, <1>0, Zenon
      <3>4. 0 + g_MaxPeerConns <= MaxConns /\ conns' = 0 + g_MaxPeerConns
        BY <3>1, <3>2, <2>1, Zenon
      <3>5. 0 + g_MaxPeerConns = g_MaxPeerConns
        BY <1>0
      <3> QED
        BY <3>2, <3>3, <3>4, <3>5, Zenon
    <2>3. /\ \A d \in 1 .. g_MaxPeerConns : end'[d][p] = "open" /\ end'[d][q] = "none"
          /\ \A d \in Conns, r \in Proxies : CanRead(d, r) => CanRead(d, r)'
      <3>1. end' = [d \in Conns |-> IF d \in 1 .. g_MaxPeerConns
                                    THEN [end[d] EXCEPT ![p] = "open"] ELSE end[d]]
        <4>1. end' = [d \in Conns |-> IF d \in conns + 1 .. conns'
                                    THEN [end[d] EXCEPT ![p] = "open"] ELSE end[d]]
          BY Zenon DEF Write
        <4>2. conns + 1 .. conns' = 1 .. g_MaxPeerConns
          BY <2>2
        <4> QED
          BY <4>1, <4>2, Zenon
      <3>2. \A d \in Conns, r \in Proxies : end[d][r] = "none"
        BY <1>1, <2>2 DEF Lives, Conns
      <3>3. end \in [Conns -> [Proxies -> EndStates]] /\ 1 .. g_MaxPeerConns \subseteq Conns
        <4>1. end \in [Conns -> [Proxies -> EndStates]]
          BY <1>1, Zenon DEF Types
        <4>2. \A d \in 1 .. g_MaxPeerConns : d \in 1 .. MaxConns
          BY <1>0, <1>1, <2>2
        <4> QED
          BY <4>1, <4>2 DEF Conns
      <3>4. \A d \in Conns : end'[d] = IF d \in 1 .. g_MaxPeerConns
                                    THEN [end[d] EXCEPT ![p] = "open"] ELSE end[d]
        BY <3>1, Zenon
      <3>5. \A d \in Conns : end[d] \in [Proxies -> EndStates]
        BY <3>3
      <3>6. \A d \in 1 .. g_MaxPeerConns : end'[d][p] = "open" /\ end'[d][q] = "none"
        <4> SUFFICES ASSUME NEW d \in 1 .. g_MaxPeerConns
                     PROVE  end'[d][p] = "open" /\ end'[d][q] = "none"
          BY Zenon
        <4>1. d \in Conns
          BY <3>3
        <4>2. end'[d] = [end[d] EXCEPT ![p] = "open"] /\ end[d] \in [Proxies -> EndStates]
          BY <4>1, <3>4, <3>5, Zenon
        <4> QED
          BY <4>1, <4>2, <3>2, <1>0, Zenon
      <3>7. \A d \in Conns : d \notin 1 .. g_MaxPeerConns => end'[d] = end[d]
        BY <3>4, Zenon
      <3> QED
        BY <3>6, <3>7, <1>0, Zenon DEF CanRead
    <2>4. c = f + 1 /\ c \in 1 .. g_MaxPeerConns /\ c \in Conns
      BY <2>1, <2>2, <1>0, <1>1, <1>4 DEF Conns
    <2>5. CanReach(c, p)
      <3>1. c > conns
        BY <2>2, <2>4
      <3>2. end[c][p] = "none" /\ end[c][q] = "none" /\ breaks = {}
        BY <3>1, <2>4, <1>0, <1>1, <1>2, Zenon DEF Lives, Quiet
      <3> QED
        BY <3>2, Zenon DEF CanReach
    <2>6. AllHere'
      <3>1. PICK e \in Conns : e = c
        BY <2>4, Zenon
      <3>2. end'[e][q] = "none"
        BY <3>1, <2>3, <2>4, Zenon
      <3> QED
        BY <3>1, <3>2, <2>3, <2>5, <1>8, Zenon DEF CanRead
    <2>7. listen'[p] = <<>> /\ listen'[q] = NewConns(slot[p])
      <3>1. listen' = [listen EXCEPT ![q] = @ \o NewConns(slot[p])] /\ listen[p] = <<>> /\ listen[q] = <<>>
        BY <1>0, <1>9, Zenon DEF Write, NobodyOpened
      <3>2. <<>> \o NewConns(slot[p]) = NewConns(slot[p])
        BY <2>1
      <3> QED
        BY <3>1, <3>2, <1>0, <1>1, Zenon DEF Types
    <2>8. \A k \in Flow : slot'[p][k] = k + 1 /\ slot'[q][k] = NULL
      <3>1. slot' = [slot EXCEPT ![p] = s]
        BY Zenon DEF Write
      <3>2. slot'[p] = s /\ slot'[q] = slot[q]
        BY <3>1, <1>0, <1>1, Zenon DEF Types
      <3> QED
        BY <3>2, <2>1, <1>0, <1>9, Zenon DEF NobodyOpened
    <2>9. Accepted(q)' = 0
      BY <2>1, <2>7, <1>0 DEF Accepted
    <2>10. RowsOf(p, q)'
      <3>1. \A k \in Flow : ~ (k < 0)
        BY <1>0
      <3>2. \A i \in DOMAIN listen'[q] : listen'[q][i] = 0 + i
        BY <2>1, <2>7
      <3> QED
        <4>1. /\ conns' = g_MaxPeerConns /\ listen'[p] = <<>>
              /\ Len(listen'[q]) <= g_MaxPeerConns
          BY <2>1, <2>2, <2>7, <1>0
        <4>2. \A i \in DOMAIN listen'[q] : listen'[q][i] = Accepted(q)' + i
          BY <3>2, <2>9, Zenon
        <4>3. \A k \in Flow : /\ slot'[p][k] = k + 1
                              /\ slot'[q][k] = IF k < Accepted(q)' THEN k + 1 ELSE NULL
          BY <3>1, <2>8, <2>9, Zenon
        <4>4. \A d \in 1 .. g_MaxPeerConns : CanRead(d, p)' /\ CanRead(d, q)'
          BY <2>3, Zenon DEF CanRead
        <4> QED
          BY <4>1, <4>2, <4>3, <4>4, Zenon DEF RowsOf
    <2> QED
      BY <2>2, <2>6, <2>10 DEF OneSided
  <1>10. ASSUME NEW o \in Proxies, opened = {o}, RowsOf(o, Other[o])
         PROVE  (OneSided /\ AllHere)'
    <2>1. ToConnect(slot[p]) = {}
      <3>1. CASE o = p
        BY <3>1, <1>0, <1>10 DEF RowsOf, ToConnect, NULL
      <3>2. CASE o = q
        BY <3>2, <1>0, <1>10, Zenon DEF Write, Quiet
      <3> QED
        BY <3>1, <3>2, <1>0, Zenon
    <2>2. /\ s = slot[p] /\ slot' = slot /\ conns' = conns
          /\ end' = end /\ listen' = listen /\ opened' = opened
      BY <2>1, <1>1, OpensNone, Zenon
    <2>3. c = f + 1 /\ c \in 1 .. g_MaxPeerConns
      <3>1. slot[p][f] = f + 1 \/ slot[p][f] = NULL
        BY <1>0, <1>4, <1>10, Zenon DEF RowsOf
      <3> QED
        BY <3>1, <2>2, <1>0, <1>4, <1>5
    <2>4. c \in Conns
      <3>1. slot[p][f] \in Conns \cup {NULL}
        BY <1>1, <1>4 DEF Types
      <3> QED
        BY <3>1, <2>2, <1>5, Zenon
    <2>5. CanRead(c, p) /\ CanRead(c, q)
      BY <2>3, <1>0, <1>10 DEF RowsOf
    <2>6. CanReach(c, p)
      BY <2>5, <1>2, Zenon DEF CanReach, CanRead, Quiet
    <2>7. AllHere'
      <3>1. PICK e \in Conns : e = c
        BY <2>4, Zenon
      <3>2. CanRead(e, q)' /\ \A d \in Conns, r \in Proxies : CanRead(d, r) => CanRead(d, r)'
        BY <3>1, <2>2, <2>5, Zenon DEF CanRead
      <3> QED
        BY <3>1, <3>2, <2>6, <1>8, Zenon
    <2>8. RowsOf(o, Other[o])'
      BY <2>2, <1>10, Zenon DEF RowsOf, Accepted, CanRead
    <2> QED
      BY <2>2, <2>7, <2>8, <1>10, Zenon DEF OneSided
  <1> QED
    BY <1>3, <1>9, <1>10 DEF OneSided

(* No end is dead or closed.                                               *)
LEMMA AllReadable ==
    ASSUME OrderInv, OneSided, NEW c \in Conns, NEW p \in Proxies
    PROVE  CanRead(c, p)
  <1>1. /\ conns \in Nat /\ c \in Nat /\ c >= 1 /\ g_MaxPeerConns \in Nat
        /\ c > conns => end[c][p] = "none"
    BY PeerConnsAssumption DEF OrderInv, Types, Lives, Conns
  <1>2. CASE NobodyOpened
    <2>1. conns = 0
      BY <1>2, Zenon DEF NobodyOpened
    <2>2. c > conns
      BY <2>1, <1>1
    <2> QED
      BY <2>2, <1>1, Zenon DEF CanRead
  <1>3. ASSUME NEW o \in Proxies, RowsOf(o, Other[o]) PROVE CanRead(c, p)
    <2>1. p = o \/ p = Other[o]
      BY PeerConnsAssumption
    <2>2. CASE c > conns
      BY <2>2, <1>1, Zenon DEF CanRead
    <2>3. CASE ~ (c > conns)
      <3>1. conns = g_MaxPeerConns /\ \A d \in 1 .. g_MaxPeerConns : CanRead(d, o) /\ CanRead(d, Other[o])
        BY <1>3, Zenon DEF RowsOf
      <3>2. c \in 1 .. g_MaxPeerConns
        BY <3>1, <2>3, <1>1
      <3> QED
        BY <3>1, <3>2, <2>1
    <2> QED
      BY <2>2, <2>3, Zenon
  <1> QED
    BY <1>2, <1>3 DEF OneSided

(* The other proxy has an empty slot for each connection that waits, and   *)
(* takes it into the slot it has at the first.                             *)
LEMMA AcceptLoss ==
    ASSUME OrderInv, LossInv, NEW p \in Proxies, SocketAcceptCB(p), Quiet'
    PROVE  (OneSided /\ AllHere)'
  <1> DEFINE c == Head(listen[p])
             free == EmptySlots(slot[p])
             i == CHOOSE f \in free : \A g \in free : f <= g
             a == Accepted(p)
             o == Other[p]
  <1>1. Types /\ Lives
    BY Zenon DEF OrderInv
  <1>2. Quiet
    BY Zenon DEF Quiet, SocketAcceptCB
  <1>3. OneSided /\ AllHere
    BY <1>2, Zenon DEF LossInv
  <1>4. listen[p] \in Seq(Conns) /\ listen[p] # <<>>
    BY <1>1, Zenon DEF Types, SocketAcceptCB
  <1>5. opened = {o} /\ RowsOf(o, p) /\ o \in Proxies /\ o # p /\ Other[o] = p
    <2>1. ~ NobodyOpened
      BY <1>4 DEF NobodyOpened
    <2>2. PICK w \in Proxies : opened = {w} /\ RowsOf(w, Other[w])
      BY <2>1, <1>3, Zenon DEF OneSided
    <2>3. w # p
      BY <2>2, <1>4, Zenon DEF RowsOf
    <2>4. Proxies = {p, o} /\ o \in Proxies /\ o # p /\ Other[o] = p
      BY PeerConnsAssumption
    <2>5. w = o
      BY <2>3, <2>4, Zenon
    <2> QED
      BY <2>2, <2>4, <2>5, Zenon
  <1>6. /\ g_MaxPeerConns \in Nat /\ Flow = 0 .. g_MaxPeerConns - 1
        /\ Len(listen[p]) \in Nat /\ 1 <= Len(listen[p]) /\ Len(listen[p]) <= g_MaxPeerConns
        /\ a = g_MaxPeerConns - Len(listen[p]) /\ a \in Flow
        /\ c = listen[p][1] /\ 1 \in DOMAIN listen[p] /\ c \in Conns
    <2>1. /\ g_MaxPeerConns \in Nat /\ Len(listen[p]) \in Nat /\ Len(listen[p]) <= g_MaxPeerConns
          /\ Len(listen[p]) >= 1 /\ DOMAIN listen[p] = 1 .. Len(listen[p])
      BY PeerConnsAssumption, <1>4, <1>5 DEF RowsOf
    <2>2. c = listen[p][1] /\ c \in Conns
      BY <2>1, <1>4
    <2> QED
      BY <2>1, <2>2 DEF Flow, Accepted
  <1>7. c = a + 1
    BY <1>5, <1>6, Zenon DEF RowsOf
  <1>8. free = {f \in Flow : ~ (f < a)}
    <2>1. \A f \in Flow : slot[p][f] = NULL <=> ~ (f < a)
      BY <1>5, <1>6 DEF RowsOf, NULL
    <2> QED
      BY <2>1, Zenon DEF EmptySlots
  <1>9. a \in free /\ \A g \in free : a <= g
    BY <1>6, <1>8
  <1>10. i = a
    <2> HIDE DEF free, a
    <2>1. i \in free /\ \A g \in free : i <= g
      BY <1>9, Zenon
    <2>2. \A f \in free : f \in Nat
      BY <1>6, <1>8
    <2> QED
      BY <2>1, <2>2, <1>9
  <1>11. /\ listen' = [listen EXCEPT ![p] = Tail(@)]
         /\ end' = [end EXCEPT ![c][p] = "open"] /\ slot' = [slot EXCEPT ![p][a] = c]
         /\ chan' = chan /\ conns' = conns /\ writes' = writes /\ got' = got /\ opened' = opened
    BY <1>9, <1>10, Zenon DEF SocketAcceptCB
  <1> HIDE DEF c, free, i, a
  <1>12. \A d \in Conns, r \in Proxies : CanRead(d, r)'
    <2>1. \A d \in Conns, r \in Proxies : CanRead(d, r)
      BY <1>3, AllReadable, Zenon
    <2>2. end \in [Conns -> [Proxies -> EndStates]]
      BY <1>1, Zenon DEF Types
    <2>3. \A d \in Conns, r \in Proxies : end'[d][r] = end[d][r] \/ end'[d][r] = "open"
      BY <2>2, <1>6, <1>11, Zenon
    <2> QED
      BY <2>1, <2>3, Zenon DEF CanRead
  <1>13. AllHere'
    <2>1. \A m, r : r \in Proxies /\ Here(m, r) => Here(m, r)'
      BY <1>11, <1>12, Zenon DEF Here
    <2> QED
      BY <2>1, <1>3, <1>11, Pairs, Zenon DEF AllHere
  <1>14. /\ listen'[p] = Tail(listen[p]) /\ listen'[o] = <<>>
         /\ Len(listen'[p]) = Len(listen[p]) - 1
         /\ \A k \in DOMAIN listen'[p] : k \in Nat /\ listen'[p][k] = a + 1 + k
    <2>1. listen'[p] = Tail(listen[p]) /\ listen'[o] = <<>>
      BY <1>1, <1>5, <1>11, Zenon DEF Types, RowsOf
    <2>2. Len(Tail(listen[p])) = Len(listen[p]) - 1
      BY <1>4
    <2>3. \A k \in DOMAIN Tail(listen[p]) :
            k \in Nat /\ k + 1 \in DOMAIN listen[p] /\ Tail(listen[p])[k] = listen[p][k + 1]
      BY <1>4
    <2>4. \A k \in DOMAIN listen[p] : listen[p][k] = a + k
      BY <1>5, Zenon DEF RowsOf, a
    <2>5. a \in Nat
      BY <1>6
    <2> QED
      BY <2>1, <2>2, <2>3, <2>4, <2>5
  <1>15. Accepted(p)' = a + 1
    <2>1. Accepted(p)' = g_MaxPeerConns - Len(listen'[p])
      BY Zenon DEF Accepted
    <2>2. Len(listen'[p]) = Len(listen[p]) - 1
      BY <1>14, Zenon
    <2>3. /\ g_MaxPeerConns \in Nat /\ Len(listen[p]) \in Nat
          /\ a = g_MaxPeerConns - Len(listen[p])
      BY <1>6, Zenon
    <2> QED
      BY <2>1, <2>2, <2>3
  <1>16. \A f \in Flow : /\ slot'[o][f] = f + 1
                         /\ slot'[p][f] = IF f < a + 1 THEN f + 1 ELSE NULL
    <2>1. \A f \in Flow : /\ slot[o][f] = f + 1
                          /\ slot[p][f] = IF f < a THEN f + 1 ELSE NULL
      BY <1>5, Zenon DEF RowsOf, a
    <2>2. slot'[o] = slot[o] /\ slot'[p] = [slot[p] EXCEPT ![a] = c]
      BY <1>1, <1>5, <1>11, Zenon DEF Types
    <2>3. slot[p] \in [Flow -> Conns \cup {NULL}]
      BY <1>1, Zenon DEF Types
    <2>4. \A f \in Flow : slot'[p][f] = IF f = a THEN a + 1 ELSE slot[p][f]
      BY <2>2, <2>3, <1>7, Zenon
    <2> QED
      <3> SUFFICES ASSUME NEW f \in Flow
                   PROVE  slot'[p][f] = IF f < a + 1 THEN f + 1 ELSE NULL
        BY <2>1, <2>2, Zenon
      <3>1. f \in Nat /\ a \in Nat
        BY <1>6
      <3>2. CASE f = a
        BY <3>1, <3>2, <2>4
      <3>3. CASE f # a
        <4>1. f < a <=> f < a + 1
          BY <3>1, <3>3
        <4> QED
          BY <4>1, <3>3, <2>1, <2>4, Zenon
      <3> QED
        BY <3>2, <3>3, Zenon
  <1>17. 1 .. g_MaxPeerConns \subseteq Conns
    <2>1. g_MaxPeerConns <= MaxConns /\ MaxConns \in Nat
      BY <1>1, <1>5, <1>6, PeerConnsAssumption DEF RowsOf, Types
    <2> QED
      BY <2>1, <1>6 DEF Conns
  <1>18. conns' = g_MaxPeerConns
    BY <1>5, <1>11, Zenon DEF RowsOf
  <1>19. Len(listen'[p]) <= g_MaxPeerConns
    BY <1>6, <1>14
  <1>20. RowsOf(o, p)'
    BY <1>5, <1>12, <1>14, <1>15, <1>16, <1>17, <1>18, <1>19, Zenon DEF RowsOf
  <1> QED
    BY <1>5, <1>11, <1>13, <1>20, Zenon DEF OneSided

(* A message that is read moves from its connection to what has been read. *)
LEMMA ReadLoss ==
    ASSUME OrderInv, LossInv, NEW p \in Proxies, NEW c \in Conns, Read(p, c), Quiet'
    PROVE  (OneSided /\ AllHere)'
  <1>1. Types
    BY Zenon DEF OrderInv
  <1>2. Quiet
    BY Zenon DEF Quiet, Read
  <1>3. OneSided /\ AllHere
    BY <1>2 DEF LossInv
  <1>4. chan[c][p] \in Seq(Message) /\ chan[c][p] # <<>> /\ got[p] \in Seq(Message)
    BY <1>1 DEF Types, Read
  <1>5. /\ got'[p] = Append(got[p], Head(chan[c][p])) /\ chan'[c][p] = Tail(chan[c][p])
        /\ \A r \in Proxies : r # p => got'[r] = got[r]
        /\ \A d \in Conns, r \in Proxies : d # c \/ r # p => chan'[d][r] = chan[d][r]
        /\ end' = end /\ slot' = slot /\ listen' = listen /\ conns' = conns
        /\ writes' = writes /\ opened' = opened
    <2>1. /\ got' = [got EXCEPT ![p] = Append(@, Head(chan[c][p]))]
          /\ chan' = [chan EXCEPT ![c][p] = Tail(@)]
          /\ end' = end /\ slot' = slot /\ listen' = listen /\ conns' = conns
          /\ writes' = writes /\ opened' = opened
      BY Zenon DEF Read, row
    <2>2. got \in [Proxies -> Seq(Message)] /\ chan \in [Conns -> [Proxies -> Seq(Message)]]
      BY <1>1, Zenon DEF Types
    <2> QED
      BY <2>1, <2>2, Zenon
  <1>6. \A m : (\E k \in DOMAIN got[p] : got[p][k].no = m)
                 => \E k \in DOMAIN got'[p] : got'[p][k].no = m
    BY <1>4, <1>5
  <1>7. \A m : (\E k \in DOMAIN chan[c][p] : chan[c][p][k].no = m)
                 => \/ \E k \in DOMAIN got'[p] : got'[p][k].no = m
                    \/ \E k \in DOMAIN chan'[c][p] : chan'[c][p][k].no = m
    <2> SUFFICES ASSUME NEW m, NEW k \in DOMAIN chan[c][p], chan[c][p][k].no = m
                 PROVE  \/ \E j \in DOMAIN got'[p] : got'[p][j].no = m
                        \/ \E j \in DOMAIN chan'[c][p] : chan'[c][p][j].no = m
      BY Zenon
    <2>1. CASE k = 1
      <3>1. Len(got[p]) + 1 \in DOMAIN got'[p] /\ got'[p][Len(got[p]) + 1] = chan[c][p][1]
        <4>1. Head(chan[c][p]) = chan[c][p][1]
          BY <1>4
        <4> QED
          BY <4>1, <1>4, <1>5, SMTT(30)
      <3> QED
        BY <2>1, <3>1, Zenon
    <2>2. CASE k # 1
      <3>1. k \in Nat /\ k - 1 \in DOMAIN chan'[c][p] /\ chan'[c][p][k - 1] = chan[c][p][k]
        BY <2>2, <1>4, <1>5, SMTT(30)
      <3> QED
        BY <3>1, Zenon
    <2> QED
      BY <2>1, <2>2, Zenon
  <1>8. ASSUME NEW m, NEW r \in Proxies, Here(m, r) PROVE Here(m, r)'
    <2>1. CASE r # p
      <3>1. \A d \in Conns : chan'[d][r] = chan[d][r] /\ end'[d][r] = end[d][r]
        BY <2>1, <1>5, Zenon
      <3>2. got'[r] = got[r]
        BY <2>1, <1>5, Zenon
      <3> QED
        BY <3>1, <3>2, <1>8, Zenon DEF Here, CanRead
    <2>2. CASE r = p
      <3>1. CASE \E k \in DOMAIN got[p] : got[p][k].no = m
        BY <3>1, <2>2, <1>6, Zenon DEF Here
      <3>2. ASSUME NEW d \in Conns, CanRead(d, p), \E k \in DOMAIN chan[d][p] : chan[d][p][k].no = m
            PROVE  Here(m, p)'
        <4>1. CanRead(d, p)'
          BY <3>2, <1>5, Zenon DEF CanRead
        <4>2. CASE d # c
          BY <4>1, <4>2, <3>2, <1>5 DEF Here
        <4>3. CASE d = c
          BY <4>1, <4>3, <3>2, <1>7, Zenon DEF Here
        <4> QED
          BY <4>2, <4>3
      <3> QED
        BY <2>2, <3>1, <3>2, <1>8, Zenon DEF Here
    <2> QED
      BY <2>1, <2>2
  <1>9. AllHere'
    BY <1>3, <1>5, <1>8, Pairs DEF AllHere
  <1>10. OneSided'
    BY <1>3, <1>5 DEF OneSided, NobodyOpened, RowsOf, Accepted, CanRead
  <1> QED
    BY <1>9, <1>10, Zenon

LEMMA NextLoss == OrderInv /\ LossInv /\ [Next]_vars => LossInv'
  <1> SUFFICES ASSUME OrderInv, LossInv, [Next]_vars, Quiet' PROVE (OneSided /\ AllHere)'
    BY DEF LossInv
  <1>1. ASSUME NEW p \in Proxies, NEW user \in Flow, Write(p, user) PROVE (OneSided /\ AllHere)'
    BY <1>1, WriteLoss, Zenon
  <1>2. ASSUME NEW p \in Proxies, SocketAcceptCB(p) PROVE (OneSided /\ AllHere)'
    BY <1>2, AcceptLoss, Zenon
  <1>3. ASSUME NEW p \in Proxies, NEW c \in Conns, Read(p, c) PROVE (OneSided /\ AllHere)'
    BY <1>3, ReadLoss, Zenon
  <1>4. ASSUME NEW p \in Proxies, NEW c \in Conns, ReadEnds(p, c) PROVE FALSE
    <2>1. OneSided /\ breaks = {} /\ end[c][Other[p]] = "closed"
      BY <1>4, Zenon DEF LossInv, Quiet, ReadEnds
    <2> QED
      BY <2>1, AllReadable, Pairs, Zenon DEF CanRead
  <1>5. ASSUME NEW p \in Proxies, NEW c \in Conns, DestroyConnectionInfo(p, c) PROVE FALSE
    <2>1. OneSided /\ end[c][p] = "dead"
      BY <1>5 DEF LossInv, Quiet, DestroyConnectionInfo
    <2> QED
      BY <2>1, AllReadable DEF CanRead
  <1>6. ASSUME NEW c \in Conns, Break(c) PROVE FALSE
    BY <1>6 DEF Break, Quiet
  <1>7. CASE UNCHANGED vars
    <2>1. /\ slot' = slot /\ conns' = conns /\ end' = end /\ listen' = listen
          /\ chan' = chan /\ writes' = writes /\ got' = got /\ opened' = opened
          /\ breaks' = breaks /\ failed' = failed
      BY <1>7, Zenon DEF vars, row
    <2>2. OneSided /\ AllHere
      BY <2>1, Zenon DEF LossInv, Quiet
    <2>3. OneSided'
      BY <2>1, <2>2, Zenon DEF OneSided, NobodyOpened, RowsOf, Accepted, CanRead
    <2>4. \A m, q : Here(m, q)' <=> Here(m, q)
      BY <2>1, Zenon DEF Here, CanRead
    <2>5. AllHere'
      BY <2>1, <2>2, <2>4, Zenon DEF AllHere
    <2> QED
      BY <2>3, <2>5, Zenon
  <1> QED
    BY <1>1, <1>2, <1>3, <1>4, <1>5, <1>6, <1>7, Zenon DEF Next

(* A message that was written and can no longer be read was on a           *)
(* connection that broke, was refused by SocketAcceptCB because both       *)
(* proxies had opened a row, or found no connection in its slot.           *)
THEOREM LossExplained == Spec => []LostOnlyIf
  <1>1. LossInv => LostOnlyIf
    <2> SUFFICES ASSUME LossInv, Quiet, NEW p \in Proxies PROVE Lost(p) = {}
      BY Zenon DEF LostOnlyIf, Quiet
    <2>1. ASSUME NEW m \in 1 .. writes[p] PROVE m \in Arrived(Other[p])
      <3>1. Here(m, Other[p])
        BY Zenon DEF LossInv, AllHere
      <3>2. CASE \E k \in DOMAIN got[Other[p]] : got[Other[p]][k].no = m
        BY <3>2, Zenon DEF Arrived, Range
      <3>3. ASSUME NEW c \in Conns, CanRead(c, Other[p]),
                   NEW k \in DOMAIN chan[c][Other[p]], chan[c][Other[p]][k].no = m
            PROVE  m \in Arrived(Other[p])
        <4>1. chan[c][Other[p]][k] \in Range(chan[c][Other[p]])
          BY Zenon DEF Range
        <4>2. chan[c][Other[p]][k] \in OnTheWay(Other[p])
          BY <4>1, <3>3, Zenon DEF OnTheWay, CanRead
        <4> QED
          BY <4>2, <3>3, Zenon DEF Arrived
      <3> QED
        BY <3>1, <3>2, <3>3, Zenon DEF Here
    <2> QED
      BY <2>1, Zenon DEF Lost
  <1> QED
    BY <1>1, InitOrder, NextOrder, InitLoss, NextLoss, PTL DEF Spec

-----------------------------------------------------------------------------
(* A proxy that has closed nothing has no more empty slots than there are  *)
(* connections for it to accept, once there are connections.               *)
Closed(p) == \E c \in Conns : end[c][p] = "closed"
Room(p) == conns = 0 \/ Cardinality(EmptySlots(slot[p])) <= Len(listen[p])
RoomInv == /\ \A p \in Proxies : Closed(p) \/ Room(p)
           /\ failed \in SUBSET Proxies /\ EmptySlotOnlyIf

LEMMA EmptySlotsFinite ==
    ASSUME NEW s
    PROVE  /\ IsFiniteSet(EmptySlots(s)) /\ Cardinality(EmptySlots(s)) \in Nat
           /\ Cardinality(EmptySlots(s)) <= g_MaxPeerConns
           /\ Cardinality(EmptySlots(s)) = 0 <=> EmptySlots(s) = {}
  <1>1. IsFiniteSet(Flow) /\ Cardinality(Flow) = g_MaxPeerConns
    <2>1. g_MaxPeerConns \in Nat \ {0} /\ Flow = 0 .. g_MaxPeerConns - 1
      BY PeerConnsAssumption DEF Flow
    <2> QED
      BY <2>1, FS_Interval
  <1>2. EmptySlots(s) \in SUBSET Flow
    BY Zenon DEF EmptySlots
  <1>3. IsFiniteSet(EmptySlots(s)) /\ Cardinality(EmptySlots(s)) <= Cardinality(Flow)
    BY <1>1, <1>2, FS_Subset
  <1> QED
    BY <1>1, <1>3, FS_CardinalityType, FS_EmptySet, Zenon

(* A write that finds its first slot empty fills the row.                  *)
LEMMA FillsRow ==
    ASSUME NEW s, s[0] = NULL, conns \in Nat
    PROVE  EmptySlots(Connected(s)) = {}
  <1> SUFFICES ASSUME NEW f \in Flow PROVE Connected(s)[f] # NULL
    BY Zenon DEF EmptySlots
  <1>1. CASE s[f] = NULL
    <2>1. f \in ToConnect(s)
      BY <1>1 DEF ToConnect
    <2>2. NewConn(s, f) \in Nat /\ NewConn(s, f) > conns
      BY <2>1, Opens, Zenon
    <2>3. Connected(s)[f] = NewConn(s, f)
      BY <2>1, Zenon DEF Connected
    <2> QED
      BY <2>2, <2>3 DEF NULL
  <1>2. CASE s[f] # NULL
    BY <1>2, Zenon DEF Connected, ToConnect
  <1> QED
    BY <1>1, <1>2, Zenon

LEMMA WriteRoom ==
    ASSUME OrderInv, RoomInv, NEW p \in Proxies, NEW user \in Flow, Write(p, user)
    PROVE  RoomInv'
  <1> DEFINE s == Connected(slot[p])
             q == Other[p]
             n == NewConns(slot[p])
  <1>0. q \in Proxies /\ q # p /\ Proxies = {p, q}
    BY PeerConnsAssumption
  <1>1. Types /\ Used /\ Lives /\ conns \in Nat
    BY DEF OrderInv, Types
  <1>2. WriteStep(p, user)
    BY <1>1, WriteSteps, Zenon
  <1>3. /\ slot'[p] = s /\ slot'[q] = slot[q]
        /\ listen'[p] = listen[p] /\ listen'[q] = listen[q] \o n
        /\ listen[p] \in Seq(Conns) /\ listen[q] \in Seq(Conns)
        /\ conns' = conns + Len(n)
    BY <1>0, <1>1, <1>2, Zenon DEF WriteStep, Types
  <1>4. n \in Seq(Nat) /\ Len(n) \in Nat
    BY <1>1, Opens
  <1>5. Len(listen'[q]) = Len(listen[q]) + Len(n) /\ Len(listen[q]) \in Nat
    <2>1. listen[q] \in Seq(Nat)
      BY <1>3, PeerConnsAssumption DEF Conns
    <2> QED
      BY <2>1, <1>3, <1>4, ConcatLen, Zenon
  <1>12. Len(listen'[q]) \in Nat /\ Len(listen'[q]) >= Len(listen[q])
    <2>1. Len(n) \in Nat
      BY <1>4
    <2> HIDE DEF n
    <2> QED
      BY <2>1, <1>5
  <1>6. \A c \in Conns, r \in Proxies : end[c][r] = "closed" => end'[c][r] = "closed"
    <2>1. end' = [d \in Conns |-> IF d \in Opened(p)
                               THEN [end[d] EXCEPT ![p] = "open"] ELSE end[d]]
      BY <1>2, Zenon DEF WriteStep
    <2>2. \A d \in Conns, r \in Proxies : d \in Opened(p) => end[d][r] = "none"
      BY <1>1 DEF Lives, Opened
    <2> QED
      BY <2>1, <2>2
  <1>7. slot[p][0] \in Conns \cup {NULL} /\ slot[p][0] <= conns
    <2>1. 0 \in Flow
      BY PeerConnsAssumption DEF Flow
    <2> QED
      BY <2>1, <1>1 DEF Types, Used
  <1>8. Closed(p)' \/ Room(p)'
    <2>1. CASE slot[p][0] = NULL
      <3>1. EmptySlots(slot'[p]) = {}
        BY <2>1, <1>1, <1>3, FillsRow, Zenon
      <3>2. Cardinality(EmptySlots(slot'[p])) = 0
        BY <3>1, FS_EmptySet, Zenon
      <3> QED
        <4>1. Len(listen'[p]) \in Nat
          BY <1>3
        <4>2. Cardinality(EmptySlots(slot'[p])) <= Len(listen'[p])
          BY <3>2, <4>1
        <4> QED
          BY <4>2, Zenon DEF Room
    <2>2. CASE slot[p][0] # NULL
      <3>1. ToConnect(slot[p]) = {}
        BY <2>2 DEF ToConnect
      <3>2. slot' = slot /\ conns' = conns /\ listen' = listen /\ end' = end
        BY <3>1, <1>1, OpensNone, Zenon
      <3> QED
        BY <3>2, Zenon DEF RoomInv, Room, Closed
    <2> QED
      BY <2>1, <2>2, Zenon
  <1>9. Closed(q)' \/ Room(q)'
    <2>1. CASE conns = 0
      <3>1. \A f \in Flow : slot[p][f] = NULL
        <4>1. \A f \in Flow : slot[p][f] \in Conns \cup {NULL} /\ slot[p][f] <= conns
          BY <1>1 DEF Types, Used
        <4> QED
          <5>1. \A x \in Conns \cup {NULL} : x <= 0 => x = NULL
            BY PeerConnsAssumption DEF Conns, NULL
          <5> QED
            BY <4>1, <5>1, <2>1, Zenon
      <3>2. Len(n) = g_MaxPeerConns
        BY <3>1, <2>1, OpensAll, ZenonT(60)
      <3>3. Cardinality(EmptySlots(slot'[q])) \in Nat
            /\ Cardinality(EmptySlots(slot'[q])) <= g_MaxPeerConns
        BY EmptySlotsFinite, Zenon
      <3> QED
        BY <3>2, <3>3, <1>4, <1>5 DEF Room
    <2>2. CASE Closed(q)
      BY <2>2, <1>0, <1>6, Zenon DEF Closed
    <2>3. CASE Cardinality(EmptySlots(slot[q])) <= Len(listen[q])
      <3>1. Cardinality(EmptySlots(slot[q])) \in Nat
        BY EmptySlotsFinite, Zenon
      <3>2. Cardinality(EmptySlots(slot'[q])) <= Len(listen'[q])
        <4>1. Len(listen[q]) \in Nat
          BY <1>5
        <4>2. slot'[q] = slot[q]
          BY <1>3, Zenon
        <4> QED
          BY <4>1, <4>2, <3>1, <2>3, <1>12
      <3> QED
        BY <3>2, Zenon DEF Room
    <2> QED
      BY <2>1, <2>2, <2>3, <1>0, Zenon DEF RoomInv, Room
  <1>10. failed' \in SUBSET Proxies
    BY Zenon DEF Write, RoomInv
  <1>11. EmptySlotOnlyIf'
    <2> SUFFICES ASSUME NEW r \in failed'
                 PROVE  slot'[r][0] # NULL /\ (listen'[r] # <<>> \/ Closed(r)')
      BY Zenon DEF EmptySlotOnlyIf, Closed
    <2>1. CASE r \in failed
      <3>1. r = q
        BY <2>1, <1>0, Zenon DEF Write, RoomInv
      <3>2. slot[q][0] # NULL /\ (listen[q] # <<>> \/ Closed(q))
        BY <3>1, <2>1, Zenon DEF RoomInv, EmptySlotOnlyIf, Closed
      <3>3. listen[q] # <<>> => listen'[q] # <<>>
        <4>1. listen[q] # <<>> => Len(listen[q]) > 0
          BY <1>3, SomeElement, Zenon
        <4>2. listen[q] # <<>> => Len(listen'[q]) > 0
          <5>1. Len(listen[q]) \in Nat
            BY <1>5, Zenon
          <5> QED
            BY <5>1, <4>1, <1>12
        <4> QED
          BY <4>2, SMTT(30)
      <3>4. Closed(q) => Closed(q)'
        BY <1>0, <1>6, Zenon DEF Closed
      <3> QED
        BY <3>1, <3>2, <3>3, <3>4, <1>3, Zenon
    <2>2. CASE r \notin failed
      <3> DEFINE f == FlowOf(p, s, user)
      <3>1. r = p /\ s[f] = NULL
        BY <2>2, Zenon DEF Write
      <3>2. f \in Flow
        <4>1. s[0] # NULL
          BY FirstConnected, <1>1, Zenon
        <4> QED
          BY <4>1, <1>1, FlowFound, Zenon DEF FlowOf, Types
      <3> HIDE DEF f
      <3>3. slot[p][0] # NULL
        <4>1. f \in EmptySlots(s)
          BY <3>1, <3>2, Zenon DEF EmptySlots
        <4> QED
          BY <4>1, <1>1, FillsRow, Zenon
      <3>4. ToConnect(slot[p]) = {}
        BY <3>3, Zenon DEF ToConnect
      <3>5. s = slot[p] /\ slot' = slot /\ conns' = conns /\ listen' = listen /\ end' = end
        BY <3>4, <1>1, OpensNone, Zenon
      <3>6. f \in EmptySlots(slot[p]) /\ conns # 0
        BY <3>1, <3>2, <3>3, <3>5, <1>7, PeerConnsAssumption DEF EmptySlots, Conns, NULL
      <3>7. Cardinality(EmptySlots(slot[p])) \in Nat /\ Cardinality(EmptySlots(slot[p])) # 0
        BY <3>6, EmptySlotsFinite
      <3>8. Closed(p) \/ Cardinality(EmptySlots(slot[p])) <= Len(listen[p])
        BY <3>6, Zenon DEF RoomInv, Room
      <3>9. Closed(p) \/ listen[p] # <<>>
        <4>1. listen[p] = <<>> => Len(listen[p]) = 0
          OBVIOUS
        <4> QED
          BY <4>1, <3>7, <3>8
      <3> QED
        BY <3>1, <3>3, <3>5, <3>9, Zenon DEF Closed
    <2> QED
      BY <2>1, <2>2, Zenon
  <1> QED
    BY <1>0, <1>8, <1>9, <1>10, <1>11 DEF RoomInv

(* A connection that is accepted takes an empty slot, or is closed.        *)
LEMMA AcceptRoom ==
    ASSUME OrderInv, RoomInv, NEW p \in Proxies, SocketAcceptCB(p)
    PROVE  RoomInv'
  <1> DEFINE c == Head(listen[p])
             free == EmptySlots(slot[p])
             i == CHOOSE f \in free : \A g \in free : f <= g
  <1>1. Types /\ Waiting
    BY Zenon DEF OrderInv
  <1>2. listen[p] \in Seq(Conns) /\ listen[p] # <<>> /\ p \notin failed
    BY <1>1, Zenon DEF Types, SocketAcceptCB
  <1>3. c \in Conns /\ c = listen[p][1] /\ 1 \in DOMAIN listen[p]
    BY <1>2
  <1>4. end[c][p] = "none" /\ conns # 0
    BY <1>1, <1>3, PeerConnsAssumption DEF Waiting, Types, Conns
  <1>5. free # {} => i \in free
    <2>1. free \in SUBSET Nat
      BY PeerConnsAssumption DEF EmptySlots, Flow
    <2> HIDE DEF free
    <2>2. ASSUME free # {} PROVE \E f \in free : \A g \in free : f <= g
      BY <2>1, <2>2, Least, Zenon
    <2> QED
      BY <2>2, Zenon
  <1>6. \/ /\ free = {} /\ end' = [end EXCEPT ![c][p] = "closed"] /\ slot' = slot
        \/ /\ i \in free /\ end' = [end EXCEPT ![c][p] = "open"]
           /\ slot' = [slot EXCEPT ![p][i] = c]
    BY <1>5, Zenon DEF SocketAcceptCB, Refused
  <1>7. /\ listen' = [listen EXCEPT ![p] = Tail(@)] /\ conns' = conns /\ failed' = failed
    BY Zenon DEF SocketAcceptCB
  <1> HIDE DEF c, i
  <1>8. /\ end \in [Conns -> [Proxies -> EndStates]] /\ listen \in [Proxies -> Seq(Conns)]
        /\ slot \in [Proxies -> [Flow -> Conns \cup {NULL}]]
    BY <1>1 DEF Types
  <1>9. \A r \in Proxies : r # p => slot'[r] = slot[r] /\ listen'[r] = listen[r]
    <2>1. CASE slot' = slot
      BY <2>1, <1>7, <1>8
    <2>2. CASE slot' = [slot EXCEPT ![p][i] = c]
      BY <2>2, <1>7, <1>8
    <2> QED
      BY <2>1, <2>2, <1>6, Zenon
  <1>10. \A d \in Conns, r \in Proxies : end[d][r] = "closed" => end'[d][r] = "closed"
    <2>1. CASE end' = [end EXCEPT ![c][p] = "closed"]
      BY <2>1, <1>4, <1>8
    <2>2. CASE end' = [end EXCEPT ![c][p] = "open"]
      BY <2>2, <1>4, <1>8
    <2> QED
      BY <2>1, <2>2, <1>6, Zenon
  <1>11. \A r \in Proxies : Closed(r) => Closed(r)'
    BY <1>10, Zenon DEF Closed
  <1>12. Closed(p)' \/ Room(p)'
    <2>1. CASE end' = [end EXCEPT ![c][p] = "closed"]
      <3>1. end'[c][p] = "closed"
        BY <2>1, <1>3, <1>8, Zenon
      <3>2. \E d \in Conns : end'[d][p] = "closed"
        BY <3>1, <1>3, Zenon
      <3> QED
        BY <3>2, Zenon DEF Closed
    <2>2. CASE i \in free /\ slot' = [slot EXCEPT ![p][i] = c]
      <3>1. EmptySlots(slot'[p]) = free \ {i}
        <4>1. i \in Flow /\ slot[p] \in [Flow -> Conns \cup {NULL}]
          BY <2>2, <1>8, Zenon DEF EmptySlots
        <4>2. slot'[p] = [slot[p] EXCEPT ![i] = c]
          BY <2>2, <1>8, Zenon
        <4>3. c # NULL
          BY <1>3, PeerConnsAssumption DEF Conns, NULL
        <4>4. \A f \in Flow : slot'[p][f] = IF f = i THEN c ELSE slot[p][f]
          BY <4>1, <4>2, Zenon
        <4> QED
          BY <4>3, <4>4, Zenon DEF EmptySlots
      <3>2. IsFiniteSet(free) /\ Cardinality(free) \in Nat
        BY EmptySlotsFinite
      <3>3. Cardinality(free \ {i}) = Cardinality(free) - 1
        <4> HIDE DEF free
        <4> QED
          BY <2>2, <3>2, FS_RemoveElement, Zenon
      <3>4. Len(listen'[p]) = Len(listen[p]) - 1 /\ Len(listen[p]) \in Nat
        BY <1>2, <1>7, <1>8
      <3>5. Closed(p) \/ Cardinality(free) <= Len(listen[p])
        BY <1>4 DEF RoomInv, Room
      <3>6. Closed(p) \/ Cardinality(EmptySlots(slot'[p])) <= Len(listen'[p])
        BY <3>1, <3>2, <3>3, <3>4, <3>5
      <3> QED
        BY <3>6, <1>11 DEF Room
    <2> QED
      BY <2>1, <2>2, <1>6, Zenon
  <1>13. \A r \in Proxies : r # p => Closed(r)' \/ Room(r)'
    BY <1>7, <1>9, <1>11, Zenon DEF RoomInv, Room
  <1>14. EmptySlotOnlyIf'
    BY <1>2, <1>7, <1>9, <1>10 DEF RoomInv, EmptySlotOnlyIf
  <1> QED
    BY <1>7, <1>12, <1>13, <1>14, Zenon DEF RoomInv

LEMMA NextRoom == OrderInv /\ RoomInv /\ [Next]_vars => RoomInv'
  <1> SUFFICES ASSUME OrderInv, RoomInv, [Next]_vars PROVE RoomInv'
    BY Zenon
  <1>0. /\ end \in [Conns -> [Proxies -> EndStates]]
        /\ slot \in [Proxies -> [Flow -> Conns \cup {NULL}]]
    BY Zenon DEF OrderInv, Types
  <1>1. ASSUME NEW p \in Proxies, NEW user \in Flow, Write(p, user) PROVE RoomInv'
    BY <1>1, WriteRoom, Zenon
  <1>2. ASSUME NEW p \in Proxies, SocketAcceptCB(p) PROVE RoomInv'
    BY <1>2, AcceptRoom, Zenon
  <1>3. ASSUME NEW p \in Proxies, NEW c \in Conns, Read(p, c) PROVE RoomInv'
    BY <1>3, Zenon DEF Read, row, RoomInv, Closed, Room, EmptySlotOnlyIf
  <1>4. ASSUME NEW p \in Proxies, NEW c \in Conns, ReadEnds(p, c) PROVE RoomInv'
    <2>1. \A d \in Conns, r \in Proxies : end[d][r] = "closed" => end'[d][r] = "closed"
      BY <1>0, <1>4, Zenon DEF ReadEnds
    <2>2. \A r \in Proxies : Closed(r) => Closed(r)'
      BY <2>1, Zenon DEF Closed
    <2>3. slot' = slot /\ listen' = listen /\ conns' = conns /\ failed' = failed
      BY <1>4, Zenon DEF ReadEnds
    <2>4. EmptySlotOnlyIf'
      BY <2>1, <2>3, Zenon DEF RoomInv, EmptySlotOnlyIf
    <2> QED
      BY <2>2, <2>3, <2>4, Zenon DEF RoomInv, Room
  <1>5. ASSUME NEW p \in Proxies, NEW c \in Conns, DestroyConnectionInfo(p, c) PROVE RoomInv'
    <2>1. /\ end' = [end EXCEPT ![c][p] = "closed"] /\ p \notin failed
          /\ slot' = [slot EXCEPT ![p] = ClearSlot(@, c)]
          /\ listen' = listen /\ conns' = conns /\ failed' = failed
      BY <1>5, Zenon DEF DestroyConnectionInfo
    <2>2. /\ end'[c][p] = "closed"
          /\ \A d \in Conns, r \in Proxies : end[d][r] = "closed" => end'[d][r] = "closed"
          /\ \A r \in Proxies : r # p => slot'[r] = slot[r]
      BY <2>1, <1>0, Zenon
    <2>3. Closed(p)' /\ \A r \in Proxies : Closed(r) => Closed(r)'
      BY <2>2, Zenon DEF Closed
    <2>4. EmptySlotOnlyIf'
      BY <2>1, <2>2 DEF RoomInv, EmptySlotOnlyIf
    <2>5. \A r \in Proxies : Closed(r)' \/ Room(r)'
      BY <2>1, <2>2, <2>3, Zenon DEF RoomInv, Room
    <2> QED
      BY <2>1, <2>4, <2>5, Zenon DEF RoomInv
  <1>6. ASSUME NEW c \in Conns, Break(c) PROVE RoomInv'
    BY <1>6, Zenon DEF Break, row, RoomInv, Closed, Room, EmptySlotOnlyIf
  <1>7. CASE UNCHANGED vars
    BY <1>7, Zenon DEF vars, row, RoomInv, Closed, Room, EmptySlotOnlyIf
  <1> QED
    BY <1>1, <1>2, <1>3, <1>4, <1>5, <1>6, <1>7, Zenon DEF Next

(* A name message that finds the slot of its user empty comes from a proxy *)
(* that has connections still to accept, or has closed one: a row is       *)
(* opened as a whole, and SocketAcceptCB fills it one by one.              *)
THEOREM EmptySlotExplained == Spec => []EmptySlotOnlyIf
  <1>1. Init => RoomInv
    BY Zenon DEF Init, RoomInv, Room, EmptySlotOnlyIf
  <1>2. RoomInv => EmptySlotOnlyIf
    BY Zenon DEF RoomInv
  <1> QED
    BY <1>1, <1>2, InitOrder, NextOrder, NextRoom, PTL DEF Spec

=============================================================================

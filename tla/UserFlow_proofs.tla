-------------------------- MODULE UserFlow_proofs --------------------------
(* The stream of a user connection is in order, and the buffer for its     *)
(* user never overflows, for every window, buffer and chunk size.          *)
(*                                                                         *)
(* The invariant FlowInv chains four queues with Leads: what is queued for *)
(* the user, what waits for its chunks, what is on the control connection  *)
(* and what is still queued for it. The functions that work on one         *)
(* connection keep their end of the chain (UserFlowWorks_proofs); the      *)
(* steps that move a piece from one queue to the next keep the chain as a  *)
(* whole. Nothing in it would hold if data could come before the open that *)
(* it belongs to, so FlowInv also says where the open is.                  *)
(*                                                                         *)
(* The second half shows that each step keeps Bound.                       *)
EXTENDS UserFlowWorks_proofs

(* The invariant, of connections C and messages N on the control           *)
(* connections.                                                            *)
Typed(C, N) ==
    /\ C \in [Sides -> Connections] /\ N \in [Sides -> Seq(Messages)]
    /\ \A x \in Sides : C[x] \in Conn(x) /\ N[x] \in Seq(Sent(x))
    /\ C["S"].reasm = <<>>

Shut(c) == c.dead \/ c.status = "gone"

(* The open of R is still queued, on its way, or gone; S knows of the      *)
(* connection only in the last case, and fails to only if R gave it up.    *)
OpenQueued(C, N) ==
    /\ C["S"].status = "none" /\ N["R"] = <<>> /\ C["R"].ctl # <<>>
    /\ Head(C["R"].ctl).type = "open" /\ Tail(C["R"].ctl) \in Seq(Quiet("R"))
OpenOnTheWay(C, N) ==
    /\ C["S"].status = "none" /\ N["R"] # <<>> /\ C["R"].ctl \in Seq(Quiet("R"))
    /\ Head(N["R"]).type = "open" /\ Tail(N["R"]) \in Seq(Quiet("R"))
OpenArrived(C, N) ==
    /\ N["R"] \in Seq(Quiet("R")) /\ C["R"].ctl \in Seq(Quiet("R"))
    /\ C["S"].status = "none" => Shut(C["R"])
Fresh(C, N) ==
    C = [x \in Sides |-> NoConnection] /\ N = [x \in Sides |-> <<>>]
Opening(C, N) ==
    IF C["R"].status = "none" THEN Fresh(C, N)
    ELSE OpenQueued(C, N) \/ OpenOnTheWay(C, N) \/ OpenArrived(C, N)

(* The pieces that x sent, from its peer's user back to x.                 *)
Transit(C, N, x) ==
    \E a, b, c \in Int :
        /\ Leads(C[Peer(x)].wq, C[Peer(x)].bytesRX, a)
        /\ Leads(C[Peer(x)].reasm, a, b)
        /\ Leads(N[x], b, c)
        /\ Leads(C[x].ctl, c, C[x].bytesTX)

Flows(C, N) ==
    \A x \in Sides : ~Shut(C[x]) /\ C[Peer(x)].status # "gone" => Transit(C, N, x)

FlowInv(C, N) == Typed(C, N) /\ Opening(C, N) /\ Flows(C, N)

LEMMA WorksKeepsFlow ==
    ASSUME NEW C, NEW N, FlowInv(C, N), NEW x \in Sides, Found(C[x]),
           NEW d, Works(x, C[x], d)
    PROVE  FlowInv([C EXCEPT ![x] = d], N) /\ C["R"].status # "none"
  <1> DEFINE D == [C EXCEPT ![x] = d]
  <1>1. C \in [Sides -> Connections] /\ d \in Connections /\ d \in Conn(x)
    BY DEF FlowInv, Typed, Works, Conn
  <1>2. D[x] = d /\ \A z \in Sides : z # x => D[z] = C[z]
    BY <1>1
  <1>3. D \in [Sides -> Connections]
    BY <1>1
  <1> HIDE DEF D
  <1>4. "R" \in Sides /\ "S" \in Sides
    BY DEF Sides
  <1>5. Typed(D, N)
    <2>1. D["S"].reasm = <<>>
      BY <1>2, <1>4, Zenon DEF FlowInv, Typed, Works
    <2>2. \A z \in Sides : D[z] \in Conn(z) /\ N[z] \in Seq(Sent(z))
      BY <1>1, <1>2, SMTT(30) DEF FlowInv, Typed
    <2> QED
      BY <1>3, <2>1, <2>2 DEF FlowInv, Typed
  <1>6. C["R"].status # "none"
    <2>1. SUFFICES ASSUME C["R"].status = "none" PROVE FALSE
      OBVIOUS
    <2>2. C = [z \in Sides |-> NoConnection]
      BY <2>1 DEF FlowInv, Opening, Fresh
    <2>3. C[x].status = "none"
      BY <2>2 DEF NoConnection
    <2> QED
      BY <2>3 DEF Found
  <1>7. PICK p \in Seq(Quiet(x)) :
            \/ d.ctl = C[x].ctl \o p /\ Leads(p, C[x].bytesTX, d.bytesTX)
            \/ d.dead /\ d.ctl = p
    BY DEF Works
  <1>8. Opening(D, N)
    <2>1. D["R"].status # "none"
      BY <1>2, <1>4, <1>6 DEF Works, Found
    <2>2. OpenQueued(C, N) \/ OpenOnTheWay(C, N) \/ OpenArrived(C, N)
      BY <1>6 DEF FlowInv, Opening
    <2>3. CASE x = "S"
      <3>1. C["S"].status # "none" /\ D["S"].status # "none" /\ D["R"] = C["R"]
        BY <1>2, <1>4, <2>3 DEF Works, Found
      <3>2. OpenArrived(C, N)
        BY <2>2, <3>1 DEF OpenQueued, OpenOnTheWay
      <3>3. OpenArrived(D, N)
        BY <3>1, <3>2 DEF OpenArrived
      <3> QED
        BY <2>1, <3>3 DEF Opening
    <2>4. CASE x = "R"
      <3>1. D["R"] = d /\ D["S"] = C["S"] /\ p \in Seq(Quiet("R"))
        BY <1>2, <1>4, <2>4
      <3>2. CASE d.dead /\ d.ctl = p
        <4>1. CASE OpenQueued(C, N)
          <5>1. N["R"] \in Seq(Quiet("R"))
            BY <4>1 DEF OpenQueued
          <5> QED
            BY <2>1, <3>1, <3>2, <5>1 DEF Opening, OpenArrived, Shut
        <4>2. CASE OpenOnTheWay(C, N)
          BY <2>1, <3>1, <3>2, <4>2 DEF Opening, OpenOnTheWay
        <4>3. CASE OpenArrived(C, N)
          BY <2>1, <3>1, <3>2, <4>3 DEF Opening, OpenArrived, Shut
        <4> QED
          BY <2>2, <4>1, <4>2, <4>3
      <3>3. CASE d.ctl = C[x].ctl \o p
        <4> DEFINE u == C["R"].ctl
        <4>0. d.ctl = u \o p
          BY <2>4, <3>3
        <4>1. CASE OpenQueued(C, N)
          <5>1. u \in Seq(Messages) /\ p \in Seq(Messages)
            <6>1. p \in Seq(Messages)
              BY SentTypes, SeqSubset
            <6>2. u \in Seq(Messages)
              BY <1>1, <1>4 DEF Connections
            <6> QED
              BY <6>1, <6>2
          <5>2. u # <<>> /\ Tail(u) \in Seq(Quiet("R")) /\ Head(u).type = "open"
            BY <4>1 DEF OpenQueued
          <5> HIDE DEF u
          <5>3. u \o p # <<>> /\ Head(u \o p) = Head(u) /\ Tail(u \o p) = Tail(u) \o p
            BY <5>1, <5>2
          <5>4. Tail(u) \o p \in Seq(Quiet("R"))
            BY <3>1, <5>2
          <5>5. OpenQueued(D, N)
            BY <3>1, <4>0, <4>1, <5>2, <5>3, <5>4 DEF OpenQueued
          <5> QED
            BY <2>1, <5>5 DEF Opening
        <4>2. CASE OpenOnTheWay(C, N)
          <5>1. u \o p \in Seq(Quiet("R"))
            BY <3>1, <4>2 DEF OpenOnTheWay
          <5> QED
            BY <2>1, <3>1, <4>0, <4>2, <5>1 DEF Opening, OpenOnTheWay
        <4>3. CASE OpenArrived(C, N)
          <5>1. u \o p \in Seq(Quiet("R"))
            BY <3>1, <4>3 DEF OpenArrived
          <5>2. Shut(C["R"]) => Shut(d)
            BY <2>4 DEF Shut, Found, Works
          <5>3. OpenArrived(D, N)
            BY <3>1, <4>0, <4>3, <5>1, <5>2 DEF OpenArrived
          <5> QED
            BY <2>1, <5>3 DEF Opening
        <4> QED
          BY <2>2, <4>1, <4>2, <4>3
      <3> QED
        BY <1>7, <3>2, <3>3
    <2> QED
      BY <2>3, <2>4 DEF Sides
  <1>9. Flows(D, N)
    <2> SUFFICES ASSUME NEW z \in Sides, ~Shut(D[z]), D[Peer(z)].status # "gone"
                 PROVE  Transit(D, N, z)
      BY DEF Flows
    <2>1. CASE z = x
      <3>1. D[z] = d /\ D[Peer(z)] = C[Peer(z)] /\ ~d.dead
        BY <1>2, <2>1, PeerFacts DEF Shut
      <3>2. ~Shut(C[x]) /\ C[Peer(x)].status # "gone"
        BY <2>1, <3>1 DEF Shut, Works, Found
      <3>3. Transit(C, N, x)
        BY <3>2 DEF FlowInv, Flows
      <3>4. PICK a, b, c \in Int :
                /\ Leads(C[Peer(x)].wq, C[Peer(x)].bytesRX, a)
                /\ Leads(C[Peer(x)].reasm, a, b)
                /\ Leads(N[x], b, c)
                /\ Leads(C[x].ctl, c, C[x].bytesTX)
        BY <3>3 DEF Transit
      <3>5. C[x].ctl \in Seq(Messages) /\ p \in Seq(Messages)
        BY <1>1, SentTypes, SeqSubset, Zenon DEF Connections
      <3>6. d.ctl = C[x].ctl \o p /\ Leads(p, C[x].bytesTX, d.bytesTX)
        BY <1>7, <3>1
      <3>7. Leads(d.ctl, c, d.bytesTX)
        BY <3>4, <3>5, <3>6, LeadsConcat
      <3> QED
        BY <2>1, <3>1, <3>4, <3>7 DEF Transit
    <2>2. CASE z = Peer(x)
      <3>1. D[z] = C[z] /\ Peer(z) = x /\ D[Peer(z)] = d
        BY <1>2, <2>2, PeerFacts
      <3>2. Transit(C, N, z)
        BY <3>1 DEF FlowInv, Flows, Found
      <3>3. PICK a, b, c \in Int :
                /\ Leads(C[x].wq, C[x].bytesRX, a)
                /\ Leads(C[x].reasm, a, b)
                /\ Leads(N[z], b, c)
                /\ Leads(C[z].ctl, c, C[z].bytesTX)
        BY <3>1, <3>2 DEF Transit
      <3>4. Leads(d.wq, d.bytesRX, a) /\ d.reasm = C[x].reasm
        BY <3>3 DEF Works
      <3> QED
        BY <3>1, <3>3, <3>4 DEF Transit
    <2> QED
      BY <2>1, <2>2, PeerFacts
  <1> QED
    BY <1>5, <1>6, <1>8, <1>9 DEF FlowInv, D

(* Taking the next message of y off the control connection.                *)
LEMMA TailOfNet ==
    ASSUME NEW C, NEW N, Typed(C, N), NEW y \in Sides, N[y] # <<>>
    PROVE  LET M == [N EXCEPT ![y] = Tail(@)]
           IN  /\ M[y] = Tail(N[y]) /\ \A z \in Sides : z # y => M[z] = N[z]
               /\ Typed(C, M)
               /\ Head(N[y]) \in Sent(y) /\ Head(N[y]) \in Messages
  <1> DEFINE M == [N EXCEPT ![y] = Tail(@)]
  <1>1. N \in [Sides -> Seq(Messages)] /\ N[y] \in Seq(Messages) /\ N[y] \in Seq(Sent(y))
    BY DEF Typed
  <1>2. M[y] = Tail(N[y]) /\ \A z \in Sides : z # y => M[z] = N[z]
    BY <1>1
  <1>3. Tail(N[y]) \in Seq(Messages) /\ Tail(N[y]) \in Seq(Sent(y)) /\ Head(N[y]) \in Sent(y)
    <2>1. \A q \in Seq(Messages) : q # <<>> => Tail(q) \in Seq(Messages)
      OBVIOUS
    <2>2. \A q \in Seq(Sent(y)) : q # <<>> => Tail(q) \in Seq(Sent(y)) /\ Head(q) \in Sent(y)
      OBVIOUS
    <2> QED
      BY <1>1, <2>1, <2>2
  <1>4. M \in [Sides -> Seq(Messages)]
    BY <1>1, <1>3
  <1>5. Typed(C, M)
    <2> HIDE DEF M
    <2>1. \A z \in Sides : M[z] \in Seq(Sent(z))
      BY <1>2, <1>3, Zenon DEF Typed
    <2> QED
      BY <1>4, <2>1 DEF Typed
  <1>6. Head(N[y]) \in Messages
    BY <1>3, SentTypes
  <1> HIDE DEF M
  <1> QED
    BY <1>2, <1>3, <1>5, <1>6 DEF M

LEMMA TailKeepsOpening ==
    ASSUME NEW C, NEW N, Typed(C, N), Opening(C, N), NEW y \in Sides, N[y] # <<>>,
           Head(N[y]).type # "open"
    PROVE  /\ Opening(C, [N EXCEPT ![y] = Tail(@)])
           /\ C["R"].status # "none"
           /\ y = "R" => OpenArrived(C, N)
  <1> DEFINE M == [N EXCEPT ![y] = Tail(@)]
  <1>1. /\ M[y] = Tail(N[y]) /\ (\A z \in Sides : z # y => M[z] = N[z])
        /\ Typed(C, M)
    BY TailOfNet
  <1>2. "R" \in Sides /\ "S" \in Sides
    BY DEF Sides
  <1> HIDE DEF M
  <1>3. C["R"].status # "none"
    BY DEF Opening, Fresh
  <1>4. CASE y = "S"
    <2>1. M["R"] = N["R"]
      BY <1>1, <1>2, <1>4
    <2>2. Opening(C, M)
      BY <1>3, <2>1 DEF Opening, OpenQueued, OpenOnTheWay, OpenArrived
    <2> QED
      BY <1>3, <1>4, <2>2 DEF M
  <1>5. CASE y = "R"
    <2>1. OpenArrived(C, N)
      BY <1>3, <1>5 DEF Opening, OpenQueued, OpenOnTheWay
    <2>2. Tail(N["R"]) \in Seq(Quiet("R"))
      <3>1. \A q \in Seq(Quiet("R")) : q # <<>> => Tail(q) \in Seq(Quiet("R"))
        OBVIOUS
      <3> QED
        BY <1>5, <2>1, <3>1 DEF OpenArrived
    <2>3. Opening(C, M)
      BY <1>1, <1>3, <1>5, <2>1, <2>2, Zenon DEF Opening, OpenArrived
    <2> QED
      BY <1>3, <2>1, <2>3 DEF M
  <1> QED
    BY <1>4, <1>5 DEF Sides

(* A message without data is taken, or one that comes for a connection     *)
(* that is not there.                                                      *)
LEMMA TakeKeepsFlow ==
    ASSUME NEW C, NEW N, FlowInv(C, N), NEW x \in Sides, N[Peer(x)] # <<>>,
           Head(N[Peer(x)]).type # "open",
           ~IsData(Head(N[Peer(x)])) \/ ~Found(C[x])
    PROVE  FlowInv(C, [N EXCEPT ![Peer(x)] = Tail(@)])
  <1> DEFINE y == Peer(x)
             M == [N EXCEPT ![y] = Tail(@)]
  <1>1. y \in Sides /\ Peer(y) = x /\ y # x
    BY PeerFacts
  <1>2. M[y] = Tail(N[y]) /\ (\A z \in Sides : z # y => M[z] = N[z]) /\ Typed(C, M)
    BY <1>1, TailOfNet DEF FlowInv
  <1>3. Opening(C, M) /\ C["R"].status # "none" /\ (y = "R" => OpenArrived(C, N))
    BY <1>1, TailKeepsOpening DEF FlowInv
  <1> HIDE DEF M
  <1>4. Flows(C, M)
    <2> SUFFICES ASSUME NEW z \in Sides, ~Shut(C[z]), C[Peer(z)].status # "gone"
                 PROVE  Transit(C, M, z)
      BY DEF Flows
    <2>1. PICK a, b, c \in Int :
              /\ Leads(C[Peer(z)].wq, C[Peer(z)].bytesRX, a)
              /\ Leads(C[Peer(z)].reasm, a, b)
              /\ Leads(N[z], b, c)
              /\ Leads(C[z].ctl, c, C[z].bytesTX)
      BY DEF FlowInv, Flows, Transit
    <2>2. CASE z = x
      BY <1>1, <1>2, <2>1, <2>2 DEF Transit
    <2>3. CASE z = y
      <3>1. CASE ~IsData(Head(N[y]))
        <4>1. N[y] \in Seq(Messages)
          BY <1>1 DEF FlowInv, Typed
        <4>2. Leads(Tail(N[y]), b, c)
          BY <2>1, <2>3, <3>1, <4>1, LeadsTail
        <4> QED
          BY <1>2, <2>1, <2>3, <4>2 DEF Transit
      <3>2. CASE ~Found(C[x])
        <4>1. C[x].status = "none"
          BY <1>1, <2>3, <3>2 DEF Found
        <4>2. x # "R"
          BY <1>3, <4>1
        <4>3. x = "S" /\ y = "R"
          BY <4>2 DEF Sides, Peer
        <4>4. Shut(C["R"])
          BY <1>3, <4>1, <4>3 DEF OpenArrived
        <4> QED
          BY <2>3, <4>3, <4>4
      <3> QED
        BY <3>1, <3>2
    <2> QED
      BY <2>2, <2>3, PeerFacts
  <1> QED
    BY <1>2, <1>3, <1>4 DEF FlowInv, M

(* A piece moves on towards the user of x: c is its offset of the stream   *)
(* that is still at the other proxy.                                       *)
Towards(q, r, m, start, c) ==
    \E a, b \in Int : Leads(q, start, a) /\ Leads(r, a, b) /\ Leads(m, b, c)

LEMMA DeliverKeepsFlow ==
    ASSUME NEW C, NEW N, FlowInv(C, N), NEW x \in Sides, Found(C[x]),
           NEW d \in Conn(x), NEW M, Typed(C, M), Opening(C, M),
           M[x] = N[x],
           d.status = C[x].status, d.dead = C[x].dead, d.ctl = C[x].ctl,
           d.bytesTX = C[x].bytesTX, x = "S" => d.reasm = <<>>,
           \A c \in Int :
               Towards(C[x].wq, C[x].reasm, N[Peer(x)], C[x].bytesRX, c)
                   => Towards(d.wq, d.reasm, M[Peer(x)], d.bytesRX, c)
    PROVE  FlowInv([C EXCEPT ![x] = d], M) /\ C["R"].status # "none"
  <1> DEFINE D == [C EXCEPT ![x] = d]
             y == Peer(x)
  <1>0. y \in Sides /\ Peer(y) = x /\ y # x
    BY PeerFacts
  <1>1. C \in [Sides -> Connections] /\ d \in Connections
    BY DEF Typed, Conn
  <1>2. D[x] = d /\ \A z \in Sides : z # x => D[z] = C[z]
    BY <1>1
  <1>3. D \in [Sides -> Connections]
    BY <1>1
  <1> HIDE DEF D
  <1>4. "R" \in Sides /\ "S" \in Sides
    BY DEF Sides
  <1>5. Typed(D, M)
    <2>1. D["S"].reasm = <<>>
      BY <1>2, <1>4 DEF Typed
    <2>2. \A z \in Sides : D[z] \in Conn(z) /\ M[z] \in Seq(Sent(z))
      BY <1>2, SMTT(30) DEF Typed
    <2> QED
      BY <1>3, <2>1, <2>2 DEF Typed
  <1>6. C["R"].status # "none"
    <2>1. SUFFICES ASSUME C["R"].status = "none" PROVE FALSE
      OBVIOUS
    <2>2. C = [z \in Sides |-> NoConnection]
      BY <2>1 DEF Opening, Fresh
    <2>3. C[x].status = "none"
      BY <2>2 DEF NoConnection
    <2> QED
      BY <2>3 DEF Found
  <1>7. \A z \in Sides : /\ D[z].status = C[z].status /\ D[z].dead = C[z].dead
                         /\ D[z].ctl = C[z].ctl /\ D[z].bytesTX = C[z].bytesTX
    BY <1>2, SMTT(30)
  <1>8. Opening(D, M)
    BY <1>4, <1>6, <1>7 DEF Opening, OpenQueued, OpenOnTheWay, OpenArrived, Shut
  <1>9. Flows(D, M)
    <2> SUFFICES ASSUME NEW z \in Sides, ~Shut(D[z]), D[Peer(z)].status # "gone"
                 PROVE  Transit(D, M, z)
      BY DEF Flows
    <2>0. ~Shut(C[z]) /\ C[Peer(z)].status # "gone"
      BY <1>7, PeerFacts DEF Shut
    <2>1. PICK a, b, c \in Int :
              /\ Leads(C[Peer(z)].wq, C[Peer(z)].bytesRX, a)
              /\ Leads(C[Peer(z)].reasm, a, b)
              /\ Leads(N[z], b, c)
              /\ Leads(C[z].ctl, c, C[z].bytesTX)
      BY <2>0 DEF FlowInv, Flows, Transit
    <2>2. CASE z = x
      BY <1>0, <1>2, <1>7, <2>1, <2>2, SMTT(30) DEF Transit
    <2>3. CASE z = y
      <3>1. Towards(C[x].wq, C[x].reasm, N[y], C[x].bytesRX, c)
        BY <1>0, <2>1, <2>3, SMTT(30) DEF Towards
      <3>2. Towards(d.wq, d.reasm, M[y], d.bytesRX, c)
        BY <3>1, SMTT(30)
      <3>3. Leads(D[z].ctl, c, D[z].bytesTX)
        BY <1>7, <2>1
      <3> QED
        BY <1>0, <1>2, <2>3, <3>2, <3>3, SMTT(30) DEF Transit, Towards
    <2> QED
      BY <2>2, <2>3, PeerFacts
  <1> QED
    BY <1>5, <1>6, <1>8, <1>9 DEF FlowInv, D

(* A raw piece passes the trees that wait for their chunks, but only the   *)
(* first piece of S is raw, and nothing waits before it.                   *)
LEMMA RawKeepsFlow ==
    ASSUME NEW C, NEW N, FlowInv(C, N), NEW x \in Sides, N[Peer(x)] # <<>>,
           Head(N[Peer(x)]).type = "raw", Found(C[x])
    PROVE  FlowInv([C EXCEPT ![x] = Queue(C[x], Head(N[Peer(x)]))],
                   [N EXCEPT ![Peer(x)] = Tail(@)])
  <1> DEFINE y == Peer(x)
             m == Head(N[y])
             M == [N EXCEPT ![y] = Tail(@)]
             d == Queue(C[x], m)
  <1>1. y \in Sides /\ Peer(y) = x /\ y # x
    BY PeerFacts
  <1>2. /\ M[y] = Tail(N[y]) /\ (\A z \in Sides : z # y => M[z] = N[z]) /\ Typed(C, M)
        /\ m \in Sent(y) /\ m \in Messages
    BY <1>1, TailOfNet DEF FlowInv
  <1>3. Opening(C, M)
    BY <1>1, TailKeepsOpening DEF FlowInv
  <1>4. m \in Pieces /\ IsData(m)
    BY <1>2 DEF Pieces, IsData
  <1>5. C[x] \in Conn(x) /\ C[x] \in Connections /\ N[y] \in Seq(Messages)
    BY <1>1 DEF FlowInv, Typed
  <1>6. C[x].wq \in Seq(Pieces) /\ C[x].reasm \in Seq(Pieces)
    BY <1>5, SMTT(30) DEF Connections
  <1>7. /\ d \in Conn(x)
        /\ d.wq = Append(C[x].wq, m) /\ d.reasm = C[x].reasm /\ d.bytesRX = C[x].bytesRX
        /\ d.status = C[x].status /\ d.dead = C[x].dead /\ d.ctl = C[x].ctl
        /\ d.bytesTX = C[x].bytesTX
    BY <1>4, <1>5, QueueFields, SMTT(30)
  <1>8. x = "S" => C[x].reasm = <<>>
    BY DEF FlowInv, Typed
  <1>9. ASSUME NEW c \in Int, Towards(C[x].wq, C[x].reasm, N[y], C[x].bytesRX, c)
        PROVE  Towards(d.wq, d.reasm, M[y], d.bytesRX, c)
    <2>1. PICK a, b \in Int : /\ Leads(C[x].wq, C[x].bytesRX, a)
                              /\ Leads(C[x].reasm, a, b) /\ Leads(N[y], b, c)
      BY <1>9 DEF Towards
    <2>2. m.from = b /\ Leads(Tail(N[y]), m.to, c)
      BY <1>4, <1>5, <2>1, LeadsTail
    <2>3. C[x].reasm = <<>>
      <3>1. CASE x = "S"
        BY <1>8, <3>1
      <3>2. CASE x = "R"
        <4>1. m.from = 0
          BY <1>2, <3>2 DEF Sent, Peer
        <4>2. SUFFICES ASSUME C[x].reasm # <<>> PROVE FALSE
          OBVIOUS
        <4>3. b > 0
          BY <1>6, <2>1, <4>2, LeadsLast
        <4> QED
          BY <2>2, <4>1, <4>3
      <3> QED
        BY <3>1, <3>2 DEF Sides
    <2>4. a = b
      BY <2>1, <2>3, LeadsEmpty
    <2>5. C[x].wq \in Seq(Messages)
      <3>1. Pieces \subseteq Messages
        BY DEF Pieces
      <3> QED
        BY <1>6, <3>1, SeqSubset
    <2>6. Leads(Append(C[x].wq, m), C[x].bytesRX, m.to)
      BY <1>2, <1>4, <2>1, <2>2, <2>4, <2>5, LeadsAppend
    <2>7. m.to \in Int
      BY <1>2 DEF Messages
    <2>8. Leads(<<>>, m.to, m.to)
      BY <2>7, LeadsEmpty, SMTT(30)
    <2>9. Leads(d.wq, d.bytesRX, m.to) /\ Leads(d.reasm, m.to, m.to) /\ Leads(M[y], m.to, c)
      BY <1>2, <1>7, <2>2, <2>3, <2>6, <2>8, Zenon
    <2> QED
      BY <2>7, <2>9 DEF Towards
  <1> HIDE DEF d, M, m
  <1>10. M[x] = N[x]
    BY <1>1, <1>2
  <1>11. x = "S" => d.reasm = <<>>
    BY <1>7, <1>8
  <1>12. FlowInv([C EXCEPT ![x] = d], M)
    BY <1>2, <1>3, <1>7, <1>9, <1>10, <1>11, DeliverKeepsFlow, Zenon
  <1> QED
    BY <1>12 DEF d, M, m

LEMMA NameKeepsFlow ==
    ASSUME NEW C, NEW N, FlowInv(C, N), NEW x \in Sides, N[Peer(x)] # <<>>,
           Head(N[Peer(x)]).type = "name", Found(C[x])
    PROVE  FlowInv([C EXCEPT ![x].reasm = Append(@, Head(N[Peer(x)]))],
                   [N EXCEPT ![Peer(x)] = Tail(@)])
  <1> DEFINE y == Peer(x)
             m == Head(N[y])
             M == [N EXCEPT ![y] = Tail(@)]
             d == [C[x] EXCEPT !.reasm = Append(C[x].reasm, m)]
  <1>1. y \in Sides /\ Peer(y) = x /\ y # x
    BY PeerFacts
  <1>2. /\ M[y] = Tail(N[y]) /\ (\A z \in Sides : z # y => M[z] = N[z]) /\ Typed(C, M)
        /\ m \in Sent(y) /\ m \in Messages
    BY <1>1, TailOfNet DEF FlowInv
  <1>3. Opening(C, M)
    BY <1>1, TailKeepsOpening DEF FlowInv
  <1>4. m \in Pieces /\ IsData(m) /\ y # "R"
    BY <1>2 DEF Pieces, IsData, Sent
  <1>5. /\ C[x] \in Conn(x) /\ C[x] \in Connections /\ N[y] \in Seq(Messages)
        /\ C \in [Sides -> Connections] /\ C[x].ctl \in Seq(Sent(x))
    BY <1>1 DEF FlowInv, Typed, Conn
  <1>6. C[x].reasm \in Seq(Pieces) /\ Append(C[x].reasm, m) \in Seq(Pieces)
    <2>1. C[x].reasm \in Seq(Pieces)
      BY <1>5 DEF Connections
    <2> QED
      BY <1>4, <2>1
  <1> HIDE DEF m, M
  <1>7. d \in Connections
    BY <1>5, <1>6, Zenon DEF Connections
  <1>8. /\ d.wq = C[x].wq /\ d.reasm = Append(C[x].reasm, m) /\ d.bytesRX = C[x].bytesRX
        /\ d.status = C[x].status /\ d.dead = C[x].dead /\ d.ctl = C[x].ctl
        /\ d.bytesTX = C[x].bytesTX
    BY <1>5 DEF Connections
  <1> HIDE DEF d
  <1>9. d \in Conn(x)
    BY <1>5, <1>7, <1>8 DEF Conn
  <1>10. ASSUME NEW c \in Int, Towards(C[x].wq, C[x].reasm, N[y], C[x].bytesRX, c)
         PROVE  Towards(d.wq, d.reasm, M[y], d.bytesRX, c)
    <2>1. PICK a, b \in Int : /\ Leads(C[x].wq, C[x].bytesRX, a)
                              /\ Leads(C[x].reasm, a, b) /\ Leads(N[y], b, c)
      BY <1>10 DEF Towards
    <2>2. m.from = b /\ Leads(Tail(N[y]), m.to, c)
      BY <1>4, <1>5, <2>1, LeadsTail DEF m
    <2>3. C[x].reasm \in Seq(Messages)
      <3>1. Pieces \subseteq Messages
        BY DEF Pieces
      <3> QED
        BY <1>6, <3>1, SeqSubset
    <2>4. Leads(Append(C[x].reasm, m), a, m.to)
      BY <1>2, <1>4, <2>1, <2>2, <2>3, LeadsAppend, SMTT(30)
    <2>5. m.to \in Int
      BY <1>2 DEF Messages
    <2>6. Leads(d.wq, d.bytesRX, a) /\ Leads(d.reasm, a, m.to) /\ Leads(M[y], m.to, c)
      BY <1>2, <1>8, <2>1, <2>2, <2>4
    <2> QED
      BY <2>5, <2>6 DEF Towards
  <1>11. M[x] = N[x]
    BY <1>1, <1>2
  <1>12. x # "S"
    BY <1>4 DEF Peer
  <1>13. FlowInv([C EXCEPT ![x] = d], M)
    BY <1>2, <1>3, <1>8, <1>9, <1>10, <1>11, <1>12, DeliverKeepsFlow, Zenon
  <1>14. [C EXCEPT ![x].reasm = Append(@, m)] = [C EXCEPT ![x] = d]
    BY <1>5 DEF d
  <1> QED
    BY <1>13, <1>14 DEF M, m

LEMMA ReconstructKeepsFlow ==
    ASSUME NEW C, NEW N, FlowInv(C, N), NEW x \in Sides, Found(C[x]), C[x].reasm # <<>>
    PROVE  FlowInv([C EXCEPT ![x] = Queue([C[x] EXCEPT !.reasm = Tail(@)], Head(C[x].reasm))], N)
  <1> DEFINE y == Peer(x)
             m == Head(C[x].reasm)
             b0 == [C[x] EXCEPT !.reasm = Tail(C[x].reasm)]
             d == Queue(b0, m)
  <1>1. y \in Sides /\ Peer(y) = x /\ y # x
    BY PeerFacts
  <1>2. Typed(C, N) /\ Opening(C, N)
    BY DEF FlowInv
  <1>3. /\ C[x] \in Conn(x) /\ C[x] \in Connections /\ C[x].ctl \in Seq(Sent(x))
    BY DEF FlowInv, Typed, Conn
  <1>4. C[x].reasm \in Seq(Pieces) /\ Tail(C[x].reasm) \in Seq(Pieces) /\ m \in Pieces
    <2>1. C[x].reasm \in Seq(Pieces)
      BY <1>3 DEF Connections
    <2>2. \A q \in Seq(Pieces) : q # <<>> => Tail(q) \in Seq(Pieces) /\ Head(q) \in Pieces
      OBVIOUS
    <2> QED
      BY <2>1, <2>2
  <1> HIDE DEF m, d
  <1>5. b0 \in Connections
    BY <1>3, <1>4, Zenon DEF Connections
  <1>6. /\ b0.wq = C[x].wq /\ b0.reasm = Tail(C[x].reasm) /\ b0.bytesRX = C[x].bytesRX
        /\ b0.status = C[x].status /\ b0.dead = C[x].dead /\ b0.ctl = C[x].ctl
        /\ b0.bytesTX = C[x].bytesTX
    BY <1>3 DEF Connections
  <1> HIDE DEF b0
  <1>7. b0 \in Conn(x)
    BY <1>3, <1>5, <1>6 DEF Conn
  <1>8. /\ d \in Conn(x)
        /\ d.wq = Append(b0.wq, m) /\ d.reasm = b0.reasm /\ d.bytesRX = b0.bytesRX
        /\ d.status = b0.status /\ d.dead = b0.dead /\ d.ctl = b0.ctl
        /\ d.bytesTX = b0.bytesTX
    BY <1>4, <1>7, QueueFields DEF d
  <1>9. x # "S"
    BY DEF FlowInv, Typed
  <1>10. ASSUME NEW c \in Int, Towards(C[x].wq, C[x].reasm, N[y], C[x].bytesRX, c)
         PROVE  Towards(d.wq, d.reasm, N[y], d.bytesRX, c)
    <2>1. PICK a, b \in Int : /\ Leads(C[x].wq, C[x].bytesRX, a)
                              /\ Leads(C[x].reasm, a, b) /\ Leads(N[y], b, c)
      BY <1>10 DEF Towards
    <2>2. Pieces \subseteq Messages
      BY DEF Pieces
    <2>3. C[x].reasm \in Seq(Messages) /\ C[x].wq \in Seq(Messages)
      <3>1. C[x].wq \in Seq(Pieces)
        BY <1>3 DEF Connections
      <3> QED
        BY <1>4, <2>2, <3>1, SeqSubset
    <2>4. IsData(m) /\ m \in Messages
      BY <1>4 DEF Pieces
    <2>5. m.from = a /\ Leads(Tail(C[x].reasm), m.to, b)
      BY <2>1, <2>3, <2>4, LeadsTail DEF m
    <2>6. Leads(Append(C[x].wq, m), C[x].bytesRX, m.to)
      BY <2>1, <2>3, <2>4, <2>5, LeadsAppend
    <2>7. m.to \in Int
      BY <2>4 DEF Messages
    <2>8. Leads(d.wq, d.bytesRX, m.to) /\ Leads(d.reasm, m.to, b)
      BY <1>6, <1>8, <2>5, <2>6
    <2> QED
      BY <2>1, <2>7, <2>8 DEF Towards
  <1>11. FlowInv([C EXCEPT ![x] = d], N)
    BY <1>2, <1>6, <1>8, <1>9, <1>10, DeliverKeepsFlow, Zenon
  <1> QED
    BY <1>11 DEF d, b0, m

LEMMA OpenKeepsFlow ==
    ASSUME NEW C, NEW N, FlowInv(C, N), NEW x \in Sides, N[Peer(x)] # <<>>,
           Head(N[Peer(x)]).type = "open"
    PROVE  /\ FlowInv([C EXCEPT ![x].status = "active"], [N EXCEPT ![Peer(x)] = Tail(@)])
           /\ C["R"].status # "none"
  <1> DEFINE y == Peer(x)
             M == [N EXCEPT ![y] = Tail(@)]
             d == [C[x] EXCEPT !.status = "active"]
             D == [C EXCEPT ![x] = d]
  <1>1. y \in Sides /\ Peer(y) = x /\ y # x
    BY PeerFacts
  <1>2. /\ M[y] = Tail(N[y]) /\ (\A z \in Sides : z # y => M[z] = N[z]) /\ Typed(C, M)
        /\ Head(N[y]) \in Sent(y) /\ Head(N[y]) \in Messages
    BY <1>1, TailOfNet DEF FlowInv
  <1>3. y = "R" /\ x = "S"
    BY <1>2 DEF Sent, Sides, Peer
  <1>4. C["R"].status # "none"
    BY <1>1, <1>3 DEF FlowInv, Opening, Fresh
  <1> HIDE DEF M
  <1>5. OpenOnTheWay(C, N)
    <2>1. SUFFICES ASSUME OpenArrived(C, N) PROVE FALSE
      BY <1>3, <1>4 DEF FlowInv, Opening, OpenQueued
    <2>2. \A q \in Seq(Quiet("R")) : q # <<>> => Head(q) \in Quiet("R")
      OBVIOUS
    <2>3. Head(N["R"]) \in Quiet("R")
      BY <1>3, <2>1, <2>2 DEF OpenArrived
    <2> QED
      BY <1>3, <2>3 DEF Quiet
  <1>6. C \in [Sides -> Connections] /\ C[x] \in Connections /\ C[x].ctl \in Seq(Sent(x))
    BY DEF FlowInv, Typed, Conn
  <1>7. d \in Connections
    BY <1>6, Zenon DEF Connections, Statuses
  <1>8. /\ d.status = "active" /\ d.dead = C[x].dead /\ d.ctl = C[x].ctl /\ d.wq = C[x].wq
        /\ d.bytesTX = C[x].bytesTX /\ d.bytesRX = C[x].bytesRX /\ d.reasm = C[x].reasm
    BY <1>6 DEF Connections
  <1>9. [C EXCEPT ![x].status = "active"] = D
    BY <1>6
  <1> HIDE DEF d
  <1>10. D[x] = d /\ (\A z \in Sides : z # x => D[z] = C[z]) /\ D \in [Sides -> Connections]
    BY <1>6, <1>7
  <1> HIDE DEF D
  <1>11. Typed(D, M)
    <2>1. D["S"].reasm = <<>>
      BY <1>3, <1>8, <1>10 DEF FlowInv, Typed
    <2>2. \A z \in Sides : D[z] \in Conn(z) /\ M[z] \in Seq(Sent(z))
      BY <1>2, <1>6, <1>7, <1>8, <1>10, Zenon DEF Typed, Conn
    <2> QED
      BY <1>2, <1>10, <2>1, <2>2 DEF Typed
  <1>12. Opening(D, M)
    <2>1. D["R"] = C["R"] /\ D["S"].status = "active" /\ M["R"] = Tail(N["R"])
      BY <1>1, <1>2, <1>3, <1>8, <1>10
    <2>2. OpenArrived(D, M)
      BY <1>5, <2>1 DEF OpenArrived, OpenOnTheWay
    <2> QED
      BY <1>4, <2>1, <2>2 DEF Opening
  <1>13. Flows(D, M)
    <2> SUFFICES ASSUME NEW z \in Sides, ~Shut(D[z]), D[Peer(z)].status # "gone"
                 PROVE  Transit(D, M, z)
      BY DEF Flows
    <2>0. C[x].status = "none"
      BY <1>3, <1>5 DEF OpenOnTheWay
    <2>1. ~Shut(C[z]) /\ C[Peer(z)].status # "gone"
      <3>1. CASE z = x
        BY <1>1, <1>8, <1>10, <2>0, <3>1 DEF Shut
      <3>2. CASE z = y
        BY <1>1, <1>8, <1>10, <2>0, <3>2, SMTT(30) DEF Shut
      <3> QED
        BY <3>1, <3>2, PeerFacts
    <2>2. PICK a, b, c \in Int :
              /\ Leads(C[Peer(z)].wq, C[Peer(z)].bytesRX, a)
              /\ Leads(C[Peer(z)].reasm, a, b)
              /\ Leads(N[z], b, c)
              /\ Leads(C[z].ctl, c, C[z].bytesTX)
      BY <2>1, SMTT(30) DEF FlowInv, Flows, Transit
    <2>3. CASE z = x
      BY <1>1, <1>2, <1>8, <1>10, <2>2, <2>3, Zenon DEF Transit
    <2>4. CASE z = y
      <3>1. N[y] \in Seq(Messages) /\ ~IsData(Head(N[y]))
        BY <1>1 DEF FlowInv, Typed, IsData
      <3>2. Leads(Tail(N[y]), b, c)
        BY <2>2, <2>4, <3>1, LeadsTail
      <3> QED
        BY <1>1, <1>2, <1>8, <1>10, <2>2, <2>4, <3>2, SMTT(30) DEF Transit
    <2> QED
      BY <2>3, <2>4, PeerFacts
  <1> QED
    BY <1>4, <1>9, <1>11, <1>12, <1>13, Zenon DEF FlowInv, M

LEMMA OpenUserKeepsFlow ==
    ASSUME NEW C, NEW N, FlowInv(C, N), C["R"].status = "none"
    PROVE  FlowInv([C EXCEPT !["R"].status = "active",
                             !["R"].ctl = <<Msg("open", 0, 0)>>], N)
  <1> DEFINE m == Msg("open", 0, 0)
             d == [NoConnection EXCEPT !.status = "active", !.ctl = <<m>>]
             D == [x \in Sides |-> IF x = "R" THEN d ELSE NoConnection]
  <1>0. "R" \in Sides /\ "S" \in Sides
    BY DEF Sides
  <1>1. C = [x \in Sides |-> NoConnection] /\ N = [x \in Sides |-> <<>>]
    BY DEF FlowInv, Opening, Fresh
  <1>2. m \in Messages /\ m \in Sent("R") /\ m.type = "open" /\ ~IsData(m)
    BY DEF Msg, Messages, Types, IsData, Sent
  <1> HIDE DEF m
  <1>3. [C EXCEPT !["R"].status = "active", !["R"].ctl = <<m>>] = D
    BY <1>0, <1>1
  <1>4. <<m>> \in Seq(Messages) /\ <<m>> \in Seq(Sent("R"))
    BY <1>2
  <1>5. d \in Connections /\ NoConnection \in Connections
    <2>1. {} \in SUBSET Messages /\ <<>> \in Seq(Messages) /\ <<>> \in Seq(Pieces)
      OBVIOUS
    <2>2. NoConnection \in Connections
      BY <2>1 DEF Connections, NoConnection, Statuses, Failures
    <2>3. d \in Connections
      BY <1>4, <2>2, Zenon DEF Connections, Statuses
    <2> QED
      BY <2>2, <2>3
  <1>6. /\ d.status = "active" /\ d.dead = FALSE /\ d.ctl = <<m>> /\ d.wq = <<>>
        /\ d.bytesTX = 0 /\ d.bytesRX = 0 /\ d.reasm = <<>>
    BY DEF NoConnection
  <1>7. /\ NoConnection.status = "none" /\ NoConnection.dead = FALSE
        /\ NoConnection.ctl = <<>> /\ NoConnection.wq = <<>> /\ NoConnection.bytesTX = 0
        /\ NoConnection.bytesRX = 0 /\ NoConnection.reasm = <<>>
    BY DEF NoConnection
  <1> HIDE DEF d
  <1>8. D["R"] = d /\ D["S"] = NoConnection /\ D \in [Sides -> Connections]
    BY <1>0, <1>5
  <1> HIDE DEF D
  <1>9. N["R"] = <<>> /\ N["S"] = <<>>
    BY <1>0, <1>1
  <1>10. Typed(D, N)
    <2>1. D["R"] \in Conn("R")
      BY <1>4, <1>5, <1>6, <1>8, Zenon DEF Conn
    <2>2. D["S"] \in Conn("S")
      <3>1. <<>> \in Seq(Sent("S"))
        OBVIOUS
      <3> QED
        BY <1>5, <1>7, <1>8, <3>1, Zenon DEF Conn
    <2> QED
      BY <1>7, <1>8, <2>1, <2>2 DEF FlowInv, Typed, Sides
  <1>11. Opening(D, N)
    <2>1. Tail(<<m>>) = <<>> /\ Head(<<m>>) = m /\ <<m>> # <<>>
      OBVIOUS
    <2>2. Tail(<<m>>) \in Seq(Quiet("R"))
      BY <2>1
    <2> QED
      BY <1>2, <1>6, <1>7, <1>8, <1>9, <2>1, <2>2, Zenon DEF Opening, OpenQueued
  <1>12. Flows(D, N)
    <2>1. Leads(<<>>, 0, 0) /\ Leads(<<m>>, 0, 0)
      BY <1>2, LeadsEmpty, LeadsOne
    <2>2. Peer("R") = "S" /\ Peer("S") = "R" /\ 0 \in Int
      BY DEF Peer
    <2>3. Transit(D, N, "R")
      BY <1>6, <1>7, <1>8, <1>9, <2>1, <2>2 DEF Transit
    <2>4. Transit(D, N, "S")
      BY <1>6, <1>7, <1>8, <1>9, <2>1, <2>2 DEF Transit
    <2> QED
      BY <2>3, <2>4 DEF Flows, Sides
  <1> QED
    BY <1>3, <1>10, <1>11, <1>12, Zenon DEF FlowInv, m

(* ScheduleNameDelivery: what is queued goes to the control connection.    *)
LEMMA FlushKeepsFlow ==
    ASSUME NEW C, NEW N, FlowInv(C, N), NEW x \in Sides, C["R"].status # "none"
    PROVE  FlowInv([C EXCEPT ![x] = [C[x] EXCEPT !.ctl = <<>>]],
                   [N EXCEPT ![x] = @ \o C[x].ctl])
  <1> DEFINE d == [C[x] EXCEPT !.ctl = <<>>]
             D == [C EXCEPT ![x] = d]
             M == [N EXCEPT ![x] = N[x] \o C[x].ctl]
  <1>0. "R" \in Sides /\ "S" \in Sides
    BY DEF Sides
  <1>1. /\ C \in [Sides -> Connections] /\ C[x] \in Connections /\ C[x].ctl \in Seq(Sent(x))
        /\ N \in [Sides -> Seq(Messages)] /\ N[x] \in Seq(Sent(x)) /\ N[x] \in Seq(Messages)
    BY DEF FlowInv, Typed, Conn
  <1>2. C[x].ctl \in Seq(Messages)
    BY <1>1 DEF Connections
  <1>3. N[x] \o C[x].ctl \in Seq(Sent(x)) /\ N[x] \o C[x].ctl \in Seq(Messages)
    BY <1>1, <1>2
  <1>4. <<>> \in Seq(Messages) /\ <<>> \in Seq(Sent(x)) /\ <<>> \in Seq(Quiet("R"))
    OBVIOUS
  <1>5. d \in Connections
    BY <1>1, <1>4, Zenon DEF Connections
  <1>6. /\ d.status = C[x].status /\ d.dead = C[x].dead /\ d.ctl = <<>> /\ d.wq = C[x].wq
        /\ d.bytesTX = C[x].bytesTX /\ d.bytesRX = C[x].bytesRX /\ d.reasm = C[x].reasm
    BY <1>1 DEF Connections
  <1> HIDE DEF d
  <1>7. D[x] = d /\ (\A z \in Sides : z # x => D[z] = C[z]) /\ D \in [Sides -> Connections]
    BY <1>1, <1>5
  <1>8. /\ M[x] = N[x] \o C[x].ctl /\ (\A z \in Sides : z # x => M[z] = N[z])
        /\ M \in [Sides -> Seq(Messages)]
    BY <1>1, <1>3
  <1> HIDE DEF D, M
  <1>9. Typed(D, M)
    <2>1. D["S"].reasm = <<>>
      BY <1>0, <1>6, <1>7, Zenon DEF FlowInv, Typed
    <2>2. d \in Conn(x)
      BY <1>4, <1>5, <1>6, Zenon DEF Conn
    <2>3. \A z \in Sides : D[z] \in Conn(z) /\ M[z] \in Seq(Sent(z))
      BY <1>3, <1>7, <1>8, <2>2, Zenon DEF FlowInv, Typed
    <2> QED
      BY <1>7, <1>8, <2>1, <2>3 DEF Typed
  <1>10. \A z \in Sides : D[z].status = C[z].status /\ D[z].dead = C[z].dead
    BY <1>6, <1>7
  <1>11. Opening(D, M)
    <2>1. D["R"].status # "none"
      BY <1>0, <1>10
    <2>2. OpenQueued(C, N) \/ OpenOnTheWay(C, N) \/ OpenArrived(C, N)
      BY DEF FlowInv, Opening
    <2>3. CASE x = "S"
      <3>1. D["R"] = C["R"] /\ D["S"].status = C["S"].status /\ M["R"] = N["R"]
        BY <1>0, <1>7, <1>8, <1>10, <2>3
      <3> QED
        BY <2>1, <2>2, <3>1 DEF Opening, OpenQueued, OpenOnTheWay, OpenArrived
    <2>4. CASE x = "R"
      <3> DEFINE u == C["R"].ctl
                 v == N["R"]
      <3>1. /\ D["R"].ctl = <<>> /\ D["S"].status = C["S"].status /\ M["R"] = v \o u
            /\ Shut(C["R"]) => Shut(D["R"])
        BY <1>0, <1>6, <1>7, <1>8, <1>10, <2>4, Zenon DEF Shut
      <3>2. u \in Seq(Messages) /\ v \in Seq(Messages)
        BY <1>1, <1>2, <2>4
      <3>3. CASE OpenQueued(C, N)
        <4>1. v \o u = u
          BY <3>2, <3>3 DEF OpenQueued
        <4>2. OpenOnTheWay(D, M)
          BY <1>4, <3>1, <3>3, <4>1 DEF OpenQueued, OpenOnTheWay
        <4> QED
          BY <2>1, <4>2 DEF Opening
      <3>4. CASE OpenOnTheWay(C, N)
        <4>1. v # <<>> /\ Tail(v) \in Seq(Quiet("R")) /\ u \in Seq(Quiet("R"))
          BY <3>4 DEF OpenOnTheWay
        <4> HIDE DEF u, v
        <4>2. v \o u # <<>> /\ Head(v \o u) = Head(v) /\ Tail(v \o u) = Tail(v) \o u
          BY <3>2, <4>1
        <4>3. Tail(v) \o u \in Seq(Quiet("R"))
          BY <4>1
        <4>4. OpenOnTheWay(D, M)
          BY <1>4, <3>1, <3>4, <4>2, <4>3 DEF OpenOnTheWay, v
        <4> QED
          BY <2>1, <4>4 DEF Opening
      <3>5. CASE OpenArrived(C, N)
        <4>1. v \o u \in Seq(Quiet("R"))
          BY <3>5 DEF OpenArrived
        <4>2. OpenArrived(D, M)
          BY <1>4, <3>1, <3>5, <4>1 DEF OpenArrived
        <4> QED
          BY <2>1, <4>2 DEF Opening
      <3> QED
        BY <2>2, <3>3, <3>4, <3>5, SMTT(30)
    <2> QED
      BY <2>3, <2>4 DEF Sides
  <1>12. Flows(D, M)
    <2> SUFFICES ASSUME NEW z \in Sides, ~Shut(D[z]), D[Peer(z)].status # "gone"
                 PROVE  Transit(D, M, z)
      BY DEF Flows
    <2>1. ~Shut(C[z]) /\ C[Peer(z)].status # "gone"
      BY <1>10, PeerFacts, SMTT(30) DEF Shut
    <2>2. PICK a, b, c \in Int :
              /\ Leads(C[Peer(z)].wq, C[Peer(z)].bytesRX, a)
              /\ Leads(C[Peer(z)].reasm, a, b)
              /\ Leads(N[z], b, c)
              /\ Leads(C[z].ctl, c, C[z].bytesTX)
      BY <2>1, SMTT(30) DEF FlowInv, Flows, Transit
    <2>3. CASE z = x
      <3>1. Leads(M[x], b, C[x].bytesTX)
        BY <1>1, <1>2, <1>8, <2>2, <2>3, LeadsConcat, SMTT(30)
      <3>2. C[x].bytesTX \in Int
        BY <1>1, SMTT(30) DEF Connections
      <3>3. Leads(d.ctl, C[x].bytesTX, d.bytesTX)
        BY <1>6, <3>2, LeadsEmpty
      <3>4. D[Peer(x)] = C[Peer(x)]
        BY <1>7, PeerFacts, SMTT(30)
      <3> QED
        BY <1>7, <2>2, <2>3, <3>1, <3>2, <3>3, <3>4, SMTT(30) DEF Transit
    <2>4. CASE z = Peer(x)
      <3>1. D[z] = C[z] /\ M[z] = N[z] /\ Peer(z) = x
        BY <1>7, <1>8, <2>4, PeerFacts
      <3> QED
        BY <1>6, <1>7, <2>2, <3>1, SMTT(30) DEF Transit
    <2> QED
      BY <2>3, <2>4, PeerFacts
  <1>13. FlowInv(D, M)
    BY <1>9, <1>11, <1>12 DEF FlowInv
  <1> QED
    BY <1>13 DEF D, M, d

LEMMA CleanUpKeepsFlow ==
    ASSUME NEW C, NEW N, FlowInv(C, N), NEW x \in Sides, C["R"].status # "none"
    PROVE  /\ FlowInv([C EXCEPT ![x] = CleanUpClosedConnections(C[x])], N)
           /\ [C EXCEPT ![x] = CleanUpClosedConnections(C[x])]["R"].status # "none"
  <1> DEFINE d == CleanUpClosedConnections(C[x])
             D == [C EXCEPT ![x] = d]
             g == DestroyUserConnectionInfo(C[x])
             f == [C[x] EXCEPT !.failed = "dead"]
  <1>0. "R" \in Sides /\ "S" \in Sides
    BY DEF Sides
  <1>1. C \in [Sides -> Connections] /\ C[x] \in Connections /\ C[x].ctl \in Seq(Sent(x))
    BY DEF FlowInv, Typed, Conn
  <1>2. g \in Connections /\ f \in Connections
    <2>1. {} \in SUBSET Messages /\ <<>> \in Seq(Pieces)
      OBVIOUS
    <2>2. g \in Connections
      BY <1>1, <2>1, Zenon DEF Connections, DestroyUserConnectionInfo, Statuses
    <2>3. f \in Connections
      BY <1>1, Zenon DEF Connections, Failures
    <2> QED
      BY <2>2, <2>3
  <1>3. g.status = "gone" /\ g.ctl = C[x].ctl /\ g.reasm = <<>>
    BY <1>1 DEF Connections, DestroyUserConnectionInfo
  <1>4. /\ f.status = C[x].status /\ f.dead = C[x].dead /\ f.ctl = C[x].ctl /\ f.wq = C[x].wq
        /\ f.bytesTX = C[x].bytesTX /\ f.bytesRX = C[x].bytesRX /\ f.reasm = C[x].reasm
    BY <1>1 DEF Connections
  <1>5. \/ d = C[x]
        \/ d = f
        \/ d = g /\ C[x].dead /\ C[x].status = "closed"
    BY DEF CleanUpClosedConnections
  <1> HIDE DEF d, f, g
  <1>6. /\ d \in Connections /\ d.ctl = C[x].ctl
        /\ d.reasm \in {<<>>, C[x].reasm}
        /\ d.status = "none" <=> C[x].status = "none"
        /\ Shut(C[x]) => Shut(d)
    BY <1>1, <1>2, <1>3, <1>4, <1>5, SMTT(30) DEF Shut
  <1>7. d.status = "gone" \/ /\ d.status = C[x].status /\ d.dead = C[x].dead
                             /\ d.wq = C[x].wq /\ d.bytesTX = C[x].bytesTX
                             /\ d.bytesRX = C[x].bytesRX /\ d.reasm = C[x].reasm
    BY <1>3, <1>4, <1>5
  <1>8. D[x] = d /\ (\A z \in Sides : z # x => D[z] = C[z]) /\ D \in [Sides -> Connections]
    BY <1>1, <1>6
  <1> HIDE DEF D
  <1>9. Typed(D, N)
    <2>1. D["S"].reasm = <<>>
      BY <1>0, <1>6, <1>8, Zenon DEF FlowInv, Typed
    <2>2. d \in Conn(x)
      BY <1>1, <1>6 DEF Conn
    <2>3. \A z \in Sides : D[z] \in Conn(z) /\ N[z] \in Seq(Sent(z))
      BY <1>8, <2>2, Zenon DEF FlowInv, Typed
    <2> QED
      BY <1>8, <2>1, <2>3 DEF FlowInv, Typed
  <1>10. \A z \in Sides : /\ D[z].status = "none" <=> C[z].status = "none"
                          /\ Shut(C[z]) => Shut(D[z])
                          /\ D[z].ctl = C[z].ctl
    BY <1>6, <1>8
  <1>11. D["R"].status # "none"
    BY <1>0, <1>10
  <1>12. Opening(D, N)
    <2>1. OpenQueued(C, N) \/ OpenOnTheWay(C, N) \/ OpenArrived(C, N)
      BY DEF FlowInv, Opening
    <2>2. OpenQueued(D, N) \/ OpenOnTheWay(D, N) \/ OpenArrived(D, N)
      BY <1>0, <1>10, <2>1, SMTT(30) DEF OpenQueued, OpenOnTheWay, OpenArrived
    <2> QED
      BY <1>11, <2>2 DEF Opening
  <1>13. Flows(D, N)
    <2> SUFFICES ASSUME NEW z \in Sides, ~Shut(D[z]), D[Peer(z)].status # "gone"
                 PROVE  Transit(D, N, z)
      BY DEF Flows
    <2>1. /\ d.status = C[x].status /\ d.dead = C[x].dead
          /\ d.wq = C[x].wq /\ d.bytesTX = C[x].bytesTX
          /\ d.bytesRX = C[x].bytesRX /\ d.reasm = C[x].reasm
      <3>1. d.status # "gone"
        BY <1>8, PeerFacts, SMTT(30) DEF Shut
      <3> QED
        BY <1>7, <3>1
    <2>2. \A w \in Sides : /\ D[w].status = C[w].status /\ D[w].dead = C[w].dead
                           /\ D[w].wq = C[w].wq /\ D[w].bytesTX = C[w].bytesTX
                           /\ D[w].bytesRX = C[w].bytesRX /\ D[w].reasm = C[w].reasm
      BY <1>8, <2>1, SMTT(30)
    <2>3. ~Shut(C[z]) /\ C[Peer(z)].status # "gone"
      BY <2>2, PeerFacts DEF Shut
    <2>4. Transit(C, N, z)
      BY <2>3 DEF FlowInv, Flows
    <2> QED
      BY <1>10, <2>2, <2>4, PeerFacts, SMTT(30) DEF Transit
  <1>14. FlowInv(D, N)
    BY <1>9, <1>12, <1>13 DEF FlowInv
  <1> QED
    BY <1>11, <1>14 DEF D, d

-----------------------------------------------------------------------------
(* The loop: the timer comes first, and no proxy runs before the user has  *)
(* connected.                                                              *)
Steps == {"timer", "control", "read", "buffer", "reconstruct"}
Later == Steps \ {"timer"}
LoopInv ==
    /\ turn \in Sides
    /\ todo # <<>> => /\ ci["R"].status # "none"
                      /\ Tail(todo) \in Seq(Later)
                      /\ Head(todo) = "timer" => Found(ci[turn])
    /\ todo \in Seq(Steps)

Inv == FlowInv(ci, net) /\ LoopInv

UserStates == {"absent", "open", "closed", "broken", "reset"}
UserType == user \in [Sides -> [sent : Int, input : Int, state : UserStates]]

LEMMA InitInv ==
    ASSUME Init
    PROVE  Inv
  <1>0. "R" \in Sides /\ "S" \in Sides
    BY DEF Sides
  <1>1. ci = [x \in Sides |-> NoConnection] /\ net = [x \in Sides |-> <<>>]
    BY DEF Init
  <1>2. {} \in SUBSET Messages /\ <<>> \in Seq(Messages) /\ <<>> \in Seq(Pieces)
    OBVIOUS
  <1>3. NoConnection \in Connections
    BY <1>2 DEF Connections, NoConnection, Statuses, Failures
  <1>4. /\ NoConnection.status = "none" /\ NoConnection.ctl = <<>> /\ NoConnection.wq = <<>>
        /\ NoConnection.bytesTX = 0 /\ NoConnection.bytesRX = 0 /\ NoConnection.reasm = <<>>
    BY DEF NoConnection
  <1>5. \A x \in Sides : ci[x] = NoConnection /\ net[x] = <<>>
    BY <1>1
  <1>6. ci \in [Sides -> Connections] /\ net \in [Sides -> Seq(Messages)]
    BY <1>1, <1>2, <1>3
  <1>7. \A x \in Sides : ci[x] \in Conn(x) /\ net[x] \in Seq(Sent(x))
    <2> TAKE x \in Sides
    <2>1. <<>> \in Seq(Sent(x))
      OBVIOUS
    <2> QED
      BY <1>3, <1>4, <1>5, <2>1, Zenon DEF Conn
  <1>8. Typed(ci, net)
    BY <1>0, <1>4, <1>5, <1>6, <1>7 DEF Typed
  <1>9. Opening(ci, net)
    BY <1>0, <1>1, <1>4, <1>5 DEF Opening, Fresh
  <1>10. Flows(ci, net)
    <2> SUFFICES ASSUME NEW x \in Sides PROVE Transit(ci, net, x)
      BY DEF Flows
    <2>1. Leads(<<>>, 0, 0) /\ 0 \in Int
      BY LeadsEmpty
    <2>2. ci[x] = NoConnection /\ ci[Peer(x)] = NoConnection /\ net[x] = <<>>
      BY <1>5, PeerFacts
    <2> QED
      BY <1>4, <2>1, <2>2 DEF Transit
  <1>11. LoopInv
    BY <1>0 DEF Init, LoopInv
  <1> QED
    BY <1>8, <1>9, <1>10, <1>11 DEF Inv, FlowInv

LEMMA UserTypeStep ==
    ASSUME UserType, Next
    PROVE  UserType'
  <1> USE DEF UserType, UserStates
  <1>0. "R" \in Sides /\ "S" \in Sides
    BY DEF Sides
  <1>1. ASSUME NEW x \in Sides, NEW st \in UserStates, user' = [user EXCEPT ![x].state = st]
        PROVE  UserType'
    BY <1>1
  <1>2. ASSUME NEW x \in Sides PROVE AfterWrite(x, 0) \subseteq UserStates
                                      /\ \A k : AfterWrite(x, k) \subseteq UserStates
    BY DEF AfterWrite
  <1>3. CASE OpenUserConnection
    BY <1>0, <1>1, <1>3 DEF OpenUserConnection
  <1>4. ASSUME NEW x \in Sides, UserSends(x) PROVE UserType'
    <2>1. PICK n \in 1..(MaxBytes[x] - user[x].sent) :
              user' = [user EXCEPT ![x].sent = @ + n, ![x].input = @ + n]
      BY <1>4, Zenon DEF UserSends
    <2>2. user[x].sent \in Int /\ user[x].input \in Int /\ MaxBytes[x] \in Int
      BY UserAssumption
    <2>3. n \in Int
      BY <2>1, <2>2
    <2> QED
      BY <2>1, <2>2, <2>3, SMTT(30)
  <1>5. ASSUME NEW x \in Sides, UserCloses(x) PROVE UserType'
    BY <1>1, <1>5 DEF UserCloses
  <1>6. ASSUME NEW x \in Sides, UserResets(x) PROVE UserType'
    <2>1. user' = [user EXCEPT ![x].state = "reset", ![x].input = 0]
      BY <1>6 DEF UserResets
    <2>2. "reset" \in UserStates /\ 0 \in Int
      OBVIOUS
    <2> HIDE DEF UserStates
    <2> QED
      BY <2>1, <2>2, Zenon
  <1>7. ASSUME NEW x \in Sides, EventReadCB(x) PROVE UserType'
    <2>1. CASE ReadData(x)
      <3>1. PICK n \in 1..user[x].input : user' = [user EXCEPT ![x].input = @ - n]
        BY <2>1, Zenon DEF ReadData
      <3>2. user[x].input \in Int
        OBVIOUS
      <3>3. n \in Int
        BY <3>1, <3>2
      <3> QED
        BY <3>1, <3>2, <3>3
    <2>2. CASE ReadEOF(x)
      BY <2>2 DEF ReadEOF
    <2>3. CASE ReadError(x)
      BY <2>3 DEF ReadError
    <2> QED
      BY <1>7, <2>1, <2>2, <2>3 DEF EventReadCB
  <1>8. ASSUME NEW x \in Sides, ProcessControlData(x) PROVE UserType'
    <2>1. CASE ProcessOpenConnection(x)
      BY <1>1, <2>1 DEF ProcessOpenConnection
    <2>2. CASE ProcessRawMessage(x)
      <3>1. user' = user \/ \E st \in {"open", "closed", "broken", "reset"} :
                                user' = [user EXCEPT ![x].state = st]
        BY <2>2, Zenon DEF ProcessRawMessage
      <3> QED
        BY <1>1, <3>1
    <2>3. CASE ProcessNameTreeDelivery2(x) \/ ProcessNameAck(x) \/ ProcessCloseConnection(x)
      BY <2>3 DEF ProcessNameTreeDelivery2, ProcessNameAck, ProcessCloseConnection
    <2> QED
      BY <1>8, <2>1, <2>2, <2>3 DEF ProcessControlData
  <1>9. ASSUME NEW x \in Sides, ReconstructOneChunkTree(x) PROVE UserType'
    <2>1. \E st \in {"open", "closed", "broken", "reset"} : user' = [user EXCEPT ![x].state = st]
      BY <1>9, Zenon DEF ReconstructOneChunkTree
    <2> QED
      BY <1>1, <2>1
  <1>10. ASSUME NEW x \in Sides, NEW k, WriteAndCleanUp(x, k) PROVE UserType'
    <2>1. PICK st \in AfterWrite(x, k) : user' = [user EXCEPT ![x].state = st]
      BY <1>10, Zenon DEF WriteAndCleanUp
    <2> QED
      BY <1>1, <1>2, <2>1
  <1>11. ASSUME NEW x \in Sides, NEW timer, MainLoop(x, timer) PROVE UserType'
    BY <1>11, Zenon DEF MainLoop
  <1>12. ASSUME NEW x \in Sides,
                BufferTimeoutCB(x) \/ NoReadEvent(x) \/ ProcessReadBuffer(x) \/ ControlDone(x)
         PROVE  UserType'
    BY <1>12, Zenon DEF BufferTimeoutCB, NoReadEvent, ProcessReadBuffer, ControlDone
  <1> HIDE DEF UserType, UserStates
  <1> QED
    BY <1>3, <1>4, <1>5, <1>6, <1>7, <1>8, <1>9, <1>10, <1>11, <1>12, SMTT(30) DEF Next, Users, Loop

(* A step of an iteration that ends it or goes on.                         *)
LEMMA LoopGoesOn ==
    ASSUME LoopInv, todo # <<>>, ci'["R"].status # "none"
    PROVE  /\ Done => LoopInv'
           /\ More /\ Head(todo) # "timer" => LoopInv'
  <1>1. turn \in Sides /\ Tail(todo) \in Seq(Later) /\ todo \in Seq(Steps)
    BY DEF LoopInv
  <1>2. ASSUME Done PROVE LoopInv'
    <2>1. todo' = Tail(todo) /\ turn' = turn
      BY <1>2 DEF Done
    <2>2. \A q \in Seq(Later) : /\ q \in Seq(Steps)
                                /\ q # <<>> => Tail(q) \in Seq(Later) /\ Head(q) \in Later
      BY DEF Later
    <2>3. todo' \in Seq(Later)
      BY <1>1, <2>1
    <2>4. "timer" \notin Later
      BY DEF Later
    <2> QED
      BY <1>1, <2>1, <2>2, <2>3, <2>4 DEF LoopInv
  <1>3. ASSUME More, Head(todo) # "timer" PROVE LoopInv'
    BY <1>1, <1>3, SMTT(30) DEF LoopInv, More
  <1> QED
    BY <1>2, <1>3

LEMMA MainLoopInv ==
    ASSUME Inv, NEW x \in Sides, NEW timer \in {<<>>, <<"timer">>}, MainLoop(x, timer)
    PROVE  Inv'
  <1> DEFINE c == ci[x]
             data == IF net[Peer(x)] = <<>> THEN <<>> ELSE <<"control">>
             cond == Found(c) /\ (c.lenRead > 0 \/ "read" \in
                        events[x] \cup ({e \in {"read"}  : c.status = "active" /\ c.lenRead < RecvBuf}
                                        \cup {e \in {"write"} : Found(c) /\ c.wq # <<>>}))
             input == IF cond THEN <<"read", "buffer">> ELSE <<>>
             late == IF c.status = "active" /\ c.lenRead > 0 THEN timer ELSE <<>>
  <1>1. /\ ci' = ci /\ net' = net /\ turn' = x
        /\ Found(c) \/ net[Peer(x)] # <<>>
        /\ \E reads \in {data \o input, input \o data} : todo' = late \o reads \o <<"reconstruct">>
    BY Zenon DEF MainLoop
  <1> HIDE DEF cond
  <1>2. data \in Seq(Later) /\ input \in Seq(Later)
    <2>1. <<>> \in Seq(Later) /\ <<"control">> \in Seq(Later) /\ <<"read", "buffer">> \in Seq(Later)
      BY DEF Later, Steps
    <2>2. data \in {<<>>, <<"control">>}
      OBVIOUS
    <2>3. input \in {<<>>, <<"read", "buffer">>}
      OBVIOUS
    <2> HIDE DEF data, input
    <2> QED
      BY <2>1, <2>2, <2>3, Zenon
  <1>3. late = <<>> \/ (late = <<"timer">> /\ c.status = "active")
    <2>1. CASE c.status = "active" /\ c.lenRead > 0
      <3>1. late = timer
        BY <2>1
      <3> HIDE DEF late
      <3> QED
        BY <2>1, <3>1
    <2>2. CASE ~(c.status = "active" /\ c.lenRead > 0)
      <3>1. late = <<>>
        BY <2>2
      <3> HIDE DEF late
      <3> QED
        BY <3>1
    <2> QED
      BY <2>1, <2>2
  <1> HIDE DEF data, input, late
  <1>4. PICK reads : reads \in Seq(Later) /\ todo' = late \o reads \o <<"reconstruct">>
    <2>1. data \o input \in Seq(Later) /\ input \o data \in Seq(Later)
      BY <1>2
    <2> QED
      BY <1>1, <2>1, Zenon
  <1> DEFINE rest == reads \o <<"reconstruct">>
  <1>5. /\ rest \in Seq(Later) /\ rest # <<>> /\ Tail(rest) \in Seq(Later)
        /\ Head(rest) \in Later /\ rest \in Seq(Steps)
    <2>1. <<"reconstruct">> \in Seq(Later)
      BY DEF Later, Steps
    <2>2. rest \in Seq(Later) /\ rest # <<>>
      BY <1>4, <2>1
    <2>3. \A q \in Seq(Later) : /\ q \in Seq(Steps)
                                /\ q # <<>> => Tail(q) \in Seq(Later) /\ Head(q) \in Later
      BY DEF Later
    <2> HIDE DEF rest
    <2> QED
      BY <2>2, <2>3
  <1>6. ci["R"].status # "none"
    <2>1. SUFFICES ASSUME ci["R"].status = "none" PROVE FALSE
      OBVIOUS
    <2>2. ci = [z \in Sides |-> NoConnection] /\ net = [z \in Sides |-> <<>>]
      BY <2>1 DEF Inv, FlowInv, Opening, Fresh
    <2>3. ci[x].status = "none" /\ net[Peer(x)] = <<>>
      BY <2>2, PeerFacts DEF NoConnection
    <2> QED
      BY <1>1, <2>3 DEF Found
  <1>7. LoopInv'
    <2>1. CASE late = <<>>
      <3>1. todo' = rest
        <4>1. \A q \in Seq(Later) : <<>> \o q = q
          OBVIOUS
        <4>2. late \o reads = reads
          BY <1>4, <2>1, <4>1
        <4> QED
          BY <1>4, <4>2
      <3>2. "timer" \notin Later
        BY DEF Later
      <3> HIDE DEF rest
      <3> QED
        BY <1>1, <1>5, <1>6, <3>1, <3>2, Zenon DEF LoopInv
    <2>2. CASE late = <<"timer">> /\ c.status = "active"
      <3>1. todo' = <<"timer">> \o rest
        <4>1. reads \in Seq(Steps) /\ <<"timer">> \in Seq(Steps) /\ <<"reconstruct">> \in Seq(Steps)
          BY <1>4 DEF Later, Steps
        <4>2. (<<"timer">> \o reads) \o <<"reconstruct">> = <<"timer">> \o rest
          BY <4>1, ConcatAssoc
        <4> QED
          BY <1>4, <2>2, <4>2
      <3> HIDE DEF rest
      <3>2. \A q \in Seq(Steps) : /\ <<"timer">> \o q \in Seq(Steps)
                                  /\ Tail(<<"timer">> \o q) = q /\ <<"timer">> \o q # <<>>
        BY DEF Steps
      <3>3. todo' \in Seq(Steps) /\ Tail(todo') \in Seq(Later)
        BY <1>5, <3>1, <3>2, Zenon
      <3>4. Found(c)
        BY <2>2 DEF Found
      <3> QED
        BY <1>1, <1>6, <3>3, <3>4 DEF LoopInv, Found
    <2> QED
      BY <1>3, <2>1, <2>2, SMTT(30)
  <1>8. FlowInv(ci', net')
    <2>1. ci' = ci /\ net' = net
      BY <1>1
    <2> QED
      BY <2>1, Zenon DEF Inv
  <1> QED
    BY <1>7, <1>8, Zenon DEF Inv

(* What At says of the step.                                               *)
LEMMA AtFacts ==
    ASSUME Inv, NEW x \in Sides, NEW step, At(x, step)
    PROVE  /\ turn = x /\ todo # <<>> /\ Head(todo) = step
           /\ ci["R"].status # "none" /\ ci[x] \in Conn(x) /\ ci[x].lenRead \in Int
           /\ ci \in [Sides -> Connections]
           /\ step = "timer" => Found(ci[x])
  <1>1. ci[x] \in Conn(x) /\ ci[x] \in Connections /\ ci \in [Sides -> Connections]
    BY DEF Inv, FlowInv, Typed
  <1>2. ci[x].lenRead \in Int
    BY <1>1 DEF Connections
  <1> QED
    BY <1>1, <1>2 DEF Inv, LoopInv, At

LEMMA StepInv ==
    ASSUME Inv, todo # <<>>, NEW D, NEW M, FlowInv(D, M), D["R"].status # "none",
           ci' = D, net' = M, Done \/ (More /\ Head(todo) # "timer")
    PROVE  Inv'
  <1>1. LoopInv'
    <2>1. ci'["R"].status # "none"
      OBVIOUS
    <2> QED
      BY <2>1, LoopGoesOn DEF Inv
  <1>2. FlowInv(ci, net)'
    OBVIOUS
  <1> QED
    BY <1>1, <1>2 DEF Inv

LEMMA WorksUp ==
    ASSUME NEW C, NEW N, FlowInv(C, N), NEW x \in Sides, Found(C[x]),
           NEW d, Works(x, C[x], d)
    PROVE  /\ FlowInv([C EXCEPT ![x] = d], N)
           /\ [C EXCEPT ![x] = d]["R"].status # "none"
  <1> DEFINE D == [C EXCEPT ![x] = d]
  <1>1. FlowInv(D, N) /\ C["R"].status # "none"
    BY WorksKeepsFlow
  <1>2. C \in [Sides -> Connections] /\ "R" \in Sides
    BY DEF FlowInv, Typed, Sides
  <1>3. D["R"] = IF x = "R" THEN d ELSE C["R"]
    BY <1>2
  <1>4. Found(d)
    BY DEF Works
  <1> HIDE DEF D
  <1>5. D["R"].status # "none"
    BY <1>1, <1>3, <1>4 DEF Found
  <1> QED
    BY <1>1, <1>5 DEF D

LEMMA WorksStep ==
    ASSUME Inv, NEW x \in Sides, Found(ci[x]), todo # <<>>, NEW d, Works(x, ci[x], d),
           ci' = [ci EXCEPT ![x] = d], net' = net, Done \/ (More /\ Head(todo) # "timer")
    PROVE  Inv'
  <1>1. PICK D : D = [ci EXCEPT ![x] = d]
    BY Zenon
  <1>2. PICK M : M = net
    BY Zenon
  <1>3. FlowInv(D, M) /\ D["R"].status # "none"
    BY <1>1, <1>2, WorksUp, Zenon DEF Inv
  <1> QED
    BY <1>1, <1>2, <1>3, StepInv, Zenon

(* Steps that leave the connections and the messages alone.                *)
LEMMA IdleStep ==
    ASSUME Inv, todo # <<>>, ci["R"].status # "none", ci' = ci, net' = net, Done
    PROVE  Inv'
  <1>1. PICK D : D = ci
    BY Zenon
  <1>2. PICK M : M = net
    BY Zenon
  <1>3. FlowInv(D, M) /\ D["R"].status # "none"
    BY <1>1, <1>2 DEF Inv
  <1> QED
    BY <1>1, <1>2, <1>3, StepInv

LEMMA BufferTimeoutInv ==
    ASSUME Inv, NEW x \in Sides, BufferTimeoutCB(x)
    PROVE  Inv'
  <1>1. At(x, "timer") /\ Done /\ net' = net
    BY DEF BufferTimeoutCB
  <1>2. todo # <<>> /\ ci[x] \in Conn(x) /\ Found(ci[x]) /\ ci[x].lenRead \in Int
    BY <1>1, AtFacts
  <1>3. PICK cuts \in Cuts(ci[x], x, TRUE) :
            ci' = [ci EXCEPT ![x] = ProcessUserData(ci[x], x, cuts)]
    BY Zenon DEF BufferTimeoutCB
  <1>4. cuts \in Increasing(ci[x].lenRead)
    BY DEF Cuts
  <1>5. PICK d : d = ProcessUserData(ci[x], x, cuts)
    BY Zenon
  <1>6. Works(x, ci[x], d)
    BY <1>2, <1>4, <1>5, WorksProcessUserData
  <1> QED
    BY <1>1, <1>2, <1>3, <1>5, <1>6, WorksStep, Zenon

LEMMA ProcessReadBufferInv ==
    ASSUME Inv, NEW x \in Sides, ProcessReadBuffer(x)
    PROVE  Inv'
  <1>1. At(x, "buffer") /\ Done /\ net' = net
    BY DEF ProcessReadBuffer
  <1>2. todo # <<>> /\ ci[x] \in Conn(x) /\ ci[x].lenRead \in Int /\ ci["R"].status # "none"
    BY <1>1, AtFacts
  <1>3. CASE Found(ci[x]) /\ ci[x].status # "block" /\ ci[x].lenRead > 0
    <2>1. PICK cuts \in Cuts(ci[x], x, FALSE) :
              ci' = [ci EXCEPT ![x] = ProcessUserData(ci[x], x, cuts)]
      BY <1>3, Zenon DEF ProcessReadBuffer
    <2>2. cuts \in Increasing(ci[x].lenRead)
      BY DEF Cuts
    <2>3. PICK d : d = ProcessUserData(ci[x], x, cuts)
      BY Zenon
    <2>4. Works(x, ci[x], d)
      BY <1>2, <1>3, <2>2, <2>3, WorksProcessUserData, SMTT(30)
    <2> QED
      BY <1>1, <1>2, <1>3, <2>1, <2>3, <2>4, WorksStep, Zenon
  <1>4. CASE ~(Found(ci[x]) /\ ci[x].status # "block" /\ ci[x].lenRead > 0)
    <2>1. ci' = ci
      BY <1>4, Zenon DEF ProcessReadBuffer
    <2> QED
      BY <1>1, <1>2, <2>1, IdleStep
  <1> QED
    BY <1>3, <1>4

LEMMA EventReadInv ==
    ASSUME Inv, UserType, NEW x \in Sides, EventReadCB(x)
    PROVE  Inv'
  <1>1. At(x, "read") /\ Done /\ net' = net /\ Found(ci[x])
    BY DEF EventReadCB
  <1>2. /\ todo # <<>> /\ ci[x] \in Conn(x) /\ ci[x].lenRead \in Int
        /\ ci \in [Sides -> Connections] /\ ci[x] \in Connections
        /\ ci[x].ctl \in Seq(Sent(x))
    BY <1>1, AtFacts DEF Conn
  <1>3. ASSUME NEW v \in Int
        PROVE  /\ [ci[x] EXCEPT !.lenRead = v] \in Conn(x)
               /\ Found([ci[x] EXCEPT !.lenRead = v])
               /\ Works(x, ci[x], [ci[x] EXCEPT !.lenRead = v])
    <2> DEFINE d == [ci[x] EXCEPT !.lenRead = v]
    <2>1. d \in Connections
      BY <1>2, Zenon DEF Connections
    <2>2. /\ d.status = ci[x].status /\ d.dead = ci[x].dead /\ d.ctl = ci[x].ctl
          /\ d.bytesTX = ci[x].bytesTX /\ d.bytesRX = ci[x].bytesRX /\ d.wq = ci[x].wq
          /\ d.reasm = ci[x].reasm
      BY <1>2 DEF Connections
    <2> HIDE DEF d
    <2>3. d \in Conn(x) /\ Found(d)
      BY <1>1, <1>2, <2>1, <2>2 DEF Conn, Found
    <2>4. Works(x, ci[x], d)
      BY <1>2, <2>2, <2>3, WorksRefl
    <2> QED
      BY <2>3, <2>4 DEF d
  <1>4. CASE ReadData(x)
    <2>1. PICK n \in 1..user[x].input : ci' = [ci EXCEPT ![x].lenRead = @ + n]
                                        /\ n <= RecvBuf - ci[x].lenRead
      BY <1>4, Zenon DEF ReadData
    <2>2. n \in Int
      <3>1. user[x].input \in Int
        BY DEF UserType
      <3> QED
        BY <2>1, <3>1
    <2>3. PICK v \in Int : v = ci[x].lenRead + n
      BY <1>2, <2>2
    <2>4. PICK d : d = [ci[x] EXCEPT !.lenRead = v]
      BY Zenon
    <2>5. ci' = [ci EXCEPT ![x] = d]
      BY <1>2, <2>1, <2>3, <2>4
    <2> QED
      BY <1>1, <1>2, <1>3, <2>4, <2>5, WorksStep, Zenon
  <1>5. CASE ReadEOF(x)
    <2>1. PICK cuts \in Cuts([ci[x] EXCEPT !.status = "done"], x, TRUE) :
              ci' = [ci EXCEPT ![x] = CloseConnection(ci[x], x, cuts)]
      BY <1>5, Zenon DEF ReadEOF
    <2>2. [ci[x] EXCEPT !.status = "done"].lenRead = ci[x].lenRead
      BY <1>2 DEF Connections
    <2>3. cuts \in Increasing(ci[x].lenRead)
      BY <2>1, <2>2 DEF Cuts
    <2>4. PICK d : d = CloseConnection(ci[x], x, cuts)
      BY Zenon
    <2>5. Works(x, ci[x], d)
      BY <1>1, <1>2, <2>3, <2>4, WorksCloseConnection
    <2> QED
      BY <1>1, <1>2, <2>1, <2>4, <2>5, WorksStep, Zenon
  <1>6. CASE ReadError(x)
    <2>1. ci' = [ci EXCEPT ![x] = SetDead([ci[x] EXCEPT !.lenRead = ci[x].lenRead - 1], TRUE)]
      BY <1>6 DEF ReadError
    <2>2. PICK v \in Int : v = ci[x].lenRead - 1
      BY <1>2
    <2>3. PICK e : e = [ci[x] EXCEPT !.lenRead = v]
      BY Zenon
    <2>4. e \in Conn(x) /\ Found(e) /\ Works(x, ci[x], e)
      BY <1>3, <2>3
    <2>5. PICK d : d = SetDead(e, TRUE)
      BY Zenon
    <2>6. Works(x, e, d)
      BY <2>4, <2>5, WorksSetDead, Zenon
    <2>7. Works(x, ci[x], d)
      BY <1>2, <2>4, <2>6, WorksTrans
    <2>8. ci' = [ci EXCEPT ![x] = d]
      BY <2>1, <2>2, <2>3, <2>5
    <2> QED
      BY <1>1, <1>2, <2>7, <2>8, WorksStep, Zenon
  <1> QED
    BY <1>4, <1>5, <1>6 DEF EventReadCB

(* What a handler of a message from the peer starts from.                  *)
LEMMA ReceiveFacts ==
    ASSUME Inv, NEW x \in Sides, NEW types, Receive(x, types)
    PROVE  /\ todo # <<>> /\ More /\ Head(todo) # "timer"
           /\ net[Peer(x)] # <<>> /\ Head(net[Peer(x)]).type \in types
           /\ net' = [net EXCEPT ![Peer(x)] = Tail(@)]
           /\ ci["R"].status # "none" /\ ci[x] \in Conn(x)
           /\ Head(net[Peer(x)]) \in Messages
  <1>1. At(x, "control") /\ More /\ net[Peer(x)] # <<>> /\ Head(net[Peer(x)]).type \in types
        /\ net' = [net EXCEPT ![Peer(x)] = Tail(@)]
    BY DEF Receive
  <1>2. todo # <<>> /\ Head(todo) = "control" /\ ci["R"].status # "none" /\ ci[x] \in Conn(x)
    BY <1>1, AtFacts
  <1>3. net[Peer(x)] \in Seq(Messages)
    BY PeerFacts DEF Inv, FlowInv, Typed
  <1>4. Head(net[Peer(x)]) \in Messages
    BY <1>1, <1>3
  <1> QED
    BY <1>1, <1>2, <1>4

(* The message is taken, then x works on its connection.                   *)
LEMMA TakeAndWork ==
    ASSUME Inv, NEW x \in Sides, NEW types, Receive(x, types),
           types \in SUBSET {"ack", "close"},
           NEW d, Found(ci[x]) => Works(x, ci[x], d),
           ci' = IF Found(ci[x]) THEN [ci EXCEPT ![x] = d] ELSE ci
    PROVE  Inv'
  <1>1. /\ todo # <<>> /\ More /\ Head(todo) # "timer"
        /\ net[Peer(x)] # <<>> /\ Head(net[Peer(x)]).type \in types
        /\ net' = [net EXCEPT ![Peer(x)] = Tail(@)]
        /\ ci["R"].status # "none"
    BY ReceiveFacts
  <1>2. PICK M : M = [net EXCEPT ![Peer(x)] = Tail(@)]
    BY Zenon
  <1>3. ~IsData(Head(net[Peer(x)])) /\ Head(net[Peer(x)]).type # "open"
    BY <1>1 DEF IsData
  <1>4. FlowInv(ci, M)
    BY <1>1, <1>2, <1>3, TakeKeepsFlow, Zenon DEF Inv
  <1>5. CASE Found(ci[x])
    <2>1. PICK D : D = [ci EXCEPT ![x] = d]
      BY Zenon
    <2>2. FlowInv(D, M) /\ D["R"].status # "none"
      BY <1>4, <1>5, <2>1, WorksUp, Zenon
    <2> QED
      BY <1>1, <1>2, <1>5, <2>1, <2>2, StepInv, Zenon
  <1>6. CASE ~Found(ci[x])
    <2>1. PICK D : D = ci
      BY Zenon
    <2> QED
      BY <1>1, <1>2, <1>4, <1>6, <2>1, StepInv, Zenon
  <1> QED
    BY <1>5, <1>6

LEMMA AckInv ==
    ASSUME Inv, NEW x \in Sides, ProcessNameAck(x)
    PROVE  Inv'
  <1>1. Receive(x, {"ack"})
        /\ ci' = IF Found(ci[x])
                 THEN [ci EXCEPT ![x] = NameAck(@, Head(net[Peer(x)]).to)] ELSE ci
    BY DEF ProcessNameAck
  <1>2. ci[x] \in Conn(x) /\ Head(net[Peer(x)]) \in Messages
    BY <1>1, ReceiveFacts
  <1>3. PICK n \in Int : n = Head(net[Peer(x)]).to
    BY <1>2 DEF Messages
  <1>4. PICK d : d = NameAck(ci[x], n)
    BY Zenon
  <1>5. Found(ci[x]) => Works(x, ci[x], d)
    BY <1>2, <1>4, WorksNameAck
  <1>6. ci' = IF Found(ci[x]) THEN [ci EXCEPT ![x] = d] ELSE ci
    BY <1>1, <1>3, <1>4
  <1> QED
    BY <1>1, <1>5, <1>6, TakeAndWork

LEMMA CloseInv ==
    ASSUME Inv, NEW x \in Sides, ProcessCloseConnection(x)
    PROVE  Inv'
  <1>1. Receive(x, {"close"})
        /\ ci' = IF Found(ci[x])
                 THEN [ci EXCEPT ![x] = PeerCloses(@, Head(net[Peer(x)]).to)] ELSE ci
    BY DEF ProcessCloseConnection
  <1>2. ci[x] \in Conn(x) /\ Head(net[Peer(x)]) \in Messages
    BY <1>1, ReceiveFacts, SMTT(30)
  <1>3. PICK n \in Int : n = Head(net[Peer(x)]).to
    BY <1>2 DEF Messages
  <1>4. PICK d : d = PeerCloses(ci[x], n)
    BY Zenon
  <1>5. Found(ci[x]) => Works(x, ci[x], d)
    BY <1>2, <1>4, WorksPeerCloses
  <1>6. ci' = IF Found(ci[x]) THEN [ci EXCEPT ![x] = d] ELSE ci
    BY <1>1, <1>3, <1>4
  <1> QED
    BY <1>1, <1>5, <1>6, TakeAndWork

LEMMA OpenInv ==
    ASSUME Inv, NEW x \in Sides, ProcessOpenConnection(x)
    PROVE  Inv'
  <1>1. Receive(x, {"open"}) /\ ci' = [ci EXCEPT ![x].status = "active"]
    BY DEF ProcessOpenConnection
  <1>2. /\ todo # <<>> /\ More /\ Head(todo) # "timer"
        /\ net[Peer(x)] # <<>> /\ Head(net[Peer(x)]).type = "open"
        /\ net' = [net EXCEPT ![Peer(x)] = Tail(@)]
    BY <1>1, ReceiveFacts
  <1>3. PICK M : M = [net EXCEPT ![Peer(x)] = Tail(@)]
    BY Zenon
  <1>4. PICK D : D = [ci EXCEPT ![x].status = "active"]
    BY Zenon
  <1>5. FlowInv(D, M) /\ ci["R"].status # "none"
    BY <1>2, <1>3, <1>4, OpenKeepsFlow, Zenon DEF Inv
  <1>6. D["R"].status # "none"
    <2>1. ci \in [Sides -> Connections] /\ "R" \in Sides /\ ci[x] \in Connections
      BY DEF Inv, FlowInv, Typed, Sides
    <2>2. CASE x = "R"
      <3>1. D["R"].status = "active"
        BY <1>4, <2>1, <2>2 DEF Connections
      <3> QED
        BY <3>1
    <2>3. CASE x # "R"
      BY <1>4, <1>5, <2>1, <2>3
    <2> QED
      BY <2>2, <2>3
  <1> QED
    BY <1>1, <1>2, <1>3, <1>4, <1>5, <1>6, StepInv, Zenon

LEMMA NameInv ==
    ASSUME Inv, NEW x \in Sides, ProcessNameTreeDelivery2(x)
    PROVE  Inv'
  <1>1. Receive(x, {"name"})
        /\ ci' = IF Found(ci[x])
                 THEN [ci EXCEPT ![x].reasm = Append(@, Head(net[Peer(x)]))] ELSE ci
    BY DEF ProcessNameTreeDelivery2
  <1>2. /\ todo # <<>> /\ More /\ Head(todo) # "timer"
        /\ net[Peer(x)] # <<>> /\ Head(net[Peer(x)]).type = "name"
        /\ net' = [net EXCEPT ![Peer(x)] = Tail(@)] /\ ci["R"].status # "none"
    BY <1>1, ReceiveFacts
  <1>3. PICK M : M = [net EXCEPT ![Peer(x)] = Tail(@)]
    BY Zenon
  <1>4. CASE Found(ci[x])
    <2>1. PICK D : D = [ci EXCEPT ![x].reasm = Append(@, Head(net[Peer(x)]))]
      BY Zenon
    <2>2. FlowInv(D, M)
      BY <1>2, <1>3, <1>4, <2>1, NameKeepsFlow, Zenon DEF Inv
    <2>3. D["R"].status # "none"
      <3>1. ci \in [Sides -> Connections] /\ "R" \in Sides /\ ci[x] \in Connections
        BY DEF Inv, FlowInv, Typed, Sides
      <3>2. CASE x = "R"
        <4>1. D["R"].status = ci["R"].status
          BY <2>1, <3>1, <3>2 DEF Connections
        <4> QED
          BY <1>2, <4>1
      <3>3. CASE x # "R"
        BY <1>2, <2>1, <3>1, <3>3
      <3> QED
        BY <3>2, <3>3
    <2> QED
      BY <1>1, <1>2, <1>3, <1>4, <2>1, <2>2, <2>3, StepInv, Zenon
  <1>5. CASE ~Found(ci[x])
    <2>1. PICK D : D = ci
      BY Zenon
    <2>2. FlowInv(D, M)
      BY <1>2, <1>3, <1>5, <2>1, TakeKeepsFlow, Zenon DEF Inv
    <2> QED
      BY <1>1, <1>2, <1>3, <1>5, <2>1, <2>2, StepInv, Zenon
  <1> QED
    BY <1>4, <1>5

(* What is queued for the user of x may be written at once.                *)
LEMMA QueueThenWrite ==
    ASSUME Inv, todo # <<>>, More, Head(todo) # "timer", NEW x \in Sides, NEW c, NEW M,
           FlowInv([ci EXCEPT ![x] = c], M), Found(c), NEW k \in Writable(c, x),
           ci' = [ci EXCEPT ![x] = Write(c, k, FALSE)], net' = M
    PROVE  Inv'
  <1>1. ci \in [Sides -> Connections]
    BY DEF Inv, FlowInv, Typed
  <1>2. PICK C : C = [ci EXCEPT ![x] = c]
    BY Zenon
  <1>3. C[x] = c /\ FlowInv(C, M)
    BY <1>1, <1>2, SMTT(30)
  <1>4. c \in Conn(x)
    BY <1>3 DEF FlowInv, Typed
  <1>5. k \in -1..Len(c.wq)
    BY <1>4, WritableRange
  <1>6. PICK d : d = Write(c, k, FALSE)
    BY Zenon
  <1>7. Works(x, C[x], d)
    BY <1>3, <1>4, <1>5, <1>6, WorksWrite, Zenon
  <1>8. PICK D : D = [C EXCEPT ![x] = d]
    BY Zenon
  <1>9. FlowInv(D, M) /\ D["R"].status # "none"
    BY <1>3, <1>7, <1>8, WorksUp, Zenon
  <1>10. ci' = D
    BY <1>1, <1>2, <1>6, <1>8, Zenon
  <1> QED
    BY <1>9, <1>10, StepInv, Zenon

LEMMA RawInv ==
    ASSUME Inv, NEW x \in Sides, ProcessRawMessage(x)
    PROVE  Inv'
  <1>1. Receive(x, {"raw"})
    BY DEF ProcessRawMessage
  <1>2. /\ todo # <<>> /\ More /\ Head(todo) # "timer"
        /\ net[Peer(x)] # <<>> /\ Head(net[Peer(x)]).type = "raw"
        /\ net' = [net EXCEPT ![Peer(x)] = Tail(@)] /\ ci["R"].status # "none"
        /\ ci[x] \in Conn(x) /\ Head(net[Peer(x)]) \in Messages
    BY <1>1, ReceiveFacts, SMTT(30)
  <1>3. PICK M : M = [net EXCEPT ![Peer(x)] = Tail(@)]
    BY Zenon
  <1>4. CASE Found(ci[x])
    <2>1. PICK c : c = Queue(ci[x], Head(net[Peer(x)]))
      BY Zenon
    <2>2. PICK k \in Writable(c, x) : ci' = [ci EXCEPT ![x] = Write(c, k, FALSE)]
      BY <1>4, <2>1, Zenon DEF ProcessRawMessage
    <2>3. FlowInv([ci EXCEPT ![x] = c], M)
      BY <1>2, <1>3, <1>4, <2>1, RawKeepsFlow, Zenon DEF Inv
    <2>4. c.status = ci[x].status
      BY <1>2, <2>1, QueueFields DEF Pieces, IsData
    <2>5. Found(c)
      BY <1>4, <2>4 DEF Found
    <2> QED
      BY <1>2, <1>3, <2>2, <2>3, <2>5, QueueThenWrite, Zenon
  <1>5. CASE ~Found(ci[x])
    <2>1. PICK D : D = ci
      BY Zenon
    <2>2. FlowInv(D, M)
      BY <1>2, <1>3, <1>5, <2>1, TakeKeepsFlow, Zenon DEF Inv
    <2>3. ci' = D
      BY <1>5, <2>1 DEF ProcessRawMessage
    <2> QED
      BY <1>2, <1>3, <2>1, <2>2, <2>3, StepInv, Zenon
  <1> QED
    BY <1>4, <1>5

LEMMA ReconstructInv ==
    ASSUME Inv, NEW x \in Sides, ReconstructOneChunkTree(x)
    PROVE  Inv'
  <1>1. /\ At(x, "reconstruct") /\ Found(ci[x]) /\ ci[x].reasm # <<>>
        /\ More /\ net' = net
    BY DEF ReconstructOneChunkTree
  <1>2. todo # <<>> /\ Head(todo) # "timer" /\ ci[x] \in Conn(x)
    BY <1>1, AtFacts
  <1>3. PICK c : c = Queue([ci[x] EXCEPT !.reasm = Tail(@)], Head(ci[x].reasm))
    BY Zenon
  <1>4. PICK k \in Writable(c, x) : ci' = [ci EXCEPT ![x] = Write(c, k, FALSE)]
    BY <1>3, Zenon DEF ReconstructOneChunkTree
  <1>5. PICK M : M = net
    BY Zenon
  <1>6. FlowInv([ci EXCEPT ![x] = c], M)
    BY <1>1, <1>3, <1>5, ReconstructKeepsFlow DEF Inv
  <1>7. ci[x] \in Connections
    BY <1>2 DEF Conn
  <1>8. Found(c)
    <2>1. c.status = ci[x].status
      BY <1>3, <1>7, SMTT(30) DEF Queue, Connections
    <2> QED
      BY <1>1, <2>1 DEF Found
  <1> QED
    BY <1>1, <1>2, <1>4, <1>5, <1>6, <1>8, QueueThenWrite, Zenon

LEMMA WriteAndCleanUpInv ==
    ASSUME Inv, NEW x \in Sides, NEW k, WriteAndCleanUp(x, k)
    PROVE  Inv'
  <1>1. PICK c : c = ReconstructOriginalData(ci[x])
    BY Zenon
  <1>2. PICK d : d = [c EXCEPT !.ctl = <<>>]
    BY Zenon
  <1>3. PICK w : w = Write(d, k, TRUE)
    BY Zenon
  <1>4. /\ At(x, "reconstruct") /\ Done
        /\ net' = [net EXCEPT ![x] = @ \o c.ctl]
        /\ k \in (IF Found(d) /\ "write" \in events[x] THEN Writable(d, x) ELSE {0})
        /\ ci' = [ci EXCEPT ![x] = CleanUpClosedConnections(w)]
    BY <1>1, <1>2, <1>3 DEF WriteAndCleanUp
  <1>5. /\ todo # <<>> /\ ci["R"].status # "none" /\ ci[x] \in Conn(x)
        /\ ci \in [Sides -> Connections]
    BY <1>4, AtFacts
  <1>6. PICK C1 : C1 = [ci EXCEPT ![x] = c]
    BY Zenon
  <1>7. FlowInv(C1, net) /\ C1["R"].status # "none"
    <2>1. CASE Found(ci[x]) /\ c = SetDead(ci[x], FALSE)
      <3>1. Works(x, ci[x], c)
        BY <1>5, <2>1, WorksSetDead, Zenon
      <3> QED
        BY <1>6, <2>1, <3>1, WorksUp, Zenon DEF Inv
    <2>2. CASE c = ci[x]
      <3>1. C1 = ci
        BY <1>5, <1>6, <2>2
      <3> QED
        BY <1>5, <3>1 DEF Inv
    <2> QED
      BY <1>1, <2>1, <2>2, Zenon DEF ReconstructOriginalData
  <1>8. C1[x] = c /\ C1 \in [Sides -> Connections] /\ c \in Connections /\ "R" \in Sides
    BY <1>5, <1>6, <1>7 DEF FlowInv, Typed, Sides
  <1>9. PICK C2 : C2 = [C1 EXCEPT ![x] = d]
    BY Zenon
  <1>10. PICK M : M = [net EXCEPT ![x] = @ \o c.ctl]
    BY Zenon
  <1>11. FlowInv(C2, M)
    <2>1. FlowInv([C1 EXCEPT ![x] = [C1[x] EXCEPT !.ctl = <<>>]],
                  [net EXCEPT ![x] = @ \o C1[x].ctl])
      BY <1>7, FlushKeepsFlow, Zenon
    <2> QED
      BY <1>2, <1>8, <1>9, <1>10, <2>1, SMTT(30)
  <1>12. C2["R"].status # "none" /\ C2[x] = d /\ C2 \in [Sides -> Connections]
    <2>1. d.status = c.status
      BY <1>2, <1>8 DEF Connections
    <2>2. C2[x] = d /\ C2 \in [Sides -> Connections]
      BY <1>8, <1>9, <1>11 DEF FlowInv, Typed
    <2>3. CASE x = "R"
      BY <1>7, <1>8, <2>1, <2>2, <2>3, SMTT(30)
    <2>4. CASE x # "R"
      BY <1>7, <1>8, <1>9, <2>2, <2>4, SMTT(30)
    <2> QED
      BY <2>2, <2>3, <2>4
  <1>13. PICK C3 : C3 = [C2 EXCEPT ![x] = w]
    BY Zenon
  <1>14. FlowInv(C3, M) /\ C3["R"].status # "none"
    <2>1. CASE Found(d)
      <3>1. d \in Conn(x)
        BY <1>11, <1>12 DEF FlowInv, Typed
      <3>2. Len(d.wq) \in Nat
        <4>1. d \in Connections
          BY <3>1 DEF Conn
        <4>2. d.wq \in Seq(Pieces)
          BY <4>1 DEF Connections
        <4> QED
          BY <4>2
      <3>3. k \in -1..Len(d.wq)
        <4>1. CASE "write" \in events[x]
          <5>1. k \in Writable(d, x)
            BY <1>4, <2>1, <4>1
          <5> QED
            BY <3>1, <5>1, WritableRange, SMTT(30)
        <4>2. CASE ~("write" \in events[x])
          <5>1. k = 0
            BY <1>4, <4>2
          <5> QED
            BY <3>2, <5>1, SMTT(30)
        <4> QED
          BY <4>1, <4>2
      <3>4. Works(x, C2[x], w)
        BY <1>3, <1>12, <2>1, <3>1, <3>3, WorksWrite, Zenon
      <3> QED
        BY <1>11, <1>12, <1>13, <2>1, <3>4, WorksUp, Zenon
    <2>2. CASE ~Found(d)
      <3>1. k = 0
        BY <1>4, <2>2
      <3>2. w = d
        BY <1>3, <3>1 DEF Write
      <3>3. C3 = C2
        BY <1>12, <1>13, <3>2
      <3> QED
        BY <1>11, <1>12, <3>3
    <2> QED
      BY <2>1, <2>2
  <1>15. C3[x] = w
    BY <1>12, <1>13
  <1>16. PICK D : D = [C3 EXCEPT ![x] = CleanUpClosedConnections(w)]
    BY Zenon
  <1>17. FlowInv(D, M) /\ D["R"].status # "none"
    BY <1>14, <1>15, <1>16, CleanUpKeepsFlow, Zenon
  <1>18. ci' = D
    BY <1>4, <1>5, <1>6, <1>9, <1>13, <1>16, Zenon
  <1> QED
    BY <1>4, <1>5, <1>10, <1>17, <1>18, StepInv, Zenon

LEMMA UsersInv ==
    ASSUME Inv, Users
    PROVE  Inv'
  <1>1. CASE OpenUserConnection
    <2>1. /\ todo = <<>> /\ ci["R"].status = "none" /\ net' = net
          /\ turn' = turn /\ todo' = todo
      BY <1>1 DEF OpenUserConnection, Idle
    <2>2. PICK D : D = [ci EXCEPT !["R"].status = "active",
                                  !["R"].ctl = <<Msg("open", 0, 0)>>]
      BY Zenon
    <2>3. ci' = D
      BY <1>1, <2>2 DEF OpenUserConnection
    <2>4. FlowInv(D, net)
      BY <2>1, <2>2, OpenUserKeepsFlow, Zenon DEF Inv
    <2>5. LoopInv'
      BY <2>1 DEF Inv, LoopInv
    <2> QED
      BY <2>1, <2>3, <2>4, <2>5 DEF Inv
  <1>2. CASE \E x \in Sides : UserSends(x) \/ UserCloses(x) \/ UserResets(x)
    <2>1. ci' = ci /\ net' = net /\ turn' = turn /\ todo' = todo
      BY <1>2 DEF UserSends, UserCloses, UserResets
    <2> QED
      BY <2>1 DEF Inv, LoopInv
  <1> QED
    BY <1>1, <1>2 DEF Users

LEMMA NextInv ==
    ASSUME Inv, UserType, [Next]_vars
    PROVE  Inv' /\ UserType'
  <1>1. CASE vars' = vars
    <2>1. ci' = ci /\ net' = net /\ turn' = turn /\ todo' = todo /\ user' = user
      BY <1>1 DEF vars
    <2> QED
      BY <2>1 DEF Inv, LoopInv, UserType
  <1>2. CASE Users
    BY <1>2, UsersInv, UserTypeStep DEF Next
  <1>3. ASSUME NEW x \in Sides, Loop(x) PROVE Inv'
    <2>1. CASE MainLoop(x, <<>>) \/ MainLoop(x, <<"timer">>)
      BY <2>1, MainLoopInv
    <2>2. CASE BufferTimeoutCB(x)
      BY <2>2, BufferTimeoutInv
    <2>3. CASE EventReadCB(x)
      BY <2>3, EventReadInv
    <2>4. CASE ProcessReadBuffer(x)
      BY <2>4, ProcessReadBufferInv
    <2>5. CASE ProcessControlData(x)
      BY <2>5, OpenInv, RawInv, NameInv, AckInv, CloseInv, SMTT(30) DEF ProcessControlData
    <2>6. CASE NoReadEvent(x) \/ ControlDone(x)
      <3>1. PICK step : At(x, step) /\ Done /\ ci' = ci /\ net' = net
        BY <2>6 DEF NoReadEvent, ControlDone
      <3>2. todo # <<>> /\ ci["R"].status # "none"
        BY <3>1, AtFacts
      <3> QED
        BY <3>1, <3>2, IdleStep
    <2>7. CASE ReconstructOneChunkTree(x)
      BY <2>7, ReconstructInv
    <2>8. CASE \E k \in -1..Len(ci[x].wq) : WriteAndCleanUp(x, k)
      BY <2>8, WriteAndCleanUpInv
    <2> QED
      BY <1>3, <2>1, <2>2, <2>3, <2>4, <2>5, <2>6, <2>7, <2>8, SMTT(30) DEF Loop
  <1>4. CASE Next /\ \E x \in Sides : Loop(x)
    BY <1>3, <1>4, UserTypeStep
  <1> QED
    BY <1>1, <1>2, <1>4, SMTT(30) DEF Next

LEMMA ConcatType ==
    ASSUME NEW q \in Seq(Messages), NEW r \in Seq(Messages)
    PROVE  q \o r \in Seq(Messages)
  OBVIOUS

LEMMA LeadsFour ==
    ASSUME NEW A \in Seq(Messages), NEW B \in Seq(Messages), NEW E \in Seq(Messages),
           NEW F \in Seq(Messages), NEW start, NEW a, NEW b, NEW c, NEW end,
           Leads(A, start, a), Leads(B, a, b), Leads(E, b, c), Leads(F, c, end)
    PROVE  A \o B \o E \o F \in Seq(Messages) /\ Leads(A \o B \o E \o F, start, end)
  <1>1. PICK AB : AB = A \o B /\ AB \in Seq(Messages)
    BY ConcatType, Zenon
  <1>2. Leads(AB, start, b)
    BY <1>1, LeadsConcat
  <1>3. PICK AE : AE = AB \o E /\ AE \in Seq(Messages)
    BY <1>1, ConcatType, Zenon
  <1>4. Leads(AE, start, c)
    BY <1>1, <1>2, <1>3, LeadsConcat, Zenon
  <1>5. PICK AF : AF = AE \o F /\ AF \in Seq(Messages)
    BY <1>3, ConcatType, Zenon
  <1>6. Leads(AF, start, end)
    BY <1>3, <1>4, <1>5, LeadsConcat, Zenon
  <1> QED
    BY <1>1, <1>3, <1>5, <1>6

LEMMA TransitGapless ==
    ASSUME NEW x \in Sides, Typed(ci, net), Transit(ci, net, x)
    PROVE  Gapless(x)
  <1> DEFINE y == Peer(x)
             A == ci[y].wq
             B == ci[y].reasm
             E == net[x]
             F == ci[x].ctl
  <1>1. /\ A \in Seq(Messages) /\ B \in Seq(Messages)
        /\ E \in Seq(Messages) /\ F \in Seq(Messages)
    <2>1. y \in Sides /\ ci[y] \in Connections /\ ci[x] \in Connections /\ E \in Seq(Messages)
      BY PeerFacts DEF Typed
    <2>2. A \in Seq(Pieces) /\ B \in Seq(Pieces) /\ F \in Seq(Messages)
      BY <2>1, Zenon DEF Connections
    <2>3. Pieces \subseteq Messages
      BY DEF Pieces
    <2> QED
      BY <2>1, <2>2, <2>3, SeqSubset, SMTT(30)
  <1>2. PICK a \in Int, b \in Int, c \in Int :
            /\ Leads(A, ci[y].bytesRX, a) /\ Leads(B, a, b)
            /\ Leads(E, b, c) /\ Leads(F, c, ci[x].bytesTX)
    BY DEF Transit
  <1> DEFINE start == ci[y].bytesRX
             end == ci[x].bytesTX
  <1>0. Leads(A, start, a) /\ Leads(B, a, b) /\ Leads(E, b, c) /\ Leads(F, c, end)
    BY <1>2
  <1> HIDE DEF A, B, E, F, start, end
  <1>5. A \o B \o E \o F \in Seq(Messages) /\ Leads(A \o B \o E \o F, start, end)
    BY <1>0, <1>1, LeadsFour
  <1>6. PICK q \in Seq(Messages) : q = A \o B \o E \o F
    BY <1>5, Zenon
  <1>7. /\ \A i \in DataIn(q) : q[i].from = Reaches(q, i - 1, start)
        /\ Reaches(q, Len(q), start) = end
    BY <1>5, <1>6, LeadsInOrder, Zenon
  <1>8. q = InTransit(x)
    BY <1>6 DEF InTransit, A, B, E, F
  <1> QED
    BY <1>7, <1>8 DEF Gapless, start, end

(* The stream of x is in order and complete as long as its proxy has not   *)
(* given the connection up (SetDead) and the other has not freed it.       *)
InOrderWhileOpen ==
    \A x \in Sides :
        ~ci[x].dead /\ ci[x].status # "gone" /\ ci[Peer(x)].status # "gone" => Gapless(x)

(* Whatever the window, the buffers, the sizes of the pieces and the bytes *)
(* sent: what is queued, under way, waiting for its chunks and accepted by *)
(* the user adds up, in order, to what ProcessUserData took from the other *)
(* user.                                                                   *)
THEOREM StreamInOrder == Spec => []InOrderWhileOpen
  <1>1. Init => Inv /\ UserType
    <2>1. Init => UserType
      BY DEF Init, UserType, UserStates
    <2> QED
      BY <2>1, InitInv
  <1>2. Inv /\ UserType /\ [Next]_vars => (Inv /\ UserType)'
    BY NextInv
  <1>3. Inv => InOrderWhileOpen
    <2> SUFFICES ASSUME Inv, NEW x \in Sides,
                        ~ci[x].dead, ci[x].status # "gone", ci[Peer(x)].status # "gone"
                 PROVE  Gapless(x)
      BY DEF InOrderWhileOpen
    <2>1. Transit(ci, net, x)
      BY DEF Inv, FlowInv, Flows, Shut
    <2> QED
      BY <2>1, TransitGapless DEF Inv, FlowInv
  <1> QED
    BY <1>1, <1>2, <1>3, PTL DEF Spec

-----------------------------------------------------------------------------
(* The steps of the system.                                                *)
LEMMA KindsHere ==
    ASSUME Inv
    PROVE  Kinds(ci, net) /\ \A x \in Sides : ci[x] \in Conn(x) /\ ci[x] \in Connections
  BY Zenon DEF Inv, FlowInv, Typed, Kinds

LEMMA BoundInit ==
    ASSUME Init
    PROVE  Bound(ci, net)
  <1>1. \A x \in Sides : ci[x] = NoConnection /\ net[x] = <<>> /\ Peer(x) \in Sides
    BY PeerFacts DEF Init
  <1>2. PICK c : c = NoConnection
    BY Zenon
  <1>3. /\ c.numSent = 0 /\ c.bytesTX = 0 /\ c.lastAcked = 0 /\ c.lenRead = 0
        /\ c.failed = "no" /\ c.numBlocked = 0 /\ c.status = "none" /\ c.bytesRX = 0
        /\ c.ctl = <<>> /\ c.wq = <<>> /\ c.reasm = <<>>
    BY <1>2 DEF NoConnection
  <1>4. Within(c)
    BY <1>3, SizeAssumption DEF Within, Level
  <1>5. Got(c) + Bytes(<<>>) <= Gone(c)
    BY <1>3, BytesEmpty DEF Got, Gone
  <1>6. Climbs(<<>>, 0, 0)
    BY DEF Climbs
  <1>7. 0 \in Int
    OBVIOUS
  <1> QED
    BY <1>1, <1>2, <1>3, <1>4, <1>5, <1>6, <1>7, Zenon DEF Bound, Under, Acks

LEMMA StepStays ==
    ASSUME Inv, Bound(ci, net), NEW x \in Sides, NEW d, d \in Connections, Stays(ci[x], d),
           ci' = [ci EXCEPT ![x] = d], net' = net
    PROVE  Bound(ci', net')
  <1>1. Kinds(ci, net)
    BY KindsHere, Zenon
  <1>2. Bound([ci EXCEPT ![x] = d], net)
    BY <1>1, BoundStays, Zenon
  <1> QED
    BY <1>2, Zenon

LEMMA BufferBound ==
    ASSUME Inv, Bound(ci, net), NEW x \in Sides, BufferTimeoutCB(x) \/ ProcessReadBuffer(x)
    PROVE  Bound(ci', net')
  <1>1. net' = net /\ ci[x].failed = "no" /\ ci[x] \in Conn(x)
    BY KindsHere, Zenon DEF BufferTimeoutCB, ProcessReadBuffer, At
  <1>2. CASE ci' = ci
    BY <1>1, <1>2, Zenon
  <1>3. CASE \E force \in BOOLEAN : \E cuts \in Cuts(ci[x], x, force) :
                /\ Found(ci[x])
                /\ ci' = [ci EXCEPT ![x] = ProcessUserData(ci[x], x, cuts)]
    <2>0. PICK force \in BOOLEAN : \E cuts \in Cuts(ci[x], x, force) :
              /\ Found(ci[x])
              /\ ci' = [ci EXCEPT ![x] = ProcessUserData(ci[x], x, cuts)]
      BY <1>3, Zenon
    <2>1. PICK cuts \in Cuts(ci[x], x, force) :
              /\ Found(ci[x])
              /\ ci' = [ci EXCEPT ![x] = ProcessUserData(ci[x], x, cuts)]
      BY <2>0, Zenon
    <2>2. cuts \in Increasing(ci[x].lenRead)
      BY DEF Cuts
    <2>3. PICK d : d = ProcessUserData(ci[x], x, cuts)
      BY Zenon
    <2>4. d \in Connections /\ Stays(ci[x], d)
      BY <1>1, <2>1, <2>2, <2>3, StaysProcessUserData, Zenon
    <2> QED
      BY <1>1, <2>1, <2>3, <2>4, StepStays, Zenon
  <1>4. CASE BufferTimeoutCB(x)
    <2>1. Found(ci[x])
      <3>1. At(x, "timer")
        BY <1>4, Zenon DEF BufferTimeoutCB
      <3> QED
        BY <3>1, AtFacts, Zenon
    <2>2. TRUE \in BOOLEAN
      OBVIOUS
    <2>3. \E cuts \in Cuts(ci[x], x, TRUE) :
              ci' = [ci EXCEPT ![x] = ProcessUserData(ci[x], x, cuts)]
      BY <1>4, Zenon DEF BufferTimeoutCB
    <2> QED
      BY <1>3, <2>1, <2>2, <2>3, Zenon
  <1>5. CASE ProcessReadBuffer(x)
    <2>1. \/ ci' = ci
          \/ /\ Found(ci[x])
             /\ \E cuts \in Cuts(ci[x], x, FALSE) :
                   ci' = [ci EXCEPT ![x] = ProcessUserData(ci[x], x, cuts)]
      BY <1>5, Zenon DEF ProcessReadBuffer
    <2>2. FALSE \in BOOLEAN
      OBVIOUS
    <2> QED
      BY <1>2, <1>3, <2>1, <2>2, Zenon
  <1> QED
    BY <1>4, <1>5, Zenon

LEMMA ReadBound ==
    ASSUME Inv, UserType, Bound(ci, net), NEW x \in Sides, EventReadCB(x)
    PROVE  Bound(ci', net')
  <1>1. net' = net /\ ci[x].failed = "no" /\ Found(ci[x])
    BY DEF EventReadCB, At
  <1>2. ci[x] \in Conn(x) /\ ci[x] \in Connections /\ ci \in [Sides -> Connections]
    BY KindsHere, Zenon DEF Kinds
  <1>3. ci[x].lenRead \in Int
    BY <1>2, ConnNumbers, Zenon
  <1>4. CASE ReadData(x)
    <2>1. PICK n \in 1..user[x].input : /\ ci' = [ci EXCEPT ![x].lenRead = @ + n]
                                        /\ n <= RecvBuf - ci[x].lenRead
      BY <1>4, Zenon DEF ReadData
    <2>2. n \in Int
      <3>1. user[x].input \in Int
        BY DEF UserType
      <3> QED
        BY <2>1, <3>1
    <2>3. PICK v \in Int : v = ci[x].lenRead + n
      BY <1>3, <2>2
    <2>4. v <= RecvBuf
      BY <1>3, <2>1, <2>2, <2>3, SizeAssumption
    <2>5. PICK d : d = [ci[x] EXCEPT !.lenRead = v]
      BY Zenon
    <2>6. ci' = [ci EXCEPT ![x] = d]
      BY <1>2, <2>1, <2>3, <2>5
    <2>7. d \in Connections /\ Stays(ci[x], d)
      BY <1>2, <2>4, <2>5, StaysLenRead, Zenon
    <2> QED
      BY <1>1, <2>6, <2>7, StepStays, Zenon
  <1>5. CASE ReadEOF(x)
    <2>1. PICK cuts \in Cuts([ci[x] EXCEPT !.status = "done"], x, TRUE) :
              ci' = [ci EXCEPT ![x] = CloseConnection(ci[x], x, cuts)]
      BY <1>5, Zenon DEF ReadEOF
    <2>2. [ci[x] EXCEPT !.status = "done"].lenRead = ci[x].lenRead
      BY <1>2 DEF Connections
    <2>3. cuts \in Increasing(ci[x].lenRead)
      BY <2>1, <2>2 DEF Cuts
    <2>4. PICK d : d = CloseConnection(ci[x], x, cuts)
      BY Zenon
    <2>5. d \in Connections /\ Stays(ci[x], d)
      BY <1>1, <1>2, <2>3, <2>4, StaysCloseConnection, Zenon
    <2> QED
      BY <1>1, <2>1, <2>4, <2>5, StepStays, Zenon
  <1>6. CASE ReadError(x)
    <2>1. ci' = [ci EXCEPT ![x] = SetDead([ci[x] EXCEPT !.lenRead = ci[x].lenRead - 1], TRUE)]
      BY <1>6 DEF ReadError
    <2>2. PICK v \in Int : v = ci[x].lenRead - 1
      BY <1>3
    <2>3. v <= ci[x].lenRead
      BY <1>3, <2>2
    <2>4. PICK e : e = [ci[x] EXCEPT !.lenRead = v]
      BY Zenon
    <2>5. e \in Connections /\ Stays(ci[x], e)
      BY <1>2, <2>3, <2>4, StaysLenRead, Zenon
    <2>6. e \in Conn(x) /\ Found(e)
      <3>1. e.ctl = ci[x].ctl /\ e.status = ci[x].status
        BY <1>2, <2>4 DEF Connections
      <3> QED
        BY <1>1, <1>2, <2>5, <3>1 DEF Conn, Found
    <2>7. PICK d : d = SetDead(e, TRUE)
      BY Zenon
    <2>8. TRUE \in BOOLEAN
      OBVIOUS
    <2>9. d \in Connections /\ Stays(e, d)
      BY <2>6, <2>7, <2>8, StaysSetDead, Zenon
    <2>10. Stays(ci[x], d)
      BY <1>2, <2>5, <2>9, StaysTrans, Zenon
    <2>11. ci' = [ci EXCEPT ![x] = d]
      BY <2>1, <2>2, <2>4, <2>7, Zenon
    <2> QED
      BY <1>1, <2>9, <2>10, <2>11, StepStays, Zenon
  <1> QED
    BY <1>4, <1>5, <1>6, Zenon DEF EventReadCB

-----------------------------------------------------------------------------
(* A handler of a message: it is taken, then x works on its connection.    *)
LEMMA TakeStays ==
    ASSUME Inv, Bound(ci, net), NEW x \in Sides, net[Peer(x)] # <<>>,
           net' = [net EXCEPT ![Peer(x)] = Tail(@)],
           \/ ci' = ci
           \/ \E d \in Connections : Stays(ci[x], d) /\ ci' = [ci EXCEPT ![x] = d]
    PROVE  Bound(ci', net')
  <1>1. PICK M : M = [net EXCEPT ![Peer(x)] = Tail(@)]
    BY Zenon
  <1>2. Kinds(ci, M) /\ Bound(ci, M)
    BY <1>1, KindsHere, BoundTake, Zenon
  <1>3. CASE ci' = ci
    BY <1>1, <1>2, <1>3, Zenon
  <1>4. CASE \E d \in Connections : Stays(ci[x], d) /\ ci' = [ci EXCEPT ![x] = d]
    <2>1. PICK d \in Connections : Stays(ci[x], d) /\ ci' = [ci EXCEPT ![x] = d]
      BY <1>4, Zenon
    <2>2. Bound([ci EXCEPT ![x] = d], M)
      BY <1>2, <2>1, BoundStays, Zenon
    <2> QED
      BY <1>1, <2>1, <2>2, Zenon
  <1> QED
    BY <1>3, <1>4, Zenon

(* What is queued for the user may be written at once.                     *)
LEMMA QueueWriteBound ==
    ASSUME NEW x \in Sides, NEW c \in Conn(x), Found(c), NEW M,
           Kinds([ci EXCEPT ![x] = c], M), Bound([ci EXCEPT ![x] = c], M), ci \in [Sides -> Connections],
           NEW k \in Writable(c, x), ci' = [ci EXCEPT ![x] = Write(c, k, FALSE)], net' = M
    PROVE  Bound(ci', net')
  <1>1. PICK C : C = [ci EXCEPT ![x] = c]
    BY Zenon
  <1>2. C[x] = c /\ Kinds(C, M) /\ Bound(C, M)
    BY <1>1, Zenon
  <1>3. k \in -1..Len(c.wq) /\ FALSE \in BOOLEAN
    BY WritableRange, Zenon
  <1>4. PICK d : d = Write(c, k, FALSE)
    BY Zenon
  <1>5. d \in Connections /\ Stays(c, d)
    BY <1>3, <1>4, StaysWrite, Zenon
  <1>6. Bound([C EXCEPT ![x] = d], M)
    BY <1>2, <1>5, BoundStays, Zenon
  <1>7. ci' = [C EXCEPT ![x] = d]
    BY <1>1, <1>4, Zenon
  <1> QED
    BY <1>6, <1>7, Zenon

LEMMA RawBound ==
    ASSUME Inv, Bound(ci, net), NEW x \in Sides, ProcessRawMessage(x)
    PROVE  Bound(ci', net')
  <1>1. Receive(x, {"raw"})
    BY DEF ProcessRawMessage
  <1>2. /\ net[Peer(x)] # <<>> /\ Head(net[Peer(x)]).type = "raw"
        /\ net' = [net EXCEPT ![Peer(x)] = Tail(@)]
        /\ ci[x] \in Conn(x) /\ Head(net[Peer(x)]) \in Messages
    BY <1>1, ReceiveFacts
  <1>3. IsData(Head(net[Peer(x)]))
    BY <1>2 DEF IsData
  <1>4. CASE Found(ci[x])
    <2>1. PICK m \in Messages : m = Head(net[Peer(x)])
      BY <1>2
    <2>2. PICK c : c = Queue(ci[x], m)
      BY Zenon
    <2>3. PICK k \in Writable(c, x) : ci' = [ci EXCEPT ![x] = Write(c, k, FALSE)]
      BY <1>4, <2>1, <2>2, Zenon DEF ProcessRawMessage
    <2>4. PICK M : M = [net EXCEPT ![Peer(x)] = Tail(@)]
      BY Zenon
    <2>5. Kinds([ci EXCEPT ![x] = c], M) /\ Bound([ci EXCEPT ![x] = c], M)
      BY <1>2, <1>3, <2>1, <2>2, <2>4, KindsHere, BoundRaw, Zenon
    <2>6. m \in Pieces
      BY <1>3, <2>1, Zenon DEF Pieces
    <2>7. c \in Conn(x) /\ c.status = ci[x].status
      BY <1>2, <2>2, <2>6, QueueFields, Zenon
    <2>8. Found(c)
      BY <1>4, <2>7, Zenon DEF Found
    <2>9. ci \in [Sides -> Connections] /\ net' = M
      BY <1>2, <2>4, KindsHere, Zenon DEF Kinds
    <2> QED
      BY <2>3, <2>5, <2>7, <2>8, <2>9, QueueWriteBound, Zenon
  <1>5. CASE ~Found(ci[x])
    <2>1. ci' = ci
      BY <1>5 DEF ProcessRawMessage
    <2> QED
      BY <1>2, <2>1, TakeStays, Zenon
  <1> QED
    BY <1>4, <1>5, Zenon

LEMMA ReconstructBound ==
    ASSUME Inv, Bound(ci, net), NEW x \in Sides, ReconstructOneChunkTree(x)
    PROVE  Bound(ci', net')
  <1>1. Found(ci[x]) /\ ci[x].reasm # <<>> /\ net' = net
    BY DEF ReconstructOneChunkTree
  <1>2. Kinds(ci, net) /\ ci[x] \in Conn(x) /\ ci[x] \in Connections
    BY KindsHere, Zenon
  <1>3. PICK e : e = [ci[x] EXCEPT !.reasm = Tail(@)]
    BY Zenon
  <1>4. PICK p, r : p = ci[x].reasm /\ r = Tail(p)
    BY Zenon
  <1>5. p \in Seq(Pieces) /\ p # <<>>
    BY <1>1, <1>2, <1>4 DEF Connections
  <1>6. r \in Seq(Pieces) /\ Head(p) \in Pieces
    BY <1>4, <1>5
  <1>7. e = [ci[x] EXCEPT !.reasm = r]
    BY <1>3, <1>4, Zenon
  <1>8. e \in Connections /\ e.ctl = ci[x].ctl /\ e.status = ci[x].status
    BY <1>2, <1>6, <1>7, Zenon DEF Connections
  <1>9. e \in Conn(x)
    BY <1>2, <1>8 DEF Conn
  <1>10. PICK c : c = Queue(e, Head(p))
    BY Zenon
  <1>11. c \in Conn(x) /\ c.status = e.status
    BY <1>6, <1>9, <1>10, QueueFields, Zenon
  <1>12. Found(c)
    BY <1>1, <1>8, <1>11, Zenon DEF Found
  <1>13. PICK k \in Writable(c, x) : ci' = [ci EXCEPT ![x] = Write(c, k, FALSE)]
    BY <1>3, <1>4, <1>10, Zenon DEF ReconstructOneChunkTree
  <1>14. Kinds([ci EXCEPT ![x] = c], net) /\ Bound([ci EXCEPT ![x] = c], net)
    BY <1>1, <1>2, <1>3, <1>4, <1>10, BoundReconstruct, Zenon
  <1>15. ci \in [Sides -> Connections]
    BY <1>2, Zenon DEF Kinds
  <1>16. PICK M : M = net
    BY Zenon
  <1> QED
    BY <1>1, <1>11, <1>12, <1>13, <1>14, <1>15, <1>16, QueueWriteBound, Zenon

LEMMA ControlBound ==
    ASSUME Inv, Bound(ci, net), NEW x \in Sides, ProcessControlData(x)
    PROVE  Bound(ci', net')
  <1>0. Kinds(ci, net) /\ ci[x] \in Conn(x) /\ ci[x] \in Connections /\ ci \in [Sides -> Connections]
    BY KindsHere, Zenon DEF Kinds
  <1>1. CASE ProcessOpenConnection(x)
    <2>1. Receive(x, {"open"}) /\ ci' = [ci EXCEPT ![x].status = "active"]
      BY <1>1 DEF ProcessOpenConnection
    <2>2. net[Peer(x)] # <<>> /\ net' = [net EXCEPT ![Peer(x)] = Tail(@)]
      BY <2>1, ReceiveFacts
    <2>3. PICK d : d = [ci[x] EXCEPT !.status = "active"]
      BY Zenon
    <2>4. d \in Connections /\ Stays(ci[x], d)
      BY <1>0, <2>3, StaysActive, Zenon
    <2>5. ci' = [ci EXCEPT ![x] = d]
      BY <1>0, <2>1, <2>3
    <2> QED
      BY <2>2, <2>4, <2>5, TakeStays, Zenon
  <1>2. CASE ProcessRawMessage(x)
    BY <1>2, RawBound
  <1>3. CASE ProcessNameTreeDelivery2(x)
    <2>1. Receive(x, {"name"})
          /\ ci' = IF Found(ci[x])
                   THEN [ci EXCEPT ![x].reasm = Append(@, Head(net[Peer(x)]))] ELSE ci
      BY <1>3 DEF ProcessNameTreeDelivery2
    <2>2. /\ net[Peer(x)] # <<>> /\ Head(net[Peer(x)]).type = "name"
          /\ net' = [net EXCEPT ![Peer(x)] = Tail(@)]
      BY <2>1, ReceiveFacts
    <2>3. IsData(Head(net[Peer(x)]))
      BY <2>2 DEF IsData
    <2>4. CASE Found(ci[x])
      <3>1. ci' = [ci EXCEPT ![x].reasm = Append(@, Head(net[Peer(x)]))]
        BY <2>1, <2>4, Zenon
      <3> QED
        BY <1>0, <2>2, <2>3, <3>1, BoundName, Zenon
    <2>5. CASE ~Found(ci[x])
      <3>1. ci' = ci
        BY <2>1, <2>5, Zenon
      <3> QED
        BY <2>2, <3>1, TakeStays, Zenon
    <2> QED
      BY <2>4, <2>5, Zenon
  <1>4. CASE ProcessNameAck(x)
    <2>1. Receive(x, {"ack"})
          /\ ci' = IF Found(ci[x])
                   THEN [ci EXCEPT ![x] = NameAck(ci[x], Head(net[Peer(x)]).to)] ELSE ci
      BY <1>4, SMTT(30) DEF ProcessNameAck
    <2>2. /\ net[Peer(x)] # <<>> /\ Head(net[Peer(x)]).type = "ack"
          /\ net' = [net EXCEPT ![Peer(x)] = Tail(@)] /\ ci[x].failed = "no"
      BY <2>1, ReceiveFacts DEF Receive, At
    <2>3. CASE Found(ci[x])
      <3>1. ci' = [ci EXCEPT ![x] = NameAck(ci[x], Head(net[Peer(x)]).to)]
        BY <2>1, <2>3, Zenon
      <3> QED
        BY <1>0, <2>2, <2>3, <3>1, BoundAck, Zenon
    <2>4. CASE ~Found(ci[x])
      <3>1. ci' = ci
        BY <2>1, <2>4, Zenon
      <3> QED
        BY <2>2, <3>1, TakeStays, Zenon
    <2> QED
      BY <2>3, <2>4, Zenon
  <1>5. CASE ProcessCloseConnection(x)
    <2>1. Receive(x, {"close"})
          /\ ci' = IF Found(ci[x])
                   THEN [ci EXCEPT ![x] = PeerCloses(ci[x], Head(net[Peer(x)]).to)] ELSE ci
      BY <1>5 DEF ProcessCloseConnection
    <2>2. /\ net[Peer(x)] # <<>> /\ net' = [net EXCEPT ![Peer(x)] = Tail(@)]
          /\ Head(net[Peer(x)]) \in Messages
      BY <2>1, ReceiveFacts
    <2>3. PICK n \in Int : n = Head(net[Peer(x)]).to
      BY <2>2 DEF Messages
    <2>4. CASE Found(ci[x])
      <3>1. PICK d : d = PeerCloses(ci[x], n)
        BY Zenon
      <3>2. d \in Connections /\ Stays(ci[x], d)
        BY <1>0, <2>4, <3>1, StaysPeerCloses, Zenon
      <3>3. ci' = [ci EXCEPT ![x] = d]
        BY <2>1, <2>3, <2>4, <3>1, Zenon
      <3> QED
        BY <2>2, <3>2, <3>3, TakeStays, Zenon
    <2>5. CASE ~Found(ci[x])
      <3>1. ci' = ci
        BY <2>1, <2>5, Zenon
      <3> QED
        BY <2>2, <3>1, TakeStays, Zenon
    <2> QED
      BY <2>4, <2>5, Zenon
  <1> QED
    BY <1>1, <1>2, <1>3, <1>4, <1>5, Zenon DEF ProcessControlData

LEMMA WriteAndCleanUpBound ==
    ASSUME Inv, Bound(ci, net), NEW x \in Sides, NEW k, WriteAndCleanUp(x, k)
    PROVE  Bound(ci', net')
  <1>0. Kinds(ci, net) /\ ci[x] \in Conn(x) /\ ci[x] \in Connections /\ ci \in [Sides -> Connections]
    BY KindsHere, Zenon DEF Kinds
  <1>1. PICK c : c = ReconstructOriginalData(ci[x])
    BY Zenon
  <1>2. PICK d : d = [c EXCEPT !.ctl = <<>>]
    BY Zenon
  <1>3. PICK w : w = Write(d, k, TRUE)
    BY Zenon
  <1>4. /\ net' = [net EXCEPT ![x] = @ \o c.ctl]
        /\ k \in (IF Found(d) /\ "write" \in events[x] THEN Writable(d, x) ELSE {0})
        /\ ci' = [ci EXCEPT ![x] = CleanUpClosedConnections(w)]
    BY <1>1, <1>2, <1>3 DEF WriteAndCleanUp
  <1>5. c \in Connections /\ Stays(ci[x], c)
    <2>1. CASE Found(ci[x]) /\ c = SetDead(ci[x], FALSE)
      <3>1. FALSE \in BOOLEAN
        OBVIOUS
      <3> QED
        BY <1>0, <2>1, <3>1, StaysSetDead, Zenon
    <2>2. CASE c = ci[x]
      BY <1>0, <2>2, StaysRefl, Zenon
    <2> QED
      BY <1>1, <2>1, <2>2, Zenon DEF ReconstructOriginalData
  <1>6. PICK C1 : C1 = [ci EXCEPT ![x] = c]
    BY Zenon
  <1>7. Kinds(C1, net) /\ Bound(C1, net)
    BY <1>0, <1>5, <1>6, BoundStays, Zenon
  <1>8. C1[x] = c
    BY <1>0, <1>6, Zenon
  <1>9. PICK C2, M : C2 = [C1 EXCEPT ![x] = d] /\ M = [net EXCEPT ![x] = @ \o c.ctl]
    BY Zenon
  <1>10. Kinds(C2, M) /\ Bound(C2, M)
    <2>1. /\ C2 = [C1 EXCEPT ![x] = [C1[x] EXCEPT !.ctl = <<>>]]
          /\ M = [net EXCEPT ![x] = net[x] \o C1[x].ctl]
      BY <1>2, <1>8, <1>9, Zenon
    <2> QED
      BY <1>7, <2>1, BoundFlush, Zenon
  <1>11. C2[x] = d /\ d \in Connections
    BY <1>7, <1>9, <1>10, Zenon DEF Kinds
  <1>12. w \in Connections /\ Stays(d, w)
    <2>1. CASE Found(d)
      <3>1. d \in Conn(x)
        <4>1. d.ctl = <<>>
          BY <1>2, <1>5 DEF Connections
        <4>2. d.ctl \in Seq(Sent(x))
          BY <4>1
        <4> QED
          BY <1>11, <4>2, Zenon DEF Conn
      <3>2. Len(d.wq) \in Nat
        <4>1. d.wq \in Seq(Pieces)
          BY <1>11 DEF Connections
        <4> QED
          BY <4>1
      <3>3. k \in -1..Len(d.wq)
        <4>1. CASE "write" \in events[x]
          <5>1. k \in Writable(d, x)
            BY <1>4, <2>1, <4>1, Zenon
          <5> QED
            BY <3>1, <5>1, WritableRange, Zenon
        <4>2. CASE ~("write" \in events[x])
          <5>1. k = 0
            BY <1>4, <4>2
          <5> QED
            BY <3>2, <5>1, SMTT(30)
        <4> QED
          BY <4>1, <4>2, Zenon
      <3>4. TRUE \in BOOLEAN
        OBVIOUS
      <3> QED
        BY <1>3, <2>1, <3>1, <3>3, <3>4, StaysWrite, Zenon
    <2>2. CASE ~Found(d)
      <3>1. k = 0
        BY <1>4, <2>2
      <3>2. w = d
        BY <1>3, <3>1 DEF Write
      <3> QED
        BY <1>11, <3>2, StaysRefl, Zenon
    <2> QED
      BY <2>1, <2>2, Zenon
  <1>13. PICK v : v = CleanUpClosedConnections(w)
    BY Zenon
  <1>14. v \in Connections /\ Stays(d, v)
    BY <1>11, <1>12, <1>13, StaysCleanUp, StaysTrans, Zenon
  <1>15. Bound([C2 EXCEPT ![x] = v], M)
    BY <1>10, <1>11, <1>14, BoundStays, Zenon
  <1>16. ci' = [C2 EXCEPT ![x] = v] /\ net' = M
    BY <1>0, <1>4, <1>6, <1>9, <1>13, Zenon
  <1> QED
    BY <1>15, <1>16, Zenon

LEMMA OpenUserBound ==
    ASSUME Inv, Bound(ci, net), OpenUserConnection
    PROVE  Bound(ci', net')
  <1>0. "R" \in Sides
    BY DEF Sides
  <1>1. ci["R"].status = "none" /\ net' = net
        /\ ci' = [ci EXCEPT !["R"].status = "active", !["R"].ctl = <<Msg("open", 0, 0)>>]
    BY DEF OpenUserConnection
  <1>2. ci \in [Sides -> Connections]
    BY KindsHere, Zenon DEF Kinds
  <1>3. PICK c \in Connections : c = ci["R"]
    BY <1>0, <1>2, Zenon
  <1>4. c.ctl = <<>>
    <2>1. ci["R"] = NoConnection
      BY <1>0, <1>1, SMTT(30) DEF Inv, FlowInv, Opening, Fresh
    <2>2. NoConnection.ctl = <<>>
      BY DEF NoConnection
    <2> QED
      BY <1>3, <2>1, <2>2, Zenon
  <1>5. PICK m : m = Msg("open", 0, 0)
    BY Zenon
  <1>6. m \in Messages /\ ~IsData(m) /\ m.type # "ack"
    BY <1>5 DEF Msg, Messages, Types, IsData
  <1>7. PICK e : e = [c EXCEPT !.ctl = Append(@, m)]
    BY Zenon
  <1>8. e \in Connections /\ Stays(c, e)
    BY <1>6, <1>7, StaysSend, Zenon
  <1>9. PICK d : d = [e EXCEPT !.status = "active"]
    BY Zenon
  <1>10. d \in Connections /\ Stays(e, d)
    BY <1>8, <1>9, StaysActive, Zenon
  <1>11. Stays(ci["R"], d)
    BY <1>3, <1>8, <1>10, StaysTrans, Zenon
  <1>12. ci' = [ci EXCEPT !["R"] = d]
    <2>1. PICK q : q = <<m>>
      BY Zenon
    <2>2. Append(c.ctl, m) = q
      BY <1>4, <2>1
    <2>3. e = [c EXCEPT !.ctl = q]
      BY <1>7, <2>2, Zenon
    <2>4. d = [c EXCEPT !.status = "active", !.ctl = q]
      BY <1>9, <2>3, Zenon DEF Connections
    <2>5. ci' = [ci EXCEPT !["R"].status = "active", !["R"].ctl = q]
      BY <1>1, <1>5, <2>1, Zenon
    <2> QED
      BY <1>0, <1>2, <1>3, <2>4, <2>5, Zenon
  <1> QED
    BY <1>0, <1>1, <1>10, <1>11, <1>12, StepStays, Zenon

LEMMA NextBound ==
    ASSUME Inv, UserType, Bound(ci, net), [Next]_vars
    PROVE  Bound(ci', net')
  <1>1. CASE ci' = ci /\ net' = net
    BY <1>1, Zenon
  <1>2. CASE vars' = vars
    BY <1>1, <1>2 DEF vars
  <1>3. CASE Users
    <2>1. CASE OpenUserConnection
      BY <2>1, OpenUserBound
    <2>2. CASE \E x \in Sides : UserSends(x) \/ UserCloses(x) \/ UserResets(x)
      BY <1>1, <2>2 DEF UserSends, UserCloses, UserResets
    <2> QED
      BY <1>3, <2>1, <2>2, Zenon DEF Users
  <1>4. ASSUME NEW x \in Sides, Loop(x) PROVE Bound(ci', net')
    <2>1. CASE MainLoop(x, <<>>) \/ MainLoop(x, <<"timer">>)
      BY <1>1, <2>1, Zenon DEF MainLoop
    <2>2. CASE BufferTimeoutCB(x) \/ ProcessReadBuffer(x)
      BY <2>2, BufferBound
    <2>3. CASE EventReadCB(x)
      BY <2>3, ReadBound
    <2>4. CASE ProcessControlData(x)
      BY <2>4, ControlBound
    <2>5. CASE NoReadEvent(x) \/ ControlDone(x)
      BY <1>1, <2>5 DEF NoReadEvent, ControlDone
    <2>6. CASE ReconstructOneChunkTree(x)
      BY <2>6, ReconstructBound
    <2>7. CASE \E k \in -1..Len(ci[x].wq) : WriteAndCleanUp(x, k)
      BY <2>7, WriteAndCleanUpBound
    <2> QED
      BY <1>4, <2>1, <2>2, <2>3, <2>4, <2>5, <2>6, <2>7, Zenon DEF Loop
  <1> QED
    BY <1>2, <1>3, <1>4, Zenon DEF Next

(* The window of the sender bounds what can pile up at the receiver: the   *)
(* user write buffer is never found full ("user write buffer full" in      *)
(* SendDataPrivate), whatever the user does not read, for every window and *)
(* read buffer that SizeAssumption admits.                                 *)
THEOREM WriteBufferHolds == Spec => []WriteBufferNeverFull
  <1> DEFINE BoundHere == Bound(ci, net)
  <1>1. Init => Inv /\ UserType /\ BoundHere
    <2>1. Init => UserType
      BY DEF Init, UserType, UserStates
    <2> QED
      BY <2>1, InitInv, BoundInit
  <1>2. Inv /\ UserType /\ BoundHere /\ [Next]_vars => (Inv /\ UserType /\ BoundHere)'
    BY NextInv, NextBound
  <1>3. BoundHere => WriteBufferNeverFull
    BY Zenon DEF Bound, Within, WriteBufferNeverFull
  <1> HIDE DEF BoundHere
  <1> QED
    BY <1>1, <1>2, <1>3, PTL DEF Spec
=============================================================================

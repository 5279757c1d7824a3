-------------------------------- MODULE Peers --------------------------------
(***************************************************************************)
(* Which peers a proxy takes to be alive: the ping and pong datagrams, the *)
(* timer that expires silent peers, the writes that count as a sign of     *)
(* life, and the peers that connect without being configured.  From        *)
(* waprox/peer.c, and WriteToNamePeer, WriteToChunkPeer, SocketAcceptCB    *)
(* and TimerCB of waprox/waprox.c.                                         *)
(*                                                                         *)
(* Time goes in intervals of the timer (TimerInterval, 5 s).  The timer of *)
(* a running proxy fires once in each, at any moment of it, and a datagram *)
(* arrives within its interval, in any order, or is lost.  A proxy that    *)
(* has stopped takes no step any more.                                     *)
(***************************************************************************)
EXTENDS Integers, FiniteSets

CONSTANTS Conf,         \* the proxies of the peer file, the same everywhere
          First,        \* g_FirstPeerIdx: the fixed destination, S-Waprox
          Strangers,    \* proxies that are in nobody's peer file
          Visits,       \* <<n, p>>: stranger p may connect to proxy n
          PingTimeout,  \* PING_TIMEOUT, in intervals (3 in the code)
          MaxLost,      \* datagrams lost (bound of the model)
          MaxWrites     \* name and chunk messages (bound of the model)

Proxies == Conf \cup Strangers

ASSUME PeersAssumption == /\ First \in Conf /\ Conf \cap Strangers = {}
                          /\ Visits \subseteq Conf \X Strangers
                          /\ IsFiniteSet(Conf) /\ IsFiniteSet(Strangers)
                          /\ PingTimeout \in Nat \ {0}
                          /\ MaxLost \in Nat /\ MaxWrites \in Nat

VARIABLES
    known,     \* g_PeerInfo[0..g_NumPeers-1] of each configured proxy
    alive,     \* the entries of it with isAlive
    numLive,   \* g_NumLivePeers
    age,       \* intervals since lastPingTime, at most PingTimeout, which is
               \*   also the age of an entry that was never set (calloc)
    due,       \* proxies whose timer has not yet fired in this interval
    net,       \* datagrams sent in this interval and not yet received
    lost,      \* datagrams lost so far
    writes,    \* messages written to peers so far
    stopped    \* proxies that have stopped

table == <<known, alive, numLive, age>>
vars  == <<table, due, net, lost, writes, stopped>>

Ping(from, to) == [isPing |-> TRUE, from |-> from, to |-> to]
Pong(from, to) == [isPing |-> FALSE, from |-> from, to |-> to]
Datagrams == [isPing : BOOLEAN, from : Proxies, to : Proxies]

(* UpdatePeerLiveness increments g_NumLivePeers for a peer that was dead.  *)
CountTwice(A, ps) == Cardinality(ps)                            \* mutant
NewlyAlive(A, ps) == Cardinality(ps \ A)

UpdatePeerLiveness(n, p) ==
    /\ alive' = [alive EXCEPT ![n] = @ \cup {p}]
    /\ numLive' = [numLive EXCEPT ![n] = @ + NewlyAlive(alive[n], {p})]
    /\ age' = [age EXCEPT ![n] = [@ EXCEPT ![p] = 0]]

(* A proxy has read its peer file and its first timer is yet to fire.      *)
Init == /\ known = [n \in Conf |-> Conf]
        /\ alive = [n \in Conf |-> {}]
        /\ numLive = [n \in Conf |-> 0]
        /\ age = [n \in Conf |-> [p \in Proxies |-> PingTimeout]]
        /\ due = Conf
        /\ net = {} /\ lost = 0 /\ writes = 0 /\ stopped = {}
-----------------------------------------------------------------------------
(* The timer: ping everybody but the proxy itself and the fixed            *)
(* destination, expire the silent ones, then make these two alive.         *)
OnlySelf(n) == {n}                                              \* mutant
Always(n) == {n, First}
ExpiresEarly(n) == {p \in known[n] \cap alive[n] : age[n][p] + 1 >= PingTimeout}  \* mutant
NoneExpires(n) == {}                                            \* mutant
Expired(n) == {p \in known[n] \cap alive[n] : age[n][p] >= PingTimeout}
Pinged(n) == known[n] \ {n, First}

CheckNodeStatus(n) ==
    LET left == alive[n] \ Expired(n)
    IN  /\ n \in due /\ due' = due \ {n}
        /\ net' = net \cup {Ping(n, p) : p \in Pinged(n)}
        /\ alive' = [alive EXCEPT ![n] = left \cup Always(n)]
        /\ numLive' = [numLive EXCEPT ![n] =
               @ - Cardinality(Expired(n)) + NewlyAlive(left, Always(n))]
        /\ age' = [age EXCEPT ![n] = [p \in Proxies |->
                      IF p \in Always(n) THEN 0 ELSE age[n][p]]]
        /\ UNCHANGED <<known, lost, writes, stopped>>

(* Before its first timer a proxy is still in InitializeProxy.             *)
Started(n) == n \notin stopped /\ n \in alive[n]

(* A datagram from a proxy that is not known is ignored.  A ping is        *)
(* answered, unless it comes from the fixed destination.                   *)
ProcessPing(m) ==
    /\ m \in net /\ m.to \in Conf /\ Started(m.to)
    /\ IF m.from \in known[m.to]
       THEN /\ UpdatePeerLiveness(m.to, m.from)
            /\ net' = (net \ {m}) \cup {a \in {Pong(m.to, m.from)} :
                                           m.isPing /\ m.from # First}
            /\ UNCHANGED known
       ELSE net' = net \ {m} /\ UNCHANGED table
    /\ UNCHANGED <<due, lost, writes, stopped>>

(* A datagram is lost, or its receiver is not there, or it is a stranger,  *)
(* who answers or does not.                                                *)
Lose(m) == /\ m \in net /\ lost < MaxLost
           /\ net' = net \ {m} /\ lost' = lost + 1
           /\ UNCHANGED <<table, due, writes, stopped>>
StrangerAnswers(m) == /\ m \in net /\ m.to \in Strangers
                      /\ net' = (net \ {m}) \cup {Pong(m.to, m.from)}
                      /\ UNCHANGED <<table, due, lost, writes, stopped>>
Unreceived(m) == /\ m \in net /\ (m.to \in Conf => m.to \in stopped)
                 /\ net' = net \ {m}
                 /\ UNCHANGED <<table, due, lost, writes, stopped>>

(* WriteToNamePeer, WriteToChunkPeer: a peer that is written to is alive.  *)
WriteToPeer(n, p) ==
    /\ Started(n) /\ writes < MaxWrites
    /\ p \in known[n] \ {n}
    /\ UpdatePeerLiveness(n, p)
    /\ writes' = writes + 1
    /\ UNCHANGED <<known, due, net, lost, stopped>>

(* A connection is accepted from a proxy that is not known.                *)
AddUnknownPeerInfo(n, p) ==
    /\ Started(n) /\ <<n, p>> \in Visits /\ p \notin known[n]
    /\ known' = [known EXCEPT ![n] = @ \cup {p}]
    /\ alive' = [alive EXCEPT ![n] = @ \cup {p}]
    /\ UNCHANGED <<numLive, age, due, net, lost, writes, stopped>>

Stop(n) == /\ n \notin stopped
           /\ stopped' = stopped \cup {n} /\ due' = due \ {n}
           /\ UNCHANGED <<table, net, lost, writes>>

NextInterval ==
    /\ due = {} /\ net = {}
    /\ due' = Conf \ stopped
    /\ age' = [n \in Conf |-> [p \in Proxies |->
                  IF age[n][p] < PingTimeout THEN age[n][p] + 1 ELSE PingTimeout]]
    /\ UNCHANGED <<known, alive, numLive, net, lost, writes, stopped>>

Next == \/ \E n \in Conf : \/ CheckNodeStatus(n)
                           \/ Stop(n)
                           \/ \E p \in Proxies : \/ WriteToPeer(n, p)
                                                 \/ AddUnknownPeerInfo(n, p)
        \/ \E m \in net : \/ ProcessPing(m) \/ Lose(m)
                          \/ Unreceived(m) \/ StrangerAnswers(m)
        \/ NextInterval

Spec == Init /\ [][Next]_vars

(* The timer is an event of the main loop, and a proxy that is up reads    *)
(* its ping socket in every round of it.  An interval has finitely many    *)
(* steps, so weak fairness of these means that intervals follow another    *)
(* for as long as some proxy is up.                                        *)
LiveSpec == /\ Spec
            /\ \/ []<><<NextInterval>>_vars
               \/ <>[](stopped = Conf)
-----------------------------------------------------------------------------
TypeOK == /\ known \in [Conf -> SUBSET Proxies]
          /\ alive \in [Conf -> SUBSET Proxies]
          /\ numLive \in [Conf -> Int]
          /\ age \in [Conf -> [Proxies -> 0..PingTimeout]]
          /\ due \subseteq Conf /\ stopped \subseteq Conf
          /\ net \subseteq Datagrams
          /\ lost \in 0..MaxLost /\ writes \in 0..MaxWrites

(* g_NumLivePeers is the number of peers with isAlive, whatever order the  *)
(* timer, the datagrams and the writes come in, short of one for each peer *)
(* that connected without being configured.  Without such peers neither    *)
(* assert on it fails (peer.c 401 and 501).                                *)
LiveCount == \A n \in Conf :
    /\ numLive[n] + Cardinality(known[n] \ Conf) = Cardinality(alive[n])
    /\ alive[n] \subseteq known[n]

(* HRW hashing has a peer to pick at every receiver ("no live peer" ends   *)
(* the program): the fixed destination is alive whenever a handler runs,   *)
(* though no ping ever goes to it.                                         *)
PeerToPick == \A n \in Conf \ {First} : Started(n) => First \in alive[n] \ {n}

(* A receiver does not drop a peer that is up because of a few lost        *)
(* datagrams: it hears of it by its ping and by its pong in each interval. *)
(* (The fixed destination does: nobody pings it or answers its pings.)     *)
DropsOnlyTheStopped ==
    [][\A n \in Conf \ {First} : \A p \in (alive[n] \cap Conf) \ alive'[n] : p \in stopped]_vars

(* A peer that has stopped is not alive for long, once nothing is written  *)
(* to it.                                                                  *)
StoppedIsDropped ==
    \A n \in Conf, p \in Conf \ {First} :
        p \in stopped ~> (n \in stopped \/ p \notin alive[n])
=============================================================================

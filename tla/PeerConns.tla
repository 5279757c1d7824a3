----------------------------- MODULE PeerConns -----------------------------
(***************************************************************************)
(* The connections between two proxies: each keeps a row of slots for the  *)
(* other, opens connections when it writes and its first slot is empty,    *)
(* accepts what the other opens into its own empty slots, and closes what  *)
(* it has no room for.  Name messages of a user always take the slot of    *)
(* the user; chunk messages take the next slot in turn.  From waprox.c,    *)
(* peer.c and connection.c (build without SCTP).                           *)
(***************************************************************************)
EXTENDS Integers, Sequences, FiniteSets, Functions

CONSTANTS Proxies, Other,       \* two proxies, and the other one of each
          g_MaxPeerConns,       \* slots in a row
          Kinds,                \* of {"name", "chunk"}: the rows to look at
          MaxConns, MaxBreaks, MaxWrites     \* bounds of the model

ASSUME PeerConnsAssumption ==
    /\ Other \in [Proxies -> Proxies]
    /\ \A p \in Proxies : Other[p] # p /\ Proxies = {p, Other[p]}
    /\ g_MaxPeerConns \in Nat \ {0} /\ Kinds \subseteq {"name", "chunk"}
    /\ MaxWrites \in [Proxies -> Nat] /\ {MaxConns, MaxBreaks} \subseteq Nat

VARIABLES kind,       \* nameCI or chunkCI; the rows do not interact
          slot,       \* nameCI[], chunkCI[] of each proxy
          flowID,     \* chunkFlowID of each proxy
          conns,      \* connections opened so far
          end,        \* the state of the two ends of each connection
          listen,     \* connections that wait to be accepted
          chan,       \* what is on its way to each end
          writes,     \* messages of each proxy so far
          got,        \* history: what each proxy has read
          opened,     \* history: the proxies that opened connections
          breaks,     \* connections the network has broken
          failed      \* proxies that wrote to an empty slot, and died

row == <<slot, flowID, conns, end, listen>>
vars == <<kind, row, chan, writes, got, opened, breaks, failed>>

Conns == 1 .. MaxConns
NULL == 0
Flow == 0 .. g_MaxPeerConns - 1

Init == /\ kind \in Kinds
        /\ slot = [p \in Proxies |-> [f \in Flow |-> NULL]]
        /\ flowID = [p \in Proxies |-> 0]
        /\ conns = 0
        /\ end = [c \in Conns |-> [p \in Proxies |-> "none"]]
        /\ listen = [p \in Proxies |-> <<>>]
        /\ chan = [c \in Conns |-> [p \in Proxies |-> <<>>]]
        /\ writes = [p \in Proxies |-> 0] /\ got = [p \in Proxies |-> <<>>]
        /\ opened = {} /\ breaks = {} /\ failed = {}
-----------------------------------------------------------------------------
(* The slots WriteToNamePeer and WriteToChunkPeer connect: every empty     *)
(* one, but only when the first is empty.                                  *)
FirstOnly(s) == {f \in Flow : f = 0 /\ s[f] = NULL}                  \* mutant
ToConnect(s) == {f \in Flow : s[0] = NULL /\ s[f] = NULL}

(* The connections are made in the order of the slots.                     *)
NewConn(s, f) == conns + Cardinality({g \in ToConnect(s) : g <= f})
Connected(s) == [f \in Flow |-> IF f \in ToConnect(s) THEN NewConn(s, f) ELSE s[f]]
NewConns(s) == [i \in 1 .. Cardinality(ToConnect(s)) |-> conns + i]

(* GetNextChunkFlowID: the next slot in turn that has a connection.        *)
Turn(p, k) == (flowID[p] + k) % g_MaxPeerConns
NoSearch(p, s) == Turn(p, 1)                                         \* mutant
GetNextChunkFlowID(p, s) ==
    LET full == {k \in 1 .. g_MaxPeerConns : s[Turn(p, k)] # NULL}
    IN  IF full = {} THEN Turn(p, g_MaxPeerConns)
        ELSE Turn(p, CHOOSE k \in full : \A j \in full : k <= j)

(* The slot of a message; that of a name message belongs to its user.      *)
NextInTurn(p, s, user) == GetNextChunkFlowID(p, s)                   \* mutant
FlowOf(p, s, user) == IF kind = "chunk" THEN GetNextChunkFlowID(p, s) ELSE user

(* A connection is established when the other proxy's kernel has it in its *)
(* queue.  What is written to an end that is dead stays in its buffer, and *)
(* what is written to a connection the other has closed goes nowhere.      *)
CanReach(c, p) == /\ end[c][p] \in {"none", "open"} /\ c \notin breaks
                  /\ end[c][Other[p]] \in {"none", "open"}

Write(p, user) ==
    LET s == Connected(slot[p])
        f == FlowOf(p, s, user)
        c == s[f]
        msg == [user |-> user, no |-> writes[p] + 1]
    IN  /\ p \notin failed /\ writes[p] < MaxWrites[p]
        /\ kind = "chunk" => user = 0
        /\ conns + Len(NewConns(slot[p])) <= MaxConns
        /\ slot' = [slot EXCEPT ![p] = s]
        /\ flowID' = IF kind = "chunk" THEN [flowID EXCEPT ![p] = f] ELSE flowID
        /\ conns' = conns + Len(NewConns(slot[p]))
        /\ end' = [d \in Conns |-> IF d \in conns + 1 .. conns'
                                   THEN [end[d] EXCEPT ![p] = "open"] ELSE end[d]]
        /\ listen' = [listen EXCEPT ![Other[p]] = @ \o NewConns(slot[p])]
        /\ opened' = IF ToConnect(slot[p]) = {} THEN opened ELSE opened \cup {p}
        /\ writes' = [writes EXCEPT ![p] = @ + 1]
        /\ IF c = NULL
           THEN failed' = failed \cup {p} /\ chan' = chan
           ELSE /\ failed' = failed
                /\ chan' = IF CanReach(c, p)
                           THEN [chan EXCEPT ![c][Other[p]] = Append(@, msg)]
                           ELSE chan
        /\ UNCHANGED <<kind, got, breaks>>

(* SocketAcceptCB: the first empty slot, or none.                          *)
MissesLast(s) == {f \in Flow : s[f] = NULL /\ f < g_MaxPeerConns - 1} \* mutant
EmptySlots(s) == {f \in Flow : s[f] = NULL}

Refused == "closed"

SocketAcceptCB(p) ==
    LET c == Head(listen[p])
        free == EmptySlots(slot[p])
        i == CHOOSE f \in free : \A g \in free : f <= g
    IN  /\ p \notin failed /\ listen[p] # <<>>
        /\ listen' = [listen EXCEPT ![p] = Tail(@)]
        /\ IF free = {}
           THEN /\ end' = [end EXCEPT ![c][p] = Refused]
                /\ chan' = [chan EXCEPT ![c][p] = <<>>]
                /\ UNCHANGED slot
           ELSE /\ end' = [end EXCEPT ![c][p] = "open"]
                /\ slot' = [slot EXCEPT ![p][i] = c]
                /\ UNCHANGED chan
        /\ UNCHANGED <<kind, flowID, conns, writes, got, opened, breaks, failed>>

(* A message is read and processed.                                        *)
Read(p, c) ==
    /\ p \notin failed /\ end[c][p] = "open" /\ chan[c][p] # <<>>
    /\ got' = [got EXCEPT ![p] = Append(@, Head(chan[c][p]))]
    /\ chan' = [chan EXCEPT ![c][p] = Tail(@)]
    /\ UNCHANGED <<kind, row, writes, opened, breaks, failed>>

(* read returns 0, or an error: CloseConnection and SetDead.               *)
ReadEnds(p, c) ==
    /\ p \notin failed /\ end[c][p] = "open" /\ chan[c][p] = <<>>
    /\ c \in breaks \/ end[c][Other[p]] = "closed"
    /\ end' = [end EXCEPT ![c][p] = "dead"]
    /\ UNCHANGED <<kind, slot, flowID, conns, listen, chan, writes, got, opened,
                   breaks, failed>>

(* The dead are destroyed at the end of the turn of the main loop.         *)
ClearSlot(s, c) == [f \in Flow |-> IF s[f] = c THEN NULL ELSE s[f]]

DestroyConnectionInfo(p, c) ==
    /\ p \notin failed /\ end[c][p] = "dead"
    /\ end' = [end EXCEPT ![c][p] = "closed"]
    /\ slot' = [slot EXCEPT ![p] = ClearSlot(@, c)]
    /\ UNCHANGED <<kind, flowID, conns, listen, chan, writes, got, opened, breaks,
                   failed>>

(* The network breaks a connection, and what was on it is gone.            *)
Break(c) ==
    /\ Cardinality(breaks) < MaxBreaks /\ c <= conns /\ c \notin breaks
    /\ \E p \in Proxies : end[c][p] = "open"
    /\ breaks' = breaks \cup {c}
    /\ chan' = [chan EXCEPT ![c] = [p \in Proxies |-> <<>>]]
    /\ UNCHANGED <<kind, row, writes, got, opened, failed>>

Next == \/ \E p \in Proxies : \/ \E user \in Flow : Write(p, user)
                              \/ SocketAcceptCB(p)
                              \/ \E c \in Conns : \/ Read(p, c) \/ ReadEnds(p, c)
                                                  \/ DestroyConnectionInfo(p, c)
        \/ \E c \in Conns : Break(c)

Spec == Init /\ [][Next]_vars

-----------------------------------------------------------------------------
(* The types of the variables; a connection is in the slot of an end that  *)
(* is open or dead, and in one slot only.                                  *)
Attached(p, c) == end[c][p] \in {"open", "dead"}
TypeOK == /\ kind \in Kinds /\ conns \in 0 .. MaxConns
          /\ slot \in [Proxies -> [Flow -> Conns \cup {NULL}]]
          /\ flowID \in [Proxies -> Flow]
          /\ end \in [Conns -> [Proxies -> {"none", "open", "dead", "closed"}]]
          /\ opened \subseteq Proxies /\ failed \subseteq Proxies
          /\ \A p \in Proxies, c \in Conns :
               Attached(p, c) <=> Cardinality({f \in Flow : slot[p][f] = c}) = 1

(* GetNextChunkFlowID asserts that the slot it returns has a connection,   *)
(* and it has: the first slot was filled before it looked.                 *)
ChunkSlotFound == kind = "chunk" => failed = {}

(* A name message finds the slot of its user empty only when the proxy has *)
(* a connection in its first slot and either has others still to accept,   *)
(* or a connection of the row has been closed.  Such a slot is not filled  *)
(* again until the first one is empty.                                     *)
EmptySlotOnlyIf ==
    \A p \in failed : /\ slot[p][0] # NULL
                      /\ \/ listen[p] # <<>>
                         \/ \E c \in Conns : end[c][p] = "closed"

(* Messages that a proxy wrote and that can no longer be read.             *)
OnTheWay(q) == UNION {Range(chan[c][q]) :
                        c \in {d \in Conns : end[d][q] \in {"none", "open"}}}
Arrived(q) == {m.no : m \in Range(got[q]) \cup OnTheWay(q)}
Lost(p) == (1 .. writes[p]) \ Arrived(Other[p])

(* A message is lost only when a connection breaks, when both proxies      *)
(* opened connections to each other at once, so that each had no room for  *)
(* the other's, or when the writer died of it.                             *)
LostOnlyIf == \A p \in Proxies : Lost(p) # {} =>
                 breaks # {} \/ opened = Proxies \/ failed # {}

(* The name messages of a user are read in the order they were written,    *)
(* whatever connections came and went: UserFlow relies on it.              *)
FlowOrder ==
    kind = "name" => \A p \in Proxies : \A i, j \in DOMAIN got[p] :
        i < j /\ got[p][i].user = got[p][j].user => got[p][i].no < got[p][j].no

=============================================================================

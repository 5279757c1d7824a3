------------------------------ MODULE UserFlow ------------------------------
(***************************************************************************)
(* One user connection through a pair of proxies: user - R - S - server.   *)
(* R is the proxy that accepted the user, S the one that connected to the  *)
(* server.  The module has the flow control window, the acknowledgements,  *)
(* the opening and the close protocol.  From waprox/waprox.c (the user     *)
(* half of the handlers) and waprox/connection.c.                          *)
(*                                                                         *)
(* A proxy is one thread that repeats a loop: timer, read events, write    *)
(* events, clean-up.  todo holds what is left of the current iteration of  *)
(* proxy turn.  The proxies share nothing but the FIFO control connection, *)
(* and users and proxies only sockets, so an iteration is never interleaved*)
(* with another: every step of the others commutes with it.                *)
(*                                                                         *)
(* Bytes are counted, not stored: a piece of a stream is the interval of   *)
(* its offsets.  Data from R is sent as it is (raw); data from S as chunk  *)
(* names (ServerChunking), whose bodies R must find before it can go on.   *)
(***************************************************************************)
EXTENDS Integers, Sequences

CONSTANTS Window,      \* maxWindowSize
          HighWater,   \* maxWindowSize * 0.8: stop reading beyond
          Threshold,   \* maxWindowSize * 0.2: free space to read again
          RecvBuf,     \* RECV_BUFSIZE
          MinRabin,    \* MIN_RABIN_BUFSIZE: S waits for so much before it chunks
          MaxChunk,    \* MAX_CHUNK_SIZE: the most one chunk tree covers
          SkipFirst,   \* g_SkipFirstChunk: the first piece of S goes raw
          MaxBytes,    \* bound: bytes each user sends
          MayClose,    \* the users that may close their socket
          MayReset     \* the users whose socket may fail

Sides == {"R", "S"}
Peer(x) == IF x = "R" THEN "S" ELSE "R"

ASSUME SizeAssumption ==
    /\ Window \in Nat \ {0} /\ RecvBuf \in Nat \ {0}
    /\ MinRabin \in Nat /\ MaxChunk \in Nat \ {0}
    /\ HighWater \in 0..Window /\ Threshold \in 0..Window
    /\ HighWater + 2 * RecvBuf < 2 * Window
    /\ Window - Threshold <= HighWater
ASSUME UserAssumption ==
    /\ SkipFirst \in BOOLEAN /\ MaxBytes \in [Sides -> Nat]
    /\ MayClose \subseteq Sides /\ MayReset \subseteq Sides

VARIABLES
    ci,      \* per proxy: the ConnectionInfo and UserConnectionInfo
    user,    \* per proxy: its user's socket (bytes sent, bytes unread, state)
    net,     \* net[x]: messages on the control connection from x
    events,  \* per proxy: the registered events (esRead, esWrite)
    turn,    \* the proxy whose loop runs
    todo     \* the rest of its iteration

vars == <<ci, user, net, events, turn, todo>>

\* A message: open, raw and name (an interval), ack and close (an offset).
Msg(type, from, to) == [type |-> type, from |-> from, to |-> to]
IsData(m) == m.type \in {"raw", "name"}
Size(p)   == p.to - p.from

\* lenWrite: the bytes in msgListWrite.
LenWrite(q) ==
    LET sum[i \in 0..Len(q)] == IF i = 0 THEN 0 ELSE sum[i-1] + Size(q[i])
    IN  sum[Len(q)]

NoConnection ==
    [status |-> "none", dead |-> FALSE, abnormal |-> FALSE, lenRead |-> 0,
     bytesTX |-> 0, numSent |-> 0, lastAcked |-> 0, bytesRX |-> 0,
     closeBytes |-> 0, ctl |-> <<>>, wq |-> <<>>, reasm |-> <<>>,
     bufs |-> {}, numBlocked |-> 0, failed |-> "no"]

\* The connection is in g_ConnMap.
Found(c) == c.status \notin {"none", "gone"}

Init == /\ ci = [x \in Sides |-> NoConnection]
        /\ user = [x \in Sides |-> [sent |-> 0, input |-> 0, state |-> "absent"]]
        /\ net = [x \in Sides |-> <<>>]
        /\ events = [x \in Sides |-> {}]
        /\ turn = "R" /\ todo = <<>>

-----------------------------------------------------------------------------
\* Functions of the proxy, on the state c of its connection.

SendWACloseConnection(c, n) == [c EXCEPT !.ctl = Append(@, Msg("close", 0, n))]
SendWANameAck(c, n)         == [c EXCEPT !.ctl = Append(@, Msg("ack", 0, n))]

SetDead(c, abnormal) ==
    IF c.status = "closed" THEN c
    ELSE LET d == [c EXCEPT !.status = "closed", !.abnormal = abnormal, !.dead = TRUE]
         IN  IF abnormal THEN SendWACloseConnection([d EXCEPT !.ctl = <<>>], 0) ELSE d

Chunked(x) == x = "S"

\* Where the loop of ProcessUserData may cut lenRead bytes: increasing
\* offsets, one per piece.  It stops when the buffer is used up, when the
\* window is full, or when S waits for more.
Increasing(n) ==
    UNION {{s \in [1..k -> 1..n] : \A i \in 1..k-1 : s[i] < s[i+1]} : k \in 0..n}
Cut(cuts, i) == IF i = 0 THEN 0 ELSE cuts[i]
Full(c, n) == c.numSent + n > HighWater
Waits(c, x, force, left) ==
    Chunked(x) /\ c.status = "active" /\ ~force /\ left < MinRabin
Cuts(c, x, force) ==
    {cuts \in Increasing(c.lenRead) :
        LET k == Len(cuts)
            Stop(i) == \/ Cut(cuts, i) = c.lenRead
                       \/ i > 0 /\ Full(c, cuts[i])
                       \/ Waits(c, x, force, c.lenRead - Cut(cuts, i))
        IN  /\ Stop(k) /\ \A i \in 0..k-1 : ~Stop(i)
            /\ \A i \in 1..k : IF Chunked(x)
                               THEN cuts[i] - Cut(cuts, i-1) <= MaxChunk
                               ELSE cuts[i] = c.lenRead}

\* Mutant: what is left when the user has closed goes raw.
PieceRestRaw(c, x, cuts, i) ==
    LET from == c.bytesTX + Cut(cuts, i-1)
    IN  Msg(IF Chunked(x) /\ c.status = "active" /\ ~(SkipFirst /\ from = 0)
            THEN "name" ELSE "raw", from, c.bytesTX + cuts[i])
\* The names and bodies S keeps until they are acknowledged: all but raw.
Piece(c, x, cuts, i) ==
    LET from == c.bytesTX + Cut(cuts, i-1)
    IN  Msg(IF Chunked(x) /\ ~(SkipFirst /\ from = 0) THEN "name" ELSE "raw",
            from, c.bytesTX + cuts[i])

ProcessUserData(c, x, cuts) ==
    IF c.status = "block" THEN c
    ELSE LET k == Len(cuts)
             n == Cut(cuts, k)
             pieces == [i \in 1..k |-> Piece(c, x, cuts, i)]
             blocks == k > 0 /\ Full(c, n)
             d == [c EXCEPT
                     !.ctl = @ \o pieces,
                     !.bufs = @ \cup {p \in {pieces[i] : i \in 1..k} : p.type = "name"},
                     !.bytesTX = @ + n, !.numSent = @ + n, !.lenRead = @ - n,
                     !.status = IF blocks THEN "block" ELSE @,
                     !.numBlocked = IF blocks THEN @ + 1 ELSE @,
                     !.failed = IF blocks /\ c.numBlocked + 1 > 1 THEN "blocked" ELSE @]
         IN  IF d.status = "done"
             THEN [SendWACloseConnection(d, d.bytesTX + d.lenRead) EXCEPT !.status = "finsent"]
             ELSE d

CloseConnection(c, x, cuts) ==
    IF c.status = "closed" THEN c
    ELSE LET d == [c EXCEPT !.status = "done"]
             f == [SendWACloseConnection(d, d.bytesTX) EXCEPT !.status = "finsent"]
         IN  IF d.lenRead > 0 THEN ProcessUserData(d, x, cuts)
             ELSE IF f.numSent > 0 THEN f ELSE SetDead(f, FALSE)

\* Write k messages of msgListWrite to the user; -1 is an error of write().
PostWrite(c, n, eventTriggered) ==
    LET d == SendWANameAck([c EXCEPT !.bytesRX = @ + n], c.bytesRX + n)
    IN  IF eventTriggered /\ d.closeBytes # 0 /\ d.bytesRX = d.closeBytes
        THEN SetDead(d, FALSE) ELSE d
Write(c, k, eventTriggered) ==
    IF k = -1 THEN SetDead(c, TRUE)
    ELSE IF k = 0 THEN c
    ELSE PostWrite([c EXCEPT !.wq = SubSeq(@, k+1, Len(@))],
                   LenWrite(SubSeq(c.wq, 1, k)), eventTriggered)

\* What write() may do.  A user that closed accepts data until its reset
\* arrives; then EPIPE is taken for "busy".
Writable(c, x) ==
    IF c.abnormal \/ c.wq = <<>> THEN {0}
    ELSE CASE user[x].state \in {"open", "closed"} -> 0..Len(c.wq)
           [] user[x].state = "broken"             -> {0}
           [] user[x].state = "reset"              -> {-1, 0}
           [] OTHER                                -> {}
AfterWrite(x, k) ==
    IF k > 0 /\ user[x].state = "closed" THEN {"closed", "broken"} ELSE {user[x].state}

\* SendDataPrivate to a user: queue, fail if the buffer is full, try to write.
QueueOneWindow(c, p) ==                                         \* mutant
    [c EXCEPT !.wq = Append(@, p),
              !.failed = IF LenWrite(c.wq) + Size(p) >= Window THEN "full" ELSE @]
Queue(c, p) ==
    [c EXCEPT !.wq = Append(@, p),
              !.failed = IF LenWrite(c.wq) + Size(p) >= 2 * Window THEN "full" ELSE @]

DestroyUserConnectionInfo(c) ==
    [c EXCEPT !.status = "gone", !.dead = FALSE, !.wq = <<>>, !.reasm = <<>>, !.bufs = {}]

\* The user half of CleanUpClosedConnections.
CleanUpClosedConnections(c) ==
    IF ~c.dead \/ c.ctl # <<>> THEN c
    ELSE IF c.status = "closed" THEN DestroyUserConnectionInfo(c)
    ELSE [c EXCEPT !.failed = "dead"]
-----------------------------------------------------------------------------
\* The environment: users and servers.

Failed == \E x \in Sides : ci[x].failed # "no"
Idle == todo = <<>> /\ ~Failed

(* SocketAcceptCB, InitUserConnection, OpenUserConnection with a fixed     *)
(* destination.                                                            *)
OpenUserConnection ==
    /\ Idle /\ ci["R"].status = "none"
    /\ ci' = [ci EXCEPT !["R"].status = "active", !["R"].ctl = <<Msg("open", 0, 0)>>]
    /\ user' = [user EXCEPT !["R"].state = "open"]
    /\ UNCHANGED <<net, events, turn, todo>>

UserSends(x) ==
    /\ Idle /\ user[x].state = "open"
    /\ \E n \in 1..(MaxBytes[x] - user[x].sent) :
          user' = [user EXCEPT ![x].sent = @ + n, ![x].input = @ + n]
    /\ UNCHANGED <<ci, net, events, turn, todo>>

UserCloses(x) ==
    /\ Idle /\ x \in MayClose /\ user[x].state = "open"
    /\ user' = [user EXCEPT ![x].state = "closed"]
    /\ UNCHANGED <<ci, net, events, turn, todo>>

UserResets(x) ==
    /\ Idle /\ x \in MayReset /\ user[x].state = "open"
    /\ user' = [user EXCEPT ![x].state = "reset", ![x].input = 0]
    /\ UNCHANGED <<ci, net, events, turn, todo>>

-----------------------------------------------------------------------------
\* One iteration of the main loop of proxy x.

At(x, step) == turn = x /\ todo # <<>> /\ Head(todo) = step /\ ci[x].failed = "no"
Done == todo' = Tail(todo) /\ UNCHANGED turn
More == UNCHANGED <<turn, todo>>

(* AddCIEvents; the order of the two descriptors is the one the system     *)
(* gave them, the timer fires or not.  Steps with nothing to do are left   *)
(* out of todo.                                                            *)
MainLoop(x, timer) ==
    LET c == ci[x]
        new == {e \in {"read"}  : c.status = "active" /\ c.lenRead < RecvBuf}
               \cup {e \in {"write"} : Found(c) /\ c.wq # <<>>}
        data == IF net[Peer(x)] = <<>> THEN <<>> ELSE <<"control">>
        input == IF Found(c) /\ (c.lenRead > 0 \/ "read" \in events[x] \cup new)
                 THEN <<"read", "buffer">> ELSE <<>>
        late == IF c.status = "active" /\ c.lenRead > 0 THEN timer ELSE <<>>
    IN  /\ Idle
        /\ Found(c) \/ net[Peer(x)] # <<>>
        /\ events' = [events EXCEPT ![x] = @ \cup new]
        /\ turn' = x
        /\ \E reads \in {data \o input, input \o data} :
              todo' = late \o reads \o <<"reconstruct">>
        /\ UNCHANGED <<ci, user, net>>

BufferTimeoutCB(x) ==
    /\ At(x, "timer")
    /\ \E cuts \in Cuts(ci[x], x, TRUE) :
          ci' = [ci EXCEPT ![x] = ProcessUserData(@, x, cuts)]
    /\ Done /\ UNCHANGED <<user, net, events>>

NoReadEvent(x) ==
    /\ At(x, "read") /\ Done /\ UNCHANGED <<ci, user, net, events>>

(* The three outcomes of read(): data, end of file, error.  The error is   *)
(* added to lenRead as if it were a length.                                *)
ReadData(x) ==
    /\ user[x].input > 0
    /\ \E n \in 1..user[x].input :
          /\ n <= RecvBuf - ci[x].lenRead
          /\ ci' = [ci EXCEPT ![x].lenRead = @ + n]
          /\ user' = [user EXCEPT ![x].input = @ - n]
ReadEOF(x) ==
    /\ user[x].input = 0 /\ user[x].state \in {"closed", "broken"}
    /\ \E cuts \in Cuts([ci[x] EXCEPT !.status = "done"], x, TRUE) :
          ci' = [ci EXCEPT ![x] = CloseConnection(@, x, cuts)]
    /\ UNCHANGED user
ReadError(x) ==
    /\ user[x].state = "reset"
    /\ ci' = [ci EXCEPT ![x] = SetDead([ci[x] EXCEPT !.lenRead = @ - 1], TRUE)]
    /\ UNCHANGED user
EventReadCB(x) ==
    /\ At(x, "read") /\ Found(ci[x]) /\ "read" \in events[x]
    /\ ReadData(x) \/ ReadEOF(x) \/ ReadError(x)
    /\ events' = [events EXCEPT ![x] = @ \ {"read"}]
    /\ Done /\ UNCHANGED net

ProcessReadBuffer(x) ==
    /\ At(x, "buffer")
    /\ IF Found(ci[x]) /\ ci[x].status # "block" /\ ci[x].lenRead > 0
       THEN \E cuts \in Cuts(ci[x], x, FALSE) :
               ci' = [ci EXCEPT ![x] = ProcessUserData(@, x, cuts)]
       ELSE UNCHANGED ci
    /\ Done /\ UNCHANGED <<user, net, events>>

\* Messages from the peer, in order.
Receive(x, types) ==
    /\ At(x, "control") /\ net[Peer(x)] # <<>>
    /\ Head(net[Peer(x)]).type \in types
    /\ net' = [net EXCEPT ![Peer(x)] = Tail(@)]
    /\ More /\ UNCHANGED events
ControlDone(x) ==
    /\ At(x, "control") /\ Done /\ UNCHANGED <<ci, user, net, events>>

ProcessOpenConnection(x) ==
    /\ Receive(x, {"open"})
    /\ ci' = [ci EXCEPT ![x].status = "active"]
    /\ user' = [user EXCEPT ![x].state = "open"]

ProcessRawMessage(x) ==
    /\ Receive(x, {"raw"})
    /\ IF Found(ci[x])
       THEN LET c == Queue(ci[x], Head(net[Peer(x)]))
            IN  \E k \in Writable(c, x), s \in {"open", "closed", "broken", "reset"} :
                   /\ s \in AfterWrite(x, k)
                   /\ ci' = [ci EXCEPT ![x] = Write(c, k, FALSE)]
                   /\ user' = [user EXCEPT ![x].state = s]
       ELSE UNCHANGED <<ci, user>>

ProcessNameTreeDelivery2(x) ==
    /\ Receive(x, {"name"})
    /\ ci' = IF Found(ci[x])
             THEN [ci EXCEPT ![x].reasm = Append(@, Head(net[Peer(x)]))] ELSE ci
    /\ UNCHANGED user

\* The chunk buffers that end at or before ack are freed.
DestroyChunkBufferList(bufs, ack) == {b \in bufs : b.to > ack}

\* Mutant: finsent is not closed.
NameAckLeavesFinSent(c, ack) ==
    LET sent == c.numSent - (ack - c.lastAcked)
        wake == c.status = "block" /\ Window - sent >= Threshold
    IN  [c EXCEPT !.numSent = sent, !.lastAcked = ack,
                  !.bufs = DestroyChunkBufferList(@, ack),
                  !.status = IF wake THEN "active" ELSE @,
                  !.numBlocked = IF wake THEN @ - 1 ELSE @]

(* The window opens again, and a connection whose user is done is closed   *)
(* once everything is acknowledged.                                        *)
NameAck(c, ack) ==
    LET sent == c.numSent - (ack - c.lastAcked)
        wake == c.status = "block" /\ Window - sent >= Threshold
        d == [c EXCEPT !.numSent = sent, !.lastAcked = ack,
                       !.bufs = DestroyChunkBufferList(@, ack),
                       !.status = IF wake THEN "active" ELSE @,
                       !.numBlocked = IF wake THEN @ - 1 ELSE @]
    IN  IF d.status = "finsent" /\ sent = 0 THEN SetDead(d, FALSE) ELSE d
ProcessNameAck(x) ==
    /\ Receive(x, {"ack"})
    /\ ci' = IF Found(ci[x])
             THEN [ci EXCEPT ![x] = NameAck(@, Head(net[Peer(x)]).to)] ELSE ci
    /\ UNCHANGED user

\* Mutant: the peer has closed, so this side closes at once.
PeerClosesNow(c, n) == SetDead(c, n = 0)
PeerCloses(c, n) ==
    IF n = 0 THEN SetDead(c, TRUE)
    ELSE IF c.bytesRX = n THEN SetDead(c, FALSE)
    ELSE [c EXCEPT !.closeBytes = n]
ProcessCloseConnection(x) ==
    /\ Receive(x, {"close"})
    /\ ci' = IF Found(ci[x])
             THEN [ci EXCEPT ![x] = PeerCloses(@, Head(net[Peer(x)]).to)] ELSE ci
    /\ UNCHANGED user

(* The first tree of reassembleList has all its chunks: its data goes to   *)
(* the user.                                                               *)
ReconstructOneChunkTree(x) ==
    /\ At(x, "reconstruct") /\ Found(ci[x]) /\ ci[x].status # "closed"
    /\ ci[x].reasm # <<>>
    /\ LET c == Queue([ci[x] EXCEPT !.reasm = Tail(@)], Head(ci[x].reasm))
       IN  \E k \in Writable(c, x), s \in {"open", "closed", "broken", "reset"} :
              /\ s \in AfterWrite(x, k)
              /\ ci' = [ci EXCEPT ![x] = Write(c, k, FALSE)]
              /\ user' = [user EXCEPT ![x].state = s]
    /\ More /\ UNCHANGED <<net, events>>

(* The end of ReconstructOriginalData: all the peer sent is written.       *)
ReconstructOriginalData(c) ==
    IF /\ Found(c) /\ c.status # "closed"
       /\ c.closeBytes # 0 /\ c.bytesRX = c.closeBytes
    THEN SetDead(c, FALSE) ELSE c

(* The rest of the iteration: the queued messages go to the control        *)
(* connection (ScheduleNameDelivery), the write event is served, if there  *)
(* is one, and closed connections are freed.                               *)
WriteAndCleanUp(x, k) ==
    /\ At(x, "reconstruct")
    /\ LET c == ReconstructOriginalData(ci[x])
           d == [c EXCEPT !.ctl = <<>>]
       IN  /\ net' = [net EXCEPT ![x] = @ \o c.ctl]
           /\ k \in (IF Found(d) /\ "write" \in events[x] THEN Writable(d, x) ELSE {0})
           /\ ci' = [ci EXCEPT ![x] = CleanUpClosedConnections(Write(d, k, TRUE))]
    /\ \E s \in AfterWrite(x, k) : user' = [user EXCEPT ![x].state = s]
    /\ events' = [events EXCEPT ![x] = IF ci'[x].status = "gone" THEN {}
                                       ELSE IF k # 0 THEN @ \ {"write"} ELSE @]
    /\ Done

ProcessControlData(x) ==
    \/ ProcessOpenConnection(x) \/ ProcessRawMessage(x) \/ ProcessNameTreeDelivery2(x)
    \/ ProcessNameAck(x) \/ ProcessCloseConnection(x)
Loop(x) ==
    \/ MainLoop(x, <<>>) \/ MainLoop(x, <<"timer">>) \/ BufferTimeoutCB(x)
    \/ EventReadCB(x) \/ NoReadEvent(x) \/ ProcessReadBuffer(x)
    \/ ProcessControlData(x) \/ ControlDone(x)
    \/ ReconstructOneChunkTree(x)
    \/ \E k \in -1..Len(ci[x].wq) : WriteAndCleanUp(x, k)
Users == \/ OpenUserConnection
         \/ \E x \in Sides : UserSends(x) \/ UserCloses(x) \/ UserResets(x)
Next == Users \/ \E x \in Sides : Loop(x)
Spec == Init /\ [][Next]_vars

(* Each proxy runs its loop for ever; a timer fires, a message, byte or    *)
(* close that is there is read in the end, the chunks of a name are found, *)
(* and a user reads what is written to it until it closes its socket.      *)
(* Bytes and messages are bounded, so each of them happens finitely often: *)
(* that it is strongly fair means that in the end it is not possible.  The *)
(* loop of a proxy that has work runs again, and with the timer while it   *)
(* holds bytes back.                                                       *)
CanRead(x) == /\ At(x, "read") /\ Found(ci[x]) /\ "read" \in events[x]
              /\ user[x].input > 0 \/ user[x].state # "open"
CanReceive(x) == At(x, "control") /\ net[Peer(x)] # <<>>
CanReconstruct(x) == /\ At(x, "reconstruct") /\ Found(ci[x]) /\ ci[x].reasm # <<>>
                     /\ ci[x].status # "closed"
CanWrite(x) == /\ At(x, "reconstruct") /\ Found(ci[x]) /\ "write" \in events[x]
               /\ ci[x].wq # <<>> /\ ~ci[x].abnormal
               /\ user[x].state \in {"open", "closed"}
Runs(x) == turn = x /\ todo # <<>>
HasWork(x) == ~Failed /\ (Found(ci[x]) \/ net[Peer(x)] # <<>>)
Holds(x) == ~Failed /\ ci[x].status = "active" /\ ci[x].lenRead > 0
Fairness ==
    /\ []<>(todo = <<>> \/ Failed) /\ <>(ci["R"].status # "none")
    /\ \A x \in Sides :
         /\ <>[]~(CanRead(x) \/ CanReceive(x) \/ CanReconstruct(x) \/ CanWrite(x))
         /\ []<>(HasWork(x) => Runs(x)) /\ []<>(Holds(x) => At(x, "timer"))
FairSpec == Spec /\ Fairness
-----------------------------------------------------------------------------
Statuses == {"none", "active", "block", "done", "finsent", "closed", "gone"}
Failures == {"no", "blocked", "full", "dead"}

(* Every field keeps the range its declaration and its asserts give it; an *)
(* endpoint between two handlers is never left half closed ("done").       *)
TypeOK ==
    /\ \A x \in Sides :
         LET c == ci[x] IN
         /\ c.status \in Statuses \ {"done"} /\ c.failed \in Failures
         /\ c.lenRead \in -1..RecvBuf
         /\ c.bytesTX \in 0..MaxBytes[x] /\ c.bytesRX \in 0..MaxBytes[Peer(x)]
         /\ c.numSent \in 0..(HighWater + 2 * RecvBuf)
         /\ c.closeBytes \in 0..MaxBytes[Peer(x)]
         /\ c.numBlocked \in 0..2
    /\ turn \in Sides

(* What x has sent and y has not yet written to its user, oldest first.    *)
InTransit(x) == ci[Peer(x)].wq \o ci[Peer(x)].reasm \o net[x] \o ci[x].ctl

(* The messages of q that carry data, and the offset the first i lead to.  *)
DataIn(q) == {i \in DOMAIN q : IsData(q[i])}
Reaches(q, i, start) ==
    LET before == {j \in DataIn(q) : j <= i}
    IN  IF before = {} THEN start
        ELSE q[CHOOSE j \in before : \A k \in before : k <= j].to

(* The pieces under way from x lead from bytesRX to bytesTX, each starting *)
(* where the one before it ends.                                           *)
Gapless(x) ==
    LET q == InTransit(x)
        start == ci[Peer(x)].bytesRX
    IN  /\ \A i \in DataIn(q) : q[i].from = Reaches(q, i - 1, start)
        /\ Reaches(q, Len(q), start) = ci[x].bytesTX

(* The other user gets the stream in order, without gap or repetition,     *)
(* whatever was sent raw and whatever had to wait for its chunks.  A proxy *)
(* that closes for an error drops what it had queued, and one that has     *)
(* freed the connection what still comes.                                  *)
InOrder ==
    \A x \in Sides :
        ~ci[x].abnormal /\ ci[Peer(x)].status # "gone" => Gapless(x)

(* SendDataPrivate: "user write buffer full" ends the process.  The window *)
(* of the other proxy keeps it from happening, however slow the user is.   *)
WriteBufferNeverFull == \A x \in Sides : ci[x].failed # "full"

(* A connection that is closed under a user who did not ask for it has     *)
(* given the user all that the other one sent, unless it failed.           *)
ClosedAfterAll ==
    \A x \in Sides :
        ci[x].dead /\ ~ci[x].abnormal /\ user[x].state = "open" =>
            ci[x].bytesRX = user[Peer(x)].sent /\ user[Peer(x)].state # "open"

(* A user that closes its socket ends the connection at both proxies, and  *)
(* the proxies free it, also when data, acknowledgements or an open are    *)
(* under way or a window is full.  Only if both users have left may the    *)
(* proxies keep it, each waiting for an ACK of data that its own user will *)
(* not take: write() fails with EPIPE, which is taken for "busy".          *)
EndsAtBoth ==
    \A x \in Sides : user[x].state \in {"closed", "broken"} ~>
        \/ \A y \in Sides : ci[y].status \in {"none", "gone"}
        \/ Failed
        \/ \A y \in Sides : user[y].state \in {"closed", "broken", "reset"}
=============================================================================

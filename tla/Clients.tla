------------------------------ MODULE Clients -------------------------------
(***************************************************************************)
(* HashCache's side of the connections that waprox opens to it: accepting  *)
(* them up to a limit, a request after the other on each (WAPROX-GET,      *)
(* WAPROX-PUT), the transactions of a request and a response, the tables   *)
(* that lead from a file descriptor to them, and their deletion in two     *)
(* steps, lazily in the handlers and for good at the end of a pass of the  *)
(* main loop.  From loop.c and proxy.c.  What a read of the disk finds is  *)
(* left open here (DiskReads, DirtyCache and LogStore have it).            *)
(***************************************************************************)
EXTENDS Integers, Sequences, FiniteSets, Functions

CONSTANTS Clients,       \* connections
          MaxRequests,   \* bound: requests on a connection
          Blocks,        \* blocks of an object that is read
          Fds,           \* file descriptors for clients
          CLimit         \* cLimit

None == 0

ASSUME ClientsAssumption ==
    /\ Clients \subseteq Nat \ {None} /\ Fds \subseteq Nat \ {None}
    /\ IsFiniteSet(Fds) /\ MaxRequests \in Nat /\ Blocks \in Nat \ {0}
    /\ CLimit \in 1 .. Cardinality(Fds)

(* The request of client c is c, its k-th response is <<c, k>>; a table    *)
(* leads to a request, to a response or to nothing.                        *)
Responses == Clients \X (1 .. MaxRequests)
NULL == <<>>

VARIABLES client,   \* waprox's side of each connection
          backlog,  \* connections that are not accepted yet
          srv       \* HashCache

vars == <<client, backlog, srv>>

Away == [asked |-> <<>>, whole |-> TRUE, inbox |-> <<>>, left |-> FALSE]
NoRequest == [at |-> "none", fd |-> None, method |-> "GET", lDel |-> FALSE]
NoResponse == [at |-> "none", fd |-> None, method |-> "GET", presReq |-> None,
               lDel |-> FALSE, map |-> FALSE, batchAdd |-> FALSE,
               status |-> "incomplete", block |-> 0]

Init == /\ client = [c \in Clients |-> Away] /\ backlog = <<>>
        /\ srv = [readTran |-> [f \in Fds |-> NULL], writeTran |-> [f \in Fds |-> NULL],
                  respTran |-> [f \in Fds |-> NULL], open |-> [f \in Fds |-> None],
                  req |-> [c \in Clients |-> NoRequest],
                  res |-> [r \in Responses |-> NoResponse],
                  delReqList |-> {}, delResList |-> {}, count |-> 0,
                  listening |-> TRUE, answers |-> [c \in Clients |-> 0],
                  forgotten |-> {}, down |-> FALSE]

Req(c) == <<c>>
Live(o) == o.at = "live" /\ ~o.lDel
-----------------------------------------------------------------------------
(* The transactions.  s is the state of the server.  An answer goes to the *)
(* client whose connection the descriptor is.                              *)
Answer(s, f) == [s EXCEPT !.answers[s.open[f]] = @ + 1]

KeepsPresReq(s, c) ==                                                \* mutant
    IF c = None \/ s.req[c].lDel THEN s
    ELSE LET f == s.req[c].fd
         IN  [s EXCEPT !.listening = @ \/ s.count = CLimit, !.count = @ - 1,
                       !.respTran[f] = NULL, !.writeTran[f] = NULL,
                       !.readTran[f] = IF s.req[c].method = "PUT" THEN @ ELSE NULL,
                       !.req[c].lDel = TRUE, !.delReqList = @ \cup {c}]
delRequestTranLazy(s, c) ==
    IF c = None \/ s.req[c].lDel THEN s
    ELSE LET f == s.req[c].fd
             r == s.respTran[f]
         IN  [s EXCEPT !.listening = @ \/ s.count = CLimit, !.count = @ - 1,
                       !.res = IF r = NULL THEN @ ELSE [@ EXCEPT ![r].presReq = None],
                       !.respTran[f] = NULL, !.writeTran[f] = NULL,
                       !.readTran[f] = IF s.req[c].method = "PUT" THEN @ ELSE NULL,
                       !.req[c].lDel = TRUE, !.delReqList = @ \cup {c}]

(* The client's next request will be read; a PUT is acknowledged.          *)
ReadsNoMore(s, r) ==                                                 \* mutant
    IF s.res[r].method = "PUT" /\ s.res[r].fd # None THEN Answer(s, s.res[r].fd) ELSE s
GivesBack(s, r) ==
    LET q == s.res[r]
    IN  CASE q.method = "PUT" /\ q.fd # None ->
               [Answer(s, q.fd) EXCEPT
                  !.readTran[q.fd] = IF q.presReq = None THEN NULL ELSE Req(q.presReq)]
          [] q.method = "GET" /\ q.presReq # None ->
               [s EXCEPT !.readTran[s.req[q.presReq].fd] = Req(q.presReq)]
          [] OTHER -> s

delResponseTranLazy(s, r) ==
    IF s.res[r].lDel THEN s
    ELSE LET q == s.res[r]
             b == GivesBack(s, r)
         IN  [b EXCEPT !.delResList = IF q.map \/ q.batchAdd THEN @ ELSE @ \cup {r},
                       !.writeTran = IF q.fd = None THEN @ ELSE [@ EXCEPT ![q.fd] = NULL],
                       !.res[r] = [q EXCEPT !.lDel = TRUE, !.presReq = None, !.fd = None]]

(* The request starts again; the response still leads to it.               *)
reInitHTTPRequest(s, c) ==
    LET f == s.req[c].fd
    IN  [s EXCEPT !.respTran[f] = NULL, !.writeTran[f] = NULL,
                  !.readTran[f] = IF s.req[c].method = "PUT" THEN @ ELSE NULL,
                  !.req[c].method = "GET"]

BothDeleted(s, r) == delResponseTranLazy(delRequestTranLazy(s, s.res[r].presReq), r)
(* persistentClient, unless the client is gone.                            *)
Finished(s, r) ==
    LET c == s.res[r].presReq
    IN  delResponseTranLazy(IF c = None THEN s ELSE reInitHTTPRequest(s, c), r)

initHTTPResponse(s, c, method) ==
    LET r == <<c, Len(client[c].asked)>>
    IN  [s EXCEPT !.res[r] = [NoResponse EXCEPT !.at = "live", !.method = method,
                                                !.presReq = c],
                  !.respTran[s.req[c].fd] = r, !.req[c].method = method]
-----------------------------------------------------------------------------
(* A GET.                                                                  *)
sendNegReply(s, r) == Answer(s, s.req[s.res[r].presReq].fd)
Missed(s, r) == Finished(sendNegReply(s, r), r)

NeedsDisk(s, r) == [s EXCEPT !.res[r].map = TRUE]
Blocked(s, r) == [s EXCEPT !.writeTran[s.req[s.res[r].presReq].fd] = r]
Complete(s, r) ==
    Finished(Answer(s, s.req[s.res[r].presReq].fd), r)

(* Some more blocks are at hand and are sent, up to one that the client    *)
(* does not take or that is not at hand; a later block may not be the      *)
(* object's, and a write may fail.                                         *)
Sends(s, r) ==
    UNION {LET t == [s EXCEPT !.res[r].block = b]
           IN  {Blocked(t, r), IF b = Blocks THEN Complete(t, r) ELSE NeedsDisk(t, r),
                BothDeleted(t, r)} : b \in s.res[r].block + 1 .. Blocks}

joinFlow(s, r) == {Missed(s, r), NeedsDisk(s, r)} \cup Sends(s, r)

(* The blocks have been read.  When the request is gone, the reply to a    *)
(* first block that is not the object's uses it all the same, and sendData *)
(* looks for a server connection at the descriptor -1 of a later one.      *)
processFurtherBlocks(s, r) ==
    CASE s.res[r].lDel -> {s}
      [] ~s.res[r].lDel /\ s.res[r].presReq = None ->
           {delResponseTranLazy(s, r), [s EXCEPT !.down = TRUE]}
      [] OTHER -> Sends(s, r) \cup (IF s.res[r].block = 0 THEN {Missed(s, r)} ELSE {})
-----------------------------------------------------------------------------
(* A PUT.  A large object is not cached, the others join a batch; the      *)
(* whole object is cut into blocks that are to be written.                 *)
PutComplete(s, r) ==
    Finished([s EXCEPT !.res[r].status = "complete",
                       !.res[r].map = s.res[r].batchAdd,
                       !.readTran[s.res[r].fd] = NULL], r)

readyForPut(s, r, large, all) ==
    LET f == s.req[s.res[r].presReq].fd
        t == [s EXCEPT !.readTran[f] = r, !.res[r].fd = f, !.res[r].batchAdd = ~large]
    IN  IF all THEN PutComplete(t, r) ELSE t

(* The connection is closed before the object is whole.                    *)
PutBad(s, r) ==
    BothDeleted([s EXCEPT !.res[r].status = "bad", !.req[s.res[r].presReq].method = "GET"], r)
-----------------------------------------------------------------------------
Serves(S) == ~srv.down /\ \E s \in S : srv' = s
Reads(c, n) == client' = [client EXCEPT ![c].inbox = SubSeq(@, n + 1, Len(@))]

(* handleClientRead: a new request, or the end of the connection, also     *)
(* while a GET is served.                                                  *)
ClientClosed(f, c) ==
    LET s == [srv EXCEPT !.req[c].method = "GET",
                         !.forgotten = @ \cup ({srv.writeTran[f]} \ {NULL})]
    IN  /\ Head(client[c].inbox) = "fin"
        /\ Serves({delRequestTranLazy(s, c)}) /\ Reads(c, 1)
GetRead(f, c) ==
    /\ Head(client[c].inbox) = "get"
    /\ LET s == initHTTPResponse(srv, c, "GET") IN Serves(joinFlow(s, s.respTran[f]))
    /\ Reads(c, 1)
PutRead(f, c, large) ==
    /\ Head(client[c].inbox) = "put"
    /\ \E all \in {FALSE, Len(client[c].inbox) > 1 /\ client[c].inbox[2] = "rest"} :
         /\ LET s == initHTTPResponse(srv, c, "PUT")
            IN  Serves({readyForPut(s, s.respTran[f], large, all)})
         /\ Reads(c, IF all THEN 2 ELSE 1)
HandleClientRead(f) ==
    \E c \in Clients :
        /\ srv.readTran[f] = Req(c) /\ client[c].inbox # <<>>
        /\ \/ ClientClosed(f, c) \/ GetRead(f, c)
           \/ \E large \in BOOLEAN : PutRead(f, c, large)
        /\ UNCHANGED backlog

(* handleDownloadRead: the object of a PUT.                                *)
HandleDownloadRead(f) ==
    LET r == srv.readTran[f]
        c == srv.open[f]
    IN  /\ r \in Responses /\ client[c].inbox # <<>>
        /\ IF Head(client[c].inbox) = "rest" THEN Serves({PutComplete(srv, r)})
           ELSE Serves({PutBad(srv, r)})
        /\ Reads(c, 1) /\ UNCHANGED backlog

(* The client takes data again.                                            *)
ResumeDiskRead(f) ==
    LET r == srv.respTran[f]
    IN  /\ srv.writeTran[f] # NULL
        /\ LET s == [srv EXCEPT !.writeTran[f] = NULL]
           IN  Serves({BothDeleted(srv, r)}
                      \cup IF srv.res[r].block = Blocks THEN {Complete(s, r)}
                           ELSE {NeedsDisk(s, r)} \cup Sends(s, r))
        /\ UNCHANGED <<client, backlog>>

HandleDataHelperRead(r) ==
    /\ srv.res[r].at = "live" /\ srv.res[r].method = "GET" /\ srv.res[r].map
    /\ Serves(processFurtherBlocks([srv EXCEPT !.res[r].map = FALSE], r))
    /\ UNCHANGED <<client, backlog>>

(* processBatch of a PUT that failed, and the end of the write of one that *)
(* is complete: the response can be deleted now.                           *)
StaysDeleted(s, r) ==                                                \* mutant
    delResponseTranLazy([s EXCEPT !.res[r].map = FALSE, !.res[r].batchAdd = FALSE], r)
LeavesBatch(s, r) ==
    delResponseTranLazy([s EXCEPT !.res[r].map = FALSE, !.res[r].batchAdd = FALSE,
                                  !.res[r].lDel = FALSE], r)
BatchDone(r) ==
    /\ srv.res[r].at = "live" /\ srv.res[r].batchAdd /\ srv.res[r].status # "incomplete"
    /\ Serves({LeavesBatch(srv, r)})
    /\ UNCHANGED <<client, backlog>>

(* handleTimer: nothing has been read from or sent to the client for MSL.  *)
(* The stamp of a descriptor is unset when it is accepted, and set at the  *)
(* first read; without it there is no expiry.  (A PUT that stalls as long  *)
(* is not modelled: its response would be taken for a request.)            *)
Stamped(c) == \E r \in Responses : r[1] = c /\ srv.res[r].at # "none"
checkClientExpiry(s, f, c) ==
    LET r == s.respTran[f]
        t == delRequestTranLazy(s, c)
    IN  IF r = NULL THEN t
        ELSE [delResponseTranLazy(t, r) EXCEPT
                !.forgotten = IF s.res[r].map THEN @ \cup {r} ELSE @]
HandleTimer(f) ==
    /\ \E c \in Clients : /\ srv.readTran[f] = Req(c) /\ Stamped(c)
                          /\ Serves({checkClientExpiry(srv, f, c)})
    /\ UNCHANGED <<client, backlog>>

(* The end of a pass: deletePerms, then handleAccept if clients wait.      *)
Freed(o) == [o EXCEPT !.at = "freed"]
deletePerms(s) ==
    LET gone == {f \in Fds : \E c \in s.delReqList :
                   s.req[c].fd = f /\ s.req[c].method # "PUT"}
        Cleared(tran) == [f \in Fds |-> IF f \in gone THEN NULL ELSE tran[f]]
    IN  [s EXCEPT !.readTran = Cleared(@), !.writeTran = Cleared(@),
                  !.open = [f \in Fds |-> IF f \in gone THEN None ELSE @[f]],
                  !.req = [c \in Clients |->
                             IF c \in s.delReqList THEN Freed(NoRequest) ELSE @[c]],
                  !.res = [r \in Responses |->
                             IF r \in s.delResList THEN Freed(NoResponse) ELSE @[r]],
                  !.delReqList = {}, !.delResList = {}]

(* The first n clients that wait are accepted, the i-th on descriptor d[i],*)
(* one that is closed.                                                     *)
Closed(s) == {f \in Fds : s.open[f] = None}
handleAccept(s, n, d) ==
    LET fds == {d[i] : i \in 1 .. n}
        who(f) == backlog[CHOOSE i \in 1 .. n : d[i] = f]
        on(c) == CHOOSE f \in fds : who(f) = c
        new == {who(f) : f \in fds}
    IN  [s EXCEPT !.open = [f \in Fds |-> IF f \in fds THEN who(f) ELSE @[f]],
                  !.readTran = [f \in Fds |-> IF f \in fds THEN Req(who(f)) ELSE @[f]],
                  !.respTran = [f \in Fds |-> IF f \in fds THEN NULL ELSE @[f]],
                  !.req = [c \in Clients |->
                             IF c \in new
                             THEN [NoRequest EXCEPT !.at = "live", !.fd = on(c)]
                             ELSE @[c]],
                  !.count = @ + n, !.listening = s.count + n < CLimit]
NumAccepted(s) == IF CLimit - s.count < Len(backlog) THEN CLimit - s.count
                  ELSE Len(backlog)
EndOfPass ==
    LET s == deletePerms(srv)
        n == NumAccepted(s)
        accepts == srv.listening /\ backlog # <<>>
    IN  /\ accepts \/ srv.delReqList # {} \/ srv.delResList # {}
        /\ Serves(IF accepts THEN {handleAccept(s, n, d) : d \in Injection(1 .. n, Closed(s))}
                  ELSE {s})
        /\ backlog' = IF accepts THEN SubSeq(backlog, n + 1, Len(backlog)) ELSE backlog
        /\ UNCHANGED client
-----------------------------------------------------------------------------
(* waprox: a request, then its answer; it may leave at any time.           *)
InBacklog(c) == \E i \in 1 .. Len(backlog) : backlog[i] = c
Connected(c) == InBacklog(c) \/ srv.req[c].at = "live"
Connect(c) ==
    /\ ~Connected(c) /\ ~srv.down /\ srv.req[c].at = "none"
    /\ \A d \in Clients : d < c => Connected(d) \/ srv.req[d].at # "none"
    /\ backlog' = Append(backlog, c)
    /\ UNCHANGED <<client, srv>>
Waits(c) == Len(client[c].asked) > srv.answers[c]
Talks(c) == Connected(c) /\ ~srv.down /\ ~client[c].left /\ UNCHANGED <<backlog, srv>>
Ask(c, what) ==
    /\ Talks(c) /\ ~Waits(c) /\ Len(client[c].asked) < MaxRequests
    /\ client' = [client EXCEPT ![c].asked = Append(@, what), ![c].whole = (what = "get"),
                                ![c].inbox = Append(@, what)]
SendRest(c) ==
    /\ Talks(c) /\ ~client[c].whole
    /\ client' = [client EXCEPT ![c].whole = TRUE, ![c].inbox = Append(@, "rest")]
Leave(c) ==
    /\ Talks(c)
    /\ client' = [client EXCEPT ![c].left = TRUE, ![c].inbox = Append(@, "fin")]

Next == \/ \E c \in Clients : \/ Connect(c) \/ SendRest(c) \/ Leave(c)
                              \/ \E what \in {"get", "put"} : Ask(c, what)
        \/ \E f \in Fds : \/ HandleClientRead(f) \/ HandleDownloadRead(f)
                          \/ ResumeDiskRead(f) \/ HandleTimer(f)
        \/ \E r \in Responses : HandleDataHelperRead(r) \/ BatchDone(r)
        \/ EndOfPass

Spec == Init /\ [][Next]_vars

(* The main loop handles what is ready and comes to the end of its pass;   *)
(* the disk answers, batches are written, and clients take their data,     *)
(* finish their PUTs or leave.  A connection that has been used is used    *)
(* again or expires; one that never was may stay as it is.  Each is weak   *)
(* fairness of an action, written as the states in which the action has    *)
(* nothing to do.                                                          *)
Readable(f) == srv.readTran[f] # NULL /\ client[srv.open[f]].inbox # <<>>
Pending(r) == /\ srv.res[r].at = "live"
              /\ \/ srv.res[r].method = "GET" /\ srv.res[r].map
                 \/ srv.res[r].batchAdd /\ srv.res[r].status # "incomplete"
PassDone == /\ srv.delReqList = {} /\ srv.delResList = {}
            /\ ~srv.listening \/ backlog = <<>>
Idle(f) == \E c \in Clients : srv.readTran[f] = Req(c) /\ Stamped(c) /\ ~Waits(c)
Fairness ==
    /\ \A f \in Fds : /\ []<>(~Readable(f) \/ srv.down)
                      /\ []<>(srv.writeTran[f] = NULL \/ srv.down)
                      /\ []<>(~Idle(f) \/ srv.down)
    /\ \A r \in Responses : []<>(~Pending(r) \/ srv.down)
    /\ []<>(PassDone \/ srv.down)
    /\ \A c \in Clients : []<>(client[c].whole \/ client[c].left \/ ~Connected(c))
FairSpec == Spec /\ Fairness
-----------------------------------------------------------------------------
(* The types of the variables.                                             *)
TypeOK ==
    /\ \A f \in Fds : /\ srv.readTran[f] \in {NULL} \cup Responses \cup {Req(c) : c \in Clients}
                      /\ {srv.writeTran[f], srv.respTran[f]} \subseteq {NULL} \cup Responses
                      /\ srv.open[f] \in Clients \cup {None}
    /\ srv.delReqList \subseteq Clients /\ srv.delResList \subseteq Responses
    /\ srv.count \in 0 .. CLimit

(* What a table or a response leads to is there, and is not being deleted: *)
(* no handler uses a transaction that is gone, or one of another client    *)
(* that has got the descriptor, and none is deleted twice.                 *)
NoDangling ==
    /\ \A f \in Fds : \A t \in {srv.readTran[f], srv.writeTran[f], srv.respTran[f]} :
          /\ t \in Responses => Live(srv.res[t]) /\ srv.open[f] = t[1]
          /\ \A c \in Clients : t = Req(c) => Live(srv.req[c]) /\ srv.open[f] = c
    /\ \A r \in Responses : LET q == srv.res[r] IN
          q.at = "live" /\ q.presReq # None => Live(srv.req[q.presReq])
    /\ \A c \in srv.delReqList : srv.req[c].at = "live"
    /\ \A r \in srv.delResList : srv.res[r].at = "live"

(* A response that is not deleted yet is with its client, with the disk,   *)
(* in a batch or about to be deleted; unless its client closed the         *)
(* connection while the response waited for it to take data, or expired    *)
(* while the response waited for the disk.                                 *)
NothingForgotten ==
    \A r \in Responses :
        srv.res[r].at = "live" /\ ~srv.down =>
            \/ \E f \in Fds : srv.respTran[f] = r
            \/ srv.res[r].map \/ srv.res[r].batchAdd
            \/ r \in srv.delResList \/ r \in srv.forgotten

(* Every request on an accepted connection is answered, or the connection  *)
(* is closed; and every connection is accepted, in spite of the limit, and *)
(* closed in the end, unless one that was accepted is silent for ever: its *)
(* descriptor has no stamp, so it never expires, and its place under the   *)
(* limit is lost to the others.  Unless the server has gone down.          *)
Silent(c) == srv.req[c].at = "live" /\ client[c].asked = <<>> /\ ~client[c].left
EveryClientServed ==
    \A c \in Clients :
        /\ (Waits(c) /\ ~InBacklog(c)) ~> (~Waits(c) \/ srv.req[c].at = "freed" \/ srv.down)
        /\ \/ InBacklog(c) ~> (srv.req[c].at = "freed" \/ srv.down)
           \/ \E d \in Clients : <>[]Silent(d)
=============================================================================

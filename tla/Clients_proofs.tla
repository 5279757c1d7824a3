--------------------------- MODULE Clients_proofs ---------------------------
(***************************************************************************)
(* No table of HashCache leads to a transaction that is gone, and no       *)
(* response is forgotten but in the two cases of the code, for any number  *)
(* of clients, requests, descriptors and blocks.                           *)
(*                                                                         *)
(* The state of the server falls apart by client: a client's request, the  *)
(* entries of the tables at its descriptor, and its responses.  ConnOK     *)
(* says what holds of one client, Good says it of all and where the        *)
(* descriptors lead.  A handler works for one client (Local), so it keeps  *)
(* Good when it keeps ConnOK of that one.                                  *)
(***************************************************************************)
EXTENDS Clients, TLAPS

Own(c) == {r \in Responses : r[1] = c}
Asks == {"get", "put"}
Asking(cl) == {i \in DOMAIN cl.inbox : cl.inbox[i] \in Asks}

Request == [at : {"none", "live", "freed"}, fd : Fds \cup {None},
            method : {"GET", "PUT"}, lDel : BOOLEAN]
Response == [at : {"none", "live", "freed"}, fd : Fds \cup {None},
             method : {"GET", "PUT"}, presReq : Clients \cup {None},
             lDel : BOOLEAN, map : BOOLEAN, batchAdd : BOOLEAN,
             status : {"incomplete", "complete", "bad"}, block : Nat]
Trans == {NULL} \cup Responses \cup {Req(c) : c \in Clients}
Server == [readTran : [Fds -> Trans], writeTran : [Fds -> Trans],
           respTran : [Fds -> Trans], open : [Fds -> Clients \cup {None}],
           req : [Clients -> Request], res : [Responses -> Response],
           delReqList : SUBSET Clients, delResList : SUBSET Responses,
           count : Int, listening : BOOLEAN, answers : [Clients -> Nat],
           forgotten : SUBSET Responses, down : BOOLEAN]
Client == [asked : Seq(Asks), whole : BOOLEAN,
           inbox : Seq(Asks \cup {"rest", "fin"}), left : BOOLEAN]

(* The response r of client c is being served on descriptor f: it waits    *)
(* for the disk, for the client to take data, or for the rest of a PUT.    *)
Serving(s, c, f, r) ==
    LET p == s.res[r] IN
    /\ r \in Own(c) /\ Live(p) /\ p.presReq = c /\ p.status = "incomplete"
    /\ r \notin s.delResList /\ p.method = s.req[c].method
    /\ \/ /\ p.method = "GET" /\ p.fd = None /\ ~p.batchAdd
          /\ s.readTran[f] \in {NULL, Req(c)}
          /\ \/ p.map /\ s.writeTran[f] = NULL
             \/ ~p.map /\ s.writeTran[f] = r
       \/ /\ p.method = "PUT" /\ p.fd = f /\ ~p.map
          /\ s.readTran[f] = r /\ s.writeTran[f] = NULL

(* A response that is not served does not lead to its request; if it is    *)
(* still there, something will delete it, or it has been forgotten.        *)
NotServed(s, r) ==
    LET p == s.res[r] IN
    /\ p.presReq = None /\ p.fd = None
    /\ \/ p.at # "live" /\ r \notin s.delResList /\ ~p.lDel /\ ~p.batchAdd
       \/ /\ Live(p) /\ p.method = "GET" /\ ~p.batchAdd /\ r \notin s.delResList
          /\ p.map \/ r \in s.forgotten \/ s.down
       \/ /\ p.at = "live" /\ p.lDel /\ (p.method = "GET" => ~p.batchAdd)
          /\ p.batchAdd \/ r \in s.delResList \/ r \in s.forgotten

(* The request of client c, which asked as in cl.                          *)
Asked(s, cl, c) ==
    /\ s.answers[c] <= Len(cl.asked) /\ Len(cl.asked) <= MaxRequests
    /\ \A r \in Own(c) : r[2] > Len(cl.asked) => s.res[r].at = "none"
    /\ \A i, j \in Asking(cl) : i = j
    /\ Asking(cl) # {} => /\ s.answers[c] < Len(cl.asked)
                          /\ s.res[<<c, Len(cl.asked)>>].at = "none"
                          /\ s.req[c].at = "live" => s.respTran[s.req[c].fd] = NULL

ConnOK(s, cl, c) ==
    LET q == s.req[c]
        f == q.fd
    IN  /\ q.lDel <=> c \in s.delReqList
        /\ q.lDel => q.at = "live"
        /\ q.at = "live" => f \in Fds /\ s.open[f] = c
        /\ q.at = "live" /\ s.respTran[f] = NULL =>
             /\ q.method = "GET" /\ s.writeTran[f] = NULL
             /\ s.readTran[f] \in {NULL, Req(c)} /\ (q.lDel => s.readTran[f] = NULL)
        /\ q.at = "live" /\ s.respTran[f] # NULL =>
             ~q.lDel /\ Serving(s, c, f, s.respTran[f]) /\ s.answers[c] < Len(cl.asked)
        /\ \A r \in Own(c) : (q.at = "live" /\ s.respTran[f] = r) \/ NotServed(s, r)
        /\ Asked(s, cl, c)

FdOK(s, f) == /\ s.open[f] = None => /\ s.readTran[f] = NULL /\ s.writeTran[f] = NULL
                                     /\ s.respTran[f] = NULL
              /\ \A c \in Clients : s.open[f] = c => s.req[c].at = "live" /\ s.req[c].fd = f

Room(s) == s.count <= CLimit /\ (s.listening <=> s.count < CLimit)
Good(s, C) == /\ s \in Server /\ Room(s)
              /\ \A c \in Clients : ConnOK(s, C[c], c)
              /\ \A f \in Fds : FdOK(s, f)
Waiting == /\ backlog \in Seq(Clients)
           /\ \A i, j \in DOMAIN backlog : backlog[i] = backlog[j] => i = j
           /\ \A i \in DOMAIN backlog : srv.req[backlog[i]].at = "none"
Inv == client \in [Clients -> Client] /\ Good(srv, client) /\ Waiting

-----------------------------------------------------------------------------
(* A request, a response and nothing are told apart in the tables.         *)
LEMMA TransApart ==
    /\ NULL \notin Responses
    /\ \A c : Req(c) # NULL /\ Req(c) \notin Responses
    /\ \A c, d : Req(c) = Req(d) => c = d
    /\ None \notin Clients /\ None \notin Fds
    /\ \A r \in Responses : r[1] \in Clients /\ r[2] \in 1 .. MaxRequests /\ r = <<r[1], r[2]>>
  <1>1. \A r \in Responses : Len(r) = 2
    BY DEF Responses
  <1>2. Len(NULL) = 0 /\ \A c : Len(Req(c)) = 1
    BY DEF NULL, Req
  <1>3. \A c : Req(c)[1] = c
    BY DEF Req
  <1>4. None \notin Clients /\ None \notin Fds
    BY ClientsAssumption, Zenon
  <1>5. \A r \in Responses : r[1] \in Clients /\ r[2] \in 1 .. MaxRequests /\ r = <<r[1], r[2]>>
    BY DEF Responses
  <1> QED
    BY <1>1, <1>2, <1>3, <1>4, <1>5

(* The response that a request in the inbox will get.                      *)
LEMMA NextResponse ==
    ASSUME NEW s \in Server, NEW c \in Clients, NEW cl \in Client,
           s.answers[c] < Len(cl.asked), Len(cl.asked) <= MaxRequests
    PROVE  /\ <<c, Len(cl.asked)>> \in Own(c) /\ Len(cl.asked) \in Nat
           /\ s.answers[c] \in Nat
  <1>1. s.answers[c] \in Nat /\ Len(cl.asked) \in Nat /\ MaxRequests \in Nat
    BY ClientsAssumption DEF Server, Client
  <1> HIDE DEF Server, Client
  <1>2. Len(cl.asked) \in 1 .. MaxRequests
    BY <1>1
  <1> QED
    BY <1>1, <1>2 DEF Own, Responses

(* A step for client c leaves the others alone.                            *)
Local(s, t, c) ==
    /\ t.open = s.open /\ t.req[c].fd = s.req[c].fd /\ t.req[c].at = s.req[c].at
    /\ \A f \in Fds : f # s.req[c].fd =>
          /\ t.readTran[f] = s.readTran[f] /\ t.writeTran[f] = s.writeTran[f]
          /\ t.respTran[f] = s.respTran[f]
    /\ \A d \in Clients : d # c =>
          /\ t.req[d] = s.req[d] /\ t.answers[d] = s.answers[d]
          /\ d \in t.delReqList <=> d \in s.delReqList
    /\ \A r \in Responses : r[1] # c =>
          /\ t.res[r] = s.res[r]
          /\ r \in t.delResList <=> r \in s.delResList
          /\ r \in t.forgotten <=> r \in s.forgotten
    /\ s.down => t.down

LEMMA LocalConn ==
    ASSUME NEW s, NEW t, NEW c \in Clients, Local(s, t, c), s \in Server, t \in Server,
           NEW d \in Clients, d # c, NEW cl \in Client, ConnOK(s, cl, d),
           s.req[c].at = "live", s.open[s.req[c].fd] = c
    PROVE  ConnOK(t, cl, d)
  <1> DEFINE f == s.req[d].fd
  <1>1. /\ t.req[d] = s.req[d] /\ t.answers[d] = s.answers[d]
        /\ d \in t.delReqList <=> d \in s.delReqList
    BY Zenon DEF Local
  <1>2. s.req[d].at = "live" => f \in Fds /\ f # s.req[c].fd
    BY Zenon DEF ConnOK
  <1>3. s.req[d].at = "live" => /\ t.readTran[f] = s.readTran[f]
                                /\ t.writeTran[f] = s.writeTran[f]
                                /\ t.respTran[f] = s.respTran[f] /\ t.open[f] = s.open[f]
    BY <1>2, Zenon DEF Local
  <1>4. ASSUME NEW r \in Own(d)
        PROVE  /\ t.res[r] = s.res[r]
               /\ r \in t.delResList <=> r \in s.delResList
               /\ r \in t.forgotten <=> r \in s.forgotten
               /\ NotServed(s, r) => NotServed(t, r)
    <2>1. r \in Responses /\ r[1] # c
      BY DEF Own
    <2>2. /\ t.res[r] = s.res[r]
          /\ r \in t.delResList <=> r \in s.delResList
          /\ (r \in t.forgotten <=> r \in s.forgotten) /\ (s.down => t.down)
      BY <2>1, Zenon DEF Local
    <2> QED
      BY <2>2, Zenon DEF NotServed
  <1>5. ASSUME s.req[d].at = "live", s.respTran[f] # NULL, Serving(s, d, f, s.respTran[f])
        PROVE  Serving(t, d, f, t.respTran[f])
    BY <1>5, <1>1, <1>3, <1>4, ZenonT(60) DEF Serving
  <1>6. Asked(s, cl, d)
    BY Zenon DEF ConnOK
  <1>7. Asked(t, cl, d)
    <2>1. Asking(cl) # {} => <<d, Len(cl.asked)>> \in Own(d)
      BY <1>6, NextResponse, Zenon DEF Asked
    <2> QED
      BY <1>1, <1>3, <1>4, <1>6, <2>1, Zenon DEF Asked
  <1> QED
    BY <1>1, <1>2, <1>3, <1>4, <1>5, <1>7, Zenon DEF ConnOK

(* A step for a connected client keeps Good if it keeps what holds of the  *)
(* client.                                                                 *)
LEMMA LocalGood ==
    ASSUME NEW s, NEW t, NEW c \in Clients, NEW C \in [Clients -> Client],
           NEW D \in [Clients -> Client], \A d \in Clients : d # c => D[d] = C[d],
           Good(s, C), Local(s, t, c), s.req[c].at = "live",
           t \in Server, Room(t), ConnOK(t, D[c], c)
    PROVE  Good(t, D)
  <1>1. s \in Server /\ ConnOK(s, C[c], c) /\ (\A f \in Fds : FdOK(s, f))
    BY Zenon DEF Good
  <1>2. s.open[s.req[c].fd] = c
    BY <1>1, Zenon DEF ConnOK
  <1>3. ASSUME NEW d \in Clients, d # c PROVE ConnOK(t, D[d], d)
    <2>1. ConnOK(s, D[d], d) /\ D[d] \in Client
      BY <1>3, Zenon DEF Good
    <2> QED
      BY <1>1, <1>2, <1>3, <2>1, LocalConn, Zenon
  <1>4. ASSUME NEW f \in Fds PROVE FdOK(t, f)
    <2>1. FdOK(s, f) /\ t.open = s.open /\ (s.open[f] = None => f # s.req[c].fd)
      BY <1>1, <1>2, TransApart DEF Local
    <2>2. \A d \in Clients : t.req[d].at = s.req[d].at /\ t.req[d].fd = s.req[d].fd
      BY Zenon DEF Local
    <2> QED
      BY <2>1, <2>2 DEF FdOK, Local
  <1> QED
    BY <1>3, <1>4, Zenon DEF Good

(* A step for client c and its response r alone.                           *)
Same(s, t, c, r) ==
    /\ t.open = s.open /\ t.req[c].fd = s.req[c].fd /\ t.req[c].at = s.req[c].at
    /\ \A f \in Fds : f # s.req[c].fd =>
          /\ t.readTran[f] = s.readTran[f] /\ t.writeTran[f] = s.writeTran[f]
          /\ t.respTran[f] = s.respTran[f]
    /\ \A d \in Clients : d # c =>
          /\ t.req[d] = s.req[d] /\ t.answers[d] = s.answers[d]
          /\ d \in t.delReqList <=> d \in s.delReqList
    /\ \A p \in Responses : p # r =>
          /\ t.res[p] = s.res[p]
          /\ p \in t.delResList <=> p \in s.delResList
          /\ p \in t.forgotten <=> p \in s.forgotten
    /\ s.down => t.down

LEMMA SameLocal ==
    ASSUME NEW s, NEW t, NEW c \in Clients, NEW r \in Own(c) \cup {NULL}, Same(s, t, c, r)
    PROVE  Local(s, t, c)
  BY TransApart DEF Same, Local, Own

(* What is at f, c and r after delRequestTranLazy.                         *)
LEMMA DelRequest ==
    ASSUME NEW s \in Server, NEW c \in Clients, ~s.req[c].lDel, NEW f \in Fds,
           s.req[c].fd = f, s.respTran[f] \in Own(c) \cup {NULL}, Room(s),
           NEW t, t = delRequestTranLazy(s, c), NEW r, r = s.respTran[f]
    PROVE  /\ t \in Server /\ Room(t) /\ Same(s, t, c, r)
           /\ t.readTran[f] = IF s.req[c].method = "PUT" THEN s.readTran[f] ELSE NULL
           /\ t.writeTran[f] = NULL /\ t.respTran[f] = NULL
           /\ t.req[c] = [s.req[c] EXCEPT !.lDel = TRUE]
           /\ c \in t.delReqList /\ t.delResList = s.delResList
           /\ t.answers = s.answers /\ t.forgotten = s.forgotten /\ t.down = s.down
           /\ r # NULL => t.res[r] = [s.res[r] EXCEPT !.presReq = None]
  <1> DEFINE re == IF r = NULL THEN s.res ELSE [s.res EXCEPT ![r].presReq = None]
             rd == [s.readTran EXCEPT ![f] = IF s.req[c].method = "PUT" THEN @ ELSE NULL]
             wr == [s.writeTran EXCEPT ![f] = NULL]
             rs == [s.respTran EXCEPT ![f] = NULL]
             rq == [s.req EXCEPT ![c].lDel = TRUE]
             li == s.listening \/ s.count = CLimit
             co == s.count - 1
             dq == s.delReqList \cup {c}
  <1>1. /\ s.readTran \in [Fds -> Trans] /\ s.writeTran \in [Fds -> Trans]
        /\ s.respTran \in [Fds -> Trans] /\ s.req \in [Clients -> Request]
        /\ s.res \in [Responses -> Response] /\ s.count \in Int
        /\ s.delReqList \in SUBSET Clients /\ s.listening \in BOOLEAN
    BY Zenon DEF Server
  <1>2. rd \in [Fds -> Trans] /\ wr \in [Fds -> Trans] /\ rs \in [Fds -> Trans]
    BY <1>1, Zenon DEF Trans
  <1>3. rq \in [Clients -> Request] /\ li \in BOOLEAN /\ co \in Int /\ dq \in SUBSET Clients
    <2>1. [s.req[c] EXCEPT !.lDel = TRUE] \in Request
      BY <1>1, ZenonT(60) DEF Request
    <2> QED
      BY <1>1, <2>1
  <1>4. re \in [Responses -> Response]
    BY <1>1 DEF Response, Own
  <1>5. c # None
    BY TransApart
  <1>6. t = [s EXCEPT !.listening = li, !.count = co, !.res = re, !.respTran = rs,
                      !.writeTran = wr, !.readTran = rd, !.req = rq, !.delReqList = dq]
    BY <1>5 DEF delRequestTranLazy
  <1> HIDE DEF re, rd, wr, rs, rq, li, co, dq
  <1>7. /\ t \in Server /\ t.open = s.open /\ t.readTran = rd /\ t.writeTran = wr
        /\ t.respTran = rs /\ t.req = rq /\ t.res = re
        /\ t.delReqList = dq /\ t.delResList = s.delResList
        /\ t.count = co /\ t.listening = li
        /\ t.answers = s.answers /\ t.forgotten = s.forgotten /\ t.down = s.down
    BY <1>2, <1>3, <1>4, <1>6, ZenonT(60) DEF Server
  <1>8. Room(t)
    <2>1. CLimit \in Int
      BY ClientsAssumption
    <2>2. s.count <= CLimit /\ (s.listening <=> s.count < CLimit)
      BY DEF Room
    <2>3. co < CLimit /\ li
      BY <1>1, <2>1, <2>2 DEF co, li
    <2>4. co \in Int /\ t.count = co /\ (t.listening <=> li)
      BY <1>3, <1>7, Zenon
    <2> QED
      BY <2>1, <2>3, <2>4 DEF Room
  <1>9. Same(s, t, c, r)
    BY <1>1, <1>7 DEF Same, re, rd, wr, rs, rq, dq, Request
  <1> QED
    BY <1>1, <1>7, <1>8, <1>9, Zenon DEF re, rd, wr, rs, rq, dq, Own

(* What is left of a response that is deleted.                             *)
Deleted(p) == [p EXCEPT !.lDel = TRUE, !.presReq = None, !.fd = None]

(* What delResponseTranLazy, from s to t, does after GivesBack, from s to  *)
(* b.                                                                      *)
DeletesTo(s, b, t, r) ==
    LET p == s.res[r] IN
    /\ t.open = b.open /\ t.readTran = b.readTran
    /\ t.writeTran = IF p.fd = None THEN b.writeTran ELSE [b.writeTran EXCEPT ![p.fd] = NULL]
    /\ t.respTran = b.respTran /\ t.req = b.req
    /\ t.res = [s.res EXCEPT ![r] = Deleted(p)] /\ t.delReqList = b.delReqList
    /\ t.delResList = IF p.map \/ p.batchAdd THEN b.delResList ELSE b.delResList \cup {r}
    /\ t.count = b.count /\ t.listening = b.listening /\ t.answers = b.answers
    /\ t.forgotten = b.forgotten /\ t.down = b.down

LEMMA DelResponse ==
    ASSUME NEW s \in Server, NEW r \in Responses, ~s.res[r].lDel,
           NEW b \in Server, b = GivesBack(s, r), b.res = s.res,
           NEW t, t = delResponseTranLazy(s, r)
    PROVE  t \in Server /\ DeletesTo(s, b, t, r)
  <1> PICK p : p = s.res[r]
    OBVIOUS
  <1> DEFINE wr == IF p.fd = None THEN b.writeTran ELSE [b.writeTran EXCEPT ![p.fd] = NULL]
             re == [b.res EXCEPT ![r] = Deleted(p)]
             dr == IF p.map \/ p.batchAdd THEN b.delResList ELSE b.delResList \cup {r}
  <1>1. /\ b.writeTran \in [Fds -> Trans] /\ b.res \in [Responses -> Response]
        /\ b.delResList \in SUBSET Responses /\ p \in Response
    BY Zenon DEF Server
  <1>2. wr \in [Fds -> Trans]
    BY <1>1, Zenon DEF Trans
  <1>3. re \in [Responses -> Response]
    <2>1. Deleted(p) \in Response
      BY <1>1, Zenon DEF Response, Deleted
    <2> QED
      BY <1>1, <2>1, Zenon
  <1>4. dr \in SUBSET Responses
    BY <1>1, Zenon
  <1>5. t = [b EXCEPT !.delResList = dr, !.writeTran = wr, !.res = re]
    BY Zenon DEF delResponseTranLazy, Deleted
  <1> HIDE DEF wr, re, dr
  <1>6. /\ t \in Server /\ t.open = b.open /\ t.readTran = b.readTran
        /\ t.writeTran = wr /\ t.respTran = b.respTran /\ t.req = b.req /\ t.res = re
        /\ t.delReqList = b.delReqList /\ t.delResList = dr
        /\ t.count = b.count /\ t.listening = b.listening /\ t.answers = b.answers
        /\ t.forgotten = b.forgotten /\ t.down = b.down
    BY <1>2, <1>3, <1>4, <1>5, ZenonT(60) DEF Server
  <1> QED
    BY <1>6, Zenon DEF wr, re, dr, DeletesTo

(* What Answer changes.                                                    *)
Answered(s, t, c) ==
    /\ t.answers = [s.answers EXCEPT ![c] = @ + 1]
    /\ t.open = s.open /\ t.readTran = s.readTran /\ t.writeTran = s.writeTran
    /\ t.respTran = s.respTran /\ t.req = s.req /\ t.res = s.res
    /\ t.delReqList = s.delReqList /\ t.delResList = s.delResList
    /\ t.count = s.count /\ t.listening = s.listening
    /\ t.forgotten = s.forgotten /\ t.down = s.down

LEMMA AnswerOne ==
    ASSUME NEW s \in Server, NEW f \in Fds, NEW c \in Clients, s.open[f] = c,
           NEW t, t = Answer(s, f)
    PROVE  t \in Server /\ Answered(s, t, c)
  <1> DEFINE an == [s.answers EXCEPT ![c] = @ + 1]
  <1>1. an \in [Clients -> Nat]
    BY DEF Server
  <1>2. t = [s EXCEPT !.answers = an]
    BY Zenon DEF Answer
  <1> HIDE DEF an
  <1>3. /\ t \in Server /\ t.answers = an
        /\ t.open = s.open /\ t.readTran = s.readTran /\ t.writeTran = s.writeTran
        /\ t.respTran = s.respTran /\ t.req = s.req /\ t.res = s.res
        /\ t.delReqList = s.delReqList /\ t.delResList = s.delResList
        /\ t.count = s.count /\ t.listening = s.listening
        /\ t.forgotten = s.forgotten /\ t.down = s.down
    BY <1>1, <1>2 DEF Server
  <1> QED
    BY <1>3, Zenon DEF an, Answered

(* The response r is deleted, at once or when the disk has no more use for *)
(* it.                                                                     *)
Gone(s, t, r) ==
    /\ t.res[r] = Deleted(s.res[r])
    /\ s.res[r].map \/ s.res[r].batchAdd => t.delResList = s.delResList
    /\ ~s.res[r].map /\ ~s.res[r].batchAdd => t.delResList = s.delResList \cup {r}
    /\ t.forgotten = s.forgotten /\ t.down = s.down

(* A GET gives its client's descriptor back to the request.                *)
GetBack(s, t, c, f) ==
    /\ t.readTran[f] = Req(c) /\ t.writeTran = s.writeTran
    /\ t.respTran = s.respTran /\ t.req = s.req
    /\ t.delReqList = s.delReqList /\ t.answers = s.answers

LEMMA DelGet ==
    ASSUME NEW s \in Server, NEW c \in Clients, NEW r \in Own(c), ~s.res[r].lDel,
           s.res[r].method = "GET", s.res[r].presReq = c, s.res[r].fd = None,
           NEW f \in Fds, s.req[c].fd = f, Room(s),
           NEW t, t = delResponseTranLazy(s, r)
    PROVE  /\ t \in Server /\ Room(t) /\ Same(s, t, c, r) /\ Gone(s, t, r)
           /\ GetBack(s, t, c, f)
  <1> DEFINE rd == [s.readTran EXCEPT ![f] = Req(c)]
  <1> PICK b : b = GivesBack(s, r)
    OBVIOUS
  <1>0. r \in Responses /\ c # None /\ s.res[r] \in Response /\ s.res \in [Responses -> Response]
    BY TransApart, Zenon DEF Own, Server
  <1>1. s.readTran \in [Fds -> Trans] /\ rd \in [Fds -> Trans]
    BY DEF Server, Trans
  <1>2. b = [s EXCEPT !.readTran = rd]
    BY <1>0, Zenon DEF GivesBack
  <1> HIDE DEF rd
  <1>3. /\ b \in Server /\ b.open = s.open /\ b.readTran = rd
        /\ b.writeTran = s.writeTran /\ b.respTran = s.respTran /\ b.req = s.req
        /\ b.res = s.res /\ b.delReqList = s.delReqList /\ b.delResList = s.delResList
        /\ b.count = s.count /\ b.listening = s.listening /\ b.answers = s.answers
        /\ b.forgotten = s.forgotten /\ b.down = s.down
    BY <1>1, <1>2 DEF Server
  <1>4. /\ t \in Server /\ t.open = s.open /\ t.readTran = rd /\ t.writeTran = s.writeTran
        /\ t.respTran = s.respTran /\ t.req = s.req
        /\ t.res = [s.res EXCEPT ![r] = Deleted(s.res[r])]
        /\ t.delReqList = s.delReqList
        /\ t.delResList = IF s.res[r].map \/ s.res[r].batchAdd THEN s.delResList
                          ELSE s.delResList \cup {r}
        /\ t.count = s.count /\ t.listening = s.listening /\ t.answers = s.answers
        /\ t.forgotten = s.forgotten /\ t.down = s.down
    <2>1. t \in Server /\ DeletesTo(s, b, t, r)
      BY <1>0, <1>3, DelResponse, Zenon
    <2> QED
      BY <1>3, <2>1 DEF DeletesTo
  <1>5. Room(t)
    BY <1>4, Zenon DEF Room
  <1>6. Same(s, t, c, r)
    BY <1>0, <1>1, <1>4 DEF Same, rd
  <1>7. Gone(s, t, r)
    BY <1>0, <1>4, Zenon DEF Gone
  <1> QED
    BY <1>1, <1>4, <1>5, <1>6, <1>7, Zenon DEF rd, GetBack

(* A PUT is acknowledged and gives the descriptor back, if the request is  *)
(* still there.                                                            *)
PutBack(s, t, c, f, r) ==
    /\ t.readTran[f] = IF s.res[r].presReq = None THEN NULL ELSE Req(c)
    /\ t.writeTran[f] = NULL /\ t.respTran = s.respTran /\ t.req = s.req
    /\ t.delReqList = s.delReqList /\ t.answers[c] = s.answers[c] + 1

LEMMA DelPut ==
    ASSUME NEW s \in Server, NEW c \in Clients, NEW r \in Own(c), ~s.res[r].lDel,
           s.res[r].method = "PUT", NEW f \in Fds, s.res[r].fd = f,
           s.res[r].presReq \in {c, None}, s.req[c].fd = f, s.open[f] = c, Room(s),
           NEW t, t = delResponseTranLazy(s, r)
    PROVE  /\ t \in Server /\ Room(t) /\ Same(s, t, c, r) /\ Gone(s, t, r)
           /\ PutBack(s, t, c, f, r)
  <1> DEFINE rd == [s.readTran EXCEPT ![f] =
                      IF s.res[r].presReq = None THEN NULL ELSE Req(s.res[r].presReq)]
  <1> PICK a : a = Answer(s, f)
    BY Zenon
  <1> PICK b : b = GivesBack(s, r)
    BY Zenon
  <1>0. /\ r \in Responses /\ c # None /\ f # None /\ s.res[r] \in Response
        /\ s.res \in [Responses -> Response] /\ s.answers \in [Clients -> Nat]
        /\ s.writeTran \in [Fds -> Trans]
    BY TransApart DEF Own, Server
  <1>1. s.readTran \in [Fds -> Trans] /\ rd \in [Fds -> Trans]
    BY <1>0 DEF Server, Trans
  <1>2. a \in Server /\ Answered(s, a, c)
    BY AnswerOne, Zenon
  <1>3. b = [a EXCEPT !.readTran = rd]
    BY <1>0, <1>2 DEF GivesBack, Answered
  <1> HIDE DEF rd
  <1>4. /\ b \in Server /\ b.open = s.open /\ b.readTran = rd
        /\ b.writeTran = s.writeTran /\ b.respTran = s.respTran /\ b.req = s.req
        /\ b.res = s.res /\ b.delReqList = s.delReqList /\ b.delResList = s.delResList
        /\ b.count = s.count /\ b.listening = s.listening /\ b.answers = a.answers
        /\ b.forgotten = s.forgotten /\ b.down = s.down
    BY <1>1, <1>2, <1>3 DEF Server, Answered
  <1>5. /\ t \in Server /\ t.open = s.open /\ t.readTran = rd
        /\ t.writeTran = [s.writeTran EXCEPT ![f] = NULL]
        /\ t.respTran = s.respTran /\ t.req = s.req
        /\ t.res = [s.res EXCEPT ![r] = Deleted(s.res[r])]
        /\ t.delReqList = s.delReqList
        /\ t.delResList = IF s.res[r].map \/ s.res[r].batchAdd THEN s.delResList
                          ELSE s.delResList \cup {r}
        /\ t.count = s.count /\ t.listening = s.listening
        /\ t.answers = [s.answers EXCEPT ![c] = @ + 1]
        /\ t.forgotten = s.forgotten /\ t.down = s.down
    <2>1. t \in Server /\ DeletesTo(s, b, t, r)
      BY <1>0, <1>4, DelResponse, Zenon
    <2> QED
      BY <1>0, <1>2, <1>4, <2>1 DEF DeletesTo, Answered
  <1>6. Room(t)
    BY <1>5, Zenon DEF Room
  <1>7. Same(s, t, c, r)
    BY <1>0, <1>1, <1>5 DEF Same, rd
  <1>8. Gone(s, t, r)
    BY <1>0, <1>5, Zenon DEF Gone
  <1>9. t.readTran[f] = IF s.res[r].presReq = None THEN NULL ELSE Req(c)
    BY <1>0, <1>1, <1>5 DEF rd
  <1> QED
    BY <1>0, <1>5, <1>6, <1>7, <1>8, <1>9, Zenon DEF PutBack

(* A response that leads nowhere.                                          *)
Quietly(s, t) == /\ t.readTran = s.readTran /\ t.writeTran = s.writeTran
                 /\ t.respTran = s.respTran /\ t.req = s.req
                 /\ t.delReqList = s.delReqList /\ t.answers = s.answers
LEMMA DelIdle ==
    ASSUME NEW s \in Server, NEW c \in Clients, NEW r \in Own(c), ~s.res[r].lDel,
           s.res[r].presReq = None, s.res[r].fd = None, Room(s),
           NEW t, t = delResponseTranLazy(s, r)
    PROVE  /\ t \in Server /\ Room(t) /\ Same(s, t, c, r) /\ Gone(s, t, r)
           /\ Quietly(s, t)
  <1>0. r \in Responses /\ s.res[r] \in Response /\ s.res \in [Responses -> Response]
    BY Zenon DEF Own, Server
  <1>1. s = GivesBack(s, r)
    BY DEF GivesBack
  <1>2. t \in Server /\ DeletesTo(s, s, t, r)
    BY <1>0, <1>1, DelResponse
  <1>3. Room(t)
    BY <1>2, Zenon DEF Room, DeletesTo
  <1>4. Same(s, t, c, r)
    BY <1>0, <1>2 DEF Same, DeletesTo
  <1>5. Gone(s, t, r)
    BY <1>0, <1>2, Zenon DEF Gone, DeletesTo
  <1> QED
    BY <1>2, <1>3, <1>4, <1>5, Zenon DEF DeletesTo, Quietly

LEMMA ReInit ==
    ASSUME NEW s \in Server, NEW c \in Clients, NEW f \in Fds, s.req[c].fd = f,
           NEW t, t = reInitHTTPRequest(s, c), NEW r, Room(s)
    PROVE  /\ t \in Server /\ Room(t) /\ Same(s, t, c, r)
           /\ t.readTran[f] = IF s.req[c].method = "PUT" THEN s.readTran[f] ELSE NULL
           /\ t.writeTran[f] = NULL /\ t.respTran[f] = NULL
           /\ t.req[c] = [s.req[c] EXCEPT !.method = "GET"]
           /\ t.delReqList = s.delReqList /\ t.delResList = s.delResList
           /\ t.answers = s.answers /\ t.forgotten = s.forgotten /\ t.down = s.down
           /\ t.res = s.res /\ t.open = s.open
  <1> DEFINE rd == [s.readTran EXCEPT ![f] = IF s.req[c].method = "PUT" THEN @ ELSE NULL]
             wr == [s.writeTran EXCEPT ![f] = NULL]
             rs == [s.respTran EXCEPT ![f] = NULL]
             rq == [s.req EXCEPT ![c].method = "GET"]
  <1>1. /\ s.readTran \in [Fds -> Trans] /\ s.writeTran \in [Fds -> Trans]
        /\ s.respTran \in [Fds -> Trans] /\ s.req \in [Clients -> Request]
    BY DEF Server
  <1>2. rd \in [Fds -> Trans] /\ wr \in [Fds -> Trans] /\ rs \in [Fds -> Trans]
    BY <1>1 DEF Trans
  <1>3. rq \in [Clients -> Request]
    <2>1. [s.req[c] EXCEPT !.method = "GET"] \in Request
      BY <1>1 DEF Request
    <2> QED
      BY <1>1, <2>1
  <1>4. t = [s EXCEPT !.respTran = rs, !.writeTran = wr, !.readTran = rd, !.req = rq]
    BY DEF reInitHTTPRequest
  <1> HIDE DEF rd, wr, rs, rq
  <1>5. /\ t \in Server /\ t.open = s.open /\ t.readTran = rd /\ t.writeTran = wr
        /\ t.respTran = rs /\ t.req = rq /\ t.res = s.res
        /\ t.delReqList = s.delReqList /\ t.delResList = s.delResList
        /\ t.count = s.count /\ t.listening = s.listening /\ t.answers = s.answers
        /\ t.forgotten = s.forgotten /\ t.down = s.down
    BY <1>2, <1>3, <1>4, ZenonT(60) DEF Server
  <1>6. Same(s, t, c, r)
    BY <1>1, <1>5 DEF Same, rd, wr, rs, rq, Request
  <1>7. Room(t)
    BY <1>5, Zenon DEF Room
  <1> QED
    BY <1>1, <1>5, <1>6, <1>7 DEF rd, wr, rs, rq

LEMMA SameTrans ==
    ASSUME NEW s, NEW t, NEW u, NEW c, NEW r, Same(s, t, c, r), Same(t, u, c, r)
    PROVE  Same(s, u, c, r)
  BY DEF Same

-----------------------------------------------------------------------------
(* The response r of client c is in service on f; how it stands with the   *)
(* disk and the client is left open.                                       *)
InService(s, cl, c, f, r) ==
    /\ s \in Server /\ Room(s) /\ f \in Fds /\ r \in Own(c)
    /\ Live(s.req[c]) /\ s.req[c].fd = f /\ s.open[f] = c /\ c \notin s.delReqList
    /\ s.respTran[f] = r /\ Live(s.res[r]) /\ s.res[r].presReq = c
    /\ s.res[r].status = "incomplete" /\ r \notin s.delResList
    /\ s.req[c].method = s.res[r].method
    /\ s.answers[c] < Len(cl.asked) /\ Len(cl.asked) <= MaxRequests
    /\ \A p \in Own(c) : p # r => NotServed(s, p)
    /\ \A p \in Own(c) : p[2] > Len(cl.asked) => s.res[p].at = "none"
    /\ Asking(cl) = {}

(* A GET whose reply is not under way, a PUT whose object is being read.   *)
GetReady(s, cl, c, f, r) ==
    /\ InService(s, cl, c, f, r) /\ s.res[r].method = "GET" /\ s.res[r].fd = None
    /\ ~s.res[r].batchAdd /\ ~s.res[r].map /\ s.readTran[f] \in {NULL, Req(c)}
PutReady(s, cl, c, f, r) ==
    /\ InService(s, cl, c, f, r) /\ s.res[r].method = "PUT" /\ s.res[r].fd = f
    /\ ~s.res[r].map /\ s.readTran[f] = r /\ s.writeTran[f] = NULL

(* A response in a table is in service.                                    *)
LEMMA ServedOf ==
    ASSUME NEW s \in Server, Room(s), NEW c \in Clients, NEW cl \in Client,
           ConnOK(s, cl, c), s.req[c].at = "live",
           NEW f, f = s.req[c].fd, NEW r, r = s.respTran[f], r # NULL
    PROVE  /\ InService(s, cl, c, f, r) /\ Serving(s, c, f, r)
  <1>1. /\ f \in Fds /\ s.open[f] = c /\ ~s.req[c].lDel /\ Serving(s, c, f, r)
        /\ s.answers[c] < Len(cl.asked) /\ c \notin s.delReqList /\ Asked(s, cl, c)
    BY Zenon DEF ConnOK
  <1>2. \A p \in Own(c) : p # r => NotServed(s, p)
    BY Zenon DEF ConnOK
  <1>3. Asking(cl) = {}
    BY <1>1, Zenon DEF Asked
  <1> QED
    BY <1>1, <1>2, <1>3, Zenon DEF InService, Serving, Asked, Live

(* The other responses of the client, after a step for r.                  *)
LEMMA OthersKept ==
    ASSUME NEW s, NEW t, NEW c \in Clients, NEW r, Same(s, t, c, r),
           NEW p \in Own(c), p # r
    PROVE  /\ NotServed(s, p) => NotServed(t, p)
           /\ t.res[p] = s.res[p]
  <1>1. p \in Responses
    BY DEF Own
  <1>2. /\ t.res[p] = s.res[p] /\ (s.down => t.down)
        /\ p \in t.delResList <=> p \in s.delResList
        /\ p \in t.forgotten <=> p \in s.forgotten
    BY <1>1, Zenon DEF Same
  <1> QED
    BY <1>2, Zenon DEF NotServed

(* The response is no longer served; the request waits for the next one or *)
(* is deleted.                                                             *)
LEMMA ServiceEnds ==
    ASSUME NEW s, NEW t \in Server, NEW c \in Clients, NEW cl \in Client, NEW f, NEW r,
           InService(s, cl, c, f, r), Same(s, t, c, r),
           t.respTran[f] = NULL, t.writeTran[f] = NULL, t.req[c].method = "GET",
           t.answers[c] <= s.answers[c] + 1, NotServed(t, r),
           t.res[r].at = s.res[r].at,
           \/ /\ ~t.req[c].lDel /\ c \notin t.delReqList
              /\ t.readTran[f] \in {NULL, Req(c)}
           \/ t.req[c].lDel /\ c \in t.delReqList /\ t.readTran[f] = NULL
    PROVE  ConnOK(t, cl, c)
  <1>1. t.req[c].at = "live" /\ t.req[c].fd = f /\ f \in Fds /\ t.open[f] = c
    BY DEF Same, InService, Live
  <1>2. \A p \in Own(c) : NotServed(t, p)
    BY OthersKept DEF InService
  <1>3. Asked(t, cl, c)
    <2>1. /\ s.answers[c] \in Nat /\ t.answers[c] \in Nat /\ Len(cl.asked) \in Nat
          /\ s.answers[c] < Len(cl.asked) /\ Len(cl.asked) <= MaxRequests
          /\ Asking(cl) = {}
      BY DEF InService, Server, Client
    <2>2. t.answers[c] <= Len(cl.asked)
      BY <2>1
    <2>3. ASSUME NEW p \in Own(c), p[2] > Len(cl.asked) PROVE t.res[p].at = "none"
      <3>1. s.res[p].at = "none"
        BY <2>3, Zenon DEF InService
      <3>2. p # r => t.res[p] = s.res[p]
        BY OthersKept
      <3> QED
        BY <3>1, <3>2, Zenon
    <2> QED
      BY <2>1, <2>2, <2>3, Zenon DEF Asked
  <1> QED
    BY <1>1, <1>2, <1>3, Zenon DEF ConnOK

(* The response is served on.                                              *)
LEMMA ServiceGoesOn ==
    ASSUME NEW s, NEW t \in Server, NEW c \in Clients, NEW cl \in Client, NEW f, NEW r,
           InService(s, cl, c, f, r), Same(s, t, c, r),
           ~t.req[c].lDel, c \notin t.delReqList, t.respTran[f] = r,
           t.answers[c] = s.answers[c], Serving(t, c, f, r)
    PROVE  ConnOK(t, cl, c)
  <1>1. t.req[c].at = "live" /\ t.req[c].fd = f /\ f \in Fds /\ t.open[f] = c
    BY Zenon DEF Same, InService, Live
  <1>2. \A p \in Own(c) : p # r => NotServed(t, p)
    BY OthersKept, Zenon DEF InService
  <1>3. r # NULL
    BY TransApart, Zenon DEF InService, Own
  <1>4. /\ t.answers[c] < Len(cl.asked) /\ Len(cl.asked) <= MaxRequests
        /\ Asking(cl) = {} /\ t.answers[c] \in Nat /\ Len(cl.asked) \in Nat
    BY DEF InService, Server, Client
  <1>5. Asked(t, cl, c)
    <2>1. ASSUME NEW p \in Own(c), p[2] > Len(cl.asked) PROVE t.res[p].at = "none"
      <3>1. s.res[r].at = "live"
        BY Zenon DEF InService, Live
      <3>2. s.res[p].at = "none"
        BY <2>1, Zenon DEF InService
      <3>3. p # r
        BY <3>1, <3>2
      <3>4. t.res[p] = s.res[p]
        BY <3>3, OthersKept
      <3> QED
        BY <3>2, <3>4
    <2>2. t.answers[c] <= Len(cl.asked)
      BY <1>4
    <2> QED
      BY <1>4, <2>1, <2>2, Zenon DEF Asked
  <1> QED
    BY <1>1, <1>2, <1>3, <1>4, <1>5, Zenon DEF ConnOK

LEMMA AnswerSame ==
    ASSUME NEW s \in Server, NEW f \in Fds, NEW c \in Clients, s.open[f] = c,
           NEW t, t = Answer(s, f), NEW r, Room(s)
    PROVE  Room(t) /\ Same(s, t, c, r) /\ t.answers[c] = s.answers[c] + 1
  <1>1. t \in Server /\ Answered(s, t, c)
    BY AnswerOne, Zenon
  <1>2. s.answers \in [Clients -> Nat]
    BY Zenon DEF Server
  <1> QED
    BY <1>1, <1>2 DEF Same, Room, Answered

LEMMA DeletedFields ==
    ASSUME NEW p \in Response, NEW d, d = Deleted(p)
    PROVE  /\ d.at = p.at /\ d.lDel /\ d.presReq = None /\ d.fd = None
           /\ d.method = p.method /\ d.map = p.map /\ d.batchAdd = p.batchAdd
  BY Zenon DEF Deleted, Response

(* A deleted response is not served.                                       *)
LEMMA GoneNotServed ==
    ASSUME NEW s \in Server, NEW t, NEW r \in Responses, Gone(s, t, r),
           s.res[r].at = "live", s.res[r].method = "GET" => ~s.res[r].batchAdd,
           s.res[r].map => s.res[r].batchAdd
    PROVE  NotServed(t, r) /\ t.res[r].at = "live"
  <1>1. s.res[r] \in Response
    BY DEF Server
  <1>2. /\ t.res[r].at = s.res[r].at /\ t.res[r].lDel /\ t.res[r].presReq = None
        /\ t.res[r].fd = None /\ t.res[r].method = s.res[r].method
        /\ t.res[r].batchAdd = s.res[r].batchAdd
    BY <1>1, DeletedFields DEF Gone
  <1>3. s.res[r].batchAdd \/ r \in t.delResList
    BY Zenon DEF Gone
  <1> QED
    BY <1>2, <1>3, Zenon DEF NotServed

LEMMA FinishedGet ==
    ASSUME NEW s, NEW c \in Clients, NEW cl \in Client, NEW f, NEW r,
           GetReady(s, cl, c, f, r), NEW t, t = Finished(Answer(s, f), r)
    PROVE  t \in Server /\ Room(t) /\ Same(s, t, c, r) /\ ConnOK(t, cl, c)
  <1>1. /\ s \in Server /\ Room(s) /\ f \in Fds /\ r \in Own(c) /\ InService(s, cl, c, f, r)
        /\ Live(s.req[c]) /\ s.req[c].fd = f /\ s.open[f] = c /\ c \notin s.delReqList
        /\ Live(s.res[r]) /\ s.res[r].presReq = c /\ s.res[r].method = "GET"
        /\ s.res[r].fd = None /\ ~s.res[r].batchAdd /\ ~s.res[r].map
    BY Zenon DEF GetReady, InService
  <1>2. r \in Responses /\ c # None /\ s.req[c] \in Request /\ s.answers[c] \in Nat
    BY <1>1, TransApart, Zenon DEF Own, Server
  <1> PICK a : a = Answer(s, f)
    BY Zenon
  <1>3. /\ a \in Server /\ Answered(s, a, c)
        /\ a.req = s.req /\ a.res = s.res /\ a.delReqList = s.delReqList
    <2>1. a \in Server /\ Answered(s, a, c)
      BY <1>1, AnswerOne, Zenon
    <2> QED
      BY <2>1, Zenon DEF Answered
  <1>4. Room(a) /\ Same(s, a, c, r) /\ a.answers[c] = s.answers[c] + 1
    BY <1>1, AnswerSame
  <1> PICK u : u = reInitHTTPRequest(a, c)
    BY Zenon
  <1>5. a.req[c].fd = f
    BY <1>1, <1>3, Zenon
  <1>6. /\ u \in Server /\ Room(u) /\ Same(a, u, c, r)
        /\ u.writeTran[f] = NULL /\ u.respTran[f] = NULL
        /\ u.req[c] = [a.req[c] EXCEPT !.method = "GET"]
        /\ u.delReqList = a.delReqList /\ u.delResList = a.delResList
        /\ u.answers = a.answers /\ u.res = a.res
    BY <1>1, <1>3, <1>4, <1>5, ReInit
  <1>7. t = delResponseTranLazy(u, r)
    BY <1>1, <1>2, <1>3, Zenon DEF Finished
  <1>8. u.req[c].fd = f /\ ~u.req[c].lDel /\ u.req[c].method = "GET" /\ u.res[r] = s.res[r]
    BY <1>1, <1>2, <1>3, <1>6 DEF Request, Live
  <1>9. /\ t \in Server /\ Room(t) /\ Same(u, t, c, r) /\ Gone(u, t, r)
        /\ GetBack(u, t, c, f)
    <2>1. /\ u \in Server /\ r \in Own(c) /\ ~u.res[r].lDel /\ u.res[r].method = "GET"
          /\ u.res[r].presReq = c /\ u.res[r].fd = None /\ f \in Fds /\ u.req[c].fd = f
          /\ Room(u)
      BY <1>1, <1>6, <1>8 DEF Live
    <2> QED
      BY <1>7, <2>1, DelGet, Zenon
  <1>10. Same(s, t, c, r)
    BY <1>4, <1>6, <1>9, SameTrans
  <1>11. NotServed(t, r) /\ t.res[r].at = "live"
    BY <1>1, <1>2, <1>6, <1>8, <1>9, GoneNotServed DEF Live
  <1>12. ConnOK(t, cl, c)
    <2>1. /\ t.respTran[f] = NULL /\ t.writeTran[f] = NULL /\ t.req[c].method = "GET"
          /\ ~t.req[c].lDel /\ c \notin t.delReqList /\ t.readTran[f] \in {NULL, Req(c)}
      BY <1>1, <1>3, <1>6, <1>8, <1>9, ZenonT(60) DEF GetBack
    <2>2. t.answers[c] <= s.answers[c] + 1
      BY <1>2, <1>4, <1>6, <1>9 DEF GetBack
    <2>3. t.res[r].at = s.res[r].at
      BY <1>1, <1>11, Zenon DEF Live
    <2> QED
      BY <1>1, <1>9, <1>10, <1>11, <2>1, <2>2, <2>3, ServiceEnds, Zenon
  <1> QED
    BY <1>9, <1>10, <1>12, Zenon

(* A write failed: the request and the response are deleted.               *)
LEMMA BothDeletedGet ==
    ASSUME NEW s, NEW c \in Clients, NEW cl \in Client, NEW f, NEW r,
           GetReady(s, cl, c, f, r), NEW t, t = BothDeleted(s, r)
    PROVE  t \in Server /\ Room(t) /\ Same(s, t, c, r) /\ ConnOK(t, cl, c)
  <1>1. /\ s \in Server /\ Room(s) /\ f \in Fds /\ r \in Own(c) /\ InService(s, cl, c, f, r)
        /\ ~s.req[c].lDel /\ s.req[c].fd = f /\ s.open[f] = c /\ s.respTran[f] = r
        /\ Live(s.res[r]) /\ s.res[r].presReq = c /\ s.res[r].method = "GET"
        /\ s.req[c].method = "GET" /\ s.res[r].fd = None
        /\ ~s.res[r].batchAdd /\ ~s.res[r].map
    BY Zenon DEF GetReady, InService, Live
  <1>2. /\ r \in Responses /\ r # NULL /\ s.req[c] \in Request /\ s.answers[c] \in Nat
        /\ s.res[r] \in Response
    BY <1>1, TransApart DEF Own, Server
  <1> PICK u : u = delRequestTranLazy(s, c)
    OBVIOUS
  <1>3. /\ u \in Server /\ Room(u) /\ Same(s, u, c, r)
        /\ u.readTran[f] = NULL /\ u.writeTran[f] = NULL /\ u.respTran[f] = NULL
        /\ u.req[c] = [s.req[c] EXCEPT !.lDel = TRUE]
        /\ c \in u.delReqList /\ u.answers = s.answers
        /\ u.res[r] = [s.res[r] EXCEPT !.presReq = None]
    BY <1>1, <1>2, DelRequest
  <1>4. t = delResponseTranLazy(u, r)
    BY <1>1 DEF BothDeleted
  <1>5. /\ u.res[r].presReq = None /\ u.res[r].fd = None /\ ~u.res[r].lDel
        /\ u.res[r].at = "live" /\ u.res[r].method = "GET" /\ ~u.res[r].batchAdd
        /\ ~u.res[r].map /\ u.req[c].lDel /\ u.req[c].method = "GET"
    BY <1>1, <1>2, <1>3 DEF Response, Request, Live
  <1>6. /\ t \in Server /\ Room(t) /\ Same(u, t, c, r) /\ Gone(u, t, r)
        /\ Quietly(u, t)
    <2>1. /\ u \in Server /\ r \in Own(c) /\ ~u.res[r].lDel
          /\ u.res[r].presReq = None /\ u.res[r].fd = None /\ Room(u)
      BY <1>1, <1>3, <1>5, Zenon
    <2> QED
      BY <1>4, <2>1, DelIdle, Zenon
  <1>7. Same(s, t, c, r)
    BY <1>3, <1>6, SameTrans, Zenon
  <1>8. NotServed(t, r) /\ t.res[r].at = "live"
    BY <1>2, <1>3, <1>5, <1>6, GoneNotServed, Zenon
  <1>9. ConnOK(t, cl, c)
    <2>1. /\ t.respTran[f] = NULL /\ t.writeTran[f] = NULL /\ t.req[c].method = "GET"
          /\ t.req[c].lDel /\ c \in t.delReqList /\ t.readTran[f] = NULL
      BY <1>3, <1>5, <1>6, ZenonT(60) DEF Quietly
    <2>2. t.answers[c] <= s.answers[c] + 1
      BY <1>2, <1>3, <1>6 DEF Quietly
    <2>3. t.res[r].at = s.res[r].at
      BY <1>1, <1>8, Zenon DEF Live
    <2> QED
      BY <1>1, <1>6, <1>7, <1>8, <2>1, <2>2, <2>3, ServiceEnds, Zenon
  <1> QED
    BY <1>6, <1>7, <1>9

(* Only responses are changed.                                             *)
ResOnly(s, t) ==
    /\ t.readTran = s.readTran /\ t.writeTran = s.writeTran
    /\ t.respTran = s.respTran /\ t.open = s.open /\ t.req = s.req
    /\ t.delReqList = s.delReqList /\ t.delResList = s.delResList
    /\ t.count = s.count /\ t.listening = s.listening /\ t.answers = s.answers
    /\ t.forgotten = s.forgotten /\ t.down = s.down

ResSet(s, t, c, r, p) ==
    t \in Server /\ Room(t) /\ ResOnly(s, t) /\ Same(s, t, c, r) /\ t.res[r] = p

LEMMA SetRes ==
    ASSUME NEW s, NEW c, NEW r, NEW p, NEW t,
           s \in Server, r \in Responses, p \in Response, Room(s),
           t = [s EXCEPT !.res = [s.res EXCEPT ![r] = p]]
    PROVE  ResSet(s, t, c, r, p)
  <1> DEFINE re == [s.res EXCEPT ![r] = p]
  <1>1. s.res \in [Responses -> Response] /\ re \in [Responses -> Response]
    BY Zenon DEF Server
  <1>2. t = [s EXCEPT !.res = re]
    OBVIOUS
  <1> HIDE DEF re
  <1>3. t \in Server /\ t.res = re /\ ResOnly(s, t)
    BY <1>1, <1>2, Zenon DEF Server, ResOnly
  <1>4. Same(s, t, c, r)
    BY <1>1, <1>3 DEF Same, ResOnly, re
  <1>5. Room(t)
    BY <1>3, Zenon DEF Room, ResOnly
  <1> QED
    BY <1>1, <1>3, <1>4, <1>5, Zenon DEF re, ResSet

LEMMA BlockSet ==
    ASSUME NEW s, NEW c \in Clients, NEW cl \in Client, NEW f, NEW r,
           GetReady(s, cl, c, f, r), NEW b \in Nat,
           NEW t, t = [s EXCEPT !.res[r].block = b]
    PROVE  GetReady(t, cl, c, f, r) /\ Same(s, t, c, r) /\ t.writeTran = s.writeTran
  <1> DEFINE p == [s.res[r] EXCEPT !.block = b]
  <1>1. InService(s, cl, c, f, r) /\ s \in Server /\ r \in Responses /\ Room(s) /\ r \in Own(c)
    BY Zenon DEF GetReady, InService, Own
  <1>2. s.res[r] \in Response
    BY <1>1, Zenon DEF Server
  <1>3. /\ p \in Response /\ p.at = s.res[r].at /\ p.fd = s.res[r].fd
        /\ p.method = s.res[r].method /\ p.presReq = s.res[r].presReq
        /\ p.lDel = s.res[r].lDel /\ p.map = s.res[r].map
        /\ p.batchAdd = s.res[r].batchAdd /\ p.status = s.res[r].status
    BY <1>2, Zenon DEF Response
  <1>4. t = [s EXCEPT !.res = [s.res EXCEPT ![r] = p]]
    BY Zenon
  <1> HIDE DEF p
  <1>5. t \in Server /\ Room(t) /\ ResOnly(s, t) /\ Same(s, t, c, r) /\ t.res[r] = p
    <2>1. s \in Server /\ r \in Responses /\ p \in Response /\ Room(s)
      BY <1>1, <1>3, Zenon
    <2>2. ResSet(s, t, c, r, p)
      BY <2>1, <1>4, SetRes, Zenon
    <2> QED
      BY <2>2, Zenon DEF ResSet
  <1>6. \A q \in Own(c) : q # r => NotServed(t, q) /\ t.res[q] = s.res[q]
    <2>1. ASSUME NEW q \in Own(c), q # r PROVE NotServed(t, q) /\ t.res[q] = s.res[q]
      <3>1. NotServed(s, q)
        BY <1>1, <2>1, Zenon DEF InService
      <3>2. NotServed(t, q)
        BY <1>5, <2>1, <3>1, Zenon DEF NotServed, Same, Own
      <3> QED
        BY <1>5, <2>1, <3>2, Zenon DEF Same, Own
    <2> QED
      BY <2>1, Zenon
  <1>7. \A q \in Own(c) : q[2] > Len(cl.asked) => t.res[q].at = "none"
    BY <1>1, <1>3, <1>5, <1>6 DEF InService
  <1>8. InService(t, cl, c, f, r)
    BY <1>1, <1>3, <1>5, <1>6, <1>7 DEF InService, ResOnly, Live
  <1> QED
    BY <1>3, <1>5, <1>8, Zenon DEF GetReady, ResOnly

(* The next block has to be read from disk.                                *)
LEMMA NeedsDiskGet ==
    ASSUME NEW s, NEW c \in Clients, NEW cl \in Client, NEW f, NEW r,
           GetReady(s, cl, c, f, r), s.writeTran[f] = NULL, NEW t, t = NeedsDisk(s, r)
    PROVE  t \in Server /\ Room(t) /\ Same(s, t, c, r) /\ ConnOK(t, cl, c)
  <1> DEFINE p == [s.res[r] EXCEPT !.map = TRUE]
  <1>1. InService(s, cl, c, f, r) /\ s \in Server /\ r \in Responses /\ Room(s) /\ r \in Own(c)
    BY Zenon DEF GetReady, InService, Own
  <1>2. s.res[r] \in Response
    BY <1>1, Zenon DEF Server
  <1>3. /\ p \in Response /\ p.at = s.res[r].at /\ p.fd = s.res[r].fd
        /\ p.method = s.res[r].method /\ p.presReq = s.res[r].presReq
        /\ p.lDel = s.res[r].lDel /\ p.map
        /\ p.batchAdd = s.res[r].batchAdd /\ p.status = s.res[r].status
    BY <1>2, Zenon DEF Response
  <1>4. t = [s EXCEPT !.res = [s.res EXCEPT ![r] = p]]
    BY Zenon DEF NeedsDisk
  <1> HIDE DEF p
  <1>5. t \in Server /\ Room(t) /\ ResOnly(s, t) /\ Same(s, t, c, r) /\ t.res[r] = p
    <2>1. s \in Server /\ r \in Responses /\ p \in Response /\ Room(s)
      BY <1>1, <1>3, Zenon
    <2>2. ResSet(s, t, c, r, p)
      BY <2>1, <1>4, SetRes, ZenonT(60)
    <2> QED
      BY <2>2 DEF ResSet
  <1>6. Serving(t, c, f, r)
    BY <1>1, <1>3, <1>5 DEF Serving, GetReady, InService, ResOnly, Live
  <1>7. /\ ~t.req[c].lDel /\ c \notin t.delReqList /\ t.respTran[f] = r
        /\ t.answers[c] = s.answers[c]
    BY <1>1, <1>5 DEF InService, ResOnly, Live
  <1> QED
    BY <1>1, <1>5, <1>6, <1>7, ServiceGoesOn, Zenon

(* Only the table of writers is changed, at one descriptor.                *)
WriteOnly(s, t) ==
    /\ t.readTran = s.readTran /\ t.respTran = s.respTran
    /\ t.open = s.open /\ t.req = s.req /\ t.res = s.res
    /\ t.delReqList = s.delReqList /\ t.delResList = s.delResList
    /\ t.count = s.count /\ t.listening = s.listening /\ t.answers = s.answers
    /\ t.forgotten = s.forgotten /\ t.down = s.down

WriteSet(s, t, c, f, r, x) ==
    /\ t \in Server /\ Room(t) /\ WriteOnly(s, t) /\ Same(s, t, c, r)
    /\ t.writeTran[f] = x

LEMMA SetWrite ==
    ASSUME NEW s, NEW c, NEW f, NEW r, NEW x, NEW t,
           s \in Server, f \in Fds, x \in Trans, Room(s), s.req[c].fd = f,
           t = [s EXCEPT !.writeTran[f] = x]
    PROVE  WriteSet(s, t, c, f, r, x)
  <1> DEFINE wr == [s.writeTran EXCEPT ![f] = x]
  <1>1. s.writeTran \in [Fds -> Trans] /\ wr \in [Fds -> Trans]
    BY Zenon DEF Server
  <1>2. t = [s EXCEPT !.writeTran = wr]
    BY Zenon
  <1> HIDE DEF wr
  <1>3. t \in Server /\ t.writeTran = wr /\ WriteOnly(s, t)
    BY <1>1, <1>2, Zenon DEF Server, WriteOnly
  <1>4. Same(s, t, c, r)
    BY <1>1, <1>3 DEF Same, WriteOnly, wr
  <1>5. Room(t)
    BY <1>3 DEF Room, WriteOnly
  <1> QED
    BY <1>1, <1>3, <1>4, <1>5 DEF wr, WriteSet

(* The client does not take the data.                                      *)
LEMMA BlockedGet ==
    ASSUME NEW s, NEW c \in Clients, NEW cl \in Client, NEW f, NEW r,
           GetReady(s, cl, c, f, r), NEW t, t = Blocked(s, r)
    PROVE  t \in Server /\ Room(t) /\ Same(s, t, c, r) /\ ConnOK(t, cl, c)
  <1>1. /\ InService(s, cl, c, f, r) /\ s \in Server /\ f \in Fds /\ Room(s)
        /\ s.req[c].fd = f /\ s.res[r].presReq = c /\ r \in Trans
    BY Zenon DEF GetReady, InService, Own, Trans
  <1>2. t = [s EXCEPT !.writeTran[f] = r]
    BY <1>1 DEF Blocked
  <1>3. /\ t \in Server /\ Room(t) /\ WriteOnly(s, t) /\ Same(s, t, c, r)
        /\ t.writeTran[f] = r
    <2>1. s \in Server /\ f \in Fds /\ r \in Trans /\ Room(s) /\ s.req[c].fd = f
      BY <1>1
    <2>2. WriteSet(s, t, c, f, r, r)
      BY <2>1, <1>2, SetWrite, Zenon
    <2> QED
      BY <2>2 DEF WriteSet
  <1>4. Serving(t, c, f, r)
    BY <1>1, <1>3, Zenon DEF Serving, GetReady, InService, WriteOnly
  <1>5. /\ ~t.req[c].lDel /\ c \notin t.delReqList /\ t.respTran[f] = r
        /\ t.answers[c] = s.answers[c]
    BY <1>1, <1>3 DEF InService, WriteOnly, Live
  <1> QED
    BY <1>1, <1>3, <1>4, <1>5, ServiceGoesOn, Zenon

(* The step from s to t keeps what holds of c, and is for c and r alone.   *)
Outcome(s, t, cl, c, r) ==
    t \in Server /\ Room(t) /\ Same(s, t, c, r) /\ ConnOK(t, cl, c)

LEMMA CompleteGet ==
    ASSUME NEW s, NEW c \in Clients, NEW cl \in Client, NEW f, NEW r,
           GetReady(s, cl, c, f, r), NEW t, t = Complete(s, r) \/ t = Missed(s, r)
    PROVE  Outcome(s, t, cl, c, r)
  <1>1. s.res[r].presReq = c /\ s.req[c].fd = f
    BY Zenon DEF GetReady, InService
  <1>2. t = Finished(Answer(s, f), r)
    BY <1>1, Zenon DEF Complete, Missed, sendNegReply
  <1> QED
    BY <1>2, FinishedGet DEF Outcome

LEMMA SendsGet ==
    ASSUME NEW s, NEW c \in Clients, NEW cl \in Client, NEW f, NEW r,
           GetReady(s, cl, c, f, r), s.writeTran[f] = NULL, NEW t \in Sends(s, r)
    PROVE  Outcome(s, t, cl, c, r)
  <1>1. s \in Server /\ r \in Responses /\ Blocks \in Nat
    BY ClientsAssumption, Zenon DEF GetReady, InService, Own
  <1>2. s.res[r].block \in Nat
    BY <1>1, Zenon DEF Server, Response
  <1>3. PICK b \in s.res[r].block + 1 .. Blocks :
           LET u == [s EXCEPT !.res[r].block = b]
           IN  t \in {Blocked(u, r), IF b = Blocks THEN Complete(u, r) ELSE NeedsDisk(u, r),
                      BothDeleted(u, r)}
    BY Zenon DEF Sends
  <1>4. b \in Nat
    BY <1>1, <1>2
  <1> PICK u : u = [s EXCEPT !.res[r].block = b]
    BY Zenon
  <1>5. GetReady(u, cl, c, f, r) /\ Same(s, u, c, r) /\ u.writeTran = s.writeTran
    BY <1>4, BlockSet
  <1>6. \/ t = Blocked(u, r) \/ t = Complete(u, r)
        \/ t = NeedsDisk(u, r) \/ t = BothDeleted(u, r)
    BY <1>3, Zenon
  <1>7. u.writeTran[f] = NULL
    BY <1>5, Zenon
  <1>8. Outcome(u, t, cl, c, r)
    <2>1. CASE t = Blocked(u, r)
      BY <1>5, <2>1, BlockedGet, Zenon DEF Outcome
    <2>2. CASE t = Complete(u, r)
      BY <1>5, <2>2, CompleteGet, Zenon
    <2>3. CASE t = NeedsDisk(u, r)
      BY <1>5, <1>7, <2>3, NeedsDiskGet, Zenon DEF Outcome
    <2>4. CASE t = BothDeleted(u, r)
      BY <1>5, <2>4, BothDeletedGet, Zenon DEF Outcome
    <2> QED
      BY <1>6, <2>1, <2>2, <2>3, <2>4, Zenon
  <1> QED
    BY <1>5, <1>8, SameTrans, Zenon DEF Outcome

LEMMA JoinFlowGet ==
    ASSUME NEW s, NEW c \in Clients, NEW cl \in Client, NEW f, NEW r,
           GetReady(s, cl, c, f, r), s.writeTran[f] = NULL, NEW t \in joinFlow(s, r)
    PROVE  Outcome(s, t, cl, c, r)
  <1>1. CASE t = Missed(s, r)
    BY <1>1, CompleteGet, Zenon
  <1>2. CASE t = NeedsDisk(s, r)
    BY <1>2, NeedsDiskGet, Zenon DEF Outcome
  <1>3. CASE t \in Sends(s, r)
    BY <1>3, SendsGet, Zenon
  <1> QED
    BY <1>1, <1>2, <1>3, Zenon DEF joinFlow
-----------------------------------------------------------------------------
(* A client that has sent a request is served by nobody yet.               *)
Starts(s, t, cl, c, f, r, m) ==
    /\ InService(t, cl, c, f, r) /\ Same(s, t, c, r) /\ t.writeTran[f] = NULL
    /\ t.readTran[f] = s.readTran[f] /\ t.res[r].method = m /\ t.res[r].fd = None
    /\ ~t.res[r].batchAdd /\ ~t.res[r].map

(* cl has sent a request, and in dl it has been read.                      *)
ReadOne(cl, dl) ==
    /\ dl.asked = cl.asked /\ Asking(dl) = {} /\ dl \in Client
    /\ dl.left = cl.left /\ dl.whole = cl.whole

(* What a client has in its inbox after n messages are read.               *)
LEMMA ReadInbox ==
    ASSUME NEW cl \in Client, NEW n \in 1 .. Len(cl.inbox), NEW dl,
           dl = [cl EXCEPT !.inbox = SubSeq(@, n + 1, Len(@))]
    PROVE  /\ dl \in Client /\ dl.asked = cl.asked
           /\ dl.left = cl.left /\ dl.whole = cl.whole
           /\ \A i \in Asking(dl) : i \in Nat \ {0} /\ i + n \in Asking(cl)
  <1> DEFINE S == Asks \cup {"rest", "fin"}
             inb == cl.inbox
             out == SubSeq(inb, n + 1, Len(inb))
  <1>1. inb \in Seq(S) /\ Len(inb) \in Nat /\ n \in Nat
    BY DEF Client
  <1>2. /\ out \in Seq(S) /\ Len(out) = Len(inb) - n
        /\ \A i \in 1 .. Len(out) : out[i] = inb[n + i]
    <2>1. out \in Seq(S)
      BY <1>1
    <2>2. Len(out) = Len(inb) - n
      BY <1>1
    <2>3. ASSUME NEW i \in 1 .. Len(out) PROVE out[i] = inb[n + i]
      BY <1>1, <2>2, SMTT(30)
    <2> QED
      BY <2>1, <2>2, <2>3, Zenon
  <1>3. dl = [cl EXCEPT !.inbox = out]
    OBVIOUS
  <1> HIDE DEF out
  <1>4. /\ dl \in Client /\ dl.asked = cl.asked /\ dl.inbox = out
        /\ dl.left = cl.left /\ dl.whole = cl.whole
    BY <1>2, <1>3, Zenon DEF Client
  <1>5. ASSUME NEW i \in Asking(dl) PROVE i \in Nat \ {0} /\ i + n \in Asking(cl)
    <2>1. DOMAIN out = 1 .. Len(out) /\ DOMAIN inb = 1 .. Len(inb)
      BY <1>1, <1>2
    <2>2. i \in 1 .. Len(out) /\ out[i] \in Asks
      BY <1>4, <2>1, Zenon DEF Asking
    <2>3. i + n \in 1 .. Len(inb) /\ inb[n + i] \in Asks /\ n + i = i + n /\ i \in Nat \ {0}
      BY <1>1, <1>2, <2>2, SMTT(30)
    <2> QED
      BY <2>1, <2>3, Zenon DEF Asking
  <1> QED
    BY <1>4, <1>5, Zenon

LEMMA ReadAsk ==
    ASSUME NEW cl \in Client, cl.inbox # << >>, Head(cl.inbox) \in Asks,
           \A i, j \in Asking(cl) : i = j, NEW n \in 1 .. Len(cl.inbox), NEW dl,
           dl = [cl EXCEPT !.inbox = SubSeq(@, n + 1, Len(@))]
    PROVE  ReadOne(cl, dl) /\ Asking(cl) # {}
  <1>1. /\ dl \in Client /\ dl.asked = cl.asked
        /\ dl.left = cl.left /\ dl.whole = cl.whole
        /\ \A i \in Asking(dl) : i \in Nat \ {0} /\ i + n \in Asking(cl)
    BY ReadInbox, Zenon
  <1>2. cl.inbox \in Seq(Asks \cup {"rest", "fin"})
    BY Zenon DEF Client
  <1>3. 1 \in Asking(cl)
    BY <1>2 DEF Asking
  <1>4. n \in Nat \ {0}
    BY <1>2
  <1>5. ASSUME NEW i \in Asking(dl) PROVE FALSE
    <2>1. i \in Nat \ {0} /\ i + n \in Asking(cl)
      BY <1>1, Zenon
    <2>2. i + n = 1
      BY <1>3, <2>1, Zenon
    <2> QED
      BY <1>4, <2>1, <2>2
  <1> QED
    BY <1>1, <1>3, <1>5, Zenon DEF ReadOne

LEMMA InitResponse ==
    ASSUME NEW s, NEW c \in Clients, client[c] \in Client, NEW dl, ReadOne(client[c], dl),
           s \in Server, Room(s), ConnOK(s, client[c], c), s.req[c].at = "live",
           NEW f, f = s.req[c].fd, s.readTran[f] = Req(c), Asking(client[c]) # {},
           NEW m \in {"GET", "PUT"}, NEW t, t = initHTTPResponse(s, c, m),
           NEW r, r = <<c, Len(client[c].asked)>>
    PROVE  Starts(s, t, dl, c, f, r, m)
  <1>1. /\ s.respTran[f] = NULL /\ s.res[r].at = "none" /\ s.answers[c] < Len(client[c].asked)
        /\ Len(client[c].asked) <= MaxRequests /\ f \in Fds /\ s.open[f] = c
        /\ \A q \in Own(c) : q[2] > Len(client[c].asked) => s.res[q].at = "none"
    BY Zenon DEF ConnOK, Asked
  <1>2. /\ s.writeTran[f] = NULL /\ ~s.req[c].lDel /\ c \notin s.delReqList
    BY <1>1, TransApart, Zenon DEF ConnOK
  <1>3. r \in Own(c) /\ r \in Responses /\ r \in Trans /\ r # NULL
    BY <1>1, NextResponse, TransApart DEF Own, Trans
  <1>4. \A q \in Own(c) : NotServed(s, q)
    <2>1. ASSUME NEW q \in Own(c) PROVE q # NULL
      BY TransApart, Zenon DEF Own
    <2> QED
      BY <1>1, <2>1, Zenon DEF ConnOK
  <1> DEFINE p == [NoResponse EXCEPT !.at = "live", !.method = m, !.presReq = c]
             re == [s.res EXCEPT ![r] = p]
             rs == [s.respTran EXCEPT ![f] = r]
             q1 == [s.req[c] EXCEPT !.method = m]
             rq == [s.req EXCEPT ![c] = q1]
  <1>5. /\ p \in Response /\ p.at = "live" /\ p.method = m /\ p.presReq = c
        /\ ~p.lDel /\ ~p.map /\ ~p.batchAdd /\ p.status = "incomplete" /\ p.fd = None
    BY Zenon DEF NoResponse, Response
  <1>6. /\ s.req[c] \in Request /\ s.res \in [Responses -> Response]
        /\ s.respTran \in [Fds -> Trans] /\ s.req \in [Clients -> Request]
    BY Zenon DEF Server
  <1>7. /\ q1 \in Request /\ q1.at = s.req[c].at /\ q1.fd = f /\ q1.method = m
        /\ q1.lDel = s.req[c].lDel
    BY <1>6, Zenon DEF Request
  <1>8. t = [s EXCEPT !.res = re, !.respTran = rs, !.req = rq]
    BY DEF initHTTPResponse
  <1> HIDE DEF p, q1
  <1>9. /\ re \in [Responses -> Response] /\ rs \in [Fds -> Trans] /\ rq \in [Clients -> Request]
        /\ re[r] = p /\ rs[f] = r /\ rq[c] = q1
    BY <1>1, <1>3, <1>5, <1>6, <1>7, Zenon
  <1>10. /\ \A q \in Responses : q # r => re[q] = s.res[q]
         /\ \A g \in Fds : g # f => rs[g] = s.respTran[g]
         /\ \A d \in Clients : d # c => rq[d] = s.req[d]
    BY <1>6, Zenon
  <1> HIDE DEF re, rs, rq
  <1>11. /\ t \in Server /\ t.open = s.open /\ t.readTran = s.readTran
         /\ t.writeTran = s.writeTran /\ t.respTran = rs /\ t.req = rq /\ t.res = re
         /\ t.delReqList = s.delReqList /\ t.delResList = s.delResList
         /\ t.count = s.count /\ t.listening = s.listening /\ t.answers = s.answers
         /\ t.forgotten = s.forgotten /\ t.down = s.down
    BY <1>8, <1>9, Zenon DEF Server
  <1>12. Same(s, t, c, r)
    BY <1>7, <1>9, <1>10, <1>11 DEF Same
  <1>13. \A q \in Own(c) : q # r => NotServed(t, q)
    <2>1. ASSUME NEW q \in Own(c), q # r PROVE NotServed(t, q)
      BY <1>4, <1>10, <1>11, <2>1 DEF NotServed, Own
    <2> QED
      BY <2>1, Zenon
  <1>14. \A q \in Own(c) : q[2] > Len(client[c].asked) => t.res[q].at = "none"
    <2>1. ASSUME NEW q \in Own(c), q[2] > Len(client[c].asked) PROVE t.res[q].at = "none"
      <3>1. q # r
        <4>1. Len(client[c].asked) \in Nat /\ r[2] = Len(client[c].asked)
          BY DEF Client
        <4> QED
          BY <2>1, <4>1
      <3> QED
        BY <1>1, <1>10, <1>11, <2>1, <3>1 DEF Own
    <2> QED
      BY <2>1, Zenon
  <1>15. r \notin s.delResList
    BY <1>1, <1>3, <1>4, Zenon DEF NotServed
  <1>16. dl.asked = client[c].asked /\ Asking(dl) = {}
    BY Zenon DEF ReadOne
  <1>17. Room(t)
    BY <1>11, ZenonT(60) DEF Room
  <1>18. InService(t, dl, c, f, r)
    <2>1. /\ t \in Server /\ Room(t) /\ f \in Fds /\ r \in Own(c)
          /\ t.open[f] = c /\ c \notin t.delReqList /\ t.respTran[f] = r
          /\ r \notin t.delResList
      BY <1>1, <1>2, <1>3, <1>9, <1>11, <1>15, <1>17, Zenon
    <2>2. Live(t.req[c]) /\ t.req[c].fd = f /\ t.req[c].method = m
      BY <1>2, <1>7, <1>9, <1>11, Zenon DEF Live
    <2>3. /\ Live(t.res[r]) /\ t.res[r].presReq = c /\ t.res[r].status = "incomplete"
          /\ t.res[r].method = m
      BY <1>5, <1>9, <1>11, Zenon DEF Live
    <2>4. t.answers[c] < Len(dl.asked) /\ Len(dl.asked) <= MaxRequests /\ Asking(dl) = {}
      BY <1>1, <1>11, <1>16, Zenon
    <2>5. \A q \in Own(c) : q[2] > Len(dl.asked) => t.res[q].at = "none"
      BY <1>14, <1>16, Zenon
    <2> QED
      BY <2>1, <2>2, <2>3, <2>4, <2>5, <1>13, ZenonT(60) DEF InService
  <1> QED
    BY <1>2, <1>5, <1>9, <1>11, <1>12, <1>18, Zenon DEF Starts

(* A response stays in service when a step leaves alone what that needs.   *)
LEMMA ServiceKept ==
    ASSUME NEW s, NEW t, NEW c \in Clients, NEW cl \in Client, NEW f, NEW r,
           InService(s, cl, c, f, r), Same(s, t, c, r), t \in Server, Room(t),
           t.req = s.req, t.delReqList = s.delReqList, t.respTran = s.respTran,
           t.answers = s.answers, t.delResList = s.delResList,
           t.res[r].at = s.res[r].at, t.res[r].lDel = s.res[r].lDel,
           t.res[r].presReq = s.res[r].presReq, t.res[r].status = s.res[r].status,
           t.res[r].method = s.res[r].method
    PROVE  InService(t, cl, c, f, r)
  <1>1. ASSUME NEW q \in Own(c), q # r PROVE NotServed(t, q) /\ t.res[q] = s.res[q]
    BY <1>1 DEF NotServed, Same, Own, InService
  <1>2. \A q \in Own(c) : q[2] > Len(cl.asked) => t.res[q].at = "none"
    BY <1>1 DEF InService
  <1>3. t.open = s.open
    BY Zenon DEF Same
  <1> QED
    BY <1>1, <1>2, <1>3, SMTT(30) DEF InService, Live

(* readyForPut, before the object is whole.                                *)
ReadyFor(s, f, r, b) ==
    [s EXCEPT !.readTran[f] = r, !.res[r].fd = f, !.res[r].batchAdd = b]
LEMMA ReadyPut ==
    ASSUME NEW s, NEW c \in Clients, NEW cl \in Client, NEW f, NEW r,
           InService(s, cl, c, f, r), s.writeTran[f] = NULL,
           s.res[r].method = "PUT", ~s.res[r].map,
           NEW b \in BOOLEAN, NEW t,
           t = ReadyFor(s, f, r, b)
    PROVE  PutReady(t, cl, c, f, r) /\ Same(s, t, c, r)
  <1> DEFINE p == [s.res[r] EXCEPT !.fd = f, !.batchAdd = b]
             re == [s.res EXCEPT ![r] = p]
             rd == [s.readTran EXCEPT ![f] = r]
  <1>1. s \in Server /\ r \in Responses /\ r \in Trans /\ f \in Fds /\ Room(s) /\ s.req[c].fd = f
    BY Zenon DEF InService, Own, Trans
  <1>2. /\ s.res \in [Responses -> Response] /\ s.res[r] \in Response
        /\ s.readTran \in [Fds -> Trans]
    BY <1>1, Zenon DEF Server
  <1>3. /\ p \in Response /\ p.at = s.res[r].at /\ p.lDel = s.res[r].lDel
        /\ p.presReq = s.res[r].presReq /\ p.status = s.res[r].status
        /\ p.method = s.res[r].method /\ p.map = s.res[r].map /\ p.fd = f
    BY <1>1, <1>2, Zenon DEF Response
  <1>4. t = [s EXCEPT !.readTran = rd, !.res = re]
    BY Zenon DEF ReadyFor
  <1> HIDE DEF p
  <1>5. /\ rd \in [Fds -> Trans] /\ re \in [Responses -> Response] /\ rd[f] = r /\ re[r] = p
        /\ \A q \in Responses : q # r => re[q] = s.res[q]
        /\ \A g \in Fds : g # f => rd[g] = s.readTran[g]
    BY <1>1, <1>2, <1>3, Zenon
  <1> HIDE DEF rd, re
  <1>6. /\ t \in Server /\ t.open = s.open /\ t.readTran = rd
        /\ t.writeTran = s.writeTran /\ t.respTran = s.respTran /\ t.req = s.req
        /\ t.res = re /\ t.delReqList = s.delReqList /\ t.delResList = s.delResList
        /\ t.count = s.count /\ t.listening = s.listening /\ t.answers = s.answers
        /\ t.forgotten = s.forgotten /\ t.down = s.down
    BY <1>1, <1>4, <1>5, Zenon DEF Server
  <1>7. Same(s, t, c, r) /\ Room(t)
    BY <1>1, <1>5, <1>6, SMTT(30) DEF Same, Room
  <1>8. InService(t, cl, c, f, r)
    BY <1>3, <1>5, <1>6, <1>7, ServiceKept
  <1> QED
    BY <1>3, <1>5, <1>6, <1>7, <1>8 DEF PutReady

LEMMA PutGoesOn ==
    ASSUME NEW s, NEW c \in Clients, NEW cl \in Client, NEW f, NEW r,
           PutReady(s, cl, c, f, r)
    PROVE  s \in Server /\ Room(s) /\ ConnOK(s, cl, c)
  <1>1. InService(s, cl, c, f, r) /\ Same(s, s, c, r) /\ s \in Server /\ Room(s)
    BY Zenon DEF PutReady, InService, Same
  <1>2. Serving(s, c, f, r)
    BY <1>1, Zenon DEF Serving, PutReady, InService
  <1>3. ~s.req[c].lDel /\ c \notin s.delReqList /\ s.respTran[f] = r
    BY <1>1, Zenon DEF InService, Live
  <1> QED
    BY <1>1, <1>2, <1>3, ServiceGoesOn, Zenon

(* The object is whole.                                                    *)
LEMMA PutCompletes ==
    ASSUME NEW s, NEW c \in Clients, NEW cl \in Client, NEW f, NEW r,
           PutReady(s, cl, c, f, r), NEW t, t = PutComplete(s, r)
    PROVE  Outcome(s, t, cl, c, r)
  <1> DEFINE p == [s.res[r] EXCEPT !.status = "complete", !.map = s.res[r].batchAdd]
             re == [s.res EXCEPT ![r] = p]
             rd == [s.readTran EXCEPT ![f] = NULL]
  <1>1. /\ s \in Server /\ Room(s) /\ f \in Fds /\ r \in Own(c) /\ InService(s, cl, c, f, r)
        /\ Live(s.req[c]) /\ s.req[c].fd = f /\ s.open[f] = c /\ c \notin s.delReqList
        /\ Live(s.res[r]) /\ s.res[r].presReq = c /\ s.res[r].method = "PUT"
        /\ s.res[r].fd = f
    BY Zenon DEF PutReady, InService
  <1>2. /\ r \in Responses /\ c # None /\ s.req[c] \in Request /\ s.answers[c] \in Nat
        /\ s.res \in [Responses -> Response] /\ s.res[r] \in Response
        /\ s.readTran \in [Fds -> Trans] /\ NULL \in Trans
    BY <1>1, TransApart, Zenon DEF Own, Server, Trans
  <1>3. /\ p \in Response /\ p.at = "live" /\ ~p.lDel /\ p.presReq = c
        /\ p.method = "PUT" /\ p.fd = f /\ (p.map => p.batchAdd)
    BY <1>1, <1>2, Zenon DEF Response, Live
  <1>0. PICK v : v = [s EXCEPT !.res = re, !.readTran = rd]
    OBVIOUS
  <1>4. v = [s EXCEPT !.res[r].status = "complete", !.res[r].map = s.res[r].batchAdd,
                      !.readTran[s.res[r].fd] = NULL]
    BY <1>1, <1>0, ZenonT(60)
  <1> HIDE DEF p
  <1>5. /\ rd \in [Fds -> Trans] /\ re \in [Responses -> Response] /\ rd[f] = NULL /\ re[r] = p
        /\ \A q \in Responses : q # r => re[q] = s.res[q]
        /\ \A g \in Fds : g # f => rd[g] = s.readTran[g]
    BY <1>1, <1>2, <1>3, Zenon
  <1> HIDE DEF rd, re
  <1>6. /\ v \in Server /\ v.open = s.open /\ v.readTran = rd
        /\ v.writeTran = s.writeTran /\ v.respTran = s.respTran /\ v.req = s.req
        /\ v.res = re /\ v.delReqList = s.delReqList /\ v.delResList = s.delResList
        /\ v.count = s.count /\ v.listening = s.listening /\ v.answers = s.answers
        /\ v.forgotten = s.forgotten /\ v.down = s.down
    BY <1>1, <1>5, <1>0, Zenon DEF Server
  <1>7. Same(s, v, c, r) /\ Room(v)
    BY <1>1, <1>5, <1>6, Zenon DEF Same, Room
  <1> PICK u : u = reInitHTTPRequest(v, c)
    OBVIOUS
  <1>8. v.req[c].fd = f
    BY <1>1, <1>6, Zenon
  <1>9. /\ u \in Server /\ Room(u) /\ Same(v, u, c, r)
        /\ u.writeTran[f] = NULL /\ u.respTran[f] = NULL
        /\ u.req[c] = [v.req[c] EXCEPT !.method = "GET"]
        /\ u.delReqList = v.delReqList /\ u.delResList = v.delResList
        /\ u.answers = v.answers /\ u.res = v.res /\ u.open = v.open
    <2>1. v \in Server /\ f \in Fds /\ v.req[c].fd = f /\ Room(v)
      BY <1>1, <1>6, <1>7, <1>8, Zenon
    <2> QED
      BY <2>1, ReInit
  <1>10. t = delResponseTranLazy(u, r)
    BY <1>2, <1>3, <1>4, <1>5, <1>6, Zenon DEF PutComplete, Finished
  <1>11. /\ u.req[c].fd = f /\ ~u.req[c].lDel /\ u.req[c].method = "GET" /\ u.res[r] = p
         /\ u.open[f] = c
    BY <1>1, <1>2, <1>5, <1>6, <1>9 DEF Request, Live
  <1>12. /\ t \in Server /\ Room(t) /\ Same(u, t, c, r) /\ Gone(u, t, r)
         /\ PutBack(u, t, c, f, r)
    <2>1. /\ u \in Server /\ r \in Own(c) /\ ~u.res[r].lDel /\ u.res[r].method = "PUT"
          /\ u.res[r].fd = f /\ u.res[r].presReq \in {c, None} /\ f \in Fds
          /\ u.req[c].fd = f /\ u.open[f] = c /\ Room(u)
      BY <1>1, <1>3, <1>9, <1>11, Zenon
    <2> QED
      BY <1>10, <2>1, DelPut, Zenon
  <1>13. Same(s, t, c, r)
    BY <1>7, <1>9, <1>12, SameTrans, Zenon
  <1>14. NotServed(t, r) /\ t.res[r].at = "live"
    <2>1. /\ u \in Server /\ r \in Responses /\ u.res[r].at = "live"
          /\ u.res[r].method = "GET" => ~u.res[r].batchAdd
          /\ u.res[r].map => u.res[r].batchAdd
      BY <1>2, <1>3, <1>9, <1>11
    <2> QED
      BY <1>12, <2>1, GoneNotServed, Zenon
  <1>15. ConnOK(t, cl, c)
    <2>1. /\ t.respTran[f] = NULL /\ t.writeTran[f] = NULL /\ t.req[c].method = "GET"
          /\ ~t.req[c].lDel /\ c \notin t.delReqList /\ t.readTran[f] \in {NULL, Req(c)}
      BY <1>1, <1>6, <1>9, <1>11, <1>12, ZenonT(60) DEF PutBack
    <2>2. t.answers[c] <= s.answers[c] + 1
      BY <1>2, <1>6, <1>9, <1>12 DEF PutBack
    <2>3. t.res[r].at = s.res[r].at
      BY <1>1, <1>14, Zenon DEF Live
    <2> QED
      BY <1>1, <1>12, <1>13, <1>14, <2>1, <2>2, <2>3, ServiceEnds, Zenon
  <1> QED
    BY <1>12, <1>13, <1>15 DEF Outcome

(* The connection is closed before the object is whole.                    *)
LEMMA PutFails ==
    ASSUME NEW s, NEW c \in Clients, NEW cl \in Client, NEW f, NEW r,
           PutReady(s, cl, c, f, r), NEW t, t = PutBad(s, r)
    PROVE  Outcome(s, t, cl, c, r)
  <1> DEFINE p == [s.res[r] EXCEPT !.status = "bad"]
             re == [s.res EXCEPT ![r] = p]
             q1 == [s.req[c] EXCEPT !.method = "GET"]
             rq == [s.req EXCEPT ![c] = q1]
  <1>1. /\ s \in Server /\ Room(s) /\ f \in Fds /\ r \in Own(c) /\ InService(s, cl, c, f, r)
        /\ Live(s.req[c]) /\ s.req[c].fd = f /\ s.open[f] = c
        /\ Live(s.res[r]) /\ s.res[r].presReq = c /\ s.res[r].method = "PUT"
        /\ s.res[r].fd = f /\ ~s.res[r].map /\ s.respTran[f] = r
    BY Zenon DEF PutReady, InService
  <1>2. /\ r \in Responses /\ r # NULL /\ s.req[c] \in Request /\ s.answers[c] \in Nat
        /\ s.res \in [Responses -> Response] /\ s.res[r] \in Response
        /\ s.req \in [Clients -> Request]
    BY <1>1, TransApart DEF Own, Server
  <1>3. /\ p \in Response /\ p.at = "live" /\ ~p.lDel /\ p.presReq = c
        /\ p.method = "PUT" /\ p.fd = f /\ ~p.map
    BY <1>1, <1>2 DEF Response, Live
  <1>4. q1 \in Request /\ q1.at = "live" /\ ~q1.lDel /\ q1.fd = f /\ q1.method = "GET"
    BY <1>1, <1>2 DEF Request, Live
  <1>0. PICK v : v = [s EXCEPT !.res = re, !.req = rq]
    OBVIOUS
  <1>5. v = [s EXCEPT !.res[r].status = "bad", !.req[s.res[r].presReq].method = "GET"]
    BY <1>0, <1>1
  <1> HIDE DEF p, q1
  <1>6. /\ rq \in [Clients -> Request] /\ re \in [Responses -> Response]
        /\ rq[c] = q1 /\ re[r] = p
        /\ \A q \in Responses : q # r => re[q] = s.res[q]
        /\ \A d \in Clients : d # c => rq[d] = s.req[d]
    BY <1>2, <1>3, <1>4, Zenon
  <1> HIDE DEF rq, re
  <1>7. /\ v \in Server /\ v.open = s.open /\ v.readTran = s.readTran
        /\ v.writeTran = s.writeTran /\ v.respTran = s.respTran /\ v.req = rq
        /\ v.res = re /\ v.delReqList = s.delReqList /\ v.delResList = s.delResList
        /\ v.count = s.count /\ v.listening = s.listening /\ v.answers = s.answers
        /\ v.forgotten = s.forgotten /\ v.down = s.down
    BY <1>0, <1>1, <1>6, ZenonT(60) DEF Server
  <1>8. Same(s, v, c, r) /\ Room(v)
    BY <1>1, <1>4, <1>6, <1>7 DEF Same, Room, Live
  <1> PICK u : u = delRequestTranLazy(v, c)
    OBVIOUS
  <1>9. /\ u \in Server /\ Room(u) /\ Same(v, u, c, r)
        /\ u.respTran[f] = NULL /\ u.req[c] = [v.req[c] EXCEPT !.lDel = TRUE]
        /\ c \in u.delReqList /\ u.answers = v.answers
        /\ u.res[r] = [v.res[r] EXCEPT !.presReq = None]
    <2>1. /\ v \in Server /\ ~v.req[c].lDel /\ f \in Fds /\ v.req[c].fd = f
          /\ v.respTran[f] \in Own(c) \cup {NULL} /\ Room(v) /\ r = v.respTran[f] /\ r # NULL
      BY <1>1, <1>2, <1>4, <1>6, <1>7, <1>8, Zenon
    <2> QED
      BY <2>1, DelRequest
  <1>10. t = delResponseTranLazy(u, r)
    BY <1>3, <1>5, <1>6, <1>7, Zenon DEF PutBad, BothDeleted
  <1>11. /\ u.res[r].presReq = None /\ u.res[r].fd = f /\ ~u.res[r].lDel
         /\ u.res[r].at = "live" /\ u.res[r].method = "PUT" /\ ~u.res[r].map
         /\ u.req[c].lDel /\ u.req[c].method = "GET" /\ u.req[c].fd = f /\ u.open[f] = c
    <2>1. v.res[r] = p /\ v.req[c] = q1 /\ u.open = s.open
      BY <1>6, <1>7, <1>9, Zenon DEF Same
    <2> QED
      BY <1>1, <1>3, <1>4, <1>9, <2>1 DEF Response, Request
  <1>12. /\ t \in Server /\ Room(t) /\ Same(u, t, c, r) /\ Gone(u, t, r)
         /\ PutBack(u, t, c, f, r)
    <2>1. /\ u \in Server /\ r \in Own(c) /\ ~u.res[r].lDel /\ u.res[r].method = "PUT"
          /\ u.res[r].fd = f /\ u.res[r].presReq \in {c, None} /\ f \in Fds
          /\ u.req[c].fd = f /\ u.open[f] = c /\ Room(u)
      BY <1>1, <1>9, <1>11, Zenon
    <2> QED
      BY <1>10, <2>1, DelPut, Zenon
  <1>13. Same(s, t, c, r)
    BY <1>8, <1>9, <1>12, SameTrans, Zenon
  <1>14. NotServed(t, r) /\ t.res[r].at = "live"
    <2>1. /\ u \in Server /\ r \in Responses /\ u.res[r].at = "live"
          /\ u.res[r].method = "GET" => ~u.res[r].batchAdd
          /\ u.res[r].map => u.res[r].batchAdd
      BY <1>2, <1>9, <1>11, Zenon
    <2> QED
      BY <1>12, <2>1, GoneNotServed, Zenon
  <1>15. ConnOK(t, cl, c)
    <2>1. /\ t.respTran[f] = NULL /\ t.writeTran[f] = NULL /\ t.req[c].method = "GET"
          /\ t.req[c].lDel /\ c \in t.delReqList /\ t.readTran[f] = NULL
      BY <1>9, <1>11, <1>12, ZenonT(60) DEF PutBack
    <2>2. t.answers[c] <= s.answers[c] + 1
      BY <1>2, <1>7, <1>9, <1>12 DEF PutBack
    <2>3. t.res[r].at = s.res[r].at
      BY <1>1, <1>14, Zenon DEF Live
    <2> QED
      BY <1>1, <1>12, <1>13, <1>14, <2>1, <2>2, <2>3, ServiceEnds, Zenon
  <1> QED
    BY <1>12, <1>13, <1>15 DEF Outcome

-----------------------------------------------------------------------------
(* dl is cl after some of its inbox has been read.                         *)
Later(cl, dl) ==
    /\ dl \in Client /\ dl.asked = cl.asked /\ \A i, j \in Asking(dl) : i = j
    /\ Asking(dl) # {} => Asking(cl) # {}

RequestDeleted(s, t, c, f, r) ==
    /\ t \in Server /\ Room(t) /\ Same(s, t, c, r)
    /\ t.readTran[f] = NULL /\ t.writeTran[f] = NULL /\ t.respTran[f] = NULL
    /\ t.req[c] = [s.req[c] EXCEPT !.lDel = TRUE] /\ t.open = s.open
    /\ c \in t.delReqList /\ t.delResList = s.delResList
    /\ t.answers = s.answers /\ t.forgotten = s.forgotten /\ t.down = s.down
    /\ r # NULL => t.res[r] = [s.res[r] EXCEPT !.presReq = None]
LEMMA DelGetRequest ==
    ASSUME NEW s, NEW c, NEW f, NEW r, NEW t, s \in Server, c \in Clients,
           ~s.req[c].lDel, f \in Fds, s.req[c].fd = f, s.req[c].method = "GET",
           s.respTran[f] = r, r \in Own(c) \cup {NULL}, Room(s),
           t = delRequestTranLazy(s, c)
    PROVE  RequestDeleted(s, t, c, f, r)
  <1>1. /\ t \in Server /\ Room(t) /\ Same(s, t, c, r)
        /\ t.readTran[f] = IF s.req[c].method = "PUT" THEN s.readTran[f] ELSE NULL
        /\ t.writeTran[f] = NULL /\ t.respTran[f] = NULL
        /\ t.req[c] = [s.req[c] EXCEPT !.lDel = TRUE]
        /\ c \in t.delReqList /\ t.delResList = s.delResList
        /\ t.answers = s.answers /\ t.forgotten = s.forgotten /\ t.down = s.down
        /\ r # NULL => t.res[r] = [s.res[r] EXCEPT !.presReq = None]
    BY DelRequest
  <1> QED
    BY <1>1, Zenon DEF RequestDeleted, Same

(* The connection of a client that is not served is closed.                *)
LEMMA ClosesIdle ==
    ASSUME NEW s, NEW c \in Clients, NEW cl \in Client, NEW dl, Later(cl, dl),
           s \in Server, Room(s), ConnOK(s, cl, c), s.req[c].at = "live", ~s.req[c].lDel,
           NEW f, f = s.req[c].fd, s.respTran[f] = NULL,
           NEW t, t = delRequestTranLazy(s, c)
    PROVE  Outcome(s, t, dl, c, NULL)
  <1>1. /\ f \in Fds /\ s.req[c].method = "GET" /\ s.respTran[f] \in Own(c) \cup {NULL}
        /\ s.req[c] \in Request /\ s.open[f] = c
    BY Zenon DEF ConnOK, Server
  <1>2. /\ t \in Server /\ Room(t) /\ Same(s, t, c, NULL)
        /\ t.readTran[f] = NULL /\ t.writeTran[f] = NULL /\ t.respTran[f] = NULL
        /\ t.req[c] = [s.req[c] EXCEPT !.lDel = TRUE]
        /\ c \in t.delReqList /\ t.answers = s.answers
    <2>1. RequestDeleted(s, t, c, f, NULL)
      BY <1>1, DelGetRequest, Zenon
    <2> QED
      BY <2>1, Zenon DEF RequestDeleted
  <1>3. /\ t.req[c].lDel /\ t.req[c].fd = f /\ t.req[c].method = "GET"
        /\ t.req[c].at = "live" /\ t.open = s.open
    BY <1>1, <1>2, Zenon DEF Request, Same
  <1>4. ASSUME NEW q \in Own(c) PROVE NotServed(t, q) /\ t.res[q] = s.res[q]
    <2>1. q # NULL /\ q \in Responses
      BY TransApart, Zenon DEF Own
    <2>2. NotServed(s, q)
      BY <2>1, Zenon DEF ConnOK
    <2> QED
      BY <1>2, <2>1, <2>2, Zenon DEF NotServed, Same
  <1>5. Asked(t, dl, c)
    <2>1. Asked(s, cl, c) /\ dl.asked = cl.asked
      BY Zenon DEF ConnOK, Later
    <2>2. Asking(dl) # {} => <<c, Len(cl.asked)>> \in Own(c)
      BY <2>1, NextResponse, Zenon DEF Asked, Later
    <2> QED
      BY <1>2, <1>3, <1>4, <2>1, <2>2 DEF Asked, Later
  <1>6. ConnOK(t, dl, c)
    BY <1>1, <1>2, <1>3, <1>4, <1>5, ZenonT(60) DEF ConnOK
  <1> QED
    BY <1>2, <1>6, Zenon DEF Outcome

(* ClientClosed, before the request is deleted.                            *)
Closing(s, c, f) ==
    [s EXCEPT !.req[c].method = "GET",
              !.forgotten = @ \cup ({s.writeTran[f]} \ {NULL})]
LEMMA ClosingIs ==
    ASSUME NEW s, NEW c, NEW f, NEW v, s \in Server, c \in Clients,
           s.req[c].method = "GET", s.writeTran[f] \in {NULL} \cup Responses,
           v = Closing(s, c, f)
    PROVE  /\ v = [s EXCEPT !.forgotten = s.forgotten \cup ({s.writeTran[f]} \ {NULL})]
           /\ s.writeTran[f] = NULL => v = s
  <1> DEFINE fo == s.forgotten \cup ({s.writeTran[f]} \ {NULL})
  <1>1. s.req \in [Clients -> Request] /\ s.req[c] \in Request
    BY DEF Server
  <1>2. [s.req[c] EXCEPT !.method = "GET"] = s.req[c]
    BY <1>1, Zenon DEF Request
  <1>3. [s.req EXCEPT ![c].method = "GET"] = s.req
    BY <1>1, <1>2, Zenon
  <1>4. v = [s EXCEPT !.req = s.req, !.forgotten = fo]
    BY <1>3, Zenon DEF Closing
  <1> HIDE DEF fo
  <1>5. v = [s EXCEPT !.forgotten = fo]
    BY <1>4, Zenon DEF Server
  <1>6. s.writeTran[f] = NULL => fo = s.forgotten
    BY DEF fo
  <1>7. fo = s.forgotten => v = s
    BY <1>5 DEF Server
  <1> QED
    BY <1>5, <1>6, <1>7, Zenon DEF fo

(* Only forgotten is changed.                                              *)
ForgetOnly(s, t, fo) ==
    /\ t \in Server /\ t.open = s.open /\ t.readTran = s.readTran
    /\ t.writeTran = s.writeTran /\ t.respTran = s.respTran /\ t.req = s.req
    /\ t.res = s.res /\ t.delReqList = s.delReqList /\ t.delResList = s.delResList
    /\ t.count = s.count /\ t.listening = s.listening /\ t.answers = s.answers
    /\ t.forgotten = fo /\ t.down = s.down
LEMMA Forgets ==
    ASSUME NEW s, NEW t, NEW fo, s \in Server, fo \in SUBSET Responses,
           t = [s EXCEPT !.forgotten = fo]
    PROVE  ForgetOnly(s, t, fo)
  BY Zenon DEF Server, ForgetOnly

(* A GET as it is served: the disk has it, or the client.                  *)
GetServed(s, cl, c, f, r) ==
    /\ InService(s, cl, c, f, r) /\ s.res[r].method = "GET" /\ s.res[r].fd = None
    /\ ~s.res[r].batchAdd
    /\ \/ s.res[r].map /\ s.writeTran[f] = NULL
       \/ ~s.res[r].map /\ s.writeTran[f] = r

(* The connection of a client that is served is closed.                    *)
LEMMA ClosesGet ==
    ASSUME NEW s, NEW c \in Clients, NEW cl \in Client, NEW f, NEW r,
           GetServed(s, cl, c, f, r), NEW t, t = delRequestTranLazy(Closing(s, c, f), c)
    PROVE  Outcome(s, t, cl, c, r)
  <1>1. /\ s \in Server /\ Room(s) /\ f \in Fds /\ r \in Own(c) /\ InService(s, cl, c, f, r)
        /\ Live(s.req[c]) /\ s.req[c].fd = f /\ s.respTran[f] = r
        /\ Live(s.res[r]) /\ s.req[c].method = "GET" /\ s.res[r].method = "GET"
        /\ s.res[r].fd = None /\ ~s.res[r].batchAdd /\ r \notin s.delResList
        /\ s.writeTran[f] \in {NULL, r} /\ (s.res[r].map \/ s.writeTran[f] = r)
    BY Zenon DEF GetServed, InService
  <1>2. /\ r \in Responses /\ r # NULL /\ s.req[c] \in Request /\ s.answers[c] \in Nat
        /\ s.res[r] \in Response /\ s.forgotten \in SUBSET Responses
    BY <1>1, TransApart DEF Own, Server
  <1>3. PICK v : v = Closing(s, c, f)
    BY Zenon
  <1>4. PICK fo : fo = s.forgotten \cup ({s.writeTran[f]} \ {NULL})
    BY Zenon
  <1>5. ForgetOnly(s, v, fo)
    <2>1. v = [s EXCEPT !.forgotten = fo]
      BY <1>1, <1>2, <1>3, <1>4, ClosingIs
    <2>2. fo \in SUBSET Responses
      BY <1>1, <1>2, <1>4, Zenon
    <2> QED
      BY <1>1, <2>1, <2>2, Forgets, Zenon
  <1>6. Same(s, v, c, r) /\ Room(v)
    <2>1. \A q \in Responses : q # r => (q \in fo <=> q \in s.forgotten)
      BY <1>1, <1>4, Zenon
    <2> QED
      BY <1>1, <1>5, <2>1, Zenon DEF ForgetOnly, Same, Room
  <1>7. RequestDeleted(v, t, c, f, r)
    <2>1. /\ v \in Server /\ ~v.req[c].lDel /\ v.req[c].fd = f /\ v.req[c].method = "GET"
          /\ v.respTran[f] = r /\ r \in Own(c) \cup {NULL} /\ Room(v) /\ f \in Fds
      BY <1>1, <1>5, <1>6, Zenon DEF ForgetOnly, Live
    <2>2. t = delRequestTranLazy(v, c)
      BY <1>3
    <2> QED
      BY <2>1, <2>2, DelGetRequest, Zenon
  <1>8. /\ t \in Server /\ Room(t) /\ Same(v, t, c, r)
        /\ t.readTran[f] = NULL /\ t.writeTran[f] = NULL /\ t.respTran[f] = NULL
        /\ t.req[c] = [s.req[c] EXCEPT !.lDel = TRUE]
        /\ c \in t.delReqList /\ t.delResList = s.delResList
        /\ t.answers = s.answers /\ t.forgotten = fo
        /\ t.res[r] = [s.res[r] EXCEPT !.presReq = None]
    BY <1>2, <1>5, <1>7, Zenon DEF RequestDeleted, ForgetOnly
  <1>9. Same(s, t, c, r)
    BY <1>6, <1>8, SameTrans, Zenon
  <1>10. /\ t.res[r].presReq = None /\ t.res[r].fd = None /\ ~t.res[r].lDel
         /\ t.res[r].at = "live" /\ t.res[r].method = "GET" /\ ~t.res[r].batchAdd
         /\ t.res[r].map = s.res[r].map /\ t.req[c].lDel /\ t.req[c].method = "GET"
    BY <1>1, <1>2, <1>8 DEF Response, Request, Live
  <1>11. NotServed(t, r)
    <2>1. t.res[r].map \/ r \in t.forgotten
      BY <1>1, <1>2, <1>4, <1>8, <1>10, Zenon
    <2> QED
      BY <1>1, <1>8, <1>10, <2>1, Zenon DEF NotServed, Live
  <1>12. ConnOK(t, cl, c)
    <2>1. t.answers[c] <= s.answers[c] + 1
      BY <1>2, <1>8
    <2>2. t.res[r].at = s.res[r].at
      BY <1>1, <1>10, Zenon DEF Live
    <2> QED
      BY <1>1, <1>8, <1>9, <1>10, <1>11, <2>1, <2>2, ServiceEnds, Zenon
  <1> QED
    BY <1>8, <1>9, <1>12, Zenon DEF Outcome

(* The connection of a client that is served expires.                      *)
LEMMA ExpiresGet ==
    ASSUME NEW s, NEW c \in Clients, NEW cl \in Client, NEW f, NEW r,
           GetServed(s, cl, c, f, r), NEW t, t = checkClientExpiry(s, f, c)
    PROVE  Outcome(s, t, cl, c, r)
  <1>1. /\ s \in Server /\ Room(s) /\ f \in Fds /\ r \in Own(c) /\ InService(s, cl, c, f, r)
        /\ ~s.req[c].lDel /\ s.req[c].fd = f /\ s.respTran[f] = r
        /\ Live(s.res[r]) /\ s.req[c].method = "GET" /\ s.res[r].method = "GET"
        /\ s.res[r].fd = None /\ ~s.res[r].batchAdd /\ r \notin s.delResList
    BY Zenon DEF GetServed, InService, Live
  <1>2. /\ r \in Responses /\ r # NULL /\ s.req[c] \in Request /\ s.answers[c] \in Nat
        /\ s.res[r] \in Response /\ s.forgotten \in SUBSET Responses
    BY <1>1, TransApart DEF Own, Server
  <1>3. PICK u : u = delRequestTranLazy(s, c)
    BY Zenon
  <1>4. RequestDeleted(s, u, c, f, r)
    BY <1>1, <1>3, DelGetRequest, Zenon
  <1>5. /\ u \in Server /\ Room(u) /\ Same(s, u, c, r)
        /\ u.readTran[f] = NULL /\ u.writeTran[f] = NULL /\ u.respTran[f] = NULL
        /\ u.req[c] = [s.req[c] EXCEPT !.lDel = TRUE]
        /\ c \in u.delReqList /\ u.answers = s.answers /\ u.forgotten = s.forgotten
        /\ u.res[r] = [s.res[r] EXCEPT !.presReq = None]
    BY <1>2, <1>4, Zenon DEF RequestDeleted
  <1>6. /\ u.res[r].presReq = None /\ u.res[r].fd = None /\ ~u.res[r].lDel
        /\ u.res[r].at = "live" /\ u.res[r].method = "GET" /\ ~u.res[r].batchAdd
        /\ u.res[r].map = s.res[r].map /\ u.req[c].lDel /\ u.req[c].method = "GET"
        /\ u.res[r] \in Response
    BY <1>1, <1>2, <1>5 DEF Response, Request, Live
  <1>7. PICK w : w = delResponseTranLazy(u, r)
    OBVIOUS
  <1>8. /\ w \in Server /\ Room(w) /\ Same(u, w, c, r) /\ Gone(u, w, r)
        /\ Quietly(u, w)
    <2>1. /\ u \in Server /\ r \in Own(c) /\ ~u.res[r].lDel
          /\ u.res[r].presReq = None /\ u.res[r].fd = None /\ Room(u)
      BY <1>1, <1>5, <1>6, Zenon
    <2> QED
      BY <1>7, <2>1, DelIdle, Zenon
  <1>9. PICK fo : fo = IF s.res[r].map THEN s.forgotten \cup {r} ELSE s.forgotten
    BY Zenon
  <1>10. ForgetOnly(w, t, fo)
    <2>1. w.forgotten = s.forgotten
      BY <1>5, <1>8, Zenon DEF Gone
    <2>2. t = [w EXCEPT !.forgotten = IF s.res[r].map THEN @ \cup {r} ELSE @]
      BY <1>1, <1>2, <1>3, <1>7, Zenon DEF checkClientExpiry
    <2>3. t = [w EXCEPT !.forgotten = fo]
      BY <1>9, <2>1, <2>2, Zenon
    <2>4. fo \in SUBSET Responses
      BY <1>2, <1>9, Zenon
    <2> QED
      BY <1>8, <2>3, <2>4, Forgets, Zenon
  <1>11. Same(w, t, c, r) /\ Room(t) /\ t \in Server
    <2>1. \A q \in Responses : q # r => (q \in fo <=> q \in s.forgotten)
      BY <1>9, Zenon
    <2>2. w.forgotten = s.forgotten
      BY <1>5, <1>8, Zenon DEF Gone
    <2> QED
      BY <1>8, <1>10, <2>1, <2>2, Zenon DEF ForgetOnly, Same, Room
  <1>12. Same(s, t, c, r)
    BY <1>5, <1>8, <1>11, SameTrans, Zenon
  <1>13. NotServed(t, r) /\ t.res[r].at = "live"
    <2>1. /\ t.res[r].at = "live" /\ t.res[r].lDel /\ t.res[r].presReq = None
          /\ t.res[r].fd = None /\ t.res[r].method = "GET" /\ ~t.res[r].batchAdd
      BY <1>6, <1>8, <1>10, DeletedFields DEF Gone, ForgetOnly
    <2>2. r \in t.delResList \/ r \in t.forgotten
      BY <1>6, <1>8, <1>9, <1>10, Zenon DEF Gone, ForgetOnly
    <2> QED
      BY <2>1, <2>2, ZenonT(60) DEF NotServed
  <1>14. ConnOK(t, cl, c)
    <2>1. /\ t.respTran[f] = NULL /\ t.writeTran[f] = NULL /\ t.req[c].method = "GET"
          /\ t.req[c].lDel /\ c \in t.delReqList /\ t.readTran[f] = NULL
      <3>1. /\ t.respTran = u.respTran /\ t.writeTran = u.writeTran /\ t.req = u.req
            /\ t.delReqList = u.delReqList /\ t.readTran = u.readTran
        BY <1>8, <1>10, Zenon DEF Quietly, ForgetOnly
      <3> QED
        BY <1>5, <1>6, <3>1, Zenon
    <2>2. t.answers[c] <= s.answers[c] + 1
      BY <1>2, <1>5, <1>8, <1>10 DEF Quietly, ForgetOnly
    <2>3. t.res[r].at = s.res[r].at
      BY <1>1, <1>13, Zenon DEF Live
    <2> QED
      BY <1>1, <1>11, <1>12, <1>13, <2>1, <2>2, <2>3, ServiceEnds, Zenon
  <1> QED
    BY <1>11, <1>12, <1>14, Zenon DEF Outcome

-----------------------------------------------------------------------------
(* A step of a handler keeps Good; it neither accepts nor frees.           *)
Kept(s, t, D) == Good(t, D) /\ \A d \in Clients : t.req[d].at = s.req[d].at

LEMMA OutcomeKept ==
    ASSUME NEW s, NEW t, NEW c \in Clients, NEW C \in [Clients -> Client],
           NEW D \in [Clients -> Client], \A d \in Clients : d # c => D[d] = C[d],
           Good(s, C), s.req[c].at = "live",
           NEW r \in Own(c) \cup {NULL}, Outcome(s, t, D[c], c, r)
    PROVE  Kept(s, t, D)
  <1>1. Same(s, t, c, r) /\ t \in Server /\ Room(t) /\ ConnOK(t, D[c], c)
    BY Zenon DEF Outcome
  <1>2. Local(s, t, c)
    BY <1>1, SameLocal, Zenon
  <1>3. Good(t, D)
    BY <1>1, <1>2, LocalGood, Zenon
  <1> QED
    BY <1>2, <1>3, Zenon DEF Kept, Local

(* A step for a response that is not served.                               *)
Aside(s, t, r) ==
    /\ t \in Server /\ Room(t) /\ Same(s, t, r[1], r) /\ Quietly(s, t)
    /\ NotServed(t, r) /\ t.res[r].at = s.res[r].at

LEMMA AsideKept ==
    ASSUME NEW s, NEW t, NEW C \in [Clients -> Client], Good(s, C),
           NEW r \in Responses, NotServed(s, r), Aside(s, t, r)
    PROVE  Kept(s, t, C)
  <1> DEFINE c == r[1]
  <1>1. /\ t \in Server /\ Room(t) /\ t.open = s.open /\ t.readTran = s.readTran
        /\ t.writeTran = s.writeTran /\ t.respTran = s.respTran /\ t.req = s.req
        /\ t.delReqList = s.delReqList /\ t.answers = s.answers
        /\ s.down => t.down
    BY Zenon DEF Aside, Same, Quietly
  <1>2. \A q \in Responses : q # r => /\ t.res[q] = s.res[q]
                                      /\ q \in t.delResList <=> q \in s.delResList
                                      /\ q \in t.forgotten <=> q \in s.forgotten
    BY Zenon DEF Aside, Same
  <1>3. NotServed(t, r) /\ t.res[r].at = s.res[r].at
    BY Zenon DEF Aside
  <1>4. \A q \in Responses : t.res[q].at = s.res[q].at /\ (NotServed(s, q) => NotServed(t, q))
    <2>1. ASSUME NEW q \in Responses, q # r PROVE NotServed(s, q) => NotServed(t, q)
      BY <1>1, <1>2, <2>1, Zenon DEF NotServed
    <2> QED
      BY <1>2, <1>3, <2>1, Zenon
  <1>5. ASSUME NEW d \in Clients PROVE ConnOK(t, C[d], d)
    <2>1. ConnOK(s, C[d], d) /\ C[d] \in Client
      BY DEF Good
    <2> DEFINE f == s.req[d].fd
               p == s.respTran[f]
    <2>2. ASSUME s.req[d].at = "live", p # NULL PROVE Serving(t, d, f, p)
      <3>1. Serving(s, d, f, p)
        BY <2>1, <2>2, Zenon DEF ConnOK
      <3>2. p \in Responses /\ s.res[p].presReq = d /\ d # None
        BY <3>1, TransApart, Zenon DEF Serving, Own
      <3>3. p # r
        BY <3>2, Zenon DEF NotServed
      <3> QED
        BY <1>1, <1>2, <3>1, <3>2, <3>3, Zenon DEF Serving
    <2>3. Asked(t, C[d], d)
      <3>1. Asked(s, C[d], d)
        BY <2>1, Zenon DEF ConnOK
      <3>2. Asking(C[d]) # {} => <<d, Len(C[d].asked)>> \in Own(d)
        BY <2>1, <3>1, NextResponse, Zenon DEF Asked, Good
      <3> QED
        BY <1>1, <1>4, <3>1, <3>2, Zenon DEF Asked, Own
    <2>4. \A q \in Own(d) : (s.req[d].at = "live" /\ p = q) \/ NotServed(t, q)
      BY <1>4, <2>1, Zenon DEF ConnOK, Own
    <2> QED
      BY <1>1, <2>1, <2>2, <2>3, <2>4, Zenon DEF ConnOK
  <1>6. ASSUME NEW f \in Fds PROVE FdOK(t, f)
    <2>1. FdOK(s, f)
      BY Zenon DEF Good
    <2> QED
      BY <1>1, <2>1 DEF FdOK
  <1> QED
    BY <1>1, <1>5, <1>6, Zenon DEF Kept, Good

(* A response whose request is served, or that is not served.              *)
LEMMA ServedOrNot ==
    ASSUME NEW s, NEW C \in [Clients -> Client], Good(s, C), NEW r \in Responses,
           NEW c, c = r[1], NEW f, f = s.req[c].fd
    PROVE  \/ NotServed(s, r)
           \/ /\ c \in Clients /\ s.req[c].at = "live" /\ s.respTran[f] = r
              /\ InService(s, C[c], c, f, r) /\ Serving(s, c, f, r)
  <1>1. c \in Clients /\ r \in Own(c) /\ r # NULL
    BY TransApart DEF Own
  <1>2. ConnOK(s, C[c], c) /\ C[c] \in Client /\ s \in Server /\ Room(s)
    BY <1>1, Zenon DEF Good
  <1>3. (s.req[c].at = "live" /\ s.respTran[f] = r) \/ NotServed(s, r)
    BY <1>1, <1>2, Zenon DEF ConnOK
  <1> QED
    BY <1>1, <1>2, <1>3, ServedOf, Zenon

(* A GET gets back what the disk or the client had.                        *)
MapOff(s, r) == [s EXCEPT !.res[r].map = FALSE]
LEMMA DiskDone ==
    ASSUME NEW s, NEW c \in Clients, NEW cl \in Client, NEW f, NEW r,
           InService(s, cl, c, f, r), Serving(s, c, f, r), s.res[r].method = "GET",
           s.res[r].map, NEW t, t = MapOff(s, r)
    PROVE  GetReady(t, cl, c, f, r) /\ Same(s, t, c, r) /\ t.writeTran[f] = NULL
  <1> DEFINE p == [s.res[r] EXCEPT !.map = FALSE]
  <1>1. s \in Server /\ r \in Responses /\ Room(s)
    BY Zenon DEF InService, Own
  <1>2. s.res[r] \in Response
    BY <1>1, Zenon DEF Server
  <1>3. /\ p \in Response /\ p.at = s.res[r].at /\ p.fd = s.res[r].fd
        /\ p.method = s.res[r].method /\ p.presReq = s.res[r].presReq
        /\ p.lDel = s.res[r].lDel /\ ~p.map
        /\ p.batchAdd = s.res[r].batchAdd /\ p.status = s.res[r].status
    BY <1>2, Zenon DEF Response
  <1>4. t = [s EXCEPT !.res = [s.res EXCEPT ![r] = p]]
    BY Zenon DEF MapOff
  <1> HIDE DEF p
  <1>5. ResSet(s, t, c, r, p)
    BY <1>1, <1>3, <1>4, SetRes, Zenon
  <1>6. InService(t, cl, c, f, r)
    BY <1>3, <1>5, ServiceKept, Zenon DEF ResSet, ResOnly
  <1> QED
    BY <1>3, <1>5, <1>6 DEF GetReady, ResSet, ResOnly, Serving

WriteOff(s, f) == [s EXCEPT !.writeTran[f] = NULL]
LEMMA ClientReady ==
    ASSUME NEW s, NEW c \in Clients, NEW cl \in Client, NEW f, NEW r,
           InService(s, cl, c, f, r), Serving(s, c, f, r), s.writeTran[f] # NULL,
           NEW t, t = WriteOff(s, f)
    PROVE  /\ GetReady(s, cl, c, f, r)
           /\ GetReady(t, cl, c, f, r) /\ Same(s, t, c, r) /\ t.writeTran[f] = NULL
  <1>1. s \in Server /\ f \in Fds /\ NULL \in Trans /\ Room(s) /\ s.req[c].fd = f
    BY Zenon DEF InService, Trans
  <1>2. WriteSet(s, t, c, f, r, NULL)
    BY <1>1, SetWrite, Zenon DEF WriteOff
  <1>3. InService(t, cl, c, f, r)
    BY <1>2, ServiceKept, Zenon DEF WriteSet, WriteOnly
  <1>4. GetReady(s, cl, c, f, r)
    BY Zenon DEF GetReady, Serving
  <1> QED
    BY <1>2, <1>3, <1>4, Zenon DEF GetReady, WriteSet, WriteOnly

(* The disk answers for a response that nobody waits for any more.         *)
LEMMA DiskAnswersNone ==
    ASSUME NEW s, NEW r \in Responses, s \in Server, Room(s), NotServed(s, r),
           s.res[r].at = "live", s.res[r].method = "GET",
           NEW t, t \in processFurtherBlocks(MapOff(s, r), r)
    PROVE  Aside(s, t, r)
  <1> DEFINE p == [s.res[r] EXCEPT !.map = FALSE]
             c == r[1]
  <1>1. s.res[r] \in Response /\ c \in Clients /\ r \in Own(c)
    BY TransApart, Zenon DEF Server, Own
  <1>2. /\ p \in Response /\ p.at = "live" /\ p.fd = None /\ p.presReq = None
        /\ p.method = "GET" /\ p.lDel = s.res[r].lDel /\ ~p.map
        /\ p.batchAdd = s.res[r].batchAdd
    BY <1>1, Zenon DEF Response, NotServed
  <1>3. PICK u : u = MapOff(s, r)
    BY Zenon
  <1>4. u = [s EXCEPT !.res = [s.res EXCEPT ![r] = p]]
    BY <1>3, Zenon DEF MapOff
  <1> HIDE DEF p
  <1>5. ResSet(s, u, c, r, p)
    BY <1>2, <1>4, SetRes, Zenon
  <1>6. u \in Server /\ Room(u) /\ ResOnly(s, u) /\ Same(s, u, c, r) /\ u.res[r] = p
    BY <1>5, Zenon DEF ResSet
  <1>7. Quietly(s, u)
    BY <1>6, Zenon DEF Quietly, ResOnly
  <1>8. CASE s.res[r].lDel
    <2>1. t = u
      BY <1>2, <1>3, <1>6, <1>8, Zenon DEF processFurtherBlocks
    <2>2. NotServed(u, r)
      BY <1>2, <1>6, <1>8, Zenon DEF NotServed, ResOnly, Live
    <2> QED
      BY <1>2, <1>6, <1>7, <2>1, <2>2, Zenon DEF Aside
  <1>9. CASE ~s.res[r].lDel
    <2>1. ~s.res[r].batchAdd /\ r \notin s.delResList
      BY <1>9, Zenon DEF NotServed
    <2>2. t = delResponseTranLazy(u, r) \/ t = [u EXCEPT !.down = TRUE]
      BY <1>2, <1>3, <1>6, <1>9, Zenon DEF processFurtherBlocks
    <2>3. CASE t = delResponseTranLazy(u, r)
      <3>1. /\ t \in Server /\ Room(t) /\ Same(u, t, c, r) /\ Gone(u, t, r)
            /\ Quietly(u, t)
        <4>1. /\ u \in Server /\ r \in Own(c) /\ ~u.res[r].lDel /\ u.res[r].presReq = None
              /\ u.res[r].fd = None /\ Room(u) /\ c \in Clients
          BY <1>1, <1>2, <1>6, <1>9, Zenon
        <4> QED
          BY <2>3, <4>1, DelIdle, Zenon
      <3>2. NotServed(t, r) /\ t.res[r].at = "live"
        BY <1>2, <1>6, <2>1, <3>1, GoneNotServed, Zenon
      <3>3. Same(s, t, c, r)
        BY <1>6, <3>1, SameTrans, Zenon
      <3>4. Quietly(s, t)
        BY <1>7, <3>1, Zenon DEF Quietly
      <3> QED
        BY <3>1, <3>2, <3>3, <3>4, Zenon DEF Aside
    <2>4. CASE t = [u EXCEPT !.down = TRUE]
      <3>1. /\ t \in Server /\ t.open = u.open /\ t.readTran = u.readTran
            /\ t.writeTran = u.writeTran /\ t.respTran = u.respTran /\ t.req = u.req
            /\ t.res = u.res /\ t.delReqList = u.delReqList /\ t.delResList = u.delResList
            /\ t.count = u.count /\ t.listening = u.listening /\ t.answers = u.answers
            /\ t.forgotten = u.forgotten /\ t.down
        BY <1>6, <2>4, Zenon DEF Server
      <3>2. Same(s, t, c, r) /\ Room(t) /\ Quietly(s, t)
        BY <1>6, <1>7, <3>1 DEF Same, Room, Quietly
      <3>3. NotServed(t, r)
        BY <1>2, <1>6, <1>9, <2>1, <3>1, Zenon DEF NotServed, ResOnly, Live
      <3>4. t.res[r].at = "live"
        BY <1>2, <1>6, <3>1, ZenonT(60)
      <3> QED
        BY <3>1, <3>2, <3>3, <3>4, Zenon DEF Aside
    <2> QED
      BY <2>2, <2>3, <2>4, Zenon
  <1> QED
    BY <1>8, <1>9, Zenon

LEMMA DiskAnswers ==
    ASSUME NEW s, NEW C \in [Clients -> Client], Good(s, C), NEW r \in Responses,
           s.res[r].at = "live", s.res[r].method = "GET", s.res[r].map,
           NEW t, t \in processFurtherBlocks(MapOff(s, r), r)
    PROVE  Kept(s, t, C)
  <1>1. PICK c, f : c = r[1] /\ f = s.req[c].fd
    BY Zenon
  <1>2. s \in Server /\ Room(s)
    BY Zenon DEF Good
  <1>3. CASE NotServed(s, r)
    BY <1>2, <1>3, DiskAnswersNone, AsideKept, Zenon
  <1>4. CASE /\ c \in Clients /\ s.req[c].at = "live" /\ s.respTran[f] = r
             /\ InService(s, C[c], c, f, r) /\ Serving(s, c, f, r)
    <2>1. PICK u : u = MapOff(s, r)
      BY Zenon
    <2>2. C[c] \in Client /\ c \in Clients
      BY <1>4, ZenonT(60)
    <2>3. GetReady(u, C[c], c, f, r) /\ Same(s, u, c, r) /\ u.writeTran[f] = NULL
      BY <1>4, <2>1, <2>2, DiskDone, SMTT(30)
    <2>4. u.res[r].presReq = c /\ c # None /\ ~u.res[r].lDel /\ r \in Own(c)
      BY <2>2, <2>3, TransApart DEF GetReady, InService, Live
    <2>5. t \in Sends(u, r) \/ t = Missed(u, r)
      BY <2>1, <2>4, Zenon DEF processFurtherBlocks
    <2>6. Outcome(u, t, C[c], c, r)
      BY <2>2, <2>3, <2>5, SendsGet, CompleteGet, Zenon
    <2>7. Outcome(s, t, C[c], c, r)
      BY <2>3, <2>6, SameTrans, Zenon DEF Outcome
    <2> QED
      BY <1>4, <2>2, <2>4, <2>7, OutcomeKept, Zenon
  <1> QED
    BY <1>1, <1>3, <1>4, ServedOrNot

(* A PUT leaves its batch.                                                 *)
LEMMA LeavesBatchKept ==
    ASSUME NEW s, NEW C \in [Clients -> Client], Good(s, C), NEW r \in Responses,
           s.res[r].at = "live", s.res[r].batchAdd, s.res[r].status # "incomplete",
           NEW t, t = LeavesBatch(s, r)
    PROVE  Kept(s, t, C)
  <1> DEFINE p == [s.res[r] EXCEPT !.map = FALSE, !.batchAdd = FALSE, !.lDel = FALSE]
             c == r[1]
  <1>1. NotServed(s, r)
    BY ServedOrNot, Zenon DEF Serving
  <1>2. s \in Server /\ Room(s) /\ s.res[r] \in Response /\ c \in Clients /\ r \in Own(c)
    BY TransApart, Zenon DEF Good, Server, Own
  <1>3. /\ p \in Response /\ p.at = "live" /\ p.fd = None /\ p.presReq = None
        /\ ~p.lDel /\ ~p.map /\ ~p.batchAdd
    BY <1>1, <1>2, Zenon DEF Response, NotServed
  <1>4. PICK u : u = [s EXCEPT !.res = [s.res EXCEPT ![r] = p]]
    BY Zenon
  <1>5. t = delResponseTranLazy(u, r)
    BY <1>4, Zenon DEF LeavesBatch
  <1> HIDE DEF p
  <1>6. ResSet(s, u, c, r, p)
    BY <1>2, <1>3, <1>4, SetRes, Zenon
  <1>7. u \in Server /\ Room(u) /\ ResOnly(s, u) /\ Same(s, u, c, r) /\ u.res[r] = p
    BY <1>6, Zenon DEF ResSet
  <1>8. /\ t \in Server /\ Room(t) /\ Same(u, t, c, r) /\ Gone(u, t, r)
        /\ Quietly(u, t)
    <2>1. /\ u \in Server /\ r \in Own(c) /\ ~u.res[r].lDel /\ u.res[r].presReq = None
          /\ u.res[r].fd = None /\ Room(u) /\ c \in Clients
      BY <1>2, <1>3, <1>7, Zenon
    <2> QED
      BY <1>5, <2>1, DelIdle, Zenon
  <1>9. NotServed(t, r) /\ t.res[r].at = "live"
    BY <1>3, <1>7, <1>8, GoneNotServed, Zenon
  <1>10. Same(s, t, c, r)
    BY <1>7, <1>8, SameTrans, Zenon
  <1>11. Quietly(s, t)
    BY <1>7, <1>8, Zenon DEF Quietly, ResOnly
  <1>12. Aside(s, t, r)
    BY <1>8, <1>9, <1>10, <1>11, Zenon DEF Aside
  <1> QED
    BY <1>1, <1>12, AsideKept, Zenon

(* The client on a descriptor that is used.                                *)
LEMMA WhoseFd ==
    ASSUME NEW s, NEW C \in [Clients -> Client], Good(s, C), NEW f \in Fds,
           s.readTran[f] # NULL \/ s.writeTran[f] # NULL \/ s.respTran[f] # NULL,
           NEW c, c = s.open[f]
    PROVE  /\ c \in Clients /\ s.req[c].at = "live" /\ s.req[c].fd = f
           /\ ConnOK(s, C[c], c) /\ C[c] \in Client /\ s \in Server /\ Room(s)
  <1>1. FdOK(s, f) /\ s \in Server /\ Room(s)
    BY Zenon DEF Good
  <1>2. s.open[f] \in Clients
    BY <1>1, Zenon DEF FdOK, Server
  <1> QED
    BY <1>1, <1>2, Zenon DEF FdOK, Good

LEMMA ResumesKept ==
    ASSUME NEW s, NEW C \in [Clients -> Client], Good(s, C), NEW f \in Fds,
           s.writeTran[f] # NULL, NEW r, r = s.respTran[f], NEW u, u = WriteOff(s, f),
           NEW t, t \in {BothDeleted(s, r), Complete(u, r), NeedsDisk(u, r)} \cup Sends(u, r)
    PROVE  Kept(s, t, C)
  <1>1. PICK c : c = s.open[f]
    BY Zenon
  <1>2. /\ c \in Clients /\ s.req[c].at = "live" /\ s.req[c].fd = f
        /\ ConnOK(s, C[c], c) /\ C[c] \in Client /\ s \in Server /\ Room(s)
    BY <1>1, WhoseFd
  <1>3. r # NULL
    BY <1>2, Zenon DEF ConnOK
  <1>4. InService(s, C[c], c, f, r) /\ Serving(s, c, f, r)
    BY <1>2, <1>3, ServedOf, ZenonT(60)
  <1>5. /\ GetReady(s, C[c], c, f, r)
        /\ GetReady(u, C[c], c, f, r) /\ Same(s, u, c, r) /\ u.writeTran[f] = NULL
    BY <1>2, <1>4, ClientReady, ZenonT(60)
  <1>6. Outcome(s, t, C[c], c, r)
    <2>1. CASE t = BothDeleted(s, r)
      BY <1>2, <1>5, <2>1, BothDeletedGet, Zenon DEF Outcome
    <2>2. CASE t = Complete(u, r) \/ t = NeedsDisk(u, r) \/ t \in Sends(u, r)
      <3>1. Outcome(u, t, C[c], c, r)
        BY <1>2, <1>5, <2>2, CompleteGet, NeedsDiskGet, SendsGet, Zenon DEF Outcome
      <3> QED
        BY <1>5, <3>1, SameTrans, Zenon DEF Outcome
    <2> QED
      BY <2>1, <2>2, Zenon
  <1>7. r \in Own(c)
    BY <1>4, Zenon DEF InService
  <1> QED
    BY <1>2, <1>6, <1>7, OutcomeKept, Zenon

(* The request that waits for what its client sends.                       *)
LEMMA ReaderOf ==
    ASSUME NEW s, NEW C \in [Clients -> Client], Good(s, C), NEW f \in Fds,
           NEW c \in Clients, s.readTran[f] = Req(c)
    PROVE  /\ s.req[c].at = "live" /\ s.req[c].fd = f /\ ~s.req[c].lDel
           /\ ConnOK(s, C[c], c) /\ C[c] \in Client /\ s \in Server /\ Room(s)
           /\ \/ s.respTran[f] = NULL
              \/ s.respTran[f] \in Own(c) /\ GetServed(s, C[c], c, f, s.respTran[f])
  <1>1. PICK d : d = s.open[f]
    BY Zenon
  <1>2. Req(c) # NULL
    BY TransApart, Zenon
  <1>3. /\ d \in Clients /\ s.req[d].at = "live" /\ s.req[d].fd = f
        /\ ConnOK(s, C[d], d) /\ C[d] \in Client /\ s \in Server /\ Room(s)
    BY <1>1, <1>2, WhoseFd
  <1>4. CASE s.respTran[f] = NULL
    <2>1. s.readTran[f] \in {NULL, Req(d)} /\ (s.req[d].lDel => s.readTran[f] = NULL)
      BY <1>3, <1>4, Zenon DEF ConnOK
    <2>2. c = d
      BY <1>2, <2>1, TransApart, Zenon
    <2> QED
      BY <1>2, <1>3, <1>4, <2>1, <2>2, Zenon
  <1>5. CASE s.respTran[f] # NULL
    <2>1. PICK r : r = s.respTran[f]
      BY Zenon
    <2>2. InService(s, C[d], d, f, r) /\ Serving(s, d, f, r)
      BY <1>3, <1>5, <2>1, ServedOf, Zenon
    <2>3. r \in Responses /\ r # Req(c)
      BY <2>2, TransApart, Zenon DEF Serving, Own
    <2>4. s.readTran[f] \in {NULL, Req(d)} /\ s.res[r].method = "GET"
      BY <2>2, <2>3, Zenon DEF Serving
    <2>5. c = d
      BY <1>2, <2>4, TransApart, Zenon
    <2>6. GetServed(s, C[d], d, f, r) /\ r \in Own(d) /\ ~s.req[d].lDel
      BY <2>2, <2>4, Zenon DEF GetServed, Serving, InService, Live
    <2> QED
      BY <1>3, <2>1, <2>5, <2>6, Zenon
  <1> QED
    BY <1>4, <1>5, Zenon

LEMMA LaterServed ==
    ASSUME NEW s, NEW c \in Clients, NEW cl \in Client, NEW dl, Later(cl, dl), NEW f, NEW r,
           InService(s, cl, c, f, r)
    PROVE  InService(s, dl, c, f, r)
  BY Zenon DEF InService, Later

(* ClientClosed.                                                           *)
LEMMA ClosedKept ==
    ASSUME NEW s, NEW C \in [Clients -> Client], Good(s, C), NEW f \in Fds,
           NEW c \in Clients, s.readTran[f] = Req(c),
           NEW D \in [Clients -> Client], \A d \in Clients : d # c => D[d] = C[d],
           Later(C[c], D[c]), NEW t, t = delRequestTranLazy(Closing(s, c, f), c)
    PROVE  Kept(s, t, D)
  <1>1. /\ s.req[c].at = "live" /\ s.req[c].fd = f /\ ~s.req[c].lDel
        /\ ConnOK(s, C[c], c) /\ C[c] \in Client /\ D[c] \in Client /\ s \in Server /\ Room(s)
        /\ \/ s.respTran[f] = NULL
           \/ s.respTran[f] \in Own(c) /\ GetServed(s, C[c], c, f, s.respTran[f])
    BY ReaderOf
  <1>2. CASE s.respTran[f] = NULL
    <2>1. s.req[c].method = "GET" /\ s.writeTran[f] = NULL
      BY <1>1, <1>2, Zenon DEF ConnOK
    <2>2. Closing(s, c, f) = s
      BY <1>1, <2>1, ClosingIs
    <2>3. t = delRequestTranLazy(s, c)
      BY <2>2
    <2>4. Outcome(s, t, D[c], c, NULL)
      BY <1>1, <1>2, <2>3, ClosesIdle, Zenon
    <2> QED
      BY <1>1, <2>4, OutcomeKept, Zenon
  <1>3. CASE s.respTran[f] # NULL
    <2>1. PICK r : r = s.respTran[f]
      BY Zenon
    <2>2. r \in Own(c) /\ GetServed(s, C[c], c, f, r)
      BY <1>1, <1>3, <2>1, Zenon
    <2>3. GetServed(s, D[c], c, f, r)
      BY <1>1, <2>2, LaterServed, Zenon DEF GetServed
    <2>4. Outcome(s, t, D[c], c, r)
      BY <1>1, <2>3, ClosesGet, Zenon
    <2> QED
      BY <1>1, <2>2, <2>4, OutcomeKept, Zenon
  <1> QED
    BY <1>2, <1>3, SMTT(30)

(* checkClientExpiry.                                                      *)
LEMMA ExpiryKept ==
    ASSUME NEW s, NEW C \in [Clients -> Client], Good(s, C), NEW f \in Fds,
           NEW c \in Clients, s.readTran[f] = Req(c), NEW t, t = checkClientExpiry(s, f, c)
    PROVE  Kept(s, t, C)
  <1>1. /\ s.req[c].at = "live" /\ s.req[c].fd = f /\ ~s.req[c].lDel
        /\ ConnOK(s, C[c], c) /\ C[c] \in Client /\ s \in Server /\ Room(s)
        /\ \/ s.respTran[f] = NULL
           \/ s.respTran[f] \in Own(c) /\ GetServed(s, C[c], c, f, s.respTran[f])
    BY ReaderOf, Zenon
  <1>2. CASE s.respTran[f] = NULL
    <2>1. t = delRequestTranLazy(s, c)
      BY <1>2 DEF checkClientExpiry
    <2>2. Later(C[c], C[c])
      BY <1>1, Zenon DEF Later, ConnOK, Asked
    <2>3. Outcome(s, t, C[c], c, NULL)
      BY <1>1, <1>2, <2>1, <2>2, ClosesIdle, Zenon
    <2> QED
      BY <1>1, <2>3, OutcomeKept, Zenon
  <1>3. CASE s.respTran[f] # NULL
    <2>1. PICK r : r = s.respTran[f]
      BY Zenon
    <2>2. r \in Own(c) /\ GetServed(s, C[c], c, f, r)
      BY <1>1, <1>3, <2>1, Zenon
    <2>3. Outcome(s, t, C[c], c, r)
      BY <1>1, <2>2, ExpiresGet, Zenon
    <2> QED
      BY <1>1, <2>2, <2>3, OutcomeKept, Zenon
  <1> QED
    BY <1>2, <1>3

(* A PUT whose object is read.                                             *)
LEMMA DownloadOf ==
    ASSUME NEW s, NEW C \in [Clients -> Client], Good(s, C), NEW f \in Fds,
           NEW r, r = s.readTran[f], r \in Responses, NEW c, c = s.open[f]
    PROVE  /\ c \in Clients /\ s.req[c].at = "live" /\ C[c] \in Client /\ r \in Own(c)
           /\ PutReady(s, C[c], c, f, r)
  <1>1. r # NULL /\ \A d : r # Req(d)
    BY TransApart
  <1>2. /\ c \in Clients /\ s.req[c].at = "live" /\ s.req[c].fd = f
        /\ ConnOK(s, C[c], c) /\ C[c] \in Client /\ s \in Server /\ Room(s)
    BY <1>1, WhoseFd
  <1>3. s.respTran[f] # NULL
    BY <1>1, <1>2, Zenon DEF ConnOK
  <1>4. PICK q : q = s.respTran[f]
    BY Zenon
  <1>5. InService(s, C[c], c, f, q) /\ Serving(s, c, f, q)
    BY <1>2, <1>3, <1>4, ServedOf, Zenon
  <1>6. /\ q = r /\ s.res[r].method = "PUT" /\ s.res[r].fd = f /\ ~s.res[r].map
        /\ s.writeTran[f] = NULL /\ r \in Own(c)
    BY <1>1, <1>5, Zenon DEF Serving
  <1> QED
    BY <1>2, <1>5, <1>6, Zenon DEF PutReady

LEMMA DownloadKept ==
    ASSUME NEW s, NEW C \in [Clients -> Client], Good(s, C), NEW f \in Fds,
           NEW r, r = s.readTran[f], r \in Responses, NEW c, c = s.open[f],
           NEW D \in [Clients -> Client], \A d \in Clients : d # c => D[d] = C[d],
           Later(C[c], D[c]), NEW t, t = PutComplete(s, r) \/ t = PutBad(s, r)
    PROVE  Kept(s, t, D)
  <1>1. /\ c \in Clients /\ s.req[c].at = "live" /\ C[c] \in Client /\ r \in Own(c)
        /\ PutReady(s, C[c], c, f, r)
    BY DownloadOf
  <1>2. PutReady(s, D[c], c, f, r) /\ D[c] \in Client
    BY <1>1, LaterServed, Zenon DEF PutReady
  <1>3. Outcome(s, t, D[c], c, r)
    BY <1>1, <1>2, PutCompletes, PutFails, Zenon
  <1> QED
    BY <1>1, <1>3, OutcomeKept, ZenonT(60)

(* A request is read: a GET, or the first part of a PUT.                   *)
LEMMA RequestRead ==
    ASSUME NEW s, client \in [Clients -> Client], Good(s, client), NEW f \in Fds,
           NEW c \in Clients, s.readTran[f] = Req(c),
           client[c].inbox # << >>, Head(client[c].inbox) \in Asks,
           NEW n \in 1 .. Len(client[c].inbox), NEW dl,
           dl = [client[c] EXCEPT !.inbox = SubSeq(@, n + 1, Len(@))],
           NEW m \in {"GET", "PUT"}, NEW u, u = initHTTPResponse(s, c, m)
    PROVE  /\ u.respTran[f] \in Own(c) /\ dl \in Client /\ s.req[c].at = "live"
           /\ Starts(s, u, dl, c, f, u.respTran[f], m)
  <1>1. /\ s.req[c].at = "live" /\ s.req[c].fd = f
        /\ ConnOK(s, client[c], c) /\ client[c] \in Client /\ s \in Server /\ Room(s)
    BY ReaderOf
  <1>2. ReadOne(client[c], dl) /\ Asking(client[c]) # {}
    <2>1. \A i, j \in Asking(client[c]) : i = j
      BY <1>1, Zenon DEF ConnOK, Asked
    <2> QED
      BY <1>1, <2>1, ReadAsk, Zenon
  <1>3. PICK r : r = <<c, Len(client[c].asked)>>
    BY Zenon
  <1>4. Starts(s, u, dl, c, f, r, m)
    BY <1>1, <1>2, <1>3, InitResponse, Zenon
  <1>5. u.respTran[f] = r /\ r \in Own(c)
    BY <1>4, Zenon DEF Starts, InService
  <1> QED
    BY <1>1, <1>2, <1>4, <1>5, Zenon DEF ReadOne

LEMMA GetReadKept ==
    ASSUME NEW s, client \in [Clients -> Client], Good(s, client), NEW f \in Fds,
           NEW c \in Clients, s.readTran[f] = Req(c),
           NEW u, u = initHTTPResponse(s, c, "GET"), NEW r, r = u.respTran[f],
           NEW D \in [Clients -> Client], \A d \in Clients : d # c => D[d] = client[d],
           r \in Own(c), s.req[c].at = "live", Starts(s, u, D[c], c, f, r, "GET"),
           NEW t \in joinFlow(u, r)
    PROVE  Kept(s, t, D)
  <1>1. /\ GetReady(u, D[c], c, f, r) /\ u.writeTran[f] = NULL /\ Same(s, u, c, r)
        /\ D[c] \in Client
    BY Zenon DEF Starts, GetReady
  <1>2. Outcome(u, t, D[c], c, r)
    BY <1>1, JoinFlowGet, Zenon
  <1>3. Outcome(s, t, D[c], c, r)
    BY <1>1, <1>2, SameTrans, Zenon DEF Outcome
  <1> QED
    BY <1>3, OutcomeKept, Zenon

LEMMA PutReadKept ==
    ASSUME NEW s, client \in [Clients -> Client], Good(s, client), NEW f \in Fds,
           NEW c \in Clients, s.readTran[f] = Req(c),
           NEW u, u = initHTTPResponse(s, c, "PUT"), NEW r, r = u.respTran[f],
           NEW D \in [Clients -> Client], \A d \in Clients : d # c => D[d] = client[d],
           r \in Own(c), s.req[c].at = "live", Starts(s, u, D[c], c, f, r, "PUT"),
           NEW large \in BOOLEAN, NEW all \in BOOLEAN,
           NEW t, t = readyForPut(u, r, large, all)
    PROVE  Kept(s, t, D)
  <1>1. /\ InService(u, D[c], c, f, r) /\ u.writeTran[f] = NULL /\ Same(s, u, c, r)
        /\ u.res[r].method = "PUT" /\ ~u.res[r].map /\ D[c] \in Client
    BY Zenon DEF Starts
  <1>2. PICK b \in BOOLEAN : b = ~large
    BY Zenon
  <1>3. PICK w : w = ReadyFor(u, f, r, b)
    OBVIOUS
  <1>4. PutReady(w, D[c], c, f, r) /\ Same(u, w, c, r)
    BY <1>1, <1>3, ReadyPut, Zenon
  <1>5. t = IF all THEN PutComplete(w, r) ELSE w
    <2>1. u.res[r].presReq = c /\ u.req[c].fd = f
      BY <1>1, Zenon DEF InService
    <2>2. w = ReadyFor(u, f, r, ~large)
      BY <1>2, <1>3, Zenon
    <2>3. t = IF all THEN PutComplete(ReadyFor(u, f, r, ~large), r)
              ELSE ReadyFor(u, f, r, ~large)
      <3>1. PICK g : g = u.req[u.res[r].presReq].fd
        BY Zenon
      <3>2. readyForPut(u, r, large, all) =
              IF all THEN PutComplete(ReadyFor(u, u.req[u.res[r].presReq].fd, r, ~large), r)
              ELSE ReadyFor(u, u.req[u.res[r].presReq].fd, r, ~large)
        BY Zenon DEF readyForPut, ReadyFor
      <3>3. g = f
        BY <2>1, <3>1, Zenon
      <3> QED
        BY <3>1, <3>2, <3>3, Zenon
    <2> QED
      BY <2>2, <2>3, Zenon
  <1>6. Outcome(w, t, D[c], c, r)
    <2>1. CASE all
      BY <1>1, <1>4, <1>5, <2>1, PutCompletes, Zenon
    <2>2. CASE ~all
      <3>1. t = w
        BY <1>5, <2>2, Zenon
      <3>2. w \in Server /\ Room(w) /\ ConnOK(w, D[c], c)
        BY <1>1, <1>4, PutGoesOn, ZenonT(60)
      <3> QED
        BY <3>1, <3>2, Zenon DEF Outcome, Same
    <2> QED
      BY <2>1, <2>2, Zenon
  <1>7. Outcome(s, t, D[c], c, r)
    <2>1. Same(s, w, c, r)
      BY <1>1, <1>4, SameTrans, Zenon
    <2> QED
      BY <1>6, <2>1, SameTrans DEF Outcome
  <1> QED
    BY <1>7, OutcomeKept, Zenon

-----------------------------------------------------------------------------
(* deletePerms: what is deleted is not served, and nothing leads to it.    *)
GoneFds(s) == {f \in Fds : \E c \in s.delReqList :
                             s.req[c].fd = f /\ s.req[c].method # "PUT"}
LEMMA DeletePermsFields ==
    ASSUME NEW s \in Server, NEW t, t = deletePerms(s)
    PROVE  /\ t \in Server
           /\ t.readTran = [f \in Fds |-> IF f \in GoneFds(s) THEN NULL ELSE s.readTran[f]]
           /\ t.writeTran = [f \in Fds |-> IF f \in GoneFds(s) THEN NULL ELSE s.writeTran[f]]
           /\ t.respTran = s.respTran
           /\ t.open = [f \in Fds |-> IF f \in GoneFds(s) THEN None ELSE s.open[f]]
           /\ t.req = [c \in Clients |->
                         IF c \in s.delReqList THEN Freed(NoRequest) ELSE s.req[c]]
           /\ t.res = [r \in Responses |->
                         IF r \in s.delResList THEN Freed(NoResponse) ELSE s.res[r]]
           /\ t.delReqList = {} /\ t.delResList = {} /\ t.count = s.count
           /\ t.listening = s.listening /\ t.answers = s.answers
           /\ t.forgotten = s.forgotten /\ t.down = s.down
  <1> DEFINE rd == [f \in Fds |-> IF f \in GoneFds(s) THEN NULL ELSE s.readTran[f]]
             wr == [f \in Fds |-> IF f \in GoneFds(s) THEN NULL ELSE s.writeTran[f]]
             op == [f \in Fds |-> IF f \in GoneFds(s) THEN None ELSE s.open[f]]
             rq == [c \in Clients |->
                      IF c \in s.delReqList THEN Freed(NoRequest) ELSE s.req[c]]
             re == [r \in Responses |->
                      IF r \in s.delResList THEN Freed(NoResponse) ELSE s.res[r]]
  <1>1. rd \in [Fds -> Trans] /\ wr \in [Fds -> Trans] /\ op \in [Fds -> Clients \cup {None}]
    BY Zenon DEF Server, Trans
  <1>2. rq \in [Clients -> Request]
    <2>1. Freed(NoRequest) \in Request
      BY Zenon DEF Freed, NoRequest, Request
    <2> QED
      BY <2>1, Zenon DEF Server
  <1>3. re \in [Responses -> Response]
    <2>1. Freed(NoResponse) \in Response
      BY Zenon DEF Freed, NoResponse, Response
    <2> QED
      BY <2>1, Zenon DEF Server
  <1>4. t = [s EXCEPT !.readTran = rd, !.writeTran = wr, !.open = op, !.req = rq,
                      !.res = re, !.delReqList = {}, !.delResList = {}]
    BY Zenon DEF deletePerms, GoneFds
  <1> HIDE DEF rd, wr, op, rq, re
  <1>5. /\ t \in Server /\ t.readTran = rd /\ t.writeTran = wr /\ t.respTran = s.respTran
        /\ t.open = op /\ t.req = rq /\ t.res = re
        /\ t.delReqList = {} /\ t.delResList = {} /\ t.count = s.count
        /\ t.listening = s.listening /\ t.answers = s.answers
        /\ t.forgotten = s.forgotten /\ t.down = s.down
    BY <1>1, <1>2, <1>3, <1>4, ZenonT(60) DEF Server
  <1> QED
    BY <1>5, Zenon DEF rd, wr, op, rq, re

(* The clients whose requests are deleted, and those whose are not.        *)
LEMMA DeletedConn ==
    ASSUME NEW s, NEW C \in [Clients -> Client], Good(s, C), NEW c \in s.delReqList
    PROVE  /\ c \in Clients /\ s.req[c].at = "live" /\ s.req[c].fd \in Fds
           /\ s.open[s.req[c].fd] = c /\ s.respTran[s.req[c].fd] = NULL
           /\ s.req[c].fd \in GoneFds(s) /\ \A r \in Own(c) : NotServed(s, r)
  <1>1. c \in Clients /\ s \in Server
    BY Zenon DEF Good, Server
  <1>2. ConnOK(s, C[c], c)
    BY <1>1, Zenon DEF Good
  <1>3. /\ s.req[c].at = "live" /\ s.req[c].fd \in Fds /\ s.req[c].lDel
        /\ s.open[s.req[c].fd] = c /\ s.respTran[s.req[c].fd] = NULL
        /\ s.req[c].method = "GET"
    BY <1>2, Zenon DEF ConnOK
  <1>4. \A r \in Own(c) : r # NULL
    BY TransApart, Zenon DEF Own
  <1> QED
    BY <1>1, <1>2, <1>3, <1>4, Zenon DEF ConnOK, GoneFds


LEMMA DeletePermsGood ==
    ASSUME NEW s, NEW C \in [Clients -> Client], Good(s, C), NEW t, t = deletePerms(s)
    PROVE  /\ Good(t, C) /\ t.count = s.count /\ t.listening = s.listening
           /\ \A c \in Clients : s.req[c].at = "none" => t.req[c].at = "none"
  <1>0. s \in Server /\ Room(s)
    BY Zenon DEF Good
  <1>1. /\ t \in Server
        /\ t.readTran = [f \in Fds |-> IF f \in GoneFds(s) THEN NULL ELSE s.readTran[f]]
        /\ t.writeTran = [f \in Fds |-> IF f \in GoneFds(s) THEN NULL ELSE s.writeTran[f]]
        /\ t.respTran = s.respTran
        /\ t.open = [f \in Fds |-> IF f \in GoneFds(s) THEN None ELSE s.open[f]]
        /\ t.req = [c \in Clients |->
                      IF c \in s.delReqList THEN Freed(NoRequest) ELSE s.req[c]]
        /\ t.res = [r \in Responses |->
                      IF r \in s.delResList THEN Freed(NoResponse) ELSE s.res[r]]
        /\ t.delReqList = {} /\ t.delResList = {} /\ t.count = s.count
        /\ t.listening = s.listening /\ t.answers = s.answers
        /\ t.forgotten = s.forgotten /\ t.down = s.down
    BY <1>0, DeletePermsFields, SMTT(30)
  <1>2. /\ Freed(NoRequest).at = "freed" /\ ~Freed(NoRequest).lDel
        /\ Freed(NoResponse).at = "freed" /\ ~Freed(NoResponse).lDel
        /\ Freed(NoResponse).presReq = None /\ Freed(NoResponse).fd = None
        /\ ~Freed(NoResponse).batchAdd
    BY DEF Freed, NoRequest, NoResponse
  <1>3. ASSUME NEW r \in Responses, NotServed(s, r)
        PROVE  NotServed(t, r) /\ (s.res[r].at = "none" => t.res[r].at = "none")
    <2>1. CASE r \in s.delResList
      <3>1. t.res[r] = Freed(NoResponse)
        BY <1>1, <2>1, Zenon
      <3>2. s.res[r].at = "live"
        BY <1>3, <2>1, Zenon DEF NotServed
      <3> QED
        BY <1>1, <1>2, <3>1, <3>2, Zenon DEF NotServed
    <2>2. CASE r \notin s.delResList
      <3>1. t.res[r] = s.res[r]
        BY <1>1, <2>2
      <3> QED
        BY <1>1, <1>3, <2>2, <3>1, ZenonT(60) DEF NotServed
    <2> QED
      BY <2>1, <2>2
  <1>4. ASSUME NEW c \in s.delReqList PROVE ConnOK(t, C[c], c)
    <2>1. /\ c \in Clients /\ \A r \in Own(c) : NotServed(s, r)
      BY <1>4, DeletedConn, Zenon
    <2>2. t.req[c].at = "freed" /\ ~t.req[c].lDel
      BY <1>1, <1>2, <1>4, <2>1, Zenon
    <2>3. \A r \in Own(c) : NotServed(t, r) /\ (s.res[r].at = "none" => t.res[r].at = "none")
      BY <1>3, <2>1, Zenon DEF Own
    <2>4. Asked(s, C[c], c) /\ C[c] \in Client
      BY <2>1, Zenon DEF Good, ConnOK
    <2>5. Asking(C[c]) # {} => <<c, Len(C[c].asked)>> \in Own(c)
      BY <1>0, <2>1, <2>4, NextResponse, Zenon DEF Asked
    <2>6. Asked(t, C[c], c)
      BY <1>1, <2>2, <2>3, <2>4, <2>5, Zenon DEF Asked
    <2> QED
      BY <1>1, <2>2, <2>3, <2>6, ZenonT(60) DEF ConnOK
  <1>5. ASSUME NEW c \in Clients, c \notin s.delReqList PROVE ConnOK(t, C[c], c)
    <2>1. t.req[c] = s.req[c] /\ ConnOK(s, C[c], c) /\ C[c] \in Client
      BY <1>1, <1>5, SMTT(30) DEF Good
    <2> DEFINE f == s.req[c].fd
    <2>2. ASSUME s.req[c].at = "live"
          PROVE  /\ f \in Fds /\ t.open[f] = c /\ t.readTran[f] = s.readTran[f]
                 /\ t.writeTran[f] = s.writeTran[f]
      <3>1. f \in Fds /\ s.open[f] = c
        BY <2>1, <2>2, Zenon DEF ConnOK
      <3>2. f \notin GoneFds(s)
        <4>1. ASSUME NEW d \in s.delReqList, s.req[d].fd = f PROVE FALSE
          BY <1>5, <3>1, <4>1, DeletedConn
        <4> QED
          BY <4>1, ZenonT(60) DEF GoneFds
      <3> QED
        BY <1>1, <3>1, <3>2
    <2>3. ASSUME NEW r \in Own(c)
          PROVE  /\ s.res[r].at = "none" => t.res[r].at = "none"
                 /\ NotServed(s, r) => NotServed(t, r)
                 /\ Serving(s, c, f, r) => t.res[r] = s.res[r]
      <3>1. r \in Responses
        BY Zenon DEF Own
      <3>2. NotServed(s, r) \/ Serving(s, c, f, r)
        <4>1. r # NULL
          BY <3>1, TransApart, Zenon
        <4> QED
          BY <2>1, <4>1, Zenon DEF ConnOK
      <3>3. Serving(s, c, f, r) => t.res[r] = s.res[r]
        BY <1>1, <3>1, Zenon DEF Serving
      <3> QED
        BY <1>3, <3>1, <3>2, <3>3, Zenon
    <2>4. Asked(t, C[c], c)
      <3>1. Asked(s, C[c], c)
        BY <2>1, Zenon DEF ConnOK
      <3>2. Asking(C[c]) # {} => <<c, Len(C[c].asked)>> \in Own(c)
        BY <1>0, <2>1, <3>1, NextResponse, Zenon DEF Asked
      <3> QED
        BY <1>1, <2>1, <2>3, <3>1, <3>2, ZenonT(60) DEF Asked
    <2>5. ASSUME s.req[c].at = "live", s.respTran[f] # NULL
          PROVE  Serving(t, c, f, s.respTran[f])
      <3>1. Serving(s, c, f, s.respTran[f])
        BY <2>1, <2>5, Zenon DEF ConnOK
      <3>2. t.res[s.respTran[f]] = s.res[s.respTran[f]]
        BY <2>3, <3>1, Zenon DEF Serving
      <3> QED
        BY <1>1, <2>1, <2>2, <2>5, <3>1, <3>2, ZenonT(60) DEF Serving
    <2>6. ~s.req[c].lDel
      BY <1>5, <2>1, Zenon DEF ConnOK
    <2> QED
      BY <1>1, <2>1, <2>2, <2>3, <2>4, <2>5, <2>6, ZenonT(60) DEF ConnOK
  <1>6. ASSUME NEW f \in Fds PROVE FdOK(t, f)
    <2>1. FdOK(s, f)
      BY Zenon DEF Good
    <2>2. CASE f \in GoneFds(s)
      <3>1. s.respTran[f] = NULL
        BY <2>2, DeletedConn DEF GoneFds
      <3>2. t.open[f] = None /\ t.readTran[f] = NULL /\ t.writeTran[f] = NULL
        BY <1>1, <2>2, ZenonT(60)
      <3> QED
        BY <1>1, <3>1, <3>2, TransApart, ZenonT(60) DEF FdOK
    <2>3. CASE f \notin GoneFds(s)
      <3>1. /\ t.open[f] = s.open[f] /\ t.readTran[f] = s.readTran[f]
            /\ t.writeTran[f] = s.writeTran[f]
        BY <1>1, <2>3
      <3>2. ASSUME NEW c \in Clients, s.open[f] = c PROVE t.req[c] = s.req[c]
        <4>1. c \notin s.delReqList
          BY <2>1, <2>3, <3>2, DeletedConn DEF FdOK
        <4> QED
          BY <1>1, <4>1, ZenonT(60)
      <3> QED
        BY <1>1, <2>1, <3>1, <3>2, SMTT(30) DEF FdOK
    <2> QED
      BY <2>2, <2>3, Zenon
  <1>7. \A c \in Clients : s.req[c].at = "none" => t.req[c].at = "none"
    <2>1. ASSUME NEW c \in Clients, s.req[c].at = "none" PROVE t.req[c].at = "none"
      <3>1. c \notin s.delReqList
        BY <2>1, DeletedConn, Zenon
      <3> QED
        BY <1>1, <2>1, <3>1
    <2> QED
      BY <2>1, Zenon
  <1>8. Room(t)
    BY <1>0, <1>1, Zenon DEF Room
  <1> QED
    BY <1>1, <1>4, <1>5, <1>6, <1>7, <1>8, Zenon DEF Good

(* handleAccept: the i-th client that waits gets d[i].                     *)
AcceptedOn(s, t, c, f) ==
    /\ f \in Fds /\ s.open[f] = None /\ c \in Clients
    /\ t.open[f] = c /\ t.readTran[f] = Req(c) /\ t.respTran[f] = NULL
    /\ t.req[c] = [NoRequest EXCEPT !.at = "live", !.fd = f]
Accepts(s, t, n, d) ==
    /\ t \in Server /\ t.writeTran = s.writeTran /\ t.res = s.res
    /\ t.delReqList = s.delReqList /\ t.delResList = s.delResList
    /\ t.answers = s.answers /\ t.forgotten = s.forgotten /\ t.down = s.down
    /\ t.count = s.count + n /\ (t.listening <=> s.count + n < CLimit)
    /\ \A i \in 1 .. n : AcceptedOn(s, t, backlog[i], d[i])
    /\ \A f \in Fds : (\A i \in 1 .. n : d[i] # f) =>
         /\ t.open[f] = s.open[f] /\ t.readTran[f] = s.readTran[f]
         /\ t.respTran[f] = s.respTran[f]
    /\ \A c \in Clients : (\A i \in 1 .. n : backlog[i] # c) => t.req[c] = s.req[c]

LEMMA AcceptFields ==
    ASSUME NEW s \in Server, backlog \in Seq(Clients),
           \A i, j \in DOMAIN backlog : backlog[i] = backlog[j] => i = j,
           NEW n \in 0 .. Len(backlog), NEW d \in Injection(1 .. n, Closed(s)),
           NEW t, t = handleAccept(s, n, d)
    PROVE  Accepts(s, t, n, d)
  <1> DEFINE fds == {d[i] : i \in 1 .. n}
             who(f) == backlog[CHOOSE i \in 1 .. n : d[i] = f]
             on(c) == CHOOSE f \in fds : who(f) = c
             new == {who(f) : f \in fds}
             op == [f \in Fds |-> IF f \in fds THEN who(f) ELSE s.open[f]]
             rd == [f \in Fds |-> IF f \in fds THEN Req(who(f)) ELSE s.readTran[f]]
             rs == [f \in Fds |-> IF f \in fds THEN NULL ELSE s.respTran[f]]
             rq == [c \in Clients |->
                      IF c \in new THEN [NoRequest EXCEPT !.at = "live", !.fd = on(c)]
                      ELSE s.req[c]]
             li == s.count + n < CLimit
             co == s.count + n
  <1>1. /\ d \in [1 .. n -> Closed(s)] /\ \A i, j \in 1 .. n : d[i] = d[j] => i = j
    BY DEF Injection, IsInjective
  <1>2. n \in Nat /\ \A i \in 1 .. n : i \in DOMAIN backlog /\ backlog[i] \in Clients
    OBVIOUS
  <1>3. \A i \in 1 .. n : d[i] \in Fds /\ s.open[d[i]] = None
    BY <1>1, Zenon DEF Closed
  <1>4. ASSUME NEW i \in 1 .. n PROVE who(d[i]) = backlog[i]
    <2>1. (CHOOSE j \in 1 .. n : d[j] = d[i]) = i
      BY <1>1
    <2> QED
      BY <2>1, Zenon
  <1>5. ASSUME NEW f \in fds PROVE f \in Fds /\ who(f) \in Clients
    <2>1. PICK i \in 1 .. n : f = d[i]
      OBVIOUS
    <2>2. who(f) = backlog[i]
      BY <1>4, <2>1
    <2> QED
      BY <1>2, <1>3, <2>1, <2>2, Zenon
  <1> HIDE DEF who
  <1>6. ASSUME NEW i \in 1 .. n PROVE backlog[i] \in new /\ on(backlog[i]) = d[i]
    <2>1. d[i] \in fds /\ who(d[i]) = backlog[i]
      BY <1>4
    <2>2. ASSUME NEW f \in fds, who(f) = backlog[i] PROVE f = d[i]
      <3>1. PICK j \in 1 .. n : f = d[j]
        BY <2>2, Zenon
      <3>2. backlog[j] = backlog[i]
        BY <1>4, <2>2, <3>1, Zenon
      <3> QED
        BY <1>2, <3>1, <3>2, Zenon
    <2> QED
      BY <2>1, <2>2, Zenon
  <1>7. ASSUME NEW c \in new PROVE \E i \in 1 .. n : backlog[i] = c
    <2>1. PICK f \in fds : c = who(f)
      BY Zenon
    <2>2. PICK i \in 1 .. n : f = d[i]
      BY <2>1, Zenon
    <2> QED
      BY <1>4, <2>1, <2>2
  <1>8. op \in [Fds -> Clients \cup {None}] /\ rd \in [Fds -> Trans] /\ rs \in [Fds -> Trans]
    <2>1. /\ s.open \in [Fds -> Clients \cup {None}] /\ s.readTran \in [Fds -> Trans]
          /\ s.respTran \in [Fds -> Trans]
      BY Zenon DEF Server
    <2>2. NULL \in Trans /\ \A c \in Clients : Req(c) \in Trans
      BY Zenon DEF Trans
    <2> HIDE DEF fds
    <2> QED
      BY <1>5, <2>1, <2>2, Zenon
  <1>9. rq \in [Clients -> Request]
    <2>1. s.req \in [Clients -> Request]
      BY Zenon DEF Server
    <2>2. ASSUME NEW c \in new
          PROVE  [NoRequest EXCEPT !.at = "live", !.fd = on(c)] \in Request
      <3>1. on(c) \in Fds
        <4>1. PICK i \in 1 .. n : backlog[i] = c
          BY <1>7, Zenon
        <4>2. on(c) = d[i]
          BY <1>6, <4>1, Zenon
        <4> QED
          BY <1>3, <4>2, Zenon
      <3> HIDE DEF on
      <3> QED
        BY <3>1, Zenon DEF NoRequest, Request
    <2> HIDE DEF new, on
    <2> QED
      BY <2>1, <2>2, Zenon
  <1>10. li \in BOOLEAN /\ co \in Int
    BY <1>2 DEF Server
  <1>11. t = [s EXCEPT !.open = op, !.readTran = rd, !.respTran = rs, !.req = rq,
                       !.count = co, !.listening = li]
    BY Zenon DEF handleAccept, who
  <1>12. /\ \A i \in 1 .. n : /\ op[d[i]] = backlog[i] /\ rd[d[i]] = Req(backlog[i])
                              /\ rs[d[i]] = NULL
         /\ \A f \in Fds : (\A i \in 1 .. n : d[i] # f) =>
                op[f] = s.open[f] /\ rd[f] = s.readTran[f] /\ rs[f] = s.respTran[f]
    BY <1>3, <1>4, Zenon
  <1>13. /\ \A i \in 1 .. n :
              rq[backlog[i]] = [NoRequest EXCEPT !.at = "live", !.fd = d[i]]
         /\ \A c \in Clients : (\A i \in 1 .. n : backlog[i] # c) => rq[c] = s.req[c]
    <2> HIDE DEF new, on
    <2> QED
      BY <1>2, <1>6, <1>7, Zenon
  <1> HIDE DEF op, rd, rs, rq, li, co
  <1>14. /\ t \in Server /\ t.open = op /\ t.readTran = rd /\ t.respTran = rs /\ t.req = rq
         /\ t.count = co /\ t.listening = li /\ t.writeTran = s.writeTran /\ t.res = s.res
         /\ t.delReqList = s.delReqList /\ t.delResList = s.delResList
         /\ t.answers = s.answers /\ t.forgotten = s.forgotten /\ t.down = s.down
    BY <1>8, <1>9, <1>10, <1>11, ZenonT(60) DEF Server
  <1> QED
    BY <1>2, <1>3, <1>12, <1>13, <1>14, ZenonT(60) DEF li, co, Accepts, AcceptedOn

LEMMA AcceptGood ==
    ASSUME NEW s, NEW C \in [Clients -> Client], Good(s, C), backlog \in Seq(Clients),
           \A i, j \in DOMAIN backlog : backlog[i] = backlog[j] => i = j,
           \A i \in DOMAIN backlog : s.req[backlog[i]].at = "none",
           NEW n \in 0 .. Len(backlog), n <= CLimit - s.count,
           NEW d \in Injection(1 .. n, Closed(s)), NEW t, t = handleAccept(s, n, d)
    PROVE  Good(t, C)
  <1>0. s \in Server /\ s.count \in Int /\ CLimit \in Int /\ n \in Nat
    BY ClientsAssumption DEF Good, Server
  <1>10. Accepts(s, t, n, d)
    BY <1>0, AcceptFields, Zenon
  <1>1. /\ t \in Server /\ t.writeTran = s.writeTran /\ t.res = s.res
        /\ t.delReqList = s.delReqList /\ t.delResList = s.delResList
        /\ t.answers = s.answers /\ t.forgotten = s.forgotten /\ t.down = s.down
        /\ t.count = s.count + n /\ (t.listening <=> s.count + n < CLimit)
    BY <1>10, ZenonT(60) DEF Accepts
  <1>2. ASSUME NEW i \in 1 .. n
        PROVE  AcceptedOn(s, t, backlog[i], d[i]) /\ i \in DOMAIN backlog
    <2>1. AcceptedOn(s, t, backlog[i], d[i])
      BY <1>10, Zenon DEF Accepts
    <2>2. i \in DOMAIN backlog
      BY <1>0, SMT
    <2> QED
      BY <2>1, <2>2, Zenon
  <1>3. ASSUME NEW f \in Fds, \A i \in 1 .. n : d[i] # f
        PROVE  /\ t.open[f] = s.open[f] /\ t.readTran[f] = s.readTran[f]
               /\ t.respTran[f] = s.respTran[f]
    BY <1>3, <1>10, Zenon DEF Accepts
  <1>4. ASSUME NEW c \in Clients, \A i \in 1 .. n : backlog[i] # c
        PROVE  t.req[c] = s.req[c]
    BY <1>4, <1>10, Zenon DEF Accepts
  <1>5. \A r : NotServed(s, r) => NotServed(t, r)
    BY <1>1 DEF NotServed
  <1>6. ASSUME NEW i \in 1 .. n PROVE ConnOK(t, C[backlog[i]], backlog[i])
    <2>1. PICK c : c = backlog[i]
      BY Zenon
    <2>2. PICK f : f = d[i]
      BY Zenon
    <2>3. /\ f \in Fds /\ s.open[f] = None /\ c \in Clients
          /\ t.open[f] = c /\ t.readTran[f] = Req(c) /\ t.respTran[f] = NULL
          /\ t.req[c] = [NoRequest EXCEPT !.at = "live", !.fd = f] /\ s.req[c].at = "none"
      BY <1>2, <2>1, <2>2, Zenon DEF AcceptedOn
    <2>4. /\ t.req[c].at = "live" /\ t.req[c].fd = f /\ ~t.req[c].lDel
          /\ t.req[c].method = "GET"
      BY <2>3, Zenon DEF NoRequest
    <2>5. ConnOK(s, C[c], c) /\ C[c] \in Client /\ FdOK(s, f)
      BY <2>3, Zenon DEF Good
    <2>6. t.writeTran[f] = NULL
      BY <1>1, <2>3, <2>5, Zenon DEF FdOK
    <2>7. c \notin t.delReqList
      BY <1>1, <2>3, <2>5, Zenon DEF ConnOK
    <2>8. \A r \in Own(c) : NotServed(t, r)
      BY <1>5, <2>3, <2>5, ZenonT(60) DEF ConnOK
    <2>9. Asked(t, C[c], c)
      BY <1>1, <2>3, <2>4, <2>5 DEF Asked, ConnOK
    <2>10. ConnOK(t, C[c], c)
      BY <2>3, <2>4, <2>6, <2>7, <2>8, <2>9, ZenonT(60) DEF ConnOK
    <2> QED
      BY <2>1, <2>10, Zenon
  <1>7. ASSUME NEW c \in Clients, \A i \in 1 .. n : backlog[i] # c
        PROVE  ConnOK(t, C[c], c)
    <2>1. PICK f : f = s.req[c].fd
      BY Zenon
    <2>2. t.req[c] = s.req[c] /\ ConnOK(s, C[c], c) /\ C[c] \in Client
      BY <1>4, <1>7, Zenon DEF Good
    <2>3. ASSUME s.req[c].at = "live"
          PROVE  /\ f \in Fds /\ t.open[f] = s.open[f] /\ t.readTran[f] = s.readTran[f]
                 /\ t.respTran[f] = s.respTran[f] /\ t.writeTran[f] = s.writeTran[f]
      <3>1. f \in Fds /\ s.open[f] = c /\ c # None
        BY <2>1, <2>2, <2>3, TransApart, ZenonT(60) DEF ConnOK
      <3>2. ASSUME NEW i \in 1 .. n, d[i] = f PROVE FALSE
        <4>1. s.open[d[i]] = None
          BY <1>2, ZenonT(60) DEF AcceptedOn
        <4> QED
          BY <3>1, <3>2, <4>1, Zenon
      <3> QED
        BY <1>1, <1>3, <3>1, <3>2, Zenon
    <2>4. Asked(t, C[c], c)
      <3>1. Asked(s, C[c], c)
        BY <2>2, Zenon DEF ConnOK
      <3> QED
        <4>1. t.answers = s.answers /\ t.res = s.res
          BY <1>1, Zenon
        <4>2. t.req[c].at = "live" /\ s.respTran[s.req[c].fd] = NULL
                => t.respTran[t.req[c].fd] = NULL
          BY <2>1, <2>2, <2>3, Zenon
        <4> QED
          BY <2>2, <3>1, <4>1, <4>2, ZenonT(60) DEF Asked
    <2>5. s.req[c].at = "live" /\ s.respTran[f] # NULL => Serving(t, c, f, s.respTran[f])
      <3>1. ASSUME s.req[c].at = "live", s.respTran[f] # NULL
            PROVE  Serving(t, c, f, s.respTran[f])
        <4>1. Serving(s, c, f, s.respTran[f])
          BY <2>1, <2>2, <3>1, Zenon DEF ConnOK
        <4> QED
          BY <1>1, <2>2, <2>3, <3>1, <4>1, ZenonT(60) DEF Serving
      <3> QED
        BY <3>1, Zenon
    <2> QED
      BY <1>1, <1>5, <2>1, <2>2, <2>3, <2>4, <2>5, ZenonT(60) DEF ConnOK
  <1>8. ASSUME NEW f \in Fds PROVE FdOK(t, f)
    <2>1. FdOK(s, f)
      BY Zenon DEF Good
    <2>2. CASE \E i \in 1 .. n : d[i] = f
      <3>1. PICK i \in 1 .. n : d[i] = f
        BY <2>2, Zenon
      <3>2. PICK c : c = backlog[i]
        BY Zenon
      <3>3. /\ c \in Clients /\ t.open[f] = c /\ c # None
            /\ t.req[c] = [NoRequest EXCEPT !.at = "live", !.fd = f]
        <4>1. AcceptedOn(s, t, c, f)
          BY <1>2, <3>1, <3>2, Zenon
        <4> QED
          BY <4>1, TransApart, Zenon DEF AcceptedOn
      <3>4. t.req[c].at = "live" /\ t.req[c].fd = f
        BY <3>3, ZenonT(60) DEF NoRequest
      <3> QED
        BY <3>3, <3>4, Zenon DEF FdOK
    <2>3. CASE \A i \in 1 .. n : d[i] # f
      <3>1. /\ t.open[f] = s.open[f] /\ t.readTran[f] = s.readTran[f]
            /\ t.respTran[f] = s.respTran[f]
        BY <1>3, <2>3, Zenon
      <3>2. ASSUME NEW c \in Clients, s.open[f] = c PROVE t.req[c] = s.req[c]
        <4>1. s.req[c].at = "live"
          BY <2>1, <3>2, Zenon DEF FdOK
        <4>2. ASSUME NEW i \in 1 .. n, backlog[i] = c PROVE FALSE
          <5>1. i \in DOMAIN backlog
            BY <1>2, Zenon
          <5> QED
            BY <4>1, <4>2, <5>1, ZenonT(60)
        <4> QED
          BY <1>4, <4>2, Zenon
      <3> QED
        BY <1>1, <2>1, <3>1, <3>2 DEF FdOK
    <2> QED
      BY <2>2, <2>3, Zenon
  <1>9. Room(t)
    BY <1>0, <1>1 DEF Room
  <1> QED
    BY <1>1, <1>6, <1>7, <1>8, <1>9, Zenon DEF Good

-----------------------------------------------------------------------------
(* Inv is an invariant.                                                    *)
LEMMA WaitingKept ==
    ASSUME Waiting, \A d \in Clients : srv'.req[d].at = srv.req[d].at, UNCHANGED backlog
    PROVE  Waiting'
  <1>1. \A i \in DOMAIN backlog : backlog[i] \in Clients
    BY DEF Waiting
  <1> QED
    BY <1>1, Zenon DEF Waiting

LEMMA KeptInv ==
    ASSUME Inv, client' \in [Clients -> Client], Kept(srv, srv', client'), UNCHANGED backlog
    PROVE  Inv'
  BY WaitingKept, Zenon DEF Inv, Kept

LEMMA InitInv == Init => Inv
  <1> SUFFICES ASSUME Init PROVE Inv
    BY ZenonT(60)
  <1>1. client \in [Clients -> Client] /\ \A c \in Clients : client[c] = Away
    BY DEF Init, Client, Away, Asks
  <1>2. Away.asked = << >> /\ Away.inbox = << >> /\ Len(Away.asked) = 0 /\ Asking(Away) = {}
    BY DEF Away, Asking
  <1>3. NoRequest \in Request /\ NoResponse \in Response
    BY ZenonT(60) DEF NoRequest, Request, NoResponse, Response
  <1>4. /\ srv.readTran = [f \in Fds |-> NULL] /\ srv.writeTran = [f \in Fds |-> NULL]
        /\ srv.respTran = [f \in Fds |-> NULL] /\ srv.open = [f \in Fds |-> None]
        /\ srv.req = [c \in Clients |-> NoRequest] /\ srv.res = [r \in Responses |-> NoResponse]
        /\ srv.delReqList = {} /\ srv.delResList = {} /\ srv.count = 0 /\ srv.listening
        /\ srv.answers = [c \in Clients |-> 0] /\ srv.forgotten = {} /\ ~srv.down
    BY ZenonT(60) DEF Init
  <1>4a. srv \in Server
    <2>1. [f \in Fds |-> NULL] \in [Fds -> Trans]
      BY Zenon DEF Trans
    <2>2. /\ [f \in Fds |-> None] \in [Fds -> Clients \cup {None}]
          /\ [c \in Clients |-> NoRequest] \in [Clients -> Request]
          /\ [r \in Responses |-> NoResponse] \in [Responses -> Response]
          /\ [c \in Clients |-> 0] \in [Clients -> Nat]
      BY <1>3
    <2>3. 0 \in Int /\ {} \in SUBSET Clients /\ {} \in SUBSET Responses
      OBVIOUS
    <2> QED
      BY <2>1, <2>2, <2>3, ZenonT(60) DEF Init, Server
  <1>5. NoRequest.at = "none" /\ ~NoRequest.lDel
    BY Zenon DEF NoRequest
  <1>6. /\ NoResponse.at = "none" /\ ~NoResponse.lDel /\ ~NoResponse.batchAdd
        /\ NoResponse.presReq = None /\ NoResponse.fd = None
    BY Zenon DEF NoResponse
  <1>7. ASSUME NEW c \in Clients PROVE ConnOK(srv, client[c], c)
    <2>1. srv.req[c] = NoRequest /\ client[c] = Away /\ srv.answers[c] = 0
      BY <1>1, <1>4, ZenonT(60)
    <2>2. \A r \in Own(c) : srv.res[r] = NoResponse /\ NotServed(srv, r)
      BY <1>4, <1>6, SMTT(30) DEF Own, NotServed
    <2>3. Asked(srv, client[c], c)
      BY <1>2, <1>6, <2>1, <2>2, ClientsAssumption, SMTT(30) DEF Asked
    <2> QED
      BY <1>4, <1>5, <2>1, <2>2, <2>3, ZenonT(60) DEF ConnOK
  <1>8. ASSUME NEW f \in Fds PROVE FdOK(srv, f)
    BY <1>4, TransApart DEF FdOK
  <1>9. Room(srv)
    BY <1>4, ClientsAssumption, SMTT(30) DEF Room
  <1>10. Waiting
    BY DEF Init, Waiting
  <1> QED
    BY <1>1, <1>4a, <1>7, <1>8, <1>9, <1>10, ZenonT(60) DEF Inv, Good

(* A client asks, or sends something else.                                 *)
Appended(cl, m, x) ==
    /\ x \in Seq(Asks \cup {"rest", "fin"}) /\ DOMAIN x = 1 .. Len(cl.inbox) + 1
    /\ Len(cl.inbox) \in Nat /\ DOMAIN cl.inbox = 1 .. Len(cl.inbox)
    /\ x[Len(cl.inbox) + 1] = m
    /\ \A i \in 1 .. Len(cl.inbox) : x[i] = cl.inbox[i]
LEMMA AppendInbox ==
    ASSUME NEW cl, NEW m, NEW x, cl \in Client, m \in Asks \cup {"rest", "fin"},
           x = Append(cl.inbox, m)
    PROVE  Appended(cl, m, x)
  <1>1. cl.inbox \in Seq(Asks \cup {"rest", "fin"})
    BY Zenon DEF Client
  <1> QED
    BY <1>1 DEF Appended

AskMore(cl, what) == [cl EXCEPT !.asked = Append(@, what), !.whole = (what = "get"),
                                !.inbox = Append(@, what)]
LEMMA AskConn ==
    ASSUME NEW s \in Server, NEW c \in Clients, NEW cl \in Client, ConnOK(s, cl, c),
           ~(Len(cl.asked) > s.answers[c]), Len(cl.asked) < MaxRequests, NEW what \in Asks,
           NEW dl, dl = AskMore(cl, what)
    PROVE  dl \in Client /\ ConnOK(s, dl, c)
  <1> DEFINE as == Append(cl.asked, what)
             inb == Append(cl.inbox, what)
             wh == (what = "get")
  <1>1. /\ cl.asked \in Seq(Asks) /\ Len(cl.asked) \in Nat /\ s.answers[c] \in Nat
        /\ MaxRequests \in Nat
    BY ClientsAssumption DEF Client, Server
  <1>2. as \in Seq(Asks) /\ Len(as) = Len(cl.asked) + 1 /\ wh \in BOOLEAN
    BY <1>1
  <1>3. /\ inb \in Seq(Asks \cup {"rest", "fin"}) /\ DOMAIN inb = 1 .. Len(cl.inbox) + 1
        /\ Len(cl.inbox) \in Nat /\ DOMAIN cl.inbox = 1 .. Len(cl.inbox)
        /\ inb[Len(cl.inbox) + 1] = what
        /\ \A i \in 1 .. Len(cl.inbox) : inb[i] = cl.inbox[i]
    <2>1. PICK x : x = Append(cl.inbox, what)
      BY Zenon
    <2>2. /\ x \in Seq(Asks \cup {"rest", "fin"}) /\ DOMAIN x = 1 .. Len(cl.inbox) + 1
          /\ Len(cl.inbox) \in Nat /\ DOMAIN cl.inbox = 1 .. Len(cl.inbox)
          /\ x[Len(cl.inbox) + 1] = what
          /\ \A i \in 1 .. Len(cl.inbox) : x[i] = cl.inbox[i]
      <3>1. what \in Asks \cup {"rest", "fin"}
        BY Zenon
      <3>2. Appended(cl, what, x)
        BY <2>1, <3>1, AppendInbox, ZenonT(60)
      <3> QED
        BY <3>2, Zenon DEF Appended
    <2>3. inb = x
      BY <2>1
    <2> HIDE DEF inb
    <2> QED
      BY <2>2, <2>3, Zenon
  <1>4. dl = [cl EXCEPT !.asked = as, !.whole = wh, !.inbox = inb]
    BY Zenon DEF AskMore
  <1> HIDE DEF as, inb, wh
  <1>5. dl \in Client /\ dl.asked = as /\ dl.inbox = inb
    BY <1>2, <1>3, <1>4, Zenon DEF Client
  <1>6. Asked(s, cl, c)
    BY ZenonT(60) DEF ConnOK
  <1>7. s.answers[c] = Len(cl.asked) /\ Asking(cl) = {}
    BY <1>1, <1>6 DEF Asked
  <1>8. s.req[c].at = "live" => s.respTran[s.req[c].fd] = NULL
    BY <1>1, <1>7, ZenonT(60) DEF ConnOK
  <1>9. ASSUME NEW i \in Asking(dl) PROVE i = Len(cl.inbox) + 1
    <2>1. i \in 1 .. Len(cl.inbox) + 1 /\ inb[i] \in Asks
      BY <1>3, <1>5, Zenon DEF Asking
    <2>2. ASSUME i \in 1 .. Len(cl.inbox) PROVE FALSE
      BY <1>3, <1>7, <2>1, <2>2, ZenonT(60) DEF Asking
    <2> QED
      BY <1>3, <2>1, <2>2
  <1>10. <<c, Len(as)>> \in Own(c) /\ s.res[<<c, Len(as)>>].at = "none"
    <2>1. Len(as) \in 1 .. MaxRequests
      BY <1>1, <1>2
    <2>2. <<c, Len(as)>> \in Own(c)
      BY <2>1, Zenon DEF Own, Responses
    <2>3. <<c, Len(as)>>[2] > Len(cl.asked)
      BY <1>1, <1>2
    <2> QED
      BY <1>6, <2>2, <2>3, ZenonT(60) DEF Asked
  <1>11. \A r \in Own(c) : r[2] > Len(as) => s.res[r].at = "none"
    <2>1. ASSUME NEW r \in Own(c), r[2] > Len(as) PROVE s.res[r].at = "none"
      <3>1. r[2] \in Nat
        BY TransApart DEF Own
      <3>2. r[2] > Len(cl.asked)
        BY <1>1, <1>2, <2>1, <3>1, SMTT(30)
      <3> QED
        BY <1>6, <3>2, Zenon DEF Asked
    <2> QED
      BY <2>1, Zenon
  <1>12. s.answers[c] <= Len(as) /\ Len(as) <= MaxRequests /\ s.answers[c] < Len(as)
    BY <1>1, <1>2, <1>7
  <1>13. Asked(s, dl, c)
    BY <1>5, <1>8, <1>9, <1>10, <1>11, <1>12, ZenonT(60) DEF Asked
  <1> QED
    BY <1>5, <1>8, <1>13, ZenonT(60) DEF ConnOK

LEMMA SaysConn ==
    ASSUME NEW s, NEW c, NEW cl \in Client, ConnOK(s, cl, c), NEW m \in {"rest", "fin"},
           NEW dl \in Client, dl.asked = cl.asked, dl.inbox = Append(cl.inbox, m)
    PROVE  ConnOK(s, dl, c)
  <1>1. PICK x : x = Append(cl.inbox, m)
    BY Zenon
  <1>2. /\ DOMAIN x = 1 .. Len(cl.inbox) + 1
        /\ Len(cl.inbox) \in Nat /\ DOMAIN cl.inbox = 1 .. Len(cl.inbox)
        /\ x[Len(cl.inbox) + 1] = m
        /\ \A i \in 1 .. Len(cl.inbox) : x[i] = cl.inbox[i]
    BY <1>1, AppendInbox DEF Appended
  <1>3. m \notin Asks
    BY Zenon DEF Asks
  <1>4. ASSUME NEW i \in Asking(dl) PROVE i \in Asking(cl)
    <2>1. i \in 1 .. Len(cl.inbox) + 1 /\ x[i] \in Asks
      BY <1>1, <1>2, Zenon DEF Asking
    <2>2. i \in 1 .. Len(cl.inbox)
      BY <1>2, <1>3, <2>1
    <2> QED
      BY <1>2, <2>1, <2>2, Zenon DEF Asking
  <1>5. Asked(s, dl, c)
    BY <1>4, Zenon DEF ConnOK, Asked
  <1> QED
    BY <1>5, Zenon DEF ConnOK

(* A step of the client alone.                                             *)
LEMMA ClientStep ==
    ASSUME Inv, NEW c \in Clients, NEW dl \in Client, ConnOK(srv, dl, c),
           client' = [client EXCEPT ![c] = dl], UNCHANGED <<backlog, srv>>
    PROVE  Inv'
  <1>1. client' \in [Clients -> Client]
    BY Zenon DEF Inv
  <1>2. \A d \in Clients : ConnOK(srv, client'[d], d)
    BY DEF Inv, Good
  <1>3. Good(srv', client')
    BY <1>2, Zenon DEF Inv, Good
  <1>4. Waiting'
    BY Zenon DEF Inv, Waiting
  <1> QED
    BY <1>1, <1>3, <1>4, Zenon DEF Inv

LEMMA ConnectInv ==
    ASSUME Inv, NEW c \in Clients, Connect(c)
    PROVE  Inv'
  <1>1. Good(srv', client') /\ client' \in [Clients -> Client]
    BY Zenon DEF Inv, Connect
  <1>2. /\ backlog \in Seq(Clients) /\ backlog' = Append(backlog, c)
        /\ \A i \in 1 .. Len(backlog) : backlog[i] # c
        /\ srv' = srv /\ srv.req[c].at = "none"
    BY Zenon DEF Inv, Waiting, Connect, Connected, InBacklog
  <1>3. /\ backlog' \in Seq(Clients) /\ DOMAIN backlog' = 1 .. Len(backlog) + 1
        /\ Len(backlog) \in Nat /\ DOMAIN backlog = 1 .. Len(backlog)
        /\ backlog'[Len(backlog) + 1] = c
        /\ \A i \in 1 .. Len(backlog) : backlog'[i] = backlog[i]
    BY <1>2
  <1>4. ASSUME NEW i \in DOMAIN backlog'
        PROVE  i = Len(backlog) + 1 \/ i \in DOMAIN backlog
    BY <1>3, SMTT(30)
  <1>5. ASSUME NEW i \in DOMAIN backlog', NEW j \in DOMAIN backlog',
               backlog'[i] = backlog'[j]
        PROVE  i = j
    <2>1. /\ i = Len(backlog) + 1 \/ i \in DOMAIN backlog
          /\ j = Len(backlog) + 1 \/ j \in DOMAIN backlog
      BY <1>4, ZenonT(60)
    <2> QED
      BY <1>2, <1>3, <1>5, <2>1, SMTT(30) DEF Inv, Waiting
  <1>6. ASSUME NEW i \in DOMAIN backlog' PROVE srv.req[backlog'[i]].at = "none"
    BY <1>2, <1>3, <1>4 DEF Inv, Waiting
  <1>7. Waiting'
    BY <1>2, <1>3, <1>5, <1>6, ZenonT(60) DEF Waiting
  <1> QED
    BY <1>1, <1>7, Zenon DEF Inv

LEMMA TalkInv ==
    ASSUME Inv, NEW c \in Clients,
           SendRest(c) \/ Leave(c) \/ \E what \in {"get", "put"} : Ask(c, what)
    PROVE  Inv'
  <1>1. /\ client \in [Clients -> Client] /\ client[c] \in Client /\ srv \in Server
        /\ ConnOK(srv, client[c], c)
    BY Zenon DEF Inv, Good
  <1>2. CASE SendRest(c)
    <2>1. PICK dl : dl = [client[c] EXCEPT !.whole = TRUE, !.inbox = Append(@, "rest")]
      OBVIOUS
    <2>2. dl \in Client /\ dl.asked = client[c].asked /\ dl.inbox = Append(client[c].inbox, "rest")
      BY <1>1, <2>1, AppendInbox, ZenonT(60) DEF Client, Appended
    <2>3. ConnOK(srv, dl, c)
      BY <1>1, <2>2, SaysConn
    <2>4. client' = [client EXCEPT ![c] = dl] /\ UNCHANGED <<backlog, srv>>
      BY <1>2, <2>1, Zenon DEF SendRest, Talks
    <2> QED
      BY <2>2, <2>3, <2>4, ClientStep, ZenonT(60)
  <1>3. CASE Leave(c)
    <2>1. PICK dl : dl = [client[c] EXCEPT !.left = TRUE, !.inbox = Append(@, "fin")]
      OBVIOUS
    <2>2. dl \in Client /\ dl.asked = client[c].asked /\ dl.inbox = Append(client[c].inbox, "fin")
      BY <1>1, <2>1, AppendInbox, ZenonT(60) DEF Client, Appended
    <2>3. ConnOK(srv, dl, c)
      BY <1>1, <2>2, SaysConn
    <2>4. client' = [client EXCEPT ![c] = dl] /\ UNCHANGED <<backlog, srv>>
      BY <1>3, <2>1, Zenon DEF Leave, Talks
    <2> QED
      BY <2>2, <2>3, <2>4, ClientStep, ZenonT(60)
  <1>4. ASSUME NEW what \in {"get", "put"}, Ask(c, what) PROVE Inv'
    <2>1. PICK dl : dl = AskMore(client[c], what)
      OBVIOUS
    <2>2. ~(Len(client[c].asked) > srv.answers[c]) /\ Len(client[c].asked) < MaxRequests
      BY <1>4, Zenon DEF Ask, Waits
    <2>3. dl \in Client /\ ConnOK(srv, dl, c)
      BY <1>1, <2>1, <2>2, AskConn, Zenon DEF Asks
    <2>4. client' = [client EXCEPT ![c] = dl] /\ UNCHANGED <<backlog, srv>>
      BY <1>4, <2>1, ZenonT(60) DEF Ask, Talks, AskMore
    <2> QED
      BY <2>3, <2>4, ClientStep, Zenon
  <1> QED
    BY <1>2, <1>3, <1>4

(* What is read from the client of a connection.                           *)
ReadsTo(C, D, c, n) ==
    /\ D \in [Clients -> Client] /\ \A d \in Clients : d # c => D[d] = C[d]
    /\ D[c] = [C[c] EXCEPT !.inbox = SubSeq(@, n + 1, Len(@))] /\ Later(C[c], D[c])
LEMMA ReadsLater ==
    ASSUME Inv, NEW c \in Clients, NEW n \in 1 .. Len(client[c].inbox), Reads(c, n)
    PROVE  ReadsTo(client, client', c, n)
  <1>1. /\ client \in [Clients -> Client] /\ client[c] \in Client
        /\ ConnOK(srv, client[c], c)
    BY Zenon DEF Inv, Good
  <1>2. PICK dl : dl = [client[c] EXCEPT !.inbox = SubSeq(@, n + 1, Len(@))]
    BY Zenon
  <1>3. /\ dl \in Client /\ dl.asked = client[c].asked
        /\ \A i \in Asking(dl) : i \in Nat \ {0} /\ i + n \in Asking(client[c])
    BY <1>1, <1>2, ReadInbox, ZenonT(60)
  <1>4. client' = [client EXCEPT ![c] = dl]
    BY <1>2, Zenon DEF Reads
  <1>5. client' \in [Clients -> Client] /\ client'[c] = dl
    BY <1>1, <1>3, <1>4, Zenon
  <1>6. \A d \in Clients : d # c => client'[d] = client[d]
    BY <1>1, <1>4
  <1>7. ASSUME NEW i \in Asking(dl), NEW j \in Asking(dl) PROVE i = j
    <2>1. i \in Nat /\ j \in Nat /\ i + n \in Asking(client[c]) /\ j + n \in Asking(client[c])
      BY <1>3, Zenon
    <2>2. i + n = j + n
      BY <1>1, <2>1, Zenon DEF ConnOK, Asked
    <2>3. n \in Nat
      BY <1>1 DEF Client
    <2> QED
      BY <2>1, <2>2, <2>3
  <1>8. Later(client[c], dl)
    BY <1>3, <1>7, Zenon DEF Later
  <1> QED
    BY <1>2, <1>5, <1>6, <1>8, Zenon DEF ReadsTo

LEMMA ClientReadInv ==
    ASSUME Inv, NEW f \in Fds, HandleClientRead(f)
    PROVE  Inv'
  <1>1. PICK c \in Clients :
          /\ srv.readTran[f] = Req(c) /\ client[c].inbox # << >>
          /\ \/ ClientClosed(f, c) \/ GetRead(f, c)
             \/ \E large \in BOOLEAN : PutRead(f, c, large)
          /\ UNCHANGED backlog
    BY Zenon DEF HandleClientRead
  <1>2. /\ Good(srv, client) /\ client \in [Clients -> Client] /\ client[c] \in Client
        /\ client[c].inbox \in Seq(Asks \cup {"rest", "fin"})
    BY Zenon DEF Inv, Client
  <1>3. 1 \in 1 .. Len(client[c].inbox)
    BY <1>1, <1>2
  <1>4. CASE ClientClosed(f, c)
    <2>1. ReadsTo(client, client', c, 1)
      BY <1>3, <1>4, ReadsLater DEF ClientClosed
    <2>2. srv' = delRequestTranLazy(Closing(srv, c, f), c)
      BY <1>4, Zenon DEF ClientClosed, Closing, Serves
    <2>3. Kept(srv, srv', client')
      <3>1. /\ client' \in [Clients -> Client] /\ Later(client[c], client'[c])
            /\ \A d \in Clients : d # c => client'[d] = client[d]
        BY <2>1, Zenon DEF ReadsTo
      <3> QED
        BY <1>1, <1>2, <2>2, <3>1, ClosedKept, ZenonT(60)
    <2> QED
      BY <1>1, <2>1, <2>3, KeptInv DEF ReadsTo
  <1>5. CASE GetRead(f, c)
    <2>1. ReadsTo(client, client', c, 1)
      BY <1>3, <1>5, ReadsLater, Zenon DEF GetRead
    <2>2. PICK u : u = initHTTPResponse(srv, c, "GET")
      BY Zenon
    <2>3. PICK r : r = u.respTran[f]
      BY Zenon
    <2>4. srv' \in joinFlow(u, r)
      BY <1>5, <2>2, <2>3, Zenon DEF GetRead, Serves
    <2>5. /\ r \in Own(c) /\ srv.req[c].at = "live"
          /\ Starts(srv, u, client'[c], c, f, r, "GET")
      <3>1. Head(client[c].inbox) \in Asks
        BY <1>5, Zenon DEF GetRead, Asks
      <3>2. client'[c] = [client[c] EXCEPT !.inbox = SubSeq(@, 1 + 1, Len(@))]
        BY <2>1, Zenon DEF ReadsTo
      <3> QED
        BY <1>1, <1>2, <1>3, <2>2, <2>3, <3>1, <3>2, RequestRead, ZenonT(60)
    <2>6. Kept(srv, srv', client')
      <3>1. /\ client' \in [Clients -> Client]
            /\ \A d \in Clients : d # c => client'[d] = client[d]
        BY <2>1 DEF ReadsTo
      <3> QED
        BY <1>1, <1>2, <2>2, <2>3, <2>4, <2>5, <3>1, GetReadKept, ZenonT(60)
    <2> QED
      BY <1>1, <2>1, <2>6, KeptInv, Zenon DEF ReadsTo
  <1>6. ASSUME NEW large \in BOOLEAN, PutRead(f, c, large) PROVE Inv'
    <2>1. PICK all \in {FALSE, Len(client[c].inbox) > 1 /\ client[c].inbox[2] = "rest"} :
            /\ LET s == initHTTPResponse(srv, c, "PUT")
               IN  Serves({readyForPut(s, s.respTran[f], large, all)})
            /\ Reads(c, IF all THEN 2 ELSE 1)
      BY <1>6, Zenon DEF PutRead
    <2>2. PICK n : n = IF all THEN 2 ELSE 1
      BY Zenon
    <2>3. n \in 1 .. Len(client[c].inbox) /\ all \in BOOLEAN
      <3>1. Len(client[c].inbox) \in Nat
        BY <1>2
      <3>2. CASE all
        <4>1. Len(client[c].inbox) > 1
          BY <2>1, <3>2, Zenon
        <4> QED
          BY <2>1, <2>2, <3>1, <3>2, <4>1, SMTT(30)
      <3>3. CASE ~all
        BY <1>3, <2>1, <2>2, <3>3, ZenonT(60)
      <3> QED
        BY <3>2, <3>3, SMTT(30)
    <2>4. ReadsTo(client, client', c, n)
      <3>1. Reads(c, n)
        BY <2>1, <2>2
      <3> QED
        BY <2>3, <3>1, ReadsLater, ZenonT(60)
    <2>5. PICK u : u = initHTTPResponse(srv, c, "PUT")
      OBVIOUS
    <2>6. PICK r : r = u.respTran[f]
      BY Zenon
    <2>7. srv' = readyForPut(u, r, large, all)
      BY <2>1, <2>5, <2>6, ZenonT(60) DEF Serves
    <2>8. /\ r \in Own(c) /\ srv.req[c].at = "live"
          /\ Starts(srv, u, client'[c], c, f, r, "PUT")
      <3>1. Head(client[c].inbox) \in Asks
        BY <1>6, Zenon DEF PutRead, Asks
      <3>2. client'[c] = [client[c] EXCEPT !.inbox = SubSeq(@, n + 1, Len(@))]
        BY <2>4, Zenon DEF ReadsTo
      <3>3. /\ client \in [Clients -> Client] /\ Good(srv, client) /\ srv.readTran[f] = Req(c)
            /\ client[c].inbox # << >> /\ n \in 1 .. Len(client[c].inbox)
        BY <1>1, <1>2, <2>3, ZenonT(60)
      <3>4. PICK dl : dl = client'[c]
        OBVIOUS
      <3>5. dl = [client[c] EXCEPT !.inbox = SubSeq(@, n + 1, Len(@))]
        BY <3>2, <3>4, Zenon
      <3>6. /\ u.respTran[f] \in Own(c) /\ srv.req[c].at = "live"
            /\ Starts(srv, u, dl, c, f, u.respTran[f], "PUT")
        BY <2>5, <3>1, <3>3, <3>5, RequestRead, ZenonT(60)
      <3> QED
        BY <2>6, <3>4, <3>6, ZenonT(60)
    <2>9. Kept(srv, srv', client')
      <3>1. /\ client' \in [Clients -> Client]
            /\ \A d \in Clients : d # c => client'[d] = client[d]
        BY <2>4, Zenon DEF ReadsTo
      <3>2. PICK D : D = client'
        OBVIOUS
      <3>3. PICK t : t = srv'
        OBVIOUS
      <3>4. /\ client \in [Clients -> Client] /\ Good(srv, client) /\ srv.readTran[f] = Req(c)
            /\ all \in BOOLEAN
        BY <1>1, <1>2, <2>3, Zenon
      <3>5. /\ D \in [Clients -> Client] /\ \A d \in Clients : d # c => D[d] = client[d]
            /\ r \in Own(c) /\ srv.req[c].at = "live"
            /\ Starts(srv, u, D[c], c, f, r, "PUT") /\ t = readyForPut(u, r, large, all)
        BY <2>7, <2>8, <3>1, <3>2, <3>3, Zenon
      <3>6. Kept(srv, t, D)
        BY <2>5, <2>6, <3>4, <3>5, PutReadKept, ZenonT(60)
      <3> QED
        BY <3>2, <3>3, <3>6, Zenon
    <2> QED
      BY <1>1, <2>4, <2>9, KeptInv, ZenonT(60) DEF ReadsTo
  <1> QED
    BY <1>1, <1>4, <1>5, <1>6

LEMMA DownloadReadInv ==
    ASSUME Inv, NEW f \in Fds, HandleDownloadRead(f)
    PROVE  Inv'
  <1>1. PICK r, c : r = srv.readTran[f] /\ c = srv.open[f]
    OBVIOUS
  <1>2. /\ r \in Responses /\ client[c].inbox # << >> /\ Reads(c, 1) /\ UNCHANGED backlog
        /\ srv' = PutComplete(srv, r) \/ srv' = PutBad(srv, r)
    BY <1>1, Zenon DEF HandleDownloadRead, Serves
  <1>3. Good(srv, client) /\ client \in [Clients -> Client]
    BY Zenon DEF Inv
  <1>4. c \in Clients /\ client[c] \in Client
    BY <1>1, <1>2, <1>3, DownloadOf, ZenonT(60)
  <1>5. 1 \in 1 .. Len(client[c].inbox)
    <2>1. client[c].inbox \in Seq(Asks \cup {"rest", "fin"})
      BY <1>4, Zenon DEF Client
    <2> QED
      BY <1>2, <2>1
  <1>6. ReadsTo(client, client', c, 1)
    BY <1>2, <1>4, <1>5, ReadsLater, ZenonT(60)
  <1>7. Kept(srv, srv', client')
    <2>1. /\ client' \in [Clients -> Client] /\ Later(client[c], client'[c])
          /\ \A d \in Clients : d # c => client'[d] = client[d]
      BY <1>6, ZenonT(60) DEF ReadsTo
    <2> QED
      BY <1>1, <1>2, <1>3, <2>1, DownloadKept, SMTT(30)
  <1> QED
    BY <1>2, <1>6, <1>7, KeptInv, ZenonT(60) DEF ReadsTo

LEMMA ResumeInv ==
    ASSUME Inv, NEW f \in Fds, ResumeDiskRead(f)
    PROVE  Inv'
  <1>1. PICK r, u : r = srv.respTran[f] /\ u = WriteOff(srv, f)
    BY Zenon
  <1>2. /\ srv.writeTran[f] # NULL /\ UNCHANGED <<client, backlog>>
        /\ srv' \in {BothDeleted(srv, r), Complete(u, r), NeedsDisk(u, r)} \cup Sends(u, r)
    BY <1>1 DEF ResumeDiskRead, Serves, WriteOff
  <1>3. Good(srv, client) /\ client \in [Clients -> Client]
    BY ZenonT(60) DEF Inv
  <1>4. Kept(srv, srv', client)
    BY <1>1, <1>2, <1>3, ResumesKept
  <1> QED
    BY <1>2, <1>3, <1>4, KeptInv

LEMMA TimerInv ==
    ASSUME Inv, NEW f \in Fds, HandleTimer(f)
    PROVE  Inv'
  <1>1. PICK c \in Clients : /\ srv.readTran[f] = Req(c)
                             /\ srv' = checkClientExpiry(srv, f, c)
    BY DEF HandleTimer, Serves
  <1>2. Good(srv, client) /\ client \in [Clients -> Client] /\ UNCHANGED <<client, backlog>>
    BY DEF Inv, HandleTimer
  <1>3. Kept(srv, srv', client)
    BY <1>1, <1>2, ExpiryKept, Zenon
  <1> QED
    BY <1>2, <1>3, KeptInv, Zenon

LEMMA DiskInv ==
    ASSUME Inv, NEW r \in Responses, HandleDataHelperRead(r)
    PROVE  Inv'
  <1>1. /\ srv.res[r].at = "live" /\ srv.res[r].method = "GET" /\ srv.res[r].map
        /\ srv' \in processFurtherBlocks(MapOff(srv, r), r) /\ UNCHANGED <<client, backlog>>
    BY Zenon DEF HandleDataHelperRead, Serves, MapOff
  <1>2. Good(srv, client) /\ client \in [Clients -> Client]
    BY DEF Inv
  <1>3. Kept(srv, srv', client)
    BY <1>1, <1>2, DiskAnswers, Zenon
  <1> QED
    BY <1>1, <1>2, <1>3, KeptInv, Zenon

LEMMA BatchInv ==
    ASSUME Inv, NEW r \in Responses, BatchDone(r)
    PROVE  Inv'
  <1>1. /\ srv.res[r].at = "live" /\ srv.res[r].batchAdd /\ srv.res[r].status # "incomplete"
        /\ srv' = LeavesBatch(srv, r) /\ UNCHANGED <<client, backlog>>
    BY Zenon DEF BatchDone, Serves
  <1>2. Good(srv, client) /\ client \in [Clients -> Client]
    BY Zenon DEF Inv
  <1>3. Kept(srv, srv', client)
    BY <1>1, <1>2, LeavesBatchKept, Zenon
  <1> QED
    BY <1>1, <1>2, <1>3, KeptInv, Zenon

LEMMA EndOfPassInv ==
    ASSUME Inv, EndOfPass
    PROVE  Inv'
  <1>1. PICK s : s = deletePerms(srv)
    BY Zenon
  <1>2. PICK n : n = NumAccepted(s)
    BY Zenon
  <1>3. /\ Good(srv, client) /\ client \in [Clients -> Client] /\ backlog \in Seq(Clients)
        /\ \A i, j \in DOMAIN backlog : backlog[i] = backlog[j] => i = j
        /\ \A i \in DOMAIN backlog : srv.req[backlog[i]].at = "none"
        /\ \A i \in DOMAIN backlog : backlog[i] \in Clients
    BY DEF Inv, Waiting
  <1>4. /\ Good(s, client)
        /\ \A c \in Clients : srv.req[c].at = "none" => s.req[c].at = "none"
    BY <1>1, <1>3, DeletePermsGood
  <1>5. \A i \in DOMAIN backlog : s.req[backlog[i]].at = "none"
    BY <1>3, <1>4, Zenon
  <1>6. CASE srv' = s /\ backlog' = backlog
    BY <1>3, <1>4, <1>5, <1>6, ZenonT(60) DEF Inv, Waiting, EndOfPass
  <1>7. CASE /\ \E d \in Injection(1 .. n, Closed(s)) : srv' = handleAccept(s, n, d)
             /\ backlog' = SubSeq(backlog, n + 1, Len(backlog))
    <2>1. PICK d \in Injection(1 .. n, Closed(s)) : srv' = handleAccept(s, n, d)
      BY <1>7, Zenon
    <2>2. n \in 0 .. Len(backlog) /\ n <= CLimit - s.count
      <3>1. s.count \in Int /\ s.count <= CLimit
        BY <1>4, Zenon DEF Good, Server, Room
      <3>2. CLimit \in Int /\ Len(backlog) \in Nat
        BY <1>3, ClientsAssumption
      <3> QED
        BY <1>2, <3>1, <3>2 DEF NumAccepted
    <2>3. Good(srv', client)
      BY <1>3, <1>4, <1>5, <2>1, <2>2, AcceptGood, ZenonT(60)
    <2>4. Accepts(s, srv', n, d)
      <3>1. s \in Server
        BY <1>4 DEF Good
      <3> QED
        BY <1>3, <2>1, <2>2, <3>1, AcceptFields, ZenonT(60)
    <2>5. /\ backlog' \in Seq(Clients) /\ DOMAIN backlog' = 1 .. Len(backlog) - n
          /\ \A i \in 1 .. Len(backlog) - n :
                backlog'[i] = backlog[n + i] /\ n + i \in DOMAIN backlog
      <3>1. Len(backlog) \in Nat /\ n \in Nat /\ DOMAIN backlog = 1 .. Len(backlog)
        BY <1>3, <2>2
      <3>2. /\ SubSeq(backlog, n + 1, Len(backlog)) \in Seq(Clients)
            /\ Len(SubSeq(backlog, n + 1, Len(backlog))) = Len(backlog) - n
        <4>1. backlog \in Seq(Clients)
          BY <1>3, Zenon
        <4>2. SubSeq(backlog, n + 1, Len(backlog)) \in Seq(Clients)
          BY <2>2, <3>1, <4>1
        <4>3. Len(SubSeq(backlog, n + 1, Len(backlog))) = Len(backlog) - n
          <5>1. n \in 0 .. Len(backlog)
            BY <2>2, Zenon
          <5>2. PICK k : k = n + 1
            OBVIOUS
          <5>3. k \in 1 .. Len(backlog) + 1
            BY <3>1, <5>1, <5>2
          <5>4. Len(SubSeq(backlog, k, Len(backlog))) =
                  IF k <= Len(backlog) THEN Len(backlog) - k + 1 ELSE 0
            BY <3>1, <4>1, <5>3
          <5>5. (IF k <= Len(backlog) THEN Len(backlog) - k + 1 ELSE 0) = Len(backlog) - n
            <6> PICK m : m = Len(backlog)
              BY Zenon
            <6>1. m \in Nat /\ n \in 0 .. m /\ k = n + 1
              BY <3>1, <5>1, <5>2, ZenonT(60)
            <6>2. (IF k <= m THEN m - k + 1 ELSE 0) = m - n
              BY <6>1
            <6> QED
              BY <6>2, Zenon
          <5> QED
            BY <5>2, <5>4, <5>5, Zenon
        <4> QED
          BY <4>2, <4>3, Zenon
      <3>3. \A i \in 1 .. Len(backlog) - n :
               SubSeq(backlog, n + 1, Len(backlog))[i] = backlog[n + i]
        BY <1>3, <2>2, <3>1
      <3>4. \A i \in 1 .. Len(backlog) - n : n + i \in DOMAIN backlog
        BY <2>2, <3>1
      <3> QED
        BY <1>7, <3>2, <3>3, <3>4, SMTT(30)
    <2>6. ASSUME NEW i \in DOMAIN backlog', NEW j \in DOMAIN backlog',
                 backlog'[i] = backlog'[j]
          PROVE  i = j
      <3>1. n + i = n + j
        BY <1>3, <2>5, <2>6
      <3> QED
        BY <2>2, <2>5, <3>1, SMTT(30)
    <2>7. ASSUME NEW i \in DOMAIN backlog' PROVE srv'.req[backlog'[i]].at = "none"
      <3>1. /\ i \in 1 .. Len(backlog) - n /\ backlog'[i] = backlog[n + i]
            /\ n + i \in DOMAIN backlog
        BY <2>5, ZenonT(60)
      <3>2. ASSUME NEW j \in 1 .. n, backlog[j] = backlog[n + i] PROVE FALSE
        <4>1. j \in DOMAIN backlog
          BY <1>3, <2>2
        <4>2. j = n + i
          BY <1>3, <3>1, <3>2, <4>1, ZenonT(60)
        <4> QED
          BY <2>2, <3>1, <4>2, SMTT(30)
      <3>3. srv'.req[backlog[n + i]] = s.req[backlog[n + i]]
        BY <1>3, <2>4, <3>1, <3>2, ZenonT(60) DEF Accepts
      <3> QED
        BY <1>5, <3>1, <3>3, Zenon
    <2>8. Waiting'
      BY <2>5, <2>6, <2>7, ZenonT(60) DEF Waiting
    <2>9. client' = client
      BY DEF EndOfPass
    <2> QED
      BY <1>3, <2>3, <2>8, <2>9, ZenonT(60) DEF Inv
  <1> QED
    BY <1>1, <1>2, <1>6, <1>7, ZenonT(60) DEF EndOfPass, Serves

LEMMA NextInv == Inv /\ [Next]_vars => Inv'
  <1> SUFFICES ASSUME Inv, [Next]_vars PROVE Inv'
    BY Zenon
  <1>1. CASE UNCHANGED vars
    BY <1>1, Zenon DEF vars, Inv, Waiting
  <1>2. ASSUME NEW c \in Clients, \/ Connect(c) \/ SendRest(c) \/ Leave(c)
                                  \/ \E what \in {"get", "put"} : Ask(c, what)
        PROVE  Inv'
    BY <1>2, ConnectInv, TalkInv, ZenonT(60)
  <1>3. ASSUME NEW f \in Fds, \/ HandleClientRead(f) \/ HandleDownloadRead(f)
                              \/ ResumeDiskRead(f) \/ HandleTimer(f)
        PROVE  Inv'
    BY <1>3, ClientReadInv, DownloadReadInv, ResumeInv, TimerInv, SMTT(30)
  <1>4. ASSUME NEW r \in Responses, HandleDataHelperRead(r) \/ BatchDone(r)
        PROVE  Inv'
    BY <1>4, DiskInv, BatchInv
  <1>5. CASE EndOfPass
    BY <1>5, EndOfPassInv
  <1> QED
    BY <1>1, <1>2, <1>3, <1>4, <1>5, ZenonT(60) DEF Next

LEMMA InvAlways == Spec => []Inv
  BY InitInv, NextInv, PTL DEF Spec
-----------------------------------------------------------------------------
(* What the tables hold.                                                   *)
LEMMA TableEntry ==
    ASSUME NEW s, NEW C \in [Clients -> Client], Good(s, C), NEW f \in Fds,
           NEW x \in {s.readTran[f], s.writeTran[f], s.respTran[f]}, x # NULL,
           NEW c, c = s.open[f]
    PROVE  \/ x \in Own(c) /\ Live(s.res[x])
           \/ x = Req(c) /\ Live(s.req[c])
  <1>1. /\ c \in Clients /\ s.req[c].at = "live" /\ s.req[c].fd = f
        /\ ConnOK(s, C[c], c) /\ C[c] \in Client /\ s \in Server /\ Room(s)
    BY WhoseFd
  <1>2. CASE s.respTran[f] = NULL
    <2>1. x = Req(c) /\ s.readTran[f] = x
      BY <1>1, <1>2 DEF ConnOK
    <2>2. ~s.req[c].lDel
      BY <1>1, <1>2, <2>1, Zenon DEF ConnOK
    <2> QED
      BY <1>1, <2>1, <2>2, ZenonT(60) DEF Live
  <1>3. CASE s.respTran[f] # NULL
    <2>1. PICK r : r = s.respTran[f]
      BY Zenon
    <2>2. InService(s, C[c], c, f, r) /\ Serving(s, c, f, r)
      BY <1>1, <1>3, <2>1, ServedOf, ZenonT(60)
    <2>3. x \in {r, Req(c)}
      BY <2>1, <2>2, Zenon DEF Serving
    <2>4. r \in Own(c) /\ Live(s.res[r]) /\ Live(s.req[c])
      BY <2>2, Zenon DEF InService
    <2> QED
      BY <2>3, <2>4, Zenon
  <1> QED
    BY <1>2, <1>3, ZenonT(60)

LEMMA InvNoDangling == Inv => NoDangling
  <1> SUFFICES ASSUME Inv PROVE NoDangling
    BY Zenon
  <1>1. Good(srv, client) /\ client \in [Clients -> Client] /\ srv \in Server
    BY DEF Inv, Good
  <1>2. ASSUME NEW f \in Fds, NEW t \in {srv.readTran[f], srv.writeTran[f], srv.respTran[f]}
        PROVE  /\ t \in Responses => Live(srv.res[t]) /\ srv.open[f] = t[1]
               /\ \A c \in Clients : t = Req(c) => Live(srv.req[c]) /\ srv.open[f] = c
    <2>1. CASE t = NULL
      BY <2>1, TransApart, Zenon
    <2>2. CASE t # NULL
      <3>1. PICK d : d = srv.open[f]
        BY ZenonT(60)
      <3>2. \/ t \in Own(d) /\ Live(srv.res[t])
            \/ t = Req(d) /\ Live(srv.req[d])
        BY <1>1, <2>2, <3>1, TableEntry
      <3>3. CASE t \in Own(d) /\ Live(srv.res[t])
        BY <3>1, <3>3, TransApart, Zenon DEF Own
      <3>4. CASE t = Req(d) /\ Live(srv.req[d])
        BY <3>1, <3>4, TransApart, Zenon
      <3> QED
        BY <3>2, <3>3, <3>4, ZenonT(60)
    <2> QED
      BY <2>1, <2>2, Zenon
  <1>3. ASSUME NEW r \in Responses
        PROVE  /\ srv.res[r].at = "live" /\ srv.res[r].presReq # None
                    => Live(srv.req[srv.res[r].presReq])
               /\ r \in srv.delResList => srv.res[r].at = "live"
    <2>1. PICK c, f : c = r[1] /\ f = srv.req[c].fd
      OBVIOUS
    <2>2. \/ NotServed(srv, r)
          \/ InService(srv, client[c], c, f, r)
      BY <1>1, <2>1, ServedOrNot
    <2>3. CASE NotServed(srv, r)
      BY <2>3, Zenon DEF NotServed
    <2>4. CASE InService(srv, client[c], c, f, r)
      BY <2>4, ZenonT(60) DEF InService
    <2> QED
      BY <2>2, <2>3, <2>4, ZenonT(60)
  <1>4. ASSUME NEW c \in srv.delReqList PROVE srv.req[c].at = "live"
    BY <1>1, <1>4, DeletedConn
  <1>5. srv.delResList \subseteq Responses
    BY <1>1, Zenon DEF Server
  <1> QED
    BY <1>2, <1>3, <1>4, <1>5, ZenonT(60) DEF NoDangling

LEMMA InvNothingForgotten == Inv => NothingForgotten
  <1> SUFFICES ASSUME Inv, NEW r \in Responses, srv.res[r].at = "live", ~srv.down
               PROVE  \/ \E f \in Fds : srv.respTran[f] = r
                      \/ srv.res[r].map \/ srv.res[r].batchAdd
                      \/ r \in srv.delResList \/ r \in srv.forgotten
    BY Zenon DEF NothingForgotten
  <1>1. Good(srv, client) /\ client \in [Clients -> Client]
    BY Zenon DEF Inv
  <1>2. PICK c, f : c = r[1] /\ f = srv.req[c].fd
    OBVIOUS
  <1>3. \/ NotServed(srv, r)
        \/ InService(srv, client[c], c, f, r)
    BY <1>1, <1>2, ServedOrNot
  <1>4. CASE NotServed(srv, r)
    BY <1>4, Zenon DEF NotServed
  <1>5. CASE InService(srv, client[c], c, f, r)
    BY <1>5, Zenon DEF InService
  <1> QED
    BY <1>3, <1>4, <1>5, ZenonT(60)

(* Every entry of readTran, writeTran and respTran, and every presReq,     *)
(* leads to a transaction of the same connection that is there and not     *)
(* deleted, and the lists hold what deletePerms has still to free: for any *)
(* number of clients, requests, blocks and descriptors, whatever closes,   *)
(* expires, fails or is answered in between.                               *)
THEOREM NothingDangles == Spec => []NoDangling
  BY InvAlways, InvNoDangling, PTL

(* A response that is not freed is with its client, with the disk, in a    *)
(* batch or on the list of deletePerms, save those that ClientClosed and   *)
(* checkClientExpiry drop: no other handler forgets one.                   *)
THEOREM NoneForgotten == Spec => []NothingForgotten
  BY InvAlways, InvNothingForgotten, PTL
=============================================================================

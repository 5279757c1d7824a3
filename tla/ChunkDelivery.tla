---------------------------- MODULE ChunkDelivery ----------------------------
(***************************************************************************)
(* How the receiving proxies (R-Waprox) turn chunk names back into data.   *)
(* The sending proxy S names the chunks of a tree, adding the content of   *)
(* those it has not sent before; a receiver collects the others from its   *)
(* disk, from the peer that HRW hashing picks, or from S, counts them in   *)
(* tmp_ht by reference, and rebuilds a tree once every occurrence of every *)
(* name has a reference.  From waprox.c, ils.c, reassemble.c, chunkcache.c,*)
(* chunkrequest.c and mrc_tree.c.                                          *)
(*                                                                         *)
(* Each proxy is one thread: a message handler is one action, and the end  *)
(* of a main loop round (load shedding, then reconstruction) is another.   *)
(* Chunk messages use all the connections to a peer in turn, so they are   *)
(* delivered in any order; the names and the acks of one user connection   *)
(* keep their order.  A tree is the list of names that the MRC resolution  *)
(* leaves to be sent; the load estimates that split the names between disk *)
(* and network are a free choice.  Acks are sent when a tree is rebuilt:   *)
(* UserFlow models the write to the user that comes between.               *)
(***************************************************************************)
EXTENDS Integers, Sequences, FiniteSets, Bags, BagsExt, SequencesExt

CONSTANTS S,             \* the sending proxy, peer 0
          Rs,            \* the receiving proxies
          Chunks,        \* SHA1 names
          Small,         \* chunks not larger than WAPROX_MIN_CHUNK_SIZE
          Warm,          \* chunks that an earlier run of the proxies sent
          Trees,         \* the lists of names S may send
          Conns,         \* user connections: numbers, in g_UserList order
          Owner,         \* the receiver of each connection
          Home,          \* Home[r][h]: PickPeerToRedirect at r, never r
          MaxTrees,      \* trees S sends in all (bound of the model)
          PutQueueSize,  \* trees that g_PutMessageList takes
          BrokenAtS,     \* connections that a user of S may break ...
          BrokenAtR,     \*   ... and those a user of the receiver may
          None

Nodes == {S} \cup Rs
MaxNames == CHOOSE n \in {Len(t) : t \in Trees} : \A t \in Trees : Len(t) <= n

ASSUME DeliveryAssumption ==
    /\ S \notin Rs /\ None \notin Nodes
    /\ Small \subseteq Chunks /\ Warm \subseteq Chunks
    /\ Trees \subseteq Seq(Chunks) \ {<<>>}
    /\ Conns \subseteq Nat /\ Owner \in [Conns -> Rs]
    /\ BrokenAtS \subseteq Conns /\ BrokenAtR \subseteq Conns
    /\ \A r \in Rs, h \in Chunks : Home[r][h] \in Nodes \ {r}

VARIABLES
    tmp,       \* tmp_ht: ref_count of each chunk at each proxy, 0 if absent
    hint,      \* S: send_hint_ht, the names whose chunk was acknowledged
    bufs,      \* S: chunkBufferList of each connection, trees not yet acked
    numSent,   \* S: trees sent
    openS,     \* connections alive at S ...
    openR,     \*   ... and at their receiver
    names,     \* name messages on their way to the receiver
    acks,      \* acks on their way to S
    reasm,     \* reassembleList of each connection
    tryRec,    \* receivers whose g_TryReconstruction is TRUE
    tracked,   \* chunk_request_ht: for each request, where to forward to
    putTmp,    \* put_tmp_ht: chunks whose PUT is not finished
    putQ,      \* g_PutMessageList: rebuilt trees, not yet stored
    diskHint,  \* disk_hint_ht: chunks that were PUT once
    disk,      \* content of the disk cache
    flight     \* messages, and cache transactions, under way

sender   == <<hint, bufs, numSent, openS>>
storage  == <<putTmp, putQ, diskHint, disk>>
receiver == <<openR, reasm, tryRec, tracked>>
vars == <<tmp, sender, names, acks, receiver, storage, flight>>

ConnsOf(r) == {c \in openR : Owner[c] = r}

(* What is under way: a message, or a GET or PUT transaction of a proxy.   *)
Msg(kind, at, h, from, org, c) ==
    [kind |-> kind, at |-> at, h |-> h, from |-> from, org |-> org, c |-> c]
Request(at, h, from, org) == Msg("request", at, h, from, org, None)
Response(at, h) == Msg("response", at, h, None, None, None)
Get(r, h, c) == Msg("get", r, h, None, None, c)
Store(r, h) == Msg("store", r, h, None, None, None)

Consume(m) == /\ BagIn(m, flight)
              /\ flight' = flight (-) SetToBag({m})
ConsumeFor(m, ms) == /\ BagIn(m, flight)
                     /\ flight' = (flight (-) SetToBag({m})) (+) SetToBag(ms)

Close == <<>>   \* on names, where every other message is a tree of names

(* Occurrences of a name in a list of names.                               *)
Occurs(h, t) == Cardinality({i \in DOMAIN t : t[i].h = h})
RefPutChunk(n, h) == tmp' = [tmp EXCEPT ![n][h] = @ + 1]

(* S may have been started before: what its disk helper had flushed to the *)
(* hint file it knows again.  The disk caches outlive the proxies.         *)
PreloadHints == SUBSET Warm

Init == /\ tmp = [n \in Nodes |-> [h \in Chunks |-> 0]]
        /\ hint \in PreloadHints /\ bufs = [c \in Conns |-> <<>>]
        /\ numSent = 0
        /\ openS = Conns /\ openR = Conns
        /\ names = [c \in Conns |-> <<>>] /\ acks = [c \in Conns |-> <<>>]
        /\ reasm = [c \in Conns |-> <<>>]
        /\ tryRec = {}
        /\ tracked = [n \in Nodes |-> [h \in Chunks |-> <<>>]]
        /\ putTmp = [r \in Rs |-> {}] /\ putQ = [r \in Rs |-> <<>>]
        /\ diskHint = [r \in Rs |-> {}] /\ disk \in [Rs -> SUBSET Warm]
        /\ flight = EmptyBag
-----------------------------------------------------------------------------
(* S names the chunks of a tree, keeps a reference for each name until the *)
(* tree is acked, and adds the content of the chunks it has no hint for    *)
(* and of the small ones.                                                  *)
KeptOnce(h, tree) == IF \E i \in DOMAIN tree : tree[i].h = h THEN 1 ELSE 0  \* mutant
PutTempCacheCandidateList(h, tree) == Occurs(h, tree)

SendNameTree(c) ==
    /\ c \in openS /\ numSent < MaxTrees
    /\ \E t \in Trees :
         LET tree == [i \in DOMAIN t |-> [h |-> t[i], isHit |-> t[i] \in hint]]
         IN  /\ bufs' = [bufs EXCEPT ![c] = Append(@, tree)]
             /\ tmp' = [tmp EXCEPT ![S] = [h \in Chunks |->
                           @[h] + PutTempCacheCandidateList(h, tree)]]
             /\ names' = [names EXCEPT ![c] = Append(@, tree)]
    /\ numSent' = numSent + 1
    /\ UNCHANGED <<hint, openS, acks, receiver, storage, flight>>

(* The references of the trees, dropped; the names whose chunk was missing *)
(* at the other side become hints if the trees were acked.                 *)
DestroyChunkBuffers(c, k, updateHint) ==
    LET gone == FlattenSeq(SubSeq(bufs[c], 1, k))
    IN  /\ bufs' = [bufs EXCEPT ![c] = SubSeq(@, k + 1, Len(@))]
        /\ tmp' = [tmp EXCEPT ![S] = [h \in Chunks |-> @[h] - Occurs(h, gone)]]
        /\ hint' = IF updateHint
                   THEN hint \cup {gone[i].h : i \in {j \in DOMAIN gone : ~gone[j].isHit}}
                   ELSE hint

AckDropsAll(c) ==                                               \* mutant
    /\ acks[c] # <<>> /\ Head(acks[c]) = "ack"
    /\ acks' = [acks EXCEPT ![c] = Tail(@)]
    /\ IF c \in openS THEN DestroyChunkBuffers(c, Len(bufs[c]), TRUE)
                      ELSE UNCHANGED <<tmp, hint, bufs>>
    /\ UNCHANGED <<numSent, openS, names, receiver, storage, flight>>
ProcessNameAck(c) ==
    /\ acks[c] # <<>> /\ Head(acks[c]) = "ack"
    /\ acks' = [acks EXCEPT ![c] = Tail(@)]
    /\ IF c \in openS THEN DestroyChunkBuffers(c, 1, TRUE)
                      ELSE UNCHANGED <<tmp, hint, bufs>>
    /\ UNCHANGED <<numSent, openS, names, receiver, storage, flight>>

(* A user of S breaks the connection, or S learns that the other side's    *)
(* did: no hint is kept, as there would be after a normal end, which has   *)
(* no action here (UserFlow has it).  SetDead tells the receiver.          *)
DestroyAtS(c) == /\ DestroyChunkBuffers(c, Len(bufs[c]), FALSE)
                 /\ openS' = openS \ {c}
                 /\ names' = [names EXCEPT ![c] = Append(@, Close)]
AbortAtS(c) == /\ c \in BrokenAtS \cap openS
               /\ DestroyAtS(c)
               /\ UNCHANGED <<numSent, acks, receiver, storage, flight>>
ProcessCloseAtS(c) ==
    /\ acks[c] # <<>> /\ Head(acks[c]) = "close"
    /\ acks' = [acks EXCEPT ![c] = Tail(@)]
    /\ IF c \in openS THEN DestroyAtS(c)
                      ELSE UNCHANGED <<tmp, hint, bufs, openS, names>>
    /\ UNCHANGED <<numSent, receiver, storage, flight>>
-----------------------------------------------------------------------------
(* A tree of names arrives: its content goes to tmp_ht.  The other names   *)
(* are taken to be hits (there is no PEEK in this build).                  *)
HasContent(n) == ~n.isHit \/ n.h \in Small

ProcessNameTreeDelivery(c) ==
    LET tree  == Head(names[c])
        r     == Owner[c]
        given == SelectSeq(tree, HasContent)
    IN  /\ names[c] # <<>> /\ tree # Close
        /\ names' = [names EXCEPT ![c] = Tail(@)]
        /\ IF c \in openR
           THEN /\ reasm' = [reasm EXCEPT ![c] = Append(@,
                     [getSent |-> FALSE,
                      names |-> [i \in DOMAIN tree |->
                           [h |-> tree[i].h, inMemory |-> HasContent(tree[i])]]])]
                /\ tmp' = [tmp EXCEPT ![r] = [h \in Chunks |-> @[h] + Occurs(h, given)]]
                /\ tryRec' = IF given = <<>> THEN tryRec ELSE tryRec \cup {r}
           ELSE UNCHANGED <<reasm, tmp, tryRec>>
        /\ UNCHANGED <<sender, acks, openR, tracked, storage, flight>>

(* DestroyReassembleList: the names go, the references stay.               *)
DestroyAtR(c) == /\ reasm' = [reasm EXCEPT ![c] = <<>>]
                 /\ openR' = openR \ {c}
                 /\ acks' = [acks EXCEPT ![c] = Append(@, "close")]
AbortAtR(c) == /\ c \in BrokenAtR \cap openR
               /\ DestroyAtR(c)
               /\ UNCHANGED <<tmp, sender, names, tryRec, tracked, storage, flight>>
ProcessCloseAtR(c) ==
    /\ names[c] # <<>> /\ Head(names[c]) = Close
    /\ names' = [names EXCEPT ![c] = Tail(@)]
    /\ IF c \in openR THEN DestroyAtR(c) ELSE UNCHANGED <<reasm, openR, acks>>
    /\ UNCHANGED <<tmp, sender, tryRec, tracked, storage, flight>>
-----------------------------------------------------------------------------
(* The end of a round.  First, every name not in memory of every tree that *)
(* is not yet scheduled is asked for: those in net from S, the others at   *)
(* their home, which is the local disk if HRW picks S.                     *)
Unscheduled(r) ==
    {<<c, i, j>> \in ConnsOf(r) \X (1..MaxTrees) \X (1..MaxNames) :
        /\ i \in DOMAIN reasm[c] /\ ~reasm[c][i].getSent
        /\ j \in DOMAIN reasm[c][i].names /\ ~reasm[c][i].names[j].inMemory}
NameAt(p) == reasm[p[1]][p[2]].names[p[3]].h

SendChunkRequest(r, p, net) ==
    LET h == NameAt(p)
    IN  IF p \in net THEN Request(S, h, r, S)
        ELSE IF Home[r][h] # S THEN Request(Home[r][h], h, r, Home[r][h])
        ELSE IF h \in putTmp[r] THEN None
        ELSE Get(r, h, p[1])

(* Then, if something arrived, each connection in turn rebuilds as many of *)
(* its first trees as have been scheduled and have all their references.   *)
Complete(trees, k, refs) ==
    /\ \A i \in 1..k : trees[i].getSent
    /\ LET all == FlattenSeq([i \in 1..k |-> trees[i].names])
       IN  \A h \in Chunks : Occurs(h, all) <= refs[h]
NumComplete(trees, refs) ==
    CHOOSE k \in 0..Len(trees) : /\ Complete(trees, k, refs)
                                 /\ \A l \in k+1..Len(trees) : ~Complete(trees, l, refs)

QueuePutMessage(r, q, tree) ==
    IF \/ Len(tree) = 1 /\ tree[1].h \in diskHint[r]
       \/ Len(q) = PutQueueSize
    THEN q ELSE Append(q, {tree[i].h : i \in DOMAIN tree})

ReconstructOriginalData(r, st, c) ==
    LET k    == NumComplete(st.reasm[c], st.refs)
        done == [i \in 1..k |-> st.reasm[c][i].names]
        used == FlattenSeq(done)
    IN  [refs  |-> [h \in Chunks |-> st.refs[h] - Occurs(h, used)],
         reasm |-> [st.reasm EXCEPT ![c] = SubSeq(@, k + 1, Len(@))],
         acks  |-> [st.acks EXCEPT ![c] = @ \o [i \in 1..k |-> "ack"]],
         putQ  |-> FoldLeft(LAMBDA q, t : QueuePutMessage(r, q, t), st.putQ, done)]

RoundDue(r) == \/ r \in tryRec
               \/ \E c \in ConnsOf(r) : \E i \in DOMAIN reasm[c] : ~reasm[c][i].getSent

EndOfRound(r) ==
    LET todo == Unscheduled(r)
    IN
    /\ RoundDue(r)
    /\ \E net \in SUBSET todo :
         LET asked   == [p \in todo |-> SendChunkRequest(r, p, net)]
             sentAs(m) == {p \in todo : asked[p] = m}
             remote(h) == {p \in todo : NameAt(p) = h /\ asked[p] # None
                                        /\ asked[p].kind = "request"}
             local(h)  == {p \in sentAs(None) : NameAt(p) = h}
             start == [refs  |-> [h \in Chunks |-> tmp[r][h] + Cardinality(local(h))],
                       reasm |-> [c \in Conns |->
                                    IF c \notin ConnsOf(r) THEN reasm[c]
                                    ELSE [i \in DOMAIN reasm[c] |->
                                            [reasm[c][i] EXCEPT !.getSent = TRUE]]],
                       acks  |-> acks,
                       putQ  |-> putQ[r]]
             end == IF r \notin tryRec /\ sentAs(None) = {} THEN start
                    ELSE FoldLeft(LAMBDA st, c : ReconstructOriginalData(r, st, c),
                                  start, SetToSortSeq(ConnsOf(r), <))
         IN  /\ flight' = flight (+) [m \in {asked[p] : p \in todo} \ {None} |->
                                         Cardinality(sentAs(m))]
             /\ tracked' = [tracked EXCEPT ![r] = [h \in Chunks |->
                               @[h] \o [i \in 1..Cardinality(remote(h)) |-> None]]]
             /\ tmp' = [tmp EXCEPT ![r] = end.refs]
             /\ reasm' = end.reasm /\ acks' = end.acks
             /\ putQ' = [putQ EXCEPT ![r] = end.putQ]
    /\ tryRec' = tryRec \ {r}
    /\ UNCHANGED <<sender, openR, names, putTmp, diskHint, disk>>
-----------------------------------------------------------------------------
Track(n, h, to) == tracked' = [tracked EXCEPT ![n][h] = Append(@, to)]

(* The answer to a GET for a tree.  A miss is asked from S, even if the    *)
(* connection is gone; the request is tracked only if it is still there.   *)
AskIfConnected(m) ==                                            \* mutant
    {q \in {Request(S, m.h, m.at, S)} : m.c \in openR}
AskSender(m) == {Request(S, m.h, m.at, S)}

PostProcessNameTreeDelivery(m) ==
    /\ m.kind = "get"
    /\ \/ /\ m.h \in disk[m.at]
          /\ Consume(m)
          /\ RefPutChunk(m.at, m.h)
          /\ tryRec' = tryRec \cup {m.at}
          /\ UNCHANGED tracked
       \/ /\ m.h \notin disk[m.at]
          /\ ConsumeFor(m, AskSender(m))
          /\ IF m.c \in openR THEN Track(m.at, m.h, None) ELSE UNCHANGED tracked
          /\ UNCHANGED <<tmp, tryRec>>
    /\ UNCHANGED <<sender, names, acks, openR, reasm, storage>>

(* A chunk request: answered from tmp_ht, else from put_tmp_ht through     *)
(* tmp_ht, else the disk is asked.                                         *)
InPutTmp(n, h) == n \in Rs /\ h \in putTmp[n]
ProcessBodyRequest(m) ==
    /\ m.kind = "request"
    /\ IF tmp[m.at][m.h] > 0 \/ InPutTmp(m.at, m.h)
       THEN ConsumeFor(m, {Response(m.from, m.h)})
       ELSE ConsumeFor(m, {[m EXCEPT !.kind = "bodyget"]})
    /\ IF tmp[m.at][m.h] = 0 /\ InPutTmp(m.at, m.h)
       THEN RefPutChunk(m.at, m.h) ELSE UNCHANGED tmp
    /\ UNCHANGED <<sender, names, acks, receiver, storage>>

(* The answer to the GET for a request.  A miss goes on to the proxy that  *)
(* the request names as the original one, unless that is this proxy.       *)
PostProcessBodyRequest(m) ==
    /\ m.kind = "bodyget"
    /\ IF m.at \in Rs /\ m.h \in disk[m.at]
       THEN ConsumeFor(m, {Response(m.from, m.h)}) /\ UNCHANGED tracked
       ELSE IF m.org = m.at THEN Consume(m) /\ UNCHANGED tracked
       ELSE /\ ConsumeFor(m, {Request(m.org, m.h, m.at, m.org)})
            /\ Track(m.at, m.h, m.from)
    /\ UNCHANGED <<tmp, sender, names, acks, openR, reasm, tryRec, storage>>

(* PutDisk, on a set of chunks: those whose PUT starts.  None does that is *)
(* under way already, and any may find the queue of PUTs full.             *)
PutDisk(r, hs) == SUBSET (hs \ putTmp[r])

(* A chunk arrives: the first request in the list is answered and the list *)
(* is destroyed.  A response that finds no list is kept all the same.      *)
RefsDropped(n, h) == 0                                          \* mutant
RefsOfAll(n, h) == IF tracked[n][h] = <<>> THEN 1 ELSE Len(tracked[n][h])  \* mutant
RefsOfResponse(n, h) == 1

ProcessBodyResponse(m) ==
    LET list == tracked[m.at][m.h]
    IN  /\ m.kind = "response"
        /\ IF list # <<>> /\ Head(list) # None
           THEN \E stored \in PutDisk(m.at, {m.h}) :
                   /\ ConsumeFor(m, {Response(Head(list), m.h)}
                                       \cup {Store(m.at, h) : h \in stored})
                   /\ putTmp' = [putTmp EXCEPT ![m.at] = @ \cup stored]
                   /\ UNCHANGED <<tmp, tryRec>>
           ELSE /\ Consume(m)
                /\ tmp' = [tmp EXCEPT ![m.at][m.h] = @ + RefsOfResponse(m.at, m.h)]
                /\ tryRec' = IF list = <<>> THEN tryRec ELSE tryRec \cup {m.at}
                /\ UNCHANGED putTmp
        /\ tracked' = [tracked EXCEPT ![m.at][m.h] = <<>>]
        /\ UNCHANGED <<sender, names, acks, openR, reasm, putQ, diskHint, disk>>
-----------------------------------------------------------------------------
(* The put queue: the chunks of a rebuilt tree that were never PUT go to   *)
(* their home, and stay in put_tmp_ht until it has them.                   *)
ActualPutMissingChunks(r) ==
    LET missing == Head(putQ[r]) \ diskHint[r]
        remote  == {h \in missing : Home[r][h] # S}
    IN  /\ putQ[r] # <<>>
        /\ putQ' = [putQ EXCEPT ![r] = Tail(@)]
        /\ diskHint' = [diskHint EXCEPT ![r] = @ \cup missing]
        /\ \E stored \in PutDisk(r, missing \ remote) :
              /\ putTmp' = [putTmp EXCEPT ![r] = @ \cup remote \cup stored]
              /\ flight' = flight (+) SetToBag(
                    {Store(r, h) : h \in stored} \cup
                    {Msg("put", Home[r][h], h, r, None, None) : h \in remote})
        /\ UNCHANGED <<tmp, sender, names, acks, receiver, disk>>

ProcessPutRequest(m) ==
    /\ m.kind = "put"
    /\ \E stored \in PutDisk(m.at, {m.h}) :
          /\ putTmp' = [putTmp EXCEPT ![m.at] = @ \cup stored]
          /\ ConsumeFor(m, {Msg("putok", m.from, m.h, None, None, None)}
                              \cup {Store(m.at, h) : h \in stored})
    /\ UNCHANGED <<tmp, sender, names, acks, receiver, putQ, diskHint, disk>>

(* PutDone, for a PUT to another proxy and for one to the disk cache,      *)
(* which by then has the chunk.                                            *)
ProcessPutResponse(m) ==
    /\ m.kind = "putok"
    /\ Consume(m)
    /\ putTmp' = [putTmp EXCEPT ![m.at] = @ \ {m.h}]
    /\ UNCHANGED <<tmp, sender, names, acks, receiver, putQ, diskHint, disk>>
PostProcessCachePUT(m) ==
    /\ m.kind = "store"
    /\ Consume(m)
    /\ putTmp' = [putTmp EXCEPT ![m.at] = @ \ {m.h}]
    /\ disk' = [disk EXCEPT ![m.at] = @ \cup {m.h}]
    /\ UNCHANGED <<tmp, sender, names, acks, receiver, putQ, diskHint>>

(* The disk cache replaces a chunk by others.                              *)
Evict(r, h) == /\ h \in disk[r]
               /\ disk' = [disk EXCEPT ![r] = @ \ {h}]
               /\ UNCHANGED <<tmp, sender, names, acks, receiver, putTmp, putQ,
                              diskHint, flight>>

ProcessChunkMessage(m) == \/ PostProcessNameTreeDelivery(m)
                          \/ ProcessBodyRequest(m)
                          \/ PostProcessBodyRequest(m)
                          \/ ProcessBodyResponse(m)
ProcessPut(m) == \/ ProcessPutRequest(m)
                 \/ ProcessPutResponse(m)
                 \/ PostProcessCachePUT(m)
Next == \/ \E c \in Conns : \/ SendNameTree(c)
                            \/ ProcessNameAck(c)
                            \/ AbortAtS(c)
                            \/ ProcessCloseAtS(c)
                            \/ ProcessNameTreeDelivery(c)
                            \/ AbortAtR(c)
                            \/ ProcessCloseAtR(c)
        \/ \E r \in Rs : \/ EndOfRound(r)
                         \/ ActualPutMissingChunks(r)
                         \/ \E h \in Chunks : Evict(r, h)
        \/ \E m \in BagToSet(flight) : ProcessChunkMessage(m) \/ ProcessPut(m)

Spec == Init /\ [][Next]_vars

(* TCP delivers what was sent, the main loop comes round, and the disk     *)
(* cache answers (CacheScheduler).  Trees and breaks are bounded, so each  *)
(* of these handlers runs finitely often, and weak fairness of it means    *)
(* that it is disabled again and again; each is enabled by its work.       *)
ChunkMessages == {m \in BagToSet(flight) :
                    m.kind \in {"get", "request", "bodyget", "response"}}
Fairness == /\ \A c \in Conns : []<>(names[c] = <<>>)
            /\ \A r \in Rs : []<>~RoundDue(r)
            /\ []<>(ChunkMessages = {})
LiveSpec == Spec /\ Fairness
-----------------------------------------------------------------------------
TypeOK ==
    /\ tmp \in [Nodes -> [Chunks -> Nat]]
    /\ hint \subseteq Chunks
    /\ numSent \in 0..MaxTrees
    /\ openS \subseteq Conns /\ openR \subseteq Conns /\ tryRec \subseteq Rs
    /\ DOMAIN bufs = Conns /\ DOMAIN names = Conns
    /\ DOMAIN acks = Conns /\ DOMAIN reasm = Conns
    /\ putTmp \in [Rs -> SUBSET Chunks] /\ diskHint \in [Rs -> SUBSET Chunks]
    /\ disk \in [Rs -> SUBSET Chunks]
    /\ tracked \in [Nodes -> [Chunks -> Seq(Nodes \cup {None})]]
    /\ \A r \in Rs : Len(putQ[r]) <= PutQueueSize
    /\ \A m \in BagToSet(flight) : flight[m] >= 1

(* Names of r's open connections that wait for a reference to h, and what  *)
(* is already there or under way to r for it.                              *)
Pending(r, h) ==
    Cardinality({<<c, i, j>> \in ConnsOf(r) \X (1..MaxTrees) \X (1..MaxNames) :
                    /\ i \in DOMAIN reasm[c]
                    /\ j \in DOMAIN reasm[c][i].names
                    /\ reasm[c][i].names[j].h = h})
Unasked(r, h) == Cardinality({p \in Unscheduled(r) : NameAt(p) = h})
Coming(r, h) ==
    LET for(m) == /\ m.h = h
                  /\ \/ m.kind \in {"get", "response"} /\ m.at = r
                     \/ m.kind \in {"request", "bodyget"} /\ m.from = r
    IN  FoldSet(LAMBDA m, n : n + flight[m], 0, {m \in BagToSet(flight) : for(m)})

(* tmp_ht counts references by name alone.  A request sent for a           *)
(* connection that S has dropped may be ignored there, and until it hears  *)
(* of that the receiver lets this connection use what was fetched for      *)
(* another.  So these are the receivers where S breaks no connection.      *)
Undisturbed == {r \in Rs : \A c \in BrokenAtS : Owner[c] # r}

(* Every name that a receiver waits for has its own reference, or its own  *)
(* answer under way: no tree waits for a chunk that nobody will send, even *)
(* when connections share a chunk, a list of requests is answered once, or *)
(* one of the connections is broken by its user.  Chunks kept by a peer    *)
(* are left out: a miss there ends the request (see the README).           *)
Supply(r, h) == tmp[r][h] + Coming(r, h) + Unasked(r, h)
EveryNameServed ==
    \A r \in Undisturbed, h \in Chunks :
        Home[r][h] = S => Pending(r, h) <= Supply(r, h)

(* While no connection has been broken, a receiver that no peer asks for   *)
(* the chunk has no more references than names that wait for one: tmp_ht   *)
(* does not "keep some chunks forever" (waprox.c 2539).                    *)
NothingKeptForEver ==
    \A r \in Rs, h \in Chunks :
        openR = Conns /\ (\A q \in Rs : Home[q][h] # r) =>
            Supply(r, h) <= Pending(r, h)

(* S has every chunk that a receiver may still ask for: its references are *)
(* one for each name of each tree that is not acked, whatever connections  *)
(* share the chunk, so RefFlushChunk never drops the last one early and    *)
(* never meets a chunk that is gone (assert at chunkcache.c 430).          *)
SenderKeeps ==
    /\ \A h \in Chunks :
         tmp[S][h] = FoldSet(LAMBDA c, n : n + Occurs(h, FlattenSeq(bufs[c])), 0, openS)
    /\ \A c \in openS \cap openR : \A i \in DOMAIN reasm[c] :
         \A j \in DOMAIN reasm[c][i].names : tmp[S][reasm[c][i].names[j].h] > 0

(* Every tree of names that arrives is rebuilt, unless the connection is   *)
(* broken, or the last chunk of the tree came as the second answer to a    *)
(* list of requests, which does not set g_TryReconstruction: then the tree *)
(* is complete and waits for the flag (waprox.c 2604).                     *)
NotWoken(c) == /\ Owner[c] \notin tryRec
               /\ NumComplete(reasm[c], tmp[Owner[c]]) > 0
EveryTreeRebuilt ==
    \A c \in Conns : Owner[c] \in Undisturbed /\ (\A h \in Chunks : Home[Owner[c]][h] = S) =>
        (reasm[c] # <<>> ~> (reasm[c] = <<>> \/ c \notin openR \/ NotWoken(c)))
=============================================================================

------------------------------ MODULE LogStore ------------------------------
(***************************************************************************)
(* The write path of HashCache on one disk: complete responses wait in a   *)
(* batch, are grouped and given places in a circular log, enter the index  *)
(* and are written together; and the test a lookup makes before it trusts  *)
(* an entry.  From proxy.c, hcfs.c, loop.c and index.c.                    *)
(***************************************************************************)
EXTENDS ClockSet, Sequences, SequencesExt, TLC

CONSTANTS Names,            \* objects; a name stands for its hash too
          Size,             \* blocks of each object
          Server,           \* the server each object comes from
          RemFileSize,      \* REM_FILE_SIZE: blocks of the log
          WriteBufferSize,  \* writeBufferSize: blocks of one disk write
          MaxBatchSize,     \* MAX_BATCH_SIZE
          Threshold,        \* THRESHOLD
          CharHalf,         \* 2^7: an entry's version and length are chars
          MaxPuts           \* responses in a behaviour (bound of the model)

(* LARGE_LIMIT keeps an object smaller than the write buffer by more than  *)
(* MAX_BATCH_SIZE; the log is longer than one write.                       *)
ASSUME LogAssumption ==
    /\ Names \subseteq Nat \ {0} /\ Size \in [Names -> Nat \ {0}]
    /\ \A n \in Names : Size[n] + MaxBatchSize - 1 <= WriteBufferSize
    /\ WriteBufferSize <= RemFileSize
    /\ {Threshold, MaxPuts} \subseteq Nat /\ CharHalf \in Nat \ {0}

VARIABLES hdr, clk, ent, locks,    \* the index set and its locks
          remVersion, remOffset,   \* presentRemVersion, presentRemOffsets[0]
          logFileLength,
          puts,                    \* responses so far
          pending,                 \* complete responses in the batch of an IP
          waitList,                \* globalWriteWaitList
          batch,                   \* blockLists[0] and what goes with it
          write,                   \* the request with the data helper
          disk                     \* the blocks of the log

index == <<hdr, clk, ent, locks>>
vars == <<index, remVersion, remOffset, logFileLength, puts, pending, waitList,
          batch, write, disk>>

NoStart == -1
NoBlock == [name |-> 0, no |-> 0, pres |-> NoStart, ver |-> -1]
NoBatch == [blocks |-> <<>>, resps |-> <<>>, start |-> NoStart, ver |-> 0,
            versionChange |-> FALSE, ready |-> FALSE]
NoWrite == [state |-> "none", start |-> NoStart, blocks |-> <<>>, resps |-> <<>>]

Init == /\ hdr = [w \in Way |-> NeverUsed] /\ clk = InitClocks /\ locks = NoLocks
        /\ ent = [w \in Way |-> [off |-> -1, ver |-> -1, len |-> -1]]
        /\ remVersion = 0 /\ remOffset = 0 /\ logFileLength = 0
        /\ puts = 0 /\ pending = <<>> /\ waitList = <<>>
        /\ batch = NoBatch /\ write = NoWrite
        /\ disk = [o \in 0 .. RemFileSize - 1 |-> NoBlock]

-----------------------------------------------------------------------------
(* What an int becomes when it is stored in a char.                        *)
ToChar(i) == ((i + CharHalf) % (2 * CharHalf)) - CharHalf

Total(r) == FoldSeq(LAMBDA n, t : Size[n] + t, 0, r)

(* processBatch: one group for each server, smaller objects first.         *)
Servers == {Server[n] : n \in Names}
ServerOrder == SetToSortSeq(Servers, <)
RelatedObjects(s) ==
    SortSeq(SelectSeq(pending, LAMBDA n : Server[n] = s),
            LAMBDA m, n : Size[m] < Size[n])
Groups == SelectSeq([i \in DOMAIN ServerOrder |-> RelatedObjects(ServerOrder[i])],
                    LAMBDA r : r # <<>>)

(* A group larger than the write buffer is cut into batches of at least    *)
(* MAX_BATCH_SIZE blocks, which go to the end of the list.                 *)
Cut(r) == IF Total(r) < MaxBatchSize THEN Len(r)
          ELSE CHOOSE k \in 1 .. Len(r) :
                 /\ Total(SubSeq(r, 1, k)) >= MaxBatchSize
                 /\ Total(SubSeq(r, 1, k - 1)) < MaxBatchSize

RECURSIVE Split(_)
Split(r) ==
    LET rest == SubSeq(r, Cut(r) + 1, Len(r))
        more == IF Total(rest) > MaxBatchSize THEN Split(rest)
                ELSE [stays |-> rest, new |-> <<>>]
    IN  [stays |-> more.stays, new |-> <<SubSeq(r, 1, Cut(r))>> \o more.new]

(* getFromOneDisk: the log goes back to its start when the group does not  *)
(* fit before its end.                                                     *)
Wraps(off, n) == off + n > RemFileSize

(* The blocks of a group, placed one after the other.                      *)
BlocksOf(n) == [k \in 1 .. Size[n] |-> [name |-> n, no |-> k]]
Place(r, start, ver) ==
    LET all == FlattenSeq([i \in DOMAIN r |-> BlocksOf(r[i])])
    IN  [i \in DOMAIN all |-> [name |-> all[i].name, no |-> all[i].no,
                               pres |-> start + i - 1, ver |-> ver]]

(* A response takes a way of the set and fills its entry; with no way free *)
(* it keeps match 0 and is written all the same.                           *)
StoreOne(s, r, i, start, ver) ==
    LET w == getFreeLocation(s.clk, Held(s.locks))
        used == Total(SubSeq(r, 1, i - 1))
        entry == [off |-> start + used, ver |-> ToChar(ver),
                  len |-> ToChar(Total(r) - used)]
        resp == [name |-> r[i], match |-> IF w = NoWay THEN 0 ELSE w]
        listed == [s EXCEPT !.batch.resps = <<resp>> \o @]
    IN  IF w = NoWay THEN listed
        ELSE [listed EXCEPT !.hdr[w] = r[i], !.ent[w] = entry,
                            !.clk = updateClocks(@, w),
                            !.locks = addWriteLock(@, w)]
StoreAll(s, r, start, ver) ==
    FoldLeft(LAMBDA t, i : StoreOne(t, r, i, start, ver), s,
             [i \in 1 .. Len(r) |-> i])

(* One turn of formDiskBatches: the group gets its place in the log.  A    *)
(* batch that wraps is marked.                                             *)
Marks(b, ver) == b.start # NoStart /\ b.ver # ver

FormGroup(s, r) ==
    LET wraps == Wraps(s.remOffset, Total(r))
        ver == IF wraps THEN s.remVersion + 1 ELSE s.remVersion
        start == IF wraps THEN 0 ELSE s.remOffset
        b == s.batch
        opened == [b EXCEPT !.start = IF @ = NoStart THEN start ELSE @,
                            !.ver = IF b.start = NoStart THEN ver ELSE @,
                            !.versionChange = @ \/ Marks(b, ver),
                            !.blocks = @ \o Place(r, start, ver)]
    IN  StoreAll([s EXCEPT !.batch = opened, !.remVersion = ver,
                           !.remOffset = start + Total(r)], r, start, ver)

(* The loop of formDiskBatches, which stops at a group that does not fit.  *)
RECURSIVE FormDiskBatches(_)
FormDiskBatches(s) ==
    IF s.waitList = <<>> THEN s
    ELSE LET big == Total(Head(s.waitList)) > WriteBufferSize
             cut == Split(Head(s.waitList))
             r == IF big THEN cut.stays ELSE Head(s.waitList)
             more == IF big THEN cut.new ELSE <<>>
             rest == Tail(s.waitList) \o more
         IN  IF Len(s.batch.blocks) + Total(r) > WriteBufferSize
             THEN [s EXCEPT !.batch.ready = TRUE, !.waitList = <<r>> \o rest]
             ELSE FormDiskBatches([FormGroup(s, r) EXCEPT !.waitList = rest])
-----------------------------------------------------------------------------
(* A response is complete and waits in the batch of its client.            *)
Put(n) == /\ puts < MaxPuts
          /\ puts' = puts + 1
          /\ pending' = Append(pending, n)
          /\ UNCHANGED <<index, remVersion, remOffset, logFileLength, waitList,
                         batch, write, disk>>

(* checkBatchWritesNow.  When the second is up the batches that are due    *)
(* are grouped; then groups are placed; then, if the buffer is full or the *)
(* deadline has passed and no write is outstanding, the batch is written,  *)
(* or dropped if the log wrapped inside it.                                *)
Flushes(b, expired) == (b.ready \/ expired) /\ write.state = "none"

CheckBatchWritesNow(due, expired) ==
    \E f \in {FormDiskBatches([hdr |-> hdr, clk |-> clk, ent |-> ent,
                               locks |-> locks, remVersion |-> remVersion,
                               remOffset |-> remOffset, batch |-> batch,
                               waitList |-> waitList \o IF due THEN Groups ELSE <<>>])} :
        /\ hdr' = f.hdr /\ clk' = f.clk /\ ent' = f.ent /\ locks' = f.locks
        /\ remVersion' = f.remVersion /\ remOffset' = f.remOffset
        /\ waitList' = f.waitList
        /\ pending' = IF due THEN <<>> ELSE pending
        /\ batch' = IF Flushes(f.batch, expired) THEN NoBatch ELSE f.batch
        /\ write' = IF /\ Flushes(f.batch, expired)
                      /\ ~f.batch.versionChange /\ f.batch.blocks # <<>>
                    THEN [state |-> "sent", start |-> f.batch.start,
                          blocks |-> f.batch.blocks, resps |-> f.batch.resps]
                    ELSE write
        /\ UNCHANGED <<logFileLength, puts, disk>>

(* The data helper writes the blocks, and the server reads its reply.      *)
DataHelperWrite ==
    /\ write.state = "sent"
    /\ disk' = [o \in DOMAIN disk |->
                  IF o - write.start + 1 \in DOMAIN write.blocks
                  THEN write.blocks[o - write.start + 1] ELSE disk[o]]
    /\ write' = [write EXCEPT !.state = "done"]
    /\ UNCHANGED <<index, remVersion, remOffset, logFileLength, puts, pending,
                   waitList, batch>>

KeepsLength(len) == UNCHANGED logFileLength                          \* mutant
setLogFileLength(len) ==
    logFileLength' = IF logFileLength < RemFileSize /\ len > logFileLength
                     THEN len ELSE logFileLength

(* batchWriteLock is given back.                                           *)
KeepsBatchLock(w) == w                                               \* mutant
ReleaseBatch(w) == NoWrite

HandleDataHelperRead ==
    /\ write.state = "done"
    /\ setLogFileLength(write.start + Len(write.blocks))
    /\ locks' = FoldSeq(LAMBDA r, lk : removeWriteLock(lk, r.match),
                        locks, write.resps)
    /\ write' = ReleaseBatch(write)
    /\ UNCHANGED <<hdr, clk, ent, remVersion, remOffset, puts, pending, waitList,
                   batch, disk>>

(* checkVersion: the entry is of this round of the log, or of the last one *)
(* and well ahead of where the log is now.                                 *)
TrustsLastRound(ver, off) == ver \in {remVersion, remVersion - 1}    \* mutant
checkVersion(ver, off) ==
    \/ ver = remVersion
    \/ ver = remVersion - 1 /\ off > remOffset + Threshold

checkLogFileLength(off) == logFileLength > off

(* joinFlow accepts the entry of a way.                                    *)
Accepts(w) ==
    /\ checkVersion(ent[w].ver, ent[w].off)
    /\ ent[w].len > 0
    /\ checkLogFileLength(ent[w].off) \/ remVersion # 0

(* A response is in the dirty cache until its group is placed.             *)
Dirty(n) == \E r \in {pending} \cup ToSet(waitList) : n \in ToSet(r)

(* joinFlow of an object that is not in the dirty cache; nothing changes   *)
(* unless the entry is accepted.                                           *)
JoinFlow(n) ==
    LET w == getBestMatchByIndex(hdr, clk, n)
    IN  /\ ~Dirty(n) /\ w # NoWay /\ Accepts(w)
        /\ clk' = updateClocks(clk, w)
        /\ UNCHANGED <<hdr, ent, locks, remVersion, remOffset, logFileLength,
                       puts, pending, waitList, batch, write, disk>>

(* A reader finds that the object of a way is no use, and discards it.     *)
DiscardHeaders(w) ==
    /\ clk[w] # 0
    /\ hdr' = [hdr EXCEPT ![w] = Discarded]
    /\ clk' = discardClocks(clk, w)
    /\ UNCHANGED <<ent, locks, remVersion, remOffset, logFileLength, puts,
                   pending, waitList, batch, write, disk>>

Next == \/ \E n \in Names : Put(n) \/ JoinFlow(n)
        \/ \E due, expired \in BOOLEAN : CheckBatchWritesNow(due, expired)
        \/ DataHelperWrite \/ HandleDataHelperRead
        \/ \E w \in Way : DiscardHeaders(w)

Spec == Init /\ [][Next]_vars

(* The main loop calls checkBatchWritesNow on each turn, the deadline of a *)
(* batch passes, and the data helper answers.  The first conjunct is       *)
(* implied by weak fairness of the action, which is enabled by HasWork.    *)
HasWork == write.state = "none" /\ (waitList # <<>> \/ batch # NoBatch)
Fairness == /\ []<>~HasWork \/ []<><<CheckBatchWritesNow(FALSE, TRUE)>>_vars
            /\ WF_vars(DataHelperWrite) /\ WF_vars(HandleDataHelperRead)

FairSpec == Spec /\ Fairness
-----------------------------------------------------------------------------
(* The types of the variables.                                             *)
Block == [name : Names \cup {0}, no : Nat, pres : Int, ver : Int]
Resp == [name : Names, match : Way]
TypeOK == /\ hdr \in [Way -> Names \cup {NeverUsed, Discarded}]
          /\ clk \in [Way -> Way]
          /\ ent \in [Way -> [off : -1 .. RemFileSize - 1,
                              ver : -CharHalf .. CharHalf - 1,
                              len : -CharHalf .. CharHalf - 1]]
          /\ locks \in [Way -> [reads : Nat, write : {0, 1}]]
          /\ remVersion \in Nat /\ remOffset \in 0 .. RemFileSize
          /\ logFileLength \in 0 .. RemFileSize
          /\ \A n \in ToSet(pending) : n \in Names
          /\ \A r \in ToSet(waitList) : ToSet(r) \subseteq Names
          /\ \A b \in ToSet(batch.blocks) \cup ToSet(write.blocks) : b \in Block
          /\ \A p \in ToSet(batch.resps) \cup ToSet(write.resps) : p \in Resp
          /\ disk \in [0 .. RemFileSize - 1 -> Block]

(* The blocks that a lookup of way w expects in the log.                   *)
Expected(w) == {[name |-> hdr[w], no |-> k, pres |-> ent[w].off + k - 1,
                 ver |-> ent[w].ver] : k \in 1 .. Size[hdr[w]]}
OnTheWay == ToSet(batch.blocks)
            \cup (IF write.state = "sent" THEN ToSet(write.blocks) ELSE {})

(* The log has not overtaken an entry that joinFlow accepts: every block   *)
(* of the object is in its place, or on its way there, or (when its batch  *)
(* was dropped) a block of an earlier round is still there.                *)
NotOvertaken ==
    \A w \in Way : hdr[w] \in Names /\ Accepts(w) =>
        \A b \in Expected(w) : \/ b \in OnTheWay
                               \/ disk[b.pres] = b
                               \/ disk[b.pres].ver < b.ver

(* When the reply to a write comes, the entries of its responses that are  *)
(* still theirs are accepted, unless a char cannot hold the length or the  *)
(* version, or the log has come round again.                               *)
WrittenIsFound ==
    [][write.state = "done" /\ write' = NoWrite =>
         \A i \in DOMAIN write.blocks : \A w \in Way :
            LET b == write.blocks[i]
            IN  /\ hdr[w] = b.name /\ b.no = 1 /\ ent[w].off = b.pres
                /\ ent[w].ver = b.ver /\ b.ver = remVersion /\ ent[w].len > 0
                => Accepts(w)']_vars

(* A group that waits is placed, and a batch is written or dropped.        *)
WaitingIsWritten == (waitList # <<>> \/ batch.blocks # <<>>)
                    ~> (waitList = <<>> /\ batch.blocks = <<>> /\ write = NoWrite)
=============================================================================

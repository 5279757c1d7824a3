----------------------------- MODULE DirtyCache -----------------------------
(***************************************************************************)
(* Objects between their download and the disk.  A complete response is in *)
(* the dirty cache, where readers share it with the response and count as  *)
(* locks on it; when its group gets a place in the log, an object that has *)
(* had readers moves into blocks of the hot object cache, under write      *)
(* locks, and the last to leave gives them back.  Blocks read from disk    *)
(* share that cache.  From dirty.c, hoc.c, proxy.c and loop.c.  All        *)
(* objects have the same length here; a reader is one of the dirty cache.  *)
(***************************************************************************)
EXTENDS Integers, Sequences, SequencesExt, FiniteSets, Functions

CONSTANTS Names, Copies,     \* URLs; responses, numbered as they complete
          Name,              \* the URL of each response
          Readers,           \* requests that find their object dirty, in order
          Size,              \* blocks of an object
          RemFileSize,       \* REM_FILE_SIZE: blocks of the log
          CharHalf,          \* the locks are chars: -CharHalf .. CharHalf - 1
          Cells,             \* blocks of the hot object cache at expandLimit
          Spare              \* blocks expandHOC adds past it, once (a bound)

ASSUME DirtyAssumption == /\ IsFiniteSet(Copies) /\ IsFiniteSet(Readers)
                          /\ Size \in Nat \ {0} /\ RemFileSize \in Nat
                          /\ Size <= RemFileSize /\ 0 \notin Cells \cup Spare
                          /\ Cells \cap Spare = {}
                          /\ Name \in [Copies -> Names]
                          /\ Copies = 1 .. Cardinality(Copies)
                          /\ Readers = 1 .. Cardinality(Readers)

(* The locks of a dirty object come back to 0 at 2 * CharHalf of them; the *)
(* module is about fewer readers than that.                                *)
ASSUME CharAssumption == /\ CharHalf \in Nat \ {0, 1}
                         /\ Cardinality(Readers) + 1 < 2 * CharHalf

VARIABLES resp,      \* the responses
          dob,       \* dirtyCache: the original dirty object of each URL
          reader,    \* the readers, with their copies of the dirty object
          forgotten, \* readers that nothing leads to any more
          offset,    \* presentRemOffsets[0]
          cell,      \* the blocks of the hot object cache
          table,     \* whichBlocks
          free,      \* freeList
          disk,      \* the log
          shared,    \* history: an object was given blocks that were locked
          walked     \* history: the last to leave a moved object was a reader

hoc == <<cell, table, free>>
vars == <<resp, dob, reader, forgotten, offset, hoc, disk, shared, walked>>

Offset == 0 .. RemFileSize - 1
AllCells == Cells \cup Spare
NoName == "none"
Dirty(k, locks) == [copy |-> k, locks |-> locks, lDel |-> FALSE, used |-> FALSE,
                    hoc |-> FALSE, cells |-> <<>>]
NoDob == Dirty(0, 0)
Unplaced(at, has) == [at |-> at, dob |-> has, start |-> 0, wrapped |-> FALSE]
NoBlock == [copy |-> 0, no |-> 0, pres |-> 0]
NotReading(next) == [name |-> NoName, copy |-> 0, next |-> next]
BlockOf(k, no, start) == [copy |-> k, no |-> no, pres |-> start + no - 1]

(* A char goes up and down, and round.                                     *)
Up(l) == IF l = CharHalf - 1 THEN -CharHalf ELSE l + 1
Down(l) == IF l = -CharHalf THEN CharHalf - 1 ELSE l - 1

Init == /\ resp = [k \in Copies |-> Unplaced("none", FALSE)]
        /\ dob = [n \in Names |-> NoDob]
        /\ reader = [i \in Readers |-> NotReading(0)] /\ forgotten = {}
        /\ offset = 0
        /\ cell = [c \in AllCells |-> [block |-> NoBlock, writeLocks |-> 0]]
        /\ table = [o \in Offset |-> 0] /\ free = SetToSeq(Cells)
        /\ disk = [o \in Offset |-> NoBlock]
        /\ shared = FALSE /\ walked = FALSE
-----------------------------------------------------------------------------
(* The hot object cache, as a record.                                      *)
Hoc == [cell |-> cell, table |-> table, free |-> free, got |-> <<>>]
SetHoc(h) == cell' = h.cell /\ table' = h.table /\ free' = h.free

(* getOldHOB: a block to use is at the head of the free list: it was there *)
(* already, or it is evicted, or the cache grows.  deleteLRU passes over   *)
(* locked blocks and gives up at the third (the order of eviction is that  *)
(* of DiskReads).                                                          *)
LockedCells(h) == {c \in Range(h.table) \ {0} : h.cell[c].writeLocks > 0}
EvictsLocked(h) == Range(h.table) \ {0}                              \* mutant
Evictable(h) == (Range(h.table) \ {0}) \ LockedCells(h)
deleteLRU(h) == {[h EXCEPT !.table = [o \in Offset |-> IF @[o] = c THEN 0 ELSE @[o]],
                           !.free = <<c>>] : c \in Evictable(h)}
Grown(h) == Spare \cap (Range(h.table) \cup ToSet(h.free)) # {}
expandHOC(h) == IF Grown(h) THEN {} ELSE {[h EXCEPT !.free = SetToSeq(Spare)]}
getOldHOB(h) ==
    IF h.free # <<>> THEN {h}
    ELSE deleteLRU(h) \cup (IF Evictable(h) = {} \/ Cardinality(LockedCells(h)) >= 3
                            THEN expandHOC(h) ELSE {})
Use(h, o) == [h EXCEPT !.table[o] = Head(h.free), !.free = Tail(@)]

(* One turn of getKBlocks: the block cached for a place, or an old one;    *)
(* all the ways it can go.                                                 *)
Lock(h, c) == [h EXCEPT !.cell[c].writeLocks = Up(@), !.got = Append(@, c)]
LockPlace(h, o) == IF h.table[o] # 0 THEN {Lock(h, h.table[o])}
                   ELSE {Lock(Use(g, o), Head(g.free)) : g \in getOldHOB(h)}
getKBlocks(h, start) ==
    FoldLeft(LAMBDA hs, i : UNION {LockPlace(g, start + i - 1) : g \in hs},
             {h}, [i \in 1 .. Size |-> i])

(* The blocks of response k are copied into them.                          *)
Fill(h, k, start) ==
    [h EXCEPT !.cell = [c \in AllCells |->
        IF \E i \in 1 .. Size : h.got[i] = c
        THEN [@[c] EXCEPT !.block = BlockOf(k, CHOOSE i \in 1 .. Size :
                                                  h.got[i] = c, start)]
        ELSE @[c]]]

(* doneWriting: the block is unlocked, whoever holds locks, and freed.     *)
doneWriting(h, o) ==
    IF h.table[o] = 0 THEN h
    ELSE [h EXCEPT !.cell[h.table[o]].writeLocks = 0, !.table[o] = 0,
                   !.free = Append(@, h.table[o])]

(* The walk of deleteDirtyObject: each block says itself where it is.      *)
FirstOnly(h, cells) == doneWriting(h, h.cell[cells[1]].block.pres)   \* mutant
DoneAll(h, cells) ==
    FoldLeft(LAMBDA g, c : doneWriting(g, g.cell[c].block.pres), h, cells)
-----------------------------------------------------------------------------
(* The response is complete; createDirtyObject, unless the URL is there.   *)
Complete(k) ==
    /\ resp[k].at = "none" /\ \A j \in Copies : j < k => resp[j].at # "none"
    /\ resp' = [resp EXCEPT ![k] = Unplaced("pending", dob[Name[k]] = NoDob)]
    /\ dob' = [dob EXCEPT ![Name[k]] = IF @ = NoDob THEN Dirty(k, 1) ELSE @]
    /\ UNCHANGED <<reader, forgotten, offset, hoc, disk, shared, walked>>

(* What getNextBlock gives a reader: a block of the response, until the    *)
(* object has moved.                                                       *)
getNextBlock(d, no) == IF d.hoc THEN cell[d.cells[no]].block
                       ELSE [copy |-> d.copy, no |-> no, pres |-> 0]
SameURL(b, n) == b.copy # 0 /\ Name[b.copy] = n

(* joinFlow finds the URL in the dirty cache, and sends the first block.   *)
AddsNoLock(d) == [d EXCEPT !.used = TRUE]                            \* mutant
getDirtyObject(d) == [d EXCEPT !.locks = Up(@), !.used = TRUE]

JoinFlow(i, n) ==
    /\ reader[i].next = 0 /\ \A j \in Readers : j < i => reader[j].next # 0
    /\ dob[n] # NoDob
    /\ dob' = [dob EXCEPT ![n] = getDirtyObject(@)]
    /\ reader' = [reader EXCEPT ![i] = [name |-> n, copy |-> dob[n].copy,
                     next |-> IF SameURL(getNextBlock(dob[n], 1), n) THEN 2
                              ELSE Size + 1]]
    /\ UNCHANGED <<resp, forgotten, offset, hoc, disk, shared, walked>>

(* A later block; the reader gives up when it has another URL, or when its *)
(* client is gone.                                                         *)
Active(i) == reader[i].next \in 2 .. Size /\ i \notin forgotten
NextBlock(i) ==
    /\ Active(i)
    /\ \E r \in {reader[i]} :
         reader' = [reader EXCEPT ![i].next =
                      IF SameURL(getNextBlock(dob[r.name], r.next), r.name)
                      THEN @ + 1 ELSE Size + 1]
    /\ UNCHANGED <<resp, dob, forgotten, offset, hoc, disk, shared, walked>>
ClientGone(i) ==
    /\ Active(i)
    /\ reader' = [reader EXCEPT ![i].next = Size + 1]
    /\ UNCHANGED <<resp, dob, forgotten, offset, hoc, disk, shared, walked>>

(* deleteDirtyObject of a reader.  The last one destroys the list of the   *)
(* blocks and then walks it: it finds them or it does not.                 *)
Ended(i) == reader[i].next = Size + 1 /\ i \notin forgotten
EndReader(i) ==
    LET n == reader[i].name
        d == [dob[n] EXCEPT !.locks = Down(@)]
        last == d.locks = 0 /\ d.lDel
    IN  /\ Ended(i)
        /\ reader' = [reader EXCEPT ![i] = NotReading(Size + 2)]
        /\ dob' = [dob EXCEPT ![n] = IF last THEN NoDob ELSE d]
        /\ walked' = (walked \/ (last /\ d.hoc))
        /\ IF last /\ d.hoc THEN SetHoc(DoneAll(Hoc, d.cells)) \/ UNCHANGED hoc
           ELSE UNCHANGED hoc
        /\ UNCHANGED <<resp, forgotten, offset, disk, shared>>

(* The client of a reader closes its connection while the reader waits for *)
(* it to take a block: the request is deleted, and nothing leads to the    *)
(* reader any more.                                                        *)
ClientCloses(i) ==
    /\ Active(i) \/ Ended(i)
    /\ forgotten' = forgotten \cup {i}
    /\ UNCHANGED <<resp, dob, reader, offset, hoc, disk, shared, walked>>

(* formDiskBatches: the response gets its place.  An object with readers   *)
(* moves into the hot object cache; one without leaves the dirty cache.    *)
Moves(k) == resp[k].dob /\ dob[Name[k]].used

Wraps == offset + Size > RemFileSize
Start == IF Wraps THEN 0 ELSE offset

Place(k) ==
    LET n == Name[k]
        others == {j \in Copies : resp[j].at = "placed"}
    IN  /\ resp[k].at = "pending"
        /\ offset' = Start + Size
        /\ resp' = [j \in Copies |->
                      IF j = k THEN [at |-> "placed", dob |-> Moves(k), start |-> Start,
                                     wrapped |-> Wraps /\ others # {}]
                      ELSE IF j \in others THEN [resp[j] EXCEPT !.wrapped = @ \/ Wraps]
                      ELSE resp[j]]
        /\ IF Moves(k)
           THEN \E h \in getKBlocks(Hoc, Start) :
                  /\ SetHoc(Fill(h, k, Start))
                  /\ dob' = [dob EXCEPT ![n].hoc = TRUE, ![n].cells = h.got]
                  /\ shared' = (shared \/ \E c \in ToSet(h.got) : cell[c].writeLocks # 0)
           ELSE /\ dob' = IF resp[k].dob THEN [dob EXCEPT ![n] = NoDob] ELSE dob
                /\ UNCHANGED <<hoc, shared>>
        /\ UNCHANGED <<reader, forgotten, disk, walked>>

(* The batch of the response is written, or it is dropped when the log     *)
(* wrapped inside it (how responses share batches is left to LogStore).    *)
(* A response without a dirty object has nothing left to delete here.      *)
Finish(k, dropped) ==
    /\ resp[k].at = "placed" /\ (dropped => resp[k].wrapped)
    /\ resp' = [resp EXCEPT ![k] = IF @.dob THEN Unplaced("done", TRUE)
                                   ELSE Unplaced("gone", FALSE)]
    /\ disk' = IF dropped THEN disk
               ELSE [o \in Offset |->
                       IF o - resp[k].start + 1 \in 1 .. Size
                       THEN BlockOf(k, o - resp[k].start + 1, resp[k].start)
                       ELSE disk[o]]
    /\ UNCHANGED <<dob, reader, forgotten, offset, hoc, shared, walked>>

(* delResponseTranPerm, and deleteDirtyObject of the original.             *)
NeverLeft(d) == d                                                    \* mutant
LeaveToReaders(d) == [d EXCEPT !.lDel = TRUE]

DelResponseTranPerm(k) ==
    LET n == Name[k]
        d == [dob[n] EXCEPT !.locks = Down(@)]
    IN  /\ resp[k].at = "done"
        /\ resp' = [resp EXCEPT ![k] = Unplaced("gone", FALSE)]
        /\ IF d.locks # 0
           THEN dob' = [dob EXCEPT ![n] = LeaveToReaders(d)] /\ UNCHANGED hoc
           ELSE /\ dob' = [dob EXCEPT ![n] = NoDob]
                /\ IF d.hoc THEN SetHoc(DoneAll(Hoc, d.cells)) ELSE UNCHANGED hoc
        /\ UNCHANGED <<reader, forgotten, offset, disk, shared, walked>>

(* A read of an object comes back: insertBlock for each block that is not  *)
(* in the cache; it keeps the ones it has.                                 *)
insertBlock(h, b) == IF h.table[b.pres] # 0 THEN {h}
                     ELSE {[Use(g, b.pres) EXCEPT !.cell[Head(g.free)].block = b] :
                             g \in getOldHOB(h)}
HandleDataHelperRead(o) ==
    /\ o + Size <= RemFileSize /\ disk[o].no = 1
    /\ \E h \in FoldLeft(LAMBDA hs, i : UNION {insertBlock(g, disk[o + i - 1]) : g \in hs},
                         {Hoc}, [i \in 1 .. Size |-> i]) : SetHoc(h)
    /\ UNCHANGED <<resp, dob, reader, forgotten, offset, disk, shared, walked>>

Next == \/ \E k \in Copies : \/ Complete(k)
                             \/ Place(k) \/ DelResponseTranPerm(k)
                             \/ \E dropped \in BOOLEAN : Finish(k, dropped)
        \/ \E i \in Readers : \/ \E n \in Names : JoinFlow(i, n)
                              \/ NextBlock(i) \/ ClientGone(i)
                              \/ ClientCloses(i) \/ EndReader(i)
        \/ \E o \in Offset : HandleDataHelperRead(o)

Spec == Init /\ [][Next]_vars

(* A response that waits for a place, for its write or for its deletion    *)
(* gets it, and a reader reads on or is timed out: each of their steps     *)
(* stays possible until it is taken, so weak fairness says that none of    *)
(* them has a step to take for ever.                                       *)
HasStep(k) == \/ resp[k].at \in {"placed", "done"}
              \/ resp[k].at = "pending" /\ (Moves(k) => getKBlocks(Hoc, Start) # {})
Fairness == /\ \A k \in Copies : []<>~HasStep(k)
            /\ \A i \in Readers : []<>~(Active(i) \/ Ended(i))
FairSpec == Spec /\ Fairness
-----------------------------------------------------------------------------
(* The types of the variables.                                             *)
Char == -CharHalf .. CharHalf - 1
Block == [copy : Copies \cup {0}, no : 0 .. Size, pres : Offset]
TypeOK ==
    /\ resp \in [Copies -> [at : {"none", "pending", "placed", "done", "gone"},
                            dob : BOOLEAN,
                            start : Offset, wrapped : BOOLEAN]]
    /\ \A n \in Names : dob[n].locks \in Char /\ ToSet(dob[n].cells) \subseteq AllCells
    /\ reader \in [Readers -> [name : Names \cup {NoName}, copy : Copies \cup {0},
                               next : 0 .. Size + 2]]
    /\ forgotten \subseteq Readers /\ offset \in 0 .. RemFileSize
    /\ cell \in [AllCells -> [block : Block, writeLocks : Char]]
    /\ table \in [Offset -> AllCells \cup {0}] /\ ToSet(free) \subseteq AllCells
    /\ disk \in [Offset -> Block]

(* The locks of a dirty object are its readers, and its response until     *)
(* that is deleted, also where the char is negative; an object that nobody holds is not in the table.       *)
Holders(n) == {i \in Readers : /\ reader[i].name = n /\ reader[i].copy = dob[n].copy
                               /\ reader[i].next \in 2 .. Size + 1}
Originals(n) == {k \in Copies : resp[k].dob /\ Name[k] = n}
ToChar(n) == IF n < CharHalf THEN n ELSE n - 2 * CharHalf
LocksCounted ==
    \A n \in Names :
        /\ dob[n].locks = ToChar(Cardinality(Holders(n)) + Cardinality(Originals(n)))
        /\ dob[n] # NoDob => dob[n].locks # 0
        /\ dob[n].lDel <=> dob[n] # NoDob /\ Originals(n) = {}

(* A reader of a dirty object is sent blocks of the response it joined,    *)
(* in their order, while objects move and the cache evicts and takes in    *)
(* blocks; unless the log has come round to blocks that are still locked.  *)
SentOwnBlocks ==
    [][\A i \in Readers : reader'[i].next = reader[i].next + 1 /\ Active(i) /\ ~shared =>
         LET b == getNextBlock(dob[reader[i].name], reader[i].next)
         IN  b.copy = reader[i].copy /\ b.no = reader[i].next]_vars

(* A block stays locked only while a dirty object has it; unless the last  *)
(* to leave was a reader, which may not find the blocks it should unlock.  *)
LocksGivenBack ==
    \A c \in AllCells : cell[c].writeLocks # 0 =>
        walked \/ \E n \in Names : c \in ToSet(dob[n].cells)

(* Every dirty object leaves the dirty cache, unless one of its readers    *)
(* was forgotten with its lock.                                            *)
DirtyGoes ==
    \A n \in Names : dob[n] # NoDob ~>
        dob[n] = NoDob \/ Holders(n) \cap forgotten # {}
=============================================================================

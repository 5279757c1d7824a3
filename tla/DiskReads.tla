----------------------------- MODULE DiskReads ------------------------------
(***************************************************************************)
(* How HashCache reads objects from the log of one disk: readers that walk *)
(* from block to block, the hot object cache, the elevator that sorts and  *)
(* merges disk requests, and the data helper.  From loop.c, elevator.c,    *)
(* hoc.c and helper.c.  The objects are on the disk and stay there; the    *)
(* blocks after them are of an older round of the log.                     *)
(***************************************************************************)
EXTENDS Integers, Sequences, SequencesExt, FiniteSetsExt, TLC

CONSTANTS Readers,         \* responses that are served from the disk
          LogLength,       \* blocks of the log that hold objects
          Owner,           \* the object that each block belongs to
          Left,            \* a block's tail: blocks to the end of its group
          WriteOffset,     \* where the next batch goes, past the objects
          ReadBufferSize,  \* READ_BUFFER_SIZE
          BufferSize,      \* bufferSize of the elevator, in blocks
          NumberCutoff,    \* NUMBER_CUTOFF
          HocSize,         \* blocks of the hot object cache
          CharHalf         \* 2^7: the length in the index is a char

Offset == 0 .. LogLength - 1
Objects == {Owner[o] : o \in Offset}
FirstBlock(obj) == Min({o \in Offset : Owner[o] = obj})
LastBlock(obj) == Max({o \in Offset : Owner[o] = obj})
SizeOf(obj) == LastBlock(obj) - FirstBlock(obj) + 1

ASSUME DiskAssumption ==
    /\ Owner \in [Offset -> Nat] /\ Left \in [Offset -> Nat \ {0}]
    /\ \A o \in Offset : o + Left[o] - 1 \in LastBlock(Owner[o]) .. LogLength - 1
    /\ \A obj \in Objects : \A o \in FirstBlock(obj) .. LastBlock(obj) : Owner[o] = obj
    /\ WriteOffset >= LogLength
    /\ ReadBufferSize \in 1 .. BufferSize /\ BufferSize <= HocSize
    /\ NumberCutoff \in Nat /\ CharHalf \in Nat \ {0}

Writer == "batch"
ASSUME WriterAssumption == Writer \notin Readers

VARIABLES el,       \* the elevator, and the request with the data helper
          hoc,      \* allBlocks of the cache, least recently used first
          reader,   \* a response of each reader
          arrived   \* who waits for the disk, in order of arrival (history)

vars == <<el, hoc, reader, arrived>>

NoRequest == [reqs |-> <<>>, len |-> 0]
(* A response: the block it is at, its totalLen, and what it has sent: the *)
(* blocks from [from] on, and, if it was thrown back to there, how many    *)
(* blocks before (at most those of the object), up to which, and whether   *)
(* the last of these throws has an odd or an even number.                  *)
Idle == [obj |-> -1, at |-> 0, len |-> 0, stage |-> "match", state |-> "idle",
         from |-> 0, sent |-> <<>>, before |-> 0, upto |-> -1, thrown |-> "never"]

Init == /\ el = [current |-> <<>>, sorted |-> <<>>, scheduled |-> FALSE,
                 helper |-> NoRequest, done |-> FALSE]
        /\ hoc = <<>> /\ reader = [r \in Readers |-> Idle] /\ arrived = <<>>
-----------------------------------------------------------------------------
(* The cache.  A block that is used goes to the tail; when the cache is    *)
(* full the head makes room.                                               *)
Touch(h, o) == Append(SelectSeq(h, LAMBDA b : b # o), o)
getOldHOB(h) == IF Len(h) < HocSize THEN h ELSE Tail(h)
insertBlock(h, o) == IF o \in ToSet(h) THEN Touch(h, o) ELSE Append(getOldHOB(h), o)
-----------------------------------------------------------------------------
(* The elevator.  A request is [by, off, len].  sort leaves the order of   *)
(* equal offsets open.                                                     *)
KeepsOrder(q) == {Reverse(q)}                                        \* mutant
sort(q) == {s \in SetToSeqs(ToSet(q)) :
              \A i, j \in DOMAIN s : i < j => s[i].off <= s[j].off}

(* A read joins a merged read when there is room for it and it begins one  *)
(* block after the end of the first read.                                  *)
checkContinuity(e, r) ==
    /\ Writer \notin {e.reqs[1].by, r.by}
    /\ e.len + r.len <= BufferSize
    /\ e.reqs[1].off + e.reqs[1].len + 1 = r.off

mergeRequest(e, r) == [reqs |-> Append(e.reqs, r), len |-> e.len + r.len]

Merge(es, r) == IF es # <<>> /\ checkContinuity(Last(es), r)
                THEN [es EXCEPT ![Len(es)] = mergeRequest(@, r)]
                ELSE Append(es, mergeRequest(NoRequest, r))
formSchedule(q) == {FoldLeft(Merge, <<>>, s) : s \in sort(q)}

(* A new schedule is formed when the last one is used up and enough        *)
(* requests, or enough time, have passed; one request is with the helper.  *)
CanSend(e) == ~e.scheduled /\ e.sorted # <<>>

scheduleNextRequest(e, timeUp) ==
    LET formed == IF e.sorted = <<>> /\ (timeUp \/ Len(e.current) >= NumberCutoff)
                  THEN {[e EXCEPT !.sorted = s, !.current = <<>>] :
                          s \in formSchedule(e.current)}
                  ELSE {e}
    IN  {IF CanSend(f)
         THEN [f EXCEPT !.scheduled = TRUE, !.helper = Head(f.sorted),
                        !.sorted = Tail(@)]
         ELSE f : f \in formed}

addRequest(e, r, timeUp) ==
    scheduleNextRequest([e EXCEPT !.current = Append(@, r)], timeUp)
-----------------------------------------------------------------------------
(* A reader.  s is the state [el, hoc, reader, arrived].  Each block that  *)
(* is in the cache and belongs to the object is sent; the client may stop  *)
(* taking data, or be gone, at any block, or be gone before the first.     *)
AnyURL(obj, o) == TRUE                                               \* mutant
SameURL(obj, o) == Owner[o] = obj

Ends(s, r, how) == [s EXCEPT !.reader[r].state = how]

(* A block is missing: a disk request for as many blocks as were left from *)
(* the block that was sent last, or from the first according to the index. *)
RequestBlock(s, r, timeUp) ==
    LET rd == s.reader[r]
        q == [by |-> r, off |-> rd.at, len |-> Min({rd.len, ReadBufferSize})]
    IN  {[Ends(s, r, "waiting") EXCEPT !.el = e, !.arrived = Append(@, r)] :
           e \in addRequest(s.el, q, timeUp)}

(* The blocks up to k go to the client; the tail of each has the length    *)
(* that the next request will have.                                        *)
SendTo(s, r, k) ==
    LET rd == s.reader[r]
        gone == [i \in 1 .. k - rd.at + 1 |-> rd.at + i - 1]
    IN  [s EXCEPT !.hoc = FoldLeft(Touch, @, gone),
                  !.reader[r] = [rd EXCEPT !.at = k + 1, !.len = Left[k],
                                           !.stage = "sending", !.sent = @ \o gone]]

processFurtherBlocks(s, r, timeUp) ==
    LET rd == s.reader[r]
        at == rd.at
        hits == {k \in at .. LastBlock(Owner[at]) :
                   \A o \in at .. k : o \in ToSet(s.hoc)}
        all == SendTo(s, r, Max(hits))
        stopped == {SendTo(s, r, k) : k \in hits}
    IN  CASE hits = {} -> RequestBlock(s, r, timeUp)
          [] hits # {} /\ ~SameURL(rd.obj, at) ->
               {Ends([s EXCEPT !.hoc = Touch(@, at)], r,
                     IF rd.stage = "match" THEN "missed" ELSE "cut")}
          [] hits # {} /\ SameURL(rd.obj, at) ->
               {Ends(t, r, "blocked") : t \in stopped}
               \cup {Ends(t, r, "gone") : t \in stopped \cup
                                   {[s EXCEPT !.hoc = Touch(@, at)]}}
               \cup IF Max(hits) = LastBlock(Owner[at]) THEN {Ends(all, r, "done")}
                    ELSE RequestBlock(all, r, timeUp)

State == [el |-> el, hoc |-> hoc, reader |-> reader, arrived |-> arrived]
Becomes(S) == \E s \in S : /\ el' = s.el /\ hoc' = s.hoc
                           /\ reader' = s.reader /\ arrived' = s.arrived
Busy == {"waiting", "blocked"}
-----------------------------------------------------------------------------
(* joinFlow has found the object in the index.  The length of the group    *)
(* has been stored in a char; one that is not positive then is a miss.     *)
ToChar(i) == ((i + CharHalf) % (2 * CharHalf)) - CharHalf

JoinFlow(r, obj, timeUp) ==
    LET first == FirstBlock(obj)
        len == ToChar(Left[first])
        s == [State EXCEPT !.reader[r] = [Idle EXCEPT !.obj = obj, !.at = first,
                                                      !.from = first, !.len = len]]
    IN  /\ reader[r].state \notin Busy
        /\ Becomes(IF len <= 0 THEN {Ends(s, r, "missed")}
                   ELSE processFurtherBlocks(s, r, timeUp))

(* The client takes data again: the object is complete, or its next block  *)
(* is looked for, or the client is gone.  parseResponse takes an object to *)
(* be complete when as many bytes have come as it has.                     *)
AllReceived(rd) ==
    \/ Last(rd.sent) = LastBlock(Owner[Last(rd.sent)])
    \/ rd.before + Len(rd.sent) >= SizeOf(rd.obj)

ResumeDiskRead(r, timeUp) ==
    /\ reader[r].state = "blocked"
    /\ \/ Becomes({Ends(State, r, "gone")})
       \/ IF AllReceived(reader[r])
          THEN Becomes({Ends(State, r, "done")})
          ELSE Becomes(processFurtherBlocks(State, r, timeUp))

(* The client closes the connection instead: the request is deleted, and   *)
(* with it all that leads to the response, which stays where it is.        *)
ClientCloses(r) ==
    /\ reader[r].state = "blocked"
    /\ Becomes({Ends(State, r, "forgotten")})

(* A batch of responses is written; batchWriteLock keeps the next one back.*)
BatchWrite(timeUp) ==
    /\ Writer \notin ToSet(arrived)
    /\ \E e \in addRequest(el, [by |-> Writer, off |-> WriteOffset, len |-> 1], timeUp) :
          el' = e
    /\ arrived' = Append(arrived, Writer)
    /\ UNCHANGED <<hoc, reader>>

TimerTick(timeUp) ==
    /\ \E e \in scheduleNextRequest(el, timeUp) : el' = e
    /\ UNCHANGED <<hoc, reader, arrived>>

(* The data helper has read or written the blocks.                         *)
DataHelper == /\ el.helper # NoRequest /\ ~el.done
              /\ el' = [el EXCEPT !.done = TRUE]
              /\ UNCHANGED <<hoc, reader, arrived>>

(* The reply: the blocks enter the cache, the next request goes out, and   *)
(* the readers go on, from the offset of the merged request; one that was  *)
(* deleted lazily meanwhile, when its client expired, is left as it is.    *)
GoesTo(rd, o) ==
    IF rd.stage = "match" \/ o = rd.at THEN [rd EXCEPT !.at = o]
    ELSE [rd EXCEPT !.at = o, !.from = o, !.sent = <<>>,
                    !.before = Min({@ + Len(rd.sent), SizeOf(rd.obj)}),
                    !.upto = Max({@, rd.at - 1}),
                    !.thrown = IF @ = "odd" THEN "even" ELSE "odd"]

NeverReturned(e) == [e EXCEPT !.helper = NoRequest, !.done = FALSE]  \* mutant
returnElevator(e) == [e EXCEPT !.scheduled = FALSE, !.helper = NoRequest, !.done = FALSE]

HandleDataHelperRead(timeUp) ==
    LET e == el.helper
        by == {e.reqs[i].by : i \in DOMAIN e.reqs}
        read == IF by = {Writer} THEN <<>>
                ELSE [i \in 1 .. e.len |-> e.reqs[1].off + i - 1]
        next == {[State EXCEPT !.el = f, !.hoc = FoldLeft(insertBlock, @, read),
                               !.arrived = SelectSeq(@, LAMBDA a : a \notin by)] :
                   f \in scheduleNextRequest(returnElevator(el), timeUp)}
        GoOn(S, q) == UNION {{Ends(s, q.by, "forgotten")} \cup
                             processFurtherBlocks(
                                 [s EXCEPT !.reader[q.by] = GoesTo(@, e.reqs[1].off)],
                                 q.by, timeUp) : s \in S}
    IN  /\ el.done
        /\ Becomes(IF by = {Writer} THEN next ELSE FoldLeft(GoOn, next, e.reqs))

Next == \E timeUp \in BOOLEAN :
           \/ \E r \in Readers : \/ \E obj \in Objects : JoinFlow(r, obj, timeUp)
                                 \/ ResumeDiskRead(r, timeUp) \/ ClientCloses(r)
           \/ BatchWrite(timeUp) \/ TimerTick(timeUp)
           \/ HandleDataHelperRead(timeUp)
        \/ DataHelper

Spec == Init /\ [][Next]_vars

(* The helper answers, the server handles replies, the timer goes off every*)
(* tenth of a second, and clients take their data or are expired.  For the *)
(* first three, weak fairness is written as the states that end the work:  *)
(* each of these actions leads to such a state.                            *)
HelperIdle == el.helper = NoRequest \/ el.done
NothingToSend == el.scheduled \/ (el.sorted = <<>> /\ el.current = <<>>)
Fairness == /\ []<>HelperIdle /\ []<>~el.done /\ []<>NothingToSend
            /\ \A r \in Readers :
                  \/ []<>(reader[r].state # "blocked")
                  \/ []<><<\E timeUp \in BOOLEAN : ResumeDiskRead(r, timeUp)>>_vars
FairSpec == Spec /\ Fairness
-----------------------------------------------------------------------------
Requester == Readers \cup {Writer}
Request == [by : Requester, off : Offset \cup {WriteOffset}, len : 1 .. ReadBufferSize]
Outcomes == {"idle", "missed", "cut", "gone", "done", "forgotten"}

(* All requests that are not answered, in the order the helper sees them.  *)
Queue == el.helper.reqs \o FlattenSeq([i \in DOMAIN el.sorted |-> el.sorted[i].reqs])
         \o el.current

(* The types of the variables; the cache keeps to its limit.               *)
TypeOK == /\ ToSet(Queue) \subseteq Request
          /\ {el.scheduled, el.done} \subseteq BOOLEAN
          /\ ToSet(hoc) \subseteq 0 .. LogLength + BufferSize /\ Len(hoc) <= HocSize
          /\ \A r \in Readers :
                /\ reader[r].obj \in Objects \cup {-1}
                /\ {reader[r].at, reader[r].from} \subseteq 0 .. LogLength
                /\ reader[r].before \in Nat /\ reader[r].thrown \in {"never", "odd", "even"}
                /\ reader[r].upto \in Offset \cup {-1}
                /\ reader[r].stage \in {"match", "sending"}
                /\ reader[r].state \in Busy \cup Outcomes
                /\ ToSet(reader[r].sent) \subseteq Offset
          /\ ToSet(arrived) \subseteq Requester

(* A request is overtaken only by requests for the same or lower offsets:  *)
(* sorting and merging keep the rest of the order, within a schedule and   *)
(* from one schedule to the next.                                          *)
SweepOrder ==
    \A i, j \in DOMAIN Queue : i < j =>
        \/ Queue[i].off <= Queue[j].off
        \/ \E m, n \in DOMAIN arrived : /\ m < n
                                        /\ arrived[m] = Queue[i].by
                                        /\ arrived[n] = Queue[j].by

(* A client is sent the blocks of its object and no others, from the first *)
(* on, in order and without a gap, and all of them if the response is      *)
(* complete.  One case is worse: a reader whose request was merged behind  *)
(* one for an earlier block of its own object is thrown back to that block *)
(* (handleDataHelperRead sets its offset, and only URLs are compared).  It *)
(* is thrown back into what it has sent, so that no block is left out; but *)
(* blocks come twice, and count as received.                               *)
SendsObject ==
    \A r \in Readers : LET rd == reader[r] IN
        /\ \A i \in DOMAIN rd.sent : /\ rd.sent[i] = rd.from + i - 1
                                     /\ Owner[rd.sent[i]] = rd.obj
        /\ rd.sent # <<>> =>
              IF rd.thrown = "never" THEN rd.from = FirstBlock(rd.obj)
              ELSE rd.from \in FirstBlock(rd.obj) .. rd.upto
        /\ rd.state = "done" =>
              rd.thrown # "never" \/ Last(rd.sent) = LastBlock(rd.obj)

(* Every reader ends, although its blocks may leave the cache before they  *)
(* are read and its requests wait behind others, unless it is thrown back  *)
(* again and again; and every batch is written.  (A reader whose client    *)
(* went away at the wrong time is done for too, but never deleted.)        *)
ThrownForEver(r) == []<>(reader[r].thrown = "odd") /\ []<>(reader[r].thrown = "even")
EveryReaderEnds ==
    /\ \A r \in Readers : \/ (reader[r].state \in Busy) ~> (reader[r].state \in Outcomes)
                          \/ ThrownForEver(r)
    /\ (Writer \in ToSet(arrived)) ~> (Writer \notin ToSet(arrived))
=============================================================================

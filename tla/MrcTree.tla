------------------------------ MODULE MrcTree ------------------------------
(***************************************************************************)
(* How content is cut and named (mrc_tree.c, rabinfinger2.c).  A chunk is  *)
(* cut where the fingerprint of the last few bytes matches a mask; inside  *)
(* it, weaker masks cut it into smaller and smaller pieces: a tree of      *)
(* chunks.  The sender looks the names up in the table of names that were  *)
(* acknowledged, from the root down, and sends a list of candidates; the   *)
(* receiver cuts the same content again to store the pieces that it has    *)
(* not stored before.                                                      *)
(*                                                                         *)
(* Content is a sequence of bytes and the name of a piece is the piece (no *)
(* two contents have one SHA1).  A fingerprint is known by its strength:   *)
(* 0 for no match, Levels for a match of the mask of the root.  Byte 0 is  *)
(* what the window holds at the start of a chunk.  Users send one document *)
(* from different bytes on, so that pieces come again in other             *)
(* surroundings.  The first chunk of a connection, which may be sent       *)
(* without names, is in UserFlow.                                          *)
(***************************************************************************)
EXTENDS Integers, Sequences, FiniteSets, FiniteSetsExt, SequencesExt

CONSTANTS Byte,           (* the bytes, of which 0 is one                  *)
          DocLength,      (* bytes in the document                         *)
          Levels,         (* levels of the tree                            *)
          Window,         (* WAPROX_RABIN_WINDOW                           *)
          MinChunkSize,   (* WAPROX_MIN_CHUNK_SIZE                         *)
          MaxChunkSize,   (* MAX_CHUNK_SIZE, WAPROX_MRC_MAX                *)
          Strengths,      (* fingerprints: functions of the window         *)
          MaxNames,       (* MAX_NAMES in a table of hints                 *)
          MaxSends        (* bound on the chunks that are sent             *)

Windows == [1 .. Window -> Byte]

(* DoPreMRC exits when the window is not smaller than the smallest chunk.  *)
(* A window of zeros has fingerprint 0.                                    *)
ASSUME ConstantsFit == /\ MinChunkSize > Window /\ MaxNames > 0
                       /\ \A f \in Strengths :
                            /\ f \in [Windows -> 0 .. Levels]
                            /\ f[[i \in 1 .. Window |-> 0]] = 0

VARIABLES document, strength,  (* chosen once                              *)
          sendHint, diskHint,  (* names acknowledged, names stored: FIFOs  *)
          acked, stored,       (* all names that ever were in them         *)
          buffers,             (* chunks the sender keeps until the ack    *)
          puts,                (* chunks the receiver has still to store   *)
          sends

hints == <<sendHint, diskHint, acked, stored>>
vars == <<document, strength, hints, buffers, puts, sends>>
-----------------------------------------------------------------------------
(* ConcatByte: the fingerprint at p, of the bytes before it from the start *)
(* of the chunk on (GetRabinChunkSizeEx resets the region buffer).         *)
Finger(s, p) == strength[[i \in 1 .. Window |->
                   IF p - Window + i >= 1 THEN s[p - Window + i] ELSE 0]]

(* GetRabinChunkSizeEx: the chunk ends at the first match of the mask of   *)
(* the root, or at the last match of the weakest, or where the data ends.  *)
LastByteUnread(s) == 1 .. Min({Len(s), MaxChunkSize}) - 1           \* mutant
Scanned(s) == 1 .. Min({Len(s), MaxChunkSize})
Matches(s) == LET weak == {p \in Scanned(s) : Finger(s, p) >= 1}
                  root == {p \in weak : Finger(s, p) = Levels}
              IN  IF root = {} THEN weak ELSE {p \in weak : p <= Min(root)}
Boundaries(s) == IF Matches(s) = {} THEN {Min({Len(s), MaxChunkSize})}
                 ELSE Matches(s)
RabinChunk(s) == SubSeq(s, 1, Max(Boundaries(s)))

(* DoPreMRC: level l is cut where its mask matches and at the end, but not *)
(* where a small piece would come off, unless the levels above are cut     *)
(* there.  The function gives the places where each level is cut.          *)
CutsSmall(from, b, real) == TRUE                                    \* mutant
Cuts(from, b, real) == b - from > MinChunkSize \/ b \in real

RECURSIVE CutFrom(_, _, _)
CutFrom(from, bs, real) ==
    LET next == {b \in bs : b > from /\ Cuts(from, b, real)}
    IN  IF next = {} THEN {} ELSE {Min(next)} \cup CutFrom(Min(next), bs, real)

LevelCuts(s, bs, l, real) ==
    CutFrom(0, {b \in bs : Finger(s, b) > Levels - l \/ b = Max(bs)}, real)

DoPreMRC(s) ==
    LET bs == Boundaries(s)
        below(ends, l) == Append(ends, LevelCuts(s, bs, l, {Max(bs)} \cup UNION ToSet(ends)))
    IN  FoldLeft(below, <<>>, [l \in 1 .. Levels |-> l])

(* The pieces of level l, each with its place; [level] tells the chunk     *)
(* from the piece of it that is as long.                                   *)
Pieces(ends, l) == {[level |-> l, off |-> Max({a \in ends[l] \cup {0} : a < e}),
                     end |-> e] : e \in ends[l]}
NameOf(s, n) == SubSeq(s, n.off + 1, n.end)
IsSmall(n) == n.end - n.off <= MinChunkSize

(* MakeTree: the parent of a piece is the one of the level above whose     *)
(* bytes it takes its own from.                                            *)
IsParent(m, n) == m.off <= n.off /\ n.off < m.end

(* ResolveWithHint, for one level: what the pieces find, given the one     *)
(* above.  A small piece counts as found; so does a piece of one that was  *)
(* found, whose own name is then not computed.                             *)
CheckNameHint(s, n, known) == [hit |-> NameOf(s, n) \in ToSet(known), named |-> TRUE]
Resolve(s, n, above, known) ==
    IF IsSmall(n) THEN [hit |-> TRUE, named |-> TRUE]
    ELSE IF n.level = 1 THEN CheckNameHint(s, n, known)
    ELSE LET m == CHOOSE m \in DOMAIN above : IsParent(m, n)
         IN  IF above[m].hit THEN [hit |-> TRUE, named |-> FALSE]
             ELSE IF m.end - m.off = n.end - n.off THEN above[m]
             ELSE CheckNameHint(s, n, known)

(* The levels are resolved down to the first where everything is found.    *)
AllFound(found) == \A n \in DOMAIN found : found[n].hit
ResolveWithHint(s, ends, known) ==
    LET below(found, l) ==
            IF found # <<>> /\ AllFound(Last(found)) THEN found
            ELSE Append(found, [n \in Pieces(ends, l) |->
                     Resolve(s, n, IF l = 1 THEN <<>> ELSE found[l - 1], known)])
    IN  FoldLeft(below, <<>>, [l \in 1 .. Levels |-> l])

(* FlushChildren: pieces that are all candidates, and all found or all not *)
(* found, give way to the one they make up.                                *)
OnlyMisses(hits, n) == hits = 0                                     \* mutant
Merges(hits, n) == hits = 0 \/ hits = n

FlushChildren(found, cands, m) ==
    LET kids == {n \in DOMAIN found[m.level + 1] : IsParent(m, n)}
        hits == Cardinality({n \in kids : found[n.level][n].hit})
    IN  IF kids \subseteq cands /\ Merges(hits, Cardinality(kids))
        THEN (cands \ kids) \cup {m} ELSE cands

(* GetCandidateList2: from the lowest level that was resolved up to the    *)
(* root, the pieces that are sent (in the order of their offsets).         *)
GetCandidateList2(found) ==
    LET up(l, cands) == FoldSet(LAMBDA m, c : FlushChildren(found, c, m), cands,
                                DOMAIN found[l])
    IN  FoldRight(up, [l \in 1 .. Len(found) - 1 |-> l], DOMAIN Last(found))

(* The names that were not found, down to the lowest level resolved, level *)
(* by level and in the order of their offsets.                             *)
Missing(s, found) ==
    LET missed(l) == SetToSortSeq({n \in DOMAIN found[l] : ~found[l][n].hit},
                                  LAMBDA m, n : m.off < n.off)
    IN  FlattenSeq([l \in DOMAIN found |->
            [i \in DOMAIN missed(l) |-> NameOf(s, missed(l)[i])]])

(* PutSendHint and PutDiskHint: a name that is not in the table goes to    *)
(* its end; a full table loses the name that has been in it for longest.   *)
PutHint(known, name) ==
    IF name \in ToSet(known) THEN known
    ELSE Append(IF Len(known) >= MaxNames THEN Tail(known) ELSE known, name)
-----------------------------------------------------------------------------
Init == /\ document \in [1 .. DocLength -> Byte]
        /\ strength \in Strengths
        /\ sendHint = <<>> /\ diskHint = <<>> /\ acked = {} /\ stored = {}
        /\ buffers = <<>> /\ puts = <<>> /\ sends = 0

(* ProcessOneRabinChunking2, for data that a user sends from some byte of  *)
(* the document on: the chunk is kept with its candidates                  *)
(* (CreateNewChunkBuffer2) and sent.  A candidate goes without its content *)
(* if it was found and is not small.                                       *)
Candidate(found, n) ==
    [off |-> n.off, end |-> n.end, named |-> found[n.level][n].named,
     content |-> ~found[n.level][n].hit \/ IsSmall(n)]

ProcessOneRabinChunking2(from) ==
    /\ sends < MaxSends
    /\ sends' = sends + 1
    /\ \E s \in {RabinChunk(SubSeq(document, from, DocLength))} :
       \E found \in {ResolveWithHint(s, DoPreMRC(s), sendHint)} :
       \E list \in {GetCandidateList2(found)} :
          /\ buffers' = Append(buffers, [chunk |-> s, missing |-> Missing(s, found),
                                         list |-> {Candidate(found, n) : n \in list}])
          /\ puts' = Append(puts, [chunk |-> s, names |-> Cardinality(list)])
    /\ UNCHANGED <<document, strength, hints>>

(* DestroyChunkBuffer2: the names of a chunk that is acknowledged become   *)
(* hints; those of a connection that is closed do not.                     *)
Acked == /\ buffers # <<>>
         /\ buffers' = Tail(buffers)
         /\ sendHint' = FoldLeft(PutHint, sendHint, Head(buffers).missing)
         /\ acked' = acked \cup ToSet(Head(buffers).missing)
         /\ UNCHANGED <<document, strength, diskHint, stored, puts, sends>>

Closed == /\ buffers # <<>>
          /\ buffers' = <<>>
          /\ UNCHANGED <<document, strength, hints, puts, sends>>

(* QueuePutMessage and ActualPutMissingChunks, once the receiver has the   *)
(* content: the pieces that it did not store before are stored.  The put   *)
(* queue may be full, and a chunk that came as one name that is stored is  *)
(* not cut again.                                                          *)
ActualPutMissingChunks(s) ==
    \E names \in {Missing(s, ResolveWithHint(s, DoPreMRC(s), diskHint))} :
       /\ diskHint' = FoldLeft(PutHint, diskHint, names)
       /\ stored' = stored \cup ToSet(names)

QueuePutMessage ==
    /\ puts # <<>>
    /\ puts' = Tail(puts)
    /\ \/ UNCHANGED <<diskHint, stored>>
       \/ /\ ~(Head(puts).names = 1 /\ Head(puts).chunk \in ToSet(diskHint))
          /\ ActualPutMissingChunks(Head(puts).chunk)
    /\ UNCHANGED <<document, strength, sendHint, acked, buffers, sends>>

Next == \/ \E from \in 1 .. DocLength : ProcessOneRabinChunking2(from)
        \/ Acked \/ Closed \/ QueuePutMessage

Spec == Init /\ [][Next]_vars
-----------------------------------------------------------------------------
(* The types of the variables.                                             *)
TypeOK == /\ document \in [1 .. DocLength -> Byte] /\ strength \in Strengths
          /\ acked \cup stored \subseteq UNION {[1 .. n -> Byte] : n \in 1 .. MaxChunkSize}
          /\ ToSet(sendHint) \subseteq acked /\ ToSet(diskHint) \subseteq stored
          /\ sends \in 0 .. MaxSends

(* What the receiver puts together is what was cut: the candidates of a    *)
(* chunk follow each other from its start to its end, each has had its     *)
(* name computed, and those without content were acknowledged before (the  *)
(* asserts of GetCandidateList2 and BuildWANameTreeDelivery3).             *)
CandidatesCover ==
    \A b \in ToSet(buffers) :
        /\ {c.off : c \in b.list} \cup {Len(b.chunk)} = {c.end : c \in b.list} \cup {0}
        /\ \A c, d \in b.list : c.off < d.end /\ d.off < c.end => c = d
        /\ \A c \in b.list : /\ c.named
                             /\ ~c.content => NameOf(b.chunk, c) \in acked

(* The receiver, which has only the chunk, cuts it as the sender did from  *)
(* a longer buffer (the assert rb_size == buf_len), and each level keeps   *)
(* the cuts of the one above (MakeTree would run off the end).             *)
CutAgain ==
    \A p \in ToSet(puts) : LET ends == DoPreMRC(p.chunk)
                    IN  /\ RabinChunk(p.chunk) = p.chunk
                        /\ ends[1] = {Len(p.chunk)}
                        /\ \A l \in 2 .. Levels : ends[l - 1] \subseteq ends[l]

(* A piece of a chunk that was found is not looked up but taken to be      *)
(* known.  It is known, unless a full table has lost it: the pieces of a   *)
(* name that was put in either table were put in it too, whatever came     *)
(* before that name when it was cut, and whatever the table had lost by    *)
(* then (the assert for _WAPROX_DEBUG_RESOLVE in ResolveWithHint, which    *)
(* does not make this exception).                                          *)
PiecesPut(names) ==
    \A s \in names : LET ends == DoPreMRC(s)
                     IN  \A l \in 1 .. Levels : \A n \in Pieces(ends, l) :
                            IsSmall(n) \/ NameOf(s, n) \in names
HintsClosed == PiecesPut(acked) /\ PiecesPut(stored)
=============================================================================

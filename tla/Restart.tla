------------------------------ MODULE Restart ------------------------------
(***************************************************************************)
(* What HashCache keeps over a restart (option -r).  A helper thread       *)
(* copies the index to a file, one chunk on each request, and then the     *)
(* version and the offset of the log; the server may die at any moment,    *)
(* and the next one starts from the two files and the log.  From helper.c, *)
(* index.c, hcfs.c and loop.c.  The set of LogStore lies in the first      *)
(* chunk of the index: getIndexAddr always gives the first chunk, wherever *)
(* in the file getIndexOff puts it, so no other set is ever saved.         *)
(***************************************************************************)
EXTENDS LogStore

CONSTANTS IndexChunks,   \* chunks of INDEX_CHUNK_SIZE in the index file
          MaxCrashes     \* crashes in a behaviour (bound of the model)

ASSUME RestartAssumption == IndexChunks \in Nat \ {0} /\ MaxCrashes \in Nat

VARIABLES helper,            \* the thread: where it is, and the version it read
          presentIndexOff,   \* in chunks
          indexFile,         \* the first chunk of the index file
          offsetsFile,       \* the file of the version and the offset
          crashes,
          since, recent,     \* history: the places given out since the version
                             \*   in the file, and in the helper, was read
          split,             \* history: the log went round between the reads
                             \*   of the version and the offset in the file
          lost               \* history: the places given out and forgotten

files == <<indexFile, offsetsFile>>
saving == <<helper, presentIndexOff>>
rvars == <<vars, saving, files, crashes, since, recent, split, lost>>

EmptySet == [hdr |-> [w \in Way |-> NeverUsed], clk |-> InitClocks,
             ent |-> [w \in Way |-> [off |-> -1, ver |-> -1, len |-> -1]]]

RInit == /\ Init
         /\ helper = [at |-> "read", ver |-> 0] /\ presentIndexOff = 0
         /\ indexFile = EmptySet /\ offsetsFile = [ver |-> 0, off |-> 0]
         /\ crashes = 0 /\ since = {} /\ recent = {} /\ split = FALSE /\ lost = {}
-----------------------------------------------------------------------------
(* The places of the log that a step of the server gives out.              *)
Given == IF remVersion' = remVersion THEN remOffset .. remOffset' - 1
         ELSE IF remVersion' = remVersion + 1
         THEN (remOffset .. RemFileSize - 1) \cup (0 .. remOffset' - 1)
         ELSE 0 .. RemFileSize - 1

(* The steps of LogStore that write; lookups leave the log as it is.       *)
ServerStep == /\ \/ \E n \in Names : Put(n)
                 \/ \E due, expired \in BOOLEAN : CheckBatchWritesNow(due, expired)
                 \/ DataHelperWrite \/ HandleDataHelperRead
              /\ since' = since \cup Given /\ recent' = recent \cup Given
              /\ UNCHANGED <<saving, files, crashes, split, lost>>

getIndexOff(off) == IF off + 1 >= IndexChunks THEN 0 ELSE off + 1

(* indexHelper has a request: the main loop makes one when it starts and    *)
(* whenever INDEX_WRITE_DEADLINE has passed, and one read takes all that   *)
(* have come.                                                              *)
WriteIndex ==
    /\ helper.at = "read"
    /\ helper' = [helper EXCEPT !.at = "version"]
    /\ presentIndexOff' = getIndexOff(presentIndexOff)
    /\ indexFile' = IF presentIndexOff = 0
                    THEN [hdr |-> hdr, clk |-> clk, ent |-> ent]
                    ELSE indexFile
    /\ UNCHANGED <<vars, offsetsFile, crashes, since, recent, split, lost>>

(* The version and the offset are read one after the other, with no lock,  *)
(* while the server goes on.                                               *)
GetRemVersion ==
    /\ helper.at = "version"
    /\ helper' = [at |-> "offsets", ver |-> remVersion]
    /\ recent' = {}
    /\ UNCHANGED <<vars, presentIndexOff, files, crashes, since, split, lost>>

WriteOffsets ==
    /\ helper.at = "offsets"
    /\ helper' = [helper EXCEPT !.at = "read"]
    /\ offsetsFile' = [ver |-> helper.ver, off |-> remOffset]
    /\ since' = recent /\ split' = (helper.ver # remVersion)
    /\ UNCHANGED <<vars, presentIndexOff, indexFile, crashes, recent, lost>>

(* The server dies, and starts again: initIndex and initHCFS read the      *)
(* files; the length of the log file is not kept; the log is as it was.    *)
VersionForgotten(file) == [file EXCEPT !.ver = 0]                    \* mutant
OffsetForgotten(file) == [file EXCEPT !.off = 0]                     \* mutant
initHCFS(file) == file

Crash ==
    /\ crashes < MaxCrashes /\ crashes' = crashes + 1
    /\ hdr' = indexFile.hdr /\ clk' = indexFile.clk /\ ent' = indexFile.ent
    /\ remVersion' = initHCFS(offsetsFile).ver
    /\ remOffset' = initHCFS(offsetsFile).off
    /\ locks' = NoLocks /\ logFileLength' = 0
    /\ pending' = <<>> /\ waitList' = <<>> /\ batch' = NoBatch /\ write' = NoWrite
    /\ helper' = [at |-> "read", ver |-> 0] /\ presentIndexOff' = 0
    /\ lost' = lost \cup (IF split THEN DOMAIN disk ELSE since)
    /\ since' = {} /\ recent' = {}
    /\ UNCHANGED <<puts, disk, files, split>>

HelperStep == WriteIndex \/ GetRemVersion \/ WriteOffsets
RNext == ServerStep \/ HelperStep \/ Crash

RSpec == RInit /\ [][RNext]_rvars
-----------------------------------------------------------------------------
(* The types of the variables.                                             *)
RTypeOK == /\ TypeOK
           /\ presentIndexOff \in 0 .. IndexChunks - 1
           /\ helper \in [at : {"read", "version", "offsets"}, ver : Nat]
           /\ indexFile.hdr \in [Way -> Names \cup {NeverUsed, Discarded}]
           /\ offsetsFile \in [ver : Nat, off : 0 .. RemFileSize]
           /\ crashes \in 0 .. MaxCrashes /\ split \in BOOLEAN
           /\ since \cup recent \cup lost \subseteq 0 .. RemFileSize - 1

(* What a crash can spoil is confined: after a restart an entry that       *)
(* joinFlow accepts leads to the blocks of its object, or to an older      *)
(* round when they were never written, except in the places the log gave   *)
(* out after the version in the offsets file was read.  (There the reader  *)
(* has only the URL in the block to go by.)  When the log went round       *)
(* between the two reads, the file names a position a whole round back,    *)
(* and then every place is exposed: the log starts to overwrite a round    *)
(* whose entries are all accepted.                                         *)
ConfinedDamage ==
    \A w \in Way : hdr[w] \in Names /\ Accepts(w) =>
        \A b \in Expected(w) : \/ b \in OnTheWay
                               \/ disk[b.pres] = b
                               \/ disk[b.pres].ver < b.ver
                               \/ b.pres \in lost

(* An object is not forgotten by a crash: if its entry was accepted and    *)
(* was saved, it is accepted after the restart too, unless its place was   *)
(* given out after the version was saved, or the log was saved in its      *)
(* first round (the length of its file is not kept).                       *)
SavedSurvives ==
    [][crashes' = crashes + 1 =>
         \A w \in Way : /\ hdr[w] \in Names /\ Accepts(w)
                        /\ indexFile.hdr[w] = hdr[w] /\ indexFile.ent[w] = ent[w]
                        /\ ent[w].off \notin since
                        => offsetsFile.ver = 0 \/ Accepts(w)']_rvars
=============================================================================

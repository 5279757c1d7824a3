------------------------- MODULE DirtyCache_proofs -------------------------
(***************************************************************************)
(* The reference counts of dirty objects, for any number of responses,     *)
(* readers, URLs and blocks: LocksCounted is an invariant.  What the hot   *)
(* object cache does with its blocks plays no part in it.                  *)
(***************************************************************************)
EXTENDS DirtyCache, FiniteSetTheorems, TLAPS

(* The records of the dirty cache, whatever their blocks are.              *)
Dob(C) == [copy : Copies \cup {0}, locks : Char, lDel : BOOLEAN, used : BOOLEAN,
           hoc : BOOLEAN, cells : C]
Resp == [at : {"none", "pending", "placed", "done", "gone"}, dob : BOOLEAN,
         start : Nat, wrapped : BOOLEAN]
Reading == [name : Names \cup {NoName}, copy : Copies \cup {0}, next : Nat]
Types == /\ resp \in [Copies -> Resp] /\ reader \in [Readers -> Reading]
         /\ offset \in Nat /\ \E C : dob \in [Names -> Dob(C)]

(* A reader in the middle of an object has the object that is in the       *)
(* table; a response with a dirty object has that one, and has it until it *)
(* is deleted; an object without marks has had no reader.                  *)
Reads(i) == reader[i].next \in 2 .. Size + 1
ReaderLinked(i) ==
    Reads(i) => /\ reader[i].name \in Names
                /\ reader[i].copy = dob[reader[i].name].copy
                /\ dob[reader[i].name].copy # 0 /\ dob[reader[i].name].used
OwnerLinked(k) == /\ resp[k].dob => dob[Name[k]].copy = k
                  /\ resp[k].at \in {"none", "gone"} => ~resp[k].dob
                  /\ resp[k].at = "done" => resp[k].dob
EntryLinked(n) == dob[n].copy = 0 <=> dob[n] = NoDob
Linked == /\ \A i \in Readers : ReaderLinked(i)
          /\ \A k \in Copies : OwnerLinked(k)
          /\ \A n \in Names : EntryLinked(n)

Counted(n) ==
    /\ dob[n].locks = ToChar(Cardinality(Holders(n)) + Cardinality(Originals(n)))
    /\ dob[n] # NoDob => dob[n].locks # 0
    /\ dob[n].lDel <=> dob[n] # NoDob /\ Originals(n) = {}
DirtyInv == Types /\ Linked /\ LocksCounted

(* The sets that are counted are finite.                                   *)
LEMMA Finite ==
    ASSUME NEW n
    PROVE  /\ IsFiniteSet(Holders(n)) /\ Cardinality(Holders(n)) \in Nat
           /\ IsFiniteSet(Originals(n)) /\ Cardinality(Originals(n)) \in Nat
  <1>1. Holders(n) \in SUBSET Readers /\ Originals(n) \in SUBSET Copies
    BY DEF Holders, Originals
  <1>2. IsFiniteSet(Readers) /\ IsFiniteSet(Copies)
    BY DirtyAssumption
  <1>3. IsFiniteSet(Holders(n)) /\ IsFiniteSet(Originals(n))
    BY <1>1, <1>2, FS_Subset
  <1> QED
    BY <1>3, FS_CardinalityType

(* What a char does short of its full circle.                              *)
LEMMA CharSteps ==
    ASSUME NEW n \in Nat, n + 1 < 2 * CharHalf
    PROVE  /\ Up(ToChar(n)) = ToChar(n + 1) /\ Down(ToChar(n + 1)) = ToChar(n)
           /\ ToChar(n + 1) # 0 /\ (ToChar(n) = 0 <=> n = 0)
  BY CharAssumption DEF Up, Down, ToChar

LEMMA CharTypes ==
    /\ 0 \in Char /\ 1 \in Char /\ ToChar(0) = 0 /\ ToChar(1) = 1
    /\ \A l \in Char : Up(l) \in Char /\ Down(l) \in Char
  BY CharAssumption DEF Up, Down, ToChar, Char

(* Readers are fewer than what a char counts, with a response.             *)
LEMMA FewHolders ==
    ASSUME NEW H \in SUBSET Readers
    PROVE  Cardinality(H) \in Nat /\ Cardinality(H) + 1 < 2 * CharHalf
  <1>1. IsFiniteSet(Readers)
    BY DirtyAssumption
  <1>2. IsFiniteSet(H) /\ Cardinality(H) <= Cardinality(Readers)
    BY <1>1, FS_Subset
  <1>3. Cardinality(H) \in Nat /\ Cardinality(Readers) \in Nat
    BY <1>1, <1>2, FS_CardinalityType
  <1> QED
    BY <1>2, <1>3, CharAssumption

(* A dirty object has at most one response.                                *)
LEMMA OneOriginal ==
    ASSUME DirtyInv, NEW n \in Names
    PROVE  Cardinality(Originals(n)) \in {0, 1}
  <1>1. \A k \in Copies : resp[k].dob => dob[Name[k]].copy = k
    BY DEF DirtyInv, Linked, OwnerLinked
  <1>2. Originals(n) \in SUBSET {dob[n].copy}
    BY <1>1 DEF Originals
  <1>3. Originals(n) = {} \/ Originals(n) = {dob[n].copy}
    BY <1>2
  <1> QED
    BY <1>3, FS_EmptySet, FS_Singleton

(* The copies are numbers from 1.                                          *)
LEMMA CopyNumbers == /\ 0 \notin Copies /\ \A k \in Copies : Name[k] \in Names
                     /\ Size \in Nat /\ Size >= 1
  <1>1. Cardinality(Copies) \in Nat
    BY DirtyAssumption, FS_CardinalityType
  <1> QED
    BY <1>1, DirtyAssumption

LEMMA InitDirty == Init => DirtyInv
  <1> SUFFICES ASSUME Init PROVE DirtyInv
    OBVIOUS
  <1> USE CopyNumbers
  <1>1. Types
    <2>1. dob \in [Names -> Dob({<<>>})]
      BY CharTypes DEF Init, NoDob, Dirty, Dob
    <2>2. resp \in [Copies -> Resp] /\ reader \in [Readers -> Reading] /\ offset \in Nat
      BY DEF Init, Resp, Reading, NotReading, Unplaced
    <2> QED
      BY <2>1, <2>2 DEF Types
  <1>2. Linked
    BY
      DEF Init, Linked, ReaderLinked, OwnerLinked, EntryLinked, Reads, NotReading,
          NoDob, Dirty, Unplaced
  <1>3. \A n \in Names : Holders(n) = {} /\ Originals(n) = {}
    BY DEF Init, Holders, Originals, NotReading, Unplaced
  <1>4. LocksCounted
    <2>1. \A n \in Names : dob[n] = NoDob
      BY DEF Init
    <2>2. NoDob.locks = 0 /\ NoDob.lDel = FALSE
      BY DEF NoDob, Dirty
    <2>3. Cardinality({}) = 0 /\ ToChar(0 + 0) = 0
      BY FS_EmptySet, CharTypes
    <2> QED
      BY <1>3, <2>1, <2>2, <2>3 DEF LocksCounted
  <1> QED
    BY <1>1, <1>2, <1>4 DEF DirtyInv

(* A URL whose object, holders and response a step leaves alone.           *)
LEMMA CountKept ==
    ASSUME NEW n \in Names, Counted(n), dob'[n].locks = dob[n].locks,
           dob'[n].lDel = dob[n].lDel, dob'[n] = NoDob <=> dob[n] = NoDob,
           Holders(n)' = Holders(n), Originals(n)' = Originals(n)
    PROVE  Counted(n)'
  BY DEF Counted

(* A response is complete.  Nobody reads an object that is not there, and  *)
(* no response has it.                                                     *)
LEMMA CompleteKeeps ==
    ASSUME NEW k \in Copies, DirtyInv, Complete(k)
    PROVE  DirtyInv'
  <1> DEFINE m == Name[k]
  <1> USE CopyNumbers
  <1>1. PICK C : dob \in [Names -> Dob(C)]
    BY DEF DirtyInv, Types
  <1>2. m \in Names /\ ~resp[k].dob /\ reader' = reader /\ offset' = offset
    BY DEF DirtyInv, Linked, ReaderLinked, OwnerLinked, EntryLinked, Complete
  <1>4. dob' = [dob EXCEPT ![m] = IF dob[m] = NoDob THEN Dirty(k, 1) ELSE dob[m]]
    BY <1>1 DEF Complete
  <1>5. /\ resp' \in [Copies -> Resp] /\ resp'[k].at = "pending"
        /\ resp'[k].dob <=> dob[m] = NoDob
        /\ \A j \in Copies \ {k} : resp'[j] = resp[j]
    BY DEF DirtyInv, Types, Complete, Resp, Unplaced
  <1>6. Types'
    <2>1. dob' \in [Names -> Dob(C \cup {<<>>})]
      BY <1>1, <1>2, <1>4, CharTypes DEF Dob, Dirty
    <2> QED
      BY <2>1, <1>2, <1>5 DEF DirtyInv, Types
  <1>7. /\ \A n \in Names \ {m} : dob'[n] = dob[n]
        /\ dob'[m] = IF dob[m] = NoDob THEN Dirty(k, 1) ELSE dob[m]
    BY <1>1, <1>2, <1>4
  <1>8. NoDob.copy = 0 /\ Dirty(k, 1).copy = k /\ Dirty(k, 1).locks = 1
        /\ Dirty(k, 1).lDel = FALSE /\ Dirty(k, 1) # NoDob
    BY DEF NoDob, Dirty
  <1>9. \A i \in Readers : Reads(i) => dob'[reader[i].name] = dob[reader[i].name]
    BY <1>2, <1>7, <1>8 DEF DirtyInv, Linked, ReaderLinked, OwnerLinked, EntryLinked
  <1>10. Linked'
    BY <1>2, <1>5, <1>7, <1>8, <1>9
      DEF DirtyInv, Linked, ReaderLinked, OwnerLinked, EntryLinked, Reads
  <1>11. \A n \in Names : dob'[n] = dob[n] =>
            Holders(n)' = Holders(n) /\ Originals(n)' = Originals(n)
    BY <1>2, <1>5, <1>7, <1>8 DEF Holders, Originals
  <1>12. dob[m] = NoDob => Holders(m)' = {} /\ Originals(m)' = {k}
    BY <1>2, <1>5, <1>7, <1>8
      DEF DirtyInv, Linked, ReaderLinked, OwnerLinked, EntryLinked, Reads, Holders, Originals
  <1>13. \A n \in Names : Counted(n)'
    <2> TAKE n \in Names
    <2>1. Counted(n)
      BY DEF DirtyInv, LocksCounted, Counted
    <2>2. CASE dob'[n] = dob[n]
      BY <2>1, <2>2, <1>11, CountKept
    <2>3. CASE dob'[n] # dob[n]
      <3>1. n = m /\ dob[m] = NoDob /\ dob'[m] = Dirty(k, 1)
        BY <2>3, <1>7
      <3>2. Cardinality(Holders(n)') = 0 /\ Cardinality(Originals(n)') = 1
        BY <3>1, <1>12, FS_EmptySet, FS_Singleton
      <3>3. ToChar(0 + 1) = 1
        BY CharTypes
      <3> QED
        BY <3>1, <3>2, <3>3, <1>8, <1>12 DEF Counted
    <2> QED
      BY <2>2, <2>3
  <1> QED
    BY <1>6, <1>10, <1>13 DEF DirtyInv, LocksCounted, Counted

(* What getDirtyObject changes in the record of an object.                 *)
LEMMA Joined ==
    ASSUME NEW C, NEW d \in Dob(C)
    PROVE  /\ getDirtyObject(d) \in Dob(C)
           /\ getDirtyObject(d).copy = d.copy /\ getDirtyObject(d).locks = Up(d.locks)
           /\ getDirtyObject(d).lDel = d.lDel /\ getDirtyObject(d).used = TRUE
  <1> DEFINE e == [d EXCEPT !.locks = Up(d.locks)]
  <1>1. e \in Dob(C)
    BY CharTypes DEF Dob
  <1>2. [e EXCEPT !.used = TRUE] \in Dob(C)
    <2> HIDE DEF e
    <2> QED
      BY <1>1 DEF Dob
  <1>3. getDirtyObject(d) \in Dob(C)
    BY <1>2, Zenon DEF getDirtyObject
  <1> QED
    BY <1>3 DEF Dob, getDirtyObject

(* What the move of an object changes in its record.                       *)
LEMMA Moved ==
    ASSUME NEW C, NEW d \in Dob(C), NEW g
    PROVE  LET f == [d EXCEPT !.hoc = TRUE, !.cells = g]
           IN  /\ f \in Dob(C \cup {g}) /\ f.copy = d.copy /\ f.locks = d.locks
               /\ f.lDel = d.lDel /\ f.used = d.used
  <1> DEFINE e == [d EXCEPT !.hoc = TRUE]
             f == [d EXCEPT !.hoc = TRUE, !.cells = g]
  <1>1. e \in Dob(C)
    BY DEF Dob
  <1>2. [e EXCEPT !.cells = g] \in Dob(C \cup {g})
    <2> HIDE DEF e
    <2> QED
      BY <1>1 DEF Dob
  <1>3. f \in Dob(C \cup {g})
    BY <1>2, Zenon
  <1>4. f.copy = d.copy /\ f.locks = d.locks /\ f.lDel = d.lDel /\ f.used = d.used
    BY DEF Dob
  <1> QED
    BY <1>3, <1>4, Zenon

(* A reader joins an object: one lock more, and one holder.                *)
LEMMA JoinKeeps ==
    ASSUME NEW i \in Readers, NEW m \in Names, DirtyInv, JoinFlow(i, m)
    PROVE  DirtyInv'
  <1> USE CopyNumbers
  <1>1. PICK C : dob \in [Names -> Dob(C)]
    BY DEF DirtyInv, Types
  <1>2. resp' = resp /\ offset' = offset /\ ~Reads(i)
    BY DEF JoinFlow, Reads
  <1>3. /\ dob' \in [Names -> Dob(C)] /\ \A n \in Names \ {m} : dob'[n] = dob[n]
        /\ dob'[m].copy = dob[m].copy /\ dob'[m].locks = Up(dob[m].locks)
        /\ dob'[m].lDel = dob[m].lDel /\ dob'[m].used = TRUE
    <2> DEFINE d == dob[m]
    <2>1. d \in Dob(C)
      BY <1>1
    <2>2. /\ getDirtyObject(d) \in Dob(C)
          /\ getDirtyObject(d).copy = d.copy /\ getDirtyObject(d).locks = Up(d.locks)
          /\ getDirtyObject(d).lDel = d.lDel /\ getDirtyObject(d).used = TRUE
      BY <2>1, Joined
    <2>3. dob' = [dob EXCEPT ![m] = getDirtyObject(d)]
      BY DEF JoinFlow
    <2> QED
      BY <1>1, <2>2, <2>3
  <1>4. /\ reader' \in [Readers -> Reading]
        /\ \A j \in Readers \ {i} : reader'[j] = reader[j]
        /\ reader'[i].name = m /\ reader'[i].copy = dob[m].copy
        /\ reader'[i].next \in 2 .. Size + 1
    <2> DEFINE x == IF SameURL(getNextBlock(dob[m], 1), m) THEN 2 ELSE Size + 1
    <2>1. x \in Nat /\ x \in 2 .. Size + 1
      OBVIOUS
    <2>2. reader' = [reader EXCEPT ![i] = [name |-> m, copy |-> dob[m].copy, next |-> x]]
      BY DEF JoinFlow
    <2>3. dob[m].copy \in Copies \cup {0} /\ reader \in [Readers -> Reading]
      BY <1>1 DEF DirtyInv, Types, Dob
    <2> HIDE DEF x
    <2> QED
      BY <2>1, <2>2, <2>3 DEF Reading
  <1>5. dob[m].copy # 0 /\ dob[m] # NoDob
    BY DEF DirtyInv, Linked, ReaderLinked, OwnerLinked, EntryLinked, JoinFlow
  <1>6. dob'[m] # NoDob
    BY <1>3, <1>5 DEF NoDob, Dirty
  <1>7. Types'
    BY <1>2, <1>3, <1>4 DEF DirtyInv, Types
  <1>8. Linked'
    BY <1>2, <1>3, <1>4, <1>5, <1>6
      DEF DirtyInv, Linked, ReaderLinked, OwnerLinked, EntryLinked, Reads
  <1>9. \A n \in Names \ {m} : Holders(n)' = Holders(n)
    BY <1>2, <1>3, <1>4 DEF Holders, Reads
  <1>10. Holders(m)' = Holders(m) \cup {i} /\ i \notin Holders(m)
    BY <1>2, <1>3, <1>4 DEF Holders, Reads
  <1>11. \A n \in Names : Originals(n)' = Originals(n)
    BY <1>2 DEF Originals
  <1>12. \A n \in Names : Counted(n)'
    <2> TAKE n \in Names
    <2>1. Counted(n)
      BY DEF DirtyInv, LocksCounted, Counted
    <2>2. CASE n # m
      BY <2>1, <2>2, <1>3, <1>9, <1>11, CountKept
    <2>3. CASE n = m
      <3>1. Cardinality(Holders(m)') = Cardinality(Holders(m)) + 1
        BY <1>10, Finite, FS_AddElement
      <3>2. Cardinality(Holders(m)) \in Nat /\ Cardinality(Originals(m)) \in Nat
        BY Finite
      <3> DEFINE c == Cardinality(Holders(m)) + Cardinality(Originals(m))
                 c1 == Cardinality(Holders(m)') + Cardinality(Originals(m)')
      <3>5. c \in Nat /\ c1 = c + 1 /\ c + 1 < 2 * CharHalf
        <4>1. Holders(m) \cup {i} \in SUBSET Readers
          BY DEF Holders
        <4>2. Cardinality(Holders(m)') + 1 < 2 * CharHalf
          BY <4>1, <1>10, FewHolders
        <4>3. Cardinality(Originals(m)) \in {0, 1}
          BY OneOriginal
        <4> QED
          BY <4>2, <4>3, <3>1, <3>2, <1>11, CharAssumption
      <3>3. dob'[m].locks = ToChar(c1)
        <4>1. dob[m].locks = ToChar(c)
          BY <2>1, <2>3 DEF Counted
        <4> HIDE DEF c, c1
        <4> QED
          BY <4>1, <3>5, <1>3, CharSteps
      <3>4. dob'[m].locks # 0
        <4> HIDE DEF c, c1
        <4> QED
          BY <3>3, <3>5, CharSteps
      <3> QED
        BY <2>1, <2>3, <3>3, <3>4, <1>3, <1>5, <1>6, <1>11 DEF Counted
    <2> QED
      BY <2>2, <2>3
  <1> QED
    BY <1>7, <1>8, <1>12 DEF DirtyInv, LocksCounted, Counted

(* A reader goes on, or its client is gone: it is still a holder.          *)
LEMMA ReadKeeps ==
    ASSUME NEW i \in Readers, DirtyInv, NextBlock(i) \/ ClientGone(i)
    PROVE  DirtyInv'
  <1> USE CopyNumbers
  <1>1. resp' = resp /\ offset' = offset /\ dob' = dob /\ Reads(i)
    BY DEF NextBlock, ClientGone, Active, Reads
  <1>2. PICK x \in 2 .. Size + 1 : reader' = [reader EXCEPT ![i].next = x]
    <2>1. CASE NextBlock(i)
      <3> DEFINE same == SameURL(getNextBlock(dob[reader[i].name], reader[i].next),
                                 reader[i].name)
                 x == IF same THEN reader[i].next + 1 ELSE Size + 1
      <3>1. x \in 2 .. Size + 1
        BY <2>1 DEF NextBlock, Active
      <3>2. reader' = [reader EXCEPT ![i].next = x]
        BY <2>1 DEF NextBlock
      <3> QED
        BY <3>1, <3>2
    <2>2. CASE ClientGone(i)
      <3>1. Size + 1 \in 2 .. Size + 1
        OBVIOUS
      <3>2. reader' = [reader EXCEPT ![i].next = Size + 1]
        BY <2>2 DEF ClientGone
      <3> QED
        BY <3>1, <3>2
    <2> QED
      BY <2>1, <2>2
  <1>3. /\ reader' \in [Readers -> Reading]
        /\ \A j \in Readers : reader'[j].name = reader[j].name
                             /\ reader'[j].copy = reader[j].copy
        /\ \A j \in Readers : Reads(j)' <=> Reads(j)
    BY <1>1, <1>2 DEF DirtyInv, Types, Reading, Reads
  <1>4. Types'
    BY <1>1, <1>3 DEF DirtyInv, Types
  <1>5. Linked'
    BY <1>1, <1>3 DEF DirtyInv, Linked, ReaderLinked, OwnerLinked, EntryLinked
  <1>6. \A n \in Names : Holders(n)' = Holders(n) /\ Originals(n)' = Originals(n)
    BY <1>1, <1>3 DEF Holders, Originals, Reads
  <1>7. \A n \in Names : Counted(n)'
    BY <1>1, <1>6, CountKept DEF DirtyInv, LocksCounted, Counted
  <1> QED
    BY <1>4, <1>5, <1>7 DEF DirtyInv, LocksCounted, Counted

(* A reader leaves.  The object goes with it when it is the last holder    *)
(* and the response has left before; otherwise somebody still has a lock.  *)
LEMMA EndKeeps ==
    ASSUME NEW i \in Readers, DirtyInv, EndReader(i)
    PROVE  DirtyInv'
  <1> USE CopyNumbers
  <1>0. Reads(i) /\ resp' = resp /\ offset' = offset
    BY DEF EndReader, Ended, Reads
  <1>1. PICK C : dob \in [Names -> Dob(C)]
    BY DEF DirtyInv, Types
  <1>2. PICK m \in Names : m = reader[i].name
    BY <1>0 DEF DirtyInv, Linked, ReaderLinked, OwnerLinked, EntryLinked
  <1> DEFINE d == [dob[m] EXCEPT !.locks = Down(@)]
             last == d.locks = 0 /\ d.lDel
  <1>3. Counted(m) /\ dob[m].copy # 0 /\ dob[m] # NoDob /\ dob[m].copy = reader[i].copy
    BY <1>0, <1>2
      DEF DirtyInv, Linked, ReaderLinked, OwnerLinked, EntryLinked, LocksCounted,
          Counted, NoDob, Dirty
  <1>4. dob[m] \in Dob(C) /\ dob[m].locks \in Char /\ dob[m].locks # 0
    BY <1>1, <1>0, <1>2, <1>3 DEF Dob, Counted
  <1>5. /\ d \in Dob(C) /\ d.copy = dob[m].copy /\ d.locks = Down(dob[m].locks)
        /\ d.lDel = dob[m].lDel /\ d.used = dob[m].used
    BY <1>4, CharTypes DEF Dob
  <1>6. d # NoDob
    BY <1>3, <1>5 DEF NoDob, Dirty
  <1>7. /\ dob' = [dob EXCEPT ![m] = IF last THEN NoDob ELSE d]
        /\ reader' = [reader EXCEPT ![i] = NotReading(Size + 2)]
    BY <1>2 DEF EndReader
  <1> HIDE DEF d
  <1>8. /\ reader' \in [Readers -> Reading] /\ ~Reads(i)'
        /\ \A j \in Readers \ {i} : reader'[j] = reader[j]
    BY <1>7 DEF DirtyInv, Types, Reading, NotReading, Reads
  <1>9. /\ \A n \in Names \ {m} : dob'[n] = dob[n]
        /\ dob'[m] = IF last THEN NoDob ELSE d
    BY <1>1, <1>0, <1>2, <1>7
  <1>10. Types'
    <2>1. NoDob \in Dob(C \cup {<<>>}) /\ d \in Dob(C \cup {<<>>})
      BY <1>5, CharTypes DEF NoDob, Dirty, Dob
    <2>2. dob' \in [Names -> Dob(C \cup {<<>>})]
      BY <1>1, <1>7, <2>1 DEF Dob
    <2> QED
      BY <2>2, <1>0, <1>2, <1>8 DEF DirtyInv, Types
  <1>11. i \in Holders(m) /\ \A j \in Readers : Reads(j) /\ reader[j].name = m => j \in Holders(m)
    BY <1>0, <1>2, <1>3
      DEF DirtyInv, Linked, ReaderLinked, OwnerLinked, EntryLinked, Holders, Reads
  <1>12. \A n \in Names : Originals(n)' = Originals(n)
    BY <1>0, <1>2 DEF Originals
  <1>13. \A n \in Names \ {m} : Holders(n)' = Holders(n)
    BY <1>2, <1>8, <1>9 DEF Holders, Reads
  <1>14. \A n \in Names \ {m} : Counted(n)'
    BY <1>9, <1>12, <1>13, CountKept DEF DirtyInv, LocksCounted, Counted
  <1>15. /\ Cardinality(Holders(m) \ {i}) = Cardinality(Holders(m)) - 1
         /\ Cardinality(Holders(m)) \in Nat /\ Cardinality(Originals(m)) \in Nat
         /\ Cardinality(Holders(m) \ {i}) \in Nat /\ IsFiniteSet(Holders(m) \ {i})
         /\ IsFiniteSet(Originals(m))
    BY <1>11, Finite, FS_RemoveElement, FS_CardinalityType
  <1> DEFINE c == Cardinality(Holders(m) \ {i}) + Cardinality(Originals(m))
  <1>16. /\ d.locks = ToChar(c) /\ c \in Nat
         /\ d.locks = 0 <=> c = 0
    <2>1. Cardinality(Holders(m)) + 1 < 2 * CharHalf
      BY FewHolders DEF Holders
    <2>2. Cardinality(Originals(m)) \in {0, 1}
      BY OneOriginal
    <2>3. c \in Nat /\ c + 1 < 2 * CharHalf
          /\ Cardinality(Holders(m)) + Cardinality(Originals(m)) = c + 1
      BY <2>1, <2>2, <1>15, CharAssumption
    <2>4. dob[m].locks = ToChar(c + 1)
      BY <2>3, <1>3 DEF Counted
    <2> HIDE DEF c
    <2> QED
      BY <2>3, <2>4, <1>5, CharSteps
  <1>17. CASE last
    <2>1. Originals(m) = {} /\ Holders(m) \ {i} = {}
      <3>1. Originals(m) = {}
        BY <1>3, <1>5, <1>17 DEF Counted
      <3>2. Cardinality(Holders(m) \ {i}) = 0
        BY <1>15, <1>16, <1>17
      <3> QED
        BY <3>1, <3>2, <1>15, FS_EmptySet
    <2>2. dob'[m] = NoDob /\ NoDob.copy = 0 /\ NoDob.locks = 0 /\ NoDob.lDel = FALSE
      BY <1>9, <1>17 DEF NoDob, Dirty
    <2>3. \A j \in Readers : Reads(j)' => reader'[j].name # m
      BY <2>1, <1>8, <1>11 DEF Reads
    <2>4. \A k \in Copies : resp[k].dob => Name[k] # m
      BY <2>1 DEF Originals
    <2>5. Linked'
      <3>1. ASSUME NEW j \in Readers PROVE ReaderLinked(j)'
        BY <2>3, <1>8, <1>9 DEF DirtyInv, Linked, ReaderLinked, Reads
      <3>2. ASSUME NEW j \in Copies PROVE OwnerLinked(j)'
        BY <2>4, <1>0, <1>9, CopyNumbers DEF DirtyInv, Linked, OwnerLinked
      <3>3. ASSUME NEW n \in Names PROVE EntryLinked(n)'
        BY <2>2, <1>9 DEF DirtyInv, Linked, EntryLinked
      <3> QED
        BY <3>1, <3>2, <3>3 DEF Linked
    <2>6. Holders(m)' = {}
      BY <2>3 DEF Holders, Reads
    <2>7. Counted(m)'
      <3>1. Cardinality(Holders(m)') = 0 /\ Cardinality(Originals(m)') = 0
        BY <2>1, <2>6, <1>0, <1>2, <1>12, FS_EmptySet
      <3>2. ToChar(0 + 0) = 0
        BY CharTypes
      <3> QED
        BY <2>2, <3>1, <3>2 DEF Counted
    <2> QED
      BY <2>5, <2>7, <1>10, <1>14 DEF DirtyInv, LocksCounted, Counted
  <1>18. CASE ~last
    <2>1. dob'[m] = d
      BY <1>9, <1>18
    <2>2. Linked'
      <3>1. ASSUME NEW j \in Readers PROVE ReaderLinked(j)'
        BY <2>1, <1>5, <1>8, <1>9 DEF DirtyInv, Linked, ReaderLinked, Reads
      <3>2. ASSUME NEW j \in Copies PROVE OwnerLinked(j)'
        BY <2>1, <1>0, <1>5, <1>9, CopyNumbers DEF DirtyInv, Linked, OwnerLinked
      <3>3. ASSUME NEW n \in Names PROVE EntryLinked(n)'
        BY <2>1, <1>3, <1>5, <1>6, <1>9 DEF DirtyInv, Linked, EntryLinked
      <3> QED
        BY <3>1, <3>2, <3>3 DEF Linked
    <2>3. Holders(m)' = Holders(m) \ {i}
      BY <2>1, <1>5, <1>8, <1>11 DEF Holders, Reads
    <2>4. d.locks # 0
      <3>1. CASE d.lDel
        BY <3>1, <1>15, <1>16, <1>18
      <3>2. CASE ~d.lDel
        <4>1. Originals(m) # {}
          BY <3>2, <1>3, <1>5 DEF Counted
        <4>2. Cardinality(Originals(m)) # 0
          BY <4>1, <1>15, FS_EmptySet
        <4> QED
          BY <4>2, <1>15, <1>16
      <3> QED
        BY <3>1, <3>2
    <2>5. Counted(m)'
      BY <2>1, <2>3, <2>4, <1>0, <1>2, <1>3, <1>5, <1>6, <1>12, <1>16 DEF Counted
    <2> QED
      BY <2>2, <2>5, <1>10, <1>14 DEF DirtyInv, LocksCounted, Counted
  <1> QED
    BY <1>17, <1>18

(* A step of the log that leaves the response its dirty object, and the    *)
(* objects their locks.                                                    *)
LEMMA OwnersKept ==
    ASSUME DirtyInv, Types', reader' = reader,
           \A k \in Copies : resp'[k].dob <=> resp[k].dob,
           \A n \in Names : /\ dob'[n].copy = dob[n].copy /\ dob'[n].locks = dob[n].locks
                            /\ dob'[n].lDel = dob[n].lDel /\ dob'[n].used = dob[n].used
                            /\ dob'[n] = NoDob <=> dob[n] = NoDob,
           \A k \in Copies : /\ resp'[k].at \in {"none", "gone"} => ~resp[k].dob
                             /\ resp'[k].at = "done" => resp[k].dob
    PROVE  DirtyInv'
  <1> USE CopyNumbers
  <1>1. Linked'
    <2>1. ASSUME NEW j \in Readers PROVE ReaderLinked(j)'
      BY DEF DirtyInv, Linked, ReaderLinked, Reads
    <2>2. ASSUME NEW j \in Copies PROVE OwnerLinked(j)'
      BY CopyNumbers DEF DirtyInv, Linked, OwnerLinked
    <2>3. ASSUME NEW n \in Names PROVE EntryLinked(n)'
      BY DEF DirtyInv, Linked, EntryLinked
    <2> QED
      BY <2>1, <2>2, <2>3 DEF Linked
  <1>2. \A n \in Names : Holders(n)' = Holders(n) /\ Originals(n)' = Originals(n)
    BY DEF Holders, Originals
  <1>3. \A n \in Names : Counted(n)'
    BY <1>2, CountKept DEF DirtyInv, LocksCounted, Counted
  <1> QED
    BY <1>1, <1>3 DEF DirtyInv, LocksCounted, Counted

(* An object leaves the dirty cache with its response: nobody reads it.    *)
LEMMA LastOriginal ==
    ASSUME NEW k \in Copies, NEW m \in Names, m = Name[k], DirtyInv, Types',
           reader' = reader, Holders(m) = {}, resp[k].dob, ~resp'[k].dob,
           \A j \in Copies \ {k} : resp'[j].at = resp[j].at /\ resp'[j].dob = resp[j].dob,
           resp'[k].at # "done", dob'[m] = NoDob,
           \A n \in Names \ {m} : dob'[n] = dob[n]
    PROVE  DirtyInv'
  <1> USE CopyNumbers
  <1>1. NoDob.copy = 0 /\ NoDob.locks = 0 /\ NoDob.lDel = FALSE
    BY DEF NoDob, Dirty
  <1>2. \A j \in Readers : Reads(j) => reader[j].name # m
    BY DEF DirtyInv, Linked, ReaderLinked, OwnerLinked, EntryLinked, Holders, Reads
  <1>3. \A j \in Copies \ {k} : resp[j].dob => Name[j] # m
    BY DEF DirtyInv, Linked, ReaderLinked, OwnerLinked, EntryLinked
  <1>4. Linked'
    <2>1. ASSUME NEW j \in Readers PROVE ReaderLinked(j)'
      BY <1>1, <1>2 DEF DirtyInv, Linked, ReaderLinked, Reads
    <2>2. ASSUME NEW j \in Copies PROVE OwnerLinked(j)'
      <3>1. CASE j = k
        BY <3>1 DEF OwnerLinked
      <3>2. CASE j # k
        <4>1. /\ resp'[j].at = resp[j].at /\ resp'[j].dob = resp[j].dob
              /\ OwnerLinked(j) /\ Name[j] \in Names /\ (resp[j].dob => Name[j] # m)
          BY <3>2, <1>3, CopyNumbers DEF DirtyInv, Linked
        <4> QED
          BY <4>1 DEF OwnerLinked
      <3> QED
        BY <3>1, <3>2
    <2>3. ASSUME NEW n \in Names PROVE EntryLinked(n)'
      BY <1>1 DEF DirtyInv, Linked, EntryLinked
    <2> QED
      BY <2>1, <2>2, <2>3 DEF Linked
  <1>5. Holders(m)' = {} /\ Originals(m)' = {}
    BY <1>2, <1>3 DEF Holders, Originals, Reads
  <1>6. Counted(m)'
    <2>1. Cardinality(Holders(m)') = 0 /\ Cardinality(Originals(m)') = 0
      BY <1>5, FS_EmptySet
    <2>2. ToChar(0 + 0) = 0
      BY CharTypes
    <2> QED
      BY <2>1, <2>2, <1>1 DEF Counted
  <1>7. \A n \in Names \ {m} : Holders(n)' = Holders(n) /\ Originals(n)' = Originals(n)
    BY DEF Holders, Originals
  <1>8. \A n \in Names \ {m} : Counted(n)'
    BY <1>7, CountKept DEF DirtyInv, LocksCounted, Counted
  <1> QED
    BY <1>4, <1>6, <1>8 DEF DirtyInv, LocksCounted, Counted

(* A response gets its place: an object that has had readers moves and     *)
(* keeps its locks, one that has had none leaves the dirty cache.          *)
LEMMA PlaceKeeps ==
    ASSUME NEW k \in Copies, DirtyInv, Place(k)
    PROVE  DirtyInv'
  <1> DEFINE m == Name[k]
  <1> USE CopyNumbers
  <1>1. PICK C : dob \in [Names -> Dob(C)]
    BY DEF DirtyInv, Types
  <1>2. m \in Names /\ reader' = reader /\ Start \in Nat /\ offset' \in Nat
        /\ resp[k].at = "pending"
    BY DEF DirtyInv, Types, Place, Start
  <1>3. /\ resp' \in [Copies -> Resp] /\ resp'[k].at = "placed"
        /\ resp'[k].dob <=> Moves(k)
        /\ \A j \in Copies \ {k} : resp'[j].at = resp[j].at /\ resp'[j].dob = resp[j].dob
    <2> DEFINE others == {j \in Copies : resp[j].at = "placed"}
               own == [at |-> "placed", dob |-> Moves(k), start |-> Start,
                       wrapped |-> Wraps /\ others # {}]
               late(j) == [resp[j] EXCEPT !.wrapped = resp[j].wrapped \/ Wraps]
    <2>1. own \in Resp /\ own.at = "placed" /\ own.dob = Moves(k)
      BY <1>2 DEF Resp, Moves, Wraps
    <2>2. ASSUME NEW j \in Copies
          PROVE  late(j) \in Resp /\ late(j).at = resp[j].at /\ late(j).dob = resp[j].dob
      BY DEF DirtyInv, Types, Resp, Wraps
    <2>3. resp' = [j \in Copies |-> IF j = k THEN own
                                    ELSE IF j \in others THEN late(j) ELSE resp[j]]
      BY DEF Place
    <2>4. resp \in [Copies -> Resp]
      BY DEF DirtyInv, Types
    <2> HIDE DEF own, late, others
    <2> QED
      BY <2>1, <2>2, <2>3, <2>4
  <1>4. CASE Moves(k)
    <2>1. PICK g : dob' = [dob EXCEPT ![m].hoc = TRUE, ![m].cells = g]
      BY <1>4 DEF Place
    <2> DEFINE d == [dob[m] EXCEPT !.hoc = TRUE, !.cells = g]
    <2>2. dob' = [dob EXCEPT ![m] = d]
      BY <2>1, <1>1, <1>2 DEF Dob
    <2>3. /\ d \in Dob(C \cup {g}) /\ d.copy = dob[m].copy /\ d.locks = dob[m].locks
          /\ d.lDel = dob[m].lDel /\ d.used = dob[m].used
      <3>1. dob[m] \in Dob(C)
        BY <1>1, <1>2
      <3> QED
        BY <3>1, Moved, ZenonT(30)
    <2> HIDE DEF d
    <2>4. dob[m].copy = k
      BY <1>4 DEF DirtyInv, Linked, ReaderLinked, OwnerLinked, EntryLinked, Moves
    <2>5. d # NoDob /\ dob[m] # NoDob
      <3>1. NoDob.copy = 0 /\ k # 0
        BY DEF NoDob, Dirty
      <3> QED
        BY <3>1, <2>3, <2>4
    <2>6. Types'
      <3>1. dob' \in [Names -> Dob(C \cup {g})]
        BY <1>1, <1>2, <2>2, <2>3 DEF Dob
      <3> QED
        BY <3>1, <1>2, <1>3 DEF DirtyInv, Types
    <2>7. \A n \in Names : /\ dob'[n].copy = dob[n].copy /\ dob'[n].locks = dob[n].locks
                           /\ dob'[n].lDel = dob[n].lDel /\ dob'[n].used = dob[n].used
                           /\ dob'[n] = NoDob <=> dob[n] = NoDob
      BY <1>1, <1>2, <2>2, <2>3, <2>5
    <2>8. \A j \in Copies : /\ resp'[j].dob <=> resp[j].dob
                            /\ resp'[j].at \in {"none", "gone"} => ~resp[j].dob
                            /\ resp'[j].at = "done" => resp[j].dob
      BY <1>3, <1>4 DEF DirtyInv, Linked, ReaderLinked, OwnerLinked, EntryLinked, Moves
    <2> QED
      BY <2>6, <2>7, <2>8, <1>2, OwnersKept
  <1>5. CASE ~Moves(k)
    <2>1. CASE resp[k].dob
      <3>1. dob' = [dob EXCEPT ![m] = NoDob] /\ ~dob[m].used
        BY <1>5, <2>1 DEF Place, Moves
      <3>2. Types'
        <4>1. dob' \in [Names -> Dob(C \cup {<<>>})]
          BY <1>1, <1>2, <3>1, CharTypes DEF Dob, NoDob, Dirty
        <4> QED
          BY <4>1, <1>2, <1>3 DEF DirtyInv, Types
      <3>3. Holders(m) = {}
        BY <3>1, <1>2
          DEF DirtyInv, Linked, ReaderLinked, OwnerLinked, EntryLinked, Holders, Reads
      <3>4. dob'[m] = NoDob /\ \A n \in Names \ {m} : dob'[n] = dob[n]
        BY <1>1, <1>2, <3>1
      <3> QED
        BY <2>1, <3>2, <3>3, <3>4, <1>2, <1>3, <1>5, LastOriginal
    <2>2. CASE ~resp[k].dob
      <3>1. dob' = dob
        BY <1>5, <2>2 DEF Place
      <3>2. Types'
        BY <3>1, <1>2, <1>3 DEF DirtyInv, Types
      <3>3. \A j \in Copies : /\ resp'[j].dob <=> resp[j].dob
                              /\ resp'[j].at \in {"none", "gone"} => ~resp[j].dob
                              /\ resp'[j].at = "done" => resp[j].dob
        BY <2>2, <1>3, <1>5 DEF DirtyInv, Linked, ReaderLinked, OwnerLinked, EntryLinked
      <3> QED
        BY <3>1, <3>2, <3>3, <1>2, OwnersKept
    <2> QED
      BY <2>1, <2>2
  <1> QED
    BY <1>4, <1>5

(* A response is written or dropped: its object stays what it was.         *)
LEMMA FinishKeeps ==
    ASSUME NEW k \in Copies, NEW dropped \in BOOLEAN, DirtyInv, Finish(k, dropped)
    PROVE  DirtyInv'
  <1> USE CopyNumbers
  <1>1. dob' = dob /\ reader' = reader /\ offset' = offset /\ resp[k].at = "placed"
    BY DEF Finish
  <1>2. resp \in [Copies -> Resp]
    BY DEF DirtyInv, Types
  <1>3. /\ resp' \in [Copies -> Resp]
        /\ resp'[k] = IF resp[k].dob THEN Unplaced("done", TRUE) ELSE Unplaced("gone", FALSE)
        /\ \A j \in Copies \ {k} : resp'[j] = resp[j]
    BY <1>2 DEF Finish, Resp, Unplaced
  <1>4. Types'
    BY <1>1, <1>3 DEF DirtyInv, Types
  <1>5. \A j \in Copies : /\ resp'[j].dob <=> resp[j].dob
                          /\ resp'[j].at \in {"none", "gone"} => ~resp[j].dob
                          /\ resp'[j].at = "done" => resp[j].dob
    <2> SUFFICES ASSUME NEW j \in Copies
                 PROVE  /\ resp'[j].dob <=> resp[j].dob
                        /\ resp'[j].at \in {"none", "gone"} => ~resp[j].dob
                        /\ resp'[j].at = "done" => resp[j].dob
      OBVIOUS
    <2>1. CASE j = k
      BY <2>1, <1>3 DEF Unplaced
    <2>2. CASE j # k
      BY <2>2, <1>3 DEF DirtyInv, Linked, OwnerLinked
    <2> QED
      BY <2>1, <2>2
  <1> QED
    BY <1>1, <1>4, <1>5, OwnersKept

(* What an object is when its response leaves it to its readers.           *)
LEMMA Left ==
    ASSUME NEW C, NEW d \in Dob(C), Down(d.locks) # 0
    PROVE  LET e == LeaveToReaders([d EXCEPT !.locks = Down(d.locks)])
           IN  /\ e \in Dob(C) /\ e.copy = d.copy /\ e.used = d.used
               /\ e.locks = Down(d.locks) /\ e.lDel
  <1> DEFINE g == [d EXCEPT !.locks = Down(d.locks)]
  <1>1. /\ g \in Dob(C) /\ g.copy = d.copy /\ g.used = d.used
        /\ g.locks = Down(d.locks)
    BY CharTypes DEF Dob
  <1> HIDE DEF g
  <1>2. LET e == [g EXCEPT !.lDel = TRUE]
        IN  e \in Dob(C) /\ e.copy = g.copy /\ e.used = g.used /\ e.locks = g.locks /\ e.lDel
    BY <1>1 DEF Dob
  <1>3. LET e == LeaveToReaders(g)
        IN  e \in Dob(C) /\ e.copy = d.copy /\ e.used = d.used /\ e.locks = Down(d.locks) /\ e.lDel
    BY <1>1, <1>2 DEF LeaveToReaders
  <1> QED
    BY <1>3 DEF g

(* A response is deleted: it gives up its lock, and the object goes with   *)
(* it unless readers hold it.                                              *)
LEMMA DelResponseKeeps ==
    ASSUME NEW k \in Copies, DirtyInv, DelResponseTranPerm(k)
    PROVE  DirtyInv'
  <1> USE CopyNumbers
  <1>1. PICK C : dob \in [Names -> Dob(C)]
    BY DEF DirtyInv, Types
  <1>2. PICK m \in Names : m = Name[k]
    OBVIOUS
  <1>3. /\ reader' = reader /\ offset' = offset /\ resp[k].dob /\ dob[m].copy = k
        /\ resp \in [Copies -> Resp] /\ dob[m] \in Dob(C) /\ dob[m].locks \in Char
    BY <1>1, <1>2
      DEF DirtyInv, Types, Linked, ReaderLinked, OwnerLinked, EntryLinked,
          DelResponseTranPerm, Dob
  <1>4. /\ resp' \in [Copies -> Resp] /\ resp'[k] = Unplaced("gone", FALSE)
        /\ \A j \in Copies \ {k} : resp'[j] = resp[j]
    BY <1>3 DEF DelResponseTranPerm, Resp, Unplaced
  <1>5. resp'[k].at = "gone" /\ resp'[k].dob = FALSE
    BY <1>4 DEF Unplaced
  <1>6. Originals(m) = {k}
    <2>1. \A j \in Copies : resp[j].dob => dob[Name[j]].copy = j
      BY DEF DirtyInv, Linked, OwnerLinked
    <2> QED
      BY <2>1, <1>2, <1>3 DEF Originals
  <1>7. /\ Down(dob[m].locks) = ToChar(Cardinality(Holders(m)))
        /\ Cardinality(Holders(m)) \in Nat
        /\ Down(dob[m].locks) = 0 <=> Cardinality(Holders(m)) = 0
    <2>1. Cardinality(Originals(m)) = 1
      BY <1>6, FS_Singleton
    <2>2. dob[m].locks = ToChar(Cardinality(Holders(m)) + 1)
      BY <2>1, <1>2 DEF DirtyInv, LocksCounted
    <2>3. Cardinality(Holders(m)) \in Nat /\ Cardinality(Holders(m)) + 1 < 2 * CharHalf
      BY FewHolders DEF Holders
    <2> QED
      BY <2>2, <2>3, CharSteps
  <1>8. [dob[m] EXCEPT !.locks = Down(@)].locks = Down(dob[m].locks)
    BY <1>3 DEF Dob
  <1>9. CASE Down(dob[m].locks) # 0
    <2> DEFINE e == LeaveToReaders([dob[m] EXCEPT !.locks = Down(dob[m].locks)])
    <2>1. dob' = [dob EXCEPT ![m] = e]
      BY <1>2, <1>8, <1>9 DEF DelResponseTranPerm
    <2>2. /\ e \in Dob(C) /\ e.copy = dob[m].copy /\ e.used = dob[m].used
          /\ e.locks = Down(dob[m].locks) /\ e.lDel
      BY <1>3, <1>9, Left, Zenon
    <2> HIDE DEF e
    <2>3. dob'[m] = e /\ (\A n \in Names \ {m} : dob'[n] = dob[n]) /\ e # NoDob
      BY <1>1, <1>2, <1>3, <2>1, <2>2 DEF NoDob, Dirty
    <2>4. Types'
      <3>1. dob' \in [Names -> Dob(C)]
        BY <1>1, <1>2, <2>1, <2>2
      <3> QED
        BY <3>1, <1>3, <1>4 DEF DirtyInv, Types
    <2>4a. \A n \in Names : /\ dob'[n].copy = dob[n].copy /\ dob'[n].used = dob[n].used
                            /\ dob'[n].copy = 0 <=> dob'[n] = NoDob
      BY <1>3, <2>2, <2>3 DEF DirtyInv, Linked, ReaderLinked, OwnerLinked, EntryLinked
    <2>4b. \A j \in Copies : /\ resp'[j].dob => resp[j].dob
                             /\ resp'[j].at \in {"none", "gone"} => ~resp'[j].dob
                             /\ resp'[j].at = "done" => resp'[j].dob
      <3>1. \A j \in Copies : /\ resp[j].at \in {"none", "gone"} => ~resp[j].dob
                              /\ resp[j].at = "done" => resp[j].dob
        BY DEF DirtyInv, Linked, OwnerLinked
      <3>2. \A j \in Copies : j = k \/ resp'[j] = resp[j]
        BY <1>4
      <3> SUFFICES ASSUME NEW j \in Copies
                   PROVE  /\ resp'[j].dob => resp[j].dob
                          /\ resp'[j].at \in {"none", "gone"} => ~resp'[j].dob
                          /\ resp'[j].at = "done" => resp'[j].dob
        BY Zenon
      <3>3. CASE j = k
        BY <3>1, <3>3, <1>5, SMTT(30)
      <3>4. CASE resp'[j] = resp[j]
        BY <3>1, <3>4, Zenon
      <3> QED
        BY <3>2, <3>3, <3>4, Zenon
    <2>5. Linked'
      <3>1. ASSUME NEW j \in Readers PROVE ReaderLinked(j)'
        BY <1>3, <2>4a DEF DirtyInv, Linked, ReaderLinked, Reads
      <3>2. ASSUME NEW j \in Copies PROVE OwnerLinked(j)'
        BY <2>4a, <2>4b, CopyNumbers DEF DirtyInv, Linked, OwnerLinked
      <3>3. ASSUME NEW n \in Names PROVE EntryLinked(n)'
        BY <2>4a DEF DirtyInv, Linked, EntryLinked
      <3> QED
        BY <3>1, <3>2, <3>3 DEF Linked
    <2>6. Holders(m)' = Holders(m) /\ Originals(m)' = {}
      <3>1. Holders(m)' = Holders(m)
        BY <1>3, <2>4a DEF Holders
      <3>2. \A j \in Copies : resp'[j].dob => resp[j].dob /\ j # k
        BY <2>4b, <1>5
      <3> QED
        BY <3>1, <3>2, <1>6 DEF Originals
    <2>7. Counted(m)'
      <3>1. Cardinality(Originals(m)') = 0
        BY <2>6, FS_EmptySet
      <3> QED
        BY <3>1, <2>2, <2>3, <2>6, <1>7, <1>9 DEF Counted
    <2>8. \A n \in Names \ {m} : Counted(n)'
      <3>1. \A n \in Names \ {m} : Holders(n)' = Holders(n) /\ Originals(n)' = Originals(n)
        <4>1. \A n \in Names \ {m} : Holders(n)' = Holders(n)
          BY <1>3, <2>3 DEF Holders
        <4>2. \A j \in Copies : Name[j] # m => resp'[j].dob = resp[j].dob
          BY <1>2, <1>4
        <4>3. \A n \in Names \ {m} : Originals(n)' = Originals(n)
          BY <4>2 DEF Originals
        <4> QED
          BY <4>1, <4>3
      <3> QED
        BY <3>1, <2>3, CountKept DEF DirtyInv, LocksCounted, Counted
    <2> QED
      BY <2>4, <2>5, <2>7, <2>8 DEF DirtyInv, LocksCounted, Counted
  <1>10. CASE ~(Down(dob[m].locks) # 0)
    <2>1. dob' = [dob EXCEPT ![m] = NoDob]
      BY <1>2, <1>8, <1>10 DEF DelResponseTranPerm
    <2>2. Holders(m) = {}
      BY <1>7, <1>10, Finite, FS_EmptySet
    <2>3. dob'[m] = NoDob /\ \A n \in Names \ {m} : dob'[n] = dob[n]
      BY <1>1, <1>2, <2>1
    <2>4. Types'
      <3>1. dob' \in [Names -> Dob(C \cup {<<>>})]
        BY <1>1, <1>2, <2>1, CharTypes DEF Dob, NoDob, Dirty
      <3> QED
        BY <3>1, <1>3, <1>4 DEF DirtyInv, Types
    <2> QED
      BY <2>2, <2>3, <2>4, <1>2, <1>3, <1>4, <1>5, LastOriginal
  <1> QED
    BY <1>9, <1>10

(* Every step keeps the invariant; a block read from disk, or a client     *)
(* that closes its connection, touches no dirty object.                    *)
LEMMA NextDirty == DirtyInv /\ [Next]_vars => DirtyInv'
  <1> SUFFICES ASSUME DirtyInv, [Next]_vars PROVE DirtyInv'
    OBVIOUS
  <1>1. ASSUME UNCHANGED <<resp, dob, reader, offset>> PROVE DirtyInv'
    <2>1. Types'
      BY <1>1 DEF DirtyInv, Types
    <2> QED
      BY <1>1, <2>1, OwnersKept
        DEF DirtyInv, Linked, ReaderLinked, OwnerLinked, EntryLinked
  <1>2. ASSUME NEW k \in Copies, Complete(k) PROVE DirtyInv'
    BY <1>2, CompleteKeeps
  <1>3. ASSUME NEW k \in Copies, Place(k) PROVE DirtyInv'
    BY <1>3, PlaceKeeps
  <1>4. ASSUME NEW k \in Copies, DelResponseTranPerm(k) PROVE DirtyInv'
    BY <1>4, DelResponseKeeps
  <1>5. ASSUME NEW k \in Copies, NEW dropped \in BOOLEAN, Finish(k, dropped) PROVE DirtyInv'
    BY <1>5, FinishKeeps
  <1>6. ASSUME NEW i \in Readers, NEW n \in Names, JoinFlow(i, n) PROVE DirtyInv'
    BY <1>6, JoinKeeps
  <1>7. ASSUME NEW i \in Readers, NextBlock(i) \/ ClientGone(i) PROVE DirtyInv'
    BY <1>7, ReadKeeps
  <1>8. ASSUME NEW i \in Readers, EndReader(i) PROVE DirtyInv'
    BY <1>8, EndKeeps
  <1>9. ASSUME NEW o \in Offset, HandleDataHelperRead(o) PROVE DirtyInv'
    BY <1>9, <1>1 DEF HandleDataHelperRead
  <1>11. ASSUME NEW i \in Readers, ClientCloses(i) PROVE DirtyInv'
    BY <1>11, <1>1 DEF ClientCloses
  <1>10. CASE UNCHANGED vars
    BY <1>10, <1>1 DEF vars
  <1> QED
    BY <1>2, <1>3, <1>4, <1>5, <1>6, <1>7, <1>8, <1>9, <1>10, <1>11 DEF Next

(* However many responses and URLs there are, and as many readers as one   *)
(* char can count with the response (CharAssumption): a dirty object has   *)
(* as many locks as it has readers, and one more until its response is     *)
(* deleted (createDirtyObject, getDirtyObject, deleteDirtyObject), so it   *)
(* is never deleted under a reader and never left behind by the last.      *)
THEOREM LocksAlwaysCounted == Spec => []LocksCounted
  <1>1. DirtyInv => LocksCounted
    BY DEF DirtyInv
  <1> QED
    BY <1>1, InitDirty, NextDirty, PTL DEF Spec
=============================================================================

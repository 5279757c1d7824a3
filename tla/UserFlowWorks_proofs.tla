----------------------- MODULE UserFlowWorks_proofs ------------------------
(* The queues of a user connection, and what the functions of a proxy do   *)
(* to them, for every window, buffer and chunk size. No step of the        *)
(* specification is in this module.                                        *)
(*                                                                         *)
(* Leads(q, a, b) says that the pieces of the queue q cover the bytes from *)
(* a to b one after the other. Works(x, c, d) says that d is c after some  *)
(* work of proxy x that keeps its end of the stream; each function on one  *)
(* connection is shown to be such work.                                    *)
(*                                                                         *)
(* Bytes(q) is what the pieces of q weigh, and Climbs(q, lo, hi) says that *)
(* the acknowledgements in q do not go back and stay from lo to hi. Bound  *)
(* counts with them: no more arrives than has left (Under), no byte is     *)
(* acknowledged before its user took it (Acks), and a sender stops in time *)
(* (Within), so that what can pile up for a user is less than the two      *)
(* windows that SendDataPrivate has room for. Stays(c, d) says that the    *)
(* work that leads from c to d keeps a connection's part of it.            *)
EXTENDS UserFlow, WellFoundedInduction, TLAPS

(* A set of numbers that is not empty has a least one.                     *)
LEMMA LeastNumber ==
    ASSUME NEW T \in SUBSET Nat, T # {}
    PROVE  \E k \in T : \A j \in T : k <= j
  <1>1. PICK k \in T : \A j \in T : ~ (<<j, k>> \in OpToRel(<, Nat))
    BY NatLessThanWellFounded, WFMin, Zenon
  <1>2. k \in T /\ \A j \in T : ~ (j < k)
    BY <1>1, Zenon DEF OpToRel
  <1>3. k \in Nat
    BY <1>2
  <1> QED
    BY <1>2, <1>3

Types == {"open", "raw", "name", "ack", "close"}

(* A message; the interval of a piece of the stream is not empty.          *)
Messages == {m \in [type : Types, from : Nat, to : Int] : IsData(m) => m.from < m.to}
Pieces   == {m \in Messages : IsData(m)}

-----------------------------------------------------------------------------
(* LenWrite is a sum: f gives that of every prefix.                        *)
Sums(q, f) ==
    /\ f \in [0..Len(q) -> Int]
    /\ f[0] = 0
    /\ \A i \in 1..Len(q) : f[i] = f[i-1] + Size(q[i])

LEMMA SumsExist ==
    ASSUME NEW q \in Seq(Messages)
    PROVE  \E f : Sums(q, f)
  <1> DEFINE Upto(n, f) == /\ f \in [0..n -> Int]
                           /\ f[0] = 0
                           /\ \A i \in 1..n : f[i] = f[i-1] + Size(q[i])
             T == {n \in 0..Len(q) : ~ \E f : Upto(n, f)}
  <1>0. Len(q) \in Nat /\ \A i \in 1..Len(q) : Size(q[i]) \in Int
    <2>1. \A m \in Messages : Size(m) \in Int
      BY DEF Size, Messages
    <2>2. \A i \in 1..Len(q) : q[i] \in Messages
      OBVIOUS
    <2> QED
      BY <2>1, <2>2
  <1>1. SUFFICES ASSUME T # {} PROVE FALSE
    <2>1. SUFFICES ASSUME Len(q) \notin T PROVE \E f : Sums(q, f)
      BY SMTT(30)
    <2>2. PICK f : Upto(Len(q), f)
      BY <1>0, <2>1
    <2>3. Sums(q, f)
      BY <2>2 DEF Sums
    <2> QED
      BY <2>3
  <1>2. T \in SUBSET Nat
    BY <1>0
  <1>3. PICK n \in T : \A j \in T : n <= j
    BY <1>1, <1>2, LeastNumber, Zenon
  <1>4. CASE n = 0
    <2>1. Upto(0, [i \in 0..0 |-> 0])
      OBVIOUS
    <2> QED
      BY <2>1, <1>3, <1>4, Zenon
  <1>5. CASE n # 0
    <2>0. n \in 0..Len(q)
      BY <1>3
    <2>1. n \in 1..Len(q) /\ n - 1 \in 0..Len(q)
      BY <1>0, <1>5, <2>0
    <2>2. n - 1 \notin T
      <3> HIDE DEF T
      <3> QED BY <1>3, <2>1
    <2>3. PICK f : Upto(n - 1, f)
      BY <2>1, <2>2
    <2> DEFINE g == [i \in 0..n |-> IF i = n THEN f[n-1] + Size(q[n]) ELSE f[i]]
    <2>4. f[n-1] + Size(q[n]) \in Int
      BY <1>0, <2>1, <2>3
    <2>5. g \in [0..n -> Int]
      BY <2>1, <2>3, <2>4
    <2>6. g[0] = 0
      BY <2>1, <2>3
    <2>7. \A i \in 1..n : g[i] = g[i-1] + Size(q[i])
      <3> TAKE i \in 1..n
      <3>1. CASE i = n
        BY <2>1, <3>1
      <3>2. CASE i # n
        BY <2>1, <2>3, <3>2
      <3> QED
        BY <3>1, <3>2
    <2>8. Upto(n, g)
      BY <2>5, <2>6, <2>7, Zenon
    <2> HIDE DEF Upto, g
    <2> QED
      BY <2>8, <1>3
  <1> QED
    BY <1>4, <1>5

LEMMA LenWriteSums ==
    ASSUME NEW q \in Seq(Messages), NEW f, Sums(q, f)
    PROVE  LenWrite(q) = f[Len(q)]
  <1> DEFINE Sum(s) == [i \in 0..Len(q) |-> IF i = 0 THEN 0 ELSE s[i-1] + Size(q[i])]
             sum == CHOOSE s : s = Sum(s)
             T == {i \in 0..Len(q) : sum[i] # f[i]}
  <1>0. Len(q) \in Nat
    OBVIOUS
  <1>1. f = Sum(f)
    <2>1. f = [i \in 0..Len(q) |-> f[i]]
      BY DEF Sums
    <2>2. \A i \in 0..Len(q) : f[i] = Sum(f)[i]
      BY <1>0 DEF Sums
    <2> QED
      BY <2>1, <2>2
  <1>2. sum = Sum(sum)
    <2> HIDE DEF Sum
    <2> QED BY <1>1
  <1>3. LenWrite(q) = sum[Len(q)]
    BY DEF LenWrite
  <1> HIDE DEF sum
  <1>4. sum[0] = 0 /\ \A i \in 1..Len(q) : sum[i] = sum[i-1] + Size(q[i])
    <2>1. \A i \in 0..Len(q) : sum[i] = Sum(sum)[i]
      BY <1>2
    <2> QED
      BY <2>1, <1>0
  <1>5. SUFFICES ASSUME T # {} PROVE FALSE
    BY <1>0, <1>3
  <1>6. PICK n \in T : \A j \in T : n <= j
    <2>1. T \in SUBSET Nat
      BY <1>0
    <2> QED
      BY <2>1, <1>5, LeastNumber, Zenon
  <1>7. n # 0
    BY <1>4, <1>6 DEF Sums
  <1>8. n \in 1..Len(q) /\ n - 1 \in 0..Len(q) /\ n - 1 \notin T
    BY <1>0, <1>6, <1>7
  <1>9. sum[n-1] = f[n-1]
    BY <1>8
  <1> QED
    BY <1>4, <1>6, <1>8, <1>9 DEF Sums

(* A sum of sizes of pieces is a number.                                   *)
LEMMA LenWriteType ==
    ASSUME NEW q \in Seq(Pieces)
    PROVE  LenWrite(q) \in Nat
  <1>0. q \in Seq(Messages) /\ Len(q) \in Nat
    BY DEF Pieces
  <1>1. PICK f : Sums(q, f)
    BY <1>0, SumsExist
  <1> DEFINE T == {i \in 0..Len(q) : f[i] \notin Nat}
  <1>2. SUFFICES ASSUME T # {} PROVE FALSE
    BY <1>0, <1>1, LenWriteSums
  <1>3. PICK n \in T : \A j \in T : n <= j
    <2>1. T \in SUBSET Nat
      BY <1>0
    <2> QED
      BY <2>1, <1>2, LeastNumber, Zenon
  <1>4. n # 0
    BY <1>1, <1>3 DEF Sums
  <1>5. n \in 1..Len(q) /\ n - 1 \in 0..Len(q) /\ n - 1 \notin T
    BY <1>0, <1>3, <1>4
  <1>6. f[n-1] \in Nat
    BY <1>5
  <1>7. Size(q[n]) \in Nat
    <2>1. q[n] \in Pieces
      BY <1>5
    <2> QED
      BY <2>1 DEF Pieces, Messages, Size
  <1> QED
    BY <1>1, <1>3, <1>5, <1>6, <1>7 DEF Sums

-----------------------------------------------------------------------------
(* The pieces among the messages q lead from offset a to offset b: pos[i]  *)
(* is the offset reached after i messages.                                 *)
Follows(q, pos) ==
    \A i \in 1..Len(q) :
        IF IsData(q[i]) THEN q[i].from = pos[i-1] /\ q[i].to = pos[i]
        ELSE pos[i] = pos[i-1]
Leads(q, a, b) ==
    \E pos \in [0..Len(q) -> Int] : pos[0] = a /\ pos[Len(q)] = b /\ Follows(q, pos)

LEMMA LeadsEmpty ==
    ASSUME NEW a \in Int
    PROVE  /\ Leads(<<>>, a, a)
           /\ \A b : Leads(<<>>, a, b) => a = b
  <1>1. Len(<<>>) = 0
    OBVIOUS
  <1> DEFINE pos == [i \in 0..0 |-> a]
  <1>2. pos \in [0..Len(<<>>) -> Int] /\ pos[0] = a /\ pos[Len(<<>>)] = a
    BY <1>1
  <1>3. Follows(<<>>, pos)
    BY <1>1 DEF Follows
  <1>4. Leads(<<>>, a, a)
    <2> HIDE DEF pos
    <2> QED BY <1>2, <1>3 DEF Leads
  <1>5. \A b : Leads(<<>>, a, b) => a = b
    BY <1>1 DEF Leads
  <1> QED
    BY <1>4, <1>5

LEMMA LeadsType ==
    ASSUME NEW q \in Seq(Messages), NEW a, NEW b, Leads(q, a, b)
    PROVE  a \in Int /\ b \in Int
  <1>1. Len(q) \in Nat
    OBVIOUS
  <1> QED
    BY <1>1 DEF Leads

LEMMA LeadsConcat ==
    ASSUME NEW q \in Seq(Messages), NEW r \in Seq(Messages),
           NEW a, NEW b, NEW c, Leads(q, a, b), Leads(r, b, c)
    PROVE  Leads(q \o r, a, c)
  <1>1. PICK f \in [0..Len(q) -> Int] :
            f[0] = a /\ f[Len(q)] = b /\ Follows(q, f)
    BY DEF Leads
  <1>2. PICK g \in [0..Len(r) -> Int] :
            g[0] = b /\ g[Len(r)] = c /\ Follows(r, g)
    BY DEF Leads
  <1> DEFINE n == Len(q)
             m == Len(r)
             h == [i \in 0..(n + m) |-> IF i <= n THEN f[i] ELSE g[i - n]]
  <1>3. n \in Nat /\ m \in Nat /\ q \o r \in Seq(Messages) /\ Len(q \o r) = n + m
    OBVIOUS
  <1>4. \A i \in 1..(n+m) : (q \o r)[i] = IF i <= n THEN q[i] ELSE r[i - n]
    OBVIOUS
  <1>5. h \in [0..(n+m) -> Int]
    <2> SUFFICES ASSUME NEW i \in 0..(n+m)
                 PROVE  (IF i <= n THEN f[i] ELSE g[i-n]) \in Int
      OBVIOUS
    <2>1. CASE i <= n
      BY <1>1, <1>3, <2>1
    <2>2. CASE ~(i <= n)
      <3>1. i - n \in 0..m
        BY <1>3, <2>2
      <3> QED
        BY <1>2, <3>1, <2>2
    <2> QED
      BY <2>1, <2>2
  <1>6. h[0] = a
    BY <1>1, <1>3
  <1>7. h[n+m] = c
    <2>1. CASE m = 0
      BY <1>1, <1>2, <1>3, <2>1
    <2>2. CASE m # 0
      <3>1. ~(n + m <= n) /\ n + m - n = m /\ n + m \in 0..(n+m)
        BY <1>3, <2>2
      <3> QED
        BY <1>2, <3>1
    <2> QED
      BY <2>1, <2>2
  <1>8. \A i \in 0..n : h[i] = f[i]
    BY <1>3
  <1>9. \A i \in 0..m : h[n+i] = g[i]
    <2> TAKE i \in 0..m
    <2>1. CASE i = 0
      BY <1>1, <1>2, <1>3, <2>1
    <2>2. CASE i # 0
      <3>1. ~(n + i <= n) /\ n + i - n = i /\ n + i \in 0..(n+m)
        BY <1>3, <2>2
      <3> QED
        BY <3>1
    <2> QED
      BY <2>1, <2>2
  <1>10. Follows(q \o r, h)
    <2> SUFFICES ASSUME NEW i \in 1..(n+m)
                 PROVE  IF IsData((q \o r)[i])
                        THEN (q \o r)[i].from = h[i-1] /\ (q \o r)[i].to = h[i]
                        ELSE h[i] = h[i-1]
      BY <1>3, Zenon DEF Follows
    <2> HIDE DEF h
    <2>1. CASE i <= n
      <3>1. i \in 1..n /\ i - 1 \in 0..n /\ i \in 0..n
        BY <1>3, <2>1
      <3>2. (q \o r)[i] = q[i] /\ h[i] = f[i] /\ h[i-1] = f[i-1]
        BY <1>4, <1>8, <2>1, <3>1
      <3> QED
        BY <1>1, <3>1, <3>2 DEF Follows
    <2>2. CASE ~(i <= n)
      <3> DEFINE j == i - n
      <3>1. j \in 1..m /\ j - 1 \in 0..m /\ j \in 0..m /\ n + j = i /\ n + (j - 1) = i - 1
        BY <1>3, <2>2
      <3>2. (q \o r)[i] = r[j]
        BY <1>4, <2>2
      <3> HIDE DEF j
      <3>3. h[i] = g[j] /\ h[i-1] = g[j-1]
        BY <1>9, <3>1
      <3> QED
        BY <1>2, <3>1, <3>2, <3>3 DEF Follows
    <2> QED
      BY <2>1, <2>2
  <1> HIDE DEF h
  <1> QED
    BY <1>3, <1>5, <1>6, <1>7, <1>10, Zenon DEF Leads

LEMMA LeadsOne ==
    ASSUME NEW m \in Messages, NEW a \in Int
    PROVE  /\ IsData(m) => Leads(<<m>>, m.from, m.to)
           /\ ~IsData(m) => Leads(<<m>>, a, a)
  <1>0. m.from \in Int /\ m.to \in Int /\ Len(<<m>>) = 1 /\ <<m>>[1] = m
    BY DEF Messages
  <1>1. ASSUME NEW b \in Int, NEW c \in Int,
               IF IsData(m) THEN m.from = b /\ m.to = c ELSE b = c
        PROVE  Leads(<<m>>, b, c)
    <2> DEFINE pos == [i \in 0..1 |-> IF i = 0 THEN b ELSE c]
    <2>1. pos \in [0..1 -> Int] /\ pos[0] = b /\ pos[1] = c
      OBVIOUS
    <2> HIDE DEF pos
    <2>2. Follows(<<m>>, pos)
      <3>1. \A i \in 1..1 : i = 1 /\ i - 1 = 0
        OBVIOUS
      <3> QED
        BY <1>0, <1>1, <2>1, <3>1 DEF Follows
    <2> QED
      BY <1>0, <2>1, <2>2 DEF Leads
  <1> QED
    BY <1>0, <1>1

LEMMA LeadsAppend ==
    ASSUME NEW q \in Seq(Messages), NEW m \in Messages, NEW a, NEW b, Leads(q, a, b)
    PROVE  /\ IsData(m) /\ m.from = b => Leads(Append(q, m), a, m.to)
           /\ ~IsData(m) => Leads(Append(q, m), a, b)
  <1>1. Append(q, m) = q \o <<m>> /\ <<m>> \in Seq(Messages)
    OBVIOUS
  <1>2. b \in Int
    BY LeadsType
  <1>3. ASSUME IsData(m), m.from = b PROVE Leads(Append(q, m), a, m.to)
    <2>1. Leads(<<m>>, b, m.to)
      BY <1>2, <1>3, LeadsOne
    <2> QED
      BY <1>1, <2>1, LeadsConcat, Zenon
  <1>4. ASSUME ~IsData(m) PROVE Leads(Append(q, m), a, b)
    <2>1. Leads(<<m>>, b, b)
      BY <1>2, <1>4, LeadsOne
    <2> QED
      BY <1>1, <2>1, LeadsConcat, Zenon
  <1> QED
    BY <1>3, <1>4

LEMMA LeadsSplit ==
    ASSUME NEW q \in Seq(Messages), NEW a, NEW b, Leads(q, a, b), NEW k \in 0..Len(q)
    PROVE  \E c \in Int : /\ Leads(SubSeq(q, 1, k), a, c)
                          /\ Leads(SubSeq(q, k+1, Len(q)), c, b)
  <1>1. PICK f \in [0..Len(q) -> Int] :
            f[0] = a /\ f[Len(q)] = b /\ Follows(q, f)
    BY DEF Leads
  <1> DEFINE n == Len(q)
             p == SubSeq(q, 1, k)
             r == SubSeq(q, k+1, n)
             g == [i \in 0..(n-k) |-> f[k+i]]
             h == [i \in 0..k |-> f[i]]
  <1>2. n \in Nat /\ k \in Nat /\ k <= n /\ n - k \in Nat
    OBVIOUS
  <1>3. Len(p) = k /\ \A i \in 1..k : p[i] = q[i]
    BY <1>2
  <1>4. Len(r) = n - k /\ \A i \in 1..(n-k) : r[i] = q[k+i]
    <2>1. Len(r) = n - k
      BY <1>2
    <2>2. ASSUME NEW i \in 1..(n-k) PROVE r[i] = q[k+i]
      <3>1. r[i] = q[(k+1)+i-1]
        BY <1>2, <2>1
      <3>2. (k+1)+i-1 = k+i
        BY <1>2
      <3> QED
        BY <3>1, <3>2
    <2> QED
      BY <2>1, <2>2
  <1>5. f[k] \in Int
    BY <1>1, <1>2
  <1>6. Leads(p, a, f[k])
    <2>1. h \in [0..k -> Int] /\ h[0] = a /\ h[k] = f[k]
      BY <1>1, <1>2
    <2>2. \A i \in 0..k : h[i] = f[i]
      OBVIOUS
    <2> HIDE DEF h, p
    <2>3. Follows(p, h)
      <3> SUFFICES ASSUME NEW i \in 1..k
                   PROVE  IF IsData(p[i]) THEN p[i].from = h[i-1] /\ p[i].to = h[i]
                          ELSE h[i] = h[i-1]
        BY <1>3 DEF Follows
      <3>1. i \in 1..n /\ i \in 0..k /\ i - 1 \in 0..k
        BY <1>2
      <3>2. p[i] = q[i] /\ h[i] = f[i] /\ h[i-1] = f[i-1]
        BY <1>3, <2>2, <3>1
      <3> QED
        BY <1>1, <3>1, <3>2 DEF Follows
    <2> QED
      BY <1>3, <2>1, <2>3 DEF Leads
  <1>7. Leads(r, f[k], b)
    <2>1. \A i \in 0..(n-k) : k + i \in 0..n
      BY <1>2
    <2>2. g \in [0..(n-k) -> Int]
      BY <1>1, <2>1
    <2>3. \A i \in 0..(n-k) : g[i] = f[k+i]
      OBVIOUS
    <2> HIDE DEF g, r
    <2>4. g[0] = f[k] /\ g[n-k] = b
      <3>1. 0 \in 0..(n-k) /\ n-k \in 0..(n-k) /\ k + 0 = k /\ k + (n-k) = n
        BY <1>2
      <3> QED
        BY <1>1, <2>3, <3>1
    <2>5. Follows(r, g)
      <3> SUFFICES ASSUME NEW i \in 1..(n-k)
                   PROVE  IF IsData(r[i]) THEN r[i].from = g[i-1] /\ r[i].to = g[i]
                          ELSE g[i] = g[i-1]
        BY <1>4 DEF Follows
      <3>1. k + i \in 1..n /\ i \in 0..(n-k) /\ i - 1 \in 0..(n-k) /\ k + (i-1) = (k+i)-1
        BY <1>2
      <3>2. r[i] = q[k+i] /\ g[i] = f[k+i] /\ g[i-1] = f[(k+i)-1]
        BY <1>4, <2>3, <3>1, SMTT(30)
      <3> QED
        BY <1>1, <3>1, <3>2 DEF Follows
    <2> QED
      BY <1>4, <2>2, <2>4, <2>5 DEF Leads
  <1> QED
    BY <1>5, <1>6, <1>7

LEMMA LeadsTail ==
    ASSUME NEW q \in Seq(Messages), q # <<>>, NEW a, NEW b, Leads(q, a, b)
    PROVE  /\ IsData(Head(q)) => Head(q).from = a /\ Leads(Tail(q), Head(q).to, b)
           /\ ~IsData(Head(q)) => Leads(Tail(q), a, b)
  <1>1. Len(q) \in Nat /\ 1 \in 0..Len(q) /\ 1 \in 1..Len(q)
    OBVIOUS
  <1>2. PICK c \in Int : /\ Leads(SubSeq(q, 1, 1), a, c)
                         /\ Leads(SubSeq(q, 1+1, Len(q)), c, b)
    BY <1>1, LeadsSplit
  <1>3. SubSeq(q, 1+1, Len(q)) = Tail(q)
    BY <1>1
  <1> DEFINE p == SubSeq(q, 1, 1)
  <1>4. Len(p) = 1 /\ p[1] = Head(q)
    BY <1>1
  <1>5. PICK pos \in [0..1 -> Int] : pos[0] = a /\ pos[1] = c /\ Follows(p, pos)
    <2> HIDE DEF p
    <2> QED BY <1>2, <1>4 DEF p, Leads
  <1> HIDE DEF p
  <1>6. IF IsData(p[1]) THEN p[1].from = pos[0] /\ p[1].to = pos[1] ELSE pos[1] = pos[0]
    <2>1. 1 \in 1..1 /\ 1 - 1 = 0
      OBVIOUS
    <2> QED
      BY <1>4, <1>5, <2>1 DEF Follows
  <1> QED
    BY <1>2, <1>3, <1>4, <1>5, <1>6, Zenon

(* What pieces that follow each other hold is the distance they lead.      *)
LEMMA LeadsSum ==
    ASSUME NEW q \in Seq(Pieces), NEW a, NEW b, Leads(q, a, b)
    PROVE  LenWrite(q) = b - a
  <1>0. q \in Seq(Messages) /\ Len(q) \in Nat /\ \A i \in 1..Len(q) : IsData(q[i])
    BY DEF Pieces
  <1>1. PICK pos \in [0..Len(q) -> Int] :
            pos[0] = a /\ pos[Len(q)] = b /\ Follows(q, pos)
    BY DEF Leads
  <1> DEFINE f == [i \in 0..Len(q) |-> pos[i] - a]
  <1>2. a \in Int /\ b \in Int
    BY <1>0, <1>1
  <1>3. f \in [0..Len(q) -> Int] /\ f[0] = 0 /\ f[Len(q)] = b - a
    BY <1>0, <1>1, <1>2
  <1>4. \A i \in 0..Len(q) : f[i] = pos[i] - a
    OBVIOUS
  <1> HIDE DEF f
  <1>5. ASSUME NEW i \in 1..Len(q) PROVE f[i] = f[i-1] + Size(q[i])
    <2>1. i \in 0..Len(q) /\ i - 1 \in 0..Len(q)
      BY <1>0
    <2>2. q[i].from = pos[i-1] /\ q[i].to = pos[i]
      BY <1>0, <1>1 DEF Follows
    <2>3. pos[i] \in Int /\ pos[i-1] \in Int
      BY <2>1
    <2>4. f[i] = pos[i] - a /\ f[i-1] = pos[i-1] - a
      BY <1>4, <2>1
    <2> QED
      BY <1>2, <2>2, <2>3, <2>4 DEF Size
  <1>6. Sums(q, f)
    BY <1>3, <1>5 DEF Sums
  <1> QED
    BY <1>0, <1>3, <1>6, LenWriteSums

LEMMA LeadsLast ==
    ASSUME NEW q \in Seq(Pieces), q # <<>>, NEW a, NEW b, Leads(q, a, b)
    PROVE  b > 0
  <1>0. Len(q) \in 1..Len(q) /\ q[Len(q)] \in Pieces
    OBVIOUS
  <1>1. q[Len(q)].to = b
    BY <1>0 DEF Leads, Follows, Pieces
  <1> QED
    BY <1>0, <1>1 DEF Pieces, Messages

(* The property of the messages under way, from the offsets they reach.    *)
LEMMA LeadsInOrder ==
    ASSUME NEW q \in Seq(Messages), NEW a, NEW b, Leads(q, a, b)
    PROVE  /\ \A i \in DataIn(q) : q[i].from = Reaches(q, i - 1, a)
           /\ Reaches(q, Len(q), a) = b
  <1>0. Len(q) \in Nat /\ DOMAIN q = 1..Len(q)
    OBVIOUS
  <1>1. PICK pos \in [0..Len(q) -> Int] :
            pos[0] = a /\ pos[Len(q)] = b /\ Follows(q, pos)
    BY DEF Leads
  <1> DEFINE T == {i \in 0..Len(q) : Reaches(q, i, a) # pos[i]}
             Before(i) == {j \in DataIn(q) : j <= i}
  <1>2. ASSUME NEW i \in 0..Len(q) PROVE Reaches(q, i, a) = pos[i]
    <2>1. SUFFICES ASSUME T # {} PROVE FALSE
      OBVIOUS
    <2>2. PICK n \in T : \A j \in T : n <= j
      <3>1. T \in SUBSET Nat
        BY <1>0
      <3> QED
        BY <3>1, <2>1, LeastNumber, Zenon
    <2>3. n \in 0..Len(q) /\ Reaches(q, n, a) # pos[n]
      BY <2>2
    <2>4. n # 0
      <3>1. SUFFICES ASSUME n = 0 PROVE FALSE
        OBVIOUS
      <3>2. Before(0) = {}
        BY <1>0 DEF DataIn
      <3> QED
        BY <1>1, <2>3, <3>1, <3>2 DEF Reaches
    <2>5. n \in 1..Len(q) /\ n - 1 \in 0..Len(q)
      BY <1>0, <2>3, <2>4
    <2>6. Reaches(q, n - 1, a) = pos[n-1]
      <3>1. n - 1 \notin T
        <4> HIDE DEF T
        <4> QED BY <2>2, <2>5
      <3> QED
        BY <3>1, <2>5
    <2>7. CASE IsData(q[n])
      <3>1. n \in Before(n) /\ \A j \in Before(n) : j <= n
        BY <1>0, <2>5, <2>7 DEF DataIn
      <3>2. \A j \in Before(n) : (\A k \in Before(n) : k <= j) => j = n
        <4> TAKE j \in Before(n)
        <4>1. j \in Nat /\ n \in Nat
          BY <1>0, <2>5 DEF DataIn
        <4> QED
          BY <3>1, <4>1
      <3> HIDE DEF Before
      <3>3. (CHOOSE j \in Before(n) : \A k \in Before(n) : k <= j) = n
        BY <3>1, <3>2
      <3>4. Reaches(q, n, a) = q[n].to
        BY <3>1, <3>3, Zenon DEF Reaches, Before
      <3> QED
        BY <1>1, <2>3, <2>5, <2>7, <3>4 DEF Follows
    <2>8. CASE ~IsData(q[n])
      <3>1. Before(n) = Before(n - 1)
        <4>1. ASSUME NEW j \in DataIn(q) PROVE j <= n <=> j <= n - 1
          <5>1. j \in Nat /\ j # n
            BY <1>0, <2>8 DEF DataIn
          <5> QED
            BY <2>5, <5>1
        <4> QED
          BY <4>1
      <3>2. Reaches(q, n, a) = Reaches(q, n - 1, a)
        <4> DEFINE Last(B) == IF B = {} THEN a
                              ELSE q[CHOOSE j \in B : \A k \in B : k <= j].to
        <4>1. Reaches(q, n, a) = Last(Before(n))
          BY DEF Reaches
        <4>2. Reaches(q, n - 1, a) = Last(Before(n - 1))
          BY DEF Reaches
        <4> HIDE DEF Last, Before
        <4> QED
          BY <3>1, <4>1, <4>2
      <3> QED
        BY <1>1, <2>3, <2>5, <2>6, <2>8, <3>2 DEF Follows
    <2> QED
      BY <2>7, <2>8
  <1>3. Reaches(q, Len(q), a) = b
    BY <1>0, <1>1, <1>2
  <1>4. ASSUME NEW i \in DataIn(q) PROVE q[i].from = Reaches(q, i - 1, a)
    <2>1. i \in 1..Len(q) /\ i - 1 \in 0..Len(q) /\ IsData(q[i])
      BY <1>0 DEF DataIn
    <2>2. q[i].from = pos[i-1]
      BY <1>1, <2>1 DEF Follows
    <2> QED
      BY <1>2, <2>1, <2>2
  <1> QED
    BY <1>3, <1>4

-----------------------------------------------------------------------------
(* What each proxy may send: R no chunk names, S no open and raw only at   *)
(* the start of the stream.                                                *)
Sent(x) == {m \in Messages : IF x = "R" THEN m.type # "name"
                             ELSE m.type # "open" /\ (m.type = "raw" => m.from = 0)}
Quiet(x) == {m \in Sent(x) : m.type # "open"}

Connections ==
    [status : Statuses, dead : BOOLEAN, abnormal : BOOLEAN, lenRead : Int,
     bytesTX : Nat, numSent : Int, lastAcked : Int, bytesRX : Nat,
     closeBytes : Int, ctl : Seq(Messages), wq : Seq(Pieces), reasm : Seq(Pieces),
     bufs : SUBSET Messages, numBlocked : Int, failed : Failures]
Conn(x) == {c \in Connections : c.ctl \in Seq(Sent(x))}

(* What the work of x on its own connection c may make of it: it adds to   *)
(* what is to be sent the data it takes from its user, writes a beginning  *)
(* of what is queued for the user, or gives the connection up.             *)
Works(x, c, d) ==
    /\ d \in Conn(x)
    /\ Found(d)
    /\ c.dead => d.dead
    /\ \E p \in Seq(Quiet(x)) :
          \/ d.ctl = c.ctl \o p /\ Leads(p, c.bytesTX, d.bytesTX)
          \/ d.dead /\ d.ctl = p
    /\ \A a : Leads(c.wq, c.bytesRX, a) => Leads(d.wq, d.bytesRX, a)
    /\ d.reasm = c.reasm

LEMMA SeqSubset ==
    ASSUME NEW S, NEW T, S \subseteq T, NEW q \in Seq(S)
    PROVE  q \in Seq(T)
  OBVIOUS

LEMMA ConcatAssoc ==
    ASSUME NEW S, NEW q \in Seq(S), NEW r \in Seq(S), NEW t \in Seq(S)
    PROVE  (q \o r) \o t = q \o (r \o t)
  OBVIOUS

LEMMA SentTypes ==
    ASSUME NEW x \in Sides
    PROVE  Sent(x) \subseteq Messages /\ Quiet(x) \subseteq Sent(x)
  BY DEF Sent, Quiet

LEMMA WorksRefl ==
    ASSUME NEW x \in Sides, NEW c \in Conn(x), NEW d \in Conn(x), Found(d), c.dead => d.dead,
           d.ctl = c.ctl, d.bytesTX = c.bytesTX, d.bytesRX = c.bytesRX, d.wq = c.wq,
           d.reasm = c.reasm
    PROVE  Works(x, c, d)
  <1>1. c.ctl \in Seq(Sent(x)) /\ c.bytesTX \in Int
    BY DEF Conn, Connections
  <1>2. d.ctl = c.ctl \o <<>> /\ <<>> \in Seq(Quiet(x))
    BY <1>1
  <1>3. Leads(<<>>, c.bytesTX, d.bytesTX)
    BY <1>1, LeadsEmpty
  <1> QED
    BY <1>2, <1>3, Zenon DEF Works

LEMMA WorksTrans ==
    ASSUME NEW x \in Sides, NEW c \in Conn(x), NEW d, NEW e, Works(x, c, d), Works(x, d, e)
    PROVE  Works(x, c, e)
  <1>1. PICK p \in Seq(Quiet(x)) : \/ d.ctl = c.ctl \o p /\ Leads(p, c.bytesTX, d.bytesTX)
                                   \/ d.dead /\ d.ctl = p
    BY SMTT(30) DEF Works
  <1>2. PICK r \in Seq(Quiet(x)) : \/ e.ctl = d.ctl \o r /\ Leads(r, d.bytesTX, e.bytesTX)
                                   \/ e.dead /\ e.ctl = r
    BY DEF Works
  <1>3. d.dead => e.dead
    BY DEF Works
  <1>4. p \o r \in Seq(Quiet(x)) /\ p \in Seq(Messages) /\ r \in Seq(Messages)
    BY SentTypes, SeqSubset
  <1>5. c.ctl \in Seq(Sent(x))
    BY DEF Conn
  <1>6. (c.ctl \o p) \o r = c.ctl \o (p \o r)
    <2>1. c.ctl \in Seq(Messages)
      BY <1>5, SentTypes, SeqSubset
    <2>2. \A u \in Seq(Messages), v \in Seq(Messages), w \in Seq(Messages) :
              (u \o v) \o w = u \o (v \o w)
      BY ConcatAssoc
    <2>3. p \in Seq(Messages) /\ r \in Seq(Messages)
      BY <1>4
    <2> QED
      BY <2>1, <2>2, <2>3, Zenon
  <1>7. \E s \in Seq(Quiet(x)) : \/ e.ctl = c.ctl \o s /\ Leads(s, c.bytesTX, e.bytesTX)
                                 \/ e.dead /\ e.ctl = s
    <2>1. CASE e.dead /\ e.ctl = r
      BY <2>1
    <2>2. CASE e.ctl = d.ctl \o r /\ d.dead /\ d.ctl = p
      BY <1>3, <1>4, <2>2, Zenon
    <2>3. CASE /\ e.ctl = d.ctl \o r /\ Leads(r, d.bytesTX, e.bytesTX)
               /\ d.ctl = c.ctl \o p /\ Leads(p, c.bytesTX, d.bytesTX)
      <3>1. Leads(p \o r, c.bytesTX, e.bytesTX)
        BY <1>4, <2>3, LeadsConcat
      <3>2. e.ctl = c.ctl \o (p \o r)
        BY <1>6, <2>3, Zenon
      <3> QED
        BY <1>4, <3>1, <3>2, Zenon
    <2> QED
      BY <1>1, <1>2, <2>1, <2>2, <2>3, Zenon
  <1> QED
    BY <1>3, <1>7, Zenon DEF Works

LEMMA MsgTypes ==
    ASSUME NEW n \in Int, NEW x \in Sides
    PROVE  Msg("close", 0, n) \in Quiet(x) /\ Msg("ack", 0, n) \in Quiet(x)
  BY DEF Msg, Quiet, Sent, Messages, Types, IsData

(* A message that carries no data may be queued at any time.               *)
LEMMA WorksSend ==
    ASSUME NEW x \in Sides, NEW c \in Conn(x), Found(c), NEW m \in Quiet(x), ~IsData(m)
    PROVE  Works(x, c, [c EXCEPT !.ctl = Append(@, m)])
  <1> DEFINE d == [c EXCEPT !.ctl = Append(@, m)]
  <1>1. c.ctl \in Seq(Sent(x)) /\ c \in Connections /\ c.bytesTX \in Int
    BY DEF Conn, Connections
  <1>2. m \in Sent(x) /\ m \in Messages
    BY SentTypes
  <1>3. Append(c.ctl, m) \in Seq(Sent(x)) /\ Append(c.ctl, m) \in Seq(Messages)
    <2>1. Append(c.ctl, m) \in Seq(Sent(x))
      BY <1>1, <1>2
    <2> QED
      BY <2>1, SentTypes, SeqSubset
  <1>4. d \in Connections /\ d.ctl = Append(c.ctl, m)
    BY <1>1, <1>3, Zenon DEF Connections
  <1>5. /\ d.status = c.status /\ d.dead = c.dead /\ d.bytesTX = c.bytesTX
        /\ d.bytesRX = c.bytesRX /\ d.wq = c.wq /\ d.reasm = c.reasm
    BY <1>1 DEF Connections
  <1> HIDE DEF d
  <1>6. d \in Conn(x) /\ Found(d)
    BY <1>3, <1>4, <1>5, SMTT(30) DEF Conn, Found
  <1>7. d.ctl = c.ctl \o <<m>> /\ <<m>> \in Seq(Quiet(x))
    BY <1>1, <1>2, <1>4
  <1>8. Leads(<<m>>, c.bytesTX, d.bytesTX)
    BY <1>1, <1>2, <1>5, LeadsOne
  <1>9. Works(x, c, d)
    BY <1>5, <1>6, <1>7, <1>8, Zenon DEF Works
  <1> QED
    BY <1>9 DEF d

LEMMA WorksSetDead ==
    ASSUME NEW x \in Sides, NEW c \in Conn(x), Found(c), NEW abnormal \in BOOLEAN
    PROVE  Works(x, c, SetDead(c, abnormal))
  <1>0. c \in Connections /\ c.ctl \in Seq(Sent(x))
    BY DEF Conn
  <1>1. CASE c.status = "closed"
    <2>1. SetDead(c, abnormal) = c
      BY <1>1 DEF SetDead
    <2> QED
      BY <2>1, WorksRefl
  <1>2. CASE c.status # "closed"
    <2> DEFINE d == [c EXCEPT !.status = "closed", !.abnormal = abnormal, !.dead = TRUE]
    <2>1. d \in Connections
      BY <1>0, Zenon DEF Connections, Statuses
    <2>2. /\ d.status = "closed" /\ d.dead /\ d.ctl = c.ctl /\ d.bytesTX = c.bytesTX
          /\ d.bytesRX = c.bytesRX /\ d.wq = c.wq /\ d.reasm = c.reasm
      BY <1>0 DEF Connections
    <2>3. d \in Conn(x) /\ Found(d)
      BY <1>0, <2>1, <2>2, Zenon DEF Conn, Found
    <2>4. CASE ~abnormal
      <3>1. SetDead(c, abnormal) = d
        BY <1>2, <2>4 DEF SetDead
      <3> HIDE DEF d
      <3> QED
        BY <2>2, <2>3, <3>1, WorksRefl
    <2>5. CASE abnormal
      <3> DEFINE m == Msg("close", 0, 0)
                 e == SendWACloseConnection([d EXCEPT !.ctl = <<>>], 0)
      <3>1. SetDead(c, abnormal) = e
        BY <1>2, <2>5 DEF SetDead
      <3>2. m \in Quiet(x) /\ m \in Sent(x) /\ m \in Messages
        BY MsgTypes, SentTypes
      <3> HIDE DEF d, m
      <3>3. e = [d EXCEPT !.ctl = <<m>>]
        <4> DEFINE f == [d EXCEPT !.ctl = <<>>]
        <4>1. f.ctl = <<>> /\ DOMAIN f = DOMAIN d
          BY <2>1 DEF Connections
        <4>2. e = [f EXCEPT !.ctl = Append(f.ctl, m)]
          BY DEF SendWACloseConnection, m
        <4>3. Append(f.ctl, m) = <<m>>
          BY <4>1
        <4>4. [f EXCEPT !.ctl = <<m>>] = [d EXCEPT !.ctl = <<m>>]
          BY <2>1, Zenon DEF Connections
        <4> QED
          BY <4>2, <4>3, <4>4
      <3>4. <<m>> \in Seq(Quiet(x)) /\ <<m>> \in Seq(Sent(x)) /\ <<m>> \in Seq(Messages)
        BY <3>2
      <3> HIDE DEF e
      <3>5. e \in Connections /\ e.ctl = <<m>>
        BY <2>1, <3>3, <3>4, Zenon DEF Connections
      <3>6. /\ e.status = "closed" /\ e.dead /\ e.bytesRX = c.bytesRX /\ e.wq = c.wq
            /\ e.reasm = c.reasm
        BY <2>1, <2>2, <3>3 DEF Connections
      <3>7. e \in Conn(x) /\ Found(e)
        BY <3>4, <3>5, <3>6, Zenon DEF Conn, Found
      <3>8. Works(x, c, e)
        BY <3>4, <3>5, <3>6, <3>7, Zenon DEF Works
      <3> QED
        BY <3>1, <3>8
    <2> QED
      BY <2>4, <2>5
  <1> QED
    BY <1>1, <1>2

-----------------------------------------------------------------------------
(* The cuts of ProcessUserData are increasing offsets.                     *)
LEMMA CutsType ==
    ASSUME NEW n \in Int, NEW cuts \in Increasing(n)
    PROVE  /\ Len(cuts) \in Nat
           /\ cuts \in [1..Len(cuts) -> 1..n]
           /\ \A i \in 0..Len(cuts) : Cut(cuts, i) \in Nat
           /\ \A i \in 1..Len(cuts) : Cut(cuts, i-1) < cuts[i] /\ cuts[i] = Cut(cuts, i)
  <1>1. PICK k \in 0..n : /\ cuts \in [1..k -> 1..n]
                          /\ \A i \in 1..k-1 : cuts[i] < cuts[i+1]
    BY SMTT(30) DEF Increasing
  <1>2. k \in Nat /\ Len(cuts) = k
    BY <1>1
  <1>3. ASSUME NEW i \in 0..k PROVE Cut(cuts, i) \in Nat
    BY <1>1, <1>2 DEF Cut
  <1>4. ASSUME NEW i \in 1..k PROVE Cut(cuts, i-1) < cuts[i] /\ cuts[i] = Cut(cuts, i)
    <2>1. cuts[i] \in 1..n /\ i # 0
      BY <1>1
    <2>2. CASE i = 1
      BY <2>1, <2>2 DEF Cut
    <2>3. CASE i # 1
      <3>1. i - 1 \in 1..k-1 /\ i - 1 # 0 /\ (i - 1) + 1 = i
        BY <1>2, <2>3
      <3>2. cuts[i-1] < cuts[(i-1)+1]
        BY <1>1, <3>1
      <3> QED
        BY <2>1, <3>1, <3>2 DEF Cut
    <2> QED
      BY <2>2, <2>3
  <1> QED
    BY <1>1, <1>2, <1>3, <1>4

(* The pieces ProcessUserData sends follow each other from bytesTX on.     *)
LEMMA PiecesLead ==
    ASSUME NEW x \in Sides, NEW c \in Conn(x), NEW n \in Int, NEW cuts \in Increasing(n)
    PROVE  LET k == Len(cuts)
               pieces == [i \in 1..k |-> Piece(c, x, cuts, i)]
           IN  /\ pieces \in Seq(Quiet(x))
               /\ Leads(pieces, c.bytesTX, c.bytesTX + Cut(cuts, k))
  <1> DEFINE k == Len(cuts)
             pieces == [i \in 1..k |-> Piece(c, x, cuts, i)]
             pos == [i \in 0..k |-> c.bytesTX + Cut(cuts, i)]
  <1>1. k \in Nat /\ c.bytesTX \in Nat
    BY CutsType DEF Conn, Connections
  <1>2. \A i \in 0..k : Cut(cuts, i) \in Nat
    BY CutsType
  <1>3. pos \in [0..k -> Nat] /\ pos[0] = c.bytesTX /\ pos[k] = c.bytesTX + Cut(cuts, k)
    <2>1. Cut(cuts, 0) = 0
      BY DEF Cut
    <2> QED
      BY <1>1, <1>2, <2>1
  <1>4. \A i \in 0..k : pos[i] = c.bytesTX + Cut(cuts, i)
    OBVIOUS
  <1> HIDE DEF pos
  <1>5. ASSUME NEW i \in 1..k
        PROVE  /\ Piece(c, x, cuts, i) \in Quiet(x)
               /\ IsData(Piece(c, x, cuts, i))
               /\ Piece(c, x, cuts, i).from = pos[i-1]
               /\ Piece(c, x, cuts, i).to = pos[i]
    <2> DEFINE m == Piece(c, x, cuts, i)
               named == Chunked(x) /\ ~(SkipFirst /\ pos[i-1] = 0)
    <2>1. i \in 0..k /\ i - 1 \in 0..k
      BY <1>1
    <2>2. Cut(cuts, i-1) < cuts[i] /\ cuts[i] = Cut(cuts, i)
      BY CutsType
    <2>3. pos[i-1] = c.bytesTX + Cut(cuts, i-1) /\ pos[i] = c.bytesTX + cuts[i]
      BY <1>4, <2>1, <2>2
    <2>4. pos[i-1] \in Nat /\ pos[i] \in Nat /\ pos[i-1] < pos[i]
      BY <1>1, <1>2, <2>1, <2>2, <2>3, SMTT(30)
    <2>5. m = [type |-> IF named THEN "name" ELSE "raw", from |-> pos[i-1], to |-> pos[i]]
      BY <2>3 DEF Piece, Msg
    <2>6. x = "R" => ~named
      BY DEF Chunked
    <2>7. x = "S" /\ ~named => pos[i-1] = 0
      BY DEF Chunked
    <2> HIDE DEF m, named
    <2>8. m.from = pos[i-1] /\ m.to = pos[i] /\ m.type = IF named THEN "name" ELSE "raw"
      BY <2>5
    <2>9. IsData(m) /\ m \in Messages
      BY <2>4, <2>5, <2>8 DEF IsData, Messages, Types
    <2>10. m \in Quiet(x)
      BY <2>6, <2>7, <2>8, <2>9 DEF Quiet, Sent, Sides
    <2> QED
      BY <2>8, <2>9, <2>10 DEF m
  <1>6. pieces \in Seq(Quiet(x)) /\ Len(pieces) = k
    BY <1>1, <1>5
  <1>7. \A i \in 1..k : pieces[i] = Piece(c, x, cuts, i)
    OBVIOUS
  <1> HIDE DEF pieces
  <1>8. Follows(pieces, pos)
    BY <1>5, <1>6, <1>7 DEF Follows
  <1>9. Leads(pieces, c.bytesTX, c.bytesTX + Cut(cuts, k))
    BY <1>3, <1>6, <1>8 DEF Leads
  <1> QED
    BY <1>6, <1>9 DEF pieces

LEMMA WorksProcessUserData ==
    ASSUME NEW x \in Sides, NEW c \in Conn(x), Found(c), NEW n \in Int,
           NEW cuts \in Increasing(n)
    PROVE  Works(x, c, ProcessUserData(c, x, cuts))
  <1>0. c \in Connections /\ c.ctl \in Seq(Sent(x))
    BY DEF Conn
  <1>1. CASE c.status = "block"
    <2>1. ProcessUserData(c, x, cuts) = c
      BY <1>1 DEF ProcessUserData
    <2> QED
      BY <2>1, WorksRefl
  <1>2. CASE c.status # "block"
    <2> DEFINE k == Len(cuts)
               w == Cut(cuts, k)
               pieces == [i \in 1..k |-> Piece(c, x, cuts, i)]
               blocks == k > 0 /\ Full(c, w)
               kept == c.bufs \cup {p \in {pieces[i] : i \in 1..k} : p.type = "name"}
               stat == IF blocks THEN "block" ELSE c.status
               nb == IF blocks THEN c.numBlocked + 1 ELSE c.numBlocked
               fail == IF blocks /\ c.numBlocked + 1 > 1 THEN "blocked" ELSE c.failed
               d == [c EXCEPT !.ctl = c.ctl \o pieces, !.bufs = kept,
                              !.bytesTX = c.bytesTX + w, !.numSent = c.numSent + w,
                              !.lenRead = c.lenRead - w, !.status = stat,
                              !.numBlocked = nb, !.failed = fail]
               e == [SendWACloseConnection(d, d.bytesTX + d.lenRead) EXCEPT !.status = "finsent"]
    <2>1. ProcessUserData(c, x, cuts) = IF d.status = "done" THEN e ELSE d
      BY <1>2 DEF ProcessUserData
    <2>2. pieces \in Seq(Quiet(x)) /\ Leads(pieces, c.bytesTX, c.bytesTX + w)
      BY PiecesLead
    <2>3. w \in Nat /\ k \in Nat
      BY CutsType
    <2>4. pieces \in Seq(Messages) /\ pieces \in Seq(Sent(x))
      BY <2>2, SentTypes, SeqSubset
    <2>5. kept \in SUBSET Messages
      <3>1. Len(pieces) = k /\ \A i \in 1..k : pieces[i] \in Messages
        BY <2>3, <2>4
      <3> HIDE DEF pieces
      <3> QED
        BY <1>0, <3>1 DEF Connections
    <2> HIDE DEF w, pieces, kept, e
    <2>6. c.ctl \o pieces \in Seq(Sent(x)) /\ c.ctl \o pieces \in Seq(Messages)
      BY <1>0, <2>4 DEF Connections
    <2>7. /\ c.bytesTX + w \in Nat /\ c.numSent + w \in Int /\ c.lenRead - w \in Int
          /\ stat \in Statuses /\ nb \in Int /\ fail \in Failures
      <3> HIDE DEF blocks
      <3>1. /\ c.bytesTX \in Nat /\ c.numSent \in Int /\ c.lenRead \in Int
            /\ c.status \in Statuses /\ c.numBlocked \in Int /\ c.failed \in Failures
        BY <1>0 DEF Connections
      <3>2. c.bytesTX + w \in Nat /\ c.numSent + w \in Int /\ c.lenRead - w \in Int
        BY <2>3, <3>1
      <3>3. stat \in Statuses /\ fail \in Failures
        BY <3>1 DEF Statuses, Failures
      <3>4. nb \in Int
        BY <3>1
      <3> QED
        BY <3>2, <3>3, <3>4
    <2>8. stat \notin {"none", "gone"}
      BY DEF Found
    <2> HIDE DEF stat, nb, fail, k
    <2>9. d \in Connections
      BY <1>0, <2>5, <2>6, <2>7, Zenon DEF Connections
    <2>10. /\ d.ctl = c.ctl \o pieces /\ d.bytesTX = c.bytesTX + w /\ d.status = stat
           /\ d.dead = c.dead /\ d.bytesRX = c.bytesRX /\ d.wq = c.wq /\ d.reasm = c.reasm
      BY <1>0 DEF Connections
    <2> HIDE DEF d
    <2>11. d \in Conn(x) /\ Found(d)
      BY <2>6, <2>8, <2>9, <2>10, Zenon DEF Conn, Found
    <2>12. Works(x, c, d)
      BY <2>2, <2>10, <2>11, SMTT(30) DEF Works
    <2>13. Works(x, d, e)
      <3> DEFINE v == d.bytesTX + d.lenRead
                 f == [d EXCEPT !.ctl = Append(@, Msg("close", 0, v))]
      <3>1. v \in Int
        BY <2>9 DEF Connections
      <3>2. Msg("close", 0, v) \in Quiet(x) /\ ~IsData(Msg("close", 0, v))
        BY <3>1, MsgTypes, Zenon DEF IsData, Msg
      <3>3. Works(x, d, f)
        BY <2>11, <3>2, WorksSend
      <3>4. e = [f EXCEPT !.status = "finsent"]
        BY DEF e, SendWACloseConnection
      <3> HIDE DEF v, f
      <3>5. f \in Conn(x) /\ f \in Connections /\ f.ctl \in Seq(Sent(x))
        BY <3>3 DEF Works, Conn
      <3>6. e \in Connections
        BY <3>4, <3>5, Zenon DEF Connections, Statuses
      <3>7. /\ e.status = "finsent" /\ e.ctl = f.ctl /\ e.dead = f.dead /\ e.bytesTX = f.bytesTX
            /\ e.bytesRX = f.bytesRX /\ e.wq = f.wq /\ e.reasm = f.reasm
        BY <3>4, <3>5 DEF Connections
      <3>8. e \in Conn(x) /\ Found(e)
        BY <3>5, <3>6, <3>7 DEF Conn, Found
      <3>9. Works(x, f, e)
        BY <3>5, <3>7, <3>8, WorksRefl
      <3> QED
        BY <2>11, <3>3, <3>9, WorksTrans
    <2>14. Works(x, c, e)
      BY <2>12, <2>13, WorksTrans
    <2> QED
      BY <2>1, <2>12, <2>14
  <1> QED
    BY <1>1, <1>2

LEMMA WorksCloseConnection ==
    ASSUME NEW x \in Sides, NEW c \in Conn(x), Found(c), NEW n \in Int,
           NEW cuts \in Increasing(n)
    PROVE  Works(x, c, CloseConnection(c, x, cuts))
  <1>0. c \in Connections /\ c.ctl \in Seq(Sent(x))
    BY DEF Conn
  <1>1. CASE c.status = "closed"
    <2>1. CloseConnection(c, x, cuts) = c
      BY <1>1 DEF CloseConnection
    <2> QED
      BY <2>1, WorksRefl
  <1>2. CASE c.status # "closed"
    <2> DEFINE d == [c EXCEPT !.status = "done"]
               v == d.bytesTX
               g == [d EXCEPT !.ctl = Append(@, Msg("close", 0, v))]
               f == [g EXCEPT !.status = "finsent"]
    <2>1. CloseConnection(c, x, cuts) =
             IF d.lenRead > 0 THEN ProcessUserData(d, x, cuts)
             ELSE IF f.numSent > 0 THEN f ELSE SetDead(f, FALSE)
      BY <1>2 DEF CloseConnection, SendWACloseConnection
    <2>2. d \in Connections
      BY <1>0, Zenon DEF Connections, Statuses
    <2>3. /\ d.status = "done" /\ d.ctl = c.ctl /\ d.dead = c.dead /\ d.bytesTX = c.bytesTX
          /\ d.bytesRX = c.bytesRX /\ d.wq = c.wq /\ d.reasm = c.reasm
      BY <1>0 DEF Connections
    <2> HIDE DEF d
    <2>4. d \in Conn(x) /\ Found(d)
      BY <1>0, <2>2, <2>3 DEF Conn, Found
    <2>5. Works(x, c, d)
      BY <2>3, <2>4, WorksRefl
    <2>6. v \in Int
      BY <2>2 DEF Connections
    <2>7. Msg("close", 0, v) \in Quiet(x) /\ ~IsData(Msg("close", 0, v))
      BY <2>6, MsgTypes, Zenon DEF IsData, Msg
    <2>8. Works(x, d, g)
      BY <2>4, <2>7, WorksSend
    <2> HIDE DEF v, g
    <2>9. g \in Connections /\ g.ctl \in Seq(Sent(x)) /\ g \in Conn(x)
      BY <2>8 DEF Works, Conn
    <2>10. f \in Connections
      BY <2>9, Zenon DEF Connections, Statuses
    <2>11. /\ f.status = "finsent" /\ f.ctl = g.ctl /\ f.dead = g.dead /\ f.bytesTX = g.bytesTX
           /\ f.bytesRX = g.bytesRX /\ f.wq = g.wq /\ f.reasm = g.reasm
      BY <2>9 DEF Connections
    <2> HIDE DEF f
    <2>12. f \in Conn(x) /\ Found(f)
      BY <2>9, <2>10, <2>11 DEF Conn, Found
    <2>13. Works(x, g, f)
      BY <2>9, <2>11, <2>12, WorksRefl
    <2>14. Works(x, c, g)
      BY <2>5, <2>8, WorksTrans
    <2>15. Works(x, c, f)
      BY <2>13, <2>14, WorksTrans
    <2>16. Works(x, f, SetDead(f, FALSE))
      BY <2>12, WorksSetDead, Zenon
    <2>17. Works(x, c, SetDead(f, FALSE))
      BY <2>15, <2>16, WorksTrans, Zenon
    <2>18. Works(x, d, ProcessUserData(d, x, cuts))
      BY <2>4, WorksProcessUserData
    <2>19. Works(x, c, ProcessUserData(d, x, cuts))
      BY <2>5, <2>18, WorksTrans
    <2> QED
      BY <2>1, <2>15, <2>17, <2>19, Zenon
  <1> QED
    BY <1>1, <1>2

LEMMA WorksWrite ==
    ASSUME NEW x \in Sides, NEW c \in Conn(x), Found(c),
           NEW k \in -1..Len(c.wq), NEW eventTriggered \in BOOLEAN
    PROVE  Works(x, c, Write(c, k, eventTriggered))
  <1>0. /\ c \in Connections /\ c.ctl \in Seq(Sent(x)) /\ c.wq \in Seq(Pieces)
        /\ c.bytesRX \in Nat /\ Len(c.wq) \in Nat
    <2>1. c \in Connections /\ c.ctl \in Seq(Sent(x))
      BY DEF Conn
    <2>2. c.wq \in Seq(Pieces) /\ c.bytesRX \in Nat
      BY <2>1 DEF Connections
    <2> QED
      BY <2>1, <2>2
  <1>1. CASE k = -1
    <2>1. Write(c, k, eventTriggered) = SetDead(c, TRUE)
      BY <1>1 DEF Write
    <2> QED
      BY <2>1, WorksSetDead, Zenon
  <1>2. CASE k = 0
    <2>1. Write(c, k, eventTriggered) = c
      BY <1>2 DEF Write
    <2> QED
      BY <2>1, WorksRefl
  <1>3. CASE k # -1 /\ k # 0
    <2> DEFINE q == c.wq
               r == SubSeq(q, k+1, Len(q))
               n == LenWrite(SubSeq(q, 1, k))
               b == [c EXCEPT !.wq = r]
               d == [b EXCEPT !.bytesRX = b.bytesRX + n]
               e == [d EXCEPT !.ctl = Append(@, Msg("ack", 0, b.bytesRX + n))]
    <2>1. k \in 1..Len(q) /\ k \in 0..Len(q) /\ k \in Nat /\ k + 1 \in Nat
      BY <1>0, <1>3
    <2>2. Write(c, k, eventTriggered) =
             IF eventTriggered /\ e.closeBytes # 0 /\ e.bytesRX = e.closeBytes
             THEN SetDead(e, FALSE) ELSE e
      BY <1>3 DEF Write, PostWrite, SendWANameAck
    <2>3. SubSeq(q, 1, k) \in Seq(Pieces) /\ r \in Seq(Pieces)
      BY <1>0, <2>1
    <2>4. n \in Nat
      BY <2>3, LenWriteType, Zenon
    <2>5. ASSUME NEW a, Leads(q, c.bytesRX, a) PROVE Leads(r, c.bytesRX + n, a)
      <3>1. q \in Seq(Messages)
        <4>1. Pieces \subseteq Messages
          BY DEF Pieces
        <4> QED
          BY <1>0, <4>1, SeqSubset
      <3>2. PICK z \in Int : Leads(SubSeq(q, 1, k), c.bytesRX, z) /\ Leads(r, z, a)
        BY <2>1, <2>5, <3>1, LeadsSplit
      <3>3. n = z - c.bytesRX
        BY <2>3, <3>2, LeadsSum, Zenon
      <3>4. c.bytesRX + n = z
        BY <1>0, <3>3
      <3> QED
        BY <3>2, <3>4
    <2> HIDE DEF n, r, e
    <2>6. b \in Connections
      BY <1>0, <2>3, Zenon DEF Connections
    <2>7. /\ b.status = c.status /\ b.dead = c.dead /\ b.ctl = c.ctl /\ b.bytesTX = c.bytesTX
          /\ b.bytesRX = c.bytesRX /\ b.wq = r /\ b.reasm = c.reasm
      BY <1>0 DEF Connections
    <2> HIDE DEF b
    <2>8. b.bytesRX + n \in Nat
      BY <1>0, <2>4, <2>7
    <2>9. d \in Connections
      BY <2>6, <2>8, Zenon DEF Connections
    <2>10. /\ d.status = b.status /\ d.dead = b.dead /\ d.ctl = b.ctl /\ d.bytesTX = b.bytesTX
           /\ d.bytesRX = b.bytesRX + n /\ d.wq = b.wq /\ d.reasm = b.reasm
      BY <2>6 DEF Connections
    <2> HIDE DEF d
    <2>11. d \in Conn(x) /\ Found(d)
      BY <1>0, <2>7, <2>9, <2>10 DEF Conn, Found
    <2>12. Works(x, c, d)
      <3>1. d.ctl = c.ctl \o <<>> /\ <<>> \in Seq(Quiet(x))
        BY <1>0, <2>7, <2>10
      <3>2. Leads(<<>>, c.bytesTX, d.bytesTX)
        <4>1. c.bytesTX \in Int /\ d.bytesTX = c.bytesTX
          BY <1>0, <2>7, <2>10 DEF Connections
        <4> QED
          BY <4>1, LeadsEmpty
      <3>3. \A a : Leads(c.wq, c.bytesRX, a) => Leads(d.wq, d.bytesRX, a)
        BY <2>5, <2>7, <2>10
      <3>4. d.reasm = c.reasm /\ d.dead = c.dead
        BY <2>7, <2>10
      <3> QED
        BY <2>11, <3>1, <3>2, <3>3, <3>4, Zenon DEF Works
    <2>13. Works(x, d, e)
      <3> DEFINE v == b.bytesRX + n
                 m == Msg("ack", 0, v)
      <3>0. v \in Int
        BY <2>8
      <3> HIDE DEF v
      <3>1. m \in Quiet(x) /\ ~IsData(m)
        BY <3>0, MsgTypes, Zenon DEF IsData, Msg
      <3> HIDE DEF m
      <3>2. Works(x, d, [d EXCEPT !.ctl = Append(@, m)])
        BY <2>11, <3>1, WorksSend
      <3>3. e = [d EXCEPT !.ctl = Append(@, m)]
        BY DEF e, m, v
      <3> QED
        BY <3>2, <3>3, Zenon
    <2>14. Works(x, c, e)
      BY <2>12, <2>13, WorksTrans
    <2>15. e \in Conn(x) /\ Found(e)
      BY <2>13 DEF Works
    <2>16. Works(x, c, SetDead(e, FALSE))
      <3>1. Works(x, e, SetDead(e, FALSE))
        BY <2>15, WorksSetDead, Zenon
      <3> QED
        BY <2>14, <3>1, WorksTrans, Zenon
    <2> QED
      BY <2>2, <2>14, <2>16, Zenon
  <1> QED
    BY <1>1, <1>2, <1>3

LEMMA WorksNameAck ==
    ASSUME NEW x \in Sides, NEW c \in Conn(x), Found(c), NEW ack \in Int
    PROVE  Works(x, c, NameAck(c, ack))
  <1>0. c \in Connections /\ c.ctl \in Seq(Sent(x))
    BY DEF Conn
  <1> DEFINE sent == c.numSent - (ack - c.lastAcked)
             wake == c.status = "block" /\ Window - sent >= Threshold
             kept == DestroyChunkBufferList(c.bufs, ack)
             stat == IF wake THEN "active" ELSE c.status
             nb == IF wake THEN c.numBlocked - 1 ELSE c.numBlocked
             d == [c EXCEPT !.numSent = sent, !.lastAcked = ack, !.bufs = kept,
                            !.status = stat, !.numBlocked = nb]
  <1>1. NameAck(c, ack) = IF d.status = "finsent" /\ sent = 0 THEN SetDead(d, FALSE) ELSE d
    BY DEF NameAck
  <1>2. sent \in Int
    BY <1>0 DEF Connections
  <1>3. kept \in SUBSET Messages
    BY <1>0 DEF Connections, DestroyChunkBufferList
  <1> HIDE DEF wake, sent, kept
  <1>4. stat \in Statuses /\ nb \in Int
    <2>1. c.status \in Statuses /\ c.numBlocked \in Int
      BY <1>0 DEF Connections
    <2> QED
      BY <2>1 DEF Statuses
  <1>5. stat \notin {"none", "gone"}
    BY DEF Found
  <1> HIDE DEF stat, nb
  <1>6. d \in Connections
    BY <1>0, <1>2, <1>3, <1>4, Zenon DEF Connections
  <1>7. /\ d.status = stat /\ d.dead = c.dead /\ d.ctl = c.ctl /\ d.bytesTX = c.bytesTX
        /\ d.bytesRX = c.bytesRX /\ d.wq = c.wq /\ d.reasm = c.reasm
    BY <1>0 DEF Connections
  <1> HIDE DEF d
  <1>8. d \in Conn(x) /\ Found(d)
    BY <1>0, <1>5, <1>6, <1>7 DEF Conn, Found
  <1>9. Works(x, c, d)
    BY <1>7, <1>8, WorksRefl
  <1>10. Works(x, d, SetDead(d, FALSE))
    BY <1>8, WorksSetDead, Zenon
  <1>11. Works(x, c, SetDead(d, FALSE))
    BY <1>9, <1>10, WorksTrans, Zenon
  <1> QED
    BY <1>1, <1>9, <1>11, Zenon

LEMMA WorksPeerCloses ==
    ASSUME NEW x \in Sides, NEW c \in Conn(x), Found(c), NEW n \in Int
    PROVE  Works(x, c, PeerCloses(c, n))
  <1>0. c \in Connections /\ c.ctl \in Seq(Sent(x))
    BY DEF Conn
  <1> DEFINE d == [c EXCEPT !.closeBytes = n]
  <1>1. d \in Connections
    BY <1>0, Zenon DEF Connections
  <1>2. /\ d.status = c.status /\ d.dead = c.dead /\ d.ctl = c.ctl /\ d.bytesTX = c.bytesTX
        /\ d.bytesRX = c.bytesRX /\ d.wq = c.wq /\ d.reasm = c.reasm
    BY <1>0 DEF Connections
  <1> HIDE DEF d
  <1>3. d \in Conn(x) /\ Found(d)
    BY <1>0, <1>1, <1>2 DEF Conn, Found
  <1>4. Works(x, c, d)
    BY <1>2, <1>3, WorksRefl
  <1>5. Works(x, c, SetDead(c, TRUE)) /\ Works(x, c, SetDead(c, FALSE))
    BY WorksSetDead, Zenon
  <1> QED
    BY <1>4, <1>5, Zenon DEF PeerCloses, d

-----------------------------------------------------------------------------
(* The messages q carry n bytes.                                           *)
Weight(m) == IF IsData(m) THEN Size(m) ELSE 0
Weighs(q, f) == \A i \in 1..Len(q) : f[i] = f[i-1] + Weight(q[i])
Amount(q, n) ==
    \E f \in [0..Len(q) -> Int] : f[0] = 0 /\ f[Len(q)] = n /\ Weighs(q, f)

LEMMA WeightNat ==
    ASSUME NEW m \in Messages
    PROVE  Weight(m) \in Nat
  <1>1. m.from \in Nat /\ m.to \in Int /\ (IsData(m) => m.from < m.to)
    BY Zenon DEF Messages
  <1> QED
    BY <1>1 DEF Weight, Size

LEMMA AmountEmpty == Amount(<<>>, 0)
  <1> DEFINE f == [i \in 0..0 |-> 0]
  <1>1. Len(<<>>) = 0
    OBVIOUS
  <1>2. f \in [0..Len(<<>>) -> Int] /\ f[0] = 0 /\ f[Len(<<>>)] = 0
    BY <1>1
  <1>3. Weighs(<<>>, f)
    BY <1>1 DEF Weighs
  <1> HIDE DEF f
  <1> QED
    BY <1>2, <1>3 DEF Amount

LEMMA AmountNat ==
    ASSUME NEW q \in Seq(Messages), NEW n, Amount(q, n)
    PROVE  n \in Nat
  <1>1. PICK f \in [0..Len(q) -> Int] : f[0] = 0 /\ f[Len(q)] = n /\ Weighs(q, f)
    BY Zenon DEF Amount
  <1> DEFINE T == {i \in 0..Len(q) : f[i] \notin Nat}
  <1>2. Len(q) \in Nat /\ Len(q) \in 0..Len(q)
    OBVIOUS
  <1>3. SUFFICES ASSUME T # {} PROVE FALSE
    BY <1>1, <1>2, Zenon
  <1>4. PICK k \in T : \A j \in T : k <= j
    <2>1. T \in SUBSET Nat
      BY <1>2
    <2> QED
      BY <2>1, <1>3, LeastNumber, Zenon
  <1>5. k \in 0..Len(q) /\ f[k] \notin Nat
    BY <1>4, Zenon
  <1>6. k # 0
    BY <1>1, <1>5
  <1>7. k \in 1..Len(q) /\ k - 1 \in 0..Len(q) /\ ~(k <= k - 1)
    BY <1>2, <1>5, <1>6
  <1>8. f[k-1] \in Nat
    BY <1>4, <1>7, Zenon
  <1>9. Weight(q[k]) \in Nat
    <2>1. q[k] \in Messages
      BY <1>7
    <2> QED
      BY <2>1, WeightNat, Zenon
  <1>10. f[k] = f[k-1] + Weight(q[k])
    BY <1>1, <1>7, Zenon DEF Weighs
  <1>11. f[k] \in Nat
    BY <1>8, <1>9, <1>10
  <1> QED
    BY <1>5, <1>11, Zenon

LEMMA AmountOne ==
    ASSUME NEW m \in Messages
    PROVE  Amount(<<m>>, Weight(m))
  <1>1. PICK w : w = Weight(m) /\ w \in Nat
    BY WeightNat, Zenon
  <1> DEFINE f == [i \in 0..1 |-> IF i = 0 THEN 0 ELSE w]
  <1>2. Len(<<m>>) = 1 /\ <<m>>[1] = m
    OBVIOUS
  <1>3. f \in [0..1 -> Int] /\ f[0] = 0 /\ f[1] = w
    BY <1>1
  <1> HIDE DEF f
  <1>4. Weighs(<<m>>, f)
    <2> SUFFICES ASSUME NEW i \in 1..1 PROVE f[i] = f[i-1] + Weight(<<m>>[i])
      BY <1>2 DEF Weighs
    <2>1. i = 1 /\ i - 1 = 0
      OBVIOUS
    <2> QED
      BY <1>1, <1>2, <1>3, <2>1
  <1> QED
    BY <1>1, <1>2, <1>3, <1>4 DEF Amount

LEMMA AmountConcat ==
    ASSUME NEW q \in Seq(Messages), NEW r \in Seq(Messages), NEW a, NEW b,
           Amount(q, a), Amount(r, b)
    PROVE  Amount(q \o r, a + b)
  <1>1. PICK f \in [0..Len(q) -> Int] : f[0] = 0 /\ f[Len(q)] = a /\ Weighs(q, f)
    BY Zenon DEF Amount
  <1>2. PICK g \in [0..Len(r) -> Int] : g[0] = 0 /\ g[Len(r)] = b /\ Weighs(r, g)
    BY Zenon DEF Amount
  <1>3. PICK n, m : n = Len(q) /\ m = Len(r)
    BY Zenon
  <1>4. n \in Nat /\ m \in Nat /\ Len(q \o r) = n + m
    BY <1>3
  <1>5. a \in Int /\ b \in Int
    BY AmountNat
  <1> DEFINE h == [i \in 0..(n + m) |-> IF i <= n THEN f[i] ELSE a + g[i - n]]
  <1>6. \A i \in 0..n : h[i] = f[i]
    BY <1>4
  <1>7. ASSUME NEW i \in 0..m PROVE h[n+i] = a + g[i]
    <2>1. n + i \in 0..(n+m) /\ (n + i) - n = i /\ (n + i <= n <=> i = 0)
      BY <1>4
    <2>2. CASE i = 0
      <3>1. n + i = n /\ n \in 0..n
        BY <1>4, <2>2
      <3>2. h[n] = f[n]
        BY <1>6, <3>1, Zenon
      <3>3. f[n] = a /\ g[0] = 0
        BY <1>1, <1>2, <1>3, Zenon
      <3>4. a + 0 = a
        BY <1>5
      <3> HIDE DEF h
      <3> QED
        BY <2>2, <3>1, <3>2, <3>3, <3>4, Zenon
    <2>3. CASE i # 0
      BY <2>1, <2>3, Zenon
    <2> QED
      BY <2>2, <2>3, Zenon
  <1>8. h \in [0..(n+m) -> Int]
    <2> SUFFICES ASSUME NEW i \in 0..(n+m)
                 PROVE  (IF i <= n THEN f[i] ELSE a + g[i-n]) \in Int
      BY Zenon
    <2>1. CASE i <= n
      <3>1. i \in 0..n
        BY <1>4, <2>1
      <3> QED
        BY <1>1, <1>3, <2>1, <3>1, Zenon
    <2>2. CASE ~(i <= n)
      <3>1. i - n \in 0..m
        BY <1>4, <2>2
      <3>2. g[i-n] \in Int
        BY <1>3, <3>1, Zenon
      <3>3. a + g[i-n] \in Int
        BY <1>5, <3>2
      <3> QED
        BY <2>2, <3>3, Zenon
    <2> QED
      BY <2>1, <2>2, Zenon
  <1> HIDE DEF h
  <1>9. h[0] = 0 /\ h[n+m] = a + b
    <2>1. 0 \in 0..n /\ m \in 0..m
      BY <1>4
    <2> QED
      BY <1>1, <1>2, <1>3, <1>6, <1>7, <2>1, Zenon
  <1>10. Weighs(q \o r, h)
    <2> SUFFICES ASSUME NEW i \in 1..(n+m) PROVE h[i] = h[i-1] + Weight((q \o r)[i])
      BY <1>4, Zenon DEF Weighs
    <2>1. CASE i <= n
      <3>1. i \in 1..n /\ i \in 0..n /\ i - 1 \in 0..n /\ (q \o r)[i] = q[i]
        BY <1>3, <1>4, <2>1
      <3> QED
        BY <1>1, <1>3, <1>6, <3>1, Zenon DEF Weighs
    <2>2. CASE ~(i <= n)
      <3>1. PICK j : j = i - n
        BY Zenon
      <3>2a. j \in 1..m /\ j \in 0..m /\ j - 1 \in 0..m /\ i = n + j /\ i - 1 = n + (j - 1)
        <4>1. n \in Nat /\ m \in Nat
          BY <1>4
        <4> QED
          BY <2>2, <3>1, <4>1
      <3>2b. (q \o r)[i] = r[j]
        <4>1. Len(q) + j \in 1..(Len(q) + Len(r)) /\ ~(Len(q) + j <= Len(q)) /\ (Len(q) + j) - Len(q) = j
          BY <1>3, <1>4, <2>2, <3>1, <3>2a
        <4>2. (q \o r)[Len(q) + j] = r[j]
          BY <4>1
        <4> QED
          BY <1>3, <3>2a, <4>2, Zenon
      <3>2. /\ j \in 1..m /\ j \in 0..m /\ j - 1 \in 0..m /\ i = n + j /\ i - 1 = n + (j - 1)
            /\ (q \o r)[i] = r[j]
        BY <3>2a, <3>2b, Zenon
      <3>3. g[j] = g[j-1] + Weight(r[j]) /\ g[j-1] \in Int /\ g[j] \in Int
        BY <1>2, <1>3, <3>2, Zenon DEF Weighs
      <3>4. r[j] \in Messages
        BY <1>3, <3>2
      <3>5. Weight(r[j]) \in Nat
        BY <3>4, WeightNat, Zenon
      <3>6. h[i] = a + g[j] /\ h[i-1] = a + g[j-1]
        BY <1>7, <3>2, Zenon
      <3>7. a + g[j] = (a + g[j-1]) + Weight(r[j])
        BY <1>5, <3>3, <3>5
      <3> QED
        BY <3>2, <3>6, <3>7, Zenon
    <2> QED
      BY <2>1, <2>2, Zenon
  <1> QED
    BY <1>4, <1>8, <1>9, <1>10, Zenon DEF Amount

LEMMA AmountSplit ==
    ASSUME NEW q \in Seq(Messages), NEW a, Amount(q, a), NEW k \in 0..Len(q)
    PROVE  \E b, c \in Nat : /\ Amount(SubSeq(q, 1, k), b)
                             /\ Amount(SubSeq(q, k+1, Len(q)), c) /\ a = b + c
  <1>1. PICK f \in [0..Len(q) -> Int] : f[0] = 0 /\ f[Len(q)] = a /\ Weighs(q, f)
    BY Zenon DEF Amount
  <1>2. PICK n, p, r, b : /\ n = Len(q) /\ p = SubSeq(q, 1, k)
                          /\ r = SubSeq(q, k+1, n) /\ b = f[k]
    BY Zenon
  <1>3. n \in Nat /\ k \in Nat /\ k <= n /\ n - k \in Nat
    BY <1>2
  <1>4. p \in Seq(Messages) /\ Len(p) = k /\ \A i \in 1..k : p[i] = q[i]
    BY <1>2, <1>3
  <1>5. r \in Seq(Messages) /\ Len(r) = n - k
    BY <1>2, <1>3
  <1>6. ASSUME NEW i \in 1..(n-k) PROVE r[i] = q[k+i]
    <2>1. r[i] = q[(k+1)+i-1]
      BY <1>2, <1>3, <1>5
    <2>2. (k+1)+i-1 = k+i
      BY <1>3
    <2> QED
      BY <2>1, <2>2
  <1>7. b \in Int /\ a \in Int
    BY <1>1, <1>2, <1>3
  <1> DEFINE h == [i \in 0..k |-> f[i]]
             g == [i \in 0..(n-k) |-> f[k+i] - b]
  <1>8. Amount(p, b)
    <2>1. \A i \in 0..k : i \in 0..n /\ h[i] = f[i]
      BY <1>3
    <2>2. h \in [0..k -> Int] /\ h[0] = 0 /\ h[k] = b
      BY <1>1, <1>2, <1>3, <2>1
    <2> HIDE DEF h
    <2>3. Weighs(p, h)
      <3> SUFFICES ASSUME NEW i \in 1..k PROVE h[i] = h[i-1] + Weight(p[i])
        BY <1>4, Zenon DEF Weighs
      <3>1. i \in 1..n /\ i \in 0..k /\ i - 1 \in 0..k
        BY <1>3
      <3> QED
        BY <1>1, <1>2, <1>4, <2>1, <3>1, Zenon DEF Weighs
    <2> QED
      BY <1>4, <2>2, <2>3, Zenon DEF Amount
  <1>9. Amount(r, a - b)
    <2>1. \A i \in 0..(n-k) : k + i \in 0..n
      BY <1>3
    <2>2. ASSUME NEW i \in 0..(n-k) PROVE f[k+i] - b \in Int
      <3>1. f[k+i] \in Int
        BY <1>2, <2>1, Zenon
      <3> QED
        BY <1>7, <3>1
    <2>3. g \in [0..(n-k) -> Int] /\ \A i \in 0..(n-k) : g[i] = f[k+i] - b
      BY <2>2, Zenon
    <2> HIDE DEF g
    <2>4. g[0] = 0 /\ g[n-k] = a - b
      <3>1. 0 \in 0..(n-k) /\ n-k \in 0..(n-k) /\ k + 0 = k /\ k + (n-k) = n /\ b - b = 0
        BY <1>3, <1>7
      <3> QED
        BY <1>1, <1>2, <2>3, <3>1, Zenon
    <2>5. Weighs(r, g)
      <3> SUFFICES ASSUME NEW i \in 1..(n-k) PROVE g[i] = g[i-1] + Weight(r[i])
        BY <1>5, Zenon DEF Weighs
      <3>1. /\ k + i \in 1..n /\ k + i \in 0..n /\ (k + i) - 1 \in 0..n
            /\ i \in 0..(n-k) /\ i - 1 \in 0..(n-k) /\ k + (i-1) = (k+i)-1
        BY <1>3
      <3>2. /\ f[k+i] = f[(k+i)-1] + Weight(q[k+i])
            /\ f[k+i] \in Int /\ f[(k+i)-1] \in Int
        BY <1>1, <1>2, <3>1, Zenon DEF Weighs
      <3>3. q[k+i] \in Messages
        BY <1>2, <3>1
      <3>4. Weight(q[k+i]) \in Nat
        BY <3>3, WeightNat, Zenon
      <3>5. g[i] = f[k+i] - b /\ g[i-1] = f[(k+i)-1] - b
        BY <2>3, <3>1, Zenon
      <3>6. f[k+i] - b = (f[(k+i)-1] - b) + Weight(q[k+i])
        BY <1>7, <3>2, <3>4
      <3> QED
        BY <1>6, <3>5, <3>6, Zenon
    <2> QED
      BY <1>5, <2>3, <2>4, <2>5, Zenon DEF Amount
  <1>10. b \in Nat /\ a - b \in Nat
    BY <1>4, <1>5, <1>8, <1>9, AmountNat, Zenon
  <1>11. a = b + (a - b)
    BY <1>7
  <1> QED
    BY <1>2, <1>8, <1>9, <1>10, <1>11, Zenon

LEMMA AmountAppend ==
    ASSUME NEW q \in Seq(Messages), NEW m \in Messages, NEW a, Amount(q, a)
    PROVE  Amount(Append(q, m), a + Weight(m))
  <1>1. <<m>> \in Seq(Messages) /\ Append(q, m) = q \o <<m>>
    OBVIOUS
  <1>2. Amount(<<m>>, Weight(m))
    BY AmountOne, Zenon
  <1> QED
    BY <1>1, <1>2, AmountConcat, Zenon

LEMMA AmountTail ==
    ASSUME NEW q \in Seq(Messages), q # <<>>, NEW a, Amount(q, a)
    PROVE  \E b \in Nat : Amount(Tail(q), b) /\ a = b + Weight(Head(q))
  <1>0. Len(q) \in Nat /\ Len(q) > 0 /\ Head(q) \in Messages
    OBVIOUS
  <1>1. 1 \in 0..Len(q) /\ SubSeq(q, 1+1, Len(q)) = Tail(q) /\ Head(q) \in Messages
    <2>1. 1 \in 0..Len(q) /\ 1 + 1 = 2
      BY <1>0
    <2>2. SubSeq(q, 2, Len(q)) = Tail(q)
      BY <1>0
    <2> QED
      BY <1>0, <2>1, <2>2, Zenon
  <1>2. PICK b, c \in Nat : /\ Amount(SubSeq(q, 1, 1), b)
                            /\ Amount(SubSeq(q, 1+1, Len(q)), c) /\ a = b + c
    BY <1>1, AmountSplit
  <1>3. PICK p : p = SubSeq(q, 1, 1)
    BY Zenon
  <1>4. Len(p) = 1 /\ p[1] = Head(q)
    <2>1. Len(SubSeq(q, 1, 1)) = 1 /\ SubSeq(q, 1, 1)[1] = Head(q)
      BY <1>0
    <2> QED
      BY <1>3, <2>1, Zenon
  <1>5. b = Weight(Head(q))
    <2>1. PICK f \in [0..Len(p) -> Int] : f[0] = 0 /\ f[Len(p)] = b /\ Weighs(p, f)
      BY <1>2, <1>3, Zenon DEF Amount
    <2>2. f[1] = f[1-1] + Weight(p[1]) /\ 1 - 1 = 0
      BY <1>4, <2>1 DEF Weighs
    <2>3. Weight(p[1]) \in Nat
      BY <1>1, <1>4, WeightNat, Zenon
    <2> QED
      BY <1>4, <2>1, <2>2, <2>3
  <1>6. a = c + Weight(Head(q))
    BY <1>2, <1>5
  <1> QED
    BY <1>1, <1>2, <1>6, Zenon

(* What pieces that follow each other carry is the distance they lead.     *)
LEMMA LeadsAmount ==
    ASSUME NEW q \in Seq(Messages), NEW a, NEW b, Leads(q, a, b)
    PROVE  Amount(q, b - a)
  <1>1. PICK pos \in [0..Len(q) -> Int] : pos[0] = a /\ pos[Len(q)] = b /\ Follows(q, pos)
    BY Zenon DEF Leads
  <1>2. PICK n : n = Len(q)
    BY Zenon
  <1>3. n \in Nat /\ a \in Int /\ b \in Int
    BY <1>2, LeadsType
  <1> DEFINE f == [i \in 0..n |-> pos[i] - a]
  <1>4. ASSUME NEW i \in 0..n PROVE pos[i] - a \in Int /\ pos[i] \in Int
    BY <1>1, <1>2, <1>3
  <1>5. f \in [0..n -> Int] /\ \A i \in 0..n : f[i] = pos[i] - a
    BY <1>4, Zenon
  <1> HIDE DEF f
  <1>6. f[0] = 0 /\ f[n] = b - a
    <2>1. 0 \in 0..n /\ n \in 0..n /\ a - a = 0
      BY <1>3
    <2> QED
      BY <1>1, <1>2, <1>5, <2>1, Zenon
  <1>7. Weighs(q, f)
    <2> SUFFICES ASSUME NEW i \in 1..n PROVE f[i] = f[i-1] + Weight(q[i])
      BY <1>2, Zenon DEF Weighs
    <2>1. i \in 0..n /\ i - 1 \in 0..n
      BY <1>3
    <2>2. IF IsData(q[i]) THEN q[i].from = pos[i-1] /\ q[i].to = pos[i] ELSE pos[i] = pos[i-1]
      BY <1>1, <1>2, Zenon DEF Follows
    <2>3. f[i] = pos[i] - a /\ f[i-1] = pos[i-1] - a /\ pos[i] \in Int /\ pos[i-1] \in Int
      BY <1>4, <1>5, <2>1, Zenon
    <2>4. CASE IsData(q[i])
      <3>1. Weight(q[i]) = pos[i] - pos[i-1]
        BY <2>2, <2>4, Zenon DEF Weight, Size
      <3>2. pos[i] - a = (pos[i-1] - a) + (pos[i] - pos[i-1])
        BY <1>3, <2>3
      <3> QED
        BY <2>3, <3>1, <3>2, Zenon
    <2>5. CASE ~IsData(q[i])
      <3>1. Weight(q[i]) = 0 /\ pos[i] = pos[i-1]
        BY <2>2, <2>5, Zenon DEF Weight
      <3>2. pos[i] - a = (pos[i] - a) + 0
        BY <1>3, <2>3
      <3> QED
        BY <2>3, <3>1, <3>2, Zenon
    <2> QED
      BY <2>4, <2>5, Zenon
  <1> QED
    BY <1>2, <1>5, <1>6, <1>7, Zenon DEF Amount

LEMMA AmountLenWrite ==
    ASSUME NEW q \in Seq(Pieces), NEW a, Amount(q, a)
    PROVE  LenWrite(q) = a
  <1>1. q \in Seq(Messages) /\ \A i \in 1..Len(q) : IsData(q[i])
    BY DEF Pieces
  <1>2. PICK f \in [0..Len(q) -> Int] : f[0] = 0 /\ f[Len(q)] = a /\ Weighs(q, f)
    BY Zenon DEF Amount
  <1>3. Sums(q, f)
    BY <1>1, <1>2, Zenon DEF Sums, Weighs, Weight
  <1> QED
    BY <1>1, <1>2, <1>3, LenWriteSums, Zenon

-----------------------------------------------------------------------------
(* The bytes of data that the messages of q carry.                         *)
Bytes(q) == CHOOSE n : Amount(q, n)

LEMMA BytesAre ==
    ASSUME NEW q \in Seq(Messages)
    PROVE  /\ Bytes(q) \in Nat
           /\ \A n : Amount(q, n) <=> n = Bytes(q)
  <1> DEFINE Zero(m) == IF IsData(m) THEN m ELSE Msg("ack", 0, 0)
             z == [i \in 1..Len(q) |-> Zero(q[i])]
  <1>1. Len(q) \in Nat /\ \A i \in 1..Len(q) : q[i] \in Messages
    OBVIOUS
  <1>2. ASSUME NEW m \in Messages PROVE Zero(m) \in Messages /\ Size(Zero(m)) = Weight(m)
    <2>1. CASE IsData(m)
      <3>1. Zero(m) = m /\ Weight(m) = Size(m)
        BY <2>1, Zenon DEF Weight
      <3> QED
        BY <3>1, Zenon
    <2>2. CASE ~IsData(m)
      <3>1. Zero(m) = Msg("ack", 0, 0) /\ Weight(m) = 0
        BY <2>2, Zenon DEF Weight
      <3>2. Msg("ack", 0, 0) \in Messages /\ Size(Msg("ack", 0, 0)) = 0
        BY DEF Msg, Messages, Types, IsData, Size
      <3> QED
        BY <3>1, <3>2, Zenon
    <2> QED
      BY <2>1, <2>2, Zenon
  <1> HIDE DEF Zero
  <1>3. z \in Seq(Messages) /\ Len(z) = Len(q) /\ \A i \in 1..Len(q) : z[i] = Zero(q[i])
    BY <1>1, <1>2
  <1> HIDE DEF z
  <1>4. ASSUME NEW f \in [0..Len(q) -> Int], f[0] = 0
        PROVE  Sums(z, f) <=> Weighs(q, f)
    <2>1. \A i \in 1..Len(q) : Size(z[i]) = Weight(q[i])
      BY <1>1, <1>2, <1>3, Zenon
    <2> QED
      BY <1>3, <1>4, <2>1, Zenon DEF Sums, Weighs
  <1>5. PICK f : Sums(z, f)
    BY <1>3, SumsExist, Zenon
  <1>6. f \in [0..Len(q) -> Int] /\ f[0] = 0
    BY <1>3, <1>5, Zenon DEF Sums
  <1>7. Amount(q, f[Len(q)])
    BY <1>4, <1>5, <1>6, Zenon DEF Amount
  <1>8. ASSUME NEW n, Amount(q, n) PROVE n = LenWrite(z)
    <2>1. PICK g \in [0..Len(q) -> Int] : g[0] = 0 /\ g[Len(q)] = n /\ Weighs(q, g)
      BY <1>8, Zenon DEF Amount
    <2>2. Sums(z, g)
      BY <1>4, <2>1, Zenon
    <2> QED
      BY <1>3, <2>1, <2>2, LenWriteSums, Zenon
  <1>9. Amount(q, Bytes(q))
    BY <1>7, Zenon DEF Bytes
  <1>10. \A n : Amount(q, n) <=> n = Bytes(q)
    BY <1>8, <1>9, Zenon
  <1> QED
    BY <1>9, <1>10, AmountNat, Zenon

LEMMA BytesEmpty == Bytes(<<>>) = 0
  <1>1. <<>> \in Seq(Messages)
    OBVIOUS
  <1> QED
    BY <1>1, AmountEmpty, BytesAre, Zenon

LEMMA BytesConcat ==
    ASSUME NEW q \in Seq(Messages), NEW r \in Seq(Messages)
    PROVE  Bytes(q \o r) = Bytes(q) + Bytes(r)
  <1>1. Amount(q, Bytes(q)) /\ Amount(r, Bytes(r))
    BY BytesAre, Zenon
  <1>2. q \o r \in Seq(Messages)
    OBVIOUS
  <1> QED
    BY <1>1, <1>2, AmountConcat, BytesAre, Zenon

LEMMA BytesAppend ==
    ASSUME NEW q \in Seq(Messages), NEW m \in Messages
    PROVE  Bytes(Append(q, m)) = Bytes(q) + Weight(m)
  <1>1. Amount(q, Bytes(q))
    BY BytesAre, Zenon
  <1>2. Append(q, m) \in Seq(Messages)
    OBVIOUS
  <1> QED
    BY <1>1, <1>2, AmountAppend, BytesAre, Zenon

LEMMA BytesSplit ==
    ASSUME NEW q \in Seq(Messages), NEW k \in 0..Len(q)
    PROVE  Bytes(q) = Bytes(SubSeq(q, 1, k)) + Bytes(SubSeq(q, k+1, Len(q)))
  <1>1. Amount(q, Bytes(q))
    BY BytesAre, Zenon
  <1>2. SubSeq(q, 1, k) \in Seq(Messages) /\ SubSeq(q, k+1, Len(q)) \in Seq(Messages)
    <2>1. Len(q) \in Nat /\ k \in Nat /\ k <= Len(q)
      OBVIOUS
    <2>2. SubSeq(q, 1, k) \in Seq(Messages)
      BY <2>1
    <2>3. SubSeq(q, k+1, Len(q)) \in Seq(Messages)
      BY <2>1
    <2> QED
      BY <2>2, <2>3
  <1>3. PICK b, c \in Nat : /\ Amount(SubSeq(q, 1, k), b)
                            /\ Amount(SubSeq(q, k+1, Len(q)), c) /\ Bytes(q) = b + c
    BY <1>1, AmountSplit
  <1> QED
    BY <1>2, <1>3, BytesAre, Zenon

LEMMA BytesTail ==
    ASSUME NEW q \in Seq(Messages), q # <<>>
    PROVE  Bytes(q) = Bytes(Tail(q)) + Weight(Head(q))
  <1>1. Amount(q, Bytes(q))
    BY BytesAre, Zenon
  <1>2. Tail(q) \in Seq(Messages)
    OBVIOUS
  <1>3. PICK b \in Nat : Amount(Tail(q), b) /\ Bytes(q) = b + Weight(Head(q))
    BY <1>1, AmountTail, Zenon
  <1> QED
    BY <1>2, <1>3, BytesAre, Zenon

LEMMA BytesLead ==
    ASSUME NEW q \in Seq(Messages), NEW a, NEW b, Leads(q, a, b)
    PROVE  Bytes(q) = b - a
  BY LeadsAmount, BytesAre, Zenon

LEMMA BytesWrite ==
    ASSUME NEW q \in Seq(Pieces)
    PROVE  LenWrite(q) = Bytes(q) /\ q \in Seq(Messages)
  <1>1. Pieces \subseteq Messages
    BY Zenon DEF Pieces
  <1>2. q \in Seq(Messages)
    BY <1>1, SeqSubset, Zenon
  <1> QED
    BY <1>2, AmountLenWrite, BytesAre, Zenon

-----------------------------------------------------------------------------
(* The acknowledgements of q do not fall, from lo to hi.                   *)
Climbs(q, lo, hi) ==
    /\ lo <= hi
    /\ \A i \in 1..Len(q) : q[i].type = "ack" =>
          /\ lo <= q[i].to /\ q[i].to <= hi
          /\ \A j \in i..Len(q) : q[j].type = "ack" => q[i].to <= q[j].to

LEMMA ClimbsConcat ==
    ASSUME NEW q \in Seq(Messages), NEW r \in Seq(Messages),
           NEW a \in Int, NEW b \in Int, NEW c \in Int, Climbs(q, a, b), Climbs(r, b, c)
    PROVE  Climbs(q \o r, a, c)
  <1>1. PICK s, n, m : s = q \o r /\ n = Len(q) /\ m = Len(r)
    BY Zenon
  <1>2. n \in Nat /\ m \in Nat /\ Len(s) = n + m
    BY <1>1
  <1>3. \A i \in 1..n : s[i] = q[i] /\ q[i].to \in Int
    BY <1>1, <1>2 DEF Messages
  <1>4. ASSUME NEW i \in 1..(n+m), ~(i <= n)
        PROVE  i - n \in 1..m /\ s[i] = r[i-n] /\ r[i-n].to \in Int
    <2>1. i - n \in 1..m
      BY <1>2, <1>4
    <2>2. s[i] = r[i-n]
      BY <1>1, <1>2, <1>4
    <2>3. r[i-n] \in Messages
      BY <1>1, <2>1
    <2> QED
      BY <2>1, <2>2, <2>3 DEF Messages
  <1>5. a <= b /\ b <= c /\ a <= c
    BY DEF Climbs
  <1>6. ASSUME NEW i \in 1..n, q[i].type = "ack"
        PROVE  a <= q[i].to /\ q[i].to <= b
               /\ \A j \in i..n : q[j].type = "ack" => q[i].to <= q[j].to
    BY <1>1, <1>6, Zenon DEF Climbs
  <1>7. ASSUME NEW i \in 1..m, r[i].type = "ack"
        PROVE  b <= r[i].to /\ r[i].to <= c
               /\ \A j \in i..m : r[j].type = "ack" => r[i].to <= r[j].to
    BY <1>1, <1>7, Zenon DEF Climbs
  <1>8. ASSUME NEW i \in 1..(n+m), s[i].type = "ack"
        PROVE  a <= s[i].to /\ s[i].to <= c
               /\ \A j \in i..(n+m) : s[j].type = "ack" => s[i].to <= s[j].to
    <2>1. CASE i <= n
      <3>1. i \in 1..n /\ s[i] = q[i] /\ q[i].to \in Int
        BY <1>2, <1>3, <2>1
      <3>2. a <= q[i].to /\ q[i].to <= b
        BY <1>6, <1>8, <3>1, Zenon
      <3>3. ASSUME NEW j \in i..(n+m), s[j].type = "ack" PROVE q[i].to <= s[j].to
        <4>1. CASE j <= n
          <5>1. j \in i..n /\ j \in 1..n
            BY <1>2, <3>1, <4>1
          <5> QED
            BY <1>3, <1>6, <1>8, <3>1, <3>3, <5>1, Zenon
        <4>2. CASE ~(j <= n)
          <5>1. j \in 1..(n+m)
            BY <1>2, <3>1
          <5>2. j - n \in 1..m /\ s[j] = r[j-n] /\ r[j-n].to \in Int
            BY <1>4, <4>2, <5>1, Zenon
          <5>3. b <= r[j-n].to
            BY <1>7, <3>3, <5>2, Zenon
          <5>4. q[i].to <= r[j-n].to
            BY <3>1, <3>2, <5>2, <5>3
          <5> QED
            BY <5>2, <5>4, Zenon
        <4> QED
          BY <4>1, <4>2, Zenon
      <3>4. q[i].to <= c
        BY <1>5, <3>1, <3>2
      <3> QED
        BY <3>1, <3>2, <3>3, <3>4, Zenon
    <2>2. CASE ~(i <= n)
      <3>1. i - n \in 1..m /\ s[i] = r[i-n] /\ r[i-n].to \in Int
        BY <1>4, <2>2, Zenon
      <3>2. b <= r[i-n].to /\ r[i-n].to <= c
        BY <1>7, <1>8, <3>1, Zenon
      <3>3. ASSUME NEW j \in i..(n+m), s[j].type = "ack" PROVE r[i-n].to <= s[j].to
        <4>1. j \in 1..(n+m) /\ ~(j <= n) /\ j - n \in (i-n)..m
          BY <1>2, <2>2, <3>1
        <4>2. s[j] = r[j-n]
          BY <1>4, <4>1, Zenon
        <4> QED
          BY <1>7, <1>8, <3>1, <3>3, <4>1, <4>2, Zenon
      <3>4. a <= r[i-n].to
        BY <1>5, <3>1, <3>2
      <3> QED
        BY <3>1, <3>2, <3>3, <3>4, Zenon
    <2> QED
      BY <2>1, <2>2, Zenon
  <1> QED
    BY <1>1, <1>2, <1>5, <1>8, Zenon DEF Climbs

(* Messages that acknowledge nothing.                                      *)
LEMMA ClimbsFlat ==
    ASSUME NEW q \in Seq(Messages), NEW a \in Int, NEW b \in Int, a <= b,
           \A i \in 1..Len(q) : q[i].type # "ack"
    PROVE  Climbs(q, a, b)
  BY Zenon DEF Climbs

LEMMA ClimbsAppend ==
    ASSUME NEW q \in Seq(Messages), NEW a \in Int, NEW b \in Int, Climbs(q, a, b),
           NEW m \in Messages, m.type = "ack" => m.to = b
    PROVE  Climbs(Append(q, m), a, b)
  <1>1. <<m>> \in Seq(Messages) /\ Append(q, m) = q \o <<m>> /\ Len(<<m>>) = 1
    OBVIOUS
  <1>2. \A i \in 1..1 : <<m>>[i] = m
    OBVIOUS
  <1>3. b <= b
    OBVIOUS
  <1>4. \A i \in 1..1 : \A j \in i..1 : j \in 1..1
    OBVIOUS
  <1>5. Climbs(<<m>>, b, b)
    BY <1>1, <1>2, <1>3, <1>4, Zenon DEF Climbs
  <1> QED
    BY <1>1, <1>5, ClimbsConcat, Zenon

LEMMA ClimbsWiden ==
    ASSUME NEW q \in Seq(Messages), NEW a \in Int, NEW b \in Int, NEW c \in Int,
           Climbs(q, a, b), b <= c
    PROVE  Climbs(q, a, c)
  <1>1. \A i \in 1..Len(q) : q[i].to \in Int
    BY DEF Messages
  <1>2. a <= b /\ a <= c
    BY DEF Climbs
  <1>3. \A i \in 1..Len(q) : q[i].to <= b => q[i].to <= c
    BY <1>1
  <1> QED
    BY <1>2, <1>3, Zenon DEF Climbs

LEMMA ClimbsTail ==
    ASSUME NEW q \in Seq(Messages), q # <<>>, NEW a \in Int, NEW b \in Int, Climbs(q, a, b)
    PROVE  /\ Climbs(Tail(q), a, b)
           /\ Head(q).type = "ack" => /\ a <= Head(q).to /\ Head(q).to \in Int
                                      /\ Climbs(Tail(q), Head(q).to, b)
  <1>1. PICK n, t, h : n = Len(q) /\ t = Tail(q) /\ h = Head(q)
    BY Zenon
  <1>2. n \in Nat /\ n > 0 /\ Len(t) = n - 1 /\ h = q[1] /\ 1 \in 1..n /\ h \in Messages
    BY <1>1
  <1>3. \A i \in 1..(n-1) : i + 1 \in 1..n /\ t[i] = q[i+1]
    BY <1>1, <1>2
  <1>4. \A i \in 1..(n-1) : \A j \in i..(n-1) : j \in 1..(n-1) /\ j + 1 \in (i+1)..n
    BY <1>2
  <1>5. \A i \in 1..n : q[i].type = "ack" =>
          /\ a <= q[i].to /\ q[i].to <= b
          /\ \A j \in i..n : q[j].type = "ack" => q[i].to <= q[j].to
    BY <1>1, Zenon DEF Climbs
  <1>6. \A i \in 1..(n-1) : t[i].type = "ack" =>
          /\ a <= t[i].to /\ t[i].to <= b
          /\ \A j \in i..(n-1) : t[j].type = "ack" => t[i].to <= t[j].to
    BY <1>3, <1>4, <1>5, Zenon
  <1>7. a <= b
    BY DEF Climbs
  <1>8. Climbs(t, a, b)
    BY <1>2, <1>6, <1>7, Zenon DEF Climbs
  <1>9. ASSUME h.type = "ack"
        PROVE  a <= h.to /\ h.to \in Int /\ Climbs(t, h.to, b)
    <2>1. a <= h.to /\ h.to <= b
      BY <1>2, <1>5, <1>9, Zenon
    <2>2. h.to \in Int
      BY <1>2 DEF Messages
    <2>3. \A i \in 1..(n-1) : i + 1 \in 1..n /\ i + 1 \in 1..n
      BY <1>3
    <2>4. \A i \in 1..(n-1) : t[i].type = "ack" => h.to <= t[i].to
      BY <1>2, <1>3, <1>5, <1>9, Zenon
    <2>5. Climbs(t, h.to, b)
      BY <1>2, <1>6, <2>1, <2>4, Zenon DEF Climbs
    <2> QED
      BY <2>1, <2>2, <2>5, Zenon
  <1> QED
    BY <1>1, <1>8, <1>9, Zenon

-----------------------------------------------------------------------------
(* What x knows of its window: it has sent no more than one read buffer    *)
(* beyond HighWater for each time it blocked, and fails at the second.     *)
Level(blocked, sent, status, failed) ==
    \/ blocked = 0 /\ sent <= HighWater /\ status # "block"
    \/ blocked = 1 /\ sent <= HighWater + RecvBuf
    \/ blocked = 2 /\ sent <= HighWater + 2 * RecvBuf /\ failed # "no"
Within(c) ==
    /\ c.numSent = c.bytesTX - c.lastAcked /\ c.lenRead <= RecvBuf /\ c.failed # "full"
    /\ Level(c.numBlocked, c.numSent, c.status, c.failed)

(* The bytes that have left for the peer, and those received from it.      *)
Gone(c) == c.bytesTX - Bytes(c.ctl)
Got(c)  == c.bytesRX + Bytes(c.wq) + Bytes(c.reasm)

(* What the work of a proxy on its connection may make of it: no more has  *)
(* arrived and no less has left, the acknowledgements still climb to what  *)
(* is written, and the window is kept.                                     *)
Stays(c, d) ==
    /\ Within(c) => Within(d)
    /\ d.lastAcked = c.lastAcked
    /\ Gone(c) <= Gone(d)
    /\ Got(d) <= Got(c)
    /\ \A lo \in Int : Climbs(c.ctl, lo, c.bytesRX) => Climbs(d.ctl, lo, d.bytesRX)

LEMMA ConnNumbers ==
    ASSUME NEW c \in Connections
    PROVE  /\ c.ctl \in Seq(Messages) /\ c.wq \in Seq(Messages) /\ c.reasm \in Seq(Messages)
           /\ Bytes(c.ctl) \in Nat /\ Bytes(c.wq) \in Nat /\ Bytes(c.reasm) \in Nat
           /\ c.bytesTX \in Nat /\ c.bytesRX \in Nat /\ c.numSent \in Int
           /\ c.lastAcked \in Int /\ c.lenRead \in Int /\ c.numBlocked \in Int
           /\ Gone(c) \in Int /\ Got(c) \in Nat
  <1>1. c.ctl \in Seq(Messages) /\ c.wq \in Seq(Pieces) /\ c.reasm \in Seq(Pieces)
    BY DEF Connections
  <1>2. /\ c.bytesTX \in Nat /\ c.bytesRX \in Nat /\ c.numSent \in Int
        /\ c.lastAcked \in Int /\ c.lenRead \in Int /\ c.numBlocked \in Int
    BY DEF Connections
  <1>3. c.wq \in Seq(Messages) /\ c.reasm \in Seq(Messages)
    BY <1>1, BytesWrite, Zenon
  <1>4. Bytes(c.ctl) \in Nat /\ Bytes(c.wq) \in Nat /\ Bytes(c.reasm) \in Nat
    BY <1>1, <1>3, BytesAre, Zenon
  <1>5. Gone(c) \in Int /\ Got(c) \in Nat
    BY <1>2, <1>4 DEF Gone, Got
  <1> QED
    BY <1>1, <1>2, <1>3, <1>4, <1>5, Zenon

LEMMA StaysTrans ==
    ASSUME NEW c \in Connections, NEW d \in Connections, NEW e \in Connections,
           Stays(c, d), Stays(d, e)
    PROVE  Stays(c, e)
  <1>1. Gone(c) <= Gone(d) /\ Gone(d) <= Gone(e) /\ Got(e) <= Got(d) /\ Got(d) <= Got(c)
    BY Zenon DEF Stays
  <1>2. /\ Gone(c) \in Int /\ Gone(d) \in Int /\ Gone(e) \in Int
        /\ Got(c) \in Nat /\ Got(d) \in Nat /\ Got(e) \in Nat
    BY ConnNumbers, Zenon
  <1>3. Gone(c) <= Gone(e) /\ Got(e) <= Got(c)
    BY <1>1, <1>2
  <1> QED
    BY <1>3, Zenon DEF Stays

(* The window is not touched.                                              *)
LEMMA WithinBy ==
    ASSUME NEW c \in Connections, NEW d \in Connections,
           d.numSent = c.numSent, d.bytesTX = c.bytesTX, d.lastAcked = c.lastAcked,
           d.numBlocked = c.numBlocked, d.lenRead <= c.lenRead \/ d.lenRead <= RecvBuf,
           d.failed = c.failed \/ d.failed = "dead",
           d.status = c.status \/ d.status # "block", Within(c)
    PROVE  Within(d)
  <1>1. /\ c.numSent = c.bytesTX - c.lastAcked /\ c.lenRead <= RecvBuf /\ c.failed # "full"
        /\ Level(c.numBlocked, c.numSent, c.status, c.failed)
    BY Zenon DEF Within
  <1>2. c.lenRead \in Int /\ d.lenRead \in Int
    BY ConnNumbers, Zenon
  <1>3. d.lenRead <= RecvBuf
    BY <1>1, <1>2, SizeAssumption
  <1>4. d.failed # "full" /\ (c.failed # "no" => d.failed # "no")
    BY <1>1
  <1>5. Level(d.numBlocked, d.numSent, d.status, d.failed)
    <2>1. c.status # "block" => d.status # "block"
      OBVIOUS
    <2> QED
      BY <1>1, <1>4, <2>1, Zenon DEF Level
  <1> QED
    BY <1>1, <1>3, <1>4, <1>5, Zenon DEF Within

LEMMA StaysBy ==
    ASSUME NEW c \in Connections, NEW d \in Connections,
           d.numSent = c.numSent, d.bytesTX = c.bytesTX, d.lastAcked = c.lastAcked,
           d.numBlocked = c.numBlocked, d.lenRead <= c.lenRead \/ d.lenRead <= RecvBuf,
           d.failed = c.failed \/ d.failed = "dead",
           d.status = c.status \/ d.status # "block",
           Bytes(d.ctl) <= Bytes(c.ctl), Got(d) <= Got(c),
           \A lo \in Int : Climbs(c.ctl, lo, c.bytesRX) => Climbs(d.ctl, lo, d.bytesRX)
    PROVE  Stays(c, d)
  <1>1. c.bytesTX \in Nat /\ Bytes(c.ctl) \in Nat /\ Bytes(d.ctl) \in Nat
    BY ConnNumbers, Zenon
  <1>2. Gone(c) <= Gone(d)
    BY <1>1 DEF Gone
  <1>3. Within(c) => Within(d)
    BY WithinBy, Zenon
  <1> QED
    BY <1>2, <1>3, Zenon DEF Stays

(* Nothing but its state, and what it holds of the user's bytes, changes.  *)
LEMMA StaysSame ==
    ASSUME NEW c \in Connections, NEW d \in Connections,
           d.numSent = c.numSent, d.bytesTX = c.bytesTX, d.lastAcked = c.lastAcked,
           d.numBlocked = c.numBlocked, d.lenRead <= c.lenRead \/ d.lenRead <= RecvBuf,
           d.failed = c.failed, d.status = c.status \/ d.status # "block",
           d.ctl = c.ctl, d.bytesRX = c.bytesRX, d.wq = c.wq, d.reasm = c.reasm
    PROVE  Stays(c, d)
  <1>1. Bytes(c.ctl) \in Nat /\ Got(c) \in Nat /\ Got(d) = Got(c)
    BY ConnNumbers, Zenon DEF Got
  <1>2. Bytes(d.ctl) <= Bytes(c.ctl) /\ Got(d) <= Got(c)
    BY <1>1
  <1>3. \A lo \in Int : Climbs(c.ctl, lo, c.bytesRX) => Climbs(d.ctl, lo, d.bytesRX)
    BY Zenon
  <1> QED
    BY <1>2, <1>3, StaysBy, Zenon

LEMMA StaysRefl ==
    ASSUME NEW c \in Connections
    PROVE  Stays(c, c)
  <1>1. c.lenRead <= c.lenRead
    BY ConnNumbers
  <1> QED
    BY <1>1, StaysSame, Zenon

(* A message without data; an acknowledgement is of what is written.       *)
LEMMA StaysSend ==
    ASSUME NEW c \in Connections, NEW m \in Messages, ~IsData(m),
           m.type = "ack" => m.to = c.bytesRX
    PROVE  /\ [c EXCEPT !.ctl = Append(@, m)] \in Connections
           /\ Stays(c, [c EXCEPT !.ctl = Append(@, m)])
  <1>1. PICK q : q = Append(c.ctl, m)
    BY Zenon
  <1>2. PICK d : d = [c EXCEPT !.ctl = q]
    BY Zenon
  <1>3. c.ctl \in Seq(Messages) /\ Bytes(c.ctl) \in Nat /\ Got(c) \in Nat /\ c.bytesRX \in Int
    BY ConnNumbers
  <1>4. q \in Seq(Messages)
    BY <1>1, <1>3
  <1>5. d \in Connections
    BY <1>2, <1>4, Zenon DEF Connections
  <1>6. /\ d.numSent = c.numSent /\ d.bytesTX = c.bytesTX /\ d.lastAcked = c.lastAcked
        /\ d.numBlocked = c.numBlocked /\ d.lenRead = c.lenRead /\ d.failed = c.failed
        /\ d.status = c.status /\ d.ctl = q /\ d.bytesRX = c.bytesRX /\ d.wq = c.wq
        /\ d.reasm = c.reasm
    BY <1>2 DEF Connections
  <1>7. Bytes(q) = Bytes(c.ctl) + Weight(m)
    BY <1>1, <1>3, BytesAppend, Zenon
  <1>8. Weight(m) = 0
    BY Zenon DEF Weight
  <1>9. Bytes(q) <= Bytes(c.ctl)
    BY <1>3, <1>7, <1>8
  <1>10. Got(d) = Got(c)
    BY <1>6, Zenon DEF Got
  <1>11. Got(d) <= Got(c) /\ d.lenRead <= c.lenRead
    BY <1>3, <1>6, <1>10, ConnNumbers
  <1>12. \A lo \in Int : Climbs(c.ctl, lo, c.bytesRX) => Climbs(d.ctl, lo, d.bytesRX)
    BY <1>1, <1>3, <1>6, ClimbsAppend, Zenon
  <1>13. Stays(c, d)
    BY <1>5, <1>6, <1>9, <1>11, <1>12, StaysBy, Zenon
  <1> QED
    BY <1>1, <1>2, <1>5, <1>13, Zenon

LEMMA StaysSetDead ==
    ASSUME NEW x \in Sides, NEW c \in Conn(x), Found(c), NEW abnormal \in BOOLEAN
    PROVE  SetDead(c, abnormal) \in Connections /\ Stays(c, SetDead(c, abnormal))
  <1>0. c \in Connections /\ c.ctl \in Seq(Messages) /\ Got(c) \in Nat /\ Bytes(c.ctl) \in Nat
    BY ConnNumbers DEF Conn
  <1>1. CASE c.status = "closed"
    <2>1. SetDead(c, abnormal) = c
      BY <1>1, Zenon DEF SetDead
    <2> QED
      BY <1>0, <2>1, StaysRefl, Zenon
  <1>2. CASE c.status # "closed"
    <2>1. PICK d : d = [c EXCEPT !.status = "closed", !.abnormal = abnormal, !.dead = TRUE]
      BY Zenon
    <2>2. d \in Connections
      BY <1>0, <2>1, Zenon DEF Connections, Statuses
    <2>3. /\ d.numSent = c.numSent /\ d.bytesTX = c.bytesTX /\ d.lastAcked = c.lastAcked
          /\ d.numBlocked = c.numBlocked /\ d.lenRead = c.lenRead /\ d.failed = c.failed
          /\ d.status # "block" /\ d.ctl = c.ctl /\ d.bytesRX = c.bytesRX /\ d.wq = c.wq
          /\ d.reasm = c.reasm
      BY <1>0, <2>1 DEF Connections
    <2>4. d.lenRead <= c.lenRead
      BY <1>0, <2>3, ConnNumbers
    <2>5. Stays(c, d)
      BY <1>0, <2>2, <2>3, <2>4, StaysSame, Zenon
    <2>6. CASE ~abnormal
      <3>1. SetDead(c, abnormal) = d
        BY <1>2, <2>1, <2>6, Zenon DEF SetDead
      <3> QED
        BY <2>2, <2>5, <3>1, Zenon
    <2>7. CASE abnormal
      <3>1. PICK f : f = [d EXCEPT !.ctl = <<>>]
        BY Zenon
      <3>2. f \in Connections
        <4>0. <<>> \in Seq(Messages)
          OBVIOUS
        <4>1. PICK q \in Seq(Messages) : q = <<>>
          BY <4>0, Zenon
        <4>2. f = [d EXCEPT !.ctl = q]
          BY <3>1, <4>1, Zenon
        <4> QED
          BY <2>2, <4>2, Zenon DEF Connections
      <3>3. /\ f.numSent = d.numSent /\ f.bytesTX = d.bytesTX /\ f.lastAcked = d.lastAcked
            /\ f.numBlocked = d.numBlocked /\ f.lenRead = d.lenRead /\ f.failed = d.failed
            /\ f.status = d.status /\ f.ctl = <<>> /\ f.bytesRX = d.bytesRX /\ f.wq = d.wq
            /\ f.reasm = d.reasm
        BY <2>2, <3>1 DEF Connections
      <3>4. Got(f) = Got(c) /\ Got(f) \in Nat
        BY <1>0, <2>3, <3>3, Zenon DEF Got
      <3>5. f.lenRead <= d.lenRead /\ Bytes(f.ctl) <= Bytes(d.ctl) /\ Got(f) <= Got(d)
        <4>1. Got(d) = Got(c)
          BY <2>3, Zenon DEF Got
        <4>2. d.lenRead \in Int /\ Bytes(d.ctl) \in Nat
          BY <2>2, ConnNumbers, Zenon
        <4>3. Bytes(f.ctl) = 0
          BY <3>3, BytesEmpty, Zenon
        <4> QED
          BY <3>3, <3>4, <4>1, <4>2, <4>3
      <3>6. ASSUME NEW lo \in Int, Climbs(d.ctl, lo, d.bytesRX) PROVE Climbs(f.ctl, lo, f.bytesRX)
        <4>1. lo <= d.bytesRX
          BY <3>6, Zenon DEF Climbs
        <4>2. d.bytesRX \in Int
          BY <2>2, ConnNumbers
        <4>3. f.ctl \in Seq(Messages) /\ \A i \in 1..Len(f.ctl) : f.ctl[i].type # "ack"
          BY <3>3
        <4> QED
          BY <3>3, <4>1, <4>2, <4>3, ClimbsFlat, Zenon
      <3>7. Stays(d, f)
        BY <2>2, <3>2, <3>3, <3>5, <3>6, StaysBy, Zenon
      <3>8. PICK m : m = Msg("close", 0, 0)
        BY Zenon
      <3>9. m \in Messages /\ ~IsData(m) /\ m.type # "ack"
        BY <3>8 DEF Msg, Messages, Types, IsData
      <3>10. PICK e : e = [f EXCEPT !.ctl = Append(@, m)]
        BY Zenon
      <3>11. e \in Connections /\ Stays(f, e)
        BY <3>2, <3>9, <3>10, StaysSend, Zenon
      <3>12. SetDead(c, abnormal) = e
        BY <1>2, <2>1, <2>7, <3>1, <3>8, <3>10, Zenon DEF SetDead, SendWACloseConnection
      <3> QED
        BY <1>0, <2>2, <2>5, <3>2, <3>7, <3>11, <3>12, StaysTrans, Zenon
    <2> QED
      BY <2>6, <2>7, Zenon
  <1> QED
    BY <1>1, <1>2, Zenon

-----------------------------------------------------------------------------
LEMMA LastCut ==
    ASSUME NEW n \in Int, NEW cuts \in Increasing(n)
    PROVE  Cut(cuts, Len(cuts)) <= n
  <1>1. PICK k \in 0..n : cuts \in [1..k -> 1..n]
    BY SMTT(30) DEF Increasing
  <1>2. k \in Nat /\ Len(cuts) = k /\ n >= 0
    BY <1>1
  <1>3. CASE k = 0
    BY <1>2, <1>3 DEF Cut
  <1>4. CASE k # 0
    <2>1. cuts[k] \in 1..n
      BY <1>1, <1>2, <1>4
    <2> QED
      BY <1>2, <1>4, <2>1 DEF Cut
  <1> QED
    BY <1>3, <1>4

(* What is taken from the user is in the messages to be sent, and the      *)
(* window is passed by one read buffer at most before the connection       *)
(* blocks.                                                                 *)
LEMMA StaysProcessUserData ==
    ASSUME NEW x \in Sides, NEW c \in Conn(x), Found(c), c.failed = "no",
           NEW cuts \in Increasing(c.lenRead)
    PROVE  /\ ProcessUserData(c, x, cuts) \in Connections
           /\ Stays(c, ProcessUserData(c, x, cuts))
  <1>0. c \in Connections /\ c.ctl \in Seq(Messages) /\ Got(c) \in Nat /\ Bytes(c.ctl) \in Nat
        /\ c.lenRead \in Int /\ c.bytesTX \in Nat /\ c.bytesRX \in Int /\ c.numSent \in Int
        /\ c.lastAcked \in Int /\ c.numBlocked \in Int
    BY ConnNumbers DEF Conn
  <1>1. CASE c.status = "block"
    <2>1. ProcessUserData(c, x, cuts) = c
      BY <1>1, Zenon DEF ProcessUserData
    <2> QED
      BY <1>0, <2>1, StaysRefl, Zenon
  <1>2. CASE c.status # "block"
    <2> DEFINE k == Len(cuts)
               w == Cut(cuts, k)
               pieces == [i \in 1..k |-> Piece(c, x, cuts, i)]
               blocks == k > 0 /\ Full(c, w)
               kept == c.bufs \cup {p \in {pieces[i] : i \in 1..k} : p.type = "name"}
               stat == IF blocks THEN "block" ELSE c.status
               nb == IF blocks THEN c.numBlocked + 1 ELSE c.numBlocked
               fail == IF blocks /\ c.numBlocked + 1 > 1 THEN "blocked" ELSE c.failed
               d == [c EXCEPT !.ctl = c.ctl \o pieces, !.bufs = kept,
                              !.bytesTX = c.bytesTX + w, !.numSent = c.numSent + w,
                              !.lenRead = c.lenRead - w, !.status = stat,
                              !.numBlocked = nb, !.failed = fail]
               e == [SendWACloseConnection(d, d.bytesTX + d.lenRead) EXCEPT !.status = "finsent"]
    <2>1. ProcessUserData(c, x, cuts) = IF d.status = "done" THEN e ELSE d
      BY <1>2 DEF ProcessUserData
    <2>2. pieces \in Seq(Quiet(x)) /\ Leads(pieces, c.bytesTX, c.bytesTX + w)
      BY <1>0, PiecesLead
    <2>3. w \in Nat /\ k \in Nat /\ w <= c.lenRead /\ (k = 0 => w = 0)
      <3>1. w \in Nat /\ k \in Nat
        BY <1>0, CutsType
      <3>2. w <= c.lenRead
        BY <1>0, LastCut
      <3> QED
        BY <3>1, <3>2 DEF Cut
    <2>4. pieces \in Seq(Messages)
      BY <2>2, SentTypes, SeqSubset
    <2>5. kept \in SUBSET Messages
      <3>1. Len(pieces) = k /\ \A i \in 1..k : pieces[i] \in Messages
        BY <2>3, <2>4
      <3> HIDE DEF pieces
      <3> QED
        BY <1>0, <3>1, SMTT(30) DEF Connections
    <2>5a. \A i \in 1..Len(pieces) : pieces[i].type # "ack"
      <3>1. Len(pieces) = k /\ \A i \in 1..k : pieces[i] = Piece(c, x, cuts, i)
        BY <2>3
      <3>2. \A i \in 1..k : Piece(c, x, cuts, i).type # "ack"
        BY DEF Piece, Msg
      <3> HIDE DEF pieces
      <3> QED
        BY <3>1, <3>2, Zenon
    <2> HIDE DEF w, pieces, kept, e
    <2>6. c.ctl \o pieces \in Seq(Messages)
      BY <1>0, <2>4
    <2>7. /\ c.bytesTX + w \in Nat /\ c.numSent + w \in Int /\ c.lenRead - w \in Int
          /\ stat \in Statuses /\ nb \in Int /\ fail \in Failures
      <3> HIDE DEF blocks
      <3>1. c.status \in Statuses /\ c.failed \in Failures
        BY <1>0 DEF Connections
      <3>2. c.bytesTX + w \in Nat /\ c.numSent + w \in Int /\ c.lenRead - w \in Int
        <4>1. \A i, j \in Nat, l, n \in Int : i + j \in Nat /\ l + j \in Int /\ n - j \in Int
          OBVIOUS
        <4>2. w \in Nat /\ c.bytesTX \in Nat /\ c.numSent \in Int /\ c.lenRead \in Int
          BY <1>0, <2>3, Zenon
        <4> QED
          BY <4>1, <4>2, Zenon
      <3>3. stat \in Statuses /\ fail \in Failures
        BY <3>1 DEF Statuses, Failures
      <3>4. nb \in Int
        BY <1>0
      <3> QED
        BY <3>2, <3>3, <3>4
    <2>7a. ASSUME Level(c.numBlocked, c.numSent, c.status, c.failed), c.lenRead <= RecvBuf
           PROVE  Level(nb, c.numSent + w, stat, fail) /\ fail # "full"
      <3> DEFINE blocked == c.numBlocked
                 sent == c.numSent
      <3>1. \/ blocked = 0 /\ sent <= HighWater
            \/ blocked = 1 /\ sent <= HighWater + RecvBuf
        BY <2>7a, Zenon DEF Level
      <3>2. RecvBuf \in Nat /\ HighWater \in Nat /\ sent \in Int /\ w <= RecvBuf
        BY <1>0, <2>3, <2>7a, SizeAssumption
      <3>3. fail # "full"
        BY Zenon
      <3> HIDE DEF blocked, sent
      <3>4. CASE blocks
        <4>1. nb = blocked + 1 /\ stat = "block" /\ (blocked + 1 > 1 => fail = "blocked")
          BY <3>4 DEF blocked
        <4>2. CASE blocked = 0
          <5>1. nb = 1 /\ sent + w <= HighWater + RecvBuf
            BY <2>3, <3>1, <3>2, <4>1, <4>2
          <5> QED
            BY <3>3, <5>1, Zenon DEF Level, sent
        <4>3. CASE blocked = 1
          <5>1. nb = 2 /\ sent + w <= HighWater + 2 * RecvBuf /\ fail = "blocked"
            BY <2>3, <3>1, <3>2, <4>1, <4>3
          <5>2. fail # "no"
            BY <5>1
          <5> QED
            BY <3>3, <5>1, <5>2, Zenon DEF Level, sent
        <4> QED
          BY <3>1, <4>2, <4>3, Zenon
      <3>5. CASE ~blocks
        <4>1. nb = blocked /\ stat = c.status
          BY <3>5, Zenon DEF blocked
        <4>2. k = 0 \/ sent + w <= HighWater
          BY <2>3, <3>2, <3>5 DEF Full, sent
        <4>3. /\ blocked = 0 => sent + w <= HighWater
              /\ blocked = 1 => sent + w <= HighWater + RecvBuf
          BY <2>3, <3>1, <3>2, <4>2
        <4> QED
          BY <1>2, <3>1, <3>3, <4>1, <4>3, Zenon DEF Level, sent
      <3> QED
        BY <3>4, <3>5, Zenon
    <2> HIDE DEF stat, nb, fail, k
    <2>9. d \in Connections
      BY <1>0, <2>5, <2>6, <2>7, Zenon DEF Connections
    <2>10. /\ d.ctl = c.ctl \o pieces /\ d.bytesTX = c.bytesTX + w /\ d.status = stat
           /\ d.bytesRX = c.bytesRX /\ d.wq = c.wq /\ d.reasm = c.reasm
           /\ d.numSent = c.numSent + w /\ d.lenRead = c.lenRead - w
           /\ d.numBlocked = nb /\ d.failed = fail /\ d.lastAcked = c.lastAcked
      BY <1>0, SMTT(30) DEF Connections
    <2> HIDE DEF d
    <2>11. Gone(c) <= Gone(d)
      <3>1. Bytes(pieces) = (c.bytesTX + w) - c.bytesTX
        BY <2>2, <2>4, BytesLead, Zenon
      <3>2. Bytes(d.ctl) = Bytes(c.ctl) + Bytes(pieces)
        BY <1>0, <2>4, <2>10, BytesConcat, Zenon
      <3> QED
        BY <1>0, <2>3, <2>10, <3>1, <3>2 DEF Gone
    <2>12. Got(d) <= Got(c)
      <3>1. Got(d) = Got(c)
        BY <2>10, Zenon DEF Got
      <3> QED
        BY <1>0, <3>1
    <2>13. ASSUME NEW lo \in Int, Climbs(c.ctl, lo, c.bytesRX)
           PROVE  Climbs(d.ctl, lo, d.bytesRX)
      <3>1. c.bytesRX <= c.bytesRX
        BY <1>0
      <3>2. Climbs(pieces, c.bytesRX, c.bytesRX)
        BY <1>0, <2>4, <2>5a, <3>1, ClimbsFlat, Zenon
      <3> QED
        BY <1>0, <2>4, <2>10, <2>13, <3>2, ClimbsConcat, Zenon
    <2>14. ASSUME Within(c) PROVE Within(d)
      <3>1. /\ c.numSent = c.bytesTX - c.lastAcked /\ c.lenRead <= RecvBuf
            /\ Level(c.numBlocked, c.numSent, c.status, c.failed)
        BY <2>14, Zenon DEF Within
      <3>2. Level(nb, c.numSent + w, stat, fail) /\ fail # "full"
        BY <2>7a, <3>1, Zenon
      <3>3. d.numSent = d.bytesTX - d.lastAcked /\ d.lenRead <= RecvBuf
        <4>1. c.numSent + w = (c.bytesTX + w) - c.lastAcked
          BY <1>0, <2>3, <3>1
        <4>2. c.lenRead - w <= RecvBuf
          BY <1>0, <2>3, <3>1, SizeAssumption
        <4> QED
          BY <2>10, <4>1, <4>2, Zenon
      <3> QED
        BY <2>10, <3>2, <3>3, Zenon DEF Within
    <2>15. Stays(c, d)
      BY <2>10, <2>11, <2>12, <2>13, <2>14, Zenon DEF Stays
    <2>16. e \in Connections /\ Stays(d, e)
      <3>1. PICK v \in Int : v = d.bytesTX + d.lenRead
        BY <2>9, ConnNumbers
      <3>2. PICK m : m = Msg("close", 0, v)
        BY Zenon
      <3>3. m \in Messages /\ ~IsData(m) /\ m.type # "ack"
        BY <3>2 DEF Msg, Messages, Types, IsData
      <3>4. PICK f : f = [d EXCEPT !.ctl = Append(@, m)]
        BY Zenon
      <3>5. f \in Connections /\ Stays(d, f)
        BY <2>9, <3>3, <3>4, StaysSend, Zenon
      <3>6. e = [f EXCEPT !.status = "finsent"]
        BY <3>1, <3>2, <3>4 DEF e, SendWACloseConnection
      <3>7. e \in Connections
        BY <3>5, <3>6, Zenon DEF Connections, Statuses
      <3>8. /\ e.numSent = f.numSent /\ e.bytesTX = f.bytesTX /\ e.lastAcked = f.lastAcked
            /\ e.numBlocked = f.numBlocked /\ e.lenRead = f.lenRead /\ e.failed = f.failed
            /\ e.status # "block" /\ e.ctl = f.ctl /\ e.bytesRX = f.bytesRX /\ e.wq = f.wq
            /\ e.reasm = f.reasm
        BY <3>5, <3>6 DEF Connections
      <3>9. e.lenRead <= f.lenRead
        BY <3>5, <3>8, ConnNumbers
      <3>10. Stays(f, e)
        BY <3>5, <3>7, <3>8, <3>9, StaysSame, Zenon
      <3> QED
        BY <2>9, <3>5, <3>7, <3>10, StaysTrans, Zenon
    <2> QED
      BY <1>0, <2>1, <2>9, <2>15, <2>16, StaysTrans, Zenon
  <1> QED
    BY <1>1, <1>2, Zenon

LEMMA StaysCloseConnection ==
    ASSUME NEW x \in Sides, NEW c \in Conn(x), Found(c), c.failed = "no",
           NEW cuts \in Increasing(c.lenRead)
    PROVE  /\ CloseConnection(c, x, cuts) \in Connections
           /\ Stays(c, CloseConnection(c, x, cuts))
  <1>0. c \in Connections /\ c.ctl \in Seq(Sent(x))
    BY DEF Conn
  <1>1. CASE c.status = "closed"
    <2>1. CloseConnection(c, x, cuts) = c
      BY <1>1, Zenon DEF CloseConnection
    <2> QED
      BY <1>0, <2>1, StaysRefl, Zenon
  <1>2. CASE c.status # "closed"
    <2>1. PICK d : d = [c EXCEPT !.status = "done"]
      BY Zenon
    <2>2. d \in Connections
      BY <1>0, <2>1, Zenon DEF Connections, Statuses
    <2>3. /\ d.numSent = c.numSent /\ d.bytesTX = c.bytesTX /\ d.lastAcked = c.lastAcked
          /\ d.numBlocked = c.numBlocked /\ d.lenRead = c.lenRead /\ d.failed = c.failed
          /\ d.status = "done" /\ d.ctl = c.ctl /\ d.bytesRX = c.bytesRX /\ d.wq = c.wq
          /\ d.reasm = c.reasm
      BY <1>0, <2>1 DEF Connections
    <2>4. d.lenRead <= c.lenRead /\ d.status # "block"
      BY <1>0, <2>3, ConnNumbers
    <2>5. Stays(c, d)
      BY <1>0, <2>2, <2>3, <2>4, StaysSame, Zenon
    <2>6. d \in Conn(x) /\ Found(d)
      BY <1>0, <2>2, <2>3 DEF Conn, Found
    <2>7. PICK v \in Int : v = d.bytesTX
      BY <2>2, ConnNumbers
    <2>8. PICK m : m = Msg("close", 0, v)
      BY Zenon
    <2>9. m \in Quiet(x) /\ ~IsData(m) /\ m.type # "ack"
      BY <2>8, MsgTypes, Zenon DEF Msg, IsData
    <2>10. m \in Messages
      BY <2>9, SentTypes
    <2>11. PICK g : g = [d EXCEPT !.ctl = Append(@, m)]
      BY Zenon
    <2>12. g \in Connections /\ Stays(d, g)
      BY <2>2, <2>9, <2>10, <2>11, StaysSend, Zenon
    <2>13. g \in Conn(x)
      <3>1. Works(x, d, g)
        BY <2>6, <2>9, <2>11, WorksSend, Zenon
      <3> QED
        BY <3>1, Zenon DEF Works
    <2>14. PICK f : f = [g EXCEPT !.status = "finsent"]
      BY Zenon
    <2>15. f \in Connections
      BY <2>12, <2>14, Zenon DEF Connections, Statuses
    <2>16. /\ f.numSent = g.numSent /\ f.bytesTX = g.bytesTX /\ f.lastAcked = g.lastAcked
           /\ f.numBlocked = g.numBlocked /\ f.lenRead = g.lenRead /\ f.failed = g.failed
           /\ f.status = "finsent" /\ f.ctl = g.ctl /\ f.bytesRX = g.bytesRX /\ f.wq = g.wq
           /\ f.reasm = g.reasm
      BY <2>12, <2>14 DEF Connections
    <2>17. f.lenRead <= g.lenRead /\ f.status # "block"
      BY <2>12, <2>16, ConnNumbers
    <2>18. Stays(g, f)
      BY <2>12, <2>15, <2>16, <2>17, StaysSame, Zenon
    <2>19. Stays(c, g)
      BY <1>0, <2>2, <2>5, <2>12, StaysTrans, Zenon
    <2>20. Stays(c, f)
      BY <1>0, <2>12, <2>15, <2>18, <2>19, StaysTrans, Zenon
    <2>21. f \in Conn(x) /\ Found(f)
      BY <2>13, <2>15, <2>16 DEF Conn, Found
    <2>22. SetDead(f, FALSE) \in Connections /\ Stays(c, SetDead(f, FALSE))
      <3>1. FALSE \in BOOLEAN
        OBVIOUS
      <3>2. SetDead(f, FALSE) \in Connections /\ Stays(f, SetDead(f, FALSE))
        BY <2>21, <3>1, StaysSetDead, Zenon
      <3> QED
        BY <1>0, <2>15, <2>20, <3>2, StaysTrans, Zenon
    <2>23. /\ ProcessUserData(d, x, cuts) \in Connections
           /\ Stays(c, ProcessUserData(d, x, cuts))
      <3>1. cuts \in Increasing(d.lenRead) /\ d.failed = "no"
        BY <2>3, Zenon
      <3>2. /\ ProcessUserData(d, x, cuts) \in Connections
            /\ Stays(d, ProcessUserData(d, x, cuts))
        BY <2>6, <3>1, StaysProcessUserData, Zenon
      <3> QED
        BY <1>0, <2>2, <2>5, <3>2, StaysTrans, Zenon
    <2>24. CloseConnection(c, x, cuts) \in {ProcessUserData(d, x, cuts), f, SetDead(f, FALSE)}
      <3>1. f = [SendWACloseConnection(d, d.bytesTX) EXCEPT !.status = "finsent"]
        BY <2>7, <2>8, <2>11, <2>14 DEF SendWACloseConnection
      <3>2. CloseConnection(c, x, cuts) =
               IF d.lenRead > 0 THEN ProcessUserData(d, x, cuts)
               ELSE IF f.numSent > 0 THEN f ELSE SetDead(f, FALSE)
        BY <1>2, <2>1, <3>1 DEF CloseConnection
      <3> QED
        BY <3>2, Zenon
    <2> QED
      BY <2>15, <2>20, <2>22, <2>23, <2>24, Zenon
  <1> QED
    BY <1>1, <1>2, Zenon

LEMMA StaysPeerCloses ==
    ASSUME NEW x \in Sides, NEW c \in Conn(x), Found(c), NEW n \in Int
    PROVE  PeerCloses(c, n) \in Connections /\ Stays(c, PeerCloses(c, n))
  <1>0. c \in Connections
    BY DEF Conn
  <1>1. PICK d : d = [c EXCEPT !.closeBytes = n]
    BY Zenon
  <1>2. d \in Connections
    BY <1>0, <1>1, Zenon DEF Connections
  <1>3. /\ d.numSent = c.numSent /\ d.bytesTX = c.bytesTX /\ d.lastAcked = c.lastAcked
        /\ d.numBlocked = c.numBlocked /\ d.lenRead = c.lenRead /\ d.failed = c.failed
        /\ d.status = c.status /\ d.ctl = c.ctl /\ d.bytesRX = c.bytesRX /\ d.wq = c.wq
        /\ d.reasm = c.reasm
    BY <1>0, <1>1 DEF Connections
  <1>4. d.lenRead <= c.lenRead
    BY <1>0, <1>3, ConnNumbers
  <1>5. Stays(c, d)
    BY <1>0, <1>2, <1>3, <1>4, StaysSame, Zenon
  <1>6. TRUE \in BOOLEAN /\ FALSE \in BOOLEAN
    OBVIOUS
  <1>7. PeerCloses(c, n) \in {SetDead(c, TRUE), SetDead(c, FALSE), d}
    BY <1>1, Zenon DEF PeerCloses
  <1> QED
    BY <1>2, <1>5, <1>6, <1>7, StaysSetDead, Zenon

LEMMA StaysWrite ==
    ASSUME NEW x \in Sides, NEW c \in Conn(x), Found(c),
           NEW k \in -1..Len(c.wq), NEW eventTriggered \in BOOLEAN
    PROVE  /\ Write(c, k, eventTriggered) \in Connections
           /\ Stays(c, Write(c, k, eventTriggered))
  <1>0. /\ c \in Connections /\ c.ctl \in Seq(Sent(x)) /\ c.wq \in Seq(Pieces)
        /\ c.bytesRX \in Nat /\ Len(c.wq) \in Nat
    <2>1. c \in Connections /\ c.ctl \in Seq(Sent(x))
      BY DEF Conn
    <2>2. c.wq \in Seq(Pieces) /\ c.bytesRX \in Nat
      BY <2>1 DEF Connections
    <2> QED
      BY <2>1, <2>2
  <1>1. CASE k = -1
    <2>1. Write(c, k, eventTriggered) = SetDead(c, TRUE) /\ TRUE \in BOOLEAN
      BY <1>1 DEF Write
    <2> QED
      BY <2>1, StaysSetDead, Zenon
  <1>2. CASE k = 0
    <2>1. Write(c, k, eventTriggered) = c
      BY <1>2 DEF Write
    <2> QED
      BY <1>0, <2>1, StaysRefl, Zenon
  <1>3. CASE k # -1 /\ k # 0
    <2>0. PICK q : q = c.wq
      BY Zenon
    <2>1. k \in 0..Len(q) /\ k \in Nat /\ Len(q) \in Nat /\ q \in Seq(Pieces)
      BY <1>0, <1>3, <2>0
    <2>2. PICK p, r : p = SubSeq(q, 1, k) /\ r = SubSeq(q, k+1, Len(q))
      BY Zenon
    <2>3. p \in Seq(Pieces) /\ r \in Seq(Pieces)
      BY <2>1, <2>2
    <2>4. PICK n : n = LenWrite(p)
      BY Zenon
    <2>5. /\ n = Bytes(p) /\ n \in Nat /\ Bytes(r) \in Nat /\ Bytes(q) = n + Bytes(r)
      <3>1. p \in Seq(Messages) /\ r \in Seq(Messages) /\ q \in Seq(Messages) /\ n = Bytes(p)
        BY <2>1, <2>3, <2>4, BytesWrite, Zenon
      <3>2. Bytes(q) = Bytes(p) + Bytes(r)
        BY <2>1, <2>2, <3>1, BytesSplit, Zenon
      <3>3. Bytes(p) \in Nat /\ Bytes(r) \in Nat
        BY <3>1, BytesAre, Zenon
      <3> QED
        BY <3>1, <3>2, <3>3, Zenon
    <2>6. PICK b : b = [c EXCEPT !.wq = r]
      BY Zenon
    <2>7. b \in Connections /\ b.bytesRX = c.bytesRX
      BY <1>0, <2>3, <2>6, Zenon DEF Connections
    <2>8. PICK v \in Nat : v = b.bytesRX + n
      BY <1>0, <2>5, <2>7
    <2>9. PICK d : d = [b EXCEPT !.bytesRX = v]
      BY Zenon
    <2>10. d = [c EXCEPT !.wq = r, !.bytesRX = v]
      BY <1>0, <2>6, <2>9 DEF Connections
    <2>11. d \in Connections
      BY <1>0, <2>3, <2>10, Zenon DEF Connections
    <2>12. /\ d.numSent = c.numSent /\ d.bytesTX = c.bytesTX /\ d.lastAcked = c.lastAcked
           /\ d.numBlocked = c.numBlocked /\ d.lenRead = c.lenRead /\ d.failed = c.failed
           /\ d.status = c.status /\ d.ctl = c.ctl /\ d.bytesRX = v /\ d.wq = r
           /\ d.reasm = c.reasm
      BY <1>0, <2>10 DEF Connections
    <2>13. Got(d) <= Got(c) /\ d.lenRead <= c.lenRead /\ Bytes(d.ctl) <= Bytes(c.ctl)
      <3>1. /\ c.lenRead \in Int /\ Bytes(c.ctl) \in Nat /\ Bytes(c.reasm) \in Nat
            /\ v = c.bytesRX + n /\ Bytes(c.wq) = n + Bytes(r)
        BY <1>0, <2>0, <2>5, <2>7, <2>8, ConnNumbers, Zenon
      <3>2. PICK i, j, h : i = Bytes(c.wq) /\ j = Bytes(r) /\ h = Bytes(c.reasm)
        BY Zenon
      <3>3. Got(d) = v + j + h /\ Got(c) = c.bytesRX + i + h
        BY <2>12, <3>2, Zenon DEF Got
      <3>4. v + j + h <= c.bytesRX + i + h
        <4>1. i = n + j /\ j \in Nat /\ h \in Nat /\ n \in Nat /\ v = c.bytesRX + n
          BY <2>5, <3>1, <3>2, Zenon
        <4> QED
          BY <1>0, <4>1
      <3>5. c.lenRead <= c.lenRead /\ Bytes(c.ctl) <= Bytes(c.ctl)
        BY <3>1
      <3> QED
        BY <2>12, <3>3, <3>4, <3>5, Zenon
    <2>14. ASSUME NEW lo \in Int, Climbs(c.ctl, lo, c.bytesRX) PROVE Climbs(d.ctl, lo, d.bytesRX)
      <3>1. c.bytesRX <= v /\ c.bytesRX \in Int /\ v \in Int
        BY <1>0, <2>5, <2>7, <2>8
      <3>2. c.ctl \in Seq(Messages)
        BY <1>0, ConnNumbers, Zenon
      <3> QED
        BY <2>12, <2>14, <3>1, <3>2, ClimbsWiden, Zenon
    <2>15. Stays(c, d)
      BY <1>0, <2>11, <2>12, <2>13, <2>14, StaysBy, Zenon
    <2>16. PICK m : m = Msg("ack", 0, v)
      BY Zenon
    <2>17. m \in Quiet(x) /\ ~IsData(m) /\ m.to = d.bytesRX
      <3>1. v \in Int
        OBVIOUS
      <3>2. m \in Quiet(x)
        BY <2>16, <3>1, MsgTypes, Zenon
      <3>3. ~IsData(m) /\ m.to = v
        BY <2>16 DEF Msg, IsData
      <3> QED
        BY <2>12, <3>2, <3>3, Zenon
    <2>18. m \in Messages
      BY <2>17, SentTypes
    <2>19. PICK e : e = [d EXCEPT !.ctl = Append(@, m)]
      BY Zenon
    <2>20. e \in Connections /\ Stays(d, e)
      BY <2>11, <2>17, <2>18, <2>19, StaysSend, Zenon
    <2>21. Stays(c, e)
      BY <1>0, <2>11, <2>15, <2>20, StaysTrans, Zenon
    <2>22. e \in Conn(x) /\ Found(e)
      <3>1. d \in Conn(x) /\ Found(d)
        BY <1>0, <2>11, <2>12 DEF Conn, Found
      <3>2. Works(x, d, e)
        BY <2>17, <2>19, <3>1, WorksSend, Zenon
      <3> QED
        BY <3>2, Zenon DEF Works
    <2>23. SetDead(e, FALSE) \in Connections /\ Stays(c, SetDead(e, FALSE))
      <3>1. FALSE \in BOOLEAN
        OBVIOUS
      <3>2. SetDead(e, FALSE) \in Connections /\ Stays(e, SetDead(e, FALSE))
        BY <2>22, <3>1, StaysSetDead, Zenon
      <3> QED
        BY <1>0, <2>20, <2>21, <3>2, StaysTrans, Zenon
    <2>24. Write(c, k, eventTriggered) \in {e, SetDead(e, FALSE)}
      <3>1. Write(c, k, eventTriggered) = PostWrite(b, n, eventTriggered)
        BY <1>3, <2>0, <2>2, <2>4, <2>6 DEF Write
      <3>2. e = SendWANameAck([b EXCEPT !.bytesRX = @ + n], b.bytesRX + n)
        BY <2>8, <2>9, <2>16, <2>19 DEF SendWANameAck
      <3> QED
        BY <3>1, <3>2, Zenon DEF PostWrite
    <2> QED
      BY <2>20, <2>21, <2>23, <2>24, Zenon
  <1> QED
    BY <1>1, <1>2, <1>3, Zenon

-----------------------------------------------------------------------------
(* Both connections, and what is between them.                             *)
LEMMA PeerFacts ==
    ASSUME NEW x \in Sides
    PROVE  /\ Peer(x) \in Sides /\ Peer(x) # x /\ Peer(Peer(x)) = x
           /\ \A z \in Sides : z = x \/ z = Peer(x)
           /\ x = "R" <=> Peer(x) = "S"
  BY DEF Sides, Peer

LEMMA QueueFields ==
    ASSUME NEW x \in Sides, NEW c \in Conn(x), NEW p \in Pieces
    PROVE  LET d == Queue(c, p)
           IN  /\ d \in Conn(x)
               /\ d.wq = Append(c.wq, p) /\ d.reasm = c.reasm /\ d.bytesRX = c.bytesRX
               /\ d.status = c.status /\ d.dead = c.dead /\ d.ctl = c.ctl
               /\ d.bytesTX = c.bytesTX
  <1> DEFINE full == LenWrite(c.wq) + Size(p) >= 2 * Window
             fail == IF full THEN "full" ELSE c.failed
             d == [c EXCEPT !.wq = Append(c.wq, p), !.failed = fail]
  <1>0. c \in Connections /\ c.ctl \in Seq(Sent(x))
    BY DEF Conn
  <1>1. Queue(c, p) = d
    BY DEF Queue
  <1> HIDE DEF full
  <1>2. fail \in Failures /\ Append(c.wq, p) \in Seq(Pieces)
    BY <1>0 DEF Connections, Failures
  <1> HIDE DEF fail
  <1>3. d \in Connections
    BY <1>0, <1>2, Zenon DEF Connections
  <1>4. /\ d.wq = Append(c.wq, p) /\ d.reasm = c.reasm /\ d.bytesRX = c.bytesRX
        /\ d.status = c.status /\ d.dead = c.dead /\ d.ctl = c.ctl
        /\ d.bytesTX = c.bytesTX
    BY <1>0 DEF Connections
  <1> HIDE DEF d
  <1>5. d \in Conn(x)
    BY <1>0, <1>3, <1>4 DEF Conn
  <1> QED
    BY <1>1, <1>4, <1>5

LEMMA WritableRange ==
    ASSUME NEW x \in Sides, NEW c \in Conn(x), NEW k \in Writable(c, x)
    PROVE  k \in -1..Len(c.wq)
  <1>1. Len(c.wq) \in Nat
    <2>1. c \in Connections
      BY DEF Conn
    <2>2. c.wq \in Seq(Pieces)
      BY <2>1 DEF Connections
    <2> QED
      BY <2>2
  <1>2. CASE c.abnormal \/ c.wq = <<>>
    <2>1. k = 0
      BY <1>2 DEF Writable
    <2> QED
      BY <1>1, <2>1
  <1>3. CASE ~(c.abnormal \/ c.wq = <<>>) /\ user[x].state \in {"open", "closed"}
    <2>1. k \in 0..Len(c.wq)
      BY <1>3 DEF Writable
    <2> QED
      BY <1>1, <2>1
  <1>4. CASE ~(c.abnormal \/ c.wq = <<>>) /\ user[x].state \in {"broken", "reset"}
    <2>1. k = -1 \/ k = 0
      BY <1>4 DEF Writable
    <2> QED
      BY <1>1, <2>1
  <1>5. CASE /\ ~(c.abnormal \/ c.wq = <<>>)
             /\ user[x].state \notin {"open", "closed", "broken", "reset"}
    BY <1>5 DEF Writable
  <1> QED
    BY <1>2, <1>3, <1>4, <1>5

(* Not more arrives than has left, and no acknowledgement is of bytes that *)
(* are not written: so what is on its way from x fits into its window.     *)
Under(C, N, x) == Got(C[Peer(x)]) + Bytes(N[x]) <= Gone(C[x])
Acks(C, N, x) ==
    \E m \in Int : /\ Climbs(N[Peer(x)], C[x].lastAcked, m)
                   /\ Climbs(C[Peer(x)].ctl, m, C[Peer(x)].bytesRX)
Bound(C, N) == \A x \in Sides : Within(C[x]) /\ Under(C, N, x) /\ Acks(C, N, x)
Kinds(C, N) == C \in [Sides -> Connections] /\ N \in [Sides -> Seq(Messages)]

(* What is queued for the user of x or still to come is less than two      *)
(* windows.                                                                *)
LEMMA BoundMeans ==
    ASSUME NEW C, NEW N, Kinds(C, N), Bound(C, N), NEW x \in Sides
    PROVE  Bytes(C[x].wq) + Bytes(C[x].reasm) + Bytes(N[Peer(x)]) < 2 * Window
  <1>1. PICK y \in Sides : y = Peer(x) /\ Peer(y) = x
    BY PeerFacts, Zenon
  <1>2. PICK c \in Connections : c = C[x]
    BY Zenon DEF Kinds
  <1>3. PICK d \in Connections : d = C[y]
    BY <1>1, Zenon DEF Kinds
  <1>4. PICK q \in Seq(Messages) : q = N[y]
    BY <1>1, Zenon DEF Kinds
  <1>5. Within(d) /\ Got(c) + Bytes(q) <= Gone(d)
    BY <1>1, <1>2, <1>3, <1>4, Zenon DEF Bound, Under
  <1>6. PICK m \in Int : /\ Climbs(N[x], d.lastAcked, m)
                         /\ Climbs(c.ctl, m, c.bytesRX)
    BY <1>1, <1>2, <1>3, Zenon DEF Bound, Acks
  <1>7. d.lastAcked <= m /\ m <= c.bytesRX
    BY <1>6, Zenon DEF Climbs
  <1>8. /\ d.lastAcked \in Int /\ c.bytesRX \in Nat /\ d.bytesTX \in Nat /\ d.numSent \in Int
        /\ Bytes(c.wq) \in Nat /\ Bytes(c.reasm) \in Nat /\ Bytes(d.ctl) \in Nat
        /\ Bytes(q) \in Nat
    BY ConnNumbers, BytesAre, Zenon
  <1>9. PICK i, j, k, g : /\ i = Bytes(c.wq) /\ j = Bytes(c.reasm) /\ k = Bytes(q)
                          /\ g = Bytes(d.ctl)
    BY Zenon
  <1>10. (c.bytesRX + i + j) + k <= d.bytesTX - g
    BY <1>5, <1>9, Zenon DEF Got, Gone
  <1>11. i \in Nat /\ j \in Nat /\ k \in Nat /\ g \in Nat
    BY <1>8, <1>9, Zenon
  <1>12. i + j + k <= d.bytesTX - d.lastAcked
    <2>1. PICK b, a, t : b = c.bytesRX /\ a = d.lastAcked /\ t = d.bytesTX
      BY Zenon
    <2>2. /\ a <= m /\ m <= b /\ (b + i + j) + k <= t - g
          /\ a \in Int /\ b \in Int /\ t \in Int
      BY <1>7, <1>8, <1>10, <2>1
    <2>3. i + j + k <= t - a
      BY <1>11, <2>2
    <2> QED
      BY <2>1, <2>3, Zenon
  <1>13. d.numSent = d.bytesTX - d.lastAcked
    BY <1>5, Zenon DEF Within
  <1>14. \/ d.numSent <= HighWater
         \/ d.numSent <= HighWater + RecvBuf
         \/ d.numSent <= HighWater + 2 * RecvBuf
    BY <1>5, Zenon DEF Within, Level
  <1>15. /\ HighWater \in Nat /\ RecvBuf \in Nat /\ Window \in Nat
         /\ HighWater + 2 * RecvBuf < 2 * Window
    BY SizeAssumption
  <1>16. d.numSent < 2 * Window
    BY <1>8, <1>14, <1>15
  <1>17. i + j + k < 2 * Window
    BY <1>8, <1>11, <1>12, <1>13, <1>15, <1>16
  <1> QED
    BY <1>1, <1>2, <1>4, <1>9, <1>17, Zenon

(* x works on its connection, or on a message from its peer.               *)
LEMMA BoundMove ==
    ASSUME NEW C, NEW N, Kinds(C, N), Bound(C, N), NEW x \in Sides, NEW d \in Connections,
           NEW q \in Seq(Messages),
           Within(d), Gone(C[x]) <= Gone(d),
           Got(d) + Bytes(q) <= Got(C[x]) + Bytes(N[Peer(x)]),
           \A m \in Int : Climbs(N[Peer(x)], C[x].lastAcked, m) => Climbs(q, d.lastAcked, m),
           \A m \in Int : Climbs(C[x].ctl, m, C[x].bytesRX) => Climbs(d.ctl, m, d.bytesRX)
    PROVE  /\ Kinds([C EXCEPT ![x] = d], [N EXCEPT ![Peer(x)] = q])
           /\ Bound([C EXCEPT ![x] = d], [N EXCEPT ![Peer(x)] = q])
  <1>1. PICK y \in Sides : y = Peer(x) /\ Peer(y) = x /\ y # x /\ \A z \in Sides : z = x \/ z = y
    BY PeerFacts, Zenon
  <1>2. PICK D, M : D = [C EXCEPT ![x] = d] /\ M = [N EXCEPT ![y] = q]
    BY Zenon
  <1>3. /\ D \in [Sides -> Connections] /\ M \in [Sides -> Seq(Messages)]
        /\ D[x] = d /\ D[y] = C[y] /\ M[x] = N[x] /\ M[y] = q
    BY <1>1, <1>2, Zenon DEF Kinds
  <1>4. C[x] \in Connections /\ C[y] \in Connections /\ N[x] \in Seq(Messages) /\ N[y] \in Seq(Messages)
    BY <1>1, Zenon DEF Kinds
  <1>5. Within(C[y]) /\ Under(C, N, x) /\ Under(C, N, y) /\ Acks(C, N, x) /\ Acks(C, N, y)
    BY <1>1, Zenon DEF Bound
  <1>6. Under(D, M, x)
    <2>1. Got(C[y]) + Bytes(N[x]) <= Gone(C[x])
      BY <1>1, <1>5, Zenon DEF Under
    <2>2. /\ Got(C[y]) \in Nat /\ Bytes(N[x]) \in Nat /\ Gone(C[x]) \in Int /\ Gone(d) \in Int
      BY <1>4, ConnNumbers, BytesAre, Zenon
    <2>3. Got(C[y]) + Bytes(N[x]) <= Gone(d)
      BY <2>1, <2>2
    <2> QED
      BY <1>1, <1>3, <2>3, Zenon DEF Under
  <1>7. Under(D, M, y)
    <2>1. Got(C[x]) + Bytes(N[y]) <= Gone(C[y])
      BY <1>1, <1>5, Zenon DEF Under
    <2>2. Got(d) + Bytes(q) <= Got(C[x]) + Bytes(N[y])
      BY <1>1, Zenon
    <2>3. /\ Got(C[x]) \in Nat /\ Bytes(N[y]) \in Nat /\ Gone(C[y]) \in Int
          /\ Got(d) \in Nat /\ Bytes(q) \in Nat
      BY <1>4, ConnNumbers, BytesAre, Zenon
    <2>4. Got(d) + Bytes(q) <= Gone(C[y])
      <3>1. \A i, j, k, l \in Nat, g \in Int : k + l <= i + j /\ i + j <= g => k + l <= g
        OBVIOUS
      <3> QED
        BY <2>1, <2>2, <2>3, <3>1, Zenon
    <2> QED
      BY <1>1, <1>3, <2>4, Zenon DEF Under
  <1>8. Acks(D, M, x) /\ Acks(D, M, y)
    BY <1>1, <1>3, <1>5, Zenon DEF Acks
  <1>9. Bound(D, M)
    BY <1>1, <1>3, <1>5, <1>6, <1>7, <1>8, Zenon DEF Bound
  <1> QED
    BY <1>1, <1>2, <1>3, <1>9, Zenon DEF Kinds

LEMMA BoundStays ==
    ASSUME NEW C, NEW N, Kinds(C, N), Bound(C, N), NEW x \in Sides, NEW d \in Connections,
           Stays(C[x], d)
    PROVE  Kinds([C EXCEPT ![x] = d], N) /\ Bound([C EXCEPT ![x] = d], N)
  <1>1. PICK y \in Sides : y = Peer(x)
    BY PeerFacts, Zenon
  <1>2. PICK q \in Seq(Messages) : q = N[y]
    BY Zenon DEF Kinds
  <1>3. [N EXCEPT ![y] = q] = N
    BY <1>2 DEF Kinds
  <1>4. Within(C[x]) /\ C[x] \in Connections
    BY Zenon DEF Bound, Kinds
  <1>5. /\ Within(d) /\ d.lastAcked = C[x].lastAcked /\ Gone(C[x]) <= Gone(d)
        /\ Got(d) <= Got(C[x])
        /\ \A m \in Int : Climbs(C[x].ctl, m, C[x].bytesRX) => Climbs(d.ctl, m, d.bytesRX)
    BY <1>4, Zenon DEF Stays
  <1>6. Got(d) + Bytes(q) <= Got(C[x]) + Bytes(q)
    <2>1. Got(d) \in Nat /\ Got(C[x]) \in Nat /\ Bytes(q) \in Nat
      BY <1>4, ConnNumbers, BytesAre, Zenon
    <2> QED
      BY <1>5, <2>1
  <1>7. /\ Kinds([C EXCEPT ![x] = d], [N EXCEPT ![Peer(x)] = q])
        /\ Bound([C EXCEPT ![x] = d], [N EXCEPT ![Peer(x)] = q])
    <2>1. Got(d) + Bytes(q) <= Got(C[x]) + Bytes(N[Peer(x)])
      BY <1>1, <1>2, <1>6, Zenon
    <2>2. \A m \in Int : Climbs(N[Peer(x)], C[x].lastAcked, m) => Climbs(q, d.lastAcked, m)
      BY <1>1, <1>2, <1>5, Zenon
    <2> QED
      BY <1>5, <2>1, <2>2, BoundMove, Zenon
  <1> QED
    BY <1>1, <1>3, <1>7, Zenon

(* A message is read and, as far as Bound goes, dropped.                   *)
LEMMA BoundTake ==
    ASSUME NEW C, NEW N, Kinds(C, N), Bound(C, N), NEW x \in Sides, N[Peer(x)] # <<>>
    PROVE  /\ Kinds(C, [N EXCEPT ![Peer(x)] = Tail(@)])
           /\ Bound(C, [N EXCEPT ![Peer(x)] = Tail(@)])
  <1>1. PICK y \in Sides : y = Peer(x)
    BY PeerFacts, Zenon
  <1>2. PICK p : p = N[y]
    BY Zenon
  <1>3. p \in Seq(Messages) /\ p # <<>>
    BY <1>1, <1>2, Zenon DEF Kinds
  <1>4. PICK q : q = Tail(p)
    BY Zenon
  <1>5. q \in Seq(Messages) /\ Head(p) \in Messages
    BY <1>3, <1>4
  <1>6. PICK d \in Connections : d = C[x]
    BY Zenon DEF Kinds
  <1>7. [C EXCEPT ![x] = d] = C
    BY <1>6 DEF Kinds
  <1>8. /\ Gone(d) \in Int /\ Got(d) \in Nat /\ Bytes(p) \in Nat /\ Bytes(q) \in Nat
        /\ Weight(Head(p)) \in Nat /\ Bytes(p) = Bytes(q) + Weight(Head(p)) /\ d.lastAcked \in Int
    BY <1>3, <1>4, <1>5, ConnNumbers, BytesAre, BytesTail, WeightNat, Zenon
  <1>9. Gone(d) <= Gone(d) /\ Got(d) + Bytes(q) <= Got(d) + Bytes(p)
    BY <1>8
  <1>10. \A m \in Int : Climbs(p, d.lastAcked, m) => Climbs(q, d.lastAcked, m)
    BY <1>3, <1>4, <1>8, ClimbsTail, Zenon
  <1>11. Within(d)
    BY <1>6, Zenon DEF Bound
  <1>12. /\ Kinds([C EXCEPT ![x] = d], [N EXCEPT ![Peer(x)] = q])
         /\ Bound([C EXCEPT ![x] = d], [N EXCEPT ![Peer(x)] = q])
    <2>1. /\ Gone(C[x]) <= Gone(d) /\ Got(d) + Bytes(q) <= Got(C[x]) + Bytes(N[Peer(x)])
          /\ \A m \in Int : Climbs(N[Peer(x)], C[x].lastAcked, m) => Climbs(q, d.lastAcked, m)
          /\ \A m \in Int : Climbs(C[x].ctl, m, C[x].bytesRX) => Climbs(d.ctl, m, d.bytesRX)
      BY <1>1, <1>2, <1>6, <1>9, <1>10, Zenon
    <2> QED
      BY <1>5, <1>11, <2>1, BoundMove, Zenon
  <1> QED
    BY <1>1, <1>2, <1>4, <1>7, <1>12, Zenon

-----------------------------------------------------------------------------
(* SendDataPrivate finds room for the piece.                               *)
LEMMA QueueFits ==
    ASSUME NEW x \in Sides, NEW c \in Conn(x), NEW p \in Pieces, Within(c),
           Bytes(c.wq) + Size(p) < 2 * Window
    PROVE  LET d == Queue(c, p)
           IN  /\ d \in Connections /\ Within(d) /\ d.lastAcked = c.lastAcked
               /\ Gone(d) = Gone(c) /\ Got(d) = Got(c) + Size(p)
               /\ d.ctl = c.ctl /\ d.bytesRX = c.bytesRX /\ d.failed = c.failed
  <1>0. c \in Connections /\ c.wq \in Seq(Pieces)
    <2>1. c \in Connections
      BY DEF Conn
    <2> QED
      BY <2>1 DEF Connections
  <1>1. c.lenRead \in Int /\ Bytes(c.wq) \in Nat /\ Bytes(c.reasm) \in Nat /\ c.bytesRX \in Nat
    BY <1>0, ConnNumbers, Zenon
  <1>2. p \in Messages /\ IsData(p)
    BY Zenon DEF Pieces
  <1>3. Weight(p) = Size(p) /\ Weight(p) \in Nat
    BY <1>2, WeightNat, Zenon DEF Weight
  <1>4. ~(LenWrite(c.wq) + Size(p) >= 2 * Window)
    <2>1. LenWrite(c.wq) = Bytes(c.wq)
      BY <1>0, BytesWrite, Zenon
    <2>2. Size(p) \in Nat /\ Window \in Nat
      BY <1>3, SizeAssumption
    <2> QED
      BY <1>1, <2>1, <2>2
  <1>5. PICK q : q = Append(c.wq, p)
    BY Zenon
  <1>6. PICK d : d = [c EXCEPT !.wq = q, !.failed = c.failed]
    BY Zenon
  <1>7. Queue(c, p) = d
    BY <1>4, <1>5, <1>6 DEF Queue
  <1>8. q \in Seq(Pieces)
    BY <1>0, <1>5
  <1>9. c.failed \in Failures
    BY <1>0 DEF Connections
  <1>10. d \in Connections
    BY <1>0, <1>6, <1>8, <1>9, Zenon DEF Connections
  <1>11. /\ d.numSent = c.numSent /\ d.bytesTX = c.bytesTX /\ d.lastAcked = c.lastAcked
         /\ d.numBlocked = c.numBlocked /\ d.lenRead = c.lenRead /\ d.failed = c.failed
         /\ d.status = c.status /\ d.ctl = c.ctl /\ d.bytesRX = c.bytesRX /\ d.wq = q
         /\ d.reasm = c.reasm
    BY <1>0, <1>6 DEF Connections
  <1>12. d.lenRead <= c.lenRead
    BY <1>1, <1>11
  <1>13. Within(d)
    BY <1>0, <1>10, <1>11, <1>12, WithinBy, Zenon
  <1>14. Gone(d) = Gone(c)
    BY <1>11, Zenon DEF Gone
  <1>15. Got(d) = Got(c) + Size(p)
    <2>1. c.wq \in Seq(Messages)
      BY <1>0, BytesWrite, Zenon
    <2>2. Bytes(q) = Bytes(c.wq) + Size(p)
      BY <1>2, <1>3, <1>5, <2>1, BytesAppend, Zenon
    <2>3. PICK i, j, s : i = Bytes(c.wq) /\ j = Bytes(c.reasm) /\ s = Size(p)
      BY Zenon
    <2>4. i \in Nat /\ j \in Nat /\ s \in Nat
      BY <1>1, <1>3, <2>3, Zenon
    <2>5. Got(d) = c.bytesRX + (i + s) + j /\ Got(c) = c.bytesRX + i + j
      BY <1>11, <2>2, <2>3, Zenon DEF Got
    <2>6. c.bytesRX + (i + s) + j = (c.bytesRX + i + j) + s
      BY <1>1, <2>4
    <2> QED
      BY <2>3, <2>5, <2>6, Zenon
  <1> QED
    BY <1>7, <1>10, <1>11, <1>13, <1>14, <1>15, Zenon

(* A piece from the peer is queued for the user.                           *)
LEMMA BoundRaw ==
    ASSUME NEW C, NEW N, Kinds(C, N), Bound(C, N), NEW x \in Sides, C[x] \in Conn(x),
           N[Peer(x)] # <<>>, IsData(Head(N[Peer(x)]))
    PROVE  LET d == Queue(C[x], Head(N[Peer(x)]))
               D == [C EXCEPT ![x] = d]
               M == [N EXCEPT ![Peer(x)] = Tail(@)]
           IN  Kinds(D, M) /\ Bound(D, M)
  <1>1. PICK y \in Sides : y = Peer(x)
    BY PeerFacts, Zenon
  <1>2. PICK p : p = N[y]
    BY Zenon
  <1>3. p \in Seq(Messages) /\ p # <<>> /\ IsData(Head(p))
    BY <1>1, <1>2, Zenon DEF Kinds
  <1>4. PICK q, m : q = Tail(p) /\ m = Head(p)
    BY Zenon
  <1>5. q \in Seq(Messages) /\ m \in Messages
    BY <1>3, <1>4
  <1>6. m \in Pieces
    BY <1>3, <1>4, <1>5, Zenon DEF Pieces
  <1>7. PICK c \in Conn(x) : c = C[x]
    BY Zenon
  <1>8. c \in Connections
    BY Zenon DEF Conn
  <1>9. /\ Gone(c) \in Int /\ Got(c) \in Nat /\ Bytes(q) \in Nat /\ c.lastAcked \in Int
        /\ Bytes(c.wq) \in Nat /\ Bytes(c.reasm) \in Nat
        /\ Weight(m) \in Nat /\ Bytes(p) = Bytes(q) + Weight(m)
    BY <1>3, <1>4, <1>5, <1>8, ConnNumbers, BytesAre, BytesTail, WeightNat, Zenon
  <1>10. Weight(m) = Size(m)
    BY <1>3, <1>4, Zenon DEF Weight
  <1>11. Bytes(c.wq) + Size(m) < 2 * Window
    <2>1. Bytes(c.wq) + Bytes(c.reasm) + Bytes(p) < 2 * Window
      BY <1>1, <1>2, <1>7, BoundMeans, Zenon
    <2>2. Window \in Nat
      BY SizeAssumption
    <2> QED
      BY <1>9, <1>10, <2>1, <2>2, SMTT(30)
  <1>12. Within(c)
    BY <1>7, Zenon DEF Bound
  <1>13. PICK d : d = Queue(c, m)
    BY Zenon
  <1>14. /\ d \in Connections /\ Within(d) /\ d.lastAcked = c.lastAcked
         /\ Gone(d) = Gone(c) /\ Got(d) = Got(c) + Size(m)
         /\ d.ctl = c.ctl /\ d.bytesRX = c.bytesRX
    BY <1>6, <1>11, <1>12, <1>13, QueueFits, Zenon
  <1>15. Gone(c) <= Gone(d) /\ Got(d) + Bytes(q) <= Got(c) + Bytes(p)
    BY <1>9, <1>10, <1>14
  <1>16. \A lo \in Int : Climbs(p, c.lastAcked, lo) => Climbs(q, d.lastAcked, lo)
    BY <1>3, <1>4, <1>9, <1>14, ClimbsTail, Zenon
  <1>17. /\ Kinds([C EXCEPT ![x] = d], [N EXCEPT ![Peer(x)] = q])
         /\ Bound([C EXCEPT ![x] = d], [N EXCEPT ![Peer(x)] = q])
    <2>1. /\ Gone(C[x]) <= Gone(d) /\ Got(d) + Bytes(q) <= Got(C[x]) + Bytes(N[Peer(x)])
          /\ \A lo \in Int : Climbs(N[Peer(x)], C[x].lastAcked, lo) => Climbs(q, d.lastAcked, lo)
          /\ \A lo \in Int : Climbs(C[x].ctl, lo, C[x].bytesRX) => Climbs(d.ctl, lo, d.bytesRX)
      BY <1>1, <1>2, <1>7, <1>14, <1>15, <1>16, Zenon
    <2> QED
      BY <1>5, <1>14, <2>1, BoundMove, Zenon
  <1> QED
    BY <1>1, <1>2, <1>4, <1>7, <1>13, <1>17, Zenon

(* A tree is added to those that wait for their chunks.                    *)
LEMMA BoundName ==
    ASSUME NEW C, NEW N, Kinds(C, N), Bound(C, N), NEW x \in Sides,
           N[Peer(x)] # <<>>, IsData(Head(N[Peer(x)]))
    PROVE  LET D == [C EXCEPT ![x].reasm = Append(@, Head(N[Peer(x)]))]
               M == [N EXCEPT ![Peer(x)] = Tail(@)]
           IN  Kinds(D, M) /\ Bound(D, M)
  <1>1. PICK y \in Sides : y = Peer(x)
    BY PeerFacts, Zenon
  <1>2. PICK p : p = N[y]
    BY Zenon
  <1>3. p \in Seq(Messages) /\ p # <<>> /\ IsData(Head(p))
    BY <1>1, <1>2, Zenon DEF Kinds
  <1>4. PICK q, m : q = Tail(p) /\ m = Head(p)
    BY Zenon
  <1>5. q \in Seq(Messages) /\ m \in Messages
    BY <1>3, <1>4
  <1>6. m \in Pieces
    BY <1>3, <1>4, <1>5, Zenon DEF Pieces
  <1>7. PICK c \in Connections : c = C[x]
    BY Zenon DEF Kinds
  <1>8. /\ Gone(c) \in Int /\ Got(c) \in Nat /\ Bytes(q) \in Nat /\ c.lastAcked \in Int
        /\ Bytes(c.wq) \in Nat /\ Bytes(c.reasm) \in Nat /\ c.reasm \in Seq(Messages)
        /\ Weight(m) \in Nat /\ Bytes(p) = Bytes(q) + Weight(m) /\ c.bytesRX \in Nat
        /\ c.lenRead \in Int
    BY <1>3, <1>4, <1>5, ConnNumbers, BytesAre, BytesTail, WeightNat, Zenon
  <1>9. PICK r : r = Append(c.reasm, m)
    BY Zenon
  <1>10. r \in Seq(Pieces)
    <2>1. c.reasm \in Seq(Pieces)
      BY DEF Connections
    <2> QED
      BY <1>6, <1>9, <2>1
  <1>11. PICK d : d = [c EXCEPT !.reasm = r]
    BY Zenon
  <1>12. d \in Connections
    BY <1>10, <1>11, Zenon DEF Connections
  <1>13. /\ d.numSent = c.numSent /\ d.bytesTX = c.bytesTX /\ d.lastAcked = c.lastAcked
         /\ d.numBlocked = c.numBlocked /\ d.lenRead = c.lenRead /\ d.failed = c.failed
         /\ d.status = c.status /\ d.ctl = c.ctl /\ d.bytesRX = c.bytesRX /\ d.wq = c.wq
         /\ d.reasm = r
    BY <1>11 DEF Connections
  <1>14. d.lenRead <= c.lenRead
    BY <1>8, <1>13
  <1>15. Within(d)
    <2>1. Within(c)
      BY <1>7, Zenon DEF Bound
    <2> QED
      BY <1>12, <1>13, <1>14, <2>1, WithinBy, Zenon
  <1>16. Gone(c) <= Gone(d)
    <2>1. Gone(d) = Gone(c)
      BY <1>13, Zenon DEF Gone
    <2> QED
      BY <1>8, <2>1
  <1>17. Got(d) + Bytes(q) <= Got(c) + Bytes(p)
    <2>1. Bytes(r) = Bytes(c.reasm) + Weight(m)
      BY <1>5, <1>8, <1>9, BytesAppend, Zenon
    <2>2. PICK i, j, s : i = Bytes(c.wq) /\ j = Bytes(c.reasm) /\ s = Weight(m)
      BY Zenon
    <2>3. i \in Nat /\ j \in Nat /\ s \in Nat /\ Bytes(p) = Bytes(q) + s
      BY <1>8, <2>2, Zenon
    <2>4. Got(d) = c.bytesRX + i + (j + s) /\ Got(c) = c.bytesRX + i + j
      BY <1>13, <2>1, <2>2, Zenon DEF Got
    <2>5. PICK u, b : u = Bytes(q) /\ b = c.bytesRX
      BY Zenon
    <2>6. u \in Nat /\ b \in Nat
      BY <1>8, <2>5, Zenon
    <2>7. (b + i + (j + s)) + u <= (b + i + j) + (u + s)
      BY <2>3, <2>6
    <2> QED
      BY <2>3, <2>4, <2>5, <2>7, Zenon
  <1>18. \A lo \in Int : Climbs(p, c.lastAcked, lo) => Climbs(q, d.lastAcked, lo)
    BY <1>3, <1>4, <1>8, <1>13, ClimbsTail, Zenon
  <1>19. /\ Kinds([C EXCEPT ![x] = d], [N EXCEPT ![Peer(x)] = q])
         /\ Bound([C EXCEPT ![x] = d], [N EXCEPT ![Peer(x)] = q])
    <2>1. /\ Gone(C[x]) <= Gone(d) /\ Got(d) + Bytes(q) <= Got(C[x]) + Bytes(N[Peer(x)])
          /\ \A lo \in Int : Climbs(N[Peer(x)], C[x].lastAcked, lo) => Climbs(q, d.lastAcked, lo)
          /\ \A lo \in Int : Climbs(C[x].ctl, lo, C[x].bytesRX) => Climbs(d.ctl, lo, d.bytesRX)
      BY <1>1, <1>2, <1>7, <1>13, <1>16, <1>17, <1>18, Zenon
    <2> QED
      BY <1>5, <1>12, <1>15, <2>1, BoundMove, Zenon
  <1>20. [C EXCEPT ![x].reasm = Append(@, m)] = [C EXCEPT ![x] = d]
    BY <1>7, <1>9, <1>11
  <1> QED
    BY <1>1, <1>2, <1>4, <1>19, <1>20, Zenon

(* The first tree that waits has its chunks and is queued for the user.    *)
LEMMA BoundReconstruct ==
    ASSUME NEW C, NEW N, Kinds(C, N), Bound(C, N), NEW x \in Sides, C[x] \in Conn(x),
           C[x].reasm # <<>>
    PROVE  LET d == Queue([C[x] EXCEPT !.reasm = Tail(@)], Head(C[x].reasm))
               D == [C EXCEPT ![x] = d]
           IN  Kinds(D, N) /\ Bound(D, N)
  <1>1. PICK y \in Sides : y = Peer(x)
    BY PeerFacts, Zenon
  <1>2. PICK c \in Conn(x) : c = C[x]
    BY Zenon
  <1>3. c \in Connections /\ c.ctl \in Seq(Sent(x))
    BY Zenon DEF Conn
  <1>4. PICK p, r, m : p = c.reasm /\ r = Tail(p) /\ m = Head(p)
    BY Zenon
  <1>5. p \in Seq(Pieces) /\ p # <<>>
    BY <1>2, <1>3, <1>4 DEF Connections
  <1>6. r \in Seq(Pieces) /\ m \in Pieces
    BY <1>4, <1>5
  <1>7. p \in Seq(Messages) /\ r \in Seq(Messages) /\ m \in Messages /\ IsData(m)
    BY <1>5, <1>6, BytesWrite, Zenon DEF Pieces
  <1>8. Bytes(p) = Bytes(r) + Size(m) /\ Bytes(r) \in Nat /\ Size(m) \in Nat
    <2>1. Weight(m) = Size(m)
      BY <1>7, Zenon DEF Weight
    <2> QED
      BY <1>4, <1>5, <1>7, <2>1, BytesTail, BytesAre, WeightNat, Zenon
  <1>9. PICK e : e = [c EXCEPT !.reasm = r]
    BY Zenon
  <1>10. e \in Connections
    BY <1>3, <1>6, <1>9, Zenon DEF Connections
  <1>11. /\ e.numSent = c.numSent /\ e.bytesTX = c.bytesTX /\ e.lastAcked = c.lastAcked
         /\ e.numBlocked = c.numBlocked /\ e.lenRead = c.lenRead /\ e.failed = c.failed
         /\ e.status = c.status /\ e.ctl = c.ctl /\ e.bytesRX = c.bytesRX /\ e.wq = c.wq
         /\ e.reasm = r
    BY <1>3, <1>9 DEF Connections
  <1>12. e \in Conn(x)
    BY <1>3, <1>10, <1>11, Zenon DEF Conn
  <1>13. /\ Gone(c) \in Int /\ Got(c) \in Nat /\ c.lenRead \in Int /\ Bytes(c.wq) \in Nat
         /\ c.bytesRX \in Nat
    BY <1>3, ConnNumbers, Zenon
  <1>14. e.lenRead <= c.lenRead
    BY <1>11, <1>13
  <1>15. Within(e)
    <2>1. Within(c)
      BY <1>2, Zenon DEF Bound
    <2> QED
      BY <1>3, <1>10, <1>11, <1>14, <2>1, WithinBy, Zenon
  <1>16. PICK i, j, s : i = Bytes(c.wq) /\ j = Bytes(r) /\ s = Size(m)
    BY Zenon
  <1>17. i \in Nat /\ j \in Nat /\ s \in Nat /\ Bytes(p) = j + s
    BY <1>8, <1>13, <1>16, Zenon
  <1>18. Bytes(e.wq) + Size(m) < 2 * Window
    <2>1. Bytes(c.wq) + Bytes(c.reasm) + Bytes(N[y]) < 2 * Window
      BY <1>1, <1>2, BoundMeans, Zenon
    <2>2. i + (j + s) + Bytes(N[y]) < 2 * Window
      BY <1>4, <1>16, <1>17, <2>1, Zenon
    <2>3. N[y] \in Seq(Messages)
      BY <1>1, Zenon DEF Kinds
    <2>4. Bytes(N[y]) \in Nat
      BY <2>3, BytesAre, Zenon
    <2>5. Window \in Nat
      BY SizeAssumption
    <2>6. i + s < 2 * Window
      BY <1>17, <2>2, <2>4, <2>5
    <2> QED
      BY <1>11, <1>16, <2>6, Zenon
  <1>19. PICK d : d = Queue(e, m)
    BY Zenon
  <1>20. /\ d \in Connections /\ Within(d) /\ d.lastAcked = e.lastAcked
         /\ Gone(d) = Gone(e) /\ Got(d) = Got(e) + Size(m)
         /\ d.ctl = e.ctl /\ d.bytesRX = e.bytesRX
    BY <1>6, <1>12, <1>15, <1>18, <1>19, QueueFits, Zenon
  <1>21. Gone(c) <= Gone(d)
    <2>1. Gone(d) = Gone(c)
      BY <1>11, <1>20, Zenon DEF Gone
    <2> QED
      BY <1>13, <2>1
  <1>22. Got(d) <= Got(c)
    <2>1. Got(e) = c.bytesRX + i + j /\ Got(c) = c.bytesRX + i + (j + s) /\ Got(d) = Got(e) + s
      BY <1>4, <1>11, <1>16, <1>17, <1>20, Zenon DEF Got
    <2> QED
      BY <1>13, <1>17, <2>1
  <1>23. Stays(c, d)
    BY <1>11, <1>20, <1>21, <1>22, Zenon DEF Stays
  <1>24. Kinds([C EXCEPT ![x] = d], N) /\ Bound([C EXCEPT ![x] = d], N)
    BY <1>2, <1>20, <1>23, BoundStays, Zenon
  <1> QED
    BY <1>2, <1>4, <1>9, <1>19, <1>24, Zenon

(* An acknowledgement is of bytes that were sent and not yet acknowledged; *)
(* a connection that blocked reads again only when it is below HighWater.  *)
LEMMA NameAckKeeps ==
    ASSUME NEW x \in Sides, NEW c \in Conn(x), Found(c), c.failed = "no", Within(c),
           NEW ack \in Int, c.lastAcked <= ack
    PROVE  LET d == NameAck(c, ack)
           IN  /\ d \in Connections /\ Within(d) /\ d.lastAcked = ack
               /\ Gone(c) <= Gone(d) /\ Got(d) <= Got(c)
               /\ \A lo \in Int : Climbs(c.ctl, lo, c.bytesRX) => Climbs(d.ctl, lo, d.bytesRX)
  <1>0. c \in Connections /\ c.ctl \in Seq(Sent(x))
    BY DEF Conn
  <1>1. /\ c.numSent \in Int /\ c.lastAcked \in Int /\ c.bytesTX \in Nat /\ c.numBlocked \in Int
        /\ Gone(c) \in Int /\ Got(c) \in Nat
    BY <1>0, ConnNumbers, Zenon
  <1> DEFINE sent == c.numSent - (ack - c.lastAcked)
             wake == c.status = "block" /\ Window - sent >= Threshold
             kept == DestroyChunkBufferList(c.bufs, ack)
             stat == IF wake THEN "active" ELSE c.status
             nb == IF wake THEN c.numBlocked - 1 ELSE c.numBlocked
             e == [c EXCEPT !.numSent = sent, !.lastAcked = ack, !.bufs = kept,
                            !.status = stat, !.numBlocked = nb]
  <1>2. NameAck(c, ack) = IF e.status = "finsent" /\ sent = 0 THEN SetDead(e, FALSE) ELSE e
    BY DEF NameAck
  <1>3. sent \in Int /\ sent <= c.numSent
    BY <1>1
  <1>4. kept \in SUBSET Messages
    BY <1>0 DEF Connections, DestroyChunkBufferList
  <1>5. /\ c.numSent = c.bytesTX - c.lastAcked /\ c.lenRead <= RecvBuf
        /\ Level(c.numBlocked, c.numSent, c.status, c.failed)
    BY Zenon DEF Within
  <1>6. sent = c.bytesTX - ack
    BY <1>1, <1>5
  <1>7. /\ Window \in Nat /\ HighWater \in Nat /\ Threshold \in Nat /\ RecvBuf \in Nat
        /\ Window - Threshold <= HighWater
    BY SizeAssumption
  <1>8. Level(nb, sent, stat, c.failed)
    <2>1. \/ c.numBlocked = 0 /\ c.numSent <= HighWater /\ c.status # "block"
          \/ c.numBlocked = 1 /\ c.numSent <= HighWater + RecvBuf
      BY <1>5, Zenon DEF Level
    <2>2. CASE wake
      <3>1. nb = c.numBlocked - 1 /\ stat = "active" /\ c.status = "block"
        BY <2>2, Zenon
      <3>2. c.numBlocked = 1
        BY <2>1, <3>1, Zenon
      <3>3. nb = 0 /\ stat # "block"
        BY <3>1, <3>2
      <3>4. Window - sent >= Threshold
        BY <2>2, Zenon
      <3> HIDE DEF sent, nb, stat, wake
      <3>5. sent <= HighWater
        BY <1>3, <1>7, <3>4
      <3> QED
        BY <3>3, <3>5, Zenon DEF Level
    <2>3. CASE ~wake
      <3>1. nb = c.numBlocked /\ stat = c.status
        BY <2>3, Zenon
      <3> HIDE DEF sent, nb, stat, wake
      <3>2. /\ c.numSent <= HighWater => sent <= HighWater
            /\ c.numSent <= HighWater + RecvBuf => sent <= HighWater + RecvBuf
        BY <1>1, <1>3, <1>7
      <3> QED
        BY <2>1, <3>1, <3>2, Zenon DEF Level
    <2> QED
      BY <2>2, <2>3, Zenon
  <1>9. stat \in Statuses /\ nb \in Int
    <2>1. c.status \in Statuses
      BY <1>0 DEF Connections
    <2> HIDE DEF wake
    <2> QED
      BY <1>1, <2>1 DEF Statuses
  <1>10. stat \notin {"none", "gone"}
    BY DEF Found
  <1> HIDE DEF sent, wake, kept, stat, nb
  <1>11. e \in Connections
    BY <1>0, <1>3, <1>4, <1>9, Zenon DEF Connections
  <1>12. /\ e.numSent = sent /\ e.bytesTX = c.bytesTX /\ e.lastAcked = ack
         /\ e.numBlocked = nb /\ e.lenRead = c.lenRead /\ e.failed = c.failed
         /\ e.status = stat /\ e.ctl = c.ctl /\ e.bytesRX = c.bytesRX /\ e.wq = c.wq
         /\ e.reasm = c.reasm
    BY <1>0 DEF Connections
  <1> HIDE DEF e
  <1>13. "no" # "full"
    OBVIOUS
  <1>14. Within(e)
    BY <1>5, <1>6, <1>8, <1>12, <1>13, Zenon DEF Within
  <1>15. Gone(e) = Gone(c) /\ Got(e) = Got(c)
    BY <1>12, Zenon DEF Gone, Got
  <1>16. Gone(c) <= Gone(e) /\ Got(e) <= Got(c)
    BY <1>1, <1>15
  <1>17. e \in Conn(x) /\ Found(e)
    BY <1>0, <1>10, <1>11, <1>12 DEF Conn, Found
  <1>18. PICK d : d = NameAck(c, ack)
    BY Zenon
  <1>19. CASE d = e
    BY <1>11, <1>12, <1>14, <1>16, <1>18, <1>19, Zenon
  <1>20. CASE d = SetDead(e, FALSE)
    <2>1. FALSE \in BOOLEAN
      OBVIOUS
    <2>2. d \in Connections /\ Stays(e, d)
      BY <1>17, <1>20, <2>1, StaysSetDead, Zenon
    <2>3. /\ Within(d) /\ d.lastAcked = ack /\ Gone(e) <= Gone(d) /\ Got(d) <= Got(e)
          /\ \A lo \in Int : Climbs(c.ctl, lo, c.bytesRX) => Climbs(d.ctl, lo, d.bytesRX)
      BY <1>12, <1>14, <2>2, Zenon DEF Stays
    <2>4. Gone(c) <= Gone(d) /\ Got(d) <= Got(c)
      BY <1>15, <2>3, Zenon
    <2> QED
      BY <1>18, <2>2, <2>3, <2>4, Zenon
  <1> QED
    BY <1>2, <1>18, <1>19, <1>20, Zenon

LEMMA BoundAck ==
    ASSUME NEW C, NEW N, Kinds(C, N), Bound(C, N), NEW x \in Sides, C[x] \in Conn(x),
           Found(C[x]), C[x].failed = "no", N[Peer(x)] # <<>>, Head(N[Peer(x)]).type = "ack"
    PROVE  LET d == NameAck(C[x], Head(N[Peer(x)]).to)
               D == [C EXCEPT ![x] = d]
               M == [N EXCEPT ![Peer(x)] = Tail(@)]
           IN  Kinds(D, M) /\ Bound(D, M)
  <1>1. PICK y \in Sides : y = Peer(x)
    BY PeerFacts, Zenon
  <1>2. PICK p : p = N[y]
    BY Zenon
  <1>3. p \in Seq(Messages) /\ p # <<>> /\ Head(p).type = "ack"
    BY <1>1, <1>2, Zenon DEF Kinds
  <1>4. PICK q, ack : q = Tail(p) /\ ack = Head(p).to
    BY Zenon
  <1>5. q \in Seq(Messages) /\ Head(p) \in Messages
    BY <1>3, <1>4
  <1>6. ack \in Int
    BY <1>4, <1>5 DEF Messages
  <1>7. PICK c \in Conn(x) : c = C[x]
    BY Zenon
  <1>8. c \in Connections
    BY Zenon DEF Conn
  <1>9. /\ Gone(c) \in Int /\ Got(c) \in Nat /\ Bytes(q) \in Nat /\ c.lastAcked \in Int
        /\ Weight(Head(p)) \in Nat /\ Bytes(p) = Bytes(q) + Weight(Head(p))
    BY <1>3, <1>4, <1>5, <1>8, ConnNumbers, BytesAre, BytesTail, WeightNat, Zenon
  <1>10. ASSUME NEW m \in Int, Climbs(p, c.lastAcked, m)
         PROVE  c.lastAcked <= ack /\ Climbs(q, ack, m)
    BY <1>3, <1>4, <1>9, <1>10, ClimbsTail, Zenon
  <1>11. c.lastAcked <= ack
    <2>1. PICK m \in Int : Climbs(p, c.lastAcked, m)
      BY <1>1, <1>2, <1>7, Zenon DEF Bound, Acks
    <2> QED
      BY <1>10, <2>1, Zenon
  <1>12. Within(c) /\ Found(c) /\ c.failed = "no"
    BY <1>7, Zenon DEF Bound
  <1>13. PICK d : d = NameAck(c, ack)
    BY Zenon
  <1>14. /\ d \in Connections /\ Within(d) /\ d.lastAcked = ack
         /\ Gone(c) <= Gone(d) /\ Got(d) <= Got(c)
         /\ \A lo \in Int : Climbs(c.ctl, lo, c.bytesRX) => Climbs(d.ctl, lo, d.bytesRX)
    BY <1>6, <1>11, <1>12, <1>13, NameAckKeeps, Zenon
  <1>15. Got(d) + Bytes(q) <= Got(c) + Bytes(p)
    <2>1. Got(d) \in Nat
      BY <1>14, ConnNumbers, Zenon
    <2> QED
      BY <1>9, <1>14, <2>1
  <1>16. /\ Kinds([C EXCEPT ![x] = d], [N EXCEPT ![Peer(x)] = q])
         /\ Bound([C EXCEPT ![x] = d], [N EXCEPT ![Peer(x)] = q])
    <2>1. /\ Gone(C[x]) <= Gone(d) /\ Got(d) + Bytes(q) <= Got(C[x]) + Bytes(N[Peer(x)])
          /\ \A m \in Int : Climbs(N[Peer(x)], C[x].lastAcked, m) => Climbs(q, d.lastAcked, m)
          /\ \A m \in Int : Climbs(C[x].ctl, m, C[x].bytesRX) => Climbs(d.ctl, m, d.bytesRX)
      BY <1>1, <1>2, <1>7, <1>10, <1>14, <1>15, Zenon
    <2> QED
      BY <1>5, <1>14, <2>1, BoundMove, Zenon
  <1> QED
    BY <1>1, <1>2, <1>4, <1>7, <1>13, <1>16, Zenon

-----------------------------------------------------------------------------
(* The queued messages go to the control connection.                       *)
LEMMA BoundFlush ==
    ASSUME NEW C, NEW N, Kinds(C, N), Bound(C, N), NEW x \in Sides
    PROVE  LET D == [C EXCEPT ![x] = [C[x] EXCEPT !.ctl = <<>>]]
               M == [N EXCEPT ![x] = @ \o C[x].ctl]
           IN  Kinds(D, M) /\ Bound(D, M)
  <1>1. PICK y \in Sides : y = Peer(x) /\ Peer(y) = x /\ y # x /\ \A z \in Sides : z = x \/ z = y
    BY PeerFacts, Zenon
  <1>2. PICK c \in Connections : c = C[x]
    BY Zenon DEF Kinds
  <1>3. PICK e \in Connections : e = C[y]
    BY <1>1, Zenon DEF Kinds
  <1>4. PICK p \in Seq(Messages) : p = N[x]
    BY Zenon DEF Kinds
  <1>5. PICK r \in Seq(Messages) : r = N[y]
    BY <1>1, Zenon DEF Kinds
  <1>6. PICK q : q = p \o c.ctl
    BY Zenon
  <1>7. c.ctl \in Seq(Messages) /\ q \in Seq(Messages)
    BY <1>6, ConnNumbers
  <1>8. PICK none \in Seq(Messages) : none = <<>>
    <2>1. <<>> \in Seq(Messages)
      OBVIOUS
    <2> QED
      BY <2>1, Zenon
  <1>9. PICK d : d = [c EXCEPT !.ctl = none]
    BY Zenon
  <1>10. d \in Connections
    BY <1>9, Zenon DEF Connections
  <1>11. /\ d.numSent = c.numSent /\ d.bytesTX = c.bytesTX /\ d.lastAcked = c.lastAcked
         /\ d.numBlocked = c.numBlocked /\ d.lenRead = c.lenRead /\ d.failed = c.failed
         /\ d.status = c.status /\ d.ctl = none /\ d.bytesRX = c.bytesRX /\ d.wq = c.wq
         /\ d.reasm = c.reasm
    BY <1>9 DEF Connections
  <1>12. PICK D, M : D = [C EXCEPT ![x] = d] /\ M = [N EXCEPT ![x] = q]
    BY Zenon
  <1>13. /\ D \in [Sides -> Connections] /\ M \in [Sides -> Seq(Messages)]
         /\ D[x] = d /\ D[y] = e /\ M[x] = q /\ M[y] = r
    BY <1>1, <1>3, <1>5, <1>7, <1>10, <1>12, Zenon DEF Kinds
  <1>14. /\ Within(c) /\ Within(e) /\ Under(C, N, x) /\ Under(C, N, y)
         /\ Acks(C, N, x) /\ Acks(C, N, y)
    BY <1>1, <1>2, <1>3, Zenon DEF Bound
  <1>15. /\ c.lenRead \in Int /\ c.bytesRX \in Int /\ c.bytesTX \in Nat /\ Bytes(c.ctl) \in Nat
         /\ Got(e) \in Nat /\ Bytes(p) \in Nat /\ Gone(e) \in Int /\ e.lastAcked \in Int
    <2>1. c.bytesRX \in Nat
      BY ConnNumbers, Zenon
    <2>2. c.bytesRX \in Int
      BY <2>1
    <2> QED
      BY <2>2, ConnNumbers, BytesAre, Zenon
  <1>16. d.lenRead <= c.lenRead
    BY <1>11, <1>15
  <1>17. Within(d)
    BY <1>10, <1>11, <1>14, <1>16, WithinBy, Zenon
  <1>18. Under(D, M, x)
    <2>1. Got(e) + Bytes(p) <= c.bytesTX - Bytes(c.ctl)
      BY <1>1, <1>2, <1>3, <1>4, <1>14, Zenon DEF Under, Gone
    <2>2. Bytes(q) = Bytes(p) + Bytes(c.ctl)
      BY <1>6, <1>7, BytesConcat, Zenon
    <2>3. Bytes(none) = 0
      BY <1>8, BytesEmpty, Zenon
    <2>4. PICK g, i, j, t : g = Got(e) /\ i = Bytes(p) /\ j = Bytes(c.ctl) /\ t = c.bytesTX
      BY Zenon
    <2>5. g \in Nat /\ i \in Nat /\ j \in Nat /\ t \in Nat /\ g + i <= t - j
      BY <1>15, <2>1, <2>4, Zenon
    <2>6. g + (i + j) <= t - 0
      BY <2>5
    <2>7. Gone(d) = t - 0
      BY <1>11, <2>3, <2>4, Zenon DEF Gone
    <2> QED
      BY <1>1, <1>13, <2>2, <2>4, <2>6, <2>7, Zenon DEF Under
  <1>19. Under(D, M, y)
    <2>1. Got(d) = Got(c)
      BY <1>11, Zenon DEF Got
    <2> QED
      BY <1>1, <1>2, <1>3, <1>5, <1>13, <1>14, <2>1, Zenon DEF Under
  <1>20. Acks(D, M, x)
    BY <1>1, <1>2, <1>3, <1>5, <1>11, <1>13, <1>14, Zenon DEF Acks
  <1>21. Acks(D, M, y)
    <2>1. PICK m \in Int : Climbs(p, e.lastAcked, m) /\ Climbs(c.ctl, m, c.bytesRX)
      BY <1>1, <1>2, <1>3, <1>4, <1>14, Zenon DEF Acks
    <2>2. Climbs(q, e.lastAcked, c.bytesRX)
      BY <1>6, <1>7, <1>15, <2>1, ClimbsConcat, Zenon
    <2>3. c.bytesRX <= c.bytesRX /\ \A i \in 1..Len(none) : none[i].type # "ack"
      BY <1>8, <1>15
    <2>4. Climbs(none, c.bytesRX, c.bytesRX)
      BY <1>15, <2>3, ClimbsFlat, Zenon
    <2> QED
      BY <1>1, <1>11, <1>13, <1>15, <2>2, <2>4, Zenon DEF Acks
  <1>22. Bound(D, M)
    BY <1>1, <1>13, <1>14, <1>17, <1>18, <1>19, <1>20, <1>21, Zenon DEF Bound
  <1>23. Kinds(D, M)
    BY <1>13, Zenon DEF Kinds
  <1>24. D = [C EXCEPT ![x] = [C[x] EXCEPT !.ctl = <<>>]]
    BY <1>2, <1>8, <1>9, <1>12, Zenon
  <1>25. M = [N EXCEPT ![x] = N[x] \o C[x].ctl]
    BY <1>2, <1>4, <1>6, <1>12, Zenon
  <1> QED
    BY <1>22, <1>23, <1>24, <1>25, Zenon

LEMMA StaysCleanUp ==
    ASSUME NEW c \in Connections
    PROVE  /\ CleanUpClosedConnections(c) \in Connections
           /\ Stays(c, CleanUpClosedConnections(c))
  <1>1. /\ c.lenRead \in Int /\ Bytes(c.ctl) \in Nat /\ Bytes(c.wq) \in Nat
        /\ Bytes(c.reasm) \in Nat /\ c.bytesRX \in Nat /\ Got(c) \in Nat
    BY ConnNumbers, Zenon
  <1>2. PICK d : d = DestroyUserConnectionInfo(c)
    BY Zenon
  <1>3. PICK none \in Seq(Pieces) : none = <<>>
    <2>1. <<>> \in Seq(Pieces)
      OBVIOUS
    <2> QED
      BY <2>1, Zenon
  <1>4. d = [c EXCEPT !.status = "gone", !.dead = FALSE, !.wq = none, !.reasm = none, !.bufs = {}]
    BY <1>2, <1>3, Zenon DEF DestroyUserConnectionInfo
  <1>5. d \in Connections
    BY <1>4, Zenon DEF Connections, Statuses
  <1>6. /\ d.numSent = c.numSent /\ d.bytesTX = c.bytesTX /\ d.lastAcked = c.lastAcked
        /\ d.numBlocked = c.numBlocked /\ d.lenRead = c.lenRead /\ d.failed = c.failed
        /\ d.status # "block" /\ d.ctl = c.ctl /\ d.bytesRX = c.bytesRX /\ d.wq = none
        /\ d.reasm = none
    BY <1>4 DEF Connections
  <1>7. Stays(c, d)
    <2>1. Bytes(none) = 0
      BY <1>3, BytesEmpty, Zenon
    <2>2. Got(d) = c.bytesRX + 0 + 0
      BY <1>6, <2>1, Zenon DEF Got
    <2>3. Got(d) <= Got(c)
      BY <1>1, <2>2 DEF Got
    <2>4. Bytes(d.ctl) <= Bytes(c.ctl) /\ d.lenRead <= c.lenRead
      BY <1>1, <1>6
    <2>5. \A lo \in Int : Climbs(c.ctl, lo, c.bytesRX) => Climbs(d.ctl, lo, d.bytesRX)
      BY <1>6, Zenon
    <2> QED
      BY <1>5, <1>6, <2>3, <2>4, <2>5, StaysBy, Zenon
  <1>8. PICK e : e = [c EXCEPT !.failed = "dead"]
    BY Zenon
  <1>9. e \in Connections
    BY <1>8, Zenon DEF Connections, Failures
  <1>10. /\ e.numSent = c.numSent /\ e.bytesTX = c.bytesTX /\ e.lastAcked = c.lastAcked
         /\ e.numBlocked = c.numBlocked /\ e.lenRead = c.lenRead /\ e.failed = "dead"
         /\ e.status = c.status /\ e.ctl = c.ctl /\ e.bytesRX = c.bytesRX /\ e.wq = c.wq
         /\ e.reasm = c.reasm
    BY <1>8 DEF Connections
  <1>11. Stays(c, e)
    <2>1. Got(e) = Got(c)
      BY <1>10, Zenon DEF Got
    <2>2. Got(e) <= Got(c) /\ Bytes(e.ctl) <= Bytes(c.ctl) /\ e.lenRead <= c.lenRead
      BY <1>1, <1>10, <2>1
    <2>3. \A lo \in Int : Climbs(c.ctl, lo, c.bytesRX) => Climbs(e.ctl, lo, e.bytesRX)
      BY <1>10, Zenon
    <2> QED
      BY <1>9, <1>10, <2>2, <2>3, StaysBy, Zenon
  <1>12. CleanUpClosedConnections(c) \in {c, d, e}
    BY <1>2, <1>8, Zenon DEF CleanUpClosedConnections
  <1> QED
    BY <1>5, <1>7, <1>9, <1>11, <1>12, StaysRefl, Zenon

(* A connection becomes active.                                            *)
LEMMA StaysActive ==
    ASSUME NEW c \in Connections
    PROVE  /\ [c EXCEPT !.status = "active"] \in Connections
           /\ Stays(c, [c EXCEPT !.status = "active"])
  <1>1. PICK d : d = [c EXCEPT !.status = "active"]
    BY Zenon
  <1>2. d \in Connections
    BY <1>1, SMTT(30) DEF Connections, Statuses
  <1>3. /\ d.numSent = c.numSent /\ d.bytesTX = c.bytesTX /\ d.lastAcked = c.lastAcked
        /\ d.numBlocked = c.numBlocked /\ d.lenRead = c.lenRead /\ d.failed = c.failed
        /\ d.status # "block" /\ d.ctl = c.ctl /\ d.bytesRX = c.bytesRX /\ d.wq = c.wq
        /\ d.reasm = c.reasm
    BY <1>1 DEF Connections
  <1>4. d.lenRead <= c.lenRead
    BY <1>3, ConnNumbers
  <1>5. Stays(c, d)
    BY <1>2, <1>3, <1>4, StaysSame, Zenon
  <1> QED
    BY <1>1, <1>2, <1>5, Zenon

LEMMA StaysLenRead ==
    ASSUME NEW c \in Connections, NEW v \in Int, v <= c.lenRead \/ v <= RecvBuf
    PROVE  /\ [c EXCEPT !.lenRead = v] \in Connections
           /\ Stays(c, [c EXCEPT !.lenRead = v])
  <1>1. PICK d : d = [c EXCEPT !.lenRead = v]
    BY Zenon
  <1>2. d \in Connections
    BY <1>1, Zenon DEF Connections
  <1>3. /\ d.numSent = c.numSent /\ d.bytesTX = c.bytesTX /\ d.lastAcked = c.lastAcked
        /\ d.numBlocked = c.numBlocked /\ d.lenRead = v /\ d.failed = c.failed
        /\ d.status = c.status /\ d.ctl = c.ctl /\ d.bytesRX = c.bytesRX /\ d.wq = c.wq
        /\ d.reasm = c.reasm
    BY <1>1 DEF Connections
  <1>4. d.lenRead <= c.lenRead \/ d.lenRead <= RecvBuf
    BY <1>3, Zenon
  <1>5. Stays(c, d)
    BY <1>2, <1>3, <1>4, StaysSame, Zenon
  <1> QED
    BY <1>1, <1>2, <1>5, Zenon

=============================================================================

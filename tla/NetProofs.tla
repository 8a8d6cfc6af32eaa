----------------------------- MODULE NetProofs -----------------------------
(***************************************************************************)
(* The invariants of module Net, for any frames, any number of signals that *)
(* can wait, and any packets sent by other threads; the checksum of any     *)
(* bytes; and the refinement of module Inbox.                               *)
(***************************************************************************)
EXTENDS Net, DataLemmas

-----------------------------------------------------------------------------
(* The checksum *)

(* What the loop of cksum16 that adds the carries comes to. *)
Closed(n) == IF n = 0 THEN 0 ELSE ((n - 1) % 65535) + 1

(* One turn of that loop makes the sum smaller by a multiple of 65535, and  *)
(* not 0.                                                                   *)
LEMMA CarryTurn ==
  ASSUME NEW n \in Nat, n >= 65536
  PROVE  LET m == (n % 65536) + n \div 65536
         IN  /\ m \in Nat /\ m # 0 /\ m < n /\ m - 1 \in Nat
             /\ (m - 1) % 65535 = (n - 1) % 65535
<1> DEFINE q == n \div 65536
           r == n % 65536
<1>1. q \in Nat /\ r \in Nat /\ r <= 65535 /\ n = 65536 * q + r /\ q >= 1
  OBVIOUS
<1> HIDE DEF q, r
<1>2. n - 1 = 65535 * q + (r + q - 1) /\ r + q - 1 \in Nat
  BY <1>1
<1>3. \A x, y \in Nat : (65535 * x + y) % 65535 = y % 65535
  OBVIOUS
<1>4. (n - 1) % 65535 = (r + q - 1) % 65535
  BY <1>1, <1>2, <1>3
<1> QED
  BY <1>1, <1>2, <1>4 DEF q, r

(* The recursion of Carried has a solution, so Carried is one. *)
LEMMA CarriedDef ==
  \A n \in Nat :
    Carried[n] = IF n < 65536 THEN n ELSE Carried[(n % 65536) + n \div 65536]
<1> DEFINE Fix(f) == f = [n \in Nat |->
                IF n < 65536 THEN n ELSE f[(n % 65536) + n \div 65536]]
           g == [n \in Nat |-> Closed(n)]
<1>1. \A n \in Nat : n < 65536 => Closed(n) = n
  BY DEF Closed
<1>2. \A n \in Nat : n >= 65536 =>
         /\ (n % 65536) + n \div 65536 \in Nat
         /\ Closed((n % 65536) + n \div 65536) = Closed(n)
  BY CarryTurn DEF Closed
<1>3. Fix(g)
  BY <1>1, <1>2
<1>4. Carried = CHOOSE f : Fix(f)
  BY DEF Carried
<1>5. Fix(Carried)
  <2> HIDE DEF Fix, g
  <2> QED BY <1>3, <1>4
<1> QED
  BY <1>5

(* There is no other: a least number where they differ would carry over to  *)
(* a smaller one.                                                           *)
LEMMA CarriedIs ==
  \A n \in Nat : Carried[n] = Closed(n)
<1> DEFINE T == {n \in Nat : Carried[n] # Closed(n)}
<1> SUFFICES ASSUME T # {} PROVE FALSE
  OBVIOUS
<1>1. PICK x \in T : \A y \in T : x <= y
  BY LeastElement
<1>2. CASE x < 65536
  BY <1>2, CarriedDef DEF Closed
<1>3. CASE x >= 65536
  <2> DEFINE m == (x % 65536) + x \div 65536
  <2>1. m \in Nat /\ m < x /\ Closed(m) = Closed(x)
    BY <1>3, CarryTurn DEF Closed
  <2>2. Carried[x] = Carried[m]
    BY <1>3, CarriedDef
  <2> HIDE DEF m
  <2>3. Carried[m] = Closed(m)
    BY <1>1, <2>1
  <2> QED
    BY <2>1, <2>2, <2>3
<1> QED
  BY <1>2, <1>3

(* Division by 65535. *)
LEMMA Division ==
  ASSUME NEW x \in Nat
  PROVE  /\ x \div 65535 \in Nat /\ x % 65535 \in Nat /\ x % 65535 <= 65534
         /\ x = 65535 * (x \div 65535) + (x % 65535)
OBVIOUS

(* The complement of the carried sum makes up a multiple of 65535.  The     *)
(* carried sum is 65535, and its complement 0, for such multiples only.     *)
LEMMA Complement ==
  ASSUME NEW n \in Nat
  PROVE  /\ Carried[n] \in Nat /\ Carried[n] <= 65535
         /\ n + (65535 - Carried[n]) > 0
         /\ (n + (65535 - Carried[n])) % 65535 = 0
         /\ Carried[n] = 65535 <=> n > 0 /\ n % 65535 = 0
<1>1. Carried[n] = Closed(n)
  BY CarriedIs
<1>2. CASE n = 0
  BY <1>1, <1>2 DEF Closed
<1>3. CASE n # 0
  <2> DEFINE q == (n - 1) \div 65535
             r == (n - 1) % 65535
  <2>1. q \in Nat /\ r \in Nat /\ r <= 65534 /\ n = 65535 * q + r + 1
    <3>1. n - 1 \in Nat
      BY <1>3
    <3>2. q \in Nat /\ r \in Nat /\ r <= 65534 /\ n - 1 = 65535 * q + r
      BY <3>1, Division
    <3> HIDE DEF q, r
    <3> QED
      BY <3>1, <3>2
  <2>2. Carried[n] = r + 1
    BY <1>1, <1>3 DEF Closed
  <2> HIDE DEF q, r
  <2>3. \A x, y \in Nat : (65535 * x + y) % 65535 = y % 65535
    OBVIOUS
  <2>4. n + (65535 - Carried[n]) = 65535 * (q + 1) + 0 /\ q + 1 \in Nat
    BY <2>1, <2>2
  <2>5. (65535 * (q + 1) + 0) % 65535 = 0 % 65535
    BY <2>3, <2>4
  <2>6. n % 65535 = (r + 1) % 65535
    BY <2>1, <2>3
  <2>7. (r + 1) % 65535 = 0 <=> r + 1 = 65535
    <3>1. \A x \in Nat : x > 0 /\ x <= 65535 => (x % 65535 = 0 <=> x = 65535)
      OBVIOUS
    <3> QED
      BY <2>1, <3>1
  <2>8. n > 0
    BY <1>3
  <2>9. (n + (65535 - Carried[n])) % 65535 = 0
    BY <2>4, <2>5
  <2>10. Carried[n] \in Nat /\ Carried[n] <= 65535 /\ n + (65535 - Carried[n]) > 0
    BY <2>1, <2>2
  <2> QED
    BY <2>2, <2>6, <2>7, <2>8, <2>9, <2>10
<1> QED
  BY <1>2, <1>3, SMT

(* f[i] is the sum of the first i of the n numbers of b. *)
IsSum(f, b, n) == f = [i \in 0..n |-> IF i = 0 THEN 0 ELSE f[i - 1] + b[i]]

(* The loop over the blocks has a result. *)
LEMMA SumExists ==
  ASSUME NEW b, NEW m \in Nat
  PROVE  \E f : IsSum(f, b, m)
<1> DEFINE S == {n \in Nat : \E f : IsSum(f, b, n)}
<1>1. 0 \in S
  <2>1. IsSum([i \in 0..0 |-> 0], b, 0)
    BY DEF IsSum
  <2> QED
    BY <2>1
<1>2. ASSUME NEW n \in Nat, n \in S
      PROVE  n + 1 \in S
  <2>1. PICK f : IsSum(f, b, n)
    BY <1>2
  <2> DEFINE g == [i \in 0..(n + 1) |-> IF i = n + 1 THEN f[n] + b[n + 1] ELSE f[i]]
  <2>2. \A i \in 0..(n + 1) : g[i] = IF i = 0 THEN 0 ELSE g[i - 1] + b[i]
    BY <2>1 DEF IsSum
  <2>3. IsSum(g, b, n + 1)
    BY <2>2 DEF IsSum
  <2> QED
    BY <2>3
<1>3. Nat \subseteq S
  <2> HIDE DEF S
  <2> QED
    BY <1>1, <1>2, Induction
<1> QED
  BY <1>3

(* It is a natural number. *)
LEMMA SumIs ==
  ASSUME NEW b, NEW n \in Nat, NEW f, IsSum(f, b, n), \A i \in 1..n : b[i] \in Nat
  PROVE  \A i \in 0..n : f[i] \in Nat
<1> DEFINE S == {i \in 0..n : f[i] \in Nat}
<1>1. 0 \in S
  BY DEF IsSum
<1>2. ASSUME NEW i \in 0..(n - 1), i \in S
      PROVE  i + 1 \in S
  BY <1>2 DEF IsSum
<1>3. 0..n \subseteq S
  <2> HIDE DEF S
  <2> QED
    BY <1>1, <1>2, InductionUpTo
<1> QED
  BY <1>3

(* The k-th of the n numbers of b has grown by d to become that of c. *)
Grown(b, f, c, g, n, k, d) ==
  /\ IsSum(f, b, n) /\ IsSum(g, c, n)
  /\ n \in Nat /\ k \in 1..n /\ d \in Nat
  /\ \A i \in 1..n : b[i] \in Nat
  /\ \A i \in 1..n : c[i] = IF i = k THEN b[i] + d ELSE b[i]

(* The sum has grown by as much. *)
LEMMA SumChanges ==
  ASSUME NEW b, NEW f, NEW c, NEW g, NEW n, NEW k, NEW d,
         Grown(b, f, c, g, n, k, d)
  PROVE  g[n] = f[n] + d
<1> DEFINE S == {i \in 0..n : g[i] = IF i < k THEN f[i] ELSE f[i] + d}
<1> USE DEF Grown
<1>0. \A i \in 0..n : f[i] \in Nat
  BY SumIs
<1>1. 0 \in S
  BY DEF IsSum
<1>2. ASSUME NEW i \in 0..(n - 1), i \in S
      PROVE  i + 1 \in S
  <2>1. /\ f[i + 1] = f[i] + b[i + 1] /\ g[i + 1] = g[i] + c[i + 1]
        /\ i + 1 \in 1..n /\ f[i] \in Nat /\ b[i + 1] \in Nat
    BY <1>0 DEF IsSum
  <2>2. c[i + 1] = IF i + 1 = k THEN b[i + 1] + d ELSE b[i + 1]
    BY <2>1
  <2>3. g[i] = IF i < k THEN f[i] ELSE f[i] + d
    BY <1>2
  <2>4. g[i + 1] = IF i + 1 < k THEN f[i + 1] ELSE f[i + 1] + d
    BY <2>1, <2>2, <2>3
  <2> QED
    BY <2>1, <2>4
<1>3. 0..n \subseteq S
  <2> HIDE DEF S
  <2> QED
    BY <1>1, <1>2, InductionUpTo
<1> QED
  BY <1>3

(* b holds the n 16 bit words of the m bytes of data. *)
AreWords(b, n, data, m) ==
  /\ n \in Nat /\ m \in Nat /\ Len(b) = n /\ 2 * n >= m
  /\ \A i \in 1..n :
       /\ b[i] \in Nat
       /\ 2 * i - 1 \in 1..m
       /\ b[i] = data[2 * i - 1] * 256
                   + (IF 2 * i <= m THEN data[2 * i] ELSE 0)

(* Bytes are numbers. *)
LEMMA Bytes ==
  ASSUME NEW data \in Seq(Byte)
  PROVE  /\ data \in Seq(Nat) /\ Len(data) \in Nat
         /\ \A i \in 1..Len(data) : data[i] \in Nat
<1>1. \A x \in Byte : x \in Nat
  BY DEF Byte
<1>2. Len(data) \in Nat /\ DOMAIN data = 1..Len(data)
  BY LenProperties
<1>3. \A i \in 1..Len(data) : data[i] \in Byte
  BY ElementOfSeq
<1> QED
  BY <1>1, <1>2, <1>3

(* What Blocks returns. *)
LEMMA BlocksType ==
  ASSUME NEW data \in Seq(Byte)
  PROVE  AreWords(Blocks(data), (Len(data) + 1) \div 2, data, Len(data))
<1> DEFINE n == (Len(data) + 1) \div 2
<1>1. Len(data) \in Nat /\ \A i \in 1..Len(data) : data[i] \in Nat
  BY Bytes
<1>2. n \in Nat /\ 2 * n >= Len(data) /\ 2 * n <= Len(data) + 1
  BY <1>1
<1> HIDE DEF n
<1>3. Blocks(data) = [i \in 1..n |-> data[2 * i - 1] * 256
                       + (IF 2 * i <= Len(data) THEN data[2 * i] ELSE 0)]
  BY DEF Blocks, n
<1>4. Len(Blocks(data)) = n
  BY <1>2, <1>3
<1>5. ASSUME NEW i \in 1..n
      PROVE  /\ Blocks(data)[i] \in Nat
             /\ 2 * i - 1 \in 1..Len(data)
             /\ Blocks(data)[i] = data[2 * i - 1] * 256
                       + (IF 2 * i <= Len(data) THEN data[2 * i] ELSE 0)
  <2>1. 2 * i - 1 \in 1..Len(data)
    BY <1>1, <1>2
  <2>2. data[2 * i - 1] \in Nat /\ 2 * i \in Nat
    BY <1>1, <2>1
  <2>3. 2 * i <= Len(data) => data[2 * i] \in Nat
    BY <1>1, <1>2, <2>2
  <2>4. Blocks(data)[i] = data[2 * i - 1] * 256
                       + (IF 2 * i <= Len(data) THEN data[2 * i] ELSE 0)
    BY <1>3
  <2> QED
    BY <2>1, <2>2, <2>3, <2>4
<1>6. AreWords(Blocks(data), n, data, Len(data))
  BY <1>1, <1>2, <1>4, <1>5 DEF AreWords
<1> QED
  BY <1>6 DEF n

(* SumOf is that result. *)
LEMMA SumOfIs ==
  ASSUME NEW data \in Seq(Byte)
  PROVE  \E f : /\ IsSum(f, Blocks(data), Len(Blocks(data)))
                /\ SumOf[data] = f[Len(Blocks(data))]
<1> DEFINE b == Blocks(data)
           f == CHOOSE f : f = [i \in 0..Len(b) |->
                                 IF i = 0 THEN 0 ELSE f[i - 1] + b[i]]
<1>0. data \in Seq(Nat)
  BY Bytes
<1>1. SumOf[data] = f[Len(b)]
  BY <1>0 DEF SumOf
<1>2. Len(b) \in Nat
  BY BlocksType DEF AreWords
<1> HIDE DEF b
<1>3. IsSum(f, b, Len(b))
  BY <1>2, SumExists DEF IsSum
<1> QED
  BY <1>1, <1>3 DEF b

(* with is data with the word c in the place of a zero word, the k-th. *)
Stamped(data, with, m, k, c) ==
  /\ m \in Nat /\ Len(data) = m /\ Len(with) = m
  /\ k \in Nat /\ k >= 1 /\ 2 * k <= m /\ c \in Nat
  /\ data[2 * k - 1] = 0 /\ data[2 * k] = 0
  /\ with[2 * k - 1] * 256 + with[2 * k] = c
  /\ \A i \in 1..m : i # 2 * k - 1 /\ i # 2 * k => with[i] = data[i]

(* The sum then grows by that word. *)
LEMMA WordAdded ==
  ASSUME NEW data \in Seq(Byte), NEW with \in Seq(Byte), NEW m, NEW k, NEW c,
         Stamped(data, with, m, k, c)
  PROVE  SumOf[data] \in Nat /\ SumOf[with] = SumOf[data] + c
<1> DEFINE n == (m + 1) \div 2
           b == Blocks(data)
           d == Blocks(with)
<1>1. m = Len(data) /\ m = Len(with)
  BY DEF Stamped
<1>2. AreWords(b, n, data, m)
  BY <1>1, BlocksType, Zenon
<1>3. AreWords(d, n, with, m)
  BY <1>1, BlocksType, Zenon
<1>4. \E f : IsSum(f, b, Len(b)) /\ SumOf[data] = f[Len(b)]
  BY SumOfIs, Zenon
<1>5. \E f : IsSum(f, d, Len(d)) /\ SumOf[with] = f[Len(d)]
  BY SumOfIs, Zenon
<1>6. /\ m \in Nat /\ k \in Nat /\ k >= 1 /\ 2 * k <= m /\ c \in Nat
      /\ data[2 * k - 1] = 0 /\ data[2 * k] = 0
      /\ with[2 * k - 1] * 256 + with[2 * k] = c
      /\ \A i \in 1..m : i # 2 * k - 1 /\ i # 2 * k => with[i] = data[i]
  BY DEF Stamped
<1> HIDE DEF n, b, d
<1>7. PICK f : IsSum(f, b, n) /\ SumOf[data] = f[n]
  BY <1>2, <1>4, Zenon DEF AreWords
<1>8. PICK g : IsSum(g, d, n) /\ SumOf[with] = g[n]
  BY <1>3, <1>5, Zenon DEF AreWords
<1>9. k \in 1..n /\ n \in Nat
  BY <1>2, <1>6 DEF AreWords
<1>10. ASSUME NEW i \in 1..n
       PROVE  d[i] = IF i = k THEN b[i] + c ELSE b[i]
  <2>0. /\ b[i] \in Nat /\ 2 * i - 1 \in 1..m
        /\ b[i] = data[2 * i - 1] * 256 + (IF 2 * i <= m THEN data[2 * i] ELSE 0)
        /\ d[i] = with[2 * i - 1] * 256 + (IF 2 * i <= m THEN with[2 * i] ELSE 0)
    BY <1>2, <1>3 DEF AreWords
  <2>1. CASE i = k
    <3>1. b[i] = 0 * 256 + 0 /\ d[i] = c
      BY <1>6, <2>0, <2>1
    <3> QED
      BY <2>1, <3>1, <1>6
  <2>2. CASE i # k
    <3>1. with[2 * i - 1] = data[2 * i - 1]
      BY <1>6, <2>0, <2>2
    <3>2. 2 * i <= m => with[2 * i] = data[2 * i]
      BY <1>6, <2>0, <2>2
    <3> QED
      BY <2>0, <2>2, <3>1, <3>2
  <2> QED
    BY <2>1, <2>2
<1>11. (\A i \in 1..n : b[i] \in Nat) /\ c \in Nat
  BY <1>2, <1>6 DEF AreWords
<1>12. g[n] = f[n] + c
  <2>1. Grown(b, f, d, g, n, k, c)
    BY <1>7, <1>8, <1>9, <1>10, <1>11 DEF Grown
  <2> QED
    BY <2>1, SumChanges, SMT
<1>13. f[n] \in Nat
  <2>1. \A i \in 0..n : f[i] \in Nat
    BY <1>7, <1>9, <1>11, SumIs, Zenon
  <2> QED
    BY <1>9, <2>1
<1> QED
  BY <1>7, <1>8, <1>12, <1>13, Zenon

(* The checksum of a message, put into a zero word of it, makes it verify. *)
LEMMA StampVerifies ==
  ASSUME NEW data \in Seq(Byte), NEW with \in Seq(Byte), NEW m, NEW k,
         Stamped(data, with, m, k, cksum16(data))
  PROVE  Verifies(with)
<1> DEFINE n == SumOf[data]
<1>1. n \in Nat /\ SumOf[with] = n + cksum16(data)
  BY WordAdded
<1>2. cksum16(data) = 65535 - Carried[n]
  BY DEF cksum16
<1> HIDE DEF n
<1> QED
  BY <1>1, <1>2, Complement DEF Verifies

U16(v) == v \in Nat /\ v < 65536

(* The two bytes of a 16 bit number, and what le_to_be_u16 does to them. *)
LEMMA Halves ==
  ASSUME NEW v, U16(v)
  PROVE  /\ v % 256 \in Byte /\ v \div 256 \in Byte
         /\ (v \div 256) * 256 + (v % 256) = v
         /\ U16(le_to_be_u16(v))
         /\ le_to_be_u16(v) % 256 = v \div 256
         /\ le_to_be_u16(v) \div 256 = v % 256
<1> DEFINE q == v \div 256
           r == v % 256
<1>1. v \in Nat /\ v < 65536
  BY DEF U16
<1>2. q \in Nat /\ q < 256 /\ r \in Nat /\ r < 256 /\ v = q * 256 + r
  BY <1>1
<1>3. le_to_be_u16(v) = r * 256 + q
  BY DEF le_to_be_u16
<1> HIDE DEF q, r
<1>4. (r * 256 + q) % 256 = q /\ (r * 256 + q) \div 256 = r
  BY <1>2
<1>5. q \in Byte /\ r \in Byte
  BY <1>2 DEF Byte
<1>6. U16(r * 256 + q)
  BY <1>2 DEF U16
<1> QED
  BY <1>2, <1>3, <1>4, <1>5, <1>6 DEF q, r

(* The sum is a number, and the checksum one of 16 bits. *)
LEMMA CksumType ==
  ASSUME NEW data \in Seq(Byte)
  PROVE  SumOf[data] \in Nat /\ U16(cksum16(data))
<1> DEFINE b == Blocks(data)
           n == Len(Blocks(data))
           s == SumOf[data]
<1>1. n \in Nat /\ \A i \in 1..n : b[i] \in Nat
  BY BlocksType DEF AreWords
<1>2. PICK f : IsSum(f, b, n) /\ s = f[n]
  BY SumOfIs
<1>3. cksum16(data) = 65535 - Carried[s]
  BY DEF cksum16
<1> HIDE DEF n, b, s
<1>4. \A i \in 0..n : f[i] \in Nat
  BY <1>1, <1>2, SumIs
<1>5. s \in Nat
  BY <1>1, <1>2, <1>4
<1>6. Carried[s] \in Nat /\ Carried[s] <= 65535
  BY <1>5, Complement
<1>7. U16(cksum16(data))
  BY <1>3, <1>6 DEF U16
<1> QED
  BY <1>5, <1>7 DEF s

(* The checksum over a message that verifies is 0, over another it is not. *)
LEMMA CksumZero ==
  ASSUME NEW data \in Seq(Byte)
  PROVE  cksum16(data) = 0 <=> Verifies(data)
<1> DEFINE s == SumOf[data]
<1>1. s \in Nat
  BY CksumType
<1>2. cksum16(data) = 65535 - Carried[s] /\ (Verifies(data) <=> s > 0 /\ s % 65535 = 0)
  BY DEF cksum16, Verifies
<1> HIDE DEF s
<1> QED
  BY <1>1, <1>2, Complement

(* A word in the middle of a message. *)
LEMMA Placed ==
  ASSUME NEW p \in Seq(Byte), NEW s \in Seq(Byte), NEW k \in Nat, k >= 1,
         Len(p) = 2 * k - 2, NEW x \in Byte, NEW y \in Byte
  PROVE  /\ (p \o <<0, 0>>) \o s \in Seq(Byte)
         /\ (p \o <<x, y>>) \o s \in Seq(Byte)
         /\ Stamped((p \o <<0, 0>>) \o s, (p \o <<x, y>>) \o s,
                    2 * k + Len(s), k, x * 256 + y)
<1> DEFINE d == (p \o <<0, 0>>) \o s
           w == (p \o <<x, y>>) \o s
           m == 2 * k + Len(s)
           c == x * 256 + y
<1>1. x \in Nat /\ y \in Nat /\ 0 \in Byte
  BY DEF Byte
<1>2. c \in Nat
  BY <1>1
<1>3. <<0, 0>> \in Seq(Byte) /\ <<x, y>> \in Seq(Byte)
  BY <1>1
<1>4. d \in Seq(Byte) /\ w \in Seq(Byte)
  BY <1>3
<1>5. Len(d) = m /\ Len(w) = m /\ m \in Nat
  BY <1>3
<1>6. d[2 * k - 1] = 0 /\ d[2 * k] = 0 /\ w[2 * k - 1] = x /\ w[2 * k] = y
  BY <1>3
<1>7. \A i \in 1..m : i # 2 * k - 1 /\ i # 2 * k => w[i] = d[i]
  BY <1>3
<1>8. 2 * k <= m /\ x * 256 + y = c
  OBVIOUS
<1> HIDE DEF d, w, m, c
<1>9. Stamped(d, w, m, k, c)
  BY <1>2, <1>5, <1>6, <1>7, <1>8 DEF Stamped
<1> QED
  BY <1>4, <1>9 DEF d, w, m, c

(* A 16 bit field lies in memory in two bytes, and one that was converted   *)
(* to network order with its high byte first.                               *)
LEMMA InMemory ==
  ASSUME NEW v, U16(v)
  PROVE  /\ Mem(v) \in Seq(Byte) /\ Len(Mem(v)) = 2
         /\ Mem(le_to_be_u16(v)) = <<v \div 256, v % 256>>
<1> DEFINE w == le_to_be_u16(v)
<1>1. v % 256 \in Byte /\ v \div 256 \in Byte
  BY Halves
<1>2. w % 256 = v \div 256 /\ w \div 256 = v % 256
  BY Halves
<1> HIDE DEF w
<1>3. Mem(v) \in Seq(Byte) /\ Len(Mem(v)) = 2
  BY <1>1 DEF Mem
<1>4. Mem(w) = <<v \div 256, v % 256>>
  BY <1>2 DEF Mem
<1> QED
  BY <1>3, <1>4 DEF w

(* Two byte sequences, one after the other. *)
LEMMA Joined ==
  \A a, b \in Seq(Byte) : /\ a \o b \in Seq(Byte)
                          /\ Len(a \o b) = Len(a) + Len(b)
  BY ConcatProperties

(* The bytes of a header in front of its checksum. *)
Front(h) == <<h.ver_len, h.service_type>> \o Mem(h.total_len) \o Mem(h.id)
            \o Mem(h.offset) \o <<h.ttl, h.protocol>>

HeaderFields(h) ==
  /\ h.ver_len \in Byte /\ h.service_type \in Byte
  /\ h.ttl \in Byte /\ h.protocol \in Byte
  /\ U16(h.total_len) /\ U16(h.id) /\ U16(h.offset)
  /\ h.src \in Address /\ h.dst \in Address

(* They are ten. *)
LEMMA FrontType ==
  ASSUME NEW h, HeaderFields(h)
  PROVE  Front(h) \in Seq(Byte) /\ Len(Front(h)) = 10
<1> DEFINE a == <<h.ver_len, h.service_type>>
           t == Mem(h.total_len)
           i == Mem(h.id)
           o == Mem(h.offset)
           p == <<h.ttl, h.protocol>>
<1>2. a \in Seq(Byte) /\ Len(a) = 2 /\ p \in Seq(Byte) /\ Len(p) = 2
  BY DEF HeaderFields
<1>3. /\ t \in Seq(Byte) /\ Len(t) = 2 /\ i \in Seq(Byte) /\ Len(i) = 2
      /\ o \in Seq(Byte) /\ Len(o) = 2
  BY InMemory DEF HeaderFields
<1> DEFINE u == a \o t
           v == u \o i
           w == v \o o
           x == w \o p
<1>4. Front(h) = x
  BY DEF Front
<1> HIDE DEF a, t, i, o, p
<1>5. u \in Seq(Byte) /\ Len(u) = Len(a) + Len(t)
  BY <1>2, <1>3, Joined, Zenon
<1> HIDE DEF u
<1>6. v \in Seq(Byte) /\ Len(v) = Len(u) + Len(i)
  BY <1>3, <1>5, Joined, Zenon
<1> HIDE DEF v
<1>7. w \in Seq(Byte) /\ Len(w) = Len(v) + Len(o)
  BY <1>3, <1>6, Joined, Zenon
<1> HIDE DEF w
<1>8. x \in Seq(Byte) /\ Len(x) = Len(w) + Len(p)
  BY <1>2, <1>7, Joined, Zenon
<1> HIDE DEF x
<1>9. Len(x) = 10
  BY <1>2, <1>3, <1>5, <1>6, <1>7, <1>8
<1> QED
  BY <1>4, <1>8, <1>9

(* An address is four bytes. *)
LEMMA AddressBytes ==
  ASSUME NEW a \in Address
  PROVE  a \in Seq(Byte) /\ Len(a) = 4
<1>1. a \in [1..4 -> Byte]
  BY DEF Address
<1>2. a \in Seq(Byte)
  <2>1. [1..4 -> Byte] \in {[1..n -> Byte] : n \in Nat}
    OBVIOUS
  <2> QED
    BY <1>1, <2>1, SeqDef, Zenon
<1>3. Len(a) \in Nat /\ DOMAIN a = 1..Len(a)
  BY <1>2, LenProperties
<1>4. DOMAIN a = 1..4
  BY <1>1
<1>5. Len(a) = 4
  <2>1. 4 \in DOMAIN a /\ 5 \notin DOMAIN a
    BY <1>4
  <2> QED
    BY <1>3, <2>1
<1> QED
  BY <1>2, <1>5

(* A header is what is in front of its checksum, the checksum, and the      *)
(* addresses.                                                               *)
LEMMA HeaderIs ==
  ASSUME NEW h, HeaderFields(h), U16(h.check_sum)
  PROVE  /\ h.src \o h.dst \in Seq(Byte) /\ Len(h.src \o h.dst) = 8
         /\ HeaderBytes(h) = (Front(h) \o Mem(h.check_sum)) \o (h.src \o h.dst)
<1> DEFINE f == Front(h)
           c == Mem(h.check_sum)
<1>1. /\ h.src \in Seq(Byte) /\ Len(h.src) = 4 /\ h.dst \in Seq(Byte) /\ Len(h.dst) = 4
  BY AddressBytes DEF HeaderFields
<1>2. f \in Seq(Byte) /\ c \in Seq(Byte)
  BY FrontType, InMemory
<1>3. HeaderBytes(h) = ((f \o c) \o h.src) \o h.dst
  BY DEF HeaderBytes, Front
<1> HIDE DEF f, c
<1>4. f \o c \in Seq(Byte)
  BY <1>2, Joined, Zenon
<1>5. ((f \o c) \o h.src) \o h.dst = (f \o c) \o (h.src \o h.dst)
  <2>1. \A a, b, d \in Seq(Byte) : (a \o b) \o d = a \o (b \o d)
    BY ConcatAssociative
  <2> QED
    BY <1>1, <1>4, <2>1, Zenon
<1>6. h.src \o h.dst \in Seq(Byte) /\ Len(h.src \o h.dst) = 8
  <2>1. /\ h.src \o h.dst \in Seq(Byte)
        /\ Len(h.src \o h.dst) = Len(h.src) + Len(h.dst)
    BY <1>1, Joined, Zenon
  <2> QED
    BY <1>1, <2>1
<1> QED
  BY <1>3, <1>5, <1>6 DEF f, c

(* A header made by create_ip_header verifies. *)
LEMMA HeaderVerifies ==
  ASSUME NEW protocol \in Byte, NEW src \in Address, NEW dst \in Address,
         NEW len, U16(HeaderSize + len), NEW id, U16(id)
  PROVE  LET h == CreateIpHeader(protocol, src, dst, len, id)
         IN  /\ Verifies(HeaderBytes(h)) /\ HeaderBytes(h) \in Seq(Byte)
             /\ Len(HeaderBytes(h)) = HeaderSize
<1> DEFINE h == [ver_len |-> 69, service_type |-> 0,
                 total_len |-> le_to_be_u16(HeaderSize + len),
                 id |-> le_to_be_u16(id), offset |-> 0, ttl |-> 255,
                 protocol |-> protocol, check_sum |-> 0, src |-> src, dst |-> dst]
           c == cksum16(HeaderBytes(h))
           g == [h EXCEPT !.check_sum = le_to_be_u16(c)]
           p == Front(h)
           s == src \o dst
           k == 6
<1>1. CreateIpHeader(protocol, src, dst, len, id) = g
  BY DEF CreateIpHeader
<1>2. U16(HeaderSize + len) /\ U16(0) /\ 69 \in Byte /\ 0 \in Byte /\ 255 \in Byte
  BY DEF U16, Byte
<1>3. U16(le_to_be_u16(HeaderSize + len)) /\ U16(le_to_be_u16(id))
  BY <1>2, Halves
<1>4. HeaderFields(h) /\ h.check_sum = 0
  BY <1>2, <1>3 DEF HeaderFields
<1>5. p \in Seq(Byte) /\ k \in Nat /\ k >= 1 /\ Len(p) = 2 * k - 2
  BY <1>4, FrontType
<1>6. /\ s \in Seq(Byte) /\ Len(s) = 8
      /\ HeaderBytes(h) = (p \o Mem(0)) \o s
  <2>1. h.src = src /\ h.dst = dst
    OBVIOUS
  <2> HIDE DEF h
  <2>2. U16(h.check_sum)
    BY <1>2, <1>4
  <2> QED
    BY <1>4, <2>1, <2>2, HeaderIs, Zenon
<1>7. Mem(0) = <<0, 0>>
  BY DEF Mem
<1>8. /\ g.check_sum = le_to_be_u16(c) /\ g.ver_len = h.ver_len
      /\ g.service_type = h.service_type /\ g.ttl = h.ttl
      /\ g.total_len = h.total_len /\ g.id = h.id /\ g.offset = h.offset
      /\ g.protocol = h.protocol /\ g.src = src /\ g.dst = dst
      /\ h.src = src /\ h.dst = dst
  OBVIOUS
<1> HIDE DEF h, g, c, p, s, k
<1>9. Front(g) = p /\ HeaderFields(g)
  BY <1>4, <1>8 DEF Front, p, HeaderFields
<1>10. HeaderBytes(h) \in Seq(Byte)
  <2>1. HeaderBytes(h) = (p \o <<0, 0>>) \o s
    BY <1>6, <1>7, Zenon
  <2>2. 0 \in Byte
    BY DEF Byte
  <2>3. (p \o <<0, 0>>) \o s \in Seq(Byte)
    BY <1>5, <1>6, <2>2, Placed, Zenon
  <2> QED
    BY <2>1, <2>3, Zenon
<1>11. U16(c) /\ U16(le_to_be_u16(c))
  BY <1>10, CksumType, Halves DEF c
<1>12. HeaderBytes(g) = (p \o Mem(le_to_be_u16(c))) \o s
  BY <1>8, <1>9, <1>11, HeaderIs, Zenon DEF s
<1> DEFINE x == c \div 256
           y == c % 256
<1>13. /\ Mem(le_to_be_u16(c)) = <<x, y>>
       /\ x \in Byte /\ y \in Byte /\ x * 256 + y = c
  BY <1>11, InMemory, Halves
<1> HIDE DEF x, y
<1>14. /\ HeaderBytes(g) \in Seq(Byte)
       /\ Stamped(HeaderBytes(h), HeaderBytes(g), 2 * k + Len(s), k, c)
  <2>1. HeaderBytes(h) = (p \o <<0, 0>>) \o s
    BY <1>6, <1>7, Zenon
  <2>2. HeaderBytes(g) = (p \o <<x, y>>) \o s
    BY <1>12, <1>13, Zenon
  <2>3. (p \o <<x, y>>) \o s \in Seq(Byte)
    BY <1>5, <1>6, <1>13, Placed, Zenon
  <2>4. Stamped((p \o <<0, 0>>) \o s, (p \o <<x, y>>) \o s,
                2 * k + Len(s), k, x * 256 + y)
    BY <1>5, <1>6, <1>13, Placed, Zenon
  <2> QED
    BY <1>13, <2>1, <2>2, <2>3, <2>4, Zenon
<1>15. Verifies(HeaderBytes(g))
  BY <1>10, <1>14, StampVerifies DEF c
<1>16. Len(HeaderBytes(g)) = HeaderSize
  BY <1>6, <1>14 DEF Stamped, HeaderSize, k
<1> QED
  BY <1>1, <1>14, <1>15, <1>16

(* A byte sequence with another byte in one place. *)
LEMMA ByteSet ==
  \A q \in Seq(Byte) : \A i \in 1..Len(q), e \in Byte :
    /\ [q EXCEPT ![i] = e] \in Seq(Byte)
    /\ Len([q EXCEPT ![i] = e]) = Len(q)
    /\ \A j \in 1..Len(q) : [q EXCEPT ![i] = e][j] = IF j = i THEN e ELSE q[j]
  BY ExceptSeq

(* So does an echo reply, of even or odd length. *)
LEMMA EchoVerifies ==
  ASSUME NEW msg \in Seq(Byte), Len(msg) >= 8
  PROVE  Verifies(EchoReply(msg))
<1> DEFINE s == SubSeq(msg, 5, Len(msg))
           reply == <<EchoReplyType, msg[2], 0, 0>> \o s
           c == cksum16(reply)
           x == c \div 256
           y == c % 256
           w == [reply EXCEPT ![3] = x, ![4] = y]
<1>1. Len(msg) \in Nat /\ \A i \in 1..Len(msg) : msg[i] \in Byte
  BY ElementOfSeq, LenProperties
<1>2. s \in Seq(Byte) /\ Len(s) \in Nat
  BY <1>1
<1>3. EchoReplyType \in Byte /\ msg[2] \in Byte /\ 0 \in Byte
  BY <1>1 DEF EchoReplyType, Byte
<1>4. EchoReply(msg) = w
  BY DEF EchoReply
<1>6. reply \in Seq(Byte) /\ Len(reply) = 4 + Len(s)
  BY <1>2, <1>3
<1>7. reply[3] = 0 /\ reply[4] = 0
  BY <1>2, <1>3
<1> HIDE DEF s, reply
<1>8. U16(c)
  BY <1>6, CksumType
<1>9. x \in Byte /\ y \in Byte /\ x * 256 + y = c /\ c \in Nat
  BY <1>8, Halves DEF U16
<1> HIDE DEF x, y, c
<1> DEFINE v == [reply EXCEPT ![3] = x]
<1>10. 3 \in 1..Len(reply) /\ 4 \in 1..Len(reply)
  BY <1>2, <1>6
<1>11. /\ v \in Seq(Byte) /\ Len(v) = Len(reply)
       /\ \A j \in 1..Len(reply) : v[j] = IF j = 3 THEN x ELSE reply[j]
  BY <1>6, <1>9, <1>10, ByteSet
<1>12. w = [v EXCEPT ![4] = y]
  BY <1>6
<1>13. 4 \in 1..Len(v)
  BY <1>10, <1>11
<1> HIDE DEF v, w
<1>14. /\ w \in Seq(Byte) /\ Len(w) = Len(v)
       /\ \A j \in 1..Len(v) : w[j] = IF j = 4 THEN y ELSE v[j]
  BY <1>9, <1>11, <1>12, <1>13, ByteSet
<1>15. Stamped(reply, w, 4 + Len(s), 2, c)
  <2> DEFINE m == 4 + Len(s)
  <2>1. m \in Nat /\ Len(reply) = m /\ Len(w) = m /\ 2 * 2 <= m
    BY <1>2, <1>6, <1>11, <1>14
  <2>2. \A j \in 1..m : w[j] = IF j = 4 THEN y ELSE IF j = 3 THEN x ELSE reply[j]
    BY <1>6, <1>11, <1>14
  <2> HIDE DEF m
  <2>3. w[3] = x /\ w[4] = y
    BY <2>1, <2>2
  <2>4. Stamped(reply, w, m, 2, c)
    BY <1>7, <1>9, <2>1, <2>2, <2>3 DEF Stamped
  <2> QED
    BY <2>4 DEF m
<1> QED
  BY <1>4, <1>6, <1>14, <1>15, StampVerifies, Zenon DEF c

(* A header of ours passes the receiver's own tests. *)
LEMMA HeaderAccepted ==
  ASSUME NEW protocol \in Byte, NEW src \in Address, NEW dst \in Address,
         NEW len \in Nat, U16(HeaderSize + len), NEW id, U16(id)
  PROVE  CheckIpHeader(CreateIpHeader(protocol, src, dst, len, id), HeaderSize + len)
<1> DEFINE h == CreateIpHeader(protocol, src, dst, len, id)
           bytes == HeaderBytes(h)
           n == HeaderSize + len
<1>1. h.ver_len = 69 /\ h.offset = 0 /\ h.total_len = le_to_be_u16(n)
  BY DEF CreateIpHeader
<1>2. bytes \in Seq(Byte) /\ Len(bytes) = HeaderSize /\ Verifies(bytes)
  BY HeaderVerifies, Zenon
<1> HIDE DEF h, bytes, n
<1>3. cksum16(bytes) = 0
  BY <1>2, CksumZero
<1>4. SubSeq(bytes, 1, HeaderSize) = bytes
  BY <1>2, SubSeqFull
<1>5. be_to_le_u16(le_to_be_u16(n)) = n
  <2>1. n \in Nat /\ n < 65536
    BY DEF n, U16
  <2> QED
    BY <2>1 DEF be_to_le_u16, le_to_be_u16
<1>6. HeaderLen(h) = HeaderSize /\ h.ver_len \div 16 = 4
  BY <1>1 DEF HeaderLen, HeaderSize
<1>7. be_to_le_u16(h.offset) % 16384 = 0
  BY <1>1 DEF be_to_le_u16, le_to_be_u16
<1>8. n >= HeaderSize /\ HeaderSize <= HeaderSize /\ n >= n
  BY DEF n, HeaderSize
<1>9. CheckIpHeader(h, n)
  <2>1. be_to_le_u16(h.total_len) = n
    BY <1>1, <1>5, Zenon
  <2>2. cksum16(SubSeq(HeaderBytes(h), 1, HeaderSize)) = 0
    BY <1>3, <1>4, Zenon DEF bytes
  <2> QED
    BY <1>6, <1>7, <1>8, <2>1, <2>2, SMT DEF CheckIpHeader
<1> QED
  BY <1>9 DEF h, n

-----------------------------------------------------------------------------
(* Routes *)

(* The lookup finds a route for every address: the loopback network's for   *)
(* its addresses, the gateway's for all others.                             *)
LEMMA RouteFound ==
  ASSUME NEW dst \in Address
  PROVE  LookupIpRoute(dst) =
           IF And(dst, Loopback.netmask) = InterfaceRoute(Loopback).network
           THEN InterfaceRoute(Loopback) ELSE GatewayRoute(Gateway, Ethernet)
<1> DEFINE one == InterfaceRoute(Loopback)
           two == GatewayRoute(Gateway, Ethernet)
           matching == {i \in DOMAIN Routes :
                          And(dst, Routes[i].netmask) = Routes[i].network}
           Best(i) == \A j \in matching :
                        IF j < i THEN Shorter(Routes[j].netmask, Routes[i].netmask)
                        ELSE ~Shorter(Routes[i].netmask, Routes[j].netmask)
<1>1. DOMAIN Routes = {1, 2} /\ Routes[1] = one /\ Routes[2] = two
  BY DEF Routes
<1>2. LookupIpRoute(dst) = Routes[CHOOSE i \in matching : Best(i)]
  BY DEF LookupIpRoute
<1>3. /\ one.netmask = <<255, 255, 255, 0>> /\ two.netmask = ANY /\ two.network = ANY
      /\ one.netmask = Loopback.netmask
  BY DEF InterfaceRoute, GatewayRoute, Loopback, IPInterface
<1>4. And(dst, ANY) = ANY
  <2>1. \A i \in 1..4 : ANY[i] = 0
    BY DEF ANY
  <2>2. And(dst, ANY) = [i \in 1..4 |-> 0]
    BY <2>1 DEF And
  <2>3. ANY = [i \in 1..4 |-> 0]
    BY DEF ANY
  <2> QED
    BY <2>2, <2>3
<1>5. /\ ~Shorter(one.netmask, two.netmask) /\ ~Shorter(one.netmask, one.netmask)
      /\ ~Shorter(two.netmask, two.netmask)
  <2>1. /\ \A i \in 1..4 : ~(one.netmask[i] < two.netmask[i])
        /\ \A i \in 1..4 : ~(one.netmask[i] < one.netmask[i])
        /\ \A i \in 1..4 : ~(two.netmask[i] < two.netmask[i])
    BY <1>3 DEF ANY
  <2> QED
    BY <2>1 DEF Shorter
<1>6. Shorter(two.netmask, one.netmask)
  <2>1. two.netmask[1] < one.netmask[1] /\ 1 \in 1..4 /\ 1..(1 - 1) = {}
    BY <1>3 DEF ANY
  <2> QED
    BY <2>1 DEF Shorter
<1> HIDE DEF one, two
<1>7. /\ 2 \in matching
      /\ 1 \in matching <=> And(dst, one.netmask) = one.network
      /\ matching \subseteq {1, 2}
  BY <1>1, <1>3, <1>4
<1>8. CASE 1 \in matching
  <2>1. Best(1)
    BY <1>1, <1>5, <1>7
  <2>2. ~Best(2)
    <3>1. ~(IF 1 < 2 THEN Shorter(Routes[1].netmask, Routes[2].netmask)
            ELSE ~Shorter(Routes[2].netmask, Routes[1].netmask))
      BY <1>1, <1>5
    <3> QED
      BY <1>8, <3>1
  <2> HIDE DEF matching, Best
  <2>3. (CHOOSE i \in matching : Best(i)) = 1
    BY <1>7, <1>8, <2>1, <2>2
  <2> QED
    BY <1>1, <1>2, <1>3, <1>7, <1>8, <2>3 DEF one
<1>9. CASE 1 \notin matching
  <2>1. Best(2)
    BY <1>1, <1>5, <1>7, <1>9
  <2> HIDE DEF matching, Best
  <2>2. (CHOOSE i \in matching : Best(i)) = 2
    BY <1>7, <1>9, <2>1
  <2>3. LookupIpRoute(dst) = two /\ ~(And(dst, Loopback.netmask) = one.network)
    BY <1>1, <1>2, <1>3, <1>7, <1>9, <2>2
  <2> QED
    BY <2>3, Zenon DEF one, two
<1> QED
  BY <1>8, <1>9

(* So its interface has an address. *)
LEMMA RouteAddress ==
  ASSUME NEW dst \in Address
  PROVE  LookupIpRoute(dst).interface.unicast \in Address
<1>1. LookupIpRoute(dst).interface \in {Loopback, Ethernet}
  BY RouteFound DEF InterfaceRoute, GatewayRoute
<1>2. Loopback.unicast = <<127, 0, 0, 1>> /\ Ethernet.unicast = <<192, 0, 2, 2>>
  BY DEF Loopback, Ethernet, IPInterface
<1>3. <<127, 0, 0, 1>> \in Address /\ <<192, 0, 2, 2>> \in Address
  BY DEF Address, Byte
<1> QED
  BY <1>1, <1>2, <1>3

-----------------------------------------------------------------------------
(* ip::output and the computations it is part of *)

(* Every entry of the ARP table was announced to us. *)
TableFine(t) ==
  /\ t \in [DOMAIN t -> ArpEntry]
  /\ \A ip \in DOMAIN t : <<ip, t[ip].hw>> \in said

(* The checksums of an IP packet. *)
Checked(f) ==
  /\ Verifies(HeaderBytes(f.hdr))
  /\ f.hdr.protocol = IcmpProto => Verifies(f.data)

(* Every IP packet sent went to the fresh entry of its next hop, with the   *)
(* right checksums.                                                         *)
Sent(t, o) ==
  \A f \in o :
    f.type = "IP" =>
      /\ NextHop(f.hdr.dst) \in DOMAIN t
      /\ t[NextHop(f.hdr.dst)] = [hw |-> f.dst, age |-> "fresh"]
      /\ Checked(f)

(* What is given to ip::output. *)
Sendable(protocol, data, len, dst) ==
  /\ protocol \in {IcmpProto, TcpProto, UdpProto} /\ len \in Nat /\ dst \in Address
  /\ protocol = IcmpProto => Verifies(data)

Result(t, n, o, b) == [ctx |-> [arp |-> t, id |-> n], out |-> o, ok |-> b]

Good(r) ==
  /\ r = Result(r.ctx.arp, r.ctx.id, r.out, r.ok)
  /\ TableFine(r.ctx.arp)
  /\ r.ctx.id \in FirstId..IdMax
  /\ r.ok \in BOOLEAN
  /\ Sent(r.ctx.arp, r.out)

(* What a result is made of. *)
LEMMA ResultFields ==
  ASSUME NEW t, NEW n, NEW o, NEW b
  PROVE  LET r == Result(t, n, o, b)
         IN  r.ctx.arp = t /\ r.ctx.id = n /\ r.out = o /\ r.ok = b
BY DEF Result

(* A failure. *)
LEMMA FailedResult ==
  ASSUME NEW t, NEW n, NEW o, NEW b, NEW r, r = Result(t, n, o, b)
  PROVE  Failed(r) = Result(t, n, o, FALSE)
<1> DEFINE x == FALSE
<1>1. Failed(r) = [r EXCEPT !.ok = x]
  BY DEF Failed
<1> HIDE DEF x
<1>2. [r EXCEPT !.ok = x] = Result(t, n, o, x)
  BY DEF Result
<1> QED
  BY <1>1, <1>2 DEF x

(* A frame is sent. *)
LEMMA TransmitResult ==
  ASSUME NEW t, NEW n, NEW o, NEW b, NEW f, NEW r, r = Result(t, n, o, b)
  PROVE  Transmit(r, f) = Result(t, n, o \union {f}, b)
BY DEF Result, Transmit

(* The table changes. *)
LEMMA TableResult ==
  ASSUME NEW t, NEW n, NEW o, NEW b, NEW x, NEW r, r = Result(t, n, o, b)
  PROVE  [r EXCEPT !.ctx.arp = x] = Result(x, n, o, b)
BY DEF Result

(* A good result, from its parts. *)
LEMMA GoodParts ==
  ASSUME NEW t, NEW n \in FirstId..IdMax, NEW o, NEW b \in BOOLEAN,
         TableFine(t), Sent(t, o)
  PROVE  Good(Result(t, n, o, b))
<1> DEFINE r == Result(t, n, o, b)
<1>1. r.ctx.arp = t /\ r.ctx.id = n /\ r.out = o /\ r.ok = b
  BY ResultFields
<1>2. r = Result(r.ctx.arp, r.ctx.id, r.out, r.ok)
  BY <1>1
<1> HIDE DEF r
<1>3. Good(r)
  BY <1>1, <1>2 DEF Good
<1> QED
  BY <1>3 DEF r

(* A failure keeps what was done before it. *)
LEMMA FailedGood ==
  ASSUME NEW r, Good(r)
  PROVE  Good(Failed(r))
<1>1. r = Result(r.ctx.arp, r.ctx.id, r.out, r.ok)
  BY DEF Good
<1>2. Failed(r) = Result(r.ctx.arp, r.ctx.id, r.out, FALSE)
  BY <1>1, FailedResult
<1>3. /\ TableFine(r.ctx.arp) /\ r.ctx.id \in FirstId..IdMax
      /\ Sent(r.ctx.arp, r.out) /\ FALSE \in BOOLEAN
  BY DEF Good
<1>4. Good(Result(r.ctx.arp, r.ctx.id, r.out, FALSE))
  BY <1>3, GoodParts
<1> QED
  BY <1>2, <1>4

(* The header that goes out names the destination and the protocol. *)
LEMMA HeaderDst ==
  ASSUME NEW protocol, NEW src, NEW dst, NEW len, NEW id
  PROVE  LET h == CreateIpHeader(protocol, src, dst, len, id)
         IN  h.dst = dst /\ h.protocol = protocol
BY DEF CreateIpHeader

(* A packet that fits into a frame has the right checksums. *)
LEMMA PacketChecked ==
  ASSUME NEW protocol, NEW data, NEW len, NEW dst, Sendable(protocol, data, len, dst),
         HeaderSize + len <= MaxPayload, NEW id \in FirstId..IdMax,
         NEW f, f.data = data,
         f.hdr = CreateIpHeader(protocol, LookupIpRoute(dst).interface.unicast,
                                dst, len, id)
  PROVE  Checked(f)
<1> DEFINE src == LookupIpRoute(dst).interface.unicast
<1>1. dst \in Address /\ src \in Address
  BY RouteAddress DEF Sendable
<1>2. protocol \in Byte
  BY DEF Sendable, IcmpProto, TcpProto, UdpProto, Byte
<1>3. U16(HeaderSize + len) /\ U16(id)
  BY IdAssumption, BoundAssumption, SMT DEF Sendable, HeaderSize, U16
<1> HIDE DEF src
<1>4. Verifies(HeaderBytes(CreateIpHeader(protocol, src, dst, len, id)))
  BY <1>1, <1>2, <1>3, HeaderVerifies, Zenon
<1>5. f.hdr.protocol = protocol
  BY HeaderDst
<1>6. Verifies(HeaderBytes(f.hdr))
  BY <1>4 DEF src
<1> QED
  BY <1>5, <1>6 DEF Checked, Sendable

(* A usable entry. *)
LEMMA ResolvedEntry ==
  ASSUME NEW r, NEW hop
  PROVE  \/ /\ Resolved(r, hop) = {}
            /\ ~(hop \in DOMAIN r.ctx.arp /\ r.ctx.arp[hop].age = "fresh")
         \/ /\ hop \in DOMAIN r.ctx.arp /\ r.ctx.arp[hop].age = "fresh"
            /\ Resolved(r, hop) = {r.ctx.arp[hop].hw}
BY DEF Resolved, ArpGet

(* The next hop is not resolved: an ARP request goes out in place of the    *)
(* packet, and the entry is forgotten.                                      *)
Asks(r, s, hop) ==
  /\ r.ctx.id # IdMax
  /\ ~(hop \in DOMAIN r.ctx.arp /\ r.ctx.arp[hop].age = "fresh")
  /\ \E f : /\ f.type = "Arp"
            /\ s = Result(Without(r.ctx.arp, hop), r.ctx.id + 1,
                          r.out \union {f}, r.ok)

(* It is resolved: the packet goes to the entry's address. *)
Reaches(r, s, dst) ==
  /\ r.ctx.id # IdMax
  /\ NextHop(dst) \in DOMAIN r.ctx.arp
  /\ r.ctx.arp[NextHop(dst)].age = "fresh"
  /\ \E f : /\ f.hdr.dst = dst /\ f.dst = r.ctx.arp[NextHop(dst)].hw /\ Checked(f)
            /\ s = Result(r.ctx.arp, r.ctx.id + 1, r.out \union {f}, r.ok)

(* What ip::output does: it fails, or one of the two. *)
LEMMA OutputCases ==
  ASSUME NEW r, Good(r), NEW protocol, NEW data, NEW len, NEW src, NEW dst,
         Sendable(protocol, data, len, dst),
         NEW s, s = Output(r, protocol, data, len, src, dst)
  PROVE  s = Failed(r) \/ Asks(r, s, NextHop(dst)) \/ Reaches(r, s, dst)
<1> DEFINE iface == LookupIpRoute(dst).interface
           hop == NextHop(dst)
           t == r.ctx.arp
           next == [r EXCEPT !.ctx.id = @ + 1]
           header == CreateIpHeader(protocol, iface.unicast, dst, len, next.ctx.id)
           panics == \/ src \notin {ANY, iface.unicast}
                     \/ r.ctx.id = IdMax
                     \/ HeaderSize + (len % 65536) > 65535
                     \/ dst \in {iface.broadcast, BROADCAST}
                     \/ hop \in DOMAIN t /\ t[hop].age = "future"
                     \/ Resolved(r, hop) # {} /\ HeaderSize + len > MaxPayload
           q == ArpRequest(iface, hop)
           p == [dst |-> CHOOSE hw \in Resolved(r, hop) : TRUE, type |-> "IP",
                 src |-> MyHw, hdr |-> header, data |-> data]
<1>1. s = IF ~r.ok \/ panics THEN Failed(r)
          ELSE IF Resolved(r, hop) = {}
          THEN Transmit([next EXCEPT !.ctx.arp = Without(@, hop)], q)
          ELSE Transmit(next, p)
  BY DEF Output
<1>2. \/ panics
      \/ /\ r.ctx.id # IdMax
         /\ Resolved(r, hop) = {} \/ ~(HeaderSize + len > MaxPayload)
  OBVIOUS
<1>3. r = Result(t, r.ctx.id, r.out, r.ok)
  BY DEF Good
<1>4. q.type = "Arp" /\ p.hdr.dst = dst
  BY HeaderDst DEF ArpRequest, ArpFrame
<1>5. next = Result(t, r.ctx.id + 1, r.out, r.ok)
  BY <1>3 DEF Result
<1>6. p.dst = (CHOOSE hw \in Resolved(r, hop) : TRUE) /\ p.data = data
      /\ p.hdr = CreateIpHeader(protocol, LookupIpRoute(dst).interface.unicast,
                                dst, len, next.ctx.id)
  OBVIOUS
<1> HIDE DEF panics, q, p, iface, hop, next, t
<1>7. Transmit(next, p) = Result(t, r.ctx.id + 1, r.out \union {p}, r.ok)
  BY <1>5, TransmitResult
<1>8. Transmit([next EXCEPT !.ctx.arp = Without(@, hop)], q) =
        Result(Without(t, hop), r.ctx.id + 1, r.out \union {q}, r.ok)
  <2>1. next.ctx.arp = t
    BY <1>5, ResultFields
  <2>2. [next EXCEPT !.ctx.arp = Without(@, hop)] =
          Result(Without(t, hop), r.ctx.id + 1, r.out, r.ok)
    BY <1>5, <2>1, TableResult
  <2> QED
    BY <2>2, TransmitResult
<1>9. CASE ~r.ok \/ panics
  BY <1>1, <1>9
<1>10. CASE r.ok /\ ~panics /\ Resolved(r, hop) = {}
  <2>1. s = Result(Without(t, hop), r.ctx.id + 1, r.out \union {q}, r.ok)
    BY <1>1, <1>8, <1>10
  <2>2. ~(hop \in DOMAIN t /\ t[hop].age = "fresh")
    BY <1>10, ResolvedEntry DEF t
  <2>3. \E f : /\ f.type = "Arp"
               /\ s = Result(Without(t, hop), r.ctx.id + 1, r.out \union {f}, r.ok)
    BY <1>4, <2>1
  <2> QED
    BY <1>2, <1>10, <2>2, <2>3 DEF t, hop, Asks
<1>11. CASE r.ok /\ ~panics /\ Resolved(r, hop) # {}
  <2>1. s = Result(t, r.ctx.id + 1, r.out \union {p}, r.ok)
    BY <1>1, <1>7, <1>11
  <2>2. /\ hop \in DOMAIN t /\ t[hop].age = "fresh"
        /\ Resolved(r, hop) = {t[hop].hw}
    BY <1>11, ResolvedEntry DEF t
  <2>3. p.dst = t[hop].hw
    BY <1>6, <2>2
  <2>4. Checked(p)
    <3>1. HeaderSize + len <= MaxPayload
      BY <1>2, <1>11, BoundAssumption DEF Sendable, HeaderSize
    <3>2. next.ctx.id \in FirstId..IdMax
      <4>1. next.ctx.id = r.ctx.id + 1
        BY <1>5, ResultFields
      <4> QED
        BY <1>2, <1>11, <4>1, IdAssumption DEF Good
    <3> QED
      BY <1>6, <3>1, <3>2, PacketChecked, Zenon
  <2>5. \E f : /\ f.hdr.dst = dst /\ f.dst = t[hop].hw /\ Checked(f)
               /\ s = Result(t, r.ctx.id + 1, r.out \union {f}, r.ok)
    BY <1>4, <2>1, <2>3, <2>4
  <2> QED
    BY <1>2, <1>11, <2>2, <2>5 DEF t, hop, Reaches
<1> QED
  BY <1>9, <1>10, <1>11

(* So it turns a good result into a good one. *)
LEMMA OutputGood ==
  ASSUME NEW r, Good(r), NEW protocol, NEW data, NEW len, NEW src, NEW dst,
         Sendable(protocol, data, len, dst)
  PROVE  Good(Output(r, protocol, data, len, src, dst))
<1> DEFINE s == Output(r, protocol, data, len, src, dst)
           hop == NextHop(dst)
           t == r.ctx.arp
<1>1. /\ TableFine(t) /\ r.ctx.id \in FirstId..IdMax /\ r.ok \in BOOLEAN
      /\ Sent(t, r.out)
  BY DEF Good
<1>2. r.ctx.id # IdMax => r.ctx.id + 1 \in FirstId..IdMax
  BY <1>1, IdAssumption
<1>3. CASE s = Failed(r)
  BY <1>3, FailedGood
<1>4. ASSUME r.ctx.id # IdMax, ~(hop \in DOMAIN t /\ t[hop].age = "fresh"),
             NEW f, f.type = "Arp",
             s = Result(Without(t, hop), r.ctx.id + 1, r.out \union {f}, r.ok)
      PROVE  Good(s)
  <2> HIDE DEF hop, t, s
  <2>1. /\ DOMAIN Without(t, hop) = DOMAIN t \ {hop}
        /\ \A ip \in DOMAIN t \ {hop} : Without(t, hop)[ip] = t[ip]
    BY DEF Without
  <2>2. TableFine(Without(t, hop))
    BY <1>1, <2>1 DEF TableFine, Without
  <2>3. ASSUME NEW g \in r.out, g.type = "IP"
        PROVE  /\ NextHop(g.hdr.dst) \in DOMAIN Without(t, hop)
               /\ Without(t, hop)[NextHop(g.hdr.dst)] =
                    [hw |-> g.dst, age |-> "fresh"]
               /\ Checked(g)
    <3>1. /\ NextHop(g.hdr.dst) \in DOMAIN t /\ Checked(g)
          /\ t[NextHop(g.hdr.dst)] = [hw |-> g.dst, age |-> "fresh"]
      BY <1>1, <2>3 DEF Sent
    <3>2. t[NextHop(g.hdr.dst)].age = "fresh"
      BY <3>1
    <3> QED
      BY <1>4, <2>1, <3>1, <3>2
  <2>4. Sent(Without(t, hop), r.out \union {f})
    BY <1>4, <2>3 DEF Sent
  <2> QED
    BY <1>1, <1>2, <1>4, <2>2, <2>4, GoodParts
<1>5. ASSUME r.ctx.id # IdMax, hop \in DOMAIN t, t[hop].age = "fresh",
             NEW f, f.hdr.dst = dst, f.dst = t[hop].hw, Checked(f),
             s = Result(t, r.ctx.id + 1, r.out \union {f}, r.ok)
      PROVE  Good(s)
  <2>1. t[hop] = [hw |-> f.dst, age |-> "fresh"]
    BY <1>1, <1>5 DEF TableFine, ArpEntry
  <2> HIDE DEF s, t
  <2>2. Sent(t, r.out \union {f})
    BY <1>1, <1>5, <2>1 DEF Sent
  <2> QED
    BY <1>1, <1>2, <1>5, <2>2, GoodParts
<1>6. s = Failed(r) \/ Asks(r, s, hop) \/ Reaches(r, s, dst)
  BY OutputCases
<1> HIDE DEF s, t, hop
<1>7. Asks(r, s, hop) => Good(s)
  BY <1>4 DEF Asks, t
<1>8. Reaches(r, s, dst) => Good(s)
  BY <1>5 DEF Reaches, t, hop
<1> QED
  BY <1>3, <1>6, <1>7, <1>8 DEF s

-----------------------------------------------------------------------------
(* The inductive invariant *)

ShapeOK ==
  /\ tap \in Seq(Frames)
  /\ pending \in [{"ETHERNET", "USR1"} -> 0..Slots]
  /\ queues = [protocol \in Protocols |-> queues[protocol]]
  /\ \A protocol \in Protocols : queues[protocol] \in Seq(Data(protocol))
  /\ main \in {"idle", "draining"}
  /\ kept \in BOOLEAN
  /\ phase \in {"running", "poisoned", "ended", "panic"}
  /\ arrived \in 0..MaxFrames

ContextsOK ==
  /\ contexts = [arp |-> contexts.arp, id |-> contexts.id]
  /\ TableFine(contexts.arp)
  /\ contexts.id \in FirstId..IdMax

(* An ARP message that update() will take from a queue or a frame has been  *)
(* said.                                                                    *)
MessageSaid(m) ==
  m.valid /\ m.targetIp = Ethernet.unicast => <<m.senderIp, m.senderHw>> \in said
Heard ==
  /\ \A i \in DOMAIN tap : Announces(tap[i]) => MessageSaid(tap[i].data)
  /\ \A i \in DOMAIN queues["Arp"] : MessageSaid(queues["Arp"][i])

WireOK == Sent(contexts.arp, wire)

IInv ==
  ShapeOK /\ ContextsOK /\ Heard /\ WireOK /\ NoPacketStranded /\ ReadFindsFrame

(* What the runs check follows. *)
LEMMA IInvImplies ==
  ASSUME IInv
  PROVE  NetTypeOK /\ ToAnnounced /\ SentVerifies
<1>1. NetTypeOK
  BY DEF IInv, ShapeOK, ContextsOK, TableFine, NetTypeOK
<1>2. ASSUME NEW f \in wire, f.type = "IP"
      PROVE  LET hop == NextHop(f.hdr.dst)
             IN  /\ <<hop, f.dst>> \in said
                 /\ contexts.arp[hop] = [hw |-> f.dst, age |-> "fresh"]
  <2> DEFINE hop == NextHop(f.hdr.dst)
  <2>1. /\ hop \in DOMAIN contexts.arp
        /\ contexts.arp[hop] = [hw |-> f.dst, age |-> "fresh"]
    BY <1>2 DEF IInv, WireOK, Sent
  <2> HIDE DEF hop
  <2>2. contexts.arp[hop].hw = f.dst
    BY <2>1
  <2>3. <<hop, f.dst>> \in said
    BY <2>1, <2>2 DEF IInv, ContextsOK, TableFine
  <2> QED
    BY <2>1, <2>3 DEF hop
<1>3. SentVerifies
  BY DEF IInv, WireOK, Sent, Checked, SentVerifies
<1> QED
  BY <1>1, <1>2, <1>3 DEF ToAnnounced

(* The program's start. *)
LEMMA InitOK ==
  ASSUME Init
  PROVE  IInv
<1>1. /\ tap = <<>> /\ queues = [protocol \in Protocols |-> <<>>]
      /\ pending = [ETHERNET |-> 0, USR1 |-> 0] /\ wire = {}
      /\ contexts = [arp |-> <<>>, id |-> FirstId]
      /\ main = "idle" /\ kept = FALSE /\ phase = "running" /\ arrived = 0
  BY DEF Init
<1>2. \A protocol \in Protocols : queues[protocol] = <<>>
  BY <1>1
<1>3. ShapeOK
  <2>1. pending \in [{"ETHERNET", "USR1"} -> 0..Slots]
    BY <1>1, SignalAssumption
  <2>2. arrived \in 0..MaxFrames
    BY <1>1, BoundAssumption
  <2> QED
    BY <1>1, <1>2, <2>1, <2>2, EmptySeq DEF ShapeOK
<1>4. ContextsOK
  <2> DEFINE t == contexts.arp
  <2>1. t = <<>> /\ contexts.id = FirstId /\ contexts = [arp |-> t, id |-> contexts.id]
    BY <1>1
  <2>2. DOMAIN t = {}
    BY <2>1
  <2>3. t \in [DOMAIN t -> ArpEntry]
    BY <2>1
  <2> HIDE DEF t
  <2>4. TableFine(t)
    BY <2>2, <2>3 DEF TableFine
  <2> QED
    BY <2>1, <2>4, IdAssumption DEF ContextsOK, t
<1>5. Heard
  <2>1. DOMAIN tap = {} /\ DOMAIN queues["Arp"] = {}
    BY <1>1, <1>2 DEF Protocols
  <2> QED
    BY <2>1 DEF Heard
<1>6. WireOK /\ NoPacketStranded
  BY <1>1, <1>2 DEF WireOK, Sent, NoPacketStranded
<1>7. ReadFindsFrame
  <2>1. pending.ETHERNET = 0 /\ Len(tap) = 0
    BY <1>1
  <2> QED
    BY <2>1 DEF ReadFindsFrame
<1> QED
  BY <1>3, <1>4, <1>5, <1>6, <1>7 DEF IInv

-----------------------------------------------------------------------------
(* The computations on the contexts *)

(* Each of them starts from the contexts as they are. *)
LEMMA BeginGood ==
  ASSUME ContextsOK
  PROVE  Begin = Result(contexts.arp, contexts.id, {}, TRUE) /\ Good(Begin)
<1>1. Begin = Result(contexts.arp, contexts.id, {}, TRUE)
  BY Zenon DEF Begin, Result, ContextsOK
<1>2. Sent(contexts.arp, {}) /\ TRUE \in BOOLEAN
  BY DEF Sent
<1>3. Good(Result(contexts.arp, contexts.id, {}, TRUE))
  BY <1>2, GoodParts DEF ContextsOK
<1> QED
  BY <1>1, <1>3

(* arp::input of a message that was said. *)
LEMMA ArpInputGood ==
  ASSUME ContextsOK, NEW m,
         m.valid => m.senderHw \in Hws \union {MyHw, HwBroadcast, HwZero},
         MessageSaid(m)
  PROVE  Good(ArpInput(m))
<1> DEFINE t == contexts.arp
           u == ArpUpdate(t, m.senderIp, m.senderHw)
           r == [Begin EXCEPT !.ctx.arp = ArpUpdate(@, m.senderIp, m.senderHw)]
           f == ArpReply(Ethernet, m.senderHw, m.senderIp)
           yes == TRUE
<1>1. Begin = Result(t, contexts.id, {}, yes) /\ Good(Begin) /\ Good(Failed(Begin))
  BY BeginGood, FailedGood
<1> HIDE DEF yes
<1>2. r = Result(u, contexts.id, {}, yes)
  <2>1. Begin.ctx.arp = t
    BY <1>1, ResultFields
  <2>2. r = [Begin EXCEPT !.ctx.arp = u]
    BY <2>1
  <2> HIDE DEF u
  <2> QED
    BY <1>1, <2>2, TableResult
<1>3. f.type = "Arp"
  BY DEF ArpReply, ArpFrame
<1>4. ArpInput(m) = IF ~m.valid THEN Failed(Begin)
                    ELSE IF m.targetIp # Ethernet.unicast THEN Begin
                    ELSE IF m.op = "request" THEN Transmit(r, f)
                    ELSE r
  BY DEF ArpInput
<1> HIDE DEF r, f
<1>5. CASE m.valid /\ m.targetIp = Ethernet.unicast
  <2>1. TableFine(u)
    <3> DEFINE e == [hw |-> m.senderHw, age |-> "fresh"]
    <3>1. e \in ArpEntry /\ e.hw = m.senderHw
      BY <1>5 DEF ArpEntry, Ages
    <3>2. /\ DOMAIN u = DOMAIN t \union {m.senderIp}
          /\ \A ip \in DOMAIN u : u[ip] = IF ip = m.senderIp THEN e ELSE t[ip]
          /\ u = [ip \in DOMAIN u |-> u[ip]]
      BY DEF ArpUpdate
    <3>3. <<m.senderIp, m.senderHw>> \in said
      BY <1>5 DEF MessageSaid
    <3>4. TableFine(t)
      BY DEF ContextsOK
    <3> HIDE DEF u, t, e
    <3>5. \A ip \in DOMAIN u : u[ip] \in ArpEntry /\ <<ip, u[ip].hw>> \in said
      BY <3>1, <3>2, <3>3, <3>4 DEF TableFine
    <3> QED
      BY <3>2, <3>5 DEF TableFine
  <2> HIDE DEF u
  <2>2. Sent(u, {}) /\ Sent(u, {} \union {f}) /\ yes \in BOOLEAN
    BY <1>3 DEF Sent, yes
  <2>3. contexts.id \in FirstId..IdMax
    BY DEF ContextsOK
  <2>4. Transmit(r, f) = Result(u, contexts.id, {} \union {f}, yes)
    BY <1>2, TransmitResult
  <2>5. Good(r) /\ Good(Transmit(r, f))
    <3>1. Good(Result(u, contexts.id, {}, yes))
      BY <2>1, <2>2, <2>3, GoodParts
    <3>2. Good(Result(u, contexts.id, {} \union {f}, yes))
      BY <2>1, <2>2, <2>3, GoodParts
    <3> QED
      BY <1>2, <2>4, <3>1, <3>2
  <2> QED
    BY <1>1, <1>4, <2>5
<1>6. CASE ~(m.valid /\ m.targetIp = Ethernet.unicast)
  BY <1>1, <1>4, <1>6
<1> QED
  BY <1>5, <1>6

(* What the device gives to ip::input: a header of any content, and bytes. *)
PacketFine(packet) ==
  /\ packet.hdr \in Header
  /\ packet.data \in Seq(Byte) /\ packet.pad \in Nat

(* A header of any content is a sequence of bytes. *)
LEMMA HeaderType ==
  ASSUME NEW h \in Header
  PROVE  HeaderBytes(h) \in Seq(Byte) /\ HeaderLen(h) \in Nat
<1>0. \A v \in Word : U16(v)
  BY SMT DEF Word, U16
<1>1. HeaderFields(h) /\ U16(h.check_sum)
  BY <1>0 DEF Header, HeaderFields
<1>2. Front(h) \in Seq(Byte) /\ Mem(h.check_sum) \in Seq(Byte)
  BY <1>1, FrontType, InMemory
<1>3. /\ h.src \o h.dst \in Seq(Byte)
      /\ HeaderBytes(h) = (Front(h) \o Mem(h.check_sum)) \o (h.src \o h.dst)
  BY <1>1, HeaderIs
<1>4. Front(h) \o Mem(h.check_sum) \in Seq(Byte)
  BY <1>2, Joined, Zenon
<1>5. HeaderBytes(h) \in Seq(Byte)
  BY <1>3, <1>4, Joined, Zenon
<1>6. h.ver_len \in Nat
  <2>1. h.ver_len \in Byte
    BY DEF Header
  <2> QED
    BY <2>1 DEF Byte
<1> QED
  BY <1>5, <1>6 DEF HeaderLen

(* The message that icmp::input sees: what follows the announced length of  *)
(* the header, the padding included.                                        *)
LEMMA GivenBytes ==
  ASSUME NEW packet, PacketFine(packet)
  PROVE  Given(packet) \in Seq(Byte) /\ Len(Given(packet)) \in Nat
<1> DEFINE pad == packet.pad
           zeros == [i \in 1..pad |-> 0]
           front == HeaderBytes(packet.hdr)
           whole == (front \o packet.data) \o zeros
           n == HeaderLen(packet.hdr)
<1>1. pad \in Nat /\ packet.data \in Seq(Byte) /\ 0 \in Byte
  BY DEF PacketFine, Byte
<1>2. front \in Seq(Byte) /\ n \in Nat
  BY HeaderType DEF PacketFine
<1>3. Given(packet) = SubSeq(whole, n + 1, Len(whole))
  BY DEF Given
<1> HIDE DEF pad, front, n
<1>4. zeros \in Seq(Byte)
  BY <1>1
<1> HIDE DEF zeros
<1>5. front \o packet.data \in Seq(Byte)
  BY <1>1, <1>2, Joined, Zenon
<1>6. whole \in Seq(Byte)
  BY <1>4, <1>5, Joined, Zenon
<1> HIDE DEF whole
<1>7. SubSeq(whole, n + 1, Len(whole)) \in Seq(Byte)
  BY <1>2, <1>6
<1>8. Given(packet) \in Seq(Byte)
  BY <1>3, <1>7
<1> QED
  BY <1>8, Bytes

(* ip::input, whatever packet it is given. *)
LEMMA IpInputGood ==
  ASSUME ContextsOK, NEW packet, ~packet.short => PacketFine(packet),
         NEW r \in IpInput(packet)
  PROVE  Good(r)
<1>1. Good(Begin) /\ Good(Failed(Begin))
  BY BeginGood, FailedGood
<1>2. ASSUME PacketFine(packet)
      PROVE  Good(IcmpInput(packet))
  <2> DEFINE msg == Given(packet)
             s == Output(Begin, IcmpProto, EchoReply(msg), Len(msg),
                         packet.hdr.dst, packet.hdr.src)
  <2>1. ~(Len(msg) < 8) => Good(s)
    <3>1. msg \in Seq(Byte) /\ Len(msg) \in Nat /\ packet.hdr.src \in Address
      BY <1>2, GivenBytes DEF PacketFine, Header
    <3> HIDE DEF msg
    <3>2. ~(Len(msg) < 8) =>
            Sendable(IcmpProto, EchoReply(msg), Len(msg), packet.hdr.src)
      BY <3>1, EchoVerifies DEF Sendable
    <3> QED
      BY <1>1, <3>2, OutputGood
  <2>2. IcmpInput(packet) = IF cksum16(msg) # 0 THEN Failed(Begin)
                            ELSE IF msg[1] # EchoType THEN Begin
                            ELSE IF Len(msg) < 8 THEN Failed(Begin)
                            ELSE s
    BY DEF IcmpInput
  <2> HIDE DEF msg, s
  <2> QED
    BY <1>1, <2>1, <2>2
<1>3. ASSUME PacketFine(packet)
      PROVE  \A x \in UpperInput(packet) : Good(x)
  <2> DEFINE Reply(x) == Output(x, TcpProto, <<>>, 20, packet.hdr.dst,
                                packet.hdr.src)
             once == {Reply(Begin)}
             twice == {Reply(x) : x \in once}
  <2>1. \A x : Good(x) => Good(Reply(x))
    <3>1. Sendable(TcpProto, <<>>, 20, packet.hdr.src)
      BY <1>3 DEF Sendable, PacketFine, Header, TcpProto, IcmpProto
    <3> QED
      BY <3>1, OutputGood
  <2>2. UpperInput(packet) \subseteq {Begin, Failed(Begin)} \union once \union twice
    BY DEF UpperInput
  <2> HIDE DEF Reply
  <2> QED
    BY <1>1, <2>1, <2>2
<1>4. \/ r \in {Failed(Begin), Begin}
      \/ ~packet.short /\ r \in {IcmpInput(packet)} \union UpperInput(packet)
  <2> DEFINE len == HeaderSize + Len(packet.data) + packet.pad
             bad == \/ ~CheckIpHeader(packet.hdr, len)
                    \/ packet.hdr.dst # Ethernet.unicast
  <2>1. IpInput(packet) =
          CASE packet.short -> {Failed(Begin)}
            [] ~packet.short /\ bad -> {Failed(Begin)}
            [] OTHER ->
                 CASE packet.hdr.protocol = IcmpProto -> {IcmpInput(packet)}
                   [] packet.hdr.protocol \in {TcpProto, UdpProto} -> UpperInput(packet)
                   [] OTHER -> {Begin}
    BY DEF IpInput
  <2> HIDE DEF bad
  <2> QED
    BY <2>1
<1> QED
  BY <1>1, <1>2, <1>3, <1>4

(* The effect of a good result. *)
LEMMA ApplyOK ==
  ASSUME NEW r, Good(r), NEW failure, Apply(r, failure), UNCHANGED said
  PROVE  ContextsOK' /\ WireOK' /\ phase' \in {phase, failure}
<1>1. contexts' = r.ctx /\ wire' = r.out /\ phase' \in {phase, failure}
  BY DEF Apply
<1>2. r = Result(r.ctx.arp, r.ctx.id, r.out, r.ok)
  BY DEF Good
<1> DEFINE t == r.ctx.arp
           n == r.ctx.id
<1>3. contexts' = [arp |-> t, id |-> n]
  <2>1. \A x, y, o, b : Result(x, y, o, b).ctx = [arp |-> x, id |-> y]
    BY DEF Result
  <2> QED
    BY <1>1, <1>2, <2>1
<1>4. TableFine(t) /\ n \in FirstId..IdMax /\ Sent(t, r.out)
  BY DEF Good
<1> HIDE DEF t, n
<1>5. contexts'.arp = t /\ contexts'.id = n
  BY <1>3
<1>6. ContextsOK'
  BY <1>3, <1>4, <1>5 DEF ContextsOK, TableFine
<1>7. WireOK'
  BY <1>1, <1>4, <1>5 DEF WireOK, Sent
<1> QED
  BY <1>1, <1>6, <1>7

-----------------------------------------------------------------------------
(* Signals and queues *)

(* min of two numbers. *)
LEMMA MinOfTwo ==
  ASSUME NEW a \in Nat, NEW b \in Nat
  PROVE  LET x == Min({a, b}) IN x \in {a, b} /\ x <= a /\ x <= b
<1>1. \E x \in {a, b} : \A y \in {a, b} : x <= y
  <2>1. CASE a <= b
    BY <2>1
  <2>2. CASE b <= a
    BY <2>2
  <2> QED
    BY <2>1, <2>2
<1> DEFINE x == CHOOSE z \in {a, b} : \A y \in {a, b} : z <= y
<1>2. x \in {a, b} /\ \A y \in {a, b} : x <= y
  BY <1>1, Zenon
<1>3. Min({a, b}) = x
  BY DEF Min
<1> QED
  BY <1>2, <1>3

Signals == [{"ETHERNET", "USR1"} -> 0..Slots]

(* After a signal was raised there is one, and at most one more. *)
LEMMA RaisedOK ==
  ASSUME NEW g \in Signals, NEW kind \in {"ETHERNET", "USR1"}
  PROVE  /\ Raised(g, kind) \in Signals
         /\ Raised(g, kind)[kind] >= 1 /\ Raised(g, kind)[kind] <= g[kind] + 1
         /\ \A k \in {"ETHERNET", "USR1"} \ {kind} : Raised(g, kind)[k] = g[k]
<1> DEFINE x == Min({g[kind] + 1, Slots})
<1>1. g[kind] \in 0..Slots /\ g[kind] + 1 \in Nat /\ Slots \in Nat /\ Slots >= 1
  BY SignalAssumption DEF Signals
<1>2. x \in {g[kind] + 1, Slots} /\ x <= g[kind] + 1 /\ x <= Slots
  BY <1>1, MinOfTwo
<1> HIDE DEF x
<1>3. x \in 0..Slots /\ x >= 1 /\ x <= g[kind] + 1
  BY <1>1, <1>2
<1>4. Raised(g, kind) = [g EXCEPT ![kind] = x]
  BY DEF Raised, x
<1> QED
  BY <1>3, <1>4 DEF Signals

(* A signal is taken. *)
LEMMA TookOK ==
  ASSUME NEW g \in Signals, NEW kind \in {"ETHERNET", "USR1"}, g[kind] > 0
  PROVE  /\ Took(g, kind) \in Signals
         /\ Took(g, kind)[kind] = g[kind] - 1
         /\ \A k \in {"ETHERNET", "USR1"} \ {kind} : Took(g, kind)[k] = g[k]
<1>1. g[kind] \in 0..Slots /\ Slots \in Nat
  BY SignalAssumption DEF Signals
<1>2. g[kind] - 1 \in 0..Slots
  BY <1>1
<1> QED
  BY <1>1, <1>2 DEF Signals, Took

(* Contexts that stay as they are. *)
LEMMA ContextsStay ==
  ASSUME ContextsOK, UNCHANGED contexts, said \subseteq said'
  PROVE  ContextsOK'
BY DEF ContextsOK, TableFine

(* Nothing is sent. *)
LEMMA NothingSent ==
  ASSUME wire' = {}
  PROVE  WireOK'
BY DEF WireOK, Sent

(* Nothing is read or handled. *)
LEMMA HeardStays ==
  ASSUME Heard, UNCHANGED <<tap, queues, said>>
  PROVE  Heard'
BY DEF Heard, MessageSaid

(* The head and the rest of a sequence. *)
LEMMA TailElements ==
  ASSUME NEW S, NEW q \in Seq(S), q # <<>>
  PROVE  /\ Head(q) \in S /\ Tail(q) \in Seq(S) /\ Head(q) = q[1]
         /\ Len(Tail(q)) = Len(q) - 1 /\ Len(q) \in Nat /\ Len(q) >= 1
         /\ 1 \in DOMAIN q
         /\ \A i \in DOMAIN Tail(q) : i + 1 \in DOMAIN q /\ Tail(q)[i] = q[i + 1]
<1>1. Len(q) \in Nat /\ DOMAIN q = 1..Len(q)
  BY LenProperties
<1>2. Len(q) >= 1
  BY <1>1, EmptySeq
<1>3. /\ Head(q) \in S /\ Tail(q) \in Seq(S) /\ Head(q) = q[1]
      /\ Len(Tail(q)) = Len(q) - 1
      /\ \A i \in 1..Len(Tail(q)) : Tail(q)[i] = q[i + 1]
  BY HeadTailProperties
<1>4. DOMAIN Tail(q) = 1..(Len(q) - 1)
  BY <1>3, LenProperties
<1>5. \A i \in 1..(Len(q) - 1) : i + 1 \in 1..Len(q)
  BY <1>1
<1> QED
  BY <1>1, <1>2, <1>3, <1>4, <1>5

(* An element more. *)
LEMMA AppendElements ==
  ASSUME NEW S, NEW q \in Seq(S), NEW x \in S
  PROVE  /\ Append(q, x) \in Seq(S) /\ Len(Append(q, x)) = Len(q) + 1
         /\ Len(q) \in Nat
         /\ \A i \in DOMAIN Append(q, x) :
              \/ i \in DOMAIN q /\ Append(q, x)[i] = q[i]
              \/ Append(q, x)[i] = x
<1>1. Len(q) \in Nat /\ DOMAIN q = 1..Len(q)
  BY LenProperties
<1>2. /\ Append(q, x) \in Seq(S) /\ Len(Append(q, x)) = Len(q) + 1
      /\ DOMAIN Append(q, x) = 1..(Len(q) + 1)
      /\ \A i \in 1..Len(q) : Append(q, x)[i] = q[i]
      /\ Append(q, x)[Len(q) + 1] = x
  BY <1>1, AppendProperties, LenProperties
<1> DEFINE r == Append(q, x)
           n == Len(q)
<1>3. \A i \in 1..(n + 1) : i \in 1..n \/ i = n + 1
  BY <1>1
<1> QED
  BY <1>1, <1>2, <1>3

-----------------------------------------------------------------------------
(* Steps *)

(* A frame arrives, with a signal. *)
LEMMA FrameArrivesOK ==
  ASSUME IInv, NEW frame \in Frames, FrameArrives(frame)
  PROVE  IInv'
<1>1. /\ tap \in Seq(Frames) /\ tap' = Append(tap, frame)
      /\ pending \in Signals /\ pending' = Raised(pending, "ETHERNET")
      /\ UNCHANGED <<queues, contexts, main, kept, phase>> /\ wire' = {}
      /\ arrived \in 0..MaxFrames /\ arrived' = arrived + 1 /\ arrived < MaxFrames
  BY DEF IInv, ShapeOK, Signals, FrameArrives
<1>2. said \subseteq said'
  BY DEF FrameArrives
<1>3. /\ tap' \in Seq(Frames) /\ Len(tap') = Len(tap) + 1 /\ Len(tap) \in Nat
      /\ \A i \in DOMAIN tap' : \/ i \in DOMAIN tap /\ tap'[i] = tap[i]
                                \/ tap'[i] = frame
  BY <1>1, AppendElements
<1>4. /\ pending' \in Signals /\ pending'.USR1 = pending.USR1
      /\ pending'.ETHERNET <= pending.ETHERNET + 1
  BY <1>1, RaisedOK
<1>5. ShapeOK'
  <2>1. arrived' \in 0..MaxFrames
    BY <1>1, BoundAssumption
  <2> QED
    BY <1>1, <1>3, <1>4, <2>1 DEF IInv, ShapeOK, Signals
<1>6. Heard'
  <2>1. Announces(frame) => <<frame.data.senderIp, frame.data.senderHw>> \in said'
    BY DEF FrameArrives
  <2>2. \A i \in DOMAIN tap : Announces(tap[i]) => MessageSaid(tap[i].data)
    BY DEF IInv, Heard
  <2> QED
    BY <1>1, <1>2, <1>3, <2>1, <2>2 DEF IInv, Heard, MessageSaid
<1>7. ContextsOK' /\ WireOK'
  BY <1>1, <1>2, ContextsStay, NothingSent DEF IInv
<1>8. NoPacketStranded'
  BY <1>1, <1>4 DEF IInv, NoPacketStranded
<1>9. ReadFindsFrame'
  <2>1. pending.ETHERNET \in Int /\ pending'.ETHERNET \in Int
    BY <1>1, <1>4, SignalAssumption DEF Signals
  <2> QED
    BY <1>1, <1>3, <1>4, <2>1 DEF IInv, ReadFindsFrame
<1> QED
  BY <1>5, <1>6, <1>7, <1>8, <1>9 DEF IInv

(* handle_irq: the frame goes from the device to the queue of its type. *)
LEMMA HandleIrqOK ==
  ASSUME IInv, HandleIrq
  PROVE  IInv'
<1> DEFINE frame == Head(tap)
           rest == Took(pending, "ETHERNET")
           isData == ReadData(frame) = "data"
<1>1. /\ tap \in Seq(Frames) /\ tap # <<>> /\ tap' = Tail(tap)
      /\ pending \in Signals /\ pending.ETHERNET > 0
      /\ phase = "running" /\ main = "idle" /\ main' = main
      /\ UNCHANGED <<contexts, kept, arrived, said>> /\ wire' = {}
  BY DEF IInv, ShapeOK, Signals, HandleIrq, AfterReading
<1>2. /\ frame \in Frames /\ tap' \in Seq(Frames) /\ frame = tap[1] /\ 1 \in DOMAIN tap
      /\ Len(tap') = Len(tap) - 1 /\ Len(tap) \in Nat
      /\ \A i \in DOMAIN tap' : i + 1 \in DOMAIN tap /\ tap'[i] = tap[i + 1]
  BY <1>1, TailElements
<1>3. /\ queues' = [protocol \in Protocols |->
                      IF isData /\ QueueOf(protocol, frame)
                      THEN PushBack(queues[protocol], frame.data)
                      ELSE queues[protocol]]
      /\ pending' = IF isData THEN Raised(rest, "USR1") ELSE rest
      /\ phase' \in {phase, "panic"}
  BY DEF HandleIrq
<1>4. isData => ForUs(frame)
  BY DEF ReadData
<1>5. /\ rest \in Signals /\ rest.ETHERNET = pending.ETHERNET - 1
      /\ rest.USR1 = pending.USR1
  BY <1>1, TookOK
<1>6. /\ Raised(rest, "USR1") \in Signals
      /\ Raised(rest, "USR1").USR1 >= 1
      /\ Raised(rest, "USR1").ETHERNET = rest.ETHERNET
  BY <1>5, RaisedOK
<1> HIDE DEF frame, rest, isData
<1>7. /\ pending' \in Signals /\ pending'.ETHERNET = pending.ETHERNET - 1
      /\ isData => pending'.USR1 >= 1
      /\ ~isData => pending'.USR1 = pending.USR1
  BY <1>3, <1>5, <1>6
<1>8. ASSUME NEW protocol \in Protocols
      PROVE  \/ queues'[protocol] = queues[protocol]
             \/ /\ isData /\ frame.type = protocol
                /\ queues'[protocol] = Append(queues[protocol], frame.data)
  BY <1>3 DEF QueueOf, PushBack
<1>9. ShapeOK'
  <2>1. ASSUME NEW protocol \in Protocols
        PROVE  queues'[protocol] \in Seq(Data(protocol))
    <3>1. queues[protocol] \in Seq(Data(protocol))
      BY DEF IInv, ShapeOK
    <3>2. frame.type = protocol => frame.data \in Data(protocol)
      BY <1>2 DEF Data
    <3>3. CASE frame.type = protocol
      <4>1. Append(queues[protocol], frame.data) \in Seq(Data(protocol))
        BY <3>1, <3>2, <3>3, AppendElements
      <4> QED
        BY <1>8, <3>1, <4>1
    <3>4. CASE frame.type # protocol
      BY <1>8, <3>1, <3>4
    <3> QED
      BY <3>3, <3>4
  <2>2. queues' = [protocol \in Protocols |-> queues'[protocol]]
    BY <1>3
  <2> QED
    BY <1>1, <1>2, <1>3, <1>7, <2>1, <2>2 DEF IInv, ShapeOK, Signals
<1>10. Heard'
  <2>1. \A i \in DOMAIN tap' : Announces(tap'[i]) => MessageSaid(tap'[i].data)
    BY <1>2 DEF IInv, Heard
  <2>2. \A i \in DOMAIN queues'["Arp"] : MessageSaid(queues'["Arp"][i])
    <3>1. /\ "Arp" \in Protocols /\ queues["Arp"] \in Seq(Data("Arp"))
          /\ \A i \in DOMAIN queues["Arp"] : MessageSaid(queues["Arp"][i])
      BY DEF IInv, ShapeOK, Heard, Protocols
    <3>2. CASE queues'["Arp"] = queues["Arp"]
      BY <3>1, <3>2
    <3>3. CASE /\ isData /\ frame.type = "Arp"
               /\ queues'["Arp"] = Append(queues["Arp"], frame.data)
      <4>1. frame.data \in Data("Arp")
        BY <1>2, <3>3 DEF Data
      <4>2. \A i \in DOMAIN queues'["Arp"] :
              \/ i \in DOMAIN queues["Arp"] /\ queues'["Arp"][i] = queues["Arp"][i]
              \/ queues'["Arp"][i] = frame.data
        BY <3>1, <3>3, <4>1, AppendElements
      <4>3. MessageSaid(frame.data)
        <5>1. CASE Announces(frame)
          BY <1>2, <5>1 DEF IInv, Heard
        <5>2. CASE ~Announces(frame)
          BY <1>4, <3>3, <5>2 DEF Announces, MessageSaid
        <5> QED
          BY <5>1, <5>2
      <4> QED
        BY <3>1, <4>2, <4>3
    <3> QED
      BY <1>8, <3>1, <3>2, <3>3
  <2> QED
    BY <1>1, <2>1, <2>2 DEF Heard, MessageSaid
<1>11. ContextsOK' /\ WireOK'
  BY <1>1, ContextsStay, NothingSent DEF IInv
<1>12. NoPacketStranded'
  <2>1. CASE isData
    BY <1>7, <2>1, SignalAssumption DEF NoPacketStranded, Signals
  <2>2. CASE ~isData
    <3>1. \A protocol \in Protocols : queues'[protocol] = queues[protocol]
      BY <1>8, <2>2
    <3> QED
      BY <1>1, <1>7, <2>2, <3>1 DEF IInv, NoPacketStranded
  <2> QED
    BY <2>1, <2>2
<1>13. ReadFindsFrame'
  <2>1. pending.ETHERNET \in Int
    BY <1>1, SignalAssumption DEF Signals
  <2> QED
    BY <1>1, <1>2, <1>7, <2>1 DEF IInv, ReadFindsFrame
<1> QED
  BY <1>9, <1>10, <1>11, <1>12, <1>13 DEF IInv

(* SIGUSR1: the draining begins, and ends with empty queues. *)
LEMMA DrainingOK ==
  ASSUME IInv, HandleProtocol \/ Drained
  PROVE  IInv'
<1>1. /\ UNCHANGED <<tap, queues, contexts, kept, phase, arrived, said>>
      /\ wire' = {}
      /\ main' \in {"idle", "draining"} /\ pending \in Signals
  BY DEF IInv, ShapeOK, Signals, HandleProtocol, Drained
<1>2. pending' \in Signals /\ pending'.ETHERNET = pending.ETHERNET
  <2>1. CASE HandleProtocol
    <3>1. pending' = Took(pending, "USR1") /\ pending["USR1"] > 0
      BY <2>1 DEF HandleProtocol
    <3> QED
      BY <1>1, <3>1, TookOK
  <2>2. CASE Drained
    BY <1>1, <2>2 DEF Drained
  <2> QED
    BY <2>1, <2>2
<1>3. ShapeOK'
  BY <1>1, <1>2 DEF IInv, ShapeOK, Signals
<1>4. ContextsOK' /\ WireOK' /\ Heard'
  BY <1>1, ContextsStay, NothingSent, HeardStays DEF IInv
<1>5. NoPacketStranded'
  BY <1>1 DEF HandleProtocol, Drained, AllDrained, NoPacketStranded
<1>6. ReadFindsFrame'
  BY <1>1, <1>2 DEF IInv, ReadFindsFrame
<1> QED
  BY <1>3, <1>4, <1>5, <1>6 DEF IInv

(* A packet is taken from its queue and handled. *)
LEMMA HandleInputOK ==
  ASSUME IInv, NEW protocol \in Protocols, HandleInput(protocol)
  PROVE  IInv'
<1> DEFINE q == queues[protocol]
<1>1. /\ q \in Seq(Data(protocol)) /\ q # <<>> /\ ContextsOK
      /\ queues' = [queues EXCEPT ![protocol] = Tail(q)]
      /\ UNCHANGED <<tap, pending, main, kept, arrived, said>>
      /\ phase = "running" /\ main = "draining"
  BY DEF IInv, ShapeOK, HandleInput, Turn
<1>2. PICK r \in Input(protocol, Head(q)) : Apply(r, "panic")
  BY DEF HandleInput
<1>3. /\ Head(q) \in Data(protocol) /\ Tail(q) \in Seq(Data(protocol))
      /\ Head(q) = q[1] /\ 1 \in DOMAIN q
      /\ \A i \in DOMAIN Tail(q) : i + 1 \in DOMAIN q /\ Tail(q)[i] = q[i + 1]
  BY <1>1, TailElements
<1>4. Good(r)
  <2>1. CASE protocol = "Arp"
    <3> DEFINE m == Head(q)
    <3>1. r = ArpInput(m)
      BY <1>2, <2>1 DEF Input
    <3>2. MessageSaid(m)
      BY <1>3, <2>1 DEF IInv, Heard
    <3>3. m.valid => m.senderHw \in Hws \union {MyHw, HwBroadcast, HwZero}
      BY <1>3, <2>1, FrameAssumption DEF Data
    <3> HIDE DEF m
    <3> QED
      BY <1>1, <3>1, <3>2, <3>3, ArpInputGood
  <2>2. CASE protocol # "Arp"
    <3>1. r \in IpInput(Head(q))
      BY <1>2, <2>2 DEF Input
    <3>2. ~Head(q).short => PacketFine(Head(q))
      BY <1>3, <2>2, PacketAssumption DEF Data, PacketFine, Protocols
    <3> QED
      BY <1>1, <3>1, <3>2, IpInputGood
  <2> QED
    BY <2>1, <2>2
<1>5. ContextsOK' /\ WireOK' /\ phase' \in {phase, "panic"}
  BY <1>1, <1>2, <1>4, ApplyOK
<1>6. /\ queues' = [p \in Protocols |-> queues'[p]]
      /\ queues'[protocol] = Tail(q)
      /\ \A p \in Protocols \ {protocol} : queues'[p] = queues[p]
  BY <1>1 DEF IInv, ShapeOK
<1> HIDE DEF q
<1>7. ShapeOK'
  <2>1. \A p \in Protocols : queues'[p] \in Seq(Data(p))
    BY <1>3, <1>6 DEF IInv, ShapeOK
  <2> QED
    BY <1>1, <1>5, <1>6, <2>1 DEF IInv, ShapeOK
<1>8. Heard'
  <2>1. \A i \in DOMAIN queues'["Arp"] : MessageSaid(queues'["Arp"][i])
    <3>1. CASE protocol = "Arp"
      BY <1>3, <1>6, <3>1 DEF IInv, Heard, q
    <3>2. CASE protocol # "Arp"
      BY <1>6, <3>2 DEF IInv, Heard, Protocols
    <3> QED
      BY <3>1, <3>2
  <2> QED
    BY <1>1, <2>1 DEF IInv, Heard, MessageSaid
<1>9. NoPacketStranded' /\ ReadFindsFrame'
  BY <1>1 DEF IInv, NoPacketStranded, ReadFindsFrame
<1> QED
  BY <1>5, <1>7, <1>8, <1>9 DEF IInv

(* A packet of another thread. *)
LEMMA SendsOK ==
  ASSUME IInv, NEW s \in Sendings, Sends(s)
  PROVE  IInv'
<1>1. PICK src : Apply(Output(Begin, s.protocol, <<>>, s.len, src, s.dst), "poisoned")
  BY DEF Sends
<1>2. /\ UNCHANGED <<tap, pending, queues, main, kept, arrived, said>>
      /\ phase = "running" /\ ContextsOK
  BY DEF IInv, Sends
<1>3. Good(Output(Begin, s.protocol, <<>>, s.len, src, s.dst))
  <2>1. Sendable(s.protocol, <<>>, s.len, s.dst)
    BY SendingAssumption DEF Sendable, IcmpProto, TcpProto, UdpProto
  <2> QED
    BY <1>2, <2>1, BeginGood, OutputGood
<1>4. ContextsOK' /\ WireOK' /\ phase' \in {phase, "poisoned"}
  BY <1>1, <1>2, <1>3, ApplyOK
<1>5. ShapeOK' /\ Heard'
  BY <1>2, <1>4, HeardStays DEF IInv, ShapeOK
<1>6. NoPacketStranded' /\ ReadFindsFrame'
  BY <1>2, <1>4 DEF IInv, NoPacketStranded, ReadFindsFrame
<1> QED
  BY <1>4, <1>5, <1>6 DEF IInv

(* The clock: only the age of entries changes. *)
LEMMA ClockOK ==
  ASSUME IInv, NEW age \in Ages, Clock(age)
  PROVE  IInv'
<1> DEFINE t == contexts.arp
           u == [ip \in DOMAIN t |-> [t[ip] EXCEPT !.age = age]]
<1>1. /\ UNCHANGED <<tap, pending, queues, main, kept, phase, arrived, said>>
      /\ wire' = {} /\ contexts' = [contexts EXCEPT !.arp = u]
  BY DEF Clock
<1>2. /\ contexts = [arp |-> t, id |-> contexts.id] /\ TableFine(t)
      /\ contexts.id \in FirstId..IdMax
  BY DEF IInv, ContextsOK
<1>3. /\ DOMAIN u = DOMAIN t /\ u = [ip \in DOMAIN t |-> u[ip]]
      /\ \A ip \in DOMAIN t : u[ip] \in ArpEntry /\ u[ip].hw = t[ip].hw
  BY <1>2 DEF TableFine, ArpEntry
<1> HIDE DEF u
<1>4. contexts'.arp = u /\ contexts'.id = contexts.id
      /\ contexts' = [arp |-> u, id |-> contexts.id]
  BY <1>1, <1>2
<1>5. TableFine(u)
  BY <1>2, <1>3 DEF TableFine
<1>6. ContextsOK'
  BY <1>1, <1>2, <1>4, <1>5 DEF ContextsOK, TableFine
<1>7. ShapeOK' /\ Heard' /\ WireOK'
  BY <1>1, HeardStays, NothingSent DEF IInv, ShapeOK
<1>8. NoPacketStranded' /\ ReadFindsFrame'
  BY <1>1 DEF IInv, NoPacketStranded, ReadFindsFrame
<1> QED
  BY <1>6, <1>7, <1>8 DEF IInv

(* The process ends, a thread keeps a mutex or gives it back, or nothing    *)
(* happens.                                                                 *)
LEMMA EndingOK ==
  ASSUME IInv,
         Term \/ PoisonFound \/ MutexKept \/ MutexGivenBack \/ UNCHANGED vars
  PROVE  IInv'
<1>1. /\ UNCHANGED <<tap, pending, queues, contexts, main, arrived, said>>
      /\ wire' \in {wire, {}} /\ kept' \in {kept, TRUE, FALSE}
      /\ phase' \in {phase, "ended", "panic"}
  BY DEF Term, PoisonFound, MutexKept, MutexGivenBack, vars
<1>2. ShapeOK' /\ Heard' /\ ContextsOK'
  BY <1>1, HeardStays, ContextsStay DEF IInv, ShapeOK
<1>3. WireOK'
  <2>1. CASE wire' = wire
    BY <1>1, <2>1 DEF IInv, WireOK, Sent
  <2> QED
    BY <1>1, <2>1, NothingSent
<1>4. NoPacketStranded' /\ ReadFindsFrame'
  BY <1>1 DEF IInv, NoPacketStranded, ReadFindsFrame
<1> QED
  BY <1>2, <1>3, <1>4 DEF IInv

(* Every step. *)
LEMMA NextOK ==
  ASSUME IInv, [Next]_vars
  PROVE  IInv'
BY FrameArrivesOK, HandleIrqOK, DrainingOK, HandleInputOK, SendsOK, ClockOK,
   EndingOK DEF Next, Main

-----------------------------------------------------------------------------
(* What of the frames in the device will get into a queue *)

(* The protocol's frames for this station. *)
Takes(frame, protocol) == frame.type = protocol /\ ForUs(frame)

(* What a frame adds. *)
With(taken, frame, protocol) ==
  IF Takes(frame, protocol) THEN Append(taken, frame.data) ELSE taken

(* g[i] is what is accepted of the first i of the n frames. *)
IsTaken(g, frames, protocol, n) ==
  g = [i \in 0..n |->
         IF i = 0 THEN <<>> ELSE With(g[i - 1], frames[i], protocol)]

(* The recursion of Accepted has a solution. *)
LEMMA TakenExists ==
  ASSUME NEW frames, NEW protocol, NEW m \in Nat
  PROVE  \E g : IsTaken(g, frames, protocol, m)
<1> DEFINE S == {n \in Nat : \E g : IsTaken(g, frames, protocol, n)}
<1>1. 0 \in S
  <2>1. IsTaken([i \in 0..0 |-> <<>>], frames, protocol, 0)
    BY DEF IsTaken
  <2> QED
    BY <2>1
<1>2. ASSUME NEW n \in Nat, n \in S
      PROVE  n + 1 \in S
  <2>1. PICK g : IsTaken(g, frames, protocol, n)
    BY <1>2
  <2> DEFINE x == With(g[n], frames[n + 1], protocol)
             h == [i \in 0..(n + 1) |-> IF i = n + 1 THEN x ELSE g[i]]
  <2>2. \A i \in 0..(n + 1) :
          h[i] = IF i = 0 THEN <<>> ELSE With(h[i - 1], frames[i], protocol)
    BY <2>1 DEF IsTaken
  <2>3. IsTaken(h, frames, protocol, n + 1)
    BY <2>2 DEF IsTaken
  <2> QED
    BY <2>3
<1>3. Nat \subseteq S
  <2> HIDE DEF S
  <2> QED
    BY <1>1, <1>2, Induction
<1> QED
  BY <1>3

(* What the recursion says of the numbers it is for. *)
LEMMA TakenSteps ==
  ASSUME NEW g, NEW frames, NEW protocol, NEW n \in Nat, IsTaken(g, frames, protocol, n)
  PROVE  /\ g[0] = <<>>
         /\ \A i \in 0..(n - 1) : g[i + 1] = With(g[i], frames[i + 1], protocol)
BY DEF IsTaken

(* Accepted is that solution's last value. *)
LEMMA AcceptedIs ==
  ASSUME NEW frames, NEW protocol, Len(frames) \in Nat
  PROVE  \E g : /\ IsTaken(g, frames, protocol, Len(frames))
                /\ Accepted(frames, protocol) = g[Len(frames)]
<1> DEFINE g == CHOOSE g : g = [i \in 0..Len(frames) |->
         IF i = 0 THEN <<>>
         ELSE IF frames[i].type = protocol /\ ForUs(frames[i])
         THEN Append(g[i - 1], frames[i].data)
         ELSE g[i - 1]]
<1>1. Accepted(frames, protocol) = g[Len(frames)]
  BY DEF Accepted
<1>2. g = CHOOSE h : IsTaken(h, frames, protocol, Len(frames))
  BY DEF IsTaken, With, Takes
<1>3. \E h : IsTaken(h, frames, protocol, Len(frames))
  BY TakenExists
<1> HIDE DEF g
<1>4. IsTaken(g, frames, protocol, Len(frames))
  BY <1>2, <1>3
<1> QED
  BY <1>1, <1>4

(* Of no frame nothing is accepted. *)
LEMMA AcceptedNone ==
  ASSUME NEW protocol
  PROVE  Accepted(<<>>, protocol) = <<>>
<1>1. Len(<<>>) = 0
  OBVIOUS
<1>2. PICK g : IsTaken(g, <<>>, protocol, 0) /\ Accepted(<<>>, protocol) = g[0]
  BY <1>1, AcceptedIs
<1> QED
  BY <1>2, TakenSteps

(* What is accepted is data of the protocol's frames. *)
LEMMA TakenType ==
  ASSUME NEW frames \in Seq(Frames), NEW protocol, NEW n \in Nat, n <= Len(frames),
         NEW g, IsTaken(g, frames, protocol, n)
  PROVE  \A i \in 0..n : g[i] \in Seq(Data(protocol))
<1> DEFINE D == Data(protocol)
           S == {i \in 0..n : g[i] \in Seq(D)}
<1>0. \A i \in 0..(n - 1) : frames[i + 1] \in Frames
  <2>1. \A i \in 1..Len(frames) : frames[i] \in Frames
    BY ElementOfSeq
  <2> QED
    BY <2>1, LenProperties
<1>1. 0 \in S
  <2>1. g[0] = <<>> /\ <<>> \in Seq(D) /\ 0 \in 0..n
    BY TakenSteps, EmptySeq
  <2> QED
    BY <2>1
<1>2. ASSUME NEW i \in 0..(n - 1), i \in S
      PROVE  i + 1 \in S
  <2>1. /\ i + 1 \in 1..n /\ g[i] \in Seq(D)
        /\ g[i + 1] = With(g[i], frames[i + 1], protocol)
    BY <1>2, TakenSteps
  <2>2. Takes(frames[i + 1], protocol) => frames[i + 1].data \in D
    BY <1>0, <2>1 DEF Takes, Data
  <2> HIDE DEF D
  <2>3. g[i + 1] \in Seq(D)
    <3>1. CASE Takes(frames[i + 1], protocol)
      BY <2>1, <2>2, <3>1, AppendProperties DEF With
    <3>2. CASE ~Takes(frames[i + 1], protocol)
      BY <2>1, <3>2 DEF With
    <3> QED
      BY <3>1, <3>2
  <2> QED
    BY <2>1, <2>3
<1>3. 0..n \subseteq S
  <2> HIDE DEF S
  <2> QED
    BY <1>1, <1>2, InductionUpTo
<1> QED
  BY <1>3

(* So is all of it. *)
LEMMA AcceptedType ==
  ASSUME NEW frames \in Seq(Frames), NEW protocol
  PROVE  Accepted(frames, protocol) \in Seq(Data(protocol))
<1> DEFINE n == Len(frames)
<1>1. n \in Nat
  BY LenProperties
<1>2. PICK g : /\ IsTaken(g, frames, protocol, n)
               /\ Accepted(frames, protocol) = g[n]
  BY <1>1, AcceptedIs
<1>3. \A i \in 0..n : g[i] \in Seq(Data(protocol))
  BY <1>1, <1>2, TakenType
<1> QED
  BY <1>1, <1>2, <1>3

(* A frame more: its data comes last, if it is accepted. *)
LEMMA AcceptedMore ==
  ASSUME NEW frames \in Seq(Frames), NEW frame \in Frames, NEW protocol
  PROVE  Accepted(Append(frames, frame), protocol) =
           With(Accepted(frames, protocol), frame, protocol)
<1> DEFINE n == Len(frames)
           more == Append(frames, frame)
<1>1. /\ n \in Nat /\ Len(more) = n + 1 /\ more[n + 1] = frame
      /\ \A i \in 1..n : more[i] = frames[i]
  BY AppendProperties, LenProperties
<1>2. PICK g : IsTaken(g, frames, protocol, n) /\ Accepted(frames, protocol) = g[n]
  BY <1>1, AcceptedIs
<1> HIDE DEF n, more
<1>3. PICK h : IsTaken(h, more, protocol, n + 1) /\ Accepted(more, protocol) = h[n + 1]
  <2>1. Len(more) \in Nat
    BY <1>1
  <2>2. \E h : /\ IsTaken(h, more, protocol, Len(more))
               /\ Accepted(more, protocol) = h[Len(more)]
    BY <2>1, AcceptedIs
  <2> QED
    BY <1>1, <2>2
<1> DEFINE S == {i \in 0..n : h[i] = g[i]}
<1>4. 0 \in S
  BY <1>1, <1>2, <1>3, TakenSteps
<1>5. ASSUME NEW i \in 0..(n - 1), i \in S
      PROVE  i + 1 \in S
  <2>1. i + 1 \in 1..n /\ i \in 0..((n + 1) - 1) /\ n + 1 \in Nat /\ h[i] = g[i]
    BY <1>1, <1>5
  <2>2. g[i + 1] = With(g[i], frames[i + 1], protocol)
    BY <1>1, <1>2, <2>1, TakenSteps
  <2>3. h[i + 1] = With(h[i], more[i + 1], protocol)
    BY <1>1, <1>3, <2>1, TakenSteps
  <2> QED
    BY <1>1, <2>1, <2>2, <2>3
<1>6. 0..n \subseteq S
  <2> HIDE DEF S
  <2> QED
    BY <1>1, <1>4, <1>5, InductionUpTo
<1>7. h[n] = g[n]
  BY <1>1, <1>6
<1>8. h[n + 1] = With(h[n], frame, protocol)
  <2>1. n \in 0..((n + 1) - 1) /\ n + 1 \in Nat
    BY <1>1
  <2> QED
    BY <1>1, <1>3, <2>1, TakenSteps
<1> QED
  BY <1>2, <1>3, <1>7, <1>8 DEF more

(* What is appended to the second of two sequences. *)
LEMMA AppendLater ==
  ASSUME NEW D, NEW a \in Seq(D), NEW b \in Seq(D), NEW x \in D
  PROVE  a \o Append(b, x) = Append(a \o b, x)
OBVIOUS

(* The first element of two sequences is that of the first. *)
LEMMA TailFirst ==
  ASSUME NEW D, NEW a \in Seq(D), NEW b \in Seq(D), a # <<>>
  PROVE  a \o b # <<>> /\ Tail(a) \o b = Tail(a \o b)
OBVIOUS

(* Sequences, one after the other. *)
LEMMA Concats ==
  ASSUME NEW D
  PROVE  /\ \A a \in Seq(D) : a \o <<>> = a /\ <<>> \o a = a
         /\ \A a, b \in Seq(D), x \in D :
              /\ <<x>> \in Seq(D) /\ Append(a, x) \in Seq(D)
              /\ a \o Append(b, x) = Append(a \o b, x)
              /\ Append(a, x) \o b = a \o (<<x>> \o b)
  OBVIOUS

(* The data of the first frame, if it is accepted. *)
First(frame, protocol) == IF Takes(frame, protocol) THEN <<frame.data>> ELSE <<>>

(* A frame less: its data was the first. *)
LEMMA AcceptedLess ==
  ASSUME NEW frames \in Seq(Frames), frames # <<>>, NEW protocol
  PROVE  /\ First(Head(frames), protocol) \in Seq(Data(protocol))
         /\ Accepted(frames, protocol) =
              First(Head(frames), protocol) \o Accepted(Tail(frames), protocol)
<1> DEFINE n == Len(frames) - 1
           rest == Tail(frames)
           D == Data(protocol)
           first == First(frames[1], protocol)
<1>1. /\ n \in Nat /\ Len(frames) = n + 1 /\ Len(rest) = n /\ frames[1] \in Frames
      /\ Head(frames) = frames[1] /\ rest \in Seq(Frames)
      /\ \A i \in 1..n : rest[i] = frames[i + 1] /\ frames[i + 1] \in Frames
  BY TailElements, ElementOfSeq, LenProperties
<1>2. PICK g : IsTaken(g, frames, protocol, n + 1) /\ Accepted(frames, protocol) = g[n + 1]
  BY <1>1, AcceptedIs
<1>3. PICK h : IsTaken(h, rest, protocol, n) /\ Accepted(rest, protocol) = h[n]
  BY <1>1, AcceptedIs
<1>4. \A i \in 1..n : Takes(rest[i], protocol) => rest[i].data \in D
  BY <1>1 DEF Takes, Data
<1>5. Takes(frames[1], protocol) => frames[1].data \in D
  BY <1>1 DEF Takes, Data
<1> HIDE DEF n, rest, D
<1>6. first \in Seq(D) /\ g[1] = first
  <2>1. g[1] = With(<<>>, frames[1], protocol)
    <3>1. 0 \in 0..((n + 1) - 1) /\ 0 + 1 = 1 /\ n + 1 \in Nat
      BY <1>1
    <3>2. g[0] = <<>> /\ g[0 + 1] = With(g[0], frames[0 + 1], protocol)
      BY <1>2, <3>1, TakenSteps
    <3> QED
      BY <3>1, <3>2
  <2>2. CASE Takes(frames[1], protocol)
    <3>1. <<frames[1].data>> \in Seq(D) /\ Append(<<>>, frames[1].data) = <<frames[1].data>>
      BY <1>5, <2>2
    <3> QED
      BY <2>1, <2>2, <3>1 DEF First, With
  <2>3. CASE ~Takes(frames[1], protocol)
    BY <2>1, <2>3, EmptySeq DEF First, With
  <2> QED
    BY <2>2, <2>3
<1>7. \A i \in 0..n : h[i] \in Seq(D)
  BY <1>1, <1>3, TakenType DEF D
<1>8. \A j \in 0..((n + 1) - 1) : g[j + 1] = With(g[j], frames[j + 1], protocol)
  <2>1. n + 1 \in Nat /\ IsTaken(g, frames, protocol, n + 1)
    BY <1>1, <1>2
  <2> QED
    BY <2>1, TakenSteps
<1>9. \A j \in 0..(n - 1) : h[j + 1] = With(h[j], rest[j + 1], protocol)
  <2>1. n \in Nat /\ IsTaken(h, rest, protocol, n)
    BY <1>1, <1>3
  <2> QED
    BY <2>1, TakenSteps
<1> HIDE DEF first
<1> DEFINE S == {i \in 0..n : g[i + 1] = first \o h[i]}
<1>10. 0 \in S
  <2>1. h[0] = <<>> /\ first \o <<>> = first /\ 0 + 1 = 1
    BY <1>1, <1>3, <1>6, TakenSteps, Concats
  <2> QED
    BY <1>1, <1>6, <2>1
<1>11. ASSUME NEW i \in 0..(n - 1), i \in S
      PROVE  i + 1 \in S
  <2>1. /\ n \in Nat /\ i \in 0..(n - 1) /\ i + 1 \in 1..n /\ i + 1 \in 0..n
        /\ i + 1 \in 0..((n + 1) - 1) /\ n + 1 \in Nat
        /\ g[i + 1] = first \o h[i] /\ h[i] \in Seq(D)
    BY <1>1, <1>7, <1>11
  <2>2. g[(i + 1) + 1] = With(g[i + 1], frames[(i + 1) + 1], protocol)
    BY <1>8, <2>1
  <2>3. h[i + 1] = With(h[i], rest[i + 1], protocol)
    BY <1>9, <2>1
  <2>4. rest[i + 1] = frames[(i + 1) + 1]
    BY <1>1, <2>1
  <2> DEFINE x == rest[i + 1]
             y == h[i]
  <2>5. With(first \o y, x, protocol) = first \o With(y, x, protocol)
    <3> HIDE DEF y, x
    <3>1. CASE Takes(x, protocol)
      <4>1. x.data \in D /\ y \in Seq(D)
        BY <1>4, <2>1, <3>1 DEF x, y
      <4>2. first \o Append(y, x.data) = Append(first \o y, x.data)
        BY <1>6, <4>1, AppendLater
      <4> QED
        BY <3>1, <4>2 DEF With
    <3>2. CASE ~Takes(x, protocol)
      BY <3>2 DEF With
    <3> QED
      BY <3>1, <3>2
  <2>6. g[(i + 1) + 1] = first \o h[i + 1]
    BY <2>1, <2>2, <2>3, <2>4, <2>5, Zenon
  <2> QED
    BY <2>1, <2>6
<1>12. 0..n \subseteq S
  <2> HIDE DEF S
  <2> QED
    BY <1>1, <1>10, <1>11, InductionUpTo
<1>13. g[n + 1] = first \o h[n]
  BY <1>1, <1>12
<1> QED
  BY <1>1, <1>2, <1>3, <1>6, <1>13 DEF first, rest, D

-----------------------------------------------------------------------------
(* The way from the device to the protocols is a queue for each *)

(* What of a protocol is on its way. *)
Box(protocol) == queues[protocol] \o Accepted(tap, protocol)
Boxes == [protocol \in Protocols |-> Box(protocol)]

(* Both parts of it are data of the protocol. *)
LEMMA BoxType ==
  ASSUME IInv, NEW protocol \in Protocols
  PROVE  /\ queues[protocol] \in Seq(Data(protocol))
         /\ Accepted(tap, protocol) \in Seq(Data(protocol))
         /\ Box(protocol) \in Seq(Data(protocol))
<1> DEFINE D == Data(protocol)
           a == queues[protocol]
           b == Accepted(tap, protocol)
<1>1. a \in Seq(D) /\ b \in Seq(D)
  BY AcceptedType DEF IInv, ShapeOK
<1> HIDE DEF D, a, b
<1>2. a \o b \in Seq(D)
  BY <1>1, ConcatProperties
<1> QED
  BY <1>1, <1>2 DEF D, a, b, Box

(* A frame arrives: its data comes last, or it is of no concern. *)
LEMMA ArrivesInBox ==
  ASSUME IInv, NEW frame \in Frames, FrameArrives(frame), NEW protocol \in Protocols
  PROVE  /\ ~Takes(frame, protocol) => Box(protocol)' = Box(protocol)
         /\ Takes(frame, protocol) => /\ frame.data \in Data(protocol)
                                      /\ Box(protocol)' = Append(Box(protocol), frame.data)
<1> DEFINE D == Data(protocol)
           a == queues[protocol]
           b == Accepted(tap, protocol)
           x == frame.data
<1>1. queues' = queues /\ tap' = Append(tap, frame) /\ tap \in Seq(Frames)
  BY DEF FrameArrives, IInv, ShapeOK
<1>2. Accepted(tap', protocol) = With(b, frame, protocol)
  BY <1>1, AcceptedMore
<1>3. a \in Seq(D) /\ b \in Seq(D)
  BY BoxType
<1>4. Box(protocol)' = a \o Accepted(tap', protocol) /\ Box(protocol) = a \o b
  BY <1>1 DEF Box, Accepted
<1>5. Takes(frame, protocol) => x \in D
  BY DEF Takes, Data
<1> HIDE DEF D, a, b
<1>6. CASE Takes(frame, protocol)
  <2>1. Accepted(tap', protocol) = Append(b, x)
    BY <1>2, <1>6 DEF With
  <2>2. x \in D /\ a \o Append(b, x) = Append(a \o b, x)
    BY <1>3, <1>5, <1>6, AppendLater
  <2> QED
    BY <1>4, <1>6, <2>1, <2>2 DEF D
<1>7. CASE ~Takes(frame, protocol)
  BY <1>2, <1>4, <1>7 DEF With
<1> QED
  BY <1>6, <1>7

(* handle_irq moves data from the device to a queue, which is not seen. *)
LEMMA IrqInBox ==
  ASSUME IInv, HandleIrq, NEW protocol \in Protocols
  PROVE  Box(protocol)' = Box(protocol)
<1> DEFINE D == Data(protocol)
           a == queues[protocol]
           frame == Head(tap)
           c == Accepted(Tail(tap), protocol)
           x == frame.data
           first == First(frame, protocol)
<1>1. tap \in Seq(Frames) /\ tap # <<>> /\ tap' = Tail(tap) /\ frame \in Frames
  BY TailElements DEF IInv, ShapeOK, HandleIrq, AfterReading
<1>2. queues'[protocol] = IF ReadData(frame) = "data" /\ QueueOf(protocol, frame)
                          THEN PushBack(a, x) ELSE a
  BY DEF HandleIrq
<1>3. ReadData(frame) = "data" /\ QueueOf(protocol, frame) <=> Takes(frame, protocol)
  BY DEF ReadData, QueueOf, Takes, Protocols
<1>4. first \in Seq(D) /\ Accepted(tap, protocol) = first \o c
  BY <1>1, AcceptedLess
<1>5. a \in Seq(D) /\ c \in Seq(D)
  <2>1. Tail(tap) \in Seq(Frames)
    BY <1>1, TailElements
  <2> QED
    BY <2>1, BoxType, AcceptedType
<1>6. Box(protocol) = a \o (first \o c) /\ Box(protocol)' = queues'[protocol] \o c
  BY <1>1, <1>4 DEF Box, Accepted
<1>7. Takes(frame, protocol) => x \in D
  BY <1>1 DEF Takes, Data
<1>8. first = IF Takes(frame, protocol) THEN <<x>> ELSE <<>>
  BY DEF First
<1> HIDE DEF D, a, c, frame, x, first
<1>9. CASE Takes(frame, protocol)
  <2>1. queues'[protocol] = Append(a, x)
    BY <1>2, <1>3, <1>9 DEF PushBack
  <2>2. Append(a, x) \o c = a \o (<<x>> \o c)
    BY <1>5, <1>7, <1>9, Concats
  <2> QED
    BY <1>6, <1>8, <1>9, <2>1, <2>2
<1>10. CASE ~Takes(frame, protocol)
  <2>1. queues'[protocol] = a /\ first = <<>>
    BY <1>2, <1>3, <1>8, <1>10
  <2>2. <<>> \o c = c
    BY <1>5, Concats
  <2> QED
    BY <1>6, <2>1, <2>2
<1> QED
  BY <1>9, <1>10

(* A packet that is handled is the first. *)
LEMMA InputInBox ==
  ASSUME IInv, NEW protocol \in Protocols, HandleInput(protocol)
  PROVE  /\ Box(protocol) # <<>> /\ Box(protocol)' = Tail(Box(protocol))
         /\ \A p \in Protocols \ {protocol} : Box(p)' = Box(p)
<1> DEFINE D == Data(protocol)
           a == queues[protocol]
           b == Accepted(tap, protocol)
<1>1. a # <<>> /\ tap' = tap /\ queues' = [queues EXCEPT ![protocol] = Tail(a)]
  BY DEF HandleInput, Turn
<1>2. /\ queues'[protocol] = Tail(a)
      /\ \A p \in Protocols \ {protocol} : queues'[p] = queues[p]
  BY <1>1 DEF IInv, ShapeOK
<1>3. a \in Seq(D) /\ b \in Seq(D)
  BY BoxType
<1>4. Box(protocol) = a \o b /\ Box(protocol)' = Tail(a) \o b
  <2>1. Accepted(tap, protocol)' = b
    BY <1>1 DEF Accepted
  <2> QED
    BY <1>2, <2>1 DEF Box
<1>5. ASSUME NEW p \in Protocols \ {protocol}
      PROVE  Box(p)' = Box(p)
  <2>1. Accepted(tap, p)' = Accepted(tap, p) /\ queues'[p] = queues[p]
    BY <1>1, <1>2 DEF Accepted
  <2> QED
    BY <2>1 DEF Box
<1> HIDE DEF D, a, b
<1>6. a \o b # <<>> /\ Tail(a) \o b = Tail(a \o b)
  BY <1>1, <1>3, TailFirst
<1> QED
  BY <1>4, <1>5, <1>6

(* Every step arrives in a box, takes from one, or leaves them all alone. *)
LEMMA BoxStep ==
  ASSUME IInv, [Next]_vars
  PROVE  [Mailbox!Next]_Boxes
<1> DEFINE P == [protocol \in Protocols |-> Data(protocol)]
<1>1. ASSUME NEW k \in Protocols, NEW y, Box(k)' = y,
             \A p \in Protocols \ {k} : Box(p)' = Box(p)
      PROVE  Boxes' = [Boxes EXCEPT ![k] = y]
  BY <1>1 DEF Boxes
<1>2. ASSUME \A p \in Protocols : Box(p)' = Box(p)
      PROVE  Boxes' = Boxes
  BY <1>2 DEF Boxes
<1>3. ASSUME NEW k \in Protocols, NEW x \in Data(k),
             Boxes' = [Boxes EXCEPT ![k] = Append(Box(k), x)]
      PROVE  Mailbox!Next
  <2>1. Boxes[k] = Box(k) /\ P[k] = Data(k)
    BY DEF Boxes
  <2>2. \E z \in P[k] : Boxes' = [Boxes EXCEPT ![k] = Append(Boxes[k], z)]
    BY <1>3, <2>1
  <2>3. Mailbox!Arrive(k)
    BY <2>2 DEF Mailbox!Arrive, Boxes, Box
  <2> QED
    BY <2>3 DEF Mailbox!Next
<1>4. ASSUME NEW k \in Protocols, Box(k) # <<>>, Boxes' = [Boxes EXCEPT ![k] = Tail(Box(k))]
      PROVE  Mailbox!Next
  <2>1. Boxes[k] = Box(k)
    BY DEF Boxes
  <2>2. Boxes[k] # <<>> /\ Boxes' = [Boxes EXCEPT ![k] = Tail(Boxes[k])]
    BY <1>4, <2>1
  <2>3. Mailbox!Handle(k)
    BY <2>2 DEF Mailbox!Handle, Boxes, Box
  <2> QED
    BY <2>3 DEF Mailbox!Next
<1>5. ASSUME NEW frame \in Frames, FrameArrives(frame)
      PROVE  Mailbox!Next \/ Boxes' = Boxes
  <2>1. CASE \E k \in Protocols : Takes(frame, k)
    <3>1. PICK k \in Protocols : Takes(frame, k)
      BY <2>1
    <3>2. \A p \in Protocols \ {k} : ~Takes(frame, p)
      BY <3>1 DEF Takes
    <3>3. frame.data \in Data(k) /\ Box(k)' = Append(Box(k), frame.data)
      BY <1>5, <3>1, ArrivesInBox
    <3>4. \A p \in Protocols \ {k} : Box(p)' = Box(p)
      BY <1>5, <3>2, ArrivesInBox
    <3>5. Boxes' = [Boxes EXCEPT ![k] = Append(Box(k), frame.data)]
      BY <1>1, <3>3, <3>4
    <3> QED
      BY <1>3, <3>3, <3>5
  <2>2. CASE ~\E k \in Protocols : Takes(frame, k)
    BY <1>2, <1>5, <2>2, ArrivesInBox
  <2> QED
    BY <2>1, <2>2
<1>6. HandleIrq => Boxes' = Boxes
  BY <1>2, IrqInBox
<1>7. ASSUME NEW k \in Protocols, HandleInput(k)
      PROVE  Mailbox!Next
  <2>1. /\ Box(k) # <<>> /\ Box(k)' = Tail(Box(k))
        /\ \A p \in Protocols \ {k} : Box(p)' = Box(p)
    BY <1>7, InputInBox
  <2>2. Boxes' = [Boxes EXCEPT ![k] = Tail(Box(k))]
    BY <1>1, <2>1
  <2> QED
    BY <1>4, <2>1, <2>2
<1>8. UNCHANGED <<tap, queues>> => Boxes' = Boxes
  BY DEF Boxes, Box, Accepted
<1>9. (HandleProtocol \/ Drained \/ PoisonFound \/ Term \/ MutexKept
        \/ MutexGivenBack \/ UNCHANGED vars)
        => UNCHANGED <<tap, queues>>
  BY DEF HandleProtocol, Drained, PoisonFound, Term, MutexKept, MutexGivenBack, vars
<1>10. \A s \in Sendings : Sends(s) => UNCHANGED <<tap, queues>>
  BY DEF Sends
<1>11. \A age \in Ages : Clock(age) => UNCHANGED <<tap, queues>>
  BY DEF Clock
<1> HIDE DEF P
<1> QED
  BY <1>5, <1>6, <1>7, <1>8, <1>9, <1>10, <1>11 DEF Next, Main

-----------------------------------------------------------------------------
(* Theorems *)

(* The inductive invariant of the way from the device to the protocols and  *)
(* back.                                                                    *)
THEOREM Invariance == Spec => []IInv
<1>1. Init => IInv
  BY InitOK
<1>2. IInv /\ [Next]_vars => IInv'
  BY NextOK
<1> QED
  BY <1>1, <1>2, PTL DEF Spec

(* Types: the queue of a protocol holds the data of frames of its type, and *)
(* the identification of output() stays in its range or it has panicked.    *)
THEOREM TypeCorrect == Spec => []NetTypeOK
<1>1. IInv => NetTypeOK
  BY IInvImplies
<1> QED
  BY <1>1, Invariance, PTL

(* handle_irq() never leaves a packet behind for which handle_protocol()    *)
(* will not be called, for any number of signals that can wait and any      *)
(* number of frames.                                                        *)
THEOREM PacketsHandled == Spec => []NoPacketStranded
<1>1. IInv => NoPacketStranded
  BY DEF IInv
<1> QED
  BY <1>1, Invariance, PTL

(* The read() of handle_irq() finds a frame, however many signals have been *)
(* merged.                                                                  *)
THEOREM ReadsDoNotBlock == Spec => []ReadFindsFrame
<1>1. IInv => ReadFindsFrame
  BY DEF IInv
<1> QED
  BY <1>1, Invariance, PTL

(* output() sends a packet only to the hardware address that was announced  *)
(* for its next hop and whose ARP entry is fresh, whatever arrives, times   *)
(* out or is sent before.                                                   *)
THEOREM SentToAnnounced == Spec => []ToAnnounced
<1>1. IInv => ToAnnounced
  BY IInvImplies
<1> QED
  BY <1>1, Invariance, PTL

(* Every header and every echo reply carries the checksum that its receiver *)
(* computes, for all lengths, addresses and identifications and with the    *)
(* padding of any request.                                                  *)
THEOREM SentChecksums == Spec => []SentVerifies
<1>1. IInv => SentVerifies
  BY IInvImplies
<1> QED
  BY <1>1, Invariance, PTL

(* cksum16 is the Internet checksum: over bytes of any number it is 0 for   *)
(* those whose words add up to a positive multiple of 65535, and for no     *)
(* others.                                                                  *)
THEOREM ChecksumVerifies ==
  \A data \in Seq(Byte) : cksum16(data) = 0 <=> Verifies(data)
BY CksumZero

(* A header that create_ip_header makes passes the tests that ip::input     *)
(* makes, for any addresses, identification and length.                     *)
THEOREM OwnHeaderAccepted ==
  \A protocol \in Byte, src \in Address, dst \in Address, len \in Nat, id \in Nat :
    U16(HeaderSize + len) /\ U16(id) =>
      CheckIpHeader(CreateIpHeader(protocol, src, dst, len, id), HeaderSize + len)
BY HeaderAccepted

(* The queues of the protocols, the frames in the device and the signals    *)
(* in between are one first in, first out queue per protocol: handle_irq    *)
(* and handle_protocol repeat and reorder nothing, and lose nothing on the  *)
(* way to the head of the queue, however the signals are merged.            *)
THEOREM ImplementsInbox == Spec => FollowsInbox
<1>1. Init => Mailbox!Init
  <2> SUFFICES ASSUME Init
               PROVE  Mailbox!Init
    OBVIOUS
  <2>1. \A k \in Protocols : queues[k] = <<>> /\ Accepted(tap, k) = <<>>
    BY AcceptedNone DEF Init
  <2>2. \A k \in Protocols : queues[k] \o Accepted(tap, k) = <<>>
    BY <2>1
  <2> QED
    BY <2>2 DEF Mailbox!Init
<1>2. IInv /\ [Next]_vars => [Mailbox!Next]_Boxes
  BY BoxStep
<1>3. FollowsInbox <=> Mailbox!Init /\ [][Mailbox!Next]_Boxes
  BY DEF FollowsInbox, Mailbox!Spec, Boxes, Box
<1> QED
  BY <1>1, <1>2, <1>3, Invariance, PTL DEF Spec
=============================================================================

---------------------------- MODULE DataLemmas ----------------------------
(***************************************************************************)
(* Lemmas about the data that several modules share: induction over the     *)
(* natural numbers, as a fact about sets, and the channels through which    *)
(* control blocks wake up a caller (mpsc::channel of tcp.rs and udp.rs).    *)
(***************************************************************************)
EXTENDS Integers, Sequences, FiniteSets, TLAPS, SequenceTheorems,
        FiniteSetTheorems, FunctionTheorems, WellFoundedInduction

-----------------------------------------------------------------------------
(* Induction *)

(* A set of natural numbers has a least element. *)
LEMMA LeastElement ==
  ASSUME NEW T, T \subseteq Nat, T # {}
  PROVE  \E x \in T : \A y \in T : x <= y
<1> DEFINE R == OpToRel(<, Nat)
<1>1. IsWellFoundedOn(R, Nat)
  BY NatLessThanWellFounded
<1>2. \A x, y \in Nat : y < x => <<y, x>> \in R
  BY DEF OpToRel
<1> HIDE DEF R
<1>3. PICK x \in T : \A y \in T : ~(<<y, x>> \in R)
  BY <1>1, WFMin
<1>4. ASSUME NEW y \in T
      PROVE  x <= y
  <2>1. x \in Nat /\ y \in Nat /\ ~(y < x)
    BY <1>2, <1>3
  <2> QED
    BY <2>1
<1> QED
  BY <1>4

(* A set with 0 and with the successor of each of its numbers has them all. *)
LEMMA Induction ==
  ASSUME NEW S, 0 \in S, \A n \in Nat : n \in S => n + 1 \in S
  PROVE  Nat \subseteq S
<1> DEFINE T == {n \in Nat : n \notin S}
<1> SUFFICES ASSUME T # {}
             PROVE  FALSE
  OBVIOUS
<1>1. PICK x \in T : \A y \in T : x <= y
  BY LeastElement
<1>2. x # 0 /\ x \in Nat /\ x - 1 \in Nat /\ x - 1 \notin T
  BY <1>1
<1> QED
  BY <1>1, <1>2

(* The same up to a bound. *)
LEMMA InductionUpTo ==
  ASSUME NEW m \in Nat, NEW S, 0 \in S,
         \A i \in 0..(m - 1) : i \in S => i + 1 \in S
  PROVE  0..m \subseteq S
<1> DEFINE T == S \union {i \in Nat : i > m}
<1>1. 0 \in T
  OBVIOUS
<1>2. \A n \in Nat : n \in T => n + 1 \in T
  OBVIOUS
<1>3. Nat \subseteq T
  <2> HIDE DEF T
  <2> QED
    BY <1>1, <1>2, Induction
<1> QED
  BY <1>3

-----------------------------------------------------------------------------
(* Tokens: how many TRUE tokens a channel holds after a send or a recv *)

(* The TRUE tokens of channel c, and their number. *)
Trues(c) == {i \in DOMAIN c : c[i]}
Count(c) == Cardinality(Trues(c))

(* A channel holds finitely many tokens. *)
LEMMA CountType ==
  ASSUME NEW c \in Seq(BOOLEAN)
  PROVE  IsFiniteSet(Trues(c)) /\ Count(c) \in Nat
<1>1. Len(c) \in Nat /\ DOMAIN c = 1..Len(c)
  BY LenProperties
<1>2. IsFiniteSet(1..Len(c))
  BY <1>1, FS_Interval
<1>3. Trues(c) \in SUBSET (1..Len(c))
  BY <1>1 DEF Trues
<1>4. IsFiniteSet(Trues(c))
  BY <1>2, <1>3, FS_Subset
<1> QED
  BY <1>4, FS_CardinalityType DEF Count

(* A new channel is empty. *)
LEMMA CountEmpty == Count(<<>>) = 0
<1>1. Trues(<<>>) = {}
  BY DEF Trues
<1> QED
  BY <1>1, FS_EmptySet DEF Count

(* send() adds its token. *)
LEMMA CountAppend ==
  ASSUME NEW c \in Seq(BOOLEAN), NEW b \in BOOLEAN
  PROVE  /\ b => Count(Append(c, b)) = Count(c) + 1
         /\ ~b => Count(Append(c, b)) = Count(c)
<1> DEFINE d == Append(c, b)
           n == Len(c) + 1
<1>1. /\ Len(c) \in Nat /\ DOMAIN c = 1..Len(c)
      /\ DOMAIN d = 1..n /\ d[n] = b
      /\ \A i \in 1..Len(c) : d[i] = c[i]
  BY AppendProperties, LenProperties
<1>2. IsFiniteSet(Trues(c)) /\ Count(c) \in Nat
  BY CountType
<1> HIDE DEF d
<1>3. n \notin Trues(c)
  BY <1>1 DEF Trues
<1>4. CASE b
  <2>0. d[n] = TRUE
    BY <1>1, <1>4
  <2>1. Trues(d) = Trues(c) \cup {n}
    <3>0. n \in DOMAIN d
      BY <1>1
    <3>1. n \in Trues(d)
      BY <2>0, <3>0, Zenon DEF Trues
    <3>2. \A i \in 1..Len(c) : i \in Trues(d) <=> i \in Trues(c)
      BY <1>1 DEF Trues
    <3>3. \A i \in 1..n : i \in 1..Len(c) \/ i = n
      BY <1>1
    <3>4. Trues(d) \subseteq 1..n /\ Trues(c) \subseteq 1..Len(c)
      BY <1>1 DEF Trues
    <3> HIDE DEF n
    <3> QED
      BY <3>1, <3>2, <3>3, <3>4
  <2>2. Cardinality(Trues(d)) = Cardinality(Trues(c)) + 1
    BY <1>2, <1>3, <2>1, FS_AddElement
  <2> QED
    BY <1>4, <2>2 DEF Count, d
<1>5. CASE ~b
  <2>1. Trues(d) = Trues(c)
    BY <1>1, <1>5 DEF Trues
  <2> QED
    BY <1>2, <1>5, <2>1 DEF Count, d
<1> QED
  BY <1>4, <1>5

(* recv() takes the first token. *)
LEMMA CountTail ==
  ASSUME NEW c \in Seq(BOOLEAN), c # <<>>
  PROVE  /\ Tail(c) \in Seq(BOOLEAN)
         /\ Head(c) => Count(Tail(c)) = Count(c) - 1
         /\ ~Head(c) => Count(Tail(c)) = Count(c)
<1> DEFINE d == Tail(c)
           S == Trues(c) \ {1}
           f == [i \in S |-> i - 1]
<1>1. /\ Len(c) \in Nat /\ DOMAIN c = 1..Len(c) /\ Len(c) >= 1
      /\ d \in Seq(BOOLEAN) /\ DOMAIN d = 1..(Len(c) - 1)
      /\ \A i \in 1..(Len(c) - 1) : d[i] = c[i + 1]
  BY LenProperties, HeadTailProperties
<1>2. IsFiniteSet(Trues(c)) /\ Count(c) \in Nat
  BY CountType
<1> HIDE DEF d
<1>3. /\ IsFiniteSet(S)
      /\ Head(c) => Cardinality(S) = Count(c) - 1
      /\ ~Head(c) => Cardinality(S) = Count(c)
  <2>1. 1 \in DOMAIN c /\ c[1] = Head(c) /\ Head(c) \in BOOLEAN
    BY <1>1
  <2>2. CASE Head(c)
    <3>1. 1 \in Trues(c)
      BY <2>1, <2>2 DEF Trues
    <3> QED
      BY <1>2, <2>2, <3>1, FS_RemoveElement DEF Count
  <2>3. CASE ~Head(c)
    <3>1. 1 \notin Trues(c)
      BY <2>1, <2>3 DEF Trues
    <3> QED
      BY <1>2, <2>3, <3>1, FS_RemoveElement DEF Count
  <2> QED
    BY <2>2, <2>3
<1>4. f \in Bijection(S, Trues(d))
  <2>1. f \in [S -> Trues(d)]
    BY <1>1 DEF Trues
  <2>2. \A x, y \in S : f[x] = f[y] => x = y
    BY <1>1 DEF Trues
  <2>3. \A t \in Trues(d) : \E s \in S : f[s] = t
    <3> SUFFICES ASSUME NEW t \in Trues(d)
                 PROVE  t + 1 \in S /\ f[t + 1] = t
      OBVIOUS
    <3> QED
      BY <1>1 DEF Trues
  <2> QED
    BY <2>1, <2>2, <2>3 DEF Bijection, Injection, Surjection, IsInjective
<1>5. Cardinality(Trues(d)) = Cardinality(S)
  BY <1>3, <1>4, FS_Bijection DEF ExistsBijection
<1> QED
  BY <1>1, <1>3, <1>5 DEF Count, d

(* A step that sends one token, or none, through concatenation. *)
LEMMA SendToken ==
  ASSUME NEW c \in Seq(BOOLEAN), NEW b \in BOOLEAN
  PROVE  /\ c \o <<>> = c
         /\ c \o <<b>> = Append(c, b)
         /\ Append(c, b) \in Seq(BOOLEAN)
OBVIOUS
=============================================================================

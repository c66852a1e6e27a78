---------------------------- MODULE DataLemmas ------------------------------
(***************************************************************************)
(* Lemmas about the data of the models: counting in queues, the smallest   *)
(* and the largest element of a set of numbers, and folds of sequences.    *)
(***************************************************************************)
EXTENDS Queues, SequencesExt, TLAPS, FiniteSetTheorems, SequenceTheorems, WellFoundedInduction

-----------------------------------------------------------------------------
(***************************************************************************)
(* What the queue operations do to the number of handlers that wait.       *)
(***************************************************************************)

\* There is a number of them, and it is 0 if none waits.
LEMMA HowManyType ==
  ASSUME NEW S, NEW q \in Seq(S), NEW H
  PROVE  /\ IsFiniteSet(Positions(q, H))
         /\ HowMany(q, H) \in Nat
         /\ HowMany(q, H) = 0 <=> \A i \in 1..Len(q) : q[i] \notin H
<1>1. Len(q) \in Nat
  BY LenProperties
<1>2. IsFiniteSet(1..Len(q))
  BY <1>1, FS_Interval
<1>3. IsFiniteSet(Positions(q, H))
  BY <1>2, FS_Subset DEF Positions
<1>4. Positions(q, H) = {} <=> \A i \in 1..Len(q) : q[i] \notin H
  BY DEF Positions
<1> QED
  BY <1>3, <1>4, FS_CardinalityType, FS_EmptySet DEF HowMany

\* An empty queue.
LEMMA HowManyEmpty ==
  ASSUME NEW H
  PROVE  HowMany(<<>>, H) = 0
<1>1. Positions(<<>>, H) = {}
  BY DEF Positions
<1> QED
  BY <1>1, FS_EmptySet DEF HowMany

\* A queue of one handler.
LEMMA HowManyOne ==
  ASSUME NEW h, NEW H
  PROVE  HowMany(<<h>>, H) = IF h \in H THEN 1 ELSE 0
<1>1. Positions(<<h>>, H) = IF h \in H THEN {1} ELSE {}
  <2>1. 1..Len(<<h>>) = {1} /\ <<h>>[1] = h
    OBVIOUS
  <2> QED
    BY <2>1 DEF Positions
<1> QED
  BY <1>1, FS_EmptySet, FS_Singleton DEF HowMany

\* Handlers queued behind others: nothing is lost.
LEMMA HowManyConcat ==
  ASSUME NEW S, NEW q \in Seq(S), NEW r \in Seq(S), NEW H
  PROVE  HowMany(q \o r, H) = HowMany(q, H) + HowMany(r, H)
<1> DEFINE shifted == {i + Len(q) : i \in Positions(r, H)}
           shift == [i \in Positions(r, H) |-> i + Len(q)]
<1>1. Len(q) \in Nat /\ Len(r) \in Nat
  BY LenProperties
<1>2. /\ Len(q \o r) = Len(q) + Len(r)
      /\ \A i \in 1..Len(q) + Len(r) :
           (q \o r)[i] = IF i <= Len(q) THEN q[i] ELSE r[i - Len(q)]
  BY ConcatProperties
<1>3. Positions(q \o r, H) = Positions(q, H) \cup shifted
  <2>1. ASSUME NEW i \in Positions(q \o r, H) PROVE i \in Positions(q, H) \cup shifted
    <3>1. i \in 1..Len(q) + Len(r) /\ (q \o r)[i] \in H
      BY <1>2 DEF Positions
    <3>2. CASE i <= Len(q)
      BY <1>1, <1>2, <3>1, <3>2 DEF Positions
    <3>3. CASE ~(i <= Len(q))
      <4>1. i - Len(q) \in 1..Len(r) /\ r[i - Len(q)] \in H
        BY <1>1, <1>2, <3>1, <3>3
      <4>2. i - Len(q) \in Positions(r, H)
        BY <4>1 DEF Positions
      <4>3. i = (i - Len(q)) + Len(q)
        BY <1>1, <3>1
      <4> QED
        BY <4>2, <4>3
    <3> QED
      BY <3>2, <3>3
  <2>2. ASSUME NEW i \in Positions(q, H) PROVE i \in Positions(q \o r, H)
    BY <1>1, <1>2 DEF Positions
  <2>3. ASSUME NEW i \in Positions(r, H) PROVE i + Len(q) \in Positions(q \o r, H)
    <3>1. i \in 1..Len(r) /\ r[i] \in H
      BY DEF Positions
    <3>2. i + Len(q) \in 1..Len(q) + Len(r) /\ ~(i + Len(q) <= Len(q)) /\ (i + Len(q)) - Len(q) = i
      BY <1>1, <3>1
    <3> QED
      BY <1>2, <3>1, <3>2 DEF Positions
  <2> QED
    BY <2>1, <2>2, <2>3
<1>4. Positions(q, H) \cap shifted = {}
  BY <1>1 DEF Positions
<1>5. /\ IsFiniteSet(Positions(q, H)) /\ IsFiniteSet(Positions(r, H))
      /\ HowMany(q, H) \in Nat /\ HowMany(r, H) \in Nat
  BY HowManyType
<1>6. IsFiniteSet(shifted) /\ Cardinality(shifted) = Cardinality(Positions(r, H))
  <2>1. shift \in Bijection(Positions(r, H), shifted)
    <3>1. Positions(r, H) \subseteq Nat
      BY <1>1 DEF Positions
    <3>2. shift \in Injection(Positions(r, H), shifted)
      BY <1>1, <3>1 DEF Injection, IsInjective
    <3>3. shift \in Surjection(Positions(r, H), shifted)
      BY DEF Surjection
    <3> QED
      BY <3>2, <3>3 DEF Bijection
  <2>2. ExistsBijection(Positions(r, H), shifted)
    BY <2>1 DEF ExistsBijection
  <2> HIDE DEF shifted
  <2> QED
    BY <1>5, <2>2, FS_Bijection
<1>7. Cardinality(Positions(q, H) \cup shifted) = Cardinality(Positions(q, H)) + Cardinality(shifted)
  <2> HIDE DEF shifted
  <2>1. Cardinality(Positions(q, H) \cup shifted) =
          Cardinality(Positions(q, H)) + Cardinality(shifted) - Cardinality(Positions(q, H) \cap shifted)
    BY <1>5, <1>6, FS_Union
  <2>2. Cardinality(Positions(q, H) \cap shifted) = 0
    BY <1>4, FS_EmptySet
  <2> QED
    BY <1>5, <1>6, <2>1, <2>2 DEF HowMany
<1> QED
  BY <1>3, <1>6, <1>7 DEF HowMany

\* A handler queued behind others.
LEMMA HowManyAppend ==
  ASSUME NEW S, NEW q \in Seq(S), NEW h \in S, NEW H
  PROVE  HowMany(Append(q, h), H) = HowMany(q, H) + (IF h \in H THEN 1 ELSE 0)
<1>1. Append(q, h) = q \o <<h>> /\ <<h>> \in Seq(S)
  BY AppendIsConcat
<1>2. HowMany(q \o <<h>>, H) = HowMany(q, H) + HowMany(<<h>>, H)
  BY <1>1, HowManyConcat
<1> QED
  BY <1>1, <1>2, HowManyOne

\* The handler that waits longest is taken.
LEMMA HowManyTail ==
  ASSUME NEW S, NEW q \in Seq(S), q # <<>>, NEW H
  PROVE  HowMany(q, H) = HowMany(Tail(q), H) + (IF Head(q) \in H THEN 1 ELSE 0)
<1>1. Head(q) \in S /\ Tail(q) \in Seq(S) /\ q = <<Head(q)>> \o Tail(q)
  <2>1. Head(q) \in S /\ Tail(q) \in Seq(S)
    BY HeadTailProperties
  <2>2. Len(<<Head(q)>> \o Tail(q)) = Len(q)
    BY <2>1, HeadTailProperties, ConcatProperties, LenProperties
  <2>3. \A i \in 1..Len(q) : (<<Head(q)>> \o Tail(q))[i] = q[i]
    <3> SUFFICES ASSUME NEW i \in 1..Len(q) PROVE (<<Head(q)>> \o Tail(q))[i] = q[i]
      OBVIOUS
    <3>1. CASE i = 1
      BY <2>1, <3>1
    <3>2. CASE i # 1
      BY <2>1, <3>2
    <3> QED
      BY <3>1, <3>2
  <2>4. <<Head(q)>> \o Tail(q) \in Seq(S)
    BY <2>1
  <2> QED
    BY <2>1, <2>2, <2>3, <2>4, SeqEqual
<1>2. HowMany(q, H) = HowMany(<<Head(q)>>, H) + HowMany(Tail(q), H)
  <2>1. <<Head(q)>> \in Seq(S)
    BY <1>1
  <2>2. HowMany(<<Head(q)>> \o Tail(q), H) = HowMany(<<Head(q)>>, H) + HowMany(Tail(q), H)
    BY <1>1, <2>1, HowManyConcat
  <2> QED
    BY <1>1, <2>2
<1>3. HowMany(Tail(q), H) \in Nat
  BY <1>1, HowManyType
<1> QED
  BY <1>2, <1>3, HowManyOne

-----------------------------------------------------------------------------
(***************************************************************************)
(* Numbers.                                                                *)
(***************************************************************************)

\* Numbers are well-founded.
LEMMA NumbersFounded ==
  \E R : IsWellFoundedOn(R, Nat) /\ \A m, n \in Nat : m < n => <<m, n>> \in R
<1>1. IsWellFoundedOn({p \in Nat \X Nat : p[1] < p[2]}, Nat)
  BY NatLessThanWellFounded DEF OpToRel
<1>2. \A m, n \in Nat : m < n => <<m, n>> \in {p \in Nat \X Nat : p[1] < p[2]}
  OBVIOUS
<1> QED
  BY <1>1, <1>2

\* Some numbers have a least one.
LEMMA LeastOf ==
  ASSUME NEW S, S \subseteq Nat, S # {}
  PROVE  \E n \in S : \A m \in S : ~(m < n)
<1>1. PICK R : IsWellFoundedOn(R, Nat) /\ \A m, n \in Nat : m < n => <<m, n>> \in R
  BY NumbersFounded
<1>2. IsWellFoundedOn(R, Nat)
  BY <1>1
<1>3. \E n \in S : \A m \in S : ~(<<m, n>> \in R)
  BY <1>2, WFMin, Zenon
<1> QED
  BY <1>1, <1>3

\* Induction over the natural numbers, for a set.
LEMMA NumberInduction ==
  ASSUME NEW T, 0 \in T, \A n \in Nat : n \in T => n + 1 \in T
  PROVE  \A n \in Nat : n \in T
<1> DEFINE Left == {n \in Nat : n \notin T}
<1> SUFFICES ASSUME Left # {} PROVE FALSE
  OBVIOUS
<1>1. PICK n \in Left : \A m \in Left : ~(m < n)
  <2> HIDE DEF Left
  <2> QED
    BY LeastOf DEF Left
<1>3. n # 0 /\ n \in Nat /\ n - 1 \in Nat /\ n - 1 < n
  OBVIOUS
<1>4. n - 1 \in T
  BY <1>1, <1>3
<1>5. (n - 1) + 1 \in T
  BY <1>3, <1>4
<1> QED
  BY <1>3, <1>5

\* Induction up to a number.
LEMMA InductionUpTo ==
  ASSUME NEW N \in Nat, NEW T, 0 \in T, \A n \in 1..N : n - 1 \in T => n \in T
  PROVE  \A n \in 0..N : n \in T
<1> DEFINE U == {n \in Nat : n <= N => n \in T}
<1>1. 0 \in U
  OBVIOUS
<1>2. ASSUME NEW n \in Nat, n \in U PROVE n + 1 \in U
  <2> SUFFICES ASSUME n + 1 <= N PROVE n + 1 \in T
    OBVIOUS
  <2>1. n \in T /\ n + 1 \in 1..N /\ (n + 1) - 1 = n
    BY <1>2
  <2> QED
    BY <2>1
<1> HIDE DEF U
<1>3. \A n \in Nat : n \in U
  BY <1>1, <1>2, NumberInduction
<1> QED
  BY <1>3 DEF U

\* The smallest of some numbers.
LEMMA Smallest ==
  ASSUME NEW S, S \subseteq Nat, S # {}
  PROVE  Min(S) \in S /\ \A x \in S : Min(S) <= x
<1>1. PICK n \in S : \A m \in S : ~(m < n)
  BY LeastOf
<1>2. \A m \in S : n <= m
  BY <1>1
<1> QED
  BY <1>2 DEF Min

\* The largest of some numbers up to N.
LEMMA Largest ==
  ASSUME NEW N \in Nat, NEW S, S \subseteq 0..N, S # {}
  PROVE  Max(S) \in S /\ \A x \in S : Max(S) >= x
<1> DEFINE Mirrored == {N - x : x \in S}
<1>1. Mirrored \subseteq Nat /\ Mirrored # {}
  <2>1. \A x \in S : N - x \in Nat
    OBVIOUS
  <2> QED
    BY <2>1
<1>2. PICK m \in Mirrored : \A y \in Mirrored : m <= y
  <2> HIDE DEF Mirrored
  <2> QED
    BY <1>1, Smallest
<1>3. PICK n \in S : m = N - n
  OBVIOUS
<1>4. ASSUME NEW x \in S PROVE n >= x
  <2>1. N - n <= N - x
    BY <1>2, <1>3
  <2> QED
    BY <2>1
<1> QED
  BY <1>4 DEF Max

\* The largest of 1 to k, and of what is in it.
LEMMA LargestUpTo ==
  ASSUME NEW k \in Nat, k > 0
  PROVE  Max(1..k) = k /\ (1..k) \ {k} = 1..(k - 1)
<1>1. 1..k \subseteq 0..k /\ k \in 1..k
  OBVIOUS
<1>2. Max(1..k) \in 1..k /\ Max(1..k) >= k
  BY <1>1, Largest
<1> QED
  BY <1>2

-----------------------------------------------------------------------------
(***************************************************************************)
(* Folds.  FoldLeft goes through subsets of the domain of a sequence, by   *)
(* their largest elements.                                                 *)
(***************************************************************************)

\* What FoldLeft computes for F, of what was folded, in Y, and an element, in X.
Folding(it, F, base, seq, X, Y) ==
  /\ it = [s \in SUBSET DOMAIN seq |-> it[s]]
  /\ it[{}] = base
  /\ \A s \in SUBSET DOMAIN seq : s # {} =>
       /\ Max(s) \in DOMAIN seq /\ seq[Max(s)] \in X /\ it[s \ {Max(s)}] \in Y
       /\ it[s] = F[<<it[s \ {Max(s)}], seq[Max(s)]>>]

\* A function as FoldLeft computes it, seen at the beginnings of a sequence.
Beginnings(f, iter, seq) ==
  /\ f[0] = iter[{}] /\ f[Len(seq)] = iter[DOMAIN seq] /\ {} \in SUBSET DOMAIN seq
  /\ \A k \in 1..Len(seq) : /\ f[k] = iter[1..k] /\ 1..k \in SUBSET DOMAIN seq /\ 1..k # {}
                            /\ f[k - 1] = iter[(1..k) \ {Max(1..k)}] /\ Max(1..k) = k

\* It is defined.
LEMMA FoldDefined ==
  ASSUME NEW X, NEW Y, NEW F \in [Y \X X -> Y], NEW base \in Y, NEW seq \in Seq(X)
  PROVE  \E it : Folding(it, F, base, seq, X, Y)
<1> DEFINE Good(n, it) ==
      \A s \in SUBSET (1..n) : it[s] = IF s = {} THEN base ELSE F[<<it[s \ {Max(s)}], seq[Max(s)]>>]
    T == {n \in Nat : \E it \in [SUBSET (1..n) -> Y] : Good(n, it)}
<1>1. Len(seq) \in Nat /\ DOMAIN seq = 1..Len(seq) /\ \A i \in 1..Len(seq) : seq[i] \in X
  BY LenProperties, ElementOfSeq
<1>2. 0 \in T
  <2>1. PICK it \in [SUBSET (1..0) -> Y] : it = [s \in SUBSET (1..0) |-> base]
    OBVIOUS
  <2>2. \A s \in SUBSET (1..0) : s = {}
    OBVIOUS
  <2>3. Good(0, it)
    BY <2>1, <2>2
  <2> QED
    BY <2>3
<1>3. ASSUME NEW n \in 1..Len(seq), n - 1 \in T PROVE n \in T
  <2>1. n \in Nat /\ n > 0 /\ n - 1 \in Nat
    BY <1>1
  <2>2. PICK it \in [SUBSET (1..(n - 1)) -> Y] : Good(n - 1, it)
    BY <1>3
  <2>3. PICK g : g = [s \in SUBSET (1..n) |-> IF n \in s THEN F[<<it[s \ {n}], seq[n]>>] ELSE it[s]]
    OBVIOUS
  <2>4. \A s \in SUBSET (1..n) : s \ {n} \in SUBSET (1..(n - 1)) /\ (n \notin s => s \in SUBSET (1..(n - 1)))
    BY <2>1
  <2>5. g \in [SUBSET (1..n) -> Y]
    <3>1. ASSUME NEW s \in SUBSET (1..n) PROVE g[s] \in Y
      <4>1. CASE n \in s
        <5>1. it[s \ {n}] \in Y /\ seq[n] \in X
          BY <1>1, <2>4
        <5> QED
          BY <2>3, <4>1, <5>1
      <4>2. CASE n \notin s
        BY <2>3, <2>4, <4>2
      <4> QED
        BY <4>1, <4>2
    <3> QED
      BY <2>3, <3>1
  <2>6. ASSUME NEW s \in SUBSET (1..n) PROVE g[s] = IF s = {} THEN base ELSE F[<<g[s \ {Max(s)}], seq[Max(s)]>>]
    <3>1. CASE n \in s
      <4>1. Max(s) = n
        <5>1. s \subseteq 0..n /\ s # {}
          BY <2>1, <3>1
        <5>2. Max(s) \in s /\ Max(s) >= n
          BY <2>1, <3>1, <5>1, Largest
        <5>3. Max(s) \in 1..n
          BY <5>2
        <5> QED
          BY <2>1, <5>2, <5>3
      <4>2. g[s] = F[<<it[s \ {n}], seq[n]>>]
        BY <2>3, <3>1
      <4>3. g[s \ {n}] = it[s \ {n}]
        <5>1. n \notin s \ {n} /\ s \ {n} \in SUBSET (1..n)
          OBVIOUS
        <5> QED
          BY <2>3, <5>1
      <4> QED
        BY <3>1, <4>1, <4>2, <4>3
    <3>2. CASE n \notin s
      <4>1. s \in SUBSET (1..(n - 1)) /\ g[s] = it[s]
        BY <2>3, <2>4, <3>2
      <4>2. CASE s = {}
        BY <2>2, <4>1, <4>2
      <4>3. CASE s # {}
        <5>1. s \ {Max(s)} \in SUBSET (1..n) /\ n \notin s \ {Max(s)}
          BY <3>2
        <5>2. g[s \ {Max(s)}] = it[s \ {Max(s)}]
          BY <2>3, <5>1
        <5>3. it[s] = F[<<it[s \ {Max(s)}], seq[Max(s)]>>]
          BY <2>2, <4>1, <4>3
        <5> QED
          BY <4>1, <4>3, <5>2, <5>3
      <4> QED
        BY <4>2, <4>3
    <3> QED
      BY <3>1, <3>2
  <2> QED
    BY <2>1, <2>5, <2>6
<1> HIDE DEF T
<1>4. \A n \in 0..Len(seq) : n \in T
  BY <1>1, <1>2, <1>3, InductionUpTo
<1>5. Len(seq) \in T
  BY <1>1, <1>4
<1>6. PICK it \in [SUBSET DOMAIN seq -> Y] : Good(Len(seq), it)
  BY <1>1, <1>5 DEF T
<1>7. ASSUME NEW s \in SUBSET DOMAIN seq, s # {}
      PROVE  /\ Max(s) \in DOMAIN seq /\ seq[Max(s)] \in X /\ it[s \ {Max(s)}] \in Y
             /\ it[s] = F[<<it[s \ {Max(s)}], seq[Max(s)]>>]
  <2>1. s \subseteq 0..Len(seq)
    BY <1>1
  <2>2. Max(s) \in s
    BY <1>1, <1>7, <2>1, Largest
  <2> QED
    BY <1>1, <1>6, <1>7, <2>2
<1>8. it[{}] = base /\ it = [s \in SUBSET DOMAIN seq |-> it[s]]
  BY <1>1, <1>6
<1> QED
  BY <1>7, <1>8 DEF Folding

LEMMA FoldSteps ==
  ASSUME NEW X, NEW seq \in Seq(X), NEW iter
  PROVE  \E f : Beginnings(f, iter, seq)
<1>1. PICK N \in Nat : N = Len(seq) /\ DOMAIN seq = 1..N
  BY LenProperties
<1> DEFINE f == [k \in 0..N |-> iter[1..k]]
<1>2. 1..0 = {} /\ 0 \in 0..N /\ N \in 0..N
  OBVIOUS
<1>3. f[0] = iter[{}] /\ f[N] = iter[1..N]
  BY <1>2
<1>4. ASSUME NEW k \in 1..N
      PROVE  /\ f[k] = iter[1..k] /\ 1..k \in SUBSET (1..N) /\ 1..k # {}
             /\ f[k - 1] = iter[(1..k) \ {Max(1..k)}] /\ Max(1..k) = k
  <2>1. Max(1..k) = k /\ (1..k) \ {k} = 1..(k - 1)
    BY LargestUpTo
  <2>2. k \in 0..N /\ k - 1 \in 0..N
    OBVIOUS
  <2>3. f[k] = iter[1..k] /\ f[k - 1] = iter[1..(k - 1)]
    BY <2>2
  <2>4. 1..k \in SUBSET (1..N) /\ 1..k # {}
    OBVIOUS
  <2> QED
    BY <2>1, <2>3, <2>4
<1> HIDE DEF f
<1>5. {} \in SUBSET DOMAIN seq
  OBVIOUS
<1> QED
  BY <1>1, <1>3, <1>4, <1>5 DEF Beginnings

-----------------------------------------------------------------------------
(***************************************************************************)
(* Finite sets of numbers; beginnings and ends of sequences.               *)
(***************************************************************************)

\* Finitely many numbers have a largest.
LEMMA LargestOfFinite ==
  ASSUME NEW S, S \subseteq Nat, IsFiniteSet(S), S # {}
  PROVE  Max(S) \in S /\ \A x \in S : Max(S) >= x
<1>1. PICK n \in Nat : \E f : f \in Surjection(1..n, S)
  <2>1. PICK n \in Nat : ExistsSurjection(1..n, S)
    BY FS_NatSurjection
  <2> QED
    BY <2>1 DEF ExistsSurjection
<1>2. PICK f : f \in Surjection(1..n, S)
  BY <1>1
<1>3. f \in [1..n -> S] /\ \A x \in S : \E i \in 1..n : f[i] = x
  BY <1>2 DEF Surjection
<1> DEFINE T == {k \in Nat : \E b \in Nat : \A i \in 1..k : i <= n => f[i] <= b}
<1>4. 0 \in T
  <2>1. \A i \in 1..0 : i <= n => f[i] <= 0
    OBVIOUS
  <2> QED
    BY <2>1
<1>5. ASSUME NEW k \in 1..n, k - 1 \in T PROVE k \in T
  <2>1. PICK b \in Nat : \A i \in 1..(k - 1) : i <= n => f[i] <= b
    BY <1>5
  <2>2. f[k] \in Nat
    BY <1>3
  <2>3. b + f[k] \in Nat /\ \A i \in 1..k : i <= n => f[i] <= b + f[k]
    <3> SUFFICES ASSUME NEW i \in 1..k, i <= n PROVE f[i] <= b + f[k]
      BY <2>2
    <3>1. CASE i = k
      BY <2>2, <3>1
    <3>2. CASE i # k
      <4>1. i \in 1..(k - 1) /\ f[i] \in Nat
        <5>1. i \in 1..(k - 1) /\ i \in 1..n
          BY <3>2
        <5> QED
          BY <1>3, <5>1
      <4>2. f[i] <= b
        BY <2>1, <4>1
      <4> QED
        BY <2>2, <4>1, <4>2
    <3> QED
      BY <3>1, <3>2
  <2> QED
    BY <2>3
<1>6. PICK b \in Nat : \A i \in 1..n : f[i] <= b
  <2> HIDE DEF T
  <2>1. \A k \in 0..n : k \in T
    BY <1>4, <1>5, InductionUpTo
  <2>2. n \in T
    BY <2>1
  <2> QED
    BY <2>2 DEF T
<1>7. S \subseteq 0..b
  <2> SUFFICES ASSUME NEW x \in S PROVE x \in 0..b
    OBVIOUS
  <2>1. PICK i \in 1..n : f[i] = x
    BY <1>3
  <2> QED
    BY <1>6, <2>1
<1> QED
  BY <1>7, Largest

\* The beginning of a sequence.
LEMMA SubSeqLaw ==
  ASSUME NEW S, NEW p \in Seq(S), NEW n \in 0..Len(p)
  PROVE  /\ SubSeq(p, 1, n) \in Seq(S) /\ Len(SubSeq(p, 1, n)) = n
         /\ \A i \in 1..n : SubSeq(p, 1, n)[i] = p[i]
  BY LenProperties

\* The beginning of a beginning.
LEMMA SubSubLaw ==
  ASSUME NEW S, NEW p \in Seq(S), NEW n \in 0..Len(p), NEW m \in 0..n
  PROVE  SubSeq(SubSeq(p, 1, n), 1, m) = SubSeq(p, 1, m)
<1>1. PICK N \in Nat : N = Len(p)
  BY LenProperties
<1>2. PICK a, b, c : a = SubSeq(p, 1, n) /\ b = SubSeq(a, 1, m) /\ c = SubSeq(p, 1, m)
  OBVIOUS
<1>3. a \in Seq(S) /\ Len(a) = n /\ \A i \in 1..n : a[i] = p[i]
  BY <1>2, SubSeqLaw
<1>4. b \in Seq(S) /\ Len(b) = m /\ \A i \in 1..m : b[i] = a[i]
  BY <1>2, <1>3, SubSeqLaw
<1>5. c \in Seq(S) /\ Len(c) = m /\ \A i \in 1..m : c[i] = p[i]
  <2>1. m \in 0..Len(p)
    BY <1>1
  <2> QED
    BY <1>2, <2>1, SubSeqLaw
<1>6. \A i \in 1..Len(b) : b[i] = c[i]
  <2>1. \A i \in 1..m : i \in 1..n
    BY <1>1
  <2> QED
    BY <1>3, <1>4, <1>5, <2>1
<1> QED
  BY <1>2, <1>4, <1>5, <1>6, SeqEqual

\* All but the last element.
LEMMA FrontLaw ==
  ASSUME NEW S, NEW p \in Seq(S), p # <<>>
  PROVE  /\ Front(p) = SubSeq(p, 1, Len(p) - 1) /\ Len(p) - 1 \in 0..Len(p)
         /\ Front(p) \in Seq(S) /\ Len(Front(p)) = Len(p) - 1
<1>1. PICK N \in Nat : N = Len(p)
  BY LenProperties
<1>2. N # 0
  BY <1>1, EmptySeq
<1>3. N - 1 \in 0..Len(p)
  BY <1>1, <1>2
<1>4. Front(p) = SubSeq(p, 1, N - 1)
  BY <1>1 DEF Front
<1>5. SubSeq(p, 1, N - 1) \in Seq(S) /\ Len(SubSeq(p, 1, N - 1)) = N - 1
  BY <1>3, SubSeqLaw
<1> QED
  BY <1>1, <1>3, <1>4, <1>5

\* IsSuffix, element by element.
LEMMA SuffixMeans ==
  ASSUME NEW S, NEW s \in Seq(S), NEW t \in Seq(S)
  PROVE  IsSuffix(s, t) <=> /\ Len(s) <= Len(t)
                            /\ \A i \in 1..Len(s) : s[i] = t[Len(t) - Len(s) + i]
<1>1. PICK M \in Nat : M = Len(s)
  BY LenProperties
<1>2. PICK N \in Nat : N = Len(t)
  BY LenProperties
<1>3. PICK a : a = Reverse(s)
  OBVIOUS
<1>4. PICK b : b = Reverse(t)
  OBVIOUS
<1>5. a \in Seq(S) /\ Len(a) = M /\ \A i \in 1..M : a[i] = s[(M - i) + 1]
  <2>1. a = [i \in 1..M |-> s[(M - i) + 1]]
    BY <1>1, <1>3 DEF Reverse
  <2>2. \A i \in 1..M : s[(M - i) + 1] \in S
    <3> SUFFICES ASSUME NEW i \in 1..M PROVE s[(M - i) + 1] \in S
      OBVIOUS
    <3>1. (M - i) + 1 \in 1..Len(s)
      BY <1>1
    <3> QED
      BY <3>1, ElementOfSeq
  <2> QED
    BY <2>1, <2>2
<1>6. b \in Seq(S) /\ Len(b) = N /\ \A i \in 1..N : b[i] = t[(N - i) + 1]
  <2>1. b = [i \in 1..N |-> t[(N - i) + 1]]
    BY <1>2, <1>4 DEF Reverse
  <2>2. \A i \in 1..N : t[(N - i) + 1] \in S
    <3> SUFFICES ASSUME NEW i \in 1..N PROVE t[(N - i) + 1] \in S
      OBVIOUS
    <3>1. (N - i) + 1 \in 1..Len(t)
      BY <1>2
    <3> QED
      BY <3>1, ElementOfSeq
  <2> QED
    BY <2>1, <2>2
<1>7. IsSuffix(s, t) <=> M <= N /\ SubSeq(a, 1, M) = SubSeq(b, 1, M)
  BY <1>3, <1>4, <1>5, <1>6 DEF IsSuffix, IsPrefix
<1>8. ASSUME M <= N
      PROVE  SubSeq(a, 1, M) = SubSeq(b, 1, M) <=> \A i \in 1..M : s[i] = t[N - M + i]
  <2>1. PICK x : x = SubSeq(a, 1, M)
    OBVIOUS
  <2>2. PICK y : y = SubSeq(b, 1, M)
    OBVIOUS
  <2>3. M \in 0..Len(a) /\ M \in 0..Len(b)
    BY <1>5, <1>6, <1>8
  <2>4. x \in Seq(S) /\ Len(x) = M /\ \A i \in 1..M : x[i] = a[i]
    BY <1>5, <2>1, <2>3, SubSeqLaw
  <2>5. y \in Seq(S) /\ Len(y) = M /\ \A i \in 1..M : y[i] = b[i]
    BY <1>6, <2>2, <2>3, SubSeqLaw
  <2>6. \A i \in 1..M : a[i] = s[(M - i) + 1] /\ b[i] = t[(N - i) + 1]
    BY <1>5, <1>6, <1>8
  <2>7. x = y <=> \A i \in 1..M : s[(M - i) + 1] = t[(N - i) + 1]
    <3>1. ASSUME x = y, NEW i \in 1..M PROVE s[(M - i) + 1] = t[(N - i) + 1]
      <4>1. x[i] = a[i] /\ y[i] = b[i] /\ x[i] = y[i]
        BY <2>4, <2>5, <3>1
      <4>2. a[i] = s[(M - i) + 1] /\ b[i] = t[(N - i) + 1]
        BY <2>6
      <4> QED
        BY <4>1, <4>2
    <3>2. ASSUME \A i \in 1..M : s[(M - i) + 1] = t[(N - i) + 1] PROVE x = y
      <4>1. \A i \in 1..Len(x) : x[i] = y[i]
        BY <2>4, <2>5, <2>6, <3>2
      <4> QED
        BY <2>4, <2>5, <4>1, SeqEqual
    <3> QED
      BY <3>1, <3>2
  <2>8. ASSUME \A i \in 1..M : s[(M - i) + 1] = t[(N - i) + 1], NEW i \in 1..M PROVE s[i] = t[N - M + i]
    <3>1. PICK j \in 1..M : j = M + 1 - i
      OBVIOUS
    <3>2. (M - j) + 1 = i /\ (N - j) + 1 = N - M + i
      BY <3>1
    <3> QED
      BY <2>8, <3>1, <3>2
  <2>9. ASSUME \A i \in 1..M : s[i] = t[N - M + i], NEW i \in 1..M PROVE s[(M - i) + 1] = t[(N - i) + 1]
    <3>1. PICK j \in 1..M : j = (M - i) + 1
      OBVIOUS
    <3>2. N - M + j = (N - i) + 1
      BY <3>1
    <3> QED
      BY <2>9, <3>1, <3>2
  <2> QED
    BY <2>1, <2>2, <2>7, <2>8, <2>9
<1> QED
  BY <1>1, <1>2, <1>7, <1>8

\* Suffixes, when both sequences grow.
LEMMA SuffixLaw ==
  ASSUME NEW S, NEW s \in Seq(S), NEW t \in Seq(S)
  PROVE  /\ IsSuffix(s, s) /\ IsSuffix(<<>>, t)
         /\ \A x \in S : IsSuffix(s, t) => IsSuffix(Append(s, x), Append(t, x))
<1> PICK none : none = <<>>
  OBVIOUS
<1>1. PICK M \in Nat : M = Len(s)
  BY LenProperties
<1>2. PICK N \in Nat : N = Len(t)
  BY LenProperties
<1>3. IsSuffix(s, s)
  <2>1. Len(s) <= Len(s) /\ \A i \in 1..Len(s) : s[i] = s[Len(s) - Len(s) + i]
    BY <1>1
  <2> QED
    BY <2>1, SuffixMeans
<1>4. IsSuffix(none, t)
  <2>1. none \in Seq(S)
    OBVIOUS
  <2>2. Len(none) <= Len(t) /\ \A i \in 1..Len(none) : none[i] = t[Len(t) - Len(none) + i]
    BY <1>2
  <2> QED
    BY <2>1, <2>2, SuffixMeans
<1>5. ASSUME NEW x \in S, IsSuffix(s, t) PROVE IsSuffix(Append(s, x), Append(t, x))
  <2>1. M <= N /\ \A i \in 1..M : s[i] = t[N - M + i]
    BY <1>1, <1>2, <1>5, SuffixMeans
  <2>2. PICK u : u = Append(s, x)
    OBVIOUS
  <2>3. PICK v : v = Append(t, x)
    OBVIOUS
  <2>4. u \in Seq(S) /\ Len(u) = M + 1 /\ u[M + 1] = x /\ \A i \in 1..M : u[i] = s[i]
    BY <1>1, <2>2, AppendProperties
  <2>5. v \in Seq(S) /\ Len(v) = N + 1 /\ v[N + 1] = x /\ \A i \in 1..N : v[i] = t[i]
    BY <1>2, <2>3, AppendProperties
  <2>6. ASSUME NEW i \in 1..(M + 1) PROVE u[i] = v[(N + 1) - (M + 1) + i]
    <3>1. CASE i = M + 1
      <4>1. (N + 1) - (M + 1) + i = N + 1
        BY <3>1
      <4> QED
        BY <2>4, <2>5, <3>1, <4>1
    <3>2. CASE i # M + 1
      <4>1. i \in 1..M /\ (N + 1) - (M + 1) + i = N - M + i /\ N - M + i \in 1..N
        BY <2>1, <3>2
      <4> QED
        BY <2>1, <2>4, <2>5, <4>1
    <3> QED
      BY <3>1, <3>2
  <2>7. Len(u) <= Len(v) /\ \A i \in 1..Len(u) : u[i] = v[Len(v) - Len(u) + i]
    BY <2>1, <2>4, <2>5, <2>6
  <2>8. IsSuffix(u, v)
    BY <2>4, <2>5, <2>7, SuffixMeans
  <2> QED
    BY <2>2, <2>3, <2>8
<1> QED
  BY <1>3, <1>4, <1>5

=============================================================================

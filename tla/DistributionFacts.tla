------------------------- MODULE DistributionFacts -------------------------
(***************************************************************************)
(* What the arithmetic of Distribution does for every int size, every      *)
(* number of elements and every number of processes: div_range cuts a      *)
(* vector into consecutive ranges, a loop that skips elements keeps the    *)
(* others in order, and gather_distr_parts keeps the parts of every        *)
(* process.  The proofs of the modules that use Distribution cite these    *)
(* facts.                                                                  *)
(***************************************************************************)
EXTENDS Distribution, SequenceFacts, FiniteSetTheorems

(***************************************************************************)
(* Ranges.                                                                 *)
(***************************************************************************)

\* Division with remainder, as the SMT solver knows it.
LEMMA DivMod ==
    ASSUME NEW n \in Nat, NEW p \in Nat \ {0}
    PROVE  n \div p \in Nat /\ n % p \in Nat /\ n % p < p /\ n = p * (n \div p) + (n % p)
  OBVIOUS

\* A product of naturals grows with its factors.
LEMMA ProductGrows ==
    ASSUME NEW x \in Nat, NEW y \in Nat, NEW z \in Nat, x <= y
    PROVE  x * z \in Nat /\ x * z <= y * z
  <1>1. PICK d \in Nat : y = x + d
    <2>1. y - x \in Nat /\ y = x + (y - x)
      OBVIOUS
    <2>. QED
      BY <2>1
  <1>2. y * z = x * z + d * z
    BY <1>1
  <1>3. d * z \in Nat /\ x * z \in Nat
    BY <1>1
  <1>. QED
    BY <1>2, <1>3

\* An int and an unsigned long keep the values they can hold.
LEMMA SmallIsKept ==
    ASSUME NEW x \in 0..IntMax
    PROVE  ToInt(x) = x /\ ToULong(x) = x
  <1>1. IntMax \in Nat /\ x \in Nat /\ x <= IntMax
    BY IntMaxAssumption
  <1>2. ToInt(x) = x
    BY <1>1 DEF ToInt
  <1>3. Word \in Nat /\ x < Word
    BY <1>1 DEF Word
  <1>4. 1 * Word <= Word * Word
    BY <1>1, <1>3, ProductGrows
  <1>5. x < Word * Word
    BY <1>1, <1>3, <1>4
  <1>. QED
    BY <1>1, <1>2, <1>5 DEF ToULong

(***************************************************************************)
(* Where the elements of process s of p begin: s blocks of n \div p        *)
(* elements and one element more for each of the first n % p processes.    *)
(***************************************************************************)
Start(n, s, p) == s * (n \div p) + (IF s < n % p THEN s ELSE n % p)

\* The processes start in the vector, the first at 0 and one past the last at n.
LEMMA StartFacts ==
    ASSUME NEW n \in Nat, NEW p \in Nat \ {0}
    PROVE  /\ Start(n, 0, p) = 0
           /\ Start(n, p, p) = n
           /\ \A s \in 0..p : Start(n, s, p) \in 0..n
           /\ \A s \in 0..(p - 1) : Start(n, s + 1, p) - Start(n, s, p) = (n \div p) + (IF s < n % p THEN 1 ELSE 0)
  <1>. DEFINE b == n \div p
              r == n % p
  <1>1. b \in Nat /\ r \in Nat /\ r < p /\ n = p * b + r
    BY DivMod
  <1>. HIDE DEF b, r
  <1>2. \A s : Start(n, s, p) = s * b + (IF s < r THEN s ELSE r)
    BY DEF Start, b, r
  <1>3. Start(n, 0, p) = 0
    BY <1>1, <1>2
  <1>4. Start(n, p, p) = n
    BY <1>1, <1>2
  <1>5. ASSUME NEW s \in 0..p PROVE Start(n, s, p) \in 0..n
    <2>1. s * b \in Nat /\ s * b <= p * b
      BY <1>1, ProductGrows
    <2>2. p * b \in Nat
      BY <1>1
    <2>. DEFINE m == IF s < r THEN s ELSE r
    <2>3. m \in Nat /\ m <= r
      BY <1>1
    <2>. HIDE DEF m
    <2>4. Start(n, s, p) = s * b + m
      BY <1>2 DEF m
    <2>. QED
      BY <1>1, <2>1, <2>2, <2>3, <2>4
  <1>6. ASSUME NEW s \in 0..(p - 1)
        PROVE  Start(n, s + 1, p) - Start(n, s, p) = b + (IF s < r THEN 1 ELSE 0)
    <2>1. (s + 1) * b = s * b + b /\ s * b \in Nat
      BY <1>1
    <2>2. Start(n, s, p) = s * b + (IF s < r THEN s ELSE r)
      BY <1>2
    <2>3. Start(n, s + 1, p) = s * b + b + (IF s + 1 < r THEN s + 1 ELSE r)
      BY <1>2, <2>1
    <2>. QED
      BY <1>1, <2>1, <2>2, <2>3
  <1>. QED
    BY <1>3, <1>4, <1>5, <1>6 DEF b, r

\* div_range computes those places without a wrap when n is an int.
LEMMA RangeIs ==
    ASSUME NEW n \in 0..IntMax, NEW p \in Nat \ {0}, NEW s \in 0..(p - 1)
    PROVE  Beg(n, s, p) = Start(n, s, p) /\ End(n, s, p) = Start(n, s + 1, p)
  <1>. DEFINE b == n \div p
              r == n % p
  <1>0. IntMax \in Nat /\ n \in Nat /\ n <= IntMax /\ s \in Nat /\ s < p
    BY IntMaxAssumption
  <1>1. b \in Nat /\ r \in Nat /\ r < p /\ n = p * b + r
    BY <1>0, DivMod
  <1>2. /\ Start(n, s, p) \in 0..n
        /\ Start(n, s + 1, p) \in 0..n
        /\ Start(n, s + 1, p) - Start(n, s, p) = b + (IF s < r THEN 1 ELSE 0)
    <2>1. s \in 0..p /\ s + 1 \in 0..p
      BY <1>0
    <2>. QED
      BY <1>0, <2>1, StartFacts
  <1>3. Start(n, s, p) = s * b + (IF s < r THEN s ELSE r)
    BY DEF Start
  <1>4. Block(n, p) = ToInt(b) /\ Rem(n, p) = ToInt(r)
    BY DEF Block, Rem
  <1>. HIDE DEF b, r
  <1>5. p * b \in Nat /\ 1 * b <= p * b
    BY <1>1, ProductGrows
  <1>6. Block(n, p) = b /\ Rem(n, p) = r
    <2>1. b \in 0..IntMax /\ r \in 0..IntMax
      BY <1>0, <1>1, <1>5
    <2>. QED
      BY <1>4, <2>1, SmallIsKept
  <1>7. CASE s < r
    <2>1. b + 1 \in 0..IntMax
      BY <1>0, <1>1, <1>5, <1>7
    <2>2. ToInt(Block(n, p) + 1) = b + 1
      BY <1>6, <2>1, SmallIsKept
    <2>3. (b + 1) * s = Start(n, s, p)
      BY <1>0, <1>1, <1>3, <1>7
    <2>4. Start(n, s, p) \in 0..IntMax /\ Start(n, s + 1, p) \in 0..IntMax
      BY <1>0, <1>2
    <2>5. Beg(n, s, p) = Start(n, s, p)
      BY <1>6, <1>7, <2>2, <2>3, <2>4, SmallIsKept DEF Beg
    <2>6. b + 1 + Start(n, s, p) = Start(n, s + 1, p)
      BY <1>0, <1>1, <1>2, <1>7
    <2>7. End(n, s, p) = ToULong(Start(n, s + 1, p))
      BY <1>6, <1>7, <2>2, <2>5, <2>6 DEF End
    <2>. QED
      BY <2>4, <2>5, <2>7, SmallIsKept
  <1>8. CASE ~ (s < r)
    <2>1. (p - s) * b + s * b = p * b /\ (p - s) * b \in Nat /\ s * b \in Nat
      BY <1>0, <1>1
    <2>2. ToInt((p - s) * b) = (p - s) * b
      <3>1. (p - s) * b \in 0..IntMax
        BY <1>0, <1>1, <1>5, <2>1
      <3>. QED
        BY <3>1, SmallIsKept
    <2>3. n - (p - s) * b = Start(n, s, p)
      BY <1>0, <1>1, <1>3, <1>5, <1>8, <2>1
    <2>4. Start(n, s, p) \in 0..IntMax /\ Start(n, s + 1, p) \in 0..IntMax
      BY <1>0, <1>2
    <2>5. Beg(n, s, p) = Start(n, s, p)
      BY <1>6, <1>8, <2>2, <2>3, <2>4, SmallIsKept DEF Beg
    <2>6. b + Start(n, s, p) = Start(n, s + 1, p)
      BY <1>0, <1>1, <1>2, <1>8
    <2>7. End(n, s, p) = ToULong(Start(n, s + 1, p))
      BY <1>6, <1>8, <2>5, <2>6 DEF End
    <2>. QED
      BY <2>4, <2>5, <2>7, SmallIsKept
  <1>. QED
    BY <1>7, <1>8

\* The size of a part is the length of its range.
LEMMA PartSizeIs ==
    ASSUME NEW n \in 0..IntMax, NEW p \in Nat \ {0}, NEW s \in 0..(p - 1)
    PROVE  PartSize(n, s, p) = (n \div p) + (IF s < n % p THEN 1 ELSE 0)
  <1>0. IntMax \in Nat /\ n \in Nat /\ n <= IntMax
    BY IntMaxAssumption
  <1>1. Beg(n, s, p) = Start(n, s, p) /\ End(n, s, p) = Start(n, s + 1, p)
    BY RangeIs
  <1>. DEFINE d == (n \div p) + (IF s < n % p THEN 1 ELSE 0)
  <1>2. d \in Nat
    BY <1>0, DivMod
  <1>3. Start(n, s + 1, p) - Start(n, s, p) = d /\ Start(n, s, p) \in 0..n /\ Start(n, s + 1, p) \in 0..n
    <2>1. s \in 0..p /\ s + 1 \in 0..p
      OBVIOUS
    <2>. QED
      BY <1>0, <2>1, StartFacts
  <1>. HIDE DEF d
  <1>4. d \in 0..IntMax
    BY <1>0, <1>2, <1>3
  <1>5. PartSize(n, s, p) = ToULong(d)
    BY <1>1, <1>3 DEF PartSize
  <1>. QED
    BY <1>4, <1>5, SmallIsKept DEF d

\* The ranges of a vector of n elements on p processes are consecutive, are the
\* whole vector and differ by at most one element (div_range).
THEOREM DivRangeTiles ==
    ASSUME NEW n \in 0..IntMax, NEW p \in Nat \ {0}
    PROVE  /\ Beg(n, 0, p) = 0
           /\ End(n, p - 1, p) = n
           /\ \A s \in 0..(p - 2) : End(n, s, p) = Beg(n, s + 1, p)
           /\ \A s, t \in 0..(p - 1) : PartSize(n, s, p) - PartSize(n, t, p) \in {-1, 0, 1}
  <1>0. n \in Nat /\ 0 \in 0..(p - 1) /\ p - 1 \in 0..(p - 1) /\ (p - 1) + 1 = p
    BY IntMaxAssumption
  <1>1. Start(n, 0, p) = 0 /\ Start(n, p, p) = n
    BY <1>0, StartFacts
  <1>2. Beg(n, 0, p) = 0
    BY <1>0, <1>1, RangeIs
  <1>3. End(n, p - 1, p) = n
    <2>1. End(n, p - 1, p) = Start(n, (p - 1) + 1, p)
      BY <1>0, RangeIs
    <2>. QED
      BY <1>0, <1>1, <2>1
  <1>4. ASSUME NEW s \in 0..(p - 2) PROVE End(n, s, p) = Beg(n, s + 1, p)
    <2>1. s \in 0..(p - 1) /\ s + 1 \in 0..(p - 1)
      OBVIOUS
    <2>2. End(n, s, p) = Start(n, s + 1, p)
      BY <2>1, RangeIs
    <2>3. Beg(n, s + 1, p) = Start(n, s + 1, p)
      BY <2>1, RangeIs
    <2>. QED
      BY <2>2, <2>3
  <1>5. ASSUME NEW s \in 0..(p - 1), NEW t \in 0..(p - 1)
        PROVE  PartSize(n, s, p) - PartSize(n, t, p) \in {-1, 0, 1}
    <2>1. PartSize(n, s, p) = (n \div p) + (IF s < n % p THEN 1 ELSE 0)
      BY PartSizeIs
    <2>2. PartSize(n, t, p) = (n \div p) + (IF t < n % p THEN 1 ELSE 0)
      BY PartSizeIs
    <2>3. n \div p \in Nat
      BY <1>0, DivMod
    <2>. QED
      BY <2>1, <2>2, <2>3
  <1>. QED
    BY <1>2, <1>3, <1>4, <1>5

(***************************************************************************)
(* Chosen.                                                                 *)
(***************************************************************************)
\* A set of naturals has a smallest element.
LEMMA SmallestOf ==
    ASSUME NEW T, T \subseteq Nat, T # {}
    PROVE  \E x \in T : \A y \in T : x <= y
  <1>. DEFINE R == OpToRel(<, Nat)
  <1>1. IsWellFoundedOn(R, Nat)
    BY NatLessThanWellFounded
  <1>2. \A x, y \in Nat : <<x, y>> \in R <=> x < y
    BY DEF OpToRel
  <1>. HIDE DEF R
  <1>3. PICK x \in T : \A y \in T : ~ (<<y, x>> \in R)
    BY <1>1, WFMin
  <1>4. ASSUME NEW y \in T PROVE x <= y
    <2>1. x \in Nat /\ y \in Nat /\ ~ (<<y, x>> \in R)
      BY <1>3
    <2>2. ~ (y < x)
      BY <1>2, <2>1
    <2>. QED
      BY <2>1, <2>2
  <1>. QED
    BY <1>4

\* The k-th place of I is a place of I, the k-th one.
LEMMA NthPlace ==
    ASSUME NEW n \in Nat, NEW I, I \subseteq 1..n, NEW k \in 1..Cardinality(I)
    PROVE  Nth(I, k) \in I /\ Cardinality({j \in I : j <= Nth(I, k)}) = k
  <1>. DEFINE Upto(m) == {j \in I : j <= m}
              T == {m \in 0..n : Cardinality(Upto(m)) >= k}
  <1>0. \A i \in I : i \in Nat /\ i >= 1 /\ i <= n
    OBVIOUS
  <1>1. IsFiniteSet(I) /\ \A m \in Nat : IsFiniteSet(Upto(m)) /\ Cardinality(Upto(m)) \in Nat
    <2>1. IsFiniteSet(1..n)
      BY FS_Interval
    <2>. QED
      BY <2>1, FS_Subset, FS_CardinalityType
  <1>2. Cardinality(I) \in Nat /\ k \in Nat /\ k >= 1
    BY <1>1, FS_CardinalityType
  <1>3. Upto(n) = I /\ Upto(0) = {}
    <2>1. \A j \in I : j <= n /\ ~ (j <= 0)
      BY <1>0
    <2>. QED
      BY <2>1, Zenon
  <1>4. n \in T /\ T \subseteq Nat
    BY <1>2, <1>3
  <1>5. PICK m \in T : \A y \in T : m <= y
    <2>. HIDE DEF T
    <2>. QED
      BY <1>4, SmallestOf
  <1>6. m # 0
    BY <1>2, <1>3, <1>5, FS_EmptySet
  <1>7. m - 1 \in 0..n /\ m \in 1..n /\ m - 1 \notin T /\ Cardinality(Upto(m)) >= k
    <2>1. m \in 0..n /\ Cardinality(Upto(m)) >= k
      OBVIOUS
    <2>2. m - 1 \in 0..n /\ m \in 1..n
      BY <1>6, <2>1
    <2>. HIDE DEF T
    <2>3. m - 1 \notin T
      BY <1>5, <2>2
    <2>. QED
      BY <2>1, <2>2, <2>3
  <1>8. Cardinality(Upto(m - 1)) < k
    <2>1. Cardinality(Upto(m - 1)) \in Nat /\ ~ (Cardinality(Upto(m - 1)) >= k)
      <3>1. m - 1 \in 0..n /\ m - 1 \in Nat /\ m - 1 \notin T
        BY <1>7
      <3>2. Cardinality(Upto(m - 1)) \in Nat
        BY <1>1, <3>1
      <3>. HIDE DEF Upto
      <3>. QED
        BY <3>1, <3>2
    <2>. HIDE DEF Upto, T
    <2>. QED
      BY <1>2, <2>1
  <1>9. m \in I
    <2>. SUFFICES ASSUME m \notin I PROVE FALSE
      OBVIOUS
    <2>1. \A j \in I : j <= m <=> j <= m - 1
      BY <1>0, <1>7
    <2>2. Upto(m) = Upto(m - 1)
      BY <2>1
    <2>. HIDE DEF Upto, T
    <2>. QED
      BY <1>1, <1>2, <1>7, <1>8, <2>2
  <1>10. Upto(m) = Upto(m - 1) \cup {m} /\ m \notin Upto(m - 1)
    <2>1. \A j \in I : j <= m <=> j <= m - 1 \/ j = m
      BY <1>0, <1>7
    <2>2. ~ (m <= m - 1) /\ m <= m
      BY <1>7
    <2>. QED
      BY <1>9, <2>1, <2>2
  <1>11. Cardinality(Upto(m)) = Cardinality(Upto(m - 1)) + 1
    <2>1. m - 1 \in Nat
      BY <1>7
    <2>2. IsFiniteSet(Upto(m - 1))
      BY <1>1, <2>1
    <2>. HIDE DEF Upto, T
    <2>. QED
      BY <1>10, <2>2, FS_AddElement
  <1>12. Cardinality(Upto(m)) = k
    <2>. HIDE DEF Upto, T
    <2>1. Cardinality(Upto(m)) \in Nat /\ Cardinality(Upto(m - 1)) \in Nat
      BY <1>1, <1>7
    <2>. QED
      BY <1>2, <1>7, <1>8, <1>11, <2>1
  <1>. QED
    BY <1>9, <1>12 DEF Nth

\* The elements chosen are elements of the sequence, each at most once.
LEMMA ChosenFacts ==
    ASSUME NEW n \in Nat, NEW I, I \subseteq 1..n, NEW s
    PROVE  /\ Cardinality(I) \in Nat
           /\ Len(Chosen(s, I)) = Cardinality(I)
           /\ IsSeq(Chosen(s, I))
           /\ \A k \in 1..Cardinality(I) : Nth(I, k) \in I /\ Chosen(s, I)[k] = s[Nth(I, k)]
           /\ \A k, l \in 1..Cardinality(I) : k # l => Nth(I, k) # Nth(I, l)
  <1>1. Cardinality(I) \in Nat
    <2>1. IsFiniteSet(1..n)
      BY FS_Interval
    <2>. QED
      BY <2>1, FS_Subset, FS_CardinalityType
  <1>2. Len(Chosen(s, I)) = Cardinality(I) /\ \A k \in 1..Cardinality(I) : Chosen(s, I)[k] = s[Nth(I, k)]
    BY <1>1 DEF Chosen
  <1>3. IsSeq(Chosen(s, I))
    BY <1>1 DEF Chosen, IsSeq
  <1>4. \A k \in 1..Cardinality(I) : Nth(I, k) \in I /\ Cardinality({j \in I : j <= Nth(I, k)}) = k
    BY NthPlace
  <1>5. ASSUME NEW k \in 1..Cardinality(I), NEW l \in 1..Cardinality(I), Nth(I, k) = Nth(I, l)
        PROVE  k = l
    BY <1>4, <1>5
  <1>. QED
    BY <1>1, <1>2, <1>3, <1>4, <1>5

(***************************************************************************)
(* Descriptors.                                                            *)
(***************************************************************************)

(***************************************************************************)
(* The descriptors whose parts the processes of an actor register: p       *)
(* processes with k parts each.                                            *)
(***************************************************************************)
Part == [pid : Int, resid : Int, size : Nat, offset : Nat]
Descriptors(p, k) == [1..p -> [1..k -> Part]]

\* A quotient and a remainder are the only ones.
LEMMA DivUnique ==
    ASSUME NEW d \in Nat \ {0}, NEW q \in Nat, NEW r \in 0..(d - 1)
    PROVE  (d * q + r) \div d = q /\ (d * q + r) % d = r
  <1>. DEFINE n == d * q + r
              a == n \div d
              b == n % d
  <1>1. n \in Nat /\ d * q \in Nat
    OBVIOUS
  <1>2. a \in Nat /\ b \in Nat /\ b < d /\ n = d * a + b
    BY <1>1, DivMod
  <1>3. n = d * q + r
    OBVIOUS
  <1>. HIDE DEF n, a, b
  <1>4. a = q
    <2>1. CASE a > q
      <3>1. d * (a - q) = d * a - d * q
        BY <1>2
      <3>2. 1 * d <= (a - q) * d
        BY <1>2, <2>1, ProductGrows
      <3>. QED
        BY <1>1, <1>2, <1>3, <2>1, <3>1, <3>2
    <2>2. CASE q > a
      <3>1. d * (q - a) = d * q - d * a
        BY <1>2
      <3>2. 1 * d <= (q - a) * d
        BY <1>2, <2>2, ProductGrows
      <3>. QED
        BY <1>1, <1>2, <1>3, <2>2, <3>1, <3>2
    <2>. QED
      BY <1>2, <2>1, <2>2
  <1>5. b = r
    BY <1>1, <1>2, <1>3, <1>4
  <1>. QED
    BY <1>4, <1>5 DEF n, a, b

\* Where the words of a part are in the descriptor of its process.
LEMMA BufWord ==
    ASSUME NEW k \in Nat \ {0}, NEW dv \in [1..k -> Part], NEW i \in 1..k, NEW c \in 0..5
    PROVE  /\ Buf(dv)[1] = 0
           /\ Buf(dv)[2 + 6 * (i - 1) + c] = PartWord(dv[i], c)
  <1>1. Len(dv) = k
    OBVIOUS
  <1>. DEFINE w == 2 + 6 * (i - 1) + c
  <1>2. w \in 0..(1 + 6 * k) /\ w # 0 /\ w # 1 /\ 1 \in 0..(1 + 6 * k) /\ w - 2 = 6 * (i - 1) + c
    OBVIOUS
  <1>3. (w - 2) \div 6 = i - 1 /\ (w - 2) % 6 = c
    <2>1. 6 \in Nat \ {0} /\ i - 1 \in Nat /\ c \in 0..(6 - 1)
      OBVIOUS
    <2>. QED
      BY <1>2, <2>1, DivUnique
  <1>4. (i - 1) + 1 = i
    OBVIOUS
  <1>. HIDE DEF w
  <1>5. Buf(dv)[w] = PartWord(dv[((w - 2) \div 6) + 1], (w - 2) % 6)
    BY <1>1, <1>2 DEF Buf, PartWords
  <1>6. Buf(dv)[1] = 0
    BY <1>1, <1>2 DEF Buf, PartWords
  <1>. QED
    BY <1>3, <1>4, <1>5, <1>6 DEF w

\* The two words of a size or of an offset give it back.
LEMMA PartFromWords ==
    ASSUME NEW part \in Part
    PROVE  [pid |-> PartWord(part, 0), resid |-> PartWord(part, 1),
            size |-> PartWord(part, 2) + Word * PartWord(part, 3),
            offset |-> PartWord(part, 4) + Word * PartWord(part, 5)] = part
  <1>1. Word \in Nat \ {0}
    BY IntMaxAssumption DEF Word
  <1>2. /\ PartWord(part, 0) = part.pid /\ PartWord(part, 1) = part.resid
        /\ PartWord(part, 2) = part.size % Word /\ PartWord(part, 3) = part.size \div Word
        /\ PartWord(part, 4) = part.offset % Word /\ PartWord(part, 5) = part.offset \div Word
    BY DEF PartWord
  <1>3. part.size \in Nat /\ part.offset \in Nat
    BY DEF Part
  <1>4. (part.size % Word) + Word * (part.size \div Word) = part.size
    <2>1. /\ part.size \div Word \in Nat /\ part.size % Word \in Nat
          /\ part.size = Word * (part.size \div Word) + (part.size % Word)
      BY <1>1, <1>3, DivMod
    <2>2. \A x, y \in Int : x + y = y + x
      OBVIOUS
    <2>3. Word * (part.size \div Word) \in Int
      BY <1>1, <2>1
    <2>. QED
      BY <2>1, <2>2, <2>3
  <1>5. (part.offset % Word) + Word * (part.offset \div Word) = part.offset
    <2>1. /\ part.offset \div Word \in Nat /\ part.offset % Word \in Nat
          /\ part.offset = Word * (part.offset \div Word) + (part.offset % Word)
      BY <1>1, <1>3, DivMod
    <2>2. \A x, y \in Int : x + y = y + x
      OBVIOUS
    <2>3. Word * (part.offset \div Word) \in Int
      BY <1>1, <2>1
    <2>. QED
      BY <2>1, <2>2, <2>3
  <1>6. part = [pid |-> part.pid, resid |-> part.resid, size |-> part.size, offset |-> part.offset]
    BY DEF Part
  <1>. QED
    BY <1>2, <1>4, <1>5, <1>6

\* Where gather_distr_parts puts the words of process s.
LEMMA GatheredWord ==
    ASSUME NEW p \in Nat \ {0}, NEW k \in Nat \ {0}, NEW dvs \in Descriptors(p, k),
           NEW s \in 1..p, NEW j \in 0..(6 * k - 1)
    PROVE  /\ GatheredBuf(dvs)[1 + (6 * k) * (s - 1) + j] = Buf(dvs[s])[1 + j]
           /\ GatheredBuf(dvs)[1 + (6 * k) * p] = 0
           /\ GatheredBuf(dvs)[0] = k * p
           /\ DOMAIN GatheredBuf(dvs) = 0..(1 + (6 * k) * p)
  <1>1. Len(dvs) = p /\ Len(dvs[1]) = k
    <2>1. dvs[1] \in [1..k -> Part]
      BY DEF Descriptors
    <2>2. Len(dvs) = p
      BY DEF Descriptors
    <2>3. Len(dvs[1]) = k
      BY <2>1
    <2>. QED
      BY <2>2, <2>3
  <1>. DEFINE z == 6 * k
              w == 1 + z * (s - 1) + j
              l == 1 + z * p
  <1>2. z \in Nat \ {0} /\ s - 1 \in Nat /\ s <= p /\ s \in Nat /\ j \in 0..(z - 1)
    OBVIOUS
  <1>3. w - 1 = z * (s - 1) + j
    BY <1>2
  <1>4. GatheredBuf(dvs) =
            [v \in 0..(1 + z * p) |->
                CASE v = 0 -> k * p
                  [] v \in 1..(1 + z * p - 1) -> Buf(dvs[((v - 1) \div z) + 1])[1 + ((v - 1) % z)]
                  [] OTHER -> 0]
    BY <1>1 DEF GatheredBuf, PartWords, PartsOffset
  <1>. HIDE DEF z
  <1>5. (w - 1) \div z = s - 1 /\ (w - 1) % z = j
    <2>. DEFINE q == s - 1
    <2>1. w - 1 = z * q + j /\ q \in Nat
      BY <1>2, <1>3
    <2>. HIDE DEF w, q
    <2>2. (z * q + j) \div z = q /\ (z * q + j) % z = j
      BY <1>2, <2>1, DivUnique
    <2>. QED
      BY <2>1, <2>2 DEF q
  <1>6. w \in 1..(1 + z * p - 1) /\ z * p \in Nat
    <2>1. s * z <= p * z /\ s * z \in Nat
      BY <1>2, ProductGrows
    <2>2. z * (s - 1) + z = s * z /\ z * (s - 1) \in Nat /\ z * p = p * z
      BY <1>2
    <2>. QED
      BY <1>2, <2>1, <2>2
  <1>. HIDE DEF w, l
  <1>7. w \in 0..(1 + z * p) /\ w # 0
    BY <1>6
  <1>8. GatheredBuf(dvs)[w] = Buf(dvs[((w - 1) \div z) + 1])[1 + ((w - 1) % z)]
    BY <1>4, <1>6, <1>7
  <1>9. (s - 1) + 1 = s
    OBVIOUS
  <1>10. GatheredBuf(dvs)[w] = Buf(dvs[s])[1 + j]
    BY <1>5, <1>8, <1>9
  <1>11. l \in 0..(1 + z * p) /\ l # 0 /\ l \notin 1..(1 + z * p - 1)
    BY <1>6 DEF l
  <1>12. GatheredBuf(dvs)[l] = 0
    BY <1>4, <1>11
  <1>13. GatheredBuf(dvs)[0] = k * p
    BY <1>4, <1>6
  <1>14. DOMAIN GatheredBuf(dvs) = 0..(1 + z * p)
    BY <1>4
  <1>. QED
    BY <1>10, <1>12, <1>13, <1>14 DEF w, l, z

\* A gathered descriptor holds the words of every part, except the high word of
\* the last offset of a process, which is zero.
LEMMA GatheredPartWord ==
    ASSUME NEW p \in Nat \ {0}, NEW k \in Nat \ {0}, NEW dvs \in Descriptors(p, k),
           NEW s \in 1..p, NEW i \in 1..k, NEW c \in 0..5
    PROVE  /\ ~ (i = k /\ c = 5) =>
                GatheredBuf(dvs)[(2 + 6 * ((k * (s - 1) + i) - 1)) + c] = PartWord(dvs[s][i], c)
           /\ i = k /\ c = 5 => GatheredBuf(dvs)[(2 + 6 * ((k * (s - 1) + i) - 1)) + c] = 0
  <1>. DEFINE j == 6 * (i - 1) + 1 + c
              w == (2 + 6 * ((k * (s - 1) + i) - 1)) + c
  <1>1. dvs[s] \in [1..k -> Part]
    BY DEF Descriptors
  <1>2. k * (s - 1) \in Nat /\ (6 * k) * (s - 1) = 6 * (k * (s - 1))
    OBVIOUS
  <1>3. w = 1 + (6 * k) * (s - 1) + j
    BY <1>2
  <1>4. j \in Nat /\ 1 + j = 2 + 6 * (i - 1) + c
    OBVIOUS
  <1>5. CASE ~ (i = k /\ c = 5)
    <2>1. j \in 0..(6 * k - 1)
      BY <1>5
    <2>. HIDE DEF w, j
    <2>2. GatheredBuf(dvs)[w] = Buf(dvs[s])[1 + j]
      BY <1>3, <2>1, GatheredWord
    <2>3. Buf(dvs[s])[2 + 6 * (i - 1) + c] = PartWord(dvs[s][i], c)
      BY <1>1, BufWord
    <2>. QED
      BY <1>4, <1>5, <2>2, <2>3 DEF w
  <1>6. CASE i = k /\ c = 5
    <2>1. w = 1 + (6 * k) * s
      BY <1>2, <1>3, <1>6
    <2>. HIDE DEF w, j
    <2>2. CASE s = p
      <3>1. 0 \in 0..(6 * k - 1)
        OBVIOUS
      <3>2. GatheredBuf(dvs)[1 + (6 * k) * p] = 0
        BY <3>1, GatheredWord
      <3>. QED
        BY <1>6, <2>1, <2>2, <3>2 DEF w
    <2>3. CASE s # p
      <3>. DEFINE q == s + 1
                  z == 0
      <3>1. z \in 0..(6 * k - 1) /\ q \in 1..p /\ 1 + (6 * k) * (q - 1) + z = 1 + (6 * k) * s
        <4>1. q - 1 = s /\ (6 * k) * s \in Nat /\ s \in Nat /\ s < p
          BY <2>3
        <4>. QED
          BY <4>1
      <3>2. 1 + z = 1
        OBVIOUS
      <3>. HIDE DEF q, z
      <3>3. GatheredBuf(dvs)[1 + (6 * k) * (q - 1) + z] = Buf(dvs[q])[1 + z]
        BY <3>1, GatheredWord, ZenonT(40)
      <3>4. Buf(dvs[q])[1] = 0
        <4>1. dvs[q] \in [1..k -> Part]
          BY <3>1 DEF Descriptors
        <4>. QED
          BY <4>1, BufWord
      <3>. QED
        BY <1>6, <2>1, <3>1, <3>2, <3>3, <3>4 DEF w
    <2>. QED
      BY <2>2, <2>3
  <1>. QED
    BY <1>5, <1>6 DEF w

\* How many parts a gathered descriptor has.
LEMMA GatheredMany ==
    ASSUME NEW p \in Nat \ {0}, NEW k \in Nat \ {0}, NEW dvs \in Descriptors(p, k)
    PROVE  /\ GatheredBuf(dvs)[0] = k * p
           /\ DOMAIN GatheredBuf(dvs) = 0..(1 + (6 * k) * p)
           /\ k * p \in Nat
           /\ Gathered(dvs) = [i \in 1..(k * p) |-> GetPart(GatheredBuf(dvs), i)]
           /\ Len(Gathered(dvs)) = k * p
  <1>1. 1 \in 1..p /\ 0 \in 0..(6 * k - 1) /\ k * p \in Nat
    OBVIOUS
  <1>2. GatheredBuf(dvs)[0] = k * p /\ DOMAIN GatheredBuf(dvs) = 0..(1 + (6 * k) * p)
    BY <1>1, GatheredWord
  <1>3. Gathered(dvs) = [i \in 1..(k * p) |-> GetPart(GatheredBuf(dvs), i)]
    BY <1>2 DEF Gathered
  <1>. QED
    BY <1>1, <1>2, <1>3

\* Where the i-th part of process s is in it, and whose part is at a place.
LEMMA GatheredPlace ==
    ASSUME NEW p \in Nat \ {0}, NEW k \in Nat \ {0}
    PROVE  /\ \A s \in 1..p, i \in 1..k : k * (s - 1) + i \in 1..(k * p)
           /\ \A j \in 1..(k * p) : \E s \in 1..p, i \in 1..k : j = k * (s - 1) + i
           /\ \A s, t \in 1..p, i, j \in 1..k : k * (s - 1) + i = k * (t - 1) + j => s = t /\ i = j
  <1>1. ASSUME NEW s \in 1..p, NEW i \in 1..k
        PROVE  k * (s - 1) + i \in 1..(k * p)
    <2>1. s * k <= p * k /\ s * k \in Nat
      BY ProductGrows
    <2>2. k * (s - 1) + k = s * k /\ k * (s - 1) \in Nat /\ k * p = p * k
      OBVIOUS
    <2>. QED
      BY <2>1, <2>2
  <1>2. ASSUME NEW j \in 1..(k * p)
        PROVE  \E s \in 1..p, i \in 1..k : j = k * (s - 1) + i
    <2>. DEFINE q == (j - 1) \div k
                r == (j - 1) % k
    <2>1. q \in Nat /\ r \in Nat /\ r < k /\ j - 1 = k * q + r
      BY DivMod
    <2>. HIDE DEF q, r
    <2>2. q < p
      <3>. SUFFICES ASSUME q >= p PROVE FALSE
        BY <2>1
      <3>1. p * k <= q * k /\ p * k \in Nat
        BY <2>1, ProductGrows
      <3>2. p * k = k * p /\ q * k = k * q
        BY <2>1
      <3>3. k * q \in Nat /\ j \in Nat /\ j <= k * p
        BY <2>1
      <3>. QED
        BY <2>1, <3>1, <3>2, <3>3
    <2>3. q + 1 \in 1..p /\ r + 1 \in 1..k /\ (q + 1) - 1 = q
      BY <2>1, <2>2
    <2>4. j = k * ((q + 1) - 1) + (r + 1)
      BY <2>1, <2>3
    <2>. QED
      BY <2>3, <2>4
  <1>3. ASSUME NEW s \in 1..p, NEW t \in 1..p, NEW i \in 1..k, NEW j \in 1..k,
               k * (s - 1) + i = k * (t - 1) + j
        PROVE  s = t /\ i = j
    <2>1. k * (s - 1) + (i - 1) = k * (t - 1) + (j - 1)
      BY <1>3
    <2>2. s - 1 \in Nat /\ t - 1 \in Nat /\ i - 1 \in 0..(k - 1) /\ j - 1 \in 0..(k - 1)
      OBVIOUS
    <2>3. (k * (s - 1) + (i - 1)) \div k = s - 1 /\ (k * (s - 1) + (i - 1)) % k = i - 1
      BY <2>2, DivUnique
    <2>4. (k * (t - 1) + (j - 1)) \div k = t - 1 /\ (k * (t - 1) + (j - 1)) % k = j - 1
      BY <2>2, DivUnique
    <2>. QED
      BY <2>1, <2>3, <2>4
  <1>. QED
    BY <1>1, <1>2, <1>3

\* The words of a part in the gathered descriptor, one by one.
LEMMA GatheredPart ==
    ASSUME NEW p \in Nat \ {0}, NEW k \in Nat \ {0}, NEW dvs \in Descriptors(p, k),
           NEW s \in 1..p, NEW i \in 1..k
    PROVE  Gathered(dvs)[k * (s - 1) + i] =
                [pid |-> PartWord(dvs[s][i], 0), resid |-> PartWord(dvs[s][i], 1),
                 size |-> PartWord(dvs[s][i], 2) + Word * PartWord(dvs[s][i], 3),
                 offset |-> PartWord(dvs[s][i], 4) + Word * (IF i = k THEN 0 ELSE PartWord(dvs[s][i], 5))]
  <1>. DEFINE at == 2 + 6 * ((k * (s - 1) + i) - 1)
              buf == GatheredBuf(dvs)
              part == dvs[s][i]
  <1>1. k * (s - 1) + i \in 1..(k * p)
    BY GatheredPlace
  <1>2. Gathered(dvs)[k * (s - 1) + i] = GetPart(buf, k * (s - 1) + i)
    BY <1>1, GatheredMany
  <1>3. GetPart(buf, k * (s - 1) + i) =
            [pid |-> buf[at], resid |-> buf[at + 1], size |-> buf[at + 2] + Word * buf[at + 3],
             offset |-> buf[at + 4] + Word * buf[at + 5]]
    BY DEF GetPart, PartWords
  <1>4. ASSUME NEW c \in 0..5
        PROVE  (~ (i = k /\ c = 5) => buf[at + c] = PartWord(part, c)) /\ (i = k /\ c = 5 => buf[at + c] = 0)
    BY GatheredPartWord, ZenonT(30)
  <1>5. at = at + 0
    <2>1. k * (s - 1) \in Nat
      OBVIOUS
    <2>. QED
      BY <2>1
  <1>. HIDE DEF at, buf, part
  <1>6. /\ buf[at] = PartWord(part, 0) /\ buf[at + 1] = PartWord(part, 1) /\ buf[at + 2] = PartWord(part, 2)
        /\ buf[at + 3] = PartWord(part, 3) /\ buf[at + 4] = PartWord(part, 4)
        /\ buf[at + 5] = IF i = k THEN 0 ELSE PartWord(part, 5)
    BY <1>4, <1>5
  <1>. QED
    BY <1>2, <1>3, <1>6 DEF part

\* Whatever the offsets are, a gathered part is of the process and under the key
\* its process registered, and has its size.
LEMMA GatheredKeys ==
    ASSUME NEW p \in Nat \ {0}, NEW k \in Nat \ {0}, NEW dvs \in Descriptors(p, k),
           NEW s \in 1..p, NEW i \in 1..k
    PROVE  LET part == Gathered(dvs)[k * (s - 1) + i]
           IN  part \in Part /\ part.pid = dvs[s][i].pid /\ part.resid = dvs[s][i].resid
               /\ part.size = dvs[s][i].size
  <1>. DEFINE whole == dvs[s][i]
              part == Gathered(dvs)[k * (s - 1) + i]
  <1>1. whole \in Part
    BY DEF Descriptors
  <1>2. part = [pid |-> PartWord(whole, 0), resid |-> PartWord(whole, 1),
                size |-> PartWord(whole, 2) + Word * PartWord(whole, 3),
                offset |-> PartWord(whole, 4) + Word * (IF i = k THEN 0 ELSE PartWord(whole, 5))]
    BY GatheredPart
  <1>. HIDE DEF whole, part
  <1>3. /\ [pid |-> PartWord(whole, 0), resid |-> PartWord(whole, 1),
            size |-> PartWord(whole, 2) + Word * PartWord(whole, 3),
            offset |-> PartWord(whole, 4) + Word * PartWord(whole, 5)] = whole
    BY <1>1, PartFromWords
  <1>4. part.pid = whole.pid /\ part.resid = whole.resid /\ part.size = whole.size
    <2>1. /\ part.pid = PartWord(whole, 0) /\ part.resid = PartWord(whole, 1)
          /\ part.size = PartWord(whole, 2) + Word * PartWord(whole, 3)
      BY <1>2
    <2>2. /\ whole.pid = PartWord(whole, 0) /\ whole.resid = PartWord(whole, 1)
          /\ whole.size = PartWord(whole, 2) + Word * PartWord(whole, 3)
      BY <1>3
    <2>. QED
      BY <2>1, <2>2
  <1>5. part.offset \in Nat
    <2>1. PartWord(whole, 4) = whole.offset % Word /\ PartWord(whole, 5) = whole.offset \div Word
      BY DEF PartWord
    <2>2. Word \in Nat \ {0} /\ whole.offset \in Nat
      BY <1>1, IntMaxAssumption DEF Part, Word
    <2>3. PartWord(whole, 4) \in Nat /\ PartWord(whole, 5) \in Nat
      BY <2>1, <2>2, DivMod
    <2>4. (IF i = k THEN 0 ELSE PartWord(whole, 5)) \in Nat
      BY <2>3
    <2>5. part.offset = PartWord(whole, 4) + Word * (IF i = k THEN 0 ELSE PartWord(whole, 5))
      BY <1>2
    <2>. DEFINE hi == IF i = k THEN 0 ELSE PartWord(whole, 5)
    <2>. HIDE DEF hi
    <2>6. Word * hi \in Nat
      BY <2>2, <2>4 DEF hi
    <2>. QED
      BY <2>3, <2>5, <2>6 DEF hi
  <1>6. part \in Part
    <2>1. whole.pid \in Int /\ whole.resid \in Int /\ whole.size \in Nat
      BY <1>1 DEF Part
    <2>. DEFINE a == part.pid
                b == part.resid
                c == part.size
                d == part.offset
    <2>2. part = [pid |-> a, resid |-> b, size |-> c, offset |-> d]
      BY <1>2, Zenon
    <2>3. a \in Int /\ b \in Int /\ c \in Nat /\ d \in Nat
      BY <1>4, <1>5, <2>1
    <2>. HIDE DEF a, b, c, d
    <2>. QED
      BY <2>2, <2>3 DEF Part
  <1>. QED
    BY <1>4, <1>6 DEF whole, part

\* The head has the parts of every process in the order of the processes, and a
\* receiver counts them from the length of the message, provided that the last
\* offset of each process fits in one word (gather_distr_parts, receiveDistrVector).
THEOREM GatherKeepsParts ==
    ASSUME NEW p \in Nat \ {0}, NEW k \in Nat \ {0}, NEW dvs \in Descriptors(p, k),
           \A s \in 1..p : dvs[s][k].offset < Word
    PROVE  /\ Len(Gathered(dvs)) = k * p
           /\ \A s \in 1..p, i \in 1..k : Gathered(dvs)[k * (s - 1) + i] = dvs[s][i]
           /\ ReceivedParts(Cardinality(DOMAIN GatheredBuf(dvs))) = k * p
  <1>1. /\ GatheredBuf(dvs)[0] = k * p
        /\ DOMAIN GatheredBuf(dvs) = 0..(1 + (6 * k) * p)
        /\ k * p \in Nat
        /\ Len(Gathered(dvs)) = k * p
    BY GatheredMany
  <1>2. ASSUME NEW s \in 1..p, NEW i \in 1..k
        PROVE  Gathered(dvs)[k * (s - 1) + i] = dvs[s][i]
    <2>. DEFINE part == dvs[s][i]
    <2>1. part \in Part
      BY DEF Descriptors
    <2>2. Gathered(dvs)[k * (s - 1) + i] =
            [pid |-> PartWord(part, 0), resid |-> PartWord(part, 1),
             size |-> PartWord(part, 2) + Word * PartWord(part, 3),
             offset |-> PartWord(part, 4) + Word * (IF i = k THEN 0 ELSE PartWord(part, 5))]
      BY GatheredPart
    <2>3. ASSUME i = k
          PROVE  PartWord(part, 5) = 0
      <3>1. PartWord(part, 5) = part.offset \div Word
        BY DEF PartWord
      <3>2. part.offset \in Nat /\ part.offset < Word
        BY <2>1, <2>3 DEF Part
      <3>3. Word \in Nat \ {0}
        BY IntMaxAssumption DEF Word
      <3>4. part.offset = Word * 0 + part.offset /\ part.offset \in 0..(Word - 1)
        BY <3>2, <3>3
      <3>5. part.offset \div Word = 0
        <4>. DEFINE o == part.offset
        <4>1. (Word * 0 + o) \div Word = 0
          BY <3>3, <3>4, DivUnique
        <4>. QED
          BY <3>4, <4>1
      <3>. QED
        BY <3>1, <3>5
    <2>. HIDE DEF part
    <2>4. (IF i = k THEN 0 ELSE PartWord(part, 5)) = PartWord(part, 5)
      BY <2>3
    <2>. QED
      BY <2>1, <2>2, <2>4, PartFromWords DEF part
  <1>3. ReceivedParts(Cardinality(DOMAIN GatheredBuf(dvs))) = k * p
    <2>. DEFINE m == k * p
    <2>1. (6 * k) * p = 6 * m
      OBVIOUS
    <2>2. m \in Nat
      BY <1>1
    <2>. HIDE DEF m
    <2>3. Cardinality(0..(1 + 6 * m)) = (1 + 6 * m) - 0 + 1
      BY <2>2, FS_Interval
    <2>4. ((1 + 6 * m) - 0 + 1) - 1 = 6 * m + 1
      BY <2>2
    <2>5. (6 * m + 1) \div 6 = m
      BY <2>2, DivUnique
    <2>. QED
      BY <1>1, <2>1, <2>3, <2>4, <2>5 DEF ReceivedParts, PartsOffset, PartWords, m
  <1>. QED
    BY <1>1, <1>2, <1>3

-----------------------------------------------------------------------------
(***************************************************************************)
(* Types, whatever overflows.                                              *)
(***************************************************************************)
LEMMA Converted ==
    ASSUME NEW x \in Int
    PROVE  ToInt(x) \in Int /\ ToULong(x) \in Nat
  <1>1. Word \in Nat /\ Word > 0
    BY IntMaxAssumption DEF Word
  <1>2. PICK k : k = Word * Word
    OBVIOUS
  <1>3. k \in Nat /\ k > 0
    <2>1. 1 * Word <= Word * Word /\ Word * Word \in Nat
      BY <1>1, ProductGrows
    <2>. QED
      BY <1>1, <1>2, <2>1
  <1>4. \A y \in Int : y % k \in Nat /\ y % Word \in Nat
    BY <1>1, <1>3
  <1>5. ToULong(x) \in Nat
    <2>1. x >= 0 /\ x < k => x \in Nat
      BY <1>3
    <2>. QED
      BY <1>2, <1>4, <2>1 DEF ToULong
  <1>6. ToInt(x) \in Int
    <2>1. (x + IntMax + 1) % Word \in Nat
      BY <1>4, IntMaxAssumption
    <2>. QED
      BY <2>1, IntMaxAssumption DEF ToInt
  <1>. QED
    BY <1>5, <1>6

\* The bounds of a range and its size are unsigned.
LEMMA RangeTypes ==
    ASSUME NEW n \in Int, NEW p \in Nat \ {0}, NEW s \in Int
    PROVE  Beg(n, s, p) \in Nat /\ End(n, s, p) \in Nat /\ PartSize(n, s, p) \in Nat
  <1>1. n \div p \in Int /\ n % p \in Int
    OBVIOUS
  <1>2. Block(n, p) \in Int /\ Rem(n, p) \in Int
    BY <1>1, Converted DEF Block, Rem
  <1>3. PICK b \in Int : b = Block(n, p)
    BY <1>2
  <1>4. ToInt(b + 1) \in Int
    BY Converted
  <1>5. PICK c \in Int : c = ToInt(b + 1)
    BY <1>4
  <1>6. c * s \in Int /\ (p - s) * b \in Int
    OBVIOUS
  <1>7. ToInt(c * s) \in Int /\ ToInt((p - s) * b) \in Int
    BY <1>6, Converted
  <1>8. ToULong(ToInt(c * s)) \in Nat /\ ToULong(n - ToInt((p - s) * b)) \in Nat
    <2>1. n - ToInt((p - s) * b) \in Int
      BY <1>7
    <2>. QED
      BY <1>7, <2>1, Converted
  <1>9. Beg(n, s, p) \in Nat
    BY <1>3, <1>5, <1>8 DEF Beg
  <1>10. PICK e \in Nat : e = Beg(n, s, p)
    BY <1>9
  <1>11. ToULong(c + e) \in Nat /\ ToULong(b + e) \in Nat
    <2>1. c + e \in Int /\ b + e \in Int
      OBVIOUS
    <2>. QED
      BY <2>1, Converted
  <1>12. End(n, s, p) \in Nat
    BY <1>3, <1>5, <1>10, <1>11 DEF End
  <1>13. End(n, s, p) - Beg(n, s, p) \in Int
    BY <1>9, <1>12
  <1>14. PartSize(n, s, p) \in Nat
    BY <1>13, Converted DEF PartSize
  <1>. QED
    BY <1>9, <1>12, <1>14

\* Finitely many naturals have a largest one.
LEMMA LargestOf ==
    ASSUME NEW n \in Nat, NEW f, \A i \in 1..n : f[i] \in Nat, NEW S, S = {0} \cup {f[i] : i \in 1..n}
    PROVE  /\ Max(S) \in S /\ Max(S) \in Nat
           /\ \A i \in 1..n : f[i] <= Max(S)
  <1>. DEFINE Bounded(k) == \E b \in S : \A i \in 1..k : f[i] <= b
              T == {k \in 0..n : ~ Bounded(k)}
  <1>1. \A b \in S : b \in Nat
    OBVIOUS
  <1>2. Bounded(0)
    <2>1. 0 \in S /\ \A i \in 1..0 : f[i] <= 0
      OBVIOUS
    <2>. QED
      BY <2>1
  <1>3. ASSUME NEW k \in 1..n, Bounded(k - 1)
        PROVE  Bounded(k)
    <2>1. PICK b \in S : \A i \in 1..(k - 1) : f[i] <= b
      BY <1>3
    <2>2. f[k] \in S /\ f[k] \in Nat /\ b \in Nat
      BY <1>1
    <2>3. CASE f[k] <= b
      <3>1. \A i \in 1..k : f[i] <= b
        BY <2>1, <2>3
      <3>. QED
        BY <3>1
    <2>4. CASE b <= f[k]
      <3>1. \A i \in 1..k : f[i] <= f[k]
        <4>1. \A i \in 1..k : i = k \/ i \in 1..(k - 1)
          OBVIOUS
        <4>. QED
          BY <2>1, <2>2, <2>4, <4>1
      <3>. QED
        BY <2>2, <3>1
    <2>. QED
      BY <2>2, <2>3, <2>4
  <1>. HIDE DEF Bounded
  <1>4. T = {}
    <2>. SUFFICES ASSUME T # {} PROVE FALSE
      OBVIOUS
    <2>1. T \subseteq Nat
      OBVIOUS
    <2>2. PICK k \in T : \A y \in T : k <= y
      <3>. HIDE DEF T
      <3>. QED
        BY <2>1, SmallestOf
    <2>3. k \in 0..n /\ ~ Bounded(k)
      OBVIOUS
    <2>4. k # 0 /\ k \in 1..n /\ k - 1 \in 0..n /\ ~ (k <= k - 1)
      BY <1>2, <2>3
    <2>5. k - 1 \notin T
      BY <2>2, <2>4
    <2>6. Bounded(k - 1)
      BY <2>4, <2>5
    <2>. QED
      BY <1>3, <2>3, <2>4, <2>6
  <1>5. Bounded(n)
    <2>1. n \in 0..n /\ n \notin T
      BY <1>4
    <2>. QED
      BY <2>1
  <1>6. PICK b \in S : \A i \in 1..n : f[i] <= b
    BY <1>5 DEF Bounded
  <1>7. \A y \in S : b >= y
    BY <1>1, <1>6
  <1>8. Max(S) \in S /\ \A y \in S : Max(S) >= y
    <2>. HIDE DEF T
    <2>. QED
      BY <1>7 DEF Max
  <1>. QED
    BY <1>1, <1>8

\* The size of a vector is the end of its last part.
LEMMA VecSizeFacts ==
    ASSUME NEW dv \in Seq(Part)
    PROVE  /\ VecSize(dv) \in Nat
           /\ \A i \in 1..Len(dv) : PartEnd(dv[i]) \in Nat /\ PartEnd(dv[i]) <= VecSize(dv)
           /\ VecSize(dv) = 0 \/ \E i \in 1..Len(dv) : VecSize(dv) = PartEnd(dv[i])
  <1>1. Len(dv) \in Nat /\ DOMAIN dv = 1..Len(dv) /\ \A i \in 1..Len(dv) : dv[i] \in Part
    OBVIOUS
  <1>2. \A i \in 1..Len(dv) : PartEnd(dv[i]) \in Nat
    BY <1>1 DEF Part, PartEnd
  <1>3. PICK n \in Nat : n = Len(dv)
    BY <1>1
  <1>4. PICK f : f = [i \in 1..n |-> PartEnd(dv[i])]
    OBVIOUS
  <1>5. PICK S : S = {0} \cup {f[i] : i \in 1..n}
    OBVIOUS
  <1>6. \A i \in 1..n : f[i] = PartEnd(dv[i]) /\ f[i] \in Nat
    BY <1>2, <1>3, <1>4
  <1>7. S = {0} \cup {PartEnd(dv[i]) : i \in DOMAIN dv}
    BY <1>1, <1>3, <1>5, <1>6
  <1>8. VecSize(dv) = Max(S)
    BY <1>7 DEF VecSize
  <1>9. Max(S) \in S /\ Max(S) \in Nat /\ \A i \in 1..n : f[i] <= Max(S)
    BY <1>5, <1>6, LargestOf
  <1>10. Max(S) = 0 \/ \E i \in 1..n : Max(S) = f[i]
    BY <1>5, <1>9
  <1>. QED
    BY <1>2, <1>3, <1>6, <1>8, <1>9, <1>10

\* The pieces at the places I, one for each.
LEMMA PiecesAtFacts ==
    ASSUME NEW dv, Len(dv) \in Nat, NEW I, I \subseteq 1..Len(dv), NEW offset, NEW size
    PROVE  /\ Cardinality(I) \in Nat
           /\ IsSeq(PiecesAt(dv, I, offset, size)) /\ Len(PiecesAt(dv, I, offset, size)) = Cardinality(I)
           /\ \A k \in 1..Cardinality(I) :
                 /\ Nth(I, k) \in I
                 /\ PiecesAt(dv, I, offset, size)[k] = Piece(dv[Nth(I, k)], offset, offset + size)
           /\ \A k, l \in 1..Cardinality(I) : k # l => Nth(I, k) # Nth(I, l)
  <1>1. /\ Cardinality(I) \in Nat /\ Len(Chosen(dv, I)) = Cardinality(I)
        /\ \A k \in 1..Cardinality(I) : Nth(I, k) \in I /\ Chosen(dv, I)[k] = dv[Nth(I, k)]
        /\ \A k, l \in 1..Cardinality(I) : k # l => Nth(I, k) # Nth(I, l)
    BY ChosenFacts
  <1>2. PICK ps : ps = PiecesAt(dv, I, offset, size)
    OBVIOUS
  <1>3. PICK n \in Nat : n = Cardinality(I)
    BY <1>1
  <1>4. ps = [k \in 1..n |-> Piece(Chosen(dv, I)[k], offset, offset + size)]
    BY <1>1, <1>2, <1>3 DEF PiecesAt
  <1>5. Len(ps) = n /\ \A k \in 1..n : ps[k] = Piece(Chosen(dv, I)[k], offset, offset + size)
    BY <1>4
  <1>6. IsSeq(ps)
    BY <1>4, <1>5 DEF IsSeq
  <1>. QED
    BY <1>1, <1>2, <1>3, <1>5, <1>6

\* A range and where it ends.
LEMMA RangeEnds ==
    ASSUME NEW n \in 0..IntMax, NEW p \in Nat \ {0}, NEW s \in 0..(p - 1)
    PROVE  /\ Beg(n, s, p) \in Nat /\ PartSize(n, s, p) \in Nat /\ End(n, s, p) \in 0..n
           /\ Beg(n, s, p) + PartSize(n, s, p) = End(n, s, p)
  <1>1. n \in Nat /\ s \in Int /\ s \in 0..p /\ s + 1 \in 0..p
    BY IntMaxAssumption
  <1>2. Beg(n, s, p) = Start(n, s, p) /\ End(n, s, p) = Start(n, s + 1, p)
    BY RangeIs
  <1>3. PartSize(n, s, p) = (n \div p) + (IF s < n % p THEN 1 ELSE 0)
    BY PartSizeIs
  <1>4. /\ Start(n, s, p) \in 0..n /\ Start(n, s + 1, p) \in 0..n
        /\ Start(n, s + 1, p) - Start(n, s, p) = (n \div p) + (IF s < n % p THEN 1 ELSE 0)
    BY <1>1, StartFacts
  <1>5. Beg(n, s, p) \in Nat /\ PartSize(n, s, p) \in Nat
    BY <1>1, RangeTypes
  <1>. QED
    BY <1>1, <1>2, <1>3, <1>4, <1>5

\* Every element is in the range of some process.
LEMMA RangesCover ==
    ASSUME NEW n \in 0..IntMax, NEW p \in Nat \ {0}, NEW b \in Nat, b < n
    PROVE  \E s \in 1..p : Beg(n, s - 1, p) <= b /\ b < End(n, s - 1, p)
  <1>1. /\ Beg(n, 0, p) = 0 /\ End(n, p - 1, p) = n
        /\ \A s \in 0..(p - 2) : End(n, s, p) = Beg(n, s + 1, p)
    BY DivRangeTiles
  <1>2. \A s \in 0..(p - 1) : Beg(n, s, p) \in Nat /\ End(n, s, p) \in Nat
    BY RangeTypes
  <1>3. PICK T : T = {s \in 0..(p - 1) : b < End(n, s, p)}
    OBVIOUS
  <1>4. T \subseteq Nat /\ p - 1 \in T
    BY <1>1, <1>3
  <1>5. PICK s \in T : \A t \in T : s <= t
    BY <1>4, SmallestOf
  <1>6. s \in 0..(p - 1) /\ b < End(n, s, p)
    BY <1>3, <1>5
  <1>7. Beg(n, s, p) <= b
    <2>1. CASE s = 0
      BY <1>1, <2>1
    <2>2. CASE s # 0
      <3>1. s - 1 \in 0..(p - 2) /\ (s - 1) + 1 = s /\ s - 1 \in 0..(p - 1) /\ ~ (s <= s - 1)
        BY <1>6, <2>2
      <3>2. End(n, s - 1, p) = Beg(n, s, p)
        BY <1>1, <3>1
      <3>3. s - 1 \notin T
        BY <1>5, <3>1
      <3>4. ~ (b < End(n, s - 1, p))
        BY <1>3, <3>1, <3>3
      <3>. QED
        BY <1>2, <1>6, <3>1, <3>2, <3>4
    <2>. QED
      BY <2>1, <2>2
  <1>8. s + 1 \in 1..p /\ (s + 1) - 1 = s
    BY <1>6
  <1>. QED
    BY <1>6, <1>7, <1>8

\* The places of I that some numbers stand for, and those that none of them does.
LEMMA NthApart ==
    ASSUME NEW n \in Nat, NEW I, I \subseteq 1..n, NEW A, A \subseteq 1..Cardinality(I), NEW T, T \subseteq I,
           \A k \in A : Nth(I, k) \notin T
    PROVE  /\ Cardinality(A) \in Nat /\ Cardinality(T) \in Nat /\ Cardinality(I) \in Nat
           /\ Cardinality(A) + Cardinality(T) <= Cardinality(I)
  <1>1. IsFiniteSet(I)
    <2>1. IsFiniteSet(1..n)
      BY FS_Interval
    <2>. QED
      BY <2>1, FS_Subset
  <1>2. /\ Cardinality(I) \in Nat
        /\ \A k \in 1..Cardinality(I) : Nth(I, k) \in I
        /\ \A k, l \in 1..Cardinality(I) : k # l => Nth(I, k) # Nth(I, l)
    BY ChosenFacts
  <1>. DEFINE f == [k \in A |-> Nth(I, k)]
              R == I \ T
  <1>3. f \in Injection(A, R)
    <2>1. \A k \in A : Nth(I, k) \in R
      BY <1>2
    <2>2. f \in [A -> R]
      BY <2>1
    <2>3. \A k, l \in A : f[k] = f[l] => k = l
      BY <1>2
    <2>. HIDE DEF f, R
    <2>. QED
      BY <2>2, <2>3 DEF Injection, IsInjective
  <1>4. IsFiniteSet(R) /\ Cardinality(R) = Cardinality(I) - Cardinality(I \cap T)
    BY <1>1, FS_Difference
  <1>5. I \cap T = T
    OBVIOUS
  <1>6. IsFiniteSet(T) /\ Cardinality(T) \in Nat
    BY <1>1, FS_Subset, FS_CardinalityType
  <1>. HIDE DEF f, R
  <1>7. IsFiniteSet(A) /\ Cardinality(A) <= Cardinality(R)
    BY <1>3, <1>4, FS_Injection
  <1>8. Cardinality(A) \in Nat
    BY <1>7, FS_CardinalityType
  <1>9. PICK a, t, w, x : a = Cardinality(A) /\ t = Cardinality(T) /\ w = Cardinality(I) /\ x = Cardinality(R)
    OBVIOUS
  <1>10. a \in Nat /\ t \in Nat /\ w \in Nat /\ x = w - t /\ a <= x
    BY <1>2, <1>4, <1>5, <1>6, <1>7, <1>8, <1>9
  <1>11. a + t <= w
    BY ONLY <1>10
  <1>. QED
    BY <1>9, <1>10, <1>11

\* Every place of I is the k-th for some k.
LEMMA NthAll ==
    ASSUME NEW n \in Nat, NEW I, I \subseteq 1..n, NEW i \in I
    PROVE  \E k \in 1..Cardinality(I) : Nth(I, k) = i
  <1>1. SUFFICES ASSUME \A k \in 1..Cardinality(I) : Nth(I, k) # i
                 PROVE  FALSE
    OBVIOUS
  <1>2. PICK A : A = 1..Cardinality(I)
    OBVIOUS
  <1>3. Cardinality(I) \in Nat
    BY ChosenFacts
  <1>4. {i} \subseteq I /\ \A k \in A : Nth(I, k) \notin {i}
    BY <1>1, <1>2
  <1>5. Cardinality(A) + Cardinality({i}) <= Cardinality(I)
    BY <1>2, <1>4, NthApart
  <1>6. Cardinality(A) = Cardinality(I)
    <2>1. PICK m \in Nat : m = Cardinality(I)
      BY <1>3
    <2>2. Cardinality(1..m) = m
      BY FS_Interval
    <2>. QED
      BY <1>2, <2>1, <2>2
  <1>7. Cardinality({i}) = 1
    BY FS_Singleton, Zenon
  <1>. QED
    BY <1>3, <1>5, <1>6, <1>7

=============================================================================

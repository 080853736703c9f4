------------------------------ MODULE LayoutProofs ------------------------------
(***************************************************************************)
(* Theorems on Options, Modules and Md5, the parts of the library that put *)
(* things one behind another and find them again: for every line and all   *)
(* words, for any classes, identifiers and managers, for any size of       *)
(* blocks and words.  Each rests on where a thing begins: behind those     *)
(* that stand before it.                                                   *)
(***************************************************************************)
EXTENDS Options, Modules, Md5,
        FiniteSetTheorems, SequenceTheorems, WellFoundedInduction, TLAPS

LEMMA LeastNumber ==
  ASSUME NEW S, S \subseteq Nat, S # {}
  PROVE  \E k \in S : \A n \in S : k <= n
<1> DEFINE less == OpToRel(<, Nat)
<1>1. PICK k \in S : \A n \in S : ~(<<n, k>> \in less)
  BY Zenon, NatLessThanWellFounded, WFMin
<1>2. \A k1, n1 \in Nat : n1 < k1 => <<n1, k1>> \in less
  BY Zenon DEF OpToRel
<1> HIDE DEF less
<1>3. ASSUME NEW n \in S PROVE k <= n
  <2>1. k \in Nat /\ n \in Nat /\ ~(n < k)
    BY <1>1, <1>2
  <2> QED
    BY <2>1
<1> QED
  BY <1>1, <1>3

(* Induction, for a set of numbers. *)
LEMMA Reached ==
  ASSUME NEW n \in Nat, NEW S, 0 \in S, \A i \in 0..(n - 1) : i \in S => i + 1 \in S
  PROVE  \A i \in 0..n : i \in S
<1> DEFINE bad == {i \in 0..n : i \notin S}
<1>1. SUFFICES ASSUME bad # {} PROVE FALSE
  OBVIOUS
<1>2. bad \subseteq Nat
  OBVIOUS
<1>3. PICK k \in bad : \A j \in bad : k <= j
  BY <1>1, <1>2, LeastNumber
<1>4. k \in 0..n /\ k \notin S /\ k # 0
  BY <1>3
<1>5. k - 1 \in 0..(n - 1) /\ k - 1 \in 0..n /\ ~(k <= k - 1) /\ (k - 1) + 1 = k
  BY <1>4
<1>6. k - 1 \in S
  BY <1>3, <1>5
<1>7. (k - 1) + 1 \in S
  BY <1>5, <1>6
<1> QED
  BY <1>4, <1>5, <1>7

-----------------------------------------------------------------------------
(***************************************************************************)
(* Options.  What stands in a line can be said without parsing: WrittenAt, *)
(* a key, "=" and a value between two spaces or ends.  The pairs that      *)
(* parse makes are what is written so, in the order of their places        *)
(* (Placing); reverse puts each pair of the map where the one before it    *)
(* ends (Laid), and what is written there can be read in one way only.     *)
(***************************************************************************)
Below(C, c) == {e \in C : e < c}
Nth(C, k) == CHOOSE c \in C : Cardinality(Below(C, c)) = k

(* Who is above another has more below, and none has all of them below.    *)
LEMMA BelowGrows ==
  ASSUME NEW C, IsFiniteSet(C), C \subseteq Nat, NEW c \in C
  PROVE  /\ IsFiniteSet(Below(C, c))
         /\ Cardinality(Below(C, c)) \in 0..(Cardinality(C) - 1)
         /\ \A e \in C : c < e => Cardinality(Below(C, c)) < Cardinality(Below(C, e))
<1>1. Below(C, c) \in SUBSET C /\ c \notin Below(C, c) /\ Cardinality(C) \in Nat
  <2>1. c \in Nat
    OBVIOUS
  <2> QED
    BY <2>1, FS_CardinalityType DEF Below
<1>2. IsFiniteSet(Below(C, c)) /\ Cardinality(Below(C, c)) \in Nat
  BY <1>1, FS_Subset, FS_CardinalityType
<1>3. Cardinality(Below(C, c)) <= Cardinality(C) /\ Cardinality(Below(C, c)) # Cardinality(C)
  BY <1>1, FS_Subset
<1>4. ASSUME NEW e \in C, c < e
      PROVE  Cardinality(Below(C, c)) < Cardinality(Below(C, e))
  <2>1. IsFiniteSet(Below(C, e)) /\ Cardinality(Below(C, e)) \in Nat
    BY FS_Subset, FS_CardinalityType DEF Below
  <2>2. Below(C, c) \in SUBSET Below(C, e) /\ c \in Below(C, e)
    <3>1. \A b \in C : b < c => b < e
      BY <1>4
    <3> QED
      BY <1>4, <3>1 DEF Below
  <2>3. /\ Cardinality(Below(C, c)) <= Cardinality(Below(C, e))
        /\ Cardinality(Below(C, e)) = Cardinality(Below(C, c)) => Below(C, e) = Below(C, c)
    BY <2>1, <2>2, FS_Subset
  <2> QED
    BY <1>1, <1>2, <2>1, <2>2, <2>3
<1> QED
  BY <1>1, <1>2, <1>3, <1>4

(* A finite set of numbers has a k-th one.                                 *)
LEMMA NthIs ==
  ASSUME NEW C, IsFiniteSet(C), C \subseteq Nat, NEW k \in 0..(Cardinality(C) - 1)
  PROVE  Nth(C, k) \in C /\ Cardinality(Below(C, Nth(C, k))) = k
<1> DEFINE bad == {m \in 0..(Cardinality(C) - 1) : ~\E c \in C : Cardinality(Below(C, c)) = m}
<1>1. Cardinality(C) \in Nat
  BY FS_CardinalityType
<1>2. ASSUME bad # {} PROVE FALSE
  <2>1. bad \subseteq Nat
    BY <1>1
  <2>2. PICK m \in bad : \A n \in bad : m <= n
    BY <1>2, <2>1, LeastNumber
  <2>3. m \in Nat /\ m < Cardinality(C) /\ \A c \in C : Cardinality(Below(C, c)) # m
    BY <1>1, <2>2
  <2>4. PICK S : S \in SUBSET C /\ IsFiniteSet(S) /\ Cardinality(S) = m
                 /\ \A c \in S, e \in C \ S : c < e
    <3>1. CASE m = 0
      <4>1. {} \in SUBSET C /\ \A c \in {}, e \in C \ {} : c < e
        OBVIOUS
      <4> QED
        BY <3>1, <4>1, FS_EmptySet
    <3>2. CASE m # 0
      <4>1. m - 1 \in 0..(Cardinality(C) - 1) /\ ~(m <= m - 1)
        BY <1>1, <2>3, <3>2
      <4>2. PICK c \in C : Cardinality(Below(C, c)) = m - 1
        BY <2>2, <4>1
      <4>3. IsFiniteSet(Below(C, c)) /\ c \notin Below(C, c)
        <5>1. c \in Nat /\ ~(c < c)
          OBVIOUS
        <5> QED
          BY <5>1, BelowGrows DEF Below
      <4> DEFINE S == Below(C, c) \cup {c}
      <4>4. IsFiniteSet(S) /\ Cardinality(S) = (m - 1) + 1
        BY <4>2, <4>3, FS_AddElement
      <4>5. \A b \in S, e \in C \ S : b < e
        BY DEF Below
      <4>6. S \in SUBSET C /\ (m - 1) + 1 = m
        BY <2>3 DEF Below
      <4> QED
        BY <4>4, <4>5, <4>6
    <3> QED
      BY <3>1, <3>2
  <2>5. C \ S # {} /\ C \ S \subseteq Nat
    <3>1. S # C
      BY <2>3, <2>4
    <3> QED
      BY <2>4, <3>1
  <2>6. PICK c \in C \ S : \A e \in C \ S : c <= e
    BY <2>5, LeastNumber
  <2>7. Below(C, c) = S
    <3>1. \A e \in C : e < c => e \in S
      BY <2>6
    <3> QED
      BY <2>4, <3>1 DEF Below
  <2> QED
    BY <2>3, <2>4, <2>7
<1> QED
  BY <1>2 DEF Nth

LEMMA NthOrder ==
  ASSUME NEW C, IsFiniteSet(C), C \subseteq Nat,
         NEW j \in 0..(Cardinality(C) - 1), NEW k \in 0..(Cardinality(C) - 1)
  PROVE  j < k => Nth(C, j) < Nth(C, k)
<1> SUFFICES ASSUME j < k, ~(Nth(C, j) < Nth(C, k)) PROVE FALSE
  OBVIOUS
<1>1. /\ Nth(C, j) \in C /\ Cardinality(Below(C, Nth(C, j))) = j
      /\ Nth(C, k) \in C /\ Cardinality(Below(C, Nth(C, k))) = k
  BY NthIs
<1>2. j \in Int /\ k \in Int
  OBVIOUS
<1>3. CASE Nth(C, k) < Nth(C, j)
  <2>1. Cardinality(Below(C, Nth(C, k))) < Cardinality(Below(C, Nth(C, j)))
    BY <1>1, <1>3, BelowGrows
  <2> QED
    BY <1>1, <1>2, <2>1
<1>4. CASE Nth(C, k) = Nth(C, j)
  BY <1>1, <1>2, <1>4
<1>5. Nth(C, k) \in Nat /\ Nth(C, j) \in Nat
  BY <1>1
<1> QED
  BY <1>3, <1>4, <1>5

(* Each of them is the one of its number.                                  *)
LEMMA NthOf ==
  ASSUME NEW C, IsFiniteSet(C), C \subseteq Nat, NEW c \in C
  PROVE  \E k \in 0..(Cardinality(C) - 1) : Nth(C, k) = c
<1> DEFINE k == Cardinality(Below(C, c))
<1>1. k \in 0..(Cardinality(C) - 1)
  BY BelowGrows
<1>2. Nth(C, k) \in C /\ Cardinality(Below(C, Nth(C, k))) = k
  BY <1>1, NthIs
<1>3. Nth(C, k) \in Nat /\ c \in Nat /\ k \in Int
  <2>1. Cardinality(C) \in Nat
    BY FS_CardinalityType
  <2> HIDE DEF k
  <2>2. k \in Int
    BY <1>1, <2>1
  <2>3. Nth(C, k) \in C
    BY <1>2
  <2> QED
    BY <2>2, <2>3
<1>4. ~(Nth(C, k) < c) /\ ~(c < Nth(C, k))
  <2>1. Nth(C, k) < c => Cardinality(Below(C, Nth(C, k))) < k
    BY <1>2, BelowGrows
  <2>2. c < Nth(C, k) => k < Cardinality(Below(C, Nth(C, k)))
    BY <1>2, BelowGrows
  <2> HIDE DEF k
  <2> QED
    BY <1>2, <1>3, <2>1, <2>2
<1> QED
  BY <1>1, <1>3, <1>4

-----------------------------------------------------------------------------
(* What lines are written with.                                            *)
Letter == STRING \cup {Space, Equals}

LEMMA SpaceIsNotEquals == Space # Equals
BY Zenon DEF Space, Equals

Cut(in, d) == {i \in DOMAIN in : in[i] = d} \cup {0, Len(in) + 1}

(* A sequence of n functions has a length.                                 *)
LEMMA LengthIs ==
  ASSUME NEW n \in Nat, NEW S, NEW s \in [1..n -> S]
  PROVE  s \in Seq(S) /\ Len(s) = n
<1>1. s \in Seq(S)
  BY SeqDef
<1>2. Len(s) \in Nat /\ DOMAIN s = 1..Len(s) /\ DOMAIN s = 1..n
  BY <1>1, LenProperties
<1>3. Len(s) = n
  <2>1. CASE Len(s) < n
    <3>1. n \in 1..n /\ n \notin 1..Len(s)
      BY <1>2, <2>1
    <3> QED
      BY <1>2, <3>1
  <2>2. CASE n < Len(s)
    <3>1. Len(s) \in 1..Len(s) /\ Len(s) \notin 1..n
      BY <1>2, <2>2
    <3> QED
      BY <1>2, <3>1
  <2> QED
    BY <1>2, <2>1, <2>2
<1> QED
  BY <1>1, <1>3

(* The parts lie between the delimiters: part k from behind cuts[k - 1] to   *)
(* before cuts[k].                                                           *)
Between(in, d, parts, cuts) ==
  /\ parts \in Seq(Seq(Letter)) /\ Len(parts) \in Nat \ {0}
  /\ cuts \in [0..Len(parts) -> 0..(Len(in) + 1)]
  /\ cuts[0] = 0 /\ cuts[Len(parts)] = Len(in) + 1
  /\ \A j, k \in 0..Len(parts) : j < k => cuts[j] < cuts[k]
  /\ \A k \in 1..(Len(parts) - 1) : cuts[k] \in DOMAIN in /\ in[cuts[k]] = d
  /\ \A i \in DOMAIN in : in[i] = d => \E k \in 1..(Len(parts) - 1) : cuts[k] = i
  /\ \A k \in 1..Len(parts) : parts[k] = SubSeq(in, cuts[k - 1] + 1, cuts[k] - 1)
  /\ \A k \in 1..Len(parts) : \A i \in (cuts[k - 1] + 1)..(cuts[k] - 1) : in[i] # d

LEMMA SplitIs ==
  ASSUME NEW in \in Seq(Letter), NEW d
  PROVE  \E cuts : Between(in, d, str_split(in, d), cuts)
<1> DEFINE C == Cut(in, d)
           n == Cardinality(C) - 1
           l == Len(in)
           cuts == [k \in 0..n |-> Nth(C, k)]
           parts == str_split(in, d)
<1>1. l \in Nat /\ DOMAIN in = 1..l /\ \A i \in 1..l : in[i] \in Letter
  BY LenProperties, ElementOfSeq
<1>2. C \subseteq 0..(l + 1) /\ C \subseteq Nat /\ 0 \in C /\ l + 1 \in C
  BY <1>1 DEF Cut
<1>3. IsFiniteSet(C) /\ Cardinality(C) \in Nat
  <2>1. IsFiniteSet(0..(l + 1))
    BY <1>1, FS_Interval
  <2> QED
    BY <1>2, <2>1, FS_Subset, FS_CardinalityType
<1>4. n \in Nat \ {0}
  <2>1. Cardinality(C) # 0 /\ Cardinality(C) # 1
    <3>1. C # {} /\ ~\E x : C = {x}
      <4>1. l + 1 # 0
        BY <1>1
      <4> QED
        BY <1>2, <4>1
    <3> QED
      BY <1>3, <3>1, FS_EmptySet, FS_Singleton
  <2> QED
    BY <1>3, <2>1
<1>5. \A i : i \in C <=> i \in {0, l + 1} \/ (i \in DOMAIN in /\ in[i] = d)
  BY DEF Cut
<1>6. parts = [k \in 1..n |-> SubSeq(in, Nth(C, k - 1) + 1, Nth(C, k) - 1)]
  BY DEF str_split, Nth, Below, Cut
<1> HIDE DEF C, n, l, parts
<1>7. /\ \A k \in 0..n : cuts[k] = Nth(C, k) /\ cuts[k] \in C
      /\ \A j, k \in 0..n : j < k => cuts[j] < cuts[k]
      /\ \A c \in C : \E k \in 0..n : cuts[k] = c
  <2>1. n = Cardinality(C) - 1
    BY DEF n
  <2> QED
    BY <1>2, <1>3, <2>1, NthIs, NthOrder, NthOf
<1>8. cuts \in [0..n -> 0..(l + 1)]
  BY <1>2, <1>7
<1> HIDE DEF cuts
<1>9. cuts[0] = 0
  <2>1. PICK k \in 0..n : cuts[k] = 0
    BY <1>2, <1>7
  <2>2. 0 \in 0..n /\ cuts[0] \in Nat
    BY <1>4, <1>1, <1>8
  <2>3. k = 0 \/ 0 < k
    BY <1>4
  <2> QED
    BY <1>7, <2>1, <2>2, <2>3
<1>10. cuts[n] = l + 1
  <2>1. PICK k \in 0..n : cuts[k] = l + 1
    BY <1>2, <1>7
  <2>2. n \in 0..n /\ cuts[n] \in 0..(l + 1)
    BY <1>4, <1>8
  <2>3. k = n \/ k < n
    BY <1>4
  <2>4. ~(l + 1 < cuts[n])
    BY <1>1, <2>2
  <2> QED
    BY <1>7, <2>1, <2>2, <2>3, <2>4
<1>11. \A k \in 1..(n - 1) : cuts[k] \in DOMAIN in /\ in[cuts[k]] = d
  <2> SUFFICES ASSUME NEW k \in 1..(n - 1) PROVE cuts[k] \in DOMAIN in /\ in[cuts[k]] = d
    OBVIOUS
  <2>1. 0 < k /\ k < n /\ k \in 0..n /\ 0 \in 0..n /\ n \in 0..n
    BY <1>4
  <2>2. 0 < cuts[k] /\ cuts[k] < l + 1
    BY <1>7, <1>9, <1>10, <2>1
  <2> QED
    BY <1>1, <1>5, <1>7, <2>1, <2>2
<1>12. \A i \in DOMAIN in : in[i] = d => \E k \in 1..(n - 1) : cuts[k] = i
  <2> SUFFICES ASSUME NEW i \in DOMAIN in, in[i] = d PROVE \E k \in 1..(n - 1) : cuts[k] = i
    OBVIOUS
  <2>1. PICK k \in 0..n : cuts[k] = i
    BY <1>5, <1>7
  <2>2. k # 0 /\ k # n
    BY <1>1, <1>9, <1>10, <2>1
  <2> QED
    BY <1>4, <2>1, <2>2
<1>13. \A k \in 1..n : \A i \in (cuts[k - 1] + 1)..(cuts[k] - 1) : in[i] # d
  <2> SUFFICES ASSUME NEW k \in 1..n, NEW i \in (cuts[k - 1] + 1)..(cuts[k] - 1), in[i] = d PROVE FALSE
    OBVIOUS
  <2>1. k \in 0..n /\ k - 1 \in 0..n /\ cuts[k] \in 0..(l + 1) /\ cuts[k - 1] \in 0..(l + 1)
    BY <1>4, <1>8
  <2>2. i \in 1..l /\ cuts[k - 1] < i /\ i < cuts[k]
    <3> DEFINE a == cuts[k - 1]
               b == cuts[k]
    <3>1. a \in 0..(l + 1) /\ b \in 0..(l + 1) /\ i \in (a + 1)..(b - 1) /\ l \in Nat
      BY <1>1, <2>1
    <3> HIDE DEF a, b
    <3>2. i \in 1..l /\ a < i /\ i < b
      BY <3>1
    <3> QED
      BY <3>2 DEF a, b
  <2>3. PICK m \in 0..n : cuts[m] = i
    BY <1>1, <1>5, <1>7, <2>2
  <2>4. m <= k - 1 \/ k <= m
    BY <1>4
  <2>5. ~(m < k - 1) /\ m # k - 1 /\ m # k /\ ~(k < m)
    <3>1. (m < k - 1 => cuts[m] < cuts[k - 1]) /\ (k < m => cuts[k] < cuts[m])
      BY <1>7, <2>1
    <3>2. cuts[k - 1] < cuts[m] /\ cuts[m] < cuts[k]
      BY <2>2, <2>3
    <3>3. cuts[m] \in Int /\ cuts[k] \in Int /\ cuts[k - 1] \in Int
      BY <1>1, <2>1, <2>2, <2>3
    <3> DEFINE a == cuts[k - 1]
               b == cuts[k]
               c == cuts[m]
    <3>4. /\ a \in Int /\ b \in Int /\ c \in Int /\ a < c /\ c < b
          /\ m < k - 1 => c < a
          /\ k < m => b < c
      BY <3>1, <3>2, <3>3
    <3>5. m = k - 1 => c = a
      OBVIOUS
    <3>6. m = k => c = b
      OBVIOUS
    <3> HIDE DEF a, b, c
    <3> QED
      BY <3>4, <3>5, <3>6
  <2> QED
    BY <1>4, <2>4, <2>5
<1>14. \A k \in 1..n : parts[k] = SubSeq(in, cuts[k - 1] + 1, cuts[k] - 1)
  <2>1. \A k \in 1..n : k \in 0..n /\ k - 1 \in 0..n
    BY <1>4
  <2> QED
    BY <1>6, <1>7, <2>1
<1>15. parts \in Seq(Seq(Letter)) /\ Len(parts) = n
  <2>1. ASSUME NEW k \in 1..n PROVE parts[k] \in Seq(Letter)
    <3>1. k \in 0..n /\ k - 1 \in 0..n /\ cuts[k] \in 0..(l + 1) /\ cuts[k - 1] \in 0..(l + 1)
      BY <1>4, <1>8
    <3>2. /\ cuts[k - 1] + 1 \in Int /\ cuts[k] - 1 \in Int
          /\ \A i \in (cuts[k - 1] + 1)..(cuts[k] - 1) : in[i] \in Letter
      <4> DEFINE a == cuts[k - 1]
                 b == cuts[k]
      <4>1. a \in 0..(l + 1) /\ b \in 0..(l + 1) /\ l \in Nat
        BY <1>1, <3>1
      <4> HIDE DEF a, b
      <4>2. a + 1 \in Int /\ b - 1 \in Int /\ \A i \in (a + 1)..(b - 1) : i \in 1..l
        BY <4>1
      <4>3. \A i \in (a + 1)..(b - 1) : in[i] \in Letter
        BY <1>1, <4>2
      <4> QED
        BY <4>2, <4>3 DEF a, b
    <3>3. SubSeq(in, cuts[k - 1] + 1, cuts[k] - 1) \in Seq(Letter)
      BY <3>2, SubSeqProperties
    <3> QED
      BY <1>14, <3>3
  <2>2. parts \in [1..n -> Seq(Letter)]
    BY <1>6, <2>1
  <2> QED
    BY <1>4, <2>2, LengthIs
<1>16. /\ parts \in Seq(Seq(Letter)) /\ Len(parts) \in Nat \ {0}
       /\ cuts \in [0..Len(parts) -> 0..(l + 1)]
       /\ cuts[0] = 0 /\ cuts[Len(parts)] = l + 1
  BY <1>4, <1>8, <1>9, <1>10, <1>15
<1>17. Between(in, d, parts, cuts)
  BY <1>7, <1>11, <1>12, <1>13, <1>14, <1>15, <1>16 DEF Between, l
<1> QED
  BY <1>17 DEF parts

(* A part of a sequence, by its length.                                    *)
LEMMA PartIs ==
  ASSUME NEW S, NEW s \in Seq(S), NEW a \in Nat, NEW n \in Nat, a + n <= Len(s)
  PROVE  /\ SubSeq(s, a + 1, a + n) \in Seq(S) /\ Len(SubSeq(s, a + 1, a + n)) = n
         /\ \A q \in 1..n : SubSeq(s, a + 1, a + n)[q] = s[a + q]
<1>1. Len(s) \in Nat
  BY LenProperties
<1>2. \A i \in (a + 1)..(a + n) : s[i] \in S
  <2>1. \A i \in (a + 1)..(a + n) : i \in 1..Len(s)
    BY <1>1
  <2> QED
    BY <2>1, ElementOfSeq
<1>3. /\ SubSeq(s, a + 1, a + n) \in Seq(S)
      /\ Len(SubSeq(s, a + 1, a + n)) = IF a + 1 <= a + n THEN (a + n) - (a + 1) + 1 ELSE 0
      /\ \A q \in 1..((a + n) - (a + 1) + 1) : SubSeq(s, a + 1, a + n)[q] = s[(a + 1) + q - 1]
  <2>1. a + 1 \in Int /\ a + n \in Int
    OBVIOUS
  <2> QED
    BY <1>2, <2>1, SubSeqProperties
<1>4. (a + n) - (a + 1) + 1 = n /\ (IF a + 1 <= a + n THEN n ELSE 0) = n
  OBVIOUS
<1>5. \A q \in 1..n : (a + 1) + q - 1 = a + q
  OBVIOUS
<1> QED
  BY <1>3, <1>4, <1>5

(* key=value is written from behind z, between spaces or the ends.         *)
WrittenAt(str, z, key, value) ==
  /\ z \in Nat /\ z + Len(key) + 1 + Len(value) <= Len(str)
  /\ \A q \in 1..Len(key) : str[z + q] = key[q]
  /\ str[z + Len(key) + 1] = Equals
  /\ \A q \in 1..Len(value) : str[z + Len(key) + 1 + q] = value[q]
  /\ z = 0 \/ str[z] = Space
  /\ \/ z + Len(key) + 1 + Len(value) = Len(str)
     \/ str[z + Len(key) + 1 + Len(value) + 1] = Space

IsBare(s) == \A q \in 1..Len(s) : s[q] \notin {Space, Equals}

LEMMA PairJoined ==
  ASSUME NEW k \in Seq(Letter), NEW v \in Seq(Letter)
  PROVE  LET s == k \o <<Equals>> \o v IN
         /\ s \in Seq(Letter) /\ Len(s) = Len(k) + 1 + Len(v)
         /\ \A q \in 1..Len(k) : s[q] = k[q]
         /\ s[Len(k) + 1] = Equals
         /\ \A q \in 1..Len(v) : s[Len(k) + 1 + q] = v[q]
<1> DEFINE e == <<Equals>>
           f == k \o e
           s == f \o v
           m == Len(k)
           n == Len(v)
<1>1. m \in Nat /\ n \in Nat
  BY LenProperties
<1>2. e \in Seq(Letter) /\ Len(e) = 1 /\ e[1] = Equals
  BY DEF Letter
<1> HIDE DEF e
<1>3. /\ f \in Seq(Letter) /\ Len(f) = m + 1
      /\ \A q \in 1..(m + 1) : f[q] = IF q <= m THEN k[q] ELSE e[q - m]
  <2>1. /\ f \in Seq(Letter) /\ Len(f) = m + Len(e)
        /\ \A q \in 1..(m + Len(e)) : f[q] = IF q <= m THEN k[q] ELSE e[q - m]
    BY <1>2, ConcatProperties
  <2> QED
    BY <1>2, <2>1
<1> HIDE DEF f
<1>4. /\ s \in Seq(Letter) /\ Len(s) = (m + 1) + n
      /\ \A q \in 1..((m + 1) + n) : s[q] = IF q <= m + 1 THEN f[q] ELSE v[q - (m + 1)]
  <2>2. f \in Seq(Letter)
    BY <1>3
  <2>1. /\ s \in Seq(Letter) /\ Len(s) = Len(f) + n
        /\ \A q \in 1..(Len(f) + n) : s[q] = IF q <= Len(f) THEN f[q] ELSE v[q - Len(f)]
    BY <2>2, ConcatProperties
  <2> QED
    BY <1>3, <2>1
<1> HIDE DEF m, n, s
<1>5. \A q \in 1..m : q \in 1..((m + 1) + n) /\ q <= m + 1 /\ q \in 1..(m + 1) /\ q <= m
  BY <1>1
<1>6. /\ m + 1 \in 1..((m + 1) + n) /\ m + 1 <= m + 1 /\ m + 1 \in 1..(m + 1)
      /\ ~(m + 1 <= m) /\ (m + 1) - m = 1
  BY <1>1
<1>7. \A q \in 1..n : m + 1 + q \in 1..((m + 1) + n) /\ ~(m + 1 + q <= m + 1) /\ (m + 1 + q) - (m + 1) = q
  BY <1>1
<1>8. /\ \A q \in 1..m : s[q] = k[q]
      /\ s[m + 1] = Equals
      /\ \A q \in 1..n : s[m + 1 + q] = v[q]
  BY <1>2, <1>3, <1>4, <1>5, <1>6, <1>7
<1> QED
  BY <1>4, <1>8 DEF s, f, e, m, n

LEMMA StandsIs ==
  ASSUME NEW str \in Seq(Letter), NEW k \in Seq(Letter), NEW v \in Seq(Letter)
  PROVE  /\ Stands(str, k, v) \subseteq Nat \ {0}
         /\ \A z \in Nat : z + 1 \in Stands(str, k, v) <=> WrittenAt(str, z, k, v)
<1> DEFINE s == k \o <<Equals>> \o v
           m == Len(k)
           n == Len(v)
           l == Len(str)
           r == m + 1 + n
<1>1. /\ s \in Seq(Letter) /\ Len(s) = r
      /\ \A q \in 1..m : s[q] = k[q]
      /\ s[m + 1] = Equals
      /\ \A q \in 1..n : s[m + 1 + q] = v[q]
  BY PairJoined
<1>2. m \in Nat /\ n \in Nat /\ l \in Nat
  BY LenProperties
<1>3. \A i : i \in Stands(str, k, v) <=>
        /\ i \in 1..(l + 1 - Len(s))
        /\ SubSeq(str, i, i + Len(s) - 1) = s
        /\ i = 1 \/ str[i - 1] = Space
        /\ i + Len(s) = l + 1 \/ str[i + Len(s)] = Space
  BY DEF Stands
<1> HIDE DEF s, m, n, l
<1>4. Stands(str, k, v) \subseteq Nat \ {0}
  <2>1. \A i \in Stands(str, k, v) : i \in 1..(l + 1 - Len(s))
    BY <1>3
  <2>2. Len(s) \in Nat
    BY <1>1, <1>2
  <2>3. \A i \in 1..(l + 1 - Len(s)) : i \in Nat \ {0}
    BY <1>2, <2>2
  <2> QED
    BY <2>1, <2>3
<1>5. ASSUME NEW z \in Nat PROVE z + 1 \in Stands(str, k, v) <=> WrittenAt(str, z, k, v)
  <2>1. z + 1 \in 1..(l + 1 - r) <=> z + m + 1 + n <= l
    BY <1>2
  <2>2. ASSUME z + m + 1 + n <= l
        PROVE  SubSeq(str, z + 1, z + 1 + r - 1) = s <=>
                 /\ \A q \in 1..m : str[z + q] = k[q]
                 /\ str[z + m + 1] = Equals
                 /\ \A q \in 1..n : str[z + m + 1 + q] = v[q]
    <3> DEFINE u == SubSeq(str, z + 1, z + r)
    <3>1. z + 1 + r - 1 = z + r /\ z + r <= l /\ r \in Nat
      BY <1>2, <2>2
    <3>2. u \in Seq(Letter) /\ Len(u) = r /\ \A q \in 1..r : u[q] = str[z + q]
      BY <3>1, PartIs DEF l
    <3> HIDE DEF u
    <3>3. \A q \in 1..r : q \in 1..m \/ q = m + 1 \/ (q - (m + 1) \in 1..n /\ q = m + 1 + (q - (m + 1)))
      BY <1>2
    <3>4. /\ \A q \in 1..m : q \in 1..r
          /\ m + 1 \in 1..r /\ z + (m + 1) = z + m + 1
          /\ \A q \in 1..n : m + 1 + q \in 1..r /\ z + (m + 1 + q) = z + m + 1 + q
      BY <1>2
    <3>5. (\A q \in 1..r : u[q] = s[q]) <=>
            /\ \A q \in 1..m : u[q] = k[q]
            /\ u[m + 1] = Equals
            /\ \A q \in 1..n : u[m + 1 + q] = v[q]
      <4>1. ASSUME \A q \in 1..r : u[q] = s[q]
            PROVE  /\ \A q \in 1..m : u[q] = k[q]
                   /\ u[m + 1] = Equals
                   /\ \A q \in 1..n : u[m + 1 + q] = v[q]
        BY <1>1, <3>4, <4>1
      <4>2. ASSUME \A q \in 1..m : u[q] = k[q], u[m + 1] = Equals,
                   \A q \in 1..n : u[m + 1 + q] = v[q], NEW q \in 1..r
            PROVE  u[q] = s[q]
        <5>1. CASE q \in 1..m
          BY <1>1, <4>2, <5>1
        <5>2. CASE q = m + 1
          BY <1>1, <4>2, <5>2
        <5>3. CASE q - (m + 1) \in 1..n /\ q = m + 1 + (q - (m + 1))
          <6> DEFINE w == q - (m + 1)
          <6>1. w \in 1..n /\ q = m + 1 + w
            BY <5>3
          <6> HIDE DEF w
          <6> QED
            BY <1>1, <4>2, <6>1
        <5> QED
          BY <3>3, <5>1, <5>2, <5>3
      <4> QED
        BY <4>1, <4>2
    <3>6. u = s <=> \A q \in 1..r : u[q] = s[q]
      BY <1>1, <3>2, SeqEqual
    <3>7. /\ (\A q \in 1..m : u[q] = k[q]) <=> (\A q \in 1..m : str[z + q] = k[q])
          /\ u[m + 1] = str[z + m + 1]
          /\ (\A q \in 1..n : u[m + 1 + q] = v[q]) <=> (\A q \in 1..n : str[z + m + 1 + q] = v[q])
      <4>1. \A q \in 1..m : u[q] = str[z + q]
        BY <3>2, <3>4
      <4>2. u[m + 1] = str[z + m + 1]
        BY <3>2, <3>4
      <4>3. \A q \in 1..n : u[m + 1 + q] = str[z + m + 1 + q]
        BY <3>2, <3>4
      <4> QED
        BY <4>1, <4>2, <4>3
    <3> QED
      BY <3>1, <3>5, <3>6, <3>7 DEF u
  <2>3. /\ z + 1 = 1 <=> z = 0
        /\ (z + 1) - 1 = z
        /\ (z + 1 + r = l + 1) <=> (z + m + 1 + n = l)
        /\ z + 1 + r = z + m + 1 + n + 1
    BY <1>2
  <2>4. WrittenAt(str, z, k, v) <=>
          /\ z + m + 1 + n <= l
          /\ \A q \in 1..m : str[z + q] = k[q]
          /\ str[z + m + 1] = Equals
          /\ \A q \in 1..n : str[z + m + 1 + q] = v[q]
          /\ z = 0 \/ str[z] = Space
          /\ z + m + 1 + n = l \/ str[z + m + 1 + n + 1] = Space
    BY DEF WrittenAt, m, n, l
  <2>5. z + 1 \in Stands(str, k, v) <=>
          /\ z + 1 \in 1..(l + 1 - r)
          /\ SubSeq(str, z + 1, z + 1 + r - 1) = s
          /\ z + 1 = 1 \/ str[(z + 1) - 1] = Space
          /\ z + 1 + r = l + 1 \/ str[z + 1 + r] = Space
    <3> HIDE DEF r
    <3> QED
      BY <1>1, <1>3
  <2> HIDE DEF r
  <2>6. (z = 0 \/ str[z] = Space) <=> (z + 1 = 1 \/ str[(z + 1) - 1] = Space)
    BY <2>3
  <2>7. (z + m + 1 + n = l \/ str[z + m + 1 + n + 1] = Space)
          <=> (z + 1 + r = l + 1 \/ str[z + 1 + r] = Space)
    BY <2>3
  <2> QED
    BY <2>1, <2>2, <2>4, <2>5, <2>6, <2>7
<1> QED
  BY <1>4, <1>5

(* What is written there can be read in one way.                           *)
LEMMA ReadOnce ==
  ASSUME NEW str \in Seq(Letter), NEW z,
         NEW k \in Seq(Letter), NEW v \in Seq(Letter), IsBare(k), IsBare(v), WrittenAt(str, z, k, v),
         NEW k1 \in Seq(Letter), NEW v1 \in Seq(Letter), IsBare(k1), IsBare(v1), WrittenAt(str, z, k1, v1)
  PROVE  k = k1 /\ v = v1
<1> DEFINE m == Len(k)
           n == Len(v)
           m1 == Len(k1)
           n1 == Len(v1)
           l == Len(str)
<1>1. m \in Nat /\ n \in Nat /\ m1 \in Nat /\ n1 \in Nat /\ l \in Nat
  BY LenProperties
<1>2. /\ z \in Nat /\ z + m + 1 + n <= l
      /\ \A q \in 1..m : str[z + q] = k[q] /\ k[q] # Equals
      /\ str[z + m + 1] = Equals
      /\ \A q \in 1..n : str[z + m + 1 + q] = v[q] /\ v[q] # Space
      /\ z + m + 1 + n = l \/ str[z + m + 1 + n + 1] = Space
  BY DEF WrittenAt, IsBare
<1>3. /\ z + m1 + 1 + n1 <= l
      /\ \A q \in 1..m1 : str[z + q] = k1[q] /\ k1[q] # Equals
      /\ str[z + m1 + 1] = Equals
      /\ \A q \in 1..n1 : str[z + m1 + 1 + q] = v1[q] /\ v1[q] # Space
      /\ z + m1 + 1 + n1 = l \/ str[z + m1 + 1 + n1 + 1] = Space
  BY DEF WrittenAt, IsBare
<1>4. m = m1 /\ n = n1 => k = k1 /\ v = v1
  <2> SUFFICES ASSUME m = m1, n = n1 PROVE k = k1 /\ v = v1
    OBVIOUS
  <2>1. \A q \in 1..m : k[q] = k1[q]
    BY <1>2, <1>3
  <2>2. \A q \in 1..n : v[q] = v1[q]
    BY <1>2, <1>3
  <2> QED
    BY <2>1, <2>2, SeqEqual
<1> HIDE DEF m, n, m1, n1, l
<1>5. ~(m < m1)
  <2> SUFFICES ASSUME m < m1 PROVE FALSE
    OBVIOUS
  <2>1. m + 1 \in 1..m1 /\ z + (m + 1) = z + m + 1
    <3>1. z \in Nat
      BY <1>2
    <3> QED
      BY <1>1, <3>1
  <2>2. str[z + (m + 1)] # Equals
    BY <1>3, <2>1
  <2> QED
    BY <1>2, <2>1, <2>2
<1>6. ~(m1 < m)
  <2> SUFFICES ASSUME m1 < m PROVE FALSE
    OBVIOUS
  <2>1. m1 + 1 \in 1..m /\ z + (m1 + 1) = z + m1 + 1
    <3>1. z \in Nat
      BY <1>2
    <3> QED
      BY <1>1, <3>1
  <2>2. str[z + (m1 + 1)] # Equals
    BY <1>2, <2>1
  <2> QED
    BY <1>3, <2>1, <2>2
<1>7. m = m1
  BY <1>1, <1>5, <1>6
<1>8. ~(n < n1)
  <2> SUFFICES ASSUME n < n1 PROVE FALSE
    OBVIOUS
  <2>1. n + 1 \in 1..n1 /\ z + m + 1 + (n + 1) = z + m + 1 + n + 1 /\ z + m + 1 + n # l
    <3>1. z \in Nat /\ z + m + 1 + n1 <= l
      BY <1>2, <1>3, <1>7
    <3> QED
      BY <1>1, <3>1
  <2>2. str[z + m + 1 + (n + 1)] # Space
    <3>1. \A q \in 1..n1 : str[z + m + 1 + q] # Space
      BY <1>2, <1>3, <1>7
    <3> QED
      BY <2>1, <3>1
  <2>3. z + m + 1 + n = l \/ str[z + m + 1 + n + 1] = Space
    BY <1>2, <1>3, <1>7
  <2> QED
    BY <2>1, <2>2, <2>3
<1>9. ~(n1 < n)
  <2> SUFFICES ASSUME n1 < n PROVE FALSE
    OBVIOUS
  <2>1. n1 + 1 \in 1..n /\ z + m + 1 + (n1 + 1) = z + m + 1 + n1 + 1 /\ z + m + 1 + n1 # l
    <3>1. z \in Nat /\ z + m + 1 + n <= l
      BY <1>2, <1>3, <1>7
    <3> QED
      BY <1>1, <3>1
  <2>2. str[z + m + 1 + (n1 + 1)] # Space
    <3>1. \A q \in 1..n : str[z + m + 1 + q] # Space
      BY <1>2, <1>3, <1>7
    <3> QED
      BY <2>1, <3>1
  <2>3. z + m + 1 + n1 = l \/ str[z + m + 1 + n1 + 1] = Space
    BY <1>2, <1>3, <1>7
  <2> QED
    BY <2>1, <2>2, <2>3
<1> QED
  BY <1>1, <1>4, <1>7, <1>8, <1>9

(* The part is k and v with the only "=" between them.                     *)
Halves(part, k, v) ==
  /\ k \in Seq(Letter) /\ v \in Seq(Letter)
  /\ Len(part) = Len(k) + 1 + Len(v)
  /\ \A q \in 1..Len(k) : part[q] = k[q] /\ part[q] # Equals
  /\ part[Len(k) + 1] = Equals
  /\ \A q \in 1..Len(v) : part[Len(k) + 1 + q] = v[q] /\ part[Len(k) + 1 + q] # Equals

(* A part that has two halves is the two with "=" between them, and one    *)
(* with a single "=" has the two halves.                                   *)
LEMMA TwoHalves ==
  ASSUME NEW part \in Seq(Letter), Len(str_split(part, Equals)) = 2
  PROVE  Halves(part, str_split(part, Equals)[1], str_split(part, Equals)[2])
<1> DEFINE h == str_split(part, Equals)
           l == Len(part)
<1>1. PICK cuts : Between(part, Equals, h, cuts)
  BY SplitIs
<1>2. l \in Nat /\ DOMAIN part = 1..l
  BY LenProperties
<1> HIDE DEF h, l
<1>3. /\ Len(h) = 2 /\ cuts[0] = 0 /\ cuts[2] = l + 1
      /\ cuts[1] \in Nat /\ 0 < cuts[1] /\ cuts[1] < l + 1 /\ part[cuts[1]] = Equals
      /\ h[1] = SubSeq(part, cuts[0] + 1, cuts[1] - 1)
      /\ h[2] = SubSeq(part, cuts[1] + 1, cuts[2] - 1)
      /\ \A i \in (cuts[0] + 1)..(cuts[1] - 1) : part[i] # Equals
      /\ \A i \in (cuts[1] + 1)..(cuts[2] - 1) : part[i] # Equals
  <2>1. Len(h) = 2
    BY DEF h
  <2>2. /\ 0 \in 0..2 /\ 1 \in 0..2 /\ 2 \in 0..2 /\ 0 < 1 /\ 1 < 2 /\ 1 \in 1..(2 - 1)
        /\ 1 \in 1..2 /\ 2 \in 1..2 /\ 1 - 1 = 0 /\ 2 - 1 = 1
    OBVIOUS
  <2>3. /\ cuts \in [0..2 -> 0..(l + 1)] /\ cuts[0] = 0 /\ cuts[2] = l + 1
        /\ \A j, k \in 0..2 : j < k => cuts[j] < cuts[k]
        /\ \A k \in 1..(2 - 1) : part[cuts[k]] = Equals
        /\ \A k \in 1..2 : h[k] = SubSeq(part, cuts[k - 1] + 1, cuts[k] - 1)
        /\ \A k \in 1..2 : \A i \in (cuts[k - 1] + 1)..(cuts[k] - 1) : part[i] # Equals
    BY <1>1, <2>1 DEF Between, l
  <2>4. cuts[0] < cuts[1] /\ cuts[1] < cuts[2] /\ part[cuts[1]] = Equals /\ cuts[1] \in 0..(l + 1)
    BY <2>2, <2>3
  <2>5. /\ h[1] = SubSeq(part, cuts[0] + 1, cuts[1] - 1)
        /\ h[2] = SubSeq(part, cuts[1] + 1, cuts[2] - 1)
        /\ \A i \in (cuts[0] + 1)..(cuts[1] - 1) : part[i] # Equals
        /\ \A i \in (cuts[1] + 1)..(cuts[2] - 1) : part[i] # Equals
    <3>1. \A k \in 1..2 : /\ h[k] = SubSeq(part, cuts[k - 1] + 1, cuts[k] - 1)
                          /\ \A i \in (cuts[k - 1] + 1)..(cuts[k] - 1) : part[i] # Equals
      BY <2>3
    <3>2. /\ h[1] = SubSeq(part, cuts[1 - 1] + 1, cuts[1] - 1)
          /\ \A i \in (cuts[1 - 1] + 1)..(cuts[1] - 1) : part[i] # Equals
      BY <2>2, <3>1
    <3>3. /\ h[2] = SubSeq(part, cuts[2 - 1] + 1, cuts[2] - 1)
          /\ \A i \in (cuts[2 - 1] + 1)..(cuts[2] - 1) : part[i] # Equals
      BY <2>2, <3>1
    <3> QED
      BY <2>2, <3>2, <3>3
  <2>6. cuts[1] \in Nat /\ 0 < cuts[1] /\ cuts[1] < l + 1
    BY <1>2, <2>3, <2>4
  <2> QED
    BY <2>1, <2>3, <2>4, <2>5, <2>6
<1> DEFINE m == cuts[1] - 1
           n == l - cuts[1]
<1>4. /\ m \in Nat /\ n \in Nat /\ cuts[1] = m + 1 /\ l = m + 1 + n /\ cuts[0] + 1 = 0 + 1
      /\ cuts[1] - 1 = 0 + m /\ cuts[2] - 1 = (m + 1) + n /\ cuts[1] + 1 = (m + 1) + 1
  <2>1. cuts[0] = 0 /\ cuts[1] \in Nat /\ 0 < cuts[1] /\ cuts[1] < l + 1 /\ cuts[2] = l + 1
    BY <1>3
  <2>2. m \in Nat /\ cuts[1] = m + 1 /\ cuts[1] - 1 = 0 + m /\ cuts[1] + 1 = (m + 1) + 1
    BY <2>1
  <2>3. n \in Nat /\ l = cuts[1] + n
    BY <1>2, <2>1
  <2> HIDE DEF m, n
  <2>4. cuts[0] + 1 = 0 + 1 /\ cuts[2] - 1 = l
    BY <1>2, <2>1
  <2> QED
    BY <2>2, <2>3, <2>4
<1> HIDE DEF m, n
<1>5. /\ h[1] \in Seq(Letter) /\ Len(h[1]) = m /\ \A q \in 1..m : h[1][q] = part[0 + q]
  <2>1. 0 + m <= Len(part)
    BY <1>4 DEF l
  <2>2. h[1] = SubSeq(part, 0 + 1, 0 + m)
    BY <1>3, <1>4
  <2> QED
    BY <1>4, <2>1, <2>2, PartIs
<1>6. /\ h[2] \in Seq(Letter) /\ Len(h[2]) = n /\ \A q \in 1..n : h[2][q] = part[(m + 1) + q]
  <2>1. (m + 1) + n <= Len(part) /\ m + 1 \in Nat
    BY <1>4 DEF l
  <2>2. h[2] = SubSeq(part, (m + 1) + 1, (m + 1) + n)
    BY <1>3, <1>4
  <2> DEFINE a == m + 1
  <2>3. a \in Nat /\ a + n <= Len(part) /\ h[2] = SubSeq(part, a + 1, a + n)
    BY <2>1, <2>2
  <2> HIDE DEF a
  <2>4. /\ h[2] \in Seq(Letter) /\ Len(h[2]) = n /\ \A q \in 1..n : h[2][q] = part[a + q]
    BY <1>4, <2>3, PartIs
  <2> QED
    BY <2>4 DEF a
<1>7. /\ \A q \in 1..m : 0 + q = q /\ q \in (cuts[0] + 1)..(cuts[1] - 1)
      /\ \A q \in 1..n : (m + 1) + q \in (cuts[1] + 1)..(cuts[2] - 1)
  BY <1>4
<1>8. /\ Len(part) = m + 1 + n /\ part[m + 1] = Equals
      /\ \A q \in 1..m : part[q] = h[1][q] /\ part[q] # Equals
      /\ \A q \in 1..n : part[m + 1 + q] = h[2][q] /\ part[m + 1 + q] # Equals
  BY <1>3, <1>4, <1>5, <1>6, <1>7 DEF l
<1>9. Halves(part, h[1], h[2])
  BY <1>5, <1>6, <1>8 DEF Halves
<1> QED
  BY <1>9 DEF h

LEMMA HalvesFound ==
  ASSUME NEW part \in Seq(Letter), NEW k \in Seq(Letter), NEW v \in Seq(Letter),
         Halves(part, k, v)
  PROVE  LET h == str_split(part, Equals) IN Len(h) = 2 /\ h[1] = k /\ h[2] = v
<1> DEFINE h == str_split(part, Equals)
           m == Len(k)
           n == Len(v)
           l == Len(part)
<1>1. PICK cuts : Between(part, Equals, h, cuts)
  BY SplitIs
<1>2. m \in Nat /\ n \in Nat /\ DOMAIN part = 1..l /\ l = m + 1 + n
  BY LenProperties DEF Halves
<1>13. /\ \A q \in 1..m : part[q] = k[q] /\ part[q] # Equals
       /\ part[m + 1] = Equals
       /\ \A q \in 1..n : part[m + 1 + q] = v[q] /\ part[m + 1 + q] # Equals
  BY DEF Halves
<1>3. ASSUME NEW i \in DOMAIN part, part[i] = Equals PROVE i = m + 1
  <2>1. i \in 1..m \/ i = m + 1 \/ (i - (m + 1) \in 1..n /\ i = m + 1 + (i - (m + 1)))
    BY <1>2
  <2>2. i \notin 1..m
    BY <1>3, <1>13
  <2>3. CASE i - (m + 1) \in 1..n /\ i = m + 1 + (i - (m + 1))
    <3> DEFINE w == i - (m + 1)
    <3>1. w \in 1..n /\ i = m + 1 + w
      BY <2>3
    <3> HIDE DEF w
    <3> QED
      BY <1>3, <1>13, <3>1
  <2> QED
    BY <2>1, <2>2, <2>3
<1>4. m + 1 \in DOMAIN part /\ part[m + 1] = Equals
  BY <1>2, <1>13
<1> HIDE DEF h, m, n, l
<1>5. /\ Len(h) \in Nat \ {0} /\ cuts \in [0..Len(h) -> 0..(l + 1)]
      /\ cuts[0] = 0 /\ cuts[Len(h)] = l + 1
      /\ \A i, j \in 0..Len(h) : i < j => cuts[i] < cuts[j]
      /\ \A i \in 1..(Len(h) - 1) : cuts[i] \in DOMAIN part /\ part[cuts[i]] = Equals
      /\ \A i \in DOMAIN part : part[i] = Equals => \E j \in 1..(Len(h) - 1) : cuts[j] = i
      /\ \A i \in 1..Len(h) : h[i] = SubSeq(part, cuts[i - 1] + 1, cuts[i] - 1)
  BY <1>1 DEF Between, l
<1>6. PICK j \in 1..(Len(h) - 1) : cuts[j] = m + 1
  BY <1>4, <1>5
<1>7. Len(h) = 2
  <2>3. Len(h) \in Nat
    BY <1>5
  <2>1. Len(h) >= 2
    BY <1>6, <2>3
  <2>2. ASSUME Len(h) # 2 PROVE FALSE
    <3> DEFINE c == Len(h)
    <3>3. c \in Nat /\ c >= 2 /\ c # 2
      BY <2>1, <2>2, <2>3
    <3> HIDE DEF c
    <3>4. c > 2
      BY <3>3
    <3>5. /\ 1 \in 1..(c - 1) /\ 2 \in 1..(c - 1)
          /\ 1 \in 0..c /\ 2 \in 0..c /\ 1 < 2
      BY <3>3, <3>4
    <3>1. /\ 1 \in 1..(Len(h) - 1) /\ 2 \in 1..(Len(h) - 1)
          /\ 1 \in 0..Len(h) /\ 2 \in 0..Len(h) /\ 1 < 2
      BY <3>5 DEF c
    <3>2. cuts[1] = m + 1 /\ cuts[2] = m + 1 /\ cuts[1] < cuts[2]
      BY <1>3, <1>5, <3>1
    <3> QED
      BY <1>2, <3>2
  <2> QED
    BY <2>2
<1>8. cuts[1] = m + 1 /\ cuts[0] = 0 /\ cuts[2] = l + 1
  <2>1. j = 1
    BY <1>6, <1>7
  <2> QED
    BY <1>5, <1>6, <1>7, <2>1
<1>9. /\ h[1] = SubSeq(part, 0 + 1, 0 + m)
      /\ h[2] = SubSeq(part, (m + 1) + 1, (m + 1) + n)
  <2>1. /\ 1 \in 1..2 /\ 2 \in 1..2 /\ 1 - 1 = 0 /\ 2 - 1 = 1
        /\ (m + 1) - 1 = 0 + m /\ (l + 1) - 1 = (m + 1) + n
    BY <1>2
  <2>2. h[1] = SubSeq(part, cuts[1 - 1] + 1, cuts[1] - 1)
    BY <1>5, <1>7, <2>1
  <2>3. h[2] = SubSeq(part, cuts[2 - 1] + 1, cuts[2] - 1)
    BY <1>5, <1>7, <2>1
  <2> QED
    BY <1>8, <2>1, <2>2, <2>3
<1>10. h[1] = k
  <2>1. 0 + m <= Len(part)
    BY <1>2 DEF l
  <2>2. h[1] \in Seq(Letter) /\ Len(h[1]) = m /\ \A q \in 1..m : h[1][q] = part[0 + q]
    BY <1>2, <1>9, <2>1, PartIs
  <2>3. \A q \in 1..m : 0 + q = q /\ part[q] = k[q]
    BY <1>2, <1>13
  <2>4. \A q \in 1..Len(h[1]) : h[1][q] = k[q]
    BY <2>2, <2>3
  <2> QED
    BY <2>2, <2>4, SeqEqual DEF m
<1>11. h[2] = v
  <2>1. (m + 1) + n <= Len(part) /\ m + 1 \in Nat
    BY <1>2 DEF l
  <2>2. h[2] \in Seq(Letter) /\ Len(h[2]) = n /\ \A q \in 1..n : h[2][q] = part[(m + 1) + q]
    BY <1>2, <1>9, <2>1, PartIs
  <2>3. \A q \in 1..n : part[m + 1 + q] = v[q]
    BY <1>13
  <2>4. \A q \in 1..Len(h[2]) : h[2][q] = v[q]
    BY <2>2, <2>3
  <2> QED
    BY <2>2, <2>4, SeqEqual DEF n
<1> QED
  BY <1>7, <1>10, <1>11 DEF h

-----------------------------------------------------------------------------
(* The pairs of a line are what stands in it: place says behind which      *)
(* position.                                                               *)
Placing(str, pairs, place) ==
  /\ DOMAIN pairs \subseteq Nat /\ IsFiniteSet(DOMAIN pairs)
  /\ \A i \in DOMAIN pairs :
       /\ pairs[i][1] \in Seq(Letter) /\ IsBare(pairs[i][1]) /\ pairs[i][1] # <<>>
       /\ pairs[i][2] \in Seq(Letter) /\ IsBare(pairs[i][2]) /\ pairs[i][2] # <<>>
       /\ WrittenAt(str, place[i], pairs[i][1], pairs[i][2])
  /\ \A i, j \in DOMAIN pairs : i < j => place[i] < place[j]
  /\ \A k, v \in Seq(Letter) : \A z \in Nat :
       IsBare(k) /\ k # <<>> /\ IsBare(v) /\ v # <<>> /\ WrittenAt(str, z, k, v)
         => \E i \in DOMAIN pairs : place[i] = z /\ pairs[i][1] = k /\ pairs[i][2] = v

(* What a part between two spaces is.                                      *)
LEMMA PartBetween ==
  ASSUME NEW str \in Seq(Letter), NEW parts, NEW cuts, Between(str, Space, parts, cuts),
         NEW i \in 1..Len(parts)
  PROVE  /\ cuts[i - 1] \in Nat /\ cuts[i] \in Nat /\ cuts[i - 1] < cuts[i] /\ cuts[i] <= Len(str) + 1
         /\ cuts[i - 1] = 0 \/ str[cuts[i - 1]] = Space
         /\ cuts[i] = Len(str) + 1 \/ str[cuts[i]] = Space
         /\ parts[i] \in Seq(Letter) /\ Len(parts[i]) = cuts[i] - cuts[i - 1] - 1
         /\ \A q \in 1..Len(parts[i]) :
              parts[i][q] = str[cuts[i - 1] + q] /\ parts[i][q] # Space
<1> DEFINE n == Len(parts)
           l == Len(str)
           a == cuts[i - 1]
           b == cuts[i]
           m == b - a - 1
<1>1. l \in Nat
  BY LenProperties
<1>2. /\ n \in Nat \ {0} /\ cuts \in [0..n -> 0..(l + 1)]
      /\ cuts[0] = 0 /\ cuts[n] = l + 1
      /\ \A j, k \in 0..n : j < k => cuts[j] < cuts[k]
      /\ \A k \in 1..(n - 1) : str[cuts[k]] = Space
      /\ \A k \in 1..n : parts[k] = SubSeq(str, cuts[k - 1] + 1, cuts[k] - 1)
      /\ \A k \in 1..n : \A q \in (cuts[k - 1] + 1)..(cuts[k] - 1) : str[q] # Space
  BY DEF Between
<1>3. i - 1 \in 0..n /\ i \in 0..n /\ i - 1 < i
  BY <1>2
<1>4. a \in 0..(l + 1) /\ b \in 0..(l + 1) /\ a < b
  BY <1>2, <1>3
<1>5. a = 0 \/ str[a] = Space
  <2>1. i - 1 = 0 \/ i - 1 \in 1..(n - 1)
    BY <1>2
  <2> QED
    BY <1>2, <2>1
<1>6. b = l + 1 \/ str[b] = Space
  <2>1. i = n \/ i \in 1..(n - 1)
    BY <1>2
  <2> QED
    BY <1>2, <2>1
<1>7. parts[i] = SubSeq(str, a + 1, b - 1) /\ \A q \in (a + 1)..(b - 1) : str[q] # Space
  BY <1>2
<1> HIDE DEF a, b
<1>8. m \in Nat /\ b - 1 = a + m /\ a + m <= l /\ a \in Nat /\ b \in Nat /\ b <= l + 1
  BY <1>1, <1>4
<1> HIDE DEF m
<1>9. /\ parts[i] \in Seq(Letter) /\ Len(parts[i]) = m
      /\ \A q \in 1..m : parts[i][q] = str[a + q]
  BY <1>7, <1>8, PartIs
<1>10. \A q \in 1..m : a + q \in (a + 1)..(b - 1)
  BY <1>8
<1>11. \A q \in 1..Len(parts[i]) : parts[i][q] = str[a + q] /\ parts[i][q] # Space
  BY <1>7, <1>9, <1>10
<1> QED
  BY <1>4, <1>5, <1>6, <1>8, <1>9, <1>11 DEF a, b, m

(* Two halves of a part stand in the line where the part does.             *)
LEMMA PairAt ==
  ASSUME NEW str \in Seq(Letter), NEW parts, NEW cuts, Between(str, Space, parts, cuts),
         NEW i \in 1..Len(parts), NEW k, NEW v, Halves(parts[i], k, v)
  PROVE  IsBare(k) /\ IsBare(v) /\ WrittenAt(str, cuts[i - 1], k, v)
<1> DEFINE m == Len(k)
           n == Len(v)
           l == Len(str)
           a == cuts[i - 1]
           b == cuts[i]
           part == parts[i]
<1>1. /\ m \in Nat /\ n \in Nat /\ l \in Nat
  <2>1. k \in Seq(Letter) /\ v \in Seq(Letter)
    BY DEF Halves
  <2> QED
    BY <2>1, LenProperties
<1>2. /\ Len(part) = m + 1 + n
      /\ \A q \in 1..m : part[q] = k[q] /\ part[q] # Equals
      /\ part[m + 1] = Equals
      /\ \A q \in 1..n : part[m + 1 + q] = v[q] /\ part[m + 1 + q] # Equals
  BY DEF Halves
<1>3. /\ a \in Nat /\ b \in Nat /\ a < b /\ b <= l + 1
      /\ a = 0 \/ str[a] = Space
      /\ b = l + 1 \/ str[b] = Space
      /\ Len(part) = b - a - 1
      /\ \A q \in 1..Len(part) : part[q] = str[a + q] /\ part[q] # Space
  BY PartBetween
<1>4. IsBare(k) /\ IsBare(v) <=> /\ \A q \in 1..m : k[q] \notin {Space, Equals}
                             /\ \A q \in 1..n : v[q] \notin {Space, Equals}
  BY DEF IsBare
<1>5. WrittenAt(str, a, k, v) <=>
        /\ a \in Nat /\ a + m + 1 + n <= l
        /\ \A q \in 1..m : str[a + q] = k[q]
        /\ str[a + m + 1] = Equals
        /\ \A q \in 1..n : str[a + m + 1 + q] = v[q]
        /\ a = 0 \/ str[a] = Space
        /\ a + m + 1 + n = l \/ str[a + m + 1 + n + 1] = Space
  BY DEF WrittenAt
<1> HIDE DEF m, n, l, a, b, part
<1>6. b = a + m + 1 + n + 1 /\ a + m + 1 + n <= l
      /\ (b = l + 1 <=> a + m + 1 + n = l)
  <2>1. /\ a \in Nat /\ b \in Nat /\ a < b /\ b <= l + 1 /\ m + 1 + n = b - a - 1
    BY <1>2, <1>3
  <2> QED
    BY <1>1, <2>1
<1>7. /\ \A q \in 1..m : q \in 1..(m + 1 + n)
      /\ m + 1 \in 1..(m + 1 + n) /\ a + (m + 1) = a + m + 1
      /\ \A q \in 1..n : m + 1 + q \in 1..(m + 1 + n) /\ a + (m + 1 + q) = a + m + 1 + q
  BY <1>1, <1>3
<1>8. \A q \in 1..(m + 1 + n) : part[q] = str[a + q] /\ part[q] # Space
  BY <1>2, <1>3
<1>9. \A q \in 1..m : str[a + q] = k[q] /\ k[q] # Space /\ k[q] # Equals
  BY <1>2, <1>7, <1>8
<1>10. str[a + m + 1] = Equals
  BY <1>2, <1>7, <1>8
<1>11. \A q \in 1..n : str[a + m + 1 + q] = v[q] /\ v[q] # Space /\ v[q] # Equals
  BY <1>2, <1>7, <1>8
<1>12. IsBare(k) /\ IsBare(v)
  BY <1>4, <1>9, <1>11
<1>13. a + m + 1 + n = l \/ str[a + m + 1 + n + 1] = Space
  BY <1>3, <1>6
<1>14. WrittenAt(str, a, k, v)
  BY <1>3, <1>5, <1>6, <1>9, <1>10, <1>11, <1>13
<1> QED
  BY <1>12, <1>14 DEF a

(* What stands in the line is a part with two halves.                      *)
LEMMA PairCut ==
  ASSUME NEW str \in Seq(Letter), NEW parts, NEW cuts, Between(str, Space, parts, cuts),
         NEW z, NEW k \in Seq(Letter), NEW v \in Seq(Letter), IsBare(k), IsBare(v), WrittenAt(str, z, k, v)
  PROVE  \E i \in 1..Len(parts) : cuts[i - 1] = z /\ Halves(parts[i], k, v)
<1> DEFINE m == Len(k)
           n == Len(v)
           l == Len(str)
           c == Len(parts)
           e == z + m + 1 + n + 1
<1>1. m \in Nat /\ n \in Nat /\ l \in Nat /\ DOMAIN str = 1..l
  BY LenProperties
<1>2. /\ z \in Nat /\ z + m + 1 + n <= l
      /\ \A q \in 1..m : str[z + q] = k[q] /\ k[q] # Space /\ k[q] # Equals
      /\ str[z + m + 1] = Equals
      /\ \A q \in 1..n : str[z + m + 1 + q] = v[q] /\ v[q] # Space /\ v[q] # Equals
      /\ z = 0 \/ str[z] = Space
      /\ z + m + 1 + n = l \/ str[z + m + 1 + n + 1] = Space
  BY DEF WrittenAt, IsBare
<1>3. /\ c \in Nat \ {0} /\ cuts \in [0..c -> 0..(l + 1)]
      /\ cuts[0] = 0 /\ cuts[c] = l + 1
      /\ \A i, j \in 0..c : i < j => cuts[i] < cuts[j]
      /\ \A i \in 1..(c - 1) : cuts[i] \in DOMAIN str /\ str[cuts[i]] = Space
      /\ \A i \in DOMAIN str : str[i] = Space => \E j \in 1..(c - 1) : cuts[j] = i
  BY DEF Between
<1>4. \A part : Halves(part, k, v) <=>
        /\ Len(part) = m + 1 + n
        /\ \A q \in 1..m : part[q] = k[q] /\ part[q] # Equals
        /\ part[m + 1] = Equals
        /\ \A q \in 1..n : part[m + 1 + q] = v[q] /\ part[m + 1 + q] # Equals
  BY DEF Halves
<1> HIDE DEF m, n, l, c
<1>5. e \in Nat /\ z < e /\ e <= l + 1 /\ (e = l + 1 \/ str[e] = Space)
  BY <1>1, <1>2
<1>6. ASSUME NEW p \in Nat, z < p, p < e PROVE str[p] # Space
  <2>1. \/ p - z \in 1..m /\ p = z + (p - z)
        \/ p = z + m + 1
        \/ p - (z + m + 1) \in 1..n /\ p = z + m + 1 + (p - (z + m + 1))
    BY <1>1, <1>2, <1>6
  <2>2. CASE p - z \in 1..m /\ p = z + (p - z)
    <3> DEFINE w == p - z
    <3>1. w \in 1..m /\ p = z + w
      BY <2>2
    <3> HIDE DEF w
    <3> QED
      BY <1>2, <3>1
  <2>3. CASE p = z + m + 1
    BY <1>2, <2>3, SpaceIsNotEquals
  <2>4. CASE p - (z + m + 1) \in 1..n /\ p = z + m + 1 + (p - (z + m + 1))
    <3> DEFINE w == p - (z + m + 1)
    <3>1. w \in 1..n /\ p = z + m + 1 + w
      BY <2>4
    <3> HIDE DEF w
    <3> QED
      BY <1>2, <3>1
  <2> QED
    BY <2>1, <2>2, <2>3, <2>4
<1>7. e - z - 1 = m + 1 + n
  BY <1>1, <1>2
<1> HIDE DEF e
<1>8. PICK j \in 0..(c - 1) : cuts[j] = z
  <2>1. CASE z = 0
    <3>1. 0 \in 0..(c - 1)
      BY <1>3
    <3> QED
      BY <1>3, <2>1, <3>1
  <2>2. CASE z # 0
    <3>1. z \in DOMAIN str /\ str[z] = Space
      BY <1>1, <1>2, <2>2
    <3>2. PICK j \in 1..(c - 1) : cuts[j] = z
      BY <1>3, <3>1
    <3>3. j \in 0..(c - 1)
      BY <1>3
    <3> QED
      BY <3>2, <3>3
  <2> QED
    BY <2>1, <2>2
<1>9. PICK j1 \in 0..c : cuts[j1] = e
  <2>1. CASE e = l + 1
    <3>1. c \in 0..c
      BY <1>3
    <3> QED
      BY <1>3, <2>1, <3>1
  <2>2. CASE e # l + 1
    <3>1. e \in DOMAIN str /\ str[e] = Space
      BY <1>1, <1>2, <1>5, <2>2
    <3>2. PICK j1 \in 1..(c - 1) : cuts[j1] = e
      BY <1>3, <3>1
    <3>3. j1 \in 0..c
      BY <1>3
    <3> QED
      BY <3>2, <3>3
  <2> QED
    BY <2>1, <2>2
<1>10. /\ j \in Nat /\ j1 \in Nat /\ j + 1 \in 1..c /\ j \in 0..c /\ j + 1 \in 0..c
       /\ j < j + 1 /\ (j + 1) - 1 = j
  BY <1>3
<1>11. j1 = j + 1
  <2>1. ~(j1 < j) /\ j1 # j
    <3>1. ~(e < z) /\ e # z
      BY <1>2, <1>5
    <3> QED
      BY <1>3, <1>8, <1>9, <1>10, <3>1
  <2>2. ASSUME j + 1 < j1 PROVE FALSE
    <3>1. j + 1 \in 1..(c - 1)
      BY <1>3, <1>10, <2>2
    <3>2. z < cuts[j + 1] /\ cuts[j + 1] < e
      BY <1>3, <1>8, <1>9, <1>10, <2>2
    <3>3. cuts[j + 1] \in Nat /\ str[cuts[j + 1]] = Space
      <4>1. cuts[j + 1] \in 0..(l + 1)
        BY <1>3, <1>10
      <4> QED
        BY <1>1, <1>3, <3>1, <4>1
    <3> QED
      BY <1>6, <3>2, <3>3
  <2> QED
    BY <1>10, <2>1, <2>2
<1> DEFINE i == j + 1
           part == parts[i]
<1>12. /\ i \in 1..Len(parts) /\ cuts[i - 1] = z /\ cuts[i] = e
  BY <1>8, <1>9, <1>10, <1>11 DEF c
<1> HIDE DEF i
<1>13. /\ Len(part) = cuts[i] - cuts[i - 1] - 1
       /\ \A q \in 1..Len(part) : part[q] = str[cuts[i - 1] + q]
  <2>1. /\ Len(parts[i]) = cuts[i] - cuts[i - 1] - 1
        /\ \A q \in 1..Len(parts[i]) :
             parts[i][q] = str[cuts[i - 1] + q] /\ parts[i][q] # Space
    <3>1. i \in 1..Len(parts)
      BY <1>12
    <3> QED
      BY ONLY str \in Seq(Letter), Between(str, Space, parts, cuts), <3>1, PartBetween
  <2> QED
    BY <2>1
<1> HIDE DEF part
<1>14. Len(part) = m + 1 + n /\ \A q \in 1..(m + 1 + n) : part[q] = str[z + q]
  BY <1>7, <1>12, <1>13
<1>15. /\ \A q \in 1..m : q \in 1..(m + 1 + n)
       /\ m + 1 \in 1..(m + 1 + n) /\ z + (m + 1) = z + m + 1
       /\ \A q \in 1..n : m + 1 + q \in 1..(m + 1 + n) /\ z + (m + 1 + q) = z + m + 1 + q
  BY <1>1, <1>2
<1>16. Halves(part, k, v)
  <2>1. \A q \in 1..m : part[q] = k[q] /\ part[q] # Equals
    BY <1>2, <1>14, <1>15
  <2>2. part[m + 1] = Equals
    BY <1>2, <1>14, <1>15
  <2>3. ASSUME NEW q \in 1..n PROVE part[m + 1 + q] = v[q] /\ part[m + 1 + q] # Equals
    <3>1. m + 1 + q \in 1..(m + 1 + n) /\ z + (m + 1 + q) = z + m + 1 + q
      BY <1>15
    <3>2. part[m + 1 + q] = str[z + (m + 1 + q)]
      BY <1>14, <3>1
    <3>3. str[z + m + 1 + q] = v[q] /\ v[q] # Equals
      BY <1>2
    <3> QED
      BY <3>1, <3>2, <3>3
  <2> QED
    BY <1>4, <1>14, <2>1, <2>2, <2>3
<1> QED
  BY <1>12, <1>16 DEF part

LEMMA PairsStand ==
  ASSUME NEW str \in Seq(Letter)
  PROVE  \E place : Placing(str, Pairs(str), place)
<1> DEFINE parts == str_split(str, Space)
           h(i) == str_split(parts[i], Equals)
           pairs == Pairs(str)
<1>1. PICK cuts : Between(str, Space, parts, cuts)
  BY SplitIs
<1>2. /\ parts \in Seq(Seq(Letter)) /\ Len(parts) \in Nat /\ DOMAIN parts = 1..Len(parts)
      /\ cuts \in [0..Len(parts) -> 0..(Len(str) + 1)]
      /\ \A i, j \in 0..Len(parts) : i < j => cuts[i] < cuts[j]
  <2> HIDE DEF parts
  <2> QED
    BY <1>1, LenProperties DEF Between
<1>3. /\ \A i : i \in DOMAIN pairs <=> /\ i \in 1..Len(parts)
                                       /\ Len(h(i)) = 2 /\ h(i)[1] # <<>> /\ h(i)[2] # <<>>
      /\ \A i \in DOMAIN pairs : pairs[i] = h(i)
  <2>1. pairs = [i \in {j \in DOMAIN parts : Len(h(j)) = 2 /\ h(j)[1] # <<>> /\ h(j)[2] # <<>>} |-> h(i)]
    BY DEF Pairs
  <2> HIDE DEF pairs, h
  <2> QED
    BY <1>2, <2>1
<1> HIDE DEF parts, pairs
<1> DEFINE place == [i \in 1..Len(parts) |-> cuts[i - 1]]
<1>4. \A i \in 1..Len(parts) : parts[i] \in Seq(Letter)
  BY <1>2, ElementOfSeq
<1>5. DOMAIN pairs \subseteq Nat /\ IsFiniteSet(DOMAIN pairs)
  <2>1. DOMAIN pairs \subseteq 1..Len(parts)
    BY <1>3
  <2>2. IsFiniteSet(1..Len(parts))
    BY <1>2, FS_Interval
  <2> QED
    BY <1>2, <2>1, <2>2, FS_Subset
<1>6. ASSUME NEW i \in DOMAIN pairs
      PROVE  /\ pairs[i][1] \in Seq(Letter) /\ IsBare(pairs[i][1]) /\ pairs[i][1] # <<>>
             /\ pairs[i][2] \in Seq(Letter) /\ IsBare(pairs[i][2]) /\ pairs[i][2] # <<>>
             /\ WrittenAt(str, place[i], pairs[i][1], pairs[i][2])
  <2>1. i \in 1..Len(parts) /\ parts[i] \in Seq(Letter) /\ place[i] = cuts[i - 1]
    BY <1>3, <1>4
  <2>2. Len(h(i)) = 2 /\ h(i)[1] # <<>> /\ h(i)[2] # <<>> /\ pairs[i] = h(i)
    BY <1>3
  <2>3. Halves(parts[i], h(i)[1], h(i)[2])
    BY <2>1, <2>2, TwoHalves
  <2>4. h(i)[1] \in Seq(Letter) /\ h(i)[2] \in Seq(Letter)
    BY <2>3 DEF Halves
  <2> HIDE DEF h, place
  <2>5. IsBare(h(i)[1]) /\ IsBare(h(i)[2]) /\ WrittenAt(str, cuts[i - 1], h(i)[1], h(i)[2])
    BY <1>1, <2>1, <2>3, PairAt
  <2> QED
    BY <2>1, <2>2, <2>4, <2>5
<1>7. ASSUME NEW i \in DOMAIN pairs, NEW j \in DOMAIN pairs, i < j
      PROVE  place[i] < place[j]
  <2>1. i \in 1..Len(parts) /\ j \in 1..Len(parts)
    BY <1>3
  <2>2. i - 1 \in 0..Len(parts) /\ j - 1 \in 0..Len(parts) /\ i - 1 < j - 1
    <3> DEFINE c == Len(parts)
    <3>1. i \in 1..c /\ j \in 1..c /\ c \in Nat
      BY <1>2, <2>1
    <3> HIDE DEF c
    <3>2. i - 1 \in 0..c /\ j - 1 \in 0..c /\ i - 1 < j - 1
      BY <1>7, <3>1
    <3> QED
      BY <3>2 DEF c
  <2> QED
    BY <1>2, <2>1, <2>2
<1>8. ASSUME NEW k \in Seq(Letter), NEW v \in Seq(Letter), NEW z \in Nat,
             IsBare(k), k # <<>>, IsBare(v), v # <<>>, WrittenAt(str, z, k, v)
      PROVE  \E i \in DOMAIN pairs : place[i] = z /\ pairs[i][1] = k /\ pairs[i][2] = v
  <2>1. PICK i \in 1..Len(parts) : cuts[i - 1] = z /\ Halves(parts[i], k, v)
    BY <1>1, <1>8, PairCut
  <2>2. parts[i] \in Seq(Letter)
    BY <1>4
  <2>3. Len(h(i)) = 2 /\ h(i)[1] = k /\ h(i)[2] = v
    BY <2>1, <2>2, HalvesFound
  <2> HIDE DEF h
  <2>4. i \in DOMAIN pairs /\ pairs[i] = h(i)
    BY <1>3, <1>8, <2>3
  <2>5. place[i] = z
    BY <2>1
  <2> QED
    BY <2>3, <2>4, <2>5
<1> HIDE DEF place
<1>9. Placing(str, pairs, place)
  BY <1>5, <1>6, <1>7, <1>8 DEF Placing
<1> QED
  BY <1>9 DEF pairs

-----------------------------------------------------------------------------
(* What parse makes of the pairs: a key has the value of its first pair.   *)
Firsts(pairs, map) ==
  /\ IsFiniteSet(DOMAIN map)
  /\ DOMAIN map = {pairs[i][1] : i \in DOMAIN pairs}
  /\ \A k \in DOMAIN map :
       \E i \in DOMAIN pairs : /\ pairs[i][1] = k /\ pairs[i][2] = map[k]
                              /\ \A j \in DOMAIN pairs : pairs[j][1] = k => i <= j

LEMMA ParsedIs ==
  ASSUME NEW str, NEW place, Placing(str, Pairs(str), place)
  PROVE  /\ Firsts(Pairs(str), Parsed(str))
         /\ \A S : S = DOMAIN Parsed(str) => Parsed(str) = [k \in S |-> Parsed(str)[k]]
<1> DEFINE pairs == Pairs(str)
           map == Parsed(str)
           isFirst(i, k) == pairs[i][1] = k /\ \A j \in DOMAIN pairs : pairs[j][1] = k => i <= j
           first(k) == CHOOSE i \in DOMAIN pairs : isFirst(i, k)
           keys == {pairs[i][1] : i \in DOMAIN pairs}
<1>1. DOMAIN pairs \subseteq Nat /\ IsFiniteSet(DOMAIN pairs)
  BY DEF Placing
<1>2. map = [k \in keys |-> pairs[first(k)][2]]
  BY DEF Parsed
<1> HIDE DEF pairs, map
<1>3. IsFiniteSet(keys)
  <2> DEFINE key == [i \in DOMAIN pairs |-> pairs[i][1]]
  <2>1. key \in Surjection(DOMAIN pairs, keys)
    BY DEF Surjection
  <2> QED
    BY <1>1, <2>1, FS_Surjection
<1>4. ASSUME NEW k \in keys PROVE first(k) \in DOMAIN pairs /\ isFirst(first(k), k)
  <2> DEFINE I == {i \in DOMAIN pairs : pairs[i][1] = k}
  <2>1. I \subseteq Nat /\ I # {}
    BY <1>1
  <2>2. PICK i \in I : \A j \in I : i <= j
    BY <2>1, LeastNumber
  <2>3. i \in DOMAIN pairs /\ isFirst(i, k)
    BY <2>2
  <2> HIDE DEF isFirst
  <2> QED
    BY <2>3
<1> HIDE DEF first
<1>5. ASSUME NEW k \in DOMAIN map
      PROVE \E i \in DOMAIN pairs : /\ pairs[i][1] = k /\ pairs[i][2] = map[k]
                                    /\ \A j \in DOMAIN pairs : pairs[j][1] = k => i <= j
  <2>1. k \in keys /\ map[k] = pairs[first(k)][2]
    BY <1>2
  <2> QED
    BY <1>4, <2>1
<1>6. DOMAIN map = keys
  BY <1>2
<1>7. \A S : S = DOMAIN map => map = [k \in S |-> map[k]]
  BY <1>2
<1> QED
  BY <1>3, <1>5, <1>6, <1>7 DEF Firsts, pairs, map

(* A string that stands in a line is one of its parts.                     *)
LEMMA PartOfLine ==
  ASSUME NEW str \in Seq(Letter), NEW s \in Seq(Letter), s # <<>>, NEW a \in Nat,
         a + Len(s) <= Len(str), \A q \in 1..Len(s) : str[a + q] = s[q]
  PROVE  s \in Parts(str)
<1> DEFINE n == Len(s)
           l == Len(str)
<1>1. n \in Nat /\ l \in Nat /\ n # 0
  BY LenProperties, EmptySeq
<1>2. SubSeq(str, a + 1, a + n) \in Seq(Letter) /\ Len(SubSeq(str, a + 1, a + n)) = n
      /\ \A q \in 1..n : SubSeq(str, a + 1, a + n)[q] = str[a + q]
  BY <1>1, PartIs
<1>3. \A q \in 1..n : str[a + q] = s[q]
  OBVIOUS
<1>4. s = SubSeq(str, a + 1, a + n)
  BY <1>2, <1>3, SeqEqual
<1>5. a + n <= l
  OBVIOUS
<1> HIDE DEF n, l
<1>6. a + 1 \in 1..l /\ a + n \in 1..l
  BY <1>1, <1>5
<1>7. SubSeq(str, a + 1, a + n) \in Parts(str)
  <2> DEFINE i == a + 1
             j == a + n
  <2>1. i \in 1..Len(str) /\ j \in 1..Len(str)
    BY <1>6 DEF l
  <2> HIDE DEF i, j
  <2>2. SubSeq(str, i, j) \in Parts(str)
    BY <2>1, SMT DEF Parts
  <2> QED
    BY <2>2 DEF i, j
<1> QED
  BY <1>4, <1>7

(* The parts of a line are strings, and one that is not broken is free of  *)
(* the delimiters.                                                         *)
LEMMA PlainIs ==
  ASSUME NEW str \in Seq(Letter)
  PROVE  /\ \A p \in Parts(str) : p \in Seq(Letter)
         /\ \A p \in Seq(Letter) : Unbroken(p) <=> p # <<>> /\ IsBare(p)
<1>1. ASSUME NEW p \in Parts(str) PROVE p \in Seq(Letter)
  <2>1. PICK i \in 1..Len(str), j \in 1..Len(str) : p = SubSeq(str, i, j)
    BY DEF Parts
  <2>2. Len(str) \in Nat
    BY LenProperties
  <2>3. i \in Int /\ j \in Int /\ \A q \in i..j : q \in 1..Len(str)
    <3> DEFINE l == Len(str)
    <3> HIDE DEF l
    <3>1. ASSUME l \in Nat, NEW a \in 1..l, NEW b \in 1..l
          PROVE a \in Int /\ b \in Int /\ \A q \in a..b : q \in 1..l
      BY <3>1
    <3> QED
      BY <2>2, <3>1 DEF l
  <2>4. \A q \in i..j : str[q] \in Letter
    BY <2>3, ElementOfSeq
  <2> QED
    BY <2>1, <2>3, <2>4, SubSeqProperties
<1>2. ASSUME NEW p \in Seq(Letter) PROVE Unbroken(p) <=> p # <<>> /\ IsBare(p)
  <2>1. DOMAIN p = 1..Len(p)
    BY LenProperties
  <2> QED
    BY <2>1 DEF Unbroken, IsBare
<1> QED
  BY <1>1, <1>2

-----------------------------------------------------------------------------
(* What parse reads is what is written in the line.                        *)
LEMMA ReadAsWritten ==
  ASSUME line \in Seq(Letter), kvMap = Parsed(line)
  PROVE  FoundAsWritten
<1> DEFINE pairs == Pairs(line)
           plain == {p \in Parts(line) : Unbroken(p)}
           before(i, k) == \E v \in plain : \E j \in Stands(line, k, v) : j < i
<1>1. PICK place : Placing(line, pairs, place)
  BY PairsStand
<1>2. Firsts(pairs, kvMap)
  BY <1>1, ParsedIs
<1> HIDE DEF pairs
<1>3. \A p \in plain : p \in Parts(line) /\ p \in Seq(Letter) /\ p # <<>> /\ IsBare(p)
  BY PlainIs
<1>4. /\ DOMAIN pairs \subseteq Nat
      /\ \A i \in DOMAIN pairs :
           /\ pairs[i][1] \in Seq(Letter) /\ IsBare(pairs[i][1]) /\ pairs[i][1] # <<>>
           /\ pairs[i][2] \in Seq(Letter) /\ IsBare(pairs[i][2]) /\ pairs[i][2] # <<>>
           /\ WrittenAt(line, place[i], pairs[i][1], pairs[i][2])
  BY <1>1 DEF Placing
<1>5. \A i, j \in DOMAIN pairs : i < j => place[i] < place[j]
  BY <1>1 DEF Placing
<1>6. \A k, v \in Seq(Letter) : \A z \in Nat :
        IsBare(k) /\ k # <<>> /\ IsBare(v) /\ v # <<>> /\ WrittenAt(line, z, k, v)
          => \E i \in DOMAIN pairs : place[i] = z /\ pairs[i][1] = k /\ pairs[i][2] = v
  BY <1>1 DEF Placing
<1>7. ASSUME NEW i \in DOMAIN pairs
      PROVE  /\ place[i] \in Nat /\ pairs[i][2] \in plain
             /\ place[i] + 1 \in Stands(line, pairs[i][1], pairs[i][2])
  <2> DEFINE k == pairs[i][1]
             v == pairs[i][2]
             z == place[i]
  <2>1. /\ k \in Seq(Letter) /\ v \in Seq(Letter) /\ IsBare(v) /\ v # <<>>
        /\ WrittenAt(line, z, k, v)
    BY <1>4
  <2> HIDE DEF k, v, z
  <2>2. z \in Nat /\ z + 1 \in Stands(line, k, v)
    <3>1. z \in Nat
      BY <2>1 DEF WrittenAt
    <3> QED
      BY <2>1, <3>1, StandsIs
  <2>3. v \in Parts(line)
    <3> DEFINE a == z + Len(k) + 1
    <3>1. Len(k) \in Nat
      BY <2>1, LenProperties
    <3>2. a \in Nat /\ a + Len(v) <= Len(line) /\ \A q \in 1..Len(v) : line[a + q] = v[q]
      BY <2>1, <2>2, <3>1 DEF WrittenAt
    <3> HIDE DEF a
    <3> QED
      BY <2>1, <3>2, PartOfLine
  <2>4. v \in plain
    BY <2>1, <2>3, PlainIs
  <2> QED
    BY <2>2, <2>4 DEF k, v, z
<1> HIDE DEF plain
(* The position in the line and the number of the pair say the same. *)
<1>8. ASSUME NEW i \in DOMAIN pairs, NEW k \in plain, pairs[i][1] = k
      PROVE  before(place[i] + 1, k) <=> \E j \in DOMAIN pairs : pairs[j][1] = k /\ j < i
  <2>1. ASSUME NEW j \in DOMAIN pairs, pairs[j][1] = k, j < i
        PROVE  before(place[i] + 1, k)
    <3>1. /\ pairs[j][2] \in plain /\ place[j] + 1 \in Stands(line, k, pairs[j][2])
          /\ place[j] \in Nat /\ place[i] \in Nat
      BY <1>7, <2>1
    <3>2. place[j] + 1 < place[i] + 1
      BY <1>5, <2>1, <3>1
    <3> QED
      BY <3>1, <3>2
  <2>2. ASSUME NEW v \in plain, NEW e \in Stands(line, k, v), e < place[i] + 1
        PROVE  \E j \in DOMAIN pairs : pairs[j][1] = k /\ j < i
    <3> DEFINE z == e - 1
    <3>1. k \in Seq(Letter) /\ v \in Seq(Letter) /\ IsBare(k) /\ k # <<>> /\ IsBare(v) /\ v # <<>>
      BY <1>3
    <3>2. e \in Nat \ {0}
      BY <3>1, StandsIs
    <3>3. z \in Nat /\ e = z + 1
      BY <3>2
    <3> HIDE DEF z
    <3>4. WrittenAt(line, z, k, v)
      BY <3>1, <3>3, StandsIs
    <3>5. PICK j \in DOMAIN pairs : place[j] = z /\ pairs[j][1] = k /\ pairs[j][2] = v
      BY <1>6, <3>1, <3>3, <3>4
    <3>6. place[i] \in Nat /\ place[j] \in Nat /\ i \in Nat /\ j \in Nat
      BY <1>4, <1>7
    <3>7. place[j] < place[i]
      BY <2>2, <3>3, <3>5, <3>6
    <3>8. ~(i < j) /\ i # j
      <4>1. i < j => place[i] < place[j]
        BY <1>5
      <4> QED
        BY <3>6, <3>7, <4>1
    <3> QED
      BY <3>5, <3>6, <3>8
  <2> QED
    BY <2>1, <2>2
<1>9. ASSUME NEW k \in plain, NEW v \in plain
      PROVE  k \in DOMAIN kvMap /\ kvMap[k] = v <=> \E i \in Stands(line, k, v) : ~before(i, k)
  <2>1. ASSUME k \in DOMAIN kvMap, kvMap[k] = v
        PROVE  \E i \in Stands(line, k, v) : ~before(i, k)
    <3>1. PICK i \in DOMAIN pairs : /\ pairs[i][1] = k /\ pairs[i][2] = v
                                    /\ \A j \in DOMAIN pairs : pairs[j][1] = k => i <= j
      BY <1>2, <2>1 DEF Firsts
    <3>2. ~\E j \in DOMAIN pairs : pairs[j][1] = k /\ j < i
      <4>1. \A j \in DOMAIN pairs : i \in Nat /\ j \in Nat
        BY <1>4
      <4> QED
        BY <3>1, <4>1
    <3>3. ~before(place[i] + 1, k)
      BY <1>8, <3>1, <3>2
    <3>4. place[i] + 1 \in Stands(line, k, v)
      BY <1>7, <3>1
    <3> QED
      BY <3>3, <3>4
  <2>2. ASSUME NEW e \in Stands(line, k, v), ~before(e, k)
        PROVE  k \in DOMAIN kvMap /\ kvMap[k] = v
    <3> DEFINE z == e - 1
    <3>1. k \in Seq(Letter) /\ v \in Seq(Letter) /\ IsBare(k) /\ k # <<>> /\ IsBare(v) /\ v # <<>>
      BY <1>3
    <3>2. e \in Nat \ {0}
      BY <3>1, StandsIs
    <3>3. z \in Nat /\ e = z + 1
      BY <3>2
    <3> HIDE DEF z
    <3>4. WrittenAt(line, z, k, v)
      BY <3>1, <3>3, StandsIs
    <3>5. PICK i \in DOMAIN pairs : place[i] = z /\ pairs[i][1] = k /\ pairs[i][2] = v
      BY <1>6, <3>1, <3>3, <3>4
    <3>6. ~\E j \in DOMAIN pairs : pairs[j][1] = k /\ j < i
      <4>1. ~before(place[i] + 1, k)
        BY <2>2, <3>3, <3>5
      <4> QED
        BY <1>8, <3>5, <4>1
    <3>7. k \in DOMAIN kvMap
      BY <1>2, <3>5 DEF Firsts
    <3>8. PICK m \in DOMAIN pairs : /\ pairs[m][1] = k /\ pairs[m][2] = kvMap[k]
                                    /\ \A j \in DOMAIN pairs : pairs[j][1] = k => m <= j
      BY <1>2, <3>7 DEF Firsts
    <3>9. m = i
      <4>1. m <= i /\ ~(m < i) /\ m \in Nat /\ i \in Nat
        BY <1>4, <3>5, <3>6, <3>8
      <4> QED
        BY <4>1
    <3> QED
      BY <3>5, <3>7, <3>8, <3>9
  <2> QED
    BY <2>1, <2>2
<1> QED
  BY <1>9 DEF FoundAsWritten, plain

-----------------------------------------------------------------------------
(* The recursion of Offset has a solution: a shorter one can be continued. *)
LEMMA OffsetIs ==
  ASSUME NEW pieces \in Seq(Seq(Letter))
  PROVE  LET begin == Offset(pieces) IN
         /\ begin \in [1..(Len(pieces) + 1) -> Nat] /\ begin[1] = 0
         /\ \A i \in 1..Len(pieces) : begin[i + 1] = begin[i] + Len(pieces[i])
<1> DEFINE n == Len(pieces)
           size(i) == Len(pieces[i])
           next(f, i) == IF i = 1 THEN 0 ELSE f[i - 1] + size(i - 1)
           begin == Offset(pieces)
<1>1. n \in Nat /\ \A i \in 1..n : size(i) \in Nat
  <2>1. n \in Nat /\ \A i \in 1..n : pieces[i] \in Seq(Letter)
    BY LenProperties, ElementOfSeq
  <2> QED
    BY <2>1, LenProperties
<1>2. begin = CHOOSE f : f = [i \in 1..(n + 1) |-> next(f, i)]
  BY DEF Offset
<1> HIDE DEF n, size, begin
<1> DEFINE good(m) == \E f \in [1..m -> Nat] : \A i \in 1..m : f[i] = next(f, i)
           bad == {m \in 1..(n + 1) : ~good(m)}
<1>3. good(1)
  <2> DEFINE f == [i \in 1..1 |-> 0]
  <2>1. f \in [1..1 -> Nat] /\ \A i \in 1..1 : f[i] = next(f, i)
    <3>1. \A i \in 1..1 : i = 1
      OBVIOUS
    <3> QED
      BY <3>1
  <2> QED
    BY <2>1
<1>4. ASSUME NEW m \in 1..n, good(m) PROVE good(m + 1)
  <2>1. PICK f \in [1..m -> Nat] : \A i \in 1..m : f[i] = next(f, i)
    BY <1>4
  <2> DEFINE g == [i \in 1..(m + 1) |-> IF i = m + 1 THEN f[m] + size(m) ELSE f[i]]
  <2>2. f[m] + size(m) \in Nat
    <3>1. m \in 1..m
      BY <1>1
    <3>2. f[m] \in Nat /\ size(m) \in Nat
      BY <1>1, <3>1
    <3> QED
      BY <3>2
  <2>3. g \in [1..(m + 1) -> Nat]
    <3>1. \A i \in 1..(m + 1) : i # m + 1 => i \in 1..m
      BY <1>1
    <3> HIDE DEF next, size
    <3> QED
      BY <2>2, <3>1
  <2>4. ASSUME NEW i \in 1..(m + 1) PROVE g[i] = next(g, i)
    <3>1. CASE i = m + 1
      <4>1. i # 1 /\ i - 1 = m /\ m \in 1..(m + 1) /\ m # m + 1
        BY <1>1, <3>1
      <4>2. g[i] = f[m] + size(m) /\ g[m] = f[m]
        BY <3>1, <4>1
      <4> QED
        BY <4>1, <4>2
    <3>2. CASE i # m + 1
      <4>1. i \in 1..m /\ g[i] = f[i]
        BY <1>1, <3>2
      <4>2. CASE i = 1
        <5>1. f[i] = next(f, i)
          BY <2>1, <4>1
        <5> QED
          BY <4>1, <4>2, <5>1
      <4>3. CASE i # 1
        <5>1. i - 1 \in 1..(m + 1) /\ i - 1 # m + 1
          BY <1>1, <4>1, <4>3
        <5>2. g[i - 1] = f[i - 1]
          BY <5>1
        <5>3. f[i] = next(f, i)
          BY <2>1, <4>1
        <5> QED
          BY <4>1, <4>3, <5>2, <5>3
      <4> QED
        BY <4>2, <4>3
    <3> QED
      BY <3>1, <3>2
  <2> HIDE DEF g, next
  <2> QED
    BY <2>3, <2>4
<1>5. bad = {}
  <2> SUFFICES ASSUME bad # {} PROVE FALSE
    OBVIOUS
  <2> HIDE DEF good
  <2>1. bad \subseteq Nat
    BY <1>1
  <2>2. PICK m \in bad : \A j \in bad : m <= j
    BY <2>1, LeastNumber
  <2>3. m \in 1..(n + 1) /\ ~good(m) /\ m # 1
    BY <1>3, <2>2
  <2>4. m - 1 \in 1..n /\ m - 1 \in 1..(n + 1) /\ ~(m <= m - 1) /\ (m - 1) + 1 = m
    BY <1>1, <2>3
  <2>5. good(m - 1)
    BY <2>2, <2>4
  <2>6. good((m - 1) + 1)
    BY <1>4, <2>4, <2>5
  <2> QED
    BY <2>3, <2>4, <2>6
<1>6. PICK f \in [1..(n + 1) -> Nat] : \A i \in 1..(n + 1) : f[i] = next(f, i)
  <2>1. n + 1 \in 1..(n + 1)
    BY <1>1
  <2>2. good(n + 1)
    <3> HIDE DEF good
    <3> QED
      BY <1>5, <2>1
  <2> QED
    BY <2>2
<1>7. f = [i \in 1..(n + 1) |-> next(f, i)]
  <2> HIDE DEF next
  <2> QED
    BY <1>6
<1>8. begin = [i \in 1..(n + 1) |-> next(begin, i)]
  <2> DEFINE is(g) == g = [i \in 1..(n + 1) |-> next(g, i)]
  <2>1. is(f) /\ begin = CHOOSE g : is(g)
    BY <1>2, <1>7
  <2> HIDE DEF is
  <2>2. is(begin)
    BY <2>1
  <2> QED
    BY <2>2 DEF is
<1>9. /\ DOMAIN begin = 1..(n + 1) /\ begin[1] = 0
      /\ \A i \in 1..n : begin[i + 1] = begin[i] + size(i)
  <2> DEFINE b == begin
  <2>1. b = [i \in 1..(n + 1) |-> next(b, i)]
    BY <1>8
  <2> HIDE DEF b, next
  <2>2. DOMAIN b = 1..(n + 1) /\ \A i \in 1..(n + 1) : b[i] = next(b, i)
    BY <2>1
  <2>3. b[1] = 0
    <3>1. 1 \in 1..(n + 1)
      BY <1>1
    <3> QED
      BY <2>2, <3>1 DEF next
  <2>4. ASSUME NEW i \in 1..n PROVE b[i + 1] = b[i] + size(i)
    <3>1. i + 1 \in 1..(n + 1) /\ i + 1 # 1 /\ (i + 1) - 1 = i
      BY <1>1
    <3>2. b[i + 1] = next(b, i + 1)
      BY <2>2, <3>1
    <3> QED
      BY <3>1, <3>2 DEF next
  <2> QED
    BY <2>2, <2>3, <2>4 DEF b
<1> HIDE DEF bad
<1> DEFINE odd == {m \in 1..(n + 1) : begin[m] \notin Nat}
<1>10. odd = {}
  <2> SUFFICES ASSUME odd # {} PROVE FALSE
    OBVIOUS
  <2>1. odd \subseteq Nat
    BY <1>1
  <2>2. PICK m \in odd : \A j \in odd : m <= j
    BY <2>1, LeastNumber
  <2>3. m \in 1..(n + 1) /\ begin[m] \notin Nat /\ m # 1
    BY <1>9, <2>2
  <2>4. m - 1 \in 1..n /\ m - 1 \in 1..(n + 1) /\ ~(m <= m - 1) /\ (m - 1) + 1 = m
    BY <1>1, <2>3
  <2>5. begin[m - 1] \in Nat
    BY <2>2, <2>4
  <2>6. begin[(m - 1) + 1] = begin[m - 1] + size(m - 1) /\ size(m - 1) \in Nat
    BY <1>1, <1>9, <2>4
  <2> QED
    BY <2>3, <2>4, <2>5, <2>6
<1>11. begin \in [1..(n + 1) -> Nat]
  <2>1. \A m \in 1..(n + 1) : begin[m] \in Nat
    BY <1>10
  <2>2. begin = [i \in 1..(n + 1) |-> begin[i]]
    <3> HIDE DEF next
    <3> QED
      BY <1>8
  <2> QED
    BY <2>1, <2>2
<1> QED
  BY <1>9, <1>11 DEF begin, n, size

(* The pieces lie one behind the other: each position is in one of them.   *)
Tiles(n, begin, size) ==
  /\ n \in Nat
  /\ \A i \in 1..n : size[i] \in Nat \ {0}
  /\ begin \in [1..(n + 1) -> Nat] /\ begin[1] = 0
  /\ \A i \in 1..n : begin[i + 1] = begin[i] + size[i]

LEMMA TilesRise ==
  ASSUME NEW n, NEW begin, NEW size, Tiles(n, begin, size),
         NEW i \in 1..n, NEW j \in 1..(n + 1), i < j
  PROVE  begin[i + 1] <= begin[j]
<1> DEFINE bad == {m \in 1..(n + 1) : i < m /\ ~(begin[i + 1] <= begin[m])}
<1>1. /\ n \in Nat
      /\ \A k \in 1..n : size[k] \in Nat
      /\ \A k \in 1..(n + 1) : begin[k] \in Nat
      /\ \A k \in 1..n : begin[k + 1] = begin[k] + size[k]
  BY DEF Tiles
<1>2. i + 1 \in 1..(n + 1) /\ begin[i + 1] \in Nat
  BY <1>1
<1>3. ASSUME bad # {} PROVE FALSE
  <2>1. bad \subseteq Nat
    BY <1>1
  <2>2. PICK m \in bad : \A k \in bad : m <= k
    BY <1>3, <2>1, LeastNumber
  <2>3. m \in 1..(n + 1) /\ i < m /\ ~(begin[i + 1] <= begin[m]) /\ begin[m] \in Nat
    BY <1>1, <2>2
  <2>4. m # i + 1
    BY <1>2, <2>3
  <2>5. m - 1 \in 1..n /\ m - 1 \in 1..(n + 1) /\ i < m - 1 /\ ~(m <= m - 1) /\ (m - 1) + 1 = m
    BY <1>1, <2>3, <2>4
  <2>6. begin[i + 1] <= begin[m - 1]
    BY <2>2, <2>5
  <2>7. /\ begin[(m - 1) + 1] = begin[m - 1] + size[m - 1]
        /\ size[m - 1] \in Nat /\ begin[m - 1] \in Nat
    BY <1>1, <2>5
  <2>8. begin[m] = begin[m - 1] + size[m - 1]
    BY <2>5, <2>7
  <2> QED
    BY <1>2, <2>3, <2>6, <2>7, <2>8
<1> QED
  BY <1>3

LEMMA TileOf ==
  ASSUME NEW n, NEW begin, NEW size, Tiles(n, begin, size),
         NEW p \in Nat, 0 < p, p <= begin[n + 1]
  PROVE  \E i \in 1..n : begin[i] < p /\ p <= begin[i + 1]
<1> DEFINE above == {m \in 1..(n + 1) : p <= begin[m]}
<1>1. n \in Nat /\ \A k \in 1..(n + 1) : begin[k] \in Nat
  BY DEF Tiles
<1>2. above \subseteq Nat /\ n + 1 \in above
  BY <1>1
<1>3. PICK m \in above : \A k \in above : m <= k
  BY <1>2, LeastNumber
<1>4. m \in 1..(n + 1) /\ p <= begin[m]
  BY <1>3
<1>5. m # 1
  <2>1. begin[1] = 0
    BY DEF Tiles
  <2> QED
    BY <1>4, <2>1
<1>6. m - 1 \in 1..n /\ m - 1 \in 1..(n + 1) /\ ~(m <= m - 1) /\ (m - 1) + 1 = m
  BY <1>1, <1>4, <1>5
<1>7. ~(p <= begin[m - 1]) /\ begin[m - 1] \in Nat
  BY <1>1, <1>3, <1>6
<1>8. begin[m - 1] < p
  BY <1>7
<1> QED
  BY <1>4, <1>6, <1>8

LEMMA TileOnce ==
  ASSUME NEW n, NEW begin, NEW size, Tiles(n, begin, size), NEW p \in Nat,
         NEW i \in 1..n, begin[i] < p, p <= begin[i + 1],
         NEW j \in 1..n, begin[j] < p, p <= begin[j + 1]
  PROVE  i = j
<1>1. n \in Nat /\ \A k \in 1..(n + 1) : begin[k] \in Nat
  BY DEF Tiles
<1>2. i \in 1..(n + 1) /\ j \in 1..(n + 1) /\ i + 1 \in 1..(n + 1) /\ j + 1 \in 1..(n + 1)
  BY <1>1
<1>3. begin[i] \in Nat /\ begin[j] \in Nat /\ begin[i + 1] \in Nat /\ begin[j + 1] \in Nat
  BY <1>1, <1>2
<1>4. ~(i < j)
  <2>1. i < j => begin[i + 1] <= begin[j]
    BY <1>2, TilesRise
  <2> QED
    BY <1>3, <2>1
<1>5. ~(j < i)
  <2>1. j < i => begin[j + 1] <= begin[i]
    BY <1>2, TilesRise
  <2> QED
    BY <1>3, <2>1
<1> QED
  BY <1>2, <1>4, <1>5

(* A key, "=", a value and a space.                                       *)
IsPiece(s, k, v) ==
  /\ s \in Seq(Letter) /\ Len(s) = Len(k) + 1 + Len(v) + 1
  /\ \A q \in 1..Len(k) : s[q] = k[q]
  /\ s[Len(k) + 1] = Equals
  /\ \A q \in 1..Len(v) : s[Len(k) + 1 + q] = v[q]
  /\ s[Len(k) + 1 + Len(v) + 1] = Space

LEMMA PieceIs ==
  ASSUME NEW k \in Seq(Letter), NEW v \in Seq(Letter)
  PROVE  IsPiece(k \o <<Equals>> \o v \o <<Space>>, k, v)
<1> DEFINE f == k \o <<Equals>> \o v
           e == <<Space>>
           s == f \o e
           m == Len(k)
           n == Len(v)
           r == m + 1 + n
<1>1. m \in Nat /\ n \in Nat
  BY LenProperties
<1>2. e \in Seq(Letter) /\ Len(e) = 1 /\ e[1] = Space
  BY DEF Letter
<1>3. /\ f \in Seq(Letter) /\ Len(f) = r
      /\ \A q \in 1..m : f[q] = k[q]
      /\ f[m + 1] = Equals
      /\ \A q \in 1..n : f[m + 1 + q] = v[q]
  BY PairJoined
<1> HIDE DEF e, f
<1>4. /\ s \in Seq(Letter) /\ Len(s) = Len(f) + Len(e)
      /\ \A q \in 1..(Len(f) + Len(e)) : s[q] = IF q <= Len(f) THEN f[q] ELSE e[q - Len(f)]
  <2>1. f \in Seq(Letter) /\ e \in Seq(Letter)
    BY <1>2, <1>3
  <2> QED
    BY <2>1, ConcatProperties
<1> HIDE DEF m, n, s
<1>5. /\ Len(s) = r + 1
      /\ \A q \in 1..(r + 1) : s[q] = IF q <= r THEN f[q] ELSE e[q - r]
  <2> HIDE DEF r
  <2> QED
    BY <1>2, <1>3, <1>4
<1>6. /\ \A q \in 1..m : q \in 1..(r + 1) /\ q <= r
      /\ m + 1 \in 1..(r + 1) /\ m + 1 <= r
      /\ \A q \in 1..n : m + 1 + q \in 1..(r + 1) /\ m + 1 + q <= r
      /\ r + 1 \in 1..(r + 1) /\ ~(r + 1 <= r) /\ (r + 1) - r = 1
  BY <1>1
<1>7. /\ \A q \in 1..m : s[q] = k[q]
      /\ s[m + 1] = Equals
      /\ \A q \in 1..n : s[m + 1 + q] = v[q]
      /\ s[r + 1] = Space
  <2> HIDE DEF r
  <2>1. \A q \in 1..m : s[q] = k[q]
    BY <1>3, <1>5, <1>6
  <2>2. s[m + 1] = Equals
    BY <1>3, <1>5, <1>6
  <2>3. ASSUME NEW q \in 1..n PROVE s[m + 1 + q] = v[q]
    <3>1. s[m + 1 + q] = f[m + 1 + q]
      BY <1>5, <1>6
    <3> QED
      BY <1>3, <3>1
  <2>4. s[r + 1] = Space
    BY <1>2, <1>5, <1>6
  <2> QED
    BY <2>1, <2>2, <2>3, <2>4
<1>8. IsPiece(s, k, v)
  BY <1>4, <1>5, <1>7 DEF IsPiece, m, n, r
<1> QED
  BY <1>8 DEF s, f, e

(* Where the pairs of a map lie in the line that reverse writes.           *)
Sizes(o, map) == [i \in DOMAIN o |-> Len(o[i]) + 1 + Len(map[o[i]]) + 1]

Laid(str, o, map, n, begin) ==
  /\ str \in Seq(Letter) /\ Tiles(n, begin, Sizes(o, map))
  /\ Len(str) = IF n = 0 THEN 0 ELSE begin[n + 1] - 1
  /\ \A i \in 1..n :
       /\ \A q \in 1..Len(o[i]) : str[begin[i] + q] = o[i][q]
       /\ str[begin[i] + Len(o[i]) + 1] = Equals
       /\ \A q \in 1..Len(map[o[i]]) : str[begin[i] + Len(o[i]) + 1 + q] = map[o[i]][q]
       /\ i < n => str[begin[i + 1]] = Space

LEMMA ReversedIs ==
  ASSUME NEW n \in Nat, NEW K, K \subseteq Seq(Letter), NEW o \in [1..n -> K],
         NEW map, \A k \in K : map[k] \in Seq(Letter)
  PROVE  \E begin : Laid(Reversed(o, map), o, map, n, begin)
<1> DEFINE piece(i) == o[i] \o <<Equals>> \o map[o[i]] \o <<Space>>
           pieces == [i \in DOMAIN o |-> piece(i)]
           begin == Offset(pieces)
           own(p) == CHOOSE i \in DOMAIN o : begin[i] < p /\ p <= begin[i + 1]
           end == begin[Len(o) + 1]
           text == [p \in 1..end |-> pieces[own(p)][p - begin[own(p)]]]
           str == SubSeq(text, 1, Len(text) - 1)
           size == Sizes(o, map)
           key(i) == o[i]
           val(i) == map[o[i]]
<1>1. Reversed(o, map) = str
  BY DEF Reversed
<1>2. DOMAIN o = 1..n /\ Len(o) = n
  BY LengthIs
<1>3. ASSUME NEW i \in 1..n
      PROVE  /\ key(i) \in Seq(Letter) /\ val(i) \in Seq(Letter)
             /\ Len(key(i)) \in Nat /\ Len(val(i)) \in Nat
  <2>1. key(i) \in Seq(Letter) /\ val(i) \in Seq(Letter)
    OBVIOUS
  <2> HIDE DEF key, val
  <2> QED
    BY <2>1, LenProperties
<1>4. ASSUME NEW i \in 1..n
      PROVE  /\ pieces[i] = piece(i) /\ pieces[i] \in Seq(Letter)
             /\ Len(pieces[i]) = Len(key(i)) + 1 + Len(val(i)) + 1
             /\ \A q \in 1..Len(key(i)) : pieces[i][q] = key(i)[q]
             /\ pieces[i][Len(key(i)) + 1] = Equals
             /\ \A q \in 1..Len(val(i)) : pieces[i][Len(key(i)) + 1 + q] = val(i)[q]
             /\ pieces[i][Len(key(i)) + 1 + Len(val(i)) + 1] = Space
  <2>1. pieces[i] = piece(i)
    BY <1>2
  <2> HIDE DEF pieces
  <2>2. /\ piece(i) \in Seq(Letter)
        /\ Len(piece(i)) = Len(key(i)) + 1 + Len(val(i)) + 1
        /\ \A q \in 1..Len(key(i)) : piece(i)[q] = key(i)[q]
        /\ piece(i)[Len(key(i)) + 1] = Equals
        /\ \A q \in 1..Len(val(i)) : piece(i)[Len(key(i)) + 1 + q] = val(i)[q]
        /\ piece(i)[Len(key(i)) + 1 + Len(val(i)) + 1] = Space
    <3>1. IsPiece(piece(i), key(i), val(i))
      BY <1>3, PieceIs
    <3> HIDE DEF piece, key, val
    <3> QED
      BY <3>1 DEF IsPiece
  <2> QED
    BY <2>1, <2>2
<1>5. pieces \in Seq(Seq(Letter)) /\ Len(pieces) = n
  <2>1. pieces \in [1..n -> Seq(Letter)]
    <3> HIDE DEF piece
    <3>1. \A i \in 1..n : piece(i) \in Seq(Letter)
      BY <1>4
    <3> QED
      BY <1>2, <3>1
  <2> HIDE DEF pieces
  <2> QED
    BY <2>1, LengthIs
<1>6. \A i \in 1..n : size[i] = Len(pieces[i]) /\ size[i] \in Nat \ {0}
  <2> SUFFICES ASSUME NEW i \in 1..n PROVE size[i] = Len(pieces[i]) /\ size[i] \in Nat \ {0}
    OBVIOUS
  <2>1. size[i] = Len(key(i)) + 1 + Len(val(i)) + 1
    BY <1>2 DEF Sizes
  <2>2. Len(pieces[i]) = Len(key(i)) + 1 + Len(val(i)) + 1
    BY <1>4
  <2>3. Len(key(i)) + 1 + Len(val(i)) + 1 \in Nat \ {0}
    <3>1. Len(key(i)) \in Nat /\ Len(val(i)) \in Nat
      BY <1>3
    <3> DEFINE a == Len(key(i))
               b == Len(val(i))
    <3>2. a \in Nat /\ b \in Nat
      BY <3>1
    <3> HIDE DEF a, b
    <3>3. a + 1 + b + 1 \in Nat \ {0}
      BY <3>2
    <3> QED
      BY <3>3 DEF a, b
  <2> HIDE DEF pieces, size, key, val
  <2> QED
    BY <2>1, <2>2, <2>3
<1> HIDE DEF pieces, size
<1>7. Tiles(n, begin, size)
  <2>1. /\ begin \in [1..(Len(pieces) + 1) -> Nat] /\ begin[1] = 0
        /\ \A i \in 1..Len(pieces) : begin[i + 1] = begin[i] + Len(pieces[i])
    BY <1>5, OffsetIs
  <2> HIDE DEF begin
  <2>2. begin \in [1..(n + 1) -> Nat]
    BY <1>5, <2>1
  <2>3. \A i \in 1..n : begin[i + 1] = begin[i] + size[i]
    BY <1>5, <1>6, <2>1
  <2> QED
    BY <1>6, <2>1, <2>2, <2>3 DEF Tiles
<1> HIDE DEF begin
<1>8. /\ \A i \in 1..n : begin[i] \in Nat /\ begin[i + 1] \in Nat /\ begin[i + 1] = begin[i] + size[i]
      /\ end = begin[n + 1] /\ end \in Nat
  <2>1. /\ \A i \in 1..(n + 1) : begin[i] \in Nat
        /\ \A i \in 1..n : begin[i + 1] = begin[i] + size[i]
    BY <1>7 DEF Tiles
  <2>2. end = begin[n + 1]
    BY <1>2
  <2>3. \A i \in 1..n : i \in 1..(n + 1) /\ i + 1 \in 1..(n + 1)
    OBVIOUS
  <2>4. n + 1 \in 1..(n + 1)
    OBVIOUS
  <2> HIDE DEF end
  <2> QED
    BY <2>1, <2>2, <2>3, <2>4
<1>9. \A i \in 1..n : begin[i + 1] <= end
  <2> SUFFICES ASSUME NEW i \in 1..n PROVE begin[i + 1] <= end
    OBVIOUS
  <2>1. i < n + 1 /\ n + 1 \in 1..(n + 1)
    OBVIOUS
  <2>2. begin[i + 1] <= begin[n + 1]
    BY <1>7, <2>1, TilesRise
  <2> QED
    BY <1>8, <2>2
<1> HIDE DEF end
<1>10. ASSUME NEW i \in 1..n, NEW q \in 1..size[i]
       PROVE  begin[i] + q \in 1..end /\ own(begin[i] + q) = i
  <2> DEFINE p == begin[i] + q
  <2>1. /\ begin[i] \in Nat /\ size[i] \in Nat /\ begin[i + 1] \in Nat
        /\ begin[i + 1] = begin[i] + size[i] /\ begin[i + 1] <= end
    BY <1>6, <1>8, <1>9
  <2>2. p \in 1..end /\ p \in Nat /\ begin[i] < p /\ p <= begin[i + 1]
    <3> DEFINE a == begin[i]
               b == begin[i + 1]
               c == size[i]
    <3>1. a \in Nat /\ b \in Nat /\ c \in Nat /\ b = a + c /\ b <= end /\ end \in Nat /\ q \in 1..c
      BY <1>8, <2>1
    <3>2. p = a + q
      OBVIOUS
    <3> HIDE DEF a, b, c, p
    <3>3. p \in 1..end /\ p \in Nat /\ a < p /\ p <= b
      BY <3>1, <3>2
    <3> QED
      BY <3>3 DEF a, b
  <2> HIDE DEF p
  <2>3. own(p) \in 1..n /\ begin[own(p)] < p /\ p <= begin[own(p) + 1]
    BY <1>2, <2>2
  <2> HIDE DEF own
  <2>4. own(p) = i
    BY <1>7, <2>2, <2>3, TileOnce
  <2> QED
    BY <2>2, <2>4 DEF p
<1>11. ASSUME NEW p \in 1..end
       PROVE  \E i \in 1..n : \E q \in 1..size[i] : p = begin[i] + q
  <2>1. p \in Nat /\ 0 < p /\ p <= begin[n + 1]
    BY <1>8
  <2>2. PICK i \in 1..n : begin[i] < p /\ p <= begin[i + 1]
    BY <1>7, <2>1, TileOf
  <2> DEFINE q == p - begin[i]
  <2>3. q \in 1..size[i] /\ p = begin[i] + q
    <3> DEFINE a == begin[i]
               c == size[i]
    <3>1. a \in Nat /\ c \in Nat /\ p \in Nat /\ a < p /\ p <= a + c /\ q = p - a
      BY <1>6, <1>8, <2>1, <2>2
    <3> HIDE DEF a, c, q
    <3>2. q \in 1..c /\ p = a + q
      BY <3>1
    <3> QED
      BY <3>2 DEF a, c
  <2> QED
    BY <2>3
<1>12. \A i \in 1..n : \A q \in 1..size[i] : text[begin[i] + q] = pieces[i][q]
  <2> SUFFICES ASSUME NEW i \in 1..n, NEW q \in 1..size[i]
               PROVE  text[begin[i] + q] = pieces[i][q]
    OBVIOUS
  <2>1. begin[i] + q \in 1..end /\ own(begin[i] + q) = i
    BY <1>10
  <2>2. begin[i] \in Nat /\ q \in Int
    BY <1>6, <1>8
  <2>3. (begin[i] + q) - begin[i] = q
    BY <2>2
  <2> HIDE DEF own
  <2>4. text[begin[i] + q] = pieces[own(begin[i] + q)][(begin[i] + q) - begin[own(begin[i] + q)]]
    BY <2>1
  <2> QED
    BY <2>1, <2>3, <2>4
<1>13. text \in Seq(Letter) /\ Len(text) = end
  <2>1. \A p \in 1..end : text[p] \in Letter
    <3> SUFFICES ASSUME NEW p \in 1..end PROVE text[p] \in Letter
      OBVIOUS
    <3>1. PICK i \in 1..n : \E q \in 1..size[i] : p = begin[i] + q
      BY <1>11
    <3>4. PICK q \in 1..size[i] : p = begin[i] + q
      BY <3>1
    <3>2. text[p] = pieces[i][q]
      BY <1>12, <3>4
    <3>3. pieces[i] \in Seq(Letter) /\ q \in 1..Len(pieces[i])
      BY <1>4, <1>6
    <3> HIDE DEF text
    <3> QED
      BY <3>2, <3>3, ElementOfSeq
  <2>2. text \in [1..end -> Letter]
    <3>1. DOMAIN text = 1..end /\ text = [p \in 1..end |-> text[p]]
      <4> HIDE DEF own
      <4> QED
        OBVIOUS
    <3> HIDE DEF text
    <3> QED
      BY <2>1, <3>1
  <2> HIDE DEF text
  <2> QED
    BY <1>8, <2>2, LengthIs
<1> HIDE DEF text
<1>14. n # 0 => end # 0
  <2> SUFFICES ASSUME n # 0 PROVE end # 0
    OBVIOUS
  <2>1. n \in 1..n
    OBVIOUS
  <2>2. /\ begin[n] \in Nat /\ size[n] \in Nat \ {0}
        /\ begin[n + 1] = begin[n] + size[n] /\ end = begin[n + 1]
    BY <1>6, <1>8, <2>1
  <2> DEFINE a == begin[n]
             c == size[n]
  <2>3. a \in Nat /\ c \in Nat \ {0} /\ end = a + c
    BY <2>2
  <2> HIDE DEF a, c
  <2> QED
    BY <2>3
<1>15. n = 0 => end = 0
  BY <1>7, <1>8 DEF Tiles
<1>16. /\ str \in Seq(Letter) /\ Len(str) = IF n = 0 THEN 0 ELSE end - 1
       /\ \A p \in 1..(end - 1) : str[p] = text[p]
  <2>1. CASE n = 0
    <3>1. str = SubSeq(text, 1, -1)
      BY <1>13, <1>15, <2>1
    <3>2. \A i \in 1..(-1) : text[i] \in Letter
      OBVIOUS
    <3>3. str \in Seq(Letter) /\ Len(str) = 0
      <4> HIDE DEF str
      <4>1. SubSeq(text, 1, -1) \in Seq(Letter) /\ Len(SubSeq(text, 1, -1)) = IF 1 <= -1 THEN (-1) - 1 + 1 ELSE 0
        BY <3>2, SubSeqProperties
      <4> QED
        BY <3>1, <4>1
    <3> HIDE DEF str
    <3>4. \A p \in 1..(end - 1) : FALSE
      BY <1>15, <2>1
    <3> QED
      BY <2>1, <3>3, <3>4
  <2>2. CASE n # 0
    <3> DEFINE c == end - 1
    <3>1. c \in Nat /\ 0 + 1 = 1 /\ 0 + c = Len(text) - 1 /\ 0 + c <= Len(text)
      <4>1. end \in Nat /\ end # 0 /\ Len(text) = end
        BY <1>8, <1>13, <1>14, <2>2
      <4>2. c \in Nat /\ 0 + c = end - 1 /\ 0 + c <= end
        BY <4>1
      <4> HIDE DEF c
      <4> QED
        BY <4>1, <4>2
    <3> HIDE DEF c
    <3>2. str = SubSeq(text, 0 + 1, 0 + c)
      BY <3>1
    <3> HIDE DEF str
    <3>3. str \in Seq(Letter) /\ Len(str) = c /\ \A p \in 1..c : str[p] = text[0 + p]
      BY <1>13, <3>1, <3>2, PartIs
    <3>4. \A p \in 1..c : 0 + p = p
      BY <3>1
    <3> QED
      BY <2>2, <3>3, <3>4 DEF c
  <2> QED
    BY <2>1, <2>2
<1> HIDE DEF str
<1>17. ASSUME NEW i \in 1..n
       PROVE  /\ \A q \in 1..Len(key(i)) : str[begin[i] + q] = key(i)[q]
              /\ str[begin[i] + Len(key(i)) + 1] = Equals
              /\ \A q \in 1..Len(val(i)) : str[begin[i] + Len(key(i)) + 1 + q] = val(i)[q]
              /\ i < n => str[begin[i + 1]] = Space
  <2> DEFINE a == begin[i]
             m == Len(key(i))
             l == Len(val(i))
             r == m + 1 + l + 1
             s == pieces[i]
  <2>1. m \in Nat /\ l \in Nat /\ a \in Nat /\ begin[i + 1] \in Nat
    BY <1>3, <1>8
  <2>2. size[i] = r /\ begin[i + 1] = a + r
    <3>1. size[i] = Len(pieces[i]) /\ Len(pieces[i]) = r /\ begin[i + 1] = a + size[i]
      BY <1>4, <1>6, <1>8
    <3> HIDE DEF r, a
    <3> QED
      BY <3>1
  <2>3. /\ \A q \in 1..m : s[q] = key(i)[q]
        /\ s[m + 1] = Equals
        /\ \A q \in 1..l : s[m + 1 + q] = val(i)[q]
        /\ s[m + 1 + l + 1] = Space
    BY <1>4
  <2>4. begin[i + 1] <= end /\ end \in Nat
    BY <1>8, <1>9
  <2>5. i < n => begin[i + 1] < end
    <3> SUFFICES ASSUME i < n PROVE begin[i + 1] < end
      OBVIOUS
    <3>1. i + 1 \in 1..n
      OBVIOUS
    <3>2. begin[(i + 1) + 1] <= end /\ begin[(i + 1) + 1] = begin[i + 1] + size[i + 1]
          /\ size[i + 1] \in Nat \ {0}
      BY <1>6, <1>8, <1>9, <3>1
    <3> DEFINE b == begin[i + 1]
               c == size[i + 1]
    <3>3. b \in Nat /\ c \in Nat \ {0} /\ end \in Nat /\ b + c <= end
      BY <2>1, <2>4, <3>2
    <3> HIDE DEF b, c
    <3>4. b < end
      BY <3>3
    <3> QED
      BY <3>4 DEF b
  <2> HIDE DEF key, val, a, m, l, s
  <2>6. ASSUME NEW q \in 1..r, a + q < end PROVE str[a + q] = s[q]
    <3>1. text[a + q] = s[q]
      BY <1>12, <2>2 DEF a, s
    <3>2. a + q \in 1..(end - 1)
      BY <2>1, <2>4, <2>6
    <3> QED
      BY <1>16, <3>1, <3>2
  <2>7. \A q \in 1..(r - 1) : q \in 1..r /\ a + q < end
    <3>1. a + r <= end
      BY <2>2, <2>4
    <3> QED
      BY <2>1, <2>4, <3>1
  <2>8. \A q \in 1..(r - 1) : str[a + q] = s[q]
    <3> HIDE DEF r
    <3> QED
      BY <2>6, <2>7
  <2>9. /\ \A q \in 1..m : q \in 1..(r - 1)
        /\ m + 1 \in 1..(r - 1) /\ a + (m + 1) = a + m + 1
        /\ \A q \in 1..l : m + 1 + q \in 1..(r - 1) /\ a + (m + 1 + q) = a + m + 1 + q
        /\ r \in 1..r
    BY <2>1
  <2>10. \A q \in 1..m : str[a + q] = key(i)[q]
    BY <2>3, <2>8, <2>9
  <2>11. str[a + m + 1] = Equals
    BY <2>3, <2>8, <2>9
  <2>12. ASSUME NEW q \in 1..l PROVE str[a + m + 1 + q] = val(i)[q]
    <3>1. str[a + (m + 1 + q)] = s[m + 1 + q]
      BY <2>8, <2>9
    <3> QED
      BY <2>3, <2>9, <3>1
  <2>13. ASSUME i < n PROVE str[begin[i + 1]] = Space
    <3>1. a + r < end
      BY <2>2, <2>5, <2>13
    <3>2. str[a + r] = s[r]
      BY <2>6, <2>9, <3>1
    <3>3. s[r] = Space
      BY <2>3
    <3> HIDE DEF r
    <3> QED
      BY <2>2, <3>2, <3>3
  <2> QED
    BY <2>10, <2>11, <2>12, <2>13 DEF a, m, l
<1>18. Len(str) = IF n = 0 THEN 0 ELSE begin[n + 1] - 1
  BY <1>8, <1>16
<1>19. Laid(str, o, map, n, begin)
  BY <1>7, <1>16, <1>17, <1>18 DEF Laid, size
<1> QED
  BY <1>1, <1>19

(* Each pair of the map stands in the line, and nothing else does.         *)
LEMMA LaidAt ==
  ASSUME NEW n \in Nat, NEW K, NEW o \in [1..n -> K], NEW map, NEW str, NEW begin,
         \A k \in K : k \in Seq(Letter) /\ map[k] \in Seq(Letter),
         Laid(str, o, map, n, begin), NEW i \in 1..n
  PROVE  WrittenAt(str, begin[i], o[i], map[o[i]])
<1> DEFINE k == o[i]
           v == map[o[i]]
           z == begin[i]
           m == Len(k)
           l == Len(v)
           e == begin[i + 1]
           end == begin[n + 1]
<1>1. m \in Nat /\ l \in Nat
  <2>1. k \in Seq(Letter) /\ v \in Seq(Letter)
    OBVIOUS
  <2> HIDE DEF k, v
  <2> QED
    BY <2>1, LenProperties
<1>2. /\ Tiles(n, begin, Sizes(o, map)) /\ Len(str) = end - 1
      /\ \A q \in 1..m : str[z + q] = k[q]
      /\ str[z + m + 1] = Equals
      /\ \A q \in 1..l : str[z + m + 1 + q] = v[q]
      /\ i < n => str[e] = Space
      /\ i - 1 \in 1..n => (i - 1 < n => str[begin[(i - 1) + 1]] = Space)
  <2>3. /\ Tiles(n, begin, Sizes(o, map)) /\ Len(str) = IF n = 0 THEN 0 ELSE end - 1
        /\ \A j \in 1..n : j < n => str[begin[j + 1]] = Space
    BY DEF Laid
  <2>4. n # 0
    OBVIOUS
  <2>1. /\ Tiles(n, begin, Sizes(o, map)) /\ Len(str) = end - 1
        /\ \A j \in 1..n : j < n => str[begin[j + 1]] = Space
    BY <2>3, <2>4
  <2>2. /\ \A q \in 1..m : str[z + q] = k[q]
        /\ str[z + m + 1] = Equals
        /\ \A q \in 1..l : str[z + m + 1 + q] = v[q]
    BY DEF Laid
  <2> HIDE DEF k, v, z, m, l, e, end
  <2> QED
    BY <2>1, <2>2 DEF e
<1>3. /\ z \in Nat /\ e = z + (m + 1 + l + 1) /\ end \in Nat
      /\ i = 1 => z = 0
  <2>1. /\ \A j \in 1..(n + 1) : begin[j] \in Nat
        /\ \A j \in 1..n : begin[j + 1] = begin[j] + Sizes(o, map)[j]
        /\ begin[1] = 0
    BY <1>2 DEF Tiles
  <2>2. Sizes(o, map)[i] = m + 1 + l + 1
    BY DEF Sizes
  <2>3. i \in 1..(n + 1) /\ n + 1 \in 1..(n + 1)
    OBVIOUS
  <2> HIDE DEF m, l
  <2> QED
    BY <2>1, <2>2, <2>3
<1>4. e <= end /\ (i = n => e = end)
  <2>1. i < n + 1 /\ n + 1 \in 1..(n + 1)
    OBVIOUS
  <2> QED
    BY <1>2, <2>1, TilesRise
<1>5. z = 0 \/ str[z] = Space
  <2>1. CASE i = 1
    BY <1>3, <2>1
  <2>2. CASE i # 1
    <3>1. i - 1 \in 1..n /\ i - 1 < n /\ (i - 1) + 1 = i
      BY <2>2
    <3> QED
      BY <1>2, <3>1
  <2> QED
    BY <2>1, <2>2
<1> HIDE DEF k, v, z, m, l, e, end
<1>6. z + m + 1 + l <= Len(str)
  BY <1>1, <1>2, <1>3, <1>4
<1>7. z + m + 1 + l = Len(str) \/ str[z + m + 1 + l + 1] = Space
  <2>1. e = z + m + 1 + l + 1
    BY <1>1, <1>3
  <2>2. CASE i = n
    BY <1>1, <1>2, <1>3, <1>4, <2>2
  <2>3. CASE i # n
    <3>1. i < n
      BY <2>3
    <3> QED
      BY <1>2, <2>1, <3>1
  <2> QED
    BY <2>2, <2>3
<1>8. WrittenAt(str, z, k, v)
  BY <1>2, <1>3, <1>5, <1>6, <1>7 DEF WrittenAt, m, l
<1> QED
  BY <1>8 DEF z, k, v

(* What keys and values are made of.                                       *)
Worded(K, map) ==
  \A k \in K : /\ k \in Seq(Letter) /\ map[k] \in Seq(Letter)
               /\ IsBare(k) /\ IsBare(map[k])

LEMMA LaidOnly ==
  ASSUME NEW n \in Nat, NEW K, NEW o \in [1..n -> K], NEW map, NEW str, NEW begin,
         Worded(K, map), Laid(str, o, map, n, begin),
         NEW z, NEW k1 \in Seq(Letter), NEW v1 \in Seq(Letter),
         IsBare(k1), IsBare(v1), WrittenAt(str, z, k1, v1)
  PROVE  \E i \in 1..n : k1 = o[i] /\ v1 = map[o[i]]
<1> DEFINE end == begin[n + 1]
           size == Sizes(o, map)
<1>0. \A k \in K : /\ k \in Seq(Letter) /\ map[k] \in Seq(Letter)
                   /\ IsBare(k) /\ IsBare(map[k])
  BY DEF Worded
<1>1. z \in Nat /\ z < Len(str) /\ (z = 0 \/ str[z] = Space)
  <2>1. Len(k1) \in Nat /\ Len(v1) \in Nat /\ Len(str) \in Nat
    <3>1. str \in Seq(Letter)
      BY DEF Laid
    <3> QED
      BY <3>1, LenProperties
  <2>2. z \in Nat /\ z + Len(k1) + 1 + Len(v1) <= Len(str) /\ (z = 0 \/ str[z] = Space)
    BY DEF WrittenAt
  <2> QED
    BY <2>1, <2>2
<1>2. /\ str \in Seq(Letter) /\ Tiles(n, begin, size)
      /\ Len(str) = IF n = 0 THEN 0 ELSE end - 1
      /\ \A i \in 1..n :
           /\ \A q \in 1..Len(o[i]) : str[begin[i] + q] = o[i][q]
           /\ str[begin[i] + Len(o[i]) + 1] = Equals
           /\ \A q \in 1..Len(map[o[i]]) : str[begin[i] + Len(o[i]) + 1 + q] = map[o[i]][q]
  BY DEF Laid
<1>3. /\ \A j \in 1..(n + 1) : begin[j] \in Nat
      /\ \A j \in 1..n : begin[j + 1] = begin[j] + size[j]
      /\ begin[1] = 0
  BY <1>2 DEF Tiles
<1>4. n # 0 /\ Len(str) = end - 1 /\ end \in Nat
  <2>1. n # 0
    BY <1>1, <1>2
  <2>2. n + 1 \in 1..(n + 1)
    OBVIOUS
  <2> QED
    BY <1>2, <1>3, <2>1, <2>2
<1> HIDE DEF end
<1>5. \E i \in 1..n : begin[i] = z
  <2>1. CASE z = 0
    <3>1. 1 \in 1..n
      BY <1>4
    <3> QED
      BY <1>3, <2>1, <3>1
  <2>2. CASE z # 0
    <3>1. 0 < z /\ z <= begin[n + 1] /\ z < end
      <4>1. 0 < z /\ z <= end /\ z < end
        BY <1>1, <1>4, <2>2
      <4> QED
        BY <4>1 DEF end
    <3>2. PICK i \in 1..n : begin[i] < z /\ z <= begin[i + 1]
      BY <1>1, <1>2, <3>1, TileOf
    <3> DEFINE k == o[i]
               v == map[o[i]]
               m == Len(k)
               l == Len(v)
               b == begin[i]
               q == z - b
    <3>3. k \in Seq(Letter) /\ v \in Seq(Letter) /\ IsBare(k) /\ IsBare(v)
      BY <1>0
    <3>4. /\ \A p \in 1..m : str[b + p] = k[p]
          /\ str[b + m + 1] = Equals
          /\ \A p \in 1..l : str[b + m + 1 + p] = v[p]
      BY <1>2
    <3>5. /\ \A p \in 1..m : k[p] # Space
          /\ \A p \in 1..l : v[p] # Space
      BY <3>3 DEF IsBare
    <3>6. begin[i + 1] = b + (m + 1 + l + 1)
      <4>1. size[i] = m + 1 + l + 1
        BY DEF Sizes
      <4> HIDE DEF m, l, size
      <4> QED
        BY <1>3, <4>1
    <3> HIDE DEF k, v, size
    <3>7. m \in Nat /\ l \in Nat /\ b \in Nat
      <4>1. b \in Nat
        BY <1>3
      <4> QED
        BY <3>3, <4>1, LenProperties
    <3> HIDE DEF m, l, b
    <3>8. q \in 1..(m + 1 + l + 1) /\ z = b + q
      <4>1. b < z /\ z <= b + (m + 1 + l + 1)
        BY <3>2, <3>6 DEF b
      <4> QED
        BY <1>1, <3>7, <4>1
    <3> HIDE DEF q
    <3>9. ASSUME q # m + 1 + l + 1 PROVE FALSE
      <4>1. \/ q \in 1..m
            \/ q = m + 1 /\ z = b + m + 1
            \/ q - (m + 1) \in 1..l /\ z = b + m + 1 + (q - (m + 1))
        BY <3>7, <3>8, <3>9
      <4>2. CASE q \in 1..m
        BY <1>1, <2>2, <3>4, <3>5, <3>8, <4>2
      <4>3. CASE q = m + 1 /\ z = b + m + 1
        BY <1>1, <2>2, <3>4, <4>3, SpaceIsNotEquals
      <4>4. CASE q - (m + 1) \in 1..l /\ z = b + m + 1 + (q - (m + 1))
        <5> DEFINE w == q - (m + 1)
        <5>1. w \in 1..l /\ z = b + m + 1 + w
          BY <4>4
        <5> HIDE DEF w
        <5> QED
          BY <1>1, <2>2, <3>4, <3>5, <5>1
      <4> QED
        BY <4>1, <4>2, <4>3, <4>4
    <3>10. z = begin[i + 1]
      BY <3>6, <3>8, <3>9
    <3>11. i # n
      <4>1. begin[n + 1] = end
        BY DEF end
      <4>2. z # end
        BY <1>1, <1>4, <3>1
      <4> QED
        BY <3>10, <4>1, <4>2
    <3>12. i + 1 \in 1..n
      BY <3>11
    <3> QED
      BY <3>10, <3>12
  <2> QED
    BY <2>1, <2>2
<1>6. PICK i \in 1..n : begin[i] = z
  BY <1>5
<1>7. WrittenAt(str, z, o[i], map[o[i]])
  BY <1>0, <1>6, LaidAt
<1>8. o[i] \in Seq(Letter) /\ map[o[i]] \in Seq(Letter) /\ IsBare(o[i]) /\ IsBare(map[o[i]])
  BY <1>0
<1>9. k1 = o[i] /\ v1 = map[o[i]]
  BY <1>2, <1>7, <1>8, ReadOnce
<1> QED
  BY <1>9

(* The line that reverse writes is parsed to the options that have values. *)
LEMMA ReverseIsRead ==
  ASSUME IsFiniteSet(DOMAIN kvMap), Worded(DOMAIN kvMap, kvMap)
  PROVE  ReverseParses
<1> DEFINE K == DOMAIN kvMap
           n == Cardinality(K)
           valued == {k \in K : k # <<>> /\ kvMap[k] # <<>>}
<1>1. n \in Nat
  BY FS_CardinalityType
<1> SUFFICES ASSUME NEW o \in [1..n -> K], {o[i] : i \in 1..n} = K
             PROVE  Parsed(Reversed(o, kvMap)) = [k \in valued |-> kvMap[k]]
  BY DEF ReverseParses
<1> DEFINE str == Reversed(o, kvMap)
           pairs == Pairs(str)
           read2 == Parsed(str)
<1>2. \A k \in K : /\ k \in Seq(Letter) /\ kvMap[k] \in Seq(Letter)
                   /\ IsBare(k) /\ IsBare(kvMap[k])
  BY DEF Worded
<1> HIDE DEF n
<1>3. PICK begin : Laid(str, o, kvMap, n, begin)
  <2>1. K \subseteq Seq(Letter)
    BY <1>2
  <2> QED
    BY <1>1, <1>2, <2>1, ReversedIs
<1>4. str \in Seq(Letter)
  BY <1>3 DEF Laid
<1> HIDE DEF str
<1>5. PICK place : Placing(str, pairs, place)
  BY <1>4, PairsStand
<1>6. Firsts(pairs, read2) /\ \A S : S = DOMAIN read2 => read2 = [k \in S |-> read2[k]]
  BY <1>5, ParsedIs
<1> HIDE DEF pairs, read2
<1>7. ASSUME NEW i \in DOMAIN pairs
      PROVE  pairs[i][1] \in valued /\ pairs[i][2] = kvMap[pairs[i][1]]
  <2> DEFINE k1 == pairs[i][1]
             v1 == pairs[i][2]
  <2>1. /\ k1 \in Seq(Letter) /\ IsBare(k1) /\ k1 # <<>>
        /\ v1 \in Seq(Letter) /\ IsBare(v1) /\ v1 # <<>>
        /\ WrittenAt(str, place[i], k1, v1)
    BY <1>5 DEF Placing
  <2> HIDE DEF k1, v1, K
  <2>2. \E j \in 1..n : k1 = o[j] /\ v1 = kvMap[o[j]]
    <3>1. Worded(K, kvMap)
      BY DEF K
    <3>2. o \in [1..n -> K]
      OBVIOUS
    <3> QED
      BY ONLY <1>1, <1>3, <2>1, <3>1, <3>2, LaidOnly
  <2>3. k1 \in K /\ v1 = kvMap[k1]
    BY <2>2
  <2> QED
    BY <2>1, <2>3 DEF k1, v1
<1>8. ASSUME NEW k \in valued
      PROVE  \E i \in DOMAIN pairs : pairs[i][1] = k
  <2>1. PICK j \in 1..n : o[j] = k
    OBVIOUS
  <2> DEFINE v == kvMap[k]
             z == begin[j]
  <2>2. k \in Seq(Letter) /\ IsBare(k) /\ k # <<>> /\ v \in Seq(Letter) /\ IsBare(v) /\ v # <<>>
    BY <1>2
  <2>3. WrittenAt(str, z, k, v)
    <3>1. WrittenAt(str, begin[j], o[j], kvMap[o[j]])
      BY <1>1, <1>2, <1>3, LaidAt
    <3> QED
      BY <2>1, <3>1
  <2>4. z \in Nat
    BY <2>3 DEF WrittenAt
  <2> HIDE DEF z, v
  <2>5. \E i \in DOMAIN pairs : place[i] = z /\ pairs[i][1] = k /\ pairs[i][2] = v
    BY <1>5, <2>2, <2>3, <2>4 DEF Placing
  <2> QED
    BY <2>5
<1>9. DOMAIN read2 = valued
  <2>1. DOMAIN read2 = {pairs[i][1] : i \in DOMAIN pairs}
    BY <1>6 DEF Firsts
  <2> HIDE DEF valued
  <2> QED
    BY <1>7, <1>8, <2>1
<1>10. ASSUME NEW k \in valued PROVE read2[k] = kvMap[k]
  <2>1. PICK i \in DOMAIN pairs : pairs[i][1] = k /\ pairs[i][2] = read2[k]
    BY <1>6, <1>9 DEF Firsts
  <2> QED
    BY <1>7, <2>1
<1>11. read2 = [k \in valued |-> read2[k]]
  BY <1>6, <1>9
<1>12. read2 = [k \in valued |-> kvMap[k]]
  BY <1>10, <1>11
<1> QED
  BY <1>12 DEF read2, str

-----------------------------------------------------------------------------
(* A string without delimiters, with the letters that lines have.          *)
LEMMA PlainStrings ==
  \A s : s \in Seq(STRING \ {Space, Equals}) <=> s \in Seq(Letter) /\ IsBare(s)
<1> DEFINE L == STRING \ {Space, Equals}
<1>1. \A c : c \in L <=> c \in Letter /\ c \notin {Space, Equals}
  BY DEF Letter
<1>2. ASSUME NEW s \in Seq(L) PROVE s \in Seq(Letter) /\ IsBare(s)
  <2> HIDE DEF L
  <2>1. Len(s) \in Nat /\ \A q \in 1..Len(s) : s[q] \in L
    BY LenProperties, ElementOfSeq
  <2>2. s = [q \in 1..Len(s) |-> s[q]]
    BY SeqDef
  <2>3. s \in [1..Len(s) -> Letter]
    BY <1>1, <2>1, <2>2
  <2>4. s \in Seq(Letter)
    BY <2>1, <2>3, SeqDef
  <2> QED
    BY <1>1, <2>1, <2>4 DEF IsBare
<1>3. ASSUME NEW s \in Seq(Letter), IsBare(s) PROVE s \in Seq(L)
  <2> HIDE DEF L
  <2>1. Len(s) \in Nat /\ \A q \in 1..Len(s) : s[q] \in L
    BY <1>1, <1>3, LenProperties, ElementOfSeq DEF IsBare
  <2>2. s = [q \in 1..Len(s) |-> s[q]]
    BY SeqDef
  <2>3. s \in [1..Len(s) -> L]
    BY <2>1, <2>2
  <2> QED
    BY <2>1, <2>3, SeqDef
<1> QED
  BY <1>2, <1>3

LEMMA LinesAreWritten ==
  /\ \A s \in Line : s \in Seq(Letter)
  /\ \A s \in Word : s \in Seq(STRING \ {Space, Equals})
<1>1. ASSUME NEW s \in Seq(STRING) PROVE s \in Seq(Letter)
  <2>1. Len(s) \in Nat /\ \A q \in 1..Len(s) : s[q] \in Letter
    <3>1. Len(s) \in Nat /\ \A q \in 1..Len(s) : s[q] \in STRING
      BY LenProperties, ElementOfSeq
    <3> QED
      BY <3>1 DEF Letter
  <2>2. s = [q \in 1..Len(s) |-> s[q]]
    BY SeqDef
  <2>3. s \in [1..Len(s) -> Letter]
    BY <2>1, <2>2
  <2> QED
    BY <2>1, <2>3, SeqDef
<1> QED
  BY <1>1, OptionAssumption

(* A map that was just read is the one that the line parses to.            *)
OptionInv ==
  /\ OptionTypeOK
  /\ IsFiniteSet(DOMAIN kvMap)
  /\ read => kvMap = Parsed(line)

(* The map has plain keys and values, finitely many, and one that was just *)
(* read from the line is what parse makes of the line: for every line and  *)
(* all words that CmdParse is given (src/src/property.cpp).                *)
THEOREM OptionInvariant == OptionSpec => []OptionInv
<1> DEFINE Bare == Seq(STRING \ {Space, Equals})
<1>1. OptionInit => OptionInv
  <2> SUFFICES ASSUME OptionInit PROVE OptionInv
    OBVIOUS
  <2>1. DOMAIN kvMap = {} /\ line \in Line /\ read = FALSE
    BY DEF OptionInit, NoOptions
  <2>2. IsFiniteSet(DOMAIN kvMap)
    BY <2>1, FS_EmptySet
  <2> QED
    BY <2>1, <2>2 DEF OptionInv, OptionTypeOK
<1>2. OptionInv /\ [OptionNext]_optionVars => OptionInv'
  <2> SUFFICES ASSUME OptionInv, [OptionNext]_optionVars PROVE OptionInv'
    OBVIOUS
  <2>1. /\ line \in Line /\ read \in BOOLEAN /\ IsFiniteSet(DOMAIN kvMap)
        /\ \A k \in DOMAIN kvMap : k \in Bare /\ kvMap[k] \in Bare
        /\ read => kvMap = Parsed(line)
    BY DEF OptionInv, OptionTypeOK
  <2>2. ASSUME line' \in Line, read' \in BOOLEAN, IsFiniteSet(DOMAIN kvMap'),
               \A k \in DOMAIN kvMap' : k \in Bare /\ kvMap'[k] \in Bare,
               read' => kvMap' = Parsed(line')
        PROVE  OptionInv'
    <3>1. ASSUME NEW k \in DOMAIN kvMap' PROVE {k, kvMap'[k]} \subseteq Bare
      <4> HIDE DEF Bare
      <4> QED
        BY Zenon, <2>2
    <3> QED
      BY Zenon, <2>2, <3>1 DEF OptionInv, OptionTypeOK
  <2>3. \A w \in Word : w \in Bare
    BY LinesAreWritten
  <2>4. <<>> \in Bare
    OBVIOUS
  <2>5. CASE parse
    <3>1. kvMap' = Parsed(line) /\ read' = TRUE /\ line' = line
      BY <2>5 DEF parse
    <3>2. line \in Seq(Letter)
      BY <2>1, LinesAreWritten
    <3>3. PICK place : Placing(line, Pairs(line), place)
      BY <3>2, PairsStand
    <3>4. Firsts(Pairs(line), kvMap')
      BY <3>1, <3>3, ParsedIs
    <3>5. ASSUME NEW k \in DOMAIN kvMap' PROVE k \in Bare /\ kvMap'[k] \in Bare
      <4>1. PICK i \in DOMAIN Pairs(line) : Pairs(line)[i][1] = k /\ Pairs(line)[i][2] = kvMap'[k]
        BY <3>4 DEF Firsts
      <4>2. /\ Pairs(line)[i][1] \in Seq(Letter) /\ IsBare(Pairs(line)[i][1])
            /\ Pairs(line)[i][2] \in Seq(Letter) /\ IsBare(Pairs(line)[i][2])
        BY <3>3 DEF Placing
      <4> QED
        BY <4>1, <4>2, PlainStrings
    <3>6. IsFiniteSet(DOMAIN kvMap')
      BY <3>4 DEF Firsts
    <3> QED
      BY <2>1, <2>2, <3>1, <3>5, <3>6
  <2>6. ASSUME NEW key \in Word, Lookup(key) PROVE OptionInv'
    <3>1. /\ kvMap' = IF key \in DOMAIN kvMap THEN kvMap
                        ELSE [k \in DOMAIN kvMap \cup {key} |->
                                IF k = key THEN <<>> ELSE kvMap[k]]
          /\ read' = (read /\ key \in DOMAIN kvMap) /\ line' = line
      BY <2>6 DEF Lookup
    <3> HIDE DEF Bare
    <3>2. CASE key \in DOMAIN kvMap
      <4>1. kvMap' = kvMap /\ read' = read
        BY <2>1, <3>1, <3>2
      <4> QED
        BY <2>1, <2>2, <3>1, <4>1
    <3>3. CASE key \notin DOMAIN kvMap
      <4>1. /\ kvMap' = [k \in DOMAIN kvMap \cup {key} |-> IF k = key THEN <<>> ELSE kvMap[k]]
            /\ read' = FALSE
        BY <3>1, <3>3
      <4>2. DOMAIN kvMap' = DOMAIN kvMap \cup {key}
        BY <4>1
      <4>3. IsFiniteSet(DOMAIN kvMap')
        BY <2>1, <4>2, FS_AddElement
      <4>4. \A k \in DOMAIN kvMap' : k \in Bare /\ kvMap'[k] \in Bare
        BY <2>1, <2>3, <2>4, <4>1
      <4> QED
        BY <2>1, <2>2, <3>1, <4>1, <4>3, <4>4
    <3> QED
      BY <3>2, <3>3
  <2>7. ASSUME NEW key \in Word, NEW value \in Word, SetValue(key, value) PROVE OptionInv'
    <3>1. /\ kvMap' = [k \in DOMAIN kvMap \cup {key} |-> IF k = key THEN value ELSE kvMap[k]]
          /\ read' = FALSE /\ line' = line
      BY <2>7 DEF SetValue
    <3> HIDE DEF Bare
    <3>2. DOMAIN kvMap' = DOMAIN kvMap \cup {key}
      BY <3>1
    <3>3. IsFiniteSet(DOMAIN kvMap')
      BY <2>1, <3>2, FS_AddElement
    <3>4. \A k \in DOMAIN kvMap' : k \in Bare /\ kvMap'[k] \in Bare
      BY <2>1, <2>3, <3>1
    <3> QED
      BY <2>1, <2>2, <3>1, <3>3, <3>4
  <2>8. CASE UNCHANGED optionVars
    <3>1. kvMap' = kvMap /\ line' = line /\ read' = read
      BY <2>8 DEF optionVars
    <3> QED
      BY <2>1, <2>2, <3>1
  <2> QED
    BY <2>5, <2>6, <2>7, <2>8 DEF OptionNext
<1> QED
  BY <1>1, <1>2, PTL DEF OptionSpec

(* The options are kept: what parse finds is what the line says, the first *)
(* pair of a key before the others, and what reverse writes is parsed      *)
(* again to the options that have a value, in whatever order the hash      *)
(* table gives them, for every line and all words (src/src/property.cpp).  *)
THEOREM OptionsAreKept == OptionSpec => []OptionsKept
<1>1. OptionInv => OptionsKept
  <2> SUFFICES ASSUME OptionInv PROVE OptionsKept
    OBVIOUS
  <2>1. /\ line \in Line /\ IsFiniteSet(DOMAIN kvMap)
        /\ \A k \in DOMAIN kvMap : {k, kvMap[k]} \subseteq Seq(STRING \ {Space, Equals})
        /\ read => kvMap = Parsed(line)
    BY DEF OptionInv, OptionTypeOK
  <2>2. line \in Seq(Letter)
    BY <2>1, LinesAreWritten
  <2>3. Worded(DOMAIN kvMap, kvMap)
    <3>1. ASSUME NEW k \in DOMAIN kvMap
          PROVE  /\ k \in Seq(Letter) /\ kvMap[k] \in Seq(Letter)
                 /\ IsBare(k) /\ IsBare(kvMap[k])
      <4>1. k \in Seq(STRING \ {Space, Equals}) /\ kvMap[k] \in Seq(STRING \ {Space, Equals})
        BY Zenon, <2>1
      <4> QED
        BY <4>1, PlainStrings
    <3> QED
      BY <3>1 DEF Worded
  <2>4. ReverseParses
    BY <2>1, <2>3, ReverseIsRead
  <2>5. read => FoundAsWritten
    BY <2>1, <2>2, ReadAsWritten
  <2> QED
    BY <2>4, <2>5 DEF OptionsKept
<1> QED
  BY <1>1, OptionInvariant, PTL

-----------------------------------------------------------------------------
(***************************************************************************)
(* Modules. serialize puts the records of a table one behind another, in   *)
(* the order of the identifiers, so the record of a module begins behind   *)
(* the records of those before it (Records, proved from the length of      *)
(* each). unserialize walks over the buffer by the sizes it reads: after   *)
(* as many rounds as there are modules below an identifier it stands at    *)
(* the header of that one and has given the records of those below to the  *)
(* modules of its own table (WalkIs), unless a size was wrong, which ends  *)
(* it. Which class a table has under an identifier is that of the last one *)
(* in the list of classes that Init finds with it (PlacedIs), the same for *)
(* every manager initialised in the same way.                              *)
(***************************************************************************)
(* What is created has the last class of the list for its identifier. *)
LEMMA LastIs ==
  ASSUME NEW n \in Nat, NEW S, S \subseteq 1..n, S # {}
  PROVE  (CHOOSE i \in S : \A j \in S : j <= i) \in S
<1> DEFINE down == {d \in 0..n : n - d \in S}
<1>1. down # {}
  <2>1. PICK i \in S : i \in 1..n
    OBVIOUS
  <2>2. n - i \in 0..n /\ n - (n - i) = i
    BY <2>1
  <2> QED
    BY <2>1, <2>2
<1>2. down \subseteq Nat
  OBVIOUS
<1>3. PICK d \in down : \A e \in down : d <= e
  BY <1>1, <1>2, LeastNumber
<1>4. ASSUME NEW j \in S PROVE j <= n - d
  <2>1. j \in 1..n /\ d \in 0..n
    BY <1>3
  <2>2. n - j \in 0..n /\ n - (n - j) = j
    BY <2>1
  <2>3. d <= n - j
    BY <1>3, <2>2
  <2> QED
    BY <2>1, <2>3
<1>5. n - d \in S
  BY <1>3
<1> HIDE DEF down
<1> QED
  BY <1>4, <1>5

(* The data of a module is as long as its class says. *)
LEMMA DataIs ==
  ASSUME NEW module \in StoredModule
  PROVE  /\ module.class \in Class /\ Size[module.class] \in Nat
         /\ module.data \in Seq(Cell) /\ Len(module.data) = Size[module.class]
         /\ module = [class |-> module.class, data |-> module.data]
BY ManageAssumption DEF StoredModule

(* And what has that length is a module. *)
LEMMA ModuleIs ==
  ASSUME NEW c \in Class, NEW data \in Seq(Cell), Len(data) = Size[c]
  PROVE  [class |-> c, data |-> data] \in StoredModule
BY DEF StoredModule

(* So is one that is filled with one cell. *)
LEMMA FilledIs ==
  ASSUME NEW c \in Class, NEW version \in Version
  PROVE  FilledModule(c, version) \in StoredModule /\ FilledModule(c, version).class = c
<1> DEFINE data == [k \in 1..Size[c] |-> version]
<1>1. Size[c] \in Nat /\ version \in Cell
  BY ManageAssumption DEF Cell
<1>2. data \in Seq(Cell) /\ Len(data) = Size[c]
  BY <1>1
<1>3. FilledModule(c, version) = [class |-> c, data |-> data]
  BY DEF FilledModule
<1> HIDE DEF data
<1> QED
  BY <1>2, <1>3, ModuleIs

(* A record is its header and the data behind it. *)
LEMMA RecordIs ==
  ASSUME NEW module \in StoredModule, NEW id \in Id
  PROVE  LET size == Size[module.class]
             record == Record(module, id)
         IN /\ size \in Nat
            /\ record \in Seq(Cell) /\ Len(record) = size + 1
            /\ record[1] = [id |-> id, size |-> size]
            /\ \A k \in 1..size : record[k + 1] = module.data[k]
<1> DEFINE size == Size[module.class]
           head == [id |-> id, size |-> size]
           data == module.data
           record == Record(module, id)
<1>1. size \in Nat /\ data \in Seq(Cell) /\ Len(data) = size
  BY DataIs
<1>2. head \in Cell
  BY <1>1 DEF Cell, Header
<1>3. record = <<head>> \o data
  BY DEF Record
<1> HIDE DEF size, head, data, record
<1>4. <<head>> \in Seq(Cell) /\ Len(<<head>>) = 1 /\ <<head>>[1] = head
  BY <1>2
<1>5. /\ record \in Seq(Cell) /\ Len(record) = 1 + size
      /\ record[1] = head /\ \A k \in 1..size : record[k + 1] = data[k]
  BY <1>1, <1>3, <1>4
<1> QED
  BY <1>1, <1>5 DEF size, head, data, record

(* The recursion of Records has a solution: a shorter one can be continued. *)
LEMMA RecordsStep ==
  ASSUME NEW row
  PROVE  LET all == Records(row)
         IN  /\ all[0] = [num |-> 0, cells |-> <<>>]
             /\ \A i \in Id :
                  all[i + 1] = IF row[i] = Absent THEN all[i]
                                 ELSE [num |-> all[i].num + 1,
                                       cells |-> all[i].cells \o Record(row[i], i)]
<1> DEFINE n == ProtocolNum
           base == [num |-> 0, cells |-> <<>>]
           more(a, i) == IF row[i] = Absent THEN a
                           ELSE [num |-> a.num + 1, cells |-> a.cells \o Record(row[i], i)]
           next(f, i) == IF i = 0 THEN base ELSE more(f[i - 1], i - 1)
           all == Records(row)
<1>1. n \in Nat
  BY ManageAssumption
<1>2. all = CHOOSE f : f = [i \in 0..n |-> next(f, i)]
  BY DEF Records
<1> HIDE DEF n, base, more, all
<1> DEFINE good(m) == \E f : f = [i \in 0..m |-> next(f, i)]
           S == {m \in 0..n : good(m)}
<1>3. good(0)
  <2> DEFINE f == [i \in 0..0 |-> base]
  <2>1. \A i \in 0..0 : i = 0
    OBVIOUS
  <2>2. f = [i \in 0..0 |-> next(f, i)]
    BY <2>1
  <2> QED
    BY <2>2
<1>4. ASSUME NEW m \in 0..(n - 1), good(m) PROVE good(m + 1)
  <2>1. PICK f : f = [i \in 0..m |-> next(f, i)]
    BY <1>4
  <2> DEFINE g == [i \in 0..(m + 1) |-> IF i = m + 1 THEN more(f[m], m) ELSE f[i]]
  <2>2. ASSUME NEW i \in 0..(m + 1) PROVE g[i] = next(g, i)
    <3>1. CASE i = m + 1
      <4>1. i # 0 /\ i - 1 = m /\ m \in 0..(m + 1) /\ m # m + 1
        BY <1>1, <3>1
      <4>2. g[i] = more(f[m], m) /\ g[m] = f[m]
        BY <3>1, <4>1
      <4> QED
        BY <4>1, <4>2
    <3>2. CASE i # m + 1
      <4>1. i \in 0..m /\ g[i] = f[i]
        BY <1>1, <3>2
      <4>2. f[i] = next(f, i)
        <5> HIDE DEF next
        <5> QED
          BY <2>1, <4>1
      <4>3. CASE i = 0
        BY <4>1, <4>2, <4>3
      <4>4. CASE i # 0
        <5>1. i - 1 \in 0..(m + 1) /\ i - 1 # m + 1
          BY <1>1, <4>1, <4>4
        <5>2. g[i - 1] = f[i - 1]
          BY <5>1
        <5> QED
          BY <4>1, <4>2, <4>4, <5>2
      <4> QED
        BY <4>3, <4>4
    <3> QED
      BY <3>1, <3>2
  <2>3. DOMAIN g = 0..(m + 1) /\ g = [i \in 0..(m + 1) |-> g[i]]
    OBVIOUS
  <2> HIDE DEF g, next
  <2>4. g = [i \in 0..(m + 1) |-> next(g, i)]
    BY <2>2, <2>3
  <2> QED
    BY <2>4
<1> HIDE DEF good
<1>5. 0 \in S /\ \A m \in 0..(n - 1) : m \in S => m + 1 \in S
  BY <1>1, <1>3, <1>4
<1>6. n \in S
  <2> HIDE DEF S
  <2>1. \A m \in 0..n : m \in S
    BY <1>1, <1>5, Reached
  <2> QED
    BY <1>1, <2>1
<1>7. PICK f : f = [i \in 0..n |-> next(f, i)]
  BY <1>6 DEF good
<1>8. all = [i \in 0..n |-> next(all, i)]
  <2> DEFINE is(g) == g = [i \in 0..n |-> next(g, i)]
  <2>1. is(f) /\ all = CHOOSE g : is(g)
    BY <1>2, <1>7
  <2> HIDE DEF is
  <2>2. is(all)
    BY <2>1
  <2> QED
    BY <2>2 DEF is
<1>9. \A i \in 0..n : all[i] = next(all, i)
  <2> HIDE DEF next
  <2> QED
    BY <1>8
<1>10. all[0] = base
  <2>1. 0 \in 0..n
    BY <1>1
  <2> QED
    BY <1>9, <2>1
<1>11. ASSUME NEW i \in Id PROVE all[i + 1] = more(all[i], i)
  <2>1. i + 1 \in 0..n /\ i + 1 # 0 /\ (i + 1) - 1 = i
    BY <1>1 DEF Id, n
  <2>2. all[i + 1] = next(all, i + 1)
    BY <1>9, <2>1
  <2> QED
    BY <2>1, <2>2
<1> QED
  BY <1>10, <1>11 DEF all, base, more

(* What the records are made of, and how many there are. *)
LEMMA RecordsAre ==
  ASSUME NEW row \in ModuleTable
  PROVE  LET all == Records(row)
         IN  \A i \in 0..ProtocolNum : all[i].num \in Nat /\ all[i].cells \in Seq(Cell)
<1> DEFINE n == ProtocolNum
           all == Records(row)
           S == {i \in 0..n : all[i].num \in Nat /\ all[i].cells \in Seq(Cell)}
<1>1. n \in Nat
  BY ManageAssumption
<1>2. /\ all[0] = [num |-> 0, cells |-> <<>>]
      /\ \A i \in Id : all[i + 1] = IF row[i] = Absent THEN all[i]
                                      ELSE [num |-> all[i].num + 1,
                                            cells |-> all[i].cells \o Record(row[i], i)]
  BY RecordsStep
<1> HIDE DEF all
<1>3. 0 \in S
  <2>1. 0 \in 0..n /\ 0 \in Nat /\ <<>> \in Seq(Cell)
    BY <1>1
  <2>2. all[0].num = 0 /\ all[0].cells = <<>>
    BY <1>2
  <2> QED
    BY <2>1, <2>2
<1>4. ASSUME NEW i \in 0..(n - 1), i \in S PROVE i + 1 \in S
  <2>1. i \in Id /\ i + 1 \in 0..n
    BY <1>1 DEF Id, n
  <2>2. CASE row[i] = Absent
    <3>1. all[i + 1] = all[i]
      BY <1>2, <2>1, <2>2
    <3> QED
      BY <1>4, <2>1, <3>1
  <2>3. CASE row[i] # Absent
    <3>1. row[i] \in StoredModule
      BY <2>1, <2>3 DEF ModuleTable
    <3>2. Record(row[i], i) \in Seq(Cell)
      BY <2>1, <3>1, RecordIs
    <3>0. all[i + 1] = [num |-> all[i].num + 1,
                        cells |-> all[i].cells \o Record(row[i], i)]
      BY <1>2, <2>1, <2>3
    <3>3. /\ all[i + 1].num = all[i].num + 1
          /\ all[i + 1].cells = all[i].cells \o Record(row[i], i)
      <4> DEFINE x == all[i].num + 1
                 y == all[i].cells \o Record(row[i], i)
      <4>1. all[i + 1] = [num |-> x, cells |-> y]
        BY <3>0
      <4> HIDE DEF x, y
      <4>2. all[i + 1].num = x /\ all[i + 1].cells = y
        BY <4>1
      <4> QED
        BY <4>2 DEF x, y
    <3>4. all[i].num + 1 \in Nat /\ all[i].cells \o Record(row[i], i) \in Seq(Cell)
      BY <1>4, <3>2, ConcatProperties
    <3> QED
      BY <2>1, <3>3, <3>4
  <2> QED
    BY <2>2, <2>3
<1>5. \A i \in 0..n : i \in S
  <2> HIDE DEF S
  <2> QED
    BY <1>1, <1>3, <1>4, Reached
<1> QED
  BY <1>5 DEF all, n

(* What is written stays while more is written behind it. *)
LEMMA RecordsGrow ==
  ASSUME NEW row \in ModuleTable, NEW i \in 0..ProtocolNum
  PROVE  LET all == Records(row)
             end == all[ProtocolNum]
         IN  /\ all[i].num <= end.num /\ Len(all[i].cells) <= Len(end.cells)
             /\ \A p \in 1..Len(all[i].cells) : end.cells[p] = all[i].cells[p]
<1> DEFINE n == ProtocolNum
           all == Records(row)
           end == all[n]
           within(k) == /\ all[k].num <= end.num /\ Len(all[k].cells) <= Len(end.cells)
                        /\ \A p \in 1..Len(all[k].cells) : end.cells[p] = all[k].cells[p]
           S == {d \in 0..n : within(n - d)}
<1>1. n \in Nat /\ n \in 0..n
  BY ManageAssumption
<1>2. \A k \in 0..n : all[k].num \in Nat /\ all[k].cells \in Seq(Cell)
  BY RecordsAre
<1>3. \A k \in Id : all[k + 1] = IF row[k] = Absent THEN all[k]
                                   ELSE [num |-> all[k].num + 1,
                                         cells |-> all[k].cells \o Record(row[k], k)]
  BY RecordsStep
<1> HIDE DEF all
<1>4. within(n)
  BY <1>1, <1>2
<1>5. 0 \in S
  <2>1. 0 \in 0..n /\ n - 0 = n
    BY <1>1
  <2> HIDE DEF within
  <2> QED
    BY <1>4, <2>1
<1>6. ASSUME NEW d \in 0..(n - 1), d \in S PROVE d + 1 \in S
  <2> DEFINE k == n - (d + 1)
  <2>1. k \in Id /\ k \in 0..n /\ k + 1 = n - d /\ k + 1 \in 0..n /\ d + 1 \in 0..n
    BY <1>1 DEF Id, n
  <2>2. within(k + 1)
    <3> HIDE DEF within
    <3> QED
      BY <1>6, <2>1
  <2> HIDE DEF k
  <2>3. ASSUME row[k] = Absent PROVE within(k)
    <3>1. all[k + 1] = all[k]
      BY <1>3, <2>1, <2>3
    <3> QED
      BY <2>2, <3>1
  <2>4. ASSUME row[k] # Absent PROVE within(k)
    <3> DEFINE record == Record(row[k], k)
               a == all[k].cells
               b == all[k + 1].cells
    <3>1. row[k] \in StoredModule
      BY <2>1, <2>4 DEF ModuleTable
    <3>2. record \in Seq(Cell)
      BY <2>1, <3>1, RecordIs
    <3>0. all[k + 1] = [num |-> all[k].num + 1, cells |-> a \o record]
      BY <1>3, <2>1, <2>4
    <3> HIDE DEF record
    <3>3. all[k + 1].num = all[k].num + 1 /\ b = a \o record
      <4> HIDE DEF a
      <4> QED
        BY <3>0
    <3>4. a \in Seq(Cell) /\ all[k].num \in Nat /\ end.num \in Nat /\ end.cells \in Seq(Cell)
      BY <1>1, <1>2, <2>1
    <3>5. /\ all[k + 1].num <= end.num /\ Len(b) <= Len(end.cells)
          /\ \A p \in 1..Len(b) : end.cells[p] = b[p]
      BY <2>2
    <3> HIDE DEF a, b
    <3>6. /\ Len(b) = Len(a) + Len(record) /\ Len(a) \in Nat /\ Len(record) \in Nat
          /\ Len(end.cells) \in Nat
          /\ \A p \in 1..Len(a) : b[p] = a[p]
      BY <3>2, <3>3, <3>4
    <3>7. all[k].num <= end.num
      BY <3>3, <3>4, <3>5
    <3>8. Len(a) <= Len(end.cells) /\ \A p \in 1..Len(a) : p \in 1..Len(b)
      BY <3>5, <3>6
    <3>9. \A p \in 1..Len(a) : end.cells[p] = a[p]
      BY <3>5, <3>6, <3>8
    <3> QED
      BY <3>7, <3>8, <3>9 DEF a
  <2>5. within(k)
    BY <2>3, <2>4
  <2> HIDE DEF within
  <2> QED
    BY <2>1, <2>5 DEF k
<1>7. \A d \in 0..n : d \in S
  <2> HIDE DEF S
  <2> QED
    BY <1>1, <1>5, <1>6, Reached
<1>8. n - i \in 0..n /\ n - (n - i) = i
  BY <1>1
<1>9. within(i)
  <2> HIDE DEF within
  <2> QED
    BY <1>7, <1>8
<1> QED
  BY <1>9 DEF all, n


(* What serialize makes of a table. *)
Serialized(row) ==
  LET all == Records(row)[ProtocolNum] IN <<all.num>> \o all.cells

(* The record of each module is behind those of the modules before it. *)
LEMMA WrittenIs ==
  ASSUME NEW row \in ModuleTable
  PROVE  LET all == Records(row)
             written == Serialized(row)
         IN  /\ written # <<>> /\ written[1] = all[ProtocolNum].num
             /\ \A p \in DOMAIN written : p > 1 => written[p] \in Cell
             /\ \A i \in Id :
                  row[i] # Absent =>
                    LET p == Len(all[i].cells) + 2
                        size == Size[row[i].class]
                    IN  /\ size \in Nat /\ p \in Nat /\ p > 1
                        /\ all[i].num \in 0..(written[1] - 1)
                        /\ all[i + 1].num = all[i].num + 1
                        /\ Len(all[i + 1].cells) + 2 = p + 1 + size
                        /\ \A k \in 0..size : p + k \in DOMAIN written
                        /\ written[p] = [id |-> i, size |-> size]
                        /\ \A k \in 1..size : written[p + k] = row[i].data[k]
<1> DEFINE n == ProtocolNum
           all == Records(row)
           end == all[n]
           written == Serialized(row)
<1>1. n \in Nat /\ n \in 0..n
  BY ManageAssumption
<1>2. \A k \in 0..n : all[k].num \in Nat /\ all[k].cells \in Seq(Cell)
  BY RecordsAre
<1>3. \A k \in Id : all[k + 1] = IF row[k] = Absent THEN all[k]
                                   ELSE [num |-> all[k].num + 1,
                                         cells |-> all[k].cells \o Record(row[k], k)]
  BY RecordsStep
<1>4. \A k \in 0..n : /\ all[k].num <= end.num /\ Len(all[k].cells) <= Len(end.cells)
                      /\ \A p \in 1..Len(all[k].cells) : end.cells[p] = all[k].cells[p]
  BY RecordsGrow
<1>5. written = <<end.num>> \o end.cells
  BY DEF Serialized
<1> HIDE DEF all, written
<1>6. /\ written # <<>> /\ written[1] = end.num
      /\ \A p \in 1..Len(end.cells) : /\ p + 1 \in DOMAIN written
                                       /\ written[p + 1] = end.cells[p]
      /\ \A p \in DOMAIN written : p > 1 => written[p] \in Cell
  <2> DEFINE x == end.num
             s == end.cells
  <2>1. x \in Nat /\ s \in Seq(Cell) /\ written = <<x>> \o s
    BY <1>1, <1>2, <1>5
  <2> HIDE DEF x, s
  <2> DEFINE Any == Cell \cup Nat
  <2>2. x \in Any /\ s \in Seq(Any)
    BY <2>1
  <2> HIDE DEF Any
  <2>3. <<x>> \in Seq(Any) /\ Len(<<x>>) = 1 /\ <<x>>[1] = x
    BY <2>2
  <2>4. /\ Len(written) = 1 + Len(s) /\ written \in Seq(Any) /\ written[1] = x
        /\ \A p \in 1..Len(s) : written[p + 1] = s[p]
        /\ Len(s) \in Nat
    BY <2>1, <2>2, <2>3
  <2>5. written # <<>> /\ DOMAIN written = 1..(Len(s) + 1)
    BY <2>4
  <2>6. ASSUME NEW p \in DOMAIN written, p > 1 PROVE written[p] \in Cell
    <3>1. p - 1 \in 1..Len(s) /\ (p - 1) + 1 = p
      BY <2>4, <2>5, <2>6
    <3>2. written[p] = s[p - 1]
      BY <2>4, <3>1
    <3> QED
      BY <2>1, <3>1, <3>2
  <2>7. \A p \in 1..Len(s) : p + 1 \in DOMAIN written
    BY <2>4, <2>5
  <2> QED
    BY <2>4, <2>5, <2>6, <2>7 DEF x, s
<1>7. ASSUME NEW i \in Id, row[i] # Absent
      PROVE  LET p == Len(all[i].cells) + 2
                 size == Size[row[i].class]
             IN  /\ size \in Nat /\ p \in Nat /\ p > 1
                 /\ all[i].num \in 0..(written[1] - 1)
                 /\ all[i + 1].num = all[i].num + 1
                 /\ Len(all[i + 1].cells) + 2 = p + 1 + size
                 /\ \A k \in 0..size : p + k \in DOMAIN written
                 /\ written[p] = [id |-> i, size |-> size]
                 /\ \A k \in 1..size : written[p + k] = row[i].data[k]
  <2> DEFINE record == Record(row[i], i)
             size == Size[row[i].class]
             head == [id |-> i, size |-> size]
             data == row[i].data
             a == all[i].cells
             b == all[i + 1].cells
             e == end.cells
  <2>1. i \in 0..n /\ i + 1 \in 0..n
    BY <1>1 DEF Id, n
  <2>2. row[i] \in StoredModule
    BY <1>7 DEF ModuleTable
  <2>3. /\ size \in Nat /\ record \in Seq(Cell) /\ Len(record) = size + 1
        /\ record[1] = head /\ \A k \in 1..size : record[k + 1] = data[k]
    BY <2>2, RecordIs
  <2>4. all[i + 1] = [num |-> all[i].num + 1, cells |-> a \o record]
    BY <1>3, <1>7
  <2> HIDE DEF record, size, head, data, a, n
  <2>5. all[i + 1].num = all[i].num + 1 /\ b = a \o record
    BY <2>4
  <2>6. /\ a \in Seq(Cell) /\ all[i].num \in Nat /\ end.num \in Nat /\ e \in Seq(Cell)
        /\ all[i + 1].num <= end.num /\ Len(b) <= Len(e)
        /\ \A p \in 1..Len(b) : e[p] = b[p]
    BY <1>1, <1>2, <1>4, <2>1 DEF a
  <2> HIDE DEF b, e
  <2>7. /\ Len(a) \in Nat /\ Len(e) \in Nat /\ Len(b) = Len(a) + size + 1
        /\ \A k \in 1..(size + 1) : b[Len(a) + k] = record[k]
    <3>1. /\ Len(a) \in Nat /\ Len(e) \in Nat /\ Len(b) = Len(a) + Len(record)
          /\ \A p \in 1..Len(record) : b[Len(a) + p] = record[p]
      <4>1. a \in Seq(Cell) /\ record \in Seq(Cell) /\ b = a \o record
        BY <2>3, <2>5, <2>6
      <4> QED
        BY <2>6, <4>1
    <3>2. Len(a) + Len(record) = Len(a) + size + 1
      BY <2>3, <3>1
    <3> QED
      BY <2>3, <3>1, <3>2
  <2> DEFINE p == Len(a) + 2
  <2>8. ASSUME NEW k \in 0..size
        PROVE  p + k \in DOMAIN written /\ written[p + k] = record[k + 1]
    <3> DEFINE q == Len(a) + (k + 1)
    <3>1. k + 1 \in 1..(size + 1) /\ q \in 1..Len(b) /\ q \in 1..Len(e) /\ q + 1 = p + k
      BY <2>3, <2>6, <2>7
    <3>2. b[q] = record[k + 1]
      BY <2>7, <3>1
    <3> HIDE DEF q, p
    <3>3. e[q] = record[k + 1]
      BY <2>6, <3>1, <3>2
    <3>4. q + 1 \in DOMAIN written /\ written[q + 1] = e[q]
      BY <1>6, <3>1 DEF e
    <3> QED
      BY <3>1, <3>3, <3>4
  <2>9. p \in Nat /\ p > 1 /\ p + 0 = p /\ Len(b) + 2 = p + 1 + size
    BY <2>3, <2>7
  <2> HIDE DEF p
  <2>10. written[p] = head
    <3>1. 0 \in 0..size /\ 0 + 1 = 1
      BY <2>3
    <3>2. written[p + 0] = record[0 + 1]
      BY <2>8, <3>1
    <3> QED
      BY <2>3, <2>9, <3>1, <3>2
  <2>11. \A k \in 1..size : written[p + k] = data[k]
    <3>1. \A k \in 1..size : k \in 0..size
      BY <2>3
    <3> QED
      BY <2>3, <2>8, <3>1
  <2>12. all[i].num \in 0..(written[1] - 1)
    BY <1>6, <2>5, <2>6
  <2> QED
    BY <2>3, <2>5, <2>8, <2>9, <2>10, <2>11, <2>12 DEF head, size, data, a, b, p
<1> QED
  BY <1>6, <1>7 DEF all, written, n

(* The recursion of Walk has a solution. *)
LEMMA WalkStep ==
  ASSUME NEW row, buffer[1] \in Nat
  PROVE  LET after == Walk(row)
         IN  /\ after[0] = [row |-> row, pByte |-> 2, failed |-> FALSE]
             /\ \A k \in 0..(buffer[1] - 1) : after[k + 1] = Round(after[k])
<1> DEFINE n == buffer[1]
           base == [row |-> row, pByte |-> 2, failed |-> FALSE]
           more(a) == Round(a)
           next(f, i) == IF i = 0 THEN base ELSE more(f[i - 1])
           after == Walk(row)
<1>1. n \in Nat
  OBVIOUS
<1>2. after = CHOOSE f : f = [i \in 0..n |-> next(f, i)]
  BY DEF Walk
<1> HIDE DEF n, base, more, after
<1> DEFINE good(m) == \E f : f = [i \in 0..m |-> next(f, i)]
           S == {m \in 0..n : good(m)}
<1>3. good(0)
  <2> DEFINE f == [i \in 0..0 |-> base]
  <2>1. \A i \in 0..0 : i = 0
    OBVIOUS
  <2>2. f = [i \in 0..0 |-> next(f, i)]
    BY <2>1
  <2> QED
    BY <2>2
<1>4. ASSUME NEW m \in 0..(n - 1), good(m) PROVE good(m + 1)
  <2>1. PICK f : f = [i \in 0..m |-> next(f, i)]
    BY <1>4
  <2> DEFINE g == [i \in 0..(m + 1) |-> IF i = m + 1 THEN more(f[m]) ELSE f[i]]
  <2>2. ASSUME NEW i \in 0..(m + 1) PROVE g[i] = next(g, i)
    <3>1. CASE i = m + 1
      <4>1. i # 0 /\ i - 1 = m /\ m \in 0..(m + 1) /\ m # m + 1
        BY <1>1, <3>1
      <4>2. g[i] = more(f[m]) /\ g[m] = f[m]
        BY <3>1, <4>1
      <4> QED
        BY <4>1, <4>2
    <3>2. CASE i # m + 1
      <4>1. i \in 0..m /\ g[i] = f[i]
        BY <1>1, <3>2
      <4>2. f[i] = next(f, i)
        <5> HIDE DEF next
        <5> QED
          BY <2>1, <4>1
      <4>3. CASE i = 0
        BY <4>1, <4>2, <4>3
      <4>4. CASE i # 0
        <5>1. i - 1 \in 0..(m + 1) /\ i - 1 # m + 1
          BY <1>1, <4>1, <4>4
        <5>2. g[i - 1] = f[i - 1]
          BY <5>1
        <5> QED
          BY <4>1, <4>2, <4>4, <5>2
      <4> QED
        BY <4>3, <4>4
    <3> QED
      BY <3>1, <3>2
  <2>3. DOMAIN g = 0..(m + 1) /\ g = [i \in 0..(m + 1) |-> g[i]]
    OBVIOUS
  <2> HIDE DEF g, next
  <2>4. g = [i \in 0..(m + 1) |-> next(g, i)]
    BY <2>2, <2>3
  <2> QED
    BY <2>4
<1> HIDE DEF good
<1>5. 0 \in S /\ \A m \in 0..(n - 1) : m \in S => m + 1 \in S
  BY <1>1, <1>3, <1>4
<1>6. n \in S
  <2> HIDE DEF S
  <2>1. \A m \in 0..n : m \in S
    BY <1>1, <1>5, Reached
  <2> QED
    BY <1>1, <2>1
<1>7. PICK f : f = [i \in 0..n |-> next(f, i)]
  BY <1>6 DEF good
<1>8. after = [i \in 0..n |-> next(after, i)]
  <2> DEFINE is(g) == g = [i \in 0..n |-> next(g, i)]
  <2>1. is(f) /\ after = CHOOSE g : is(g)
    BY <1>2, <1>7
  <2> HIDE DEF is
  <2>2. is(after)
    BY <2>1
  <2> QED
    BY <2>2 DEF is
<1>9. \A i \in 0..n : after[i] = next(after, i)
  <2> HIDE DEF next
  <2> QED
    BY <1>8
<1>10. after[0] = base
  <2>1. 0 \in 0..n
    BY <1>1
  <2> QED
    BY <1>9, <2>1
<1>11. ASSUME NEW k \in 0..(n - 1) PROVE after[k + 1] = more(after[k])
  <2>1. k + 1 \in 0..n /\ k + 1 # 0 /\ (k + 1) - 1 = k
    BY <1>1
  <2>2. after[k + 1] = next(after, k + 1)
    BY <1>9, <2>1
  <2> QED
    BY <2>1, <2>2
<1> QED
  BY <1>10, <1>11 DEF after, base, more, n

(* A round at the header of a module gives it its record, if it is there. *)
AtHeader(v, i, module) ==
  /\ v.row \in ModuleTable /\ v.failed = FALSE
  /\ i \in Id /\ module \in StoredModule
  /\ v.pByte \in Nat /\ v.pByte > 1
  /\ buffer[v.pByte] = [id |-> i, size |-> Size[module.class]]
  /\ \A k \in 0..Size[module.class] : v.pByte + k \in DOMAIN buffer
  /\ \A k \in 1..Size[module.class] : buffer[v.pByte + k] = module.data[k]
  /\ \A p \in DOMAIN buffer : p > 1 => buffer[p] \in Cell

(* What that round leaves: the next header, and only that module is other; *)
(* it has read from the header on, unless its size was wrong.              *)
Passed(v, u, i, module) ==
  /\ u.failed \in BOOLEAN /\ u.pByte = v.pByte + 1 + Size[module.class]
  /\ u.row \in ModuleTable
  /\ \A id \in Id \ {i} : u.row[id] = v.row[id]
  /\ u.row[i] = Absent <=> v.row[i] = Absent
  /\ u.row[i] # Absent =>
       /\ u.row[i].class = v.row[i].class
       /\ u.failed \/ u.row[i].data = FromHeader(module, i)

(* So it is, whether the table has the module or not. *)
LEMMA RestoredIs ==
  ASSUME NEW v, NEW i, NEW module, AtHeader(v, i, module), v.row[i] # Absent
  PROVE  LET new == Restored(v.row[i], v.pByte)
         IN  /\ new \in StoredModule /\ new # Absent /\ new.class = v.row[i].class
             /\ Size[new.class] = Size[module.class] => new.data = FromHeader(module, i)
<1> DEFINE old == v.row[i]
           n == Size[old.class]
           p == v.pByte
           data == [k \in 1..n |-> IF p + k - 1 \in DOMAIN buffer THEN buffer[p + k - 1]
                                     ELSE old.data[k]]
           new == Restored(old, p)
<1>1. old \in StoredModule /\ p \in Nat /\ p > 1
  BY DEF AtHeader, ModuleTable
<1>2. /\ old.class \in Class /\ n \in Nat /\ old.data \in Seq(Cell) /\ Len(old.data) = n
      /\ old = [class |-> old.class, data |-> old.data]
  BY <1>1, DataIs
<1>3. new = [class |-> old.class, data |-> data]
  <2>1. new = [old EXCEPT !.data = data]
    BY DEF Restored
  <2> HIDE DEF data, new, old
  <2>2. [old EXCEPT !.data = data] = [class |-> old.class, data |-> data]
    BY <1>2
  <2> QED
    BY <2>1, <2>2
<1>4. \A k \in 1..n : old.data[k] \in Cell
  BY <1>2
<1> HIDE DEF old, p, new
<1>5. ASSUME NEW k \in 1..n PROVE data[k] \in Cell
  <2>1. p + k - 1 > 1
    BY <1>1, <1>2
  <2>2. p + k - 1 \in DOMAIN buffer => buffer[p + k - 1] \in Cell
    BY <2>1 DEF AtHeader
  <2> QED
    BY <1>4, <2>2
<1>6. data \in Seq(Cell) /\ Len(data) = n
  <2>1. data = [k \in 1..n |-> data[k]]
    OBVIOUS
  <2> HIDE DEF data, n
  <2>2. [k \in 1..n |-> data[k]] \in Seq(Cell) /\ Len([k \in 1..n |-> data[k]]) = n
    BY <1>2, <1>5
  <2> QED
    BY <2>1, <2>2
<1>7. new \in StoredModule /\ new.class = old.class /\ new.data = data
  <2> HIDE DEF data
  <2> QED
    BY <1>2, <1>3, <1>6, ModuleIs
<1>8. ASSUME n = Size[module.class] PROVE data = FromHeader(module, i)
  <2> DEFINE head == [id |-> i, size |-> n]
             from == [k \in 1..n |-> IF k = 1 THEN head ELSE module.data[k - 1]]
  <2>1. FromHeader(module, i) = from
    BY <1>8 DEF FromHeader
  <2>2. /\ buffer[p] = head
        /\ \A k \in 0..n : p + k \in DOMAIN buffer
        /\ \A k \in 1..n : buffer[p + k] = module.data[k]
    BY <1>8 DEF AtHeader, p
  <2> HIDE DEF head, n
  <2>3. ASSUME NEW k \in 1..n PROVE data[k] = from[k]
    <3>1. p + k - 1 = p + (k - 1) /\ k - 1 \in 0..n
      BY <1>1, <1>2
    <3>2. data[k] = buffer[p + (k - 1)]
      BY <2>2, <3>1
    <3>3. CASE k = 1
      <4>1. p + (k - 1) = p
        BY <1>1, <3>3
      <4> QED
        BY <2>2, <3>2, <3>3, <4>1
    <3>4. CASE k # 1
      <4>1. k - 1 \in 1..n
        BY <1>2, <3>4
      <4> QED
        BY <2>2, <3>2, <3>4, <4>1
    <3> QED
      BY <3>3, <3>4
  <2> QED
    BY <2>1, <2>3
<1>9. new # Absent
  BY <1>7, ManageAssumption
<1> QED
  BY <1>7, <1>8, <1>9 DEF new, old, p, n

LEMMA RoundIs ==
  ASSUME NEW v, NEW i, NEW module, AtHeader(v, i, module)
  PROVE  Passed(v, Round(v), i, module)
<1> DEFINE u == Round(v)
           old == v.row[i]
           size == Size[module.class]
           head == [id |-> i, size |-> size]
           new == Restored(old, v.pByte)
           put == IF old = Absent THEN v.row ELSE [v.row EXCEPT ![i] = new]
           odd == old # Absent /\ Size[old.class] # size
<1>0. /\ v.row \in ModuleTable /\ v.failed = FALSE /\ i \in Id
      /\ buffer[v.pByte] = [id |-> i, size |-> size]
  BY DEF AtHeader
<1>1. u = [row |-> put, pByte |-> v.pByte + 1 + size, failed |-> odd]
  <2>1. head.id = i /\ head.size = size /\ buffer[v.pByte] = head
    BY <1>0
  <2> HIDE DEF head, size, new
  <2> QED
    BY <1>0, <2>1 DEF Round, new
<1>2. odd \in BOOLEAN
  OBVIOUS
<1>3. DOMAIN v.row = Id /\ \A id \in Id : v.row[id] \in StoredModule \cup {Absent}
  BY <1>0 DEF ModuleTable
<1>4. old # Absent =>
        /\ new \in StoredModule /\ new # Absent /\ new.class = old.class
        /\ odd \/ new.data = FromHeader(module, i)
  BY RestoredIs
<1>5. /\ put \in ModuleTable /\ \A id \in Id \ {i} : put[id] = v.row[id]
      /\ put[i] = IF old = Absent THEN Absent ELSE new
  <2>1. CASE old = Absent
    BY <1>0, <2>1
  <2>2. CASE old # Absent
    <3>1. put = [v.row EXCEPT ![i] = new] /\ new \in StoredModule
      BY <1>4, <2>2
    <3> HIDE DEF new, put, old
    <3>2. DOMAIN put = Id /\ put[i] = new /\ \A id \in Id \ {i} : put[id] = v.row[id]
      BY <1>0, <1>3, <3>1
    <3>3. put = [id \in Id |-> put[id]]
      BY <1>0, <1>3, <3>1
    <3>4. put \in ModuleTable
      BY <1>0, <1>3, <3>1, <3>2, <3>3 DEF ModuleTable
    <3> QED
      BY <2>2, <3>2, <3>4
  <2> QED
    BY <2>1, <2>2
<1> HIDE DEF u, put, odd, new, old
<1>6. u.row = put /\ u.pByte = v.pByte + 1 + size /\ u.failed = odd
  BY <1>1
<1>7. put[i] = Absent <=> old = Absent
  BY <1>4, <1>5
<1>8. put[i] # Absent =>
        put[i].class = old.class /\ (odd \/ put[i].data = FromHeader(module, i))
  BY <1>4, <1>5
<1> QED
  BY <1>2, <1>5, <1>6, <1>7, <1>8 DEF u, old, Passed

(* The same modules, whatever their data. *)
SameModules(row, other) ==
  \A id \in Id : /\ row[id] = Absent <=> other[id] = Absent
                 /\ row[id] # Absent => row[id].class = other[id].class

ReadBelow(i, row, other) ==
  \A id \in Id : id < i /\ row[id] # Absent /\ other[id] # Absent
                   => row[id].data = FromHeader(other[id], id)

(* As many rounds as there are modules below an identifier have restored   *)
(* those, or the walk has failed.                                          *)
LEMMA WalkIs ==
  ASSUME NEW row \in ModuleTable, NEW source \in ModuleTable, buffer = Serialized(source)
  PROVE  LET end == Walk(row)[buffer[1]]
         IN  /\ buffer # <<>>
             /\ end.row \in ModuleTable /\ SameModules(end.row, row)
             /\ end.failed \/ ReadBelow(ProtocolNum, end.row, source)
<1> DEFINE n == ProtocolNum
           all == Records(source)
           after == Walk(row)
           reached(i) ==
             LET v == after[all[i].num]
             IN  /\ v.row \in ModuleTable /\ SameModules(v.row, row)
                 /\ v.failed \in BOOLEAN
                 /\ v.failed \/ /\ v.pByte = Len(all[i].cells) + 2
                                /\ ReadBelow(i, v.row, source)
           S == {i \in 0..n : reached(i)}
<1>1. n \in Nat /\ n \in 0..n
  BY ManageAssumption
<1>2. /\ all[0] = [num |-> 0, cells |-> <<>>]
      /\ \A i \in Id : source[i] = Absent => all[i + 1] = all[i]
  BY RecordsStep
<1>3. /\ buffer # <<>> /\ buffer[1] = all[n].num
      /\ \A i \in Id :
           source[i] # Absent =>
             LET p == Len(all[i].cells) + 2
                 size == Size[source[i].class]
             IN  /\ size \in Nat /\ p \in Nat /\ p > 1
                 /\ all[i].num \in 0..(buffer[1] - 1)
                 /\ all[i + 1].num = all[i].num + 1
                 /\ Len(all[i + 1].cells) + 2 = p + 1 + size
                 /\ \A k \in 0..size : p + k \in DOMAIN buffer
                 /\ buffer[p] = [id |-> i, size |-> size]
                 /\ \A k \in 1..size : buffer[p + k] = source[i].data[k]
      /\ \A p \in DOMAIN buffer : p > 1 => buffer[p] \in Cell
  BY WrittenIs
<1>4. buffer[1] \in Nat
  BY <1>1, <1>3, RecordsAre
<1>5. /\ after[0] = [row |-> row, pByte |-> 2, failed |-> FALSE]
      /\ \A k \in 0..(buffer[1] - 1) : after[k + 1] = Round(after[k])
  BY <1>4, WalkStep
<1> HIDE DEF all, after
<1>6. 0 \in S
  <2>1. 0 \in 0..n /\ all[0].num = 0 /\ all[0].cells = <<>>
    BY <1>1, <1>2
  <2>2. after[0].row = row /\ after[0].pByte = 2 /\ after[0].failed = FALSE
    BY <1>5
  <2>3. Len(all[0].cells) + 2 = 2
    BY <2>1
  <2>4. \A id \in Id : ~(id < 0)
    BY <1>1 DEF Id
  <2>5. ReadBelow(0, row, source) /\ SameModules(row, row)
    BY <2>4 DEF ReadBelow, SameModules
  <2>6. reached(0)
    BY <2>1, <2>2, <2>3, <2>5
  <2> HIDE DEF reached
  <2> QED
    BY <2>1, <2>6
<1>7. ASSUME NEW i \in 0..(n - 1), i \in S PROVE i + 1 \in S
  <2> DEFINE v == after[all[i].num]
             u == after[all[i + 1].num]
  <2>1. i \in Id /\ i + 1 \in 0..n /\ i \in Nat
    BY <1>1 DEF Id, n
  <2>2. /\ v.row \in ModuleTable /\ SameModules(v.row, row)
        /\ v.failed \in BOOLEAN
        /\ v.failed \/ /\ v.pByte = Len(all[i].cells) + 2
                       /\ ReadBelow(i, v.row, source)
    BY <1>7
  <2>3. \A id \in Id : id < i + 1 => id < i \/ id = i
    BY <2>1, <1>1 DEF Id
  <2>4. ASSUME source[i] = Absent PROVE reached(i + 1)
    <3>1. all[i + 1] = all[i]
      BY <1>2, <2>1, <2>4
    <3>2. ReadBelow(i, v.row, source) => ReadBelow(i + 1, v.row, source)
      BY <2>3, <2>4 DEF ReadBelow
    <3> QED
      BY <2>2, <3>1, <3>2
  <2>5. ASSUME source[i] # Absent PROVE reached(i + 1)
    <3> DEFINE module == source[i]
               size == Size[module.class]
               p == Len(all[i].cells) + 2
    <3>1. /\ size \in Nat /\ p \in Nat /\ p > 1
          /\ all[i].num \in 0..(buffer[1] - 1)
          /\ all[i + 1].num = all[i].num + 1
          /\ Len(all[i + 1].cells) + 2 = p + 1 + size
          /\ \A k \in 0..size : p + k \in DOMAIN buffer
          /\ buffer[p] = [id |-> i, size |-> size]
          /\ \A k \in 1..size : buffer[p + k] = module.data[k]
      BY <1>3, <2>1, <2>5
    <3>2. u = Round(v)
      BY <1>5, <3>1
    <3>3. module \in StoredModule
      BY <2>1, <2>5 DEF ModuleTable
    <3> HIDE DEF module, p, u, v
    <3>4. CASE v.failed = TRUE
      <4>1. u = v
        BY <3>2, <3>4 DEF Round
      <4> QED
        BY <2>2, <3>4, <4>1 DEF u
    <3>5. CASE v.failed = FALSE
      <4>1. v.pByte = p /\ ReadBelow(i, v.row, source)
        BY <2>2, <3>5 DEF p
      <4>2. AtHeader(v, i, module)
        <5>1. v.row \in ModuleTable /\ i \in Id
          BY <2>1, <2>2 DEF v
        <5> QED
          BY <1>3, <3>1, <3>3, <3>5, <4>1, <5>1 DEF AtHeader
      <4>3. /\ u.failed \in BOOLEAN /\ u.pByte = v.pByte + 1 + size
            /\ u.row \in ModuleTable
            /\ \A id \in Id \ {i} : u.row[id] = v.row[id]
            /\ u.row[i] = Absent <=> v.row[i] = Absent
            /\ u.row[i] # Absent =>
                 /\ u.row[i].class = v.row[i].class
                 /\ u.failed \/ u.row[i].data = FromHeader(source[i], i)
        <5>1. Passed(v, Round(v), i, module)
          BY <4>2, RoundIs
        <5>2. Passed(v, u, i, module)
          BY <3>2, <5>1
        <5> QED
          BY <5>2 DEF Passed, module
      <4>4. SameModules(u.row, row)
        BY <2>2, <4>3 DEF SameModules
      <4>5. u.failed \/ ReadBelow(i + 1, u.row, source)
        BY <2>3, <4>1, <4>3 DEF ReadBelow
      <4>6. u.pByte = Len(all[i + 1].cells) + 2
        BY <3>1, <4>1, <4>3
      <4> QED
        BY <4>3, <4>4, <4>5, <4>6 DEF u
    <3> QED
      BY <2>2, <3>4, <3>5
  <2>6. reached(i + 1)
    BY <2>4, <2>5
  <2> HIDE DEF reached
  <2> QED
    BY <2>1, <2>6
<1>8. \A i \in 0..n : i \in S
  <2> HIDE DEF S
  <2> QED
    BY <1>1, <1>6, <1>7, Reached
<1>9. reached(n)
  <2> HIDE DEF reached
  <2> QED
    BY <1>1, <1>8
<1> QED
  BY <1>3, <1>9 DEF after, n

-----------------------------------------------------------------------------
(* The class that an initialisation of a kind leaves under an identifier: *)
(* it is the same for all managers.                                       *)
IdBy(way) ==
  [c \in Class |-> IF way = "configured" /\ c \in DOMAIN Config THEN Config[c]
                     ELSE Declared[c]]

Created(ids, configured, id) ==
  {i \in {j \in DOMAIN Classes : configured => Classes[j] \in DOMAIN Config} :
     ids[Classes[i]] = id}

LastOf(S) == CHOOSE i \in S : \A j \in S : j <= i

LastBy(way, id) == Classes[LastOf(Created(IdBy(way), way = "configured", id))]

Ways == {"declared", "configured"}

InitialisedAlike ==
  \A m \in Manager :
    /\ inits[m] = {} => table[m] = EmptyTable
    /\ \A way \in Ways :
         inits[m] = {way} =>
           \A id \in Id : table[m][id] # Absent => table[m][id].class = LastBy(way, id)

BufferIsWritten == buffer = <<>> \/ buffer = Serialized(writer)

ReaderHasRead ==
  reader \in Manager => ReadBelow(ProtocolNum, table[reader], writer)

ManageInv ==
  /\ ManageTypeOK
  /\ ~config => m_id = Declared
  /\ InitialisedAlike /\ BufferIsWritten /\ ReaderHasRead

(* Init puts modules of registered classes into the table. *)
LEMMA PlacedIs ==
  ASSUME NEW row \in ModuleTable, NEW ids \in [Class -> Id], NEW configured \in BOOLEAN
  PROVE  LET placed == Placed(row, ids, configured)
         IN  /\ placed \in ModuleTable
             /\ \A id \in Id :
                  LET with == Created(ids, configured, id)
                  IN  /\ with = {} => placed[id] = row[id]
                      /\ with # {} => placed[id].class = Classes[LastOf(with)]
<1> DEFINE with(id) == Created(ids, configured, id)
           placed == Placed(row, ids, configured)
<1>1. placed = [id \in Id |-> IF with(id) = {} THEN row[id]
                                ELSE NewModule(Classes[LastOf(with(id))])]
  BY DEF Placed, Created, LastOf
<1>2. \A id \in Id : with(id) \subseteq DOMAIN Classes
  BY DEF Created
<1>3. Len(Classes) \in Nat /\ DOMAIN Classes = 1..Len(Classes)
  BY ManageAssumption
<1> HIDE DEF placed, with
<1>4. ASSUME NEW id \in Id, with(id) # {}
      PROVE  placed[id] \in StoredModule /\ placed[id].class = Classes[LastOf(with(id))]
  <2> DEFINE c == Classes[LastOf(with(id))]
  <2>1. LastOf(with(id)) \in DOMAIN Classes
    <3>1. LastOf(with(id)) \in with(id)
      BY <1>2, <1>3, <1>4, LastIs DEF LastOf
    <3> QED
      BY <1>2, <3>1
  <2>2. c \in Class
    BY <2>1 DEF Class
  <2>3. placed[id] = NewModule(c)
    BY <1>1, <1>4
  <2> HIDE DEF c
  <2>4. NewModule(c) \in StoredModule /\ NewModule(c).class = c
    BY <2>2, FilledIs, ManageAssumption DEF NewModule
  <2> QED
    BY <2>3, <2>4 DEF c
<1>5. ASSUME NEW id \in Id, with(id) = {} PROVE placed[id] = row[id]
  BY <1>1, <1>5
<1>6. placed \in ModuleTable
  <2>1. DOMAIN placed = Id /\ placed = [id \in Id |-> placed[id]]
    BY <1>1
  <2>2. \A id \in Id : placed[id] \in StoredModule \cup {Absent}
    BY <1>4, <1>5 DEF ModuleTable
  <2> HIDE DEF placed
  <2> QED
    BY <2>1, <2>2 DEF ModuleTable
<1> QED
  BY <1>4, <1>5, <1>6 DEF placed, with

(* Empty tables agree on everything. *)
LEMMA ManageInvInit == ManageInit => ManageInv
<1> SUFFICES ASSUME ManageInit PROVE ManageInv
  OBVIOUS
<1>1. EmptyTable \in ModuleTable
  BY DEF EmptyTable, ModuleTable
<1>2. ManageTypeOK
  BY <1>1, ManageAssumption DEF ManageInit, ManageTypeOK
<1>3. InitialisedAlike
  BY DEF ManageInit, InitialisedAlike, Ways
<1>4. BufferIsWritten /\ ReaderHasRead
  BY ManageAssumption DEF ManageInit, BufferIsWritten, ReaderHasRead
<1> QED
  BY <1>2, <1>3, <1>4 DEF ManageInit, ManageInv

(* The steps of Init: the way decides what is under an identifier. *)
LEMMA InitStep ==
  ASSUME ManageInv, NEW m \in Manager, NEW found \in BOOLEAN, InitManager(m, found)
  PROVE  ManageInv'
<1> DEFINE configured == config \/ found
           way == IF configured THEN "configured" ELSE "declared"
           ids == Identifiers(configured)
           placed == Placed(table[m], ids, configured)
           with(id) == Created(ids, configured, id)
<1>1. /\ config' = configured /\ m_id' = ids
      /\ table' = [table EXCEPT ![m] = placed]
      /\ inits' = [inits EXCEPT ![m] = @ \cup {way}]
      /\ reader' = Absent /\ buffer' = buffer /\ writer' = writer
  BY DEF InitManager
<1>2. /\ config \in BOOLEAN /\ m_id \in [Class -> Id]
      /\ table \in [Manager -> ModuleTable] /\ writer \in ModuleTable
      /\ inits \in [Manager -> SUBSET {"declared", "configured"}]
  BY DEF ManageInv, ManageTypeOK
<1>3. configured \in BOOLEAN /\ way \in Ways
  BY <1>2 DEF Ways
<1>4. ids \in [Class -> Id]
  BY <1>2, ManageAssumption DEF Identifiers
<1>5. /\ placed \in ModuleTable
      /\ \A id \in Id : /\ with(id) = {} => placed[id] = table[m][id]
                        /\ with(id) # {} => placed[id].class = Classes[LastOf(with(id))]
  <2>1. table[m] \in ModuleTable
    BY <1>2
  <2> HIDE DEF configured, ids
  <2> QED
    BY <1>3, <1>4, <2>1, PlacedIs
<1>6. ASSUME NEW i \in DOMAIN Classes, configured => Classes[i] \in DOMAIN Config
      PROVE  ids[Classes[i]] = IdBy(way)[Classes[i]]
  <2>1. Classes[i] \in Class
    BY DEF Class
  <2>2. CASE configured
    BY <1>6, <2>1, <2>2 DEF Identifiers, IdBy
  <2>3. CASE ~configured
    <3>1. m_id = Declared /\ way = "declared"
      BY <2>3 DEF ManageInv
    <3> QED
      BY <2>1, <2>3, <3>1 DEF Identifiers, IdBy
  <2> QED
    BY <2>2, <2>3
<1>7. \A id \in Id : with(id) # {} => Classes[LastOf(with(id))] = LastBy(way, id)
  <2> SUFFICES ASSUME NEW id \in Id PROVE Classes[LastOf(with(id))] = LastBy(way, id)
    OBVIOUS
  <2>1. with(id) = Created(IdBy(way), way = "configured", id)
    BY <1>6 DEF Created
  <2> HIDE DEF way
  <2> QED
    BY <2>1 DEF LastBy
<1>8. ManageTypeOK'
  <2> HIDE DEF configured, way, placed, ids
  <2>1. /\ config' \in BOOLEAN /\ m_id' \in [Class -> Id]
        /\ table' \in [Manager -> ModuleTable] /\ writer' \in ModuleTable
        /\ reader' \in Manager \cup {Absent}
    BY <1>1, <1>2, <1>3, <1>4, <1>5
  <2>2. inits' \in [Manager -> SUBSET {"declared", "configured"}]
    BY <1>1, <1>2, <1>3 DEF Ways
  <2> QED
    BY <2>1, <2>2 DEF ManageTypeOK
<1>9. ~config' => m_id' = Declared
  <2>1. ASSUME ~configured PROVE ids = Declared
    <3>1. m_id = Declared /\ Declared \in [Class -> Id]
      BY <2>1, ManageAssumption DEF ManageInv
    <3> QED
      BY <2>1, <3>1 DEF Identifiers
  <2> QED
    BY <1>1, <2>1
<1>10. InitialisedAlike'
  <2> SUFFICES ASSUME NEW o \in Manager
               PROVE  /\ inits'[o] = {} => table'[o] = EmptyTable
                      /\ \A by \in Ways :
                           inits'[o] = {by} =>
                             \A id \in Id : table'[o][id] # Absent
                                              => table'[o][id].class = LastBy(by, id)
    BY DEF InitialisedAlike
  <2>1. /\ inits[o] = {} => table[o] = EmptyTable
        /\ \A by \in Ways :
             inits[o] = {by} =>
               \A id \in Id : table[o][id] # Absent
                                => table[o][id].class = LastBy(by, id)
    BY DEF ManageInv, InitialisedAlike
  <2> HIDE DEF configured, way, placed, ids, with
  <2>2. CASE o # m
    <3>1. inits'[o] = inits[o] /\ table'[o] = table[o]
      BY <1>1, <1>2, <2>2
    <3> QED
      BY <2>1, <3>1
  <2>3. CASE o = m
    <3>1. inits'[o] = inits[o] \cup {way} /\ table'[o] = placed
      BY <1>1, <1>2, <2>3
    <3>2. ASSUME NEW by \in Ways, inits'[o] = {by}, NEW id \in Id, placed[id] # Absent
          PROVE  placed[id].class = LastBy(by, id)
      <4>1. by = way /\ (inits[o] = {} \/ inits[o] = {by})
        BY <3>1, <3>2
      <4>2. CASE with(id) # {}
        BY <1>5, <1>7, <4>1, <4>2
      <4>3. CASE with(id) = {}
        <5>1. placed[id] = table[m][id]
          BY <1>5, <4>3
        <5>2. inits[o] # {}
          BY <2>1, <2>3, <3>2, <5>1 DEF EmptyTable
        <5> QED
          BY <2>1, <2>3, <3>2, <4>1, <5>1, <5>2
      <4> QED
        BY <4>2, <4>3
    <3> QED
      BY <3>1, <3>2
  <2> QED
    BY <2>2, <2>3
<1>11. BufferIsWritten'
  BY <1>1 DEF ManageInv, BufferIsWritten
<1>12. ReaderHasRead'
  BY <1>1, ManageAssumption DEF ReaderHasRead
<1> QED
  BY <1>8, <1>9, <1>10, <1>11, <1>12 DEF ManageInv

(* A manager that has no modules has nothing to disagree about. *)
LEMMA UnInitStep ==
  ASSUME ManageInv, NEW m \in Manager, UnInitManager(m)
  PROVE  ManageInv'
<1>1. /\ table' = [table EXCEPT ![m] = EmptyTable]
      /\ inits' = [inits EXCEPT ![m] = {}]
      /\ reader' = Absent /\ buffer' = buffer /\ writer' = writer
      /\ config' = config /\ m_id' = m_id
  BY DEF UnInitManager
<1>2. EmptyTable \in ModuleTable
  BY DEF EmptyTable, ModuleTable
<1>3. ManageTypeOK'
  BY <1>1, <1>2 DEF ManageInv, ManageTypeOK
<1>4. InitialisedAlike'
  BY <1>1 DEF ManageInv, ManageTypeOK, InitialisedAlike, Ways
<1>5. BufferIsWritten'
  BY <1>1 DEF ManageInv, BufferIsWritten
<1>6. ReaderHasRead'
  BY <1>1, ManageAssumption DEF ReaderHasRead
<1> QED
  BY <1>1, <1>3, <1>4, <1>5, <1>6 DEF ManageInv

(* A module that changes its data keeps its class and ends the comparison. *)
LEMMA ChangeStep ==
  ASSUME ManageInv, NEW m \in Manager, NEW id \in Id, NEW version \in Version,
         ChangeModule(m, id, version)
  PROVE  ManageInv'
<1> DEFINE module == table[m][id]
           new == FilledModule(module.class, version)
           row == [table[m] EXCEPT ![id] = new]
<1>1. /\ module # Absent
      /\ table' = [table EXCEPT ![m] = row]
      /\ reader' = Absent /\ buffer' = buffer /\ writer' = writer
      /\ config' = config /\ m_id' = m_id /\ inits' = inits
  BY DEF ChangeModule
<1>2. table \in [Manager -> ModuleTable]
  BY DEF ManageInv, ManageTypeOK
<1>3. table[m] \in ModuleTable /\ module \in StoredModule
  BY <1>1, <1>2 DEF ModuleTable
<1>4. new \in StoredModule /\ new.class = module.class
  BY <1>3, DataIs, FilledIs
<1> HIDE DEF new
<1>5. row \in ModuleTable
  BY <1>3, <1>4 DEF ModuleTable
<1>6. row[id] = new /\ \A other \in Id \ {id} : row[other] = table[m][other]
  BY <1>3 DEF ModuleTable
<1> HIDE DEF row, module
<1>7. ManageTypeOK'
  BY <1>1, <1>5 DEF ManageInv, ManageTypeOK
<1>8. InitialisedAlike'
  <2> SUFFICES ASSUME NEW o \in Manager
               PROVE  /\ inits[o] = {} => table'[o] = EmptyTable
                      /\ \A way \in Ways :
                           inits[o] = {way} =>
                             \A i \in Id : table'[o][i] # Absent
                                             => table'[o][i].class = LastBy(way, i)
    BY <1>1 DEF InitialisedAlike
  <2>1. /\ inits[o] = {} => table[o] = EmptyTable
        /\ \A way \in Ways :
             inits[o] = {way} =>
               \A i \in Id : table[o][i] # Absent => table[o][i].class = LastBy(way, i)
    BY DEF ManageInv, InitialisedAlike
  <2>2. CASE o # m
    <3>1. table'[o] = table[o]
      BY <1>1, <1>2, <2>2
    <3> QED
      BY <2>1, <3>1
  <2>3. CASE o = m
    <3>1. table'[o] = row
      BY <1>1, <1>2, <2>3
    <3>2. inits[o] # {}
      BY <1>1, <2>1, <2>3 DEF EmptyTable, module
    <3>3. ASSUME NEW i \in Id, row[i] # Absent
          PROVE  table[o][i] # Absent /\ row[i].class = table[o][i].class
      BY <1>1, <1>4, <1>6, <2>3, <3>3 DEF module
    <3> QED
      BY <2>1, <3>1, <3>2, <3>3
  <2> QED
    BY <2>2, <2>3
<1>9. BufferIsWritten'
  BY <1>1 DEF ManageInv, BufferIsWritten
<1>10. ReaderHasRead'
  BY <1>1, ManageAssumption DEF ReaderHasRead
<1> QED
  BY <1>1, <1>7, <1>8, <1>9, <1>10 DEF ManageInv

(* The buffer is the table of the manager that wrote it. *)
LEMMA SerializeStep ==
  ASSUME ManageInv, NEW m \in Manager, serialize(m)
  PROVE  ManageInv'
<1>1. /\ buffer' = Serialized(table[m]) /\ writer' = table[m]
      /\ reader' = Absent /\ table' = table
      /\ config' = config /\ m_id' = m_id /\ inits' = inits
  BY DEF serialize, Serialized
<1>2. ManageTypeOK'
  BY <1>1 DEF ManageInv, ManageTypeOK
<1>3. InitialisedAlike'
  BY <1>1 DEF ManageInv, InitialisedAlike
<1>4. BufferIsWritten'
  BY <1>1 DEF BufferIsWritten
<1>5. ReaderHasRead'
  BY <1>1, ManageAssumption DEF ReaderHasRead
<1> QED
  BY <1>1, <1>2, <1>3, <1>4, <1>5 DEF ManageInv

(* The manager that read it has read what it was written from. *)
LEMMA UnserializeStep ==
  ASSUME ManageInv, NEW m \in Manager, unserialize(m)
  PROVE  ManageInv'
<1> DEFINE end == Walk(table[m])[buffer[1]]
<1>1. /\ buffer # <<>> /\ table' = [table EXCEPT ![m] = end.row]
      /\ reader' = (IF end.failed THEN Absent ELSE m)
      /\ buffer' = buffer /\ writer' = writer
      /\ config' = config /\ m_id' = m_id /\ inits' = inits
  BY DEF unserialize
<1>2. table \in [Manager -> ModuleTable] /\ writer \in ModuleTable
  BY DEF ManageInv, ManageTypeOK
<1>3. table[m] \in ModuleTable /\ buffer = Serialized(writer)
  BY <1>1, <1>2 DEF ManageInv, BufferIsWritten
<1>4. /\ end.row \in ModuleTable /\ SameModules(end.row, table[m])
      /\ end.failed \/ ReadBelow(ProtocolNum, end.row, writer)
  BY <1>2, <1>3, WalkIs
<1> HIDE DEF end
<1>5. ManageTypeOK'
  BY <1>1, <1>4 DEF ManageInv, ManageTypeOK
<1>6. InitialisedAlike'
  <2> SUFFICES ASSUME NEW o \in Manager
               PROVE  /\ inits[o] = {} => table'[o] = EmptyTable
                      /\ \A way \in Ways :
                           inits[o] = {way} =>
                             \A i \in Id : table'[o][i] # Absent
                                             => table'[o][i].class = LastBy(way, i)
    BY <1>1 DEF InitialisedAlike
  <2>1. /\ inits[o] = {} => table[o] = EmptyTable
        /\ \A way \in Ways :
             inits[o] = {way} =>
               \A i \in Id : table[o][i] # Absent => table[o][i].class = LastBy(way, i)
    BY DEF ManageInv, InitialisedAlike
  <2>2. CASE o # m
    <3>1. table'[o] = table[o]
      BY <1>1, <1>2, <2>2
    <3> QED
      BY <2>1, <3>1
  <2>3. CASE o = m
    <3>1. table'[o] = end.row
      BY <1>1, <1>2, <2>3
    <3>2. \A i \in Id : /\ end.row[i] = Absent <=> table[o][i] = Absent
                        /\ end.row[i] # Absent => end.row[i].class = table[o][i].class
      BY <1>4, <2>3 DEF SameModules
    <3>3. table[o] = EmptyTable => end.row = EmptyTable
      BY <1>4, <3>2 DEF EmptyTable, ModuleTable
    <3> QED
      BY <2>1, <3>1, <3>2, <3>3
  <2> QED
    BY <2>2, <2>3
<1>7. BufferIsWritten'
  BY <1>1 DEF ManageInv, BufferIsWritten
<1>8. ReaderHasRead'
  <2>1. CASE end.failed
    BY <1>1, <2>1, ManageAssumption DEF ReaderHasRead
  <2>2. CASE ~end.failed
    <3>1. reader' = m /\ table'[m] = end.row /\ writer' = writer
      BY <1>1, <1>2, <2>2
    <3>2. ReadBelow(ProtocolNum, end.row, writer)
      BY <1>4, <2>2
    <3> QED
      BY <3>1, <3>2 DEF ReaderHasRead, ReadBelow
  <2> QED
    BY <2>1, <2>2
<1> QED
  BY <1>1, <1>5, <1>6, <1>7, <1>8 DEF ManageInv

(* Managers of modules: the tables follow the kind of initialisation, the  *)
(* buffer is the table it was written from, and the manager that has read  *)
(* it has given its modules their records (src/src/module_manager.cpp).    *)
THEOREM ManageInvariant == ManageSpec => []ManageInv
<1>1. ManageInit => ManageInv
  BY ManageInvInit
<1>2. ManageInv /\ [ManageNext]_manageVars => ManageInv'
  <2> SUFFICES ASSUME ManageInv, [ManageNext]_manageVars PROVE ManageInv'
    OBVIOUS
  <2>1. CASE ManageNext
    BY <2>1, InitStep, UnInitStep, ChangeStep, SerializeStep, UnserializeStep DEF ManageNext
  <2>2. CASE UNCHANGED manageVars
    <3>1. /\ table' = table /\ inits' = inits /\ reader' = reader /\ buffer' = buffer
          /\ writer' = writer /\ config' = config /\ m_id' = m_id
      BY <2>2 DEF manageVars
    <3> QED
      BY <3>1 DEF ManageInv, ManageTypeOK, InitialisedAlike, BufferIsWritten, ReaderHasRead,
                  ReadBelow
  <2> QED
    BY <2>1, <2>2
<1> QED
  BY <1>1, <1>2, PTL DEF ManageSpec

(* ModuleManager::unserialize gives every module that both managers have   *)
(* the record that serialize wrote for it and no other, whatever the       *)
(* modules that only one of them has, but from its header on; and managers *)
(* initialised in the same way have the same class under each identifier.  *)
THEOREM OwnRecordIsRead == ManageSpec => []ReadsItsOwnRecord
<1>1. ManageInv => ReadsItsOwnRecord
  <2> SUFFICES ASSUME ManageInv PROVE ReadsItsOwnRecord
    OBVIOUS
  <2>1. ASSUME NEW m \in Manager, reader = m, NEW id \in Id,
               table[m][id] # Absent, writer[id] # Absent
        PROVE  table[m][id].data = FromHeader(writer[id], id)
    <3>1. id < ProtocolNum
      BY ManageAssumption DEF Id
    <3> QED
      BY <2>1, <3>1 DEF ManageInv, ReaderHasRead, ReadBelow
  <2>2. ASSUME NEW m \in Manager, NEW n \in Manager, NEW way \in {"declared", "configured"},
               inits[m] = {way}, inits[n] = {way}
        PROVE  Agree(table[m], table[n])
    BY <2>2 DEF ManageInv, InitialisedAlike, Ways, Agree
  <2> QED
    BY <2>1, <2>2 DEF ReadsItsOwnRecord
<1> QED
  BY <1>1, ManageInvariant, PTL

-----------------------------------------------------------------------------
(***************************************************************************)
(* Md5. Whatever the parts in which a message of n bytes came, the object  *)
(* has its count and its whole blocks, and the rest of it begins its       *)
(* buffer (Fed). init keeps that (FeedStep), so that the padding and the   *)
(* length, which getDigest feeds it like any other part, are digested      *)
(* behind the message (PaddedIs), and what getDigest puts back is as it    *)
(* was, except that the buffer may have been overwritten if the length did *)
(* not fit behind the message (StateRestored): the second digest of such a *)
(* message is the one that may be another.                                 *)
(***************************************************************************)
(* Quotient and remainder are what they should be, and nothing else is. *)
LEMMA DivIs ==
  ASSUME NEW d \in Nat \ {0}, NEW x \in Int, NEW q \in Int, NEW r \in 0..(d - 1),
         x = q * d + r
  PROVE  x \div d = q /\ x % d = r
<1>1. x = d * (x \div d) + (x % d) /\ x \div d \in Int /\ x % d \in 0..(d - 1)
  OBVIOUS
<1> DEFINE p == x \div d
           s == x % d
<1>2. p \in Int /\ s \in 0..(d - 1) /\ q * d + r = p * d + s
  BY <1>1
<1> HIDE DEF p, s
<1>3. ASSUME p < q PROVE FALSE
  <2>1. (q - p) * d >= d
    BY <1>2, <1>3
  <2> QED
    BY <2>1, <1>2
<1>4. ASSUME q < p PROVE FALSE
  <2>1. (p - q) * d >= d
    BY <1>2, <1>4
  <2> QED
    BY <2>1, <1>2
<1>5. p = q /\ s = r
  BY <1>2, <1>3, <1>4
<1> QED
  BY <1>5 DEF p, s

(* The quotient and the remainder of a number. *)
LEMMA DivOf ==
  ASSUME NEW d \in Nat \ {0}, NEW x \in Nat
  PROVE  /\ x \div d \in Nat /\ x % d \in 0..(d - 1)
         /\ x = (x \div d) * d + (x % d)
         /\ x \div d <= x
<1>1. x = d * (x \div d) + (x % d) /\ x \div d \in Int /\ x % d \in 0..(d - 1)
  OBVIOUS
<1> DEFINE p == x \div d
           s == x % d
<1>2. p \in Int /\ s \in 0..(d - 1) /\ x = d * p + s
  BY <1>1
<1> HIDE DEF p, s
<1>3. p >= 0
  <2>1. SUFFICES ASSUME p <= -1 PROVE FALSE
    BY <1>2
  <2>2. d * p <= -d
    BY <2>1, <1>2
  <2> QED
    BY <2>2, <1>2
<1>4. p <= x
  <2>1. d * p >= p
    BY <1>3, <1>2
  <2> QED
    BY <2>1, <1>2
<1> QED
  BY <1>2, <1>3, <1>4 DEF p, s

(* What the sizes of src/src/md5.cpp have to do with each other. *)
LEMMA WordSizes ==
  /\ Modulus \in Nat \ {0} /\ ByteSize \in Nat \ {0} /\ BlockLen \in Nat \ {0}
  /\ LengthLen \in Nat /\ LengthLen < BlockLen
  /\ Modulus = ByteSize * ByteSize
  /\ \E k \in Nat : Modulus = k * (8 * BlockLen)
<1>1. BlockLen \in Nat \ {0} /\ ByteSize \in Nat \ {0} /\ LengthLen = 4 /\ LengthLen < BlockLen
  BY DigestAssumption DEF LengthLen
<1>2. Modulus = ByteSize * ByteSize
  BY DEF Modulus
<1>3. Modulus \in Nat \ {0}
  BY <1>1, <1>2
<1>4. 8 * BlockLen \in Nat \ {0}
  BY <1>1
<1>5. Modulus % (8 * BlockLen) = 0
  BY DigestAssumption
<1>6. Modulus = (Modulus \div (8 * BlockLen)) * (8 * BlockLen) + (Modulus % (8 * BlockLen))
      /\ Modulus \div (8 * BlockLen) \in Nat
  BY <1>3, <1>4, DivOf
<1>7. (Modulus \div (8 * BlockLen)) * (8 * BlockLen) \in Nat
  BY <1>6, <1>4
<1>8. Modulus = (Modulus \div (8 * BlockLen)) * (8 * BlockLen)
  BY <1>5, <1>6, <1>7
<1> QED
  BY <1>1, <1>2, <1>3, <1>6, <1>8

-----------------------------------------------------------------------------
(***************************************************************************)
(* The count.                                                              *)
(***************************************************************************)
(* A remainder within a sum may be taken first. *)
LEMMA ModAdd ==
  ASSUME NEW d \in Nat \ {0}, NEW x \in Nat, NEW y \in Nat
  PROVE  ((x % d) + y) % d = (x + y) % d
<1> DEFINE p == x \div d
           s == x % d
           z == s + y
           f == z \div d
           g == z % d
<1>1. p \in Nat /\ s \in 0..(d - 1) /\ x = p * d + s
  BY DivOf
<1> HIDE DEF p, s
<1>2. z \in Nat
  BY <1>1
<1>3. f \in Nat /\ g \in 0..(d - 1) /\ z = f * d + g
  BY <1>2, DivOf
<1> HIDE DEF f, g
<1>4. x + y = (p + f) * d + g /\ x + y \in Int /\ p + f \in Int
  BY <1>1, <1>3
<1>5. (x + y) % d = g
  BY <1>4, <1>3, DivIs, Zenon
<1> QED
  BY <1>5 DEF s, g

(* The two words of the count, of a message of n bytes. *)
CountOf(n) == <<(8 * n) % Modulus, ((8 * n) \div Modulus) % Modulus>>

(* The bits of two parts are counted as those of the whole. *)
LEMMA Counting ==
  ASSUME NEW n \in Nat, NEW k \in Nat
  PROVE  AddBits(CountOf(n), k) = CountOf(n + k)
<1> DEFINE d == Modulus
           a == (8 * n) \div d
           b == (8 * n) % d
           c == (8 * k) \div d
           e == (8 * k) % d
           low == (b + e) % d
           carry == IF low < e THEN 1 ELSE 0
<1>1. d \in Nat \ {0}
  BY WordSizes
<1> HIDE DEF d
<1>0. 8 * n \in Nat /\ 8 * k \in Nat
  OBVIOUS
<1>2. /\ a \in Nat /\ b \in 0..(d - 1) /\ 8 * n = a * d + b
      /\ c \in Nat /\ e \in 0..(d - 1) /\ 8 * k = c * d + e
  BY <1>0, <1>1, DivOf, Zenon
<1> HIDE DEF a, b, c, e
<1>3. /\ 8 * (n + k) = (a + c) * d + (b + e)
      /\ 8 * (n + k) \in Int /\ a + c \in Int
  BY <1>1, <1>2
<1>4. /\ low = (8 * (n + k)) % d
      /\ a + c + carry = (8 * (n + k)) \div d
  <2>1. CASE b + e < d
    <3>1. low = b + e
      <4>1. /\ b + e \in Int /\ 0 \in Int
            /\ b + e \in 0..(d - 1) /\ b + e = 0 * d + (b + e)
        BY <2>1, <1>1, <1>2
      <4> QED
        BY <4>1, <1>1, DivIs, Zenon
    <3>2. carry = 0
      BY <3>1, <1>2, <1>1
    <3>0. b + e \in 0..(d - 1)
      BY <2>1, <1>1, <1>2
    <3>3. (8 * (n + k)) % d = b + e /\ (8 * (n + k)) \div d = a + c
      BY <3>0, <1>1, <1>3, DivIs, Zenon
    <3> HIDE DEF low, carry
    <3> QED
      BY <3>1, <3>2, <3>3, <1>2
  <2>2. CASE b + e >= d
    <3>0. /\ b + e - d \in 0..(d - 1) /\ b + e = 1 * d + (b + e - d)
          /\ b + e \in Int /\ 1 \in Int
      BY <2>2, <1>1, <1>2
    <3>1. low = b + e - d
      BY <3>0, <1>1, DivIs, Zenon
    <3>2. carry = 1
      BY <3>1, <1>2, <1>1
    <3> DEFINE q == a + c + 1
               r == b + e - d
               x == 8 * (n + k)
    <3>3. x \in Int /\ q \in Int /\ r \in 0..(d - 1) /\ x = q * d + r
      BY <1>1, <1>2, <1>3, <3>0
    <3> HIDE DEF q, r, x
    <3>4. x \div d = q /\ x % d = r
      BY <1>1, <3>3, DivIs, Zenon
    <3>5. (8 * (n + k)) % d = b + e - d /\ (8 * (n + k)) \div d = a + c + 1
      BY <3>4 DEF q, r, x
    <3> HIDE DEF low, carry
    <3> QED
      BY <3>1, <3>2, <3>5, <1>2
  <2> QED
    BY <2>1, <2>2, <1>1, <1>2
<1>5. carry \in Nat
  OBVIOUS
<1>6. AddBits(CountOf(n), k) = <<low, ((a % d) + carry + c) % d>>
  BY DEF AddBits, CountOf, d, a, b, c, e
<1> HIDE DEF carry, low
<1>10. carry + c \in Nat
  BY <1>2, <1>5
<1>7. ((a % d) + (carry + c)) % d = (a + (carry + c)) % d
  BY <1>1, <1>2, <1>10, ModAdd, Zenon
<1>8. a % d \in Nat
  BY <1>1, <1>2, DivOf
<1>9. (a % d) + carry + c = (a % d) + (carry + c) /\ a + (carry + c) = a + c + carry
  BY <1>2, <1>5, <1>8
<1> QED
  BY <1>4, <1>6, <1>7, <1>9 DEF CountOf, d

(* The place in the buffer, from the lower word of the count. *)
LEMMA IndexIs ==
  ASSUME NEW m, NEW n \in Nat, m.count = CountOf(n)
  PROVE  Index(m) = n % BlockLen
<1>1. PICK k \in Nat : Modulus = k * (8 * BlockLen)
  BY WordSizes
<1>2. Modulus \in Nat \ {0} /\ BlockLen \in Nat \ {0}
  BY WordSizes
<1> DEFINE t == (8 * n) \div Modulus
           s == (8 * n) % Modulus
           q == n \div BlockLen
           r == n % BlockLen
<1>0. 8 * n \in Nat
  OBVIOUS
<1>13. t \in Nat /\ s \in 0..(Modulus - 1) /\ 8 * n = t * Modulus + s
  BY <1>0, <1>2, DivOf, Zenon
<1>3. t \in Nat /\ s \in Nat /\ 8 * n = t * Modulus + s
  BY <1>13, <1>2
<1>4. q \in Nat /\ r \in 0..(BlockLen - 1) /\ n = q * BlockLen + r
  BY <1>2, DivOf
<1>5. Index(m) = (s \div 8) % BlockLen
  BY DEF Index, CountOf
<1> HIDE DEF t, s, q, r
<1> DEFINE y == n - (t * k) * BlockLen
<1>6. y \in Int /\ (t * k) \in Nat
  BY <1>1, <1>2, <1>3
<1>7. t * Modulus = 8 * ((t * k) * BlockLen)
  BY <1>1, <1>2, <1>3
<1>8. s = 8 * y
  <2> DEFINE w == (t * k) * BlockLen
  <2>1. w \in Nat
    BY <1>6, <1>2
  <2>2. t * Modulus = 8 * w
    BY <1>7
  <2> HIDE DEF w
  <2>3. s = 8 * (n - w)
    BY <1>3, <2>1, <2>2
  <2> QED
    BY <2>3 DEF w
<1>9. y = (q - t * k) * BlockLen + r
  BY <1>4, <1>6, <1>2
<1>10. s \div 8 = y
  <2> HIDE DEF y
  <2> QED
    BY <1>6, <1>8
<1>11. q - t * k \in Int
  BY <1>4, <1>6
<1>12. y % BlockLen = r
  BY <1>2, <1>4, <1>6, <1>9, <1>11, DivIs, Zenon
<1> QED
  BY <1>5, <1>10, <1>12 DEF r

(* A word has two bytes. *)
LEMMA TwoBytes ==
  ASSUME NEW x \in Nat
  PROVE  /\ x \div Modulus = (x \div ByteSize) \div ByteSize
         /\ (x % Modulus) % ByteSize = x % ByteSize
         /\ (x % Modulus) \div ByteSize = (x \div ByteSize) % ByteSize
<1> DEFINE d == ByteSize
           p == x \div d
           b == x % d
           q == p \div d
           c == p % d
<1>1. d \in Nat \ {0} /\ Modulus = d * d /\ Modulus \in Nat \ {0}
  BY WordSizes
<1> HIDE DEF d
<1>2. p \in Nat /\ b \in 0..(d - 1) /\ x = p * d + b
  BY <1>1, DivOf, Zenon
<1>3. q \in Nat /\ c \in 0..(d - 1) /\ p = q * d + c
  BY <1>1, <1>2, DivOf, Zenon
<1> HIDE DEF p, b, q, c
<1> DEFINE y == c * d + b
<1>4. y \in Int /\ x \in Int /\ q \in Int /\ c \in Int
  BY <1>1, <1>2, <1>3
<1>5. x = q * Modulus + y
  BY <1>1, <1>2, <1>3
<1>6. y \in 0..(Modulus - 1)
  <2>1. c * d <= (d - 1) * d
    BY <1>1, <1>3
  <2>2. (d - 1) * d = Modulus - d /\ 0 <= c * d /\ c * d \in Int
    BY <1>1, <1>3
  <2> HIDE DEF d
  <2> DEFINE w == c * d
             v == (d - 1) * d
  <2>3. w <= v /\ v = Modulus - d /\ w \in Nat
    BY <2>1, <2>2
  <2> HIDE DEF w, v
  <2>4. w + b \in 0..(Modulus - 1)
    BY <2>3, <1>1, <1>2
  <2> QED
    BY <2>4 DEF w
<1>7. x \div Modulus = q /\ x % Modulus = y
  BY <1>1, <1>4, <1>5, <1>6, DivIs, Zenon
<1>8. y \div d = c /\ y % d = b
  BY <1>1, <1>2, <1>4, DivIs, Zenon
<1> QED
  BY <1>7, <1>8 DEF p, b, q, c, d

(* The length as DigestOfMessage writes it. *)
Coded(n) ==
  LET higher(x) == x \div ByteSize
      bytes == <<8 * n, higher(8 * n), higher(higher(8 * n)),
                 higher(higher(higher(8 * n)))>>
  IN  [i \in 1..LengthLen |-> bytes[i] % ByteSize]

(* The words of the count are written as the bytes of the length. *)
LEMMA EncodeIs ==
  ASSUME NEW n \in Nat
  PROVE  encode(CountOf(n)) = Coded(n)
<1> DEFINE x == 8 * n
           y == x \div Modulus
<1>1. x \in Nat /\ Modulus \in Nat \ {0}
  BY WordSizes
<1>2. y \in Nat
  BY <1>1, DivOf, Zenon
<1>3. /\ y = (x \div ByteSize) \div ByteSize
      /\ (x % Modulus) % ByteSize = x % ByteSize
      /\ (x % Modulus) \div ByteSize = (x \div ByteSize) % ByteSize
  BY <1>1, TwoBytes, Zenon
<1>4. /\ (y % Modulus) % ByteSize = y % ByteSize
      /\ (y % Modulus) \div ByteSize = (y \div ByteSize) % ByteSize
  BY <1>2, TwoBytes, Zenon
<1> DEFINE c == <<x % Modulus, y % Modulus>>
           e == <<c[1] % ByteSize, c[1] \div ByteSize,
                  c[2] % ByteSize, c[2] \div ByteSize>>
<1>5. CountOf(n) = c /\ encode(c) = e
  BY DEF CountOf, encode
<1> DEFINE bytes == <<x, x \div ByteSize, y, y \div ByteSize>>
<1>6. Coded(n) = [i \in 1..4 |-> bytes[i] % ByteSize]
  BY <1>3 DEF Coded, LengthLen
<1> HIDE DEF x, y
<1>7. /\ e[1] = bytes[1] % ByteSize /\ e[2] = bytes[2] % ByteSize
      /\ e[3] = bytes[3] % ByteSize /\ e[4] = bytes[4] % ByteSize
  BY <1>3, <1>4
<1>8. e = [i \in 1..4 |-> e[i]]
  OBVIOUS
<1> HIDE DEF e, bytes
<1>9. \A i \in 1..4 : e[i] = bytes[i] % ByteSize
  BY <1>7
<1>10. [i \in 1..4 |-> e[i]] = [i \in 1..4 |-> bytes[i] % ByteSize]
  BY <1>9, Zenon
<1> QED
  BY <1>5, <1>6, <1>8, <1>10, Zenon

-----------------------------------------------------------------------------
(***************************************************************************)
(* The blocks.                                                             *)
(***************************************************************************)
Bytes == Seq(Int)
WholeLen(s) == (Len(s) \div BlockLen) * BlockLen
WholePart(s) == SubSeq(s, 1, WholeLen(s))
Rest(s) == SubSeq(s, WholeLen(s) + 1, Len(s))

(* The whole blocks of a stream and what is behind them. *)
LEMMA Lengths ==
  ASSUME NEW s \in Bytes
  PROVE  /\ Len(s) \in Nat /\ WholeLen(s) \in Nat
         /\ Len(s) \div BlockLen \in Nat
         /\ Len(s) % BlockLen \in 0..(BlockLen - 1)
         /\ Len(s) = WholeLen(s) + (Len(s) % BlockLen)
<1>1. Len(s) \in Nat /\ BlockLen \in Nat \ {0}
  BY LenProperties, WordSizes DEF Bytes
<1>2. /\ Len(s) \div BlockLen \in Nat
      /\ Len(s) % BlockLen \in 0..(BlockLen - 1)
      /\ Len(s) = (Len(s) \div BlockLen) * BlockLen + (Len(s) % BlockLen)
  BY <1>1, DivOf, Zenon
<1>3. WholeLen(s) = (Len(s) \div BlockLen) * BlockLen
  BY DEF WholeLen
<1>4. WholeLen(s) \in Nat
  BY <1>1, <1>2, <1>3
<1> QED
  BY <1>1, <1>2, <1>3, <1>4

(* A block lies within what is cut. *)
LEMMA BlockWithin ==
  ASSUME NEW s \in Bytes, NEW k \in 1..(Len(s) \div BlockLen)
  PROVE  /\ (k - 1) * BlockLen + 1 \in 1..Len(s) /\ k * BlockLen \in 1..Len(s)
         /\ k * BlockLen = (k - 1) * BlockLen + BlockLen
         /\ k * BlockLen <= WholeLen(s)
<1> DEFINE q == Len(s) \div BlockLen
<1>1. /\ Len(s) \in Nat /\ q \in Nat /\ BlockLen \in Nat \ {0}
      /\ WholeLen(s) = q * BlockLen /\ WholeLen(s) <= Len(s) /\ k \in 1..q
  BY Lengths, WordSizes DEF WholeLen
<1> HIDE DEF q
<1>2. k * BlockLen <= q * BlockLen
  BY <1>1
<1>3. k * BlockLen = (k - 1) * BlockLen + BlockLen
  BY <1>1
<1>4. (k - 1) * BlockLen \in Nat
  BY <1>1
<1> DEFINE w == (k - 1) * BlockLen
           v == k * BlockLen
<1>5. w \in Nat /\ v = w + BlockLen /\ v <= WholeLen(s)
  BY <1>1, <1>2, <1>3, <1>4
<1> HIDE DEF w, v
<1>6. w + 1 \in 1..Len(s) /\ v \in 1..Len(s)
  BY <1>1, <1>5
<1> QED
  BY <1>5, <1>6 DEF w, v

(* The blocks of a stream, byte by byte. *)
LEMMA BlocksAre ==
  ASSUME NEW s \in Bytes
  PROVE  /\ Blocks(s) \in Seq(Bytes)
         /\ Len(Blocks(s)) = Len(s) \div BlockLen
         /\ \A k \in 1..(Len(s) \div BlockLen) :
              /\ Blocks(s)[k] \in Bytes /\ Len(Blocks(s)[k]) = BlockLen
              /\ \A i \in 1..BlockLen :
                   Blocks(s)[k][i] = s[(k - 1) * BlockLen + i]
<1> DEFINE q == Len(s) \div BlockLen
           b(k) == SubSeq(s, (k - 1) * BlockLen + 1, k * BlockLen)
<1>1. q \in Nat /\ BlockLen \in Nat
  BY Lengths, WordSizes
<1>2. Blocks(s) = [k \in 1..q |-> b(k)]
  BY DEF Blocks
<1>3. ASSUME NEW k \in 1..q
      PROVE  /\ b(k) \in Bytes /\ Len(b(k)) = BlockLen
             /\ \A i \in 1..BlockLen : b(k)[i] = s[(k - 1) * BlockLen + i]
  <2> DEFINE m == (k - 1) * BlockLen + 1
             n == k * BlockLen
             w == (k - 1) * BlockLen
  <2>1. m \in 1..Len(s) /\ n \in 1..Len(s) /\ n = w + BlockLen
    BY BlockWithin
  <2>2. m = w + 1
    OBVIOUS
  <2>3. b(k) = SubSeq(s, m, n)
    OBVIOUS
  <2>4. w \in Int
    BY <1>1, <1>3
  <2> HIDE DEF m, n, w, b
  <2>5. m \in Int /\ n \in Int /\ \A i \in m..n : s[i] \in Int
    BY <2>1, ElementOfSeq, Lengths DEF Bytes
  <2>6. /\ SubSeq(s, m, n) \in Seq(Int)
        /\ Len(SubSeq(s, m, n)) = IF m <= n THEN n - m + 1 ELSE 0
        /\ \A i \in 1..(n - m + 1) : SubSeq(s, m, n)[i] = s[m + i - 1]
    BY <2>5, SubSeqProperties
  <2>7. n - m + 1 = BlockLen /\ m <= n /\ BlockLen > 0
    BY <2>1, <2>2, <2>4, WordSizes
  <2>8. \A i \in 1..BlockLen : m + i - 1 = w + i
    BY <2>2, <2>4, <1>1
  <2>9. Len(SubSeq(s, m, n)) = BlockLen
    BY <2>6, <2>7
  <2>10. \A i \in 1..BlockLen : SubSeq(s, m, n)[i] = s[w + i]
    BY <2>6, <2>7, <2>8
  <2> QED
    BY <2>3, <2>6, <2>9, <2>10 DEF Bytes, w
<1> HIDE DEF b, q
<1>4. Blocks(s) \in [1..q -> Bytes]
  BY <1>2, <1>3
<1>5. Blocks(s) \in Seq(Bytes) /\ Len(Blocks(s)) = q
  BY <1>1, <1>4
<1>6. \A k \in 1..q : Blocks(s)[k] = b(k)
  BY <1>2
<1> QED
  BY <1>3, <1>5, <1>6 DEF q

(* A piece of a stream, and two streams joined. *)
LEMMA CutIs ==
  ASSUME NEW s \in Bytes, NEW m \in Int, NEW n \in Int,
         1 <= m, m <= n + 1, n <= Len(s)
  PROVE  /\ SubSeq(s, m, n) \in Bytes
         /\ Len(SubSeq(s, m, n)) = n - m + 1
         /\ \A i \in 1..(n - m + 1) : SubSeq(s, m, n)[i] = s[m + i - 1]
<1>1. \A i \in m..n : s[i] \in Int
  BY ElementOfSeq, Lengths DEF Bytes
<1>2. /\ SubSeq(s, m, n) \in Seq(Int)
      /\ Len(SubSeq(s, m, n)) = IF m <= n THEN n - m + 1 ELSE 0
      /\ \A i \in 1..(n - m + 1) : SubSeq(s, m, n)[i] = s[m + i - 1]
  BY <1>1, SubSeqProperties
<1> QED
  BY <1>2 DEF Bytes

LEMMA JoinIs ==
  ASSUME NEW s \in Bytes, NEW t \in Bytes
  PROVE  /\ s \o t \in Bytes
         /\ Len(s \o t) = Len(s) + Len(t)
         /\ \A i \in 1..Len(s) : (s \o t)[i] = s[i]
         /\ \A i \in 1..Len(t) : (s \o t)[Len(s) + i] = t[i]
<1>1. /\ s \o t \in Seq(Int)
      /\ Len(s \o t) = Len(s) + Len(t)
      /\ \A i \in 1..(Len(s) + Len(t)) :
           (s \o t)[i] = IF i <= Len(s) THEN s[i] ELSE t[i - Len(s)]
  BY ConcatProperties DEF Bytes
<1>2. Len(s) \in Nat /\ Len(t) \in Nat
  BY Lengths
<1>3. ASSUME NEW i \in 1..Len(t) PROVE (s \o t)[Len(s) + i] = t[i]
  <2>1. /\ Len(s) + i \in 1..(Len(s) + Len(t)) /\ ~(Len(s) + i <= Len(s))
        /\ (Len(s) + i) - Len(s) = i
    BY <1>2, <1>3
  <2> QED
    BY <1>1, <2>1
<1>4. \A i \in 1..Len(s) : (s \o t)[i] = s[i]
  BY <1>1, <1>2
<1> QED
  BY <1>1, <1>3, <1>4 DEF Bytes

LEMMA Regroup ==
  ASSUME NEW s \in Bytes, NEW t \in Bytes, NEW u \in Bytes
  PROVE  (s \o t) \o u = s \o (t \o u)
<1>1. s \in Seq(Int) /\ t \in Seq(Int) /\ u \in Seq(Int)
  BY DEF Bytes
<1> QED
  BY <1>1, ConcatAssociative, SMTT(30)

(* A byte of a whole block is within the whole blocks. *)
LEMMA InBlock ==
  ASSUME NEW q \in Nat, NEW k \in 1..q, NEW i \in 1..BlockLen
  PROVE  (k - 1) * BlockLen + i \in 1..(q * BlockLen)
<1>1. BlockLen \in Nat
  BY WordSizes
<1>2. (k - 1) * BlockLen \in Nat /\ (q - k) * BlockLen \in Nat
  BY <1>1
<1>3. q * BlockLen = (k - 1) * BlockLen + BlockLen + (q - k) * BlockLen
  BY <1>1
<1> DEFINE a == (k - 1) * BlockLen
           b == (q - k) * BlockLen
           c == q * BlockLen
<1>4. a \in Nat /\ b \in Nat /\ c = a + BlockLen + b
  BY <1>2, <1>3
<1> HIDE DEF a, b, c
<1>5. a + i \in 1..c
  BY <1>1, <1>4
<1> QED
  BY <1>5 DEF a, c

(* Blocks that are equal byte by byte. *)
LEMMA SameBlocks ==
  ASSUME NEW b \in Seq(Bytes), NEW c \in Seq(Bytes), Len(b) = Len(c),
         \A k \in 1..Len(b) :
           /\ Len(b[k]) = Len(c[k])
           /\ \A i \in 1..Len(b[k]) : b[k][i] = c[k][i]
  PROVE  b = c
<1>1. ASSUME NEW k \in 1..Len(b) PROVE b[k] = c[k]
  <2>1. b[k] \in Seq(Int) /\ c[k] \in Seq(Int)
    BY ElementOfSeq DEF Bytes
  <2> QED
    BY <2>1, SeqEqual
<1> QED
  BY <1>1, SeqEqual

(* Behind whole blocks the counting of blocks starts again. *)
LEMMA DivJoin ==
  ASSUME NEW s \in Bytes, NEW t \in Bytes, Len(s) % BlockLen = 0
  PROVE  /\ Len(s) = (Len(s) \div BlockLen) * BlockLen
         /\ Len(s \o t) \div BlockLen = Len(s) \div BlockLen + Len(t) \div BlockLen
         /\ Len(s \o t) % BlockLen = Len(t) % BlockLen
         /\ WholeLen(s \o t) = Len(s) + WholeLen(t)
<1> DEFINE p == Len(s) \div BlockLen
           q == Len(t) \div BlockLen
           r == Len(t) % BlockLen
           x == Len(s) + Len(t)
<1>1. /\ p \in Nat /\ Len(s) = p * BlockLen /\ BlockLen \in Nat \ {0}
      /\ q \in Nat /\ r \in 0..(BlockLen - 1) /\ Len(t) = q * BlockLen + r
      /\ Len(s) \in Nat /\ Len(t) \in Nat
  BY Lengths, WordSizes DEF WholeLen
<1>2. Len(s \o t) = x
  BY JoinIs
<1>3. x \in Int /\ p + q \in Int /\ x = (p + q) * BlockLen + r
  BY <1>1
<1>4. x \div BlockLen = p + q /\ x % BlockLen = r
  <2> DEFINE n == p + q
  <2>1. x \in Int /\ n \in Int /\ x = n * BlockLen + r
        /\ r \in 0..(BlockLen - 1) /\ BlockLen \in Nat \ {0}
    BY <1>1, <1>3
  <2> HIDE DEF n, p, q, r, x
  <2>2. x \div BlockLen = n /\ x % BlockLen = r
    BY <2>1, DivIs, Zenon
  <2> QED
    BY <2>2 DEF n
<1>5. WholeLen(s \o t) = (p + q) * BlockLen /\ WholeLen(t) = q * BlockLen
  BY <1>2, <1>4 DEF WholeLen
<1>6. (p + q) * BlockLen = p * BlockLen + q * BlockLen
  BY <1>1
<1> QED
  BY <1>1, <1>2, <1>4, <1>5, <1>6

(* What is behind whole blocks is cut by itself. *)
LEMMA BlocksJoin ==
  ASSUME NEW s \in Bytes, NEW t \in Bytes, Len(s) % BlockLen = 0
  PROVE  Blocks(s \o t) = Blocks(s) \o Blocks(t)
<1> DEFINE p == Len(s) \div BlockLen
           q == Len(t) \div BlockLen
           u == s \o t
           c == Blocks(s) \o Blocks(t)
<1>1. /\ p \in Nat /\ q \in Nat /\ BlockLen \in Nat /\ u \in Bytes
      /\ Len(s) = p * BlockLen /\ Len(u) \div BlockLen = p + q
  BY Lengths, WordSizes, JoinIs, DivJoin
<1> HIDE DEF u
<1>2. /\ Blocks(u) \in Seq(Bytes) /\ Len(Blocks(u)) = p + q
      /\ \A k \in 1..(p + q) :
           /\ Len(Blocks(u)[k]) = BlockLen
           /\ \A i \in 1..BlockLen : Blocks(u)[k][i] = u[(k - 1) * BlockLen + i]
  <2> DEFINE n == Len(u) \div BlockLen
  <2>1. n = p + q
    BY <1>1
  <2>2. /\ Blocks(u) \in Seq(Bytes) /\ Len(Blocks(u)) = n
        /\ \A k \in 1..n :
             /\ Len(Blocks(u)[k]) = BlockLen
             /\ \A i \in 1..BlockLen : Blocks(u)[k][i] = u[(k - 1) * BlockLen + i]
    BY <1>1, BlocksAre, Zenon
  <2> HIDE DEF n, p, q
  <2> QED
    BY <2>1, <2>2, Zenon
<1>3. /\ c \in Seq(Bytes) /\ Len(c) = p + q
      /\ \A k \in 1..(p + q) :
           c[k] = IF k <= p THEN Blocks(s)[k] ELSE Blocks(t)[k - p]
  <2>1. Blocks(s) \in Seq(Bytes) /\ Blocks(t) \in Seq(Bytes)
        /\ Len(Blocks(s)) = p /\ Len(Blocks(t)) = q
    BY BlocksAre
  <2>2. /\ c \in Seq(Bytes) /\ Len(c) = Len(Blocks(s)) + Len(Blocks(t))
        /\ \A k \in 1..(Len(Blocks(s)) + Len(Blocks(t))) :
             c[k] = IF k <= Len(Blocks(s)) THEN Blocks(s)[k]
                    ELSE Blocks(t)[k - Len(Blocks(s))]
    BY <2>1, ConcatProperties
  <2> QED
    BY <2>1, <2>2
<1>4. ASSUME NEW k \in 1..(p + q), k <= p
      PROVE  /\ Len(c[k]) = BlockLen
             /\ \A i \in 1..BlockLen : c[k][i] = u[(k - 1) * BlockLen + i]
  <2>1. k \in 1..p /\ c[k] = Blocks(s)[k]
    BY <1>1, <1>3, <1>4
  <2>2. /\ Len(Blocks(s)[k]) = BlockLen
        /\ \A i \in 1..BlockLen : Blocks(s)[k][i] = s[(k - 1) * BlockLen + i]
    BY <2>1, BlocksAre
  <2>3. \A i \in 1..BlockLen : (k - 1) * BlockLen + i \in 1..Len(s)
    BY <1>1, <2>1, InBlock
  <2>4. \A j \in 1..Len(s) : u[j] = s[j]
    BY JoinIs DEF u
  <2> HIDE DEF c, p, q
  <2> QED
    BY <2>1, <2>2, <2>3, <2>4
<1>5. ASSUME NEW k \in 1..(p + q), ~(k <= p)
      PROVE  /\ Len(c[k]) = BlockLen
             /\ \A i \in 1..BlockLen : c[k][i] = u[(k - 1) * BlockLen + i]
  <2> DEFINE h == k - p
  <2>0. \A g \in 1..q :
          /\ Len(Blocks(t)[g]) = BlockLen
          /\ \A i \in 1..BlockLen : Blocks(t)[g][i] = t[(g - 1) * BlockLen + i]
    BY BlocksAre, Zenon
  <2>3. q * BlockLen <= Len(t) /\ q * BlockLen \in Nat /\ Len(t) \in Nat
    BY Lengths DEF WholeLen
  <2>5. \A j \in 1..Len(t) : u[Len(s) + j] = t[j]
    BY JoinIs DEF u
  <2> HIDE DEF c, p, q
  <2>1. h \in 1..q /\ c[k] = Blocks(t)[h] /\ k - 1 = p + (h - 1)
    <3>1. h \in 1..q /\ k - 1 = p + (h - 1)
      BY <1>1, <1>5
    <3> QED
      BY <3>1, <1>3, <1>5
  <2> HIDE DEF h
  <2>2. /\ Len(Blocks(t)[h]) = BlockLen
        /\ \A i \in 1..BlockLen : Blocks(t)[h][i] = t[(h - 1) * BlockLen + i]
    BY <2>0, <2>1, Zenon
  <2>4. ASSUME NEW i \in 1..BlockLen
        PROVE  /\ (h - 1) * BlockLen + i \in 1..Len(t)
               /\ (k - 1) * BlockLen + i = Len(s) + ((h - 1) * BlockLen + i)
    <3>1. (h - 1) * BlockLen + i \in 1..(q * BlockLen)
      BY <1>1, <2>1, InBlock
    <3>2. (k - 1) * BlockLen = p * BlockLen + (h - 1) * BlockLen
      <4>1. h \in Int
        BY <1>1, <2>1
      <4> QED
        BY <1>1, <2>1, <4>1
    <3>3. (h - 1) * BlockLen \in Int /\ p * BlockLen \in Int
      BY <1>1, <2>1
    <3> DEFINE a == (h - 1) * BlockLen
               b == (k - 1) * BlockLen
               d == p * BlockLen
               e == q * BlockLen
    <3>4. /\ a \in Int /\ d \in Int /\ e \in Nat /\ b = d + a /\ a + i \in 1..e
          /\ e <= Len(t) /\ Len(s) = d
      BY <1>1, <2>3, <3>1, <3>2, <3>3
    <3> HIDE DEF a, b, d, e
    <3>5. a + i \in 1..Len(t) /\ b + i = Len(s) + (a + i)
      BY <3>4, <2>3
    <3> QED
      BY <3>5 DEF a, b
  <2>6. ASSUME NEW i \in 1..BlockLen PROVE c[k][i] = u[(k - 1) * BlockLen + i]
    <3> DEFINE a == (h - 1) * BlockLen + i
               b == (k - 1) * BlockLen + i
    <3>1. a \in 1..Len(t) /\ b = Len(s) + a /\ Blocks(t)[h][i] = t[a]
      BY <2>2, <2>4
    <3> HIDE DEF a, b
    <3>2. u[b] = t[a]
      BY <2>5, <3>1
    <3> QED
      BY <2>1, <3>1, <3>2 DEF b
  <2> QED
    BY <2>1, <2>2, <2>6
<1> HIDE DEF c, p, q
<1>6. \A k \in 1..(p + q) :
        /\ Len(c[k]) = BlockLen
        /\ \A i \in 1..BlockLen : c[k][i] = u[(k - 1) * BlockLen + i]
  BY <1>4, <1>5
<1> DEFINE b == Blocks(u)
<1>7. b \in Seq(Bytes) /\ Len(b) = Len(c)
  BY <1>2, <1>3
<1>8. \A k \in 1..Len(b) : Len(b[k]) = Len(c[k]) /\ \A i \in 1..Len(b[k]) : b[k][i] = c[k][i]
  BY <1>2, <1>6
<1> HIDE DEF b
<1>9. b = c
  BY <1>3, <1>7, <1>8, SameBlocks
<1> QED
  BY <1>9 DEF b, c, u

(* A stream is its whole blocks and what is left. *)
LEMMA SplitUp ==
  ASSUME NEW s \in Bytes
  PROVE  /\ WholePart(s) \in Bytes /\ Rest(s) \in Bytes /\ s = WholePart(s) \o Rest(s)
         /\ Len(WholePart(s)) = WholeLen(s) /\ Len(Rest(s)) = Len(s) % BlockLen
         /\ Len(WholePart(s)) % BlockLen = 0 /\ Len(WholePart(s)) \div BlockLen = Len(s) \div BlockLen
<1> DEFINE w == WholeLen(s)
           n == Len(s)
           r == n % BlockLen
           q == n \div BlockLen
<1>1. n \in Nat /\ w \in Nat /\ r \in 0..(BlockLen - 1) /\ n = w + r /\ w = q * BlockLen
      /\ q \in Nat /\ BlockLen \in Nat \ {0}
  BY Lengths, WordSizes DEF WholeLen
<1>2. WholePart(s) = SubSeq(s, 1, w) /\ Rest(s) = SubSeq(s, w + 1, n)
  BY DEF WholePart, Rest
<1> HIDE DEF w, r, q
<1>3. /\ 1 \in Int /\ w \in Int /\ 1 <= 1 /\ 1 <= w + 1 /\ w <= Len(s)
      /\ w + 1 \in Int /\ n \in Int /\ 1 <= w + 1 /\ w + 1 <= n + 1 /\ n <= Len(s)
      /\ w - 1 + 1 = w /\ n - (w + 1) + 1 = r
  BY <1>1
<1>4. SubSeq(s, 1, w) \in Bytes /\ Len(SubSeq(s, 1, w)) = w - 1 + 1
  BY <1>3, CutIs
<1>5. SubSeq(s, w + 1, n) \in Bytes /\ Len(SubSeq(s, w + 1, n)) = n - (w + 1) + 1
  BY <1>3, CutIs
<1>6. SubSeq(s, 1, w) \o SubSeq(s, w + 1, n) = SubSeq(s, 1, n)
  <2>1. 1 \in 1..(n + 1) /\ w \in 0..n /\ 1 - 1 = 0 /\ n \in w..n
    BY <1>1
  <2> QED
    BY <2>1, ConcatAdjacentSubSeq DEF Bytes
<1>7. SubSeq(s, 1, n) = s
  BY SubSeqFull DEF Bytes
<1>8. w \div BlockLen = q /\ w % BlockLen = 0
  <2>1. w \in Int /\ q \in Int /\ 0 \in 0..(BlockLen - 1) /\ w = q * BlockLen + 0
    BY <1>1
  <2> QED
    BY <1>1, <2>1, DivIs, Zenon
<1> QED
  BY <1>2, <1>3, <1>4, <1>5, <1>6, <1>7, <1>8 DEF w, r, q

(* All blocks of a stream are in its whole part. *)
LEMMA BlocksFront ==
  ASSUME NEW s \in Bytes
  PROVE  Blocks(WholePart(s)) = Blocks(s)
<1> DEFINE f == WholePart(s)
           q == Len(s) \div BlockLen
           b == Blocks(f)
           c == Blocks(s)
<1>1. /\ f \in Bytes /\ Len(f) \div BlockLen = q /\ Len(f) = WholeLen(s)
      /\ q \in Nat /\ WholeLen(s) \in Nat /\ WholeLen(s) <= Len(s) /\ WholeLen(s) = q * BlockLen
      /\ Len(s) \in Nat
  BY SplitUp, Lengths, WordSizes DEF WholeLen
<1>2. \A i \in 1..WholeLen(s) : f[i] = s[i]
  <2>1. /\ 1 \in Int /\ WholeLen(s) \in Int /\ 1 <= 1 /\ 1 <= WholeLen(s) + 1
        /\ WholeLen(s) <= Len(s) /\ WholeLen(s) - 1 + 1 = WholeLen(s)
        /\ \A i \in 1..WholeLen(s) : 1 + i - 1 = i
    BY <1>1
  <2>2. \A i \in 1..(WholeLen(s) - 1 + 1) : SubSeq(s, 1, WholeLen(s))[i] = s[1 + i - 1]
    BY <2>1, CutIs
  <2> QED
    BY <2>1, <2>2 DEF WholePart
<1>3. /\ b \in Seq(Bytes) /\ Len(b) = Len(f) \div BlockLen
      /\ \A k \in 1..(Len(f) \div BlockLen) :
           /\ Len(b[k]) = BlockLen
           /\ \A i \in 1..BlockLen : b[k][i] = f[(k - 1) * BlockLen + i]
  BY <1>1, BlocksAre, Zenon
<1>4. /\ c \in Seq(Bytes) /\ Len(c) = q
      /\ \A k \in 1..q :
           /\ Len(c[k]) = BlockLen
           /\ \A i \in 1..BlockLen : c[k][i] = s[(k - 1) * BlockLen + i]
  BY BlocksAre, Zenon
<1> HIDE DEF f, q, b, c
<1>5. \A k \in 1..q : \A i \in 1..BlockLen : (k - 1) * BlockLen + i \in 1..WholeLen(s)
  BY <1>1, InBlock
<1>6. /\ Len(b) = q /\ Len(c) = q
      /\ \A k \in 1..q :
           /\ Len(b[k]) = BlockLen
           /\ \A i \in 1..BlockLen : b[k][i] = f[(k - 1) * BlockLen + i]
  BY <1>1, <1>3, <1>4, Zenon
<1>8. ASSUME NEW k \in 1..q
      PROVE  Len(b[k]) = Len(c[k]) /\ \A i \in 1..Len(b[k]) : b[k][i] = c[k][i]
  <2>1. ASSUME NEW i \in 1..BlockLen PROVE b[k][i] = c[k][i]
    <3> DEFINE j == (k - 1) * BlockLen + i
    <3>1. f[j] = s[j] /\ b[k][i] = f[j] /\ c[k][i] = s[j]
      BY <1>2, <1>4, <1>5, <1>6, Zenon
    <3> QED
      BY <3>1
  <2>2. Len(b[k]) = BlockLen /\ Len(c[k]) = BlockLen
    BY <1>4, <1>6, Zenon
  <2> QED
    BY <2>1, <2>2, Zenon
<1>7. Len(b) = Len(c) /\ \A k \in 1..Len(b) :
        Len(b[k]) = Len(c[k]) /\ \A i \in 1..Len(b[k]) : b[k][i] = c[k][i]
  BY <1>6, <1>8, Zenon
<1> QED
  BY <1>3, <1>4, <1>7, SameBlocks DEF b, c, f

(* What is left behind whole blocks is left of what follows them. *)
LEMMA RestJoin ==
  ASSUME NEW s \in Bytes, NEW t \in Bytes, Len(s) % BlockLen = 0
  PROVE  Rest(s \o t) = Rest(t)
<1> DEFINE u == s \o t
           n == Len(t)
           m == Len(s)
           l == m + n
           a == WholeLen(t) + 1
           b == WholeLen(u) + 1
           v == SubSeq(t, a, n)
           w == SubSeq(u, b, l)
<1>1. /\ u \in Bytes /\ Len(u) = l /\ WholeLen(u) = m + WholeLen(t)
      /\ \A i \in 1..n : u[m + i] = t[i]
  BY JoinIs, DivJoin
<1>2. WholeLen(t) \in Nat /\ WholeLen(t) <= n /\ n \in Nat /\ m \in Nat
  BY Lengths
<1>3. Rest(t) = v /\ Rest(u) = w
  BY <1>1 DEF Rest
<1>4. /\ a \in Int /\ n \in Int /\ 1 <= a /\ a <= n + 1 /\ n <= Len(t)
      /\ b \in Int /\ l \in Int /\ 1 <= b /\ b <= l + 1 /\ l <= Len(u)
      /\ b = m + a /\ l = m + n /\ n \in Nat /\ m \in Nat
  BY <1>1, <1>2
<1> HIDE DEF u, a, b, n, m, l
<1>5. /\ v \in Bytes /\ Len(v) = n - a + 1
      /\ \A i \in 1..(n - a + 1) : v[i] = t[a + i - 1]
  <2>1. /\ t \in Bytes /\ a \in Int /\ n \in Int /\ 1 <= a /\ a <= n + 1 /\ n <= Len(t)
    BY <1>4
  <2> QED
    BY <2>1, CutIs
<1>6. /\ w \in Bytes /\ Len(w) = l - b + 1
      /\ \A i \in 1..(l - b + 1) : w[i] = u[b + i - 1]
  BY <1>1, <1>4, CutIs
<1>7. l - b + 1 = n - a + 1
  BY <1>4
<1>8. ASSUME NEW i \in 1..(n - a + 1)
      PROVE  u[b + i - 1] = t[a + i - 1]
  <2>1. b + i - 1 = m + (a + i - 1) /\ a + i - 1 \in 1..n
    BY <1>4, <1>8
  <2> QED
    BY <1>1, <2>1
<1> HIDE DEF v, w
<1>9. /\ v \in Seq(Int) /\ w \in Seq(Int) /\ Len(v) = Len(w)
      /\ \A i \in 1..Len(w) : w[i] = v[i]
  <2> DEFINE k == n - a + 1
  <2>1. Len(v) = k /\ Len(w) = k /\ v \in Seq(Int) /\ w \in Seq(Int)
    BY <1>5, <1>6, <1>7 DEF Bytes
  <2>2. \A i \in 1..k : w[i] = u[b + i - 1] /\ v[i] = t[a + i - 1]
    BY <1>5, <1>6, <1>7
  <2>3. \A i \in 1..k : w[i] = v[i]
    BY <2>2, <1>8, Zenon
  <2> HIDE DEF k
  <2> QED
    BY <2>1, <2>3
<1>10. w = v
  BY <1>9, SeqEqual
<1> QED
  BY <1>3, <1>10 DEF u

-----------------------------------------------------------------------------
(***************************************************************************)
(* init.                                                                   *)
(***************************************************************************)
DigestObject == [count : Nat \X Nat, state : Seq(Bytes), buffer : Bytes, finished : BOOLEAN]

(* m is what an object is that has read s. *)
Fed(m, s) ==
  /\ m \in DigestObject /\ Len(m.buffer) = BlockLen
  /\ m.count = CountOf(Len(s))
  /\ m.state = Blocks(s)
  /\ SubSeq(m.buffer, 1, Len(s) % BlockLen) = Rest(s)

(* What init works on, and what the buffer holds behind the rest.          *)
Stream(s, input) == Rest(s) \o input
Under(m, s, input) ==
  IF Blocks(Stream(s, input)) = <<>> THEN m.buffer ELSE Blocks(Stream(s, input))[1]

(* The stream of init continues the message where its whole blocks end. *)
LEMMA StreamIs ==
  ASSUME NEW s \in Bytes, NEW input \in Bytes
  PROVE  /\ Stream(s, input) \in Bytes
         /\ Len(Stream(s, input)) = (Len(s) % BlockLen) + Len(input)
         /\ s \o input \in Bytes
         /\ s \o input = WholePart(s) \o Stream(s, input)
         /\ Blocks(s \o input) = Blocks(s) \o Blocks(Stream(s, input))
         /\ Rest(s \o input) = Rest(Stream(s, input))
         /\ Len(s \o input) % BlockLen = Len(Stream(s, input)) % BlockLen
<1> DEFINE f == WholePart(s)
           r == Rest(s)
<1>1. /\ f \in Bytes /\ r \in Bytes /\ s = f \o r
      /\ Len(r) = Len(s) % BlockLen /\ Len(f) % BlockLen = 0
  BY SplitUp
<1>2. r \o input \in Bytes /\ Len(r \o input) = Len(r) + Len(input) /\ s \o input \in Bytes
  BY <1>1, JoinIs
<1>3. s \o input = f \o (r \o input)
  <2> HIDE DEF f, r
  <2>0. f \in Bytes /\ r \in Bytes /\ input \in Bytes
    BY <1>1
  <2>1. (f \o r) \o input = f \o (r \o input)
    BY <2>0, Regroup
  <2> QED
    BY <1>1, <2>1
<1>4. Blocks(f) = Blocks(s)
  BY BlocksFront
<1> HIDE DEF f, r
<1> DEFINE t == r \o input
<1>5. /\ Blocks(f \o t) = Blocks(f) \o Blocks(t)
      /\ Rest(f \o t) = Rest(t)
      /\ Len(f \o t) % BlockLen = Len(t) % BlockLen
  BY <1>1, <1>2, BlocksJoin, RestJoin, DivJoin
<1>6. Stream(s, input) = t
  BY DEF Stream, r
<1> HIDE DEF t
<1> QED
  BY <1>1, <1>2, <1>3, <1>4, <1>5, <1>6 DEF f, t

(* What init makes of an object, in terms of that stream. *)
LEMMA InitIs ==
  ASSUME NEW m, NEW s \in Bytes, NEW input \in Bytes, Fed(m, s)
  PROVE  /\ init(m, input).count = CountOf(Len(s) + Len(input))
         /\ init(m, input).state = Blocks(s) \o Blocks(Stream(s, input))
         /\ init(m, input).finished = FALSE
         /\ init(m, input).buffer =
              Rest(Stream(s, input)) \o
              SubSeq(Under(m, s, input), Len(Rest(Stream(s, input))) + 1, BlockLen)
         /\ init(m, input) =
              [count |-> init(m, input).count, state |-> init(m, input).state,
               buffer |-> init(m, input).buffer, finished |-> init(m, input).finished]
<1> DEFINE stream == SubSeq(m.buffer, 1, Index(m)) \o input
           blocks == Blocks(stream)
           rest == SubSeq(stream, Len(blocks) * BlockLen + 1, Len(stream))
           below == IF blocks = <<>> THEN m.buffer ELSE blocks[1]
<1>1. init(m, input) =
        [count |-> AddBits(m.count, Len(input)), state |-> m.state \o blocks,
         buffer |-> rest \o SubSeq(below, Len(rest) + 1, BlockLen),
         finished |-> FALSE]
  BY DEF init
<1>2. Len(s) \in Nat /\ Len(input) \in Nat
  BY Lengths
<1>3. Index(m) = Len(s) % BlockLen
  BY <1>2, IndexIs DEF Fed
<1>4. stream = Stream(s, input)
  BY <1>3 DEF Fed, Stream
<1>5. Len(blocks) = Len(stream) \div BlockLen
  BY <1>4, StreamIs, BlocksAre
<1>6. rest = Rest(stream)
  BY <1>5 DEF Rest, WholeLen
<1>7. below = Under(m, s, input)
  BY <1>4 DEF Under
<1>8. AddBits(m.count, Len(input)) = CountOf(Len(s) + Len(input))
  BY <1>2, Counting DEF Fed
<1>9. m.state = Blocks(s)
  BY DEF Fed
<1> HIDE DEF blocks, rest, below
<1> DEFINE b == rest \o SubSeq(below, Len(rest) + 1, BlockLen)
           c == AddBits(m.count, Len(input))
           a == m.state \o blocks
<1>10. init(m, input) = [count |-> c, state |-> a, buffer |-> b, finished |-> FALSE]
  BY <1>1
<1> HIDE DEF a, b, c
<1>11. /\ init(m, input).count = c /\ init(m, input).state = a
       /\ init(m, input).buffer = b /\ init(m, input).finished = FALSE
  BY <1>10
<1> QED
  BY <1>4, <1>6, <1>7, <1>8, <1>9, <1>10, <1>11 DEF a, b, c, blocks

(* What init leaves below the rest in the buffer is as long as a block. *)
LEMMA UnderIs ==
  ASSUME NEW m, NEW s \in Bytes, NEW input \in Bytes, Fed(m, s)
  PROVE  Under(m, s, input) \in Bytes /\ Len(Under(m, s, input)) = BlockLen
<1> DEFINE t == Stream(s, input)
           b == Blocks(t)
           q == Len(t) \div BlockLen
<1>1. t \in Bytes /\ q \in Nat
  BY StreamIs, Lengths
<1>2. /\ b \in Seq(Bytes) /\ Len(b) = q
      /\ \A k \in 1..q : b[k] \in Bytes /\ Len(b[k]) = BlockLen
  BY <1>1, BlocksAre, Zenon
<1>3. m.buffer \in Bytes /\ Len(m.buffer) = BlockLen
  BY DEF Fed, DigestObject
<1>4. Under(m, s, input) = IF b = <<>> THEN m.buffer ELSE b[1]
  BY DEF Under
<1> HIDE DEF t, b, q
<1>5. CASE b = <<>>
  BY <1>3, <1>4, <1>5
<1>6. CASE b # <<>>
  <2>1. q > 0
    BY <1>2, <1>6, EmptySeq
  <2> QED
    BY <1>1, <1>2, <1>4, <1>6, <2>1
<1> QED
  BY <1>5, <1>6

(* init feeds the object. *)
LEMMA FeedStep ==
  ASSUME NEW m, NEW s \in Bytes, NEW input \in Bytes, Fed(m, s)
  PROVE  Fed(init(m, input), s \o input)
<1> DEFINE u == s \o input
           t == Stream(s, input)
           x == init(m, input)
           rest == Rest(t)
           b == Under(m, s, input)
           tail == SubSeq(b, Len(rest) + 1, BlockLen)
<1>1. /\ t \in Bytes /\ u \in Bytes /\ Blocks(u) = Blocks(s) \o Blocks(t)
      /\ Rest(u) = rest /\ Len(u) % BlockLen = Len(t) % BlockLen
      /\ Len(u) = Len(s) + Len(input)
  BY StreamIs, JoinIs
<1>2. /\ x.count = CountOf(Len(s) + Len(input))
      /\ x.state = Blocks(s) \o Blocks(t)
      /\ x.finished = FALSE
      /\ x.buffer = rest \o tail
      /\ x = [count |-> x.count, state |-> x.state, buffer |-> x.buffer,
              finished |-> x.finished]
  BY InitIs
<1>3. rest \in Bytes /\ Len(rest) = Len(t) % BlockLen
      /\ Len(t) % BlockLen \in 0..(BlockLen - 1) /\ BlockLen \in Nat
  BY <1>1, SplitUp, Lengths, WordSizes
<1>4. b \in Bytes /\ Len(b) = BlockLen
  BY UnderIs
<1>5. Blocks(u) \in Seq(Bytes)
  BY <1>1, BlocksAre
<1>6. Len(u) \in Nat
  BY <1>1, Lengths
<1>10. CountOf(Len(u)) \in Nat \X Nat
  <2> DEFINE y == 8 * Len(u)
             z == y \div Modulus
  <2>1. y \in Nat /\ Modulus \in Nat \ {0}
    BY <1>6, WordSizes
  <2>2. z \in Nat /\ y % Modulus \in 0..(Modulus - 1)
    BY <2>1, DivOf, Zenon
  <2>3. z % Modulus \in 0..(Modulus - 1)
    BY <2>1, <2>2, DivOf, Zenon
  <2> HIDE DEF z, y
  <2>4. y % Modulus \in Nat /\ z % Modulus \in Nat
    BY <2>1, <2>2, <2>3
  <2> QED
    BY <2>4 DEF CountOf, y, z
<1> HIDE DEF u, t, x, rest, b
<1> DEFINE n == Len(rest)
<1>7. /\ tail \in Bytes /\ Len(tail) = BlockLen - n
  <2> DEFINE l == n + 1
  <2>1. l \in Int /\ BlockLen \in Int /\ 1 <= l /\ l <= BlockLen + 1 /\ BlockLen <= Len(b)
        /\ BlockLen - l + 1 = BlockLen - n
    BY <1>3, <1>4
  <2> HIDE DEF l
  <2>2. SubSeq(b, l, BlockLen) \in Bytes /\ Len(SubSeq(b, l, BlockLen)) = BlockLen - l + 1
    BY <1>4, <2>1, CutIs
  <2> QED
    BY <2>1, <2>2 DEF l
<1> HIDE DEF tail
<1>8. rest \o tail \in Bytes /\ Len(rest \o tail) = BlockLen
  BY <1>3, <1>7, JoinIs
<1>9. SubSeq(rest \o tail, 1, n) = rest
  <2>1. CASE n = 0
    <3>1. rest = <<>>
      BY <1>3, <2>1, EmptySeq DEF Bytes
    <3> QED
      BY <2>1, <3>1, SubSeqEmpty
  <2>2. CASE n # 0
    <3>1. 1 \in 1..Len(rest) /\ n \in 1..Len(rest)
      BY <1>3, <2>2
    <3>2. SubSeq(rest \o tail, 1, n) = SubSeq(rest, 1, n)
      BY <1>3, <1>7, <3>1, SubSeqOfConcat1 DEF Bytes
    <3> QED
      BY <1>3, <3>2, SubSeqFull DEF Bytes
  <2> QED
    BY <2>1, <2>2
<1>11. x.count = CountOf(Len(u)) /\ x.state = Blocks(u) /\ x.buffer = rest \o tail
  BY <1>1, <1>2
<1>12. x \in DigestObject
  BY <1>2, <1>5, <1>8, <1>10, <1>11 DEF DigestObject
<1>13. SubSeq(x.buffer, 1, Len(u) % BlockLen) = Rest(u)
  BY <1>1, <1>3, <1>9, <1>11
<1> QED
  BY <1>8, <1>11, <1>12, <1>13 DEF Fed, x, u

-----------------------------------------------------------------------------
(***************************************************************************)
(* getDigest.                                                              *)
(***************************************************************************)
LEMMA PaddingIs ==
  ASSUME NEW n \in Nat
  PROVE  PADDING(n) \in Bytes /\ Len(PADDING(n)) = n
<1>1. PADDING(n) = [i \in 1..n |-> IF i = 1 THEN 128 ELSE 0]
  BY DEF PADDING
<1>2. PADDING(n) \in [1..n -> Int]
  BY <1>1
<1> QED
  BY <1>2 DEF Bytes

(* The length in bits takes LengthLen bytes. *)
LEMMA CodedIs ==
  ASSUME NEW n \in Nat
  PROVE  Coded(n) \in Bytes /\ Len(Coded(n)) = LengthLen
<1> DEFINE x == 8 * n
           y == x \div ByteSize
           z == y \div ByteSize
           w == z \div ByteSize
           bytes == <<x, y, z, w>>
<1>1. x \in Nat /\ ByteSize \in Nat \ {0}
  BY WordSizes
<1>2. y \in Nat
  BY <1>1, DivOf, Zenon
<1>3. z \in Nat
  BY <1>1, <1>2, DivOf, Zenon
<1>4. w \in Nat
  BY <1>1, <1>3, DivOf, Zenon
<1>5. Coded(n) = [i \in 1..4 |-> bytes[i] % ByteSize]
  BY DEF Coded, LengthLen
<1> HIDE DEF x, y, z, w
<1>6. \A i \in 1..4 : bytes[i] \in Nat
  BY <1>1, <1>2, <1>3, <1>4
<1> HIDE DEF bytes
<1>7. \A i \in 1..4 : bytes[i] % ByteSize \in Int
  BY <1>1, <1>6
<1>8. Coded(n) \in [1..4 -> Int]
  BY <1>5, <1>7
<1> DEFINE c == Coded(n)
<1> HIDE DEF c
<1>9. c \in [1..4 -> Int]
  BY <1>8 DEF c
<1>10. c \in Seq(Int) /\ Len(c) = 4
  <2>1. \A k \in Nat : \A b \in [1..k -> Int] : b \in Seq(Int) /\ Len(b) = k
    OBVIOUS
  <2> QED
    BY <1>9, <2>1
<1> QED
  BY <1>10 DEF Bytes, LengthLen, c

(* The padding that the place in the buffer needs is 128 and the fewest    *)
(* zeros that do.                                                          *)
Zeros(n) == CHOOSE z \in 0..(BlockLen - 1) : (n + 1 + z + LengthLen) % BlockLen = 0

LEMMA PadLenIs ==
  ASSUME NEW m, NEW n \in Nat, m.count = CountOf(n)
  PROVE  /\ padLen(m) = 1 + Zeros(n) /\ padLen(m) \in Nat
         /\ (n + padLen(m) + LengthLen) % BlockLen = 0
         /\ (n % BlockLen) + padLen(m) + LengthLen =
              IF n % BlockLen < BlockLen - LengthLen THEN BlockLen ELSE 2 * BlockLen
<1> DEFINE q == n \div BlockLen
           r == n % BlockLen
           p == padLen(m)
           z == p - 1
<1>1. Index(m) = r
  BY IndexIs
<1>2. /\ q \in Nat /\ r \in 0..(BlockLen - 1) /\ n = q * BlockLen + r
      /\ BlockLen \in Nat \ {0} /\ LengthLen \in Nat /\ LengthLen < BlockLen
  BY WordSizes, DivOf
<1>3. p = (IF r < BlockLen - LengthLen THEN 0 ELSE BlockLen) + BlockLen - LengthLen - r
  BY <1>1 DEF padLen
<1> HIDE DEF q, r, p
<1>4. /\ p \in Nat /\ z \in 0..(BlockLen - 1)
      /\ r + p + LengthLen = IF r < BlockLen - LengthLen THEN BlockLen ELSE 2 * BlockLen
  BY <1>2, <1>3
<1>5. (n + p + LengthLen) % BlockLen = 0
  <2> DEFINE h == IF r < BlockLen - LengthLen THEN 1 ELSE 2
             x == n + p + LengthLen
             k == q + h
  <2>1. x = q * BlockLen + h * BlockLen /\ h \in Nat
    BY <1>2, <1>4
  <2> HIDE DEF h
  <2>2. x \in Int /\ k \in Int /\ 0 \in 0..(BlockLen - 1) /\ x = k * BlockLen + 0
    BY <1>2, <1>4, <2>1
  <2> HIDE DEF x, k
  <2>3. x % BlockLen = 0
    BY <1>2, <2>2, DivIs, Zenon
  <2> QED
    BY <2>3 DEF x
<1>6. (n + 1 + z + LengthLen) % BlockLen = 0
  <2>1. n + 1 + z + LengthLen = n + p + LengthLen
    BY <1>2, <1>4
  <2> QED
    BY <1>5, <2>1
<1>7. ASSUME NEW v \in 0..(BlockLen - 1), (n + 1 + v + LengthLen) % BlockLen = 0
      PROVE  v = z
  <2> DEFINE x == n + p + LengthLen
             y == n + 1 + v + LengthLen
             a == x \div BlockLen
             b == y \div BlockLen
  <2>1. x \in Nat /\ y \in Nat /\ y - x = v - z
    BY <1>2, <1>4
  <2>2. x % BlockLen = 0 /\ y % BlockLen = 0
    BY <1>5, <1>7
  <2>3. /\ a \in Nat /\ x = a * BlockLen + (x % BlockLen)
        /\ b \in Nat /\ y = b * BlockLen + (y % BlockLen)
    BY <1>2, <2>1, DivOf, Zenon
  <2> HIDE DEF x, y, a, b
  <2>4. x = a * BlockLen /\ y = b * BlockLen
    BY <1>2, <2>2, <2>3
  <2>5. v - z = (b - a) * BlockLen
    BY <1>2, <2>1, <2>3, <2>4
  <2>6. v - z < BlockLen /\ v - z > -BlockLen
    BY <1>2, <1>4
  <2>7. CASE b - a >= 1
    <3>1. (b - a) * BlockLen >= BlockLen
      BY <1>2, <2>3, <2>7
    <3> QED
      BY <2>5, <2>6, <3>1, <1>2, <1>4
  <2>8. CASE b - a <= -1
    <3>1. (b - a) * BlockLen <= -BlockLen
      BY <1>2, <2>3, <2>8
    <3> QED
      BY <2>5, <2>6, <3>1, <1>2, <1>4
  <2>9. CASE b = a
    BY <1>2, <1>4, <2>3, <2>5, <2>9
  <2> QED
    BY <2>3, <2>7, <2>8, <2>9
<1> HIDE DEF z
<1>8. Zeros(n) = z
  BY <1>4, <1>6, <1>7, Zenon DEF Zeros
<1>9. p = 1 + z
  BY <1>4 DEF z
<1> QED
  BY <1>4, <1>5, <1>8, <1>9 DEF p, r

(* Less than a block, and a block. *)
LEMMA ShortStream ==
  ASSUME NEW t \in Bytes, Len(t) < BlockLen
  PROVE  Blocks(t) = <<>> /\ Rest(t) = t
<1> DEFINE n == Len(t)
           b == Blocks(t)
<1>1. n \in Nat /\ BlockLen \in Nat \ {0}
  BY Lengths, WordSizes
<1>2. n \div BlockLen = 0
  <2> HIDE DEF n
  <2>1. n \in Int /\ 0 \in Int /\ n \in 0..(BlockLen - 1) /\ n = 0 * BlockLen + n
    BY <1>1 DEF n
  <2> QED
    BY <1>1, <2>1, DivIs, Zenon
<1>3. b \in Seq(Bytes) /\ Len(b) = 0
  BY <1>2, BlocksAre
<1>4. Blocks(t) = <<>>
  BY <1>3, EmptySeq
<1>5. WholeLen(t) = 0
  BY <1>1, <1>2 DEF WholeLen
<1>6. Rest(t) = SubSeq(t, 1, Len(t))
  BY <1>5 DEF Rest
<1> QED
  BY <1>4, <1>6, SubSeqFull DEF Bytes

(* A stream as long as a block is that block. *)
LEMMA OneBlock ==
  ASSUME NEW t \in Bytes, Len(t) = BlockLen
  PROVE  Blocks(t) # <<>> /\ Blocks(t)[1] = t /\ Rest(t) = <<>>
<1> DEFINE n == Len(t)
           b == Blocks(t)
           c == Blocks(t)[1]
<1>1. n \in Nat /\ BlockLen \in Nat \ {0} /\ n = BlockLen
  BY Lengths, WordSizes
<1>2. n \div BlockLen = 1
  <2> HIDE DEF n
  <2>1. n \in Int /\ 1 \in Int /\ 0 \in 0..(BlockLen - 1) /\ n = 1 * BlockLen + 0
    BY <1>1
  <2> QED
    BY <1>1, <2>1, DivIs, Zenon
<1>3. /\ b \in Seq(Bytes) /\ Len(b) = 1
      /\ \A k \in 1..1 :
           /\ b[k] \in Bytes /\ Len(b[k]) = BlockLen
           /\ \A i \in 1..BlockLen : b[k][i] = t[(k - 1) * BlockLen + i]
  BY <1>2, BlocksAre
<1>4. /\ c \in Bytes /\ Len(c) = BlockLen
      /\ \A i \in 1..BlockLen : c[i] = t[(1 - 1) * BlockLen + i]
  BY <1>3
<1>5. \A i \in 1..BlockLen : (1 - 1) * BlockLen + i = i
  BY <1>1
<1> HIDE DEF c, b
<1>6. c = t
  <2>1. \A i \in 1..Len(c) : c[i] = t[i]
    BY <1>4, <1>5
  <2> QED
    BY <1>1, <1>4, <2>1, SeqEqual DEF Bytes
<1>7. b # <<>>
  <2>1. Len(b) # Len(<<>>)
    BY <1>3, EmptySeq
  <2> QED
    BY <2>1
<1>8. WholeLen(t) = Len(t)
  BY <1>1, <1>2 DEF WholeLen
<1>9. Rest(t) = SubSeq(t, Len(t) + 1, Len(t))
  BY <1>8 DEF Rest
<1>10. Rest(t) = <<>>
  BY <1>1, <1>9, SubSeqEmpty
<1> QED
  BY <1>6, <1>7, <1>10 DEF b, c

(* The beginning of two joined sequences. *)
LEMMA BeginJoined ==
  ASSUME NEW s \in Bytes, NEW t \in Bytes
  PROVE  SubSeq(s \o t, 1, Len(s)) = s
<1>1. Len(s) \in Nat
  BY Lengths
<1>2. CASE Len(s) = 0
  <2>1. s = <<>>
    BY <1>2, EmptySeq DEF Bytes
  <2> QED
    BY <1>2, <2>1, SubSeqEmpty
<1>3. CASE Len(s) # 0
  <2>1. 1 \in 1..Len(s) /\ Len(s) \in 1..Len(s)
    BY <1>1, <1>3
  <2>2. SubSeq(s \o t, 1, Len(s)) = SubSeq(s, 1, Len(s))
    BY <2>1, SubSeqOfConcat1 DEF Bytes
  <2> QED
    BY <2>2, SubSeqFull DEF Bytes
<1> QED
  BY <1>2, <1>3

(* Behind the padding that fits into the block, the buffer still begins    *)
(* with the rest of the message.                                           *)
LEMMA BufferKept ==
  ASSUME NEW m, NEW s \in Bytes, Fed(m, s), NEW p \in Bytes, NEW e \in Bytes,
         (Len(s) % BlockLen) + Len(p) + Len(e) = BlockLen, Len(e) > 0
  PROVE  SubSeq(init(init(m, p), e).buffer, 1, Len(s) % BlockLen) = Rest(s)
<1> DEFINE r == Rest(s)
           t == r \o p
           u == t \o e
           n == init(m, p)
           b == init(n, e).buffer
<1>1. r \in Bytes /\ Len(r) = Len(s) % BlockLen
  BY SplitUp
<1>2. /\ t \in Bytes /\ Len(t) = Len(r) + Len(p)
      /\ u \in Bytes /\ Len(u) = Len(t) + Len(e)
  BY <1>1, JoinIs
<1>3. Len(r) \in Nat /\ Len(p) \in Nat /\ Len(e) \in Nat /\ BlockLen \in Nat
  BY <1>1, Lengths, WordSizes
<1>4. Len(t) < BlockLen /\ Len(u) = BlockLen
  BY <1>1, <1>2, <1>3
<1>5. Stream(s, p) = t /\ s \o p \in Bytes /\ Rest(s \o p) = Rest(t)
  BY StreamIs DEF Stream
<1>6. Rest(t) = t
  BY <1>2, <1>4, ShortStream
<1>7. Stream(s \o p, e) = u
  BY <1>5, <1>6 DEF Stream
<1>8. Blocks(u) # <<>> /\ Blocks(u)[1] = u /\ Rest(u) = <<>>
  BY <1>2, <1>4, OneBlock
<1>9. Fed(n, s \o p)
  BY FeedStep
<1> HIDE DEF n, b, u
<1>10. b = Rest(u) \o SubSeq(Under(n, s \o p, e), Len(Rest(u)) + 1, BlockLen)
  <2> DEFINE w == s \o p
  <2>1. w \in Bytes /\ Fed(n, w) /\ Stream(w, e) = u
    BY <1>5, <1>7, <1>9
  <2> HIDE DEF w
  <2>2. init(n, e).buffer =
          Rest(Stream(w, e)) \o SubSeq(Under(n, w, e), Len(Rest(Stream(w, e))) + 1, BlockLen)
    BY <2>1, InitIs, Zenon
  <2> QED
    BY <2>1, <2>2 DEF b, w
<1>11. Under(n, s \o p, e) = u
  BY <1>7, <1>8 DEF Under
<1>12. b = <<>> \o SubSeq(u, 1, Len(u))
  <2>1. Len(Rest(u)) = 0 /\ 0 + 1 = 1
    BY <1>8, EmptySeq
  <2> QED
    BY <1>4, <1>8, <1>10, <1>11, <2>1
<1>13. b = u
  BY <1>2, <1>12, SubSeqFull, ConcatEmptySeq DEF Bytes
<1>15. SubSeq(u, 1, Len(r)) = r
  <2>0. u = r \o (p \o e)
    <3> HIDE DEF r
    <3>1. (r \o p) \o e = r \o (p \o e)
      BY <1>1, Regroup
    <3> QED
      BY <3>1 DEF u
  <2>1. p \o e \in Bytes
    BY JoinIs
  <2> QED
    BY <1>1, <2>0, <2>1, BeginJoined
<1> HIDE DEF b, u, r, t, n
<1> QED
  BY <1>1, <1>13, <1>15 DEF b, r, n

(* An object of whose buffer anything is left has read a message of the    *)
(* same length.                                                            *)
LEMMA StateRestored ==
  ASSUME NEW m, NEW s \in Bytes, Fed(m, s), NEW b \in Bytes, Len(b) = BlockLen
  PROVE  \E t \in Bytes :
           /\ Len(t) = Len(s)
           /\ Fed([count |-> m.count, state |-> m.state, buffer |-> b, finished |-> FALSE], t)
           /\ SubSeq(b, 1, Len(s) % BlockLen) = Rest(s) => t = s
<1> DEFINE r == Len(s) % BlockLen
           c == SubSeq(b, 1, r)
           f == WholePart(s)
           t == f \o c
           x == [count |-> m.count, state |-> m.state, buffer |-> b, finished |-> FALSE]
<1>1. /\ f \in Bytes /\ Len(f) % BlockLen = 0 /\ s = f \o Rest(s)
      /\ Len(f) = WholeLen(s) /\ Len(s) = WholeLen(s) + r
      /\ r \in 0..(BlockLen - 1) /\ BlockLen \in Nat /\ WholeLen(s) \in Nat
  BY SplitUp, Lengths, WordSizes
<1>2. c \in Bytes /\ Len(c) = r
  <2> HIDE DEF r
  <2>1. 1 \in Int /\ r \in Int /\ 1 <= 1 /\ 1 <= r + 1 /\ r <= Len(b) /\ r - 1 + 1 = r
    BY <1>1
  <2>2. SubSeq(b, 1, r) \in Bytes /\ Len(SubSeq(b, 1, r)) = r - 1 + 1
    BY <2>1, CutIs
  <2> QED
    BY <2>1, <2>2
<1> HIDE DEF f, c, r
<1>3. Blocks(c) = <<>> /\ Rest(c) = c
  BY <1>1, <1>2, ShortStream
<1>4. t \in Bytes /\ Len(t) = Len(s)
  BY <1>1, <1>2, JoinIs
<1>5. Blocks(t) = Blocks(f) \o <<>> /\ Rest(t) = c
  <2>1. Blocks(f \o c) = Blocks(f) \o Blocks(c)
    BY <1>1, <1>2, BlocksJoin
  <2>2. Rest(f \o c) = Rest(c)
    BY <1>1, <1>2, RestJoin
  <2> QED
    BY <1>3, <2>1, <2>2
<1>6. Blocks(f) = Blocks(s) /\ Blocks(s) \in Seq(Bytes)
  BY BlocksFront, BlocksAre DEF f
<1>7. Blocks(t) = m.state
  BY <1>5, <1>6, ConcatEmptySeq DEF Fed
<1>8. Fed(x, t)
  <2>1. x \in DigestObject /\ Len(x.buffer) = BlockLen /\ x.count = m.count /\ x.state = m.state
        /\ x.buffer = b
    BY DEF Fed, DigestObject
  <2>2. m.count = CountOf(Len(t))
    BY <1>4 DEF Fed
  <2>3. SubSeq(x.buffer, 1, Len(t) % BlockLen) = Rest(t)
    BY <1>4, <1>5, <2>1 DEF c, r
  <2> HIDE DEF x, t
  <2> QED
    BY <1>7, <2>1, <2>2, <2>3 DEF Fed
<1>9. c = Rest(s) => t = s
  BY <1>1
<1> HIDE DEF t, x
<1> QED
  BY <1>4, <1>8, <1>9 DEF c, r, x

(* The message with its padding and its length. *)
Completed(s) == s \o PADDING(1 + Zeros(Len(s))) \o Coded(Len(s))

(* getDigest: padding and length behind the message make whole blocks, and *)
(* the object is put back.                                                 *)
LEMMA PaddedIs ==
  ASSUME NEW m, NEW s \in Bytes, Fed(m, s)
  PROVE  /\ Fed(Padded(m), Completed(s)) /\ Completed(s) \in Bytes
         /\ Padded(m).finished = FALSE
         /\ Blocks(Completed(s)) # <<>>
         /\ Len(s) % BlockLen < BlockLen - LengthLen =>
              SubSeq(Padded(m).buffer, 1, Len(s) % BlockLen) = Rest(s)
<1> DEFINE n == Len(s)
           f == [m EXCEPT !.finished = TRUE]
           p == PADDING(padLen(m))
           e == encode(m.count)
           x == init(f, p)
           w == Completed(s)
<1>1. n \in Nat /\ m.count = CountOf(n) /\ BlockLen \in Nat \ {0} /\ LengthLen = 4
      /\ LengthLen < BlockLen
  BY Lengths, WordSizes DEF Fed, LengthLen
<1>2. Fed(f, s)
  <2>1. /\ f \in DigestObject /\ f.count = m.count /\ f.state = m.state /\ f.buffer = m.buffer
    BY DEF Fed, DigestObject
  <2> HIDE DEF f
  <2> QED
    BY <2>1 DEF Fed
<1>3. /\ padLen(m) = 1 + Zeros(n) /\ padLen(m) \in Nat
      /\ (n + padLen(m) + LengthLen) % BlockLen = 0
      /\ (n % BlockLen) + padLen(m) + LengthLen =
           IF n % BlockLen < BlockLen - LengthLen THEN BlockLen ELSE 2 * BlockLen
  BY <1>1, PadLenIs
<1>4. p \in Bytes /\ Len(p) = padLen(m)
  BY <1>3, PaddingIs
<1>5. e = Coded(n) /\ e \in Bytes /\ Len(e) = LengthLen
  BY <1>1, EncodeIs, CodedIs
<1>6. w = (s \o p) \o e
  BY <1>3, <1>5 DEF Completed
<1>7. Padded(m) = init(x, e)
  BY DEF Padded
<1> HIDE DEF n, f, p, e, x
<1>8. Fed(x, s \o p)
  BY <1>2, <1>4, FeedStep DEF x
<1>9. s \o p \in Bytes /\ Len(s \o p) = n + padLen(m)
  BY <1>4, JoinIs DEF n
<1>10. Fed(init(x, e), (s \o p) \o e)
  BY <1>5, <1>8, <1>9, FeedStep
<1>11. /\ (s \o p) \o e \in Bytes
       /\ Len((s \o p) \o e) = n + padLen(m) + LengthLen
  BY <1>5, <1>9, JoinIs
<1>12. init(x, e).finished = FALSE
  <2> DEFINE v == s \o p
  <2>1. v \in Bytes /\ Fed(x, v)
    BY <1>8, <1>9
  <2> HIDE DEF v
  <2> QED
    BY <1>5, <2>1, InitIs
<1>13. n % BlockLen < BlockLen - LengthLen =>
         SubSeq(init(x, e).buffer, 1, Len(s) % BlockLen) = Rest(s)
  <2> SUFFICES ASSUME n % BlockLen < BlockLen - LengthLen
               PROVE  SubSeq(init(x, e).buffer, 1, Len(s) % BlockLen) = Rest(s)
    OBVIOUS
  <2>1. (Len(s) % BlockLen) + Len(p) + Len(e) = BlockLen /\ Len(e) > 0
    BY <1>1, <1>3, <1>4, <1>5 DEF n
  <2>2. SubSeq(init(init(f, p), e).buffer, 1, Len(s) % BlockLen) = Rest(s)
    BY <1>2, <1>4, <1>5, <2>1, BufferKept
  <2> QED
    BY <2>2 DEF x
<1> HIDE DEF w
<1>14. Blocks(w) # <<>>
  <2> DEFINE l == Len(w)
             q == l \div BlockLen
  <2>1. l \in Nat /\ l > 0 /\ l % BlockLen = 0
    BY <1>1, <1>3, <1>6, <1>11
  <2>2. q \in Nat /\ l = q * BlockLen + (l % BlockLen)
    BY <1>1, <2>1, DivOf, Zenon
  <2>3. Len(Blocks(w)) = q
    BY <1>6, <1>11, BlocksAre
  <2> HIDE DEF l, q
  <2>4. q # 0
    BY <1>1, <2>1, <2>2
  <2>5. Len(<<>>) = 0
    BY EmptySeq
  <2> QED
    BY <2>3, <2>4, <2>5
<1> QED
  BY <1>6, <1>7, <1>10, <1>11, <1>12, <1>13, <1>14 DEF w, n

(* The object has read the message, or, when its buffer was overwritten,   *)
(* another one of that length.                                             *)
DigestInv ==
  /\ message \in Bytes /\ repeated \in BOOLEAN
  /\ md.finished = FALSE
  /\ \E s \in Bytes :
       /\ Len(s) = Len(message) /\ Fed(md, s)
       /\ s = message \/ (digest # <<>> /\ Len(message) % BlockLen >= BlockLen - LengthLen)
  /\ digest # <<>> =>
       \/ digest = Blocks(Completed(message))
       \/ repeated /\ Len(message) % BlockLen >= BlockLen - LengthLen

(* An object that was just constructed has read nothing. *)
LEMMA NothingFed == Fed(NoMessage, <<>>) /\ NoMessage.finished = FALSE
<1> DEFINE b == [i \in 1..BlockLen |-> 0]
           x == NoMessage
<1>1. x = [count |-> <<0, 0>>, state |-> <<>>, buffer |-> b, finished |-> FALSE]
  BY DEF NoMessage
<1>2. BlockLen \in Nat \ {0} /\ Modulus \in Nat \ {0}
  BY WordSizes
<1>3. b \in Bytes /\ Len(b) = BlockLen
  <2>1. b \in [1..BlockLen -> Int]
    OBVIOUS
  <2>2. \A k \in Nat : \A c \in [1..k -> Int] : c \in Seq(Int) /\ Len(c) = k
    OBVIOUS
  <2> QED
    BY <1>2, <2>1, <2>2 DEF Bytes
<1>4. <<>> \in Bytes /\ Len(<<>>) = 0 /\ <<>> \in Seq(Bytes)
  BY EmptySeq DEF Bytes
<1>5. Blocks(<<>>) = <<>> /\ Rest(<<>>) = <<>>
  BY <1>2, <1>4, ShortStream
<1>6. \A d \in Nat \ {0} : 0 \div d = 0 /\ 0 % d = 0
  <2> TAKE d \in Nat \ {0}
  <2>1. 0 \in Int /\ 0 \in 0..(d - 1) /\ 0 = 0 * d + 0
    OBVIOUS
  <2> QED
    BY <2>1, DivIs, Zenon
<1>7. CountOf(Len(<<>>)) = <<0, 0>>
  BY <1>2, <1>4, <1>6 DEF CountOf
<1> HIDE DEF b
<1>8. x \in DigestObject
  BY <1>1, <1>3, <1>4 DEF DigestObject
<1>9. SubSeq(b, 1, Len(<<>>) % BlockLen) = <<>>
  BY <1>2, <1>4, <1>6, SubSeqEmpty
<1> HIDE DEF x
<1>10. x.count = <<0, 0>> /\ x.state = <<>> /\ x.buffer = b /\ x.finished = FALSE
  BY <1>1
<1> QED
  BY <1>3, <1>5, <1>7, <1>8, <1>9, <1>10 DEF Fed, x

(* Another message starts again. *)
LEMMA ConstructDigest ==
  ASSUME DigestInv, NEW len \in 1..MaxLength, MD5(len)
  PROVE  DigestInv'
<1> DEFINE t == message'
           x == init(NoMessage, t)
<1>1. md' = x /\ digest' = <<>> /\ repeated' = repeated
  BY DEF MD5
<1>2. t \in Bytes
  <2>1. t = [i \in 1..len |-> -i] /\ len \in Nat
    BY DigestAssumption DEF MD5
  <2>2. t \in [1..len -> Int]
    BY <2>1
  <2> HIDE DEF t
  <2> QED
    BY <2>1, <2>2 DEF Bytes
<1>3. <<>> \in Bytes
  BY EmptySeq DEF Bytes
<1>4. Fed(NoMessage, <<>>)
  BY NothingFed
<1> HIDE DEF t
<1>5. Fed(x, <<>> \o t) /\ x.finished = FALSE
  BY <1>2, <1>3, <1>4, FeedStep, InitIs
<1>6. <<>> \o t = t
  BY <1>2, ConcatEmptySeq DEF Bytes
<1> HIDE DEF x
<1>7. \E s \in Bytes : Len(s) = Len(t) /\ Fed(x, s) /\ s = t
  BY <1>2, <1>5, <1>6
<1>8. repeated \in BOOLEAN
  BY DEF DigestInv
<1> QED
  BY <1>1, <1>2, <1>5, <1>7, <1>8 DEF DigestInv, t

(* A digest is that of the message or one that was asked for again. *)
LEMMA GetDigest ==
  ASSUME DigestInv, getDigest
  PROVE  DigestInv'
<1>1. PICK s \in Bytes :
        /\ Len(s) = Len(message) /\ Fed(md, s)
        /\ s = message \/ (digest # <<>> /\ Len(message) % BlockLen >= BlockLen - LengthLen)
  BY DEF DigestInv
<1> DEFINE m == md
           padded == Padded(md)
           long == Len(message) % BlockLen >= BlockLen - LengthLen
           b == padded.buffer
           x == [count |-> m.count, state |-> m.state, buffer |-> b, finished |-> FALSE]
<1>2. /\ Fed(padded, Completed(s)) /\ padded.finished = FALSE
      /\ Blocks(Completed(s)) # <<>>
      /\ Len(s) % BlockLen < BlockLen - LengthLen => SubSeq(b, 1, Len(s) % BlockLen) = Rest(s)
  BY <1>1, PaddedIs
<1>3. /\ md' = [padded EXCEPT !.state = md.state, !.count = md.count]
      /\ digest' = padded.state /\ message' = message /\ repeated' = (digest # <<>>)
  BY DEF getDigest, DigestInv
<1> HIDE DEF padded
<1>4. md' = x
  <2> DEFINE a == padded.count
             c == padded.state
  <2>1. padded \in DigestObject
    BY <1>2 DEF Fed
  <2>2. padded = [count |-> a, state |-> c, buffer |-> b, finished |-> FALSE]
    BY <1>2, <2>1 DEF DigestObject
  <2> HIDE DEF a, b, c
  <2> QED
    BY <1>3, <2>2
<1>5. digest' = Blocks(Completed(s)) /\ digest' # <<>>
  BY <1>2, <1>3 DEF Fed
<1>6. b \in Bytes /\ Len(b) = BlockLen
  BY <1>2 DEF Fed, DigestObject
<1> HIDE DEF b
<1>7. PICK t \in Bytes :
        /\ Len(t) = Len(s) /\ Fed(x, t)
        /\ SubSeq(b, 1, Len(s) % BlockLen) = Rest(s) => t = s
  <2>1. s \in Bytes /\ Fed(m, s) /\ b \in Bytes /\ Len(b) = BlockLen
    BY <1>1, <1>6
  <2> HIDE DEF m
  <2>2. \E t \in Bytes :
          /\ Len(t) = Len(s)
          /\ Fed([count |-> m.count, state |-> m.state, buffer |-> b, finished |-> FALSE], t)
          /\ SubSeq(b, 1, Len(s) % BlockLen) = Rest(s) => t = s
    BY <2>1, StateRestored, Zenon
  <2> QED
    BY <2>2
<1>8. Len(message) % BlockLen \in Nat /\ BlockLen \in Nat /\ LengthLen \in Nat
  BY Lengths, WordSizes DEF DigestInv
<1>9. ~long => s = message /\ t = message
  BY <1>1, <1>2, <1>7, <1>8
<1>10. x.finished = FALSE
  OBVIOUS
<1> HIDE DEF x
<1>11. \E u \in Bytes : Len(u) = Len(message) /\ Fed(x, u) /\ (u = message \/ long)
  BY <1>1, <1>7, <1>9
<1>12. digest' = Blocks(Completed(message)) \/ (repeated' /\ long)
  BY <1>1, <1>3, <1>5
<1>13. message \in Bytes /\ repeated' \in BOOLEAN
  BY <1>3 DEF DigestInv
<1> QED
  BY <1>3, <1>4, <1>5, <1>10, <1>11, <1>12, <1>13 DEF DigestInv

(* The object has always read the message it was made for, but for what    *)
(* the padding has overwritten.                                            *)
THEOREM DigestInvariant == DigestSpec => []DigestInv
<1>1. DigestInit => DigestInv
  <2> SUFFICES ASSUME DigestInit PROVE DigestInv
    OBVIOUS
  <2>1. message = <<>> /\ md = NoMessage /\ digest = <<>> /\ repeated = FALSE
    BY DEF DigestInit
  <2>2. <<>> \in Bytes
    BY EmptySeq DEF Bytes
  <2>3. Fed(NoMessage, <<>>) /\ NoMessage.finished = FALSE
    BY NothingFed
  <2> QED
    BY <2>1, <2>2, <2>3 DEF DigestInv
<1>2. DigestInv /\ [DigestNext]_digestVars => DigestInv'
  <2> SUFFICES ASSUME DigestInv, [DigestNext]_digestVars PROVE DigestInv'
    OBVIOUS
  <2>1. CASE getDigest
    BY <2>1, GetDigest
  <2>2. ASSUME NEW len \in 1..MaxLength, MD5(len) PROVE DigestInv'
    BY <2>2, ConstructDigest
  <2>3. CASE UNCHANGED digestVars
    BY <2>3 DEF digestVars, DigestInv
  <2> QED
    BY <2>1, <2>2, <2>3 DEF DigestNext
<1> QED
  BY <1>1, <1>2, PTL DEF DigestSpec

(* The counts are within their words, and neither the buffer nor a block   *)
(* is longer or shorter than it is declared.                               *)
LEMMA DigestIsTyped == DigestInv => DigestTypeOK
<1> SUFFICES ASSUME DigestInv PROVE DigestTypeOK
  OBVIOUS
<1>1. PICK s \in Bytes : Fed(md, s)
  BY DEF DigestInv
<1> DEFINE n == Len(s)
           b == Blocks(s)
           low == (8 * n) % Modulus
           high == ((8 * n) \div Modulus) % Modulus
<1>2. n \in Nat /\ Modulus \in Nat \ {0} /\ 8 * n \in Nat
  BY Lengths, WordSizes
<1>3. low \in 0..(Modulus - 1) /\ (8 * n) \div Modulus \in Nat
  BY <1>2, DivOf, Zenon
<1>4. high \in 0..(Modulus - 1)
  BY <1>2, <1>3, DivOf, Zenon
<1>5. md.count = <<low, high>>
  BY <1>1 DEF Fed, CountOf
<1> HIDE DEF low, high
<1>6. md.count \in [1..2 -> 0..(Modulus - 1)]
  BY <1>3, <1>4, <1>5
<1>7. b \in Seq(Bytes) /\ Len(b) = n \div BlockLen
      /\ \A k \in 1..(n \div BlockLen) : Len(b[k]) = BlockLen
  BY BlocksAre
<1>8. md.state = b
  BY <1>1 DEF Fed
<1>9. DOMAIN b = 1..(n \div BlockLen)
  <2> HIDE DEF b, n
  <2> QED
    BY <1>7, LenProperties
<1> HIDE DEF b, n
<1>10. \A k \in DOMAIN md.state : Len(md.state[k]) = BlockLen
  BY <1>7, <1>8, <1>9
<1>11. Len(md.buffer) = BlockLen
  BY <1>1 DEF Fed
<1> QED
  BY <1>6, <1>10, <1>11 DEF DigestInv, DigestTypeOK

(* MD5: every first digest is that of the message, its padding and its     *)
(* length, for messages of any length and blocks of any size; only one     *)
(* that is asked for again can be another.                                 *)
THEOREM DigestsAreRight == DigestSpec => []DigestOfMessage
<1>1. DigestInv => DigestOfMessage
  BY DEF DigestInv, DigestOfMessage, Completed, Coded, Zeros
<1> QED
  BY <1>1, DigestInvariant, PTL
=============================================================================

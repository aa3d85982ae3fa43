------------------------------ MODULE SeqFacts ------------------------------
(***************************************************************************)
(* What the proofs need to know of sequences: their members, whether they  *)
(* repeat one, and what retain, append, tail and concatenation make of     *)
(* that.                                                                   *)
(***************************************************************************)
EXTENDS SeqRetain, TLAPS, FiniteSetTheorems, SequenceTheorems

(* No element of the sequence is there twice. *)
Distinct(s) == \A i, j \in 1..Len(s) : s[i] = s[j] => i = j

(* What is left when the first element is taken. *)
LEMMA TailFacts ==
  ASSUME NEW S, NEW s \in Seq(S), s # << >>
  PROVE  /\ Head(s) \in S /\ Tail(s) \in Seq(S)
         /\ Head(s) \in Members(s)
         /\ Members(s) = {Head(s)} \cup Members(Tail(s))
         /\ Distinct(s) => Distinct(Tail(s)) /\ Head(s) \notin Members(Tail(s))
         /\ Len(s) = 1 <=> Tail(s) = << >>
<1>1. /\ Len(s) \in Nat /\ Len(s) >= 1 /\ Head(s) = s[1] /\ Head(s) \in S
      /\ Tail(s) \in Seq(S) /\ Len(Tail(s)) = Len(s) - 1
      /\ \A i \in 1..Len(Tail(s)) : Tail(s)[i] = s[i + 1]
  OBVIOUS
<1>2. ASSUME NEW x \in Members(s) PROVE x \in {Head(s)} \cup Members(Tail(s))
  <2>1. PICK i \in 1..Len(s) : x = s[i]  BY DEF Members
  <2>2. CASE i = 1  BY <1>1, <2>1, <2>2
  <2>3. CASE i # 1
    <3>1. i - 1 \in 1..Len(Tail(s)) /\ Tail(s)[i - 1] = s[i]  BY <1>1, <2>3
    <3> QED  BY <2>1, <3>1 DEF Members
  <2> QED  BY <2>2, <2>3
<1>3. \A i \in 1..Len(Tail(s)) : i + 1 \in 1..Len(s) /\ i + 1 # 1  BY <1>1
<1>4. Head(s) \in Members(s) /\ Members(Tail(s)) \subseteq Members(s)
  BY <1>1, <1>3 DEF Members
<1>5. ASSUME Distinct(s) PROVE Distinct(Tail(s)) /\ Head(s) \notin Members(Tail(s))
  <2>1. Distinct(Tail(s))  BY <1>1, <1>3, <1>5 DEF Distinct
  <2>2. \A i \in 1..Len(Tail(s)) : Tail(s)[i] # Head(s)  BY <1>1, <1>3, <1>5 DEF Distinct
  <2> QED  BY <2>1, <2>2 DEF Members
<1>6. Len(s) = 1 <=> Tail(s) = << >>
  <2>1. Len(Tail(s)) = 0 <=> Tail(s) = << >>  BY <1>1, EmptySeq
  <2> QED  BY <1>1, <2>1
<1> QED  BY <1>1, <1>2, <1>4, <1>5, <1>6

(* What an appended element adds. *)
LEMMA AppendFacts ==
  ASSUME NEW S, NEW s \in Seq(S), NEW e \in S
  PROVE  /\ Append(s, e) \in Seq(S)
         /\ Members(Append(s, e)) = Members(s) \cup {e}
         /\ Distinct(s) /\ e \notin Members(s) => Distinct(Append(s, e))
<1>1. /\ Append(s, e) \in Seq(S) /\ Len(Append(s, e)) = Len(s) + 1 /\ Len(s) \in Nat
      /\ \A i \in 1..Len(s) : Append(s, e)[i] = s[i]
      /\ Append(s, e)[Len(s) + 1] = e
  OBVIOUS
<1>2. 1..(Len(s) + 1) = (1..Len(s)) \cup {Len(s) + 1}  BY <1>1
<1>3. Members(Append(s, e)) = Members(s) \cup {e}  BY <1>1, <1>2 DEF Members
<1>4. Distinct(s) /\ e \notin Members(s) => Distinct(Append(s, e))
  BY <1>1, <1>2 DEF Members, Distinct
<1> QED  BY <1>1, <1>3, <1>4

(* A prefix has nothing of its own. *)
LEMMA SubSeqFacts ==
  ASSUME NEW S, NEW s \in Seq(S), NEW n \in 0..Len(s)
  PROVE  /\ SubSeq(s, 1, n) \in Seq(S)
         /\ Members(SubSeq(s, 1, n)) \subseteq Members(s)
         /\ Distinct(s) => Distinct(SubSeq(s, 1, n))
<1>1. /\ Len(s) \in Nat /\ SubSeq(s, 1, n) \in Seq(S) /\ Len(SubSeq(s, 1, n)) = n
      /\ \A i \in 1..n : i \in 1..Len(s) /\ SubSeq(s, 1, n)[i] = s[i]
  OBVIOUS
<1> QED  BY <1>1 DEF Members, Distinct

(* The empty sequence. *)
LEMMA NoMembers == Members(<< >>) = {} /\ Distinct(<< >>)
<1>1. Len(<< >>) = 0  OBVIOUS
<1> QED  BY <1>1 DEF Members, Distinct

(* The ranks of a finite set of positions are 1, 2, ... without a gap.     *)
LEMMA RankIsBijective ==
  ASSUME NEW P, IsFiniteSet(P), P \subseteq Nat
  PROVE  /\ Cardinality(P) \in Nat
         /\ \A i \in P : Rank(P, i) \in 1..Cardinality(P)
         /\ \A i, j \in P : Rank(P, i) = Rank(P, j) => i = j
         /\ \A k \in 1..Cardinality(P) : \E i \in P : Rank(P, i) = k
<1> DEFINE Upto(i) == {j \in P : j <= i}
<1>0. Cardinality(P) \in Nat  BY FS_CardinalityType
<1>1. \A i \in P : /\ IsFiniteSet(Upto(i)) /\ Cardinality(Upto(i)) \in Nat
                  /\ Cardinality(Upto(i)) <= Cardinality(P)
  <2> TAKE i \in P
  <2>1. Upto(i) \subseteq P OBVIOUS
  <2> HIDE DEF Upto
  <2> QED BY <2>1, FS_Subset, FS_CardinalityType
<1>2. \A i \in P : Cardinality(Upto(i)) # 0
  <2> TAKE i \in P
  <2>1. i \in Upto(i) OBVIOUS
  <2> HIDE DEF Upto
  <2> QED BY <2>1, <1>1, FS_EmptySet
<1>3. ASSUME NEW i \in P, NEW j \in P, i < j PROVE Cardinality(Upto(i)) # Cardinality(Upto(j))
  <2>0. P \subseteq Int /\ i \in Int /\ j \in Int  OBVIOUS
  <2>5. \A x \in P : x <= i => x <= j  BY <1>3, <2>0
  <2>1. Upto(i) \subseteq Upto(j)  BY <2>5
  <2>4. j \in Upto(j) /\ j \notin Upto(i)  BY <1>3, <2>0
  <2>2. IsFiniteSet(Upto(j)) BY <1>1
  <2> HIDE DEF Upto
  <2>3. Upto(i) # Upto(j)  BY <2>4
  <2> QED BY <2>1, <2>2, <2>3, FS_Subset
<1>4. \A i \in P : Rank(P, i) = Cardinality(Upto(i))  BY DEF Rank
<1> HIDE DEF Upto
<1>5. \A i \in P : Rank(P, i) \in 1..Cardinality(P)  BY <1>0, <1>1, <1>2, <1>4
<1>6. \A i, j \in P : Rank(P, i) = Rank(P, j) => i = j
  <2> TAKE i, j \in P
  <2>1. i < j \/ j < i \/ i = j OBVIOUS
  <2> QED BY <1>3, <1>4, <2>1
<1>7. \A k \in 1..Cardinality(P) : \E i \in P : Rank(P, i) = k
  <2> DEFINE f == [i \in P |-> Rank(P, i)]
             R == {Rank(P, i) : i \in P}
  <2>1. f \in Bijection(P, R)
    BY <1>6 DEF Bijection, Injection, Surjection, IsInjective
  <2>2. IsFiniteSet(R) /\ Cardinality(R) = Cardinality(P)
    <3>1. ExistsBijection(P, R) BY <2>1 DEF ExistsBijection
    <3> HIDE DEF R
    <3> QED BY <3>1, FS_Bijection
  <2>3. R \subseteq 1..Cardinality(P) BY <1>5
  <2>4. IsFiniteSet(1..Cardinality(P)) /\ Cardinality(1..Cardinality(P)) = Cardinality(P)
    BY <1>0, FS_Interval
  <2> HIDE DEF R
  <2>5. R = 1..Cardinality(P) BY <2>2, <2>3, <2>4, FS_Subset
  <2> USE DEF R
  <2> QED BY <2>5
<1> QED BY <1>0, <1>5, <1>6, <1>7

(* Vec::retain keeps what it is told to keep, and repeats nothing.         *)
LEMMA RetainFacts ==
  ASSUME NEW S, NEW s \in Seq(S), NEW K
  PROVE  /\ Retain(s, K) \in Seq(S)
         /\ Members(Retain(s, K)) = Members(s) \cap K
         /\ Distinct(s) => Distinct(Retain(s, K))
<1> DEFINE P == Kept(s, K)
           n == Cardinality(P)
           nth(k) == CHOOSE i \in P : Rank(P, i) = k
           t == Retain(s, K)
<1>1. P \subseteq 1..Len(s) /\ P \subseteq Nat BY DEF Kept
<1>2. IsFiniteSet(P)
  <2>1. Len(s) \in Nat OBVIOUS
  <2>2. IsFiniteSet(1..Len(s)) BY <2>1, FS_Interval
  <2> HIDE DEF P
  <2> QED BY <2>2, <1>1, FS_Subset
<1>3. n \in Nat BY <1>1, <1>2, RankIsBijective
<1>4. \A k \in 1..n : nth(k) \in P /\ Rank(P, nth(k)) = k
  <2> HIDE DEF P
  <2> QED BY ZenonT(60), <1>1, <1>2, RankIsBijective
<1>5. t = [k \in 1..n |-> s[nth(k)]] BY DEF Retain
<1>6. \A i \in P : i \in 1..Len(s) /\ s[i] \in S /\ s[i] \in K BY DEF Kept
<1> HIDE DEF nth, P, n
<1>7. \A k \in 1..n : s[nth(k)] \in S BY <1>4, <1>6
<1>8. t \in Seq(S) /\ Len(t) = n
  BY <1>3, <1>5, <1>7
<1>9. Members(t) = Members(s) \cap K
  <2>1. ASSUME NEW x \in Members(t) PROVE x \in Members(s) \cap K
    <3>1. PICK k \in 1..n : x = s[nth(k)] BY <1>5, <1>8 DEF Members
    <3> QED BY <3>1, <1>4, <1>6 DEF Members
  <2>2. ASSUME NEW x \in Members(s), x \in K PROVE x \in Members(t)
    <3>1. PICK i \in 1..Len(s) : x = s[i] BY DEF Members
    <3>2. i \in P BY <3>1, <2>2 DEF P, Kept
    <3>3. PICK k \in 1..n : Rank(P, i) = k BY <3>2, <1>1, <1>2, RankIsBijective DEF n
    <3>5. \A a, b \in P : Rank(P, a) = Rank(P, b) => a = b
      BY <1>1, <1>2, RankIsBijective
    <3>4. nth(k) = i  BY <3>2, <3>3, <3>5, <1>4
    <3> QED BY <3>1, <3>4, <1>5, <1>8 DEF Members
  <2> QED BY <2>1, <2>2
<1>10. Distinct(s) => Distinct(t)
  <2> SUFFICES ASSUME Distinct(s), NEW i \in 1..n, NEW j \in 1..n, s[nth(i)] = s[nth(j)] PROVE i = j
    BY <1>5, <1>8 DEF Distinct
  <2>1. nth(i) = nth(j) BY <1>4, <1>6 DEF Distinct
  <2> QED BY <2>1, <1>4
<1> QED BY <1>8, <1>9, <1>10

(* One sequence after another: its length and its places.                  *)
LEMMA ConcatFacts ==
  ASSUME NEW S, NEW s \in Seq(S), NEW t \in Seq(S)
  PROVE  /\ s \o t \in Seq(S) /\ Len(s) \in Nat /\ Len(t) \in Nat
         /\ Len(s \o t) = Len(s) + Len(t)
         /\ \A i \in 1..Len(s) : (s \o t)[i] = s[i]
         /\ \A i \in 1..Len(t) : (s \o t)[Len(s) + i] = t[i]
<1>1. /\ s \o t \in Seq(S) /\ Len(s) \in Nat /\ Len(t) \in Nat /\ Len(s \o t) = Len(s) + Len(t)
      /\ \A i \in 1..(Len(s) + Len(t)) :
           (s \o t)[i] = IF i <= Len(s) THEN s[i] ELSE t[i - Len(s)]
  OBVIOUS
<1>2. \A i \in 1..Len(s) : i \in 1..(Len(s) + Len(t)) /\ i <= Len(s)  BY <1>1
<1>3. \A i \in 1..Len(t) : /\ Len(s) + i \in 1..(Len(s) + Len(t)) /\ ~(Len(s) + i <= Len(s))
                           /\ (Len(s) + i) - Len(s) = i
  BY <1>1
<1> QED  BY <1>1, <1>2, <1>3

(* Concatenation is associative; the sums have names of their own, so that *)
(* a proof may say which of them it means.                                 *)
LEMMA ConcatAssoc ==
  \A S : \A s, t, u \in Seq(S) : \A st, tu :
     st = s \o t /\ tu = t \o u => st \o u = s \o tu /\ st \o u \in Seq(S)
<1> TAKE S
<1> TAKE s, t, u \in Seq(S)
<1>1. (s \o t) \o u = s \o (t \o u)  OBVIOUS
<1>2. s \o t \in Seq(S)  BY ConcatFacts
<1>3. (s \o t) \o u \in Seq(S)  BY <1>2, ConcatFacts
<1> QED  BY <1>1, <1>3

(* << >> adds nothing.                                                     *)
LEMMA ConcatNothing ==
  ASSUME NEW S, NEW s \in Seq(S)
  PROVE  s \o << >> = s /\ << >> \o s = s
OBVIOUS

(* A sequence cut in two.                                                  *)
LEMMA CutFacts ==
  ASSUME NEW S, NEW s \in Seq(S), NEW k \in 0..Len(s)
  PROVE  LET a == SubSeq(s, 1, k)
             b == SubSeq(s, k + 1, Len(s))
         IN  /\ a \in Seq(S) /\ b \in Seq(S) /\ a \o b = s
             /\ Len(a) = k /\ Len(b) = Len(s) - k
             /\ \A i \in 1..k : a[i] = s[i]
             /\ \A i \in 1..(Len(s) - k) : b[i] = s[k + i]
             /\ k = Len(s) => a = s /\ b = << >>
<1>1. PICK n \in Nat : n = Len(s)  OBVIOUS
<1>2. k \in Nat /\ k <= n  BY <1>1
<1>3. PICK a, b : a = SubSeq(s, 1, k) /\ b = SubSeq(s, k + 1, Len(s))  OBVIOUS
<1>4. a \in Seq(S) /\ Len(a) = k /\ \A i \in 1..k : a[i] = s[i]  BY <1>1, <1>2, <1>3
<1>5. b \in Seq(S) /\ Len(b) = n - k  BY <1>1, <1>2, <1>3
<1>6. \A i \in 1..(n - k) : b[i] = s[k + i]  BY <1>1, <1>2, <1>3
<1>7. /\ a \o b \in Seq(S) /\ Len(a \o b) = Len(a) + Len(b)
      /\ \A i \in 1..Len(a) : (a \o b)[i] = a[i]
      /\ \A i \in 1..Len(b) : (a \o b)[Len(a) + i] = b[i]
  BY <1>4, <1>5, ConcatFacts
<1>8. a \o b = s
  <2>1. PICK c : c = a \o b  OBVIOUS
  <2>2. c \in Seq(S) /\ Len(c) = n
    <3>1. c \in Seq(S) /\ Len(c) = k + (n - k)  BY <1>4, <1>5, <1>7, <2>1, Zenon
    <3> QED  BY <1>2, <3>1
  <2>3. \A i \in 1..n : c[i] = s[i]
    <3> TAKE i \in 1..n
    <3>1. CASE i <= k
      <4>1. i \in 1..k  BY <1>2, <3>1
      <4> QED  BY <1>4, <1>7, <2>1, <4>1
    <3>2. CASE ~(i <= k)
      <4>1. i - k \in 1..(n - k) /\ k + (i - k) = i  BY <1>2, <3>2
      <4>2. c[k + (i - k)] = b[i - k]  BY <1>4, <1>5, <1>7, <2>1, <4>1
      <4>3. b[i - k] = s[k + (i - k)]  BY <1>6, <4>1
      <4> QED  BY <4>1, <4>2, <4>3
    <3> QED  BY <3>1, <3>2
  <2> QED  BY <1>1, <2>1, <2>2, <2>3
<1>9. k = n => a = s /\ b = << >>
  <2> HAVE k = n
  <2>1. a = s  BY <1>1, <1>4
  <2>2. Len(b) = 0  BY <1>2, <1>5
  <2> QED  BY <1>5, <2>1, <2>2, EmptySeq
<1> QED  BY <1>1, <1>3, <1>4, <1>5, <1>6, <1>8, <1>9

(* Two sequences without a common element, one after the other. *)
LEMMA ConcatDistinct ==
  ASSUME NEW S, NEW s \in Seq(S), NEW t \in Seq(S), Distinct(s), Distinct(t),
         Members(s) \cap Members(t) = {}
  PROVE  /\ s \o t \in Seq(S) /\ Distinct(s \o t)
         /\ Members(s \o t) = Members(s) \cup Members(t)
<1>1. /\ s \o t \in Seq(S) /\ Len(s) \in Nat /\ Len(t) \in Nat /\ Len(s \o t) = Len(s) + Len(t)
      /\ \A i \in 1..(Len(s) + Len(t)) :
           (s \o t)[i] = IF i <= Len(s) THEN s[i] ELSE t[i - Len(s)]
  OBVIOUS
<1>2. \A i \in 1..Len(s) : s[i] \in Members(s) /\ s[i] \notin Members(t)  BY DEF Members
<1>3. \A i \in 1..Len(t) : t[i] \in Members(t)  BY DEF Members
<1>4. Distinct(s \o t)
  <2> SUFFICES ASSUME NEW i \in 1..(Len(s) + Len(t)), NEW j \in 1..(Len(s) + Len(t)),
                      (s \o t)[i] = (s \o t)[j]
               PROVE  i = j
    BY <1>1 DEF Distinct
  <2>1. i > Len(s) => i - Len(s) \in 1..Len(t)  BY <1>1
  <2>2. j > Len(s) => j - Len(s) \in 1..Len(t)  BY <1>1
  <2>3. CASE i <= Len(s) /\ j <= Len(s)  BY <1>1, <2>3 DEF Distinct
  <2>4. CASE i > Len(s) /\ j > Len(s)
    <3>1. i - Len(s) = j - Len(s)  BY <1>1, <2>1, <2>2, <2>4 DEF Distinct
    <3> QED  BY <1>1, <3>1
  <2>5. CASE i <= Len(s) /\ j > Len(s)  BY <1>1, <1>2, <1>3, <2>2, <2>5
  <2>6. CASE i > Len(s) /\ j <= Len(s)  BY <1>1, <1>2, <1>3, <2>1, <2>6
  <2> QED  BY <1>1, <2>3, <2>4, <2>5, <2>6
<1>5. Members(s \o t) = Members(s) \cup Members(t)
  <2>1. ASSUME NEW x \in Members(s \o t) PROVE x \in Members(s) \cup Members(t)
    <3>1. PICK i \in 1..(Len(s) + Len(t)) : x = (s \o t)[i]  BY <1>1 DEF Members
    <3>2. CASE i <= Len(s)  BY <1>1, <3>1, <3>2 DEF Members
    <3>3. CASE i > Len(s)
      <4>1. i - Len(s) \in 1..Len(t) /\ x = t[i - Len(s)]  BY <1>1, <3>1, <3>3
      <4> QED  BY <4>1 DEF Members
    <3> QED  BY <1>1, <3>2, <3>3
  <2>2. ASSUME NEW x \in Members(s) PROVE x \in Members(s \o t)
    <3>1. PICK i \in 1..Len(s) : x = s[i]  BY DEF Members
    <3>2. i \in 1..Len(s \o t) /\ (s \o t)[i] = x  BY <1>1, <3>1
    <3> QED  BY <3>2 DEF Members
  <2>3. ASSUME NEW x \in Members(t) PROVE x \in Members(s \o t)
    <3>1. PICK i \in 1..Len(t) : x = t[i]  BY DEF Members
    <3>2. i + Len(s) \in 1..Len(s \o t) /\ (s \o t)[i + Len(s)] = x  BY <1>1, <3>1
    <3> QED  BY <3>2 DEF Members
  <2> QED  BY <2>1, <2>2, <2>3
<1> QED  BY <1>1, <1>4, <1>5

(* A sequence that repeats nothing has as many members as places.          *)
LEMMA DistinctCount ==
  ASSUME NEW S, NEW s \in Seq(S), Distinct(s)
  PROVE  IsFiniteSet(Members(s)) /\ Cardinality(Members(s)) = Len(s)
<1>1. Len(s) \in Nat  OBVIOUS
<1>2. IsFiniteSet(1..Len(s)) /\ Cardinality(1..Len(s)) = Len(s)  BY SMTT(30), <1>1, FS_Interval
<1> DEFINE f == [i \in 1..Len(s) |-> s[i]]
<1>3. f \in Bijection(1..Len(s), Members(s))
  BY DEF Bijection, Injection, Surjection, IsInjective, Members, Distinct
<1>4. ExistsBijection(1..Len(s), Members(s))  BY <1>3 DEF ExistsBijection
<1> QED  BY <1>2, <1>4, FS_Bijection

(* The members of distinct sequences decide which of them is longer.       *)
LEMMA MembersBoundLen ==
  ASSUME NEW S, NEW s \in Seq(S), NEW T, NEW t \in Seq(T), Distinct(s), Distinct(t),
         Members(s) \subseteq Members(t)
  PROVE  /\ Len(s) <= Len(t)
         /\ Len(s) = Len(t) <=> Members(s) = Members(t)
<1>1. IsFiniteSet(Members(s)) /\ Cardinality(Members(s)) = Len(s)  BY DistinctCount
<1>2. IsFiniteSet(Members(t)) /\ Cardinality(Members(t)) = Len(t)  BY DistinctCount
<1> QED  BY <1>1, <1>2, FS_Subset

(* The parts of a sequence that repeats nothing.                           *)
LEMMA ConcatParts ==
  ASSUME NEW S, NEW s \in Seq(S), NEW t \in Seq(S), Distinct(s \o t)
  PROVE  /\ s \o t \in Seq(S) /\ Distinct(s) /\ Distinct(t)
         /\ Members(s) \cap Members(t) = {}
         /\ Members(s \o t) = Members(s) \cup Members(t)
<1>1. /\ s \o t \in Seq(S) /\ Len(s) \in Nat /\ Len(t) \in Nat /\ Len(s \o t) = Len(s) + Len(t)
      /\ \A i \in 1..Len(s) : i \in 1..Len(s \o t) /\ (s \o t)[i] = s[i]
      /\ \A i \in 1..Len(t) : i + Len(s) \in 1..Len(s \o t) /\ (s \o t)[i + Len(s)] = t[i]
  OBVIOUS
<1>2. Distinct(s)  BY <1>1 DEF Distinct
<1>3. Distinct(t)
  <2> SUFFICES ASSUME NEW i \in 1..Len(t), NEW j \in 1..Len(t), t[i] = t[j] PROVE i = j
    BY DEF Distinct
  <2>1. i + Len(s) = j + Len(s)  BY <1>1 DEF Distinct
  <2> QED  BY <1>1, <2>1
<1>4. Members(s) \cap Members(t) = {}
  <2> SUFFICES ASSUME NEW i \in 1..Len(s), NEW j \in 1..Len(t), s[i] = t[j] PROVE FALSE
    BY DEF Members
  <2>1. i = j + Len(s)  BY <1>1 DEF Distinct
  <2> QED  BY <1>1, <2>1
<1> QED  BY <1>1, <1>2, <1>3, <1>4, ConcatDistinct
-----------------------------------------------------------------------------
Ext == INSTANCE SequencesExt

(* A set of numbers that is not empty has a least one: what stands in for  *)
(* induction here, by way of the least number for which a claim fails.     *)
LEMMA Smallest ==
  ASSUME NEW P, P \subseteq Nat, IsFiniteSet(P), P # {}
  PROVE  \E m \in P : \A i \in P : m <= i
<1>1. /\ Cardinality(P) \in Nat
      /\ \A k \in 1..Cardinality(P) : \E i \in P : Rank(P, i) = k
  BY RankIsBijective
<1>2. Cardinality(P) # 0  BY FS_EmptySet
<1>3. PICK m \in P : Rank(P, m) = 1
  <2>1. 1 \in 1..Cardinality(P)  BY <1>1, <1>2
  <2> QED  BY <1>1, <2>1
<1>4. ASSUME NEW i \in P, ~(m <= i)  PROVE FALSE
  <2> DEFINE Q == {j \in P : j <= m}
  <2>1. IsFiniteSet(Q)  BY FS_Subset
  <2>2. i \in Q /\ m \in Q /\ i # m  BY <1>4
  <2>3. Cardinality(Q) = 1  BY <1>3 DEF Rank
  <2>4. IsFiniteSet(Q \ {m}) /\ Cardinality(Q \ {m}) = Cardinality(Q) - 1
    BY <2>1, <2>2, FS_RemoveElement
  <2>5. Q \ {m} = {}  BY <2>3, <2>4, FS_EmptySet
  <2> QED  BY <2>2, <2>5
<1> QED  BY <1>3, <1>4

\* The running concatenation by which FlattenSeq is defined.
Running(seqs) ==
  CHOOSE f : f = [i \in 1..Len(seqs) |-> IF i = 1 THEN seqs[i] ELSE f[i - 1] \o seqs[i]]

(* FlattenSeq is its last value.                                           *)
LEMMA FlattenIsRunning ==
  ASSUME NEW seqs
  PROVE Ext!FlattenSeq(seqs) = IF Len(seqs) = 0 THEN seqs ELSE Running(seqs)[Len(seqs)]
BY DEF Ext!FlattenSeq, Running

\* f is a running concatenation of the first m sequences.
Runs(f, seqs, m) ==
  \A i \in 1..m : f[i] = IF i = 1 THEN seqs[i] ELSE f[i - 1] \o seqs[i]

(* There is a running concatenation: the least n without one could take    *)
(* the one of n - 1 and add a value.                                       *)
LEMMA RunsExist ==
  ASSUME NEW S, NEW seqs \in Seq(Seq(S)), NEW n \in 1..Len(seqs)
  PROVE  \E f \in [1..n -> Seq(S)] : Runs(f, seqs, n)
<1> DEFINE P == {m \in 1..Len(seqs) : ~\E f \in [1..m -> Seq(S)] : Runs(f, seqs, m)}
<1>1. Len(seqs) \in Nat /\ \A i \in 1..Len(seqs) : seqs[i] \in Seq(S)  OBVIOUS
<1>2. SUFFICES ASSUME P # {}  PROVE FALSE  OBVIOUS
<1>3. IsFiniteSet(P) /\ P \subseteq Nat
  <2>1. IsFiniteSet(1..Len(seqs))  BY <1>1, FS_Interval
  <2> QED  BY <2>1, FS_Subset
<1>4. PICK m \in P : \A i \in P : m <= i
  <2> HIDE DEF P
  <2> QED  BY <1>2, <1>3, Smallest
<1>5. m \in 1..Len(seqs) /\ ~\E f \in [1..m -> Seq(S)] : Runs(f, seqs, m)  BY <1>4
<1>6. m # 1
  <2> SUFFICES ASSUME m = 1  PROVE FALSE  OBVIOUS
  <2>1. PICK f : f = [i \in 1..1 |-> seqs[1]]  OBVIOUS
  <2>2. 1..1 = {1} /\ seqs[1] \in Seq(S)  BY <1>1, <1>5
  <2>3. f \in [1..1 -> Seq(S)] /\ f[1] = seqs[1]  BY <2>1, <2>2
  <2>4. Runs(f, seqs, 1)  BY <2>2, <2>3 DEF Runs
  <2>5. f \in [1..m -> Seq(S)] /\ Runs(f, seqs, m)  BY <2>3, <2>4
  <2> QED  BY <1>5, <2>5, Zenon
<1>7. PICK f \in [1..(m - 1) -> Seq(S)] : Runs(f, seqs, m - 1)
  <2>1. m - 1 \in 1..Len(seqs) /\ ~(m <= m - 1)  BY <1>1, <1>5, <1>6
  <2>2. m - 1 \notin P
    <3> HIDE DEF P
    <3> QED  BY <1>4, <2>1
  <2> QED  BY <2>1, <2>2
<1>12. PICK last : last = f[m - 1] \o seqs[m]  OBVIOUS
<1>8. PICK g : g = [i \in 1..m |-> IF i < m THEN f[i] ELSE last]  OBVIOUS
<1>9. m \in Nat /\ m > 1 /\ seqs[m] \in Seq(S) /\ f[m - 1] \in Seq(S)  BY <1>1, <1>5, <1>6
<1>10. g \in [1..m -> Seq(S)]
  <2>1. last \in Seq(S)  BY <1>9, <1>12
  <2>2. \A i \in 1..m : i < m => f[i] \in Seq(S)  BY <1>9
  <2> QED  BY <1>8, <2>1, <2>2
<1>11. Runs(g, seqs, m)
  <2> SUFFICES ASSUME NEW i \in 1..m
               PROVE  g[i] = IF i = 1 THEN seqs[i] ELSE g[i - 1] \o seqs[i]
    BY DEF Runs
  <2>1. CASE i = m
    <3>1. m - 1 \in 1..m /\ m - 1 < m  BY <1>9
    <3>2. m \in 1..m /\ ~(m < m)  BY <1>9
    <3>3. g[m - 1] = f[m - 1] /\ g[m] = last  BY <1>8, <3>1, <3>2
    <3>4. g[m] = g[m - 1] \o seqs[m]  BY <1>12, <3>3
    <3>5. m # 1  BY <1>9
    <3> QED  BY <2>1, <3>4, <3>5, Zenon
  <2>2. CASE i # m
    <3>1. i \in 1..(m - 1) /\ i < m /\ g[i] = f[i]  BY <1>8, <1>9, <2>2
    <3>2. i # 1 => i - 1 \in 1..m /\ i - 1 < m  BY <1>9, <3>1
    <3>3. i # 1 => g[i - 1] = f[i - 1]  BY <1>8, <3>2
    <3> QED  BY <1>7, <3>1, <3>3 DEF Runs
  <2> QED  BY <2>1, <2>2
<1> QED  BY <1>5, <1>10, <1>11

(* There is only one: the least place where two differ follows a place     *)
(* where they agree.                                                       *)
LEMMA RunsUnique ==
  ASSUME NEW seqs, NEW n \in Nat, NEW f, NEW g, Runs(f, seqs, n), Runs(g, seqs, n)
  PROVE  \A i \in 1..n : f[i] = g[i]
<1> DEFINE P == {i \in 1..n : f[i] # g[i]}
<1>2. SUFFICES ASSUME P # {}  PROVE FALSE  OBVIOUS
<1>3. IsFiniteSet(P) /\ P \subseteq Nat
  <2>1. IsFiniteSet(1..n)  BY FS_Interval
  <2> QED  BY <2>1, FS_Subset
<1>4. PICK m \in P : \A i \in P : m <= i
  <2> HIDE DEF P
  <2> QED  BY <1>2, <1>3, Smallest
<1>5. m \in 1..n /\ f[m] # g[m] /\ m \in Nat  BY <1>4
<1>6. CASE m = 1
  <2>1. f[1] = seqs[1] /\ g[1] = seqs[1]  BY <1>5, <1>6 DEF Runs
  <2> QED  BY <1>5, <1>6, <2>1
<1>7. CASE m # 1
  <2>1. m - 1 \in 1..n /\ m - 1 \notin P  BY <1>4, <1>5, <1>7
  <2>2. f[m - 1] = g[m - 1]  BY <2>1
  <2>3. f[m] = f[m - 1] \o seqs[m] /\ g[m] = g[m - 1] \o seqs[m]  BY <1>5, <1>7 DEF Runs
  <2> QED  BY <1>5, <2>2, <2>3
<1> QED  BY <1>6, <1>7

(* So the CHOOSE of its definition finds it.                               *)
LEMMA RunningFacts ==
  ASSUME NEW S, NEW seqs \in Seq(Seq(S))
  PROVE  /\ Runs(Running(seqs), seqs, Len(seqs))
         /\ \A i \in 1..Len(seqs) : Running(seqs)[i] \in Seq(S)
<1>1. CASE Len(seqs) = 0  BY <1>1 DEF Runs
<1>2. CASE Len(seqs) # 0
  <2> DEFINE n == Len(seqs)
             Whole(f) == [i \in 1..n |-> IF i = 1 THEN seqs[i] ELSE f[i - 1] \o seqs[i]]
  <2>1. n \in Nat /\ n \in 1..n  BY <1>2
  <2>2. PICK f \in [1..n -> Seq(S)] : Runs(f, seqs, n)  BY <2>1, RunsExist
  <2>3. f = Whole(f)
    <3>1. \A i \in 1..n : f[i] = Whole(f)[i]  BY <2>2 DEF Runs
    <3> QED  BY <3>1
  <2>4. Running(seqs) = Whole(Running(seqs))
    <3>1. Running(seqs) = CHOOSE g : g = Whole(g)  BY DEF Running
    <3> HIDE DEF Whole
    <3> QED  BY <2>3, <3>1
  <2>5. Runs(Running(seqs), seqs, n)
    <3>1. PICK r : r = Running(seqs)  OBVIOUS
    <3>2. r = Whole(r)  BY <2>4, <3>1
    <3>3. \A i \in 1..n : r[i] = IF i = 1 THEN seqs[i] ELSE r[i - 1] \o seqs[i]  BY <3>2
    <3> QED  BY <3>1, <3>3 DEF Runs
  <2>6. \A i \in 1..n : Running(seqs)[i] = f[i]  BY <2>1, <2>2, <2>5, RunsUnique
  <2> QED  BY <2>2, <2>5, <2>6
<1> QED  BY <1>1, <1>2

(* Nothing flattened is nothing.                                           *)
LEMMA FlattenEmpty == Ext!FlattenSeq(<< >>) = << >>
<1>1. Len(<< >>) = 0  BY EmptySeq
<1> QED  BY <1>1, FlattenIsRunning

(* Sequences of S flatten to a sequence of S.                              *)
LEMMA FlattenType ==
  ASSUME NEW S, NEW seqs \in Seq(Seq(S))
  PROVE  Ext!FlattenSeq(seqs) \in Seq(S)
<1>1. CASE Len(seqs) = 0
  <2>1. seqs = << >>  BY <1>1, EmptySeq
  <2> QED  BY <2>1, FlattenEmpty, EmptySeq
<1>2. CASE Len(seqs) # 0
  <2>1. Len(seqs) \in 1..Len(seqs)  BY <1>2
  <2>2. Running(seqs)[Len(seqs)] \in Seq(S)  BY <2>1, RunningFacts
  <2> QED  BY <1>2, <2>2, FlattenIsRunning
<1> QED  BY <1>1, <1>2

(* One sequence more is added at the end.                                  *)
LEMMA FlattenStep ==
  ASSUME NEW S, NEW seqs \in Seq(Seq(S)), NEW n \in 0..(Len(seqs) - 1)
  PROVE  /\ Ext!FlattenSeq(SubSeq(seqs, 1, n + 1)) = Ext!FlattenSeq(SubSeq(seqs, 1, n)) \o seqs[n + 1]
         /\ seqs[n + 1] \in Seq(S)
<1> DEFINE s == SubSeq(seqs, 1, n)
           t == SubSeq(seqs, 1, n + 1)
<1>1. n \in Nat /\ n + 1 \in 1..Len(seqs) /\ n + 1 # 0 /\ seqs[n + 1] \in Seq(S)  OBVIOUS
<1>2. s \in Seq(Seq(S)) /\ Len(s) = n /\ \A i \in 1..n : s[i] = seqs[i]  BY <1>1
<1>3. t \in Seq(Seq(S)) /\ Len(t) = n + 1 /\ \A i \in 1..(n + 1) : t[i] = seqs[i]  BY <1>1
<1> HIDE DEF s, t
<1>4. Ext!FlattenSeq(t) = Running(t)[n + 1]  BY <1>1, <1>3, FlattenIsRunning
<1>5. Running(t)[n + 1] = IF n + 1 = 1 THEN seqs[n + 1] ELSE Running(t)[n] \o seqs[n + 1]
  <2>1. Runs(Running(t), t, n + 1)  BY <1>3, RunningFacts
  <2>2. n + 1 \in 1..(n + 1) /\ (n + 1) - 1 = n /\ t[n + 1] = seqs[n + 1]  BY <1>1, <1>3
  <2> QED  BY <2>1, <2>2 DEF Runs
<1>6. CASE n = 0
  <2>1. s = << >>  BY <1>2, <1>6, EmptySeq
  <2>2. Ext!FlattenSeq(s) = << >>  BY <2>1, FlattenEmpty
  <2>3. << >> \o seqs[n + 1] = seqs[n + 1]
    <3>1. PICK x : x = seqs[n + 1]  OBVIOUS
    <3>2. x \in Seq(S)  BY <1>1, <3>1
    <3>3. << >> \o x = x  BY <3>2
    <3> QED  BY <3>1, <3>3
  <2>4. Ext!FlattenSeq(t) = seqs[n + 1]  BY <1>4, <1>5, <1>6
  <2>5. Ext!FlattenSeq(t) = Ext!FlattenSeq(s) \o seqs[n + 1]  BY <2>2, <2>3, <2>4, Zenon
  <2> QED  BY <1>1, <2>5 DEF s, t
<1>7. CASE n # 0
  <2>1. Runs(Running(s), s, n)  BY <1>2, RunningFacts
  <2>2. Runs(Running(t), s, n)
    <3>1. Runs(Running(t), t, n + 1)  BY <1>3, RunningFacts
    <3>2. \A i \in 1..n : i \in 1..(n + 1) /\ t[i] = s[i]
      <4>1. \A i \in 1..n : i \in 1..(n + 1)  BY <1>1
      <4> QED  BY <1>2, <1>3, <4>1, Zenon
    <3>3. PICK f : f = Running(t)  OBVIOUS
    <3>4. \A i \in 1..(n + 1) : f[i] = IF i = 1 THEN t[i] ELSE f[i - 1] \o t[i]
      BY <3>1, <3>3 DEF Runs
    <3>5. \A i \in 1..n : f[i] = IF i = 1 THEN s[i] ELSE f[i - 1] \o s[i]
      <4> TAKE i \in 1..n
      <4>1. f[i] = IF i = 1 THEN t[i] ELSE f[i - 1] \o t[i]  BY <3>2, <3>4
      <4>2. t[i] = s[i]  BY <3>2
      <4> QED  BY <4>1, <4>2, Zenon
    <3> QED  BY <3>3, <3>5 DEF Runs
  <2>3. n \in 1..n  BY <1>1, <1>7
  <2>4. Running(s)[n] = Running(t)[n]
    <3>1. \A i \in 1..n : Running(s)[i] = Running(t)[i]
      <4>1. n \in Nat  BY <1>1
      <4>2. PICK f, g : f = Running(s) /\ g = Running(t)  OBVIOUS
      <4>3. Runs(f, s, n) /\ Runs(g, s, n)  BY <2>1, <2>2, <4>2
      <4>4. \A i \in 1..n : f[i] = g[i]  BY <4>1, <4>3, RunsUnique
      <4> QED  BY <4>2, <4>4
    <3> QED  BY <2>3, <3>1, Zenon
  <2>5. Ext!FlattenSeq(s) = Running(s)[n]  BY <1>2, <1>7, FlattenIsRunning
  <2>6. n + 1 # 1  BY <1>1, <1>7
  <2>7. Ext!FlattenSeq(t) = Ext!FlattenSeq(s) \o seqs[n + 1]  BY <1>4, <1>5, <2>4, <2>5, <2>6
  <2> QED  BY <1>1, <2>7 DEF s, t
<1> QED  BY <1>6, <1>7

(* The same for a sequence that is appended.                               *)
LEMMA FlattenAppend ==
  ASSUME NEW S, NEW seqs \in Seq(Seq(S)), NEW x \in Seq(S)
  PROVE  /\ Ext!FlattenSeq(Append(seqs, x)) = Ext!FlattenSeq(seqs) \o x
         /\ Append(seqs, x) \in Seq(Seq(S))
<1> DEFINE n == Len(seqs)
<1>1. PICK t : t = Append(seqs, x)  OBVIOUS
<1>2. t \in Seq(Seq(S)) /\ Len(t) = n + 1 /\ t[n + 1] = x /\ n \in Nat /\ n \in 0..(Len(t) - 1)
  BY <1>1
<1>3. SubSeq(t, 1, n + 1) = t  BY <1>2
<1>4. SubSeq(t, 1, n) = seqs
  <2>1. \A i \in 1..n : t[i] = seqs[i]  BY <1>1
  <2>2. SubSeq(t, 1, n) \in Seq(Seq(S)) /\ Len(SubSeq(t, 1, n)) = n
        /\ \A i \in 1..n : SubSeq(t, 1, n)[i] = t[i]
    BY <1>2
  <2> QED  BY <2>1, <2>2
<1>5. Ext!FlattenSeq(SubSeq(t, 1, n + 1)) = Ext!FlattenSeq(SubSeq(t, 1, n)) \o t[n + 1]
  BY <1>2, FlattenStep
<1> QED  BY <1>1, <1>2, <1>3, <1>4, <1>5

(* What comes first stays in front.                                        *)
LEMMA FlattenPrefix ==
  ASSUME NEW S, NEW seqs \in Seq(Seq(S)), NEW m \in 0..Len(seqs), NEW n \in m..Len(seqs)
  PROVE  LET s == Ext!FlattenSeq(SubSeq(seqs, 1, m))
             t == Ext!FlattenSeq(SubSeq(seqs, 1, n))
         IN  /\ s \in Seq(S) /\ t \in Seq(S) /\ Len(s) <= Len(t)
             /\ \A i \in 1..Len(s) : t[i] = s[i]
<1> DEFINE F(k) == Ext!FlattenSeq(SubSeq(seqs, 1, k))
           Good(k) == Len(F(m)) <= Len(F(k)) /\ \A i \in 1..Len(F(m)) : F(k)[i] = F(m)[i]
           P == {k \in m..Len(seqs) : ~Good(k)}
<1>1. \A k \in 0..Len(seqs) : SubSeq(seqs, 1, k) \in Seq(Seq(S)) /\ F(k) \in Seq(S)
  <2> TAKE k \in 0..Len(seqs)
  <2>1. SubSeq(seqs, 1, k) \in Seq(Seq(S))  OBVIOUS
  <2> QED  BY <2>1, FlattenType
<1>2. m \in Nat /\ Len(seqs) \in Nat /\ Good(m)  BY <1>1
<1>3. IsFiniteSet(P) /\ P \subseteq Nat
  <2>1. IsFiniteSet(m..Len(seqs)) /\ m..Len(seqs) \subseteq Nat  BY <1>2, FS_Interval
  <2> HIDE DEF Good
  <2> QED  BY <2>1, FS_Subset
<1> HIDE DEF F
<1>4. ASSUME NEW k \in P, \A i \in P : k <= i  PROVE FALSE
  <2>1. k \in m..Len(seqs) /\ ~Good(k) /\ k # m  BY <1>2, <1>4
  <2>2. k - 1 \in m..Len(seqs) /\ k - 1 \in 0..(Len(seqs) - 1) /\ ~(k <= k - 1)  BY <1>2, <2>1
  <2>3. Good(k - 1)
    <3> HIDE DEF Good
    <3> QED  BY <1>4, <2>2
  <2>4. F((k - 1) + 1) = F(k - 1) \o seqs[(k - 1) + 1] /\ seqs[(k - 1) + 1] \in Seq(S)
    BY <2>2, FlattenStep DEF F
  <2>5. F(k) = F(k - 1) \o seqs[k] /\ seqs[k] \in Seq(S) /\ F(k - 1) \in Seq(S) /\ F(m) \in Seq(S)
    <3>1. (k - 1) + 1 = k  BY <1>2, <2>1
    <3>2. k - 1 \in 0..Len(seqs)  BY <2>2
    <3> QED  BY <1>1, <1>2, <2>4, <3>1, <3>2
  <2>6. PICK a, b, c, d : a = F(k - 1) /\ b = seqs[k] /\ c = F(k) /\ d = F(m)  OBVIOUS
  <2>7. a \in Seq(S) /\ b \in Seq(S) /\ c = a \o b /\ d \in Seq(S)  BY <2>5, <2>6
  <2>8. Len(d) <= Len(a) /\ \A i \in 1..Len(d) : a[i] = d[i]  BY <2>3, <2>6
  <2>9. Len(d) <= Len(c) /\ \A i \in 1..Len(d) : c[i] = d[i]  BY <2>7, <2>8
  <2>10. Good(k)  BY <2>6, <2>9
  <2> QED  BY <2>1, <2>10
<1>5. P = {}
  <2> HIDE DEF P
  <2> QED  BY <1>3, <1>4, Smallest
<1>6. Good(n)
  <2> HIDE DEF Good
  <2> QED  BY <1>5
<1>7. m \in 0..Len(seqs) /\ n \in 0..Len(seqs)  BY <1>2
<1> QED  BY <1>1, <1>6, <1>7 DEF F

(* The sequences from place m + 1 on come after what the first m make.     *)
LEMMA FlattenPlace ==
  ASSUME NEW S, NEW seqs \in Seq(Seq(S)), NEW n \in 0..(Len(seqs) - 1)
  PROVE  LET all == Ext!FlattenSeq(seqs)
             s == Ext!FlattenSeq(SubSeq(seqs, 1, n))
         IN  /\ all \in Seq(S) /\ s \in Seq(S) /\ seqs[n + 1] \in Seq(S)
             /\ Len(s) + Len(seqs[n + 1]) <= Len(all)
             /\ \A i \in 1..Len(seqs[n + 1]) : all[Len(s) + i] = seqs[n + 1][i]
<1> DEFINE F(k) == Ext!FlattenSeq(SubSeq(seqs, 1, k))
<1>1. n \in Nat /\ n \in 0..Len(seqs) /\ n + 1 \in 0..Len(seqs)
      /\ Len(seqs) \in (n + 1)..Len(seqs) /\ n + 1 \in n..Len(seqs)  OBVIOUS
<1>2. SubSeq(seqs, 1, Len(seqs)) = seqs  OBVIOUS
<1>3. F(n + 1) = F(n) \o seqs[n + 1] /\ seqs[n + 1] \in Seq(S)  BY FlattenStep
<1>4. /\ F(n + 1) \in Seq(S) /\ F(Len(seqs)) \in Seq(S) /\ Len(F(n + 1)) <= Len(F(Len(seqs)))
      /\ \A i \in 1..Len(F(n + 1)) : F(Len(seqs))[i] = F(n + 1)[i]
  BY <1>1, FlattenPrefix
<1>5. F(n) \in Seq(S)  BY <1>1, FlattenPrefix
<1> HIDE DEF F
<1>6. PICK a, b, c, d : a = F(n) /\ b = seqs[n + 1] /\ c = F(n + 1) /\ d = F(Len(seqs))  OBVIOUS
<1>7. a \in Seq(S) /\ b \in Seq(S) /\ c = a \o b /\ d \in Seq(S) /\ Len(c) <= Len(d)
      /\ \A i \in 1..Len(c) : d[i] = c[i]
  BY <1>3, <1>4, <1>5, <1>6
<1>8. Len(a) + Len(b) <= Len(d) /\ \A i \in 1..Len(b) : d[Len(a) + i] = b[i]
  <2>1. Len(c) = Len(a) + Len(b) /\ Len(a) \in Nat /\ Len(b) \in Nat  BY <1>7
  <2>2. \A i \in 1..Len(b) : Len(a) + i \in 1..Len(c) /\ c[Len(a) + i] = b[i]  BY <1>7, <2>1
  <2> QED  BY <1>7, <2>1, <2>2
<1>9. Ext!FlattenSeq(seqs) = d  BY <1>2, <1>6 DEF F
<1>10. Ext!FlattenSeq(SubSeq(seqs, 1, n)) = a  BY <1>6 DEF F
<1> QED  BY <1>6, <1>7, <1>8, <1>9, <1>10

(* A remainder is unique ...                                               *)
LEMMA ModUnique ==
  ASSUME NEW M \in Nat \ {0}, NEW q \in Int, NEW p \in Int, NEW r \in 0..(M - 1), NEW s \in 0..(M - 1), M * q + r = M * p + s
  PROVE  r = s
<1>1. M * (q - p) = s - r  OBVIOUS
<1>2. q - p >= 1 => M * (q - p) >= M OBVIOUS
<1>3. p - q >= 1 => M * (p - q) >= M OBVIOUS
<1>4. M * (p - q) = r - s OBVIOUS
<1> QED BY <1>1, <1>2, <1>3, <1>4

(* ... which is what a remainder is ...                                    *)
LEMMA ModFacts ==
  ASSUME NEW M \in Nat \ {0}, NEW a \in Int
  PROVE  a % M \in 0..(M - 1) /\ a \div M \in Int /\ a = M * (a \div M) + (a % M)
OBVIOUS

(* ... so it does not matter when it is taken.                             *)
LEMMA ModAdd ==
  ASSUME NEW M \in Nat \ {0}, NEW a \in Int, NEW b \in Int
  PROVE  ((a % M) + b) % M = (a + b) % M
<1>1. PICK c : c = a % M OBVIOUS
<1>2. PICK q : q = a \div M OBVIOUS
<1>3. PICK d : d = c + b OBVIOUS
<1>4. PICK x : x = d % M OBVIOUS
<1>5. PICK y : y = (a + b) % M OBVIOUS
<1>6. PICK u : u = d \div M OBVIOUS
<1>7. PICK v : v = (a + b) \div M OBVIOUS
<1>8. c \in Int /\ q \in Int /\ a = M * q + c BY ModFacts, <1>1, <1>2
<1>9. d \in Int /\ x \in 0..(M-1) /\ u \in Int /\ d = M * u + x BY ModFacts, <1>3, <1>8, <1>4, <1>6
<1>10. a + b \in Int OBVIOUS
<1>11. y \in 0..(M-1) /\ v \in Int /\ a + b = M * v + y BY ModFacts, <1>10, <1>5, <1>7
<1>12. M * (q + u) + x = M * v + y  
  <2>1. M * (q + u) = M * q + M * u BY <1>8, <1>9
  <2> QED BY <2>1, <1>8, <1>9, <1>11, <1>3
<1>13. x = y BY <1>12, <1>8, <1>9, <1>11, ModUnique
<1> QED BY <1>13, <1>1, <1>3, <1>4, <1>5
=============================================================================

-------------------------------- MODULE SeqFacts --------------------------------
(***************************************************************************)
(* Facts about the sequences that stand for channels and queues, and about *)
(* counting what is in them.                                               *)
(***************************************************************************)
EXTENDS Integers, Sequences, FiniteSets, SequenceTheorems, FiniteSetTheorems,
        FunctionTheorems, TLAPS

LEMMA Singleton ==
  ASSUME NEW x
  PROVE  /\ <<x>> # <<>> /\ Len(<<x>>) = 1 /\ <<x>>[1] = x
         /\ Head(<<x>>) = x /\ Tail(<<x>>) = <<>>
         /\ Append(<<>>, x) = <<x>>
  OBVIOUS

LEMMA Tails ==
  ASSUME NEW S, NEW s \in Seq(S), s # <<>>
  PROVE  /\ Len(s) \in Nat /\ Len(s) > 0
         /\ Head(s) = s[1] /\ s[1] \in S
         /\ Tail(s) \in Seq(S) /\ Len(Tail(s)) = Len(s) - 1
         /\ \A i \in 1 .. Len(s) - 1 : i + 1 \in 1 .. Len(s) /\ Tail(s)[i] = s[i + 1]
  OBVIOUS

LEMMA Appends ==
  ASSUME NEW S, NEW s \in Seq(S), NEW x \in S
  PROVE  /\ Append(s, x) \in Seq(S) /\ Len(Append(s, x)) = Len(s) + 1 /\ Len(s) \in Nat
         /\ \A i \in 1 .. Len(s) : Append(s, x)[i] = s[i]
         /\ Append(s, x)[Len(s) + 1] = x
         /\ Append(s, x) # <<>>
  OBVIOUS

LEMMA Elements ==
  ASSUME NEW S, NEW s \in Seq(S), NEW i \in 1 .. Len(s)
  PROVE  s[i] \in S
  OBVIOUS

LEMMA Prefixed ==
  ASSUME NEW S, NEW z \in S, NEW s \in Seq(S), NEW x \in S
  PROVE  /\ Len(<<z>> \o s) = Len(s) + 1
         /\ (<<z>> \o s)[Len(s) + 1] = IF s = <<>> THEN z ELSE s[Len(s)]
         /\ <<z>> \o Append(s, x) = Append(<<z>> \o s, x)
<1>1. <<z>> \in Seq(S) /\ Len(<<z>>) = 1 /\ <<z>>[1] = z
  OBVIOUS
<1>2. /\ Len(<<z>> \o s) = Len(s) + 1
      /\ \A i \in 1 .. Len(s) + 1 : (<<z>> \o s)[i] = IF i = 1 THEN z ELSE s[i - 1]
  BY <1>1, ConcatProperties
<1>3. Append(s, x) = s \o <<x>> /\ Append(<<z>> \o s, x) = (<<z>> \o s) \o <<x>>
  BY <1>1, ConcatProperties, AppendIsConcat
<1>4. <<x>> \in Seq(S)
  OBVIOUS
<1>5. <<z>> \o (s \o <<x>>) = (<<z>> \o s) \o <<x>>
  BY <1>1, <1>4, ConcatAssociative
<1>6. Len(s) \in Nat /\ (s = <<>> <=> Len(s) = 0)
  OBVIOUS
<1>7. (<<z>> \o s)[Len(s) + 1] = IF s = <<>> THEN z ELSE s[Len(s)]
  BY <1>2, <1>6
<1> QED
  BY <1>2, <1>3, <1>5, <1>7

--------------------------------------------------------------------------------
(***************************************************************************)
(* How many elements of s are in S.                                        *)
(***************************************************************************)
CountOf(s, S) == Cardinality({k \in 1 .. Len(s) : s[k] \in S})

LEMMA CountType ==
  ASSUME NEW T, NEW s \in Seq(T), NEW S
  PROVE  /\ IsFiniteSet({k \in 1 .. Len(s) : s[k] \in S})
         /\ CountOf(s, S) \in Nat
         /\ CountOf(s, S) = 0 <=> \A k \in 1 .. Len(s) : s[k] \notin S
<1>1. 1 \in Int /\ Len(s) \in Int
  OBVIOUS
<1>2. IsFiniteSet(1 .. Len(s))
  BY <1>1, FS_Interval
<1>3. IsFiniteSet({k \in 1 .. Len(s) : s[k] \in S})
  BY <1>2, FS_Subset
<1> QED
  BY <1>3, FS_CardinalityType, FS_EmptySet DEF CountOf

LEMMA CountEmpty == ASSUME NEW S PROVE CountOf(<<>>, S) = 0
<1>1. {k \in 1 .. Len(<<>>) : <<>>[k] \in S} = {}
  OBVIOUS
<1> QED
  BY <1>1, FS_EmptySet DEF CountOf

LEMMA CountAppend ==
  ASSUME NEW T, NEW s \in Seq(T), NEW x \in T, NEW S
  PROVE  CountOf(Append(s, x), S) = CountOf(s, S) + (IF x \in S THEN 1 ELSE 0)
<1> DEFINE n == Len(s)
           A == {k \in 1 .. n : s[k] \in S}
           B == {k \in 1 .. Len(Append(s, x)) : Append(s, x)[k] \in S}
<1>1. /\ n \in Nat /\ Len(Append(s, x)) = n + 1 /\ Append(s, x)[n + 1] = x
      /\ \A i \in 1 .. n : Append(s, x)[i] = s[i]
  BY Appends
<1>2. B = IF x \in S THEN A \cup {n + 1} ELSE A
  BY <1>1
<1>3. n + 1 \notin A /\ IsFiniteSet(A) /\ Cardinality(A) \in Nat
  <2>1. IsFiniteSet(A)
    BY CountType
  <2>2. n + 1 \notin A
    BY <1>1
  <2> QED
    BY <2>1, <2>2, FS_CardinalityType
<1> HIDE DEF n, A, B
<1>4. Cardinality(A \cup {n + 1}) = Cardinality(A) + 1
  BY <1>3, FS_AddElement
<1>5. Cardinality(B) = Cardinality(A) + (IF x \in S THEN 1 ELSE 0)
  BY <1>2, <1>3, <1>4
<1> QED
  BY <1>5 DEF CountOf, A, B, n

LEMMA CountTail ==
  ASSUME NEW T, NEW s \in Seq(T), s # <<>>, NEW S
  PROVE  CountOf(s, S) = CountOf(Tail(s), S) + (IF Head(s) \in S THEN 1 ELSE 0)
<1> DEFINE n == Len(s)
           A == {k \in 1 .. n : s[k] \in S}
           B == {k \in 1 .. Len(Tail(s)) : Tail(s)[k] \in S}
           C == A \ {1}
           f == [k \in B |-> k + 1]
<1>1. /\ n \in Nat /\ n > 0 /\ Head(s) = s[1] /\ Len(Tail(s)) = n - 1
      /\ \A i \in 1 .. n - 1 : i + 1 \in 1 .. n /\ Tail(s)[i] = s[i + 1]
      /\ Tail(s) \in Seq(T)
  BY Tails
<1>2. IsFiniteSet(A) /\ IsFiniteSet(B)
  BY <1>1, CountType
<1>3. f \in Bijection(B, C)
  <2>1. \A k \in B : k \in Int /\ k + 1 \in C
    BY <1>1
  <2>2. \A a, b \in B : a + 1 = b + 1 => a = b
    BY <2>1
  <2>3. \A c \in C : c - 1 \in B /\ (c - 1) + 1 = c
    BY <1>1
  <2> HIDE DEF B, C
  <2> QED
    BY <2>1, <2>2, <2>3 DEF Bijection, Injection, Surjection, IsInjective
<1>4. Cardinality(C) = Cardinality(B)
  <2>1. ExistsBijection(B, C)
    BY <1>3 DEF ExistsBijection
  <2> HIDE DEF B, C
  <2> QED
    BY <1>2, <2>1, FS_Bijection
<1>5. 1 \in A <=> Head(s) \in S
  BY <1>1
<1>6. Cardinality(A) \in Nat
  BY <1>2, FS_CardinalityType
<1> HIDE DEF A, B
<1>7. Cardinality(C) = IF 1 \in A THEN Cardinality(A) - 1 ELSE Cardinality(A)
  BY <1>2, FS_RemoveElement
<1>8. Cardinality(A) = Cardinality(B) + (IF Head(s) \in S THEN 1 ELSE 0)
  BY <1>4, <1>5, <1>6, <1>7
<1> QED
  BY <1>8 DEF CountOf, A, B, n

(***************************************************************************)
(* A sequence without repetition is as long as the set of its elements.    *)
(***************************************************************************)
LEMMA CountDistinct ==
  ASSUME NEW T, NEW s \in Seq(T), NEW V,
         \A k \in 1 .. Len(s) : s[k] \in V,
         \A v \in V : CountOf(s, {v}) = 1
  PROVE  Len(s) = Cardinality(V)
<1>1. Len(s) \in Nat
  OBVIOUS
<1>2. ASSUME NEW v \in V PROVE \E k \in 1 .. Len(s) : s[k] = v
  <2>1. ~(CountOf(s, {v}) = 0)
    BY <1>2
  <2> QED
    BY <2>1, CountType
<1>3. ASSUME NEW i \in 1 .. Len(s), NEW k \in 1 .. Len(s), s[i] = s[k] PROVE i = k
  <2> DEFINE A == {m \in 1 .. Len(s) : s[m] \in {s[i]}}
  <2>1. IsFiniteSet(A) /\ Cardinality(A) = 1
    BY CountType DEF CountOf
  <2>2. i \in A /\ k \in A
    BY <1>3
  <2> HIDE DEF A
  <2>3. \E x : A = {x}
    BY <2>1, FS_Singleton
  <2> QED
    BY <2>2, <2>3
<1> DEFINE f == [k \in 1 .. Len(s) |-> s[k]]
<1>4. f \in Bijection(1 .. Len(s), V)
  BY <1>2, <1>3 DEF Bijection, Injection, Surjection, IsInjective
<1>5. ExistsBijection(1 .. Len(s), V)
  BY <1>4 DEF ExistsBijection
<1> QED
  BY <1>1, <1>5, FS_CountingElements

(***************************************************************************)
(* Two sets that differ at most at x.                                      *)
(***************************************************************************)
LEMMA OneChanged ==
  ASSUME NEW A, NEW B, IsFiniteSet(A), NEW x, A \ {x} = B \ {x}
  PROVE  /\ IsFiniteSet(B) /\ Cardinality(A) \in Nat /\ Cardinality(B) \in Nat
         /\ Cardinality(B) + (IF x \in A THEN 1 ELSE 0)
              = Cardinality(A) + (IF x \in B THEN 1 ELSE 0)
<1>1. IsFiniteSet(A \ {x}) /\ B \subseteq (A \ {x}) \cup {x}
  BY FS_RemoveElement
<1>2. IsFiniteSet((A \ {x}) \cup {x})
  BY <1>1, FS_AddElement
<1>3. IsFiniteSet(B)
  BY <1>1, <1>2, FS_Subset
<1>4. Cardinality(A) \in Nat /\ Cardinality(B) \in Nat
  BY <1>3, FS_CardinalityType
<1>5. /\ Cardinality(A \ {x}) = IF x \in A THEN Cardinality(A) - 1 ELSE Cardinality(A)
      /\ Cardinality(B \ {x}) = IF x \in B THEN Cardinality(B) - 1 ELSE Cardinality(B)
  BY <1>3, FS_RemoveElement
<1> QED
  BY <1>3, <1>4, <1>5

================================================================================

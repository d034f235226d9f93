------------------------- MODULE RegisterMapProofs -------------------------
(***************************************************************************)
(* What the functions of RegisterMap compute, for any document.            *)
(*                                                                         *)
(* Every loop over a document is a FlattenSeq, so everything rests on what *)
(* FlattenSeq returns (Flattened, FlattenedOnce).  The proof is by         *)
(* induction over the prefixes of its argument (SetInduction); the prefixes*)
(* are the recursive function in the definition of FlattenSeq, which has   *)
(* to be shown to exist first (PrefixesExist).                             *)
(***************************************************************************)
EXTENDS RegisterMap, Induction, SequenceTheorems, TLAPS

-----------------------------------------------------------------------------
(* FlattenSeq.                                                             *)

IsPrefixes(f, ss, n) == f = [i \in 1..n |-> IF i = 1 THEN ss[i] ELSE f[i - 1] \o ss[i]]

LEMMA PrefixesExist ==
  ASSUME NEW ss
  PROVE  \A n \in Nat : \E f : IsPrefixes(f, ss, n)
<1> DEFINE T == {n \in Nat : \E f : IsPrefixes(f, ss, n)}
<1>1. 0 \in T
  <2>1. IsPrefixes([i \in 1..0 |-> i], ss, 0)
    BY DEF IsPrefixes
  <2> QED
    BY <2>1
<1>2. ASSUME NEW n \in Nat, n \in T PROVE n + 1 \in T
  <2>1. PICK f : IsPrefixes(f, ss, n)
    BY <1>2
  <2> DEFINE g == [i \in 1..(n + 1) |->
                     IF i <= n THEN f[i] ELSE IF i = 1 THEN ss[i] ELSE f[n] \o ss[i]]
  <2>2. ASSUME NEW i \in 1..(n + 1)
        PROVE  g[i] = IF i = 1 THEN ss[i] ELSE g[i - 1] \o ss[i]
    <3>1. CASE i <= n
      <4>1. i \in 1..n
        BY <3>1
      <4>2. f[i] = IF i = 1 THEN ss[i] ELSE f[i - 1] \o ss[i]
        BY <2>1, <4>1, Zenon DEF IsPrefixes
      <4>3. g[i] = f[i] /\ (i # 1 => g[i - 1] = f[i - 1])
        BY <3>1
      <4> QED
        BY <4>2, <4>3
    <3>2. CASE i = n + 1 /\ i # 1
      <4>1. ~(i <= n) /\ i - 1 = n /\ n \in 1..(n + 1)
        BY <3>2
      <4>2. g[i] = f[n] \o ss[i]
        BY <3>2, <4>1
      <4>3. g[n] = f[n]
        BY <4>1
      <4> QED
        BY <3>2, <4>1, <4>2, <4>3, Zenon
    <3>3. CASE i = n + 1 /\ i = 1
      BY <3>3
    <3> QED
      BY <3>1, <3>2, <3>3
  <2>3. IsPrefixes(g, ss, n + 1)
    BY <2>2, Zenon DEF IsPrefixes
  <2> HIDE DEF g
  <2> QED
    BY <2>3
<1> HIDE DEF T
<1>3. \A n \in Nat : n \in T
  BY <1>1, <1>2, SetInduction
<1> QED
  BY <1>3 DEF T

\* The last prefix is the result.
LEMMA FlattenDef ==
  ASSUME NEW S, NEW ss \in Seq(S), ss # <<>>
  PROVE  \E f : /\ IsPrefixes(f, ss, Len(ss))
                /\ FlattenSeq(ss) = f[Len(ss)]
<1> DEFINE F == CHOOSE f : f = [i \in 1..Len(ss) |-> IF i = 1 THEN ss[i] ELSE f[i - 1] \o ss[i]]
<1>1. Len(ss) \in Nat /\ Len(ss) # 0
  BY EmptySeq
<1>2. FlattenSeq(ss) = F[Len(ss)]
  BY <1>1 DEF FlattenSeq
<1>3. \E f : f = [i \in 1..Len(ss) |-> IF i = 1 THEN ss[i] ELSE f[i - 1] \o ss[i]]
  BY <1>1, PrefixesExist, Zenon DEF IsPrefixes
<1>4. F = [i \in 1..Len(ss) |-> IF i = 1 THEN ss[i] ELSE F[i - 1] \o ss[i]]
  BY <1>3, Zenon
<1> HIDE DEF F
<1>5. IsPrefixes(F, ss, Len(ss))
  BY <1>4 DEF IsPrefixes
<1> QED
  BY <1>2, <1>5

LEMMA ConcatInjective ==
  ASSUME NEW S, NEW s \in Seq(S), NEW t \in Seq(S),
         IsInjective(s), IsInjective(t), Range(s) \cap Range(t) = {}
  PROVE  IsInjective(s \o t)
<1> DEFINE m == Len(s)
           n == Len(t)
<1>1. m \in Nat /\ n \in Nat /\ DOMAIN s = 1..m /\ DOMAIN t = 1..n
  OBVIOUS
<1>2. /\ DOMAIN (s \o t) = 1..(m + n)
      /\ \A i \in 1..(m + n) : (s \o t)[i] = IF i <= m THEN s[i] ELSE t[i - m]
  BY ConcatProperties
<1> HIDE DEF m, n
<1>3. ASSUME NEW i \in 1..(m + n), NEW j \in 1..(m + n), (s \o t)[i] = (s \o t)[j] PROVE i = j
  <2>1. CASE i <= m /\ j <= m
    <3>1. i \in 1..m /\ j \in 1..m /\ s[i] = s[j]
      BY <1>1, <1>2, <1>3, <2>1
    <3> QED
      BY <1>1, <3>1 DEF IsInjective
  <2>2. CASE i > m /\ j > m
    <3>1. i - m \in 1..n /\ j - m \in 1..n /\ t[i - m] = t[j - m]
      BY <1>1, <1>2, <1>3, <2>2
    <3>2. i - m = j - m
      BY <1>1, <3>1 DEF IsInjective
    <3> QED
      BY <1>1, <3>2
  <2>3. CASE i <= m /\ j > m
    <3>1. i \in 1..m /\ j - m \in 1..n /\ s[i] = t[j - m]
      BY <1>1, <1>2, <1>3, <2>3
    <3> QED
      BY <1>1, <3>1 DEF Range
  <2>4. CASE i > m /\ j <= m
    <3>1. i - m \in 1..n /\ j \in 1..m /\ s[j] = t[i - m]
      BY <1>1, <1>2, <1>3, <2>4
    <3> QED
      BY <1>1, <3>1 DEF Range
  <2> QED
    BY <1>1, <2>1, <2>2, <2>3, <2>4
<1> QED
  BY <1>2, <1>3 DEF IsInjective

LEMMA PrefixSteps ==
  ASSUME NEW f, NEW ss, NEW n \in Nat, IsPrefixes(f, ss, n), n > 0
  PROVE  /\ f[1] = ss[1]
         /\ \A k \in 1..n : k + 1 \in 1..n => f[k + 1] = f[k] \o ss[k + 1]
<1>1. \A i \in 1..n : f[i] = IF i = 1 THEN ss[i] ELSE f[i - 1] \o ss[i]
  BY Zenon DEF IsPrefixes
<1>2. f[1] = ss[1]
  BY <1>1
<1>3. ASSUME NEW k \in 1..n, k + 1 \in 1..n PROVE f[k + 1] = f[k] \o ss[k + 1]
  <2>1. k + 1 # 1 /\ (k + 1) - 1 = k
    OBVIOUS
  <2> QED
    BY <1>1, <1>3, <2>1
<1> QED
  BY <1>2, <1>3

\* The elements of a flattened sequence are those of its parts.
LEMMA Flattened ==
  ASSUME NEW S, NEW ss \in Seq(Seq(S))
  PROVE  /\ FlattenSeq(ss) \in Seq(S)
         /\ \A x : x \in Range(FlattenSeq(ss)) <=> \E i \in DOMAIN ss : x \in Range(ss[i])
<1> DEFINE n == Len(ss)
<1>0. n \in Nat /\ DOMAIN ss = 1..n /\ \A i \in 1..n : ss[i] \in Seq(S)
  OBVIOUS
<1>1. CASE ss = <<>>
  <2>1. FlattenSeq(ss) = <<>> /\ DOMAIN ss = {}
    BY <1>1 DEF FlattenSeq
  <2> QED
    BY <2>1 DEF Range
<1>2. CASE ss # <<>>
  <2>1. PICK f : IsPrefixes(f, ss, n) /\ FlattenSeq(ss) = f[n]
    BY <1>2, FlattenDef
  <2>2. n > 0
    BY <1>2, EmptySeq
  <2> HIDE DEF n
  <2>3. f[1] = ss[1] /\ \A k \in 1..n : k + 1 \in 1..n => f[k + 1] = f[k] \o ss[k + 1]
    BY <1>0, <2>1, <2>2, PrefixSteps
  <2> DEFINE Holds(k) == /\ f[k] \in Seq(S)
                         /\ \A x : x \in Range(f[k]) <=> \E i \in 1..k : x \in Range(ss[i])
             T == {k \in Nat : k \in 1..n => Holds(k)}
  <2>4. 0 \in T
    OBVIOUS
  <2>5. ASSUME NEW k \in Nat, k \in T, k + 1 \in 1..n PROVE Holds(k + 1)
    <3>1. CASE k = 0
      <4>1. f[1] \in Seq(S) /\ k + 1 = 1
        BY <1>0, <2>2, <2>3, <3>1
      <4>2. \A x : x \in Range(f[1]) <=> \E i \in 1..1 : x \in Range(ss[i])
        BY <2>3
      <4> QED
        BY <4>1, <4>2
    <3>2. CASE k # 0
      <4>1. k \in 1..n
        BY <1>0, <2>5, <3>2
      <4>2. Holds(k)
        BY <2>5, <4>1
      <4>3. f[k + 1] = f[k] \o ss[k + 1] /\ ss[k + 1] \in Seq(S)
        BY <1>0, <2>3, <2>5, <4>1
      <4>4. f[k + 1] \in Seq(S) /\ Range(f[k + 1]) = Range(f[k]) \cup Range(ss[k + 1])
        BY <4>2, <4>3, ConcatProperties, RangeConcatenation
      <4>5. ASSUME NEW x
            PROVE  x \in Range(f[k + 1]) <=> \E i \in 1..(k + 1) : x \in Range(ss[i])
        <5>1. 1..(k + 1) = 1..k \cup {k + 1}
          OBVIOUS
        <5>2. x \in Range(f[k]) <=> \E i \in 1..k : x \in Range(ss[i])
          BY <4>2
        <5> QED
          BY <4>4, <5>1, <5>2
      <4> QED
        BY <4>4, <4>5
    <3> QED
      BY <3>1, <3>2
  <2> HIDE DEF Holds
  <2>6. \A k \in Nat : k \in T => k + 1 \in T
    BY <2>5
  <2> HIDE DEF T
  <2>7. n \in T
    BY <1>0, <2>4, <2>6, SetInduction
  <2>8. Holds(n)
    BY <1>0, <2>2, <2>7 DEF T
  <2> QED
    BY <1>0, <2>1, <2>8 DEF Holds
<1> QED
  BY <1>1, <1>2

\* Parts without repetition that share no element flatten to a sequence
\* without repetition.
LEMMA FlattenedOnce ==
  ASSUME NEW S, NEW ss \in Seq(Seq(S)),
         \A i \in DOMAIN ss : IsInjective(ss[i]),
         \A i, j \in DOMAIN ss : i # j => Range(ss[i]) \cap Range(ss[j]) = {}
  PROVE  IsInjective(FlattenSeq(ss))
<1> DEFINE n == Len(ss)
<1>0. n \in Nat /\ DOMAIN ss = 1..n /\ \A i \in 1..n : ss[i] \in Seq(S)
  OBVIOUS
<1>1. CASE ss = <<>>
  BY <1>1 DEF FlattenSeq, IsInjective
<1>2. CASE ss # <<>>
  <2>1. PICK f : IsPrefixes(f, ss, n) /\ FlattenSeq(ss) = f[n]
    BY <1>2, FlattenDef
  <2>2. n > 0
    BY <1>2, EmptySeq
  <2> HIDE DEF n
  <2>3. f[1] = ss[1] /\ \A k \in 1..n : k + 1 \in 1..n => f[k + 1] = f[k] \o ss[k + 1]
    BY <1>0, <2>1, <2>2, PrefixSteps
  <2> DEFINE Holds(k) == /\ f[k] \in Seq(S) /\ IsInjective(f[k])
                         /\ \A x \in Range(f[k]) : \E i \in 1..k : x \in Range(ss[i])
             T == {k \in Nat : k \in 1..n => Holds(k)}
  <2>4. 0 \in T
    OBVIOUS
  <2>5. ASSUME NEW k \in Nat, k \in T, k + 1 \in 1..n PROVE Holds(k + 1)
    <3>1. CASE k = 0
      <4>1. 1 \in 1..n /\ k + 1 = 1
        BY <1>0, <2>2, <3>1
      <4>2. f[1] \in Seq(S) /\ IsInjective(f[1])
        BY <1>0, <2>3, <4>1
      <4>3. \A x \in Range(f[1]) : \E i \in 1..1 : x \in Range(ss[i])
        BY <2>3
      <4> QED
        BY <4>1, <4>2, <4>3
    <3>2. CASE k # 0
      <4>1. k \in 1..n
        BY <1>0, <2>5, <3>2
      <4>2. Holds(k)
        BY <2>5, <4>1
      <4>3. f[k + 1] = f[k] \o ss[k + 1] /\ ss[k + 1] \in Seq(S) /\ IsInjective(ss[k + 1])
        BY <1>0, <2>3, <2>5, <4>1
      <4>4. f[k + 1] \in Seq(S) /\ Range(f[k + 1]) = Range(f[k]) \cup Range(ss[k + 1])
        BY <4>2, <4>3, ConcatProperties, RangeConcatenation
      <4>5. Range(f[k]) \cap Range(ss[k + 1]) = {}
        <5>1. \A i \in 1..k : i \in 1..n /\ i # k + 1
          BY <1>0, <4>1
        <5> QED
          BY <1>0, <2>5, <4>2, <5>1
      <4>6. IsInjective(f[k + 1])
        BY <4>2, <4>3, <4>5, ConcatInjective
      <4>7. \A i \in 1..k : i \in 1..(k + 1)
        OBVIOUS
      <4>8. \A x \in Range(f[k + 1]) : \E i \in 1..(k + 1) : x \in Range(ss[i])
        BY <4>2, <4>4, <4>7
      <4> QED
        BY <4>4, <4>6, <4>8
    <3> QED
      BY <3>1, <3>2
  <2> HIDE DEF Holds
  <2>6. \A k \in Nat : k \in T => k + 1 \in T
    BY <2>5
  <2> HIDE DEF T
  <2>7. n \in T
    BY <1>0, <2>4, <2>6, SetInduction
  <2>8. Holds(n)
    BY <1>0, <2>2, <2>7 DEF T
  <2> QED
    BY <2>1, <2>8 DEF Holds
<1> QED
  BY <1>1, <1>2

\* A loop that keeps some elements: each kept one is there, and if it keeps no
\* two equal ones, once.
Keeps(ss, n, K, e) == ss = [i \in 1..n |-> IF i \in K THEN <<e[i]>> ELSE <<>>]
Kept(K, e) == {e[i] : i \in K}

LEMMA Selected ==
  ASSUME NEW S, NEW n \in Nat, NEW K \in SUBSET (1..n), NEW e, \A i \in K : e[i] \in S,
         NEW ss, Keeps(ss, n, K, e)
  PROVE  /\ FlattenSeq(ss) \in Seq(S)
         /\ Range(FlattenSeq(ss)) = Kept(K, e)
         /\ (\A i, j \in K : e[i] = e[j] => i = j) => IsInjective(FlattenSeq(ss))
<1>1. DOMAIN ss = 1..n /\ ss = [i \in 1..n |-> ss[i]]
  BY DEF Keeps
<1>2. ASSUME NEW i \in 1..n
      PROVE  /\ ss[i] \in Seq(S)
             /\ IsInjective(ss[i])
             /\ \A x : x \in Range(ss[i]) <=> i \in K /\ x = e[i]
  <2>1. CASE i \in K
    <3>1. ss[i] = <<e[i]>>
      BY <2>1 DEF Keeps
    <3>2. e[i] \in S
      BY <2>1
    <3> QED
      BY <2>1, <3>1, <3>2 DEF IsInjective, Range
  <2>2. CASE i \notin K
    <3>1. ss[i] = <<>>
      BY <2>2 DEF Keeps
    <3> QED
      BY <2>2, <3>1 DEF IsInjective, Range
  <2> QED
    BY <2>1, <2>2
<1>3. ss \in Seq(Seq(S))
  <2>1. ss \in [1..n -> Seq(S)]
    BY <1>1, <1>2
  <2> QED
    BY <2>1
<1>4. FlattenSeq(ss) \in Seq(S)
  BY <1>3, Flattened
<1>5. \A x : x \in Range(FlattenSeq(ss)) <=> \E i \in 1..n : x \in Range(ss[i])
  BY <1>1, <1>3, Flattened
<1>6. Range(FlattenSeq(ss)) = Kept(K, e)
  <2> DEFINE R == Range(FlattenSeq(ss))
  <2>1. \A x : x \in R <=> \E i \in K : x = e[i]
    BY <1>2, <1>5
  <2> HIDE DEF R
  <2>2. R = Kept(K, e)
    BY <2>1 DEF Kept
  <2> QED
    BY <2>2 DEF R
<1>7. ASSUME \A i, j \in K : e[i] = e[j] => i = j
      PROVE  IsInjective(FlattenSeq(ss))
  <2>1. ASSUME NEW i \in 1..n, NEW j \in 1..n, i # j PROVE Range(ss[i]) \cap Range(ss[j]) = {}
    <3>1. ASSUME NEW x \in Range(ss[i]), x \in Range(ss[j]) PROVE FALSE
      <4>1. i \in K /\ x = e[i]
        BY <1>2, <3>1
      <4>2. j \in K /\ x = e[j]
        BY <1>2, <3>1
      <4> QED
        BY <1>7, <2>1, <4>1, <4>2
    <3> QED
      BY <3>1
  <2>2. \A i, j \in DOMAIN ss : i # j => Range(ss[i]) \cap Range(ss[j]) = {}
    BY <1>1, <2>1
  <2>3. \A i \in DOMAIN ss : IsInjective(ss[i])
    BY <1>1, <1>2
  <2> QED
    BY <1>3, <2>2, <2>3, FlattenedOnce
<1> QED
  BY <1>4, <1>6, <1>7

-----------------------------------------------------------------------------
(* The Modbus side: the registers of a document.                           *)

Endpoint == [types : Seq(STRING), mappings : Seq(Mapping), parts : Seq(Part)]
Node == Endpoint \cup Part

LEMMA NodeFields ==
  ASSUME NEW ep \in Node
  PROVE  ep.types \in Seq(STRING) /\ ep.mappings \in Seq(Mapping)
  BY DEF Node, Endpoint, Part

LEMMA WithPartsNodes ==
  ASSUME NEW ep \in Endpoint
  PROVE  /\ WithParts(ep) \in Seq(Node)
         /\ Len(WithParts(ep)) \in Nat \ {0}
         /\ DOMAIN WithParts(ep) = 1..Len(WithParts(ep))
         /\ \A i \in DOMAIN WithParts(ep) : WithParts(ep)[i] \in Node
<1>1. <<ep>> \in Seq(Node)
  BY DEF Node
<1>2. ep.parts \in Seq(Part)
  BY DEF Endpoint
<1>3. ep.parts \in Seq(Node)
  BY <1>2, SeqMonotonic DEF Node
<1>4. WithParts(ep) \in Seq(Node) /\ Len(WithParts(ep)) = 1 + Len(ep.parts)
  BY <1>1, <1>3, ConcatProperties DEF WithParts
<1>5. Len(ep.parts) \in Nat
  BY <1>3
<1> HIDE DEF Node
<1>6. \A i \in 1..Len(WithParts(ep)) : WithParts(ep)[i] \in Node
  BY <1>4, ElementOfSeq
<1> QED
  BY <1>4, <1>5, <1>6

LEMMA WalkedNodes ==
  ASSUME NEW doc \in Document
  PROVE  /\ Walked(doc) \in Seq(Node)
         /\ doc # <<>> => \A i \in DOMAIN WithParts(doc[1]) : WithParts(doc[1])[i] \in Range(Walked(doc))
<1> DEFINE ss == [i \in DOMAIN doc |-> WithParts(doc[i])]
<1>1. doc \in Seq(Endpoint)
  BY DEF Document, Endpoint
<1>2. Len(doc) \in Nat /\ DOMAIN doc = 1..Len(doc)
  BY <1>1
<1>3. \A i \in DOMAIN doc : doc[i] \in Endpoint
  BY <1>1
<1>4. ss \in [1..Len(doc) -> Seq(Node)]
  BY <1>2, <1>3, WithPartsNodes
<1>5. ss \in Seq(Seq(Node)) /\ DOMAIN ss = DOMAIN doc
  BY <1>2, <1>4
<1>6. Walked(doc) \in Seq(Node)
  BY <1>5, Flattened DEF Walked
<1>7. \A x : x \in Range(Walked(doc)) <=> \E i \in DOMAIN ss : x \in Range(ss[i])
  BY <1>5, Flattened DEF Walked
<1>8. ASSUME doc # <<>>, NEW i \in DOMAIN WithParts(doc[1])
      PROVE  WithParts(doc[1])[i] \in Range(Walked(doc))
  <2>1. 1 \in DOMAIN doc
    BY <1>1, <1>2, <1>8, EmptySeq
  <2>2. ss[1] = WithParts(doc[1])
    BY <2>1
  <2>3. WithParts(doc[1])[i] \in Range(ss[1])
    BY <2>2 DEF Range
  <2> QED
    BY <1>5, <1>7, <2>1, <2>3
<1> QED
  BY <1>6, <1>8

LEMMA CollectedSpecs ==
  ASSUME NEW ep \in Node
  PROVE  /\ Collected(ep) \in Seq(Registers)
         /\ Range(Collected(ep)) = {SpecOf(m) : m \in {x \in Range(ep.mappings) : x.function # None}}
<1> DEFINE ms == ep.mappings
           n == Len(ms)
           K == {i \in 1..n : ms[i].function # None}
           e == [i \in 1..n |-> SpecOf(ms[i])]
           ss == [i \in 1..n |-> IF i \in K THEN <<e[i]>> ELSE <<>>]
<1>1. ms \in Seq(Mapping) /\ n \in Nat /\ DOMAIN ms = 1..n
  BY NodeFields
<1>2. \A i \in 1..n : ms[i] \in Mapping /\ e[i] = SpecOf(ms[i])
  BY <1>1
<1>3. \A i \in 1..n : e[i] \in Registers
  BY <1>2 DEF Mapping, SpecOf, Registers
<1>4. Collected(ep) = FlattenSeq(ss)
  <2>1. ss = [i \in DOMAIN ms |-> IF ms[i].function # None THEN <<SpecOf(ms[i])>> ELSE <<>>]
    BY <1>1
  <2> QED
    BY <2>1, Zenon DEF Collected
<1> HIDE DEF ms, n, e
<1>5. Collected(ep) \in Seq(Registers) /\ Range(Collected(ep)) = Kept(K, e)
  <2>1. K \in SUBSET (1..n) /\ \A i \in K : e[i] \in Registers
    BY <1>3
  <2>2. Keeps(ss, n, K, e)
    BY DEF Keeps
  <2> HIDE DEF K, ss
  <2> QED
    BY <1>1, <1>4, <2>1, <2>2, Selected
<1>6. Kept(K, e) = {SpecOf(m) : m \in {x \in Range(ms) : x.function # None}}
  BY <1>1, <1>2 DEF Kept, Range
<1> QED
  BY <1>5, <1>6 DEF ms

LEMMA DistinctSpecs ==
  ASSUME NEW specs \in Seq(Registers)
  PROVE  /\ Distinct(specs) \in Seq(Registers)
         /\ Range(Distinct(specs)) = Range(specs)
         /\ IsInjective(Distinct(specs))
<1> DEFINE n == Len(specs)
           K == {i \in 1..n : ~ \E j \in 1..(i - 1) : specs[j] = specs[i]}
           ss == [i \in 1..n |-> IF i \in K THEN <<specs[i]>> ELSE <<>>]
<1>1. n \in Nat /\ DOMAIN specs = 1..n /\ \A i \in 1..n : specs[i] \in Registers
  OBVIOUS
<1>2. Distinct(specs) = FlattenSeq(ss)
  <2>1. ss = [i \in DOMAIN specs |->
                IF \E j \in 1..(i - 1) : SameRegister(specs[j], specs[i]) THEN <<>> ELSE <<specs[i]>>]
    BY <1>1 DEF SameRegister
  <2> QED
    BY <2>1, Zenon DEF Distinct
<1> HIDE DEF n
<1>3. ASSUME NEW i \in K, NEW j \in K, specs[i] = specs[j] PROVE i = j
  <2>1. i \in 1..n /\ j \in 1..n
    OBVIOUS
  <2>2. ~(i < j)
    <3>1. i < j => i \in 1..(j - 1)
      BY <1>1, <2>1
    <3> QED
      BY <1>3, <3>1
  <2>3. ~(j < i)
    <3>1. j < i => j \in 1..(i - 1)
      BY <1>1, <2>1
    <3> QED
      BY <1>3, <3>1
  <2> QED
    BY <1>1, <2>1, <2>2, <2>3
<1>4. /\ Distinct(specs) \in Seq(Registers)
      /\ Range(Distinct(specs)) = Kept(K, specs)
      /\ IsInjective(Distinct(specs))
  <2>1. K \in SUBSET (1..n) /\ \A i \in K : specs[i] \in Registers
    BY <1>1
  <2>2. Keeps(ss, n, K, specs)
    BY DEF Keeps
  <2>3. \A i, j \in K : specs[i] = specs[j] => i = j
    BY <1>3
  <2> HIDE DEF K, ss
  <2> QED
    BY <1>1, <1>2, <2>1, <2>2, <2>3, Selected
<1>5. ASSUME NEW i \in 1..n PROVE \E k \in K : specs[k] = specs[i]
  <2> DEFINE T == {k \in 1..n : specs[k] = specs[i]}
  <2>1. T \subseteq Nat /\ T # {}
    BY <1>1
  <2>2. PICK k \in T : \A j \in T : k <= j
    BY <2>1, Least
  <2>3. ASSUME NEW j \in 1..(k - 1), specs[j] = specs[k] PROVE FALSE
    <3>1. j \in T /\ ~(k <= j)
      BY <1>1, <2>3
    <3> QED
      BY <2>2, <3>1
  <2>4. k \in K
    BY <2>3
  <2> QED
    BY <2>4
<1>6. Kept(K, specs) = Range(specs)
  <2>1. K \subseteq 1..n
    OBVIOUS
  <2> HIDE DEF K
  <2> QED
    BY <1>1, <1>5, <2>1 DEF Kept, Range
<1> QED
  BY <1>4, <1>6

LEMMA GroupSpecs ==
  ASSUME NEW specs \in Seq(Registers), NEW input \in BOOLEAN
  PROVE  /\ Group(specs, input) \in Seq(Registers)
         /\ Range(Group(specs, input)) = {s \in Range(specs) : s.input = input}
<1> DEFINE n == Len(specs)
           K == {i \in 1..n : specs[i].input = input}
           ss == [i \in 1..n |-> IF i \in K THEN <<specs[i]>> ELSE <<>>]
<1>1. n \in Nat /\ DOMAIN specs = 1..n /\ \A i \in 1..n : specs[i] \in Registers
  OBVIOUS
<1>2. Group(specs, input) = FlattenSeq(ss)
  <2>1. ss = [i \in DOMAIN specs |-> IF specs[i].input = input THEN <<specs[i]>> ELSE <<>>]
    BY <1>1
  <2> QED
    BY <2>1, Zenon DEF Group
<1> HIDE DEF n
<1>3. Group(specs, input) \in Seq(Registers) /\ Range(Group(specs, input)) = Kept(K, specs)
  <2>1. K \in SUBSET (1..n) /\ \A i \in K : specs[i] \in Registers
    BY <1>1
  <2>2. Keeps(ss, n, K, specs)
    BY DEF Keeps
  <2> HIDE DEF K, ss
  <2> QED
    BY <1>1, <1>2, <2>1, <2>2, Selected
<1>4. Kept(K, specs) = {s \in Range(specs) : s.input = input}
  BY <1>1 DEF Kept, Range
<1> QED
  BY <1>3, <1>4

\* build_register_specs: whatever the document, every register that a mapping
\* of an endpoint or a part names by function and address is in the list, no
\* other, and none twice.
THEOREM SpecsFollowDocument ==
  ASSUME NEW doc \in Document
  PROVE  /\ RegisterSpecs(doc) \in Seq(Registers)
         /\ \A s : s \in Range(RegisterSpecs(doc)) <=>
                     \E node \in Range(Walked(doc)) : \E m \in Range(node.mappings) :
                       m.function # None /\ s = SpecOf(m)
         /\ IsInjective(RegisterSpecs(doc))
<1> DEFINE walked == Walked(doc)
           ss == [i \in DOMAIN walked |-> Collected(walked[i])]
           all == FlattenSeq(ss)
<1>1. walked \in Seq(Node) /\ Len(walked) \in Nat /\ DOMAIN walked = 1..Len(walked)
  BY WalkedNodes
<1>2. RegisterSpecs(doc) = Distinct(all)
  BY Zenon DEF RegisterSpecs
<1> HIDE DEF walked
<1>3. \A i \in DOMAIN walked : walked[i] \in Node
  BY <1>1
<1>4. ss \in [1..Len(walked) -> Seq(Registers)]
  BY <1>1, <1>3, CollectedSpecs
<1>5. ss \in Seq(Seq(Registers)) /\ DOMAIN ss = DOMAIN walked
      /\ \A i \in DOMAIN walked : ss[i] = Collected(walked[i])
  BY <1>1, <1>4
<1> HIDE DEF ss
<1>6. all \in Seq(Registers) /\ \A s : s \in Range(all) <=> \E i \in DOMAIN ss : s \in Range(ss[i])
  BY <1>5, Flattened
<1> HIDE DEF all
<1>7. /\ RegisterSpecs(doc) \in Seq(Registers)
      /\ Range(RegisterSpecs(doc)) = Range(all)
      /\ IsInjective(RegisterSpecs(doc))
  BY <1>2, <1>6, DistinctSpecs
<1>8. ASSUME NEW s
      PROVE  s \in Range(all) <=>
               \E node \in Range(walked) : \E m \in Range(node.mappings) :
                 m.function # None /\ s = SpecOf(m)
  <2>1. s \in Range(all) <=> \E i \in DOMAIN walked : s \in Range(Collected(walked[i]))
    BY <1>5, <1>6
  <2>2. ASSUME NEW i \in DOMAIN walked
        PROVE  s \in Range(Collected(walked[i])) <=>
                 \E m \in Range(walked[i].mappings) : m.function # None /\ s = SpecOf(m)
    BY <1>3, CollectedSpecs
  <2>3. \A node : node \in Range(walked) <=> \E i \in DOMAIN walked : node = walked[i]
    BY DEF Range
  <2> QED
    BY <2>1, <2>2, <2>3
<1> QED
  BY <1>7, <1>8 DEF walked

-----------------------------------------------------------------------------
(* The Matter side: the table of attributes, and what readings update.     *)

Cellular == (Nat \ {0}) \X STRING
Route == [address : 0..(AddressCount - 1), cell : Cellular]
RouteOf(i, m) == [address |-> m.address, cell |-> <<i, m.attribute>>]

LEMMA EntriesOfNode ==
  ASSUME NEW node \in Node, NEW i \in Nat \ {0}
  PROVE  /\ Entries(node, i) \in Seq(Route)
         /\ \A x : x \in Range(Entries(node, i)) <=> \E m \in Range(node.mappings) : x = RouteOf(i, m)
<1> DEFINE ms == node.mappings
           es == Entries(node, i)
<1>1. ms \in Seq(Mapping) /\ Len(ms) \in Nat /\ DOMAIN ms = 1..Len(ms)
  BY NodeFields
<1>2. DOMAIN es = DOMAIN ms /\ es = [k \in DOMAIN ms |-> es[k]]
  BY DEF Entries
<1>3. ASSUME NEW k \in DOMAIN ms PROVE es[k] = RouteOf(i, ms[k]) /\ es[k] \in Route
  <2>1. es[k] = RouteOf(i, ms[k])
    BY DEF Entries, RouteOf
  <2>2. ms[k] \in Mapping
    BY <1>1
  <2>3. RouteOf(i, ms[k]) \in Route
    BY <2>2 DEF Mapping, RouteOf, Route, Cellular
  <2> QED
    BY <2>1, <2>3
<1> HIDE DEF ms, es
<1>4. es \in Seq(Route)
  <2>1. es \in [1..Len(ms) -> Route]
    BY <1>1, <1>2, <1>3
  <2> QED
    BY <1>1, <2>1
<1>5. \A x : x \in Range(es) <=> \E m \in Range(ms) : x = RouteOf(i, m)
  BY <1>2, <1>3 DEF Range
<1> QED
  BY <1>4, <1>5 DEF ms, es

\* parse_all_mappings: exactly the mappings of the first endpoint and of its
\* parts, each with the number of its node, whatever their function.
THEOREM MappingsFollowDocument ==
  ASSUME NEW doc \in Document
  PROVE  /\ AllMappings(doc) \in Seq(Route)
         /\ \A x : x \in Range(AllMappings(doc)) <=>
                     /\ doc # <<>>
                     /\ \E i \in DOMAIN WithParts(doc[1]) :
                          \E m \in Range(WithParts(doc[1])[i].mappings) : x = RouteOf(i, m)
<1>1. CASE doc = <<>>
  <2>1. AllMappings(doc) = <<>>
    BY <1>1 DEF AllMappings
  <2>2. AllMappings(doc) \in Seq(Route) /\ \A x : x \notin Range(AllMappings(doc))
    BY <2>1 DEF Range
  <2> QED
    BY <1>1, <2>2
<1>2. CASE doc # <<>>
  <2> DEFINE nodes == WithParts(doc[1])
             ss == [i \in DOMAIN nodes |-> Entries(nodes[i], i)]
  <2>1. doc \in Seq(Endpoint)
    BY DEF Document, Endpoint
  <2>2. doc[1] \in Endpoint
    BY <1>2, <2>1, EmptySeq
  <2>3. Len(nodes) \in Nat /\ DOMAIN nodes = 1..Len(nodes) /\ \A i \in DOMAIN nodes : nodes[i] \in Node
    BY <2>2, WithPartsNodes
  <2>4. AllMappings(doc) = FlattenSeq(ss)
    BY <1>2, Zenon DEF AllMappings
  <2> HIDE DEF nodes
  <2>5. ss \in [1..Len(nodes) -> Seq(Route)]
    BY <2>3, EntriesOfNode
  <2>6. ss \in Seq(Seq(Route)) /\ DOMAIN ss = DOMAIN nodes /\ \A i \in DOMAIN nodes : ss[i] = Entries(nodes[i], i)
    BY <2>3, <2>5
  <2> HIDE DEF ss
  <2>7. AllMappings(doc) \in Seq(Route)
    BY <2>4, <2>6, Flattened
  <2>8. \A x : x \in Range(AllMappings(doc)) <=> \E i \in DOMAIN nodes : x \in Range(Entries(nodes[i], i))
    BY <2>4, <2>6, Flattened
  <2>9. \A i \in DOMAIN nodes : \A x :
          x \in Range(Entries(nodes[i], i)) <=> \E m \in Range(nodes[i].mappings) : x = RouteOf(i, m)
    BY <2>3, EntriesOfNode
  <2> QED
    BY <1>2, <2>7, <2>8, <2>9 DEF nodes
<1> QED
  BY <1>1, <1>2

Reading(V) == [address : 0..(AddressCount - 1), value : V]
Update(V) == [cell : Cellular, raw : V]
Hits(doc, m, r) == m.address = r.address /\ Takes(Wrapper(doc, m.cell[1]), m.cell[2])
IsUpdate(u, doc, mappings, readings) ==
  \E m \in Range(mappings) : \E r \in Range(readings) :
    Hits(doc, m, r) /\ u = [cell |-> m.cell, raw |-> r.value]

\* on_readings: exactly the pairs of a reading and a mapping of its address
\* whose attribute the wrapper takes, whatever the readings carry.
THEOREM UpdatesFollowReadings ==
  ASSUME NEW V, NEW doc, NEW mappings \in Seq(Route), NEW readings \in Seq(Reading(V))
  PROVE  /\ Updates(doc, mappings, readings) \in Seq(Update(V))
         /\ \A u : u \in Range(Updates(doc, mappings, readings)) <=> IsUpdate(u, doc, mappings, readings)
<1> DEFINE n == Len(mappings)
           K(r) == {i \in 1..n : Hits(doc, mappings[i], r)}
           e(r) == [i \in 1..n |-> [cell |-> mappings[i].cell, raw |-> r.value]]
           one(r) == [i \in 1..n |-> IF i \in K(r) THEN <<e(r)[i]>> ELSE <<>>]
           ss == [i \in DOMAIN readings |-> FlattenSeq(one(readings[i]))]
<1>1. n \in Nat /\ DOMAIN mappings = 1..n /\ \A i \in 1..n : mappings[i] \in Route
  OBVIOUS
<1>2. Len(readings) \in Nat /\ DOMAIN readings = 1..Len(readings) /\ \A i \in DOMAIN readings : readings[i] \in Reading(V)
  OBVIOUS
<1>3. Updates(doc, mappings, readings) = FlattenSeq(ss)
  <2>1. ASSUME NEW r
        PROVE  one(r) = [i \in DOMAIN mappings |->
                           IF Hits(doc, mappings[i], r)
                           THEN <<[cell |-> mappings[i].cell, raw |-> r.value]>> ELSE <<>>]
    BY <1>1
  <2> HIDE DEF one
  <2> QED
    BY <2>1, Zenon DEF Updates, Hits
<1> HIDE DEF n
<1>4. ASSUME NEW r \in Reading(V)
      PROVE  /\ FlattenSeq(one(r)) \in Seq(Update(V))
             /\ \A u : u \in Range(FlattenSeq(one(r))) <=>
                         \E m \in Range(mappings) : Hits(doc, m, r) /\ u = [cell |-> m.cell, raw |-> r.value]
  <2>1. \A i \in 1..n : e(r)[i] \in Update(V)
    BY <1>1 DEF Route, Reading, Update
  <2>2. K(r) \in SUBSET (1..n) /\ \A i \in K(r) : e(r)[i] \in Update(V)
    BY <2>1
  <2>3. Keeps(one(r), n, K(r), e(r))
    BY DEF Keeps
  <2>4. Kept(K(r), e(r)) = {[cell |-> m.cell, raw |-> r.value] : m \in {x \in Range(mappings) : Hits(doc, x, r)}}
    BY <1>1 DEF Kept, Range
  <2> HIDE DEF K, e, one
  <2>5. FlattenSeq(one(r)) \in Seq(Update(V)) /\ Range(FlattenSeq(one(r))) = Kept(K(r), e(r))
    BY <1>1, <2>2, <2>3, Selected, SMTT(30)
  <2> QED
    BY <2>4, <2>5
<1> HIDE DEF one
<1>5. ss \in [1..Len(readings) -> Seq(Update(V))]
  BY <1>2, <1>4
<1>6. ss \in Seq(Seq(Update(V))) /\ DOMAIN ss = DOMAIN readings
      /\ \A i \in DOMAIN readings : ss[i] = FlattenSeq(one(readings[i]))
  BY <1>2, <1>5
<1> HIDE DEF ss
<1>7. Updates(doc, mappings, readings) \in Seq(Update(V))
  BY <1>3, <1>6, Flattened
<1>8. ASSUME NEW u
      PROVE  u \in Range(Updates(doc, mappings, readings)) <=> IsUpdate(u, doc, mappings, readings)
  <2>1. u \in Range(Updates(doc, mappings, readings)) <=>
          \E i \in DOMAIN readings : u \in Range(FlattenSeq(one(readings[i])))
    BY <1>3, <1>6, Flattened
  <2>2. \A i \in DOMAIN readings :
          u \in Range(FlattenSeq(one(readings[i]))) <=>
            \E m \in Range(mappings) : Hits(doc, m, readings[i]) /\ u = [cell |-> m.cell, raw |-> readings[i].value]
    BY <1>2, <1>4
  <2>3. \A r : r \in Range(readings) <=> \E i \in DOMAIN readings : r = readings[i]
    BY DEF Range
  <2> QED
    BY <2>1, <2>2, <2>3 DEF IsUpdate
<1> QED
  BY <1>7, <1>8
=============================================================================

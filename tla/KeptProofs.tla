----------------------------- MODULE KeptProofs -----------------------------
(* What the loop of module Kept returns, for any sequence and any set.     *)
EXTENDS Kept, WellFoundedInduction, TLAPS

(* A set of naturals with an element has a least one.                      *)
LEMMA LeastNatural ==
    ASSUME NEW T \in SUBSET Nat, T # {}
    PROVE  \E n \in T : \A m \in T : n <= m
<1>1. PICK n \in T : \A m \in T : ~ (<<m, n>> \in OpToRel(<, Nat))
  BY NatLessThanWellFounded, WFMin
<1>2. ASSUME NEW m \in T PROVE n <= m
  <2>1. ~ (<<m, n>> \in OpToRel(<, Nat))
    BY <1>1
  <2>2. ~ (m < n)
    BY <2>1 DEF OpToRel
  <2> QED
    BY <2>2
<1> QED
  BY <1>2

(* Induction over the naturals, with the claim given as a set: from there  *)
(* the claim is about a constant and not about an operator.                *)
LEMMA SetInduction ==
    ASSUME NEW T, 0 \in T, \A n \in Nat : n \in T => n + 1 \in T
    PROVE  Nat \subseteq T
<1> SUFFICES ASSUME Nat \ T # {} PROVE FALSE
  OBVIOUS
<1>1. PICK n \in Nat \ T : \A m \in Nat \ T : n <= m
  BY LeastNatural
<1>2. n # 0 /\ n - 1 \in Nat
  BY <1>1
<1>3. n - 1 \in T
  BY <1>1, <1>2
<1> QED
  BY <1>1, <1>2, <1>3

(* The same for the naturals up to a bound.                                *)
LEMMA InductionUpTo ==
    ASSUME NEW T, NEW m \in Nat, 0 \in T,
           \A n \in Nat : n < m /\ n \in T => n + 1 \in T
    PROVE  \A n \in 0..m : n \in T
<1> DEFINE U == {n \in Nat : n <= m => n \in T}
<1>1. 0 \in U /\ \A n \in Nat : n \in U => n + 1 \in U
  OBVIOUS
<1> HIDE DEF U
<1>2. Nat \subseteq U
  BY <1>1, SetInduction
<1> QED
  BY <1>2 DEF U

(* Two sequences with the same elements are one.                           *)
LEMMA SeqIsSame ==
    ASSUME NEW S, NEW s \in Seq(S), NEW t \in Seq(S), Len(s) = Len(t),
           \A i \in 1..Len(s) : s[i] = t[i]
    PROVE  s = t
OBVIOUS

(* The recursion of Kept, as a property of a function.                     *)
Loops(f, s, T, m) ==
    f = [n \in 0..m |-> IF n = 0 THEN <<>>
                        ELSE IF s[n] \in T THEN Append(f[n - 1], s[n])
                        ELSE f[n - 1]]

(* Each state of the loop follows from the one before it.                  *)
LEMMA LoopStep ==
    ASSUME NEW f, NEW s, NEW T, NEW m \in Nat, Loops(f, s, T, m)
    PROVE  /\ f[0] = <<>>
           /\ \A n \in 1..m :
                  f[n] = IF s[n] \in T THEN Append(f[n - 1], s[n])
                         ELSE f[n - 1]
<1> DEFINE g == [n \in 0..m |-> IF n = 0 THEN <<>>
                                ELSE IF s[n] \in T THEN Append(f[n - 1], s[n])
                                ELSE f[n - 1]]
<1>1. f = g
  BY Zenon DEF Loops
<1>2. g[0] = <<>>
  OBVIOUS
<1>3. ASSUME NEW n \in 1..m
      PROVE  g[n] = IF s[n] \in T THEN Append(f[n - 1], s[n]) ELSE f[n - 1]
  OBVIOUS
<1> HIDE DEF g
<1> QED
  BY <1>1, <1>2, <1>3, Zenon

(* However far the loop is to go, there is a function that records it.     *)
LEMMA LoopExists ==
    ASSUME NEW s, NEW T, NEW m \in Nat
    PROVE  \E f : Loops(f, s, T, m)
<1> DEFINE Claim == {k \in Nat : \E f : Loops(f, s, T, k)}
<1>1. 0 \in Claim
  <2>1. Loops([n \in {0} |-> <<>>], s, T, 0)
    BY DEF Loops
  <2> QED
    BY <2>1
<1>2. ASSUME NEW k \in Nat, k \in Claim PROVE k + 1 \in Claim
  <2>1. PICK f : Loops(f, s, T, k)
    BY <1>2
  <2> DEFINE g == [n \in 0..(k + 1) |->
                       IF n <= k THEN f[n]
                       ELSE IF s[n] \in T THEN Append(f[k], s[n]) ELSE f[k]]
             h == [n \in 0..(k + 1) |->
                       IF n = 0 THEN <<>>
                       ELSE IF s[n] \in T THEN Append(g[n - 1], s[n])
                       ELSE g[n - 1]]
  <2>2. ASSUME NEW n \in 0..(k + 1) PROVE g[n] = h[n]
    <3>1. CASE n = 0
      <4>1. f[0] = <<>>
        BY <2>1, LoopStep
      <4> QED
        BY <3>1, <4>1
    <3>2. CASE n \in 1..k
      <4>1. f[n] = IF s[n] \in T THEN Append(f[n - 1], s[n]) ELSE f[n - 1]
        BY <2>1, <3>2, LoopStep
      <4>2. g[n] = f[n] /\ g[n - 1] = f[n - 1]
        BY <3>2
      <4>3. h[n] = IF s[n] \in T THEN Append(g[n - 1], s[n]) ELSE g[n - 1]
        BY <3>2
      <4> HIDE DEF g, h
      <4> QED
        BY <4>1, <4>2, <4>3
    <3>3. CASE n = k + 1
      <4>1. g[n] = IF s[n] \in T THEN Append(f[k], s[n]) ELSE f[k]
        BY <3>3
      <4>2. n - 1 = k /\ g[k] = f[k] /\ n # 0
        BY <3>3
      <4>3. h[n] = IF s[n] \in T THEN Append(g[n - 1], s[n]) ELSE g[n - 1]
        BY <4>2
      <4> HIDE DEF g, h
      <4> QED
        BY <4>1, <4>2, <4>3
    <3> QED
      BY <3>1, <3>2, <3>3
  <2>3. g = h
    BY <2>2
  <2>4. Loops(g, s, T, k + 1)
    BY <2>3, Zenon DEF Loops
  <2> QED
    BY <2>4
<1>3. Nat \subseteq Claim
  BY <1>1, <1>2, SetInduction
<1> QED
  BY <1>3

(* f records the states of the loop, of which Kept is the last.            *)
Records(f, S, s, T) ==
    /\ f \in [0..Len(s) -> Seq(S)]
    /\ f[0] = <<>>
    /\ \A n \in 0..(Len(s) - 1) :
           f[n + 1] = IF s[n + 1] \in T THEN Append(f[n], s[n + 1]) ELSE f[n]
    /\ Kept(s, T) = f[Len(s)]

(* Kept is made by such a loop.                                            *)
LEMMA KeptSteps ==
    ASSUME NEW S, NEW s \in Seq(S), NEW T
    PROVE  \E f : Records(f, S, s, T)
<1>1. PICK f : f = CHOOSE g : Loops(g, s, T, Len(s))
  OBVIOUS
<1>2. Loops(f, s, T, Len(s))
  BY <1>1, LoopExists, Len(s) \in Nat, Zenon
<1>3. Kept(s, T) = f[Len(s)]
  BY <1>1 DEF Kept, Loops
<1>4. /\ f[0] = <<>>
      /\ \A n \in 0..(Len(s) - 1) :
             f[n + 1] = IF s[n + 1] \in T THEN Append(f[n], s[n + 1]) ELSE f[n]
  <2>1. /\ f[0] = <<>>
        /\ \A n \in 1..Len(s) :
               f[n] = IF s[n] \in T THEN Append(f[n - 1], s[n]) ELSE f[n - 1]
    BY <1>2, LoopStep, Len(s) \in Nat
  <2>2. ASSUME NEW n \in 0..(Len(s) - 1)
        PROVE  n + 1 \in 1..Len(s) /\ (n + 1) - 1 = n
    OBVIOUS
  <2> QED
    BY <2>1, <2>2
<1> DEFINE Claim == {n \in Nat : f[n] \in Seq(S)}
<1>5. 0 \in Claim
  <2>1. f[0] = <<>> /\ <<>> \in Seq(S)
    BY <1>4
  <2> QED
    BY <2>1
<1>6. ASSUME NEW n \in Nat, n < Len(s), n \in Claim PROVE n + 1 \in Claim
  <2>1. f[n] \in Seq(S) /\ s[n + 1] \in S /\ n \in 0..(Len(s) - 1)
    BY <1>6
  <2>2. f[n + 1] = IF s[n + 1] \in T THEN Append(f[n], s[n + 1]) ELSE f[n]
    BY <1>4, <2>1
  <2>3. f[n + 1] \in Seq(S)
    BY <2>1, <2>2
  <2> QED
    BY <2>3
<1> HIDE DEF Claim
<1>7. \A n \in 0..Len(s) : n \in Claim
  <2>1. \A n \in Nat : n < Len(s) /\ n \in Claim => n + 1 \in Claim
    BY <1>6
  <2> QED
    BY <1>5, <2>1, InductionUpTo, Len(s) \in Nat
<1>8. DOMAIN f = 0..Len(s) /\ f = [n \in 0..Len(s) |-> f[n]]
  BY <1>2, Zenon DEF Loops
<1>9. f \in [0..Len(s) -> Seq(S)]
  BY <1>7, <1>8 DEF Claim
<1> QED
  BY <1>3, <1>4, <1>9 DEF Records

(* A kept element was there, and is in the set.                            *)
LEMMA KeptElements ==
    ASSUME NEW S, NEW s \in Seq(S), NEW T
    PROVE  /\ Kept(s, T) \in Seq(S)
           /\ \A j \in 1..Len(Kept(s, T)) :
                  /\ Kept(s, T)[j] \in T
                  /\ \E i \in 1..Len(s) : Kept(s, T)[j] = s[i]
           /\ \A i \in 1..Len(s) :
                  s[i] \in T => \E j \in 1..Len(Kept(s, T)) : Kept(s, T)[j] = s[i]
<1>1. PICK f : Records(f, S, s, T)
  BY KeptSteps
<1> DEFINE From(n) == \A j \in 1..Len(f[n]) :
                          f[n][j] \in T /\ \E i \in 1..n : f[n][j] = s[i]
           Into(n) == \A i \in 1..n :
                          s[i] \in T => \E j \in 1..Len(f[n]) : f[n][j] = s[i]
           Claim == {n \in Nat : From(n) /\ Into(n)}
<1>2. 0 \in Claim
  <2>1. Len(f[0]) = 0
    BY <1>1 DEF Records
  <2> QED
    BY <2>1
<1>3. ASSUME NEW n \in Nat, n < Len(s), n \in Claim PROVE n + 1 \in Claim
  <2> SUFFICES From(n + 1) /\ Into(n + 1)
    OBVIOUS
  <2>1. /\ From(n) /\ Into(n) /\ n + 1 \in 1..Len(s) /\ n \in 0..(Len(s) - 1)
        /\ s[n + 1] \in S /\ f[n] \in Seq(S) /\ Len(f[n]) \in Nat
    BY <1>1, <1>3, SMTT(30) DEF Records
  <2>2. f[n + 1] = IF s[n + 1] \in T THEN Append(f[n], s[n + 1]) ELSE f[n]
    BY <1>1, <2>1 DEF Records
  <2>3. CASE s[n + 1] \notin T
    <3>1. f[n + 1] = f[n]
      BY <2>2, <2>3
    <3>2. From(n + 1)
      BY <3>1, <2>1
    <3>3. ASSUME NEW i \in 1..(n + 1), s[i] \in T
          PROVE  \E j \in 1..Len(f[n + 1]) : f[n + 1][j] = s[i]
      <4>1. i \in 1..n
        BY <3>3, <2>3
      <4> QED
        BY <4>1, <3>3, <3>1, <2>1
    <3> QED
      BY <3>2, <3>3
  <2>4. CASE s[n + 1] \in T
    <3>1. f[n + 1] = Append(f[n], s[n + 1])
      BY <2>2, <2>4
    <3>2. /\ Len(f[n + 1]) = Len(f[n]) + 1
          /\ \A j \in 1..Len(f[n]) : f[n + 1][j] = f[n][j]
          /\ f[n + 1][Len(f[n]) + 1] = s[n + 1]
      BY <3>1, <2>1
    <3>3. ASSUME NEW j \in 1..Len(f[n + 1])
          PROVE  f[n + 1][j] \in T /\ \E i \in 1..(n + 1) : f[n + 1][j] = s[i]
      <4>1. CASE j \in 1..Len(f[n])
        <5>1. PICK i \in 1..n : f[n][j] = s[i]
          BY <4>1, <2>1
        <5>2. f[n + 1][j] = f[n][j] /\ f[n][j] \in T /\ i \in 1..(n + 1)
          BY <4>1, <3>2, <2>1
        <5> QED
          BY <5>1, <5>2
      <4>2. CASE j = Len(f[n]) + 1
        <5>1. f[n + 1][j] = s[n + 1] /\ n + 1 \in 1..(n + 1)
          BY <4>2, <3>2
        <5> QED
          BY <5>1, <2>4
      <4> QED
        BY <4>1, <4>2, <3>2, <2>1
    <3>4. ASSUME NEW i \in 1..(n + 1), s[i] \in T
          PROVE  \E j \in 1..Len(f[n + 1]) : f[n + 1][j] = s[i]
      <4>1. CASE i \in 1..n
        <5>1. PICK j \in 1..Len(f[n]) : f[n][j] = s[i]
          BY <4>1, <3>4, <2>1
        <5> QED
          BY <5>1, <3>2, <2>1
      <4>2. CASE i = n + 1
        <5>1. Len(f[n]) + 1 \in 1..Len(f[n + 1])
          BY <3>2, <2>1
        <5> QED
          BY <4>2, <3>2, <5>1
      <4> QED
        BY <4>1, <4>2
    <3> QED
      BY <3>3, <3>4
  <2> QED
    BY <2>3, <2>4
<1> HIDE DEF Claim
<1>4. Len(s) \in Claim
  <2>1. \A n \in Nat : n < Len(s) /\ n \in Claim => n + 1 \in Claim
    BY <1>3
  <2>2. \A n \in 0..Len(s) : n \in Claim
    BY <1>2, <2>1, InductionUpTo, Len(s) \in Nat, Zenon
  <2> QED
    BY <2>2, Len(s) \in Nat
<1> USE DEF Claim
<1>5. From(Len(s)) /\ Into(Len(s))
  BY <1>4
<1> QED
  BY <1>1, <1>5 DEF Records

(* What holds between every earlier and later element of a sequence holds  *)
(* between every earlier and later element that is kept of it.             *)
LEMMA KeptOrder ==
    ASSUME NEW S, NEW s \in Seq(S), NEW T, NEW R,
           \A i, j \in 1..Len(s) : i < j => <<s[i], s[j]>> \in R
    PROVE  \A i, j \in 1..Len(Kept(s, T)) :
               i < j => <<Kept(s, T)[i], Kept(s, T)[j]>> \in R
<1>1. PICK f : Records(f, S, s, T)
  BY KeptSteps
<1> DEFINE From(n) == \A j \in 1..Len(f[n]) : \E i \in 1..n : f[n][j] = s[i]
           Ordered(n) == \A i, j \in 1..Len(f[n]) :
                             i < j => <<f[n][i], f[n][j]>> \in R
           Claim == {n \in Nat : From(n) /\ Ordered(n)}
<1>2. 0 \in Claim
  <2>1. Len(f[0]) = 0
    BY <1>1 DEF Records
  <2> QED
    BY <2>1
<1>3. ASSUME NEW n \in Nat, n < Len(s), n \in Claim PROVE n + 1 \in Claim
  <2> SUFFICES From(n + 1) /\ Ordered(n + 1)
    OBVIOUS
  <2>1. /\ From(n) /\ Ordered(n) /\ n + 1 \in 1..Len(s) /\ n \in 0..(Len(s) - 1)
        /\ s[n + 1] \in S /\ f[n] \in Seq(S) /\ Len(f[n]) \in Nat
    BY <1>1, <1>3 DEF Records
  <2>2. f[n + 1] = IF s[n + 1] \in T THEN Append(f[n], s[n + 1]) ELSE f[n]
    BY <1>1, <2>1 DEF Records
  <2>3. CASE f[n + 1] = f[n]
    BY <2>3, <2>1
  <2>4. CASE f[n + 1] = Append(f[n], s[n + 1])
    <3>1. /\ Len(f[n + 1]) = Len(f[n]) + 1
          /\ \A j \in 1..Len(f[n]) : f[n + 1][j] = f[n][j]
          /\ f[n + 1][Len(f[n]) + 1] = s[n + 1]
      BY <2>4, <2>1
    <3>2. ASSUME NEW j \in 1..Len(f[n + 1])
          PROVE  \E i \in 1..(n + 1) : f[n + 1][j] = s[i]
      <4>1. CASE j \in 1..Len(f[n])
        <5>1. PICK i \in 1..n : f[n][j] = s[i]
          BY <4>1, <2>1
        <5>2. f[n + 1][j] = f[n][j] /\ i \in 1..(n + 1)
          BY <4>1, <3>1, <2>1
        <5> QED
          BY <5>1, <5>2
      <4>2. CASE j = Len(f[n]) + 1
        <5>1. f[n + 1][j] = s[n + 1] /\ n + 1 \in 1..(n + 1)
          BY <4>2, <3>1
        <5> QED
          BY <5>1
      <4> QED
        BY <4>1, <4>2, <3>1, <2>1
    <3>3. ASSUME NEW i \in 1..Len(f[n + 1]), NEW j \in 1..Len(f[n + 1]), i < j
          PROVE  <<f[n + 1][i], f[n + 1][j]>> \in R
      <4>1. i \in 1..Len(f[n])
        BY <3>3, <3>1, <2>1
      <4>2. CASE j \in 1..Len(f[n])
        BY <4>1, <4>2, <3>3, <3>1, <2>1
      <4>3. CASE j = Len(f[n]) + 1
        <5>1. PICK k \in 1..n : f[n][i] = s[k]
          BY <4>1, <2>1
        <5>2. k \in 1..Len(s) /\ k < n + 1 /\ n + 1 \in 1..Len(s)
          BY <2>1
        <5>3. <<s[k], s[n + 1]>> \in R
          BY <5>2
        <5>4. f[n + 1][i] = s[k] /\ f[n + 1][j] = s[n + 1]
          BY <4>1, <4>3, <5>1, <3>1
        <5> QED
          BY <5>3, <5>4
      <4> QED
        BY <4>2, <4>3, <3>1, <2>1
    <3> QED
      BY <3>2, <3>3
  <2> QED
    BY <2>2, <2>3, <2>4
<1> HIDE DEF Claim
<1>4. Len(s) \in Claim
  <2>1. \A n \in Nat : n < Len(s) /\ n \in Claim => n + 1 \in Claim
    BY <1>3
  <2>2. \A n \in 0..Len(s) : n \in Claim
    BY <1>2, <2>1, InductionUpTo, Len(s) \in Nat, Zenon
  <2> QED
    BY <2>2, Len(s) \in Nat
<1> USE DEF Claim
<1>5. Ordered(Len(s))
  BY <1>4
<1> QED
  BY <1>1, <1>5 DEF Records

(* Where the set has all the elements, the loop copies the sequence.       *)
LEMMA KeptAll ==
    ASSUME NEW S, NEW s \in Seq(S), NEW T, \A i \in 1..Len(s) : s[i] \in T
    PROVE  Kept(s, T) = s
<1>1. PICK f : Records(f, S, s, T)
  BY KeptSteps
<1> DEFINE Copied(n) == Len(f[n]) = n /\ \A i \in 1..n : f[n][i] = s[i]
           Claim == {n \in Nat : Copied(n)}
<1>2. 0 \in Claim
  <2>1. Len(f[0]) = 0
    BY <1>1 DEF Records
  <2> QED
    BY <2>1
<1>3. ASSUME NEW n \in Nat, n < Len(s), n \in Claim PROVE n + 1 \in Claim
  <2> SUFFICES Copied(n + 1)
    OBVIOUS
  <2>1. /\ Copied(n) /\ n + 1 \in 1..Len(s) /\ n \in 0..(Len(s) - 1)
        /\ s[n + 1] \in S /\ f[n] \in Seq(S)
    BY <1>1, <1>3 DEF Records
  <2>2. f[n + 1] = Append(f[n], s[n + 1])
    BY <1>1, <2>1 DEF Records
  <2>3. /\ Len(f[n + 1]) = n + 1
        /\ \A j \in 1..n : f[n + 1][j] = f[n][j]
        /\ f[n + 1][n + 1] = s[n + 1]
    BY <2>2, <2>1
  <2>4. ASSUME NEW i \in 1..(n + 1) PROVE f[n + 1][i] = s[i]
    <3>1. CASE i \in 1..n
      BY <3>1, <2>3, <2>1
    <3>2. CASE i = n + 1
      BY <3>2, <2>3
    <3> QED
      BY <3>1, <3>2
  <2> QED
    BY <2>3, <2>4
<1> HIDE DEF Claim
<1>4. Len(s) \in Claim
  <2>1. \A n \in Nat : n < Len(s) /\ n \in Claim => n + 1 \in Claim
    BY <1>3
  <2>2. \A n \in 0..Len(s) : n \in Claim
    BY <1>2, <2>1, InductionUpTo, Len(s) \in Nat, Zenon
  <2> QED
    BY <2>2, Len(s) \in Nat
<1> USE DEF Claim
<1>5. f[Len(s)] \in Seq(S) /\ Copied(Len(s))
  BY <1>1, <1>4 DEF Records
<1> QED
  BY <1>1, <1>5, SeqIsSame DEF Records

(* How many elements have been kept, at each state of the loop.            *)
LEMMA KeptCounts ==
    ASSUME NEW S, NEW s \in Seq(S), NEW T
    PROVE  \E c \in [0..Len(s) -> Nat] :
               /\ c[0] = 0
               /\ \A n \in 0..(Len(s) - 1) :
                      c[n + 1] = IF s[n + 1] \in T THEN c[n] + 1 ELSE c[n]
               /\ Len(Kept(s, T)) = c[Len(s)]
<1>1. PICK f : Records(f, S, s, T)
  BY KeptSteps
<1> DEFINE c == [n \in 0..Len(s) |-> Len(f[n])]
<1>2. c \in [0..Len(s) -> Nat]
  BY <1>1 DEF Records
<1>3. c[0] = 0 /\ Len(Kept(s, T)) = c[Len(s)]
  BY <1>1 DEF Records
<1>4. ASSUME NEW n \in 0..(Len(s) - 1)
      PROVE  c[n + 1] = IF s[n + 1] \in T THEN c[n] + 1 ELSE c[n]
  <2>1. f[n + 1] = IF s[n + 1] \in T THEN Append(f[n], s[n + 1]) ELSE f[n]
    BY <1>1 DEF Records
  <2>2. f[n] \in Seq(S) /\ s[n + 1] \in S
    BY <1>1 DEF Records
  <2>3. Len(f[n + 1]) = IF s[n + 1] \in T THEN Len(f[n]) + 1 ELSE Len(f[n])
    BY <2>1, <2>2
  <2>4. c[n + 1] = Len(f[n + 1]) /\ c[n] = Len(f[n])
    OBVIOUS
  <2> QED
    BY <2>3, <2>4
<1> QED
  BY <1>2, <1>3, <1>4

(* Of two sets without a common element, each element is kept for one.     *)
LEMMA KeptLengths ==
    ASSUME NEW S, NEW s \in Seq(S), NEW T, NEW U, T \cap U = {}
    PROVE  Len(Kept(s, T \cup U)) = Len(Kept(s, T)) + Len(Kept(s, U))
<1> DEFINE V == T \cup U
           m == Len(s)
<1>1. PICK c \in [0..m -> Nat] :
          /\ c[0] = 0
          /\ \A n \in 0..(m - 1) :
                 c[n + 1] = IF s[n + 1] \in T THEN c[n] + 1 ELSE c[n]
          /\ Len(Kept(s, T)) = c[m]
  BY KeptCounts, Zenon
<1>2. PICK d \in [0..m -> Nat] :
          /\ d[0] = 0
          /\ \A n \in 0..(m - 1) :
                 d[n + 1] = IF s[n + 1] \in U THEN d[n] + 1 ELSE d[n]
          /\ Len(Kept(s, U)) = d[m]
  BY KeptCounts, Zenon
<1>3. PICK e \in [0..m -> Nat] :
          /\ e[0] = 0
          /\ \A n \in 0..(m - 1) :
                 e[n + 1] = IF s[n + 1] \in V THEN e[n] + 1 ELSE e[n]
          /\ Len(Kept(s, V)) = e[m]
  <2> HIDE DEF V
  <2> QED
    BY KeptCounts, Zenon
<1>4. m \in Nat
  OBVIOUS
<1>5. \A n \in 0..(m - 1) :
          /\ s[n + 1] \in V <=> s[n + 1] \in T \/ s[n + 1] \in U
          /\ ~ (s[n + 1] \in T /\ s[n + 1] \in U)
  OBVIOUS
<1> HIDE DEF V, m
<1> DEFINE Claim == {n \in Nat : n <= m => e[n] = c[n] + d[n]}
<1>6. 0 \in Claim
  BY <1>1, <1>2, <1>3
<1>7. ASSUME NEW n \in Nat, n < m, n \in Claim PROVE n + 1 \in Claim
  <2>1. n \in 0..(m - 1) /\ n \in 0..m /\ e[n] = c[n] + d[n]
    BY <1>4, <1>7
  <2>2. c[n] \in Nat /\ d[n] \in Nat
    BY <2>1
  <2>3. e[n + 1] = c[n + 1] + d[n + 1]
    <3>1. c[n + 1] = IF s[n + 1] \in T THEN c[n] + 1 ELSE c[n]
      BY <1>1, <2>1
    <3>2. d[n + 1] = IF s[n + 1] \in U THEN d[n] + 1 ELSE d[n]
      BY <1>2, <2>1
    <3>3. e[n + 1] = IF s[n + 1] \in V THEN e[n] + 1 ELSE e[n]
      BY <1>3, <2>1
    <3>4. /\ s[n + 1] \in V <=> s[n + 1] \in T \/ s[n + 1] \in U
          /\ ~ (s[n + 1] \in T /\ s[n + 1] \in U)
      BY <1>5, <2>1
    <3> QED
      BY <2>1, <2>2, <3>1, <3>2, <3>3, <3>4
  <2> QED
    BY <2>3
<1>8. m \in Claim
  <2> HIDE DEF Claim
  <2>1. \A n \in Nat : n < m /\ n \in Claim => n + 1 \in Claim
    BY <1>7
  <2>2. \A n \in 0..m : n \in Claim
    BY <1>4, <1>6, <2>1, InductionUpTo
  <2> QED
    BY <1>4, <2>2
<1>9. e[m] = c[m] + d[m]
  BY <1>8
<1> QED
  BY <1>1, <1>2, <1>3, <1>9 DEF V

=============================================================================

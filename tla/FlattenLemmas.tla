--------------------------- MODULE FlattenLemmas ---------------------------
(***************************************************************************)
(* What FlattenSeq of SequencesExt computes: appending a sequence, taking  *)
(* one away at the front, and the first element of the result.  The        *)
(* definition is a recursive function; its properties are proved by        *)
(* looking at the least index where they would fail.                       *)
(***************************************************************************)
EXTENDS Naturals, Sequences, SequencesExt, SequenceTheorems, NaturalsInduction,
        WellFoundedInduction, TLAPS

(* A non-empty set of natural numbers has a least element.                 *)
LEMMA LeastNumber ==
  ASSUME NEW S, \A x \in S : x \in Nat, S # {}
  PROVE  \E m \in S : \A y \in S : m <= y
  <1>1. S \subseteq Nat
    OBVIOUS
  <1>2. PICK m \in S : \A y \in S : ~ (<<y, m>> \in OpToRel(<, Nat))
    BY <1>1, NatLessThanWellFounded, WFMin
  <1>3. ASSUME NEW y \in S, y < m PROVE FALSE
    <2>1. <<y, m>> \in OpToRel(<, Nat)
      BY <1>1, <1>3 DEF OpToRel
    <2>2. QED
      BY <1>2, <2>1
  <1>4. QED
    BY <1>1, <1>3

(* What is left of a sequence without its first element.                   *)
LEMMA TailFields ==
  ASSUME NEW S, NEW s \in Seq(S), s # <<>>
  PROVE  /\ Tail(s) \in Seq(S) /\ Len(Tail(s)) = Len(s) - 1 /\ Len(s) \in Nat \ {0}
         /\ \A i \in 1 .. Len(Tail(s)) : Tail(s)[i] = s[i + 1] /\ i + 1 \in 1 .. Len(s)
         /\ Head(s) = s[1] /\ s[1] \in S /\ 1 \in 1 .. Len(s)
  OBVIOUS

(* The parts of a concatenation.                                           *)
LEMMA ConcatFields ==
  ASSUME NEW S, NEW s \in Seq(S), NEW t \in Seq(S)
  PROVE  /\ s \o t \in Seq(S) /\ Len(s \o t) = Len(s) + Len(t)
         /\ Len(s) \in Nat /\ Len(t) \in Nat
         /\ \A i \in 1 .. Len(s) : (s \o t)[i] = s[i]
         /\ \A i \in 1 .. Len(t) : (s \o t)[Len(s) + i] = t[i]
         /\ \A i \in 1 .. Len(s \o t) :
              i \in 1 .. Len(s) \/ (i > Len(s) /\ i - Len(s) \in 1 .. Len(t) /\ i = Len(s) + (i - Len(s)))
  OBVIOUS

(* Concatenation is associative.                                           *)
LEMMA Associative ==
  ASSUME NEW S, NEW a \in Seq(S), NEW b \in Seq(S), NEW c \in Seq(S)
  PROVE  (a \o b) \o c = a \o (b \o c)
  OBVIOUS

\* f flattens the first n sequences of s, one after the other.
Accumulates(s, n, f) ==
  f = [i \in 1 .. n |-> IF i = 1 THEN s[i] ELSE f[i - 1] \o s[i]]

(* Such a function exists.                                                 *)
LEMMA PrefixesExist ==
  ASSUME NEW s, NEW n \in Nat
  PROVE  \E f : Accumulates(s, n, f)
  <1> DEFINE Bad == {k \in Nat : \A f : ~Accumulates(s, k, f)}
  <1>1. ASSUME Bad # {} PROVE FALSE
    <2>0. \A x \in Bad : x \in Nat
      OBVIOUS
    <2>1. PICK k \in Bad : \A y \in Bad : k <= y
      BY <1>1, <2>0, LeastNumber, Zenon
    <2>2. CASE k = 0
      <3>1. Accumulates(s, 0, [i \in 1 .. 0 |-> 0])
        BY DEF Accumulates
      <3>2. QED
        BY <2>1, <2>2, <3>1
    <2>3. CASE k # 0
      <3>1. k - 1 \in Nat /\ k - 1 \notin Bad
        BY <2>1, <2>3
      <3>2. PICK f : Accumulates(s, k - 1, f)
        BY <3>1
      <3> DEFINE g == [i \in 1 .. k |-> IF i = k
                         THEN IF k = 1 THEN s[1] ELSE f[k - 1] \o s[k] ELSE f[i]]
      <3>3. \A i \in 1 .. k : g[i] = IF i = 1 THEN s[i] ELSE g[i - 1] \o s[i]
        <4> TAKE i \in 1 .. k
        <4>1. CASE i = k
          <5>1. CASE k = 1
            BY <4>1, <5>1
          <5>2. CASE k # 1
            <6>1. k - 1 \in 1 .. k /\ g[k - 1] = f[k - 1]
              BY <5>2, <2>3, <2>1
            <6>2. QED
              BY <4>1, <5>2, <6>1
          <5>3. QED
            BY <5>1, <5>2
        <4>2. CASE i # k
          <5>1. i \in 1 .. (k - 1) /\ g[i] = f[i]
            BY <4>2, <2>1
          <5>2. f[i] = IF i = 1 THEN s[i] ELSE f[i - 1] \o s[i]
            BY <5>1, <3>2 DEF Accumulates
          <5>3. i # 1 => i - 1 \in 1 .. k /\ g[i - 1] = f[i - 1]
            BY <5>1, <2>1
          <5>4. QED
            BY <5>1, <5>2, <5>3
        <4>3. QED
          BY <4>1, <4>2
      <3>4. g = [i \in 1 .. k |-> IF i = 1 THEN s[i] ELSE g[i - 1] \o s[i]]
        <4> HIDE DEF g
        <4>1. g = [i \in 1 .. k |-> g[i]]
          BY DEF g
        <4>2. QED
          BY <4>1, <3>3
      <3>5. Accumulates(s, k, g)
        BY <3>4 DEF Accumulates
      <3>6. QED
        BY <2>1, <3>5
    <2>4. QED
      BY <2>2, <2>3
  <1>2. QED
    BY <1>1

(* What a prefix flattens to depends on the sequences in it only.          *)
LEMMA PrefixesAgree ==
  ASSUME NEW s, NEW t, NEW m \in Nat, NEW n \in Nat, m <= n, NEW f, NEW g,
         Accumulates(s, m, f), Accumulates(t, n, g), \A i \in 1 .. m : s[i] = t[i]
  PROVE  \A i \in 1 .. m : f[i] = g[i]
  <1> DEFINE Bad == {i \in 1 .. m : f[i] # g[i]}
  <1>1. ASSUME Bad # {} PROVE FALSE
    <2>0. \A x \in Bad : x \in Nat
      OBVIOUS
    <2>1. PICK k \in Bad : \A y \in Bad : k <= y
      BY <1>1, <2>0, LeastNumber, Zenon
    <2>2. k \in 1 .. m /\ k \in 1 .. n /\ s[k] = t[k]
      BY <2>1
    <2>3. /\ f[k] = IF k = 1 THEN s[k] ELSE f[k - 1] \o s[k]
          /\ g[k] = IF k = 1 THEN t[k] ELSE g[k - 1] \o t[k]
      BY <2>2 DEF Accumulates
    <2>4. k # 1 => f[k - 1] = g[k - 1]
      BY <2>1, <2>2
    <2>5. QED
      BY <2>1, <2>2, <2>3, <2>4
  <1>2. QED
    BY <1>1

(* A prefix flattens to a sequence.                                        *)
LEMMA PrefixesType ==
  ASSUME NEW S, NEW s \in Seq(Seq(S)), NEW f, Accumulates(s, Len(s), f)
  PROVE  \A i \in 1 .. Len(s) : f[i] \in Seq(S)
  <1> DEFINE Bad == {i \in 1 .. Len(s) : f[i] \notin Seq(S)}
  <1>1. ASSUME Bad # {} PROVE FALSE
    <2>0. \A x \in Bad : x \in Nat
      OBVIOUS
    <2>1. PICK k \in Bad : \A y \in Bad : k <= y
      BY <1>1, <2>0, LeastNumber, Zenon
    <2>2. k \in 1 .. Len(s) /\ s[k] \in Seq(S)
      BY <2>1
    <2>3. f[k] = IF k = 1 THEN s[k] ELSE f[k - 1] \o s[k]
      BY <2>2 DEF Accumulates
    <2>4. k # 1 => f[k - 1] \in Seq(S)
      BY <2>1, <2>2
    <2>5. k # 1 => f[k - 1] \o s[k] \in Seq(S)
      BY <2>2, <2>4, ConcatProperties
    <2>6. QED
      BY <2>1, <2>2, <2>3, <2>5
  <1>2. QED
    BY <1>1

(* FlattenSeq is the last of the prefixes.                                 *)
LEMMA Flattened ==
  ASSUME NEW S, NEW s \in Seq(Seq(S))
  PROVE  /\ s = <<>> => FlattenSeq(s) = <<>>
         /\ s # <<>> => \E f : /\ Accumulates(s, Len(s), f)
                               /\ FlattenSeq(s) = f[Len(s)]
         /\ FlattenSeq(s) \in Seq(S)
  <1>1. ASSUME s = <<>> PROVE FlattenSeq(s) = <<>>
    BY <1>1 DEF FlattenSeq
  <1>2. ASSUME s # <<>>
        PROVE  \E f : Accumulates(s, Len(s), f) /\ FlattenSeq(s) = f[Len(s)] /\ FlattenSeq(s) \in Seq(S)
    <2>1. Len(s) \in Nat /\ Len(s) # 0
      BY <1>2
    <2>2. FlattenSeq(s) = (CHOOSE f : Accumulates(s, Len(s), f))[Len(s)]
      BY <2>1 DEF FlattenSeq, Accumulates
    <2>3. Accumulates(s, Len(s), CHOOSE f : Accumulates(s, Len(s), f))
      BY <2>1, PrefixesExist
    <2>4. (CHOOSE f : Accumulates(s, Len(s), f))[Len(s)] \in Seq(S)
      BY <2>1, <2>3, PrefixesType
    <2>5. QED
      BY <2>2, <2>3, <2>4
  <1>3. <<>> \in Seq(S)
    OBVIOUS
  <1>4. QED
    BY <1>1, <1>2, <1>3

(* A sequence appended is a sequence added at the end.                      *)
LEMMA FlattenAppend ==
  ASSUME NEW S, NEW s \in Seq(Seq(S)), NEW x \in Seq(S)
  PROVE  FlattenSeq(Append(s, x)) = FlattenSeq(s) \o x
  <1> DEFINE t == Append(s, x)
             n == Len(s)
  <1>1. t \in Seq(Seq(S)) /\ Len(t) = n + 1 /\ t # <<>> /\ t[n + 1] = x /\ n \in Nat
    BY AppendProperties
  <1>2. \A i \in 1 .. n : s[i] = t[i]
    BY AppendProperties
  <1> HIDE DEF t, n
  <1>3. PICK g : Accumulates(t, n + 1, g) /\ FlattenSeq(t) = g[n + 1]
    BY <1>1, Flattened
  <1>4. g[n + 1] = IF n + 1 = 1 THEN t[n + 1] ELSE g[(n + 1) - 1] \o t[n + 1]
    <2>1. n + 1 \in 1 .. (n + 1)
      BY <1>1
    <2>2. QED
      BY <1>3, <2>1 DEF Accumulates
  <1>5. CASE s = <<>>
    <2>1. FlattenSeq(s) = <<>> /\ n = 0
      BY <1>5, Flattened DEF n
    <2>2. <<>> \o x = x
      OBVIOUS
    <2>3. QED
      BY <1>1, <1>3, <1>4, <2>1, <2>2 DEF t
  <1>6. CASE s # <<>>
    <2>1. PICK f : Accumulates(s, n, f) /\ FlattenSeq(s) = f[n]
      BY <1>6, Flattened DEF n
    <2>2. n \in 1 .. n /\ n + 1 # 1 /\ (n + 1) - 1 = n /\ n <= n + 1 /\ n + 1 \in Nat
      BY <1>6, <1>1 DEF n
    <2>3. f[n] = g[n]
      <3>0. n \in Nat /\ n + 1 \in Nat /\ n <= n + 1
        BY <1>1
      <3>1. \A i \in 1 .. n : f[i] = g[i]
        BY <1>2, <1>3, <2>1, <3>0, PrefixesAgree
      <3>2. QED
        BY <2>2, <3>1
    <2>4. QED
      BY <1>1, <1>3, <1>4, <2>1, <2>2, <2>3 DEF t
  <1>7. QED
    BY <1>5, <1>6

(* The first sequence comes first.                                         *)
LEMMA FlattenCons ==
  ASSUME NEW S, NEW s \in Seq(Seq(S)), s # <<>>
  PROVE  FlattenSeq(s) = Head(s) \o FlattenSeq(Tail(s))
  <1> DEFINE t == Tail(s)
             n == Len(s)
  <1>1. /\ t \in Seq(Seq(S)) /\ n \in Nat /\ Len(t) = n - 1 /\ n >= 1 /\ Head(s) = s[1]
        /\ s[1] \in Seq(S) /\ \A i \in 1 .. (n - 1) : t[i] = s[i + 1] /\ t[i] \in Seq(S)
    OBVIOUS
  <1>2. PICK f : Accumulates(s, n, f) /\ FlattenSeq(s) = f[n]
    BY Flattened
  <1> HIDE DEF t, n
  <1>3. \A i \in 1 .. n : f[i] = IF i = 1 THEN s[i] ELSE f[i - 1] \o s[i]
    BY <1>2 DEF Accumulates
  <1>4. CASE t = <<>>
    <2>1. FlattenSeq(t) = <<>> /\ n = 1
      <3>1. Len(t) = 0
        BY <1>4
      <3>2. FlattenSeq(t) = <<>>
        BY <1>1, <1>4, Flattened
      <3>3. QED
        BY <1>1, <3>1, <3>2
    <2>2. s[1] \o <<>> = s[1]
      BY <1>1
    <2>3. QED
      BY <1>1, <1>2, <1>3, <2>1, <2>2 DEF t
  <1>5. CASE t # <<>>
    <2>1. PICK h : Accumulates(t, n - 1, h) /\ FlattenSeq(t) = h[n - 1]
      BY <1>1, <1>5, Flattened
    <2>2. \A i \in 1 .. (n - 1) : h[i] = IF i = 1 THEN t[i] ELSE h[i - 1] \o t[i]
      BY <2>1 DEF Accumulates
    <2>3. \A i \in 1 .. (n - 1) : h[i] \in Seq(S)
      BY <1>1, <2>1, PrefixesType
    <2> DEFINE Bad == {i \in 1 .. (n - 1) : f[i + 1] # s[1] \o h[i]}
    <2>4. ASSUME Bad # {} PROVE FALSE
      <3>0. \A x \in Bad : x \in Nat
        BY <1>1
      <3>1. PICK k \in Bad : \A y \in Bad : k <= y
        BY <2>4, <3>0, LeastNumber, Zenon
      <3>2. k \in 1 .. (n - 1) /\ k + 1 \in 1 .. n /\ k + 1 # 1 /\ (k + 1) - 1 = k /\ k \in 1 .. n
        BY <3>1, <1>1
      <3>3. f[k + 1] = f[k] \o s[k + 1] /\ t[k] = s[k + 1]
        BY <1>1, <1>3, <3>2
      <3>4. CASE k = 1
        <4>1. f[1] = s[1] /\ h[1] = t[1]
          BY <1>3, <2>2, <3>2, <3>4
        <4>2. QED
          BY <3>1, <3>3, <3>4, <4>1
      <3>5. CASE k # 1
        <4>0. k - 1 \in 1 .. (n - 1) /\ ~(k <= k - 1) /\ (k - 1) + 1 = k
          BY <1>1, <3>2, <3>5
        <4>1. k - 1 \notin Bad
          BY <3>1, <4>0, Zenon
        <4>2. f[k] = s[1] \o h[k - 1]
          BY <4>0, <4>1
        <4>3. h[k] = h[k - 1] \o t[k]
          BY <2>2, <3>2, <3>5
        <4>4. (s[1] \o h[k - 1]) \o t[k] = s[1] \o (h[k - 1] \o t[k])
          <5>1. s[1] \in Seq(S) /\ h[k - 1] \in Seq(S) /\ t[k] \in Seq(S)
            BY <1>1, <2>3, <3>2, <4>0
          <5>2. PICK a \in Seq(S), b \in Seq(S), c \in Seq(S) : a = s[1] /\ b = h[k - 1] /\ c = t[k]
            BY <5>1
          <5>3. (a \o b) \o c = a \o (b \o c)
            OBVIOUS
          <5>4. QED
            BY <5>2, <5>3
        <4>5. QED
          BY <3>1, <3>3, <4>2, <4>3, <4>4
      <3>6. QED
        BY <3>4, <3>5
    <2>5. n - 1 \in 1 .. (n - 1) /\ (n - 1) + 1 = n
      BY <1>1, <1>5
    <2>6. f[n] = s[1] \o h[n - 1]
      BY <2>4, <2>5
    <2>7. QED
      BY <1>1, <1>2, <2>1, <2>6 DEF t
  <1>6. QED
    BY <1>4, <1>5

(* A concatenation begins with what its first part begins with.            *)
LEMMA ConcatFirst ==
  ASSUME NEW S, NEW a \in Seq(S), NEW b \in Seq(S), a # <<>>
  PROVE  a \o b # <<>> /\ (a \o b)[1] = a[1]
  OBVIOUS

(* A flattened sequence begins with the first element there is.            *)
LEMMA FlattenFirst ==
  ASSUME NEW S, NEW s \in Seq(Seq(S)), FlattenSeq(s) # <<>>
  PROVE  \E j \in 1 .. Len(s) : /\ s[j] # <<>> /\ FlattenSeq(s)[1] = s[j][1]
                                /\ \A i \in 1 .. (j - 1) : s[i] = <<>>
  <1>1. s # <<>>
    BY Flattened
  <1>2. PICK f : Accumulates(s, Len(s), f) /\ FlattenSeq(s) = f[Len(s)]
    BY <1>1, Flattened
  <1>3. /\ Len(s) \in Nat /\ Len(s) \in 1 .. Len(s)
        /\ \A i \in 1 .. Len(s) : s[i] \in Seq(S) /\ f[i] \in Seq(S)
    BY <1>1, <1>2, PrefixesType
  <1>4. \A i \in 1 .. Len(s) : f[i] = IF i = 1 THEN s[i] ELSE f[i - 1] \o s[i]
    BY <1>2 DEF Accumulates
  <1> DEFINE Some == {i \in 1 .. Len(s) : f[i] # <<>>}
  <1>5. PICK j \in Some : \A y \in Some : j <= y
    <2>1. Len(s) \in Some
      BY <1>2, <1>3
    <2>2. \A x \in Some : x \in Nat
      BY <1>3
    <2>3. QED
      BY <2>1, <2>2, LeastNumber, Zenon
  <1>6. \A i \in 1 .. (j - 1) : f[i] = <<>>
    BY <1>5
  <1>7. j \in 1 .. Len(s)
    BY <1>5
  <1>8. f[j] = s[j]
    <2>1. CASE j = 1
      BY <1>4, <1>7, <2>1
    <2>2. CASE j # 1
      <3>1. j - 1 \in 1 .. (j - 1)
        BY <1>7, <2>2
      <3>2. f[j - 1] = <<>>
        BY <3>1, <1>6
      <3>3. <<>> \o s[j] = s[j]
        BY <1>3, <1>7
      <3>4. QED
        BY <1>4, <1>7, <2>2, <3>2, <3>3
    <2>3. QED
      BY <2>1, <2>2
  <1>9. \A i \in 1 .. (j - 1) : s[i] = <<>>
    <2> TAKE i \in 1 .. (j - 1)
    <2>1. i \in 1 .. Len(s) /\ f[i] = <<>> /\ s[i] \in Seq(S)
      BY <1>3, <1>6, <1>7
    <2>2. CASE i = 1
      BY <1>4, <2>1, <2>2
    <2>3. CASE i # 1
      <3>1. i - 1 \in 1 .. (j - 1)
        BY <2>3, <1>7
      <3>2. f[i - 1] = <<>> /\ f[i] = f[i - 1] \o s[i]
        BY <1>4, <1>6, <2>1, <2>3, <3>1
      <3>3. <<>> \o s[i] = s[i]
        BY <2>1
      <3>4. QED
        BY <2>1, <3>2, <3>3
    <2>4. QED
      BY <2>2, <2>3
  <1> DEFINE Bad == {i \in j .. Len(s) : f[i] = <<>> \/ f[i][1] # s[j][1]}
  <1>10. ASSUME Bad # {} PROVE FALSE
    <2>1. PICK k \in Bad : \A y \in Bad : k <= y
      <3>1. \A x \in Bad : x \in Nat
        BY <1>7
      <3>2. QED
        BY <3>1, <1>10, LeastNumber
    <2>2. k \in j .. Len(s) /\ k \in 1 .. Len(s)
      BY <2>1, <1>7
    <2>3. k # j
      BY <2>1, <1>5, <1>8
    <2>4. k - 1 \in j .. Len(s) /\ k - 1 \notin Bad /\ k # 1 /\ k - 1 \in 1 .. Len(s)
      BY <2>1, <2>2, <2>3, <1>7
    <2>5. f[k - 1] # <<>> /\ f[k - 1][1] = s[j][1]
      BY <2>4
    <2>6. f[k] = f[k - 1] \o s[k] /\ f[k - 1] \in Seq(S) /\ s[k] \in Seq(S)
      BY <1>3, <1>4, <2>2, <2>4
    <2>7. f[k] # <<>> /\ f[k][1] = f[k - 1][1]
      <3>1. \A a, b \in Seq(S) : a # <<>> => a \o b # <<>> /\ (a \o b)[1] = a[1]
        BY ConcatFirst
      <3>2. QED
        BY <2>5, <2>6, <3>1
    <2>8. QED
      BY <2>1, <2>5, <2>7
  <1>11. Len(s) \in j .. Len(s)
    BY <1>3, <1>7
  <1>12. f[Len(s)][1] = s[j][1]
    BY <1>10, <1>11
  <1>13. QED
    BY <1>2, <1>5, <1>7, <1>8, <1>9, <1>12

(* Appending to the second part of a concatenation.                        *)
LEMMA AppendToConcat ==
  ASSUME NEW T, NEW a \in Seq(T), NEW b \in Seq(T), NEW x \in T
  PROVE  a \o Append(b, x) = Append(a \o b, x) /\ a \o b \in Seq(T)
  OBVIOUS

(* Two sequences flattened one after the other.                            *)
LEMMA FlattenConcat ==
  ASSUME NEW S, NEW a \in Seq(Seq(S)), NEW b \in Seq(Seq(S))
  PROVE  FlattenSeq(a \o b) = FlattenSeq(a) \o FlattenSeq(b)
  <1> DEFINE c(k) == SubSeq(b, 1, k)
             Bad == {k \in 0 .. Len(b) : FlattenSeq(a \o c(k)) # FlattenSeq(a) \o FlattenSeq(c(k))}
  <1>1. Len(b) \in Nat /\ c(0) = <<>> /\ c(Len(b)) = b
    OBVIOUS
  <1>2. \A k \in 0 .. Len(b) : c(k) \in Seq(Seq(S)) /\ Len(c(k)) = k
    OBVIOUS
  <1>3. \A k \in 1 .. Len(b) : c(k) = Append(c(k - 1), b[k]) /\ b[k] \in Seq(S)
    <2> TAKE k \in 1 .. Len(b)
    <2>1. k - 1 \in 0 .. Len(b) /\ k \in 0 .. Len(b) /\ b[k] \in Seq(S)
      BY <1>1
    <2>2. /\ c(k) \in Seq(Seq(S)) /\ Len(c(k)) = k
          /\ \A i \in 1 .. k : c(k)[i] = b[i]
      BY <2>1
    <2>3. /\ c(k - 1) \in Seq(Seq(S)) /\ Len(c(k - 1)) = k - 1
          /\ \A i \in 1 .. (k - 1) : c(k - 1)[i] = b[i]
      BY <2>1
    <2> HIDE DEF c
    <2>4. /\ Append(c(k - 1), b[k]) \in Seq(Seq(S)) /\ Len(Append(c(k - 1), b[k])) = (k - 1) + 1
          /\ \A i \in 1 .. (k - 1) : Append(c(k - 1), b[k])[i] = c(k - 1)[i]
          /\ Append(c(k - 1), b[k])[(k - 1) + 1] = b[k]
      BY <2>1, <2>3, AppendProperties
    <2>5. (k - 1) + 1 = k /\ \A i \in 1 .. k : i \in 1 .. (k - 1) \/ i = k
      BY <2>1
    <2>6. \A i \in 1 .. Len(c(k)) : c(k)[i] = Append(c(k - 1), b[k])[i]
      <3>1. c(k)[k] = Append(c(k - 1), b[k])[k]
        <4>1. k \in 1 .. k
          BY <2>1
        <4>2. c(k)[k] = b[k]
          BY <2>2, <4>1
        <4>3. QED
          BY <2>4, <2>5, <4>2
      <3>2. \A i \in 1 .. (k - 1) : c(k)[i] = Append(c(k - 1), b[k])[i]
        <4>1. \A i \in 1 .. (k - 1) : i \in 1 .. k
          BY <2>1
        <4>2. QED
          BY <2>2, <2>3, <2>4, <4>1, Zenon
      <3>3. QED
        BY <2>2, <2>5, <3>1, <3>2
    <2>7. c(k) = Append(c(k - 1), b[k])
      BY <2>2, <2>4, <2>5, <2>6, SeqEqual
    <2>8. QED
      BY <2>1, <2>7
  <1> HIDE DEF c
  <1>4. ASSUME Bad # {} PROVE FALSE
    <2>1. \A x \in Bad : x \in Nat
      BY <1>1
    <2>2. PICK k \in Bad : \A y \in Bad : k <= y
      BY <1>4, <2>1, LeastNumber, Zenon
    <2>3. k \in 0 .. Len(b) /\ FlattenSeq(a \o c(k)) # FlattenSeq(a) \o FlattenSeq(c(k))
      BY <2>2
    <2>4. CASE k = 0
      <3>1. a \o <<>> = a
        OBVIOUS
      <3>2. FlattenSeq(c(k)) = <<>>
        BY <1>1, <1>2, <2>4, Flattened
      <3>3. FlattenSeq(a) \in Seq(S)
        BY Flattened
      <3>4. FlattenSeq(a) \o <<>> = FlattenSeq(a)
        BY <3>3, ConcatEmptySeq
      <3>5. QED
        BY <1>1, <2>3, <2>4, <3>1, <3>2, <3>4
    <2>5. CASE k # 0
      <3>1. k \in 1 .. Len(b) /\ k - 1 \in 0 .. Len(b) /\ ~(k <= k - 1)
        BY <1>1, <2>3, <2>5
      <3>2. k - 1 \notin Bad
        BY <2>2, <3>1
      <3>3. PICK d \in Seq(Seq(S)), x \in Seq(S) : d = c(k - 1) /\ x = b[k] /\ c(k) = Append(d, x)
        BY <1>2, <1>3, <3>1
      <3>4. FlattenSeq(a \o d) = FlattenSeq(a) \o FlattenSeq(d)
        BY <3>1, <3>2, <3>3
      <3>5. a \o Append(d, x) = Append(a \o d, x) /\ a \o d \in Seq(Seq(S))
        BY AppendToConcat
      <3>6. FlattenSeq(Append(a \o d, x)) = FlattenSeq(a \o d) \o x
        BY <3>5, FlattenAppend
      <3>7. FlattenSeq(Append(d, x)) = FlattenSeq(d) \o x
        BY FlattenAppend
      <3>8. FlattenSeq(a) \in Seq(S) /\ FlattenSeq(d) \in Seq(S)
        BY Flattened
      <3>9. (FlattenSeq(a) \o FlattenSeq(d)) \o x = FlattenSeq(a) \o (FlattenSeq(d) \o x)
        <4>1. PICK A \in Seq(S), D \in Seq(S) : A = FlattenSeq(a) /\ D = FlattenSeq(d)
          BY <3>8
        <4>2. (A \o D) \o x = A \o (D \o x)
          BY SMTT(30)
        <4>3. QED
          BY <4>1, <4>2
      <3>10. QED
        BY <2>3, <3>3, <3>4, <3>5, <3>6, <3>7, <3>9
    <2>6. QED
      BY <2>4, <2>5
  <1>5. Len(b) \in 0 .. Len(b)
    BY <1>1
  <1>6. FlattenSeq(a \o c(Len(b))) = FlattenSeq(a) \o FlattenSeq(c(Len(b)))
    BY <1>4, <1>5, Zenon
  <1>7. QED
    BY <1>1, <1>6

(* Short sequences, and what follows a position in them.                   *)
LEMMA Single ==
  ASSUME NEW S, NEW s \in Seq(S), Len(s) = 1
  PROVE  s = <<s[1]>>
  OBVIOUS

LEMMA Pair ==
  ASSUME NEW S, NEW s \in Seq(S), Len(s) = 2
  PROVE  s = <<s[1], s[2]>>
  OBVIOUS

LEMMA Triple ==
  ASSUME NEW S, NEW s \in Seq(S), Len(s) = 3
  PROVE  s = <<s[1], s[2], s[3]>>
  OBVIOUS

LEMMA Slice ==
  ASSUME NEW S, NEW s \in Seq(S), NEW m \in 1 .. Len(s)
  PROVE  /\ SubSeq(s, m, Len(s)) \in Seq(S) /\ Len(SubSeq(s, m, Len(s))) = Len(s) + 1 - m
         /\ \A i \in 1 .. (Len(s) + 1 - m) : SubSeq(s, m, Len(s))[i] = s[m - 1 + i]
  OBVIOUS

LEMMA WholeSlice ==
  ASSUME NEW S, NEW s \in Seq(S), s # <<>>
  PROVE  SubSeq(s, 1, Len(s)) = s
  OBVIOUS

LEMMA LastSlice ==
  ASSUME NEW S, NEW s \in Seq(S), s # <<>>
  PROVE  SubSeq(s, Len(s), Len(s)) = <<s[Len(s)]>>
  <1>1. Len(s) \in 1 .. Len(s) /\ Len(s) + 1 - Len(s) = 1 /\ 1 \in 1 .. 1 /\ Len(s) - 1 + 1 = Len(s)
    OBVIOUS
  <1>2. PICK m \in 1 .. Len(s) : m = Len(s)
    BY <1>1
  <1>3. PICK t \in Seq(S) : t = SubSeq(s, m, Len(s))
    BY Slice
  <1>4. Len(t) = Len(s) + 1 - m /\ \A i \in 1 .. (Len(s) + 1 - m) : t[i] = s[m - 1 + i]
    BY <1>3, Slice
  <1>5. Len(t) = 1 /\ t[1] = s[Len(s)]
    BY <1>1, <1>2, <1>4
  <1>6. QED
    BY <1>2, <1>3, <1>5, Single

LEMMA TwoElements ==
  ASSUME NEW S, NEW a \in S, NEW b \in S
  PROVE  <<a>> \o <<b>> = <<a, b>>
  <1>1. <<a>> \o <<b>> \in Seq(S) /\ Len(<<a>> \o <<b>>) = 2
    OBVIOUS
  <1>2. (<<a>> \o <<b>>)[1] = a /\ (<<a>> \o <<b>>)[2] = b
    OBVIOUS
  <1>3. QED
    BY <1>1, <1>2, Pair

LEMMA ThreeElements ==
  ASSUME NEW S, NEW a \in S, NEW b \in S, NEW c \in S
  PROVE  <<a>> \o <<b, c>> = <<a, b, c>>
  <1>1. <<a>> \o <<b, c>> \in Seq(S) /\ Len(<<a>> \o <<b, c>>) = 3
    OBVIOUS
  <1>2. (<<a>> \o <<b, c>>)[1] = a
    OBVIOUS
  <1>3. (<<a>> \o <<b, c>>)[2] = b
    OBVIOUS
  <1>4. (<<a>> \o <<b, c>>)[3] = c
    OBVIOUS
  <1>5. QED
    BY <1>1, <1>2, <1>3, <1>4, Triple

LEMMA MiddleSlice ==
  ASSUME NEW S, NEW s \in Seq(S), Len(s) = 3
  PROVE  SubSeq(s, 2, 3) = <<s[2], s[3]>>
  <1>1. PICK m \in 1 .. Len(s) : m = 2
    OBVIOUS
  <1>2. PICK t \in Seq(S) : t = SubSeq(s, m, Len(s))
    BY Slice
  <1>3. Len(t) = Len(s) + 1 - m /\ \A i \in 1 .. (Len(s) + 1 - m) : t[i] = s[m - 1 + i]
    BY <1>2, Slice
  <1>4. Len(s) + 1 - m = 2 /\ m - 1 + 1 = 2 /\ m - 1 + 2 = 3 /\ 1 \in 1 .. 2 /\ 2 \in 1 .. 2
    BY <1>1
  <1>5. Len(t) = 2 /\ t[1] = s[2] /\ t[2] = s[3]
    BY <1>3, <1>4
  <1>6. QED
    BY <1>1, <1>2, <1>5, Pair

=============================================================================

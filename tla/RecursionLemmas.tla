--------------------------- MODULE RecursionLemmas --------------------------
(***************************************************************************)
(* Recursion along a sequence: that the functions which fold one exist,    *)
(* that they are determined by their equation, and what follows for        *)
(* FlattenSeq, for Selection, which is built on it, and for the registry's *)
(* Extend, which folds a list of tools.  Induction is by the least         *)
(* counterexample, which a well-founded relation on the naturals has.      *)
(***************************************************************************)
EXTENDS Selections, ToolRegistry, Integers, SequenceTheorems, WellFoundedInduction, TLAPS

\* A set of naturals has a least element.
LEMMA LeastElement ==
  ASSUME NEW S \in SUBSET Nat, S # {}
  PROVE  \E x \in S : \A y \in S : x <= y
<1> DEFINE R == {p \in Nat \X Nat : p[1] < p[2]}
<1>1. IsWellFoundedOn(R, Nat)
  BY NatLessThanWellFounded DEF OpToRel
<1>2. \E x \in S : \A y \in S : ~ (<<y, x>> \in R)
  <2> HIDE DEF R
  <2> QED
    BY <1>1, WFMin
<1>3. \A x, y \in Nat : <<y, x>> \in R <=> y < x
  OBVIOUS
<1> HIDE DEF R
<1>4. \A x, y \in S : <<y, x>> \in R <=> y < x
  BY <1>3
<1>5. \A x, y \in S : ~ (y < x) => x <= y
  OBVIOUS
<1> QED
  BY <1>2, <1>4, <1>5

\* Min is that element.
LEMMA MinIsLeast ==
  ASSUME NEW S \in SUBSET Nat, S # {}
  PROVE  Min(S) \in S /\ \A x \in S : Min(S) <= x
BY LeastElement DEF Min

\* A set of naturals up to n has a greatest element.
LEMMA GreatestElement ==
  ASSUME NEW n \in Nat, NEW S \in SUBSET (1..n), S # {}
  PROVE  \E x \in S : \A y \in S : y <= x
<1> DEFINE U == {m \in Nat : \A y \in S : y <= m}
<1>1. PICK m \in U : \A u \in U : m <= u
  <2>1. U \in SUBSET Nat /\ n \in U
    OBVIOUS
  <2> HIDE DEF U
  <2> QED
    BY <2>1, LeastElement
<1>2. CASE m \notin S
  <2>1. PICK y \in S : y \in 1..n /\ y <= m
    OBVIOUS
  <2>2. m - 1 \in Nat /\ \A z \in S : z <= m - 1
    BY <1>2, <2>1
  <2> QED
    BY <1>1, <2>1, <2>2
<1> QED
  BY <1>2

\* Induction up to n: a set that holds 0 and the successor of each number below
\* n that it holds.
LEMMA InductionUpTo ==
  ASSUME NEW n \in Nat, NEW S, 0 \in S, \A k \in 1..n : k - 1 \in S => k \in S
  PROVE  \A k \in 0..n : k \in S
<1> DEFINE B == {k \in 0..n : k \notin S}
<1> SUFFICES ASSUME B # {} PROVE FALSE
  OBVIOUS
<1>1. PICK x \in B : \A y \in B : x <= y
  <2> B \in SUBSET Nat
    OBVIOUS
  <2> HIDE DEF B
  <2> QED
    BY LeastElement
<1>2. x \in 1..n /\ x - 1 \in 0..n
  OBVIOUS
<1>3. x - 1 \notin B
  BY <1>1, <1>2
<1> QED
  BY <1>2, <1>3

\* f and g take the same steps, up to n.
StepAlike(f, g, n) == \A k \in 1..n : f[k - 1] = g[k - 1] => f[k] = g[k]

Agree(f, g, n) == \A k \in 0..n : f[k] = g[k]

\* Two functions with the same first value and the same steps agree.
LEMMA Agreement ==
  ASSUME NEW n \in Nat, NEW f, NEW g, f[0] = g[0], StepAlike(f, g, n)
  PROVE  Agree(f, g, n)
<1> DEFINE S == {k \in 0..n : f[k] = g[k]}
<1>1. 0 \in S
  OBVIOUS
<1>2. \A k \in 1..n : k - 1 \in S => k \in S
  BY DEF StepAlike
<1>3. \A k \in 0..n : k \in S
  <2> HIDE DEF S
  <2> QED
    BY <1>1, <1>2, InductionUpTo
<1> QED
  BY <1>3 DEF Agree

\* f starts from b and takes n steps of G, which knows how far it has come.
Iterates(f, b, G, n) == f[0] = b /\ \A k \in 1..n : f[k] = G[<<f[k - 1], k>>]

\* Any step on a set can be iterated.
LEMMA Recursion ==
  ASSUME NEW X, NEW b \in X, NEW n \in Nat, NEW G \in [X \X (1..n) -> X]
  PROVE  \E f \in [0..n -> X] : Iterates(f, b, G, n)
<1> DEFINE S == {m \in 0..n : \E f \in [0..m -> X] : Iterates(f, b, G, m)}
<1>1. 0 \in S
  <2>1. [k \in 0..0 |-> b] \in [0..0 -> X] /\ Iterates([k \in 0..0 |-> b], b, G, 0)
    BY DEF Iterates
  <2> QED
    BY <2>1
<1>2. ASSUME NEW m \in 1..n, m - 1 \in S PROVE m \in S
  <2>1. PICK f \in [0..(m - 1) -> X] : Iterates(f, b, G, m - 1)
    BY <1>2
  <2> DEFINE g == [k \in 0..m |-> IF k = m THEN G[<<f[m - 1], m>>] ELSE f[k]]
  <2>2. G[<<f[m - 1], m>>] \in X
    OBVIOUS
  <2>3. g \in [0..m -> X]
    BY <2>2
  <2>4. g[0] = b
    BY <2>1 DEF Iterates
  <2>5. ASSUME NEW k \in 1..m PROVE g[k] = G[<<g[k - 1], k>>]
    <3>1. k - 1 \in 0..m /\ k - 1 # m /\ g[k - 1] = f[k - 1]
      OBVIOUS
    <3>2. k \in 1..(m - 1) => g[k] = f[k] /\ f[k] = G[<<f[k - 1], k>>]
      BY <2>1 DEF Iterates
    <3>3. k = m => g[k] = G[<<f[k - 1], k>>]
      OBVIOUS
    <3> QED
      BY <3>1, <3>2, <3>3
  <2>6. Iterates(g, b, G, m)
    BY <2>4, <2>5 DEF Iterates
  <2>7. \E h \in [0..m -> X] : Iterates(h, b, G, m)
    <3> HIDE DEF g
    <3> QED
      BY <2>3, <2>6
  <2>8. m \in 0..n
    OBVIOUS
  <2> QED
    BY <2>7, <2>8
<1>3. n \in S
  <2> HIDE DEF S
  <2> QED
    BY <1>1, <1>2, InductionUpTo
<1> QED
  BY <1>3

-----------------------------------------------------------------------------

\* f holds the concatenations of the prefixes of s, up to n.
Concatenates(f, s, n) == f[0] = <<>> /\ \A k \in 1..n : f[k] = f[k - 1] \o s[k]

\* G concatenates the n pieces of s, one by one, to what is in X, which holds the
\* empty sequence e.
Flattens(G, X, e, s, n) ==
  /\ e \in X /\ e = <<>>
  /\ n \in Nat /\ n = Len(s) /\ (n = 0 => s = e)
  /\ G \in [X \X (1..n) -> X]
  /\ \A x \in X : \A k \in 1..n : G[<<x, k>>] = x \o s[k]
  /\ n # 0 => G[<<e, 1>>] = s[1]

\* FlattenSeq(s) is the last of the concatenations of s's prefixes.
FlattensBySteps(s, n, X) ==
  \E f \in [0..n -> X] : Concatenates(f, s, n) /\ FlattenSeq(s) = f[n]

\* FlattenSeq is a fold over the empty base and the sequence.
LEMMA FlattenSeqFold ==
  ASSUME NEW X, NEW e, NEW s, NEW n, NEW G, Flattens(G, X, e, s, n)
  PROVE  FlattensBySteps(s, n, X)
<1> USE DEF Flattens
<1> DEFINE Step(g) == [i \in 1..n |-> IF i = 1 THEN s[i] ELSE g[i - 1] \o s[i]]
           flatten == CHOOSE g : g = Step(g)
<1>1. PICK f \in [0..n -> X] : Iterates(f, e, G, n)
  BY Recursion
<1>2. ASSUME NEW k \in 1..n PROVE f[k] = f[k - 1] \o s[k]
  <2>1. k - 1 \in 0..n /\ f[k - 1] \in X
    OBVIOUS
  <2>2. f[k] = G[<<f[k - 1], k>>]
    BY <1>1 DEF Iterates
  <2> QED
    BY <2>1, <2>2
<1>3. 1 \in 1..n => f[1] = s[1]
  <2>1. 1 \in 1..n => f[1] = G[<<f[1 - 1], 1>>]
    BY <1>1 DEF Iterates
  <2> QED
    BY <1>1, <2>1 DEF Iterates
<1> HIDE DEF flatten
<1> DEFINE direct == [i \in 1..n |-> f[i]]
<1>4. direct = Step(direct)
  <2>1. ASSUME NEW i \in 1..n
        PROVE  f[i] = IF i = 1 THEN s[i] ELSE direct[i - 1] \o s[i]
    <3>1. i # 1 => i - 1 \in 1..n /\ direct[i - 1] = f[i - 1]
      OBVIOUS
    <3> QED
      BY <1>2, <1>3, <3>1
  <2> QED
    BY <2>1
<1>5. flatten = Step(flatten)
  <2> HIDE DEF Step, direct
  <2> QED
    BY <1>4 DEF flatten
<1>6. \A k \in 1..n : flatten[k] = f[k]
  <2> DEFINE padded == [k \in 0..n |-> IF k = 0 THEN e ELSE flatten[k]]
  <2>1. padded[0] = f[0]
    BY <1>1 DEF Iterates
  <2>2. ASSUME NEW k \in 1..n, padded[k - 1] = f[k - 1]
        PROVE  padded[k] = f[k]
    <3>1. padded[k] = flatten[k]
      OBVIOUS
    <3>2. flatten[k] = IF k = 1 THEN s[k] ELSE flatten[k - 1] \o s[k]
      BY <1>5
    <3>3. k # 1 => flatten[k - 1] = padded[k - 1]
      OBVIOUS
    <3> HIDE DEF padded
    <3>4. CASE k = 1
      BY <1>3, <3>1, <3>2, <3>4
    <3>5. CASE k # 1
      <4>1. flatten[k] = f[k - 1] \o s[k]
        BY <2>2, <3>2, <3>3, <3>5
      <4> QED
        BY <1>2, <3>1, <4>1
    <3> QED
      BY <3>4, <3>5
  <2>3. Agree(padded, f, n)
    <3> HIDE DEF padded
    <3>1. StepAlike(padded, f, n)
      BY <2>2 DEF StepAlike
    <3> QED
      BY <2>1, <3>1, Agreement
  <2> QED
    BY <2>3 DEF Agree
<1>7. FlattenSeq(s) = f[n]
  <2>1. CASE n = 0
    BY <1>1, <2>1 DEF FlattenSeq, Iterates
  <2>2. CASE n # 0
    <3>1. FlattenSeq(s) = flatten[n]
      BY <2>2 DEF FlattenSeq, flatten
    <3> QED
      BY <1>6, <2>2, <3>1
  <2> QED
    BY <2>1, <2>2
<1>8. Concatenates(f, s, n)
  BY <1>1, <1>2 DEF Iterates, Concatenates
<1> QED
  BY <1>7, <1>8 DEF FlattensBySteps

\* A function on 1..n is a sequence of length n.
LEMMA SequenceLength ==
  ASSUME NEW X, NEW n \in Nat, NEW s \in [1..n -> X]
  PROVE  s \in Seq(X) /\ Len(s) = n
OBVIOUS

\* FlattenSeqFold, for n sequences over E.
LEMMA FlattenSeqFoldOver ==
  ASSUME NEW E, NEW n \in Nat, NEW s \in [1..n -> Seq(E)]
  PROVE  FlattensBySteps(s, n, Seq(E))
<1> DEFINE G == [p \in Seq(E) \X (1..n) |-> p[1] \o s[p[2]]]
<1>1. n = Len(s) /\ (n = 0 => s = <<>>)
  BY SequenceLength, EmptySeq
<1>2. G \in [Seq(E) \X (1..n) -> Seq(E)]
  BY ConcatProperties
<1>3. \A x \in Seq(E) : \A k \in 1..n : G[<<x, k>>] = x \o s[k]
  OBVIOUS
<1>4. <<>> \in Seq(E)
  OBVIOUS
<1>5. n # 0 => G[<<<<>>, 1>>] = s[1]
  <2>1. n # 0 => 1 \in 1..n /\ s[1] \in Seq(E)
    OBVIOUS
  <2>2. n # 0 => G[<<<<>>, 1>>] = <<>> \o s[1]
    BY <1>4, <2>1
  <2> QED
    BY <2>1, <2>2, ConcatEmptySeq
<1> HIDE DEF G
<1>6. Flattens(G, Seq(E), <<>>, s, n)
  BY <1>1, <1>2, <1>3, <1>4, <1>5 DEF Flattens
<1> QED
  BY <1>6, FlattenSeqFold

\* What pieces flatten to is made of what they are made of.
LEMMA FlattenSeqType ==
  ASSUME NEW E, NEW n \in Nat, NEW s \in [1..n -> Seq(E)]
  PROVE  FlattenSeq(s) \in Seq(E)
BY FlattenSeqFoldOver DEF FlattensBySteps

\* One more piece is flattened to the right of those before it.
LEMMA FlattenSeqMore ==
  ASSUME NEW E, NEW n \in Nat, NEW s \in [1..n -> Seq(E)],
         NEW u \in [1..(n + 1) -> Seq(E)], \A k \in 1..n : u[k] = s[k]
  PROVE  FlattenSeq(u) = FlattenSeq(s) \o u[n + 1]
<1>1. PICK m \in Nat : m = n + 1
  OBVIOUS
<1>2. u \in [1..m -> Seq(E)]
  BY <1>1
<1>3. PICK f \in [0..n -> Seq(E)] : Concatenates(f, s, n) /\ FlattenSeq(s) = f[n]
  BY FlattenSeqFoldOver DEF FlattensBySteps
<1>4. PICK g \in [0..m -> Seq(E)] : Concatenates(g, u, m) /\ FlattenSeq(u) = g[m]
  BY <1>2, FlattenSeqFoldOver DEF FlattensBySteps
<1>5. ASSUME NEW k \in 1..n, f[k - 1] = g[k - 1] PROVE f[k] = g[k]
  <2>1. f[k] = f[k - 1] \o s[k]
    BY <1>3 DEF Concatenates
  <2>2. k \in 1..m
    BY <1>1
  <2>3. g[k] = g[k - 1] \o u[k]
    BY <1>4, <2>2 DEF Concatenates
  <2> QED
    BY <1>5, <2>1, <2>3
<1>6. f[n] = g[n]
  <2>1. f[0] = g[0]
    BY <1>3, <1>4 DEF Concatenates
  <2>2. Agree(f, g, n)
    BY <1>5, <2>1, Agreement DEF StepAlike
  <2> QED
    BY <2>2 DEF Agree
<1>7. g[m] = g[m - 1] \o u[m]
  <2>1. m \in 1..m
    BY <1>1
  <2> QED
    BY <1>4, <2>1 DEF Concatenates
<1>8. m - 1 = n
  BY <1>1
<1> QED
  BY <1>1, <1>3, <1>4, <1>6, <1>7, <1>8

\* The pieces u and v are the same, up to n; v's are empty, after n.
SameBeginning(u, v, n) == \A k \in 1..n : u[k] = v[k]
EmptyAfter(v, n, m) == \A k \in (n + 1)..m : v[k] = <<>>

\* z is x and then y.
IsJoined(z, x, y) == z = x \o y

\* The same, with the number of pieces named.
LEMMA FlattenSeqNext ==
  ASSUME NEW E, NEW l \in Nat, NEW m \in Nat, m = l + 1,
         NEW a \in [1..l -> Seq(E)], NEW b \in [1..m -> Seq(E)], SameBeginning(a, b, l)
  PROVE  IsJoined(FlattenSeq(b), FlattenSeq(a), b[m])
BY FlattenSeqMore DEF SameBeginning, IsJoined

\* Pieces that are all empty.
LEMMA FlattenSeqOfEmpty ==
  ASSUME NEW E, NEW n \in Nat, NEW s \in [1..n -> Seq(E)], \A k \in 1..n : s[k] = <<>>
  PROVE  FlattenSeq(s) = <<>>
<1>1. PICK f \in [0..n -> Seq(E)] : Concatenates(f, s, n) /\ FlattenSeq(s) = f[n]
  BY FlattenSeqFoldOver DEF FlattensBySteps
<1> DEFINE S == {k \in 0..n : f[k] = <<>>}
<1>2. 0 \in S
  BY <1>1 DEF Concatenates
<1>3. ASSUME NEW k \in 1..n, k - 1 \in S PROVE k \in S
  <2>1. f[k] = f[k - 1] \o s[k]
    BY <1>1 DEF Concatenates
  <2>2. f[k - 1] = <<>> /\ s[k] = <<>>
    BY <1>3
  <2>3. f[k] = <<>>
    BY <2>1, <2>2
  <2> QED
    BY <2>3
<1>4. \A k \in 0..n : k \in S
  <2> HIDE DEF S
  <2> QED
    BY <1>2, <1>3, InductionUpTo
<1> QED
  BY <1>1, <1>4

\* Nothing, flattened.
LEMMA FlattenSeqEmpty == FlattenSeq(<<>>) = <<>>
BY DEF FlattenSeq

-----------------------------------------------------------------------------

\* off counts what comes before each piece of s, up to n.
Offsets(off, s, n) == off[0] = 0 /\ \A k \in 1..n : off[k] = off[k - 1] + Len(s[k])

\* off places each element of the pieces in flat, and nothing else is there.
Layout(off, s, n, flat) ==
  /\ Offsets(off, s, n)
  /\ Len(flat) = off[n]
  /\ \A a, b \in 0..n : a <= b => off[a] <= off[b]
  /\ \A k \in 1..n : \A j \in 1..Len(s[k]) :
       off[k - 1] + j \in 1..off[n] /\ flat[off[k - 1] + j] = s[k][j]
  /\ \A i \in 1..off[n] : \E k \in 1..n : \E j \in 1..Len(s[k]) : i = off[k - 1] + j

\* Offsets never fall.
LEMMA CountsGrow ==
  ASSUME NEW n \in Nat, NEW off \in [0..n -> Nat], NEW s, Offsets(off, s, n),
         \A k \in 1..n : Len(s[k]) \in Nat
  PROVE  \A a, b \in 0..n : a <= b => off[a] <= off[b]
<1> SUFFICES ASSUME NEW a \in 0..n PROVE \A b \in 0..n : a <= b => off[a] <= off[b]
  OBVIOUS
<1> DEFINE S == {b \in 0..n : a <= b => off[a] <= off[b]}
<1>1. 0 \in S
  OBVIOUS
<1>2. ASSUME NEW k \in 1..n, k - 1 \in S PROVE k \in S
  <2>1. off[k] = off[k - 1] + Len(s[k]) /\ Len(s[k]) \in Nat
    BY DEF Offsets
  <2>2. k - 1 \in 0..n /\ (a <= k - 1 => off[a] <= off[k - 1])
    BY <1>2
  <2>3. a <= k => off[a] <= off[k]
    <3>1. CASE a = k
      BY <3>1
    <3>2. CASE a # k
      BY <2>1, <2>2, <3>2
    <3> QED
      BY <3>1, <3>2
  <2> QED
    BY <2>3
<1>3. \A b \in 0..n : b \in S
  <2> HIDE DEF S
  <2> QED
    BY <1>1, <1>2, InductionUpTo
<1> QED
  BY <1>3

\* Everything flattened is found at its count.
LEMMA FlattenSeqLayout ==
  ASSUME NEW E, NEW n \in Nat, NEW s \in [1..n -> Seq(E)]
  PROVE  FlattenSeq(s) \in Seq(E) /\ \E off \in [0..n -> Nat] : Layout(off, s, n, FlattenSeq(s))
<1>1. PICK f \in [0..n -> Seq(E)] : Concatenates(f, s, n) /\ FlattenSeq(s) = f[n]
  BY FlattenSeqFoldOver DEF FlattensBySteps
<1> DEFINE off == [k \in 0..n |-> Len(f[k])]
<1>2. \A k \in 0..n : f[k] \in Seq(E) /\ Len(f[k]) \in Nat /\ off[k] = Len(f[k])
  OBVIOUS
<1>3. off \in [0..n -> Nat]
  BY <1>2
<1>4. ASSUME NEW k \in 1..n
      PROVE  /\ k - 1 \in 0..n /\ k \in 0..n
             /\ off[k] = off[k - 1] + Len(s[k])
             /\ \A j \in 1..off[k - 1] : f[k][j] = f[k - 1][j]
             /\ \A j \in 1..Len(s[k]) : f[k][off[k - 1] + j] = s[k][j]
  <2>1. k - 1 \in 0..n /\ k \in 0..n
    OBVIOUS
  <2>2. f[k] = f[k - 1] \o s[k] /\ s[k] \in Seq(E) /\ f[k - 1] \in Seq(E)
    BY <1>1, <1>2, <2>1 DEF Concatenates
  <2>3. PICK x, y \in Seq(E) : x = f[k - 1] /\ y = s[k]
    BY <2>2
  <2>4. /\ Len(x \o y) = Len(x) + Len(y)
        /\ \A j \in 1..Len(x) : (x \o y)[j] = x[j]
        /\ \A j \in 1..Len(y) : (x \o y)[Len(x) + j] = y[j]
    OBVIOUS
  <2>5. off[k - 1] = Len(x) /\ off[k] = Len(x \o y) /\ f[k] = x \o y
    BY <1>2, <2>1, <2>2, <2>3
  <2> HIDE DEF off
  <2> QED
    BY <2>1, <2>3, <2>4, <2>5
<1>5. \A k \in 1..n : Len(s[k]) \in Nat
  OBVIOUS
<1>6. f[0] = <<>>
  BY <1>1 DEF Concatenates
<1>7. Offsets(off, s, n)
  <2>1. off[0] = 0
    BY <1>2, <1>6
  <2> HIDE DEF off
  <2> QED
    BY <1>4, <2>1 DEF Offsets
<1> HIDE DEF off
<1>8. \A a, b \in 0..n : a <= b => off[a] <= off[b]
  BY <1>3, <1>5, <1>7, CountsGrow
<1> DEFINE Told(k) == /\ \A m \in 1..k : \A j \in 1..Len(s[m]) : f[k][off[m - 1] + j] = s[m][j]
                      /\ \A i \in 1..off[k] : \E m \in 1..k : \E j \in 1..Len(s[m]) : i = off[m - 1] + j
           S == {k \in 0..n : Told(k)}
<1>9. 0 \in S
  BY <1>7 DEF Offsets
<1>10. ASSUME NEW k \in 1..n, k - 1 \in S PROVE k \in S
  <2>1. Told(k - 1)
    BY <1>10
  <2>2. PICK p \in Nat : p = off[k - 1] /\ off[k] = p + Len(s[k]) /\ Len(s[k]) \in Nat
    BY <1>3, <1>4, <1>5
  <2>3. ASSUME NEW m \in 1..k, NEW j \in 1..Len(s[m]) PROVE f[k][off[m - 1] + j] = s[m][j]
    <3>1. CASE m = k
      BY <1>4, <3>1
    <3>2. CASE m # k
      <4>1. m \in 1..(k - 1) /\ m \in 1..n /\ m - 1 \in 0..n /\ m \in 0..n /\ k - 1 \in 0..n
        BY <3>2
      <4>2. f[k - 1][off[m - 1] + j] = s[m][j]
        BY <2>1, <4>1
      <4>3. off[m] = off[m - 1] + Len(s[m]) /\ off[m - 1] \in Nat /\ off[m] <= off[k - 1]
        BY <1>3, <1>4, <1>8, <4>1
      <4>4. off[m - 1] + j \in 1..off[k - 1]
        <5>1. PICK a, b, l \in Nat : a = off[m - 1] /\ b = off[k - 1] /\ l = Len(s[m])
          BY <1>3, <1>5, <4>1
        <5>2. off[m] = a + l /\ off[m] <= b /\ j \in 1..l
          BY <4>3, <5>1
        <5>3. a + j \in 1..b
          BY <5>2
        <5> QED
          BY <5>1, <5>3
      <4>5. \A q \in 1..off[k - 1] : f[k][q] = f[k - 1][q]
        BY <1>4
      <4> QED
        BY <4>2, <4>4, <4>5
    <3> QED
      BY <3>1, <3>2
  <2>4. ASSUME NEW i \in 1..off[k]
        PROVE  \E m \in 1..k : \E j \in 1..Len(s[m]) : i = off[m - 1] + j
    <3>1. CASE i <= p
      <4>1. PICK m \in 1..(k - 1) : \E j \in 1..Len(s[m]) : i = off[m - 1] + j
        BY <2>1, <2>2, <3>1
      <4>2. m \in 1..k
        OBVIOUS
      <4> QED
        BY <4>1, <4>2
    <3>2. CASE ~ (i <= p)
      <4>1. i - p \in 1..Len(s[k]) /\ i = off[k - 1] + (i - p) /\ k \in 1..k
        <5>1. PICK l \in Nat : l = Len(s[k])
          BY <2>2
        <5>2. i \in 1..(p + l) /\ i > p
          BY <2>2, <3>2, <5>1
        <5>3. i - p \in 1..l /\ i = p + (i - p)
          BY <5>2
        <5> QED
          BY <2>2, <5>1, <5>3
      <4> QED
        BY <4>1
    <3> QED
      BY <3>1, <3>2
  <2>5. Told(k) /\ k \in 0..n
    BY <2>3, <2>4
  <2> QED
    BY <2>5
<1>11. \A k \in 0..n : k \in S
  <2> HIDE DEF S
  <2> QED
    BY <1>9, <1>10, InductionUpTo
<1>12. Told(n) /\ n \in 0..n
  BY <1>11
<1>13. Len(f[n]) = off[n]
  BY <1>2, <1>12 DEF off
<1>14. ASSUME NEW k \in 1..n, NEW j \in 1..Len(s[k]) PROVE off[k - 1] + j \in 1..off[n]
  <2>1. k - 1 \in 0..n /\ k \in 0..n /\ off[k] <= off[n] /\ off[k - 1] \in Nat /\ off[n] \in Nat
    BY <1>3, <1>8, <1>12
  <2> QED
    BY <1>4, <1>5, <2>1
<1>15. Layout(off, s, n, f[n])
  BY <1>7, <1>8, <1>12, <1>13, <1>14 DEF Layout
<1> QED
  BY <1>1, <1>2, <1>3, <1>12, <1>15

SameLengths(u, v, n) == \A k \in 1..n : Len(u[k]) = Len(v[k])

\* Pieces of the same lengths are counted alike.
LEMMA CountsAgree ==
  ASSUME NEW n \in Nat, NEW m \in Nat, n <= m, NEW u, NEW v, NEW f, NEW g,
         Offsets(f, u, n), Offsets(g, v, m), SameLengths(u, v, n)
  PROVE  Agree(f, g, n)
<1>1. ASSUME NEW k \in 1..n, f[k - 1] = g[k - 1] PROVE f[k] = g[k]
  <2>1. k \in 1..m
    OBVIOUS
  <2>2. f[k] = f[k - 1] + Len(u[k]) /\ g[k] = g[k - 1] + Len(v[k]) /\ Len(u[k]) = Len(v[k])
    BY <2>1 DEF Offsets, SameLengths
  <2> QED
    BY <1>1, <2>2
<1>2. f[0] = g[0]
  BY DEF Offsets
<1> QED
  BY <1>1, <1>2, Agreement DEF StepAlike

\* y starts with x.
Starts(x, y) == Len(x) <= Len(y) /\ \A i \in 1..Len(x) : y[i] = x[i]

\* It is no more than x if what follows is empty.
ExtendsTo(x, y, v, n, m) == Starts(x, y) /\ (EmptyAfter(v, n, m) => y = x)

\* The same pieces flattened, and then more of them, start with what those alone
\* make; and are no more if the others are empty.
LEMMA FlattenSeqExtends ==
  ASSUME NEW E, NEW n \in Nat, NEW m \in Nat, n <= m,
         NEW u \in [1..n -> Seq(E)], NEW v \in [1..m -> Seq(E)], SameBeginning(u, v, n)
  PROVE  ExtendsTo(FlattenSeq(u), FlattenSeq(v), v, n, m)
<1>1. PICK x \in Seq(E) : x = FlattenSeq(u)
  BY FlattenSeqLayout
<1>2. PICK y \in Seq(E) : y = FlattenSeq(v)
  BY FlattenSeqLayout
<1>3. PICK f \in [0..n -> Nat] : Layout(f, u, n, x)
  BY <1>1, FlattenSeqLayout
<1>4. PICK g \in [0..m -> Nat] : Layout(g, v, m, y)
  BY <1>2, FlattenSeqLayout
<1>5. \A k \in 0..n : f[k] = g[k]
  <2>1. Offsets(f, u, n) /\ Offsets(g, v, m) /\ SameLengths(u, v, n)
    BY <1>3, <1>4 DEF Layout, SameLengths, SameBeginning
  <2>2. Agree(f, g, n)
    BY <2>1, CountsAgree
  <2> QED
    BY <2>2 DEF Agree
<1>6. Len(x) = f[n] /\ Len(y) = g[m] /\ g[n] <= g[m] /\ f[n] = g[n]
  <2>1. Len(x) = f[n] /\ Len(y) = g[m]
    BY <1>3, <1>4 DEF Layout
  <2>2. n \in 0..n /\ n \in 0..m /\ m \in 0..m
    OBVIOUS
  <2>3. g[n] <= g[m]
    BY <1>4, <2>2 DEF Layout
  <2> QED
    BY <1>5, <2>1, <2>2, <2>3
<1>7. ASSUME NEW i \in 1..Len(x) PROVE y[i] = x[i]
  <2>a. PICK k \in 1..n : \E j \in 1..Len(u[k]) : i = f[k - 1] + j
    BY <1>3, <1>6 DEF Layout
  <2>1. PICK j \in 1..Len(u[k]) : i = f[k - 1] + j
    BY <2>a
  <2>2. x[f[k - 1] + j] = u[k][j]
    BY <1>3 DEF Layout
  <2>3. k \in 1..m /\ j \in 1..Len(v[k]) /\ u[k] = v[k] /\ k - 1 \in 0..n
    BY DEF SameBeginning
  <2>4. y[g[k - 1] + j] = v[k][j]
    BY <1>4, <2>3 DEF Layout
  <2>5. f[k - 1] = g[k - 1]
    BY <1>5, <2>3
  <2> QED
    BY <2>1, <2>2, <2>3, <2>4, <2>5
<1>8. ASSUME EmptyAfter(v, n, m)
      PROVE  x = y
  <2> DEFINE S == {k \in 0..m : k >= n => g[k] = g[n]}
  <2>1. 0 \in S
    OBVIOUS
  <2>2. ASSUME NEW k \in 1..m, k - 1 \in S PROVE k \in S
    <3>1. CASE k <= n
      BY <3>1
    <3>2. CASE k > n
      <4>1. k \in (n + 1)..m /\ k - 1 >= n
        BY <3>2
      <4>2. Len(v[k]) = 0
        BY <1>8, <4>1 DEF EmptyAfter
      <4>3. g[k] = g[k - 1] + Len(v[k]) /\ g[k - 1] \in Nat
        BY <1>4 DEF Layout, Offsets
      <4>4. g[k - 1] = g[n]
        BY <2>2, <4>1
      <4> QED
        BY <4>2, <4>3, <4>4
    <3> QED
      BY <3>1, <3>2
  <2>3. \A k \in 0..m : k \in S
    <3> HIDE DEF S
    <3> QED
      BY <2>1, <2>2, InductionUpTo
  <2>4. g[m] = g[n]
    BY <2>3
  <2> QED
    BY <1>6, <1>7, <2>4, SeqEqual
<1>9. Starts(x, y)
  BY <1>6, <1>7 DEF Starts
<1> QED
  BY <1>1, <1>2, <1>8, <1>9 DEF ExtendsTo

\* Each place of x and y holds the same place of the pieces u and v.
FlatAlike(x, y, u, v, n) ==
  /\ Len(x) = Len(y)
  /\ \A i \in 1..Len(x) : \E k \in 1..n : \E j \in 1..Len(u[k]) : x[i] = u[k][j] /\ y[i] = v[k][j]
  /\ \A k \in 1..n : \A j \in 1..Len(u[k]) : \E i \in 1..Len(x) : x[i] = u[k][j] /\ y[i] = v[k][j]

\* Two lists of pieces, alike in their lengths, are flattened alike.
LEMMA FlattenSeqAlike ==
  ASSUME NEW E, NEW F, NEW n \in Nat, NEW u \in [1..n -> Seq(E)], NEW v \in [1..n -> Seq(F)],
         SameLengths(u, v, n)
  PROVE  /\ FlattenSeq(u) \in Seq(E) /\ FlattenSeq(v) \in Seq(F)
         /\ FlatAlike(FlattenSeq(u), FlattenSeq(v), u, v, n)
<1>1. PICK x \in Seq(E) : x = FlattenSeq(u)
  BY FlattenSeqLayout
<1>2. PICK y \in Seq(F) : y = FlattenSeq(v)
  BY FlattenSeqLayout
<1>3. PICK f \in [0..n -> Nat] : Layout(f, u, n, x)
  BY <1>1, FlattenSeqLayout
<1>4. PICK g \in [0..n -> Nat] : Layout(g, v, n, y)
  BY <1>2, FlattenSeqLayout
<1>5. \A k \in 0..n : f[k] = g[k]
  <2>1. Offsets(f, u, n) /\ Offsets(g, v, n) /\ SameLengths(u, v, n)
    BY <1>3, <1>4 DEF Layout, SameLengths
  <2>2. Agree(f, g, n)
    BY <2>1, CountsAgree
  <2> QED
    BY <2>2 DEF Agree
<1>6. Len(x) = f[n] /\ Len(y) = g[n] /\ f[n] = g[n]
  <2>1. Len(x) = f[n] /\ Len(y) = g[n]
    BY <1>3, <1>4 DEF Layout
  <2>2. n \in 0..n
    OBVIOUS
  <2> QED
    BY <1>5, <2>1, <2>2
<1>7. ASSUME NEW k \in 1..n, NEW j \in 1..Len(u[k])
      PROVE  /\ f[k - 1] + j \in 1..Len(x)
             /\ x[f[k - 1] + j] = u[k][j] /\ y[f[k - 1] + j] = v[k][j]
  <2>1. j \in 1..Len(v[k]) /\ f[k - 1] = g[k - 1]
    BY <1>5 DEF SameLengths
  <2>2. f[k - 1] + j \in 1..f[n] /\ x[f[k - 1] + j] = u[k][j]
    BY <1>3 DEF Layout
  <2>3. y[g[k - 1] + j] = v[k][j]
    BY <1>4, <2>1 DEF Layout
  <2> QED
    BY <1>6, <2>1, <2>2, <2>3
<1>8. ASSUME NEW i \in 1..Len(x)
      PROVE  \E k \in 1..n : \E j \in 1..Len(u[k]) : x[i] = u[k][j] /\ y[i] = v[k][j]
  <2>a. PICK k \in 1..n : \E j \in 1..Len(u[k]) : i = f[k - 1] + j
    BY <1>3, <1>6 DEF Layout
  <2>1. PICK j \in 1..Len(u[k]) : i = f[k - 1] + j
    BY <2>a
  <2> QED
    BY <1>7, <2>1
<1>9. FlatAlike(x, y, u, v, n)
  BY <1>6, <1>7, <1>8 DEF FlatAlike
<1> QED
  BY <1>1, <1>2, <1>9

\* Nothing, and then one element a piece.
Singles(v, n, b) ==
  /\ \A k \in 1..n : v[k] = <<>>
  /\ \A j \in 1..Len(b) : v[n + j] = <<b[j]>>

\* Pieces of one element are flattened to their elements, and empty pieces
\* before them are not seen.
LEMMA FlattenSeqSingles ==
  ASSUME NEW E, NEW n \in Nat, NEW b \in Seq(E), NEW v \in [1..(n + Len(b)) -> Seq(E)],
         Singles(v, n, b)
  PROVE  FlattenSeq(v) = b
<1>1. PICK l, m \in Nat : l = Len(b) /\ m = n + l
  OBVIOUS
<1>2. v \in [1..m -> Seq(E)]
  BY <1>1
<1>3. PICK y \in Seq(E) : y = FlattenSeq(v)
  BY <1>2, FlattenSeqLayout
<1>4. PICK g \in [0..m -> Nat] : Layout(g, v, m, y)
  BY <1>2, <1>3, FlattenSeqLayout
<1> DEFINE S == {k \in 0..m : g[k] = IF k <= n THEN 0 ELSE k - n}
<1>5. 0 \in S
  BY <1>4 DEF Layout, Offsets
<1>6. ASSUME NEW k \in 1..m, k - 1 \in S PROVE k \in S
  <2>1. g[k] = g[k - 1] + Len(v[k])
    BY <1>4 DEF Layout, Offsets
  <2>2. g[k - 1] = IF k - 1 <= n THEN 0 ELSE k - 1 - n
    BY <1>6
  <2>3. CASE k <= n
    <3>1. v[k] = <<>>
      BY <2>3 DEF Singles
    <3>2. Len(v[k]) = 0
      BY <3>1
    <3> QED
      BY <2>1, <2>2, <2>3, <3>2
  <2>4. CASE k > n
    <3>1. k - n \in 1..Len(b) /\ n + (k - n) = k
      BY <1>1, <2>4
    <3>2. v[k] = <<b[k - n]>>
      BY <3>1 DEF Singles
    <3>3. Len(v[k]) = 1
      BY <3>2
    <3> QED
      BY <2>1, <2>2, <2>4, <3>3
  <2> QED
    BY <2>3, <2>4
<1>7. \A k \in 0..m : k \in S
  <2> HIDE DEF S
  <2> QED
    BY <1>5, <1>6, InductionUpTo
<1>8. \A k \in 0..m : g[k] = IF k <= n THEN 0 ELSE k - n
  BY <1>7
<1>9. Len(y) = Len(b)
  <2>1. g[m] = l
    BY <1>1, <1>8
  <2> QED
    BY <1>1, <1>4, <2>1 DEF Layout
<1>10. ASSUME NEW j \in 1..Len(b) PROVE y[j] = b[j]
  <2>1. PICK k \in 1..m : k = n + j /\ k - 1 = n + (j - 1)
    BY <1>1
  <2>2. v[k] = <<b[j]>>
    BY <2>1 DEF Singles
  <2>3. 1 \in 1..Len(v[k]) /\ v[k][1] = b[j]
    BY <2>2
  <2>4. y[g[k - 1] + 1] = v[k][1]
    BY <1>4, <2>3 DEF Layout
  <2>5. g[k - 1] = j - 1
    BY <1>8, <2>1
  <2> QED
    BY <2>3, <2>4, <2>5
<1>11. y = b
  BY <1>9, <1>10, SeqEqual
<1> QED
  BY <1>3, <1>11

-----------------------------------------------------------------------------

\* z is x and then y.
Concatenated(z, x, y) ==
  /\ Len(z) = Len(x) + Len(y)
  /\ \A i \in 1..Len(x) : z[i] = x[i]
  /\ \A i \in 1..Len(y) : z[Len(x) + i] = y[i]

\* Two sequences concatenated are such.
LEMMA ConcatPlaces ==
  ASSUME NEW A, NEW x \in Seq(A), NEW y \in Seq(A)
  PROVE  x \o y \in Seq(A) /\ Concatenated(x \o y, x, y)
BY DEF Concatenated

\* The pieces a selection is flattened from.
Picked(s, I) == [i \in 1..Len(s) |-> IF i \in I THEN <<s[i]>> ELSE <<>>]

\* They are sequences of at most one element.
LEMMA PickedType ==
  ASSUME NEW A, NEW s \in Seq(A), NEW I
  PROVE  /\ Picked(s, I) \in [1..Len(s) -> Seq(A)]
         /\ Selection(s, I) = FlattenSeq(Picked(s, I))
         /\ \A i \in 1..Len(s) : Len(Picked(s, I)[i]) = IF i \in I THEN 1 ELSE 0
<1>1. ASSUME NEW i \in 1..Len(s)
      PROVE  /\ Picked(s, I)[i] \in Seq(A)
             /\ Len(Picked(s, I)[i]) = IF i \in I THEN 1 ELSE 0
  <2>1. CASE i \in I
    BY <2>1 DEF Picked
  <2>2. CASE i \notin I
    BY <2>2 DEF Picked
  <2> QED
    BY <2>1, <2>2
<1>2. Selection(s, I) = FlattenSeq(Picked(s, I))
  BY DEF Selection, Picked
<1>3. Picked(s, I) \in [1..Len(s) -> Seq(A)]
  BY <1>1 DEF Picked
<1> QED
  BY <1>1, <1>2, <1>3

\* What is selected is of the same kind.
LEMMA SelectionType ==
  ASSUME NEW A, NEW s \in Seq(A), NEW I
  PROVE  Selection(s, I) \in Seq(A)
BY PickedType, FlattenSeqType

\* Selecting the same positions of two sequences of one length.
AlikeIn(x, y, s, t, I) ==
  /\ Len(x) = Len(y)
  /\ \A k \in 1..Len(x) : \E i \in I \cap 1..Len(s) : x[k] = s[i] /\ y[k] = t[i]
  /\ \A i \in I \cap 1..Len(s) : \E k \in 1..Len(x) : x[k] = s[i] /\ y[k] = t[i]

Alike(s, t, I) == AlikeIn(Selection(s, I), Selection(t, I), s, t, I)

\* It takes the same elements from both.
LEMMA SelectionAlike ==
  ASSUME NEW A, NEW B, NEW s \in Seq(A), NEW t \in Seq(B), Len(s) = Len(t), NEW I
  PROVE  Selection(s, I) \in Seq(A) /\ Selection(t, I) \in Seq(B) /\ Alike(s, t, I)
<1>1. PICK n \in Nat : n = Len(s) /\ n = Len(t)
  OBVIOUS
<1> DEFINE u == Picked(s, I)
           v == Picked(t, I)
<1>2. /\ u \in [1..n -> Seq(A)] /\ v \in [1..n -> Seq(B)]
      /\ Selection(s, I) = FlattenSeq(u) /\ Selection(t, I) = FlattenSeq(v)
      /\ \A i \in 1..n : Len(u[i]) = (IF i \in I THEN 1 ELSE 0)
      /\ \A i \in 1..n : Len(v[i]) = (IF i \in I THEN 1 ELSE 0)
  BY <1>1, PickedType
<1>3. SameLengths(u, v, n)
  BY <1>2 DEF SameLengths
<1>4. \A i \in 1..n : i \in I => u[i][1] = s[i] /\ v[i][1] = t[i]
  BY <1>1 DEF Picked
<1> HIDE DEF u, v
<1>5. PICK x \in Seq(A), y \in Seq(B) : x = FlattenSeq(u) /\ y = FlattenSeq(v)
  BY <1>2, FlattenSeqLayout
<1>6. FlatAlike(x, y, u, v, n)
  BY <1>2, <1>3, <1>5, FlattenSeqAlike
<1>7. ASSUME NEW k \in 1..Len(x)
      PROVE  \E i \in I \cap 1..n : x[k] = s[i] /\ y[k] = t[i]
  <2>1. PICK i \in 1..n : \E j \in 1..Len(u[i]) : x[k] = u[i][j] /\ y[k] = v[i][j]
    BY <1>6 DEF FlatAlike
  <2>2. PICK j \in 1..Len(u[i]) : x[k] = u[i][j] /\ y[k] = v[i][j]
    BY <2>1
  <2>3. i \in I /\ j = 1
    <3>1. Len(u[i]) = IF i \in I THEN 1 ELSE 0
      BY <1>2
    <3>2. j \in 1..Len(u[i])
      OBVIOUS
    <3> QED
      BY <3>1, <3>2
  <2> QED
    BY <1>4, <2>2, <2>3
<1>8. ASSUME NEW i \in I \cap 1..n
      PROVE  \E k \in 1..Len(x) : x[k] = s[i] /\ y[k] = t[i]
  <2>1. 1 \in 1..Len(u[i])
    <3>1. i \in 1..n /\ i \in I
      OBVIOUS
    <3>2. Len(u[i]) = 1
      BY <1>2, <3>1
    <3> QED
      BY <3>2
  <2>2. PICK k \in 1..Len(x) : x[k] = u[i][1] /\ y[k] = v[i][1]
    BY <1>6, <2>1 DEF FlatAlike
  <2> QED
    BY <1>4, <2>2
<1>9. Len(x) = Len(y)
  BY <1>6 DEF FlatAlike
<1>10. AlikeIn(x, y, s, t, I)
  BY <1>1, <1>7, <1>8, <1>9 DEF AlikeIn
<1> QED
  BY <1>2, <1>5, <1>10 DEF Alike

\* What is selected of a longer sequence starts with what is selected of its
\* beginning.
LEMMA SelectionExtends ==
  ASSUME NEW A, NEW s \in Seq(A), NEW t \in Seq(A), NEW I, NEW J, Len(s) <= Len(t),
         \A i \in 1..Len(s) : s[i] = t[i] /\ (i \in I <=> i \in J)
  PROVE  /\ Starts(Selection(s, I), Selection(t, J))
         /\ (\A i \in (Len(s) + 1)..Len(t) : i \notin J) => Selection(t, J) = Selection(s, I)
<1>1. PICK n, m \in Nat : n = Len(s) /\ m = Len(t) /\ n <= m
  OBVIOUS
<1> DEFINE u == Picked(s, I)
           v == Picked(t, J)
<1>2. /\ u \in [1..n -> Seq(A)] /\ v \in [1..m -> Seq(A)]
      /\ Selection(s, I) = FlattenSeq(u) /\ Selection(t, J) = FlattenSeq(v)
  BY <1>1, PickedType
<1>3. SameBeginning(u, v, n)
  BY <1>1 DEF Picked, SameBeginning
<1>4. ASSUME \A i \in (Len(s) + 1)..Len(t) : i \notin J
      PROVE  EmptyAfter(v, n, m)
  <2>1. ASSUME NEW i \in (n + 1)..m PROVE v[i] = <<>>
    <3>1. i \in 1..Len(t) /\ i \notin J
      BY <1>1, <1>4
    <3> QED
      BY <3>1 DEF Picked
  <2> QED
    BY <2>1 DEF EmptyAfter
<1> HIDE DEF u, v
<1>5. ExtendsTo(FlattenSeq(u), FlattenSeq(v), v, n, m)
  BY <1>1, <1>2, <1>3, FlattenSeqExtends
<1> QED
  BY <1>2, <1>4, <1>5 DEF ExtendsTo

\* The positions of b in a \o b select b.
LEMMA SelectionOfEnd ==
  ASSUME NEW A, NEW a \in Seq(A), NEW b \in Seq(A), NEW I,
         \A i \in 1..(Len(a) + Len(b)) : i \in I <=> i > Len(a)
  PROVE  Selection(a \o b, I) = b
<1>1. PICK n, l \in Nat : n = Len(a) /\ l = Len(b)
  OBVIOUS
<1>2. PICK s \in Seq(A) : s = a \o b
  BY ConcatProperties
<1>3. Len(s) = n + l /\ \A j \in 1..l : s[n + j] = b[j]
  BY <1>1, <1>2
<1> DEFINE v == Picked(s, I)
<1>4. v \in [1..(n + Len(b)) -> Seq(A)] /\ Selection(s, I) = FlattenSeq(v)
  BY <1>1, <1>3, PickedType
<1>5. ASSUME NEW k \in 1..n PROVE v[k] = <<>>
  <2>1. k \in 1..Len(s) /\ k \notin I
    BY <1>1, <1>3
  <2> QED
    BY <2>1 DEF Picked
<1>6. ASSUME NEW j \in 1..Len(b) PROVE v[n + j] = <<b[j]>>
  <2>1. n + j \in 1..Len(s) /\ n + j \in I /\ s[n + j] = b[j]
    BY <1>1, <1>3
  <2> QED
    BY <2>1 DEF Picked
<1>7. Singles(v, n, b)
  BY <1>5, <1>6 DEF Singles
<1> HIDE DEF v
<1> QED
  BY <1>2, <1>4, <1>7, FlattenSeqSingles

\* All positions select all.
LEMMA SelectionOfAll ==
  ASSUME NEW A, NEW s \in Seq(A), NEW I, 1..Len(s) \subseteq I
  PROVE  Selection(s, I) = s
<1>1. <<>> \in Seq(A) /\ Len(<<>>) = 0 /\ <<>> \o s = s
  OBVIOUS
<1>2. \A i \in 1..(0 + Len(s)) : i \in I <=> i > 0
  OBVIOUS
<1>3. Selection(<<>> \o s, I) = s
  BY <1>1, <1>2, SelectionOfEnd
<1> QED
  BY <1>1, <1>3

-----------------------------------------------------------------------------

\* Nothing selects nothing.
LEMMA SelectionOfNone ==
  ASSUME NEW I
  PROVE  Selection(<<>>, I) = <<>>
<1>1. <<>> \in Seq({}) /\ 1..Len(<<>>) \subseteq I
  OBVIOUS
<1> QED
  BY <1>1, SelectionOfAll

\* Flattening is not changed by leaving out pieces that are empty.
Skipped(u, I) == FlattenSeq(u) = FlattenSeq(Selection(u, I))
EmptyOutside(u, I, n) == \A k \in 1..n : k \notin I => u[k] = <<>>

\* One more element is selected or not.
LEMMA SelectionNext ==
  ASSUME NEW A, NEW l \in Nat, NEW m \in Nat, m = l + 1,
         NEW a \in [1..l -> A], NEW b \in [1..m -> A], SameBeginning(a, b, l), NEW I
  PROVE  IsJoined(Selection(b, I), Selection(a, I), IF m \in I THEN <<b[m]>> ELSE <<>>)
<1>1. a \in Seq(A) /\ Len(a) = l /\ b \in Seq(A) /\ Len(b) = m
  BY SequenceLength
<1>2. PICK u \in [1..l -> Seq(A)] : u = Picked(a, I) /\ Selection(a, I) = FlattenSeq(u)
  BY <1>1, PickedType
<1>3. PICK v \in [1..m -> Seq(A)] : v = Picked(b, I) /\ Selection(b, I) = FlattenSeq(v)
  BY <1>1, PickedType
<1>4. SameBeginning(u, v, l)
  BY <1>1, <1>2, <1>3 DEF Picked, SameBeginning
<1>5. v[m] = IF m \in I THEN <<b[m]>> ELSE <<>>
  <2>1. m \in 1..Len(b)
    BY <1>1
  <2> QED
    BY <1>3, <2>1 DEF Picked
<1>6. IsJoined(FlattenSeq(v), FlattenSeq(u), v[m])
  BY <1>2, <1>3, <1>4, FlattenSeqNext
<1> QED
  BY <1>2, <1>3, <1>5, <1>6

\* One more piece is left out if it is empty.
LEMMA SkippedNext ==
  ASSUME NEW E, NEW l \in Nat, NEW m \in Nat, m = l + 1,
         NEW a \in [1..l -> Seq(E)], NEW b \in [1..m -> Seq(E)], SameBeginning(a, b, l), NEW I,
         EmptyOutside(b, I, m), Skipped(a, I)
  PROVE  Skipped(b, I)
<1>1. IsJoined(FlattenSeq(b), FlattenSeq(a), b[m])
  BY FlattenSeqNext
<1>2. IsJoined(Selection(b, I), Selection(a, I), IF m \in I THEN <<b[m]>> ELSE <<>>)
  <2>1. PICK A : A = Seq(E)
    OBVIOUS
  <2>2. a \in [1..l -> A] /\ b \in [1..m -> A]
    BY <2>1
  <2> QED
    BY <2>2, SelectionNext
<1>3. a \in Seq(Seq(E)) /\ Len(a) = l
  BY SequenceLength
<1>4. PICK x \in Seq(Seq(E)) : x = Selection(a, I)
  BY <1>3, PickedType, FlattenSeqType
<1>5. PICK q \in Nat : q = Len(x) /\ x \in [1..q -> Seq(E)]
  OBVIOUS
<1>6. PICK z \in Seq(E) : z = FlattenSeq(x) /\ z = FlattenSeq(a)
  BY <1>4, <1>5, FlattenSeqType DEF Skipped
<1>7. PICK c \in Seq(E) : c = b[m]
  OBVIOUS
<1>8. CASE m \in I
  <2>1. PICK y : y = x \o <<c>>
    OBVIOUS
  <2>2. PICK r \in Nat : r = q + 1
    BY <1>5
  <2>3. y \in [1..r -> Seq(E)] /\ y[r] = c
    <3>1. PICK A : A = Seq(E)
      OBVIOUS
    <3>2. x \in Seq(A) /\ <<c>> \in Seq(A) /\ c \in A /\ Len(<<c>>) = 1 /\ <<c>>[1] = c
      BY <1>4, <1>7, <3>1
    <3>3. y \in Seq(A) /\ Len(y) = r /\ y[r] = c
      BY <1>5, <2>1, <2>2, <3>2
    <3>4. y \in [1..r -> A]
      BY <3>3
    <3> QED
      BY <3>1, <3>3, <3>4
  <2>4. SameBeginning(x, y, q)
    BY <1>4, <1>5, <2>1 DEF SameBeginning
  <2>5. IsJoined(FlattenSeq(y), FlattenSeq(x), y[r])
    <3>1. q \in Nat /\ r \in Nat /\ r = q + 1 /\ x \in [1..q -> Seq(E)]
      BY <1>5, <2>2
    <3> QED
      BY <2>3, <2>4, <3>1, FlattenSeqNext
  <2> QED
    BY <1>1, <1>2, <1>4, <1>6, <1>7, <1>8, <2>1, <2>3, <2>5 DEF Skipped, IsJoined
<1>9. CASE m \notin I
  <2>2. m \in 1..m
    OBVIOUS
  <2>3. b[m] = <<>>
    BY <1>9, <2>2 DEF EmptyOutside
  <2>1. x \o <<>> = x /\ z \o <<>> = z
    OBVIOUS
  <2> QED
    BY <1>1, <1>2, <1>4, <1>6, <1>9, <2>1, <2>3 DEF Skipped, IsJoined
<1> QED
  BY <1>8, <1>9

\* So with any pieces that are empty.
LEMMA FlattenSeqSkips ==
  ASSUME NEW E, NEW n \in Nat, NEW u \in [1..n -> Seq(E)], NEW I,
         EmptyOutside(u, I, n)
  PROVE  Skipped(u, I)
<1> DEFINE w(m) == [k \in 1..m |-> u[k]]
           S == {m \in 0..n : Skipped(w(m), I)}
<1>1. 0 \in S
  <2>1. w(0) = <<>>
    OBVIOUS
  <2>2. Skipped(<<>>, I)
    BY SelectionOfNone DEF Skipped
  <2> QED
    BY <2>1, <2>2
<1>2. ASSUME NEW m \in 1..n, m - 1 \in S PROVE m \in S
  <2>1. PICK l \in Nat : l = m - 1 /\ m = l + 1 /\ l \in 0..n
    OBVIOUS
  <2>2. PICK a : a = w(l)
    OBVIOUS
  <2>3. PICK b : b = w(m)
    OBVIOUS
  <2>a. a \in [1..l -> Seq(E)] /\ b \in [1..m -> Seq(E)]
    BY <2>1, <2>2, <2>3
  <2>4. SameBeginning(a, b, l)
    BY <2>1, <2>2, <2>3 DEF SameBeginning
  <2>5. EmptyOutside(b, I, m)
    BY <2>3 DEF EmptyOutside
  <2>6. Skipped(a, I)
    BY <1>2, <2>1, <2>2
  <2> HIDE DEF w
  <2>7. Skipped(b, I)
    <3>1. l \in Nat /\ m \in Nat /\ m = l + 1
      BY <2>1
    <3> QED
      BY ONLY <3>1, <2>a, <2>4, <2>5, <2>6, SkippedNext
  <2> QED
    BY <2>3, <2>7
<1>3. \A m \in 0..n : m \in S
  <2> HIDE DEF S
  <2> QED
    BY <1>1, <1>2, InductionUpTo
<1>4. Skipped(w(n), I) /\ w(n) = u
  BY <1>3
<1> QED
  BY <1>4

-----------------------------------------------------------------------------

\* The registries there can be.
Registries == [names : SUBSET STRING, rejected : BOOLEAN]

\* Registering a tool makes one of them.
LEMMA RegisterType ==
  ASSUME NEW registry \in Registries, NEW tool \in Tools
  PROVE  Register(registry, tool) \in Registries
BY DEF Register, Registries, Tools

\* The greatest of some positions.
LEMMA MaxIs ==
  ASSUME NEW n \in Nat, NEW S \in SUBSET (1..n), S # {}
  PROVE  Max(S) \in S /\ \A j \in S : j <= Max(S)
<1>1. PICK x \in S : \A j \in S : j <= x
  BY GreatestElement
<1>2. \A j \in S : x >= j
  BY <1>1
<1>3. Max(S) \in S /\ \A j \in S : Max(S) >= j
  BY <1>2 DEF Max
<1> QED
  BY <1>3

\* Max of all of them.
LEMMA MaxOfAll == ASSUME NEW n \in Nat \ {0} PROVE Max(1..n) = n
<1> DEFINE D == 1..n
<1>1. n \in D /\ D # {} /\ D \in SUBSET (1..n) /\ n \in Nat
  OBVIOUS
<1>2. Max(D) \in D /\ \A j \in D : j <= Max(D)
  <2> HIDE DEF D
  <2> QED
    BY <1>1, MaxIs
<1> QED
  BY <1>1, <1>2

\* r folds registrations over sets of positions in s, taking the last one last.
Folds(r, registry, s, D) ==
  \A t \in SUBSET D :
    r[t] = IF t = {} THEN registry ELSE Register(r[t \ {Max(t)}], s[Max(t)])

\* There is such a fold for every sequence of tools, and Extend uses one.
LEMMA ExtendFolds ==
  ASSUME NEW registry \in Registries, NEW n \in Nat, NEW s \in [1..n -> Tools]
  PROVE  \E r : Folds(r, registry, s, 1..n) /\ Extend(registry, s) = r[1..n]
<1> DEFINE D == 1..n
           X == [SUBSET D -> Registries]
           Step(g) == [t \in SUBSET D |->
                         IF t = {} THEN registry ELSE Register(g[t \ {Max(t)}], s[Max(t)])]
           fold == CHOOSE g : g = Step(g)
<1>1. DOMAIN s = D
  OBVIOUS
<1>2. Extend(registry, s) = fold[D]
  BY <1>1 DEF Extend, FoldLeft, MapThenFoldSet
<1> HIDE DEF fold
<1>3. \E r \in X : r = Step(r)
  <2>0. PICK m \in Nat : m = n + 1 /\ n \in 0..m /\ m \in 1..m /\ m - 1 = n
    OBVIOUS
  <2> DEFINE b == [t \in SUBSET D |-> registry]
             G == [p \in X \X (1..m) |-> Step(p[1])]
  <2>1. \A g \in X : Step(g) \in X
    <3> SUFFICES ASSUME NEW g \in X, NEW t \in SUBSET D
                 PROVE  (IF t = {} THEN registry ELSE Register(g[t \ {Max(t)}], s[Max(t)]))
                          \in Registries
      OBVIOUS
    <3>1. CASE t = {}
      BY <3>1
    <3>2. CASE t # {}
      <4>1. Max(t) \in D
        BY <3>2, MaxIs
      <4>2. s[Max(t)] \in Tools /\ g[t \ {Max(t)}] \in Registries
        BY <4>1
      <4> QED
        BY <3>2, <4>2, RegisterType
    <3> QED
      BY <3>1, <3>2
  <2>2. b \in X /\ G \in [X \X (1..m) -> X]
    BY <2>1
  <2>3. \A g \in X, k \in 1..m : G[<<g, k>>] = Step(g)
    OBVIOUS
  <2>4. PICK f \in [0..m -> X] : Iterates(f, b, G, m)
    <3> HIDE DEF X, G, b
    <3> QED
      BY <2>2, Recursion
  <2>a. \A k \in 0..m : f[k] \in X
    <3> HIDE DEF X
    <3> QED
      OBVIOUS
  <2>5. \A k \in 1..m : f[k] = Step(f[k - 1])
    <3> SUFFICES ASSUME NEW k \in 1..m PROVE f[k] = Step(f[k - 1])
      OBVIOUS
    <3>1. f[k - 1] \in X
      <4>1. k - 1 \in 0..m
        OBVIOUS
      <4> QED
        BY <2>a, <4>1
    <3>2. f[k] = G[<<f[k - 1], k>>]
      BY <2>4 DEF Iterates
    <3> QED
      BY <2>3, <3>1, <3>2
  <2>6. f[0] = b
    BY <2>4 DEF Iterates
  <2> HIDE DEF G
  <2> DEFINE Settled == {k \in 0..n : \A t \in SUBSET (1..k) : f[k + 1][t] = f[k][t]}
  <2>7. 0 \in Settled
    <3> SUFFICES ASSUME NEW t \in SUBSET (1..0) PROVE f[0 + 1][t] = f[0][t]
      OBVIOUS
    <3>1. t = {} /\ t \in SUBSET D
      OBVIOUS
    <3>2. f[1] = Step(f[0])
      <4>1. 1 \in 1..m /\ 1 - 1 = 0
        BY <2>0
      <4> QED
        BY <2>5, <4>1
    <3>3. f[1][t] = registry /\ f[0][t] = registry /\ 0 + 1 = 1
      BY <2>6, <3>1, <3>2
    <3> QED
      BY <3>3
  <2>8. ASSUME NEW k \in 1..n, k - 1 \in Settled PROVE k \in Settled
    <3> SUFFICES ASSUME NEW t \in SUBSET (1..k) PROVE f[k + 1][t] = f[k][t]
      OBVIOUS
    <3>1. t \in SUBSET D /\ k + 1 \in 1..m /\ k \in 1..m /\ (k + 1) - 1 = k
      BY <2>0
    <3>2. f[k + 1] = Step(f[k]) /\ f[k] = Step(f[k - 1])
      BY <2>5, <3>1
    <3>3. CASE t = {}
      BY <3>1, <3>2, <3>3
    <3>4. CASE t # {}
      <4>1. PICK x \in t : x = Max(t) /\ \A j \in t : j <= x
        <5>1. k \in Nat
          OBVIOUS
        <5> QED
          BY <3>4, <5>1, MaxIs
      <4>2. t \ {x} \in SUBSET (1..(k - 1))
        <5>1. ASSUME NEW j \in t, j # x PROVE j \in 1..(k - 1)
          <6>1. j \in 1..k /\ x \in 1..k /\ j <= x
            BY <4>1
          <6> QED
            BY <5>1, <6>1
        <5> QED
          BY <5>1
      <4>3. f[k][t \ {x}] = f[k - 1][t \ {x}]
        <5>1. (k - 1) + 1 = k
          OBVIOUS
        <5> QED
          BY <2>8, <4>2, <5>1
      <4>4. f[k + 1][t] = Register(f[k][t \ {x}], s[x])
        BY <3>1, <3>2, <3>4, <4>1
      <4>5. f[k][t] = Register(f[k - 1][t \ {x}], s[x])
        BY <3>1, <3>2, <3>4, <4>1
      <4> QED
        BY <4>3, <4>4, <4>5
    <3> QED
      BY <3>3, <3>4
  <2>9. \A k \in 0..n : k \in Settled
    <3> HIDE DEF Settled
    <3> QED
      BY <2>7, <2>8, InductionUpTo
  <2>10. f[n] = Step(f[n])
    <3>1. f[m] = Step(f[n])
      BY <2>0, <2>5
    <3>2. \A t \in SUBSET D : f[m][t] = f[n][t]
      <4>1. n \in 0..n
        OBVIOUS
      <4> QED
        BY <2>0, <2>9, <4>1
    <3>3. f[n] \in X /\ f[m] \in X
      <4>1. n \in 0..m /\ m \in 0..m
        BY <2>0
      <4> QED
        BY <2>a, <4>1
    <3>4. f[n] = f[m]
      BY <3>2, <3>3
    <3> QED
      BY <3>1, <3>4
  <2>11. f[n] \in X
    BY <2>0, <2>a
  <2> QED
    BY <2>10, <2>11
<1>4. fold = Step(fold)
  BY <1>3 DEF fold
<1>5. Folds(fold, registry, s, D)
  <2> SUFFICES ASSUME NEW t \in SUBSET D
               PROVE  fold[t] = IF t = {} THEN registry
                                ELSE Register(fold[t \ {Max(t)}], s[Max(t)])
    BY DEF Folds
  <2> QED
    BY <1>4
<1> QED
  BY <1>2, <1>5

\* f holds the registries after each of the n tools of s.
RegistersBySteps(f, registry, s, n) ==
  f[0] = registry /\ \A k \in 1..n : f[k] = Register(f[k - 1], s[k])

\* Extend registers the tools one by one.
LEMMA ExtendSteps ==
  ASSUME NEW registry \in Registries, NEW n \in Nat, NEW s \in [1..n -> Tools]
  PROVE  \E f \in [0..n -> Registries] :
           RegistersBySteps(f, registry, s, n) /\ Extend(registry, s) = f[n]
<1>1. PICK r : Folds(r, registry, s, 1..n) /\ Extend(registry, s) = r[1..n]
  BY ExtendFolds
<1> DEFINE f == [k \in 0..n |-> r[1..k]]
<1>2. r[1..0] = registry
  <2>0. 1..0 = {}
    OBVIOUS
  <2>1. PICK t \in SUBSET (1..n) : t = {} /\ t = 1..0
    BY <2>0
  <2>2. r[t] = registry
    BY <1>1, <2>1 DEF Folds
  <2> QED
    BY <2>1, <2>2
<1>3. ASSUME NEW k \in 1..n PROVE r[1..k] = Register(r[1..(k - 1)], s[k])
  <2>1. 1..k \in SUBSET (1..n) /\ 1..k # {} /\ k \in Nat \ {0}
    <3>1. k \in Nat \ {0} /\ k <= n
      OBVIOUS
    <3>2. 1 \in 1..k /\ \A i \in 1..k : i \in 1..n
      BY <3>1
    <3> QED
      BY <3>1, <3>2
  <2>2. Max(1..k) = k /\ (1..k) \ {k} = 1..(k - 1)
    BY <2>1, MaxOfAll
  <2>3. r[1..k] = Register(r[(1..k) \ {Max(1..k)}], s[Max(1..k)])
    <3> DEFINE t == 1..k
    <3> HIDE DEF t
    <3>1. t \in SUBSET (1..n) /\ t # {}
      BY <2>1 DEF t
    <3>2. r[t] = Register(r[t \ {Max(t)}], s[Max(t)])
      BY <1>1, <3>1 DEF Folds
    <3> QED
      BY <3>2 DEF t
  <2> QED
    BY <2>2, <2>3
<1>4. RegistersBySteps(f, registry, s, n)
  <2>1. 0 \in 0..n /\ f[0] = registry
    BY <1>2
  <2>2. ASSUME NEW k \in 1..n PROVE f[k] = Register(f[k - 1], s[k])
    <3>1. k \in 0..n /\ k - 1 \in 0..n
      OBVIOUS
    <3>2. f[k] = r[1..k] /\ f[k - 1] = r[1..(k - 1)]
      BY <3>1
    <3> QED
      BY <1>3, <3>2
  <2> HIDE DEF f
  <2> QED
    BY <2>1, <2>2 DEF RegistersBySteps
<1>5. f \in [0..n -> Registries]
  <2> DEFINE S == {k \in 0..n : r[1..k] \in Registries}
  <2>1. 0 \in S
    BY <1>2
  <2>2. ASSUME NEW k \in 1..n, k - 1 \in S PROVE k \in S
    <3>1. r[1..(k - 1)] \in Registries /\ s[k] \in Tools
      BY <2>2
    <3> QED
      BY <1>3, <3>1, RegisterType
  <2>3. \A k \in 0..n : k \in S
    <3> HIDE DEF S
    <3> QED
      BY <2>1, <2>2, InductionUpTo
  <2> QED
    BY <2>3
<1>6. Extend(registry, s) = f[n]
  BY <1>1
<1> HIDE DEF f
<1> QED
  BY <1>4, <1>5, <1>6

\* The names of some tools.
NamesOf(ts) == {ts[i].name : i \in 1..Len(ts)}

\* The first k of the tools can all be registered beside those with the names.
AdmissibleUpTo(names, ts, k) ==
  \A i \in 1..k :
    /\ Registrable(ts[i])
    /\ ts[i].name \notin names
    /\ \A j \in 1..k : ts[i].name = ts[j].name => i = j

Admissible(names, ts) == AdmissibleUpTo(names, ts, Len(ts))

\* What a registry is when it was extended: rejected, or with all the names.
Extended(registry, names, ts) ==
  /\ registry \in Registries
  /\ registry.rejected <=> ~ Admissible(names, ts)
  /\ ~ registry.rejected => registry.names = names \cup NamesOf(ts)

\* extend() takes all of the tools or fails, as their order does not matter.
LEMMA ExtendAll ==
  ASSUME NEW registry \in Registries, ~ registry.rejected, NEW s \in Seq(Tools)
  PROVE  Extended(Extend(registry, s), registry.names, s)
<1>1. PICK n \in Nat : n = Len(s)
  OBVIOUS
<1>2. s \in [1..n -> Tools]
  BY <1>1
<1>3. PICK f \in [0..n -> Registries] :
        RegistersBySteps(f, registry, s, n) /\ Extend(registry, s) = f[n]
  BY <1>2, ExtendSteps
<1> DEFINE Names(k) == {s[i].name : i \in 1..k}
           Taken(k) == /\ f[k].rejected <=> ~ AdmissibleUpTo(registry.names, s, k)
                       /\ ~ f[k].rejected => f[k].names = registry.names \cup Names(k)
           S == {k \in 0..n : Taken(k)}
<1>4. 0 \in S
  BY <1>3 DEF RegistersBySteps, AdmissibleUpTo
<1>5. ASSUME NEW k \in 1..n, k - 1 \in S PROVE k \in S
  <2>1. Taken(k - 1)
    BY <1>5
  <2>2. f[k] = Register(f[k - 1], s[k]) /\ f[k - 1] \in Registries
    BY <1>3 DEF RegistersBySteps
  <2>3. \A i : i \in 1..k <=> i \in 1..(k - 1) \/ i = k
    OBVIOUS
  <2>4. Names(k) = Names(k - 1) \cup {s[k].name}
    BY <2>3
  <2>5. AdmissibleUpTo(registry.names, s, k) <=>
          /\ AdmissibleUpTo(registry.names, s, k - 1)
          /\ Registrable(s[k]) /\ s[k].name \notin registry.names \cup Names(k - 1)
    <3>1. k \notin 1..(k - 1)
      OBVIOUS
    <3> QED
      BY <2>3, <3>1 DEF AdmissibleUpTo
  <2> HIDE DEF Names
  <2>6. Taken(k)
    BY <2>1, <2>2, <2>4, <2>5 DEF Register, Registries
  <2> QED
    BY <2>6
<1>6. n \in S
  <2> HIDE DEF S
  <2>1. \A k \in 0..n : k \in S
    BY <1>4, <1>5, InductionUpTo
  <2> QED
    BY <2>1
<1>7. f[n] \in Registries
  OBVIOUS
<1> QED
  BY <1>1, <1>3, <1>6, <1>7 DEF Extended, Admissible, NamesOf

=============================================================================

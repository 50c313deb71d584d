------------------------ MODULE ClientSessionProofs ------------------------
(***************************************************************************)
(* Theorems about ClientSession, for every environment, every set of calls *)
(* on the two builders, and any number of them in any order.               *)
(***************************************************************************)
EXTENDS ClientSession, RecursionLemmas

Methods == ClientMethods \cup RequestMethods

-----------------------------------------------------------------------------

\* The last of some positions.
LEMMA LatestIs ==
  ASSUME NEW n \in Nat, NEW S \in SUBSET (1..n), S # {}
  PROVE  Latest(S) \in S /\ \A j \in S : j <= Latest(S)
BY GreatestElement DEF Latest

\* A later position is the last.
LEMMA LatestMore ==
  ASSUME NEW n \in Nat, NEW S \in SUBSET (1..n)
  PROVE  Latest(S \cup {n + 1}) = n + 1
<1> DEFINE T == S \cup {n + 1}
<1>1. n + 1 \in T /\ \A j \in T : j <= n + 1
  OBVIOUS
<1>2. \A i \in T : (\A j \in T : j <= i) => i = n + 1
  BY <1>1
<1> QED
  BY <1>1, <1>2 DEF Latest

\* The first of some positions.
LEMMA EarliestIs ==
  ASSUME NEW n \in Nat, NEW S \in SUBSET (1..n), S # {}
  PROVE  Earliest(S) \in S /\ \A j \in S : Earliest(S) <= j
<1>1. S \in SUBSET Nat
  OBVIOUS
<1> QED
  BY <1>1, LeastElement DEF Earliest

\* A later position is not the first, unless it is the only one.
LEMMA EarliestMore ==
  ASSUME NEW n \in Nat, NEW S \in SUBSET (1..n)
  PROVE  Earliest(S \cup {n + 1}) = IF S = {} THEN n + 1 ELSE Earliest(S)
<1> DEFINE T == S \cup {n + 1}
<1>1. CASE S = {}
  <2>1. T = {n + 1}
    BY <1>1
  <2> QED
    BY <1>1, <2>1 DEF Earliest
<1>2. CASE S # {}
  <2>1. Earliest(S) \in S /\ \A j \in S : Earliest(S) <= j
    BY <1>2, EarliestIs
  <2>2. PICK e \in S : e = Earliest(S)
    BY <2>1
  <2>3. e \in T /\ \A j \in T : e <= j
    BY <2>1, <2>2
  <2>4. \A i \in T : (\A j \in T : i <= j) => i = e
    BY <2>3
  <2> QED
    BY <1>2, <2>2, <2>3, <2>4 DEF Earliest
<1> QED
  BY <1>1, <1>2

-----------------------------------------------------------------------------

\* A history of n calls, and the one after it.
Grows(h, n, c, u) ==
  /\ h \in Seq(Methods) /\ n \in Nat /\ n = Len(h)
  /\ c \in Methods
  /\ u \in Seq(Methods) /\ Len(u) = n + 1
  /\ u[n + 1] = c /\ \A i \in 1..n : u[i] = h[i] /\ h[i] \in Methods

\* Append makes a history grow.
LEMMA AppendGrows ==
  ASSUME NEW h \in Seq(Methods), NEW c \in Methods
  PROVE  Grows(h, Len(h), c, Append(h, c))
<1>1. PICK n \in Nat : n = Len(h)
  OBVIOUS
<1>2. \A i \in 1..n : h[i] \in Methods
  BY <1>1, ElementOfSeq
<1> QED
  BY <1>1, <1>2, AppendProperties DEF Grows

\* Where an operation was called, after one more call.
LEMMA CallsMore ==
  ASSUME NEW h, NEW n, NEW c, NEW u, Grows(h, n, c, u), NEW op
  PROVE  /\ Calls(h, op) \in SUBSET (1..n)
         /\ Calls(u, op) = IF c.op = op THEN Calls(h, op) \cup {n + 1} ELSE Calls(h, op)
<1>1. \A i : i \in 1..(n + 1) <=> i \in 1..n \/ i = n + 1
  BY DEF Grows
<1> QED
  BY <1>1 DEF Calls, Grows

\* Where a setting was set, after one more call.
SetCalls(h, f, legacy) ==
  {i \in 1..Len(h) : h[i].op = "set" /\ h[i].field \in {f, legacy}}

\* Its positions in a history of one more call.
LEMMA SetCallsMore ==
  ASSUME NEW h, NEW n, NEW c, NEW u, Grows(h, n, c, u), NEW f, NEW legacy
  PROVE  /\ SetCalls(h, f, legacy) \in SUBSET (1..n)
         /\ SetCalls(u, f, legacy) =
              IF c.op = "set" /\ c.field \in {f, legacy}
              THEN SetCalls(h, f, legacy) \cup {n + 1} ELSE SetCalls(h, f, legacy)
<1>1. \A i : i \in 1..(n + 1) <=> i \in 1..n \/ i = n + 1
  BY DEF Grows
<1> QED
  BY <1>1 DEF SetCalls, Grows

\* Where the retry policy was decided, after one more call.
RetryCalls(h) == {i \in 1..Len(h) : h[i].op \in {"retry", "from_env"}}

\* Their positions in a history of one more call.
LEMMA RetryCallsMore ==
  ASSUME NEW h, NEW n, NEW c, NEW u, Grows(h, n, c, u)
  PROVE  /\ RetryCalls(h) \in SUBSET (1..n)
         /\ RetryCalls(u) = IF c.op \in {"retry", "from_env"}
                            THEN RetryCalls(h) \cup {n + 1} ELSE RetryCalls(h)
<1>1. \A i : i \in 1..(n + 1) <=> i \in 1..n \/ i = n + 1
  BY DEF Grows
<1> QED
  BY <1>1 DEF RetryCalls, Grows

\* What a call that lists tools, or names, lists.
LEMMA CallLists ==
  ASSUME NEW c \in Methods
  PROVE  /\ c.op \in {"tools", "additional"} => c.tools \in Seq(Tools)
         /\ c.op = "definitions" => c.names \in Seq(STRING)
BY DEF Methods, ClientMethods, RequestMethods, SharedMethods

\* What one call adds to the tools listed from some position on.
Adds(c, ops, i, from) == IF i >= from /\ c.op \in ops THEN c.tools ELSE <<>>

\* What u lists is what h does, and more.
Lengthens(u, h, more, ops, from) ==
  /\ Listed(h, ops, from) \in Seq(Tools) /\ Listed(u, ops, from) \in Seq(Tools)
  /\ Listed(u, ops, from) = Listed(h, ops, from) \o more

\* The tools listed after one more call.
LEMMA ListedMore ==
  ASSUME NEW h, NEW n, NEW c, NEW u, Grows(h, n, c, u),
         NEW ops, ops \subseteq {"tools", "additional"}, NEW from
  PROVE  Lengthens(u, h, Adds(c, ops, n + 1, from), ops, from)
<1> DEFINE s == [i \in 1..n |-> Adds(h[i], ops, i, from)]
           t == [i \in 1..(n + 1) |-> Adds(u[i], ops, i, from)]
<1>1. \A d \in Methods, i \in Nat : Adds(d, ops, i, from) \in Seq(Tools)
  BY CallLists, EmptySeq DEF Adds
<1>2. n \in Nat /\ \A i \in 1..n : h[i] \in Methods /\ u[i] = h[i] /\ i \in Nat /\ i \in 1..(n + 1)
  BY DEF Grows
<1>3. u[n + 1] = c /\ n + 1 \in 1..(n + 1) /\ n + 1 \in Nat
  BY DEF Grows
<1>4. \A i \in 1..(n + 1) : u[i] \in Methods /\ i \in Nat
  BY <1>2 DEF Grows
<1>5. s \in [1..n -> Seq(Tools)] /\ t \in [1..(n + 1) -> Seq(Tools)]
  BY <1>1, <1>2, <1>4
<1>6. \A i \in 1..n : t[i] = s[i]
  BY <1>2
<1>7. t[n + 1] = Adds(c, ops, n + 1, from)
  BY <1>3
<1>8. Listed(h, ops, from) = FlattenSeq(s)
  BY DEF Listed, Grows, Adds
<1>9. Listed(u, ops, from) = FlattenSeq(t)
  BY DEF Listed, Grows, Adds
<1> HIDE DEF s, t
<1>10. FlattenSeq(t) = FlattenSeq(s) \o t[n + 1]
  BY <1>2, <1>5, <1>6, FlattenSeqMore
<1>11. FlattenSeq(s) \in Seq(Tools)
  BY <1>2, <1>5, FlattenSeqType
<1>12. t[n + 1] \in Seq(Tools)
  BY <1>3, <1>5
<1> QED
  BY <1>7, <1>8, <1>9, <1>10, <1>11, <1>12, ConcatProperties DEF Lengthens

\* Nothing is listed from a position that was not reached.
LEMMA ListedNothing ==
  ASSUME NEW h \in Seq(Methods), NEW from \in Nat, Len(h) < from, NEW ops
  PROVE  Listed(h, ops, from) = <<>>
<1>1. PICK n \in Nat : n = Len(h)
  OBVIOUS
<1> DEFINE s == [i \in 1..n |-> Adds(h[i], ops, i, from)]
<1>2. \A i \in 1..n : s[i] = <<>>
  BY <1>1 DEF Adds
<1>3. s \in [1..n -> Seq(Tools)]
  BY <1>2, EmptySeq
<1>4. Listed(h, ops, from) = FlattenSeq(s)
  BY <1>1 DEF Listed, Adds
<1> HIDE DEF s
<1> QED
  BY <1>2, <1>3, <1>4, FlattenSeqOfEmpty

\* The definitions given from some position on.
Declares(c, i, from) == IF i >= from /\ c.op = "definitions" THEN c.names ELSE <<>>

Declared(h, from) == FlattenSeq([i \in 1..Len(h) |-> Declares(h[i], i, from)])

\* The definitions given after one more call.
LEMMA DeclaredMore ==
  ASSUME NEW h, NEW n, NEW c, NEW u, Grows(h, n, c, u), NEW from
  PROVE  /\ Declared(h, from) \in Seq(STRING)
         /\ Declared(u, from) = Declared(h, from) \o Declares(c, n + 1, from)
<1> DEFINE s == [i \in 1..n |-> Declares(h[i], i, from)]
           t == [i \in 1..(n + 1) |-> Declares(u[i], i, from)]
<1>1. \A d \in Methods, i \in Nat : Declares(d, i, from) \in Seq(STRING)
  BY CallLists, EmptySeq DEF Declares
<1>2. n \in Nat /\ \A i \in 1..n : h[i] \in Methods /\ u[i] = h[i] /\ i \in Nat /\ i \in 1..(n + 1)
  BY DEF Grows
<1>3. u[n + 1] = c /\ n + 1 \in 1..(n + 1) /\ n + 1 \in Nat
  BY DEF Grows
<1>4. \A i \in 1..(n + 1) : u[i] \in Methods /\ i \in Nat
  BY <1>2 DEF Grows
<1>5. s \in [1..n -> Seq(STRING)] /\ t \in [1..(n + 1) -> Seq(STRING)]
  BY <1>1, <1>2, <1>4
<1>6. \A i \in 1..n : t[i] = s[i]
  BY <1>2
<1>7. t[n + 1] = Declares(c, n + 1, from)
  BY <1>3
<1>8. Declared(h, from) = FlattenSeq(s)
  BY DEF Declared, Grows
<1>9. Declared(u, from) = FlattenSeq(t)
  BY DEF Declared, Grows
<1> HIDE DEF s, t
<1>10. FlattenSeq(t) = FlattenSeq(s) \o t[n + 1]
  BY <1>2, <1>5, <1>6, FlattenSeqMore
<1>11. FlattenSeq(s) \in Seq(STRING)
  BY <1>2, <1>5, FlattenSeqType
<1> QED
  BY <1>7, <1>8, <1>9, <1>10, <1>11

\* Nothing is given from a position that was not reached.
LEMMA DeclaredNothing ==
  ASSUME NEW h \in Seq(Methods), NEW from \in Nat, Len(h) < from
  PROVE  Declared(h, from) = <<>>
<1>1. PICK n \in Nat : n = Len(h)
  OBVIOUS
<1> DEFINE s == [i \in 1..n |-> Declares(h[i], i, from)]
<1>2. \A i \in 1..n : s[i] = <<>>
  BY <1>1 DEF Declares
<1>3. s \in [1..n -> Seq(STRING)]
  BY <1>2, EmptySeq
<1>4. Declared(h, from) = FlattenSeq(s)
  BY <1>1 DEF Declared
<1> HIDE DEF s
<1> QED
  BY <1>2, <1>3, <1>4, FlattenSeqOfEmpty

-----------------------------------------------------------------------------

\* s is made of a and b, of the lengths n and m.
Joins(s, a, b, n, m) ==
  /\ n \in Nat /\ m \in Nat /\ n = Len(a) /\ m = Len(b) /\ Len(s) = n + m
  /\ \A i \in 1..n : s[i] = a[i] /\ i \in 1..(n + m)
  /\ \A i \in 1..m : s[n + i] = b[i] /\ n + i \in 1..(n + m)
  /\ \A i \in 1..(n + m) : i \in 1..n \/ \E j \in 1..m : i = n + j

\* Positions in a sequence made of two.
LEMMA ConcatJoins ==
  ASSUME NEW X, NEW a \in Seq(X), NEW b \in Seq(X)
  PROVE  Joins(a \o b, a, b, Len(a), Len(b))
<1>0. PICK n, m : n = Len(a) /\ m = Len(b)
  OBVIOUS
<1>1. n \in Nat /\ m \in Nat /\ a \o b \in Seq(X) /\ Len(a \o b) = n + m
  BY <1>0, ConcatProperties
<1>2. \A i \in 1..n : i \in 1..(n + m) /\ i <= n
  BY <1>1
<1>3. \A i \in 1..m : n + i \in 1..(n + m) /\ n < n + i /\ (n + i) - n = i
  BY <1>1
<1>4. \A i \in 1..(n + m) : i \in 1..n \/ \E j \in 1..m : i = n + j
  <2> SUFFICES ASSUME NEW i \in 1..(n + m), i \notin 1..n PROVE \E j \in 1..m : i = n + j
    OBVIOUS
  <2>1. i - n \in 1..m /\ i = n + (i - n)
    BY <1>1
  <2> QED
    BY <2>1
<1>5. \A i \in 1..(n + m) : (a \o b)[i] = IF i <= n THEN a[i] ELSE b[i - n]
  BY <1>0, ConcatProperties
<1>6. \A i \in 1..n : (a \o b)[i] = a[i]
  BY <1>2, <1>5
<1>7. \A i \in 1..m : (a \o b)[n + i] = b[i]
  <2> SUFFICES ASSUME NEW i \in 1..m PROVE (a \o b)[n + i] = b[i]
    OBVIOUS
  <2>1. PICK k \in 1..(n + m) : k = n + i /\ ~ k <= n /\ k - n = i
    BY <1>1, <1>3
  <2>2. (a \o b)[k] = b[k - n]
    BY <1>5, <2>1
  <2> QED
    BY <2>1, <2>2
<1> QED
  BY <1>0, <1>1, <1>2, <1>3, <1>4, <1>6, <1>7 DEF Joins

\* Tools in two lists, the first of which can be registered.
LEMMA AdmissibleConcat ==
  ASSUME NEW a \in Seq(Tools), NEW b \in Seq(Tools), Admissible({}, a)
  PROVE  /\ Admissible({}, a \o b) <=> Admissible(NamesOf(a), b)
         /\ NamesOf(a \o b) = NamesOf(a) \cup NamesOf(b)
<1>a. PICK s : s = a \o b
  OBVIOUS
<1>b. PICK n, m : Joins(s, a, b, n, m)
  BY <1>a, ConcatJoins
<1>1. n = Len(a) /\ m = Len(b)
  BY <1>b DEF Joins
<1>2. /\ n \in Nat /\ m \in Nat /\ Len(s) = n + m
      /\ \A i \in 1..n : s[i] = a[i] /\ i \in 1..(n + m)
      /\ \A i \in 1..m : s[n + i] = b[i] /\ n + i \in 1..(n + m)
      /\ \A i \in 1..(n + m) : i \in 1..n \/ \E j \in 1..m : i = n + j
  BY <1>b DEF Joins
<1>3. \A i \in 1..n, j \in 1..m : i # n + j
  BY <1>2
<1>4. \A i, j \in 1..m : n + i = n + j => i = j
  BY <1>2
<1>5. NamesOf(s) = NamesOf(a) \cup NamesOf(b)
  <2>1. \A x \in NamesOf(a) : x \in NamesOf(s)
    BY <1>1, <1>2 DEF NamesOf
  <2>2. ASSUME NEW x \in NamesOf(b) PROVE x \in NamesOf(s)
    <3>1. PICK i \in 1..m : x = b[i].name
      BY <1>1 DEF NamesOf
    <3>2. n + i \in 1..Len(s) /\ s[n + i] = b[i]
      BY <1>2
    <3> QED
      BY <3>1, <3>2 DEF NamesOf
  <2>3. ASSUME NEW x \in NamesOf(s) PROVE x \in NamesOf(a) \cup NamesOf(b)
    <3>1. PICK i \in 1..(n + m) : x = s[i].name
      BY <1>2 DEF NamesOf
    <3>2. CASE i \in 1..n
      BY <1>1, <1>2, <3>1, <3>2 DEF NamesOf
    <3>3. CASE \E j \in 1..m : i = n + j
      <4>1. PICK j \in 1..m : i = n + j
        BY <3>3
      <4>2. x = b[j].name
        BY <1>2, <3>1, <4>1
      <4> QED
        BY <1>1, <4>2 DEF NamesOf
    <3> QED
      BY <1>2, <3>2, <3>3
  <2> QED
    BY <2>1, <2>2, <2>3
<1>6. ASSUME Admissible({}, s) PROVE Admissible(NamesOf(a), b)
  <2> SUFFICES ASSUME NEW i \in 1..m
               PROVE  /\ Registrable(b[i])
                      /\ b[i].name \notin NamesOf(a)
                      /\ \A j \in 1..m : b[i].name = b[j].name => i = j
    BY <1>1 DEF Admissible, AdmissibleUpTo
  <2>1. n + i \in 1..(n + m) /\ s[n + i] = b[i]
    BY <1>2
  <2>2. /\ Registrable(s[n + i])
        /\ \A j \in 1..(n + m) : s[n + i].name = s[j].name => n + i = j
    BY <1>2, <1>6, <2>1 DEF Admissible, AdmissibleUpTo
  <2>3. b[i].name \notin NamesOf(a)
    <3> SUFFICES ASSUME NEW j \in 1..n, b[i].name = a[j].name PROVE FALSE
      BY <1>1 DEF NamesOf
    <3>1. s[j] = a[j] /\ j \in 1..(n + m) /\ n + i # j
      BY <1>2, <1>3
    <3> QED
      BY <2>1, <2>2, <3>1
  <2>4. \A j \in 1..m : b[i].name = b[j].name => i = j
    BY <1>2, <1>4, <2>1, <2>2
  <2> QED
    BY <2>1, <2>2, <2>3, <2>4
<1>7. ASSUME Admissible(NamesOf(a), b) PROVE Admissible({}, s)
  <2>1. /\ \A i \in 1..n : Registrable(a[i]) /\ \A j \in 1..n : a[i].name = a[j].name => i = j
        /\ \A i \in 1..m : /\ Registrable(b[i])
                           /\ \A j \in 1..n : b[i].name # a[j].name
                           /\ \A j \in 1..m : b[i].name = b[j].name => i = j
    BY <1>1, <1>7 DEF Admissible, AdmissibleUpTo, NamesOf
  <2>2. ASSUME NEW i \in 1..(n + m), NEW j \in 1..(n + m), s[i].name = s[j].name
        PROVE  i = j
    <3>1. CASE i \in 1..n /\ j \in 1..n
      BY <1>2, <2>1, <2>2, <3>1
    <3>2. CASE i \in 1..n /\ \E l \in 1..m : j = n + l
      <4>1. PICK l \in 1..m : j = n + l
        BY <3>2
      <4>2. s[i] = a[i] /\ s[j] = b[l]
        BY <1>2, <3>2, <4>1
      <4> QED
        BY <2>1, <2>2, <3>2, <4>2
    <3>3. CASE j \in 1..n /\ \E l \in 1..m : i = n + l
      <4>1. PICK l \in 1..m : i = n + l
        BY <3>3
      <4>2. s[j] = a[j] /\ s[i] = b[l]
        BY <1>2, <3>3, <4>1
      <4> QED
        BY <2>1, <2>2, <3>3, <4>2
    <3>4. CASE (\E k \in 1..m : i = n + k) /\ (\E l \in 1..m : j = n + l)
      <4>1. PICK k \in 1..m, l \in 1..m : i = n + k /\ j = n + l
        BY <3>4
      <4>2. b[k].name = b[l].name
        BY <1>2, <2>2, <4>1
      <4> QED
        BY <2>1, <4>1, <4>2
    <3> QED
      BY <1>2, <3>1, <3>2, <3>3, <3>4
  <2>3. ASSUME NEW i \in 1..(n + m) PROVE Registrable(s[i])
    <3>1. CASE i \in 1..n
      BY <1>2, <2>1, <3>1
    <3>2. CASE \E j \in 1..m : i = n + j
      <4>1. PICK j \in 1..m : i = n + j
        BY <3>2
      <4>2. s[i] = b[j]
        BY <1>2, <4>1
      <4> QED
        BY <2>1, <4>2
    <3> QED
      BY <1>2, <3>1, <3>2
  <2> QED
    BY <1>2, <2>2, <2>3 DEF Admissible, AdmissibleUpTo
<1> QED
  BY <1>a, <1>5, <1>6, <1>7

-----------------------------------------------------------------------------

\* The value that loading gives a setting.
ValueOf(e, f) == IF f \in DOMAIN VariableOf THEN e[VariableOf[f]] ELSE Attribution(e, f)

\* What the calls on a builder say of a setting, before it is read through.
Said(h, e, f, legacy) ==
  LET set    == SetCalls(h, f, legacy)
      loaded == Calls(h, "from_env")
  IN  IF set # {} /\ (loaded = {} \/ Latest(loaded) < Latest(set)) THEN Some("set")
      ELSE IF loaded # {} THEN ValueOf(e, f) ELSE None

\* After one more call.
LEMMA SaidMore ==
  ASSUME NEW h, NEW n, NEW c, NEW u, Grows(h, n, c, u), NEW e, NEW f, NEW legacy
  PROVE  Said(u, e, f, legacy) =
           IF c.op = "set" /\ c.field \in {f, legacy} THEN Some("set")
           ELSE IF c.op = "from_env" THEN ValueOf(e, f)
           ELSE Said(h, e, f, legacy)
<1> DEFINE set == SetCalls(h, f, legacy)
           loaded == Calls(h, "from_env")
<1>1. /\ set \in SUBSET (1..n) /\ loaded \in SUBSET (1..n) /\ n \in Nat
      /\ SetCalls(u, f, legacy) = IF c.op = "set" /\ c.field \in {f, legacy}
                                  THEN set \cup {n + 1} ELSE set
      /\ Calls(u, "from_env") = IF c.op = "from_env" THEN loaded \cup {n + 1} ELSE loaded
  <2>1. n \in Nat
    BY DEF Grows
  <2> QED
    BY <2>1, SetCallsMore, CallsMore
<1>2. Latest(set \cup {n + 1}) = n + 1 /\ Latest(loaded \cup {n + 1}) = n + 1
  BY <1>1, LatestMore
<1>3. /\ set # {} => Latest(set) \in 1..n
      /\ loaded # {} => Latest(loaded) \in 1..n
  BY <1>1, LatestIs
<1> HIDE DEF set, loaded
<1>4. CASE c.op = "set" /\ c.field \in {f, legacy}
  <2>1. Calls(u, "from_env") = loaded /\ SetCalls(u, f, legacy) = set \cup {n + 1}
    BY <1>1, <1>4
  <2>2. loaded # {} => Latest(loaded) < n + 1
    BY <1>1, <1>3
  <2> QED
    BY <1>2, <1>4, <2>1, <2>2 DEF Said
<1>5. CASE c.op = "from_env"
  <2>1. Calls(u, "from_env") = loaded \cup {n + 1} /\ SetCalls(u, f, legacy) = set
    BY <1>1, <1>5
  <2>2. set # {} => ~ (n + 1 < Latest(set))
    BY <1>1, <1>3
  <2> QED
    BY <1>2, <1>5, <2>1, <2>2 DEF Said
<1>6. CASE c.op # "from_env" /\ ~ (c.op = "set" /\ c.field \in {f, legacy})
  BY <1>1, <1>6 DEF Said, set, loaded
<1> QED
  BY <1>4, <1>5, <1>6

\* What the calls on a builder say of the retry policy.
RetrySaid(h, e) ==
  LET retry == RetryCalls(h)
  IN  IF retry = {} THEN DefaultRetry
      ELSE IF h[Latest(retry)].op = "retry" THEN h[Latest(retry)].policy
      ELSE OrDefault(RetryFromEnv(e), DefaultRetry)

\* After one more call.
LEMMA RetrySaidMore ==
  ASSUME NEW h, NEW n, NEW c, NEW u, Grows(h, n, c, u), NEW e
  PROVE  RetrySaid(u, e) =
           IF c.op = "retry" THEN c.policy
           ELSE IF c.op = "from_env" THEN OrDefault(RetryFromEnv(e), DefaultRetry)
           ELSE RetrySaid(h, e)
<1> DEFINE retry == RetryCalls(h)
<1>1. /\ retry \in SUBSET (1..n) /\ n \in Nat
      /\ RetryCalls(u) = IF c.op \in {"retry", "from_env"} THEN retry \cup {n + 1} ELSE retry
  <2>1. n \in Nat
    BY DEF Grows
  <2> QED
    BY <2>1, RetryCallsMore
<1>2. Latest(retry \cup {n + 1}) = n + 1 /\ u[n + 1] = c
  BY <1>1, LatestMore DEF Grows
<1>3. retry # {} => Latest(retry) \in 1..n
  BY <1>1, LatestIs
<1>4. retry # {} => u[Latest(retry)] = h[Latest(retry)]
  BY <1>3 DEF Grows
<1> HIDE DEF retry
<1>5. CASE c.op \in {"retry", "from_env"}
  <2>1. RetryCalls(u) = retry \cup {n + 1} /\ retry \cup {n + 1} # {}
    BY <1>1, <1>5
  <2> QED
    BY <1>2, <1>5, <2>1 DEF RetrySaid
<1>6. CASE c.op \notin {"retry", "from_env"}
  BY <1>1, <1>4, <1>6 DEF RetrySaid, retry
<1> QED
  BY <1>5, <1>6

\* A builder's configuration is what its calls say.
ConfigSays(config, h, e) ==
  /\ DOMAIN config = Fields
  /\ config["openai_api_key"] = Said(h, e, "openai_api_key", "")
  /\ config["openai_base_url"] = Said(h, e, "openai_base_url", "")
  /\ config["openrouter_api_key"] = Said(h, e, "openrouter_api_key", "")
  /\ config["openrouter_http_referer"] =
       Said(h, e, "openrouter_http_referer", "openrouter_app_url")
  /\ config["openrouter_http_referer"] = None => config["openrouter_app_url"] = None

\* A configuration without any call.
LEMMA ConfigSaysNothing == ASSUME NEW e PROVE ConfigSays(NewConfig, <<>>, e)
<1>1. \A op : Calls(<<>>, op) = {}
  BY DEF Calls
<1>2. \A f, legacy : SetCalls(<<>>, f, legacy) = {}
  BY DEF SetCalls
<1>3. \A f, legacy : Said(<<>>, e, f, legacy) = None
  BY <1>1, <1>2 DEF Said
<1>4. \A f \in Fields : NewConfig[f] = None
  BY DEF NewConfig
<1>5. /\ "openai_api_key" \in Fields /\ "openai_base_url" \in Fields
      /\ "openrouter_api_key" \in Fields /\ "openrouter_http_referer" \in Fields
      /\ "openrouter_app_url" \in Fields
  BY DEF Fields, VariableOf, Alias, Aliases
<1>6. DOMAIN NewConfig = Fields
  BY DEF NewConfig
<1> QED
  BY <1>3, <1>4, <1>5, <1>6 DEF ConfigSays

\* The legacy setters and what else they set.
LEMMA AliasesAre ==
  /\ Aliases = {"openrouter_app_url", "openrouter_app_title"}
  /\ AliasOf("openrouter_app_url") = "openrouter_http_referer"
  /\ AliasOf("openrouter_app_title") = "openrouter_title"
<1>1. DOMAIN Alias = {"openrouter_http_referer", "openrouter_title"}
  BY DEF Alias
<1>2. /\ Alias["openrouter_http_referer"].field = "openrouter_app_url"
      /\ Alias["openrouter_title"].field = "openrouter_app_title"
  BY DEF Alias
<1> QED
  BY <1>1, <1>2 DEF Aliases, AliasOf

\* The fields of Config.
LEMMA FieldsAre ==
  /\ DOMAIN VariableOf = {"openai_api_key", "openai_base_url", "anthropic_api_key",
                          "anthropic_base_url", "openrouter_api_key", "openrouter_base_url"}
  /\ DOMAIN Alias = {"openrouter_http_referer", "openrouter_title"}
  /\ DOMAIN VariableOf \subseteq Fields /\ DOMAIN Alias \subseteq Fields /\ Aliases \subseteq Fields
BY DEF VariableOf, Alias, Fields

\* Setting a field leaves what the calls say in the configuration.
LEMMA ConfigSet ==
  ASSUME NEW h, NEW n, NEW c, NEW u, Grows(h, n, c, u), NEW e, NEW config,
         c.op = "set", c.field \in Fields, ConfigSays(config, h, e)
  PROVE  ConfigSays(With(config, c.field, "set"), u, e)
<1>1. PICK g \in Fields : g = c.field
  OBVIOUS
<1>2. DOMAIN config = Fields
  BY DEF ConfigSays
<1> DEFINE with == With(config, g, "set")
<1>3. /\ DOMAIN with = Fields
      /\ \A f \in Fields : with[f] = IF f = g \/ (g \in Aliases /\ f = AliasOf(g))
                                     THEN Some("set") ELSE config[f]
  BY <1>2, AliasesAre, FieldsAre DEF With
<1>4. Some("set") # None
  BY DEF Some, None
<1>5. \A f, legacy : Said(u, e, f, legacy) =
        IF g \in {f, legacy} THEN Some("set") ELSE Said(h, e, f, legacy)
  BY <1>1, SaidMore
<1> HIDE DEF with
<1>6. /\ with["openai_api_key"] = Said(u, e, "openai_api_key", "")
      /\ with["openai_base_url"] = Said(u, e, "openai_base_url", "")
      /\ with["openrouter_api_key"] = Said(u, e, "openrouter_api_key", "")
  <2>1. "" \notin Fields
    BY FieldsAre, AliasesAre DEF Fields, EndpointFields
  <2>2. ASSUME NEW f \in {"openai_api_key", "openai_base_url", "openrouter_api_key"}
        PROVE  with[f] = Said(u, e, f, "")
    <3>1. f \in Fields /\ ~ (g \in Aliases /\ f = AliasOf(g))
      BY AliasesAre, FieldsAre
    <3>2. with[f] = IF f = g THEN Some("set") ELSE config[f]
      BY <1>3, <3>1
    <3>3. config[f] = Said(h, e, f, "")
      BY DEF ConfigSays
    <3>4. g # ""
      BY <2>1
    <3>5. Said(u, e, f, "") = IF g = f THEN Some("set") ELSE Said(h, e, f, "")
      BY <1>5, <3>4
    <3>6. CASE f = g
      <4>1. with[f] = Some("set") /\ Said(u, e, f, "") = Some("set")
        BY <3>2, <3>5, <3>6
      <4> QED
        BY <4>1
    <3>7. CASE f # g
      <4>1. with[f] = config[f] /\ Said(u, e, f, "") = Said(h, e, f, "")
        BY <3>2, <3>5, <3>7
      <4> QED
        BY <3>3, <4>1
    <3> QED
      BY <3>6, <3>7
  <2> QED
    BY <2>2
<1>7. with["openrouter_http_referer"] =
        Said(u, e, "openrouter_http_referer", "openrouter_app_url")
  <2> DEFINE f == "openrouter_http_referer"
  <2>1. CASE g \in {"openrouter_http_referer", "openrouter_app_url"}
    <3>1. with[f] = Some("set")
      BY <1>3, <2>1, AliasesAre, FieldsAre
    <3>2. Said(u, e, f, "openrouter_app_url") = Some("set")
      BY <1>5, <2>1
    <3> QED
      BY <3>1, <3>2
  <2>2. CASE g \notin {"openrouter_http_referer", "openrouter_app_url"}
    <3>1. with[f] = config[f]
      BY <1>3, <2>2, AliasesAre, FieldsAre
    <3>2. Said(u, e, f, "openrouter_app_url") = Said(h, e, f, "openrouter_app_url")
      BY <1>5, <2>2
    <3> QED
      BY <3>1, <3>2 DEF ConfigSays
  <2> QED
    BY <2>1, <2>2
<1>8. with["openrouter_http_referer"] = None => with["openrouter_app_url"] = None
  BY <1>3, <1>4, AliasesAre, FieldsAre DEF ConfigSays
<1>9. ConfigSays(with, u, e)
  BY <1>3, <1>6, <1>7, <1>8 DEF ConfigSays
<1> QED
  BY <1>1, <1>9 DEF with

\* So does loading the environment.
LEMMA ConfigLoaded ==
  ASSUME NEW h, NEW n, NEW c, NEW u, Grows(h, n, c, u), NEW e, c.op = "from_env"
  PROVE  ConfigSays(FromEnv(e), u, e)
<1>1. \A f, legacy : Said(u, e, f, legacy) = ValueOf(e, f)
  BY SaidMore
<1>2. DOMAIN FromEnv(e) = Fields
  BY DEF FromEnv
<1>3. \A f \in DOMAIN VariableOf : FromEnv(e)[f] = e[VariableOf[f]]
  BY FieldsAre, AliasesAre DEF FromEnv
<1>4. FromEnv(e)["openrouter_http_referer"] = Attribution(e, "openrouter_http_referer")
  BY FieldsAre, AliasesAre DEF FromEnv
<1>5. FromEnv(e)["openrouter_app_url"] = LegacyAttribution(e, "openrouter_http_referer")
  BY FieldsAre, AliasesAre DEF FromEnv
<1>6. Attribution(e, "openrouter_http_referer") = None
        => LegacyAttribution(e, "openrouter_http_referer") = None
  BY DEF Attribution, LegacyAttribution, Or, IsSome
<1> QED
  BY <1>1, <1>2, <1>3, <1>4, <1>5, <1>6, FieldsAre DEF ConfigSays, ValueOf

\* Any other call says nothing of the settings.
LEMMA ConfigKept ==
  ASSUME NEW h, NEW n, NEW c, NEW u, Grows(h, n, c, u), NEW e, NEW config,
         c.op \notin {"set", "from_env"}, ConfigSays(config, h, e)
  PROVE  ConfigSays(config, u, e)
<1>1. \A f, legacy : Said(u, e, f, legacy) = Said(h, e, f, legacy)
  BY SaidMore
<1> QED
  BY <1>1 DEF ConfigSays

\* What a setting must come from, after the calls in h.
Want(h, e, f, legacy) ==
  LET set    == SetCalls(h, f, legacy)
      loaded == Calls(h, "from_env")
  IN  IF set # {} /\ (loaded = {} \/ Latest(loaded) < Latest(set)) THEN Some("set")
      ELSE IF loaded # {} \/ f \in ReadThrough \cup DOMAIN Alias THEN ValueOf(e, f)
      ELSE None

\* It is what the property expects.
LEMMA ExpectedIs ==
  ASSUME NEW f, NEW legacy
  PROVE  Expected(f, legacy) = Want(calls, env, f, legacy)
BY DEF Expected, Want, Decides, SetCalls, ValueOf

\* What is read through was said, or else is the environment's.
LEMMA WantIs ==
  ASSUME NEW h, NEW e, NEW f, NEW legacy
  PROVE  /\ f \in ReadThrough \cup DOMAIN Alias =>
              Want(h, e, f, legacy) = Or(Said(h, e, f, legacy), ValueOf(e, f))
         /\ f \notin ReadThrough \cup DOMAIN Alias =>
              Want(h, e, f, legacy) = Said(h, e, f, legacy)
<1>1. Or(Some("set"), ValueOf(e, f)) = Some("set")
  BY DEF Or, IsSome, Some, None
<1>2. Or(ValueOf(e, f), ValueOf(e, f)) = ValueOf(e, f) /\ Or(None, ValueOf(e, f)) = ValueOf(e, f)
  BY DEF Or, IsSome
<1> QED
  BY <1>1, <1>2 DEF Want, Said

\* A provider gets its settings from where they must come from.
LEMMA SettingsGot ==
  ASSUME NEW config, NEW h, NEW e, ConfigSays(config, h, e)
  PROVE  /\ Get(config, e, "openai_api_key") = Want(h, e, "openai_api_key", "")
         /\ Get(config, e, "openai_base_url") = Want(h, e, "openai_base_url", "")
         /\ Get(config, e, "openrouter_api_key") = Want(h, e, "openrouter_api_key", "")
         /\ GetAttribution(config, e, "openrouter_http_referer") =
              Want(h, e, "openrouter_http_referer", "openrouter_app_url")
<1>1. /\ "openai_api_key" \in ReadThrough /\ "openrouter_api_key" \in ReadThrough
      /\ "openai_base_url" \notin ReadThrough \cup DOMAIN Alias
      /\ "openrouter_http_referer" \in DOMAIN Alias \ DOMAIN VariableOf
      /\ {"openai_api_key", "openrouter_api_key"} \subseteq DOMAIN VariableOf
  BY FieldsAre DEF ReadThrough
<1>2. /\ config["openai_api_key"] = Said(h, e, "openai_api_key", "")
      /\ config["openai_base_url"] = Said(h, e, "openai_base_url", "")
      /\ config["openrouter_api_key"] = Said(h, e, "openrouter_api_key", "")
  BY DEF ConfigSays
<1>3. ASSUME NEW f \in {"openai_api_key", "openrouter_api_key"}
      PROVE  Get(config, e, f) = Want(h, e, f, "")
  <2>1. config[f] = Said(h, e, f, "")
    BY <1>2
  <2>2. f \in ReadThrough /\ f \in DOMAIN VariableOf
    BY <1>1
  <2>3. Get(config, e, f) = Or(Said(h, e, f, ""), ValueOf(e, f))
    BY <2>1, <2>2 DEF Get, ValueOf
  <2> QED
    BY <2>2, <2>3, WantIs
<1>5. Get(config, e, "openai_base_url") = Want(h, e, "openai_base_url", "")
  <2>1. Get(config, e, "openai_base_url") = config["openai_base_url"]
    BY <1>1 DEF Get
  <2>2. Want(h, e, "openai_base_url", "") = Said(h, e, "openai_base_url", "")
    BY <1>1, WantIs
  <2> QED
    BY <1>2, <2>1, <2>2
<1>6. GetAttribution(config, e, "openrouter_http_referer") =
        Want(h, e, "openrouter_http_referer", "openrouter_app_url")
  <2> DEFINE f == "openrouter_http_referer"
  <2>1. Alias[f].field = "openrouter_app_url"
    BY DEF Alias
  <2>2. Or(config[f], config["openrouter_app_url"]) = config[f]
    BY DEF ConfigSays, Or, IsSome
  <2>3. GetAttribution(config, e, f) = Or(config[f], Attribution(e, f))
    BY <2>1, <2>2 DEF GetAttribution
  <2>4. ValueOf(e, f) = Attribution(e, f)
    BY <1>1 DEF ValueOf
  <2>5. config[f] = Said(h, e, f, "openrouter_app_url")
    BY DEF ConfigSays
  <2> QED
    BY <1>1, <2>3, <2>4, <2>5, WantIs
<1> QED
  BY <1>3, <1>5, <1>6

-----------------------------------------------------------------------------

\* The tools given to a builder.
Given(h) == Listed(h, {"tools"}, 1)

\* A builder is what its calls say.
BuilderSays(b, h, e) ==
  /\ DOMAIN b = DOMAIN NewBuilder
  /\ ConfigSays(b.config, h, e)
  /\ b.retry = RetrySaid(h, e)
  /\ b.tools = Given(h)

\* A client is what the calls on its builder say.
ClientSays(c, h, e) ==
  /\ Given(h) \in Seq(Tools) /\ Admissible({}, Given(h)) /\ c.tools = NamesOf(Given(h))
  /\ c.retry = RetrySaid(h, e)
  /\ "OpenAI" \in DOMAIN c.providers =>
       /\ c.providers["OpenAI"].key = Want(h, e, "openai_api_key", "")
       /\ c.providers["OpenAI"].base_url =
            OrDefault(Want(h, e, "openai_base_url", ""), "default")
  /\ "OpenRouter" \in DOMAIN c.providers =>
       /\ c.providers["OpenRouter"].key = Want(h, e, "openrouter_api_key", "")
       /\ c.providers["OpenRouter"].http_referer =
            Want(h, e, "openrouter_http_referer", "openrouter_app_url")

\* A builder without calls.
LEMMA BuilderSaysNothing == ASSUME NEW e PROVE BuilderSays(NewBuilder, <<>>, e)
<1>1. Given(<<>>) = <<>>
  <2>1. <<>> \in Seq(Methods) /\ Len(<<>>) < 1
    BY EmptySeq
  <2> QED
    BY <2>1, ListedNothing DEF Given
<1>2. RetryCalls(<<>>) = {}
  BY DEF RetryCalls
<1>3. RetrySaid(<<>>, e) = DefaultRetry
  BY <1>2 DEF RetrySaid
<1> QED
  BY <1>1, <1>3, ConfigSaysNothing DEF BuilderSays, NewBuilder

\* After one more call, in the process's environment.
LEMMA BuilderSaysMore ==
  ASSUME NEW h, NEW n, NEW c, NEW u, Grows(h, n, c, u), c \in ClientMethods,
         NEW b, BuilderSays(b, h, env)
  PROVE  BuilderSays(Configured(b, c), u, env)
<1>1. /\ Given(h) \in Seq(Tools)
      /\ Given(u) = Given(h) \o Adds(c, {"tools"}, n + 1, 1)
  <2>1. Lengthens(u, h, Adds(c, {"tools"}, n + 1, 1), {"tools"}, 1)
    BY ListedMore
  <2> QED
    BY <2>1 DEF Given, Lengthens
<1>2. n + 1 >= 1
  BY DEF Grows
<1>3. Given(u) = IF c.op = "tools" THEN Given(h) \o c.tools ELSE Given(h)
  BY <1>1, <1>2, ConcatEmptySeq DEF Adds
<1>4. RetrySaid(u, env) =
           IF c.op = "retry" THEN c.policy
           ELSE IF c.op = "from_env" THEN OrDefault(RetryFromEnv(env), DefaultRetry)
           ELSE RetrySaid(h, env)
  BY RetrySaidMore
<1>5. DOMAIN b = {"config", "model", "defaults", "retry", "tools"}
  BY DEF BuilderSays, NewBuilder
<1>6. c.op \in {"from_env", "set", "retry", "model", "config", "tools"}
  BY DEF ClientMethods, SharedMethods
<1>7. CASE c.op = "from_env"
  <2>1. Configured(b, c) = [[b EXCEPT !.config = FromEnv(env)]
                               EXCEPT !.retry = GetRetry(FromEnv(env))]
    BY <1>7 DEF Configured, Load
  <2>2. GetRetry(FromEnv(env)) = OrDefault(RetryFromEnv(env), DefaultRetry)
    <3>1. FromEnv(env).retry_config = RetryFromEnv(env)
      BY FieldsAre, AliasesAre DEF FromEnv, Fields
    <3> QED
      BY <3>1 DEF GetRetry
  <2>3. ConfigSays(FromEnv(env), u, env)
    BY <1>7, ConfigLoaded
  <2> QED
    BY <1>3, <1>4, <1>5, <1>7, <2>1, <2>2, <2>3 DEF BuilderSays, NewBuilder
<1>8. CASE c.op = "set"
  <2>1. c.field \in Fields
    BY <1>8 DEF ClientMethods, SharedMethods, Settable
  <2>2. ConfigSays(With(b.config, c.field, "set"), u, env)
    BY <1>8, <2>1, ConfigSet DEF BuilderSays
  <2>3. Configured(b, c) = [b EXCEPT !.config = With(b.config, c.field, "set")]
    BY <1>8 DEF Configured
  <2> QED
    BY <1>3, <1>4, <1>5, <1>8, <2>2, <2>3 DEF BuilderSays, NewBuilder
<1>9. CASE c.op \in {"retry", "model", "config", "tools"}
  <2>1. ConfigSays(b.config, u, env)
    BY <1>9, ConfigKept DEF BuilderSays
  <2> QED
    BY <1>3, <1>4, <1>5, <1>9, <2>1 DEF BuilderSays, NewBuilder, Configured
<1> QED
  BY <1>6, <1>7, <1>8, <1>9

\* Whatever was called, what it lists is tools.
LEMMA ListedType ==
  ASSUME NEW h \in Seq(Methods), NEW ops, ops \subseteq {"tools", "additional"}, NEW from
  PROVE  Listed(h, ops, from) \in Seq(Tools)
<1>1. PICK c \in Methods : c = [op |-> "no_tools"]
  BY DEF Methods, RequestMethods
<1>2. Grows(h, Len(h), c, Append(h, c))
  BY AppendGrows
<1> QED
  BY <1>2, ListedMore DEF Lengthens

\* build() fixes what the calls said.
LEMMA ClientBuilt ==
  ASSUME NEW h \in Seq(Methods), NEW b, BuilderSays(b, h, env), NEW buildable,
         ~ Extend(NewRegistry, b.tools).rejected
  PROVE  ClientSays(NewClient(b, Extend(NewRegistry, b.tools), buildable), h, env)
<1>1. PICK registry : registry = Extend(NewRegistry, b.tools)
  OBVIOUS
<1>2. Given(h) \in Seq(Tools) /\ b.tools = Given(h)
  BY ListedType DEF Given, BuilderSays
<1>3. NewRegistry \in Registries /\ ~ NewRegistry.rejected /\ NewRegistry.names = {}
  BY DEF NewRegistry, Registries
<1>4. Extended(registry, {}, Given(h))
  BY <1>1, <1>2, <1>3, ExtendAll
<1>5. Admissible({}, Given(h)) /\ registry.names = NamesOf(Given(h))
  BY <1>1, <1>4 DEF Extended
<1> DEFINE c == NewClient(b, registry, buildable)
<1>6. c.tools = registry.names /\ c.retry = b.retry
  BY DEF NewClient
<1>7. \A p \in DOMAIN c.providers : c.providers[p] = NewProvider(b.config, p)
  BY DEF NewClient
<1> HIDE DEF c
<1>a. PICK config : config = b.config
  OBVIOUS
<1>b. ConfigSays(config, h, env) /\ b.retry = RetrySaid(h, env)
  BY <1>a DEF BuilderSays
<1>8. ASSUME "OpenAI" \in DOMAIN c.providers
      PROVE  /\ c.providers["OpenAI"].key = Want(h, env, "openai_api_key", "")
             /\ c.providers["OpenAI"].base_url =
                  OrDefault(Want(h, env, "openai_base_url", ""), "default")
  <2>1. c.providers["OpenAI"] = OpenAIProvider(config)
    BY <1>7, <1>8, <1>a DEF NewProvider
  <2>2. /\ OpenAIProvider(config).key = Get(config, env, "openai_api_key")
        /\ OpenAIProvider(config).base_url =
             OrDefault(Get(config, env, "openai_base_url"), "default")
    BY DEF OpenAIProvider
  <2>3. /\ Get(config, env, "openai_api_key") = Want(h, env, "openai_api_key", "")
        /\ Get(config, env, "openai_base_url") = Want(h, env, "openai_base_url", "")
    BY <1>b, SettingsGot
  <2> QED
    BY <2>1, <2>2, <2>3
<1>9. ASSUME "OpenRouter" \in DOMAIN c.providers
      PROVE  /\ c.providers["OpenRouter"].key = Want(h, env, "openrouter_api_key", "")
             /\ c.providers["OpenRouter"].http_referer =
                  Want(h, env, "openrouter_http_referer", "openrouter_app_url")
  <2>1. c.providers["OpenRouter"] = OpenRouterProvider(config)
    BY <1>7, <1>9, <1>a DEF NewProvider
  <2>2. /\ OpenRouterProvider(config).key = Get(config, env, "openrouter_api_key")
        /\ OpenRouterProvider(config).http_referer =
             GetAttribution(config, env, "openrouter_http_referer")
    BY DEF OpenRouterProvider
  <2>3. /\ Get(config, env, "openrouter_api_key") = Want(h, env, "openrouter_api_key", "")
        /\ GetAttribution(config, env, "openrouter_http_referer") =
             Want(h, env, "openrouter_http_referer", "openrouter_app_url")
    BY <1>b, SettingsGot
  <2> QED
    BY <2>1, <2>2, <2>3
<1>10. ClientSays(c, h, env)
  BY <1>2, <1>5, <1>6, <1>8, <1>9, <1>b DEF ClientSays
<1> QED
  BY <1>1, <1>10 DEF c

-----------------------------------------------------------------------------

Extending == {"tools", "additional"}

\* The override o and the tools ts of a request are what its calls say.
OverrideSays(o, ts, h) ==
  LET dropped  == Calls(h, "no_tools")
      replaced == Calls(h, "tools")
  IN  /\ o \in {"Inherit", "Append", "Replace", "None"}
      /\ o \in {"Inherit", "Append"} =>
           dropped = {} /\ replaced = {} /\ ts = Listed(h, Extending, 1)
      /\ o \in {"Inherit", "None"} => ts = <<>>
      /\ o = "Replace" =>
           IF dropped # {} THEN ts = Listed(h, Extending, Latest(dropped))
           ELSE replaced # {} /\ ts = Listed(h, Extending, Earliest(replaced))
      /\ o = "None" => dropped # {} /\ ts = Listed(h, Extending, Latest(dropped))

\* So are its definitions.
Since(h) == IF Calls(h, "no_tools") = {} THEN 1 ELSE Latest(Calls(h, "no_tools"))

\* And its retry policy.
OwnRetry(h) ==
  IF Calls(h, "retry") = {} THEN None ELSE Some(h[Latest(Calls(h, "retry"))].policy)

RequestSays(r, h) ==
  /\ DOMAIN r = DOMAIN NewRequest
  /\ OverrideSays(r.override, r.tools, h)
  /\ r.definitions = Declared(h, Since(h))
  /\ r.retry = OwnRetry(h)

\* The tools listed from each position the request may count from, after a call.
LEMMA ListedFrom ==
  ASSUME NEW h, NEW n, NEW c, NEW u, Grows(h, n, c, u), NEW from \in 1..(n + 1)
  PROVE  /\ Listed(h, Extending, from) \in Seq(Tools)
         /\ c.op \in Extending =>
              Listed(u, Extending, from) = Listed(h, Extending, from) \o c.tools
         /\ c.op \notin Extending => Listed(u, Extending, from) = Listed(h, Extending, from)
         /\ from = n + 1 => Listed(h, Extending, from) = <<>>
<1>1. Lengthens(u, h, Adds(c, Extending, n + 1, from), Extending, from)
  BY ListedMore DEF Extending
<1>2. n \in Nat /\ n + 1 >= from
  BY DEF Grows
<1>3. Adds(c, Extending, n + 1, from) = IF c.op \in Extending THEN c.tools ELSE <<>>
  BY <1>2 DEF Adds
<1>4. from = n + 1 => Listed(h, Extending, from) = <<>>
  BY ListedNothing DEF Grows
<1> QED
  BY <1>1, <1>3, <1>4, ConcatEmptySeq DEF Lengthens

\* Where the tools of a request are dropped and replaced, after one more call.
LEMMA PositionsMore ==
  ASSUME NEW h, NEW n, NEW c, NEW u, Grows(h, n, c, u)
  PROVE  /\ 1 \in 1..(n + 1) /\ n + 1 \in 1..(n + 1)
         /\ c.op = "no_tools" => Calls(u, "no_tools") # {} /\ Latest(Calls(u, "no_tools")) = n + 1
         /\ c.op # "no_tools" => Calls(u, "no_tools") = Calls(h, "no_tools")
         /\ Calls(h, "no_tools") # {} => Latest(Calls(h, "no_tools")) \in 1..(n + 1)
         /\ c.op = "tools" =>
              /\ Calls(u, "tools") # {}
              /\ Earliest(Calls(u, "tools")) =
                   IF Calls(h, "tools") = {} THEN n + 1 ELSE Earliest(Calls(h, "tools"))
         /\ c.op # "tools" => Calls(u, "tools") = Calls(h, "tools")
         /\ Calls(h, "tools") # {} => Earliest(Calls(h, "tools")) \in 1..(n + 1)
<1>1. n \in Nat
  BY DEF Grows
<1> DEFINE dropped == Calls(h, "no_tools")
           replaced == Calls(h, "tools")
<1>2. /\ dropped \in SUBSET (1..n)
      /\ Calls(u, "no_tools") = IF c.op = "no_tools" THEN dropped \cup {n + 1} ELSE dropped
  BY CallsMore
<1>3. /\ replaced \in SUBSET (1..n)
      /\ Calls(u, "tools") = IF c.op = "tools" THEN replaced \cup {n + 1} ELSE replaced
  BY CallsMore
<1> HIDE DEF dropped, replaced
<1>4. Latest(dropped \cup {n + 1}) = n + 1
  BY <1>1, <1>2, LatestMore
<1>5. Earliest(replaced \cup {n + 1}) = IF replaced = {} THEN n + 1 ELSE Earliest(replaced)
  BY <1>1, <1>3, EarliestMore
<1>6. dropped # {} => Latest(dropped) \in 1..n
  BY <1>1, <1>2, LatestIs
<1>7. replaced # {} => Earliest(replaced) \in 1..n
  BY <1>1, <1>3, EarliestIs
<1>8. 1..n \subseteq 1..(n + 1) /\ 1 \in 1..(n + 1) /\ n + 1 \in 1..(n + 1)
  BY <1>1
<1> QED
  BY <1>2, <1>3, <1>4, <1>5, <1>6, <1>7, <1>8 DEF dropped, replaced

\* A call that drops, replaces or extends the tools leaves them what the calls say.
LEMMA OverrideMore ==
  ASSUME NEW h, NEW n, NEW c, NEW u, Grows(h, n, c, u),
         NEW r, DOMAIN r = DOMAIN NewRequest, c.op \in {"tools", "additional", "no_tools"},
         OverrideSays(r.override, r.tools, h)
  PROVE  OverrideSays(Refined(r, c).override, Refined(r, c).tools, u)
<1> DEFINE dropped == Calls(h, "no_tools")
           replaced == Calls(h, "tools")
<1>1. \A from \in 1..(n + 1) :
        /\ c.op \in Extending =>
             Listed(u, Extending, from) = Listed(h, Extending, from) \o c.tools
        /\ c.op \notin Extending => Listed(u, Extending, from) = Listed(h, Extending, from)
        /\ from = n + 1 => Listed(h, Extending, from) = <<>>
  BY ListedFrom
<1>2. DOMAIN r = {"model", "config", "retry", "override", "tools", "definitions"}
  BY DEF NewRequest
<1>3. c.op \in Extending => c.tools \in Seq(Tools)
  BY CallLists DEF Grows, Extending
<1>a. c.op \in Extending => <<>> \o c.tools = c.tools
  BY <1>3, ConcatEmptySeq
<1>4. CASE c.op = "no_tools"
  <2>1. Refined(r, c).override = "None" /\ Refined(r, c).tools = <<>>
    BY <1>2, <1>4 DEF Refined, DropTools
  <2>2. Calls(u, "no_tools") # {} /\ Latest(Calls(u, "no_tools")) = n + 1
    BY <1>4, PositionsMore
  <2>3. Listed(u, Extending, n + 1) = <<>>
    BY <1>1, <1>4, PositionsMore DEF Extending
  <2> QED
    BY <2>1, <2>2, <2>3 DEF OverrideSays
<1>5. CASE c.op = "tools"
  <2>1. /\ Refined(r, c).override = "Replace"
        /\ Refined(r, c).tools = IF r.override = "Replace" THEN r.tools \o c.tools ELSE c.tools
    BY <1>2, <1>5 DEF Refined, ReplaceTools
  <2>2. /\ Calls(u, "no_tools") = dropped /\ Calls(u, "tools") # {}
        /\ dropped # {} => Latest(dropped) \in 1..(n + 1)
        /\ replaced # {} => Earliest(replaced) \in 1..(n + 1)
        /\ Earliest(Calls(u, "tools")) = IF replaced = {} THEN n + 1 ELSE Earliest(replaced)
    BY <1>5, PositionsMore
  <2>3. CASE dropped # {}
    <3>1. Listed(u, Extending, Latest(dropped)) = Listed(h, Extending, Latest(dropped)) \o c.tools
      BY <1>1, <1>5, <2>2, <2>3 DEF Extending
    <3>2. /\ r.override \in {"Replace", "None"}
          /\ r.override = "Replace" => r.tools = Listed(h, Extending, Latest(dropped))
          /\ r.override = "None" => Listed(h, Extending, Latest(dropped)) = <<>>
      BY <2>3 DEF OverrideSays
    <3>3. Refined(r, c).tools = Listed(u, Extending, Latest(dropped))
      BY <1>5, <1>a, <2>1, <3>1, <3>2 DEF Extending
    <3> QED
      BY <2>1, <2>2, <2>3, <3>3 DEF OverrideSays
  <2>4. CASE dropped = {} /\ replaced # {}
    <3>1. /\ Earliest(Calls(u, "tools")) = Earliest(replaced)
          /\ Listed(u, Extending, Earliest(replaced)) = Listed(h, Extending, Earliest(replaced)) \o c.tools
      BY <1>1, <1>5, <2>2, <2>4 DEF Extending
    <3>2. r.override = "Replace" /\ r.tools = Listed(h, Extending, Earliest(replaced))
      BY <2>4 DEF OverrideSays
    <3> QED
      BY <2>1, <2>2, <2>4, <3>1, <3>2 DEF OverrideSays
  <2>5. CASE dropped = {} /\ replaced = {}
    <3>1. /\ Earliest(Calls(u, "tools")) = n + 1
          /\ Listed(u, Extending, n + 1) = Listed(h, Extending, n + 1) \o c.tools
          /\ Listed(h, Extending, n + 1) = <<>>
      BY <1>1, <1>5, <2>2, <2>5, PositionsMore DEF Extending
    <3>2. r.override # "Replace"
      BY <2>5 DEF OverrideSays
    <3>3. c.tools = Listed(u, Extending, Earliest(Calls(u, "tools")))
      BY <1>5, <1>a, <3>1 DEF Extending
    <3> QED
      BY <2>1, <2>2, <2>5, <3>2, <3>3 DEF OverrideSays
  <2> QED
    BY <2>3, <2>4, <2>5
<1>6. CASE c.op = "additional"
  <2>1. /\ Refined(r, c).override = CASE r.override = "Inherit" -> "Append"
                                      [] r.override = "None"    -> "Replace"
                                      [] OTHER                  -> r.override
        /\ Refined(r, c).tools = r.tools \o c.tools
    BY <1>2, <1>6 DEF Refined, AppendTools
  <2>2. /\ Calls(u, "no_tools") = dropped /\ Calls(u, "tools") = replaced
        /\ 1 \in 1..(n + 1)
        /\ dropped # {} => Latest(dropped) \in 1..(n + 1)
        /\ replaced # {} => Earliest(replaced) \in 1..(n + 1)
    BY <1>6, PositionsMore
  <2>3. \A from \in 1..(n + 1) :
          Listed(u, Extending, from) = Listed(h, Extending, from) \o c.tools
    BY <1>1, <1>6 DEF Extending
  <2>4. CASE r.override \in {"Inherit", "Append"}
    <3>1. dropped = {} /\ replaced = {} /\ r.tools = Listed(h, Extending, 1)
      BY <2>4 DEF OverrideSays
    <3>2. Refined(r, c).override = "Append"
      BY <2>1, <2>4
    <3>3. Refined(r, c).tools = Listed(u, Extending, 1)
      BY <2>1, <2>2, <2>3, <3>1
    <3> QED
      BY <2>2, <3>1, <3>2, <3>3 DEF OverrideSays
  <2>5. CASE r.override \in {"Replace", "None"}
    <3>1. Refined(r, c).override = "Replace"
      BY <2>1, <2>5
    <3>2. CASE dropped # {}
      <4>1. r.tools = Listed(h, Extending, Latest(dropped))
        BY <2>5, <3>2 DEF OverrideSays
      <4>2. Refined(r, c).tools = Listed(u, Extending, Latest(dropped))
        BY <2>1, <2>2, <2>3, <3>2, <4>1
      <4> QED
        BY <2>2, <3>1, <3>2, <4>2 DEF OverrideSays
    <3>3. CASE dropped = {}
      <4>1. replaced # {} /\ r.tools = Listed(h, Extending, Earliest(replaced))
        BY <2>5, <3>3 DEF OverrideSays
      <4>2. Refined(r, c).tools = Listed(u, Extending, Earliest(replaced))
        BY <2>1, <2>2, <2>3, <4>1
      <4> QED
        BY <2>2, <3>1, <3>3, <4>1, <4>2 DEF OverrideSays
    <3> QED
      BY <3>2, <3>3
  <2> QED
    BY <2>4, <2>5 DEF OverrideSays
<1> QED
  BY <1>4, <1>5, <1>6

\* So does any other call, which leaves both alone.
LEMMA OverrideKept ==
  ASSUME NEW h, NEW n, NEW c, NEW u, Grows(h, n, c, u), NEW o, NEW ts,
         c.op \notin {"tools", "additional", "no_tools"}, OverrideSays(o, ts, h)
  PROVE  OverrideSays(o, ts, u)
<1>1. \A from \in 1..(n + 1) : Listed(u, Extending, from) = Listed(h, Extending, from)
  BY ListedFrom DEF Extending
<1>2. /\ Calls(u, "no_tools") = Calls(h, "no_tools") /\ Calls(u, "tools") = Calls(h, "tools")
      /\ 1 \in 1..(n + 1)
      /\ Calls(h, "no_tools") # {} => Latest(Calls(h, "no_tools")) \in 1..(n + 1)
      /\ Calls(h, "tools") # {} => Earliest(Calls(h, "tools")) \in 1..(n + 1)
  BY PositionsMore
<1>3. CASE Calls(h, "no_tools") # {}
  BY <1>1, <1>2, <1>3 DEF OverrideSays
<1>4. CASE Calls(h, "no_tools") = {} /\ Calls(h, "tools") # {}
  BY <1>1, <1>2, <1>4 DEF OverrideSays
<1>5. CASE Calls(h, "no_tools") = {} /\ Calls(h, "tools") = {}
  BY <1>1, <1>2, <1>5 DEF OverrideSays
<1> QED
  BY <1>3, <1>4, <1>5

\* The definitions given since the last no_tools(), after one more call.
LEMMA DefinitionsMore ==
  ASSUME NEW h, NEW n, NEW c, NEW u, Grows(h, n, c, u)
  PROVE  /\ Declared(h, Since(h)) \in Seq(STRING)
         /\ Declared(u, Since(u)) =
              IF c.op = "no_tools" THEN <<>>
              ELSE IF c.op = "definitions" THEN Declared(h, Since(h)) \o c.names
              ELSE Declared(h, Since(h))
<1>1. n \in Nat /\ h \in Seq(Methods) /\ Len(h) = n
  BY DEF Grows
<1>2. Since(h) \in 1..(n + 1)
  BY PositionsMore DEF Since
<1>3. Since(u) = IF c.op = "no_tools" THEN n + 1 ELSE Since(h)
  <2>1. CASE c.op = "no_tools"
    BY <2>1, PositionsMore DEF Since
  <2>2. CASE c.op # "no_tools"
    BY <2>2, PositionsMore DEF Since
  <2> QED
    BY <2>1, <2>2
<1>4. /\ Declared(h, Since(h)) \in Seq(STRING)
      /\ Declared(u, Since(u)) = Declared(h, Since(u)) \o Declares(c, n + 1, Since(u))
  BY DeclaredMore
<1>5. CASE c.op = "no_tools"
  <2>1. Declares(c, n + 1, n + 1) = <<>>
    BY <1>5 DEF Declares
  <2>2. Declared(h, n + 1) = <<>>
    BY <1>1, DeclaredNothing
  <2> QED
    BY <1>3, <1>4, <1>5, <2>1, <2>2, EmptySeq, ConcatEmptySeq
<1>6. CASE c.op # "no_tools"
  <2>1. Since(u) = Since(h) /\ n + 1 >= Since(h)
    BY <1>1, <1>2, <1>3, <1>6
  <2>2. Declares(c, n + 1, Since(h)) = IF c.op = "definitions" THEN c.names ELSE <<>>
    BY <2>1 DEF Declares
  <2> QED
    BY <1>4, <1>6, <2>1, <2>2, ConcatEmptySeq
<1> QED
  BY <1>4, <1>5, <1>6

\* The request's own retry policy, after one more call.
LEMMA OwnRetryMore ==
  ASSUME NEW h, NEW n, NEW c, NEW u, Grows(h, n, c, u)
  PROVE  OwnRetry(u) = IF c.op = "retry" THEN Some(c.policy) ELSE OwnRetry(h)
<1> DEFINE own == Calls(h, "retry")
<1>1. /\ own \in SUBSET (1..n) /\ n \in Nat
      /\ Calls(u, "retry") = IF c.op = "retry" THEN own \cup {n + 1} ELSE own
  <2>1. n \in Nat
    BY DEF Grows
  <2> QED
    BY <2>1, CallsMore
<1>2. u[n + 1] = c /\ \A i \in 1..n : u[i] = h[i]
  BY DEF Grows
<1> HIDE DEF own
<1>3. CASE c.op = "retry"
  <2>1. Latest(Calls(u, "retry")) = n + 1 /\ Calls(u, "retry") # {}
    BY <1>1, <1>3, LatestMore
  <2> QED
    BY <1>2, <1>3, <2>1 DEF OwnRetry
<1>4. CASE c.op # "retry" /\ own # {}
  <2>1. Latest(own) \in 1..n
    BY <1>1, <1>4, LatestIs
  <2> QED
    BY <1>1, <1>2, <1>4, <2>1 DEF OwnRetry, own
<1>5. CASE c.op # "retry" /\ own = {}
  BY <1>1, <1>5 DEF OwnRetry, own
<1> QED
  BY <1>3, <1>4, <1>5

\* A request is what its calls say, after one more call.
LEMMA RequestSaysMore ==
  ASSUME NEW h, NEW n, NEW c, NEW u, Grows(h, n, c, u), c \in RequestMethods,
         NEW r, RequestSays(r, h)
  PROVE  RequestSays(Refined(r, c), u)
<1>1. DOMAIN r = {"model", "config", "retry", "override", "tools", "definitions"}
  BY DEF RequestSays, NewRequest
<1>2. c.op \in {"tools", "additional", "definitions", "no_tools", "model", "config", "retry"}
  BY DEF RequestMethods, SharedMethods
<1>3. /\ OverrideSays(r.override, r.tools, h)
      /\ r.definitions = Declared(h, Since(h))
      /\ r.retry = OwnRetry(h)
  BY DEF RequestSays
<1>4. DOMAIN Refined(r, c) = DOMAIN r
  BY <1>1, <1>2 DEF Refined, ReplaceTools, AppendTools, DropTools
<1>5. OverrideSays(Refined(r, c).override, Refined(r, c).tools, u)
  <2>1. CASE c.op \in {"tools", "additional", "no_tools"}
    <3>1. DOMAIN r = DOMAIN NewRequest
      BY DEF RequestSays
    <3> QED
      BY <1>3, <2>1, <3>1, OverrideMore
  <2>2. CASE c.op \notin {"tools", "additional", "no_tools"}
    <3>1. Refined(r, c).override = r.override /\ Refined(r, c).tools = r.tools
      BY <1>1, <1>2, <2>2 DEF Refined
    <3>2. OverrideSays(r.override, r.tools, u)
      BY <1>3, <2>2, OverrideKept
    <3> QED
      BY <3>1, <3>2
  <2> QED
    BY <2>1, <2>2
<1>6. Refined(r, c).definitions = Declared(u, Since(u))
  <2>1. Refined(r, c).definitions =
          IF c.op = "no_tools" THEN <<>>
          ELSE IF c.op = "definitions" THEN r.definitions \o c.names
          ELSE r.definitions
    BY <1>1, <1>2 DEF Refined, ReplaceTools, AppendTools, DropTools
  <2> QED
    BY <1>3, <2>1, DefinitionsMore
<1>7. Refined(r, c).retry = OwnRetry(u)
  <2>1. Refined(r, c).retry = IF c.op = "retry" THEN Some(c.policy) ELSE r.retry
    BY <1>1, <1>2 DEF Refined, ReplaceTools, AppendTools, DropTools
  <2> QED
    BY <1>3, <2>1, OwnRetryMore
<1> QED
  BY <1>4, <1>5, <1>6, <1>7 DEF RequestSays

\* A request without calls.
LEMMA RequestSaysNothing == RequestSays(NewRequest, <<>>)
<1>1. <<>> \in Seq(Methods) /\ Len(<<>>) < 1 /\ 1 \in Nat
  BY EmptySeq
<1>2. Listed(<<>>, Extending, 1) = <<>> /\ Declared(<<>>, 1) = <<>>
  BY <1>1, ListedNothing, DeclaredNothing
<1>3. \A op : Calls(<<>>, op) = {}
  BY DEF Calls
<1>4. OverrideSays("Inherit", <<>>, <<>>)
  BY <1>2, <1>3 DEF OverrideSays
<1>5. Since(<<>>) = 1 /\ OwnRetry(<<>>) = None
  BY <1>3 DEF Since, OwnRetry
<1> QED
  BY <1>2, <1>4, <1>5 DEF RequestSays, NewRequest, None

-----------------------------------------------------------------------------

\* The names of the tools ts, and whether a terminal method can serve them and
\* the definitions ds.
NameList(ts) == [i \in 1..Len(ts) |-> ts[i].name]

Serves(entry, ts, ds) ==
  /\ \A i \in 1..Len(ts) : Registrable(ts[i])
  /\ Distinct(NameList(ts))
  /\ entry \in Executing => ds = <<>>
  /\ entry \in Bare => NameList(ts) = <<>> /\ ds = <<>>
  /\ entry \in Advertising =>
       /\ Distinct(NameList(ts) \o ds)
       /\ \A i \in 1..Len(ds) : ~ Blank(ds[i])

\* Names are distinct in a sequence made of two when they are in both and none
\* is in both.
LEMMA DistinctConcat ==
  ASSUME NEW a \in Seq(STRING), NEW b \in Seq(STRING)
  PROVE  Distinct(a \o b) <=>
           /\ Distinct(a) /\ Distinct(b)
           /\ \A i \in 1..Len(a), j \in 1..Len(b) : a[i] # b[j]
<1>a. PICK s : s = a \o b
  OBVIOUS
<1>b. PICK n, m : Joins(s, a, b, n, m)
  BY <1>a, ConcatJoins
<1>1. n \in Nat /\ m \in Nat /\ n = Len(a) /\ m = Len(b) /\ Len(s) = n + m
  BY <1>b DEF Joins
<1>2. /\ \A i \in 1..n : s[i] = a[i] /\ i \in 1..(n + m)
      /\ \A i \in 1..m : s[n + i] = b[i] /\ n + i \in 1..(n + m)
      /\ \A i \in 1..(n + m) : i \in 1..n \/ \E j \in 1..m : i = n + j
  BY <1>b DEF Joins
<1>3. ASSUME Distinct(s)
      PROVE  /\ Distinct(a) /\ Distinct(b)
             /\ \A i \in 1..n, j \in 1..m : a[i] # b[j]
  <2>1. \A i, j \in 1..(n + m) : i # j => s[i] # s[j]
    BY <1>1, <1>3 DEF Distinct
  <2>2. Distinct(a)
    BY <1>1, <1>2, <2>1 DEF Distinct
  <2>3. Distinct(b)
    <3>1. ASSUME NEW i \in 1..m, NEW j \in 1..m, i # j PROVE b[i] # b[j]
      <4>1. n + i # n + j
        BY <1>1, <3>1
      <4> QED
        BY <1>2, <2>1, <4>1
    <3> QED
      BY <1>1, <3>1 DEF Distinct
  <2>4. ASSUME NEW i \in 1..n, NEW j \in 1..m PROVE a[i] # b[j]
    <3>1. i # n + j
      BY <1>1
    <3> QED
      BY <1>2, <2>1, <3>1
  <2> QED
    BY <2>2, <2>3, <2>4
<1>4. ASSUME Distinct(a), Distinct(b), \A i \in 1..n, j \in 1..m : a[i] # b[j]
      PROVE  Distinct(s)
  <2>1. ASSUME NEW i \in 1..(n + m), NEW j \in 1..(n + m), i # j
        PROVE  s[i] # s[j]
    <3>1. CASE i \in 1..n /\ j \in 1..n
      BY <1>1, <1>2, <1>4, <2>1, <3>1 DEF Distinct
    <3>2. CASE i \in 1..n /\ \E k \in 1..m : j = n + k
      BY <1>2, <1>4, <3>2
    <3>3. CASE (\E k \in 1..m : i = n + k) /\ j \in 1..n
      BY <1>2, <1>4, <3>3
    <3>4. CASE (\E k \in 1..m : i = n + k) /\ (\E k \in 1..m : j = n + k)
      <4>1. PICK k, l \in 1..m : i = n + k /\ j = n + l
        BY <3>4
      <4>2. k # l
        BY <2>1, <4>1
      <4> QED
        BY <1>1, <1>2, <1>4, <4>1, <4>2 DEF Distinct
    <3> QED
      BY <1>2, <3>1, <3>2, <3>3, <3>4
  <2> QED
    BY <1>1, <2>1 DEF Distinct
<1> QED
  BY <1>a, <1>1, <1>3, <1>4

\* A terminal method rejects what it cannot serve, and offers the rest.
LEMMA ServedIff ==
  ASSUME NEW ts \in Seq(Tools), NEW resolved, resolved.definitions \in Seq(STRING),
         Extended(resolved.registry, {}, ts), NEW entry
  PROVE  /\ Rejected(entry, resolved) <=> ~ Serves(entry, ts, resolved.definitions)
         /\ ~ Rejected(entry, resolved) =>
              resolved.registry.names = ToSet(NameList(ts))
<1>a. PICK n \in Nat : n = Len(ts)
  OBVIOUS
<1>b. PICK ds \in Seq(STRING) : ds = resolved.definitions
  OBVIOUS
<1>c. PICK names : names = resolved.registry.names
  OBVIOUS
<1>d. PICK ns \in Seq(STRING) : ns = NameList(ts)
  <2>1. \A i \in 1..n : ts[i] \in Tools
    BY <1>a, ElementOfSeq
  <2>2. \A i \in 1..n : ts[i].name \in STRING
    BY <2>1 DEF Tools
  <2>3. [i \in 1..n |-> ts[i].name] \in Seq(STRING)
    BY <2>2
  <2> QED
    BY <1>a, <2>3 DEF NameList
<1>1. n = Len(ns) /\ \A i \in 1..n : ns[i] = ts[i].name
  BY <1>a, <1>d DEF NameList
<1>2. NamesOf(ts) = ToSet(ns)
  <2>1. DOMAIN ns = 1..n
    BY <1>1
  <2> QED
    BY <1>a, <1>1, <2>1 DEF NamesOf, ToSet
<1>3. resolved.registry.rejected <=>
        ~ ((\A i \in 1..Len(ts) : Registrable(ts[i])) /\ Distinct(ns))
  <2>1. Admissible({}, ts) <=>
          (\A i \in 1..n : Registrable(ts[i])) /\ Distinct(ns)
    BY <1>a, <1>1 DEF Admissible, AdmissibleUpTo, Distinct
  <2> QED
    BY <1>a, <2>1 DEF Extended
<1>4. ~ resolved.registry.rejected => names = ToSet(ns)
  BY <1>2, <1>c DEF Extended
<1>5. ASSUME ~ resolved.registry.rejected
      PROVE  names # {} <=> ns # <<>>
  <2>1. DOMAIN ns = 1..n /\ names = {ns[i] : i \in DOMAIN ns}
    BY <1>1, <1>4, <1>5 DEF ToSet
  <2>2. n = 0 => names = {}
    BY <2>1
  <2>3. n # 0 => 1 \in 1..n
    OBVIOUS
  <2>4. n # 0 => names # {}
    BY <2>1, <2>3
  <2> QED
    BY <1>1, <2>2, <2>4, EmptySeq
<1>6. ASSUME ~ resolved.registry.rejected, Distinct(ns)
      PROVE  DefinitionsRejected(resolved.registry, ds) <=>
               ~ (Distinct(ns \o ds) /\ \A i \in 1..Len(ds) : ~ Blank(ds[i]))
  <2>1. IsInjective(ds) <=> Distinct(ds)
    <3>1. DOMAIN ds = 1..Len(ds)
      OBVIOUS
    <3> QED
      BY <3>1 DEF IsInjective, Distinct
  <2>2. Distinct(ns \o ds) <=>
          Distinct(ds) /\ \A i \in 1..Len(ns), j \in 1..Len(ds) : ns[i] # ds[j]
    BY <1>6, DistinctConcat
  <2>3. \A j \in 1..Len(ds) : ds[j] \in names <=> \E i \in 1..Len(ns) : ns[i] = ds[j]
    BY <1>4, <1>6 DEF ToSet
  <2> QED
    BY <1>c, <2>1, <2>2, <2>3 DEF DefinitionsRejected
<1>7. Rejected(entry, resolved) <=> ~ Serves(entry, ts, ds)
  <2>1. CASE resolved.registry.rejected
    BY <1>3, <1>d, <2>1 DEF Rejected, Serves
  <2>2. CASE ~ resolved.registry.rejected
    BY <1>3, <1>5, <1>6, <1>b, <1>c, <1>d, <2>2 DEF Rejected, Serves
  <2> QED
    BY <2>1, <2>2
<1> QED
  BY <1>4, <1>7, <1>b, <1>c, <1>d DEF Rejected

\* The tools that the calls h on the builder and a on the request ask for.
AskedBy(h, a) ==
  LET dropped  == Calls(a, "no_tools")
      replaced == Calls(a, "tools")
  IN  IF dropped # {} THEN Listed(a, Extending, Latest(dropped))
      ELSE IF replaced # {} THEN Listed(a, Extending, Earliest(replaced))
      ELSE Given(h) \o Listed(a, Extending, 1)

\* What the two histories ask for is what the properties say.
LEMMA AskedIs ==
  /\ AskedTools = AskedBy(calls, asked)
  /\ AskedDefinitions = Declared(asked, Since(asked))
  /\ AskedNames = NameList(AskedBy(calls, asked))
<1>1. AskedTools = AskedBy(calls, asked)
  BY DEF AskedTools, AskedBy, Extending, Given
<1>2. AskedDefinitions = Declared(asked, Since(asked))
  BY DEF AskedDefinitions, Declared, Declares, Since
<1> QED
  BY <1>1, <1>2 DEF AskedNames, NameList

\* A request's tools, resolved against its client, are what was asked for.
LEMMA ResolvedIs ==
  ASSUME NEW h \in Seq(Methods), NEW a \in Seq(Methods), NEW e,
         NEW c, ClientSays(c, h, e), NEW r, RequestSays(r, a)
  PROVE  AskedBy(h, a) \in Seq(Tools) /\ Extended(ResolvedTools(c, r), {}, AskedBy(h, a))
<1> DEFINE dropped == Calls(a, "no_tools")
           replaced == Calls(a, "tools")
<1>1. PICK g \in Seq(Tools) : g = Given(h)
  BY DEF ClientSays
<1>2. Admissible({}, g) /\ c.tools = NamesOf(g)
  BY <1>1 DEF ClientSays
<1>3. PICK ts, o : ts = r.tools /\ o = r.override
  OBVIOUS
<1>4. OverrideSays(o, ts, a)
  BY <1>3 DEF RequestSays
<1>5. \A from : Listed(a, Extending, from) \in Seq(Tools)
  BY ListedType DEF Extending
<1>6. /\ o \in {"Inherit", "Append"} => AskedBy(h, a) = g \o ts
      /\ o \in {"Replace", "None"} => AskedBy(h, a) = ts
      /\ o \in {"Inherit", "None"} => ts = <<>>
      /\ o \in {"Inherit", "Append", "Replace", "None"}
  BY <1>1, <1>4 DEF OverrideSays, AskedBy
<1>7. ts \in Seq(Tools)
  BY <1>4, <1>5, EmptySeq DEF OverrideSays
<1>8. AskedBy(h, a) \in Seq(Tools)
  BY <1>6, <1>7, ConcatProperties
<1>9. NewRegistry \in Registries /\ ~ NewRegistry.rejected /\ NewRegistry.names = {}
  BY DEF NewRegistry, Registries
<1>10. PICK inherited : inherited = [NewRegistry EXCEPT !.names = c.tools]
  OBVIOUS
<1>11. NamesOf(g) \subseteq STRING
  <2>1. \A i \in 1..Len(g) : g[i] \in Tools
    BY ElementOfSeq
  <2> QED
    BY <2>1 DEF NamesOf, Tools
<1>12. inherited \in Registries /\ ~ inherited.rejected /\ inherited.names = NamesOf(g)
  BY <1>2, <1>10, <1>11 DEF NewRegistry, Registries
<1>13. CASE o = "Inherit"
  <2>1. ResolvedTools(c, r) = inherited
    BY <1>3, <1>10, <1>13 DEF ResolvedTools
  <2>2. AskedBy(h, a) = g
    BY <1>6, <1>13, ConcatEmptySeq
  <2>3. Extended(inherited, {}, g)
    BY <1>2, <1>12 DEF Extended
  <2> QED
    BY <1>8, <2>1, <2>2, <2>3
<1>14. CASE o = "Append"
  <2>1. ResolvedTools(c, r) = Extend(inherited, ts)
    BY <1>3, <1>10, <1>14 DEF ResolvedTools
  <2>2. Extended(Extend(inherited, ts), NamesOf(g), ts)
    BY <1>7, <1>12, ExtendAll
  <2>3. /\ Admissible({}, g \o ts) <=> Admissible(NamesOf(g), ts)
        /\ NamesOf(g \o ts) = NamesOf(g) \cup NamesOf(ts)
    BY <1>2, <1>7, AdmissibleConcat
  <2>4. Extended(Extend(inherited, ts), {}, g \o ts)
    BY <2>2, <2>3 DEF Extended
  <2>5. AskedBy(h, a) = g \o ts
    BY <1>6, <1>14
  <2> QED
    BY <1>8, <2>1, <2>4, <2>5
<1>15. CASE o = "Replace"
  <2>1. ResolvedTools(c, r) = Extend(NewRegistry, ts)
    BY <1>3, <1>15 DEF ResolvedTools
  <2>2. Extended(Extend(NewRegistry, ts), {}, ts)
    BY <1>7, <1>9, ExtendAll
  <2>3. AskedBy(h, a) = ts
    BY <1>6, <1>15
  <2> QED
    BY <1>8, <2>1, <2>2, <2>3
<1>16. CASE o = "None"
  <2>1. ResolvedTools(c, r) = NewRegistry
    BY <1>3, <1>16 DEF ResolvedTools
  <2>2. AskedBy(h, a) = <<>>
    BY <1>6, <1>16
  <2>3. Admissible({}, <<>>) /\ NamesOf(<<>>) = {}
    BY EmptySeq DEF Admissible, AdmissibleUpTo, NamesOf
  <2>4. Extended(NewRegistry, {}, <<>>)
    BY <1>9, <2>3 DEF Extended
  <2> QED
    BY <1>8, <2>1, <2>2, <2>4
<1> QED
  BY <1>6, <1>13, <1>14, <1>15, <1>16

\* The definitions of a history are names.
LEMMA DefinitionsType ==
  ASSUME NEW h \in Seq(Methods)
  PROVE  Declared(h, Since(h)) \in Seq(STRING)
<1>1. PICK c \in Methods : c = [op |-> "no_tools"]
  BY DEF Methods, RequestMethods
<1>2. Grows(h, Len(h), c, Append(h, c))
  BY AppendGrows
<1> QED
  BY <1>2, DefinitionsMore

-----------------------------------------------------------------------------

\* The three properties, of a result and the calls it came from.
OffersAsked(res, h, a) ==
  res.status = "sent" =>
    res.offered =
      CASE res.entry \in Executing   -> ToSet(NameList(AskedBy(h, a)))
        [] res.entry \in Advertising ->
             ToSet(NameList(AskedBy(h, a))) \cup ToSet(Declared(a, Since(a)))
        [] OTHER                     -> {}

RejectsUnservable(res, h, a) ==
  /\ res.status = "sent" => Serves(res.entry, AskedBy(h, a), Declared(a, Since(a)))
  /\ res.status = "rejected" => ~ Serves(res.entry, AskedBy(h, a), Declared(a, Since(a)))

SettledBy(res, h, a, e) ==
  res.status = "sent" =>
    /\ res.model = "OpenAI" =>
         /\ res.provider.key = Want(h, e, "openai_api_key", "")
         /\ res.provider.base_url = OrDefault(Want(h, e, "openai_base_url", ""), "default")
    /\ res.model = "OpenRouter" =>
         /\ res.provider.key = Want(h, e, "openrouter_api_key", "")
         /\ res.provider.http_referer =
              Want(h, e, "openrouter_http_referer", "openrouter_app_url")
    /\ res.retry = OrDefault(OwnRetry(a), RetrySaid(h, e))

ResultSays(res, h, a, e) ==
  OffersAsked(res, h, a) /\ RejectsUnservable(res, h, a) /\ SettledBy(res, h, a, e)

\* They are what the properties say.
LEMMA PropertiesAre ==
  /\ OffersAsked(result, calls, asked) => OffersWhatWasAsked
  /\ RejectsUnservable(result, calls, asked) => RejectedIffUnservable
  /\ SettledBy(result, calls, asked, env) => SettingsPrecedence
<1>1. OffersAsked(result, calls, asked) => OffersWhatWasAsked
  BY AskedIs DEF OffersAsked, OffersWhatWasAsked
<1>2. \A entry : Servable(entry) <=>
                   Serves(entry, AskedBy(calls, asked), Declared(asked, Since(asked)))
  <2>1. PICK ts, ds : ts = AskedBy(calls, asked) /\ ds = Declared(asked, Since(asked))
    OBVIOUS
  <2>2. AskedTools = ts /\ AskedDefinitions = ds /\ AskedNames = NameList(ts)
    BY <2>1, AskedIs
  <2> QED
    BY <2>1, <2>2 DEF Servable, Serves
<1>3. RejectsUnservable(result, calls, asked) => RejectedIffUnservable
  BY <1>2 DEF RejectsUnservable, RejectedIffUnservable
<1>4. SettledBy(result, calls, asked, env) => SettingsPrecedence
  <2>1. \A f, legacy : Expected(f, legacy) = Want(calls, env, f, legacy)
    BY ExpectedIs
  <2>2. Decides(calls, LAMBDA c : c.op \in {"retry", "from_env"}) = RetryCalls(calls)
    BY DEF Decides, RetryCalls
  <2>3. OrDefault(OwnRetry(asked), RetrySaid(calls, env)) =
          LET own   == Calls(asked, "retry")
              retry == RetryCalls(calls)
          IN  IF own # {} THEN asked[Latest(own)].policy
              ELSE IF retry = {} THEN DefaultRetry
              ELSE IF calls[Latest(retry)].op = "retry" THEN calls[Latest(retry)].policy
              ELSE OrDefault(RetryFromEnv(env), DefaultRetry)
    BY DEF OrDefault, IsSome, OwnRetry, Some, None, RetrySaid
  <2> QED
    BY <2>1, <2>2, <2>3 DEF SettledBy, SettingsPrecedence
<1> QED
  BY <1>1, <1>3, <1>4

\* A terminal method sends what the calls say, or rejects it.
LEMMA Finished ==
  ASSUME NEW h \in Seq(Methods), NEW a \in Seq(Methods), NEW e, NEW entry,
         NEW c, ClientSays(c, h, e), NEW r, RequestSays(r, a),
         NEW resolved, resolved = Resolve(c, r), NEW res,
         res = IF Rejected(entry, resolved)
               THEN [status |-> "rejected", entry |-> entry, model |-> resolved.model]
               ELSE Dispatch(c, entry, resolved)
  PROVE  ResultSays(res, h, a, e)
<1>1. PICK ts \in Seq(Tools) : ts = AskedBy(h, a)
  BY ResolvedIs
<1>2. PICK ds \in Seq(STRING) : ds = Declared(a, Since(a))
  BY DefinitionsType
<1>3. /\ resolved.registry = ResolvedTools(c, r) /\ resolved.definitions = r.definitions
      /\ resolved.retry = OrDefault(r.retry, c.retry)
  BY DEF Resolve
<1>4. r.definitions = ds /\ r.retry = OwnRetry(a) /\ c.retry = RetrySaid(h, e)
  BY <1>2 DEF RequestSays, ClientSays
<1>5. Extended(resolved.registry, {}, ts)
  BY <1>1, <1>3, ResolvedIs
<1>6. resolved.definitions \in Seq(STRING)
  BY <1>3, <1>4
<1>7. /\ Rejected(entry, resolved) <=> ~ Serves(entry, ts, ds)
      /\ ~ Rejected(entry, resolved) => resolved.registry.names = ToSet(NameList(ts))
  BY <1>3, <1>4, <1>5, <1>6, ServedIff
<1>8. CASE Rejected(entry, resolved)
  <2>1. res.status = "rejected" /\ res.entry = entry
    BY <1>8
  <2> QED
    BY <1>1, <1>2, <1>7, <1>8, <2>1 DEF ResultSays, OffersAsked, RejectsUnservable, SettledBy
<1>9. CASE ~ Rejected(entry, resolved) /\ resolved.model \notin DOMAIN c.providers
  <2>1. res.status = "not_configured"
    BY <1>9 DEF Dispatch
  <2> QED
    BY <2>1 DEF ResultSays, OffersAsked, RejectsUnservable, SettledBy
<1>10. CASE ~ Rejected(entry, resolved) /\ resolved.model \in DOMAIN c.providers
  <2>1. /\ res.status = "sent" /\ res.entry = entry /\ res.model = resolved.model
        /\ res.provider = c.providers[resolved.model]
        /\ res.retry = OrDefault(r.retry, c.retry)
        /\ res.offered = Offered(entry, resolved)
    BY <1>3, <1>10 DEF Dispatch
  <2>2. OffersAsked(res, h, a)
    BY <1>1, <1>2, <1>3, <1>4, <1>7, <1>10, <2>1 DEF OffersAsked, Offered
  <2>3. RejectsUnservable(res, h, a)
    BY <1>1, <1>2, <1>7, <1>10, <2>1 DEF RejectsUnservable
  <2>4. SettledBy(res, h, a, e)
    BY <1>4, <1>10, <2>1 DEF SettledBy, ClientSays
  <2> QED
    BY <2>2, <2>3, <2>4 DEF ResultSays
<1> QED
  BY <1>8, <1>9, <1>10

-----------------------------------------------------------------------------

\* The inductive invariant: the histories are calls of the two builders; the
\* builder, then the client, then the request are what they say; and so is the
\* result of the last terminal method, as long as it is the last.
SessionInv ==
  /\ calls \in Seq(Methods) /\ asked \in Seq(Methods)
  /\ client = None =>
       BuilderSays(builder, calls, env) /\ request = None /\ result = NoResult
  /\ client # None => client = Some(client[1]) /\ ClientSays(client[1], calls, env)
  /\ request # None =>
       /\ client # None /\ result = NoResult
       /\ request = Some(request[1]) /\ RequestSays(request[1], asked)
  /\ ResultSays(result, calls, asked, env)

\* Without a result there is nothing to say of it.
LEMMA NoResultSays == ASSUME NEW h, NEW a, NEW e PROVE ResultSays(NoResult, h, a, e)
BY DEF NoResult, ResultSays, OffersAsked, RejectsUnservable, SettledBy

\* A new builder says nothing, as no call was made.
LEMMA InitSession == Init => SessionInv
<1> SUFFICES ASSUME Init PROVE SessionInv
  OBVIOUS
<1>1. calls = <<>> /\ asked = <<>> /\ <<>> \in Seq(Methods)
  BY EmptySeq DEF Init
<1>2. BuilderSays(NewBuilder, <<>>, env)
  BY BuilderSaysNothing
<1>3. ResultSays(NoResult, <<>>, <<>>, env)
  BY NoResultSays
<1> QED
  BY <1>1, <1>2, <1>3 DEF Init, SessionInv

\* Every step of the session keeps the invariant.
LEMMA NextSession == SessionInv /\ [Next]_vars => SessionInv'
<1> SUFFICES ASSUME SessionInv, [Next]_vars PROVE SessionInv'
  OBVIOUS
<1> USE DEF SessionInv
<1>a. \A o : IsSome(o) <=> o # None
  BY DEF IsSome
<1>b. \A x : Some(x) # None /\ Some(x)[1] = x
  BY DEF Some, None
<1>1. ASSUME NEW call \in BuilderCalls, Configure(call) PROVE SessionInv'
  <2>1. call \in ClientMethods /\ call \in Methods
    BY ClientSessionAssumption DEF Methods
  <2>2. /\ client = None /\ builder' = Configured(builder, call) /\ calls' = Append(calls, call)
        /\ UNCHANGED <<env, client, asked, request, result>>
    BY <1>1 DEF Configure
  <2>3. Grows(calls, Len(calls), call, calls')
    BY <2>1, <2>2, AppendGrows
  <2>4. BuilderSays(builder', calls', env)
    BY <2>1, <2>2, <2>3, BuilderSaysMore
  <2>5. calls' \in Seq(Methods)
    BY <2>1, <2>2, AppendProperties
  <2>6. ResultSays(NoResult, calls', asked, env)
    BY NoResultSays
  <2> QED
    BY <2>2, <2>4, <2>5, <2>6
<1>2. ASSUME NEW buildable \in BOOLEAN, Build(buildable) PROVE SessionInv'
  <2>1. /\ client = None /\ UNCHANGED <<env, calls, asked, request, result>>
        /\ ~ Extend(NewRegistry, builder.tools).rejected
        /\ client' = Some(NewClient(builder, Extend(NewRegistry, builder.tools), buildable))
    BY <1>2 DEF Build
  <2>2. ClientSays(NewClient(builder, Extend(NewRegistry, builder.tools), buildable), calls, env)
    BY <2>1, ClientBuilt
  <2>3. client' # None /\ client' = Some(client'[1]) /\ ClientSays(client'[1], calls, env)
    BY <1>b, <2>1, <2>2
  <2> QED
    BY <2>1, <2>3
<1>3. ASSUME BuildFails PROVE SessionInv'
  <2>1. /\ client = None /\ builder' = NewBuilder /\ calls' = <<>>
        /\ UNCHANGED <<env, client, asked, request, result>>
    BY <1>3 DEF BuildFails
  <2>2. BuilderSays(NewBuilder, <<>>, env) /\ ResultSays(NoResult, <<>>, asked, env)
    BY BuilderSaysNothing, NoResultSays
  <2>3. <<>> \in Seq(Methods)
    BY EmptySeq
  <2> QED
    BY <2>1, <2>2, <2>3
<1>4. ASSUME StartRequest PROVE SessionInv'
  <2>1. /\ client # None /\ request' = Some(NewRequest) /\ asked' = <<>> /\ result' = NoResult
        /\ UNCHANGED <<env, calls, builder, client>>
    BY <1>4, <1>a DEF StartRequest
  <2>2. RequestSays(NewRequest, <<>>) /\ ResultSays(NoResult, calls, <<>>, env)
    BY RequestSaysNothing, NoResultSays
  <2>3. request' # None /\ request' = Some(request'[1]) /\ RequestSays(request'[1], <<>>)
    BY <1>b, <2>1, <2>2
  <2>4. <<>> \in Seq(Methods)
    BY EmptySeq
  <2> QED
    BY <2>1, <2>2, <2>3, <2>4
<1>5. ASSUME NEW call \in RequestCalls, Refine(call) PROVE SessionInv'
  <2>1. call \in RequestMethods /\ call \in Methods
    BY ClientSessionAssumption DEF Methods
  <2>2. /\ request # None /\ request' = Some(Refined(request[1], call))
        /\ asked' = Append(asked, call)
        /\ UNCHANGED <<env, calls, builder, client, result>>
    BY <1>5, <1>a DEF Refine
  <2>3. Grows(asked, Len(asked), call, asked')
    BY <2>1, <2>2, AppendGrows
  <2>4. RequestSays(Refined(request[1], call), asked')
    BY <2>1, <2>2, <2>3, RequestSaysMore
  <2>5. asked' \in Seq(Methods)
    BY <2>1, <2>2, AppendProperties
  <2>6. ResultSays(NoResult, calls, asked', env)
    BY NoResultSays
  <2>7. request' # None /\ request' = Some(request'[1]) /\ RequestSays(request'[1], asked')
    BY <1>b, <2>2, <2>4
  <2> QED
    BY <2>2, <2>5, <2>6, <2>7
<1>6. ASSUME NEW entry \in Entries, Finish(entry) PROVE SessionInv'
  <2>1. PICK resolved : resolved = Resolve(client[1], request[1])
    OBVIOUS
  <2>2. /\ request # None /\ request' = None
        /\ UNCHANGED <<env, calls, builder, client, asked>>
        /\ result' = IF Rejected(entry, resolved)
                     THEN [status |-> "rejected", entry |-> entry, model |-> resolved.model]
                     ELSE Dispatch(client[1], entry, resolved)
    BY <1>6, <1>a, <2>1 DEF Finish
  <2>3. ClientSays(client[1], calls, env) /\ RequestSays(request[1], asked)
    BY <2>2
  <2>4. ResultSays(result', calls, asked, env)
    BY <2>1, <2>2, <2>3, Finished
  <2> QED
    BY <2>2, <2>4
<1>7. CASE UNCHANGED vars
  BY <1>7 DEF vars
<1> QED
  BY <1>1, <1>2, <1>3, <1>4, <1>5, <1>6, <1>7 DEF Next

\* Whatever is called, in any order, on the builder and on one request after
\* another, builder, client, request and result are what the calls say.
THEOREM SessionInvariant == Spec => []SessionInv
BY InitSession, NextSession, PTL DEF Spec

\* A request that is sent offers exactly the tools that its calls and those on
\* its client's builder ask for, whatever requests the client served before.
THEOREM RequestsOfferWhatWasAsked == Spec => []OffersWhatWasAsked
<1>1. SessionInv => OffersWhatWasAsked
  BY PropertiesAre DEF SessionInv, ResultSays
<1> QED
  BY <1>1, SessionInvariant, PTL

\* A terminal method rejects a request exactly when it cannot serve the tools
\* and definitions that were asked for.
THEOREM RejectionsAreExact == Spec => []RejectedIffUnservable
<1>1. SessionInv => RejectedIffUnservable
  BY PropertiesAre DEF SessionInv, ResultSays
<1> QED
  BY <1>1, SessionInvariant, PTL

\* Credentials, endpoints, attribution and the retry policy of a request that is
\* sent come from the latest call that decides them, or from the environment.
THEOREM LatestCallDecides == Spec => []SettingsPrecedence
<1>1. SessionInv => SettingsPrecedence
  BY PropertiesAre DEF SessionInv, ResultSays
<1> QED
  BY <1>1, SessionInvariant, PTL

=============================================================================

----------------------------- MODULE DataLemmas -----------------------------
(* What the proofs need to know about data: the least of a set of numbers, *)
(* and with it induction and functions defined by recursion on a number;    *)
(* sequences by what they hold, and what is selected from them.             *)
EXTENDS Integers, Sequences, Functions, SequenceTheorems, WellFoundedInduction, TLAPS

-----------------------------------------------------------------------------
(* A set of numbers has a least one. A claim about every number is proved   *)
(* from this: no number is the least that violates it.                      *)
LEMMA Least ==
  ASSUME NEW S, S \subseteq Nat, S # {}
  PROVE  \E k \in S : \A j \in S : k <= j
<1> DEFINE R == OpToRel(<, Nat)
<1>1. \E x \in S : \A y \in S : ~ (<<y, x>> \in R)
  BY NatLessThanWellFounded, WFMin
<1>2. \A x, y \in Nat : <<y, x>> \in R <=> y < x
  BY DEF OpToRel
<1> HIDE DEF R
<1>3. PICK x \in S : \A y \in S : ~ (<<y, x>> \in R)
  BY <1>1
<1>4. ASSUME NEW y \in S PROVE x <= y
  <2>1. x \in Nat /\ y \in Nat
    OBVIOUS
  <2>2. ~ (y < x)
    BY <1>2, <1>3, <2>1, Zenon
  <2> QED
    BY <2>1, <2>2
<1> QED
  BY <1>4

(* Repeating a step gives a function on the numbers of the steps, so the    *)
(* function that a recursive definition chooses exists.                     *)
Iterates(f, s0, step, N) == f[0] = s0 /\ \A k \in 1 .. N : f[k] = step[k][f[k - 1]]

LEMMA Iteration ==
  ASSUME NEW S, NEW s0 \in S, NEW step \in [Nat -> [S -> S]], NEW N \in Nat
  PROVE  \E f \in [0 .. N -> S] : Iterates(f, s0, step, N)
<1> DEFINE Good(M) == \E f \in [0 .. M -> S] : Iterates(f, s0, step, M)
           Bad == {M \in Nat : ~ Good(M)}
<1>1. ASSUME Bad # {} PROVE FALSE
  <2>1. PICK M \in Bad : \A j \in Bad : M <= j
    BY <1>1, Least
  <2>2. CASE M = 0
    <3> DEFINE f == [k \in 0 .. 0 |-> s0]
    <3>1. f \in [0 .. 0 -> S] /\ f[0] = s0 /\ 1 .. 0 = {}
      OBVIOUS
    <3>2. Good(0)
      BY <3>1 DEF Iterates
    <3> QED
      BY <2>2, <3>2
  <2>3. CASE M # 0
    <3>1. M - 1 \in Nat /\ ~ (M <= M - 1)
      BY <2>3
    <3>2. Good(M - 1)
      BY <2>1, <3>1
    <3>3. PICK f \in [0 .. M - 1 -> S] : f[0] = s0 /\ \A k \in 1 .. M - 1 : f[k] = step[k][f[k - 1]]
      BY <3>2 DEF Iterates
    <3>4. f[M - 1] \in S /\ step[M][f[M - 1]] \in S
      BY <3>1
    <3> DEFINE g == [k \in 0 .. M |-> IF k = M THEN step[M][f[M - 1]] ELSE f[k]]
    <3>5. g \in [0 .. M -> S] /\ g[0] = s0
      BY <3>1, <3>3, <3>4, <2>3
    <3>6. ASSUME NEW k \in 1 .. M PROVE g[k] = step[k][g[k - 1]]
      <4>1. k - 1 \in 0 .. M /\ k - 1 # M /\ k \in 0 .. M /\ (k # M => k \in 1 .. M - 1)
        BY <3>1
      <4>2. g[k - 1] = f[k - 1] /\ g[k] = IF k = M THEN step[M][f[M - 1]] ELSE f[k]
        BY <4>1
      <4> QED
        BY <4>1, <4>2, <3>3
    <3>7. Good(M)
      BY <3>5, <3>6 DEF Iterates
    <3> QED
      BY <3>7
  <2> QED
    BY <2>2, <2>3
<1> QED
  BY <1>1

-----------------------------------------------------------------------------
(* Sequences by what they hold: what a send adds to a FIFO and a receive    *)
(* takes from it, and what is left of a list when an entry is erased.       *)
Queue(s) == \E S : s \in Seq(S)

(* What a receive leaves. *)
LEMMA QueueTail ==
  ASSUME NEW s, Queue(s), s # <<>>
  PROVE  Queue(Tail(s)) /\ Range(Tail(s)) \subseteq Range(s) /\ Head(s) \in Range(s)
<1>1. PICK S : s \in Seq(S)
  BY DEF Queue
<1>2. /\ Len(s) \in Nat \ {0} /\ DOMAIN s = 1 .. Len(s)
      /\ Head(s) = s[1]
  BY <1>1
<1>3. Tail(s) \in Seq(S) /\ Len(Tail(s)) = Len(s) - 1
  BY <1>1, <1>2
<1>4. \A i \in 1 .. Len(s) - 1 : Tail(s)[i] = s[i + 1]
  BY <1>1, <1>2
<1>5. DOMAIN Tail(s) = 1 .. Len(s) - 1
  BY <1>2, <1>3
<1>6. Range(Tail(s)) \subseteq Range(s) /\ Head(s) \in Range(s)
  BY <1>2, <1>4, <1>5 DEF Range
<1> QED
  BY <1>3, <1>6 DEF Queue

(* What a send adds. *)
LEMMA QueueAppend ==
  ASSUME NEW s, Queue(s), NEW x
  PROVE  Queue(Append(s, x)) /\ Range(Append(s, x)) = Range(s) \cup {x}
<1> DEFINE t == Append(s, x)
<1>1. PICK S : s \in Seq(S)
  BY DEF Queue
<1>2. Len(s) \in Nat /\ DOMAIN s = 1 .. Len(s) /\ s \in Seq(S \cup {x})
  BY <1>1
<1>3. /\ t \in Seq(S \cup {x}) /\ Len(t) = Len(s) + 1
      /\ \A i \in 1 .. Len(s) : t[i] = s[i]
      /\ t[Len(s) + 1] = x
  BY <1>2
<1>4. DOMAIN t = 1 .. Len(s) + 1
  BY <1>3
<1> HIDE DEF t
<1>5. Range(t) = Range(s) \cup {x}
  <2>1. \A i \in 1 .. Len(s) + 1 : i \in 1 .. Len(s) \/ i = Len(s) + 1
    BY <1>2
  <2>2. \A i \in 1 .. Len(s) : i \in 1 .. Len(s) + 1
    BY <1>2
  <2>3. Len(s) + 1 \in 1 .. Len(s) + 1
    BY <1>2
  <2> QED
    BY <1>2, <1>3, <1>4, <2>1, <2>2, <2>3 DEF Range
<1> QED
  BY <1>3, <1>5 DEF Queue, t

(* Queues of no, one and two objects. *)
LEMMA QueueLiterals ==
  /\ Queue(<<>>) /\ Range(<<>>) = {}
  /\ \A x : Queue(<<x>>) /\ Range(<<x>>) = {x}
  /\ \A x, y : Queue(<<x, y>>) /\ Range(<<x, y>>) = {x, y}
<1>1. <<>> \in Seq({})
  OBVIOUS
<1>2. \A x : <<x>> \in Seq({x})
  OBVIOUS
<1>3. \A x, y : <<x, y>> \in Seq({x, y})
  OBVIOUS
<1>4. Queue(<<>>) /\ (\A x : Queue(<<x>>)) /\ (\A x, y : Queue(<<x, y>>))
  BY <1>1, <1>2, <1>3 DEF Queue
<1>5. Range(<<>>) = {}
  BY DEF Range
<1>6. ASSUME NEW x PROVE Range(<<x>>) = {x}
  BY DEF Range
<1>7. ASSUME NEW x, NEW y PROVE Range(<<x, y>>) = {x, y}
  <2>1. DOMAIN <<x, y>> = {1, 2} /\ <<x, y>>[1] = x /\ <<x, y>>[2] = y
    OBVIOUS
  <2> QED
    BY <2>1 DEF Range
<1> QED
  BY <1>4, <1>5, <1>6, <1>7

(* Queues by their positions.                                               *)
LEMMA QueuePositions ==
  ASSUME NEW s, Queue(s)
  PROVE  /\ Len(s) \in Nat /\ DOMAIN s = 1 .. Len(s)
         /\ s # <<>> => Len(s) \in Nat \ {0} /\ Head(s) = s[1]
         /\ s = <<>> => Len(s) = 0
<1>1. PICK S : s \in Seq(S)
  BY DEF Queue
<1> QED
  BY <1>1

LEMMA AppendPositions ==
  ASSUME NEW s, Queue(s), NEW x
  PROVE  /\ Len(Append(s, x)) = Len(s) + 1 /\ Append(s, x)[Len(s) + 1] = x
         /\ \A i \in 1 .. Len(s) : Append(s, x)[i] = s[i]
<1>1. PICK S : s \in Seq(S)
  BY DEF Queue
<1>2. s \in Seq(S \cup {x})
  BY <1>1
<1> QED
  BY <1>2

LEMMA TailPositions ==
  ASSUME NEW s, Queue(s), s # <<>>
  PROVE  /\ Len(Tail(s)) = Len(s) - 1
         /\ \A i \in 1 .. Len(s) - 1 : Tail(s)[i] = s[i + 1]
<1>1. PICK S : s \in Seq(S)
  BY DEF Queue
<1>2. Len(s) \in Nat \ {0}
  BY <1>1
<1> QED
  BY <1>1, <1>2

(* Erasing entry i leaves every other one. *)
LEMMA QueueErase ==
  ASSUME NEW s, Queue(s), NEW i \in DOMAIN s
  PROVE  LET t == SubSeq(s, 1, i - 1) \o SubSeq(s, i + 1, Len(s))
         IN  /\ Queue(t) /\ Range(t) \subseteq Range(s)
             /\ \A j \in DOMAIN s : j # i => s[j] \in Range(t)
<1> DEFINE a == SubSeq(s, 1, i - 1)
           b == SubSeq(s, i + 1, Len(s))
           t == a \o b
<1>1. PICK S : s \in Seq(S)
  BY DEF Queue
<1>2. Len(s) \in Nat /\ DOMAIN s = 1 .. Len(s) /\ i \in 1 .. Len(s)
  BY <1>1
<1>3. \A j \in 1 .. Len(s) : s[j] \in Range(s)
  BY <1>2 DEF Range
<1>4. /\ a \in Seq(Range(s)) /\ Len(a) = i - 1
      /\ \A j \in 1 .. i - 1 : a[j] = s[j]
  <2>1. \A j \in 1 .. i - 1 : s[j] \in Range(s)
    BY <1>2, <1>3
  <2>2. 1 \in Int /\ i - 1 \in Int
    BY <1>2
  <2>3. /\ a \in Seq(Range(s)) /\ Len(a) = (IF 1 <= i - 1 THEN i - 1 - 1 + 1 ELSE 0)
        /\ \A j \in 1 .. i - 1 - 1 + 1 : a[j] = s[1 + j - 1]
    BY <2>1, <2>2, SubSeqProperties
  <2> QED
    BY <2>3, <1>2
<1>5. /\ b \in Seq(Range(s)) /\ Len(b) = Len(s) - i
      /\ \A j \in 1 .. Len(s) - i : b[j] = s[i + j]
  <2>1. \A j \in i + 1 .. Len(s) : s[j] \in Range(s)
    BY <1>2, <1>3
  <2>2. i + 1 \in Int /\ Len(s) \in Int
    BY <1>2
  <2>3. /\ b \in Seq(Range(s)) /\ Len(b) = (IF i + 1 <= Len(s) THEN Len(s) - (i + 1) + 1 ELSE 0)
        /\ \A j \in 1 .. Len(s) - (i + 1) + 1 : b[j] = s[i + 1 + j - 1]
    BY <2>1, <2>2, SubSeqProperties
  <2> QED
    BY <2>3, <1>2
<1> HIDE DEF a, b
<1>6. /\ t \in Seq(Range(s)) /\ Len(t) = Len(s) - 1
      /\ \A j \in 1 .. Len(s) - 1 : t[j] = IF j <= i - 1 THEN a[j] ELSE b[j - (i - 1)]
  <2>1. /\ a \o b \in Seq(Range(s)) /\ Len(a \o b) = Len(a) + Len(b)
        /\ \A j \in 1 .. Len(a) + Len(b) :
             (a \o b)[j] = IF j <= Len(a) THEN a[j] ELSE b[j - Len(a)]
    BY <1>4, <1>5, ConcatProperties
  <2>2. Len(a) + Len(b) = Len(s) - 1
    BY <1>2, <1>4, <1>5
  <2> QED
    BY <2>1, <2>2, <1>4
<1> HIDE DEF t
<1>7. DOMAIN t = 1 .. Len(s) - 1
  BY <1>6
<1>8. Range(t) \subseteq Range(s)
  BY <1>6, <1>7 DEF Range
<1>9. ASSUME NEW j \in DOMAIN s, j # i PROVE s[j] \in Range(t)
  <2>1. CASE j < i
    <3>1. j \in 1 .. Len(s) - 1 /\ j \in 1 .. i - 1
      BY <1>2, <1>9, <2>1
    <3> QED
      BY <3>1, <1>4, <1>6, <1>7 DEF Range
  <2>2. CASE j > i
    <3>1. /\ j - 1 \in 1 .. Len(s) - 1 /\ ~ (j - 1 <= i - 1)
          /\ j - i \in 1 .. Len(s) - i /\ j - 1 - (i - 1) = j - i /\ i + (j - i) = j
      BY <1>2, <1>9, <2>2
    <3>2. t[j - 1] = s[j]
      BY <3>1, <1>5, <1>6
    <3> QED
      BY <3>1, <3>2, <1>7 DEF Range
  <2> QED
    BY <1>2, <1>9, <2>1, <2>2
<1> QED
  BY <1>6, <1>8, <1>9 DEF Queue, t, a, b

-----------------------------------------------------------------------------
(* Selecting the members of S from a sequence, one entry after the other.   *)
Selects(f, s, S) ==
  /\ f[0] = <<>>
  /\ \A n \in 1 .. Len(s) : f[n] = IF s[n] \in S THEN Append(f[n - 1], s[n]) ELSE f[n - 1]

(* A recursive definition of a selection defines one. *)
LEMMA SelectionExists ==
  ASSUME NEW T, NEW s \in Seq(T), NEW S
  PROVE  \E f : f = [n \in 0 .. Len(s) |->
                       IF n = 0 THEN <<>> ELSE IF s[n] \in S THEN Append(f[n - 1], s[n]) ELSE f[n - 1]]
<1> DEFINE L == Len(s)
           step == [k \in Nat |-> [t \in Seq(T) |-> IF k \in 1 .. L /\ s[k] \in S THEN Append(t, s[k]) ELSE t]]
<1>1. L \in Nat /\ (\A k \in 1 .. L : s[k] \in T) /\ <<>> \in Seq(T)
  OBVIOUS
<1>2. step \in [Nat -> [Seq(T) -> Seq(T)]]
  BY <1>1
<1>3. PICK f \in [0 .. L -> Seq(T)] : Iterates(f, <<>>, step, L)
  <2> HIDE DEF step
  <2> QED
    BY <1>1, <1>2, Iteration
<1>4. ASSUME NEW n \in 0 .. L
      PROVE  f[n] = IF n = 0 THEN <<>> ELSE IF s[n] \in S THEN Append(f[n - 1], s[n]) ELSE f[n - 1]
  <2>1. CASE n = 0
    BY <2>1, <1>3 DEF Iterates
  <2>2. CASE n # 0
    <3>1. n \in 1 .. L /\ n - 1 \in 0 .. L /\ n \in Nat
      BY <1>1, <2>2
    <3>2. f[n] = step[n][f[n - 1]] /\ f[n - 1] \in Seq(T)
      BY <3>1, <1>3 DEF Iterates
    <3> QED
      BY <2>2, <3>1, <3>2
  <2> QED
    BY <2>1, <2>2
<1>5. f = [n \in 0 .. L |-> IF n = 0 THEN <<>> ELSE IF s[n] \in S THEN Append(f[n - 1], s[n]) ELSE f[n - 1]]
  BY <1>4
<1> QED
  BY <1>5

(* What is selected is in S, and an entry of the sequence. *)
LEMMA Selected ==
  ASSUME NEW T, NEW s \in Seq(T), NEW S, NEW f, Selects(f, s, S), NEW n \in 0 .. Len(s)
  PROVE  f[n] \in Seq(Range(s) \cap S)
<1> DEFINE R == Range(s) \cap S
           Bad == {k \in Nat : k <= Len(s) /\ f[k] \notin Seq(R)}
<1>1. Len(s) \in Nat /\ \A k \in 1 .. Len(s) : s[k] \in Range(s)
  BY DEF Range
<1>2. ASSUME Bad # {} PROVE FALSE
  <2>1. PICK k \in Bad : \A j \in Bad : k <= j
    <3> HIDE DEF Bad
    <3>1. Bad \subseteq Nat
      BY DEF Bad
    <3> QED
      BY <1>2, <3>1, Least
  <2>2. k \in Nat /\ k <= Len(s) /\ f[k] \notin Seq(R)
    OBVIOUS
  <2>3. k # 0
    <3>1. f[0] = <<>> /\ <<>> \in Seq(R)
      BY DEF Selects
    <3> QED
      BY <2>2, <3>1
  <2>4. k \in 1 .. Len(s) /\ k - 1 \in Nat /\ k - 1 <= Len(s) /\ ~ (k <= k - 1)
    BY <2>2, <2>3, <1>1
  <2>5. f[k - 1] \in Seq(R)
    BY <2>1, <2>4
  <2>6. f[k] = IF s[k] \in S THEN Append(f[k - 1], s[k]) ELSE f[k - 1]
    BY <2>4 DEF Selects
  <2>7. s[k] \in S => s[k] \in R
    BY <2>4, <1>1
  <2> HIDE DEF R, Bad
  <2> QED
    BY <2>2, <2>5, <2>6, <2>7
<1> QED
  BY <1>1, <1>2

LEMMA SelectedLater ==
  ASSUME NEW T, NEW s \in Seq(T), NEW x \in T, NEW S, NEW f, NEW g,
         Selects(f, s, S), Selects(g, Append(s, x), S)
  PROVE  g[Len(Append(s, x))] = IF x \in S THEN Append(f[Len(s)], x) ELSE f[Len(s)]
<1> DEFINE t == Append(s, x)
           L == Len(s)
           Bad == {k \in Nat : k <= L /\ g[k] # f[k]}
<1>1. L \in Nat /\ Len(t) = L + 1 /\ (\A k \in 1 .. L : t[k] = s[k]) /\ t[L + 1] = x
  OBVIOUS
<1> HIDE DEF t, L
<1>2. ASSUME Bad # {} PROVE FALSE
  <2>1. PICK k \in Bad : \A j \in Bad : k <= j
    <3> HIDE DEF Bad
    <3>1. Bad \subseteq Nat
      BY DEF Bad
    <3> QED
      BY <1>2, <3>1, Least
  <2>2. k \in Nat /\ k <= L /\ g[k] # f[k]
    OBVIOUS
  <2>3. k # 0
    BY <2>2 DEF Selects
  <2>4. k \in 1 .. L /\ k \in 1 .. L + 1 /\ k - 1 \in Nat /\ k - 1 <= L /\ ~ (k <= k - 1)
    BY <2>2, <2>3, <1>1
  <2>5. f[k - 1] = g[k - 1]
    BY <2>1, <2>4
  <2>6. f[k] = IF s[k] \in S THEN Append(f[k - 1], s[k]) ELSE f[k - 1]
    BY <2>4 DEF Selects, L
  <2>7. g[k] = IF t[k] \in S THEN Append(g[k - 1], t[k]) ELSE g[k - 1]
    BY <2>4, <1>1 DEF Selects, t
  <2> QED
    BY <2>2, <2>4, <2>5, <2>6, <2>7, <1>1
<1>3. g[L] = f[L]
  BY <1>1, <1>2
<1>4. L + 1 \in 1 .. Len(t) /\ (L + 1) - 1 = L
  BY <1>1
<1>5. g[L + 1] = IF t[L + 1] \in S THEN Append(g[(L + 1) - 1], t[L + 1]) ELSE g[(L + 1) - 1]
  BY <1>4 DEF Selects, t
<1> QED
  BY <1>1, <1>3, <1>4, <1>5 DEF t, L

LEMMA SelectedFirst ==
  ASSUME NEW T, NEW s \in Seq(T), s # <<>>, NEW S, NEW f, NEW g,
         Selects(f, s, S), Selects(g, Tail(s), S)
  PROVE  /\ Head(s) \in S => /\ f[Len(s)] # <<>> /\ Head(f[Len(s)]) = Head(s)
                             /\ g[Len(Tail(s))] = Tail(f[Len(s)])
         /\ Head(s) \notin S => g[Len(Tail(s))] = f[Len(s)]
<1> DEFINE t == Tail(s)
           L == Len(s)
           h == s[1]
           R == Range(s)
           With(u) == IF h \in S THEN <<h>> \o u ELSE u
           Bad == {k \in Nat : k <= L - 1 /\ f[k + 1] # With(g[k])}
<1>1. L \in Nat \ {0} /\ Len(t) = L - 1 /\ t \in Seq(T) /\ (\A k \in 1 .. L - 1 : t[k] = s[k + 1]) /\ Head(s) = h
  OBVIOUS
<1>2. \A k \in 0 .. L - 1 : g[k] \in Seq(Range(t) \cap S)
  <2> HIDE DEF t
  <2> QED
    BY <1>1, Selected DEF t
<1>3. Range(t) \subseteq R /\ \A k \in 1 .. L : s[k] \in R
  <2>1. DOMAIN t = 1 .. L - 1 /\ DOMAIN s = 1 .. L
    BY <1>1
  <2>2. \A k \in 1 .. L - 1 : k + 1 \in 1 .. L
    BY <1>1
  <2> QED
    BY <1>1, <2>1, <2>2 DEF Range
<1>4. \A k \in 0 .. L - 1 : g[k] \in Seq(R)
  <2> HIDE DEF t
  <2>1. Range(t) \cap S \subseteq R
    BY <1>3
  <2> QED
    BY <1>2, <2>1, SeqMonotonic
<1>5. h \in R /\ 1 \in 1 .. L
  BY <1>1, <1>3
<1> HIDE DEF t, L, h, R
<1>6. <<h>> \in Seq(R)
  BY <1>5
<1>7. f[1] = With(<<>>)
  <2>1. f[1] = IF s[1] \in S THEN Append(f[1 - 1], s[1]) ELSE f[1 - 1]
    BY <1>5 DEF Selects, L
  <2>2. f[1 - 1] = <<>>
    BY DEF Selects
  <2>3. Append(<<>>, h) = <<h>> /\ <<h>> \o <<>> = <<h>>
    BY <1>6, ConcatEmptySeq
  <2> QED
    BY <2>1, <2>2, <2>3 DEF h
<1>8. ASSUME Bad # {} PROVE FALSE
  <2>1. PICK k \in Bad : \A j \in Bad : k <= j
    <3> HIDE DEF Bad
    <3>1. Bad \subseteq Nat
      BY DEF Bad
    <3> QED
      BY <1>8, <3>1, Least
  <2>2. k \in Nat /\ k <= L - 1 /\ f[k + 1] # With(g[k])
    OBVIOUS
  <2>3. k # 0
    <3>1. g[0] = <<>> /\ 0 + 1 = 1
      BY DEF Selects
    <3> QED
      BY <2>2, <3>1, <1>7
  <2>4. /\ k \in 1 .. L - 1 /\ k + 1 \in 1 .. L /\ (k + 1) - 1 = k /\ k - 1 \in Nat
        /\ k - 1 <= L - 1 /\ ~ (k <= k - 1) /\ (k - 1) + 1 = k /\ k - 1 \in 0 .. L - 1
    BY <2>2, <2>3, <1>1
  <2>5. f[k] = With(g[k - 1])
    BY <2>1, <2>4
  <2>6. f[k + 1] = IF s[k + 1] \in S THEN Append(f[(k + 1) - 1], s[k + 1]) ELSE f[(k + 1) - 1]
    BY <2>4 DEF Selects, L
  <2>7. g[k] = IF t[k] \in S THEN Append(g[k - 1], t[k]) ELSE g[k - 1]
    BY <2>4, <1>1 DEF Selects, t
  <2>8. g[k - 1] \in Seq(R) /\ t[k] = s[k + 1] /\ t[k] \in R
    BY <2>4, <1>1, <1>3, <1>4 DEF L
  <2>9. <<h>> \o Append(g[k - 1], t[k]) = Append(<<h>> \o g[k - 1], t[k])
    <3> DEFINE u == g[k - 1]
               x == t[k]
    <3>1. u \in Seq(R) /\ x \in R /\ <<x>> \in Seq(R) /\ <<h>> \o u \in Seq(R)
      BY <2>8, <1>6
    <3>2. Append(u, x) = u \o <<x>> /\ Append(<<h>> \o u, x) = (<<h>> \o u) \o <<x>>
      BY <3>1, AppendIsConcat
    <3> HIDE DEF u, x
    <3>3. (<<h>> \o u) \o <<x>> = <<h>> \o (u \o <<x>>)
      BY <3>1, <1>6, ConcatAssociative
    <3> QED
      BY <3>2, <3>3 DEF u, x
  <2>10. f[k + 1] = IF t[k] \in S THEN Append(f[k], t[k]) ELSE f[k]
    BY <2>4, <2>6, <2>8
  <2>11. CASE t[k] \in S
    <3>1. f[k + 1] = Append(With(g[k - 1]), t[k]) /\ g[k] = Append(g[k - 1], t[k])
      BY <2>5, <2>7, <2>10, <2>11
    <3>2. f[k + 1] = With(g[k])
      BY <3>1, <2>9
    <3> QED
      BY <2>2, <3>2
  <2>12. CASE t[k] \notin S
    BY <2>2, <2>5, <2>7, <2>10, <2>12
  <2> QED
    BY <2>11, <2>12
<1>9. L - 1 \in Nat /\ L - 1 <= L - 1 /\ (L - 1) + 1 = L /\ L - 1 \in 0 .. L - 1
  BY <1>1
<1>10. f[L] = With(g[L - 1])
  BY <1>8, <1>9
<1>11. g[L - 1] \in Seq(R)
  BY <1>4, <1>9
<1>12. ASSUME NEW u \in Seq(R)
       PROVE  <<h>> \o u # <<>> /\ Head(<<h>> \o u) = h /\ Tail(<<h>> \o u) = u
  <2> DEFINE v == <<h>> \o u
  <2>1. /\ v \in Seq(R) /\ Len(v) = 1 + Len(u)
        /\ \A i \in 1 .. 1 + Len(u) : v[i] = IF i <= 1 THEN <<h>>[i] ELSE u[i - 1]
    <3>1. Len(<<h>>) = 1
      OBVIOUS
    <3> QED
      BY <1>6, <3>1, ConcatProperties
  <2> HIDE DEF v
  <2>2. Len(u) \in Nat /\ 1 \in 1 .. 1 + Len(u) /\ v # <<>>
    BY <2>1
  <2>3. Head(v) = h
    BY <2>1, <2>2
  <2>4. Tail(v) \in Seq(R) /\ Len(Tail(v)) = Len(u)
    BY <2>1, <2>2
  <2>5. \A i \in 1 .. Len(u) : Tail(v)[i] = u[i]
    <3> TAKE i \in 1 .. Len(u)
    <3>1. i + 1 \in 1 .. 1 + Len(u) /\ ~ (i + 1 <= 1) /\ (i + 1) - 1 = i
      BY <2>2
    <3>2. Tail(v)[i] = v[i + 1]
      BY <2>1, <2>2, <2>4, HeadTailProperties
    <3> QED
      BY <3>1, <3>2, <2>1
  <2>6. Tail(v) = u
    BY <2>4, <2>5, SeqEqual
  <2> QED
    BY <2>2, <2>3, <2>6 DEF v
<1>13. f[L] = (IF h \in S THEN <<h>> \o g[L - 1] ELSE g[L - 1])
  BY <1>10
<1>14. h \in S => f[L] # <<>> /\ Head(f[L]) = h /\ Tail(f[L]) = g[L - 1]
  BY <1>11, <1>12, <1>13
<1>15. Head(s) = h /\ Len(t) = L - 1
  BY <1>1
<1> QED
  BY <1>13, <1>14, <1>15 DEF L, t
=============================================================================

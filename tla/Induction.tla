------------------------------ MODULE Induction ------------------------------
(***************************************************************************)
(* Induction and recursion over data, in a form the provers can use: the   *)
(* predicate of an induction is a set of numbers, and the body of a        *)
(* recursive definition a function of the argument and of the function so  *)
(* far.  All rests on every set of numbers having a least element.         *)
(***************************************************************************)
EXTENDS Integers, TLAPS, WellFoundedInduction

\* "less than", as a set of pairs.
Below == {pair \in Nat \X Nat : pair[1] < pair[2]}

\* A set of natural numbers has a least element.
LEMMA LeastElement ==
    ASSUME NEW S, S \subseteq Nat, S # {}
    PROVE  \E n \in S : \A m \in S : n <= m
  <1>1. IsWellFoundedOn(Below, Nat)
    BY NatLessThanWellFounded, Zenon DEF OpToRel, Below
  <1>2. PICK n \in S : \A m \in S : <<m, n>> \notin Below
    BY <1>1, WFMin
  <1>3. \A m \in S : ~(m < n)
    BY <1>2 DEF Below
  <1> QED
    BY <1>3

\* What holds of 0 and of the successor of each number it holds of holds of all
\* numbers up to N.
LEMMA UpTo ==
    ASSUME NEW N \in Nat, NEW S, 0 \in S, \A n \in 0 .. N - 1 : n \in S => n + 1 \in S
    PROVE  \A n \in 0 .. N : n \in S
  <1> DEFINE Bad == {n \in 0 .. N : n \notin S}
  <1> SUFFICES ASSUME Bad # {} PROVE FALSE
    OBVIOUS
  <1>1. PICK n \in Bad : \A m \in Bad : n <= m
    <2>1. Bad \subseteq Nat
      OBVIOUS
    <2> QED
      BY <2>1, LeastElement
  <1>2. n - 1 \in 0 .. N - 1 /\ n - 1 \notin Bad
    BY <1>1
  <1> QED
    BY <1>1, <1>2

\* What holds of each number if it holds of those after it holds of all numbers
\* down from b.
LEMMA DownTo ==
    ASSUME NEW a \in Int, NEW b \in Int, NEW S,
           \A j \in a .. b : (\A k \in j + 1 .. b : k \in S) => j \in S
    PROVE  \A j \in a .. b : j \in S
  <1> DEFINE Bad == {n \in Nat : b - n \in a .. b /\ b - n \notin S}
  <1> SUFFICES ASSUME NEW j \in a .. b, j \notin S PROVE FALSE
    OBVIOUS
  <1>1. b - j \in Bad
    <2>1. b - (b - j) = j /\ b - j \in Nat
      OBVIOUS
    <2> QED
      BY <2>1
  <1>2. PICK n \in Bad : \A m \in Bad : n <= m
    <2>1. Bad \subseteq Nat /\ Bad # {}
      BY <1>1
    <2> HIDE DEF Bad
    <2> QED
      BY <2>1, LeastElement
  <1>3. ASSUME NEW k \in b - n + 1 .. b PROVE k \in S
    <2>1. b - k \in Nat /\ b - k < n /\ b - (b - k) = k /\ k \in a .. b
      BY <1>2
    <2>2. b - k \in Bad => n <= b - k
      BY <1>2
    <2>3. b - k \notin Bad
      BY <1>2, <2>1, <2>2
    <2> QED
      BY <2>1, <2>3
  <1> QED
    BY <1>2, <1>3

\* The body of a recursive definition gives a value for every argument and
\* function so far, and looks at arguments of a lower rank only.
Causal(body, D, T, rank) ==
    \A x \in D : \A g, h \in [D -> T] :
        /\ body[<<x, g>>] \in T
        /\ (\A y \in D : rank[y] < rank[x] => g[y] = h[y]) => body[<<x, g>>] = body[<<x, h>>]

\* A function satisfies the recursive definition.
Satisfied(body, D, T) == \E f \in [D -> T] : \A x \in D : f[x] = body[<<x, f>>]

\* Such a definition has a function that satisfies it.
LEMMA RecursionHasAFunction ==
    ASSUME NEW D, NEW T, T # {}, NEW N \in Nat, NEW rank \in [D -> 0 .. N],
           NEW body, Causal(body, D, T, rank)
    PROVE  Satisfied(body, D, T)
  <1> DEFINE Upto(n) == \E f \in [D -> T] : \A x \in D : rank[x] < n => f[x] = body[<<x, f>>]
             S == {n \in 0 .. N + 1 : Upto(n)}
  <1>1. Upto(0)
    <2>1. PICK t \in T : TRUE
      OBVIOUS
    <2>2. [x \in D |-> t] \in [D -> T] /\ \A x \in D : ~(rank[x] < 0)
      BY <2>1
    <2> QED
      BY <2>2
  <1>2. ASSUME NEW n \in 0 .. N, Upto(n) PROVE Upto(n + 1)
    <2>1. PICK f \in [D -> T] : \A x \in D : rank[x] < n => f[x] = body[<<x, f>>]
      BY <1>2
    <2> DEFINE g == [x \in D |-> IF rank[x] = n THEN body[<<x, f>>] ELSE f[x]]
    <2>2. g \in [D -> T]
      BY DEF Causal
    <2>3. \A x \in D : g[x] = IF rank[x] = n THEN body[<<x, f>>] ELSE f[x]
      OBVIOUS
    <2> HIDE DEF g
    <2>4. ASSUME NEW x \in D, rank[x] < n + 1 PROVE g[x] = body[<<x, g>>]
      <3>1. rank[x] \in Int /\ (rank[x] = n \/ rank[x] < n)
        BY <2>4
      <3>2. \A y \in D : rank[y] < rank[x] => g[y] = f[y]
        <4>1. ASSUME NEW y \in D, rank[y] < rank[x] PROVE rank[y] # n
          BY <3>1, <4>1
        <4> QED
          BY <2>3, <4>1
      <3>3. body[<<x, g>>] = body[<<x, f>>]
        BY <2>2, <3>2 DEF Causal
      <3> QED
        BY <2>1, <2>3, <3>1, <3>3
    <2> QED
      BY <2>2, <2>4
  <1> HIDE DEF Upto
  <1>3. N + 1 \in S
    <2>1. N + 1 \in Nat /\ N + 1 \in 0 .. N + 1 /\ 0 \in 0 .. N + 1
      OBVIOUS
    <2>2. \A n \in 0 .. N + 1 - 1 : n \in S => n + 1 \in S
      BY <1>2
    <2>3. 0 \in S
      BY <1>1, <2>1
    <2> HIDE DEF S
    <2>4. \A n \in 0 .. N + 1 : n \in S
      BY <2>1, <2>2, <2>3, UpTo
    <2> QED
      BY <2>1, <2>4
  <1> QED
    <2>1. PICK f \in [D -> T] : \A x \in D : rank[x] < N + 1 => f[x] = body[<<x, f>>]
      BY <1>3 DEF Upto
    <2>2. \A x \in D : rank[x] < N + 1
      OBVIOUS
    <2> QED
      BY <2>1, <2>2 DEF Satisfied

\* Each value is the last one's, or is made of the value at a later place.
Forward(f, D, next, join, base) ==
    \A j \in D : f[j] = IF j \in DOMAIN next THEN join[<<j, f[next[j]]>>] ELSE base[j]

\* There are such values.
LEMMA ForwardHasAFunction ==
    ASSUME NEW a \in Int, NEW b \in Int, NEW T, T # {}, NEW Inner, Inner \subseteq a .. b,
           NEW next \in [Inner -> a .. b], \A j \in Inner : j < next[j],
           NEW join \in [Inner \X T -> T], NEW base \in [a .. b -> T]
    PROVE  \E f \in [a .. b -> T] : Forward(f, a .. b, next, join, base)
  <1> DEFINE D == a .. b
             go(j, g) == IF j \in Inner THEN join[<<j, g[next[j]]>>] ELSE base[j]
             body == [x \in D \X [D -> T] |-> go(x[1], x[2])]
             rank == [j \in D |-> b - j]
  <1>1. CASE D = {}
    <2>1. [j \in D |-> base[j]] \in [D -> T]
      OBVIOUS
    <2> QED
      BY <1>1, <2>1 DEF Forward
  <1>2. CASE D # {}
    <2> DEFINE K == b - a
    <2>1. K \in Nat /\ rank \in [D -> 0 .. K]
      BY <1>2
    <2>2. \A j \in D, g \in [D -> T] : body[<<j, g>>] = go(j, g)
      <3> HIDE DEF D, go
      <3> QED
        OBVIOUS
    <2>3. \A j \in Inner : next[j] \in D /\ rank[next[j]] < rank[j]
      OBVIOUS
    <2>4. Inner \subseteq D /\ DOMAIN next = Inner /\ base \in [D -> T]
      OBVIOUS
    <2> HIDE DEF D, rank, body, K
    <2>5. ASSUME NEW j \in D, NEW g \in [D -> T] PROVE body[<<j, g>>] \in T
      BY <2>2, <2>3, <2>4
    <2>6. ASSUME NEW j \in D, NEW g \in [D -> T], NEW h \in [D -> T],
                 \A y \in D : rank[y] < rank[j] => g[y] = h[y]
          PROVE  body[<<j, g>>] = body[<<j, h>>]
      <3>1. j \in Inner => g[next[j]] = h[next[j]]
        BY <2>3, <2>6
      <3>2. body[<<j, g>>] = go(j, g) /\ body[<<j, h>>] = go(j, h)
        <4> HIDE DEF go
        <4> QED
          BY <2>2, <2>6
      <3> QED
        BY <3>1, <3>2
    <2>7. Causal(body, D, T, rank)
      <3> HIDE DEF go
      <3> QED
        BY <2>5, <2>6 DEF Causal
    <2>8. Satisfied(body, D, T)
      <3> HIDE DEF go
      <3> QED
        BY <2>1, <2>7, RecursionHasAFunction
    <2>9. PICK f \in [D -> T] : \A j \in D : f[j] = go(j, f)
      <3> HIDE DEF go
      <3> QED
        BY <2>2, <2>8 DEF Satisfied
    <2>10. Forward(f, D, next, join, base)
      BY <2>4, <2>9 DEF Forward
    <2> QED
      BY <2>10 DEF D
  <1> QED
    BY <1>1, <1>2

\* A value, and what each of the first steps makes of the one before.
Steps(f, k, first, step) ==
    \A i \in 0 .. k : f[i] = IF i = 0 THEN first ELSE step[<<i, f[i - 1]>>]

\* There are such values, one for each step.
LEMMA StepsHaveAFunction ==
    ASSUME NEW N \in Nat, NEW T, NEW first \in T, NEW step \in [(1 .. N) \X T -> T]
    PROVE  \E f \in [0 .. N -> T] : Steps(f, N, first, step)
  <1> USE DEF Steps
  <1> DEFINE So(f, k) == Steps(f, k, first, step)
             S == {k \in 0 .. N : \E f \in [0 .. N -> T] : So(f, k)}
  <1>1. 0 \in S
    <2> DEFINE f == [i \in 0 .. N |-> first]
    <2>1. f \in [0 .. N -> T] /\ f[0] = first
      OBVIOUS
    <2> HIDE DEF f
    <2>2. So(f, 0)
      BY <2>1
    <2> QED
      BY <2>1, <2>2
  <1>2. ASSUME NEW k \in 0 .. N - 1, k \in S PROVE k + 1 \in S
    <2>1. PICK f \in [0 .. N -> T] : So(f, k)
      BY <1>2
    <2>2. k \in 0 .. N /\ k + 1 \in 1 .. N /\ k + 1 \in 0 .. N /\ k \in Nat
      OBVIOUS
    <2>3. f[k] \in T
      BY <2>2
    <2>4. step[<<k + 1, f[k]>>] \in T
      <3>1. <<k + 1, f[k]>> \in (1 .. N) \X T
        BY <2>2, <2>3
      <3> QED
        BY <3>1
    <2> DEFINE g == [i \in 0 .. N |-> IF i = k + 1 THEN step[<<k + 1, f[k]>>] ELSE f[i]]
    <2>5. /\ g \in [0 .. N -> T] /\ g[k + 1] = step[<<k + 1, f[k]>>]
          /\ \A i \in 0 .. k : g[i] = f[i]
      BY <2>2, <2>4
    <2> HIDE DEF g
    <2>6. ASSUME NEW i \in 0 .. k + 1
          PROVE  g[i] = IF i = 0 THEN first ELSE step[<<i, g[i - 1]>>]
      <3>1. CASE i = k + 1
        <4>1. i # 0 /\ i - 1 = k /\ g[i - 1] = f[k]
          BY <2>2, <2>5, <3>1
        <4> QED
          BY <2>5, <3>1, <4>1
      <3>2. CASE i # k + 1
        <4>1. i \in 0 .. k
          BY <2>2, <3>2
        <4>2. i # 0 => i - 1 \in 0 .. k
          BY <2>2, <4>1
        <4> QED
          BY <2>1, <2>5, <4>1, <4>2
      <3> QED
        BY <3>1, <3>2
    <2> QED
      BY <2>2, <2>5, <2>6
  <1>3. N \in S
    <2>1. \A k \in 0 .. N - 1 : k \in S => k + 1 \in S
      BY <1>2
    <2>2. N \in 0 .. N
      OBVIOUS
    <2> HIDE DEF S
    <2> QED
      BY <1>1, <2>1, <2>2, UpTo
  <1> QED
    BY <1>3

\* Values down from the last place on, each made of the one behind it.
FromEnd(f, N, last, join) ==
    f[N + 1] = last /\ \A i \in 1 .. N : f[i] = join[<<i, f[i + 1]>>]

\* There are such values.
LEMMA FromTheEnd ==
    ASSUME NEW N \in Nat, NEW T, NEW last \in T, NEW join \in [(1 .. N) \X T -> T]
    PROVE  \E f \in [1 .. N + 1 -> T] : FromEnd(f, N, last, join)
  <1> DEFINE D == 1 .. N + 1
             I == 1 .. N
             next == [i \in I |-> i + 1]
             base == [i \in D |-> last]
  <1>1. I \subseteq D /\ next \in [I -> D] /\ DOMAIN next = I /\ \A i \in I : i < next[i]
    OBVIOUS
  <1>2. base \in [D -> T] /\ T # {} /\ \A i \in D : base[i] = last
    OBVIOUS
  <1>3. 1 \in Int /\ N + 1 \in Int /\ N + 1 \in D /\ N + 1 \notin I
    OBVIOUS
  <1>4. \A i \in I : next[i] = i + 1
    OBVIOUS
  <1> DEFINE b == N + 1
  <1>5. b \in Int /\ D = 1 .. b
    OBVIOUS
  <1> HIDE DEF D, I, next, base, b
  <1>6. PICK f \in [D -> T] : Forward(f, D, next, join, base)
    <2>1. join \in [I \X T -> T]
      BY DEF I
    <2> QED
      BY <1>1, <1>2, <1>3, <1>5, <2>1, ForwardHasAFunction
  <1>7. \A i \in D : f[i] = IF i \in DOMAIN next THEN join[<<i, f[next[i]]>>] ELSE base[i]
    BY <1>6 DEF Forward
  <1>8. f[N + 1] = last
    BY <1>1, <1>2, <1>3, <1>7
  <1>9. \A i \in I : f[i] = join[<<i, f[i + 1]>>]
    BY <1>1, <1>4, <1>7
  <1> QED
    BY <1>6, <1>8, <1>9 DEF D, I, FromEnd

\* What holds at the end, and at each place if behind it, holds everywhere.
LEMMA HoldsFromTheEnd ==
    ASSUME NEW N \in Nat, NEW S, N + 1 \in S, \A i \in 1 .. N : i + 1 \in S => i \in S
    PROVE  \A i \in 1 .. N + 1 : i \in S
  <1> DEFINE b == N + 1
  <1>1. ASSUME NEW i \in 1 .. b, \A k \in i + 1 .. b : k \in S PROVE i \in S
    <2>1. CASE i = b
      BY <2>1
    <2>2. CASE i # b
      <3>1. i \in 1 .. N /\ i + 1 \in i + 1 .. b
        BY <2>2
      <3> QED
        BY <1>1, <3>1
    <2> QED
      BY <2>1, <2>2
  <1>2. 1 \in Int /\ b \in Int
    OBVIOUS
  <1> HIDE DEF b
  <1>3. \A i \in 1 .. b : i \in S
    BY <1>1, <1>2, DownTo
  <1> QED
    BY <1>3 DEF b
=============================================================================

--------------------------- MODULE Decisions_proofs ---------------------------
(***************************************************************************)
(* The path guard lets no path out of the directory, and puts every path   *)
(* where the file system would: for any names, any directory and relPaths  *)
(* of any length.  And what single decisions promise, for statements,      *)
(* configs, trees, rules and allowlists of any size; the lexer, what the   *)
(* parser glues from tokens and the normal form of script paths, for texts *)
(* of any length; and the two sides that read one config file, for any     *)
(* number of settings.                                                     *)
(***************************************************************************)
EXTENDS PathGuard, Decisions, Induction, SequenceTheorems, FiniteSetTheorems

\* A `..` is only where there is nothing to take back: first, or after "/".
UpsOnlyFirst(path) ==
    \A i \in DOMAIN path : path[i] = ".." => i = 1 \/ (i = 2 /\ path[1] = "/")

GuardInv ==
    /\ GuardTypeOK
    /\ \A i \in DOMAIN out : out[i] # "." /\ (out[i] = "/" => i = 1)
    /\ UpsOnlyFirst(out)
    /\ verdict = "accepted" => Inside(out)

-----------------------------------------------------------------------------
\* Pushing a component keeps a path's shape.
LEMMA PushKeepsShape ==
    ASSUME NEW path \in Seq(Components), NEW c \in Components,
           \A i \in DOMAIN path : path[i] # "." /\ (path[i] = "/" => i = 1),
           UpsOnlyFirst(path)
    PROVE  /\ Push(path, c) \in Seq(Components)
           /\ \A i \in DOMAIN Push(path, c) :
                 Push(path, c)[i] # "." /\ (Push(path, c)[i] = "/" => i = 1)
           /\ UpsOnlyFirst(Push(path, c))
<1>1. CASE c = "."
  BY <1>1 DEF Push
<1>2. CASE c = "/"
  BY <1>2 DEF Push, UpsOnlyFirst, Components
<1>3. CASE c = ".." /\ path \notin {<<>>, <<"/">>}
  <2>1. Len(path) >= 1
    BY <1>3
  <2>2. /\ SubSeq(path, 1, Len(path) - 1) \in Seq(Components)
        /\ Len(SubSeq(path, 1, Len(path) - 1)) = Len(path) - 1
        /\ \A i \in 1 .. Len(path) - 1 : SubSeq(path, 1, Len(path) - 1)[i] = path[i]
    <3>. DEFINE n == Len(path) - 1
    <3>1. n \in Nat /\ \A i \in 1 .. n : path[i] \in Components
      BY <2>1
    <3>2. /\ SubSeq(path, 1, n) \in Seq(Components)
          /\ Len(SubSeq(path, 1, n)) = IF 1 <= n THEN n - 1 + 1 ELSE 0
          /\ \A i \in 1 .. n - 1 + 1 : SubSeq(path, 1, n)[i] = path[1 + i - 1]
      <4>. HIDE DEF n
      <4>. QED
        BY <3>1, SubSeqProperties
    <3>3. /\ Len(SubSeq(path, 1, n)) = n
          /\ \A i \in 1 .. n : SubSeq(path, 1, n)[i] = path[i]
      <4>. HIDE DEF n
      <4>. QED
        BY <3>1, <3>2
    <3>. QED
      BY <3>2, <3>3
  <2>3. Push(path, c) = SubSeq(path, 1, Len(path) - 1)
    BY <1>3 DEF Push
  <2>. QED
    BY <2>1, <2>2, <2>3 DEF UpsOnlyFirst
<1>4. CASE c \notin {".", "/"} /\ ~(c = ".." /\ path \notin {<<>>, <<"/">>})
  <2>1. Push(path, c) = Append(path, c)
    BY <1>4 DEF Push
  <2>2. /\ Append(path, c) \in Seq(Components)
        /\ Len(Append(path, c)) = Len(path) + 1
        /\ \A i \in 1 .. Len(path) : Append(path, c)[i] = path[i]
        /\ Append(path, c)[Len(path) + 1] = c
    OBVIOUS
  <2>3. c = ".." => path = <<>> \/ path = <<"/">>
    BY <1>4
  <2>. QED
    BY <1>4, <2>1, <2>2, <2>3 DEF UpsOnlyFirst
<1>. QED
  BY <1>1, <1>2, <1>3, <1>4

\* The guard starts in the invariant.
LEMMA GuardInitially == GuardInit => GuardInv
<1>. SUFFICES ASSUME GuardInit PROVE GuardInv
  OBVIOUS
<1>1. relPath \in Seq(Components) /\ TargetDir \in Seq(Components)
  BY PathAssumption, RelPathAssumption DEF GuardInit
<1>2. rest \in Seq(Components)
  BY <1>1 DEF GuardInit, JoinedPath
<1>. QED
  BY <1>2 DEF GuardInit, GuardInv, GuardTypeOK, UpsOnlyFirst

\* Every step keeps the invariant.
LEMMA GuardStep == GuardInv /\ [GuardNext]_guardVars => GuardInv'
<1>. SUFFICES ASSUME GuardInv, [GuardNext]_guardVars PROVE GuardInv'
  OBVIOUS
<1>1. CASE Normalize
  <2>1. Head(rest) \in Components /\ Tail(rest) \in Seq(Components)
    BY <1>1 DEF Normalize, GuardInv, GuardTypeOK
  <2>2. out \in Seq(Components) /\ UpsOnlyFirst(out)
        /\ \A i \in DOMAIN out : out[i] # "." /\ (out[i] = "/" => i = 1)
    BY DEF GuardInv, GuardTypeOK
  <2>. DEFINE new == Push(out, Head(rest))
  <2>3. /\ new \in Seq(Components) /\ UpsOnlyFirst(new)
        /\ \A i \in DOMAIN new : new[i] # "." /\ (new[i] = "/" => i = 1)
    BY <2>1, <2>2, PushKeepsShape
  <2>4. out' = new /\ rest' = Tail(rest) /\ relPath' = relPath /\ verdict' = "open"
    BY <1>1 DEF Normalize
  <2>. HIDE DEF new
  <2>. QED
    BY <2>1, <2>3, <2>4 DEF GuardInv, GuardTypeOK, UpsOnlyFirst
<1>2. CASE Decide
  BY <1>2 DEF Decide, GuardInv, GuardTypeOK, Inside, UpsOnlyFirst
<1>3. CASE UNCHANGED guardVars
  BY <1>3 DEF guardVars, GuardInv, GuardTypeOK, Inside, UpsOnlyFirst
<1>. QED
  BY <1>1, <1>2, <1>3 DEF GuardNext

\* A path inside the directory whose `..` could only be first has none.
LEMMA InvContained == GuardInv => Contained
<1>. SUFFICES ASSUME GuardInv, verdict = "accepted",
                     NEW i \in Len(TargetDir) + 1 .. Len(out)
              PROVE  out[i] \in Names
  BY DEF Contained, GuardInv
<1>1. out \in Seq(Components) /\ Inside(out)
  BY DEF GuardInv, GuardTypeOK
<1>2. i \in DOMAIN out /\ i > 2 /\ out[i] \in Components
  BY <1>1, PathAssumption DEF Inside
<1>3. out[i] # "." /\ out[i] # "/" /\ out[i] # ".."
  BY <1>2 DEF GuardInv, UpsOnlyFirst
<1>. QED
  BY <1>2, <1>3 DEF Components

\* The guard's variables keep their types (get_safe_path_in_dir, normalize).
THEOREM GuardTypeCorrect == GuardSpec => []GuardTypeOK
<1>1. GuardInv => GuardTypeOK
  BY DEF GuardInv
<1>. QED
  BY <1>1, GuardInitially, GuardStep, PTL DEF GuardSpec

\* Every path the guard accepts is the directory and plain names below it: the
\* file an upload writes is inside its deployment.
THEOREM ContainedCorrect == GuardSpec => []Contained
BY InvContained, GuardInitially, GuardStep, PTL DEF GuardSpec

-----------------------------------------------------------------------------
(* Resolution, component by component. *)

Rooted == {r \in Seq(Components) : Len(r) >= 1 /\ r[1] = "/"}

\* Where a component leads from a place.
Move(at, c) ==
    CASE c = "/" -> <<"/">>
      [] c = "." -> at
      [] c = ".." -> IF Len(at) = 1 THEN at ELSE SubSeq(at, 1, Len(at) - 1)
      [] OTHER -> Append(at, c)

\* The places a path leads through.
IsResolution(path, at) ==
    at = [i \in 0 .. Len(path) |-> IF i = 0 THEN <<"/">> ELSE Move(at[i - 1], path[i])]

\* From below the root a component leads below the root.
LEMMA MoveIsRooted ==
    ASSUME NEW at \in Rooted, NEW c \in Components
    PROVE  Move(at, c) \in Rooted
  <1>1. <<"/">> \in Rooted
    BY DEF Rooted, Components
  <1>2. Append(at, c) \in Rooted
    <2>1. at \in Seq(Components) /\ Len(at) \in Nat /\ Len(at) >= 1 /\ at[1] = "/"
      BY DEF Rooted
    <2>2. /\ Append(at, c) \in Seq(Components) /\ Len(Append(at, c)) >= 1
          /\ Append(at, c)[1] = at[1]
      BY <2>1
    <2> QED
      BY <2>1, <2>2 DEF Rooted
  <1>3. Len(at) # 1 => SubSeq(at, 1, Len(at) - 1) \in Rooted
    <2> SUFFICES ASSUME Len(at) # 1 PROVE SubSeq(at, 1, Len(at) - 1) \in Rooted
      OBVIOUS
    <2> DEFINE n == Len(at) - 1
    <2>1. n \in Nat /\ n >= 1 /\ n <= Len(at) /\ at \in Seq(Components) /\ at[1] = "/"
      <3> DEFINE l == Len(at)
      <3>1. l \in Nat /\ l >= 1 /\ l # 1 /\ at \in Seq(Components) /\ at[1] = "/"
        BY DEF Rooted
      <3> HIDE DEF l
      <3>2. l - 1 \in Nat /\ l - 1 >= 1 /\ l - 1 <= l
        BY <3>1
      <3> QED
        BY <3>1, <3>2 DEF l
    <2> HIDE DEF n
    <2>2. /\ SubSeq(at, 1, n) \in Seq(Components) /\ Len(SubSeq(at, 1, n)) = n
          /\ SubSeq(at, 1, n)[1] = at[1]
      BY <2>1
    <2> QED
      BY <2>1, <2>2 DEF Rooted, n
  <1> QED
    BY <1>1, <1>2, <1>3 DEF Move

\* Paths that begin alike lead through the same places.
LEMMA SameWay ==
    ASSUME NEW p \in Seq(Components), NEW q \in Seq(Components), NEW n \in Nat,
           n <= Len(p), n <= Len(q), \A i \in 1 .. n : p[i] = q[i],
           NEW f, IsResolution(p, f), NEW g, IsResolution(q, g)
    PROVE  \A i \in 0 .. n : f[i] = g[i]
  <1> DEFINE S == {i \in 0 .. n : f[i] = g[i]}
  <1>1. \A i \in 0 .. n : /\ f[i] = IF i = 0 THEN <<"/">> ELSE Move(f[i - 1], p[i])
                          /\ g[i] = IF i = 0 THEN <<"/">> ELSE Move(g[i - 1], q[i])
    <2>1. \A i \in 0 .. n : i \in 0 .. Len(p) /\ i \in 0 .. Len(q)
      OBVIOUS
    <2> QED
      BY <2>1 DEF IsResolution
  <1>2. 0 \in S
    BY <1>1
  <1>3. \A i \in 0 .. n - 1 : i \in S => i + 1 \in S
    <2> SUFFICES ASSUME NEW i \in 0 .. n - 1, i \in S PROVE i + 1 \in S
      OBVIOUS
    <2>1. i + 1 \in 0 .. n /\ i + 1 \in 1 .. n /\ i + 1 # 0 /\ i + 1 - 1 = i
      OBVIOUS
    <2>2. f[i + 1] = Move(f[i], p[i + 1]) /\ g[i + 1] = Move(g[i], q[i + 1])
      BY <1>1, <2>1
    <2> QED
      BY <2>1, <2>2
  <1>4. \A i \in 0 .. n : i \in S
    <2> HIDE DEF S
    <2> QED
      BY <1>2, <1>3, UpTo
  <1> QED
    BY <1>4

\* The function Resolved is defined by exists, and stays below the root.
LEMMA ResolvedIs ==
    ASSUME NEW p \in Seq(Components)
    PROVE  \E f \in [0 .. Len(p) -> Rooted] : IsResolution(p, f) /\ Resolved(p) = f[Len(p)]
  <1> DEFINE n == Len(p)
             step == [x \in (1 .. n) \X Rooted |-> Move(x[2], p[x[1]])]
  <1>1. n \in Nat /\ <<"/">> \in Rooted
    BY DEF Rooted, Components
  <1>2. /\ step \in [(1 .. n) \X Rooted -> Rooted]
        /\ \A i \in 1 .. n, at \in Rooted : step[<<i, at>>] = Move(at, p[i])
    <2>1. \A x \in (1 .. n) \X Rooted : Move(x[2], p[x[1]]) \in Rooted
      BY MoveIsRooted
    <2>2. \A i \in 1 .. n, at \in Rooted : <<i, at>> \in (1 .. n) \X Rooted
      OBVIOUS
    <2> QED
      BY <2>1, <2>2
  <1> HIDE DEF step
  <1>3. PICK g \in [0 .. n -> Rooted] :
            \A i \in 0 .. n : g[i] = IF i = 0 THEN <<"/">> ELSE step[<<i, g[i - 1]>>]
    <2>1. PICK g \in [0 .. n -> Rooted] : Steps(g, n, <<"/">>, step)
      <3> HIDE DEF n, Rooted
      <3> QED
        BY <1>1, <1>2, StepsHaveAFunction
    <2> QED
      BY <2>1 DEF Steps
  <1>4. IsResolution(p, g)
    <2>1. ASSUME NEW i \in 0 .. n, i # 0 PROVE g[i] = Move(g[i - 1], p[i])
      <3>1. i \in 1 .. n /\ i - 1 \in 0 .. n
        BY <2>1
      <3> QED
        BY <1>2, <1>3, <2>1, <3>1
    <2>2. g[0] = <<"/">>
      <3>1. 0 \in 0 .. n
        BY <1>1
      <3> QED
        BY <1>3, <3>1
    <2> QED
      BY <2>1, <2>2 DEF IsResolution
  <1> DEFINE at == CHOOSE h : IsResolution(p, h)
  <1>5. IsResolution(p, at)
    BY <1>4
  <1>6. Resolved(p) = at[n]
    BY DEF Resolved, IsResolution, Move
  <1> HIDE DEF at
  <1>7. \A i \in 0 .. n : at[i] = g[i]
    BY <1>1, <1>4, <1>5, SameWay
  <1>8. at \in [0 .. n -> Rooted]
    BY <1>5, <1>7 DEF IsResolution
  <1> QED
    BY <1>5, <1>6, <1>8

\* Resolved goes component by component.
LEMMA ResolvedSteps ==
    /\ Resolved(<<>>) = <<"/">>
    /\ \A p \in Seq(Components) : Resolved(p) \in Rooted
    /\ \A p \in Seq(Components), c \in Components :
          Resolved(Append(p, c)) = Move(Resolved(p), c)
  <1>1. Resolved(<<>>) = <<"/">>
    <2>1. <<>> \in Seq(Components) /\ Len(<<>>) = 0 /\ 0 \in 0 .. 0
      OBVIOUS
    <2>2. PICK f : IsResolution(<<>>, f) /\ Resolved(<<>>) = f[Len(<<>>)]
      BY <2>1, ResolvedIs
    <2>3. f[0] = <<"/">>
      BY <2>1, <2>2 DEF IsResolution
    <2> QED
      BY <2>1, <2>2, <2>3
  <1>2. ASSUME NEW p \in Seq(Components) PROVE Resolved(p) \in Rooted
    <2>1. PICK f \in [0 .. Len(p) -> Rooted] : Resolved(p) = f[Len(p)]
      BY ResolvedIs
    <2>2. Len(p) \in 0 .. Len(p)
      OBVIOUS
    <2> QED
      BY <2>1, <2>2
  <1>3. ASSUME NEW p \in Seq(Components), NEW c \in Components
        PROVE  Resolved(Append(p, c)) = Move(Resolved(p), c)
    <2> DEFINE q == Append(p, c)
               n == Len(p)
    <2>1. /\ q \in Seq(Components) /\ Len(q) = n + 1 /\ n \in Nat
          /\ q[n + 1] = c /\ \A i \in 1 .. n : p[i] = q[i]
      OBVIOUS
    <2>2. PICK f : IsResolution(p, f) /\ Resolved(p) = f[n]
      BY ResolvedIs
    <2>3. PICK g : IsResolution(q, g) /\ Resolved(q) = g[n + 1]
      BY <2>1, ResolvedIs
    <2> HIDE DEF q
    <2>4. f[n] = g[n]
      BY <2>1, <2>2, <2>3, SameWay
    <2>5. g[n + 1] = Move(g[n], c)
      <3>1. n + 1 \in 0 .. Len(q) /\ n + 1 # 0 /\ n + 1 - 1 = n
        BY <2>1
      <3> QED
        BY <2>1, <2>3, <3>1 DEF IsResolution
    <2> QED
      BY <2>2, <2>3, <2>4, <2>5 DEF q
  <1> QED
    BY <1>1, <1>2, <1>3

-----------------------------------------------------------------------------
(* The guard and the file system. *)

GuardedPath == JoinedPath(TargetDir, relPath)

\* No component up to the n-th asks for the parent of the root.
StaysBelow(path, n) ==
    ~\E i \in 1 .. n : path[i] = ".." /\ Resolved(SubSeq(path, 1, i - 1)) = <<"/">>

\* After n components the guard is where the file system is.
InStep(path, n) ==
    /\ Len(rest) = Len(path) - n /\ \A i \in 1 .. Len(rest) : rest[i] = path[n + i]
    /\ StaysBelow(path, n) => out = IF n = 0 THEN <<>> ELSE Resolved(SubSeq(path, 1, n))

ExactInv ==
    /\ GuardInv
    /\ \E n \in 0 .. Len(GuardedPath) : InStep(GuardedPath, n)
    /\ verdict # "open" =>
          rest = <<>> /\ verdict = IF Inside(out) THEN "accepted" ELSE "refused"

\* A path's beginnings, one component longer each.
LEMMA PrefixFacts ==
    ASSUME NEW X, NEW s \in Seq(X), NEW n \in 0 .. Len(s)
    PROVE  /\ SubSeq(s, 1, n) \in Seq(X) /\ Len(SubSeq(s, 1, n)) = n
           /\ \A i \in 1 .. n : SubSeq(s, 1, n)[i] = s[i]
           /\ \A m \in 0 .. n : SubSeq(SubSeq(s, 1, n), 1, m) = SubSeq(s, 1, m)
           /\ n = Len(s) => SubSeq(s, 1, n) = s
           /\ n < Len(s) => SubSeq(s, 1, n + 1) = Append(SubSeq(s, 1, n), s[n + 1])
  <1>1. \A k \in 0 .. Len(s) :
            /\ SubSeq(s, 1, k) \in Seq(X) /\ Len(SubSeq(s, 1, k)) = k
            /\ \A i \in 1 .. k : SubSeq(s, 1, k)[i] = s[i]
    OBVIOUS
  <1>2. ASSUME NEW m \in 0 .. n PROVE SubSeq(SubSeq(s, 1, n), 1, m) = SubSeq(s, 1, m)
    <2> DEFINE t == SubSeq(s, 1, n)
               u == SubSeq(t, 1, m)
               v == SubSeq(s, 1, m)
    <2>1. t \in Seq(X) /\ Len(t) = n /\ \A i \in 1 .. n : t[i] = s[i]
      BY <1>1
    <2>2. v \in Seq(X) /\ Len(v) = m /\ \A i \in 1 .. m : v[i] = s[i]
      BY <1>1
    <2> HIDE DEF t, v
    <2>3. u \in Seq(X) /\ Len(u) = m /\ \A i \in 1 .. m : u[i] = t[i]
      BY <2>1
    <2> HIDE DEF u
    <2>4. u = v
      BY <2>1, <2>2, <2>3
    <2> QED
      BY <2>4 DEF t, u, v
  <1>3. n = Len(s) => SubSeq(s, 1, n) = s
    BY <1>1
  <1>4. n < Len(s) => SubSeq(s, 1, n + 1) = Append(SubSeq(s, 1, n), s[n + 1])
    <2> SUFFICES ASSUME n < Len(s) PROVE SubSeq(s, 1, n + 1) = Append(SubSeq(s, 1, n), s[n + 1])
      OBVIOUS
    <2> DEFINE u == SubSeq(s, 1, n + 1)
               t == SubSeq(s, 1, n)
               v == Append(t, s[n + 1])
    <2>1. n + 1 \in 0 .. Len(s) /\ s[n + 1] \in X /\ n \in Nat
      OBVIOUS
    <2>2. u \in Seq(X) /\ Len(u) = n + 1 /\ \A i \in 1 .. n + 1 : u[i] = s[i]
      BY <1>1, <2>1
    <2>3. t \in Seq(X) /\ Len(t) = n /\ \A i \in 1 .. n : t[i] = s[i]
      BY <1>1
    <2> HIDE DEF u, t
    <2>4. /\ v \in Seq(X) /\ Len(v) = n + 1 /\ v[n + 1] = s[n + 1]
          /\ \A i \in 1 .. n : v[i] = t[i]
      BY <2>1, <2>3
    <2> HIDE DEF v
    <2>5. \A i \in 1 .. n + 1 : v[i] = u[i]
      <3> SUFFICES ASSUME NEW i \in 1 .. n + 1 PROVE v[i] = u[i]
        OBVIOUS
      <3>1. i \in 1 .. n \/ i = n + 1
        BY <2>1
      <3> QED
        BY <2>2, <2>3, <2>4, <3>1
    <2>6. u = v
      BY <2>2, <2>4, <2>5
    <2> QED
      BY <2>6 DEF u, t, v
  <1> QED
    BY <1>1, <1>2, <1>3, <1>4

\* The joined path is absolute.
LEMMA JoinedIsAbsolute ==
    GuardTypeOK => GuardedPath \in Rooted
  <1> SUFFICES ASSUME GuardTypeOK PROVE GuardedPath \in Rooted
    OBVIOUS
  <1>1. relPath \in Seq(Components) /\ TargetDir \in Rooted
    BY PathAssumption, RelPathAssumption DEF GuardTypeOK, Rooted
  <1>2. CASE relPath # <<>> /\ relPath[1] = "/"
    <2>1. Len(relPath) >= 1
      BY <1>1, <1>2
    <2> QED
      BY <1>1, <1>2, <2>1 DEF GuardedPath, JoinedPath, Rooted
  <1>3. CASE ~(relPath # <<>> /\ relPath[1] = "/")
    <2> DEFINE s == TargetDir \o relPath
    <2>1. s \in Seq(Components) /\ Len(s) = Len(TargetDir) + Len(relPath)
      BY <1>1 DEF Rooted
    <2>2. Len(TargetDir) \in Nat /\ Len(relPath) \in Nat /\ Len(TargetDir) >= 1
      BY <1>1 DEF Rooted
    <2>3. s[1] = "/"
      BY <1>1, <2>2 DEF Rooted
    <2> HIDE DEF s
    <2>4. s \in Rooted
      BY <2>1, <2>2, <2>3 DEF Rooted
    <2> QED
      BY <1>3, <2>4 DEF GuardedPath, JoinedPath, s
  <1> QED
    BY <1>2, <1>3

\* Where a component is not taken back from the root, the guard moves as the
\* file system does.
LEMMA PushIsMove ==
    ASSUME NEW at \in Rooted, NEW c \in Components, ~(c = ".." /\ at = <<"/">>)
    PROVE  Push(at, c) = Move(at, c)
  <1>1. at \in Seq(Components) /\ at # <<>> /\ at[1] = "/"
    BY DEF Rooted
  <1>2. Len(at) = 1 => at = <<"/">>
    BY <1>1
  <1> QED
    BY <1>1, <1>2 DEF Push, Move

\* The guard starts in step with the file system.
LEMMA ExactInitially == GuardInit => ExactInv
  <1> SUFFICES ASSUME GuardInit PROVE ExactInv
    OBVIOUS
  <1>1. GuardInv /\ verdict = "open"
    BY GuardInitially DEF GuardInit
  <1>2. rest = GuardedPath /\ out = <<>> /\ GuardedPath \in Seq(Components)
    BY <1>1, JoinedIsAbsolute DEF GuardInit, GuardedPath, Rooted, GuardInv
  <1>3. InStep(GuardedPath, 0) /\ 0 \in 0 .. Len(GuardedPath)
    BY <1>2 DEF InStep
  <1> QED
    BY <1>1, <1>3 DEF ExactInv

\* Each step of the guard keeps it in step.
LEMMA ExactStep == ExactInv /\ [GuardNext]_guardVars => ExactInv'
  <1> SUFFICES ASSUME ExactInv, [GuardNext]_guardVars PROVE ExactInv'
    OBVIOUS
  <1>1. GuardInv'
    BY GuardStep DEF ExactInv
  <1> DEFINE path == GuardedPath
  <1>2. GuardTypeOK /\ path \in Rooted /\ path \in Seq(Components) /\ Len(path) \in Nat
    BY JoinedIsAbsolute DEF ExactInv, GuardInv, Rooted
  <1>3. PICK n \in 0 .. Len(path) : InStep(path, n)
    BY DEF ExactInv
  <1>4. CASE Normalize
    <2> DEFINE c == Head(rest)
    <2>1. /\ Len(rest) >= 1 /\ rest \in Seq(Components) /\ Len(rest) \in Nat
          /\ out' = Push(out, c) /\ rest' = Tail(rest) /\ verdict' = "open" /\ path' = path
      BY <1>2, <1>4 DEF Normalize, GuardTypeOK, GuardedPath
    <2>2. n < Len(path) /\ n + 1 \in 0 .. Len(path) /\ n \in Nat
      BY <1>2, <1>3, <2>1 DEF InStep
    <2>3. c = path[n + 1] /\ c \in Components
      BY <1>2, <1>3, <2>1 DEF InStep
    <2>4. /\ Len(rest') = Len(path) - (n + 1)
          /\ \A i \in 1 .. Len(rest') : rest'[i] = path[n + 1 + i]
      <3>1. Len(rest') = Len(rest) - 1 /\ \A i \in 1 .. Len(rest) - 1 : rest'[i] = rest[i + 1]
        BY <2>1
      <3>2. \A i \in 1 .. Len(rest) - 1 : i + 1 \in 1 .. Len(rest) /\ n + (i + 1) = n + 1 + i
        BY <2>1, <2>2
      <3>3. Len(rest) = Len(path) - n /\ \A i \in 1 .. Len(rest) : rest[i] = path[n + i]
        BY <1>3 DEF InStep
      <3>4. Len(rest') = Len(path) - (n + 1)
        BY <1>2, <2>1, <2>2, <3>1, <3>3
      <3>5. \A i \in 1 .. Len(rest) - 1 : rest'[i] = path[n + 1 + i]
        BY <3>1, <3>2, <3>3
      <3> QED
        BY <3>1, <3>4, <3>5
    <2>5. ASSUME StaysBelow(path, n + 1)
          PROVE  out' = Resolved(SubSeq(path, 1, n + 1))
      <3> DEFINE p == SubSeq(path, 1, n)
      <3>1. p \in Seq(Components) /\ SubSeq(path, 1, n + 1) = Append(p, c)
        BY <1>2, <2>2, <2>3, PrefixFacts
      <3>2. Resolved(Append(p, c)) = Move(Resolved(p), c) /\ Resolved(p) \in Rooted
        BY <2>3, <3>1, ResolvedSteps
      <3>3. CASE n = 0
        <4>1. c = "/"
          BY <1>2, <2>3, <3>3 DEF Rooted
        <4>2. Push(out, c) = <<"/">> /\ Move(Resolved(p), c) = <<"/">>
          BY <4>1 DEF Push, Move
        <4> QED
          BY <2>1, <3>1, <3>2, <4>2
      <3>4. CASE n # 0
        <4>1. StaysBelow(path, n)
          BY <2>2, <2>5 DEF StaysBelow
        <4>2. out = Resolved(p)
          BY <1>3, <3>4, <4>1 DEF InStep
        <4>3. ~(c = ".." /\ Resolved(p) = <<"/">>)
          <5>1. n + 1 \in 1 .. n + 1 /\ n + 1 - 1 = n
            BY <2>2
          <5> QED
            BY <2>3, <2>5, <5>1 DEF StaysBelow
        <4>4. Push(out, c) = Move(Resolved(p), c)
          BY <2>3, <3>2, <4>2, <4>3, PushIsMove
        <4> QED
          BY <2>1, <3>1, <3>2, <4>4
      <3> QED
        BY <3>3, <3>4
    <2> HIDE DEF path
    <2>6. InStep(path, n + 1)'
      BY <2>1, <2>2, <2>4, <2>5 DEF InStep
    <2> QED
      BY <1>1, <2>1, <2>2, <2>6 DEF ExactInv, path
  <1>5. CASE Decide
    <2>1. /\ rest = <<>> /\ rest' = rest /\ out' = out /\ path' = path
          /\ verdict' = IF Inside(out) THEN "accepted" ELSE "refused"
      BY <1>5 DEF Decide, GuardedPath
    <2>2. InStep(path, n)'
      BY <1>3, <2>1 DEF InStep
    <2> QED
      BY <1>1, <2>1, <2>2 DEF ExactInv
  <1>6. CASE UNCHANGED guardVars
    <2>1. rest' = rest /\ out' = out /\ path' = path /\ verdict' = verdict
      BY <1>6 DEF guardVars, GuardedPath
    <2>2. InStep(path, n)'
      BY <1>3, <2>1 DEF InStep
    <2> QED
      BY <1>1, <2>1, <2>2 DEF ExactInv
  <1> QED
    BY <1>4, <1>5, <1>6 DEF GuardNext

\* In step to the end, the guard lets out what the file system finds.
LEMMA InvGuardIsExact == ExactInv => GuardIsExact
  <1> SUFFICES ASSUME ExactInv, verdict # "open", ~ClimbsAboveRoot(GuardedPath)
               PROVE  /\ out = Resolved(GuardedPath)
                      /\ verdict = "accepted" <=> Inside(Resolved(GuardedPath))
    BY DEF GuardIsExact, GuardedPath
  <1> DEFINE path == GuardedPath
  <1>1. path \in Seq(Components) /\ Len(path) \in Nat /\ Len(path) >= 1
    BY JoinedIsAbsolute DEF ExactInv, GuardInv, Rooted
  <1>2. PICK n \in 0 .. Len(path) : InStep(path, n)
    BY DEF ExactInv
  <1>3. rest = <<>>
    BY DEF ExactInv
  <1>4. n = Len(path)
    BY <1>1, <1>2, <1>3 DEF InStep
  <1>5. StaysBelow(path, n)
    BY <1>4 DEF StaysBelow, ClimbsAboveRoot
  <1>6. SubSeq(path, 1, n) = path
    BY <1>1, <1>4, PrefixFacts
  <1>7. out = Resolved(path)
    <2>1. n # 0
      BY <1>1, <1>4
    <2>2. out = IF n = 0 THEN <<>> ELSE Resolved(SubSeq(path, 1, n))
      BY <1>2, <1>5 DEF InStep
    <2> QED
      BY <1>6, <2>1, <2>2
  <1> QED
    BY <1>7 DEF ExactInv

\* The directories made for a file are all inside.
LEMMA InvSkeletonIsClosed == GuardInv => SkeletonIsClosed
  <1> SUFFICES ASSUME GuardInv PROVE SkeletonIsClosed
    OBVIOUS
  <1> DEFINE l == Len(TargetDir)
             made == EmptyDirectories(out)
  <1>1. out \in Seq(Components) /\ Len(out) \in Nat /\ l \in Nat /\ l >= 1
    BY PathAssumption DEF GuardInv, GuardTypeOK
  <1>2. made = IF Inside(out) THEN {SubSeq(out, 1, n) : n \in l + 1 .. Len(out) - 1} ELSE {}
    BY DEF EmptyDirectories
  <1>3. Inside(out) => l <= Len(out) /\ SubSeq(out, 1, l) = TargetDir
    BY DEF Inside
  <1> HIDE DEF l, made
  <1>4. ASSUME Inside(out), NEW n \in l + 1 .. Len(out)
        PROVE  SubSeq(out, 1, n - 1) \in made \cup {TargetDir}
    <2>1. n - 1 = l \/ n - 1 \in l + 1 .. Len(out) - 1
      BY <1>1
    <2> QED
      BY <1>2, <1>3, <1>4, <2>1
  <1>5. ASSUME NEW d \in made
        PROVE  Inside(d) /\ SubSeq(d, 1, Len(d) - 1) \in made \cup {TargetDir}
    <2>1. Inside(out)
      BY <1>2, <1>5
    <2>2. PICK n \in l + 1 .. Len(out) - 1 : d = SubSeq(out, 1, n)
      BY <1>2, <2>1
    <2>3. /\ n \in 0 .. Len(out) /\ l \in 0 .. n /\ n - 1 \in 0 .. n /\ n \in l + 1 .. Len(out)
          /\ l <= n
      BY <1>1, <2>2
    <2>4. Len(d) = n /\ SubSeq(d, 1, l) = SubSeq(out, 1, l) /\ SubSeq(d, 1, n - 1) = SubSeq(out, 1, n - 1)
      BY <1>1, <2>2, <2>3, PrefixFacts
    <2>5. Inside(d)
      BY <1>3, <2>1, <2>3, <2>4 DEF Inside, l
    <2> QED
      BY <1>4, <2>1, <2>3, <2>4, <2>5
  <1>6. ASSUME verdict = "accepted", Len(out) > l
        PROVE  SubSeq(out, 1, Len(out) - 1) \in made \cup {TargetDir}
    <2>1. Inside(out) /\ Len(out) \in l + 1 .. Len(out)
      BY <1>1, <1>6 DEF GuardInv
    <2> QED
      BY <1>4, <2>1
  <1> QED
    BY <1>5, <1>6 DEF SkeletonIsClosed, l, made

\* The guard is as strict as the file system, and no stricter: unless a path
\* climbs above the root it is accepted exactly when it leads to the directory
\* or below, and then to the same file, whose directories are all made.
THEOREM FilesFindTheirPlaceCorrect == GuardSpec => []FilesFindTheirPlace
  <1>1. ExactInv => FilesFindTheirPlace
    BY InvGuardIsExact, InvSkeletonIsClosed DEF ExactInv, FilesFindTheirPlace
  <1> QED
    BY <1>1, ExactInitially, ExactStep, PTL DEF GuardSpec

-----------------------------------------------------------------------------
(* Routing. *)

\* A call, the databases of a config, in any number and spelling, and the tables
\* of each file.
DbEntries == [path : Seq(Components), blocked : BOOLEAN]

CallInput ==
    [ kind  : {"call"},
      dbs   : Seq(DbEntries),
      files : UNION {[D -> SUBSET Seq(SqlWords)] : D \in SUBSET Seq(Components)},
      call  : [agent : BOOLEAN, database : Seq(Components) \cup {Unnamed},
               sql : Seq(SqlWords \cup {Blank})] ]

\* Of the databases that hold the tables of a statement there is one when one is
\* taken.
LEMMA TheOneIsAlone ==
    ASSUME NEW dbs, NEW n \in Nat, DOMAIN dbs = 1 .. n, NEW M \in SUBSET (1 .. n),
           TheOne(dbs, M) # NoTarget
    PROVE  \E i \in 1 .. n : M = {i} /\ TheOne(dbs, M) = dbs[i].path
  <1>1. IsFiniteSet(M) /\ Cardinality(M) = 1
    <2>1. IsFiniteSet(1 .. n)
      BY FS_Interval
    <2>2. IsFiniteSet(M)
      BY <2>1, FS_Subset
    <2> QED
      BY <2>2 DEF TheOne
  <1>2. PICK i : M = {i}
    BY <1>1, FS_Singleton
  <1>3. (CHOOSE k \in M : TRUE) = i
    BY <1>2
  <1> QED
    BY <1>1, <1>2, <1>3 DEF TheOne

OnlyEntry(dbs, files, names, target, i) ==
    /\ target = dbs[i].path
    /\ \A j \in DOMAIN dbs : SafePath(dbs[j].path) = SafePath(target) => j = i
    /\ \A j \in Holders(dbs, files, names) : j = i

\* Whatever entry is routed to, it is the only one of its file.
LEMMA RoutedToTheOnly ==
    ASSUME NEW dbs \in Seq(DbEntries), NEW files, NEW names,
           RoutedBy(dbs, files, names) # NoTarget,
           SafePath(RoutedBy(dbs, files, names)) # NoTarget
    PROVE  \E i \in DOMAIN dbs : OnlyEntry(dbs, files, names, RoutedBy(dbs, files, names), i)
  <1> DEFINE H == Holders(dbs, files, names)
             target == RoutedBy(dbs, files, names)
  <1>1. target = TheOne(dbs, H)
    BY DEF RoutedBy, FindDatabase
  <1>2. DOMAIN dbs = 1 .. Len(dbs) /\ Len(dbs) \in Nat /\ H \in SUBSET (1 .. Len(dbs))
    BY DEF Holders
  <1>3. PICK i \in 1 .. Len(dbs) : H = {i} /\ target = dbs[i].path
    <2> HIDE DEF H
    <2> QED
      BY <1>1, <1>2, TheOneIsAlone
  <1>4. names \subseteq Tables(files, dbs[i].path)
    BY <1>3 DEF Holders
  <1>5. ASSUME NEW j \in DOMAIN dbs, SafePath(dbs[j].path) = SafePath(target) PROVE j = i
    <2>1. Tables(files, dbs[j].path) = Tables(files, dbs[i].path)
      BY <1>3, <1>5 DEF Tables
    <2>2. j \in H
      BY <1>4, <1>5, <2>1 DEF Holders
    <2> QED
      BY <1>3, <2>2
  <1> QED
    BY <1>2, <1>3, <1>5 DEF OnlyEntry

\* A statement that names no database runs on the only configured file that has
\* its tables, and an agent's on none that is blocked: for any statement, and any
\* number of entries, in any spelling and order (find_database_for_tables,
\* execute_sql).
THEOREM CallsAreRoutedCorrect == input \in CallInput => CallsAreRoutedSafely
  <1> SUFFICES ASSUME input \in CallInput PROVE CallsAreRoutedSafely
    OBVIOUS
  <1> DEFINE call == input.call
             dbs == input.dbs
             files == input.files
             names == TableNames(call.sql)
             target == TargetRelPath(call, dbs, files)
             opened == ExecutedOn(call, dbs, files)
  <1>1. dbs \in Seq(DbEntries) /\ call.agent \in BOOLEAN
    BY DEF CallInput
  <1> SUFFICES ASSUME call.database = Unnamed, opened # NoTarget
               PROVE  /\ Len(dbs) > 1 => \A i \in Holders(dbs, files, names) : SafePath(dbs[i].path) = opened
                      /\ call.agent => \A i \in DOMAIN dbs : dbs[i].blocked => SafePath(dbs[i].path) # opened
    BY DEF CallsAreRoutedSafely, RunsOnTheOne, AgentSparesBlocked
  <1> HIDE DEF call, dbs, files, names
  <1>2. target # NoTarget /\ opened = SafePath(target) /\ (call.agent => ~Blocked(dbs, target))
    BY DEF ExecutedOn, Opened
  <1>3. Len(dbs) \in Nat /\ Len(dbs) # 0 /\ DOMAIN dbs = 1 .. Len(dbs)
    <2>1. dbs # <<>>
      BY <1>2 DEF TargetRelPath
    <2> QED
      BY <1>1, <2>1
  <1>4. PICK i \in DOMAIN dbs :
            /\ target = dbs[i].path
            /\ \A j \in DOMAIN dbs : SafePath(dbs[j].path) = opened => j = i
            /\ Len(dbs) > 1 => \A j \in Holders(dbs, files, names) : j = i
    <2>1. CASE Len(dbs) = 1
      <3>1. target = dbs[1].path
        BY <1>2, <2>1 DEF TargetRelPath
      <3> QED
        BY <1>3, <2>1, <3>1
    <2>2. CASE Len(dbs) # 1
      <3>1. Len(dbs) > 1
        BY <1>3, <2>2
      <3>2. target = RoutedBy(dbs, files, names)
        BY <1>2, <2>2, <3>1 DEF TargetRelPath, names
      <3>3. SafePath(target) # NoTarget
        BY <1>2
      <3>4. target # NoTarget
        BY <1>2
      <3> HIDE DEF target
      <3>5. \E i \in DOMAIN dbs : OnlyEntry(dbs, files, names, target, i)
        BY <1>1, <3>2, <3>3, <3>4, RoutedToTheOnly
      <3> HIDE DEF opened
      <3> QED
        BY <1>2, <3>5 DEF OnlyEntry
    <2> QED
      BY <2>1, <2>2
  <1> HIDE DEF target, opened
  <1>5. Len(dbs) > 1 => \A j \in Holders(dbs, files, names) : SafePath(dbs[j].path) = opened
    BY <1>2, <1>4
  <1>6. ASSUME call.agent, NEW j \in DOMAIN dbs, dbs[j].blocked, SafePath(dbs[j].path) = opened
        PROVE  FALSE
    <2>1. j = i
      BY <1>4, <1>6
    <2>2. \A k \in 1 .. i - 1 : dbs[k].path # target
      <3> SUFFICES ASSUME NEW k \in 1 .. i - 1, dbs[k].path = target PROVE FALSE
        OBVIOUS
      <3>1. k \in DOMAIN dbs /\ k # i
        BY <1>3
      <3> QED
        BY <1>2, <1>4, <3>1
    <2>3. Blocked(dbs, target)
      BY <1>4, <1>6, <2>1, <2>2 DEF Blocked
    <2> QED
      BY <1>2, <1>6, <2>3
  <1> QED
    BY <1>5, <1>6

-----------------------------------------------------------------------------
(* The allowlist of the security scan. *)

\* A file of any segments, whose symbols are in a set without the slash, and any
\* allowlisted text.
ScanInput(Symbols) ==
    [ kind : {"scan"}, file : Seq(Seq(Symbols)) \ {<<>>}, ignored : Seq(Symbols \cup {"/"}) ]

\* The texts a path is written by, segment by segment.
IsWriting(path, text) ==
    text = [i \in 0 .. Len(path) |->
               IF i = 0 THEN <<>> ELSE IF i = 1 THEN path[1] ELSE text[i - 1] \o <<"/">> \o path[i]]

\* Two paths begin alike, so far.
Alike(p, q, n) ==
    0 .. n \subseteq 0 .. Len(p) /\ 0 .. n \subseteq 0 .. Len(q) /\ \A i \in 1 .. n : p[i] = q[i]

\* Paths that begin alike are written alike so far.
LEMMA SameWriting ==
    ASSUME NEW p, NEW q, NEW n \in Nat, Alike(p, q, n),
           NEW f, IsWriting(p, f), NEW g, IsWriting(q, g)
    PROVE  \A i \in 0 .. n : f[i] = g[i]
  <1> DEFINE S == {i \in 0 .. n : f[i] = g[i]}
  <1>1. \A i \in 0 .. n :
            /\ f[i] = IF i = 0 THEN <<>> ELSE IF i = 1 THEN p[1] ELSE f[i - 1] \o <<"/">> \o p[i]
            /\ g[i] = IF i = 0 THEN <<>> ELSE IF i = 1 THEN q[1] ELSE g[i - 1] \o <<"/">> \o q[i]
    <2>1. \A i \in 0 .. n : i \in 0 .. Len(p) /\ i \in 0 .. Len(q)
      BY DEF Alike
    <2> QED
      BY <2>1 DEF IsWriting
  <1>2. 0 \in S
    BY <1>1
  <1>3. \A i \in 0 .. n - 1 : i \in S => i + 1 \in S
    <2> SUFFICES ASSUME NEW i \in 0 .. n - 1, i \in S PROVE i + 1 \in S
      OBVIOUS
    <2>1. i + 1 \in 0 .. n /\ i + 1 \in 1 .. n /\ i + 1 # 0 /\ i + 1 - 1 = i
      OBVIOUS
    <2>2. p[i + 1] = q[i + 1] /\ f[i] = g[i]
      BY <2>1 DEF Alike
    <2>6. i + 1 = 1 => p[1] = q[1]
      BY <2>2
    <2>3. f[i + 1] = IF i + 1 = 1 THEN p[1] ELSE f[i] \o <<"/">> \o p[i + 1]
      BY <1>1, <2>1
    <2>4. g[i + 1] = IF i + 1 = 1 THEN q[1] ELSE g[i] \o <<"/">> \o q[i + 1]
      BY <1>1, <2>1
    <2>5. f[i + 1] = g[i + 1]
      BY <2>1, <2>2, <2>3, <2>4, <2>6
    <2> QED
      BY <2>1, <2>5
  <1>4. \A i \in 0 .. n : i \in S
    <2> HIDE DEF S
    <2> QED
      BY <1>2, <1>3, UpTo
  <1> QED
    BY <1>4

\* The function Written is defined by exists.
LEMMA WrittenIs ==
    ASSUME NEW Symbols, NEW p \in Seq(Seq(Symbols))
    PROVE  \E f \in [0 .. Len(p) -> Seq(Symbols \cup {"/"})] :
               IsWriting(p, f) /\ Written(p) = f[Len(p)]
  <1> DEFINE n == Len(p)
             T == Seq(Symbols \cup {"/"})
             step == [x \in (1 .. n) \X T |->
                         IF x[1] = 1 THEN p[1] ELSE x[2] \o <<"/">> \o p[x[1]]]
  <1>1. n \in Nat /\ <<>> \in T /\ \A i \in 1 .. n : p[i] \in T
    <2>1. \A s \in Seq(Symbols) : s \in T
      <3>1. Symbols \subseteq Symbols \cup {"/"}
        OBVIOUS
      <3> QED
        BY <3>1, SeqDef
    <2>2. n \in Nat /\ <<>> \in T /\ \A i \in 1 .. n : p[i] \in Seq(Symbols)
      OBVIOUS
    <2> QED
      BY <2>1, <2>2
  <1>2. /\ step \in [(1 .. n) \X T -> T]
        /\ \A i \in 1 .. n, s \in T :
              step[<<i, s>>] = IF i = 1 THEN p[1] ELSE s \o <<"/">> \o p[i]
    <2>1. \A i \in 1 .. n, s \in T : s \o <<"/">> \o p[i] \in T
      <3> SUFFICES ASSUME NEW i \in 1 .. n, NEW s \in T PROVE s \o <<"/">> \o p[i] \in T
        OBVIOUS
      <3>1. <<"/">> \in T /\ p[i] \in T
        BY <1>1
      <3> QED
        BY <3>1
    <2> HIDE DEF T
    <2>2. 1 \in 1 .. n \/ 1 .. n = {}
      BY <1>1
    <2>3. \A x \in (1 .. n) \X T :
              (IF x[1] = 1 THEN p[1] ELSE x[2] \o <<"/">> \o p[x[1]]) \in T
      BY <1>1, <2>1, <2>2
    <2>4. \A i \in 1 .. n, s \in T : <<i, s>> \in (1 .. n) \X T
      OBVIOUS
    <2> QED
      BY <2>3, <2>4
  <1> HIDE DEF step
  <1>3. PICK g \in [0 .. n -> T] :
            \A i \in 0 .. n : g[i] = IF i = 0 THEN <<>> ELSE step[<<i, g[i - 1]>>]
    <2>1. PICK g \in [0 .. n -> T] : Steps(g, n, <<>>, step)
      <3> HIDE DEF n, T
      <3> QED
        BY <1>1, <1>2, StepsHaveAFunction
    <2> QED
      BY <2>1 DEF Steps
  <1>4. IsWriting(p, g)
    <2>1. ASSUME NEW i \in 0 .. n, i # 0
          PROVE  g[i] = IF i = 1 THEN p[1] ELSE g[i - 1] \o <<"/">> \o p[i]
      <3>1. i \in 1 .. n /\ i - 1 \in 0 .. n
        BY <2>1
      <3>2. g[i - 1] \in T /\ g[i] = step[<<i, g[i - 1]>>]
        BY <1>3, <2>1, <3>1
      <3> HIDE DEF T
      <3> QED
        BY <1>2, <3>1, <3>2
    <2>2. g[0] = <<>>
      <3>1. 0 \in 0 .. n
        BY <1>1
      <3> QED
        BY <1>3, <3>1
    <2> HIDE DEF T
    <2> QED
      BY <2>1, <2>2 DEF IsWriting
  <1> DEFINE text == CHOOSE h : IsWriting(p, h)
  <1>5. IsWriting(p, text)
    BY <1>4
  <1>6. Written(p) = text[n]
    BY DEF Written, IsWriting
  <1> HIDE DEF text
  <1>7. \A i \in 0 .. n : text[i] = g[i]
    <2>1. Alike(p, p, n)
      BY DEF Alike
    <2> QED
      BY <1>1, <1>4, <1>5, <2>1, SameWriting
  <1>8. text \in [0 .. n -> T]
    <2> HIDE DEF T
    <2> QED
      BY <1>5, <1>7 DEF IsWriting
  <1> QED
    BY <1>5, <1>6, <1>8

\* How a path is written that another begins with.
LEMMA WrittenAlike ==
    ASSUME NEW Symbols, NEW p \in Seq(Seq(Symbols)), NEW q \in Seq(Seq(Symbols)),
           Len(q) <= Len(p), \A i \in 1 .. Len(q) : p[i] = q[i], NEW f, IsWriting(p, f)
    PROVE  Written(q) = f[Len(q)]
  <1>1. PICK g \in [0 .. Len(q) -> Seq(Symbols \cup {"/"})] : IsWriting(q, g) /\ Written(q) = g[Len(q)]
    BY WrittenIs
  <1> DEFINE n == Len(q)
  <1>2. n \in Nat /\ Len(p) \in Nat /\ n <= Len(p) /\ n \in 0 .. n
    OBVIOUS
  <1>3. Alike(p, q, n)
    <2>1. 0 .. n \subseteq 0 .. Len(p)
      <3> HIDE DEF n
      <3> QED
        BY <1>2
    <2> QED
      BY <2>1 DEF Alike
  <1> HIDE DEF n
  <1>4. \A i \in 0 .. n : f[i] = g[i]
    BY <1>1, <1>2, <1>3, SameWriting
  <1> QED
    BY <1>1, <1>2, <1>4 DEF n

\* Facts of concatenation.
LEMMA ConcatFacts ==
    ASSUME NEW X, NEW a \in Seq(X), NEW b \in Seq(X)
    PROVE  /\ a \o b \in Seq(X) /\ Len(a \o b) = Len(a) + Len(b)
           /\ \A i \in 1 .. Len(a) : (a \o b)[i] = a[i]
           /\ \A i \in 1 .. Len(b) : (a \o b)[Len(a) + i] = b[i]
           /\ \A m \in 0 .. Len(a) : SubSeq(a \o b, 1, m) = SubSeq(a, 1, m)
  <1>1. /\ a \o b \in Seq(X) /\ Len(a \o b) = Len(a) + Len(b)
        /\ \A i \in 1 .. Len(a) : (a \o b)[i] = a[i]
        /\ \A i \in 1 .. Len(b) : (a \o b)[Len(a) + i] = b[i]
    OBVIOUS
  <1>2. ASSUME NEW m \in 0 .. Len(a) PROVE SubSeq(a \o b, 1, m) = SubSeq(a, 1, m)
    <2> DEFINE c == a \o b
               u == SubSeq(c, 1, m)
               v == SubSeq(a, 1, m)
    <2>1. /\ c \in Seq(X) /\ Len(c) = Len(a) + Len(b) /\ \A i \in 1 .. Len(a) : c[i] = a[i]
          /\ Len(a) \in Nat /\ Len(b) \in Nat
      BY <1>1
    <2> HIDE DEF c
    <2>2. m \in 0 .. Len(c) /\ \A i \in 1 .. m : i \in 1 .. Len(a)
      BY <2>1
    <2>3. u \in Seq(X) /\ Len(u) = m /\ \A i \in 1 .. m : u[i] = c[i]
      BY <2>1, <2>2, PrefixFacts
    <2>4. v \in Seq(X) /\ Len(v) = m /\ \A i \in 1 .. m : v[i] = a[i]
      BY PrefixFacts
    <2> HIDE DEF u, v
    <2>5. \A i \in 1 .. Len(u) : u[i] = v[i]
      BY <2>1, <2>2, <2>3, <2>4
    <2>6. u = v
      BY <2>3, <2>4, <2>5, SeqEqual
    <2> QED
      BY <2>6 DEF u, v, c
  <1> QED
    BY <1>1, <1>2

\* A slash between two texts, the second without one.
LEMMA SlashBetween ==
    ASSUME NEW Symbols, "/" \notin Symbols,
           NEW a \in Seq(Symbols \cup {"/"}), NEW s \in Seq(Symbols),
           NEW c, c = a \o <<"/">> \o s
    PROVE  /\ \A q \in 1 .. Len(a) : c[q] = a[q] /\ SubSeq(c, 1, q - 1) = SubSeq(a, 1, q - 1)
           /\ SubSeq(c, 1, Len(a)) = a /\ Len(a) \in Nat
           /\ \A q \in 1 .. Len(c) : q > Len(a) /\ c[q] = "/" => q - 1 = Len(a)
  <1> DEFINE Y == Symbols \cup {"/"}
             slash == <<"/">>
             l == Len(a)
             b == a \o slash
  <1>1. a \in Seq(Y) /\ slash \in Seq(Y) /\ Len(slash) = 1 /\ slash[1] = "/" /\ l \in Nat
    OBVIOUS
  <1>2. s \in Seq(Y) /\ Len(s) \in Nat /\ \A q \in 1 .. Len(s) : s[q] # "/"
    <2>1. Symbols \subseteq Y
      OBVIOUS
    <2> HIDE DEF Y
    <2> QED
      BY <2>1, SeqDef
  <1>3. c = b \o s
    OBVIOUS
  <1> HIDE DEF Y, slash, b
  <1>4. /\ b \in Seq(Y) /\ Len(b) = l + 1
        /\ \A q \in 1 .. l : b[q] = a[q]
        /\ \A m \in 0 .. l : SubSeq(b, 1, m) = SubSeq(a, 1, m)
    <2>1. /\ a \o slash \in Seq(Y) /\ Len(a \o slash) = Len(a) + Len(slash)
          /\ \A i \in 1 .. Len(a) : (a \o slash)[i] = a[i]
          /\ \A m \in 0 .. Len(a) : SubSeq(a \o slash, 1, m) = SubSeq(a, 1, m)
      BY <1>1, ConcatFacts, ZenonT(60)
    <2> QED
      BY <1>1, <2>1 DEF b
  <1>5. /\ c \in Seq(Y) /\ Len(c) = l + 1 + Len(s)
        /\ \A q \in 1 .. Len(b) : c[q] = b[q]
        /\ \A q \in 1 .. Len(s) : c[Len(b) + q] = s[q]
        /\ \A m \in 0 .. Len(b) : SubSeq(c, 1, m) = SubSeq(b, 1, m)
    <2>1. /\ b \o s \in Seq(Y) /\ Len(b \o s) = Len(b) + Len(s)
          /\ \A i \in 1 .. Len(b) : (b \o s)[i] = b[i]
          /\ \A i \in 1 .. Len(s) : (b \o s)[Len(b) + i] = s[i]
          /\ \A m \in 0 .. Len(b) : SubSeq(b \o s, 1, m) = SubSeq(b, 1, m)
      BY <1>2, <1>4, ConcatFacts, ZenonT(60)
    <2> QED
      BY <1>3, <1>4, <2>1
  <1>6. SubSeq(a, 1, l) = a
    BY <1>1, PrefixFacts
  <1> HIDE DEF l
  <1>7. ASSUME NEW q \in 1 .. l PROVE c[q] = a[q] /\ SubSeq(c, 1, q - 1) = SubSeq(a, 1, q - 1)
    <2>1. q \in 1 .. Len(b) /\ q - 1 \in 0 .. l /\ q - 1 \in 0 .. Len(b)
      BY <1>1, <1>4
    <2> QED
      BY <1>4, <1>5, <2>1
  <1>8. SubSeq(c, 1, l) = a
    <2>1. l \in 0 .. l /\ l \in 0 .. Len(b)
      BY <1>1, <1>4
    <2> QED
      BY <1>4, <1>5, <1>6, <2>1
  <1>9. ASSUME NEW q \in 1 .. Len(c), q > l, c[q] = "/" PROVE q - 1 = l
    <2>1. CASE q = l + 1
      BY <1>1, <2>1
    <2>2. CASE q # l + 1
      <3> DEFINE r == q - Len(b)
      <3>1. r \in 1 .. Len(s) /\ Len(b) + r = q
        BY <1>1, <1>2, <1>4, <1>5, <1>9, <2>2
      <3> HIDE DEF r
      <3>2. c[q] = s[r]
        BY <1>5, <3>1
      <3> QED
        BY <1>2, <1>9, <3>1, <3>2
    <2> QED
      BY <2>1, <2>2
  <1> QED
    BY <1>1, <1>7, <1>8, <1>9 DEF l

\* What is before a slash of a written path is a directory of it, written.
LEMMA SlashesSeparate ==
    ASSUME NEW Symbols, "/" \notin Symbols, NEW p \in Seq(Seq(Symbols)), p # <<>>,
           NEW at \in 1 .. Len(Written(p)), Written(p)[at] = "/"
    PROVE  \E d \in SelfAndParents(p) : Written(d) = SubSeq(Written(p), 1, at - 1)
  <1> DEFINE n == Len(p)
             Y == Symbols \cup {"/"}
  <1>1. n \in Nat /\ n # 0 /\ n - 1 \in Nat /\ 0 \in 0 .. n - 1
    OBVIOUS
  <1>9. PICK f \in [0 .. n -> Seq(Y)] : IsWriting(p, f) /\ Written(p) = f[n]
    BY WrittenIs
  <1> DEFINE Cut(i) == \A q \in 1 .. Len(f[i]) : f[i][q] = "/" =>
                           \E k \in 1 .. n : SubSeq(f[i], 1, q - 1) = f[k]
             S == {i \in 0 .. n - 1 : Cut(i + 1)}
  <1>2. \A i \in 0 .. n : f[i] = IF i = 0 THEN <<>> ELSE IF i = 1 THEN p[1]
                                 ELSE f[i - 1] \o <<"/">> \o p[i]
    BY <1>9 DEF IsWriting
  <1>3. \A s \in Seq(Symbols) : s \in Seq(Y) /\ \A q \in 1 .. Len(s) : s[q] # "/"
    <2>1. Symbols \subseteq Y
      OBVIOUS
    <2> HIDE DEF Y
    <2> QED
      BY <2>1, SeqDef
  <1>4. 0 \in S
    <2>1. 1 \in 0 .. n /\ 1 \in 1 .. n
      BY <1>1
    <2>2. f[1] = p[1]
      <3> HIDE DEF n
      <3>1. f[1] = IF 1 = 0 THEN <<>> ELSE IF 1 = 1 THEN p[1] ELSE f[1 - 1] \o <<"/">> \o p[1]
        BY <1>2, <2>1, Zenon
      <3> QED
        BY <3>1
    <2>3. p[1] \in Seq(Symbols)
      BY <2>1
    <2> QED
      BY <1>1, <1>3, <2>2, <2>3
  <1>5. ASSUME NEW i \in 0 .. n - 1 - 1, i \in S PROVE i + 1 \in S
    <2> DEFINE a == f[i + 1]
               b == <<"/">> \o p[i + 2]
               c == f[i + 2]
    <2>1. /\ i + 2 \in 0 .. n /\ i + 1 \in 0 .. n /\ i + 1 \in 1 .. n /\ i + 2 \in 1 .. n
          /\ i + 2 # 0 /\ i + 2 # 1 /\ i + 2 - 1 = i + 1 /\ i + 1 \in 0 .. n - 1 /\ i + 1 + 1 = i + 2
      BY <1>1
    <2>2. a \in Seq(Y) /\ p[i + 2] \in Seq(Symbols)
      <3>1. a \in Seq(Y)
        BY <2>1
      <3>2. p[i + 2] \in Seq(Symbols)
        BY <2>1
      <3> QED
        BY <3>1, <3>2
    <2>3. c = a \o <<"/">> \o p[i + 2]
      <3> DEFINE j == i + 2
      <3>1. j \in 0 .. n /\ j # 0 /\ j # 1 /\ j - 1 = i + 1
        BY <2>1
      <3> HIDE DEF j, n
      <3>2. f[j] = f[j - 1] \o <<"/">> \o p[j]
        BY <1>2, <3>1, Zenon
      <3>3. f[j] = f[i + 1] \o <<"/">> \o p[j]
        BY <3>1, <3>2, Zenon
      <3> QED
        BY <3>3 DEF j
    <2> DEFINE s == p[i + 2]
    <2>4. s \in Seq(Symbols) /\ c = a \o <<"/">> \o s
      BY <2>2, <2>3
    <2>5. Cut(i + 1)
      BY <1>5
    <2>9. n \in Nat /\ i + 1 \in 1 .. n /\ a = f[i + 1]
      BY <1>1, <2>1
    <2> HIDE DEF a, c, s, n
    <2>8. /\ \A q \in 1 .. Len(a) : c[q] = a[q] /\ SubSeq(c, 1, q - 1) = SubSeq(a, 1, q - 1)
          /\ SubSeq(c, 1, Len(a)) = a /\ Len(a) \in Nat
          /\ \A q \in 1 .. Len(c) : q > Len(a) /\ c[q] = "/" => q - 1 = Len(a)
      BY <2>2, <2>4, SlashBetween, SMTT(60)
    <2>6. ASSUME NEW q \in 1 .. Len(c), c[q] = "/"
          PROVE  \E k \in 1 .. n : SubSeq(c, 1, q - 1) = f[k]
      <3>1. CASE q <= Len(a)
        <4>1. q \in 1 .. Len(a)
          BY <2>8, <3>1
        <4>2. a[q] = "/"
          BY <2>6, <2>8, <4>1
        <4>3. PICK k \in 1 .. n : SubSeq(a, 1, q - 1) = f[k]
          BY <2>5, <2>9, <4>1, <4>2
        <4> QED
          BY <2>8, <4>1, <4>3
      <3>2. CASE q > Len(a)
        <4>1. q - 1 = Len(a)
          BY <2>6, <2>8, <3>2
        <4>2. SubSeq(c, 1, q - 1) = f[i + 1]
          BY <2>8, <2>9, <4>1
        <4> QED
          BY <2>9, <4>2
      <3> QED
        BY <2>8, <3>1, <3>2
    <2>7. Cut(i + 1 + 1)
      BY <2>1, <2>6 DEF c
    <2> QED
      BY <2>1, <2>7
  <1>6. n - 1 \in S
    <2>1. \A i \in 0 .. n - 1 - 1 : i \in S => i + 1 \in S
      BY <1>5
    <2>2. n - 1 \in 0 .. n - 1
      BY <1>1
    <2> HIDE DEF S, n
    <2> QED
      BY <1>1, <1>4, <2>1, <2>2, UpTo
  <1>7. Cut(n)
    <2>1. n - 1 + 1 = n
      BY <1>1
    <2> QED
      BY <1>6, <2>1
  <1>8. PICK k \in 1 .. n : SubSeq(Written(p), 1, at - 1) = f[k]
    BY <1>7, <1>9
  <1> DEFINE d == SubSeq(p, 1, k)
  <1>10. d \in Seq(Seq(Symbols)) /\ Len(d) = k /\ \A i \in 1 .. k : d[i] = p[i]
    <2>1. k \in 0 .. Len(p)
      BY <1>1
    <2> QED
      BY <2>1, PrefixFacts
  <1>11. d \in SelfAndParents(p)
    BY DEF SelfAndParents
  <1> HIDE DEF d
  <1>12. Written(d) = f[k]
    <2>1. Len(d) <= Len(p) /\ \A i \in 1 .. Len(d) : p[i] = d[i]
      BY <1>1, <1>10
    <2> QED
      BY <1>9, <1>10, <2>1, WrittenAlike
  <1> QED
    BY <1>8, <1>11, <1>12

\* A path that an allowlisted text lets through is in a directory of that name,
\* or is named itself.
LEMMA AllowedIsBelow ==
    ASSUME NEW Symbols, "/" \notin Symbols, NEW p \in Seq(Seq(Symbols)), p # <<>>,
           NEW ignored \in Seq(Symbols \cup {"/"}), IsAllowed(p, {ignored})
    PROVE  \E d \in SelfAndParents(p) : Written(d) = ignored
  <1> DEFINE n == Len(p)
             Y == Symbols \cup {"/"}
  <1>1. /\ p \in Seq(Seq(Symbols)) /\ p # <<>> /\ ignored \in Seq(Y)
        /\ n \in Nat /\ n # 0 /\ n \in 1 .. n /\ "/" \in Y
    OBVIOUS
  <1> HIDE DEF Y
  <1>2. IsAllowed(p, {ignored})
    OBVIOUS
  <1>3. Written(p) \in Seq(Y)
    <2>1. n \in 0 .. n
      BY <1>1
    <2>2. PICK f \in [0 .. n -> Seq(Y)] : IsWriting(p, f) /\ Written(p) = f[n]
      BY <1>1, WrittenIs DEF Y
    <2> QED
      BY <2>1, <2>2
  <1>4. CASE Written(p) = ignored
    <2>1. p = SubSeq(p, 1, n) /\ n \in 1 .. Len(p)
      BY <1>1, PrefixFacts
    <2>2. p \in SelfAndParents(p)
      BY <2>1 DEF SelfAndParents
    <2> QED
      BY <1>4, <2>2
  <1>5. CASE BeginsWith(Written(p), ignored \o <<"/">>)
    <2> DEFINE text == Written(p)
               start == ignored \o <<"/">>
               q == Len(start)
    <2>1. text \in Seq(Y) /\ text = Written(p)
      BY <1>3
    <2>2. <<"/">> \in Seq(Y) /\ Len(<<"/">>) = 1 /\ <<"/">>[1] = "/" /\ 1 \in 1 .. 1
      BY <1>1
    <2>3. /\ start \in Seq(Y) /\ q = Len(ignored) + 1 /\ start[Len(ignored) + 1] = "/"
          /\ SubSeq(start, 1, Len(ignored)) = SubSeq(ignored, 1, Len(ignored))
      <3>1. /\ start \in Seq(Y) /\ Len(start) = Len(ignored) + Len(<<"/">>)
            /\ \A i \in 1 .. Len(<<"/">>) : start[Len(ignored) + i] = <<"/">>[i]
            /\ \A m \in 0 .. Len(ignored) : SubSeq(start, 1, m) = SubSeq(ignored, 1, m)
        BY <1>1, <2>2, ConcatFacts
      <3>2. Len(ignored) \in 0 .. Len(ignored)
        BY <1>1
      <3> QED
        BY <2>2, <3>1, <3>2
    <2>4. q <= Len(text) /\ SubSeq(text, 1, q) = start
      BY <1>5 DEF BeginsWith
    <2> HIDE DEF start, text
    <2>5. Len(ignored) \in Nat /\ Len(text) \in Nat
      BY <1>1, <2>1
    <2> DEFINE l == Len(ignored)
    <2>6. q \in 1 .. Len(text) /\ q - 1 = l /\ l \in 0 .. q /\ q \in 0 .. Len(text) /\ l \in 0 .. l
          /\ q \in 1 .. q
      <3> HIDE DEF l, q
      <3> QED
        BY <2>3, <2>4, <2>5 DEF l
    <2>7. text[q] = "/"
      BY <2>1, <2>3, <2>4, <2>6, PrefixFacts
    <2>8. SubSeq(text, 1, q - 1) = ignored
      <3>1. SubSeq(SubSeq(text, 1, q), 1, l) = SubSeq(text, 1, l)
        BY <2>1, <2>6, PrefixFacts
      <3>2. SubSeq(ignored, 1, l) = ignored
        BY <1>1, <2>6, PrefixFacts
      <3> QED
        BY <2>3, <2>4, <2>6, <3>1, <3>2
    <2>9. q \in 1 .. Len(Written(p)) /\ Written(p)[q] = "/" /\ SubSeq(Written(p), 1, q - 1) = ignored
      BY <2>1, <2>6, <2>7, <2>8
    <2> HIDE DEF q
    <2> QED
      BY <1>1, <2>9, SlashesSeparate
  <1> QED
    BY <1>2, <1>4, <1>5 DEF IsAllowed

\* A dangerous file that is let through is in a directory that the allowlist
\* names, or is named itself; its segments may be any, as long as none holds a
\* slash (is_ignored, scan_file_list).
THEOREM AllowlistIsNarrowCorrect ==
    ASSUME NEW Symbols, "/" \notin Symbols, input \in ScanInput(Symbols)
    PROVE  AllowlistIsNarrow
  <1> DEFINE p == input.file
             ignored == input.ignored
  <1>1. p \in Seq(Seq(Symbols)) /\ p # <<>> /\ ignored \in Seq(Symbols \cup {"/"})
    BY DEF ScanInput
  <1> SUFFICES ASSUME IsDangerousPath(p), ScanFileList({p}, {ignored}) # {p}
               PROVE  \E d \in SelfAndParents(p) : Written(d) = ignored
    BY DEF AllowlistIsNarrow
  <1> HIDE DEF p, ignored
  <1>2. IsAllowed(p, {ignored})
    BY DEF ScanFileList
  <1> QED
    BY <1>1, <1>2, AllowedIsBelow

-----------------------------------------------------------------------------
(* What ships                                                                *)

\* What one more segment of a pattern can stand for, after so many of a path.
GlobStep(pattern, path, i, before) ==
    IF pattern[i] = Globstar
    THEN UNION {(IF i = Len(pattern) THEN n + 1 ELSE n) .. Len(path) : n \in before}
    ELSE {n + 1 : n \in {n \in before : n < Len(path) /\ SegmentMatches(pattern[i], path[n + 1])}}

\* A step stays on the path, and comes from somewhere before.
LEMMA GlobStepIs ==
    ASSUME NEW pattern, NEW path, Len(path) \in Nat, NEW i, NEW before \in SUBSET (0 .. Len(path))
    PROVE  /\ GlobStep(pattern, path, i, before) \in SUBSET (0 .. Len(path))
           /\ \A n \in GlobStep(pattern, path, i, before) : \E m \in before :
                 IF pattern[i] = Globstar
                 THEN (IF i = Len(pattern) THEN m + 1 ELSE m) <= n
                 ELSE n = m + 1 /\ m < Len(path) /\ SegmentMatches(pattern[i], path[m + 1])
  <1> DEFINE Q == Len(path)
             P(n) == n < Q /\ SegmentMatches(pattern[i], path[n + 1])
             lo(n) == IF i = Len(pattern) THEN n + 1 ELSE n
  <1>1. \A n \in before : n \in 0 .. Q /\ lo(n) \in Nat
    OBVIOUS
  <1>2. CASE pattern[i] = Globstar
    <2>1. GlobStep(pattern, path, i, before) = UNION {lo(n) .. Q : n \in before}
      BY <1>2 DEF GlobStep
    <2> HIDE DEF lo
    <2>2. ASSUME NEW n \in UNION {lo(m) .. Q : m \in before}
          PROVE  n \in 0 .. Q /\ \E m \in before : lo(m) <= n
      <3>1. PICK m \in before : n \in lo(m) .. Q
        OBVIOUS
      <3> QED
        BY <1>1, <3>1
    <2> QED
      BY <1>2, <2>1, <2>2 DEF lo
  <1>3. CASE pattern[i] # Globstar
    <2>1. GlobStep(pattern, path, i, before) = {n + 1 : n \in {n \in before : P(n)}}
      BY <1>3 DEF GlobStep
    <2>2. ASSUME NEW n \in {n + 1 : n \in {n \in before : P(n)}}
          PROVE  n \in 0 .. Q /\ \E m \in before : n = m + 1 /\ P(m)
      <3>1. PICK m \in {m \in before : P(m)} : n = m + 1
        OBVIOUS
      <3>2. m \in before /\ P(m)
        BY <3>1
      <3> QED
        BY <1>1, <3>1, <3>2
    <2> QED
      BY <1>3, <2>1, <2>2
  <1> QED
    BY <1>2, <1>3

\* The function GlobMatches is defined by.
IsReach(pattern, path, reach) ==
    reach = [i \in 0 .. Len(pattern) |->
                IF i = 0 THEN {0} ELSE GlobStep(pattern, path, i, reach[i - 1])]

\* It exists.
LEMMA GlobReach ==
    ASSUME NEW pattern, NEW path, Len(pattern) \in Nat, Len(path) \in Nat
    PROVE  \E reach \in [0 .. Len(pattern) -> SUBSET (0 .. Len(path))] :
               /\ IsReach(pattern, path, reach)
               /\ GlobMatches(pattern, path) <=> Len(path) \in reach[Len(pattern)]
  <1> DEFINE N == Len(pattern)
             T == SUBSET (0 .. Len(path))
             step == [x \in (1 .. N) \X T |-> GlobStep(pattern, path, x[1], x[2])]
  <1>1. N \in Nat /\ {0} \in T
    OBVIOUS
  <1>2. /\ step \in [(1 .. N) \X T -> T]
        /\ \A i \in 1 .. N, s \in T : step[<<i, s>>] = GlobStep(pattern, path, i, s)
    <2>1. \A i \in 1 .. N, s \in T : GlobStep(pattern, path, i, s) \in T
      BY GlobStepIs
    <2> HIDE DEF T
    <2>2. \A x \in (1 .. N) \X T : GlobStep(pattern, path, x[1], x[2]) \in T
      BY <2>1
    <2>3. \A i \in 1 .. N, s \in T : <<i, s>> \in (1 .. N) \X T
      OBVIOUS
    <2> QED
      BY <2>2, <2>3
  <1> HIDE DEF step
  <1>3. PICK g \in [0 .. N -> T] : Steps(g, N, {0}, step)
    <2> HIDE DEF N, T
    <2> QED
      BY <1>1, <1>2, StepsHaveAFunction
  <1>4. IsReach(pattern, path, g)
    <2>1. \A i \in 0 .. N : g[i] = IF i = 0 THEN {0} ELSE GlobStep(pattern, path, i, g[i - 1])
      <3> SUFFICES ASSUME NEW i \in 0 .. N
                   PROVE  g[i] = IF i = 0 THEN {0} ELSE GlobStep(pattern, path, i, g[i - 1])
        OBVIOUS
      <3>1. g[i] = IF i = 0 THEN {0} ELSE step[<<i, g[i - 1]>>]
        BY <1>3 DEF Steps
      <3>2. i # 0 => i \in 1 .. N /\ i - 1 \in 0 .. N
        BY <1>1
      <3> HIDE DEF T, N
      <3>3. i # 0 => g[i - 1] \in T
        BY <3>2
      <3> QED
        BY <1>2, <3>1, <3>2, <3>3
    <2> HIDE DEF T
    <2> QED
      BY <2>1 DEF IsReach
  <1> DEFINE reach == CHOOSE h : IsReach(pattern, path, h)
  <1>5. IsReach(pattern, path, reach)
    BY <1>4
  <1>6. GlobMatches(pattern, path) <=> Len(path) \in reach[N]
    BY DEF GlobMatches, IsReach, GlobStep
  <1> HIDE DEF reach
  <1>7. \A i \in 0 .. N : reach[i] = g[i]
    <2> DEFINE S == {i \in 0 .. N : reach[i] = g[i]}
    <2>1. \A i \in 0 .. N :
              /\ reach[i] = IF i = 0 THEN {0} ELSE GlobStep(pattern, path, i, reach[i - 1])
              /\ g[i] = IF i = 0 THEN {0} ELSE GlobStep(pattern, path, i, g[i - 1])
      BY <1>4, <1>5 DEF IsReach
    <2>2. 0 \in S
      <3>1. 0 \in 0 .. N
        BY <1>1
      <3> QED
        BY <2>1, <3>1
    <2>3. \A i \in 0 .. N - 1 : i \in S => i + 1 \in S
      <3> SUFFICES ASSUME NEW i \in 0 .. N - 1, i \in S PROVE i + 1 \in S
        OBVIOUS
      <3>1. i + 1 \in 0 .. N /\ i + 1 # 0 /\ i + 1 - 1 = i
        BY <1>1
      <3> QED
        BY <2>1, <3>1
    <2> HIDE DEF S
    <2>4. \A i \in 0 .. N : i \in S
      BY <1>1, <2>2, <2>3, UpTo
    <2> QED
      BY <2>4 DEF S
  <1>8. reach \in [0 .. N -> T]
    <2> HIDE DEF T
    <2> QED
      BY <1>5, <1>7 DEF IsReach
  <1> QED
    BY <1>5, <1>6, <1>8

\* How far a pattern reaches that has matched the segments so far one by one,
\* and that no globstar is met in.
OneByOne(pattern, path, reach, i) ==
    i <= Len(pattern) /\ Agrees(pattern, path, i) /\ reach[i] \subseteq {i}

\* A pattern of one segment that is no globstar.
LEMMA OneSegment ==
    ASSUME NEW X, NEW s \in X, NEW t \in X, s # Globstar, SegmentMatches(s, t), Hidden(t) => Hidden(s)
    PROVE  Matches(<<s>>, <<t>>)
  <1>1. PICK reach \in [0 .. Len(<<s>>) -> SUBSET (0 .. Len(<<t>>))] :
            /\ IsReach(<<s>>, <<t>>, reach)
            /\ GlobMatches(<<s>>, <<t>>) <=> Len(<<t>>) \in reach[Len(<<s>>)]
    BY GlobReach
  <1>2. Len(<<s>>) = 1 /\ Len(<<t>>) = 1 /\ <<s>>[1] = s /\ <<t>>[1] = t
    OBVIOUS
  <1>3. reach[0] = {0} /\ reach[1] = GlobStep(<<s>>, <<t>>, 1, reach[1 - 1])
    BY <1>1, <1>2 DEF IsReach
  <1>4. reach[1] = {n + 1 : n \in {n \in {0} : n < 1 /\ SegmentMatches(s, <<t>>[n + 1])}}
    BY <1>2, <1>3 DEF GlobStep
  <1>5. 1 \in reach[1]
    BY <1>2, <1>4
  <1>6. GlobMatches(<<s>>, <<t>>)
    BY <1>1, <1>2, <1>5
  <1>7. \A i \in DOMAIN <<t>> : <<t>>[i] = t /\ <<s>>[i] = s
    OBVIOUS
  <1> QED
    BY <1>6, <1>7 DEF Matches

\* Where nothing is reached, nothing is reached later.
LEMMA Stuck ==
    ASSUME NEW pattern, NEW path, NEW reach, Len(pattern) \in Nat, Len(path) \in Nat,
           IsReach(pattern, path, reach), NEW k \in 0 .. Len(pattern), reach[k] = {}
    PROVE  reach[Len(pattern)] = {}
  <1> DEFINE P == Len(pattern)
             S == {i \in 0 .. P - k : reach[k + i] = {}}
  <1>1. P \in Nat /\ P - k \in Nat /\ k + 0 = k /\ 0 \in 0 .. P - k /\ k + (P - k) = P /\ P - k \in 0 .. P - k
    OBVIOUS
  <1>2. 0 \in S
    BY <1>1
  <1>3. ASSUME NEW i \in 0 .. P - k - 1, i \in S PROVE i + 1 \in S
    <2>1. k + (i + 1) \in 0 .. P /\ k + (i + 1) # 0 /\ k + (i + 1) - 1 = k + i /\ i + 1 \in 0 .. P - k
      BY <1>1
    <2> DEFINE j == k + (i + 1)
    <2>2. reach[j] = GlobStep(pattern, path, j, reach[k + i])
      <3> HIDE DEF P
      <3> QED
        BY <2>1 DEF IsReach, P
    <2>3. GlobStep(pattern, path, j, {}) = {}
      BY DEF GlobStep
    <2> QED
      BY <1>3, <2>1, <2>2, <2>3
  <1>4. P - k \in S
    <2>1. \A i \in 0 .. P - k - 1 : i \in S => i + 1 \in S
      BY <1>3
    <2> HIDE DEF S, P
    <2> QED
      BY <1>1, <1>2, <2>1, UpTo
  <1> QED
    BY <1>1, <1>4

\* A directory leads to what a pattern matches in it, as long as no segment
\* is hidden from the pattern.
LEMMA Leads ==
    ASSUME NEW X, NEW pattern \in Seq(X), NEW path \in Seq(X), Matches(pattern, path), Plain(path),
           NEW d \in 1 .. Len(path) - 1
    PROVE  CouldContainMatch(pattern, SubSeq(path, 1, d))
  <1> DEFINE P == Len(pattern)
             Q == Len(path)
             dir == SubSeq(path, 1, d)
  <1>1. P \in Nat /\ Q \in Nat /\ d \in Nat /\ d < Q
    OBVIOUS
  <1>2. PICK reach \in [0 .. P -> SUBSET (0 .. Q)] :
            IsReach(pattern, path, reach) /\ Q \in reach[P]
    BY GlobReach DEF Matches
  <1>3. dir \in Seq(X) /\ Len(dir) = d /\ DOMAIN dir = 1 .. d /\ \A i \in 1 .. d : dir[i] = path[i]
    <2>1. d \in 0 .. Q
      BY <1>1
    <2>2. dir \in Seq(X) /\ Len(dir) = d /\ \A i \in 1 .. d : dir[i] = path[i]
      BY <2>1, PrefixFacts
    <2> QED
      BY <2>2
  <1> HIDE DEF dir
  <1> SUFFICES ASSUME ~IsBelowGlobstar(pattern, dir), ~(Agrees(pattern, dir, d) /\ d < P)
               PROVE  FALSE
    BY <1>3 DEF CouldContainMatch, dir
  <1> DEFINE S == {i \in 0 .. d : OneByOne(pattern, dir, reach, i)}
  <1>4. 0 \in S
    <2>1. reach[0] = {0}
      BY <1>1, <1>2 DEF IsReach
    <2> QED
      BY <1>1, <2>1 DEF OneByOne, Agrees
  <1>5. \A i \in 0 .. P : reach[i] # {}
    <2> HIDE DEF P, Q
    <2> QED
      BY <1>1, <1>2, Stuck DEF P, Q
  <1>6. ASSUME NEW i \in 0 .. d - 1, i \in S PROVE i + 1 \in S
    <2> DEFINE j == i + 1
    <2>1. j \in 1 .. d /\ j \in 0 .. d /\ j # 0 /\ j - 1 = i /\ i \in Nat /\ j \in Nat
      BY <1>1
    <2>2. i <= P /\ Agrees(pattern, dir, i) /\ reach[i] \subseteq {i}
      BY <1>6 DEF OneByOne
    <2>3. i # P
      BY <1>1, <1>2, <2>1, <2>2
    <2>4. j \in 1 .. P /\ j \in 0 .. P /\ j <= P
      BY <1>1, <2>1, <2>2, <2>3
    <2>5. pattern[j] # Globstar
      <3>1. j \in DOMAIN dir \cap DOMAIN pattern
        BY <1>3, <2>1, <2>4
      <3> HIDE DEF j
      <3> QED
        BY <2>1, <2>2, <3>1 DEF IsBelowGlobstar
    <2>6. reach[j] = GlobStep(pattern, path, j, reach[i])
      <3> HIDE DEF P, j
      <3> QED
        BY <1>2, <2>1, <2>4 DEF IsReach, P
    <2>7. reach[i] \in SUBSET (0 .. Q)
      <3>1. i \in 0 .. P
        BY <1>1, <2>1, <2>2
      <3> QED
        BY <1>2, <3>1
    <2>8. \A n \in reach[j] : n = j /\ SegmentMatches(pattern[j], path[j])
      <3>1. \A n \in reach[j] : \E m \in reach[i] :
                n = m + 1 /\ m < Q /\ SegmentMatches(pattern[j], path[m + 1])
        <4>1. Len(path) \in Nat /\ reach[i] \in SUBSET (0 .. Len(path))
          BY <1>1, <2>7
        <4> HIDE DEF j, Q
        <4>2. \A n \in GlobStep(pattern, path, j, reach[i]) : \E m \in reach[i] :
                  IF pattern[j] = Globstar
                  THEN (IF j = Len(pattern) THEN m + 1 ELSE m) <= n
                  ELSE n = m + 1 /\ m < Len(path) /\ SegmentMatches(pattern[j], path[m + 1])
          BY <4>1, GlobStepIs, Zenon
        <4> QED
          BY <2>5, <2>6, <4>2 DEF Q
      <3> QED
        BY <2>2, <3>1
    <2>9. SegmentMatches(pattern[j], path[j]) /\ reach[j] \subseteq {j}
      BY <1>5, <2>4, <2>8
    <2>10. Matches(<<pattern[j]>>, <<dir[j]>>)
      <3>1. j \in 1 .. Q /\ dir[j] = path[j] /\ pattern[j] \in X /\ path[j] \in X
        BY <1>1, <1>3, <2>1, <2>4
      <3>2. ~Hidden(path[j])
        BY <3>1 DEF Plain
      <3> HIDE DEF j
      <3> QED
        BY <2>5, <2>9, <3>1, <3>2, OneSegment
    <2>11. Agrees(pattern, dir, j)
      <3>1. \A n \in 1 .. j : n \in 1 .. i \/ n = j
        BY <2>1
      <3> HIDE DEF j
      <3> QED
        BY <2>2, <2>4, <2>10, <3>1 DEF Agrees
    <2> QED
      BY <2>1, <2>4, <2>9, <2>11 DEF OneByOne
  <1>7. d \in S
    <2>1. \A i \in 0 .. d - 1 : i \in S => i + 1 \in S
      BY <1>6
    <2>2. d \in 0 .. d
      BY <1>1
    <2> HIDE DEF S
    <2> QED
      BY <1>1, <1>4, <2>1, <2>2, UpTo
  <1>8. d <= P /\ Agrees(pattern, dir, d) /\ reach[d] \subseteq {d}
    BY <1>7 DEF OneByOne
  <1> QED
    BY <1>1, <1>2, <1>8

\* How the walk enters the directory of the first n segments.
WayStep(rules, path, n, before) ==
    LET dir == SubSeq(path, 1, n)
    IN  IF before = "not" THEN "not"
        ELSE IF ShouldInclude(rules, dir, before = "all") THEN "all"
        ELSE IF IsAncestorOfInclude(rules, dir) THEN "named"
        ELSE "not"

\* The function Entered is defined by.
IsWay(rules, path, way) ==
    way = [n \in 0 .. Len(path) |->
              IF n = 0 THEN "named" ELSE WayStep(rules, path, n, way[n - 1])]

\* It exists.
LEMMA EnteredIs ==
    ASSUME NEW rules, NEW path, Len(path) \in Nat
    PROVE  \E way : IsWay(rules, path, way) /\ Entered(rules, path) = way[Len(path)]
  <1> DEFINE N == Len(path)
             T == {"named", "all", "not"}
             step == [x \in (1 .. N) \X T |-> WayStep(rules, path, x[1], x[2])]
  <1>1. N \in Nat /\ "named" \in T
    OBVIOUS
  <1>2. \A n, before : WayStep(rules, path, n, before) \in T
    BY DEF WayStep
  <1> HIDE DEF T
  <1>3. /\ step \in [(1 .. N) \X T -> T]
        /\ \A i \in 1 .. N, s \in T : step[<<i, s>>] = WayStep(rules, path, i, s)
    <2>1. \A i \in 1 .. N, s \in T : <<i, s>> \in (1 .. N) \X T
      OBVIOUS
    <2> QED
      BY <1>2, <2>1
  <1> HIDE DEF step
  <1>4. PICK g \in [0 .. N -> T] : Steps(g, N, "named", step)
    <2> HIDE DEF N
    <2> QED
      BY <1>1, <1>3, StepsHaveAFunction
  <1>5. IsWay(rules, path, g)
    <2>1. \A i \in 0 .. N : g[i] = IF i = 0 THEN "named" ELSE WayStep(rules, path, i, g[i - 1])
      <3> SUFFICES ASSUME NEW i \in 0 .. N
                   PROVE  g[i] = IF i = 0 THEN "named" ELSE WayStep(rules, path, i, g[i - 1])
        OBVIOUS
      <3>1. g[i] = IF i = 0 THEN "named" ELSE step[<<i, g[i - 1]>>]
        BY <1>4 DEF Steps
      <3>2. i # 0 => i \in 1 .. N /\ i - 1 \in 0 .. N
        BY <1>1
      <3> HIDE DEF N
      <3>3. i # 0 => g[i - 1] \in T
        BY <3>2
      <3> QED
        BY <1>3, <3>1, <3>2, <3>3
    <2> QED
      BY <2>1 DEF IsWay
  <1> DEFINE way == CHOOSE h : IsWay(rules, path, h)
  <1>6. IsWay(rules, path, way)
    BY <1>5
  <1>7. Entered(rules, path) = way[N]
    BY DEF Entered, IsWay, WayStep
  <1> QED
    BY <1>6, <1>7

\* Something includes the path of the first so many segments, and from there to
\* the n-th nothing excludes it.
NamedUpTo(rules, path, n) ==
    \E k \in 1 .. n :
        /\ AnyMatches(rules, {"include"}, SubSeq(path, 1, k))
        /\ \A j \in k .. n : ~AnyMatches(rules, Excluding, SubSeq(path, 1, j))

\* What Named says of all directories it says of all lengths.
LEMMA NamedIs ==
    ASSUME NEW X, NEW rules, NEW path \in Seq(X)
    PROVE  Named(rules, path) <=> NamedUpTo(rules, path, Len(path))
  <1> DEFINE N == Len(path)
             at(k) == SubSeq(path, 1, k)
  <1>1. \A k \in 1 .. N : Len(at(k)) = k
    <2>1. \A k \in 1 .. N : k \in 0 .. N
      OBVIOUS
    <2> QED
      BY <2>1, PrefixFacts
  <1>2. SelfAndParents(path) = {at(k) : k \in 1 .. N} /\ N \in Nat
    BY DEF SelfAndParents
  <1> HIDE DEF at, N
  <1>3. ASSUME NEW k \in 1 .. N
        PROVE  (\A q \in SelfAndParents(path) : Len(q) >= Len(at(k)) => ~AnyMatches(rules, Excluding, q))
               <=> \A j \in k .. N : ~AnyMatches(rules, Excluding, at(j))
    <2>1. \A j \in 1 .. N : j \in k .. N <=> Len(at(j)) >= Len(at(k))
      BY <1>1, <1>2
    <2>2. \A j \in k .. N : j \in 1 .. N
      BY <1>2
    <2> QED
      BY <1>2, <2>1, <2>2
  <1>4. Named(rules, path) <=> \E k \in 1 .. N :
            /\ AnyMatches(rules, {"include"}, at(k))
            /\ \A q \in SelfAndParents(path) : Len(q) >= Len(at(k)) => ~AnyMatches(rules, Excluding, q)
    BY <1>2 DEF Named
  <1> QED
    BY <1>3, <1>4 DEF NamedUpTo, at, N

\* Where the walk takes all, something is named.
LEMMA AllIsNamed ==
    ASSUME NEW rules, NEW path, Len(path) \in Nat, NEW way, IsWay(rules, path, way),
           NEW d \in 0 .. Len(path), way[d] = "all"
    PROVE  NamedUpTo(rules, path, d)
  <1> DEFINE N == Len(path)
             S == {n \in 0 .. d : way[n] = "all" => NamedUpTo(rules, path, n)}
  <1>1. N \in Nat /\ d \in Nat /\ d <= N
    OBVIOUS
  <1>2. 0 \in S
    <2>1. way[0] = "named"
      BY DEF IsWay
    <2> QED
      BY <1>1, <2>1
  <1>3. ASSUME NEW n \in 0 .. d - 1, n \in S PROVE n + 1 \in S
    <2> DEFINE m == n + 1
    <2>1. m \in 0 .. N /\ m # 0 /\ m - 1 = n /\ m \in 0 .. d /\ n \in Nat /\ m \in Nat /\ m \in 1 .. m
      BY <1>1
    <2> HIDE DEF m, N
    <2>2. way[m] = WayStep(rules, path, m, way[n])
      BY <2>1 DEF IsWay, N
    <2>3. ASSUME way[m] = "all" PROVE NamedUpTo(rules, path, m)
      <3>1. ShouldInclude(rules, SubSeq(path, 1, m), way[n] = "all")
        BY <2>2, <2>3 DEF WayStep
      <3>2. CASE way[n] = "all"
        <4>1. PICK k \in 1 .. n :
                  /\ AnyMatches(rules, {"include"}, SubSeq(path, 1, k))
                  /\ \A j \in k .. n : ~AnyMatches(rules, Excluding, SubSeq(path, 1, j))
          BY <1>3, <3>2 DEF NamedUpTo
        <4>2. k \in 1 .. m /\ \A j \in k .. m : j \in k .. n \/ j = m
          BY <2>1
        <4> QED
          BY <3>1, <4>1, <4>2 DEF NamedUpTo, ShouldInclude
      <3>3. CASE way[n] # "all"
        <4>1. \A j \in m .. m : j = m
          BY <2>1
        <4> QED
          BY <2>1, <3>1, <3>3, <4>1 DEF NamedUpTo, ShouldInclude
      <3> QED
        BY <3>2, <3>3
    <2> QED
      BY <2>1, <2>3 DEF m
  <1>4. d \in S
    <2>1. \A n \in 0 .. d - 1 : n \in S => n + 1 \in S
      BY <1>3
    <2>2. d \in 0 .. d
      BY <1>1
    <2> HIDE DEF S
    <2> QED
      BY <1>1, <1>2, <2>1, <2>2, UpTo
  <1> QED
    BY <1>4

\* The walk comes to what is named, and takes all from there on.
LEMMA NamedIsEntered ==
    ASSUME NEW X, NEW rules, \A r \in rules : r.pattern \in Seq(X),
           NEW path \in Seq(X), Plain(path), NEW k \in 1 .. Len(path),
           AnyMatches(rules, {"include"}, SubSeq(path, 1, k)),
           \A j \in k .. Len(path) : ~AnyMatches(rules, Excluding, SubSeq(path, 1, j)),
           NEW way, IsWay(rules, Parent(path), way)
    PROVE  \A n \in 0 .. Len(path) - 1 : way[n] # "not" /\ (n >= k => way[n] = "all")
  <1> DEFINE N == Len(path)
             dir == Parent(path)
             S == {n \in 0 .. N - 1 : way[n] # "not" /\ (n >= k => way[n] = "all")}
  <1>1. N \in Nat /\ N - 1 \in Nat /\ k \in Nat /\ 1 <= k /\ k <= N /\ N - 1 \in 0 .. N /\ k \in 0 .. N
    OBVIOUS
  <1>2. Len(dir) = N - 1 /\ \A n \in 0 .. N - 1 : SubSeq(dir, 1, n) = SubSeq(path, 1, n)
    BY <1>1, PrefixFacts DEF Parent
  <1> HIDE DEF dir
  <1>3. 0 \in S
    <2>1. way[0] = "named" /\ 0 \in 0 .. N - 1 /\ ~(0 >= k)
      BY <1>1, <1>2 DEF IsWay, dir
    <2> QED
      BY <2>1
  <1>4. ASSUME NEW n \in 0 .. N - 1 - 1, n \in S PROVE n + 1 \in S
    <2> DEFINE m == n + 1
               at == SubSeq(path, 1, m)
    <2>1. m \in 0 .. N - 1 /\ m # 0 /\ m - 1 = n /\ n \in Nat /\ m \in Nat /\ m < N /\ 1 <= m
      BY <1>1
    <2> HIDE DEF m
    <2>2. way[m] = WayStep(rules, dir, m, way[n]) /\ SubSeq(dir, 1, m) = at
      <3>1. way[m] = WayStep(rules, dir, m, way[m - 1])
        BY <1>2, <2>1 DEF IsWay, dir
      <3> QED
        BY <1>2, <2>1, <3>1
    <2>3. way[n] # "not" /\ (n >= k => way[n] = "all")
      BY <1>4
    <2>4. CASE m < k
      <3>1. IsAncestorOfInclude(rules, at)
        <4>1. PICK r \in rules : r.type = "include" /\ Matches(r.pattern, SubSeq(path, 1, k))
          BY DEF AnyMatches
        <4> DEFINE whole == SubSeq(path, 1, k)
        <4>2. /\ whole \in Seq(X) /\ Len(whole) = k /\ \A i \in 1 .. k : whole[i] = path[i]
              /\ \A i \in 0 .. k : SubSeq(whole, 1, i) = SubSeq(path, 1, i)
          BY <1>1, PrefixFacts
        <4> HIDE DEF whole
        <4>3. Plain(whole)
          <5>1. DOMAIN whole = 1 .. k /\ \A i \in 1 .. k : i \in DOMAIN path
            BY <1>1, <4>2
          <5> QED
            BY <4>2, <5>1 DEF Plain
        <4>4. m \in 1 .. Len(whole) - 1 /\ m \in 0 .. k
          BY <1>1, <2>1, <2>4, <4>2
        <4>5. CouldContainMatch(r.pattern, SubSeq(whole, 1, m))
          BY <4>1, <4>2, <4>3, <4>4, Leads DEF whole
        <4> QED
          BY <4>1, <4>2, <4>4, <4>5 DEF IsAncestorOfInclude
      <3>2. way[m] # "not"
        BY <2>2, <2>3, <3>1 DEF WayStep
      <3>3. ~(m >= k)
        BY <1>1, <2>1, <2>4
      <3> QED
        BY <2>1, <3>2, <3>3 DEF m
    <2>5. CASE m >= k
      <3>1. ~AnyMatches(rules, Excluding, at)
        <4>1. m \in k .. Len(path)
          BY <1>1, <2>1, <2>5
        <4> QED
          BY <4>1
      <3>2. way[n] = "all" \/ AnyMatches(rules, {"include"}, at)
        <4>1. m = k \/ n >= k
          BY <1>1, <2>1, <2>5
        <4> QED
          BY <2>3, <4>1
      <3>3. way[m] = "all"
        BY <2>2, <2>3, <3>1, <3>2 DEF WayStep, ShouldInclude
      <3> QED
        BY <2>1, <3>3 DEF m
    <2> QED
      BY <1>1, <2>1, <2>4, <2>5
  <1>5. \A n \in 0 .. N - 1 : n \in S
    <2>1. \A n \in 0 .. N - 1 - 1 : n \in S => n + 1 \in S
      BY <1>4
    <2> HIDE DEF S, N
    <2> QED
      BY <1>1, <1>3, <2>1, UpTo
  <1> QED
    BY <1>5

\* The walk decides as the rules do of the whole path.
LEMMA WalkIsNamed ==
    ASSUME NEW X, NEW rules, \A r \in rules : r.pattern \in Seq(X),
           NEW path \in Seq(X), path # <<>>, Plain(path)
    PROVE  /\ Entered(rules, Parent(path)) # "not"
           /\ ShouldInclude(rules, path, Entered(rules, Parent(path)) = "all")
           <=> Named(rules, path)
  <1> DEFINE N == Len(path)
             dir == Parent(path)
  <1>1. N \in Nat /\ N - 1 \in Nat /\ 1 <= N /\ N - 1 \in 0 .. N /\ N \in 1 .. N
    OBVIOUS
  <1>2. /\ Len(dir) = N - 1 /\ \A n \in 0 .. N - 1 : SubSeq(dir, 1, n) = SubSeq(path, 1, n)
        /\ SubSeq(path, 1, N) = path
    <2>1. Len(dir) = N - 1 /\ \A n \in 0 .. N - 1 : SubSeq(dir, 1, n) = SubSeq(path, 1, n)
      BY <1>1, PrefixFacts DEF Parent
    <2>2. N \in 0 .. N
      BY <1>1
    <2>3. SubSeq(path, 1, N) = path
      BY <2>2, PrefixFacts
    <2> QED
      BY <2>1, <2>3
  <1> HIDE DEF dir
  <1>3. PICK way : IsWay(rules, dir, way) /\ Entered(rules, dir) = way[N - 1]
    BY <1>1, <1>2, EnteredIs
  <1>4. ASSUME ShouldInclude(rules, path, way[N - 1] = "all") PROVE NamedUpTo(rules, path, N)
    <2>1. CASE way[N - 1] = "all"
      <3>1. N - 1 \in 0 .. Len(dir) /\ Len(dir) \in Nat
        BY <1>1, <1>2
      <3>2. NamedUpTo(rules, dir, N - 1)
        <4> HIDE DEF N
        <4> QED
          BY <1>3, <2>1, <3>1, AllIsNamed
      <3>3. PICK k \in 1 .. N - 1 :
                /\ AnyMatches(rules, {"include"}, SubSeq(dir, 1, k))
                /\ \A j \in k .. N - 1 : ~AnyMatches(rules, Excluding, SubSeq(dir, 1, j))
        BY <3>2 DEF NamedUpTo
      <3>4. k \in 1 .. N /\ k \in 0 .. N - 1 /\ \A j \in k .. N : j \in k .. N - 1 \/ j = N
        BY <1>1
      <3>5. \A j \in k .. N - 1 : j \in 0 .. N - 1
        BY <1>1
      <3> QED
        BY <1>2, <1>4, <3>3, <3>4, <3>5 DEF NamedUpTo, ShouldInclude
    <2>2. CASE way[N - 1] # "all"
      <3>1. \A j \in N .. N : j = N
        BY <1>1
      <3> QED
        BY <1>1, <1>2, <1>4, <2>2, <3>1 DEF NamedUpTo, ShouldInclude
    <2> QED
      BY <2>1, <2>2
  <1>5. ASSUME NamedUpTo(rules, path, N)
        PROVE  way[N - 1] # "not" /\ ShouldInclude(rules, path, way[N - 1] = "all")
    <2>1. PICK k \in 1 .. N :
              /\ AnyMatches(rules, {"include"}, SubSeq(path, 1, k))
              /\ \A j \in k .. N : ~AnyMatches(rules, Excluding, SubSeq(path, 1, j))
      BY <1>5 DEF NamedUpTo
    <2>2. \A n \in 0 .. N - 1 : way[n] # "not" /\ (n >= k => way[n] = "all")
      BY <1>3, <2>1, NamedIsEntered DEF dir
    <2>3. N - 1 \in 0 .. N - 1 /\ N \in k .. N /\ (k = N \/ N - 1 >= k)
      BY <1>1
    <2> QED
      BY <1>2, <2>1, <2>2, <2>3 DEF ShouldInclude
  <1>6. Named(rules, path) <=> NamedUpTo(rules, path, N)
    BY NamedIs
  <1> QED
    BY <1>3, <1>4, <1>5, <1>6 DEF dir

\* What a deploy is asked about: a tree and rules, whose paths and patterns
\* have a segment at least, of any symbols.
WalkInput(Symbols) ==
    [ kind : {"walk"},
      tree : [files : SUBSET (Seq(Seq(Symbols)) \ {<<>>}), links : SUBSET (Seq(Seq(Symbols)) \ {<<>>})],
      rules : SUBSET [ type : {"include", "exclude", "ignore", "ignore-destination"},
                       pattern : Seq(Seq(Symbols)) \ {<<>>} ] ]

\* What ships is what is named, for every tree and all rules (resolve_file_list,
\* could_contain_match, should_include).
LEMMA ShipsWhatIsNamedHolds ==
    ASSUME NEW Symbols, input \in WalkInput(Symbols)
    PROVE  ShipsWhatIsNamed
  <1> DEFINE tree == input.tree
             rules == input.rules
             X == Seq(Symbols)
  <1>1. /\ \A p \in tree.files : p \in Seq(X) /\ p # <<>>
        /\ \A r \in rules : r.pattern \in Seq(X)
    BY DEF WalkInput
  <1> SUFFICES ASSUME NEW p \in tree.files, Plain(p)
               PROVE  p \in FileList(tree, rules) <=> Named(rules, p)
    BY DEF ShipsWhatIsNamed
  <1>2. p \in FileList(tree, rules) <=>
            /\ Entered(rules, Parent(p)) # "not"
            /\ ShouldInclude(rules, p, Entered(rules, Parent(p)) = "all")
    BY DEF FileList, Walked
  <1> HIDE DEF X, tree, rules
  <1> QED
    BY <1>1, <1>2, WalkIsNamed

\* What one more symbol of a pattern can stand for, after so many of a segment.
SegmentStep(pattern, segment, i, before) ==
    IF pattern[i] = "*"
    THEN UNION {n .. Len(segment) : n \in before}
    ELSE {n + 1 : n \in {n \in before : n < Len(segment) /\ segment[n + 1] = pattern[i]}}

\* The function SegmentMatches is defined by.
IsSegmentReach(pattern, segment, reach) ==
    reach = [i \in 0 .. Len(pattern) |->
                IF i = 0 THEN {0} ELSE SegmentStep(pattern, segment, i, reach[i - 1])]

\* A segment without a wildcard matches itself.
LEMMA LiteralMatches ==
    ASSUME NEW X, NEW s \in Seq(X), \A i \in DOMAIN s : s[i] # "*"
    PROVE  SegmentMatches(s, s)
  <1> DEFINE N == Len(s)
             own == [i \in 0 .. N |-> {i}]
  <1>1. N \in Nat /\ N \in 0 .. N /\ \A i \in 1 .. N : s[i] # "*"
    OBVIOUS
  <1>2. ASSUME NEW i \in 1 .. N PROVE SegmentStep(s, s, i, {i - 1}) = {i}
    <2>1. SegmentStep(s, s, i, {i - 1}) =
              {n + 1 : n \in {n \in {i - 1} : n < N /\ s[n + 1] = s[i]}}
      BY <1>1 DEF SegmentStep
    <2>2. i - 1 < N /\ i - 1 + 1 = i
      BY <1>1
    <2>3. {n \in {i - 1} : n < N /\ s[n + 1] = s[i]} = {i - 1}
      BY <2>2
    <2> QED
      BY <2>1, <2>2, <2>3
  <1>3. IsSegmentReach(s, s, own)
    <2>1. ASSUME NEW i \in 0 .. N, i # 0 PROVE own[i] = SegmentStep(s, s, i, own[i - 1])
      <3>1. i \in 1 .. N /\ i - 1 \in 0 .. N
        BY <1>1, <2>1
      <3> QED
        BY <1>2, <3>1
    <2>2. 0 \in 0 .. N => own[0] = {0}
      OBVIOUS
    <2>3. own = [i \in 0 .. N |-> IF i = 0 THEN {0} ELSE SegmentStep(s, s, i, own[i - 1])]
      BY <2>1, <2>2
    <2> HIDE DEF own
    <2> QED
      BY <2>3 DEF IsSegmentReach
  <1> DEFINE reach == CHOOSE h : IsSegmentReach(s, s, h)
  <1>4. IsSegmentReach(s, s, reach)
    BY <1>3
  <1>5. SegmentMatches(s, s) <=> N \in reach[N]
    BY DEF SegmentMatches, IsSegmentReach, SegmentStep
  <1> HIDE DEF reach
  <1> DEFINE S == {i \in 0 .. N : reach[i] = {i}}
  <1>6. 0 \in S
    <2>1. 0 \in 0 .. N
      BY <1>1
    <2> QED
      BY <1>4, <2>1 DEF IsSegmentReach
  <1>7. ASSUME NEW i \in 0 .. N - 1, i \in S PROVE i + 1 \in S
    <2> DEFINE m == i + 1
    <2>1. m \in 0 .. N /\ m \in 1 .. N /\ m # 0 /\ m - 1 = i
      BY <1>1
    <2> HIDE DEF m
    <2>2. reach[m] = SegmentStep(s, s, m, reach[m - 1])
      BY <1>4, <2>1 DEF IsSegmentReach
    <2> QED
      BY <1>2, <1>7, <2>1, <2>2 DEF m
  <1>8. N \in S
    <2>1. \A i \in 0 .. N - 1 : i \in S => i + 1 \in S
      BY <1>7
    <2> HIDE DEF S, N
    <2> QED
      BY <1>1, <1>6, <2>1, UpTo
  <1> QED
    BY <1>5, <1>8

\* A directory leads to what a pattern names in it letter by letter, hidden or not.
LEMMA LiteralLeads ==
    ASSUME NEW Symbols, NEW pattern \in Seq(Seq(Symbols)), Literal(pattern),
           NEW d \in 1 .. Len(pattern) - 1
    PROVE  CouldContainMatch(pattern, SubSeq(pattern, 1, d))
  <1> DEFINE X == Seq(Symbols)
             N == Len(pattern)
             dir == SubSeq(pattern, 1, d)
  <1>1. N \in Nat /\ d \in Nat /\ d < N /\ d \in 0 .. N
    OBVIOUS
  <1>2. Len(dir) = d /\ \A i \in 1 .. d : dir[i] = pattern[i]
    BY <1>1, PrefixFacts
  <1> HIDE DEF dir
  <1>3. ASSUME NEW i \in 1 .. d PROVE i <= N /\ Matches(<<pattern[i]>>, <<dir[i]>>)
    <2> DEFINE s == pattern[i]
    <2>1. i \in 1 .. N /\ i <= N /\ i \in DOMAIN pattern /\ s \in X
      BY <1>1
    <2>2. \A j \in DOMAIN s : s[j] # "*"
      BY <2>1 DEF Literal, GlobSymbols
    <2> HIDE DEF s
    <2>3. s # Globstar
      BY <2>2 DEF Globstar
    <2>4. SegmentMatches(s, s)
      BY <2>1, <2>2, LiteralMatches
    <2>5. Matches(<<s>>, <<s>>)
      <3> HIDE DEF X
      <3> QED
        BY <2>1, <2>3, <2>4, OneSegment
    <2> QED
      BY <1>2, <2>1, <2>5 DEF s
  <1>4. Agrees(pattern, dir, d)
    BY <1>3 DEF Agrees
  <1> QED
    BY <1>1, <1>2, <1>4 DEF CouldContainMatch, dir

\* The walk comes to every directory on the way to what a rule names letter by
\* letter.
LEMMA LiteralIsEntered ==
    ASSUME NEW Symbols, NEW rules, NEW rule \in rules, rule.type = "include",
           rule.pattern \in Seq(Seq(Symbols)), Literal(rule.pattern),
           NEW k \in 1 .. Len(rule.pattern)
    PROVE  Entered(rules, Parent(SubSeq(rule.pattern, 1, k))) # "not"
  <1> DEFINE pattern == rule.pattern
             link == SubSeq(pattern, 1, k)
             dir == Parent(link)
             D == k - 1
  <1>1. D \in Nat /\ k \in 0 .. Len(pattern) /\ D \in 0 .. k /\ Len(pattern) \in Nat /\ D < Len(pattern)
        /\ pattern \in Seq(Seq(Symbols)) /\ D \in 0 .. D
    OBVIOUS
  <1>2. Len(dir) = D /\ \A n \in 0 .. D : SubSeq(dir, 1, n) = SubSeq(pattern, 1, n)
    <2>1. /\ link \in Seq(Seq(Symbols)) /\ Len(link) = k
          /\ \A n \in 0 .. k : SubSeq(link, 1, n) = SubSeq(pattern, 1, n)
      BY <1>1, PrefixFacts
    <2> HIDE DEF link
    <2>2. /\ Len(dir) = D /\ \A n \in 0 .. D : SubSeq(dir, 1, n) = SubSeq(link, 1, n)
      BY <1>1, <2>1, PrefixFacts DEF Parent
    <2>3. \A n \in 0 .. D : n \in 0 .. k
      BY <1>1
    <2> HIDE DEF dir
    <2> QED
      BY <2>1, <2>2, <2>3
  <1> HIDE DEF dir, link, D
  <1>3. PICK way : IsWay(rules, dir, way) /\ Entered(rules, dir) = way[D]
    BY <1>1, <1>2, EnteredIs
  <1> DEFINE S == {n \in 0 .. D : way[n] # "not"}
  <1>4. 0 \in S
    BY <1>1, <1>2, <1>3 DEF IsWay
  <1>5. ASSUME NEW n \in 0 .. D - 1, n \in S PROVE n + 1 \in S
    <2> DEFINE m == n + 1
    <2>1. m \in 0 .. D /\ m # 0 /\ m - 1 = n /\ m \in 1 .. Len(pattern) - 1
      BY <1>1
    <2> HIDE DEF m
    <2>2. way[m] = WayStep(rules, dir, m, way[n])
      BY <1>2, <1>3, <2>1 DEF IsWay
    <2>3. IsAncestorOfInclude(rules, SubSeq(dir, 1, m))
      <3>1. CouldContainMatch(pattern, SubSeq(pattern, 1, m))
        BY <2>1, LiteralLeads
      <3> QED
        BY <1>2, <2>1, <3>1 DEF IsAncestorOfInclude
    <2> QED
      BY <1>5, <2>1, <2>2, <2>3 DEF WayStep, m
  <1>6. D \in S
    <2>1. \A n \in 0 .. D - 1 : n \in S => n + 1 \in S
      BY <1>5
    <2> HIDE DEF S
    <2> QED
      BY <1>1, <1>4, <2>1, UpTo
  <1> QED
    BY <1>3, <1>6 DEF dir, link

\* The walk comes to every link that is named letter by letter, and refuses it
\* (check_symlinked_directory).
LEMMA NothingNamedIsBehindALinkHolds ==
    ASSUME NEW Symbols, input \in WalkInput(Symbols)
    PROVE  NothingNamedIsBehindALink
  <1> DEFINE tree == input.tree
             rules == input.rules
  <1> SUFFICES ASSUME ~Refuses(tree, rules), NEW link \in tree.links, NEW r \in rules,
                      r.type = "include", Literal(r.pattern), link \in SelfAndParents(r.pattern)
               PROVE  AnyMatches(rules, Excluding, link)
    BY DEF NothingNamedIsBehindALink
  <1>1. r.pattern \in Seq(Seq(Symbols))
    BY DEF WalkInput
  <1> HIDE DEF tree, rules
  <1>2. PICK k \in 1 .. Len(r.pattern) : link = SubSeq(r.pattern, 1, k)
    BY DEF SelfAndParents
  <1>3. Entered(rules, Parent(link)) # "not"
    BY <1>1, <1>2, LiteralIsEntered
  <1>4. link \in Walked(tree, rules) \cap tree.links
    BY <1>3 DEF Walked
  <1>5. PassesThrough(r.pattern, link)
    <2>1. k \in 0 .. Len(r.pattern) /\ k <= Len(r.pattern)
      BY <1>1
    <2>2. Len(link) = k /\ link \in Seq(Seq(Symbols)) /\ \A i \in 1 .. k : link[i] = r.pattern[i]
      BY <1>1, <1>2, <2>1, PrefixFacts
    <2>3. \A i \in DOMAIN link : i \in 1 .. k /\ i \in DOMAIN r.pattern
      BY <1>1, <2>1, <2>2
    <2> QED
      BY <2>1, <2>2, <2>3 DEF PassesThrough, Literal
  <1> QED
    BY <1>4, <1>5 DEF Refuses, LinkRefused

\* For every tree and all rules, whatever their globs: what a rule names ships,
\* though the walk sees one directory at a time, or the deploy is refused.
THEOREM NothingNamedIsLostCorrect ==
    ASSUME NEW Symbols, input \in WalkInput(Symbols)
    PROVE  NothingNamedIsLost
  BY ShipsWhatIsNamedHolds, NothingNamedIsBehindALinkHolds DEF NothingNamedIsLost

-----------------------------------------------------------------------------
(* Comments. *)

\* The text t has the text s in it, from d on.
Continues(s, t, d) == \A j \in 1 .. Len(s) : j + d \in 1 .. Len(t) /\ t[j + d] = s[j]

\* What of s is whole up to e goes on in t: s ends where t does, or e is in s.
Settled(s, t, d, e) == e <= Len(s) \/ Len(t) = Len(s) + d

\* The first of the places is the first of the places.
LEMMA FirstIs ==
    ASSUME NEW text, Len(text) \in Nat, NEW i \in 1 .. Len(text) + 1, NEW places
    PROVE  /\ FirstFrom(text, i, places) \in i .. Len(text) + 1
           /\ FirstFrom(text, i, places) <= Len(text) => FirstFrom(text, i, places) \in places
           /\ \A k \in i .. FirstFrom(text, i, places) - 1 : k \notin places
  <1> DEFINE N == Len(text)
             Is(j) == (j > N \/ j \in places) /\ \A k \in i .. j - 1 : k \notin places
             S == {j \in i .. N + 1 : j > N \/ j \in places}
  <1>1. CASE i > N
    BY <1>1 DEF FirstFrom
  <1>2. CASE ~(i > N)
    <2>1. S \subseteq Nat /\ N + 1 \in S
      OBVIOUS
    <2>2. PICK j \in S : \A k \in S : j <= k
      <3> HIDE DEF S
      <3> QED
        BY <2>1, LeastElement
    <2>3. j \in i .. N + 1 /\ Is(j)
      <3>1. ASSUME NEW k \in i .. j - 1, k \in places PROVE FALSE
        <4>1. k \in S
          BY <3>1, <2>2
        <4> QED
          BY <2>2, <4>1
      <3> QED
        BY <2>2, <3>1
    <2>4. FirstFrom(text, i, places) = CHOOSE h \in i .. N + 1 : Is(h)
      BY <1>2 DEF FirstFrom
    <2> HIDE DEF Is, N
    <2>5. FirstFrom(text, i, places) \in i .. N + 1 /\ Is(FirstFrom(text, i, places))
      BY <2>3, <2>4, Zenon
    <2> QED
      BY <2>5 DEF Is, N
  <1> QED
    BY <1>1, <1>2

\* It is the same in a text with another before it, and in one that goes on.
LEMMA FirstAlike ==
    ASSUME NEW s, NEW t, Len(s) \in Nat, Len(t) \in Nat, NEW d \in Nat, Continues(s, t, d),
           NEW P, NEW Q, \A j \in 1 .. Len(s) : j \in P <=> j + d \in Q,
           NEW i \in 1 .. Len(s) + 1,
           Settled(s, t, d, FirstFrom(s, i, P))
    PROVE  FirstFrom(t, i + d, Q) = FirstFrom(s, i, P) + d
  <1> DEFINE M == Len(s)
             N == Len(t)
             e == FirstFrom(s, i, P)
             f == FirstFrom(t, i + d, Q)
  <1>1. M + d <= N
    <2>1. M = 0 \/ M \in 1 .. M
      OBVIOUS
    <2>4. e <= M \/ N = M + d
      BY DEF Settled
    <2>2. M \in 1 .. M => M + d \in 1 .. N
      BY DEF Continues
    <2>3. e \in Nat /\ (e <= M => M # 0)
      BY FirstIs
    <2>5. M \in Nat /\ N \in Nat
      OBVIOUS
    <2> HIDE DEF e, M, N
    <2> QED
      BY <2>1, <2>2, <2>3, <2>4, <2>5
  <1>2. i + d \in 1 .. N + 1
    BY <1>1
  <1>3. /\ e \in i .. M + 1 /\ (e <= M => e \in P)
        /\ \A k \in i .. e - 1 : k \notin P
    BY FirstIs
  <1>4. /\ f \in i + d .. N + 1 /\ (f <= N => f \in Q)
        /\ \A k \in i + d .. f - 1 : k \notin Q
    <2> HIDE DEF f
    <2> QED
      BY <1>2, FirstIs DEF f
  <1>5. Settled(s, t, d, e)
    OBVIOUS
  <1> HIDE DEF e, f, M, N
  <1>6. ASSUME f < e + d PROVE FALSE
    <2>1. f - d \in i .. e - 1 /\ f - d \in 1 .. M /\ f <= N
      BY <1>1, <1>2, <1>3, <1>4, <1>6 DEF M, N
    <2>2. f - d \in P
      <3>1. (f - d) + d = f
        BY <1>2, <1>4 DEF N
      <3> QED
        BY <1>4, <2>1, <3>1 DEF M
    <2> QED
      BY <1>3, <2>1, <2>2
  <1>7. ASSUME e + d < f PROVE FALSE
    <2>1. e + d \in i + d .. f - 1 /\ e + d <= N
      BY <1>2, <1>3, <1>4, <1>7 DEF M, N
    <2>2. e <= M
      BY <1>3, <1>5, <2>1 DEF Settled, M, N
    <2>3. e \in 1 .. M /\ e \in P
      BY <1>3, <2>2 DEF M
    <2>4. e + d \in Q
      BY <2>3 DEF M
    <2> QED
      BY <1>4, <2>1, <2>4
  <1>8. e \in Int /\ f \in Int
    BY <1>3, <1>4 DEF M, N
  <1>9. f = e + d
    BY <1>6, <1>7, <1>8
  <1> QED
    BY <1>9 DEF e, f

\* The function StringEnd is defined by.
IsEnd(sql, i, end) ==
    end = [j \in i .. Len(sql) + 2 |->
              IF j > Len(sql) THEN j
              ELSE IF sql[j] = sql[i] THEN j
              ELSE IF sql[j] = "\\" THEN end[j + 2] ELSE end[j + 1]]

\* It exists, and goes forward.
LEMMA StringEndIs ==
    ASSUME NEW sql, Len(sql) \in Nat, NEW i \in 1 .. Len(sql)
    PROVE  \E end \in [i .. Len(sql) + 2 -> i .. Len(sql) + 2] :
              /\ IsEnd(sql, i, end) /\ StringEnd(sql, i) = 1 + end[i + 1]
              /\ \A j \in i .. Len(sql) + 2 : j <= end[j]
  <1> DEFINE N == Len(sql)
             D == i .. N + 2
             go(j, g) == IF j > N THEN j
                         ELSE IF sql[j] = sql[i] THEN j
                         ELSE IF sql[j] = "\\" THEN g[j + 2] ELSE g[j + 1]
             body == [x \in D \X [D -> D] |-> go(x[1], x[2])]
             rank == [j \in D |-> N + 2 - j]
  <1>1. rank \in [D -> 0 .. N + 2] /\ N + 2 \in Nat /\ D # {}
    BY N + 2 \in D
  <1>2. \A j \in D, g \in [D -> D] : body[<<j, g>>] = go(j, g)
    OBVIOUS
  <1>3. ASSUME NEW j \in D, j <= N PROVE /\ j + 1 \in D /\ j + 2 \in D
                                        /\ rank[j + 1] < rank[j] /\ rank[j + 2] < rank[j]
    BY <1>3
  <1>4. ASSUME NEW j \in D, NEW g \in [D -> D] PROVE body[<<j, g>>] \in D
    <2>1. j > N \/ j <= N
      OBVIOUS
    <2>2. body[<<j, g>>] = go(j, g)
      BY <1>2
    <2> HIDE DEF D, rank, body, N
    <2>3. j <= N => g[j + 1] \in D /\ g[j + 2] \in D
      BY <1>3
    <2> QED
      BY <2>1, <2>2, <2>3
  <1>5. ASSUME NEW j \in D, NEW g \in [D -> D], NEW h \in [D -> D],
               \A y \in D : rank[y] < rank[j] => g[y] = h[y]
        PROVE  body[<<j, g>>] = body[<<j, h>>]
    <2>1. j > N \/ j <= N
      OBVIOUS
    <2>2. body[<<j, g>>] = go(j, g) /\ body[<<j, h>>] = go(j, h)
      BY <1>2
    <2> HIDE DEF D, rank, body, N
    <2>3. j <= N => g[j + 1] = h[j + 1] /\ g[j + 2] = h[j + 2]
      BY <1>3, <1>5
    <2> QED
      BY <2>1, <2>2, <2>3
  <1>6. Causal(body, D, D, rank)
    <2> HIDE DEF D, rank, body, go
    <2> QED
      BY <1>4, <1>5 DEF Causal
  <1>7. Satisfied(body, D, D)
    <2> DEFINE K == N + 2
    <2>1. K \in Nat /\ rank \in [D -> 0 .. K]
      BY <1>1
    <2> HIDE DEF D, rank, body, N, K
    <2> QED
      BY <1>1, <1>6, <2>1, RecursionHasAFunction
  <1>8. PICK f \in [D -> D] : \A j \in D : f[j] = go(j, f)
    <2> HIDE DEF D, body, go
    <2> QED
      BY <1>2, <1>7 DEF Satisfied
  <1>9. IsEnd(sql, i, f)
    BY <1>8, f = [j \in D |-> f[j]] DEF IsEnd
  <1> DEFINE end == CHOOSE g : IsEnd(sql, i, g)
  <1>10. IsEnd(sql, i, end) /\ StringEnd(sql, i) = 1 + end[i + 1]
    BY <1>9 DEF StringEnd, IsEnd
  <1>11. end = [j \in D |-> go(j, end)]
    BY <1>10 DEF IsEnd
  <1> HIDE DEF end
  <1>12. \A j \in D : end[j] = go(j, end)
    <2> HIDE DEF go
    <2> QED
      BY <1>11
  <1> DEFINE S == {j \in D : end[j] \in D /\ j <= end[j]}
  <1>13. ASSUME NEW j \in D, \A k \in j + 1 .. N + 2 : k \in S PROVE j \in S
    <2>1. j > N => end[j] = j
      BY <1>12
    <2>2. j <= N => /\ j + 1 \in j + 1 .. N + 2 /\ j + 2 \in j + 1 .. N + 2
                    /\ end[j] = j \/ end[j] = end[j + 1] \/ end[j] = end[j + 2]
      BY <1>12
    <2>3. j <= N => end[j] = j \/ (end[j] \in D /\ j + 1 <= end[j]) \/ (end[j] \in D /\ j + 2 <= end[j])
      BY <1>13, <2>2
    <2> QED
      BY <2>1, <2>3
  <1>14. \A j \in D : j \in S
    <2>1. i \in Int /\ N + 2 \in Int
      OBVIOUS
    <2> HIDE DEF S
    <2> QED
      BY <1>13, <2>1, DownTo
  <1>15. end \in [D -> D]
    <2> HIDE DEF go, D
    <2> QED
      BY <1>11, <1>14
  <1> QED
    BY <1>10, <1>14, <1>15

\* A text that is in another has an end.
LEMMA EndsWithin ==
    ASSUME NEW s, NEW t, Len(s) \in Nat, Len(t) \in Nat, Len(s) # 0, NEW d \in Nat, Continues(s, t, d)
    PROVE  Len(s) + d <= Len(t)
  <1>1. Len(s) \in 1 .. Len(s)
    OBVIOUS
  <1> QED
    BY <1>1 DEF Continues

\* A string ends in the same place.
LEMMA StringAlike ==
    ASSUME NEW s, NEW t, Len(s) \in Nat, Len(t) \in Nat, NEW d \in Nat, Continues(s, t, d),
           NEW i \in 1 .. Len(s), Settled(s, t, d, StringEnd(s, i))
    PROVE  StringEnd(t, i + d) = StringEnd(s, i) + d
  <1> DEFINE M == Len(s)
             N == Len(t)
  <1>1. M + d <= N /\ M \in Nat /\ N \in Nat /\ i + d \in 1 .. N /\ i \in 1 .. M
    BY EndsWithin
  <1>2. PICK f \in [i .. M + 2 -> i .. M + 2] :
            /\ IsEnd(s, i, f) /\ StringEnd(s, i) = 1 + f[i + 1]
            /\ \A j \in i .. M + 2 : j <= f[j]
    BY StringEndIs
  <1>3. PICK g \in [i + d .. N + 2 -> i + d .. N + 2] :
            IsEnd(t, i + d, g) /\ StringEnd(t, i + d) = 1 + g[(i + d) + 1]
    <2> DEFINE k == i + d
    <2>1. k \in 1 .. Len(t)
      BY <1>1
    <2> HIDE DEF k
    <2>2. \E g \in [k .. Len(t) + 2 -> k .. Len(t) + 2] :
              IsEnd(t, k, g) /\ StringEnd(t, k) = 1 + g[k + 1]
      BY <2>1, StringEndIs
    <2> QED
      BY <2>2 DEF k
  <1>4. \A j \in i .. M + 2 :
            f[j] = IF j > M THEN j
                   ELSE IF s[j] = s[i] THEN j
                   ELSE IF s[j] = "\\" THEN f[j + 2] ELSE f[j + 1]
    BY <1>2 DEF IsEnd
  <1>5. \A j \in i + d .. N + 2 :
            g[j] = IF j > N THEN j
                   ELSE IF t[j] = t[i + d] THEN j
                   ELSE IF t[j] = "\\" THEN g[j + 2] ELSE g[j + 1]
    BY <1>3 DEF IsEnd
  <1>6. \A j \in 1 .. M : t[j + d] = s[j]
    BY DEF Continues
  <1> DEFINE Same(j) == f[j] < M \/ N = M + d => g[j + d] = f[j] + d
             S == {j \in i .. M + 2 : Same(j)}
  <1> HIDE DEF M, N
  <1>7. ASSUME NEW j \in i .. M + 2, \A k \in j + 1 .. M + 2 : k \in S PROVE j \in S
    <2> SUFFICES ASSUME f[j] < M \/ N = M + d PROVE g[j + d] = f[j] + d
      OBVIOUS
    <2>1. j \in Nat /\ j <= f[j] /\ f[j] \in Nat
      <3>1. j <= f[j] /\ f[j] \in i .. M + 2
        BY <1>2
      <3> QED
        BY <1>1, <3>1
    <2>2. CASE j > M
      <3>1. f[j] = j /\ N = M + d
        BY <1>1, <1>4, <2>1, <2>2
      <3>2. j + d > N /\ j + d \in i + d .. N + 2
        BY <1>1, <2>1, <2>2, <3>1
      <3> QED
        BY <1>5, <3>1, <3>2
    <2>3. CASE j <= M
      <3>1. j + d \in i + d .. N + 2 /\ ~(j + d > N) /\ ~(j > M)
        BY <1>1, <2>1, <2>3
      <3>2. t[j + d] = s[j] /\ t[i + d] = s[i]
        BY <1>1, <1>6, <2>1, <2>3
      <3>3. g[j + d] = IF s[j] = s[i] THEN j + d
                       ELSE IF s[j] = "\\" THEN g[(j + d) + 2] ELSE g[(j + d) + 1]
        BY <1>5, <3>1, <3>2
      <3>4. f[j] = IF s[j] = s[i] THEN j ELSE IF s[j] = "\\" THEN f[j + 2] ELSE f[j + 1]
        BY <1>4, <3>1
      <3>5. Same(j + 1) /\ Same(j + 2) /\ (j + d) + 1 = (j + 1) + d /\ (j + d) + 2 = (j + 2) + d
        <4>1. j + 1 \in j + 1 .. M + 2 /\ j + 2 \in j + 1 .. M + 2
          BY <1>1, <2>1, <2>3
        <4>2. j + 1 \in S /\ j + 2 \in S
          BY <1>7, <4>1
        <4>3. (j + d) + 1 = (j + 1) + d /\ (j + d) + 2 = (j + 2) + d
          BY <2>1
        <4> QED
          BY <4>2, <4>3
      <3>6. CASE s[j] = s[i]
        BY <3>3, <3>4, <3>6
      <3>7. CASE s[j] # s[i] /\ s[j] = "\\"
        BY <3>3, <3>4, <3>5, <3>7
      <3>8. CASE s[j] # s[i] /\ s[j] # "\\"
        BY <3>3, <3>4, <3>5, <3>8
      <3> QED
        BY <3>6, <3>7, <3>8
    <2> QED
      BY <1>1, <2>1, <2>2, <2>3
  <1>8. \A j \in i .. M + 2 : j \in S
    <2> DEFINE K == M + 2
    <2>1. i \in Int /\ K \in Int
      BY <1>1
    <2>2. \A j \in i .. K : (\A k \in j + 1 .. K : k \in S) => j \in S
      BY <1>7
    <2> HIDE DEF S, K
    <2>3. \A j \in i .. K : j \in S
      BY <2>1, <2>2, DownTo
    <2> QED
      BY <2>3 DEF K
  <1>9. Same(i + 1) /\ (i + 1) + d = (i + d) + 1 /\ f[i + 1] \in Nat /\ i + 1 \in i .. M + 2
    <2>1. i + 1 \in i .. M + 2 /\ (i + 1) + d = (i + d) + 1
      BY <1>1
    <2> QED
      BY <1>1, <1>2, <1>8, <2>1
  <1>10. f[i + 1] < M \/ N = M + d
    <2>1. Settled(s, t, d, 1 + f[i + 1])
      BY <1>2
    <2> QED
      BY <1>1, <1>9, <2>1 DEF Settled, M, N
  <1> QED
    BY <1>1, <1>2, <1>3, <1>9, <1>10

\* Tokens are words or others.
Pieces(sql) == {Other} \cup {Lower(SubSeq(sql, i, WordEnd(sql, i) - 1)) : i \in 1 .. Len(sql)}

\* The function SqlTokens is defined by, what it pushes from a place on.
Tokenizes(sql, f) ==
    f = [i \in 1 .. Len(sql) + 3 |->
            IF i > Len(sql) THEN <<>> ELSE Pushed(sql, i) \o f[Onward(sql, i)]]

\* The tokenizer goes forward, and not far beyond the end.
LEMMA OnwardIs ==
    ASSUME NEW sql, Len(sql) \in Nat, NEW i \in 1 .. Len(sql)
    PROVE  Onward(sql, i) \in i + 1 .. Len(sql) + 3
  <1> DEFINE N == Len(sql)
  <1>1. CASE IsSpace(sql, i)
    BY <1>1 DEF Onward
  <1>2. CASE ~IsSpace(sql, i) /\ OpensLine(sql, i)
    <2> DEFINE P == {j \in DOMAIN sql : sql[j] = "\n"}
    <2>1. i \notin P
      BY <1>2 DEF IsSpace
    <2>2. LineEnd(sql, i) = FirstFrom(sql, i, P)
      BY DEF LineEnd
    <2>3. /\ FirstFrom(sql, i, P) \in i .. N + 1
          /\ FirstFrom(sql, i, P) <= N => FirstFrom(sql, i, P) \in P
      BY FirstIs
    <2>4. FirstFrom(sql, i, P) # i
      BY <2>1, <2>3
    <2> HIDE DEF P
    <2> QED
      BY <1>2, <2>2, <2>3, <2>4 DEF Onward
  <1>3. CASE ~IsSpace(sql, i) /\ ~OpensLine(sql, i) /\ OpensBlock(sql, i)
    <2> DEFINE P == {j \in DOMAIN sql : Pair(sql, j, "*", "/")}
               k == i + 2
    <2>1. k \in 1 .. Len(sql) + 1
      BY <1>3 DEF OpensBlock, Pair
    <2> HIDE DEF P, k
    <2>2. FirstFrom(sql, k, P) \in k .. N + 1
      BY <2>1, FirstIs
    <2>3. BlockEnd(sql, i) = 2 + FirstFrom(sql, k, P)
      BY DEF BlockEnd, P, k
    <2> QED
      BY <1>3, <2>2, <2>3 DEF Onward, k
  <1>4. CASE /\ ~IsSpace(sql, i) /\ ~OpensLine(sql, i) /\ ~OpensBlock(sql, i)
             /\ OpensString(sql, i)
    <2>1. PICK end \in [i .. N + 2 -> i .. N + 2] :
              StringEnd(sql, i) = 1 + end[i + 1] /\ \A j \in i .. N + 2 : j <= end[j]
      BY StringEndIs
    <2>2. i + 1 \in i .. N + 2
      OBVIOUS
    <2> QED
      BY <1>4, <2>1, <2>2 DEF Onward
  <1>5. CASE /\ ~IsSpace(sql, i) /\ ~OpensLine(sql, i) /\ ~OpensBlock(sql, i)
             /\ ~OpensString(sql, i) /\ sql[i] \in SqlWords
    <2> DEFINE P == {j \in DOMAIN sql : sql[j] \notin SqlWords \cup SqlDigits \cup {"-"}}
    <2>1. i \notin P
      BY <1>5
    <2>2. WordEnd(sql, i) = FirstFrom(sql, i, P)
      BY DEF WordEnd
    <2>3. /\ FirstFrom(sql, i, P) \in i .. N + 1
          /\ FirstFrom(sql, i, P) <= N => FirstFrom(sql, i, P) \in P
      BY FirstIs
    <2>4. FirstFrom(sql, i, P) # i
      BY <2>1, <2>3
    <2> HIDE DEF P
    <2> QED
      BY <1>5, <2>2, <2>3, <2>4 DEF Onward
  <1>6. CASE /\ ~IsSpace(sql, i) /\ ~OpensLine(sql, i) /\ ~OpensBlock(sql, i)
             /\ ~OpensString(sql, i) /\ sql[i] \notin SqlWords
    BY <1>6 DEF Onward
  <1> QED
    BY <1>1, <1>2, <1>3, <1>4, <1>5, <1>6

\* What it pushes is one of the pieces, or nothing.
LEMMA PushedTyped ==
    ASSUME NEW sql, NEW i \in 1 .. Len(sql)
    PROVE  Pushed(sql, i) \in Seq(Pieces(sql))
  <1>1. Other \in Pieces(sql) /\ Lower(SubSeq(sql, i, WordEnd(sql, i) - 1)) \in Pieces(sql)
    BY DEF Pieces
  <1> QED
    BY <1>1 DEF Pushed

\* That function exists.
LEMMA TokensAre ==
    ASSUME NEW sql, Len(sql) \in Nat
    PROVE  \E f : Tokenizes(sql, f) /\ SqlTokens(sql) = f[1]
  <1> DEFINE N == Len(sql)
             D == 1 .. N + 3
             T == Seq(Pieces(sql))
             go(i, g) == IF i > N THEN <<>> ELSE Pushed(sql, i) \o g[Onward(sql, i)]
             body == [x \in D \X [D -> T] |-> go(x[1], x[2])]
             rank == [i \in D |-> N + 3 - i]
  <1>1. rank \in [D -> 0 .. N + 3] /\ N + 3 \in Nat
    OBVIOUS
  <1>2. \A i \in D, g \in [D -> T] : body[<<i, g>>] = go(i, g)
    <2> HIDE DEF D, T, go
    <2> QED
      OBVIOUS
  <1>3. ASSUME NEW i \in D, i <= N
        PROVE  Onward(sql, i) \in D /\ rank[Onward(sql, i)] < rank[i]
    <2>1. Onward(sql, i) \in i + 1 .. N + 3
      BY <1>3, OnwardIs
    <2> DEFINE k == Onward(sql, i)
    <2> HIDE DEF k
    <2>2. k \in i + 1 .. N + 3
      BY <2>1 DEF k
    <2>3. k \in D /\ rank[k] < rank[i]
      BY <2>2
    <2> QED
      BY <2>3 DEF k
  <1>4. <<>> \in T /\ \A i \in D : i <= N => Pushed(sql, i) \in T
    <2>1. \A i \in D : i <= N => i \in 1 .. Len(sql)
      OBVIOUS
    <2> QED
      BY <2>1, PushedTyped
  <1>5. ASSUME NEW i \in D, NEW g \in [D -> T] PROVE body[<<i, g>>] \in T
    <2>1. i > N \/ i <= N
      OBVIOUS
    <2>2. body[<<i, g>>] = go(i, g)
      BY <1>2
    <2> HIDE DEF D, rank, body, N
    <2>3. i <= N => g[Onward(sql, i)] \in T
      BY <1>3
    <2> QED
      BY <1>4, <2>1, <2>2, <2>3
  <1>6. ASSUME NEW i \in D, NEW g \in [D -> T], NEW h \in [D -> T],
               \A y \in D : rank[y] < rank[i] => g[y] = h[y]
        PROVE  body[<<i, g>>] = body[<<i, h>>]
    <2>1. i > N \/ i <= N
      OBVIOUS
    <2>2. body[<<i, g>>] = go(i, g) /\ body[<<i, h>>] = go(i, h)
      BY <1>2
    <2> HIDE DEF D, rank, body, N, T
    <2>3. i <= N => g[Onward(sql, i)] = h[Onward(sql, i)]
      BY <1>3, <1>6
    <2> QED
      BY <2>1, <2>2, <2>3
  <1>7. Causal(body, D, T, rank)
    <2> HIDE DEF D, rank, body, go, T
    <2> QED
      BY <1>5, <1>6 DEF Causal
  <1>8. Satisfied(body, D, T)
    <2> DEFINE K == N + 3
    <2>1. K \in Nat /\ rank \in [D -> 0 .. K] /\ T # {}
      BY <1>1, <1>4
    <2> HIDE DEF D, rank, body, N, K, T
    <2> QED
      BY <1>7, <2>1, RecursionHasAFunction
  <1>9. PICK f \in [D -> T] : \A i \in D : f[i] = go(i, f)
    <2> HIDE DEF D, body, go, T
    <2> QED
      BY <1>2, <1>8 DEF Satisfied
  <1>10. Tokenizes(sql, f)
    <2> HIDE DEF T
    <2> QED
      BY <1>9, f = [i \in D |-> f[i]] DEF Tokenizes
  <1> DEFINE g == CHOOSE h : Tokenizes(sql, h)
  <1>11. Tokenizes(sql, g) /\ SqlTokens(sql) = g[1]
    BY <1>10 DEF SqlTokens, Tokenizes
  <1> QED
    BY <1>11

\* No token, comment or blank of s runs on in t: t ends where s does, or has a
\* blank there.
Apart(s, t, d) == Len(t) = Len(s) + d \/ s[Len(s)] = Blank

\* Pairs of symbols are the same.
LEMMA PairAlike ==
    ASSUME NEW s, NEW t, Len(s) \in Nat, Len(t) \in Nat, NEW d \in Nat, Continues(s, t, d),
           NEW j \in 1 .. Len(s), NEW a, NEW b, Len(t) = Len(s) + d \/ s[Len(s)] # a
    PROVE  Pair(t, j + d, a, b) <=> Pair(s, j, a, b)
  <1>1. t[j + d] = s[j] /\ j + d \in 1 .. Len(t)
    BY DEF Continues
  <1>2. CASE j = Len(s)
    BY <1>1, <1>2 DEF Pair
  <1>3. CASE j < Len(s)
    <2>1. j + 1 \in 1 .. Len(s) /\ (j + 1) + d = (j + d) + 1
      BY <1>3
    <2>2. t[(j + d) + 1] = s[j + 1] /\ j + d < Len(t)
      BY <2>1 DEF Continues
    <2> QED
      BY <1>1, <1>3, <2>2 DEF Pair
  <1> QED
    BY <1>2, <1>3

\* What begins at a place begins there in both.
LEMMA OpensAlike ==
    ASSUME NEW s, NEW t, Len(s) \in Nat, Len(t) \in Nat, NEW d \in Nat, Continues(s, t, d),
           Apart(s, t, d), NEW i \in 1 .. Len(s)
    PROVE  /\ t[i + d] = s[i]
           /\ IsSpace(t, i + d) <=> IsSpace(s, i)
           /\ OpensLine(t, i + d) <=> OpensLine(s, i)
           /\ OpensBlock(t, i + d) <=> OpensBlock(s, i)
           /\ OpensString(t, i + d) <=> OpensString(s, i)
  <1>1. t[i + d] = s[i]
    BY DEF Continues
  <1>2. /\ Pair(t, i + d, "-", "-") <=> Pair(s, i, "-", "-")
        /\ Pair(t, i + d, "/", "/") <=> Pair(s, i, "/", "/")
        /\ Pair(t, i + d, "/", "*") <=> Pair(s, i, "/", "*")
    <2>1. Len(t) = Len(s) + d \/ (s[Len(s)] # "-" /\ s[Len(s)] # "/")
      BY Zenon DEF Apart, Blank
    <2> QED
      BY <2>1, PairAlike
  <1> QED
    BY <1>1, <1>2 DEF IsSpace, OpensLine, OpensBlock, OpensString

\* Words and comments end alike.
LEMMA EndsAlike ==
    ASSUME NEW s, NEW t, Len(s) \in Nat, Len(t) \in Nat, DOMAIN s = 1 .. Len(s), DOMAIN t = 1 .. Len(t),
           NEW d \in Nat, Continues(s, t, d), Apart(s, t, d), NEW i \in 1 .. Len(s)
    PROVE  /\ Settled(s, t, d, LineEnd(s, i)) => LineEnd(t, i + d) = LineEnd(s, i) + d
           /\ Settled(s, t, d, WordEnd(s, i)) => WordEnd(t, i + d) = WordEnd(s, i) + d
           /\ OpensBlock(s, i) /\ Settled(s, t, d, BlockEnd(s, i)) =>
                 BlockEnd(t, i + d) = BlockEnd(s, i) + d
  <1>1. \A j \in 1 .. Len(s) : j + d \in 1 .. Len(t) /\ t[j + d] = s[j]
    BY DEF Continues
  <1>2. ASSUME Settled(s, t, d, LineEnd(s, i)) PROVE LineEnd(t, i + d) = LineEnd(s, i) + d
    <2> DEFINE P == {j \in DOMAIN s : s[j] = "\n"}
               Q == {j \in DOMAIN t : t[j] = "\n"}
    <2>1. \A j \in 1 .. Len(s) : j \in P <=> j + d \in Q
      BY <1>1
    <2>2. LineEnd(s, i) = FirstFrom(s, i, P) /\ LineEnd(t, i + d) = FirstFrom(t, i + d, Q)
      BY DEF LineEnd
    <2>3. i \in 1 .. Len(s) + 1 /\ Settled(s, t, d, FirstFrom(s, i, P))
      BY <1>2, <2>2
    <2> HIDE DEF P, Q
    <2> QED
      BY <2>1, <2>2, <2>3, FirstAlike
  <1>3. ASSUME Settled(s, t, d, WordEnd(s, i)) PROVE WordEnd(t, i + d) = WordEnd(s, i) + d
    <2> DEFINE P == {j \in DOMAIN s : s[j] \notin SqlWords \cup SqlDigits \cup {"-"}}
               Q == {j \in DOMAIN t : t[j] \notin SqlWords \cup SqlDigits \cup {"-"}}
    <2>1. \A j \in 1 .. Len(s) : j \in P <=> j + d \in Q
      BY <1>1
    <2>2. WordEnd(s, i) = FirstFrom(s, i, P) /\ WordEnd(t, i + d) = FirstFrom(t, i + d, Q)
      BY DEF WordEnd
    <2>3. i \in 1 .. Len(s) + 1 /\ Settled(s, t, d, FirstFrom(s, i, P))
      BY <1>3, <2>2
    <2> HIDE DEF P, Q
    <2> QED
      BY <2>1, <2>2, <2>3, FirstAlike
  <1>4. ASSUME OpensBlock(s, i), Settled(s, t, d, BlockEnd(s, i))
        PROVE  BlockEnd(t, i + d) = BlockEnd(s, i) + d
    <2> DEFINE P == {j \in DOMAIN s : Pair(s, j, "*", "/")}
               Q == {j \in DOMAIN t : Pair(t, j, "*", "/")}
               k == i + 2
    <2>1. \A j \in 1 .. Len(s) : j \in P <=> j + d \in Q
      <3>1. Len(t) = Len(s) + d \/ s[Len(s)] # "*"
        BY Zenon DEF Apart, Blank
      <3>2. \A j \in 1 .. Len(s) : Pair(t, j + d, "*", "/") <=> Pair(s, j, "*", "/")
        BY <3>1, PairAlike
      <3> QED
        BY <1>1, <3>2
    <2>2. k \in 1 .. Len(s) + 1 /\ (i + d) + 2 = k + d
      BY <1>4 DEF OpensBlock, Pair
    <2>3. BlockEnd(s, i) = 2 + FirstFrom(s, k, P) /\ BlockEnd(t, i + d) = 2 + FirstFrom(t, k + d, Q)
      BY <2>2 DEF BlockEnd
    <2> HIDE DEF P, Q, k
    <2>4. FirstFrom(s, k, P) \in Nat
      BY <2>2, FirstIs
    <2>5. Settled(s, t, d, FirstFrom(s, k, P))
      <3>1. BlockEnd(s, i) <= Len(s) => FirstFrom(s, k, P) <= Len(s)
        BY <2>3, <2>4
      <3> QED
        BY <1>4, <3>1 DEF Settled
    <2>6. FirstFrom(t, k + d, Q) = FirstFrom(s, k, P) + d
      BY <2>1, <2>2, <2>5, FirstAlike
    <2> QED
      BY <2>3, <2>4, <2>6
  <1> QED
    BY <1>2, <1>3, <1>4

\* The tokenizer does the same at the same place.
LEMMA StepAlike ==
    ASSUME NEW X, NEW s \in Seq(X), NEW t \in Seq(X), NEW d \in Nat, Continues(s, t, d),
           Apart(s, t, d), NEW i \in 1 .. Len(s), Settled(s, t, d, Onward(s, i))
    PROVE  Onward(t, i + d) = Onward(s, i) + d /\ Pushed(t, i + d) = Pushed(s, i)
  <1>1. /\ Len(s) \in Nat /\ Len(t) \in Nat /\ DOMAIN s = 1 .. Len(s) /\ DOMAIN t = 1 .. Len(t)
        /\ i \in Nat
    OBVIOUS
  <1>2. /\ t[i + d] = s[i]
        /\ IsSpace(t, i + d) <=> IsSpace(s, i)
        /\ OpensLine(t, i + d) <=> OpensLine(s, i)
        /\ OpensBlock(t, i + d) <=> OpensBlock(s, i)
        /\ OpensString(t, i + d) <=> OpensString(s, i)
    BY <1>1, OpensAlike
  <1>3. /\ Settled(s, t, d, LineEnd(s, i)) => LineEnd(t, i + d) = LineEnd(s, i) + d
        /\ Settled(s, t, d, WordEnd(s, i)) => WordEnd(t, i + d) = WordEnd(s, i) + d
        /\ OpensBlock(s, i) /\ Settled(s, t, d, BlockEnd(s, i)) =>
              BlockEnd(t, i + d) = BlockEnd(s, i) + d
    BY <1>1, EndsAlike
  <1>4. Settled(s, t, d, StringEnd(s, i)) => StringEnd(t, i + d) = StringEnd(s, i) + d
    BY <1>1, StringAlike
  <1>5. (i + d) + 1 = (i + 1) + d
    OBVIOUS
  <1>6. OpensString(s, i) => s[i] \notin SqlWords
    BY SqlAssumption DEF OpensString
  <1>7. Onward(t, i + d) = Onward(s, i) + d
    BY <1>2, <1>3, <1>4, <1>5 DEF Onward
  <1>8. ASSUME ~IsSpace(s, i), ~OpensLine(s, i), ~OpensBlock(s, i), s[i] \in SqlWords
        PROVE  SubSeq(t, i + d, WordEnd(t, i + d) - 1) = SubSeq(s, i, WordEnd(s, i) - 1)
    <2> DEFINE e == WordEnd(s, i)
    <2>1. e = Onward(s, i) /\ Settled(s, t, d, e)
      BY <1>6, <1>8 DEF Onward
    <2>2. WordEnd(t, i + d) = e + d
      BY <1>3, <2>1
    <2>3. e \in i .. Len(s) + 1
      <3> DEFINE P == {j \in DOMAIN s : s[j] \notin SqlWords \cup SqlDigits \cup {"-"}}
      <3>1. e = FirstFrom(s, i, P) /\ i \in 1 .. Len(s) + 1
        BY DEF WordEnd
      <3> HIDE DEF e, P
      <3> QED
        BY <1>1, <3>1, FirstIs
    <2> HIDE DEF e
    <2>4. (e + d) - 1 <= Len(t) /\ e - 1 <= Len(s)
      <3>1. Len(s) + d <= Len(t)
        BY <1>1, EndsWithin
      <3> QED
        BY <1>1, <2>3, <3>1
    <2> DEFINE u == SubSeq(t, i + d, (e + d) - 1)
               v == SubSeq(s, i, e - 1)
    <2>5. v \in Seq(X) /\ Len(v) = e - i /\ \A k \in 1 .. e - i : v[k] = s[k + i - 1]
      BY <1>1, <2>3, <2>4
    <2>6. u \in Seq(X) /\ Len(u) = e - i /\ \A k \in 1 .. e - i : u[k] = t[k + (i + d) - 1]
      BY <1>1, <2>3, <2>4
    <2> HIDE DEF u, v
    <2>7. \A k \in 1 .. e - i : u[k] = v[k]
      <3> SUFFICES ASSUME NEW k \in 1 .. e - i PROVE u[k] = v[k]
        OBVIOUS
      <3>1. k + i - 1 \in 1 .. Len(s) /\ (k + i - 1) + d = k + (i + d) - 1
        BY <1>1, <2>3, <2>4
      <3> QED
        BY <2>5, <2>6, <3>1 DEF Continues
    <2>8. u = v
      BY <2>5, <2>6, <2>7
    <2> QED
      BY <2>2, <2>8 DEF u, v, e
  <1>9. Pushed(t, i + d) = Pushed(s, i)
    BY <1>2, <1>8 DEF Pushed
  <1> QED
    BY <1>7, <1>9

\* What the tokenizer pushes from each place on.
LEMMA TokensFrom ==
    ASSUME NEW sql, Len(sql) \in Nat, NEW f, Tokenizes(sql, f)
    PROVE  /\ \A i \in 1 .. Len(sql) : f[i] = Pushed(sql, i) \o f[Onward(sql, i)]
           /\ \A i \in Len(sql) + 1 .. Len(sql) + 3 : f[i] = <<>>
  <1>1. \A i \in 1 .. Len(sql) + 3 :
            f[i] = IF i > Len(sql) THEN <<>> ELSE Pushed(sql, i) \o f[Onward(sql, i)]
    BY DEF Tokenizes
  <1>2. \A i \in 1 .. Len(sql) : i \in 1 .. Len(sql) + 3 /\ ~(i > Len(sql))
    OBVIOUS
  <1>3. \A i \in Len(sql) + 1 .. Len(sql) + 3 : i \in 1 .. Len(sql) + 3 /\ i > Len(sql)
    OBVIOUS
  <1> QED
    BY <1>1, <1>2, <1>3, Zenon

\* They are sequences.
LEMMA TokensTyped ==
    ASSUME NEW sql, Len(sql) \in Nat, NEW f, Tokenizes(sql, f)
    PROVE  \A i \in 1 .. Len(sql) + 3 : <<>> \o f[i] = f[i]
  <1> DEFINE K == Len(sql) + 3
             T == Seq(Pieces(sql))
             S == {i \in 1 .. K : f[i] \in T}
  <1>1. /\ \A i \in 1 .. Len(sql) : f[i] = Pushed(sql, i) \o f[Onward(sql, i)]
        /\ \A i \in Len(sql) + 1 .. Len(sql) + 3 : f[i] = <<>>
    BY TokensFrom
  <1>2. ASSUME NEW i \in 1 .. K, \A k \in i + 1 .. K : k \in S PROVE f[i] \in T
    <2>1. CASE i > Len(sql)
      <3>1. f[i] = <<>>
        BY <1>1, <2>1
      <3> QED
        BY <3>1
    <2>2. CASE i <= Len(sql)
      <3>1. i \in 1 .. Len(sql)
        BY <2>2
      <3>2. Onward(sql, i) \in i + 1 .. K
        BY <3>1, OnwardIs
      <3>3. f[Onward(sql, i)] \in T
        BY <1>2, <3>2
      <3>4. Pushed(sql, i) \in T
        BY <3>1, PushedTyped
      <3>5. f[i] = Pushed(sql, i) \o f[Onward(sql, i)]
        BY <1>1, <3>1
      <3> QED
        BY <3>3, <3>4, <3>5
    <2> QED
      BY <2>1, <2>2
  <1>3. \A i \in 1 .. K : i \in S
    <2>1. 1 \in Int /\ K \in Int
      OBVIOUS
    <2>2. \A i \in 1 .. K : (\A k \in i + 1 .. K : k \in S) => i \in S
      BY <1>2
    <2> HIDE DEF S, K
    <2> QED
      BY <2>1, <2>2, DownTo
  <1>4. \A u \in T : <<>> \o u = u
    OBVIOUS
  <1> QED
    BY <1>3, <1>4

\* A text that another ends with gives the same tokens there.
LEMMA TailAlike ==
    ASSUME NEW X, NEW s \in Seq(X), NEW t \in Seq(X), NEW d \in Nat, Continues(s, t, d),
           Len(t) = Len(s) + d, NEW f, Tokenizes(s, f), NEW g, Tokenizes(t, g)
    PROVE  g[1 + d] = f[1]
  <1> DEFINE M == Len(s)
             K == M + 3
             S == {i \in 1 .. K : g[i + d] = f[i]}
  <1>1. M \in Nat /\ K \in Int /\ 1 \in Int /\ K = M + 3 /\ Len(t) \in Nat
    OBVIOUS
  <1>2. /\ \A i \in 1 .. M : f[i] = Pushed(s, i) \o f[Onward(s, i)]
        /\ \A i \in M + 1 .. M + 3 : f[i] = <<>>
    BY <1>1, TokensFrom
  <1>3. /\ \A i \in 1 .. Len(t) : g[i] = Pushed(t, i) \o g[Onward(t, i)]
        /\ \A i \in Len(t) + 1 .. Len(t) + 3 : g[i] = <<>>
    BY <1>1, TokensFrom
  <1>4. ASSUME NEW i \in 1 .. K, \A k \in i + 1 .. K : k \in S PROVE i \in S
    <2>1. CASE i > M
      <3>1. i \in M + 1 .. M + 3 /\ i + d \in Len(t) + 1 .. Len(t) + 3
        BY <1>1, <2>1
      <3> QED
        BY <1>2, <1>3, <3>1
    <2>2. CASE i <= M
      <3>1. i \in 1 .. M /\ i + d \in 1 .. Len(t)
        BY <1>1, <2>2
      <3>2. Onward(s, i) \in i + 1 .. K
        BY <1>1, <3>1, OnwardIs
      <3>3. Onward(t, i + d) = Onward(s, i) + d /\ Pushed(t, i + d) = Pushed(s, i)
        <4>1. Apart(s, t, d) /\ Settled(s, t, d, Onward(s, i))
          BY DEF Apart, Settled
        <4> QED
          BY <3>1, <4>1, StepAlike
      <3>4. g[Onward(s, i) + d] = f[Onward(s, i)]
        BY <1>4, <3>2
      <3>5. g[i + d] = Pushed(s, i) \o f[Onward(s, i)]
        BY <1>3, <3>1, <3>3, <3>4
      <3> QED
        BY <1>2, <3>1, <3>5
    <2> QED
      BY <1>1, <2>1, <2>2
  <1>5. \A i \in 1 .. K : i \in S
    <2> HIDE DEF S, K
    <2> QED
      BY <1>1, <1>4, DownTo
  <1>6. 1 \in 1 .. K
    BY <1>1
  <1> QED
    BY <1>5, <1>6

EndsBlank(s) == Len(s) # 0 /\ s[Len(s)] = Blank

\* Texts that begin alike give the same tokens if they do so from there on.
LEMMA HeadAlike ==
    ASSUME NEW X, NEW s \in Seq(X), NEW t \in Seq(X), NEW u \in Seq(X),
           EndsBlank(s), Continues(s, t, 0), Continues(s, u, 0),
           NEW stops, Stops(s, stops),
           NEW f, Tokenizes(t, f), NEW g, Tokenizes(u, g), f[Len(s)] = g[Len(s)]
    PROVE  f[1] = g[1]
  <1> DEFINE M == Len(s)
             S == {i \in 1 .. M : i \in stops => f[i] = g[i]}
  <1>1. M \in Nat /\ M \in 1 .. M /\ M <= Len(t) /\ M <= Len(u) /\ Len(t) \in Nat /\ Len(u) \in Nat
    <2>1. M # 0
      BY Zenon DEF EndsBlank
    <2>2. M + 0 <= Len(t) /\ M + 0 <= Len(u)
      BY <2>1, EndsWithin
    <2> QED
      BY <2>1, <2>2
  <1>2. Apart(s, t, 0) /\ Apart(s, u, 0)
    BY Zenon DEF Apart, EndsBlank
  <1>3. ASSUME NEW i \in 1 .. M, \A k \in i + 1 .. M : k \in S PROVE i \in S
    <2> SUFFICES ASSUME i \in stops, i # M PROVE f[i] = g[i]
      OBVIOUS
    <2>1. i < M
      BY <1>1
    <2>2. Onward(s, i) \in stops /\ Onward(s, i) \in i + 1 .. M + 3 /\ Onward(s, i) \in 1 .. M
      BY <1>1, <2>1, OnwardIs DEF Stops
    <2>3. Onward(s, i) \in i + 1 .. M
      BY <2>2
    <2>4. f[Onward(s, i)] = g[Onward(s, i)]
      BY <1>3, <2>2, <2>3
    <2>5. Settled(s, t, 0, Onward(s, i)) /\ Settled(s, u, 0, Onward(s, i))
      BY <2>2 DEF Settled
    <2>6. Onward(t, i + 0) = Onward(s, i) + 0 /\ Pushed(t, i + 0) = Pushed(s, i)
      BY <1>2, <2>5, StepAlike
    <2>7. Onward(u, i + 0) = Onward(s, i) + 0 /\ Pushed(u, i + 0) = Pushed(s, i)
      BY <1>2, <2>5, StepAlike
    <2>8. i + 0 = i /\ Onward(s, i) + 0 = Onward(s, i) /\ i \in 1 .. Len(t) /\ i \in 1 .. Len(u)
      BY <1>1, <2>2
    <2>9. f[i] = Pushed(t, i) \o f[Onward(t, i)] /\ g[i] = Pushed(u, i) \o g[Onward(u, i)]
      BY <1>1, <2>8, TokensFrom
    <2> QED
      BY <2>4, <2>6, <2>7, <2>8, <2>9
  <1>4. \A i \in 1 .. M : i \in S
    <2>1. 1 \in Int /\ M \in Int
      BY <1>1
    <2> HIDE DEF S, M
    <2> QED
      BY <1>3, <2>1, DownTo
  <1>5. 1 \in 1 .. M /\ 1 \in stops
    BY <1>1 DEF Stops
  <1> QED
    BY <1>4, <1>5

\* A text, whatever it is, that stands in a statement, and may be a comment.
CommentInput(Symbols) ==
    { in \in [ kind : {"comment"}, before : Seq(Symbols \cup {Blank}), comment : Seq(Symbols \cup {Blank}),
               after : Seq(Symbols \cup {Blank}) ] :
        StandsFree(in.before) /\ IsComment(in.comment) }

\* A comment begins with no blank, and ends where the tokenizer goes on, or at the
\* end of its line.
LEMMA CommentIs ==
    ASSUME NEW X, Blank \in X, NEW comment \in Seq(X), IsComment(comment)
    PROVE  \E text \in Seq(X) :
              /\ text = comment \o <<Blank>> /\ EndsBlank(text) /\ Len(text) = Len(comment) + 1
              /\ Pushed(text, 1) = <<>> /\ comment # <<>>
              /\ \/ Onward(text, 1) = Len(comment) + 1
                 \/ Onward(text, 1) = Len(comment) /\ IsSpace(text, Len(comment))
  <1> DEFINE text == comment \o <<Blank>>
             L == Len(comment)
  <1>1. <<Blank>> \in Seq(X) /\ Len(<<Blank>>) = 1 /\ <<Blank>>[1] = Blank
    OBVIOUS
  <1>2. text \in Seq(X) /\ Len(text) = L + 1 /\ L \in Nat /\ text[L + 1] = Blank
    <2>1. text \in Seq(X) /\ Len(text) = L + Len(<<Blank>>) /\ \A i \in 1 .. Len(<<Blank>>) : text[L + i] = <<Blank>>[i]
      BY <1>1, ConcatFacts
    <2> QED
      BY <1>1, <2>1
  <1>3. IsComment(comment) <=>
           \/ OpensLine(text, 1) /\ LineEnd(text, 1) = L
           \/ OpensBlock(text, 1) /\ BlockEnd(text, 1) = L + 1
    BY DEF IsComment
  <1>4. EndsBlank(text)
    <2> HIDE DEF text
    <2>1. Len(text) # 0
      BY <1>2
    <2> QED
      BY <1>2, <2>1, Zenon DEF EndsBlank
  <1>5. comment = <<>> => text[1] = Blank
    BY <1>2
  <1> HIDE DEF text
  <1>6. OpensLine(text, 1) => text[1] \in {"-", "#", "/"}
    BY DEF OpensLine, Pair
  <1>7. OpensBlock(text, 1) => text[1] = "/" /\ text[2] = "*"
    BY DEF OpensBlock, Pair
  <1>8. OpensBlock(text, 1) => ~OpensLine(text, 1)
    BY <1>7 DEF OpensLine, Pair
  <1>9. OpensLine(text, 1) \/ OpensBlock(text, 1) => ~IsSpace(text, 1) /\ comment # <<>>
    BY <1>5, <1>6, <1>7, Zenon DEF IsSpace, Blank
  <1>10. OpensLine(text, 1) \/ OpensBlock(text, 1)
    BY <1>3
  <1>11. Pushed(text, 1) = <<>>
    BY <1>10 DEF Pushed
  <1>12. CASE OpensLine(text, 1) /\ LineEnd(text, 1) = L
    <2> DEFINE P == {j \in DOMAIN text : text[j] = "\n"}
    <2>1. Onward(text, 1) = L
      BY <1>9, <1>12 DEF Onward
    <2>2. LineEnd(text, 1) = FirstFrom(text, 1, P)
      BY DEF LineEnd
    <2>3. FirstFrom(text, 1, P) <= Len(text) => FirstFrom(text, 1, P) \in P
      <3>1. Len(text) \in Nat /\ 1 \in 1 .. Len(text) + 1
        BY <1>2
      <3> HIDE DEF P
      <3> QED
        BY <3>1, FirstIs
    <2>4. L \in P
      <3> HIDE DEF P
      <3> QED
        BY <1>2, <1>12, <2>2, <2>3
    <2>5. IsSpace(text, L)
      BY <2>4, Zenon DEF IsSpace
    <2> QED
      BY <1>2, <1>4, <1>9, <1>11, <1>12, <2>1, <2>5 DEF text
  <1>13. CASE OpensBlock(text, 1) /\ BlockEnd(text, 1) = L + 1
    <2>1. Onward(text, 1) = L + 1
      BY <1>8, <1>9, <1>13 DEF Onward
    <2> QED
      BY <1>2, <1>4, <1>9, <1>11, <1>13, <2>1 DEF text
  <1> QED
    BY <1>3, <1>12, <1>13

\* Texts one after the other.
LEMMA ContinuesParts ==
    ASSUME NEW X, NEW x \in Seq(X), NEW y \in Seq(X), NEW z \in Seq(X)
    PROVE  /\ Continues(x, x \o y, 0) /\ Continues(y, x \o y, Len(x))
           /\ Continues(y, (x \o y) \o z, Len(x))
  <1>1. /\ x \o y \in Seq(X) /\ Len(x \o y) = Len(x) + Len(y)
        /\ \A i \in 1 .. Len(x) : (x \o y)[i] = x[i]
        /\ \A i \in 1 .. Len(y) : (x \o y)[Len(x) + i] = y[i]
    BY ConcatFacts
  <1> DEFINE u == x \o y
             m == Len(x)
             n == Len(y)
  <1>2. /\ u \o z \in Seq(X) /\ Len(u \o z) = Len(u) + Len(z)
        /\ \A i \in 1 .. Len(u) : (u \o z)[i] = u[i]
    BY <1>1, ConcatFacts
  <1>3. m \in Nat /\ n \in Nat /\ Len(z) \in Nat
    OBVIOUS
  <1> DEFINE v == u \o z
  <1> HIDE DEF u, v, m, n
  <1>5. Continues(x, u, 0)
    BY <1>1, <1>3 DEF Continues, u, m, n
  <1>6. ASSUME NEW j \in 1 .. n
        PROVE  j + m \in 1 .. m + n /\ j + m = m + j /\ u[j + m] = y[j]
    BY <1>1, <1>3 DEF u, m, n
  <1>7. Continues(y, u, m)
    BY <1>1, <1>6 DEF Continues, u, m, n
  <1>8. Continues(y, v, m)
    <2>1. \A j \in 1 .. n : j + m \in 1 .. Len(u) /\ j + m \in 1 .. Len(v) /\ v[j + m] = y[j]
      BY <1>1, <1>2, <1>3, <1>6 DEF u, m, n, v
    <2> QED
      BY <2>1 DEF Continues, n
  <1> QED
    BY <1>5, <1>7, <1>8 DEF u, v, m

\* The tokenizer goes over a blank without a trace, ...
LEMMA SpacePassed ==
    ASSUME NEW sql, Len(sql) \in Nat, NEW f, Tokenizes(sql, f), NEW i \in 1 .. Len(sql), IsSpace(sql, i)
    PROVE  f[i] = f[i + 1]
  <1>1. f[i] = <<>> \o f[i + 1]
    BY TokensFrom DEF Pushed, Onward
  <1>2. i + 1 \in 1 .. Len(sql) + 3
    OBVIOUS
  <1> QED
    BY <1>1, <1>2, TokensTyped

\* ... and over a comment.
LEMMA CommentPassed ==
    ASSUME NEW X, Blank \in X, NEW s \in Seq(X), EndsBlank(s), NEW comment \in Seq(X), IsComment(comment),
           NEW t \in Seq(X), Continues(s, t, 0), Continues(comment \o <<Blank>>, t, Len(s)),
           NEW f, Tokenizes(t, f)
    PROVE  f[Len(s)] = f[Len(s) + Len(comment) + 1]
  <1> DEFINE M == Len(s)
             L == Len(comment)
  <1>1. PICK text \in Seq(X) :
              /\ text = comment \o <<Blank>> /\ EndsBlank(text) /\ Len(text) = L + 1
              /\ Pushed(text, 1) = <<>> /\ comment # <<>>
              /\ \/ Onward(text, 1) = L + 1
                 \/ Onward(text, 1) = L /\ IsSpace(text, L)
    BY CommentIs
  <1>2. /\ Continues(text, t, M) /\ M \in Nat /\ L \in Nat /\ L # 0 /\ M # 0
        /\ Len(text) = L + 1 /\ M + L + 1 <= Len(t) /\ Len(t) \in Nat
    <2>1. Continues(text, t, M) /\ M \in Nat /\ L \in Nat /\ L # 0 /\ Len(t) \in Nat /\ Len(text) = L + 1
      BY <1>1
    <2>2. M # 0
      BY Zenon DEF EndsBlank
    <2>3. Len(text) + M <= Len(t)
      BY <2>1, EndsWithin
    <2> QED
      BY <2>1, <2>2, <2>3
  <1>3. Apart(text, t, M)
    BY <1>1, Zenon DEF Apart, EndsBlank
  <1>4. Onward(t, 1 + M) = Onward(text, 1) + M /\ Pushed(t, 1 + M) = <<>>
    <2>1. 1 \in 1 .. Len(text) /\ Settled(text, t, M, Onward(text, 1))
      BY <1>1, <1>2 DEF Settled
    <2>2. Onward(t, 1 + M) = Onward(text, 1) + M /\ Pushed(t, 1 + M) = Pushed(text, 1)
      BY <1>2, <1>3, <2>1, StepAlike
    <2> QED
      BY <1>1, <2>2
  <1>5. f[1 + M] = f[Onward(text, 1) + M]
    <2>1. 1 + M \in 1 .. Len(t) /\ Onward(text, 1) + M \in 1 .. Len(t) + 3
      BY <1>1, <1>2
    <2>2. f[1 + M] = Pushed(t, 1 + M) \o f[Onward(t, 1 + M)]
      BY <1>2, <2>1, TokensFrom
    <2>3. f[Onward(text, 1) + M] = <<>> \o f[Onward(text, 1) + M]
      BY <1>2, <2>1, TokensTyped
    <2> QED
      BY <1>4, <2>1, <2>2, <2>3
  <1>6. f[M] = f[1 + M]
    <2>1. M \in 1 .. Len(t) /\ M \in 1 .. M /\ 1 + M \in 1 .. Len(t) + 3 /\ M + 1 = 1 + M
      BY <1>2
    <2>2. t[M] = s[M]
      <3>1. t[M + 0] = s[M]
        BY <2>1 DEF Continues
      <3>2. M + 0 = M
        BY <1>2
      <3> QED
        BY <3>1, <3>2
    <2>3. IsSpace(t, M)
      BY <2>2, Zenon DEF IsSpace, EndsBlank, Blank
    <2>4. f[M] = f[M + 1]
      BY <1>2, <2>1, <2>3, SpacePassed
    <2> QED
      BY <2>1, <2>4
  <1>7. CASE Onward(text, 1) = L + 1
    <2>1. (L + 1) + M = M + L + 1
      BY <1>2
    <2> QED
      BY <1>5, <1>6, <1>7, <2>1
  <1>8. CASE Onward(text, 1) = L /\ IsSpace(text, L)
    <2>1. /\ L \in 1 .. Len(text) /\ L + M \in 1 .. Len(t) /\ (L + M) + 1 = M + L + 1
          /\ M + L + 1 \in 1 .. Len(t) + 3
      BY <1>2
    <2>2. IsSpace(t, L + M)
      <3> HIDE DEF L, M
      <3>1. Len(text) \in Nat
        BY <1>2
      <3>2. IsSpace(t, L + M) <=> IsSpace(text, L)
        BY <1>2, <1>3, <2>1, <3>1, OpensAlike
      <3> QED
        BY <1>8, <3>2
    <2>3. f[L + M] = f[(L + M) + 1]
      BY <1>2, <2>1, <2>2, SpacePassed
    <2> QED
      BY <1>5, <1>6, <1>8, <2>1, <2>3
  <1> QED
    BY <1>1, <1>7, <1>8

\* Three texts, and where the last two and the first two are in them.
LEMMA ThreeParts ==
    ASSUME NEW X, NEW x \in Seq(X), NEW y \in Seq(X), NEW z \in Seq(X)
    PROVE  /\ (x \o y) \o z \in Seq(X) /\ Len((x \o y) \o z) = Len(y \o z) + Len(x)
           /\ Continues(x \o y, (x \o y) \o z, 0) /\ Continues(y \o z, (x \o y) \o z, Len(x))
  <1> DEFINE u == x \o y
             v == y \o z
  <1>1. u \in Seq(X) /\ v \in Seq(X) /\ Len(x) \in Nat /\ Len(v) \in Nat
    OBVIOUS
  <1>2. u \o z = x \o v
    OBVIOUS
  <1> HIDE DEF u, v
  <1>3. Continues(u, u \o z, 0) /\ u \o z \in Seq(X)
    BY <1>1, ContinuesParts
  <1>4. Continues(v, x \o v, Len(x)) /\ Len(x \o v) = Len(x) + Len(v)
    BY <1>1, ContinuesParts
  <1>5. Len(x) + Len(v) = Len(v) + Len(x)
    BY <1>1
  <1> QED
    BY <1>2, <1>3, <1>4, <1>5 DEF u, v

\* Four texts: the second with the third, the third with the fourth.
LEMMA FourParts ==
    ASSUME NEW X, NEW s \in Seq(X), NEW c \in Seq(X), NEW o \in Seq(X), NEW a \in Seq(X)
    PROVE  /\ ((s \o c) \o o) \o a \in Seq(X)
           /\ Len(((s \o c) \o o) \o a) = Len(o \o a) + (Len(s) + Len(c))
           /\ Continues(s, ((s \o c) \o o) \o a, 0)
           /\ Continues(c \o o, ((s \o c) \o o) \o a, Len(s))
           /\ Continues(o \o a, ((s \o c) \o o) \o a, Len(s) + Len(c))
  <1> DEFINE h == s \o c
             t == c \o o
             r == t \o a
  <1>1. h \in Seq(X) /\ Len(h) = Len(s) + Len(c) /\ t \in Seq(X) /\ r \in Seq(X)
    OBVIOUS
  <1>2. h \o o = s \o t
    OBVIOUS
  <1>3. (s \o t) \o a = s \o r
    <2>1. t \in Seq(X)
      BY <1>1
    <2> HIDE DEF t
    <2> QED
      BY <2>1, SMTT(40)
  <1> HIDE DEF h, t, r
  <1>4. /\ (h \o o) \o a \in Seq(X) /\ Len((h \o o) \o a) = Len(o \o a) + Len(h)
        /\ Continues(o \o a, (h \o o) \o a, Len(h))
    BY <1>1, ThreeParts
  <1>5. Continues(t, (s \o t) \o a, Len(s))
    BY <1>1, ContinuesParts
  <1>6. Continues(s, s \o r, 0)
    BY <1>1, ContinuesParts
  <1> QED
    BY <1>1, <1>2, <1>3, <1>4, <1>5, <1>6 DEF h, t

\* With the comment or without, the same tokens.
LEMMA SameTokens ==
    ASSUME NEW X, Blank \in X, NEW before \in Seq(X), NEW comment \in Seq(X), NEW after \in Seq(X),
           StandsFree(before), IsComment(comment)
    PROVE  SqlTokens(before \o <<Blank>> \o comment \o <<Blank>> \o after)
              = SqlTokens(before \o <<Blank>> \o after)
  <1> DEFINE one == <<Blank>>
             s == before \o one
             tail == one \o after
             with == ((s \o comment) \o one) \o after
             bare == s \o after
             B == Len(before)
             L == Len(comment)
  <1>1. one \in Seq(X) /\ Len(one) = 1 /\ one[1] = Blank
    OBVIOUS
  <1>2. Continues(comment \o <<Blank>>, with, Len(s)) <=> Continues(comment \o one, with, Len(s))
    OBVIOUS
  <1>3. StandsFree(before) <=> \E stops : Stops(s, stops)
    BY DEF StandsFree
  <1> HIDE DEF one
  <1>4. s \in Seq(X) /\ Len(s) = B + 1 /\ s[B + 1] = one[1] /\ B \in Nat
    <2>1. /\ s \in Seq(X) /\ Len(s) = B + Len(one)
          /\ \A i \in 1 .. Len(one) : s[B + i] = one[i]
      <3>1. one \in Seq(X)
        BY <1>1
      <3> QED
        BY <3>1
    <2>2. 1 \in 1 .. Len(one) /\ B \in Nat
      BY <1>1
    <2> QED
      BY <1>1, <2>1, <2>2
  <1>5. tail \in Seq(X) /\ Len(tail) \in Nat /\ L \in Nat
    BY <1>1
  <1>6. /\ bare \in Seq(X) /\ Len(bare) = Len(tail) + B
        /\ Continues(s, bare, 0) /\ Continues(tail, bare, B)
    BY <1>1, ThreeParts
  <1> HIDE DEF s
  <1>7. /\ with \in Seq(X) /\ Len(with) = Len(tail) + (Len(s) + L)
        /\ Continues(s, with, 0) /\ Continues(comment \o one, with, Len(s))
        /\ Continues(tail, with, Len(s) + L)
    <2>1. s \in Seq(X)
      BY <1>4
    <2> HIDE DEF L, with, tail
    <2>2. /\ ((s \o comment) \o one) \o after \in Seq(X)
          /\ Len(((s \o comment) \o one) \o after) = Len(one \o after) + (Len(s) + Len(comment))
          /\ Continues(s, ((s \o comment) \o one) \o after, 0)
          /\ Continues(comment \o one, ((s \o comment) \o one) \o after, Len(s))
          /\ Continues(one \o after, ((s \o comment) \o one) \o after, Len(s) + Len(comment))
      BY <1>1, <2>1, FourParts, Zenon
    <2> QED
      BY <2>2, Zenon DEF with, tail, L
  <1> HIDE DEF tail, with, bare
  <1>8. Len(with) \in Nat /\ Len(bare) \in Nat /\ Len(s) \in Nat /\ Len(s) + L \in Nat
    BY <1>4, <1>5, <1>6, <1>7
  <1>9. EndsBlank(s)
    BY <1>1, <1>4 DEF EndsBlank
  <1>10. PICK stops : Stops(s, stops)
    BY <1>3
  <1>12. PICK f : Tokenizes(with, f) /\ SqlTokens(with) = f[1]
    BY <1>8, TokensAre
  <1>13. PICK g : Tokenizes(bare, g) /\ SqlTokens(bare) = g[1]
    BY <1>8, TokensAre
  <1>14. PICK k : Tokenizes(tail, k) /\ SqlTokens(tail) = k[1]
    BY <1>5, TokensAre
  <1>15. f[Len(s)] = f[Len(s) + L + 1]
    <2>1. Continues(comment \o <<Blank>>, with, Len(s))
      BY <1>2, <1>7
    <2> QED
      BY <1>4, <1>7, <1>9, <1>12, <2>1, CommentPassed, Zenon
  <1>16. f[1 + (Len(s) + L)] = k[1]
    BY <1>5, <1>7, <1>8, <1>12, <1>14, TailAlike
  <1>17. g[1 + B] = k[1]
    BY <1>4, <1>5, <1>6, <1>8, <1>13, <1>14, TailAlike
  <1>18. f[Len(s)] = g[Len(s)]
    <2>1. Len(s) + L + 1 = 1 + (Len(s) + L) /\ Len(s) = 1 + B
      BY <1>4, <1>5
    <2> QED
      BY <1>15, <1>16, <1>17, <2>1
  <1>19. f[1] = g[1]
    BY <1>4, <1>6, <1>7, <1>8, <1>9, <1>10, <1>12, <1>13, <1>18, HeadAlike
  <1>20. SqlTokens(with) = SqlTokens(bare)
    BY <1>12, <1>13, <1>19
  <1> QED
    BY <1>20, Zenon DEF with, bare, s, one

\* Wherever a statement has a comment, and whatever is in it, the statement is
\* routed and judged as without it (tokenize).
LEMMA CommentsDoNotRouteHolds ==
    ASSUME NEW Symbols, input \in CommentInput(Symbols)
    PROVE  CommentsDoNotRoute
  <1> DEFINE X == Symbols \cup {Blank}
             before == input.before
             comment == input.comment
             after == input.after
  <1>1. /\ Blank \in X /\ before \in Seq(X) /\ comment \in Seq(X) /\ after \in Seq(X)
        /\ StandsFree(before) /\ IsComment(comment)
    BY DEF CommentInput
  <1> HIDE DEF X, before, comment, after
  <1>2. SqlTokens(before \o <<Blank>> \o comment \o <<Blank>> \o after)
          = SqlTokens(before \o <<Blank>> \o after)
    BY <1>1, SameTokens
  <1>4. ASSUME NEW t, NEW u, SqlTokens(t) = SqlTokens(u)
        PROVE  TableNames(t) = TableNames(u) /\ IsQuery(t) = IsQuery(u)
    BY <1>4, Zenon DEF TableNames, IsQuery
  <1> QED
    BY <1>2, <1>4, Zenon DEF CommentsDoNotRoute, before, comment, after

\* A statement is routed and judged as without its comments, and runs on the only
\* file its tables are in or on none (tokenize, find_database_for_tables,
\* execute_sql).
THEOREM RoutingIsSafeCorrect ==
    ASSUME NEW Symbols, input \in CommentInput(Symbols) \cup CallInput
    PROVE  RoutingIsSafe
  <1>1. CASE input \in CommentInput(Symbols)
    <2>1. input.kind # "call"
      BY <1>1 DEF CommentInput
    <2>2. CallsAreRoutedSafely
      BY <2>1, Zenon DEF CallsAreRoutedSafely
    <2>3. CommentsDoNotRoute
      BY <1>1, CommentsDoNotRouteHolds
    <2> QED
      BY <2>2, <2>3 DEF RoutingIsSafe
  <1>2. CASE input \in CallInput
    <2>1. input.kind # "comment"
      BY <1>2 DEF CallInput
    <2>2. CommentsDoNotRoute
      BY <2>1, Zenon DEF CommentsDoNotRoute
    <2>3. CallsAreRoutedSafely
      BY <1>2, CallsAreRoutedCorrect
    <2> QED
      BY <2>2, <2>3 DEF RoutingIsSafe
  <1> QED
    BY <1>1, <1>2

-----------------------------------------------------------------------------
(* The lexer *)

\* The characters that the lexer tells apart are different.
LEMMA SymbolsDiffer ==
    /\ Blank # Newline /\ Blank # Escape /\ Blank # "#" /\ Blank \notin Quotes
    /\ Newline # Escape /\ Newline # "#" /\ Newline \notin Quotes
    /\ Escape \notin Quotes /\ "#" \notin Quotes
  <1>1. Blank # Newline /\ Blank # Escape /\ Blank # "#" /\ Blank \notin Quotes
    BY Zenon DEF Blank, Newline, Escape, Quotes
  <1>2. Newline # Escape /\ Newline # "#" /\ Newline \notin Quotes
    BY Zenon DEF Newline, Escape, Quotes
  <1>3. Escape \notin Quotes /\ "#" \notin Quotes
    BY Zenon DEF Escape, Quotes
  <1> QED
    BY <1>1, <1>2, <1>3

\* A token of one character is named for it.
LEMMA SinglesAre ==
    ASSUME NEW c \in Singles
    PROVE  c \notin {"Space", "Newline", "QuotedString", Blank, Newline, Escape} \cup Quotes
  BY Zenon DEF Singles, Blank, Newline, Escape, Quotes

\* A run of places ends with the last of them.
LEMMA WhileIs ==
    ASSUME NEW text, Len(text) \in Nat, NEW i \in 1 .. Len(text) + 1, NEW places,
           places \subseteq 1 .. Len(text)
    PROVE  /\ While(text, i, places) \in 0 .. Len(text) + 1 - i
           /\ i + While(text, i, places) \notin places
           /\ \A j \in i .. i + While(text, i, places) - 1 : j \in places
  <1> DEFINE N == Len(text)
             Is(n) == i + n \notin places /\ \A j \in i .. i + n - 1 : j \in places
             S == {n \in 0 .. N + 1 - i : i + n \notin places}
  <1>1. PICK n \in S : \A m \in S : n <= m
    <2>1. N + 1 - i \in S /\ S \subseteq Nat
      OBVIOUS
    <2> HIDE DEF S
    <2> QED
      BY <2>1, LeastElement
  <1>2. ASSUME NEW j \in i .. i + n - 1, j \notin places PROVE FALSE
    <2>1. j - i \in S /\ j - i < n
      BY <1>1, <1>2
    <2> QED
      BY <1>1, <2>1
  <1>3. n \in 0 .. N + 1 - i /\ Is(n)
    BY <1>1, <1>2
  <1>4. While(text, i, places) = CHOOSE m \in 0 .. N + 1 - i : Is(m)
    BY DEF While
  <1> HIDE DEF Is, N
  <1>5. While(text, i, places) \in 0 .. N + 1 - i /\ Is(While(text, i, places))
    BY <1>3, <1>4, Zenon
  <1> QED
    BY <1>5 DEF Is, N

\* An operator has characters, none of which is a space, a break, a quote...
LEMMA OperatorsAre ==
    ASSUME NEW o \in Operators
    PROVE  /\ Len(o[1]) \in Nat \ {0}
           /\ o[2] \notin {"Space", "Newline", "QuotedString"}
           /\ \A k \in 1 .. Len(o[1]) : o[1][k] \notin {Blank, Newline, Escape, "#"} \cup Quotes
  <1>1. Len(o[1]) \in Nat \ {0} /\ o[2] \notin {"Space", "Newline", "QuotedString"}
    BY DEF Operators
  <1>2. \A k \in 1 .. Len(o[1]) : o[1][k] \in {"=", "!", ">", "<", "-", "|", "&"}
    BY DEF Operators
  <1>3. ASSUME NEW c \in {"=", "!", ">", "<", "-", "|", "&"}
        PROVE  c \notin {Blank, Newline, Escape, "#"} \cup Quotes
    BY <1>3, Zenon DEF Blank, Newline, Escape, Quotes
  <1> QED
    BY <1>1, <1>2, <1>3

\* What a token of the kind and length is: it is within the text, and has no line
\* break unless it is one or is quoted; spaces are taken all together.
IsToken(text, i, tok, len) ==
    /\ tok # "QuotedString" => len \in Nat \ {0} /\ i + len <= Len(text) + 1
    /\ tok \notin {"Newline", "QuotedString"} => \A j \in i .. i + len - 1 : text[j] # Newline
    /\ tok = "Newline" => len = 1 /\ text[i] = Newline
    /\ tok = "Space" => /\ \A j \in i .. i + len - 1 : text[j] = Blank
                        /\ i + len \in 1 .. Len(text) => text[i + len] # Blank
    /\ tok # "Space" => text[i] # Blank
    /\ tok = "QuotedString" <=> text[i] \in Quotes
    /\ tok = "QuotedString" => len = QuotedEnd(text, i) - i

\* A token of the run of places at i.
LEMMA RunIsToken ==
    ASSUME NEW text, Len(text) \in Nat, DOMAIN text = 1 .. Len(text), NEW i \in 1 .. Len(text),
           NEW places, places \subseteq 1 .. Len(text), i \in places,
           NEW tok, tok \notin {"Newline", "QuotedString"},
           \A j \in places : text[j] # Newline,
           tok = "Space" => \A j \in 1 .. Len(text) : j \in places <=> text[j] = Blank,
           tok # "Space" => text[i] # Blank,
           text[i] \notin Quotes
    PROVE  IsToken(text, i, tok, While(text, i, places))
  <1> DEFINE n == While(text, i, places)
  <1>1. n \in 0 .. Len(text) + 1 - i /\ i + n \notin places /\ \A j \in i .. i + n - 1 : j \in places
    <2>1. i \in 1 .. Len(text) + 1
      OBVIOUS
    <2>2. /\ While(text, i, places) \in 0 .. Len(text) + 1 - i
          /\ i + While(text, i, places) \notin places
          /\ \A j \in i .. i + While(text, i, places) - 1 : j \in places
      BY <2>1, WhileIs, Zenon
    <2> QED
      BY <2>2
  <1> HIDE DEF n
  <1>2. n # 0
    BY <1>1
  <1>3. i + n <= Len(text) + 1
    BY <1>1
  <1> QED
    BY <1>1, <1>2, <1>3 DEF IsToken, n

\* No operator fits where one of these characters is.
LEMMA FitsAre ==
    ASSUME NEW Symbols, NEW text \in Seq(Symbols), NEW i \in 1 .. Len(text), NEW o \in Operators,
           Has(text, i, o[1])
    PROVE  /\ IsToken(text, i, o[2], Len(o[1]))
           /\ text[i] \notin {Blank, Newline, Escape, "#"} \cup Quotes
  <1> DEFINE n == Len(o[1])
             C == {Blank, Newline, Escape, "#"} \cup Quotes
  <1>1. /\ n \in Nat \ {0} /\ o[2] \notin {"Space", "Newline", "QuotedString"}
        /\ \A k \in 1 .. n : o[1][k] \notin C
    BY OperatorsAre
  <1>2. i + n - 1 <= Len(text) /\ SubSeq(text, i, i + n - 1) = o[1]
    BY DEF Has
  <1> HIDE DEF n, C
  <1>3. \A k \in 1 .. n : text[i + k - 1] = o[1][k]
    <2>1. \A k \in 1 .. n : SubSeq(text, i, i + n - 1)[k] = text[i + k - 1]
      BY <1>1, <1>2
    <2> QED
      BY <1>2, <2>1
  <1>4. ASSUME NEW j \in i .. i + n - 1 PROVE text[j] \notin C
    <2>1. j - i + 1 \in 1 .. n /\ i + (j - i + 1) - 1 = j
      BY <1>1
    <2> QED
      BY <1>1, <1>3, <2>1
  <1>5. i \in i .. i + n - 1
    BY <1>1
  <1>6. text[i] \notin C
    BY <1>4, <1>5
  <1> QED
    BY <1>1, <1>2, <1>4, <1>6 DEF IsToken, n, C

\* What a word begins with, or goes on with, is no space, break, quote or comment.
LEMMA WordsAre ==
    ASSUME NEW c, MayStart(c) \/ MayContinue(c)
    PROVE  c \notin {Blank, Newline, "#"} \cup Quotes
  <1>1. CASE c \in Words \cup Digits
    <2>1. "#" \in Singles
      BY Zenon DEF Singles
    <2> QED
      BY <1>1, <2>1, LexAssumption
  <1>2. CASE c \in {"-", "!"}
    BY <1>2, Zenon DEF Blank, Newline, Quotes
  <1> QED
    BY <1>1, <1>2 DEF MayStart, MayContinue

\* Every token is one.
LEMMA NextTokenIs ==
    ASSUME NEW Symbols, NEW text \in Seq(Symbols), NEW i \in 1 .. Len(text)
    PROVE  \E tok, len : NextToken(text, i) = <<tok, len>> /\ IsToken(text, i, tok, len)
  <1> DEFINE c == text[i]
             fits == {o \in Operators : Has(text, i, o[1])}
             Longest(o) == \A y \in fits : Len(o[1]) >= Len(y[1])
             best == CHOOSE x \in fits : \A y \in fits : Len(x[1]) >= Len(y[1])
             wordly == {j \in DOMAIN text : MayContinue(text[j])}
             inline == {j \in DOMAIN text : text[j] # Newline}
             gap == {j \in DOMAIN text : text[j] = Blank}
             n == While(text, i, wordly)
             kind == IF \A j \in i .. i + n - 1 : text[j] \in Digits
                     THEN "Integer" ELSE "PlainValue"
             Ours == \E tok, len : NextToken(text, i) = <<tok, len>> /\ IsToken(text, i, tok, len)
             Cases == CASE fits # {} -> <<best[2], Len(best[1])>>
                        [] fits = {} /\ MayStart(c) -> <<kind, n>>
                        [] c = "#" -> <<"LineComment", While(text, i, inline)>>
                        [] c \in Quotes -> <<"QuotedString", QuotedEnd(text, i) - i>>
                        [] c = Blank -> <<"Space", While(text, i, gap)>>
                        [] c = Newline -> <<"Newline", 1>>
                        [] fits = {} /\ c \in Singles \ {"#", "-"} -> <<c, 1>>
                        [] OTHER -> <<"Unrecognized", 1>>
  <1>0. NextToken(text, i) = Cases
    BY Zenon DEF NextToken
  <1>1. ASSUME fits # {} PROVE Ours
    <2>1. \A o \in Operators : Len(o[1]) \in {2, 3}
      BY DEF Operators
    <2>2. \E o \in fits : Longest(o)
      <3>1. PICK o \in fits : TRUE
        BY <1>1
      <3>2. CASE \E x \in fits : Len(x[1]) = 3
        <4>1. PICK x \in fits : Len(x[1]) = 3
          BY <3>2
        <4>2. \A y \in fits : Len(y[1]) \in {2, 3}
          BY <2>1
        <4>3. ASSUME NEW y \in fits PROVE Len(x[1]) >= Len(y[1])
          <5>1. Len(y[1]) = 2 \/ Len(y[1]) = 3
            BY <4>2
          <5>2. \A a, b : a = 3 /\ b \in {2, 3} => a >= b
            OBVIOUS
          <5> QED
            BY <4>1, <5>1, <5>2, Zenon
        <4> QED
          BY <4>1, <4>3
      <3>3. CASE ~\E x \in fits : Len(x[1]) = 3
        BY <2>1, <3>1, <3>3
      <3> QED
        BY <3>2, <3>3
    <2>3. best \in fits
      BY <2>2, Zenon
    <2> HIDE DEF best
    <2>4. /\ IsToken(text, i, best[2], Len(best[1]))
          /\ c \notin {Blank, Newline, Escape, "#"} \cup Quotes
      BY <2>3, FitsAre
    <2> HIDE DEF fits, n, kind, c
    <2>5. Cases = <<best[2], Len(best[1])>>
      BY <1>1, <2>4
    <2> QED
      BY <1>0, <2>4, <2>5
  <1>2. ASSUME fits = {}, MayStart(c) PROVE Ours
    <2>1. c \notin {Blank, Newline, "#"} \cup Quotes
      BY <1>2, WordsAre
    <2>2. \A j \in wordly : text[j] # Newline
      BY WordsAre
    <2>3. i \in wordly
      BY <1>2 DEF MayStart, MayContinue
    <2>4. kind \notin {"Newline", "QuotedString", "Space"}
      OBVIOUS
    <2>5. IsToken(text, i, kind, n)
      <3> HIDE DEF kind, wordly
      <3>1. wordly \subseteq 1 .. Len(text) /\ DOMAIN text = 1 .. Len(text) /\ Len(text) \in Nat
        BY DEF wordly
      <3> QED
        BY <2>1, <2>2, <2>3, <2>4, <3>1, RunIsToken
    <2>7. c \notin Singles \ {"#", "-"}
      BY <1>2, LexAssumption DEF MayStart
    <2> HIDE DEF fits, n, kind, c
    <2>6. Cases = <<kind, n>>
      BY <1>2, <2>1, <2>7
    <2> QED
      BY <1>0, <2>5, <2>6
  <1>3. ASSUME fits = {}, ~MayStart(c) PROVE Ours
    <2>0. Len(text) \in Nat /\ DOMAIN text = 1 .. Len(text)
      OBVIOUS
    <2>1. CASE c = "#"
      <3>1. c # Newline /\ c # Blank /\ c \notin Quotes
        BY <2>1, SymbolsDiffer
      <3>2. IsToken(text, i, "LineComment", While(text, i, inline))
        <4>1. i \in inline /\ inline \subseteq 1 .. Len(text) /\ \A j \in inline : text[j] # Newline
          BY <3>1
        <4> HIDE DEF inline
        <4> QED
          BY <2>0, <3>1, <4>1, RunIsToken
      <3> HIDE DEF fits, n, kind, c
      <3>3. Cases = <<"LineComment", While(text, i, inline)>>
        BY <1>3, <2>1, <3>1
      <3> QED
        BY <1>0, <3>2, <3>3
    <2>2. CASE c \in Quotes
      <3>1. c # Newline /\ c # Blank /\ c # "#" /\ c \notin Singles
        BY <2>2, SymbolsDiffer, SinglesAre
      <3> HIDE DEF fits, n, kind, c
      <3>2. Cases = <<"QuotedString", QuotedEnd(text, i) - i>>
        BY <1>3, <2>2, <3>1
      <3> QED
        BY <1>0, <2>2, <3>1, <3>2 DEF IsToken, c
    <2>3. CASE c = Blank
      <3>1. c # Newline /\ c # "#" /\ c \notin Quotes /\ c \notin Singles
        BY <2>3, SymbolsDiffer, SinglesAre
      <3>2. IsToken(text, i, "Space", While(text, i, gap))
        <4>1. /\ i \in gap /\ gap \subseteq 1 .. Len(text) /\ \A j \in gap : text[j] # Newline
              /\ \A j \in 1 .. Len(text) : j \in gap <=> text[j] = Blank
          BY <2>0, <2>3, SymbolsDiffer
        <4> HIDE DEF gap
        <4> QED
          BY <2>0, <2>3, <3>1, <4>1, RunIsToken
      <3> HIDE DEF fits, n, kind, c
      <3>3. Cases = <<"Space", While(text, i, gap)>>
        BY <1>3, <2>3, <3>1
      <3> QED
        BY <1>0, <3>2, <3>3
    <2>4. CASE c = Newline
      <3>1. c # Blank /\ c # "#" /\ c \notin Quotes /\ c \notin Singles
        BY <2>4, SymbolsDiffer, SinglesAre
      <3>2. IsToken(text, i, "Newline", 1)
        BY <2>0, <2>4, <3>1 DEF IsToken
      <3> HIDE DEF fits, n, kind, c
      <3>3. Cases = <<"Newline", 1>>
        BY <1>3, <2>4, <3>1
      <3> QED
        BY <1>0, <3>2, <3>3
    <2>5. CASE c \notin {"#", Blank, Newline} \cup Quotes
      <3> DEFINE tok == IF c \in Singles \ {"#", "-"} THEN c ELSE "Unrecognized"
      <3>1. tok \notin {"Space", "Newline", "QuotedString"}
        BY SinglesAre
      <3> HIDE DEF tok
      <3>2. IsToken(text, i, tok, 1)
        <4>1. \A j \in i .. i + 1 - 1 : j = i
          OBVIOUS
        <4> QED
          BY <2>0, <2>5, <3>1, <4>1 DEF IsToken
      <3> HIDE DEF fits, n, kind, c
      <3>3. Cases = <<tok, 1>>
        BY <1>3, <2>5 DEF tok
      <3> QED
        BY <1>0, <3>2, <3>3
    <2> QED
      BY <2>1, <2>2, <2>3, <2>4, <2>5
  <1> QED
    BY <1>1, <1>2, <1>3

-----------------------------------------------------------------------------
\* The line of a position goes on where no line breaks.
LEMMA SameLine ==
    ASSUME NEW text, NEW i \in Nat \ {0}, NEW j \in Nat, i <= j,
           \A k \in i .. j - 1 : text[k] # Newline
    PROVE  LineOf(text, j) = LineOf(text, i)
  <1>1. {k \in 1 .. j - 1 : text[k] = Newline} = {k \in 1 .. i - 1 : text[k] = Newline}
    OBVIOUS
  <1> QED
    BY <1>1 DEF LineOf

\* A line break makes the next line.
LEMMA NextLine ==
    ASSUME NEW text, NEW i \in Nat \ {0}
    PROVE  /\ LineOf(text, i) \in Nat
           /\ text[i] = Newline => LineOf(text, i + 1) = LineOf(text, i) + 1
  <1> DEFINE A == {k \in 1 .. i - 1 : text[k] = Newline}
             B == {k \in 1 .. i + 1 - 1 : text[k] = Newline}
  <1>1. IsFiniteSet(A) /\ i \notin A
    <2>1. IsFiniteSet(1 .. i - 1)
      BY FS_Interval
    <2> QED
      BY <2>1, FS_Subset
  <1>2. Cardinality(A) \in Nat
    BY <1>1, FS_CardinalityType
  <1>3. LineOf(text, i) = 1 + Cardinality(A) /\ LineOf(text, i + 1) = 1 + Cardinality(B)
    BY DEF LineOf
  <1>4. ASSUME text[i] = Newline PROVE Cardinality(B) = Cardinality(A) + 1
    <2>1. B = A \cup {i}
      BY <1>4
    <2> HIDE DEF A, B
    <2> QED
      BY <1>1, <2>1, FS_AddElement
  <1> HIDE DEF A, B
  <1> QED
    BY <1>2, <1>3, <1>4

\* A line starts in one place.
LEMMA LineStartIs ==
    ASSUME NEW text, NEW i \in Nat \ {0}, NEW j \in 1 .. i, StartsLine(text, j, i)
    PROVE  LineStart(text, i) = j
  <1>1. ASSUME NEW h \in 1 .. i, StartsLine(text, h, i) PROVE h = j
    <2>1. ASSUME h < j PROVE FALSE
      <3>1. j - 1 \in h .. i - 1 /\ j # 1
        BY <2>1
      <3> QED
        BY <1>1, <3>1 DEF StartsLine
    <2>2. ASSUME j < h PROVE FALSE
      <3>1. h - 1 \in j .. i - 1 /\ h # 1
        BY <2>2
      <3> QED
        BY <1>1, <3>1 DEF StartsLine
    <2> QED
      BY <2>1, <2>2
  <1>2. LineStart(text, i) \in 1 .. i /\ StartsLine(text, LineStart(text, i), i)
    BY Zenon DEF LineStart
  <1> QED
    BY <1>1, <1>2

\* How far a line is indented that begins with these spaces.
LEMMA IndentedBy ==
    ASSUME NEW text, Len(text) \in Nat, DOMAIN text = 1 .. Len(text), NEW j \in 1 .. Len(text) + 1,
           NEW n \in Nat, j + n <= Len(text) + 1,
           \A k \in j .. j + n - 1 : text[k] = Blank,
           j + n \in 1 .. Len(text) => text[j + n] # Blank
    PROVE  Indented(text, j) = n
  <1> DEFINE P == {k \in DOMAIN text : text[k] # Blank}
             e == FirstFrom(text, j, P)
  <1>1. /\ e \in j .. Len(text) + 1 /\ (e <= Len(text) => e \in P)
        /\ \A k \in j .. e - 1 : k \notin P
    <2> HIDE DEF P
    <2> QED
      BY FirstIs
  <1>2. Indented(text, j) = e - j
    BY DEF Indented
  <1> HIDE DEF e
  <1>3. ASSUME e < j + n PROVE FALSE
    <2>1. e \in j .. j + n - 1 /\ e <= Len(text)
      BY <1>1, <1>3
    <2> QED
      BY <1>1, <2>1
  <1>4. ASSUME j + n < e PROVE FALSE
    <2>1. j + n \in j .. e - 1 /\ j + n \in 1 .. Len(text)
      BY <1>1, <1>4
    <2> QED
      BY <1>1, <2>1
  <1> QED
    BY <1>1, <1>2, <1>3, <1>4

-----------------------------------------------------------------------------
\* The functions QuotedEnd and QuotedBreaks are defined by.
IsQuotedEnd(text, i, end) ==
    end = [j \in i .. Len(text) + 2 |->
              IF j > Len(text) THEN j
              ELSE IF text[j] = Escape THEN end[j + 2]
              ELSE IF text[j] = text[i] THEN j + 1
              ELSE end[j + 1]]

IsQuotedBreaks(text, i, breaks) ==
    breaks = [j \in i .. Len(text) + 2 |->
                 IF j > Len(text) THEN <<>>
                 ELSE IF text[j] = Escape THEN breaks[j + 2]
                 ELSE IF text[j] = text[i] THEN <<>>
                 ELSE IF text[j] = Newline THEN <<j>> \o breaks[j + 1]
                 ELSE breaks[j + 1]]

\* They exist.
LEMMA QuotedEndIs ==
    ASSUME NEW text, Len(text) \in Nat, NEW i \in 1 .. Len(text)
    PROVE  \E end : IsQuotedEnd(text, i, end) /\ QuotedEnd(text, i) = end[i + 1]
  <1> DEFINE N == Len(text)
             D == i .. N + 2
             Inner == {j \in D : j <= N /\ (text[j] = Escape \/ text[j] # text[i])}
             next == [j \in Inner |-> IF text[j] = Escape THEN j + 2 ELSE j + 1]
             join == [x \in Inner \X Int |-> x[2]]
             base == [j \in D |-> IF j > N THEN j ELSE j + 1]
  <1>1. /\ Inner \subseteq i .. N + 2 /\ next \in [Inner -> i .. N + 2] /\ \A j \in Inner : j < next[j]
        /\ join \in [Inner \X Int -> Int] /\ base \in [i .. N + 2 -> Int]
        /\ i \in Int /\ N + 2 \in Int /\ Int # {}
    OBVIOUS
  <1>2. PICK f \in [i .. N + 2 -> Int] : Forward(f, i .. N + 2, next, join, base)
    <2> HIDE DEF Inner, next, join, base, N
    <2> QED
      BY <1>1, ForwardHasAFunction
  <1>3. ASSUME NEW j \in D
        PROVE  f[j] = IF j > N THEN j
                      ELSE IF text[j] = Escape THEN f[j + 2]
                      ELSE IF text[j] = text[i] THEN j + 1
                      ELSE f[j + 1]
    <2>1. f[j] = IF j \in Inner THEN join[<<j, f[next[j]]>>] ELSE base[j]
      BY <1>1, <1>2 DEF Forward
    <2>2. j \in Inner => f[next[j]] \in Int
      BY <1>1, <1>2
    <2>3. j \in Inner => join[<<j, f[next[j]]>>] = f[next[j]]
      <3> HIDE DEF Inner, next
      <3> QED
        BY <2>2
    <2>4. j \in Inner => next[j] = IF text[j] = Escape THEN j + 2 ELSE j + 1
      <3> HIDE DEF Inner
      <3> QED
        OBVIOUS
    <2> HIDE DEF next, join
    <2> QED
      BY <2>1, <2>3, <2>4
  <1>4. IsQuotedEnd(text, i, f)
    <2> DEFINE g == [j \in D |->
                        IF j > N THEN j
                        ELSE IF text[j] = Escape THEN f[j + 2]
                        ELSE IF text[j] = text[i] THEN j + 1
                        ELSE f[j + 1]]
    <2>1. \A j \in D : f[j] = g[j]
      BY <1>3
    <2>2. f = [j \in D |-> f[j]] /\ g = [j \in D |-> g[j]]
      OBVIOUS
    <2>3. f = g
      <3> HIDE DEF g, D
      <3> QED
        BY <2>1, <2>2
    <2> QED
      BY <2>3, Zenon DEF IsQuotedEnd
  <1> DEFINE end == CHOOSE g : IsQuotedEnd(text, i, g)
  <1>5. IsQuotedEnd(text, i, end) /\ QuotedEnd(text, i) = end[i + 1]
    BY <1>4, Zenon DEF QuotedEnd, IsQuotedEnd
  <1> QED
    BY <1>5

\* And so do the breaks.
LEMMA QuotedBreaksIs ==
    ASSUME NEW text, Len(text) \in Nat, NEW i \in 1 .. Len(text)
    PROVE  \E breaks : IsQuotedBreaks(text, i, breaks) /\ QuotedBreaks(text, i) = breaks[i + 1]
  <1> DEFINE N == Len(text)
             D == i .. N + 2
             T == Seq(Int)
             Inner == {j \in D : j <= N /\ (text[j] = Escape \/ text[j] # text[i])}
             next == [j \in Inner |-> IF text[j] = Escape THEN j + 2 ELSE j + 1]
             With(j, seen) == IF text[j] # Escape /\ text[j] = Newline THEN <<j>> \o seen ELSE seen
             join == [x \in Inner \X T |-> With(x[1], x[2])]
             base == [j \in D |-> <<>>]
  <1>1. /\ Inner \subseteq i .. N + 2 /\ next \in [Inner -> i .. N + 2] /\ \A j \in Inner : j < next[j]
        /\ i \in Int /\ N + 2 \in Int
    OBVIOUS
  <1>2. base \in [i .. N + 2 -> T] /\ T # {}
    <2>1. <<>> \in T
      OBVIOUS
    <2> HIDE DEF T
    <2> QED
      BY <2>1
  <1>3. join \in [Inner \X T -> T]
    <2>1. \A j \in Inner, seen \in T : <<j>> \o seen \in T
      OBVIOUS
    <2> HIDE DEF Inner, T
    <2> QED
      BY <2>1
  <1>4. PICK f \in [i .. N + 2 -> T] : Forward(f, i .. N + 2, next, join, base)
    <2> HIDE DEF Inner, next, join, base, N, T
    <2> QED
      BY <1>1, <1>2, <1>3, ForwardHasAFunction
  <1>5. ASSUME NEW j \in D
        PROVE  f[j] = IF j > N THEN <<>>
                      ELSE IF text[j] = Escape THEN f[j + 2]
                      ELSE IF text[j] = text[i] THEN <<>>
                      ELSE IF text[j] = Newline THEN <<j>> \o f[j + 1]
                      ELSE f[j + 1]
    <2>1. f[j] = IF j \in Inner THEN join[<<j, f[next[j]]>>] ELSE base[j]
      BY <1>1, <1>4 DEF Forward
    <2>2. j \in Inner => f[next[j]] \in T
      BY <1>1, <1>4
    <2>3. j \in Inner => join[<<j, f[next[j]]>>] = With(j, f[next[j]])
      <3> HIDE DEF Inner, next, T, With
      <3> QED
        BY <2>2
    <2>4. j \in Inner => next[j] = IF text[j] = Escape THEN j + 2 ELSE j + 1
      <3> HIDE DEF Inner
      <3> QED
        OBVIOUS
    <2>5. base[j] = <<>>
      OBVIOUS
    <2> HIDE DEF next, join, base, T
    <2> QED
      BY <2>1, <2>3, <2>4, <2>5
  <1>6. IsQuotedBreaks(text, i, f)
    <2> DEFINE g == [j \in D |->
                        IF j > N THEN <<>>
                        ELSE IF text[j] = Escape THEN f[j + 2]
                        ELSE IF text[j] = text[i] THEN <<>>
                        ELSE IF text[j] = Newline THEN <<j>> \o f[j + 1]
                        ELSE f[j + 1]]
    <2>1. \A j \in D : f[j] = g[j]
      BY <1>5
    <2>2. f = [j \in D |-> f[j]] /\ g = [j \in D |-> g[j]]
      OBVIOUS
    <2>3. f = g
      <3> HIDE DEF g, D
      <3> QED
        BY <2>1, <2>2
    <2> QED
      BY <2>3, Zenon DEF IsQuotedBreaks
  <1> DEFINE breaks == CHOOSE g : IsQuotedBreaks(text, i, g)
  <1>7. IsQuotedBreaks(text, i, breaks) /\ QuotedBreaks(text, i) = breaks[i + 1]
    BY <1>6, Zenon DEF QuotedBreaks, IsQuotedBreaks
  <1> QED
    BY <1>7

\* A quoted string ends within the text, on the line its breaks lead to.
LEMMA QuotedIs ==
    ASSUME NEW Symbols, NEW text \in Seq(Symbols), EscapesInLine(text),
           NEW i \in 1 .. Len(text), text[i] \in Quotes
    PROVE  /\ QuotedEnd(text, i) \in i + 1 .. Len(text) + 1
           /\ QuotedBreaks(text, i) \in Seq(Int)
           /\ LineOf(text, QuotedEnd(text, i)) = LineOf(text, i) + Len(QuotedBreaks(text, i))
  <1> DEFINE N == Len(text)
  <1>1. N \in Nat /\ DOMAIN text = 1 .. N
    OBVIOUS
  <1>2. PICK end : IsQuotedEnd(text, i, end) /\ QuotedEnd(text, i) = end[i + 1]
    BY <1>1, QuotedEndIs
  <1>3. PICK breaks : IsQuotedBreaks(text, i, breaks) /\ QuotedBreaks(text, i) = breaks[i + 1]
    BY <1>1, QuotedBreaksIs
  <1>4. ASSUME NEW j \in i + 1 .. N + 1
        PROVE  /\ j > N => end[j] = j /\ breaks[j] = <<>>
               /\ j <= N /\ text[j] = Escape => end[j] = end[j + 2] /\ breaks[j] = breaks[j + 2]
               /\ j <= N /\ text[j] # Escape /\ text[j] = text[i] => end[j] = j + 1 /\ breaks[j] = <<>>
               /\ j <= N /\ text[j] # Escape /\ text[j] # text[i] =>
                     /\ end[j] = end[j + 1]
                     /\ text[j] = Newline => breaks[j] = <<j>> \o breaks[j + 1]
                     /\ text[j] # Newline => breaks[j] = breaks[j + 1]
    <2> DEFINE more == <<j>> \o breaks[j + 1]
    <2>1. j \in i .. Len(text) + 2 /\ (j <= N => ~(j > N))
      OBVIOUS
    <2>2. end[j] = IF j > N THEN j
                   ELSE IF text[j] = Escape THEN end[j + 2]
                   ELSE IF text[j] = text[i] THEN j + 1
                   ELSE end[j + 1]
      BY <1>2, <2>1 DEF IsQuotedEnd
    <2>3. breaks[j] = IF j > N THEN <<>>
                      ELSE IF text[j] = Escape THEN breaks[j + 2]
                      ELSE IF text[j] = text[i] THEN <<>>
                      ELSE IF text[j] = Newline THEN more
                      ELSE breaks[j + 1]
      BY <1>3, <2>1 DEF IsQuotedBreaks
    <2> HIDE DEF more, N
    <2>4. /\ j > N => end[j] = j /\ breaks[j] = <<>>
          /\ j <= N /\ text[j] = Escape => end[j] = end[j + 2] /\ breaks[j] = breaks[j + 2]
          /\ j <= N /\ text[j] # Escape /\ text[j] = text[i] => end[j] = j + 1 /\ breaks[j] = <<>>
          /\ j <= N /\ text[j] # Escape /\ text[j] # text[i] =>
                /\ end[j] = end[j + 1]
                /\ text[j] = Newline => breaks[j] = more
                /\ text[j] # Newline => breaks[j] = breaks[j + 1]
      BY <2>1, <2>2, <2>3, Zenon
    <2> QED
      BY <2>4, Zenon DEF more, N
  <1> DEFINE Ok(j, e, b) == /\ e \in j .. N + 1 /\ b \in Seq(Int)
                            /\ LineOf(text, e) = LineOf(text, j) + Len(b)
             S == {j \in i + 1 .. N + 1 : Ok(j, end[j], breaks[j])}
  <1>5. \A j \in i .. N : text[j] # Newline => LineOf(text, j + 1) = LineOf(text, j)
    <2> SUFFICES ASSUME NEW j \in i .. N, text[j] # Newline
                 PROVE  LineOf(text, j + 1) = LineOf(text, j)
      OBVIOUS
    <2>1. j \in Nat \ {0} /\ j + 1 \in Nat /\ j <= j + 1 /\ \A k \in j .. (j + 1) - 1 : text[k] # Newline
      OBVIOUS
    <2> QED
      BY <2>1, SameLine
  <1>6. text[i] # Newline
    BY SymbolsDiffer
  <1>7. \A j \in Nat \ {0} : LineOf(text, j) \in Nat
    BY NextLine
  <1> HIDE DEF N, Ok, S
  <1>8. ASSUME NEW j \in i + 1 .. N + 1, \A k \in j + 1 .. N + 1 : Ok(k, end[k], breaks[k])
        PROVE  Ok(j, end[j], breaks[j])
    <2>0. j \in Nat \ {0} /\ j \in Int /\ i \in Nat \ {0} /\ j \in i .. N + 1
      BY <1>1
    <2>1. CASE j > N
      <3>1. end[j] = j /\ breaks[j] = <<>>
        BY <1>1, <1>4, <2>0, <2>1
      <3> QED
        BY <1>1, <1>7, <2>0, <2>1, <3>1 DEF Ok
    <2>2. CASE j <= N /\ text[j] = Escape
      <3>1. end[j] = end[j + 2] /\ breaks[j] = breaks[j + 2]
        BY <1>4, <2>2, Zenon
      <3>2. j < N /\ text[j + 1] # Newline /\ text[j] # Newline
        BY <1>1, <2>0, <2>2, SymbolsDiffer DEF EscapesInLine
      <3>3. LineOf(text, j + 2) = LineOf(text, j)
        <4>1. j + 1 \in i .. N /\ j \in i .. N /\ (j + 1) + 1 = j + 2
          BY <1>1, <2>0, <3>2
        <4> QED
          BY <1>5, <3>2, <4>1
      <3>4. Ok(j + 2, end[j + 2], breaks[j + 2])
        <4>1. j + 2 \in j + 1 .. N + 1
          BY <1>1, <2>0, <3>2
        <4> QED
          BY <1>8, <4>1
      <3> QED
        BY <1>1, <2>0, <3>1, <3>3, <3>4 DEF Ok
    <2>3. CASE j <= N /\ text[j] # Escape /\ text[j] = text[i]
      <3>1. end[j] = j + 1 /\ breaks[j] = <<>>
        BY <1>4, <2>3, Zenon
      <3>2. LineOf(text, j + 1) = LineOf(text, j)
        BY <1>1, <1>5, <1>6, <2>0, <2>3
      <3> QED
        BY <1>1, <1>7, <2>0, <2>3, <3>1, <3>2 DEF Ok
    <2>4. CASE j <= N /\ text[j] # Escape /\ text[j] # text[i] /\ text[j] = Newline
      <3>1. end[j] = end[j + 1] /\ breaks[j] = <<j>> \o breaks[j + 1]
        BY <1>4, <2>4, Zenon
      <3>2. LineOf(text, j + 1) = LineOf(text, j) + 1
        BY <2>0, <2>4, NextLine
      <3>3. Ok(j + 1, end[j + 1], breaks[j + 1])
        BY <1>1, <1>8, <2>0, <2>4
      <3>4. <<j>> \o breaks[j + 1] \in Seq(Int) /\ Len(<<j>> \o breaks[j + 1]) = 1 + Len(breaks[j + 1])
        <4>1. breaks[j + 1] \in Seq(Int) /\ j \in Int
          BY <2>0, <3>3 DEF Ok
        <4> QED
          BY <4>1
      <3> DEFINE more == <<j>> \o breaks[j + 1]
      <3>5. breaks[j] = more /\ more \in Seq(Int) /\ Len(more) = 1 + Len(breaks[j + 1])
        BY <3>1, <3>4
      <3>6. Len(breaks[j + 1]) \in Nat
        BY <3>3 DEF Ok
      <3> HIDE DEF more
      <3>7. /\ end[j] \in j + 1 .. N + 1
            /\ LineOf(text, end[j]) = LineOf(text, j + 1) + Len(breaks[j + 1])
        BY <3>1, <3>3 DEF Ok
      <3>8. LineOf(text, j) \in Nat
        BY <1>7, <2>0
      <3>9. LineOf(text, end[j]) = LineOf(text, j) + Len(more)
        <4> DEFINE a == LineOf(text, end[j])
                   b == LineOf(text, j + 1)
                   c == Len(breaks[j + 1])
                   d == LineOf(text, j)
                   e == Len(more)
        <4>1. a = b + c
          BY <3>7
        <4>2. b = d + 1
          BY <3>2
        <4>3. e = 1 + c
          BY <3>5
        <4>4. c \in Nat /\ d \in Nat
          BY <3>6, <3>8
        <4> HIDE DEF a, b, c, d, e
        <4>5. a = d + e
          BY <4>1, <4>2, <4>3, <4>4
        <4> QED
          BY <4>5 DEF a, d, e
      <3>10. end[j] \in j .. N + 1
        BY <1>1, <2>0, <3>7
      <3> QED
        BY <3>5, <3>9, <3>10 DEF Ok
    <2>5. CASE j <= N /\ text[j] # Escape /\ text[j] # text[i] /\ text[j] # Newline
      <3>1. end[j] = end[j + 1] /\ breaks[j] = breaks[j + 1]
        BY <1>4, <2>5, Zenon
      <3>2. LineOf(text, j + 1) = LineOf(text, j)
        BY <1>1, <1>5, <2>0, <2>5
      <3>3. Ok(j + 1, end[j + 1], breaks[j + 1])
        BY <1>1, <1>8, <2>0, <2>5
      <3> QED
        BY <1>1, <2>0, <2>5, <3>1, <3>2, <3>3 DEF Ok
    <2> QED
      BY <1>1, <2>1, <2>2, <2>3, <2>4, <2>5
  <1>9. \A j \in i + 1 .. N + 1 : j \in S
    <2>1. i + 1 \in Int /\ N + 1 \in Int
      BY <1>1
    <2>2. ASSUME NEW j \in i + 1 .. N + 1, \A k \in j + 1 .. N + 1 : k \in S PROVE j \in S
      BY <1>8, <2>2 DEF S
    <2> QED
      BY <2>1, <2>2, DownTo
  <1>10. Ok(i + 1, end[i + 1], breaks[i + 1])
    <2>1. i + 1 \in i + 1 .. N + 1
      BY <1>1 DEF N
    <2> QED
      BY <1>9, <2>1 DEF S
  <1>11. LineOf(text, i + 1) = LineOf(text, i)
    BY <1>1, <1>5, <1>6 DEF N
  <1> QED
    BY <1>2, <1>3, <1>10, <1>11 DEF Ok, N

\* What the lexer keeps, before it knows what tokens are about.
LexStates(text) ==
    LET tokens == [ tok : {NextToken(text, i)[1] : i \in 1 .. Len(text)},
                    start : Int, stop : Int, line : Int, indent : Int ]
    IN  [index : Int, line : Int, column : Int, indent : Int, tokens : Seq(tokens)]

\* No quoted string so far: the column says where the line starts, and from the
\* second column on the indentation is known.
Located(text, at) ==
    LET start == at.index + 1 - at.column
    IN  /\ start \in 1 .. at.index
        /\ StartsLine(text, start, at.index)
        /\ at.indent = IF at.column = 1 THEN 0 ELSE Indented(text, start)

Unquoted(toks) == \A i \in DOMAIN toks : toks[i].tok # "QuotedString"

\* What is true of the lexer wherever it is.
LexInv(text, at) ==
    /\ at.index \in 1 .. Len(text) + 1
    /\ at.line = LineOf(text, at.index)
    /\ Unquoted(at.tokens) => Located(text, at)
    /\ Tiles(text, at.tokens)
    /\ at.index = IF at.tokens = <<>> THEN 1 ELSE at.tokens[Len(at.tokens)].stop

\* How a token is followed by another.
LEMMA AppendIs ==
    ASSUME NEW X, NEW s \in Seq(X), NEW x \in X
    PROVE  /\ Append(s, x) \in Seq(X) /\ Len(Append(s, x)) = Len(s) + 1 /\ Append(s, x) # <<>>
           /\ Append(s, x)[Len(s) + 1] = x
           /\ \A i \in 1 .. Len(s) : Append(s, x)[i] = s[i]
  OBVIOUS

\* One more token that follows on the others.
LEMMA TilesOn ==
    ASSUME NEW text, NEW X, NEW toks \in Seq(X), NEW t \in X, Tiles(text, toks),
           t.start = IF toks = <<>> THEN 1 ELSE toks[Len(toks)].stop,
           t.start < t.stop, t.line = LineOf(text, t.start),
           t.tok \notin {"Space", "Newline"} /\ Unquoted(toks) => t.indent = IndentOf(text, t.start)
    PROVE  Tiles(text, Append(toks, t))
  <1> DEFINE more == Append(toks, t)
             n == Len(toks)
  <1>1. /\ more \in Seq(X) /\ Len(more) = n + 1 /\ more[n + 1] = t
        /\ \A i \in 1 .. n : more[i] = toks[i]
        /\ n \in Nat /\ (toks = <<>> <=> n = 0) /\ DOMAIN toks = 1 .. n
    BY AppendIs
  <1> HIDE DEF more, n
  <1>2. DOMAIN more = 1 .. n + 1
    BY <1>1
  <1> DEFINE Ok(i) ==
                 /\ more[i].start = IF i = 1 THEN 1 ELSE more[i - 1].stop
                 /\ more[i].start < more[i].stop
                 /\ more[i].line = LineOf(text, more[i].start)
                 /\ (/\ more[i].tok \notin {"Space", "Newline"}
                     /\ \A j \in 1 .. i - 1 : more[j].tok # "QuotedString")
                       => more[i].indent = IndentOf(text, more[i].start)
  <1>3. ASSUME NEW i \in 1 .. n PROVE Ok(i)
    <2>1. more[i] = toks[i] /\ (i # 1 => i - 1 \in 1 .. n /\ more[i - 1] = toks[i - 1])
      BY <1>1
    <2>2. \A j \in 1 .. i - 1 : more[j] = toks[j]
      BY <1>1
    <2> QED
      BY <1>1, <2>1, <2>2 DEF Tiles
  <1>4. Ok(n + 1)
    <2>1. n # 0 => n \in 1 .. n /\ n + 1 - 1 = n /\ more[n + 1 - 1] = toks[n]
      BY <1>1
    <2>2. (\A j \in 1 .. n + 1 - 1 : more[j].tok # "QuotedString") => Unquoted(toks)
      BY <1>1 DEF Unquoted
    <2>3. t.start = IF n + 1 = 1 THEN 1 ELSE more[n + 1 - 1].stop
      BY <1>1, <2>1 DEF n
    <2> QED
      BY <1>1, <2>2, <2>3
  <1>5. \A i \in 1 .. n + 1 : i \in 1 .. n \/ i = n + 1
    BY <1>1
  <1>6. \A i \in DOMAIN more : Ok(i)
    <2> HIDE DEF Ok
    <2> QED
      BY <1>2, <1>3, <1>4, <1>5
  <1>7. Tiles(text, more)
    BY <1>6, Zenon DEF Tiles
  <1> QED
    BY <1>7 DEF more

\* A token leaves the lexer in order.
LEMMA ConsumeKeeps ==
    ASSUME NEW Symbols, NEW text \in Seq(Symbols), EscapesInLine(text),
           NEW at \in LexStates(text), LexInv(text, at), at.index <= Len(text),
           NEW tok, NEW len, NextToken(text, at.index) = <<tok, len>>,
           IsToken(text, at.index, tok, len),
           NEW breaks,
           breaks = IF tok = "QuotedString" THEN QuotedBreaks(text, at.index) ELSE <<>>
    PROVE  /\ Consume(at, tok, len, breaks) \in LexStates(text)
           /\ LexInv(text, Consume(at, tok, len, breaks))
           /\ Consume(at, tok, len, breaks).index > at.index
  <1> DEFINE Token == [ tok : {NextToken(text, i)[1] : i \in 1 .. Len(text)},
                        start : Int, stop : Int, line : Int, indent : Int ]
             i == at.index
             toks == at.tokens
             column == CASE tok = "Newline" -> 1
                         [] breaks # <<>> -> i + len - breaks[Len(breaks)]
                         [] OTHER -> at.column + len
             indent == IF tok = "Space" /\ at.column = 1 THEN len ELSE at.indent
             after == IF tok = "Newline" THEN 0 ELSE indent
             line == IF tok = "Newline" THEN at.line + 1 ELSE at.line + Len(breaks)
             t == [tok |-> tok, start |-> i, stop |-> i + len, line |-> at.line, indent |-> indent]
             new == [ index |-> i + len, line |-> line, column |-> column, indent |-> after,
                      tokens |-> Append(toks, t) ]
  <1>0. Consume(at, tok, len, breaks) = new
    BY Zenon DEF Consume, IndentAfter
  <1>1. /\ at.line \in Int /\ at.column \in Int /\ at.indent \in Int /\ toks \in Seq(Token)
        /\ i \in 1 .. Len(text) /\ Len(text) \in Nat /\ DOMAIN text = 1 .. Len(text)
    <2>1. at \in [index : Int, line : Int, column : Int, indent : Int, tokens : Seq(Token)]
      BY DEF LexStates
    <2> HIDE DEF Token
    <2>2. /\ at.line \in Int /\ at.column \in Int /\ at.indent \in Int /\ toks \in Seq(Token)
      BY <2>1
    <2>3. at.index \in 1 .. Len(text) + 1
      BY DEF LexInv
    <2> QED
      BY <2>2, <2>3
  <1>2. /\ at.line = LineOf(text, i) /\ (Unquoted(toks) => Located(text, at)) /\ Tiles(text, toks)
        /\ i = IF toks = <<>> THEN 1 ELSE toks[Len(toks)].stop
    BY DEF LexInv
  <1> HIDE DEF t, column, indent, after, line, Token, toks
  \* Where it stops, and on which line.
  <1>3. len \in Nat \ {0} /\ i + len \in 1 .. Len(text) + 1 /\ line = LineOf(text, i + len)
    <2>1. CASE tok = "QuotedString"
      <3>1. text[i] \in Quotes /\ len = QuotedEnd(text, i) - i /\ breaks = QuotedBreaks(text, i)
        BY <2>1 DEF IsToken
      <3>2. /\ QuotedEnd(text, i) \in i + 1 .. Len(text) + 1 /\ breaks \in Seq(Int)
            /\ LineOf(text, QuotedEnd(text, i)) = LineOf(text, i) + Len(breaks)
        BY <1>1, <3>1, QuotedIs
      <3>3. line = at.line + Len(breaks)
        BY <2>1 DEF line
      <3>4. i + len = QuotedEnd(text, i) /\ len \in Nat \ {0}
        <4> DEFINE e == QuotedEnd(text, i)
        <4>1. len = e - i
          BY <3>1
        <4>2. e \in Int /\ e > i
          BY <1>1, <3>2
        <4>3. i \in Int
          BY <1>1
        <4> HIDE DEF e
        <4>4. i + len = e /\ len \in Nat \ {0}
          BY <4>1, <4>2, <4>3
        <4> QED
          BY <4>4 DEF e
      <3>5. line = LineOf(text, i + len)
        BY <1>2, <3>2, <3>3, <3>4, Zenon
      <3> QED
        BY <1>1, <3>2, <3>4, <3>5
    <2>2. CASE tok = "Newline"
      <3>1. len = 1 /\ text[i] = Newline /\ i + len <= Len(text) + 1
        BY <2>2 DEF IsToken
      <3>2. line = at.line + 1
        BY <2>2 DEF line
      <3>3. LineOf(text, i + 1) = LineOf(text, i) + 1
        BY <1>1, <3>1, NextLine
      <3> QED
        BY <1>1, <1>2, <3>1, <3>2, <3>3
    <2>3. CASE tok \notin {"Newline", "QuotedString"}
      <3>1. /\ len \in Nat \ {0} /\ i + len <= Len(text) + 1
            /\ \A j \in i .. i + len - 1 : text[j] # Newline
        BY <2>3 DEF IsToken
      <3>2. line = at.line
        BY <1>1, <2>3 DEF line
      <3>3. LineOf(text, i + len) = LineOf(text, i)
        <4> DEFINE e == i + len
        <4>1. \A j \in i .. e - 1 : text[j] # Newline
          BY <1>1, <3>1
        <4>2. i \in Nat \ {0} /\ e \in Nat /\ i <= e
          <5>1. i \in Nat \ {0} /\ len \in Nat
            BY <1>1, <3>1
          <5> HIDE DEF i
          <5> QED
            BY <5>1
        <4> HIDE DEF i, e
        <4>3. LineOf(text, e) = LineOf(text, i)
          BY <4>1, <4>2, SameLine
        <4> QED
          BY <4>3 DEF e
      <3> QED
        BY <1>1, <1>2, <3>1, <3>2, <3>3
    <2> QED
      BY <2>1, <2>2, <2>3
  <1>4. breaks \in Seq(Int) /\ (tok # "QuotedString" => breaks = <<>>)
    <2>1. tok = "QuotedString" => text[i] \in Quotes
      BY DEF IsToken
    <2> QED
      BY <1>1, <2>1, QuotedIs
  \* Its fields.
  <1>5. t \in Token /\ column \in Int /\ after \in Int /\ line \in Int
    <2>1. indent \in Int /\ after \in Int
      BY <1>1, <1>3 DEF indent, after
    <2>2. column \in Int
      <3>1. breaks # <<>> => Len(breaks) \in 1 .. Len(breaks)
        BY <1>4
      <3>2. breaks # <<>> => breaks[Len(breaks)] \in Int
        BY <1>4, <3>1
      <3>3. CASE breaks = <<>> /\ tok # "Newline"
        BY <1>1, <1>3, <3>3 DEF column
      <3>4. CASE breaks # <<>>
        <4>1. tok # "Newline"
          BY <1>4, <3>4
        <4> QED
          BY <1>1, <1>3, <3>2, <3>4, <4>1 DEF column
      <3>5. CASE breaks = <<>> /\ tok = "Newline"
        BY <3>5 DEF column
      <3> QED
        BY <3>3, <3>4, <3>5
    <2>3. line \in Int
      BY <1>1, <1>4 DEF line
    <2>4. tok \in {NextToken(text, k)[1] : k \in 1 .. Len(text)}
      <3>1. NextToken(text, i)[1] = tok
        OBVIOUS
      <3> QED
        BY <1>1, <3>1
    <2>5. t \in Token
      <3> DEFINE K == {NextToken(text, k)[1] : k \in 1 .. Len(text)}
      <3>1. tok \in K
        BY <2>4
      <3> HIDE DEF K
      <3>2. t \in [tok : K, start : Int, stop : Int, line : Int, indent : Int]
        BY <1>1, <1>3, <2>1, <3>1 DEF t
      <3> QED
        BY <3>2 DEF K, Token
    <2> QED
      BY <2>1, <2>2, <2>3, <2>5
  \* The start of its line, before the first quoted string.
  <1> DEFINE start == i + 1 - at.column
  <1>6. ASSUME Unquoted(toks)
        PROVE  /\ start \in 1 .. i /\ StartsLine(text, start, i)
               /\ at.indent = IF at.column = 1 THEN 0 ELSE Indented(text, start)
               /\ at.column = 1 /\ tok # "Space" => Indented(text, start) = 0
               /\ at.column = 1 /\ tok = "Space" => Indented(text, start) = len
    <2>1. /\ start \in 1 .. i /\ StartsLine(text, start, i)
          /\ at.indent = IF at.column = 1 THEN 0 ELSE Indented(text, start)
      BY <1>2, <1>6 DEF Located
    <2>2. ASSUME at.column = 1, tok # "Space" PROVE Indented(text, start) = 0
      <3>1. start = i
        BY <1>1, <2>2
      <3>2. text[i] # Blank
        BY <2>2 DEF IsToken
      <3> HIDE DEF start
      <3>3. /\ 0 \in Nat /\ i \in 1 .. Len(text) + 1 /\ i + 0 <= Len(text) + 1
            /\ \A k \in i .. i + 0 - 1 : text[k] = Blank
            /\ i + 0 \in 1 .. Len(text) => text[i + 0] # Blank
        BY <1>1, <3>2
      <3> QED
        BY <1>1, <3>1, <3>3, IndentedBy
    <2>3. ASSUME at.column = 1, tok = "Space" PROVE Indented(text, start) = len
      <3>1. start = i
        BY <1>1, <2>3
      <3> HIDE DEF start
      <3>2. /\ len \in Nat /\ i \in 1 .. Len(text) + 1 /\ i + len <= Len(text) + 1
            /\ \A k \in i .. i + len - 1 : text[k] = Blank
            /\ i + len \in 1 .. Len(text) => text[i + len] # Blank
        BY <1>1, <1>3, <2>3 DEF IsToken
      <3> QED
        BY <1>1, <3>1, <3>2, IndentedBy
    <2> QED
      BY <2>1, <2>2, <2>3
  <1>7. tok \notin {"Space", "Newline"} /\ Unquoted(toks) => t.indent = IndentOf(text, i)
    <2> SUFFICES ASSUME tok \notin {"Space", "Newline"}, Unquoted(toks)
                 PROVE  t.indent = IndentOf(text, i)
      OBVIOUS
    <2>1. t.indent = at.indent
      BY DEF t, indent
    <2>2. at.indent = Indented(text, start)
      BY <1>6
    <2>3. LineStart(text, i) = start
      <3>1. i \in Nat \ {0} /\ start \in 1 .. i /\ StartsLine(text, start, i)
        BY <1>1, <1>6
      <3> HIDE DEF start
      <3> QED
        BY <3>1, LineStartIs
    <2> QED
      BY <2>1, <2>2, <2>3 DEF IndentOf
  <1>8. Tiles(text, Append(toks, t))
    <2>1. /\ t.start = i /\ t.stop = i + len /\ t.line = LineOf(text, i) /\ t.tok = tok
      BY <1>2 DEF t
    <2>2. t.start < t.stop
      BY <1>1, <1>3, <2>1
    <2> QED
      BY <1>1, <1>2, <1>5, <1>7, <2>1, <2>2, TilesOn
  <1>9. /\ Append(toks, t) \in Seq(Token) /\ Append(toks, t) # <<>>
        /\ Append(toks, t)[Len(Append(toks, t))] = t
        /\ \A k \in 1 .. Len(toks) : Append(toks, t)[k] = toks[k]
        /\ Len(Append(toks, t)) = Len(toks) + 1
    BY <1>1, <1>5, AppendIs
  <1>10. ASSUME Unquoted(Append(toks, t)) PROVE Unquoted(toks) /\ tok # "QuotedString"
    <2> DEFINE more == Append(toks, t)
               n == Len(toks)
    <2>1. n \in Nat /\ DOMAIN toks = 1 .. n /\ DOMAIN more = 1 .. n + 1 /\ more[n + 1] = t
      BY <1>1, <1>9
    <2>2. \A k \in 1 .. n : more[k] = toks[k] /\ k \in 1 .. n + 1
      BY <1>1, <1>9
    <2>3. \A k \in DOMAIN more : more[k].tok # "QuotedString"
      BY <1>10 DEF Unquoted
    <2>4. t.tok = tok
      BY DEF t
    <2> HIDE DEF more, n
    <2> QED
      BY <2>1, <2>2, <2>3, <2>4 DEF Unquoted
  <1>11. ASSUME Unquoted(Append(toks, t)) PROVE Located(text, new)
    <2>1. Unquoted(toks) /\ tok # "QuotedString" /\ breaks = <<>>
      BY <1>4, <1>10, <1>11
    <2>2. CASE tok = "Newline"
      <3>1. column = 1 /\ after = 0 /\ len = 1 /\ text[i] = Newline
        BY <2>1, <2>2 DEF column, after, IsToken
      <3>2. StartsLine(text, i + 1, i + 1)
        BY <1>1, <3>1 DEF StartsLine
      <3>3. (i + 1) + 1 - 1 = i + 1 /\ i + 1 \in 1 .. i + 1
        BY <1>1
      <3> QED
        BY <3>1, <3>2, <3>3 DEF Located
    <2>3. CASE tok # "Newline"
      <3>1. column = at.column + len
        BY <2>1, <2>3 DEF column
      <3>2. /\ start \in 1 .. i /\ StartsLine(text, start, i)
            /\ at.indent = IF at.column = 1 THEN 0 ELSE Indented(text, start)
            /\ at.column = 1 /\ tok # "Space" => Indented(text, start) = 0
            /\ at.column = 1 /\ tok = "Space" => Indented(text, start) = len
        BY <1>6, <2>1
      <3>3. (i + len) + 1 - column = start /\ column # 1 /\ start \in 1 .. i + len
        <4>1. \A a, b, c, d \in Int :
                  b = a + 1 - c /\ b \in 1 .. a /\ d \in Nat \ {0}
                      => (a + d) + 1 - (c + d) = b /\ c + d # 1 /\ b \in 1 .. a + d
          OBVIOUS
        <4>2. i \in Int /\ start \in Int /\ at.column \in Int /\ len \in Int /\ start = i + 1 - at.column
          BY <1>1, <1>3
        <4>3. start \in 1 .. i /\ len \in Nat \ {0}
          BY <1>3, <3>2
        <4> HIDE DEF start, i
        <4>4. (i + len) + 1 - (at.column + len) = start /\ at.column + len # 1 /\ start \in 1 .. i + len
          BY <4>1, <4>2, <4>3
        <4> QED
          BY <3>1, <4>4
      <3>4. after = Indented(text, start)
        BY <2>3, <3>2 DEF after, indent
      <3>5. StartsLine(text, start, i + len)
        <4>1. \A k \in i .. i + len - 1 : text[k] # Newline
          BY <2>1, <2>3 DEF IsToken
        <4> HIDE DEF start
        <4>2. \A k \in start .. i + len - 1 : k \in start .. i - 1 \/ k \in i .. i + len - 1
          BY <1>1, <1>3, <3>2
        <4>3. \A k \in start .. i + len - 1 : text[k] # Newline
          BY <3>2, <4>1, <4>2 DEF StartsLine
        <4>4. start = 1 \/ text[start - 1] = Newline
          BY <3>2 DEF StartsLine
        <4> DEFINE e == i + len
        <4>5. \A k \in start .. e - 1 : text[k] # Newline
          BY <1>1, <1>3, <3>2, <4>3
        <4> HIDE DEF e
        <4>6. StartsLine(text, start, e)
          BY <4>4, <4>5 DEF StartsLine
        <4> QED
          BY <4>6 DEF e
      <3> HIDE DEF start
      <3> QED
        BY <3>3, <3>4, <3>5 DEF Located
    <2> QED
      BY <2>2, <2>3
  <1>12. /\ new.index = i + len /\ new.line = line /\ new.column = column /\ new.indent = after
         /\ new.tokens = Append(toks, t)
    OBVIOUS
  <1>13. new \in LexStates(text)
    <2>1. new \in [index : Int, line : Int, column : Int, indent : Int, tokens : Seq(Token)]
      BY <1>1, <1>3, <1>5, <1>9
    <2> QED
      BY <2>1 DEF LexStates, Token
  <1>14. LexInv(text, new)
    <2>1. t.stop = i + len
      BY DEF t
    <2> HIDE DEF new
    <2> QED
      BY <1>3, <1>8, <1>9, <1>11, <1>12, <2>1 DEF LexInv
  <1>15. new.index > at.index
    BY <1>1, <1>3, <1>12
  <1> HIDE DEF new
  <1> QED
    BY <1>0, <1>13, <1>14, <1>15

\* One more token of the text.
LEMMA ConsumeNextKeeps ==
    ASSUME NEW Symbols, NEW text \in Seq(Symbols), EscapesInLine(text),
           NEW at \in LexStates(text), LexInv(text, at)
    PROVE  /\ ConsumeNext(text, at) \in LexStates(text)
           /\ LexInv(text, ConsumeNext(text, at))
           /\ at.index <= Len(text) => ConsumeNext(text, at).index > at.index
           /\ at.index > Len(text) => ConsumeNext(text, at) = at
  <1>1. at.index \in 1 .. Len(text) + 1
    BY DEF LexInv
  <1>2. CASE at.index > Len(text)
    <2>1. ConsumeNext(text, at) = at
      BY <1>2 DEF ConsumeNext
    <2> QED
      BY <1>1, <1>2, <2>1
  <1>3. CASE at.index <= Len(text)
    <2>1. at.index \in 1 .. Len(text)
      BY <1>1, <1>3
    <2>2. PICK tok, len : NextToken(text, at.index) = <<tok, len>> /\ IsToken(text, at.index, tok, len)
      BY <2>1, NextTokenIs
    <2> DEFINE breaks == IF tok = "QuotedString" THEN QuotedBreaks(text, at.index) ELSE <<>>
    <2>3. ConsumeNext(text, at) = Consume(at, tok, len, breaks)
      <3>1. ~(at.index > Len(text))
        BY <1>1, <1>3
      <3>2. <<tok, len>>[1] = tok /\ <<tok, len>>[2] = len
        OBVIOUS
      <3> QED
        BY <2>2, <3>1, <3>2, Zenon DEF ConsumeNext
    <2>4. /\ Consume(at, tok, len, breaks) \in LexStates(text)
          /\ LexInv(text, Consume(at, tok, len, breaks))
          /\ Consume(at, tok, len, breaks).index > at.index
      <3>1. breaks = IF tok = "QuotedString" THEN QuotedBreaks(text, at.index) ELSE <<>>
        OBVIOUS
      <3> HIDE DEF breaks
      <3> QED
        BY <1>3, <2>2, <3>1, ConsumeKeeps
    <2> HIDE DEF breaks
    <2> QED
      BY <1>1, <1>3, <2>3, <2>4
  <1> QED
    BY <1>1, <1>2, <1>3

\* It begins as it goes on.
LEMMA LexStarts ==
    ASSUME NEW Symbols, NEW text \in Seq(Symbols)
    PROVE  Start \in LexStates(text) /\ LexInv(text, Start)
  <1> DEFINE Token == [ tok : {NextToken(text, i)[1] : i \in 1 .. Len(text)},
                        start : Int, stop : Int, line : Int, indent : Int ]
  <1>1. /\ Start.index = 1 /\ Start.line = 1 /\ Start.column = 1 /\ Start.indent = 0
        /\ Start.tokens = <<>>
    BY DEF Start
  <1>2. <<>> \in Seq(Token)
    OBVIOUS
  <1>3. Start \in LexStates(text)
    <2> HIDE DEF Token
    <2>1. Start \in [index : Int, line : Int, column : Int, indent : Int, tokens : Seq(Token)]
      BY <1>2 DEF Start
    <2> QED
      BY <2>1 DEF LexStates, Token
  <1>4. LineOf(text, 1) = 1
    <2>1. {j \in 1 .. 1 - 1 : text[j] = Newline} = {}
      OBVIOUS
    <2> QED
      BY <2>1, FS_EmptySet DEF LineOf
  <1>5. StartsLine(text, 1, 1)
    BY DEF StartsLine
  <1>6. Located(text, Start)
    BY <1>1, <1>5 DEF Located
  <1>7. Tiles(text, <<>>)
    BY DEF Tiles
  <1>8. Len(text) \in Nat
    OBVIOUS
  <1> QED
    BY <1>1, <1>3, <1>4, <1>6, <1>7, <1>8 DEF LexInv

\* The function Lex is defined by.
IsLexing(text, f) ==
    f = [n \in 0 .. Len(text) |-> IF n = 0 THEN Start ELSE ConsumeNext(text, f[n - 1])]

\* Its values, and where they lead.
LEMMA LexIs ==
    ASSUME NEW Symbols, NEW text \in Seq(Symbols), EscapesInLine(text)
    PROVE  \E f : /\ IsLexing(text, f) /\ Lex(text) = f[Len(text)].tokens
                  /\ \A n \in 0 .. Len(text) : f[n] \in LexStates(text) /\ LexInv(text, f[n])
                  /\ f[Len(text)].index = Len(text) + 1
  <1> DEFINE N == Len(text)
             T == {at \in LexStates(text) : LexInv(text, at)}
             step == [x \in (1 .. N) \X T |-> ConsumeNext(text, x[2])]
  <1>1. N \in Nat /\ Start \in T
    BY LexStarts
  <1>2. \A at \in T : ConsumeNext(text, at) \in T
    BY ConsumeNextKeeps
  <1>3. step \in [(1 .. N) \X T -> T] /\ \A n \in 1 .. N, at \in T : step[<<n, at>>] = ConsumeNext(text, at)
    <2> HIDE DEF T
    <2> QED
      BY <1>2
  <1> HIDE DEF step
  <1>4. PICK g \in [0 .. N -> T] : Steps(g, N, Start, step)
    <2> HIDE DEF T, N
    <2> QED
      BY <1>1, <1>3, StepsHaveAFunction
  <1>5. \A n \in 0 .. N : g[n] = IF n = 0 THEN Start ELSE ConsumeNext(text, g[n - 1])
    <2> SUFFICES ASSUME NEW n \in 0 .. N
                 PROVE  g[n] = IF n = 0 THEN Start ELSE ConsumeNext(text, g[n - 1])
      OBVIOUS
    <2>1. g[n] = IF n = 0 THEN Start ELSE step[<<n, g[n - 1]>>]
      BY <1>4 DEF Steps
    <2>2. n # 0 => n \in 1 .. N /\ g[n - 1] \in T
      BY <1>1, <1>4
    <2> HIDE DEF T
    <2> QED
      BY <1>3, <2>1, <2>2
  <1>6. IsLexing(text, g)
    <2> HIDE DEF T
    <2> QED
      BY <1>5, g = [n \in 0 .. N |-> g[n]] DEF IsLexing
  <1> DEFINE f == CHOOSE h : IsLexing(text, h)
  <1>7. IsLexing(text, f) /\ Lex(text) = f[N].tokens
    BY <1>6, Zenon DEF Lex, IsLexing
  <1> HIDE DEF f
  <1>8. \A n \in 0 .. N : f[n] = IF n = 0 THEN Start ELSE ConsumeNext(text, f[n - 1])
    BY <1>7 DEF IsLexing
  <1> DEFINE Fine(n) == f[n] \in T /\ (f[n].index >= n + 1 \/ f[n].index = N + 1)
             S == {n \in 0 .. N : Fine(n)}
  <1>9. 0 \in S
    BY <1>1, <1>8 DEF Start
  <1>10. ASSUME NEW n \in 0 .. N - 1, n \in S PROVE n + 1 \in S
    <2>1. n + 1 \in 0 .. N /\ n + 1 # 0 /\ n + 1 - 1 = n
      BY <1>1
    <2>2. f[n + 1] = ConsumeNext(text, f[n])
      BY <1>8, <2>1
    <2>3. f[n] \in LexStates(text) /\ LexInv(text, f[n])
      BY <1>10
    <2>4. /\ f[n + 1] \in T
          /\ f[n].index <= N => f[n + 1].index > f[n].index
          /\ f[n].index > N => f[n + 1] = f[n]
      BY <2>2, <2>3, ConsumeNextKeeps
    <2>5. f[n].index \in 1 .. N + 1 /\ f[n + 1].index \in 1 .. N + 1
      BY <2>3, <2>4 DEF LexInv
    <2>6. f[n].index >= n + 1 \/ f[n].index = N + 1
      BY <1>10
    <2>7. f[n + 1].index >= n + 2 \/ f[n + 1].index = N + 1
      <3> DEFINE old == f[n].index
                 new == f[n + 1].index
      <3>1. old \in 1 .. N + 1 /\ new \in 1 .. N + 1 /\ (old >= n + 1 \/ old = N + 1)
        BY <2>5, <2>6
      <3>2. (old <= N => new > old) /\ (old > N => new = old)
        BY <2>4
      <3>3. n \in Nat /\ N \in Nat
        BY <1>1
      <3> HIDE DEF old, new, N
      <3>4. new >= n + 2 \/ new = N + 1
        BY <3>1, <3>2, <3>3
      <3> QED
        BY <3>4 DEF old, new
    <2> QED
      BY <2>1, <2>4, <2>7
  <1>11. \A n \in 0 .. N : n \in S
    <2> HIDE DEF S, N
    <2> QED
      BY <1>1, <1>9, <1>10, UpTo
  <1>12. f[N].index = N + 1
    <2>1. f[N].index >= N + 1 \/ f[N].index = N + 1
      BY <1>1, <1>11
    <2>2. f[N].index \in 1 .. N + 1
      BY <1>1, <1>11 DEF LexInv
    <2> QED
      BY <2>1, <2>2
  <1> QED
    BY <1>7, <1>11, <1>12

\* What the lexer is given: a text whose escapes hide a character of their line;
\* QuoteInput below: one without escapes that is put between quotes.
LexInput(Symbols) == [kind : {"lex"}, text : {t \in Seq(Symbols) : EscapesInLine(t)}]

\* Every character is in one token, at its place.
LEMMA TokensTileTheTextHolds ==
    ASSUME NEW Symbols, input \in LexInput(Symbols)
    PROVE  TokensTileTheText
  <1> DEFINE text == input.text
             N == Len(text)
             toks == Lex(text)
  <1>1. text \in Seq(Symbols) /\ EscapesInLine(text) /\ N \in Nat
    BY DEF LexInput
  <1> HIDE DEF text, toks
  <1>2. PICK f : /\ toks = f[N].tokens
                 /\ \A n \in 0 .. N : f[n] \in LexStates(text) /\ LexInv(text, f[n])
                 /\ f[N].index = N + 1
    BY <1>1, LexIs DEF toks
  <1>3. LexInv(text, f[N])
    BY <1>1, <1>2
  <1>4. Tiles(text, toks)
    BY <1>2, <1>3 DEF LexInv
  <1>5. ASSUME text # <<>> PROVE toks # <<>> /\ toks[Len(toks)].stop = N + 1
    <2>1. N # 0
      BY <1>1, <1>5
    <2>2. N + 1 = IF toks = <<>> THEN 1 ELSE toks[Len(toks)].stop
      BY <1>2, <1>3 DEF LexInv
    <2> QED
      BY <1>1, <2>1, <2>2
  <1> QED
    BY <1>4, <1>5, Zenon DEF TokensTileTheText, text, toks, N

\* The functions Quoted and Unescaped are defined by.
IsQuoting(text, quote, from) ==
    from = [i \in 1 .. Len(text) + 1 |->
               IF i > Len(text) THEN <<quote>>
               ELSE IF text[i] = quote THEN <<Escape, quote>> \o from[i + 1]
               ELSE <<text[i]>> \o from[i + 1]]

IsUnescaping(text, i, j, from) ==
    from = [k \in i .. j + 1 |->
               IF k > j THEN <<>>
               ELSE IF text[k] = Escape THEN from[k + 1]
               ELSE <<text[k]>> \o from[k + 1]]

\* They exist.
LEMMA QuotingIs ==
    ASSUME NEW Symbols, NEW text \in Seq(Symbols), NEW quote
    PROVE  \E from : /\ Quoted(text, quote) = <<quote>> \o from[1]
                     /\ from[Len(text) + 1] = <<quote>>
                     /\ \A i \in 1 .. Len(text) :
                            /\ text[i] = quote => from[i] = <<Escape, quote>> \o from[i + 1]
                            /\ text[i] # quote => from[i] = <<text[i]>> \o from[i + 1]
                     /\ \A i \in 1 .. Len(text) + 1 : from[i] \in Seq(Symbols \cup {Escape, quote})
  <1> DEFINE N == Len(text)
             D == 1 .. N + 1
             T == Seq(Symbols \cup {Escape, quote})
             Inner == {i \in D : i <= N}
             next == [i \in Inner |-> i + 1]
             With(i, s) == IF text[i] = quote THEN <<Escape, quote>> \o s ELSE <<text[i]>> \o s
             join == [x \in Inner \X T |-> With(x[1], x[2])]
             base == [i \in D |-> <<quote>>]
             go(i, g) == IF i > N THEN <<quote>>
                         ELSE IF text[i] = quote THEN <<Escape, quote>> \o g[i + 1]
                         ELSE <<text[i]>> \o g[i + 1]
  <1>1. /\ Inner \subseteq D /\ next \in [Inner -> D] /\ \A i \in Inner : i < next[i]
        /\ 1 \in Int /\ N + 1 \in Int /\ N \in Nat
    OBVIOUS
  <1>2. base \in [D -> T] /\ T # {}
    <2>1. <<quote>> \in T
      OBVIOUS
    <2> HIDE DEF T, D
    <2> QED
      BY <2>1
  <1>3. \A i \in Inner, s \in T : With(i, s) \in T
    <2> SUFFICES ASSUME NEW i \in Inner, NEW s \in T PROVE With(i, s) \in T
      OBVIOUS
    <2>1. <<text[i]>> \in T /\ <<Escape, quote>> \in T
      OBVIOUS
    <2>2. \A a \in T, b \in T : a \o b \in T
      OBVIOUS
    <2> HIDE DEF T
    <2> QED
      BY <2>1, <2>2
  <1>4. join \in [Inner \X T -> T] /\ \A i \in Inner, s \in T : join[<<i, s>>] = With(i, s)
    <2> HIDE DEF Inner, T, With
    <2> QED
      BY <1>3
  <1>5. PICK f \in [D -> T] : Forward(f, D, next, join, base)
    <2> HIDE DEF Inner, next, join, base, N, T
    <2> QED
      BY <1>1, <1>2, <1>4, ForwardHasAFunction
  <1>6. ASSUME NEW i \in D PROVE f[i] = go(i, f)
    <2>1. f[i] = IF i \in Inner THEN join[<<i, f[next[i]]>>] ELSE base[i]
      BY <1>1, <1>5 DEF Forward
    <2>2. i \in Inner => f[next[i]] \in T /\ next[i] = i + 1
      BY <1>1, <1>5
    <2>3. i \in Inner => join[<<i, f[next[i]]>>] = With(i, f[i + 1])
      <3> HIDE DEF Inner, next, T, With, join
      <3> QED
        BY <1>4, <2>2
    <2>4. base[i] = <<quote>>
      OBVIOUS
    <2>5. (i \in Inner <=> ~(i > N))
      OBVIOUS
    <2> HIDE DEF next, join, base, T, Inner
    <2> QED
      BY <2>1, <2>3, <2>4, <2>5, Zenon
  <1>7. IsQuoting(text, quote, f)
    <2> DEFINE g == [i \in D |-> go(i, f)]
    <2>1. f = g
      <3>1. \A i \in D : f[i] = g[i]
        BY <1>6
      <3>2. f = [i \in D |-> f[i]] /\ g = [i \in D |-> g[i]]
        OBVIOUS
      <3> HIDE DEF g, D
      <3> QED
        BY <3>1, <3>2
    <2> QED
      BY <2>1, Zenon DEF IsQuoting
  <1> DEFINE from == CHOOSE h : IsQuoting(text, quote, h)
  <1>8. IsQuoting(text, quote, from) /\ Quoted(text, quote) = <<quote>> \o from[1]
    BY <1>7, Zenon DEF Quoted, IsQuoting
  <1> HIDE DEF from
  <1>9. \A i \in D : from[i] = go(i, from)
    <2>1. from = [i \in D |-> go(i, from)]
      BY <1>8, Zenon DEF IsQuoting
    <2> HIDE DEF go, D
    <2> QED
      BY <2>1
  <1> DEFINE S == {i \in D : from[i] \in T}
  <1>10. ASSUME NEW i \in D, \A k \in i + 1 .. N + 1 : k \in S PROVE i \in S
    <2>1. CASE i > N
      <3>1. from[i] = <<quote>>
        BY <1>9, <2>1, Zenon
      <3>2. <<quote>> \in T
        OBVIOUS
      <3> HIDE DEF T
      <3> QED
        BY <3>1, <3>2
    <2>2. CASE ~(i > N)
      <3>1. i + 1 \in S /\ i \in Inner
        BY <1>1, <1>10, <2>2
      <3>2. from[i] = With(i, from[i + 1])
        BY <1>9, <2>2, Zenon
      <3>3. With(i, from[i + 1]) \in T
        <4> HIDE DEF With, T, Inner
        <4> QED
          BY <1>3, <3>1
      <3> HIDE DEF T, With
      <3> QED
        BY <3>2, <3>3
    <2> QED
      BY <2>1, <2>2
  <1>11. \A i \in D : i \in S
    <2> HIDE DEF S, N
    <2> QED
      BY <1>1, <1>10, DownTo
  <1>12. from[N + 1] = <<quote>>
    <2>1. N + 1 \in D /\ N + 1 > N
      BY <1>1
    <2> QED
      BY <1>9, <2>1, Zenon
  <1>13. ASSUME NEW i \in 1 .. N
         PROVE  /\ text[i] = quote => from[i] = <<Escape, quote>> \o from[i + 1]
                /\ text[i] # quote => from[i] = <<text[i]>> \o from[i + 1]
    <2>1. i \in D /\ ~(i > N)
      BY <1>1
    <2> QED
      BY <1>9, <2>1, Zenon
  <1>14. \A i \in D : from[i] \in T
    BY <1>11
  <1> QED
    <2> HIDE DEF go, S
    <2> QED
      BY <1>8, <1>12, <1>13, <1>14, Zenon DEF N, T, D

\* What such a function does, character by character.
Unescapes(text, i, j, from) ==
    /\ from[j + 1] = <<>>
    /\ \A k \in i .. j : text[k] = Escape => from[k] = from[k + 1]
    /\ \A k \in i .. j : text[k] # Escape => from[k] = <<text[k]>> \o from[k + 1]

\* It exists too.
LEMMA UnescapingIs ==
    ASSUME NEW Symbols, NEW text \in Seq(Symbols),
           NEW i \in 1 .. Len(text) + 1, NEW j \in 0 .. Len(text), i <= j + 1
    PROVE  \E from : Unescaped(text, i, j) = from[i] /\ Unescapes(text, i, j, from)
  <1> DEFINE D == i .. j + 1
             T == Seq(Symbols)
             Inner == {k \in D : k <= j}
             next == [k \in Inner |-> k + 1]
             With(k, s) == IF text[k] = Escape THEN s ELSE <<text[k]>> \o s
             join == [x \in Inner \X T |-> With(x[1], x[2])]
             base == [k \in D |-> <<>>]
             go(k, g) == IF k > j THEN <<>>
                         ELSE IF text[k] = Escape THEN g[k + 1]
                         ELSE <<text[k]>> \o g[k + 1]
  <1>1. /\ Inner \subseteq D /\ next \in [Inner -> D] /\ \A k \in Inner : k < next[k]
        /\ i \in Int /\ j + 1 \in Int /\ j \in Nat
    OBVIOUS
  <1>2. base \in [D -> T] /\ T # {}
    <2>1. <<>> \in T
      OBVIOUS
    <2> HIDE DEF T, D
    <2> QED
      BY <2>1
  <1>3. \A k \in Inner, s \in T : With(k, s) \in T
    <2> SUFFICES ASSUME NEW k \in Inner, NEW s \in T PROVE With(k, s) \in T
      OBVIOUS
    <2>1. <<text[k]>> \in T
      OBVIOUS
    <2>2. \A a \in T, b \in T : a \o b \in T
      OBVIOUS
    <2> HIDE DEF T
    <2> QED
      BY <2>1, <2>2
  <1>4. join \in [Inner \X T -> T] /\ \A k \in Inner, s \in T : join[<<k, s>>] = With(k, s)
    <2> HIDE DEF Inner, T, With
    <2> QED
      BY <1>3
  <1>5. PICK f \in [D -> T] : Forward(f, D, next, join, base)
    <2> DEFINE b == j + 1
    <2>1. b \in Int /\ D = i .. b
      BY <1>1
    <2> HIDE DEF Inner, next, join, base, T, D, b
    <2> QED
      BY <1>1, <1>2, <1>4, <2>1, ForwardHasAFunction
  <1>6. ASSUME NEW k \in D PROVE f[k] = go(k, f)
    <2>1. f[k] = IF k \in Inner THEN join[<<k, f[next[k]]>>] ELSE base[k]
      BY <1>1, <1>5 DEF Forward
    <2>2. k \in Inner => f[next[k]] \in T /\ next[k] = k + 1
      BY <1>1, <1>5
    <2>3. k \in Inner => join[<<k, f[next[k]]>>] = With(k, f[k + 1])
      <3> HIDE DEF Inner, next, T, With, join
      <3> QED
        BY <1>4, <2>2
    <2>4. base[k] = <<>>
      OBVIOUS
    <2>5. (k \in Inner <=> ~(k > j))
      OBVIOUS
    <2> HIDE DEF next, join, base, T, Inner
    <2> QED
      BY <2>1, <2>3, <2>4, <2>5, Zenon
  <1>7. IsUnescaping(text, i, j, f)
    <2> DEFINE g == [k \in D |-> go(k, f)]
    <2>1. f = g
      <3>1. \A k \in D : f[k] = g[k]
        BY <1>6
      <3>2. f = [k \in D |-> f[k]] /\ g = [k \in D |-> g[k]]
        OBVIOUS
      <3> HIDE DEF g, D
      <3> QED
        BY <3>1, <3>2
    <2> QED
      BY <2>1, Zenon DEF IsUnescaping
  <1> DEFINE from == CHOOSE h : IsUnescaping(text, i, j, h)
  <1>8. IsUnescaping(text, i, j, from) /\ Unescaped(text, i, j) = IF i > j THEN <<>> ELSE from[i]
    BY <1>7, Zenon DEF Unescaped, IsUnescaping
  <1> HIDE DEF from
  <1>9. \A k \in D : from[k] = go(k, from)
    <2>1. from = [k \in D |-> go(k, from)]
      BY <1>8, Zenon DEF IsUnescaping
    <2> HIDE DEF go, D
    <2> QED
      BY <2>1
  <1>10. i > j => from[i] = <<>>
    <2>1. i \in D
      OBVIOUS
    <2> QED
      BY <1>9, <2>1, Zenon
  <1>11. Unescaped(text, i, j) = from[i]
    BY <1>8, <1>10, Zenon
  <1>12. from[j + 1] = <<>>
    <2>1. j + 1 \in D /\ j + 1 > j
      BY <1>1
    <2> QED
      BY <1>9, <2>1, Zenon
  <1>13. ASSUME NEW k \in i .. j
         PROVE  /\ text[k] = Escape => from[k] = from[k + 1]
                /\ text[k] # Escape => from[k] = <<text[k]>> \o from[k + 1]
    <2>1. k \in D /\ ~(k > j)
      BY <1>1
    <2> QED
      BY <1>9, <2>1, Zenon
  <1> QED
    <2> HIDE DEF go
    <2> QED
      BY <1>11, <1>12, <1>13, Zenon DEF Unescapes

\* Escapes stay in line behind a character that is none,
LEMMA InLineBehind ==
    ASSUME NEW X, NEW s \in Seq(X), EscapesInLine(s), NEW a \in X, a # Escape
    PROVE  <<a>> \o s \in Seq(X) /\ EscapesInLine(<<a>> \o s)
  <1> DEFINE u == <<a>> \o s
  <1>1. u \in Seq(X) /\ Len(u) = Len(s) + 1 /\ u[1] = a /\ \A k \in 1 .. Len(s) : u[k + 1] = s[k]
    OBVIOUS
  <1>2. Len(s) \in Nat /\ DOMAIN s = 1 .. Len(s)
    OBVIOUS
  <1> HIDE DEF u
  <1>3. EscapesInLine(u)
    <2> SUFFICES ASSUME NEW k \in 1 .. Len(u), u[k] = Escape PROVE k < Len(u) /\ u[k + 1] # Newline
      BY <1>1 DEF EscapesInLine
    <2>1. k # 1 /\ k - 1 \in 1 .. Len(s) /\ (k - 1) + 1 = k
      BY <1>1, <1>2
    <2>2. s[k - 1] = Escape
      BY <1>1, <2>1
    <2>3. k - 1 < Len(s) /\ s[(k - 1) + 1] # Newline
      BY <1>2, <2>1, <2>2 DEF EscapesInLine
    <2>4. k \in 1 .. Len(s)
      BY <1>2, <2>1, <2>3
    <2> QED
      BY <1>1, <1>2, <2>1, <2>3, <2>4
  <1> QED
    BY <1>1, <1>3 DEF u

\* and behind an escaped one.
LEMMA InLineBehindEscaped ==
    ASSUME NEW X, NEW s \in Seq(X), EscapesInLine(s), Escape \in X, NEW b \in X, b # Newline, b # Escape
    PROVE  <<Escape, b>> \o s \in Seq(X) /\ EscapesInLine(<<Escape, b>> \o s)
  <1> DEFINE t == <<Escape, b>> \o s
  <1>1. /\ t \in Seq(X) /\ Len(t) = Len(s) + 2 /\ t[1] = Escape /\ t[2] = b
        /\ \A k \in 1 .. Len(s) : t[k + 2] = s[k]
    OBVIOUS
  <1>2. Len(s) \in Nat /\ DOMAIN s = 1 .. Len(s)
    OBVIOUS
  <1> HIDE DEF t
  <1>3. EscapesInLine(t)
    <2> SUFFICES ASSUME NEW k \in 1 .. Len(t), t[k] = Escape PROVE k < Len(t) /\ t[k + 1] # Newline
      BY <1>1 DEF EscapesInLine
    <2>1. CASE k = 1
      BY <1>1, <1>2, <2>1
    <2>2. CASE k # 1
      <3>1. k # 2 /\ k - 2 \in 1 .. Len(s) /\ (k - 2) + 2 = k
        BY <1>1, <1>2, <2>2
      <3>2. s[k - 2] = Escape
        BY <1>1, <3>1
      <3>3. k - 2 < Len(s) /\ s[(k - 2) + 1] # Newline
        BY <1>2, <3>1, <3>2 DEF EscapesInLine
      <3>4. k - 1 \in 1 .. Len(s) /\ (k - 1) + 2 = k + 1 /\ (k - 2) + 1 = k - 1
        BY <1>2, <3>1, <3>3
      <3> QED
        BY <1>1, <1>2, <3>1, <3>3, <3>4
    <2> QED
      BY <2>1, <2>2
  <1> QED
    BY <1>1, <1>3 DEF t

\* A quoted text has its escapes in line.
LEMMA QuotedInLine ==
    ASSUME NEW Symbols, NEW text \in Seq(Symbols), \A i \in DOMAIN text : text[i] # Escape,
           NEW quote \in Quotes
    PROVE  /\ Quoted(text, quote) \in Seq(Symbols \cup {Escape, quote})
           /\ EscapesInLine(Quoted(text, quote))
  <1> DEFINE Y == Symbols \cup {Escape, quote}
             N == Len(text)
             D == 1 .. N + 1
  <1>1. PICK from : /\ Quoted(text, quote) = <<quote>> \o from[1]
                    /\ from[N + 1] = <<quote>>
                    /\ \A i \in 1 .. N :
                           /\ text[i] = quote => from[i] = <<Escape, quote>> \o from[i + 1]
                           /\ text[i] # quote => from[i] = <<text[i]>> \o from[i + 1]
                    /\ \A i \in D : from[i] \in Seq(Y)
    BY QuotingIs
  <1>2. quote # Escape /\ quote # Newline /\ quote \in Y /\ Escape \in Y /\ N \in Nat /\ DOMAIN text = 1 .. N
        /\ \A i \in 1 .. N : text[i] \in Y
    BY SymbolsDiffer
  <1>3. \A i \in D : from[i] \in Seq(Y)
    BY <1>1
  <1> DEFINE S == {i \in D : EscapesInLine(from[i])}
  <1>4. ASSUME NEW i \in D, \A k \in i + 1 .. N + 1 : k \in S PROVE i \in S
    <2>1. CASE i > N
      <3>1. from[i] = <<quote>>
        BY <1>1, <1>2, <2>1
      <3>2. EscapesInLine(<<quote>>)
        BY <1>2 DEF EscapesInLine
      <3> QED
        BY <3>1, <3>2
    <2>2. CASE i <= N
      <3>1. i \in 1 .. N /\ i + 1 \in D /\ EscapesInLine(from[i + 1]) /\ from[i + 1] \in Seq(Y)
        BY <1>2, <1>3, <1>4, <2>2
      <3>2. text[i] # Escape /\ text[i] \in Y
        BY <1>2, <3>1
      <3>3. CASE text[i] = quote
        <4>1. from[i] = <<Escape, quote>> \o from[i + 1]
          BY <1>1, <1>2, <3>1, <3>3, Zenon
        <4> HIDE DEF Y
        <4>2. EscapesInLine(<<Escape, quote>> \o from[i + 1])
          BY <1>2, <3>1, InLineBehindEscaped
        <4> QED
          BY <4>1, <4>2
      <3>4. CASE text[i] # quote
        <4>1. from[i] = <<text[i]>> \o from[i + 1]
          BY <1>1, <1>2, <3>1, <3>4, Zenon
        <4> HIDE DEF Y
        <4>2. EscapesInLine(<<text[i]>> \o from[i + 1])
          BY <1>2, <3>1, <3>2, InLineBehind
        <4> QED
          BY <4>1, <4>2
      <3> QED
        BY <3>3, <3>4
    <2> QED
      BY <1>2, <2>1, <2>2
  <1>5. \A i \in D : i \in S
    <2>1. 1 \in Int /\ N + 1 \in Int
      BY <1>2
    <2> HIDE DEF S, N
    <2> QED
      BY <1>4, <2>1, DownTo
  <1>6. from[1] \in Seq(Y) /\ EscapesInLine(from[1])
    <2>1. 1 \in D
      BY <1>2
    <2> QED
      BY <1>3, <1>5, <2>1
  <1> HIDE DEF Y
  <1>7. <<quote>> \o from[1] \in Seq(Y) /\ EscapesInLine(<<quote>> \o from[1])
    BY <1>2, <1>6, InLineBehind
  <1> QED
    BY <1>1, <1>7 DEF Y

\* The rest of a text from one place on is what is there and the rest behind it.
LEMMA RestIs ==
    ASSUME NEW X, NEW s \in Seq(X), NEW i \in 1 .. Len(s)
    PROVE  SubSeq(s, i, Len(s)) = <<s[i]>> \o SubSeq(s, i + 1, Len(s))
  <1> DEFINE n == Len(s)
             a == SubSeq(s, i, n)
             r == SubSeq(s, i + 1, n)
             b == <<s[i]>> \o r
  <1>1. a \in Seq(X) /\ Len(a) = n - i + 1 /\ \A k \in 1 .. n - i + 1 : a[k] = s[i + k - 1]
    OBVIOUS
  <1>2. r \in Seq(X) /\ Len(r) = n - i /\ \A k \in 1 .. n - i : r[k] = s[i + 1 + k - 1]
    OBVIOUS
  <1> HIDE DEF r
  <1>3. b \in Seq(X) /\ Len(b) = 1 + Len(r) /\ b[1] = s[i] /\ \A k \in 1 .. Len(r) : b[k + 1] = r[k]
    BY <1>2
  <1> HIDE DEF a, b
  <1>4. ASSUME NEW k \in 1 .. Len(a) PROVE a[k] = b[k]
    <2>1. CASE k = 1
      BY <1>1, <1>3, <2>1
    <2>2. CASE k # 1
      <3>1. k - 1 \in 1 .. Len(r) /\ (k - 1) + 1 = k /\ i + 1 + (k - 1) - 1 = i + k - 1
        BY <1>1, <1>2, <2>2
      <3> QED
        BY <1>1, <1>2, <1>3, <3>1
    <2> QED
      BY <2>1, <2>2
  <1>5. Len(a) = Len(b)
    BY <1>1, <1>2, <1>3
  <1>6. a = b
    BY <1>1, <1>3, <1>4, <1>5, SeqEqual
  <1> QED
    BY <1>6 DEF a, b, r

\* How the end of a quoted string is found, place by place.
EndsQuote(text, end) ==
    \A j \in 2 .. Len(text) :
        /\ text[j] = Escape => end[j] = end[j + 2]
        /\ text[j] # Escape /\ text[j] = text[1] => end[j] = j + 1
        /\ text[j] # Escape /\ text[j] # text[1] => end[j] = end[j + 1]

\* The function QuotedEnd is defined by finds it so.
LEMMA QuotedEndGoes ==
    ASSUME NEW text, Len(text) \in Nat, Len(text) > 0
    PROVE  \E end : QuotedEnd(text, 1) = end[2] /\ EndsQuote(text, end)
  <1>1. 1 \in 1 .. Len(text)
    OBVIOUS
  <1>2. PICK end : IsQuotedEnd(text, 1, end) /\ QuotedEnd(text, 1) = end[1 + 1]
    BY <1>1, QuotedEndIs
  <1>3. ASSUME NEW j \in 2 .. Len(text)
        PROVE  /\ text[j] = Escape => end[j] = end[j + 2]
               /\ text[j] # Escape /\ text[j] = text[1] => end[j] = j + 1
               /\ text[j] # Escape /\ text[j] # text[1] => end[j] = end[j + 1]
    <2>1. j \in 1 .. Len(text) + 2 /\ ~(j > Len(text))
      OBVIOUS
    <2>2. end[j] = IF j > Len(text) THEN j
                   ELSE IF text[j] = Escape THEN end[j + 2]
                   ELSE IF text[j] = text[1] THEN j + 1
                   ELSE end[j + 1]
      BY <1>2, <2>1 DEF IsQuotedEnd
    <2> QED
      BY <2>1, <2>2, Zenon
  <1>4. 1 + 1 = 2
    OBVIOUS
  <1>5. EndsQuote(text, end)
    BY <1>3, Zenon DEF EndsQuote
  <1> QED
    BY <1>2, <1>4, <1>5

\* Two characters in front of a sequence.
LEMMA PairInFront ==
    ASSUME NEW X, NEW s \in Seq(X), NEW a \in X, NEW b \in X
    PROVE  /\ Len(<<a, b>> \o s) = Len(s) + 2
           /\ (<<a, b>> \o s)[1] = a /\ (<<a, b>> \o s)[2] = b
           /\ \A k \in 1 .. Len(s) : (<<a, b>> \o s)[2 + k] = s[k]
  OBVIOUS

\* Or a single one.
LEMMA OneInFront ==
    ASSUME NEW X, NEW s \in Seq(X), NEW a \in X
    PROVE  /\ Len(<<a>> \o s) = Len(s) + 1 /\ (<<a>> \o s)[1] = a
           /\ \A k \in 1 .. Len(s) : (<<a>> \o s)[1 + k] = s[k]
  OBVIOUS

\* A quoted text ends with its last quote, and loses its escapes when it is read.
LEMMA QuotedReadsBack ==
    ASSUME NEW Symbols, NEW text \in Seq(Symbols), \A i \in DOMAIN text : text[i] # Escape,
           NEW quote \in Quotes
    PROVE  /\ Len(Quoted(text, quote)) >= 2
           /\ Quoted(text, quote)[1] = quote
           /\ QuotedEnd(Quoted(text, quote), 1) = Len(Quoted(text, quote)) + 1
           /\ Unescaped(Quoted(text, quote), 2, Len(Quoted(text, quote)) - 1) = text
  <1> DEFINE Y == Symbols \cup {Escape, quote}
             n == Len(text)
             t == Quoted(text, quote)
             M == Len(t)
             Rest(i) == SubSeq(text, i, n)
  <1>1. PICK from : /\ t = <<quote>> \o from[1]
                    /\ from[n + 1] = <<quote>>
                    /\ \A i \in 1 .. n :
                           /\ text[i] = quote => from[i] = <<Escape, quote>> \o from[i + 1]
                           /\ text[i] # quote => from[i] = <<text[i]>> \o from[i + 1]
                    /\ \A i \in 1 .. n + 1 : from[i] \in Seq(Y)
    BY QuotingIs
  <1>2. quote # Escape /\ quote \in Y /\ Escape \in Y /\ n \in Nat /\ DOMAIN text = 1 .. n
        /\ \A i \in 1 .. n : text[i] \in Y /\ text[i] # Escape
    BY SymbolsDiffer
  <1>3. t \in Seq(Y)
    BY QuotedInLine
  <1>4. \A i \in 1 .. n : Rest(i) = <<text[i]>> \o Rest(i + 1)
    BY RestIs
  <1>5. Rest(1) = text /\ Rest(n + 1) = <<>>
    <2>1. Rest(1) = text
      OBVIOUS
    <2>2. Rest(n + 1) = <<>>
      OBVIOUS
    <2> QED
      BY <2>1, <2>2
  <1> HIDE DEF Rest
  <1>6. M \in Nat /\ M = Len(from[1]) + 1 /\ t[1] = quote /\ \A k \in 1 .. Len(from[1]) : t[1 + k] = from[1][k]
    <2>1. from[1] \in Seq(Y)
      <3>1. 1 \in 1 .. n + 1
        BY <1>2
      <3> HIDE DEF Y, t
      <3> QED
        BY <1>1, <3>1
    <2> HIDE DEF Y, t
    <2>2. Len(t) = Len(from[1]) + 1 /\ t[1] = quote /\ \A k \in 1 .. Len(from[1]) : t[1 + k] = from[1][k]
      BY <1>1, <1>2, <2>1, OneInFront
    <2> QED
      BY <1>3, <2>2
  <1> HIDE DEF Y, t, M, n
  <1>7. \A i \in 1 .. n + 1 : Len(from[i]) \in Nat
    BY <1>1
  <1>8. M > 0
    BY <1>2, <1>6, <1>7
  <1>9. PICK end : /\ QuotedEnd(t, 1) = end[2]
                   /\ \A j \in 2 .. M :
                          /\ t[j] = Escape => end[j] = end[j + 2]
                          /\ t[j] # Escape /\ t[j] = t[1] => end[j] = j + 1
                          /\ t[j] # Escape /\ t[j] # t[1] => end[j] = end[j + 1]
    <2>1. \E end : QuotedEnd(t, 1) = end[2] /\ EndsQuote(t, end)
      BY <1>6, <1>8, QuotedEndGoes DEF M
    <2> QED
      BY <2>1, Zenon DEF EndsQuote, M
  <1> DEFINE Behind(i, d) == /\ M = Len(from[i]) + d
                             /\ \A k \in 1 .. Len(from[i]) : t[d + k] = from[i][k]
  <1>10. ASSUME NEW i \in 1 .. n, NEW d \in Nat, text[i] = quote, Behind(i, d)
         PROVE  Behind(i + 1, d + 2) /\ t[d + 1] = Escape /\ t[d + 2] = quote
    <2> DEFINE s == from[i + 1]
               f == from[i]
    <2>1. s \in Seq(Y) /\ Len(s) \in Nat
      BY <1>1, <1>2, <1>7
    <2>2. f = <<Escape, quote>> \o s
      BY <1>1, <1>10
    <2> HIDE DEF s, f
    <2>3. /\ Len(f) = Len(s) + 2 /\ f[1] = Escape /\ f[2] = quote
          /\ \A k \in 1 .. Len(s) : f[2 + k] = s[k]
      BY <1>2, <2>1, <2>2, PairInFront
    <2>4. M = Len(f) + d /\ \A k \in 1 .. Len(f) : t[d + k] = f[k]
      BY <1>10 DEF f
    <2>5. M = Len(s) + (d + 2)
      BY <2>1, <2>3, <2>4
    <2>6. t[d + 1] = Escape /\ t[d + 2] = quote
      BY <2>1, <2>3, <2>4
    <2>7. ASSUME NEW k \in 1 .. Len(s) PROVE t[(d + 2) + k] = s[k]
      <3>1. 2 + k \in 1 .. Len(f) /\ d + (2 + k) = (d + 2) + k
        BY <2>1, <2>3
      <3> QED
        BY <2>3, <2>4, <3>1
    <2> QED
      BY <2>5, <2>6, <2>7 DEF s
  <1>11. ASSUME NEW i \in 1 .. n, NEW d \in Nat, text[i] # quote, Behind(i, d)
         PROVE  Behind(i + 1, d + 1) /\ t[d + 1] = text[i]
    <2> DEFINE s == from[i + 1]
               f == from[i]
    <2>1. s \in Seq(Y) /\ Len(s) \in Nat
      BY <1>1, <1>2, <1>7
    <2>2. f = <<text[i]>> \o s
      BY <1>1, <1>11
    <2> HIDE DEF s, f
    <2>3. /\ Len(f) = Len(s) + 1 /\ f[1] = text[i]
          /\ \A k \in 1 .. Len(s) : f[1 + k] = s[k]
      BY <1>2, <2>1, <2>2, OneInFront
    <2>4. M = Len(f) + d /\ \A k \in 1 .. Len(f) : t[d + k] = f[k]
      BY <1>11 DEF f
    <2>5. M = Len(s) + (d + 1)
      BY <2>1, <2>3, <2>4
    <2>6. t[d + 1] = text[i]
      BY <2>1, <2>3, <2>4
    <2>7. ASSUME NEW k \in 1 .. Len(s) PROVE t[(d + 1) + k] = s[k]
      <3>1. 1 + k \in 1 .. Len(f) /\ d + (1 + k) = (d + 1) + k
        BY <2>1, <2>3
      <3> QED
        BY <2>3, <2>4, <3>1
    <2> QED
      BY <2>5, <2>6, <2>7 DEF s
  <1>12. ASSUME NEW d \in Nat, Behind(n + 1, d)
         PROVE  M = d + 1 /\ t[d + 1] = quote
    <2>1. Len(<<quote>>) = 1 /\ <<quote>>[1] = quote
      OBVIOUS
    <2>2. Len(from[n + 1]) = 1 /\ from[n + 1][1] = quote
      BY <1>1, <2>1
    <2> QED
      BY <1>12, <2>2
  <1>13. \A i \in 1 .. n + 1 : Len(from[i]) >= 1
    <2> DEFINE L == {i \in 1 .. n + 1 : Len(from[i]) >= 1}
    <2>1. ASSUME NEW i \in 1 .. n + 1, \A k \in i + 1 .. n + 1 : k \in L PROVE i \in L
      <3>1. CASE i = n + 1
        <4>1. Len(<<quote>>) = 1
          OBVIOUS
        <4> QED
          BY <1>1, <3>1, <4>1
      <3>2. CASE i # n + 1
        <4>1. i \in 1 .. n /\ i + 1 \in i + 1 .. n + 1
          BY <1>2, <3>2
        <4>2. text[i] \in Y /\ from[i + 1] \in Seq(Y) /\ Len(from[i + 1]) >= 1
          BY <1>1, <1>2, <2>1, <4>1
        <4>3. CASE text[i] = quote
          <5>1. from[i] = <<Escape, quote>> \o from[i + 1]
            BY <1>1, <4>1, <4>3
          <5>2. Len(<<Escape, quote>> \o from[i + 1]) = Len(from[i + 1]) + 2
            BY <1>2, <4>2, PairInFront
          <5> QED
            BY <1>7, <4>1, <4>2, <5>1, <5>2
        <4>4. CASE text[i] # quote
          <5>1. from[i] = <<text[i]>> \o from[i + 1]
            BY <1>1, <4>1, <4>4
          <5>2. Len(<<text[i]>> \o from[i + 1]) = Len(from[i + 1]) + 1
            BY <4>2, OneInFront
          <5> QED
            BY <1>7, <4>1, <4>2, <5>1, <5>2
        <4> QED
          BY <4>3, <4>4
      <3> QED
        BY <3>1, <3>2
    <2>2. \A i \in 1 .. n + 1 : i \in L
      <3>1. 1 \in Int /\ n + 1 \in Int
        BY <1>2
      <3> HIDE DEF L
      <3> QED
        BY <2>1, <3>1, DownTo
    <2> QED
      BY <2>2
  <1>14. M >= 2
    <2>1. 1 \in 1 .. n + 1
      BY <1>2
    <2> QED
      BY <1>6, <1>7, <1>13, <2>1
  <1>15. PICK un : /\ Unescaped(t, 2, M - 1) = un[2]
                   /\ un[M] = <<>>
                   /\ \A k \in 2 .. M - 1 : /\ t[k] = Escape => un[k] = un[k + 1]
                                            /\ t[k] # Escape => un[k] = <<t[k]>> \o un[k + 1]
    <2> DEFINE m == M - 1
    <2>1. 2 \in 1 .. Len(t) + 1 /\ m \in 0 .. Len(t) /\ 2 <= m + 1 /\ m + 1 = M
      BY <1>6, <1>14 DEF M
    <2> HIDE DEF Behind, m
    <2>2. PICK un : Unescaped(t, 2, m) = un[2] /\ Unescapes(t, 2, m, un)
      BY <1>3, <2>1, UnescapingIs
    <2>3. /\ un[M] = <<>>
          /\ \A k \in 2 .. m : t[k] = Escape => un[k] = un[k + 1]
          /\ \A k \in 2 .. m : t[k] # Escape => un[k] = <<t[k]>> \o un[k + 1]
      BY <2>1, <2>2, Zenon DEF Unescapes
    <2> QED
      BY <2>2, <2>3, Zenon DEF m
  <1> DEFINE Fine(i) == \A d \in Nat \ {0} : Behind(i, d) => end[d + 1] = M + 1 /\ un[d + 1] = Rest(i)
             S == {i \in 1 .. n + 1 : Fine(i)}
  <1>16. ASSUME NEW i \in 1 .. n + 1, \A k \in i + 1 .. n + 1 : k \in S PROVE i \in S
    <2> SUFFICES ASSUME NEW d \in Nat \ {0}, Behind(i, d)
                 PROVE  end[d + 1] = M + 1 /\ un[d + 1] = Rest(i)
      OBVIOUS
    <2>1. CASE i = n + 1
      <3> HIDE DEF Behind, S
      <3>1. M = d + 1 /\ t[d + 1] = quote
        BY <1>12, <2>1
      <3>2. d + 1 \in 2 .. M
        BY <3>1
      <3>3. end[d + 1] = (d + 1) + 1
        BY <1>2, <1>6, <1>9, <3>1, <3>2
      <3>4. un[d + 1] = Rest(i)
        BY <1>5, <1>15, <2>1, <3>1
      <3> QED
        BY <3>1, <3>3, <3>4
    <2>2. CASE i # n + 1
      <3>1. i \in 1 .. n /\ i + 1 \in i + 1 .. n + 1 /\ i + 1 \in 1 .. n + 1
        BY <1>2, <2>2
      <3>2. Fine(i + 1)
        BY <1>16, <3>1
      <3> DEFINE r == Len(from[i + 1])
      <3>3. r \in Nat /\ r >= 1
        BY <1>7, <1>13, <3>1
      <3>4. CASE text[i] = quote
        <4>1. Behind(i + 1, d + 2) /\ t[d + 1] = Escape /\ t[d + 2] = quote
          <5> HIDE DEF Behind
          <5> QED
            BY <1>10, <2>2, <3>1, <3>4
        <4>2. M = r + (d + 2)
          BY <4>1
        <4> HIDE DEF r
        <4>3. end[d + 3] = M + 1 /\ un[d + 3] = Rest(i + 1)
          <5>1. d + 2 \in Nat \ {0} /\ (d + 2) + 1 = d + 3
            OBVIOUS
          <5> HIDE DEF Behind
          <5> QED
            BY <3>2, <4>1, <5>1
        <4> HIDE DEF Behind, S
        <4>4. /\ d \in Nat /\ d + 1 \in 2 .. M /\ d + 1 \in 2 .. M - 1 /\ d + 2 \in 2 .. M - 1
              /\ (d + 1) + 2 = d + 3 /\ (d + 1) + 1 = d + 2 /\ (d + 2) + 1 = d + 3
          BY <1>6, <3>3, <4>2
        <4>5. end[d + 1] = end[d + 3]
          BY <1>9, <4>1, <4>4
        <4>6. un[d + 1] = un[d + 2]
          <5>1. un[d + 1] = un[(d + 1) + 1]
            BY <1>15, <4>1, <4>4, Zenon
          <5> QED
            BY <4>4, <5>1
        <4>7. un[d + 2] = <<t[d + 2]>> \o un[d + 3]
          <5>1. t[d + 2] # Escape
            BY <1>2, <4>1
          <5>2. un[d + 2] = <<t[d + 2]>> \o un[(d + 2) + 1]
            BY <1>15, <4>4, <5>1
          <5> QED
            BY <4>4, <5>2
        <4>8. un[d + 2] = <<text[i]>> \o Rest(i + 1)
          BY <3>4, <4>1, <4>3, <4>7
        <4> QED
          BY <1>4, <3>1, <4>3, <4>5, <4>6, <4>8
      <3>5. CASE text[i] # quote
        <4>1. Behind(i + 1, d + 1) /\ t[d + 1] = text[i]
          <5> HIDE DEF Behind
          <5> QED
            BY <1>11, <2>2, <3>1, <3>5
        <4>2. M = r + (d + 1)
          BY <4>1
        <4> HIDE DEF r
        <4>3. end[d + 2] = M + 1 /\ un[d + 2] = Rest(i + 1)
          <5>1. d + 1 \in Nat \ {0} /\ (d + 1) + 1 = d + 2
            OBVIOUS
          <5> HIDE DEF Behind
          <5> QED
            BY <3>2, <4>1, <5>1
        <4> HIDE DEF Behind, S
        <4>4. d + 1 \in 2 .. M /\ d + 1 \in 2 .. M - 1 /\ (d + 1) + 1 = d + 2
          BY <1>6, <3>3, <4>2
        <4>5. t[d + 1] # Escape /\ t[d + 1] # t[1]
          BY <1>2, <1>6, <3>1, <3>5, <4>1
        <4>6. end[d + 1] = end[d + 2]
          <5>1. end[d + 1] = end[(d + 1) + 1]
            BY <1>9, <4>4, <4>5
          <5> QED
            BY <4>4, <5>1
        <4>7. un[d + 1] = <<t[d + 1]>> \o un[d + 2]
          <5>1. un[d + 1] = <<t[d + 1]>> \o un[(d + 1) + 1]
            BY <1>15, <4>4, <4>5
          <5> QED
            BY <4>4, <5>1
        <4>8. un[d + 1] = <<text[i]>> \o Rest(i + 1)
          BY <4>1, <4>3, <4>7
        <4> QED
          BY <1>4, <3>1, <4>3, <4>6, <4>8
      <3> QED
        BY <3>4, <3>5
    <2> QED
      BY <2>1, <2>2
  <1>17. 1 \in S
    <2>1. 1 \in Int /\ n + 1 \in Int /\ 1 \in 1 .. n + 1
      BY <1>2
    <2> HIDE DEF S
    <2> QED
      BY <1>16, <2>1, DownTo
  <1>18. end[2] = M + 1 /\ un[2] = text
    <2>1. Behind(1, 1)
      BY <1>6
    <2>2. 1 \in Nat \ {0} /\ 1 + 1 = 2
      OBVIOUS
    <2> HIDE DEF Behind
    <2> QED
      BY <1>5, <1>17, <2>1, <2>2
  <1> QED
    <2> HIDE DEF Behind, S
    <2> QED
      BY <1>6, <1>9, <1>14, <1>15, <1>18 DEF t, M

\* The whole of a quoted text is one token.
LEMMA QuotedLexes ==
    ASSUME NEW Y, NEW t \in Seq(Y), EscapesInLine(t), Len(t) >= 2, t[1] \in Quotes,
           QuotedEnd(t, 1) = Len(t) + 1
    PROVE  /\ Len(Lex(t)) = 1
           /\ Lex(t)[1].tok = "QuotedString" /\ Lex(t)[1].start = 1 /\ Lex(t)[1].stop = Len(t) + 1
  <1> DEFINE M == Len(t)
  <1>1. M \in Nat /\ M >= 2 /\ 1 \in 1 .. M
    OBVIOUS
  <1>2. PICK tok, len : NextToken(t, 1) = <<tok, len>> /\ IsToken(t, 1, tok, len)
    BY <1>1, NextTokenIs
  <1>3. tok = "QuotedString" /\ len = M
    <2>1. tok = "QuotedString"
      BY <1>2, Zenon DEF IsToken
    <2>2. len = QuotedEnd(t, 1) - 1
      BY <1>2, <2>1, Zenon DEF IsToken
    <2> QED
      BY <1>1, <2>1, <2>2
  <1> DEFINE breaks == QuotedBreaks(t, 1)
             next == Consume(Start, "QuotedString", M, breaks)
             rec == [ tok |-> "QuotedString", start |-> 1, stop |-> 1 + M, line |-> 1, indent |-> 0 ]
  <1>4. PICK f : /\ IsLexing(t, f) /\ Lex(t) = f[M].tokens
                 /\ \A n \in 0 .. M : f[n] \in LexStates(t) /\ LexInv(t, f[n])
                 /\ f[M].index = M + 1
    BY LexIs
  <1>5. /\ Start.index = 1 /\ Start.line = 1 /\ Start.column = 1 /\ Start.indent = 0
        /\ Start.tokens = <<>>
    BY DEF Start
  <1>6. ConsumeNext(t, Start) = next
    <2>1. ~(Start.index > M)
      BY <1>1, <1>5
    <2>2. NextToken(t, Start.index)[1] = "QuotedString" /\ NextToken(t, Start.index)[2] = M
      BY <1>2, <1>3, <1>5
    <2> QED
      BY <1>5, <2>1, <2>2, Zenon DEF ConsumeNext
  <1>7. next.index = 1 + M /\ next.tokens = Append(<<>>, rec)
    <2> HIDE DEF breaks
    <2>1. next.index = Start.index + M
      BY DEF Consume
    <2>2. "QuotedString" # "Space"
      OBVIOUS
    <2>3. next.tokens = Append(Start.tokens, [ tok |-> "QuotedString", start |-> Start.index,
                                               stop |-> Start.index + M,
                                               line |-> Start.line, indent |-> Start.indent ])
      BY <2>2, Zenon DEF Consume
    <2> QED
      BY <1>5, <2>1, <2>3
  <1> HIDE DEF next, M
  <1>8. \A n \in 0 .. M : f[n] = IF n = 0 THEN Start ELSE ConsumeNext(t, f[n - 1])
    BY <1>4 DEF IsLexing, M
  <1>9. ConsumeNext(t, next) = next
    <2>1. next.index > Len(t)
      BY <1>1, <1>7 DEF M
    <2> QED
      BY <2>1 DEF ConsumeNext
  <1> DEFINE S == {n \in 0 .. M : n # 0 => f[n] = next}
  <1>10. ASSUME NEW n \in 0 .. M - 1, n \in S PROVE n + 1 \in S
    <2>1. n + 1 \in 0 .. M /\ n + 1 # 0 /\ (n + 1) - 1 = n
      BY <1>1
    <2>2. f[n + 1] = ConsumeNext(t, f[n])
      BY <1>8, <2>1
    <2>3. CASE n = 0
      <3>1. f[0] = Start
        BY <1>1, <1>8
      <3> QED
        BY <1>6, <2>1, <2>2, <2>3, <3>1
    <2>4. CASE n # 0
      BY <1>9, <1>10, <2>1, <2>2, <2>4
    <2> QED
      BY <2>3, <2>4
  <1>11. f[M] = next
    <2>1. 0 \in S
      BY <1>1
    <2>2. M \in 0 .. M /\ M # 0
      BY <1>1
    <2>3. \A n \in 0 .. M : n \in S
      <3> HIDE DEF S
      <3> QED
        BY <1>1, <1>10, <2>1, UpTo
    <2> QED
      BY <2>2, <2>3
  <1>12. Lex(t) = Append(<<>>, rec)
    BY <1>4, <1>7, <1>11 DEF M
  <1>13. Len(Append(<<>>, rec)) = 1 /\ Append(<<>>, rec)[1] = rec
    <2>1. \A x : Len(Append(<<>>, x)) = 1 /\ Append(<<>>, x)[1] = x
      OBVIOUS
    <2> QED
      BY <2>1
  <1>14. 1 + M = Len(t) + 1
    BY <1>1 DEF M
  <1> QED
    BY <1>12, <1>13, <1>14

QuoteInput(Symbols) ==
    [kind : {"quote"}, text : {t \in Seq(Symbols) : \A i \in DOMAIN t : t[i] # Escape}]

\* A text without escapes comes back from between its quotes.
LEMMA QuotingIsInertHolds ==
    ASSUME NEW Symbols, input \in QuoteInput(Symbols)
    PROVE  QuotingIsInert
  <1> DEFINE text == input.text
  <1>1. text \in Seq(Symbols) /\ \A i \in DOMAIN text : text[i] # Escape
    BY DEF QuoteInput
  <1> HIDE DEF text
  <1>2. ASSUME NEW quote \in Quotes
        PROVE  /\ Len(Lex(Quoted(text, quote))) = 1
               /\ UnquotedText(Quoted(text, quote), Lex(Quoted(text, quote))[1]) = text
    <2> DEFINE t == Quoted(text, quote)
               tok == Lex(t)[1]
    <2>1. t \in Seq(Symbols \cup {Escape, quote}) /\ EscapesInLine(t)
      BY <1>1, QuotedInLine
    <2>2. /\ Len(t) >= 2 /\ t[1] = quote /\ QuotedEnd(t, 1) = Len(t) + 1
          /\ Unescaped(t, 2, Len(t) - 1) = text
      BY <1>1, QuotedReadsBack
    <2>3. Len(t) \in Nat
      BY <2>1
    <2> HIDE DEF t
    <2>4. /\ Len(Lex(t)) = 1
          /\ tok.tok = "QuotedString" /\ tok.start = 1 /\ tok.stop = Len(t) + 1
      BY <1>2, <2>1, <2>2, QuotedLexes
    <2> HIDE DEF tok
    <2>5. tok.start + 1 = 2 /\ tok.stop - 2 = Len(t) - 1
      BY <2>3, <2>4
    <2>6. UnquotedText(t, tok) = text
      BY <2>2, <2>4, <2>5 DEF UnquotedText
    <2> QED
      BY <2>4, <2>6 DEF t, tok
  <1> QED
    BY <1>2, Zenon DEF QuotingIsInert, text

\* Whatever the alphabet: the tokens of every text whose escapes hide characters
\* of their line lie side by side, each with the line and the indentation it
\* stands at, and every text without escapes, between quotes, is one token that
\* is read back as it was.
THEOREM LexerKeepsTheTextCorrect ==
    ASSUME NEW Symbols, input \in LexInput(Symbols) \cup QuoteInput(Symbols)
    PROVE  LexerKeepsTheText
  <1>1. CASE input \in LexInput(Symbols)
    <2>1. input.kind # "quote"
      BY <1>1 DEF LexInput
    <2> QED
      BY <1>1, <2>1, TokensTileTheTextHolds DEF LexerKeepsTheText, QuotingIsInert
  <1>2. CASE input \in QuoteInput(Symbols)
    <2>1. input.kind # "lex"
      BY <1>2 DEF QuoteInput
    <2> QED
      BY <1>2, <2>1, QuotingIsInertHolds DEF LexerKeepsTheText, TokensTileTheText
  <1> QED
    BY <1>1, <1>2

-----------------------------------------------------------------------------
(* Glued tokens *)

\* The function Past is defined by.
IsPassing(toks, p, kinds, past) ==
    past = [q \in p .. Len(toks) + 1 |-> IF Tok(toks, q) \in kinds THEN past[q + 1] ELSE q]

\* Tokens of these kinds are passed over, up to the first of another, or the end.
LEMMA PastIs ==
    ASSUME NEW toks, Len(toks) \in Nat, NEW p \in 1 .. Len(toks) + 1,
           NEW kinds, "end" \notin kinds
    PROVE  /\ Past(toks, p, kinds) \in p .. Len(toks) + 1
           /\ Tok(toks, Past(toks, p, kinds)) \notin kinds
           /\ \A i \in p .. Past(toks, p, kinds) - 1 : Tok(toks, i) \in kinds
  <1> DEFINE N == Len(toks)
             b == N + 1
             D == p .. b
             Inner == {q \in D : Tok(toks, q) \in kinds}
             next == [q \in Inner |-> q + 1]
             join == [x \in Inner \X Int |-> x[2]]
             base == [q \in D |-> q]
             go(q, g) == IF Tok(toks, q) \in kinds THEN g[q + 1] ELSE q
  <1>1. Tok(toks, b) = "end" /\ b \notin Inner
    BY DEF Tok
  <1>2. /\ p \in Int /\ b \in Int /\ Inner \subseteq D /\ DOMAIN next = Inner
        /\ next \in [Inner -> D] /\ \A q \in Inner : q < next[q] /\ next[q] = q + 1
    BY <1>1
  <1>3. /\ join \in [Inner \X Int -> Int] /\ base \in [D -> Int] /\ Int # {}
        /\ (\A q \in Inner, n \in Int : join[<<q, n>>] = n) /\ \A q \in D : base[q] = q
    BY <1>2
  <1> HIDE DEF next, join, base
  <1>4. PICK f \in [D -> Int] : Forward(f, D, next, join, base)
    <2> DEFINE T == Int
    <2>1. T # {} /\ join \in [Inner \X T -> T] /\ base \in [D -> T]
      BY <1>3
    <2> HIDE DEF T, Inner, b
    <2>2. \E f \in [D -> T] : Forward(f, D, next, join, base)
      BY <1>2, <2>1, ForwardHasAFunction
    <2> QED
      BY <2>2 DEF T
  <1>5. ASSUME NEW q \in D PROVE f[q] = go(q, f)
    <2>1. f[q] = IF q \in Inner THEN join[<<q, f[next[q]]>>] ELSE base[q]
      BY <1>2, <1>4 DEF Forward
    <2>2. q \in Inner => q + 1 \in D /\ f[q + 1] \in Int /\ next[q] = q + 1
      BY <1>2, <1>4
    <2>3. q \in Inner => join[<<q, f[next[q]]>>] = f[q + 1]
      <3> HIDE DEF Inner, D
      <3> QED
        BY <1>3, <2>2
    <2>4. base[q] = q /\ (q \in Inner <=> Tok(toks, q) \in kinds)
      BY <1>3
    <2> HIDE DEF Inner, D
    <2> QED
      BY <2>1, <2>3, <2>4, Zenon
  <1>6. IsPassing(toks, p, kinds, f)
    <2> DEFINE g == [q \in D |-> go(q, f)]
    <2>1. f = g
      <3>1. \A q \in D : f[q] = g[q]
        BY <1>5
      <3>2. f = [q \in D |-> f[q]] /\ g = [q \in D |-> g[q]]
        BY <1>4
      <3> HIDE DEF g, D
      <3> QED
        BY <3>1, <3>2
    <2> QED
      BY <2>1, Zenon DEF IsPassing
  <1> DEFINE past == CHOOSE h : IsPassing(toks, p, kinds, h)
  <1>7. IsPassing(toks, p, kinds, past) /\ Past(toks, p, kinds) = IF p > N THEN p ELSE past[p]
    BY <1>6, Zenon DEF Past, IsPassing
  <1> HIDE DEF past
  <1>8. \A q \in D : past[q] = go(q, past)
    <2>1. past = [q \in D |-> go(q, past)]
      BY <1>7, Zenon DEF IsPassing
    <2> HIDE DEF go, D
    <2> QED
      BY <2>1
  <1> DEFINE Fine(q) == /\ past[q] \in q .. b
                        /\ Tok(toks, past[q]) \notin kinds
                        /\ \A i \in q .. past[q] - 1 : Tok(toks, i) \in kinds
             S == {q \in D : Fine(q)}
  <1>9. ASSUME NEW q \in D, \A k \in q + 1 .. b : k \in S PROVE q \in S
    <2>1. CASE Tok(toks, q) \in kinds
      <3>1. q # b /\ q + 1 \in q + 1 .. b /\ q \in Int
        BY <1>1, <1>2, <2>1
      <3>2. past[q] = past[q + 1]
        BY <1>8, <2>1, Zenon
      <3>3. Fine(q + 1)
        BY <1>9, <3>1
      <3> QED
        BY <2>1, <3>1, <3>2, <3>3
    <2>2. CASE Tok(toks, q) \notin kinds
      <3>1. past[q] = q
        BY <1>8, <2>2, Zenon
      <3> QED
        BY <1>2, <2>2, <3>1
    <2> QED
      BY <2>1, <2>2
  <1>10. \A q \in p .. b : q \in S
    <2> HIDE DEF S, b
    <2> QED
      BY <1>2, <1>9, DownTo
  <1>11. p \in p .. b /\ Fine(p)
    BY <1>2, <1>10
  <1>12. p > N => past[p] = p
    <2>1. p > N => p = b
      BY <1>2
    <2> QED
      BY <1>11, <2>1
  <1>13. Past(toks, p, kinds) = past[p]
    BY <1>7, <1>12
  <1> QED
    BY <1>11, <1>13

\* The function FlattenSeq is defined by.
IsFlattening(seqs, flatten) ==
    flatten = [i \in 1 .. Len(seqs) |->
                  IF i = 1 THEN seqs[i] ELSE flatten[i - 1] \o seqs[i]]

\* Sequences one after the other.
LEMMA FlatteningIs ==
    ASSUME NEW X, NEW seqs \in Seq(Seq(X)), Len(seqs) > 0
    PROVE  \E flatten : /\ FlattenSeq(seqs) = flatten[Len(seqs)]
                        /\ flatten[1] = seqs[1]
                        /\ \A i \in 2 .. Len(seqs) : flatten[i] = flatten[i - 1] \o seqs[i]
  <1> DEFINE N == Len(seqs)
             I == 1 .. N
             T == Seq(X)
             with(i, s) == IF i = 1 THEN seqs[i] ELSE s \o seqs[i]
             step == [x \in I \X T |-> with(x[1], x[2])]
             go(i, g) == IF i = 1 THEN seqs[i] ELSE g[i - 1] \o seqs[i]
  <1>1. N \in Nat /\ N > 0 /\ <<>> \in T /\ \A i \in I : seqs[i] \in T
    OBVIOUS
  <1>2. \A i \in I, s \in T : with(i, s) \in T
    <2>1. \A s \in T, u \in T : s \o u \in T
      OBVIOUS
    <2> HIDE DEF T, I
    <2> QED
      BY <1>1, <2>1
  <1>3. step \in [I \X T -> T] /\ \A i \in I, s \in T : step[<<i, s>>] = with(i, s)
    <2> HIDE DEF T, I, with
    <2> QED
      BY <1>2
  <1> HIDE DEF step
  <1>4. PICK f \in [0 .. N -> T] : Steps(f, N, <<>>, step)
    <2> DEFINE first == <<>>
    <2>1. first \in T
      BY <1>1
    <2> HIDE DEF T, N, first
    <2>2. \E f \in [0 .. N -> T] : Steps(f, N, first, step)
      BY <1>1, <1>3, <2>1, StepsHaveAFunction
    <2> QED
      BY <2>2 DEF first
  <1> DEFINE f1 == [i \in I |-> f[i]]
  <1>5. ASSUME NEW i \in I PROVE f1[i] = go(i, f1)
    <2>1. /\ i \in 0 .. N /\ i # 0 /\ i - 1 \in 0 .. N /\ f1[i] = f[i]
          /\ i # 1 => i - 1 \in I
      BY <1>1
    <2>2. f[i - 1] \in T /\ (i # 1 => f1[i - 1] = f[i - 1])
      BY <1>4, <2>1
    <2>3. f[i] = step[<<i, f[i - 1]>>]
      BY <1>4, <2>1 DEF Steps
    <2>4. f[i] = with(i, f[i - 1])
      <3> HIDE DEF T, I, with
      <3> QED
        BY <1>3, <2>2, <2>3
    <2> HIDE DEF f1, T, I
    <2> QED
      BY <2>1, <2>2, <2>4, Zenon
  <1>6. IsFlattening(seqs, f1)
    <2> DEFINE g == [i \in I |-> go(i, f1)]
    <2>1. f1 = g
      <3>1. \A i \in I : f1[i] = g[i]
        BY <1>5
      <3>2. f1 = [i \in I |-> f1[i]] /\ g = [i \in I |-> g[i]]
        OBVIOUS
      <3> HIDE DEF g, f1, I
      <3> QED
        BY <3>1, <3>2
    <2> HIDE DEF f1
    <2> QED
      BY <2>1, Zenon DEF IsFlattening
  <1> HIDE DEF f1
  <1> DEFINE flatten == CHOOSE h : IsFlattening(seqs, h)
  <1>7. IsFlattening(seqs, flatten)
    BY <1>6, Zenon
  <1>8. FlattenSeq(seqs) = flatten[N]
    <2>1. Len(seqs) # 0
      BY <1>1
    <2> QED
      BY <2>1, Zenon DEF FlattenSeq, IsFlattening
  <1> HIDE DEF flatten
  <1>9. \A i \in I : flatten[i] = go(i, flatten)
    <2>1. flatten = [i \in I |-> go(i, flatten)]
      BY <1>7, Zenon DEF IsFlattening
    <2> HIDE DEF go, I
    <2> QED
      BY <2>1
  <1>10. flatten[1] = seqs[1]
    <2>1. 1 \in I
      BY <1>1
    <2> QED
      BY <1>9, <2>1, Zenon
  <1>11. ASSUME NEW i \in 2 .. N PROVE flatten[i] = flatten[i - 1] \o seqs[i]
    <2>1. i \in I /\ i # 1
      BY <1>1
    <2> QED
      BY <1>9, <2>1, Zenon
  <1> QED
    <2> HIDE DEF N
    <2>1. \A i \in 2 .. N : flatten[i] = flatten[i - 1] \o seqs[i]
      BY <1>11
    <2> QED
      BY <1>8, <1>10, <2>1, Zenon DEF N

\* A text and another after it, and a part of a text.
LEMMA BothParts ==
    ASSUME NEW X, NEW x \in Seq(X), NEW y \in Seq(X)
    PROVE  /\ x \o y \in Seq(X) /\ Len(x \o y) = Len(x) + Len(y)
           /\ \A k \in 1 .. Len(x) : (x \o y)[k] = x[k]
           /\ \A k \in 1 .. Len(y) : (x \o y)[Len(x) + k] = y[k]
  OBVIOUS

LEMMA PartOf ==
    ASSUME NEW X, NEW s \in Seq(X), NEW a \in 1 .. Len(s), NEW b \in a .. Len(s)
    PROVE  SubSeq(s, a, b) \in Seq(X)
  OBVIOUS

\* Two parts of a text that touch.
LEMMA PartsTouch ==
    ASSUME NEW X, NEW s \in Seq(X), NEW a \in 1 .. Len(s), NEW b \in a .. Len(s),
           NEW c \in b .. Len(s)
    PROVE  SubSeq(s, a, b) \o SubSeq(s, b + 1, c) = SubSeq(s, a, c)
  <1> DEFINE x == SubSeq(s, a, b)
             y == SubSeq(s, b + 1, c)
             z == SubSeq(s, a, c)
  <1>1. x \in Seq(X) /\ Len(x) = b - a + 1 /\ \A k \in 1 .. b - a + 1 : x[k] = s[a + k - 1]
    OBVIOUS
  <1>2. y \in Seq(X) /\ Len(y) = c - b /\ \A k \in 1 .. c - b : y[k] = s[b + 1 + k - 1]
    OBVIOUS
  <1>3. z \in Seq(X) /\ Len(z) = c - a + 1 /\ \A k \in 1 .. c - a + 1 : z[k] = s[a + k - 1]
    OBVIOUS
  <1> DEFINE w == x \o y
  <1> HIDE DEF x, y, z
  <1>4. /\ w \in Seq(X) /\ Len(w) = Len(x) + Len(y)
        /\ \A k \in 1 .. Len(x) : w[k] = x[k]
        /\ \A k \in 1 .. Len(y) : w[Len(x) + k] = y[k]
    <2>1. x \in Seq(X) /\ y \in Seq(X)
      BY <1>1, <1>2
    <2>2. /\ x \o y \in Seq(X) /\ Len(x \o y) = Len(x) + Len(y)
          /\ \A k \in 1 .. Len(x) : (x \o y)[k] = x[k]
          /\ \A k \in 1 .. Len(y) : (x \o y)[Len(x) + k] = y[k]
      BY <2>1, BothParts
    <2> QED
      BY <2>2, Zenon
  <1> HIDE DEF w
  <1>5. ASSUME NEW k \in 1 .. Len(z) PROVE w[k] = z[k]
    <2>1. CASE k <= Len(x)
      <3>1. k \in 1 .. Len(x) /\ k \in 1 .. b - a + 1 /\ k \in 1 .. c - a + 1
        BY <1>1, <1>3, <2>1
      <3> QED
        BY <1>1, <1>3, <1>4, <3>1
    <2>2. CASE ~(k <= Len(x))
      <3> DEFINE j == k - Len(x)
      <3>1. /\ j \in 1 .. Len(y) /\ j \in 1 .. c - b /\ Len(x) + j = k
            /\ b + 1 + j - 1 = a + k - 1 /\ k \in 1 .. c - a + 1
        BY <1>1, <1>2, <1>3, <2>2
      <3> HIDE DEF j
      <3>2. w[Len(x) + j] = s[b + 1 + j - 1]
        BY <1>2, <1>4, <3>1
      <3> QED
        BY <1>3, <3>1, <3>2
    <2> QED
      BY <2>1, <2>2
  <1>6. Len(w) = Len(z)
    BY <1>1, <1>2, <1>3, <1>4
  <1>7. w = z
    BY <1>3, <1>4, <1>5, <1>6, SeqEqual
  <1> QED
    BY <1>7 DEF w, x, y, z

\* Tokens follow on each other within the text.
Fitting(text, toks) ==
    /\ Len(toks) \in Nat /\ DOMAIN toks = 1 .. Len(toks)
    /\ \A i \in 1 .. Len(toks) : /\ toks[i].start \in 1 .. Len(text)
                                 /\ toks[i].stop \in toks[i].start + 1 .. Len(text) + 1
    /\ \A i \in 2 .. Len(toks) : toks[i].start = toks[i - 1].stop

LEMMA TokensFit ==
    ASSUME NEW Symbols, NEW text \in Seq(Symbols), EscapesInLine(text)
    PROVE  Fitting(text, Lex(text))
  <1> DEFINE N == Len(text)
             toks == Lex(text)
             M == Len(toks)
             start(i) == toks[i].start
             stop(i) == toks[i].stop
  <1>1. PICK f : /\ toks = f[N].tokens
                 /\ \A n \in 0 .. N : f[n] \in LexStates(text) /\ LexInv(text, f[n])
                 /\ f[N].index = N + 1
    BY LexIs
  <1> HIDE DEF toks
  <1>2. N \in Nat /\ N \in 0 .. N
    OBVIOUS
  <1>3. M \in Nat /\ DOMAIN toks = 1 .. M /\ \A i \in 1 .. M : start(i) \in Int /\ stop(i) \in Int
    <2> DEFINE Token == [ tok : {NextToken(text, i)[1] : i \in 1 .. Len(text)},
                          start : Int, stop : Int, line : Int, indent : Int ]
    <2>1. f[N] \in LexStates(text)
      BY <1>1, <1>2
    <2>2. f[N].tokens \in Seq(Token)
      <3> HIDE DEF Token
      <3>1. f[N] \in [index : Int, line : Int, column : Int, indent : Int, tokens : Seq(Token)]
        BY <2>1 DEF LexStates, Token
      <3> QED
        BY <3>1
    <2>3. \A t \in Token : t.start \in Int /\ t.stop \in Int
      OBVIOUS
    <2> HIDE DEF Token
    <2>4. toks \in Seq(Token)
      BY <1>1, <2>2
    <2> QED
      BY <2>3, <2>4
  <1>4. Tiles(text, toks) /\ (M # 0 => stop(M) = N + 1)
    <2>1. LexInv(text, f[N])
      BY <1>1, <1>2
    <2>2. Tiles(text, toks)
      BY <1>1, <2>1 DEF LexInv
    <2>3. N + 1 = IF toks = <<>> THEN 1 ELSE stop(M)
      BY <1>1, <2>1 DEF LexInv
    <2>4. M # 0 => toks # <<>>
      BY <1>3
    <2> QED
      BY <2>2, <2>3, <2>4
  <1>5. \A i \in 1 .. M : start(i) < stop(i) /\ start(i) = IF i = 1 THEN 1 ELSE stop(i - 1)
    BY <1>3, <1>4 DEF Tiles
  <1> HIDE DEF start, stop, N, M
  <1>6. ASSUME NEW m \in 1 .. M PROVE start(m) >= 1
    <2> DEFINE k == M - 1
               S == {i \in 0 .. k : start(i + 1) >= 1}
    <2>1. k \in Nat /\ m - 1 \in 0 .. k /\ m - 1 + 1 = m /\ k + 1 = M
      BY <1>3
    <2> HIDE DEF k
    <2>2. 0 \in S
      <3>1. 1 \in 1 .. M /\ 0 + 1 = 1 /\ 0 \in 0 .. k
        BY <2>1
      <3>2. start(1) = 1
        BY <1>5, <3>1
      <3> QED
        BY <3>1, <3>2
    <2>3. ASSUME NEW i \in 0 .. k - 1, i \in S PROVE i + 1 \in S
      <3>1. /\ i + 1 \in 1 .. M /\ i + 1 + 1 \in 1 .. M /\ i + 1 + 1 # 1 /\ i + 1 + 1 - 1 = i + 1
            /\ i + 1 \in 0 .. k
        BY <2>1
      <3>2. start(i + 1 + 1) = stop(i + 1) /\ start(i + 1) < stop(i + 1)
        BY <1>5, <3>1
      <3>3. start(i + 1) \in Int /\ stop(i + 1) \in Int /\ start(i + 1) >= 1
        BY <1>3, <2>3, <3>1
      <3> QED
        BY <3>1, <3>2, <3>3
    <2>4. \A i \in 0 .. k : i \in S
      <3> HIDE DEF S
      <3> QED
        BY <2>1, <2>2, <2>3, UpTo
    <2> QED
      BY <2>1, <2>4
  <1>7. ASSUME NEW m \in 1 .. M PROVE stop(m) <= N + 1
    <2> DEFINE S == {i \in 1 .. M : stop(i) <= N + 1}
    <2>1. ASSUME NEW i \in 1 .. M, \A j \in i + 1 .. M : j \in S PROVE i \in S
      <3>1. CASE i = M
        <4>1. M # 0 /\ stop(i) = N + 1
          BY <1>3, <1>4, <3>1
        <4> QED
          BY <1>2, <4>1
      <3>2. CASE i # M
        <4>1. i + 1 \in i + 1 .. M /\ i + 1 \in 1 .. M /\ i + 1 # 1 /\ i + 1 - 1 = i
          BY <1>3, <3>2
        <4>2. stop(i) = start(i + 1) /\ start(i + 1) < stop(i + 1)
          BY <1>5, <4>1
        <4>3. stop(i + 1) <= N + 1 /\ stop(i + 1) \in Int /\ start(i + 1) \in Int
          BY <1>3, <2>1, <4>1
        <4> QED
          BY <1>2, <4>2, <4>3
      <3> QED
        BY <3>1, <3>2
    <2>2. \A i \in 1 .. M : i \in S
      <3>1. M \in Int /\ 1 \in Int
        BY <1>3
      <3> HIDE DEF S
      <3> QED
        BY <2>1, <3>1, DownTo
    <2> QED
      BY <2>2
  <1>8. \A i \in 1 .. M : start(i) \in 1 .. N /\ stop(i) \in start(i) + 1 .. N + 1
    <2> SUFFICES ASSUME NEW i \in 1 .. M
                 PROVE  start(i) \in 1 .. N /\ stop(i) \in start(i) + 1 .. N + 1
      OBVIOUS
    <2>1. /\ start(i) >= 1 /\ stop(i) <= N + 1 /\ start(i) < stop(i)
          /\ start(i) \in Int /\ stop(i) \in Int
      BY <1>3, <1>5, <1>6, <1>7
    <2> QED
      BY <1>2, <2>1
  <1>9. \A i \in 2 .. M : start(i) = stop(i - 1)
    BY <1>3, <1>5
  <1> QED
    BY <1>3, <1>8, <1>9 DEF Fitting, start, stop, N, M, toks

\* Unquoted tokens, glued together, are the piece of the text that they cover.
LEMMA GlueIs ==
    ASSUME NEW Symbols, NEW text \in Seq(Symbols), EscapesInLine(text),
           NEW p \in 1 .. Len(Lex(text)), NEW q \in p + 1 .. Len(Lex(text)) + 1,
           \A i \in p .. q - 1 : Lex(text)[i].tok # "QuotedString"
    PROVE  Glue(Tokens(text), p, q).text
               = SubSeq(text, Lex(text)[p].start, Lex(text)[q - 1].stop - 1)
  <1> DEFINE lexed == Lex(text)
             toks == Tokens(text)
             M == Len(lexed)
             start(i) == lexed[i].start
             stop(i) == lexed[i].stop
             n == q - p
             seqs == [i \in 1 .. n |-> Text(toks, p + i - 1)]
             piece(i) == SubSeq(text, start(i), stop(i) - 1)
             so(i) == SubSeq(text, start(p), stop(p + i - 1) - 1)
  <1>1. Fitting(text, lexed)
    BY TokensFit
  <1>2. M \in Nat /\ p \in 1 .. M /\ q \in p + 1 .. M + 1 /\ p \in Int /\ q \in Int
    BY <1>1 DEF Fitting
  <1>3. ASSUME NEW i \in 1 .. M, lexed[i].tok # "QuotedString" PROVE Text(toks, i) = piece(i)
    <2>1. DOMAIN lexed = 1 .. M
      BY <1>1 DEF Fitting
    <2> HIDE DEF lexed
    <2>2. toks = [j \in DOMAIN lexed |->
                     [ tok |-> lexed[j].tok, text |-> UnquotedText(text, lexed[j]),
                       line |-> lexed[j].line, indent |-> lexed[j].indent ]]
      BY Zenon DEF Tokens, lexed
    <2> HIDE DEF toks
    <2>3. Len(toks) = M /\ toks[i].text = UnquotedText(text, lexed[i])
      BY <1>2, <2>1, <2>2
    <2>4. UnquotedText(text, lexed[i]) = piece(i)
      BY <1>3, Zenon DEF UnquotedText, TokenText
    <2>5. i <= Len(toks)
      BY <2>3
    <2> HIDE DEF piece, M
    <2> QED
      BY <2>3, <2>4, <2>5, Zenon DEF Text
  <1>4. \A i \in 1 .. M : /\ start(i) \in 1 .. Len(text)
                          /\ stop(i) \in start(i) + 1 .. Len(text) + 1
    BY <1>1 DEF Fitting
  <1>5. \A i \in 2 .. M : start(i) = stop(i - 1)
    BY <1>1 DEF Fitting
  <1>6. ASSUME NEW i \in 1 .. n PROVE seqs[i] = piece(p + i - 1) /\ p + i - 1 \in 1 .. M
    <2>1. p + i - 1 \in p .. q - 1 /\ p + i - 1 \in 1 .. M
      BY <1>2
    <2>2. lexed[p + i - 1].tok # "QuotedString"
      BY <2>1
    <2>3. seqs[i] = Text(toks, p + i - 1)
      OBVIOUS
    <2> DEFINE k == p + i - 1
    <2> HIDE DEF k, seqs, toks, piece, M, lexed
    <2>4. k \in 1 .. M /\ lexed[k].tok # "QuotedString" /\ seqs[i] = Text(toks, k)
      BY <2>1, <2>2, <2>3 DEF k
    <2>5. seqs[i] = piece(k)
      BY <1>3, <2>4
    <2> QED
      BY <2>4, <2>5 DEF k
  <1> HIDE DEF lexed, toks, M
  <1>7. \A i \in 1 .. M : piece(i) \in Seq(Symbols)
    <2> SUFFICES ASSUME NEW i \in 1 .. M PROVE piece(i) \in Seq(Symbols)
      OBVIOUS
    <2> DEFINE a == start(i)
               b == stop(i) - 1
    <2>1. a \in 1 .. Len(text) /\ stop(i) \in a + 1 .. Len(text) + 1
      BY <1>4
    <2> HIDE DEF start, stop
    <2>2. b \in a .. Len(text)
      BY <2>1
    <2> HIDE DEF a, b
    <2>3. SubSeq(text, a, b) \in Seq(Symbols)
      BY <2>1, <2>2, PartOf
    <2> QED
      BY <2>3 DEF a, b
  <1> HIDE DEF piece, start, stop
  <1>8. n \in Nat /\ n > 0 /\ Len(seqs) = n /\ seqs \in Seq(Seq(Symbols))
    <2>1. n \in Nat /\ n > 0
      BY <1>2
    <2> DEFINE T == Seq(Symbols)
    <2>2. \A i \in 1 .. n : seqs[i] \in T
      BY <1>6, <1>7
    <2>3. seqs = [i \in 1 .. n |-> seqs[i]]
      OBVIOUS
    <2> HIDE DEF seqs, T, n
    <2>5. seqs \in [1 .. n -> T]
      BY <2>2, <2>3
    <2>4. seqs \in Seq(T) /\ Len(seqs) = n
      <3>1. seqs \in Seq(T)
        BY <2>1, <2>5, SeqDef
      <3>2. Len(seqs) \in Nat /\ DOMAIN seqs = 1 .. Len(seqs) /\ DOMAIN seqs = 1 .. n
        BY <2>5, <3>1
      <3> DEFINE L == Len(seqs)
      <3>3. L \in Nat /\ 1 .. L = 1 .. n
        BY <3>2
      <3> HIDE DEF L
      <3>4. L = n
        <4>1. n \in 1 .. n
          BY <2>1
        <4>2. n <= L /\ L >= 1
          BY <3>3, <4>1
        <4>3. L \in 1 .. L
          BY <3>3, <4>2
        <4>4. L <= n
          BY <2>1, <3>3, <4>3
        <4> QED
          BY <2>1, <3>3, <4>2, <4>4
      <3> QED
        BY <3>1, <3>4 DEF L
    <2> QED
      BY <2>1, <2>4 DEF T
  <1> HIDE DEF seqs
  <1>9. PICK flat : /\ FlattenSeq(seqs) = flat[n]
                    /\ flat[1] = seqs[1]
                    /\ \A i \in 2 .. n : flat[i] = flat[i - 1] \o seqs[i]
    <2> HIDE DEF n
    <2> QED
      BY <1>8, FlatteningIs
  <1> DEFINE m == n - 1
             S == {i \in 0 .. m : start(p) < stop(p + i) /\ flat[i + 1] = so(i + 1)}
  <1>10. m \in Nat /\ m + 1 = n
    BY <1>8
  <1>11. 0 \in S
    <2>1. 1 \in 1 .. n /\ p + 1 - 1 = p /\ 0 + 1 = 1 /\ 0 \in 0 .. m
      BY <1>2, <1>8, <1>10
    <2>2. flat[1] = piece(p)
      BY <1>6, <1>9, <2>1
    <2>3. so(1) = piece(p)
      BY <2>1 DEF piece
    <2>4. start(p) < stop(p + 0)
      <3>1. start(p) \in 1 .. Len(text) /\ stop(p) \in start(p) + 1 .. Len(text) + 1 /\ p + 0 = p
        BY <1>2, <1>4
      <3> QED
        BY <3>1
    <2> HIDE DEF so, m
    <2> QED
      BY <2>1, <2>2, <2>3, <2>4
  <1>12. ASSUME NEW i \in 0 .. m - 1, i \in S PROVE i + 1 \in S
    <2> DEFINE j == p + i
    <2>1. /\ i + 1 \in 1 .. n /\ i + 2 \in 1 .. n /\ i + 2 \in 2 .. n /\ i + 2 - 1 = i + 1
          /\ i + 1 + 1 = i + 2 /\ i + 1 \in 0 .. m
      BY <1>8, <1>10
    <2>2. /\ p + (i + 1) - 1 = j /\ p + (i + 2) - 1 = j + 1
          /\ j \in 1 .. M /\ j + 1 \in 2 .. M /\ j + 1 \in 1 .. M /\ j + 1 - 1 = j
      <3>1. i \in Int /\ 0 <= i /\ i <= q - p - 2
        BY <1>2
      <3>2. p \in Int /\ q \in Int /\ M \in Int /\ 1 <= p /\ q <= M + 1
        BY <1>2
      <3> QED
        BY <3>1, <3>2
    <2>3. flat[i + 2] = flat[i + 1] \o seqs[i + 2]
      <3> DEFINE k == i + 2
      <3>1. k \in 2 .. n /\ k - 1 = i + 1
        BY <2>1
      <3> HIDE DEF k, n
      <3>2. flat[k] = flat[k - 1] \o seqs[k]
        BY <1>9, <3>1
      <3> QED
        BY <3>1, <3>2 DEF k
    <2>4. seqs[i + 2] = piece(j + 1)
      BY <1>6, <2>1, <2>2
    <2>5. flat[i + 1] = so(i + 1) /\ start(p) < stop(j)
      BY <1>12
    <2>6. so(i + 1) = SubSeq(text, start(p), stop(j) - 1)
      BY <2>2
    <2>7. so(i + 2) = SubSeq(text, start(p), stop(j + 1) - 1)
      BY <2>2
    <2> HIDE DEF so, j, n, m
    <2>8. SubSeq(text, start(p), stop(j) - 1) \o piece(j + 1) = SubSeq(text, start(p), stop(j + 1) - 1)
      <3> DEFINE a == start(p)
                 b == stop(j) - 1
                 c == stop(j + 1) - 1
                 N == Len(text)
      <3>1. a \in 1 .. N /\ c \in b + 1 .. N /\ b + 1 = start(j + 1) /\ b \in Int /\ N \in Nat
        <4>1. start(j + 1) = stop(j)
          BY <1>5, <2>2
        <4>2. stop(j) \in start(j) + 1 .. N + 1 /\ start(j) \in 1 .. N
          BY <1>4, <2>2
        <4>3. stop(j + 1) \in start(j + 1) + 1 .. N + 1 /\ start(j + 1) \in 1 .. N
          BY <1>4, <2>2
        <4>4. start(p) \in 1 .. N /\ N \in Nat
          BY <1>2, <1>4
        <4> DEFINE x == start(j)
                   y == stop(j)
                   z == stop(j + 1)
        <4>5. /\ x \in 1 .. N /\ y \in x + 1 .. N + 1 /\ y \in 1 .. N
              /\ z \in y + 1 .. N + 1 /\ b = y - 1 /\ c = z - 1
          BY <4>1, <4>2, <4>3
        <4> HIDE DEF N, a, b, c, x, y, z
        <4>6. c \in b + 1 .. N /\ b + 1 = y /\ b \in Int
          BY <4>4, <4>5
        <4> QED
          BY <4>1, <4>4, <4>6 DEF a, y
      <3>2. a <= b
        <4> DEFINE y == stop(j)
        <4>1. b = y - 1 /\ a < y /\ b \in Int /\ a \in Int /\ y \in Int
          BY <1>4, <2>2, <2>5, <3>1
        <4> HIDE DEF a, b, y
        <4> QED
          BY <4>1
      <3>3. piece(j + 1) = SubSeq(text, b + 1, c)
        BY <3>1 DEF piece
      <3> HIDE DEF a, b, c
      <3>4. b \in a .. N /\ c \in b .. N
        BY <3>1, <3>2
      <3>5. SubSeq(text, a, b) \o SubSeq(text, b + 1, c) = SubSeq(text, a, c)
        BY <3>1, <3>4, PartsTouch
      <3> QED
        BY <3>3, <3>5 DEF a, b, c
    <2>9. flat[i + 1 + 1] = so(i + 1 + 1)
      <3>1. flat[i + 2] = so(i + 2)
        BY <2>3, <2>4, <2>5, <2>6, <2>7, <2>8, Zenon
      <3> QED
        BY <2>1, <3>1, Zenon
    <2>10. start(p) < stop(j + 1) /\ p + (i + 1) = j + 1
      <3>1. start(j + 1) = stop(j) /\ stop(j + 1) \in start(j + 1) + 1 .. Len(text) + 1
        <4>1. start(j + 1) = stop(j)
          BY <1>5, <2>2
        <4>2. stop(j + 1) \in start(j + 1) + 1 .. Len(text) + 1
          BY <1>4, <2>2
        <4> QED
          BY <4>1, <4>2
      <3>2. start(p) \in 1 .. Len(text) /\ start(j + 1) \in 1 .. Len(text)
        BY <1>2, <1>4, <2>2
      <3>3. p + (i + 1) = j + 1
        BY <1>2, <2>1 DEF j
      <3> DEFINE a == start(p)
                 b == stop(j)
                 c == stop(j + 1)
      <3>4. a \in Int /\ b \in Int /\ c \in b + 1 .. Len(text) + 1 /\ a < b
        BY <2>5, <3>1, <3>2
      <3> HIDE DEF a, b, c
      <3>5. a < c
        BY <3>4
      <3> QED
        BY <3>3, <3>5 DEF a, c
    <2> QED
      BY <2>1, <2>9, <2>10
  <1>13. \A i \in 0 .. m : i \in S
    <2> HIDE DEF S, m
    <2> QED
      BY <1>10, <1>11, <1>12, UpTo
  <1>14. flat[n] = so(n) /\ p + n - 1 = q - 1
    <2>1. m \in 0 .. m /\ p + n - 1 = q - 1
      BY <1>2, <1>10
    <2>2. flat[m + 1] = so(m + 1)
      BY <1>13, <2>1
    <2> HIDE DEF so, m, n
    <2> QED
      BY <1>10, <2>1, <2>2
  <1>15. Glue(toks, p, q).text = FlattenSeq(seqs)
    BY Zenon DEF Glue, seqs, n
  <1>16. so(n) = SubSeq(text, start(p), stop(q - 1) - 1)
    BY <1>14
  <1> HIDE DEF so, n
  <1> QED
    BY <1>9, <1>14, <1>15, <1>16 DEF toks, lexed, start, stop

\* For texts of any length over any alphabet, with escapes in line: what the
\* parser glues, for an attribute or for a value, is the piece of the text from
\* the first to the last of its tokens, and the next token does not belong to it.
THEOREM GluedAsWrittenCorrect ==
    ASSUME NEW Symbols, input \in LexInput(Symbols)
    PROVE  GluedAsWritten
  <1> DEFINE text == input.text
             lexed == Lex(text)
             toks == Tokens(text)
             M == Len(lexed)
  <1>1. text \in Seq(Symbols) /\ EscapesInLine(text)
    BY DEF LexInput
  <1> HIDE DEF text
  <1>2. M \in Nat /\ DOMAIN lexed = 1 .. M
    BY <1>1, TokensFit DEF Fitting
  <1>3. Len(toks) = M /\ \A i \in 1 .. M : Tok(toks, i) = lexed[i].tok
    <2> HIDE DEF lexed
    <2>1. toks = [j \in DOMAIN lexed |->
                     [ tok |-> lexed[j].tok, text |-> UnquotedText(text, lexed[j]),
                       line |-> lexed[j].line, indent |-> lexed[j].indent ]]
      BY Zenon DEF Tokens, lexed
    <2> HIDE DEF toks
    <2>2. Len(toks) = M /\ \A i \in 1 .. M : toks[i].tok = lexed[i].tok
      BY <1>2, <2>1
    <2> QED
      BY <1>2, <2>2 DEF Tok
  <1>4. \A kinds \in {AttrParts, ValueParts} : "end" \notin kinds /\ "QuotedString" \notin kinds
    BY Zenon DEF AttrParts, ValueParts
  <1>5. ASSUME NEW p \in DOMAIN lexed, NEW kinds \in {AttrParts, ValueParts},
               lexed[p].tok # "QuotedString"
        PROVE  LET glued == Glued(toks, p, kinds)
               IN  /\ glued.pos \in p + 1 .. M + 1
                   /\ glued.text = SubSeq(text, lexed[p].start, lexed[glued.pos - 1].stop - 1)
                   /\ Tok(toks, glued.pos) \notin kinds
    <2> DEFINE q == Past(toks, p + 1, kinds)
    <2> HIDE DEF lexed, toks
    <2>1. p \in 1 .. M /\ p + 1 \in 1 .. M + 1 /\ Len(toks) \in Nat
      BY <1>2, <1>3
    <2>2. /\ q \in p + 1 .. M + 1
          /\ Tok(toks, q) \notin kinds
          /\ \A i \in p + 1 .. q - 1 : Tok(toks, i) \in kinds
      <3> DEFINE k == p + 1
      <3>1. k \in 1 .. Len(toks) + 1
        BY <1>3, <2>1
      <3> HIDE DEF k
      <3>2. /\ Past(toks, k, kinds) \in k .. Len(toks) + 1
            /\ Tok(toks, Past(toks, k, kinds)) \notin kinds
            /\ \A i \in k .. Past(toks, k, kinds) - 1 : Tok(toks, i) \in kinds
        BY <1>4, <2>1, <3>1, PastIs
      <3> QED
        BY <1>3, <3>2 DEF k
    <2> HIDE DEF q
    <2>3. \A i \in p .. q - 1 : lexed[i].tok # "QuotedString"
      <3> SUFFICES ASSUME NEW i \in p .. q - 1 PROVE lexed[i].tok # "QuotedString"
        OBVIOUS
      <3>1. CASE i = p
        BY <1>5, <3>1
      <3>2. CASE i # p
        <4>1. i \in p + 1 .. q - 1 /\ i \in 1 .. M
          BY <1>2, <2>1, <2>2, <3>2
        <4>2. Tok(toks, i) \in kinds /\ Tok(toks, i) = lexed[i].tok
          BY <1>3, <2>2, <4>1
        <4> QED
          BY <1>4, <4>2
      <3> QED
        BY <3>1, <3>2
    <2>4. Glue(toks, p, q).text = SubSeq(text, lexed[p].start, lexed[q - 1].stop - 1)
      BY <1>1, <2>1, <2>2, <2>3, GlueIs DEF lexed, toks
    <2>5. Glued(toks, p, kinds).pos = q /\ Glued(toks, p, kinds).text = Glue(toks, p, q).text
      BY Zenon DEF Glued, Glue, q
    <2> QED
      BY <2>2, <2>4, <2>5, Zenon
  <1> HIDE DEF toks, lexed
  <1> QED
    BY <1>5, Zenon DEF GluedAsWritten, toks, lexed, text, M

-----------------------------------------------------------------------------
(* Settings *)

\* A set of places in a sequence has a last one.
LEMMA LastPlace ==
    ASSUME NEW N \in Nat, NEW S, S \subseteq 1 .. N, S # {}
    PROVE  \E i \in S : \A j \in S : j <= i
  <1> DEFINE R == {n \in Nat : N - n \in S}
  <1>1. R # {}
    <2>1. PICK i \in S : TRUE
      OBVIOUS
    <2>2. N - i \in Nat /\ N - (N - i) = i
      BY <2>1
    <2> QED
      BY <2>1, <2>2
  <1>2. PICK n \in R : \A m \in R : n <= m
    <2>1. R \subseteq Nat
      OBVIOUS
    <2> HIDE DEF R
    <2> QED
      BY <1>1, <2>1, LeastElement
  <1>3. ASSUME NEW j \in S PROVE j <= N - n
    <2>1. N - j \in Nat /\ N - (N - j) = j
      OBVIOUS
    <2>2. n <= N - j
      BY <1>2, <2>1
    <2> QED
      BY <1>2, <2>1, <2>2
  <1> QED
    BY <1>2, <1>3

AgreeInput(Queries) == [kind : {"agree"}, queries : Seq(Queries)]

\* The last of the values that are there is the last value, if that one is there.
LEMMA LastValueAmong ==
    ASSUME NEW N \in Nat, NEW P, P \subseteq 1 .. N, NEW queries, NEW attr, NEW none,
           LastValue(queries, P, attr, NoText) # NoText
    PROVE  LastValue(queries, {i \in P : StringValue(queries[i], <<attr>>) # NoText}, attr, none)
               = LastValue(queries, P, attr, NoText)
  <1> DEFINE value(i) == StringValue(queries[i], <<attr>>)
             Q == {i \in P : value(i) # NoText}
             top(S) == CHOOSE i \in S : \A j \in S : j <= i
  <1>1. P # {}
    BY DEF LastValue
  <1>2. top(P) \in P /\ \A j \in P : j <= top(P)
    BY <1>1, LastPlace
  <1>3. LastValue(queries, P, attr, NoText) = value(top(P))
    BY <1>1, Zenon DEF LastValue
  <1>4. top(P) \in Q
    BY <1>2, <1>3
  <1>5. top(Q) \in Q /\ \A j \in Q : j <= top(Q)
    <2>1. Q \subseteq 1 .. N /\ Q # {}
      BY <1>4
    <2> HIDE DEF Q
    <2> QED
      BY <2>1, LastPlace
  <1>6. top(Q) = top(P)
    <2>1. top(Q) <= top(P) /\ top(P) <= top(Q)
      <3> HIDE DEF top
      <3> QED
        BY <1>2, <1>4, <1>5
    <2>2. top(Q) \in Int /\ top(P) \in Int
      <3>1. P \subseteq Int
        OBVIOUS
      <3>2. Q \subseteq P
        OBVIOUS
      <3> HIDE DEF top, Q
      <3> QED
        BY <1>2, <1>5, <3>1, <3>2
    <2> HIDE DEF top
    <2> QED
      BY <2>1, <2>2
  <1>7. LastValue(queries, Q, attr, none) = value(top(Q))
    <2>1. Q # {}
      BY <1>4
    <2> HIDE DEF Q
    <2> QED
      BY <2>1, Zenon DEF LastValue
  <1> HIDE DEF top
  <1> QED
    BY <1>3, <1>6, <1>7 DEF Q

\* For any number of queries, of whatever commands and with whatever settings:
\* the client and the server read the same project, the same directories and the
\* same kind of deploy out of them.
THEOREM SidesAgreeCorrect ==
    ASSUME NEW Queries, input \in AgreeInput(Queries)
    PROVE  SidesAgree
  <1> DEFINE queries == input.queries
             P == Settings(queries, "project-name")
             sent == ClientSettings(queries)
             created == CreateSettings(queries)
             active == ActivationConfig(queries)
  <1>1. queries \in Seq(Queries) /\ Len(queries) \in Nat /\ DOMAIN queries = 1 .. Len(queries)
    BY DEF AgreeInput
  <1>2. P \subseteq 1 .. Len(queries)
    BY <1>1 DEF Settings
  <1> HIDE DEF queries
  <1>3. /\ sent.inPlace = HasSetting(queries, "update-in-place")
        /\ sent.webStaticDir = Setting(queries, "web-static-dir")
        /\ sent.candle = Setting(queries, "candle-config")
        /\ sent.project = LastValue(queries, P, "project-name", NoText)
    BY Zenon DEF ClientSettings, Setting
  <1>4. /\ created.inPlace = HasSetting(queries, "update-in-place")
        /\ created.webStaticDir = Setting(queries, "web-static-dir")
    BY Zenon DEF CreateSettings
  <1>5. /\ active.candle = Setting(queries, "candle-config")
        /\ active.project = LastValue(queries,
               {i \in P : StringValue(queries[i], <<"project-name">>) # NoText},
               "project-name", <<>>)
    BY Zenon DEF ActivationConfig
  <1> HIDE DEF P, sent, created, active
  <1>6. sent.project # NoText => active.project = sent.project
    BY <1>1, <1>2, <1>3, <1>5, LastValueAmong
  <1>7. /\ sent.inPlace = created.inPlace
        /\ sent.webStaticDir = created.webStaticDir
        /\ sent.candle = active.candle
        /\ sent.project # NoText => sent.project = active.project
    BY <1>3, <1>4, <1>5, <1>6, Zenon
  <1> QED
    BY <1>7, Zenon DEF SidesAgree, sent, created, active, queries

-----------------------------------------------------------------------------
(* Scripts *)

\* Texts without a slash, and what a text is split into.
Unslashed(X) == Seq(X \ {"/"})
Splits(X) == {s \in Seq(Unslashed(X)) : s # <<>>}

\* What is split, with one more character in front.
Before(c, s) == IF c = "/" THEN <<<<>>>> \o s ELSE <<<<c>> \o Head(s)>> \o Tail(s)

LEMMA BeforeSplits ==
    ASSUME NEW X, NEW c \in X, NEW s \in Splits(X)
    PROVE  Before(c, s) \in Splits(X)
  <1> DEFINE P == Unslashed(X)
  <1>1. s \in Seq(P) /\ Head(s) \in P /\ Tail(s) \in Seq(P)
    BY DEF Splits
  <1>2. <<>> \in P
    BY DEF Unslashed
  <1>3. c # "/" => <<c>> \o Head(s) \in P
    BY <1>1 DEF Unslashed
  <1> HIDE DEF P
  <1>4. <<<<>>>> \o s \in Seq(P) /\ <<<<>>>> \o s # <<>>
    BY <1>1, <1>2
  <1> DEFINE q == <<c>> \o Head(s)
  <1> HIDE DEF q
  <1>5. q \in P => <<q>> \o Tail(s) \in Seq(P) /\ <<q>> \o Tail(s) # <<>>
    BY <1>1
  <1>6. c = "/" => Before(c, s) = <<<<>>>> \o s
    BY Zenon DEF Before
  <1>7. c # "/" => Before(c, s) = <<q>> \o Tail(s)
    BY Zenon DEF Before, q
  <1> QED
    BY <1>3, <1>4, <1>5, <1>6, <1>7 DEF Splits, P, q

\* The function Split is defined by.
IsSplitting(text, from) ==
    from = [i \in 1 .. Len(text) + 1 |->
               IF i > Len(text) THEN <<<<>>>>
               ELSE IF text[i] = "/" THEN <<<<>>>> \o from[i + 1]
               ELSE <<<<text[i]>> \o Head(from[i + 1])>> \o Tail(from[i + 1])]

\* Place by place.
SplitsFrom(text, from) ==
    /\ from[Len(text) + 1] = <<<<>>>>
    /\ \A i \in 1 .. Len(text) : from[i] = Before(text[i], from[i + 1])

\* It exists.
LEMMA SplittingIs ==
    ASSUME NEW X, NEW text \in Seq(X)
    PROVE  \E from : /\ Split(text) = from[1] /\ SplitsFrom(text, from)
                     /\ \A i \in 1 .. Len(text) + 1 : from[i] \in Splits(X)
  <1> DEFINE N == Len(text)
             I == 1 .. N
             D == 1 .. N + 1
             T == Splits(X)
             join == [x \in I \X T |-> Before(text[x[1]], x[2])]
             go(i, g) == IF i > N THEN <<<<>>>>
                         ELSE IF text[i] = "/" THEN <<<<>>>> \o g[i + 1]
                         ELSE <<<<text[i]>> \o Head(g[i + 1])>> \o Tail(g[i + 1])
  <1>1. N \in Nat /\ \A i \in I : text[i] \in X
    OBVIOUS
  <1>2. <<<<>>>> \in T
    <2>1. <<>> \in Unslashed(X)
      BY DEF Unslashed
    <2> QED
      BY <2>1 DEF Splits
  <1>3. /\ join \in [I \X T -> T]
        /\ \A i \in I, s \in T : join[<<i, s>>] = Before(text[i], s)
    <2>1. \A i \in I, s \in T : Before(text[i], s) \in T
      BY <1>1, BeforeSplits
    <2> HIDE DEF I, T
    <2> QED
      BY <2>1
  <1> HIDE DEF join
  <1>4. PICK f \in [D -> T] : f[N + 1] = <<<<>>>> /\ \A i \in I : f[i] = join[<<i, f[i + 1]>>]
    <2> DEFINE last == <<<<>>>>
    <2>1. N \in Nat /\ last \in T /\ join \in [(1 .. N) \X T -> T]
      BY <1>1, <1>2, <1>3
    <2> HIDE DEF N, T, last
    <2>2. \E f \in [1 .. N + 1 -> T] : FromEnd(f, N, last, join)
      BY <2>1, FromTheEnd
    <2> QED
      BY <2>2, Zenon DEF FromEnd, last
  <1>5. ASSUME NEW i \in D PROVE f[i] = go(i, f)
    <2>1. CASE i > N
      <3>1. i = N + 1
        BY <1>1, <2>1
      <3> QED
        BY <1>4, <2>1, <3>1
    <2>2. CASE ~(i > N)
      <3>1. i \in I /\ i + 1 \in D
        BY <1>1, <2>2
      <3>2. f[i + 1] \in T
        BY <1>4, <3>1
      <3>3. f[i] = Before(text[i], f[i + 1])
        <4> HIDE DEF I, T, D
        <4> QED
          BY <1>3, <1>4, <3>1, <3>2
      <3> QED
        BY <2>2, <3>3, Zenon DEF Before
    <2> QED
      BY <2>1, <2>2
  <1>6. IsSplitting(text, f)
    <2> DEFINE g == [i \in D |-> go(i, f)]
    <2>1. f = g
      <3>1. \A i \in D : f[i] = g[i]
        BY <1>5
      <3>2. f = [i \in D |-> f[i]] /\ g = [i \in D |-> g[i]]
        OBVIOUS
      <3> HIDE DEF g, D
      <3> QED
        BY <3>1, <3>2
    <2> QED
      BY <2>1, Zenon DEF IsSplitting
  <1> DEFINE from == CHOOSE h : IsSplitting(text, h)
  <1>7. IsSplitting(text, from) /\ Split(text) = from[1]
    BY <1>6, Zenon DEF Split, IsSplitting
  <1> HIDE DEF from
  <1>8. \A i \in D : from[i] = go(i, from)
    <2>1. from = [i \in D |-> go(i, from)]
      BY <1>7, Zenon DEF IsSplitting
    <2> HIDE DEF go, D
    <2> QED
      BY <2>1
  <1>9. SplitsFrom(text, from)
    <2>1. N + 1 \in D /\ N + 1 > N
      BY <1>1
    <2>2. from[N + 1] = <<<<>>>>
      BY <1>8, <2>1, Zenon
    <2>3. ASSUME NEW i \in I PROVE from[i] = Before(text[i], from[i + 1])
      <3>1. i \in D /\ ~(i > N)
        BY <1>1
      <3> QED
        BY <1>8, <3>1, Zenon DEF Before
    <2> QED
      BY <2>2, <2>3, Zenon DEF SplitsFrom
  <1> DEFINE S == {i \in D : from[i] \in T}
  <1>10. N + 1 \in S
    <2>1. N + 1 \in D /\ from[N + 1] = <<<<>>>>
      BY <1>1, <1>9 DEF SplitsFrom
    <2> HIDE DEF T
    <2> QED
      BY <1>2, <2>1
  <1>11. ASSUME NEW i \in I, i + 1 \in S PROVE i \in S
    <2>1. i \in D /\ from[i] = Before(text[i], from[i + 1])
      BY <1>1, <1>9 DEF SplitsFrom
    <2>2. Before(text[i], from[i + 1]) \in T
      BY <1>1, <1>11, BeforeSplits
    <2> HIDE DEF T
    <2> QED
      BY <2>1, <2>2
  <1>12. \A i \in D : i \in S
    <2> HIDE DEF S, N
    <2> QED
      BY <1>1, <1>10, <1>11, HoldsFromTheEnd
  <1> QED
    BY <1>7, <1>9, <1>12

\* A text splits into texts without slashes; an empty one into an empty one; and
\* a character in front of a text comes before what that is split into.
LEMMA SplitIn ==
    ASSUME NEW X, NEW text \in Seq(X)
    PROVE  Split(text) \in Splits(X)
  <1>1. PICK from : /\ Split(text) = from[1]
                    /\ \A i \in 1 .. Len(text) + 1 : from[i] \in Splits(X)
    BY SplittingIs
  <1>2. 1 \in 1 .. Len(text) + 1
    OBVIOUS
  <1> QED
    BY <1>1, <1>2

LEMMA SplitOfNothing == Split(<<>>) = <<<<>>>>
  <1>1. <<>> \in Seq({}) /\ Len(<<>>) = 0
    OBVIOUS
  <1>2. PICK from : Split(<<>>) = from[1] /\ SplitsFrom(<<>>, from)
    BY <1>1, SplittingIs
  <1>3. from[0 + 1] = <<<<>>>>
    BY <1>1, <1>2 DEF SplitsFrom
  <1> QED
    BY <1>2, <1>3

LEMMA SplitUnfolds ==
    ASSUME NEW X, NEW c \in X, NEW s \in Seq(X)
    PROVE  Split(<<c>> \o s) = Before(c, Split(s))
  <1> DEFINE t == <<c>> \o s
             n == Len(s)
  <1>1. /\ t \in Seq(X) /\ n \in Nat /\ Len(t) = n + 1 /\ t[1] = c
        /\ \A k \in 1 .. n : t[1 + k] = s[k]
    BY OneInFront
  <1> HIDE DEF t
  <1>2. PICK f : Split(t) = f[1] /\ SplitsFrom(t, f)
    BY <1>1, SplittingIs
  <1>3. PICK g : Split(s) = g[1] /\ SplitsFrom(s, g)
    BY SplittingIs
  <1> DEFINE S == {i \in 1 .. n + 1 : f[i + 1] = g[i]}
  <1>4. n + 1 \in S
    <2>1. f[n + 1 + 1] = <<<<>>>> /\ g[n + 1] = <<<<>>>>
      BY <1>1, <1>2, <1>3 DEF SplitsFrom
    <2> QED
      BY <1>1, <2>1
  <1>5. ASSUME NEW i \in 1 .. n, i + 1 \in S PROVE i \in S
    <2>1. i + 1 \in 1 .. Len(t) /\ 1 + i = i + 1 /\ i \in 1 .. n + 1
      BY <1>1
    <2>2. f[i + 1] = Before(t[i + 1], f[i + 1 + 1])
      BY <1>2, <2>1 DEF SplitsFrom
    <2>3. g[i] = Before(s[i], g[i + 1])
      BY <1>3 DEF SplitsFrom
    <2>4. t[i + 1] = s[i]
      BY <1>1, <2>1
    <2>5. f[i + 1 + 1] = g[i + 1]
      BY <1>5
    <2>6. f[i + 1] = g[i]
      BY <2>2, <2>3, <2>4, <2>5
    <2> QED
      BY <2>1, <2>6
  <1>6. \A i \in 1 .. n + 1 : i \in S
    <2> HIDE DEF S, n
    <2> QED
      BY <1>1, <1>4, <1>5, HoldsFromTheEnd
  <1>7. f[1 + 1] = g[1]
    BY <1>1, <1>6
  <1>8. f[1] = Before(t[1], f[1 + 1])
    <2>1. 1 \in 1 .. Len(t)
      BY <1>1
    <2> QED
      BY <1>2, <2>1 DEF SplitsFrom
  <1> QED
    BY <1>1, <1>2, <1>3, <1>7, <1>8 DEF t

\* What has no slash comes before the first piece.
LEMMA SplitBehind ==
    ASSUME NEW X, NEW piece \in Unslashed(X), NEW s \in Seq(X)
    PROVE  Split(piece \o s) = <<piece \o Head(Split(s))>> \o Tail(Split(s))
  <1> DEFINE L == Len(piece)
             r(k) == SubSeq(piece, k, L)
             h == Head(Split(s))
             t == Tail(Split(s))
             S == {k \in 1 .. L + 1 : Split(r(k) \o s) = <<r(k) \o h>> \o t}
  <1>1. /\ piece \in Seq(X) /\ L \in Nat
        /\ \A k \in 1 .. L : piece[k] \in X /\ piece[k] # "/"
    BY DEF Unslashed
  <1>2. Split(s) \in Seq(Seq(X)) /\ Split(s) # <<>>
    <2>1. Split(s) \in Splits(X)
      BY SplitIn
    <2>2. Unslashed(X) \subseteq Seq(X)
      BY DEF Unslashed
    <2>3. Split(s) \in Seq(Unslashed(X)) /\ Split(s) # <<>>
      BY <2>1 DEF Splits
    <2> HIDE DEF Unslashed
    <2> QED
      BY <2>2, <2>3
  <1>3. h \in Seq(X) /\ t \in Seq(Seq(X)) /\ <<h>> \o t = Split(s)
    <2> DEFINE Y == Seq(X)
               p == Split(s)
    <2>1. p \in Seq(Y) /\ p # <<>>
      BY <1>2
    <2> HIDE DEF Y, p
    <2>2. Head(p) \in Y /\ Tail(p) \in Seq(Y) /\ <<Head(p)>> \o Tail(p) = p
      BY <2>1
    <2> QED
      BY <2>2 DEF Y, p
  <1> HIDE DEF h, t
  <1>4. \A k \in 1 .. L + 1 : r(k) \in Seq(X)
    BY <1>1
  <1>5. L + 1 \in S
    <2>1. r(L + 1) = <<>> /\ L + 1 \in 1 .. L + 1
      BY <1>1
    <2>2. <<>> \o s = s /\ <<>> \o h = h
      BY <1>3
    <2> HIDE DEF r, L
    <2> QED
      BY <1>3, <2>1, <2>2
  <1>6. ASSUME NEW k \in 1 .. L, k + 1 \in S PROVE k \in S
    <2> DEFINE c == piece[k]
               q == r(k + 1)
               w == <<c>> \o (q \o h)
    <2>1. c \in X /\ c # "/" /\ q \in Seq(X) /\ k \in 1 .. L + 1
      BY <1>1, <1>4
    <2>2. r(k) = <<c>> \o q
      BY <1>1, RestIs
    <2>3. Split(q \o s) = <<q \o h>> \o t
      BY <1>6
    <2> HIDE DEF r, c, q, L
    <2>4. r(k) \o s = <<c>> \o (q \o s) /\ q \o s \in Seq(X)
      BY <2>1, <2>2
    <2>5. r(k) \o h = w /\ q \o h \in Seq(X)
      BY <1>3, <2>1, <2>2
    <2>6. Split(r(k) \o s) = Before(c, <<q \o h>> \o t)
      BY <2>1, <2>3, <2>4, SplitUnfolds
    <2>7. Head(<<q \o h>> \o t) = q \o h /\ Tail(<<q \o h>> \o t) = t
      <3> DEFINE v == q \o h
                 Y == Seq(X)
      <3>1. v \in Y /\ t \in Seq(Y)
        BY <1>3, <2>5
      <3> HIDE DEF v, Y
      <3>2. Head(<<v>> \o t) = v /\ Tail(<<v>> \o t) = t
        BY <3>1
      <3> QED
        BY <3>2 DEF v
    <2>8. Split(r(k) \o s) = <<w>> \o t
      BY <2>1, <2>6, <2>7, Zenon DEF Before
    <2>9. Split(r(k) \o s) = <<r(k) \o h>> \o t
      BY <2>5, <2>8, Zenon
    <2> QED
      BY <2>1, <2>9
  <1>7. \A k \in 1 .. L + 1 : k \in S
    <2> HIDE DEF S, L
    <2> QED
      BY <1>1, <1>5, <1>6, HoldsFromTheEnd
  <1>8. Split(r(1) \o s) = <<r(1) \o h>> \o t
    <2>1. 1 \in 1 .. L + 1
      BY <1>1
    <2> QED
      BY <1>7, <2>1
  <1>9. r(1) = piece
    BY <1>1
  <1> HIDE DEF r
  <1> QED
    BY <1>8, <1>9 DEF h, t

\* Before a slash it is a piece of its own.
LEMMA SplitPieces ==
    ASSUME NEW X, "/" \in X, NEW piece \in Unslashed(X), NEW s \in Seq(X)
    PROVE  /\ Split(piece) = <<piece>>
           /\ Split(piece \o <<"/">> \o s) = <<piece>> \o Split(s)
  <1>1. piece \in Seq(X)
    BY DEF Unslashed
  <1>2. Split(piece) = <<piece>>
    <2>1. <<>> \in Seq(X) /\ Head(<<<<>>>>) = <<>> /\ Tail(<<<<>>>>) = <<>>
      OBVIOUS
    <2>2. piece \o <<>> = piece /\ <<piece>> \o <<>> = <<piece>>
      BY <1>1
    <2>3. Split(piece \o <<>>) = <<piece \o Head(<<<<>>>>)>> \o Tail(<<<<>>>>)
      BY <2>1, SplitBehind, SplitOfNothing
    <2> QED
      BY <2>1, <2>2, <2>3
  <1>3. Split(piece \o <<"/">> \o s) = <<piece>> \o Split(s)
    <2> DEFINE u == <<"/">> \o s
               p == Split(s)
    <2>1. u \in Seq(X) /\ piece \o <<"/">> \o s = piece \o u
      BY <1>1
    <2>2. Split(u) = <<<<>>>> \o p
      BY SplitUnfolds, Zenon DEF Before
    <2>3. p \in Seq(Unslashed(X))
      BY SplitIn DEF Splits
    <2> HIDE DEF p, u
    <2>4. Split(piece \o u) = <<piece \o Head(Split(u))>> \o Tail(Split(u))
      BY <2>1, SplitBehind
    <2>5. Head(<<<<>>>> \o p) = <<>> /\ Tail(<<<<>>>> \o p) = p
      <3> DEFINE e == <<>>
                 P == Unslashed(X)
      <3>1. e \in P /\ p \in Seq(P)
        BY <2>3 DEF Unslashed
      <3> HIDE DEF e, P
      <3>2. Head(<<e>> \o p) = e /\ Tail(<<e>> \o p) = p
        BY <3>1
      <3> QED
        BY <3>2 DEF e
    <2>6. piece \o <<>> = piece
      BY <1>1
    <2>7. Split(piece \o u) = <<piece>> \o p
      BY <2>2, <2>4, <2>5, <2>6, Zenon
    <2> QED
      BY <2>1, <2>7 DEF p
  <1> QED
    BY <1>2, <1>3

\* The function Joined is defined by.
IsJoining(texts, separator, from) ==
    from = [i \in 1 .. Len(texts) + 1 |->
               IF i > Len(texts) THEN <<>>
               ELSE IF i = Len(texts) THEN texts[i]
               ELSE texts[i] \o separator \o from[i + 1]]

\* Place by place.
Behind(texts, separator, i, s) ==
    IF i = Len(texts) THEN texts[i] ELSE texts[i] \o separator \o s

JoinsFrom(texts, separator, from) ==
    \A i \in 1 .. Len(texts) : from[i] = Behind(texts, separator, i, from[i + 1])

\* It exists.
LEMMA JoiningIs ==
    ASSUME NEW X, NEW texts \in Seq(Seq(X)), NEW separator \in Seq(X)
    PROVE  \E from : /\ Joined(texts, separator) = from[1] /\ JoinsFrom(texts, separator, from)
                     /\ \A i \in 1 .. Len(texts) + 1 : from[i] \in Seq(X)
  <1> DEFINE N == Len(texts)
             I == 1 .. N
             D == 1 .. N + 1
             T == Seq(X)
             step(i, s) == Behind(texts, separator, i, s)
             join == [x \in I \X T |-> step(x[1], x[2])]
             go(i, g) == IF i > N THEN <<>>
                         ELSE IF i = N THEN texts[i]
                         ELSE texts[i] \o separator \o g[i + 1]
  <1>1. N \in Nat /\ \A i \in I : texts[i] \in T
    OBVIOUS
  <1>2. <<>> \in T
    OBVIOUS
  <1>3. \A i \in I, s \in T : step(i, s) \in T
    <2>1. ASSUME NEW u \in T, NEW s \in T PROVE u \o separator \o s \in T
      OBVIOUS
    <2> HIDE DEF T, I
    <2> QED
      BY <1>1, <2>1 DEF Behind
  <1>4. join \in [I \X T -> T] /\ \A i \in I, s \in T : join[<<i, s>>] = step(i, s)
    <2> HIDE DEF I, T, step
    <2> QED
      BY <1>3
  <1> HIDE DEF join
  <1>5. PICK f \in [D -> T] : f[N + 1] = <<>> /\ \A i \in I : f[i] = join[<<i, f[i + 1]>>]
    <2> DEFINE last == <<>>
    <2>1. N \in Nat /\ last \in T /\ join \in [(1 .. N) \X T -> T]
      BY <1>1, <1>2, <1>4
    <2> HIDE DEF N, T, last
    <2>2. \E f \in [1 .. N + 1 -> T] : FromEnd(f, N, last, join)
      BY <2>1, FromTheEnd
    <2> QED
      BY <2>2, Zenon DEF FromEnd, last
  <1>6. ASSUME NEW i \in D PROVE f[i] = go(i, f)
    <2>1. CASE i > N
      <3>1. i = N + 1
        BY <1>1, <2>1
      <3> QED
        BY <1>5, <2>1, <3>1
    <2>2. CASE ~(i > N)
      <3>1. i \in I /\ i + 1 \in D
        BY <1>1, <2>2
      <3>2. f[i + 1] \in T
        BY <1>5, <3>1
      <3>3. f[i] = step(i, f[i + 1])
        <4> HIDE DEF I, T, D, step
        <4> QED
          BY <1>4, <1>5, <3>1, <3>2
      <3> QED
        BY <2>2, <3>3, Zenon DEF Behind
    <2> QED
      BY <2>1, <2>2
  <1>7. IsJoining(texts, separator, f)
    <2> DEFINE g == [i \in D |-> go(i, f)]
    <2>1. f = g
      <3>1. \A i \in D : f[i] = g[i]
        BY <1>6
      <3>2. f = [i \in D |-> f[i]] /\ g = [i \in D |-> g[i]]
        OBVIOUS
      <3> HIDE DEF g, D
      <3> QED
        BY <3>1, <3>2
    <2> QED
      BY <2>1, Zenon DEF IsJoining
  <1> DEFINE from == CHOOSE h : IsJoining(texts, separator, h)
  <1>8. IsJoining(texts, separator, from) /\ Joined(texts, separator) = from[1]
    BY <1>7, Zenon DEF Joined, IsJoining
  <1> HIDE DEF from
  <1>9. \A i \in D : from[i] = go(i, from)
    <2>1. from = [i \in D |-> go(i, from)]
      BY <1>8, Zenon DEF IsJoining
    <2> HIDE DEF go, D
    <2> QED
      BY <2>1
  <1>10. ASSUME NEW i \in I PROVE from[i] = step(i, from[i + 1])
    <2>1. i \in D /\ ~(i > N)
      BY <1>1
    <2> QED
      BY <1>9, <2>1, Zenon DEF Behind
  <1> DEFINE S == {i \in D : from[i] \in T}
  <1>11. N + 1 \in S
    <2>1. N + 1 \in D /\ N + 1 > N
      BY <1>1
    <2>2. from[N + 1] = <<>>
      BY <1>9, <2>1, Zenon
    <2> HIDE DEF T
    <2> QED
      BY <1>2, <2>1, <2>2
  <1>12. ASSUME NEW i \in I, i + 1 \in S PROVE i \in S
    <2>1. i \in D
      BY <1>1
    <2>2. step(i, from[i + 1]) \in T
      <3> HIDE DEF step, T
      <3> QED
        BY <1>3, <1>12
    <2> HIDE DEF T, step
    <2> QED
      BY <1>10, <2>1, <2>2
  <1>13. \A i \in D : i \in S
    <2> HIDE DEF S, N
    <2> QED
      BY <1>1, <1>11, <1>12, HoldsFromTheEnd
  <1>14. JoinsFrom(texts, separator, from)
    BY <1>10, Zenon DEF JoinsFrom
  <1> QED
    BY <1>8, <1>13, <1>14

\* What is joined with slashes is split where it was joined.
LEMMA JoinedSplits ==
    ASSUME NEW X, "/" \in X, NEW pieces \in Splits(X)
    PROVE  Joined(pieces, <<"/">>) \in Seq(X) /\ Split(Joined(pieces, <<"/">>)) = pieces
  <1> DEFINE N == Len(pieces)
             P == Unslashed(X)
             slash == <<"/">>
             r(i) == SubSeq(pieces, i, N)
  <1>1. pieces \in Seq(P) /\ N \in Nat /\ N # 0 /\ \A i \in 1 .. N : pieces[i] \in P
    BY DEF Splits
  <1>2. P \subseteq Seq(X) /\ slash \in Seq(X)
    BY DEF Unslashed
  <1>3. pieces \in Seq(Seq(X))
    <2> HIDE DEF P
    <2> QED
      BY <1>1, <1>2
  <1> HIDE DEF slash, P
  <1>4. PICK from : /\ Joined(pieces, slash) = from[1] /\ JoinsFrom(pieces, slash, from)
                    /\ \A i \in 1 .. N + 1 : from[i] \in Seq(X)
    BY <1>2, <1>3, JoiningIs
  <1>5. /\ r(N) = <<pieces[N]>>
        /\ \A i \in 1 .. N - 1 : r(i) = <<pieces[i]>> \o r(i + 1)
        /\ r(1) = pieces
    <2>1. \A i \in 1 .. N : r(i) = <<pieces[i]>> \o r(i + 1)
      BY <1>1, RestIs
    <2>2. r(1) = pieces
      BY <1>1
    <2>3. r(N) = <<pieces[N]>>
      <3>1. r(N) = <<pieces[N]>> \o r(N + 1) /\ r(N + 1) = <<>>
        BY <1>1, <2>1
      <3>2. <<pieces[N]>> \o <<>> = <<pieces[N]>>
        BY <1>1
      <3> HIDE DEF r, N
      <3> QED
        BY <3>1, <3>2
    <2> HIDE DEF r
    <2> QED
      BY <1>1, <2>1, <2>2, <2>3
  <1> DEFINE M == N - 1
             S == {i \in 1 .. N : Split(from[i]) = r(i)}
  <1>6. M \in Nat /\ M + 1 = N /\ N \in 1 .. N
    BY <1>1
  <1> HIDE DEF r, N
  <1>7. N \in S
    <2>1. from[N] = pieces[N]
      BY <1>4, <1>6, Zenon DEF JoinsFrom, Behind, N
    <2>2. Split(pieces[N]) = <<pieces[N]>>
      <3>1. <<>> \in Seq(X) /\ pieces[N] \in Unslashed(X)
        BY <1>1, <1>6 DEF P
      <3> QED
        BY <3>1, SplitPieces
    <2> QED
      BY <1>5, <1>6, <2>1, <2>2
  <1>8. ASSUME NEW i \in 1 .. M, i + 1 \in S PROVE i \in S
    <2>1. i \in 1 .. N /\ i # N /\ i + 1 \in 1 .. N + 1 /\ i \in 1 .. N - 1
      BY <1>6
    <2>2. from[i] = pieces[i] \o slash \o from[i + 1]
      BY <1>4, <2>1, Zenon DEF JoinsFrom, Behind, N
    <2>3. Split(pieces[i] \o slash \o from[i + 1]) = <<pieces[i]>> \o Split(from[i + 1])
      <3>1. pieces[i] \in Unslashed(X) /\ from[i + 1] \in Seq(X)
        BY <1>1, <1>4, <2>1 DEF P
      <3> QED
        BY <3>1, SplitPieces DEF slash
    <2>4. Split(from[i + 1]) = r(i + 1)
      BY <1>8
    <2> QED
      BY <1>5, <2>1, <2>2, <2>3, <2>4
  <1>9. \A i \in 1 .. N : i \in S
    <2>1. \A i \in 1 .. M + 1 : i \in S
      <3>1. M + 1 \in S
        BY <1>6, <1>7
      <3> HIDE DEF S, M
      <3> QED
        BY <1>6, <1>8, <3>1, HoldsFromTheEnd
    <2> QED
      BY <1>6, <2>1
  <1>10. 1 \in 1 .. N /\ 1 \in 1 .. N + 1
    BY <1>1
  <1>11. Split(from[1]) = pieces /\ from[1] \in Seq(X)
    BY <1>4, <1>5, <1>9, <1>10
  <1> QED
    BY <1>4, <1>11 DEF slash


\* The function Significant is defined by.
IsPicking(segments, from) ==
    from = [i \in 1 .. Len(segments) + 1 |->
               IF i > Len(segments) THEN <<>>
               ELSE IF segments[i] \in {<<>>, <<".">>} THEN from[i + 1]
               ELSE <<segments[i]>> \o from[i + 1]]

\* Place by place.
Nowhere == {<<>>, <<".">>}
Pick(segment, s) == IF segment \in Nowhere THEN s ELSE <<segment>> \o s

PicksFrom(segments, from) ==
    /\ from[Len(segments) + 1] = <<>>
    /\ \A i \in 1 .. Len(segments) : from[i] = Pick(segments[i], from[i + 1])

\* It exists.
LEMMA PickingIs ==
    ASSUME NEW P, NEW segments \in Seq(P)
    PROVE  \E from : /\ Significant(segments) = from[1] /\ PicksFrom(segments, from)
                     /\ \A i \in 1 .. Len(segments) + 1 : from[i] \in Seq(P \ Nowhere)
  <1> DEFINE N == Len(segments)
             I == 1 .. N
             D == 1 .. N + 1
             T == Seq(P \ Nowhere)
             step(i, s) == Pick(segments[i], s)
             join == [x \in I \X T |-> step(x[1], x[2])]
             go(i, g) == IF i > N THEN <<>>
                         ELSE IF segments[i] \in {<<>>, <<".">>} THEN g[i + 1]
                         ELSE <<segments[i]>> \o g[i + 1]
  <1>1. N \in Nat /\ \A i \in I : segments[i] \in P
    OBVIOUS
  <1>2. <<>> \in T
    OBVIOUS
  <1>3. \A i \in I, s \in T : step(i, s) \in T
    <2>1. ASSUME NEW u \in P \ Nowhere, NEW s \in T PROVE <<u>> \o s \in T
      <3> DEFINE Q == P \ Nowhere
      <3>1. u \in Q /\ s \in Seq(Q)
        BY <2>1
      <3> HIDE DEF Q
      <3>2. <<u>> \o s \in Seq(Q)
        BY <3>1
      <3> QED
        BY <3>2 DEF Q
    <2> HIDE DEF T, I
    <2> QED
      BY <1>1, <2>1 DEF Pick
  <1>4. join \in [I \X T -> T] /\ \A i \in I, s \in T : join[<<i, s>>] = step(i, s)
    <2> HIDE DEF I, T, step
    <2> QED
      BY <1>3
  <1> HIDE DEF join
  <1>5. PICK f \in [D -> T] : f[N + 1] = <<>> /\ \A i \in I : f[i] = join[<<i, f[i + 1]>>]
    <2> DEFINE last == <<>>
    <2>1. N \in Nat /\ last \in T /\ join \in [(1 .. N) \X T -> T]
      BY <1>1, <1>2, <1>4
    <2> HIDE DEF N, T, last
    <2>2. \E f \in [1 .. N + 1 -> T] : FromEnd(f, N, last, join)
      BY <2>1, FromTheEnd
    <2> QED
      BY <2>2, Zenon DEF FromEnd, last
  <1>6. ASSUME NEW i \in D PROVE f[i] = go(i, f)
    <2>1. CASE i > N
      <3>1. i = N + 1
        BY <1>1, <2>1
      <3> QED
        BY <1>5, <2>1, <3>1
    <2>2. CASE ~(i > N)
      <3>1. i \in I /\ i + 1 \in D
        BY <1>1, <2>2
      <3>2. f[i + 1] \in T
        BY <1>5, <3>1
      <3>3. f[i] = step(i, f[i + 1])
        <4> HIDE DEF I, T, D, step
        <4> QED
          BY <1>4, <1>5, <3>1, <3>2
      <3> QED
        BY <2>2, <3>3, Zenon DEF Pick, Nowhere
    <2> QED
      BY <2>1, <2>2
  <1>7. IsPicking(segments, f)
    <2> DEFINE g == [i \in D |-> go(i, f)]
    <2>1. f = g
      <3>1. \A i \in D : f[i] = g[i]
        BY <1>6
      <3>2. f = [i \in D |-> f[i]] /\ g = [i \in D |-> g[i]]
        OBVIOUS
      <3> HIDE DEF g, D
      <3> QED
        BY <3>1, <3>2
    <2> QED
      BY <2>1, Zenon DEF IsPicking
  <1> DEFINE from == CHOOSE h : IsPicking(segments, h)
  <1>8. IsPicking(segments, from) /\ Significant(segments) = from[1]
    BY <1>7, Zenon DEF Significant, IsPicking
  <1> HIDE DEF from
  <1>9. \A i \in D : from[i] = go(i, from)
    <2>1. from = [i \in D |-> go(i, from)]
      BY <1>8, Zenon DEF IsPicking
    <2> HIDE DEF go, D
    <2> QED
      BY <2>1
  <1>10. ASSUME NEW i \in I PROVE from[i] = step(i, from[i + 1])
    <2>1. i \in D /\ ~(i > N)
      BY <1>1
    <2> QED
      BY <1>9, <2>1, Zenon DEF Pick, Nowhere
  <1>11. N + 1 \in D /\ from[N + 1] = <<>>
    <2>1. N + 1 \in D /\ N + 1 > N
      BY <1>1
    <2> QED
      BY <1>9, <2>1, Zenon
  <1> DEFINE S == {i \in D : from[i] \in T}
  <1>12. N + 1 \in S
    <2> HIDE DEF T
    <2> QED
      BY <1>2, <1>11
  <1>13. ASSUME NEW i \in I, i + 1 \in S PROVE i \in S
    <2>1. i \in D
      BY <1>1
    <2>2. step(i, from[i + 1]) \in T
      <3> HIDE DEF step, T
      <3> QED
        BY <1>3, <1>13
    <2> HIDE DEF T, step
    <2> QED
      BY <1>10, <2>1, <2>2
  <1>14. \A i \in D : i \in S
    <2> HIDE DEF S, N
    <2> QED
      BY <1>1, <1>12, <1>13, HoldsFromTheEnd
  <1>15. PicksFrom(segments, from)
    BY <1>10, <1>11, Zenon DEF PicksFrom
  <1> QED
    BY <1>8, <1>14, <1>15

\* Segments that lead somewhere are picked, and only these; of none but such all are.
LEMMA SignificantIn ==
    ASSUME NEW P, NEW segments \in Seq(P)
    PROVE  Significant(segments) \in Seq(P \ Nowhere)
  <1>1. PICK from : /\ Significant(segments) = from[1]
                    /\ \A i \in 1 .. Len(segments) + 1 : from[i] \in Seq(P \ Nowhere)
    BY PickingIs
  <1>2. 1 \in 1 .. Len(segments) + 1
    OBVIOUS
  <1> QED
    BY <1>1, <1>2

LEMMA SignificantAre ==
    ASSUME NEW P, P \cap Nowhere = {}, NEW segments \in Seq(P)
    PROVE  Significant(segments) = segments
  <1> DEFINE N == Len(segments)
             r(i) == SubSeq(segments, i, N)
  <1>1. PICK from : Significant(segments) = from[1] /\ PicksFrom(segments, from)
    BY PickingIs
  <1>2. N \in Nat /\ \A i \in 1 .. N : segments[i] \in P
    OBVIOUS
  <1>3. r(N + 1) = <<>> /\ r(1) = segments /\ \A i \in 1 .. N : r(i) = <<segments[i]>> \o r(i + 1)
    <2>1. \A i \in 1 .. N : r(i) = <<segments[i]>> \o r(i + 1)
      BY RestIs
    <2>2. r(N + 1) = <<>> /\ r(1) = segments
      OBVIOUS
    <2> QED
      BY <2>1, <2>2
  <1> HIDE DEF r
  <1> DEFINE S == {i \in 1 .. N + 1 : from[i] = r(i)}
  <1>4. N + 1 \in S
    BY <1>1, <1>2, <1>3 DEF PicksFrom
  <1>5. ASSUME NEW i \in 1 .. N, i + 1 \in S PROVE i \in S
    <2>1. from[i] = <<segments[i]>> \o from[i + 1]
      BY <1>1, <1>2 DEF PicksFrom, Pick
    <2>2. i \in 1 .. N + 1 /\ from[i + 1] = r(i + 1)
      BY <1>5
    <2> HIDE DEF N
    <2> QED
      BY <1>3, <2>1, <2>2
  <1>6. \A i \in 1 .. N + 1 : i \in S
    <2> HIDE DEF S, N
    <2> QED
      BY <1>2, <1>4, <1>5, HoldsFromTheEnd
  <1>7. 1 \in 1 .. N + 1
    BY <1>2
  <1> QED
    BY <1>1, <1>3, <1>6, <1>7

\* The slash may be in the path of a script.
LEMMA SlashIsAllowed == "/" \notin Forbidden
  BY Zenon DEF Forbidden, Escape

\* A path that is not refused is made of the segments kept of it, which none of
\* the tests refuses; it is split into these again; and the tests, made of it
\* once more, find only a `~` it may now begin with.
LEMMA NormalIs ==
    ASSUME NEW X, NEW text \in Seq(X), NormalizeScriptPath(text) # Refused
    PROVE  LET n == NormalizeScriptPath(text)
           IN  /\ n = Joined(Significant(Split(text)), <<"/">>)
               /\ Split(n) = Significant(Split(text))
               /\ NormalizeScriptPath(n) = IF n[1] = "~" THEN Refused ELSE n
  <1> DEFINE Y == (X \ Forbidden) \cup {"/"}
             kept == Significant(Split(text))
             n == NormalizeScriptPath(text)
             bad(s) == \E i \in DOMAIN s : s[i] \in Forbidden
             up == \E i \in DOMAIN kept : kept[i] = Up
  <1>1. /\ ~bad(text) /\ kept # <<>> /\ ~up
        /\ n = Joined(kept, <<"/">>)
    BY Zenon DEF NormalizeScriptPath
  <1>2. text \in Seq(X \ Forbidden)
    <2>1. \A i \in 1 .. Len(text) : text[i] \in X \ Forbidden
      BY <1>1
    <2> QED
      BY <2>1
  <1>3. "/" \in Y /\ \A c \in Y : c \notin Forbidden
    BY SlashIsAllowed
  <1>4. Split(text) \in Seq(Unslashed(Y))
    <2>1. text \in Seq(Y)
      BY <1>2
    <2> HIDE DEF Y
    <2> QED
      BY <2>1, SplitIn DEF Splits
  <1> HIDE DEF Y
  <1>5. kept \in Seq(Unslashed(Y) \ Nowhere)
    BY <1>4, SignificantIn
  <1> HIDE DEF kept
  <1>6. kept \in Splits(Y)
    <2> DEFINE A == Unslashed(Y)
    <2>1. kept \in Seq(A \ Nowhere)
      BY <1>5
    <2> HIDE DEF A
    <2>2. kept \in Seq(A)
      BY <2>1
    <2> QED
      BY <1>1, <2>2 DEF A, Splits
  <1>7. n \in Seq(Y) /\ Split(n) = kept
    BY <1>1, <1>3, <1>6, JoinedSplits
  <1> HIDE DEF n
  <1>8. Significant(Split(n)) = kept
    <2> DEFINE A == Unslashed(Y) \ Nowhere
    <2>1. kept \in Seq(A) /\ A \cap Nowhere = {}
      BY <1>5
    <2> HIDE DEF A
    <2> QED
      BY <1>7, <2>1, SignificantAre
  <1>9. kept[1] \notin Nowhere
    <2> DEFINE A == Unslashed(Y) \ Nowhere
    <2>1. kept \in Seq(A)
      BY <1>5
    <2> HIDE DEF A
    <2>2. kept[1] \in A
      BY <1>1, <2>1
    <2> QED
      BY <2>2 DEF A
  <1>10. n # <<>>
    <2>1. n = <<>> => kept[1] = <<>>
      BY <1>7, SplitOfNothing
    <2> QED
      BY <1>9, <2>1 DEF Nowhere
  <1>11. n[1] # "/"
    <2> SUFFICES ASSUME n[1] = "/" PROVE FALSE
      OBVIOUS
    <2> DEFINE s == SubSeq(n, 2, Len(n))
               p == Split(s)
    <2>1. n = <<"/">> \o s /\ s \in Seq(Y)
      <3>1. 1 \in 1 .. Len(n) /\ SubSeq(n, 1, Len(n)) = n /\ s \in Seq(Y) /\ 1 + 1 = 2
        BY <1>7, <1>10
      <3>2. SubSeq(n, 1, Len(n)) = <<n[1]>> \o SubSeq(n, 1 + 1, Len(n))
        BY <1>7, <3>1, RestIs
      <3> QED
        BY <3>1, <3>2
    <2> HIDE DEF s
    <2>2. Split(n) = <<<<>>>> \o p
      <3>1. Split(n) = Before("/", p)
        BY <1>3, <2>1, SplitUnfolds
      <3> QED
        BY <3>1, Zenon DEF Before
    <2>3. p \in Seq(Unslashed(Y)) /\ <<>> \in Unslashed(Y)
      <3>1. p \in Splits(Y)
        BY <2>1, SplitIn
      <3>2. p \in Seq(Unslashed(Y))
        BY <3>1 DEF Splits
      <3>3. <<>> \in Unslashed(Y)
        BY DEF Unslashed
      <3> QED
        BY <3>2, <3>3
    <2> HIDE DEF p
    <2>4. (<<<<>>>> \o p)[1] = <<>>
      <3> DEFINE e == <<>>
                 A == Unslashed(Y)
      <3>1. e \in A /\ p \in Seq(A)
        BY <2>3
      <3> HIDE DEF e, A
      <3>2. (<<e>> \o p)[1] = e
        BY <3>1
      <3> QED
        BY <3>2 DEF e
    <2> QED
      BY <1>7, <1>9, <2>2, <2>4 DEF Nowhere
  <1>12. ~bad(n)
    <2>1. \A i \in DOMAIN n : n[i] \in Y
      BY <1>7
    <2> QED
      BY <1>3, <2>1
  <1>13. NormalizeScriptPath(n) = IF n[1] = "~" THEN Refused ELSE Joined(kept, <<"/">>)
    <2>1. n[1] \in {"/", "~"} <=> n[1] = "~"
      BY <1>11
    <2> QED
      BY <1>1, <1>8, <1>10, <1>12, <2>1, Zenon DEF NormalizeScriptPath
  <1> QED
    BY <1>1, <1>7, <1>13, Zenon DEF kept, n

ScriptInput(Symbols) == [kind : {"script"}, text : Seq(Symbols), asked : Seq(Symbols)]

\* For paths of any length, of any characters: the entry of the allowlist and the
\* path that is asked for are the same if and only if the same segments are kept
\* of them, and what the client has normalized is for the server what it was for
\* the client, or begins with `~` and is refused.
THEOREM ScriptsMatchBySegmentsCorrect ==
    ASSUME NEW Symbols, input \in ScriptInput(Symbols)
    PROVE  ScriptsMatchBySegments
  <1> DEFINE listed == NormalizeScriptPath(input.text)
             sent == NormalizeScriptPath(input.asked)
  <1>1. input.text \in Seq(Symbols) /\ input.asked \in Seq(Symbols)
    BY DEF ScriptInput
  <1>2. ASSUME listed # Refused, sent # Refused
        PROVE  /\ sent = listed <=> Significant(Split(input.asked)) = Significant(Split(input.text))
               /\ NormalizeScriptPath(sent) = IF sent[1] = "~" THEN Refused ELSE sent
    <2>1. /\ sent = Joined(Significant(Split(input.asked)), <<"/">>)
          /\ Split(sent) = Significant(Split(input.asked))
          /\ NormalizeScriptPath(sent) = IF sent[1] = "~" THEN Refused ELSE sent
      BY <1>1, <1>2, NormalIs
    <2>2. /\ listed = Joined(Significant(Split(input.text)), <<"/">>)
          /\ Split(listed) = Significant(Split(input.text))
      BY <1>1, <1>2, NormalIs
    <2> HIDE DEF listed, sent
    <2> QED
      BY <2>1, <2>2, Zenon
  <1> QED
    BY <1>2, Zenon DEF ScriptsMatchBySegments
=============================================================================

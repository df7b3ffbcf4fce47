---------------------------- MODULE Uploads_proofs ----------------------------
(***************************************************************************)
(* Deploys in place: what they delete and leave, for any rules, trees,     *)
(* files of the server and preserve ages (how patterns match is never      *)
(* unfolded).  And files in parts: for any length, chunk size and number   *)
(* of attempts, the parts make the file.                                   *)
(***************************************************************************)
EXTENDS MirroredDirectory, MultipartUpload, Induction, SequenceTheorems

\* The scan of finishUploads passes the path over.
Spared(p) == ~Scanned(WithPreserved(deploy.rules, deploy.preserve), p)

PreserveRules(preserve) ==
    {[type |-> "ignore-destination", pattern |-> q] : q \in preserve.patterns}

\* While deleting: what ships is there, what was reported may go, and the rest
\* of the directory is spared, failed to go, or is new.
DeletingInv ==
    phase = "deleting" =>
        /\ Shipped \subseteq dest
        /\ \A p \in scan : p \notin Shipped /\ ~Spared(p)
        /\ \A p \in dest \ Shipped : Spared(p) \/ p \in pending \cup failed \cup written

MirrorInv ==
    /\ MirrorTypeOK
    /\ phase = "uploading" => Shipped \subseteq dest \cup owed
    /\ DeletingInv
    /\ DirectoryMirrorsSource

-----------------------------------------------------------------------------
\* The walk of the destination comes to exactly what no rule keeps.
LEMMA ScannedOrOwned ==
    ASSUME NEW rules, NEW p
    PROVE  Scanned(rules, p) <=> ~Owned(rules, p)
BY DEF Scanned, Owned, AnyMatches

\* With the preserve patterns, a path is kept by a rule or by a pattern.
LEMMA OwnedWithPreserved ==
    ASSUME NEW rules, NEW preserve, NEW p
    PROVE  Owned(WithPreserved(rules, preserve), p)
               <=> Owned(rules, p) \/ Owned(PreserveRules(preserve), p)
BY DEF Owned, WithPreserved, PreserveRules

\* A file is spared for a rule of its own or a preserve rule.
LEMMA SparedOrNot ==
    ASSUME NEW p
    PROVE  Spared(p) <=> Owned(deploy.rules, p) \/ Owned(PreserveRules(deploy.preserve), p)
BY ScannedOrOwned, OwnedWithPreserved DEF Spared

\* What a preserve rule keeps is not past its age.
LEMMA KeptMeans ==
    ASSUME NEW p
    PROVE  Kept(p) <=> /\ Owned(PreserveRules(deploy.preserve), p)
                       /\ \A limit \in deploy.preserve.maxAge : age[p] <= limit \/ age[p] = 0
BY DEF Kept, PreserveRules

\* What ships are paths.
LEMMA FileListIsPaths ==
    ASSUME NEW d \in Deploys
    PROVE  FileList(d.tree, d.rules) \subseteq Paths
BY DEF FileList, Walked, Paths

\* What is stale may go: no rule keeps it, it does not ship, and it is old.
LEMMA StaleMayGo ==
    ASSUME MirrorTypeOK, NEW limit \in deploy.preserve.maxAge,
           NEW p \in Stale(dest, Shipped, deploy.rules, scan, Old(limit))
    PROVE  p \in dest /\ ~Owned(deploy.rules, p) /\ p \notin Shipped /\ ~Kept(p)
<1>1. /\ p \in dest /\ p \notin Shipped /\ Scanned(deploy.rules, p)
      /\ p \in Old(limit)
  BY DEF Stale, Leftovers
<1>2. deploy \in Deploys
  BY DEF MirrorTypeOK, Idle
<1>3. limit \in Int /\ age[p] \in Nat
  BY <1>1, <1>2, MirrorAssumption DEF DeployType, MirrorTypeOK
<1>4. ~(age[p] <= limit \/ age[p] = 0)
  BY <1>1, <1>3 DEF Old
<1>. QED
  BY <1>1, <1>4, ScannedOrOwned, KeptMeans

\* And what is neither stale nor kept by a rule is young enough to stay.
LEMMA NotStaleIsKept ==
    ASSUME MirrorTypeOK, NEW limit \in deploy.preserve.maxAge,
           NEW p \in dest, p \notin Shipped, p \notin scan, ~Owned(deploy.rules, p),
           Owned(PreserveRules(deploy.preserve), p),
           p \notin Stale(dest, Shipped, deploy.rules, scan, Old(limit))
    PROVE  Kept(p)
<1>1. p \notin Old(limit)
  BY ScannedOrOwned DEF Stale, Leftovers
<1>2. deploy \in Deploys
  BY DEF MirrorTypeOK, Idle
<1>3. /\ limit \in Int /\ age[p] \in Nat
      /\ \A m \in deploy.preserve.maxAge : m = limit
  BY <1>2, MirrorAssumption DEF DeployType, MirrorTypeOK
<1>4. age[p] <= limit \/ age[p] = 0
  BY <1>1, <1>3 DEF Old
<1>. QED
  BY <1>3, <1>4, KeptMeans

-----------------------------------------------------------------------------
\* The invariant holds at the start,
LEMMA MirrorInitially == MirrorInit => MirrorInv
BY MirrorAssumption DEF MirrorInit, MirrorInv, MirrorTypeOK, DeletingInv, DirectoryMirrorsSource

\* and every step keeps it.
LEMMA MirrorStep == MirrorInv /\ [MirrorNext]_mirrorVars => MirrorInv'
<1>. SUFFICES ASSUME MirrorInv, [MirrorNext]_mirrorVars PROVE MirrorInv'
  OBVIOUS
<1>. USE DEF MirrorInv
<1>1. ASSUME NEW d \in Deploys, StartDeploy(d) PROVE MirrorInv'
  <2>1. Shipped' = FileList(d.tree, d.rules)
    BY <1>1 DEF StartDeploy, Shipped
  <2>2. owed' \subseteq Paths /\ Shipped' \subseteq dest' \cup owed'
    BY <1>1, <2>1, FileListIsPaths DEF StartDeploy
  <2>3. MirrorTypeOK'
    BY <1>1, <2>2 DEF StartDeploy, MirrorTypeOK
  <2>. QED
    BY <1>1, <2>2, <2>3 DEF StartDeploy, DeletingInv, DirectoryMirrorsSource
<1>2. ASSUME NEW p \in Paths, Upload(p) PROVE MirrorInv'
  <2>1. Shipped' = Shipped
    BY <1>2 DEF Upload, Shipped
  <2>2. MirrorTypeOK'
    BY <1>2, MirrorAssumption DEF Upload, MirrorTypeOK
  <2>. QED
    BY <1>2, <2>1, <2>2 DEF Upload, DeletingInv, DirectoryMirrorsSource
<1>3. ASSUME NEW p \in Paths, Delete(p) PROVE MirrorInv'
  <2>1. Shipped' = Shipped /\ \A q : Spared(q)' <=> Spared(q)
    BY <1>3 DEF Delete, Shipped, Spared
  <2>2. MirrorTypeOK'
    BY <1>3 DEF Delete, MirrorTypeOK
  <2>3. p \notin Shipped
    BY <1>3 DEF Delete, DeletingInv, MirrorTypeOK
  <2>. QED
    BY <1>3, <2>1, <2>2, <2>3 DEF Delete, DeletingInv, DirectoryMirrorsSource
<1>4. CASE Scan
  <2>1. Shipped' = Shipped /\ \A q : Spared(q)' <=> Spared(q)
    BY <1>4 DEF Scan, Shipped, Spared
  <2>2. scan' = {p \in dest : p \notin Shipped /\ ~Spared(p)}
    BY <1>4 DEF Scan, Leftovers, Spared
  <2>3. MirrorTypeOK'
    BY <1>4, <2>2 DEF Scan, MirrorTypeOK
  <2>. QED
    BY <1>4, <2>1, <2>2, <2>3 DEF Scan, DeletingInv, DirectoryMirrorsSource
<1>5. CASE Prune
  <2>1. Shipped' = Shipped
    BY <1>5 DEF Prune, Shipped
  <2>2. ASSUME NEW p \in dest, p \notin dest' PROVE p \notin Shipped
    BY <1>5, <2>2, StaleMayGo DEF Prune
  <2>3. MirrorTypeOK'
    <3>1. dest' \subseteq dest /\ failed' \subseteq failed \cup dest
      BY <1>5, StaleMayGo DEF Prune
    <3>. QED
      BY <1>5, <3>1 DEF Prune, MirrorTypeOK
  <2>4. ASSUME NEW p \in dest', p \notin Shipped
        PROVE  Owned(deploy.rules, p) \/ Kept(p) \/ p \in written \cup failed'
    <3>1. SUFFICES ASSUME ~Owned(deploy.rules, p), p \notin written \cup failed' PROVE Kept(p)
      OBVIOUS
    <3>2. p \in dest /\ p \notin failed /\ p \notin pending
      BY <1>5, <3>1, <2>4 DEF Prune
    <3>3. Spared(p) /\ p \notin scan
      BY <1>5, <2>4, <3>1, <3>2 DEF Prune, DeletingInv
    <3>4. Owned(PreserveRules(deploy.preserve), p)
      BY <3>1, <3>3, SparedOrNot
    <3>5. deploy.preserve.patterns # {}
      BY <3>4 DEF PreserveRules, Owned
    <3>6. CASE deploy.preserve.maxAge = {}
      BY <3>4, <3>6, KeptMeans
    <3>7. CASE deploy.preserve.maxAge # {}
      <4>1. PICK limit \in deploy.preserve.maxAge :
               p \notin Stale(dest, Shipped, deploy.rules, scan, Old(limit))
        BY <1>5, <2>4, <3>1, <3>5, <3>7 DEF Prune
      <4>. QED
        BY <2>4, <3>1, <3>2, <3>3, <3>4, <4>1, NotStaleIsKept
    <3>. QED
      BY <3>6, <3>7
  <2>5. /\ deploy' = deploy /\ age' = age /\ written' = written
        /\ phase = "deleting" /\ phase' = "done"
    BY <1>5 DEF Prune
  <2>6. \A p : Kept(p)' <=> Kept(p)
    BY <2>5 DEF Kept
  <2>7. DirectoryMirrorsSource'
    BY <2>1, <2>2, <2>4, <2>5, <2>6 DEF DirectoryMirrorsSource, DeletingInv
  <2>. QED
    BY <2>3, <2>5, <2>7 DEF DeletingInv
<1>6. CASE TimePasses
  <2>1. Shipped' = Shipped /\ \A q : Spared(q)' <=> Spared(q)
    BY <1>6 DEF TimePasses, Shipped, Spared
  <2>2. age' \in [Paths -> 0 .. Oldest]
    BY <1>6, MirrorAssumption DEF TimePasses, MirrorTypeOK
  <2>3. MirrorTypeOK'
    BY <1>6, <2>2 DEF TimePasses, MirrorTypeOK
  <2>. QED
    BY <1>6, <2>1, <2>3 DEF TimePasses, DeletingInv, DirectoryMirrorsSource
<1>7. CASE DeployEnds
  BY <1>7 DEF DeployEnds, MirrorTypeOK, DeletingInv, DirectoryMirrorsSource
<1>8. ASSUME NEW p \in ServerFiles, ServerWrites(p) PROVE MirrorInv'
  <2>1. Shipped' = Shipped /\ \A q : Spared(q)' <=> Spared(q)
    BY <1>8 DEF ServerWrites, Shipped, Spared
  <2>2. MirrorTypeOK'
    BY <1>8, MirrorAssumption DEF ServerWrites, MirrorTypeOK, Paths
  <2>. QED
    BY <1>8, <2>1, <2>2 DEF ServerWrites, DeletingInv, DirectoryMirrorsSource
<1>9. CASE UNCHANGED mirrorVars
  <2>1. Shipped' = Shipped /\ (\A q : Spared(q)' <=> Spared(q)) /\ \A q : Kept(q)' <=> Kept(q)
    BY <1>9 DEF mirrorVars, Shipped, Spared, Kept
  <2>. QED
    BY <1>9, <2>1 DEF mirrorVars, MirrorTypeOK, DeletingInv, DirectoryMirrorsSource
<1>. QED
  BY <1>1, <1>2, <1>3, <1>4, <1>5, <1>6, <1>7, <1>8, <1>9 DEF MirrorNext

\* A step takes nothing that is kept: only Delete and Prune take files away.
LEMMA StepTakesNothingKept ==
    MirrorInv /\ [MirrorNext]_mirrorVars => [NothingKeptIsDeleted]_mirrorVars
<1>. SUFFICES ASSUME MirrorInv, [MirrorNext]_mirrorVars, NEW p \in dest, p \notin dest'
              PROVE  ~Owned(deploy.rules, p) /\ p \notin Shipped /\ ~Kept(p)
  BY DEF NothingKeptIsDeleted
<1>1. CASE Delete(p)
  <2>1. p \in scan /\ phase = "deleting"
    BY <1>1 DEF Delete, MirrorInv, MirrorTypeOK
  <2>2. p \notin Shipped /\ ~Spared(p)
    BY <2>1 DEF MirrorInv, DeletingInv
  <2>. QED
    BY <2>2, SparedOrNot, KeptMeans
<1>2. CASE Prune
  <2>1. PICK limit \in deploy.preserve.maxAge :
           p \in Stale(dest, Shipped, deploy.rules, scan, Old(limit))
    BY <1>2 DEF Prune
  <2>. QED
    BY <2>1, StaleMayGo DEF MirrorInv
<1>3. Prune \/ \E q \in Paths : Delete(q)
  BY DEF MirrorNext, mirrorVars, StartDeploy, Upload, Scan, TimePasses, DeployEnds, ServerWrites
<1>. QED
  BY <1>1, <1>2, <1>3 DEF Delete

\* The variables keep their types (uploads.rs, preserve.rs).
THEOREM MirrorTypeCorrect == MirrorSpec => []MirrorTypeOK
<1>1. MirrorInv => MirrorTypeOK
  BY DEF MirrorInv
<1>. QED
  BY <1>1, MirrorInitially, MirrorStep, PTL DEF MirrorSpec

\* When finishUploads answers, the directory holds what ships, what the rules
\* keep, and otherwise only failures and later writes.
THEOREM MirrorCorrect == MirrorSpec => []DirectoryMirrorsSource
<1>1. MirrorInv => DirectoryMirrorsSource
  BY DEF MirrorInv
<1>. QED
  BY <1>1, MirrorInitially, MirrorStep, PTL DEF MirrorSpec

\* No deploy, complete or cut short, deletes a file its rules keep, a file it
\* ships, or a preserved file younger than promised.
THEOREM OnlyLeftoversGoCorrect == MirrorSpec => OnlyLeftoversGo
BY MirrorInitially, MirrorStep, StepTakesNothingKept, PTL DEF MirrorSpec, OnlyLeftoversGo

-----------------------------------------------------------------------------
(* Sorting. *)

\* Every sequence of numbers can be put in order.
LEMMA OrderExists ==
    ASSUME NEW n \in Nat, NEW s \in [1 .. n -> Nat]
    PROVE  \E p \in Bijection(1 .. n, 1 .. n) :
               \A i, j \in 1 .. n : i < j => s[p[i]] <= s[p[j]]
  <1> DEFINE Begun(p, k) == \A i \in 1 .. k, j \in 1 .. n : i < j => s[p[i]] <= s[p[j]]
             S == {k \in 0 .. n : \E p \in Bijection(1 .. n, 1 .. n) : Begun(p, k)}
  <1>1. 0 \in S
    <2>1. [i \in 1 .. n |-> i] \in Bijection(1 .. n, 1 .. n)
      BY DEF Bijection, Injection, Surjection, IsInjective
    <2> QED
      BY <2>1
  <1>2. ASSUME NEW k \in 0 .. n - 1, k \in S PROVE k + 1 \in S
    <2>0. k \in Nat /\ k < n /\ k + 1 \in 1 .. n /\ k + 1 \in 0 .. n
      OBVIOUS
    <2>1. PICK p \in Bijection(1 .. n, 1 .. n) : Begun(p, k)
      BY <1>2
    <2>2. /\ p \in [1 .. n -> 1 .. n] /\ \A i, j \in 1 .. n : p[i] = p[j] => i = j
          /\ \A i \in 1 .. n : \E j \in 1 .. n : p[j] = i
      BY DEF Bijection, Injection, Surjection, IsInjective
    <2>3. PICK m \in k + 1 .. n : \A j \in k + 1 .. n : s[p[m]] <= s[p[j]]
      <3> DEFINE V == {s[p[j]] : j \in k + 1 .. n}
      <3>1. V \subseteq Nat
        <4> SUFFICES ASSUME NEW j \in k + 1 .. n PROVE s[p[j]] \in Nat
          OBVIOUS
        <4>1. j \in 1 .. n
          BY <2>0
        <4>2. p[j] \in 1 .. n
          BY <4>1, <2>2
        <4> QED
          BY <4>2
      <3>2. V # {}
        <4>1. k + 1 \in k + 1 .. n
          BY <2>0
        <4> QED
          BY <4>1
      <3>3. PICK v \in V : \A w \in V : v <= w
        <4> HIDE DEF V
        <4> QED
          BY <3>1, <3>2, LeastElement
      <3> QED
        BY <3>3
    <2>4. m \in 1 .. n /\ k + 1 <= m
      BY <2>0
    <2> DEFINE swap == [i \in 1 .. n |-> IF i = k + 1 THEN m ELSE IF i = m THEN k + 1 ELSE i]
               q == [i \in 1 .. n |-> p[swap[i]]]
    <2>5. /\ swap \in [1 .. n -> 1 .. n] /\ \A i \in 1 .. n : swap[swap[i]] = i
          /\ \A i \in 1 .. n : i <= k => swap[i] = i
          /\ \A i \in 1 .. n : k < i => k < swap[i]
          /\ swap[k + 1] = m
      BY <2>0, <2>4
    <2> HIDE DEF swap
    <2>6. q \in [1 .. n -> 1 .. n] /\ \A i \in 1 .. n : q[i] = p[swap[i]]
      BY <2>2, <2>5
    <2> HIDE DEF q
    <2>7. \A i, j \in 1 .. n : q[i] = q[j] => i = j
      <3> SUFFICES ASSUME NEW i \in 1 .. n, NEW j \in 1 .. n, q[i] = q[j] PROVE i = j
        OBVIOUS
      <3>1. swap[i] \in 1 .. n /\ swap[j] \in 1 .. n /\ p[swap[i]] = p[swap[j]]
        BY <2>5, <2>6
      <3>2. swap[i] = swap[j]
        <4>1. \A x, y \in 1 .. n : p[x] = p[y] => x = y
          BY <2>2
        <4> QED
          BY <3>1, <4>1
      <3> QED
        BY <2>5, <3>2
    <2>8. \A i \in 1 .. n : \E j \in 1 .. n : q[j] = i
      <3> TAKE i \in 1 .. n
      <3>1. PICK j \in 1 .. n : p[j] = i
        BY <2>2
      <3>2. swap[j] \in 1 .. n /\ q[swap[j]] = i
        BY <2>5, <2>6, <3>1
      <3> QED
        BY <3>2
    <2>9. q \in Bijection(1 .. n, 1 .. n)
      <3>1. q \in [1 .. n -> 1 .. n]
        BY <2>6
      <3>2. q \in Injection(1 .. n, 1 .. n)
        BY <2>7, <3>1 DEF Injection, IsInjective
      <3>3. q \in Surjection(1 .. n, 1 .. n)
        BY <2>8, <3>1 DEF Surjection
      <3> QED
        BY <3>2, <3>3 DEF Bijection
    <2>10. ASSUME NEW i \in 1 .. k + 1, NEW j \in 1 .. n, i < j PROVE s[q[i]] <= s[q[j]]
      <3>1. i \in 1 .. n /\ swap[j] \in 1 .. n /\ swap[i] \in 1 .. n
        <4>1. i \in 1 .. n
          BY <2>0
        <4>2. \A l \in 1 .. n : swap[l] \in 1 .. n
          BY <2>5, Zenon
        <4> QED
          BY <4>1, <4>2
      <3>2. CASE i <= k
        <4>1. swap[i] = i /\ i \in 1 .. k
          BY <2>5, <3>1, <3>2
        <4>2. i < swap[j]
          <5>1. j <= k => swap[j] = j
            BY <2>5
          <5>2. k < j => k < swap[j]
            BY <2>5
          <5> QED
            BY <2>0, <2>10, <3>1, <3>2, <5>1, <5>2
        <4> QED
          BY <2>1, <2>6, <3>1, <4>1, <4>2
      <3>3. CASE i = k + 1
        <4>1. swap[i] = m /\ swap[j] \in k + 1 .. n
          BY <2>0, <2>5, <2>10, <3>1, <3>3
        <4> QED
          BY <2>3, <2>6, <3>1, <4>1
      <3> QED
        BY <2>0, <3>2, <3>3
    <2> QED
      BY <2>0, <2>9, <2>10
  <1>3. n \in S
    <2>1. \A k \in 0 .. n - 1 : k \in S => k + 1 \in S
      BY <1>2
    <2>2. n \in 0 .. n
      OBVIOUS
    <2> HIDE DEF S
    <2> QED
      BY <1>1, <2>1, <2>2, UpTo
  <1> QED
    BY <1>3

\* InOrder gives the elements of a sequence in order.
LEMMA InOrderSorts ==
    ASSUME NEW s \in Seq(Nat)
    PROVE  /\ Len(InOrder(s)) = Len(s) /\ Ascends(InOrder(s))
           /\ \E p \in Bijection(DOMAIN s, DOMAIN s) : InOrder(s) = Arranged(s, p)
  <1>1. DOMAIN s = 1 .. Len(s) /\ s \in [1 .. Len(s) -> Nat] /\ Len(s) \in Nat
    OBVIOUS
  <1>2. PICK p \in Bijection(1 .. Len(s), 1 .. Len(s)) :
            \A i, j \in 1 .. Len(s) : i < j => s[p[i]] <= s[p[j]]
    BY <1>1, OrderExists
  <1>3. Ascends(Arranged(s, p))
    BY <1>1, <1>2 DEF Ascends, Arranged
  <1> DEFINE q == CHOOSE order \in Bijection(DOMAIN s, DOMAIN s) : Ascends(Arranged(s, order))
  <1>4. q \in Bijection(DOMAIN s, DOMAIN s) /\ Ascends(Arranged(s, q))
    BY <1>1, <1>2, <1>3
  <1>5. InOrder(s) = Arranged(s, q)
    BY DEF InOrder
  <1> HIDE DEF q
  <1>6. Len(Arranged(s, q)) = Len(s)
    BY <1>1 DEF Arranged
  <1> QED
    BY <1>4, <1>5, <1>6

-----------------------------------------------------------------------------
(* The invariant: who may be at work, and what the parts add up to, as long *)
(* as no upload runs into the calls of another.                             *)

Begun == client # "idle" => attempt \in Attempts

\* One handler at most finishes, for the current attempt, after all its parts.
OneFinish ==
    /\ \A a \in Attempts : finish[a].at # "none" =>
          a = attempt /\ inFlight = {} /\ client \in {"idle", "finishing"}
    /\ client = "finishing" => finish[attempt].at # "none"
    /\ inFlight \subseteq {attempt} \X ChunkStarts(Length)
    /\ client = "done" => rows = <<>> /\ inFlight = {}
    /\ \A a \in Attempts : finish[a].at = "stored" => rows = <<>>

\* No part twice.
Once(s) == \A i, j \in DOMAIN s : s[i] = s[j] => i = j
Stored  == Range(rows)
Starts(parts) == {p[2] : p \in parts}
Sent    == Starts(inFlight)

\* The parts from an offset on, in order.
From(n, chunks) ==
    /\ \A i, j \in DOMAIN chunks : i < j => chunks[i] < chunks[j]
    /\ Range(chunks) = {s \in ChunkStarts(Length) : n <= s}

\* Where a part starts, or the end.
Boundary == ChunkStarts(Length) \cup {Length}

\* Where the part after the one that starts at n does, or the end.
After(n) == IF n + ChunkSize < Length THEN n + ChunkSize ELSE Length

\* The parts from an offset on, in order, some of them repeatedly; the one before
\* the offset may come again too.
Onward(n, chunks) ==
    /\ Ascends(chunks)
    /\ \A s \in ChunkStarts(Length) : n <= s => s \in Range(chunks)
    /\ \A s \in Range(chunks) : n <= After(s)

\* All bytes up to an offset are written, parts repeatedly.
WrittenTo(n, f) ==
    /\ f \in Seq(Nat)
    /\ \/ n = 0 /\ f = <<>>
       \/ n > 0 /\ f # <<>> /\ f[1] = 0 /\ Stepwise(f) /\ f[Len(f)] = n - 1

\* While the client sends, no part is lost, and without leftovers each is at one place.
EachPartOnce ==
    client = "parts" =>
        /\ unsent \cup Sent \cup Stored = ChunkStarts(Length)
        /\ ~leftover =>
              /\ Once(rows)
              /\ unsent \cap Sent = {} /\ unsent \cap Stored = {} /\ Sent \cap Stored = {}

\* What a finish handler at each of its steps can rely on,
FinishMakesTheFile(a) ==
    /\ finish[a].at = "sent" => Once(rows) /\ Stored = ChunkStarts(Length)
    /\ finish[a].at = "read" => From(0, finish[a].chunks)
    /\ finish[a].at = "write" /\ ~stuck =>
          \E n \in Boundary : file = SubSeq(Content, 1, n) /\ From(n, finish[a].chunks)
    /\ finish[a].at = "stored" /\ ~stuck => file = Content

\* and what it can when there were leftovers.
FinishWritesEveryByte(a) ==
    /\ finish[a].at = "sent" => Stored = ChunkStarts(Length)
    /\ finish[a].at = "read" => Onward(0, finish[a].chunks)
    /\ finish[a].at = "write" /\ ~stuck =>
          \E n \in Boundary : WrittenTo(n, file) /\ Onward(n, finish[a].chunks)
    /\ finish[a].at = "stored" /\ ~stuck => EveryByte(file)

\* When the file is known to be whole.
WholeUnlessNeeded ==
    /\ client = "parts" \/ (\E a \in Attempts : finish[a].at # "none") => needed
    /\ ~needed /\ ~stuck => EveryByte(file) /\ (leftover \/ file = Content)

PartsContents ==
    /\ EachPartOnce
    /\ \A a \in Attempts : FinishWritesEveryByte(a) /\ (leftover \/ FinishMakesTheFile(a))
    /\ WholeUnlessNeeded

PartsInv ==
    /\ PartsTypeOK /\ Begun
    /\ ~overlapped => OneFinish
    /\ ~overlapped /\ ~trimmed => PartsContents


-----------------------------------------------------------------------------
\* Parts start at numbers.
LEMMA StartsAreNumbers ==
    /\ ChunkStarts(Length) \subseteq Nat
    /\ \A s \in ChunkStarts(Length) : s < Length /\ s % ChunkSize = 0
  BY PartsAssumption DEF ChunkStarts

\* Putting parts in order makes no new ones.
LEMMA InOrderTyped ==
    ASSUME NEW s \in Seq(ChunkStarts(Length))
    PROVE  InOrder(s) \in Seq(ChunkStarts(Length))
  <1>1. s \in Seq(Nat)
    BY StartsAreNumbers, SeqDef
  <1>2. PICK p \in Bijection(DOMAIN s, DOMAIN s) : InOrder(s) = Arranged(s, p)
    BY <1>1, InOrderSorts
  <1>3. p \in [DOMAIN s -> DOMAIN s]
    BY DEF Bijection, Injection
  <1>4. InOrder(s) \in [1 .. Len(s) -> ChunkStarts(Length)]
    BY <1>2, <1>3 DEF Arranged
  <1> QED
    BY <1>4, SeqDef

\* Typing is kept by every step.
LEMMA PartsTypeStep ==
    PartsTypeOK /\ Begun /\ [PartsNext]_partsVars => PartsTypeOK' /\ Begun'
  <1> SUFFICES ASSUME PartsTypeOK, Begun, [PartsNext]_partsVars PROVE PartsTypeOK' /\ Begun'
    OBVIOUS
  <1> USE PartsAssumption DEF PartsTypeOK, Begun, Attempts, disturbances
  <1>1. CASE StartUpload
    BY <1>1 DEF StartUpload
  <1>2. ASSUME NEW s \in ChunkStarts(Length), SendPart(s) PROVE PartsTypeOK' /\ Begun'
    BY <1>2 DEF SendPart
  <1>3. ASSUME NEW p \in inFlight, StorePart(p) PROVE PartsTypeOK' /\ Begun'
    <2>1. p[2] \in ChunkStarts(Length)
      OBVIOUS
    <2>2. Append(rows, p[2]) \in Seq(ChunkStarts(Length))
      BY <2>1
    <2> QED
      BY <1>3, <2>2 DEF StorePart
  <1>4. CASE SendFinish
    BY <1>4 DEF SendFinish
  <1>5. ASSUME NEW a \in Attempts, ReadRows(a) PROVE PartsTypeOK' /\ Begun'
    BY <1>5, InOrderTyped DEF ReadRows
  <1>6. ASSUME NEW a \in Attempts, Truncate(a) PROVE PartsTypeOK' /\ Begun'
    BY <1>6 DEF Truncate
  <1>7. ASSUME NEW a \in Attempts, AppendChunk(a) PROVE PartsTypeOK' /\ Begun'
    <2>1. Tail(finish[a].chunks) \in Seq(ChunkStarts(Length))
      BY <1>7 DEF AppendChunk
    <2> QED
      BY <1>7, <2>1 DEF AppendChunk
  <1>8. ASSUME NEW a \in Attempts, DeleteRows(a) PROVE PartsTypeOK' /\ Begun'
    BY <1>8 DEF DeleteRows
  <1>9. ASSUME NEW a \in Attempts, DeleteNeeded(a) PROVE PartsTypeOK' /\ Begun'
    <2>1. NoFinish \in [at : {"none", "sent", "read", "write", "stored"},
                         chunks : Seq(ChunkStarts(Length))]
      BY DEF NoFinish
    <2> QED
      BY <1>9, <2>1 DEF DeleteNeeded
  <1>10. CASE GiveUp
    BY <1>10 DEF GiveUp
  <1>11. CASE ServerCrashes
    BY <1>11 DEF ServerCrashes, NoFinish
  <1>12. CASE CleanUp
    <2>1. <<>> \in Seq(ChunkStarts(Length))
      OBVIOUS
    <2> QED
      BY <1>12, <2>1 DEF CleanUp
  <1>13. ASSUME NEW a \in Attempts, FinishFails(a) PROVE PartsTypeOK' /\ Begun'
    BY <1>13 DEF FinishFails, NoFinish
  <1>14. CASE UNCHANGED partsVars
    BY <1>14 DEF partsVars
  <1> QED
    BY <1>1, <1>2, <1>3, <1>4, <1>5, <1>6, <1>7, <1>8, <1>9, <1>10, <1>11, <1>12, <1>13, <1>14
       DEF PartsNext

\* No step makes an overlap undone, nor any other disturbance but a leftover.
LEMMA DisturbancesStay ==
    ASSUME PartsTypeOK, [PartsNext]_partsVars
    PROVE  /\ overlapped => overlapped'
           /\ trimmed => trimmed'
           /\ stuck => stuck'
           /\ leftover' = leftover \/ StartUpload
  BY DEF PartsTypeOK, PartsNext, partsVars, disturbances, StartUpload, SendPart, StorePart, SendFinish,
     ReadRows, Truncate, AppendChunk, DeleteRows, DeleteNeeded, FinishFails, GiveUp, ServerCrashes,
     CleanUp

\* At most one handler finishes, when all parts are there.
LEMMA OneFinishStep ==
    ASSUME PartsTypeOK, Begun, ~overlapped', OneFinish, [PartsNext]_partsVars
    PROVE  OneFinish'
  <1> USE PartsAssumption DEF PartsTypeOK, Begun, Attempts, OneFinish, disturbances
  <1>1. CASE StartUpload
    BY <1>1 DEF StartUpload, BeingServed
  <1>2. ASSUME NEW s \in ChunkStarts(Length), SendPart(s) PROVE OneFinish'
    BY <1>2 DEF SendPart
  <1>3. ASSUME NEW p \in inFlight, StorePart(p) PROVE OneFinish'
    BY <1>3 DEF StorePart
  <1>4. CASE SendFinish
    BY <1>4 DEF SendFinish
  <1>5. ASSUME NEW a \in Attempts, ReadRows(a) PROVE OneFinish'
    BY <1>5 DEF ReadRows
  <1>6. ASSUME NEW a \in Attempts, Truncate(a) PROVE OneFinish'
    BY <1>6 DEF Truncate
  <1>7. ASSUME NEW a \in Attempts, AppendChunk(a) PROVE OneFinish'
    BY <1>7 DEF AppendChunk
  <1>8. ASSUME NEW a \in Attempts, DeleteRows(a) PROVE OneFinish'
    BY <1>8 DEF DeleteRows
  <1>9. ASSUME NEW a \in Attempts, DeleteNeeded(a) PROVE OneFinish'
    BY <1>9 DEF DeleteNeeded, NoFinish, Received
  <1>10. CASE GiveUp
    BY <1>10 DEF GiveUp
  <1>11. CASE ServerCrashes
    BY <1>11 DEF ServerCrashes, NoFinish
  <1>12. CASE CleanUp
    <2>1. /\ attempt' = attempt /\ client' = client /\ inFlight' = inFlight /\ finish' = finish
          /\ rows' = <<>>
      BY <1>12 DEF CleanUp
    <2> QED
      BY <2>1
  <1>13. ASSUME NEW a \in Attempts, FinishFails(a) PROVE OneFinish'
    BY <1>13 DEF FinishFails, NoFinish
  <1>14. CASE UNCHANGED partsVars
    BY <1>14 DEF partsVars
  <1> QED
    BY <1>1, <1>2, <1>3, <1>4, <1>5, <1>6, <1>7, <1>8, <1>9, <1>10, <1>11, <1>12, <1>13, <1>14
       DEF PartsNext

\* All parts, put in order, are the parts from the beginning on: each once if each
\* is there once.
LEMMA AllInOrder ==
    ASSUME NEW s \in Seq(ChunkStarts(Length)), Range(s) = ChunkStarts(Length)
    PROVE  /\ Onward(0, InOrder(s))
           /\ Once(s) => From(0, InOrder(s))
  <1>1. s \in Seq(Nat) /\ \A i \in DOMAIN s : s[i] \in Nat
    BY StartsAreNumbers, SeqDef
  <1>2. PICK p \in Bijection(DOMAIN s, DOMAIN s) : InOrder(s) = Arranged(s, p)
    BY <1>1, InOrderSorts
  <1> DEFINE t == InOrder(s)
  <1>3. DOMAIN t = DOMAIN s /\ \A i \in DOMAIN s : t[i] = s[p[i]]
    BY <1>2 DEF Arranged
  <1>4. /\ p \in [DOMAIN s -> DOMAIN s]
        /\ \A i, j \in DOMAIN s : p[i] = p[j] => i = j
        /\ \A i \in DOMAIN s : \E j \in DOMAIN s : p[j] = i
    BY DEF Bijection, Injection, Surjection, IsInjective
  <1>5. Ascends(t)
    BY <1>1, InOrderSorts
  <1> HIDE DEF t
  <1>6. ASSUME Once(s), NEW i \in DOMAIN t, NEW j \in DOMAIN t, i < j PROVE t[i] < t[j]
    <2>1. t[i] <= t[j]
      BY <1>5, <1>6 DEF Ascends
    <2>2. i # j
      BY <1>6, <1>3
    <2>3. t[i] # t[j]
      BY <1>3, <1>4, <1>6, <2>2 DEF Once
    <2>4. t[i] \in Nat /\ t[j] \in Nat
      BY <1>1, <1>3, <1>4
    <2> QED
      BY <2>1, <2>3, <2>4
  <1>7. {t[i] : i \in DOMAIN t} = ChunkStarts(Length)
    <2>1. {t[i] : i \in DOMAIN t} \subseteq {s[i] : i \in DOMAIN s}
      BY <1>3, <1>4
    <2>2. {s[i] : i \in DOMAIN s} \subseteq {t[i] : i \in DOMAIN t}
      BY <1>3, <1>4
    <2> QED
      BY <2>1, <2>2 DEF Range
  <1>8. ChunkStarts(Length) = {c \in ChunkStarts(Length) : 0 <= c}
    BY StartsAreNumbers
  <1>9. Once(s) => From(0, t)
    BY <1>6, <1>7, <1>8 DEF From, Range
  <1>10. Onward(0, t)
    <2>1. Range(t) = ChunkStarts(Length)
      BY <1>7 DEF Range
    <2>2. \A c \in ChunkStarts(Length) : 0 <= After(c)
      BY StartsAreNumbers, PartsAssumption DEF After
    <2> QED
      BY <1>5, <2>1, <2>2 DEF Onward
  <1> QED
    BY <1>9, <1>10 DEF t

\* No part starts between two that follow each other.
LEMMA StartsFollow ==
    ASSUME NEW n \in ChunkStarts(Length)
    PROVE  /\ After(n) \in Boundary /\ n < After(n) /\ After(n) <= Length
           /\ {c \in ChunkStarts(Length) : n <= c} \ {n}
                  = {c \in ChunkStarts(Length) : After(n) <= c}
  <1> USE PartsAssumption
  <1> DEFINE C == ChunkSize
             q == n \div C
  <1>1. n \in Nat /\ n < Length /\ n % C = 0 /\ C \in Nat /\ C > 0
    BY StartsAreNumbers
  <1>2. q \in Nat /\ n = C * q
    BY <1>1
  <1> HIDE DEF q
  <1>3. n + C = C * (q + 1) /\ (C * (q + 1)) % C = 0
    BY <1>1, <1>2
  <1>4. After(n) \in Boundary
    <2>1. n + C < Length => n + C \in 0 .. Length - 1 /\ (n + C) % C = 0
      BY <1>1, <1>3
    <2> QED
      BY <2>1 DEF After, Boundary, ChunkStarts
  <1>5. ASSUME NEW c \in ChunkStarts(Length), n < c PROVE n + C <= c
    <2> DEFINE r == c \div C
    <2>1. c \in Nat /\ c % C = 0
      BY StartsAreNumbers
    <2>2. r \in Nat /\ c = C * r
      BY <1>1, <2>1
    <2> HIDE DEF r, C
    <2>3. q < r
      BY <1>1, <1>2, <1>5, <2>2
    <2>4. C * (q + 1) <= C * r
      BY <1>1, <1>2, <2>2, <2>3
    <2> QED
      BY <1>3, <2>2, <2>4
  <1>6. ASSUME NEW c \in ChunkStarts(Length), n < c PROVE After(n) <= c
    <2>1. c \in Nat /\ c < Length
      BY StartsAreNumbers
    <2> QED
      BY <1>5, <1>6, <2>1, <1>1 DEF After
  <1>7. n < After(n) /\ After(n) <= Length /\ After(n) \in Nat
    BY <1>1 DEF After
  <1>8. ASSUME NEW c \in ChunkStarts(Length)
        PROVE  (n <= c /\ c # n) <=> After(n) <= c
    <2>1. c \in Nat
      BY StartsAreNumbers
    <2> QED
      BY <1>1, <1>6, <1>7, <2>1
  <1> QED
    BY <1>4, <1>7, <1>8

\* The first of the parts from an offset on starts at it, the rest follow.
LEMMA HeadIsNext ==
    ASSUME NEW n \in Boundary, NEW chunks \in Seq(ChunkStarts(Length)), From(n, chunks),
           chunks # <<>>
    PROVE  n \in ChunkStarts(Length) /\ Head(chunks) = n /\ From(After(n), Tail(chunks))
  <1> USE PartsAssumption
  <1> DEFINE t == Tail(chunks)
  <1>1. 1 \in DOMAIN chunks /\ Head(chunks) = chunks[1]
    OBVIOUS
  <1>2. \A i \in DOMAIN chunks : chunks[i] \in ChunkStarts(Length) /\ n <= chunks[i] /\ chunks[i] \in Nat
    BY StartsAreNumbers DEF From, Range
  <1>3. n \in ChunkStarts(Length)
    <2>1. n # Length
      BY <1>1, <1>2, StartsAreNumbers
    <2> QED
      BY <2>1 DEF Boundary
  <1>4. chunks[1] = n
    <2>1. n \in Nat
      BY <1>3, StartsAreNumbers
    <2>2. PICK i \in DOMAIN chunks : chunks[i] = n
      BY <1>3, <2>1 DEF From, Range
    <2>3. i = 1 \/ 1 < i
      OBVIOUS
    <2>4. 1 < i => chunks[1] < n
      BY <1>1, <2>2 DEF From, Range
    <2> QED
      BY <1>1, <1>2, <2>1, <2>2, <2>3, <2>4
  <1>5. /\ DOMAIN chunks = 1 .. Len(chunks) /\ Len(chunks) \in Nat
        /\ DOMAIN t = 1 .. Len(chunks) - 1 /\ \A i \in DOMAIN t : t[i] = chunks[i + 1]
    OBVIOUS
  <1> HIDE DEF t
  <1>6. ASSUME NEW i \in DOMAIN t, NEW j \in DOMAIN t, i < j PROVE t[i] < t[j]
    <2>1. i + 1 \in DOMAIN chunks /\ j + 1 \in DOMAIN chunks /\ i + 1 < j + 1
      BY <1>5, <1>6
    <2> QED
      BY <1>5, <2>1 DEF From, Range
  <1>7. {t[i] : i \in DOMAIN t} = {chunks[i] : i \in DOMAIN chunks} \ {n}
    <2>1. ASSUME NEW i \in DOMAIN t PROVE t[i] \in {chunks[k] : k \in DOMAIN chunks} \ {n}
      <3>1. i + 1 \in DOMAIN chunks /\ 1 < i + 1 /\ t[i] = chunks[i + 1]
        BY <1>5
      <3>2. chunks[1] < chunks[i + 1]
        BY <1>1, <3>1 DEF From, Range
      <3>3. chunks[i + 1] \in Nat
        BY <1>2, <3>1
      <3>4. n \in Nat
        BY <1>3, StartsAreNumbers
      <3> QED
        BY <1>4, <3>1, <3>2, <3>3, <3>4
    <2>2. ASSUME NEW i \in DOMAIN chunks, chunks[i] # n PROVE chunks[i] \in {t[k] : k \in DOMAIN t}
      <3>1. i # 1
        BY <1>4, <2>2
      <3>2. i - 1 \in DOMAIN t /\ t[i - 1] = chunks[i - 1 + 1] /\ i - 1 + 1 = i
        BY <1>5, <3>1
      <3> QED
        BY <3>2
    <2> QED
      BY <2>1, <2>2
  <1>8. {t[i] : i \in DOMAIN t} = {c \in ChunkStarts(Length) : After(n) <= c}
    BY <1>3, <1>7, StartsFollow DEF From, Range
  <1> QED
    BY <1>1, <1>3, <1>4, <1>6, <1>8 DEF From, Range, t

\* What is written up to a part's start, and the part, is what is written up to
\* its end.
LEMMA ChunkExtends ==
    ASSUME NEW n \in ChunkStarts(Length)
    PROVE  SubSeq(Content, 1, n) \o Chunk(n) = SubSeq(Content, 1, After(n))
  <1>1. n \in Nat /\ n < Length /\ After(n) \in Nat /\ n < After(n) /\ After(n) <= Length
    BY StartsAreNumbers, StartsFollow, PartsAssumption DEF After
  <1>2. Chunk(n) = SubSeq(Content, n + 1, After(n))
    BY DEF Chunk, After
  <1> DEFINE m == After(n)
             all == Content
  <1>3. all \in Seq(Int) /\ Len(all) = Length /\ Length \in Nat
    BY PartsAssumption DEF Content
  <1> HIDE DEF m, all
  <1>4. /\ SubSeq(all, 1, n) \in Seq(Int) /\ Len(SubSeq(all, 1, n)) = n
        /\ \A i \in 1 .. n : SubSeq(all, 1, n)[i] = all[i]
    BY <1>1, <1>3
  <1>5. /\ SubSeq(all, n + 1, m) \in Seq(Int) /\ Len(SubSeq(all, n + 1, m)) = m - n
        /\ \A i \in 1 .. m - n : SubSeq(all, n + 1, m)[i] = all[n + i]
    BY <1>1, <1>3 DEF m
  <1>6. /\ SubSeq(all, 1, m) \in Seq(Int) /\ Len(SubSeq(all, 1, m)) = m
        /\ \A i \in 1 .. m : SubSeq(all, 1, m)[i] = all[i]
    BY <1>1, <1>3 DEF m
  <1> DEFINE joined == SubSeq(all, 1, n) \o SubSeq(all, n + 1, m)
  <1>7. joined \in Seq(Int) /\ Len(joined) = m
    BY <1>1, <1>4, <1>5 DEF m
  <1>8. ASSUME NEW i \in 1 .. m PROVE joined[i] = all[i]
    <2>1. CASE i <= n
      BY <1>1, <1>4, <1>5, <2>1
    <2>2. CASE i > n
      <3>1. i - n \in 1 .. m - n /\ n + (i - n) = i
        BY <1>1, <2>2 DEF m
      <3>2. joined[i] = SubSeq(all, n + 1, m)[i - n]
        BY <1>1, <1>4, <1>5, <2>2, <3>1 DEF m
      <3> QED
        BY <1>5, <3>1, <3>2
    <2> QED
      BY <1>1, <2>1, <2>2 DEF m
  <1> HIDE DEF joined
  <1>9. joined = SubSeq(all, 1, m)
    BY <1>6, <1>7, <1>8
  <1> QED
    BY <1>2, <1>9 DEF joined, all, m

\* A later part ends no earlier.
LEMMA LaterEndsLater ==
    ASSUME NEW h \in ChunkStarts(Length), NEW c \in ChunkStarts(Length), h <= c
    PROVE  After(h) <= After(c)
  BY StartsAreNumbers, PartsAssumption DEF After

\* The first of the parts that go on from an offset starts at it, or ends there; the
\* rest goes on from its end.
LEMMA HeadGoesOn ==
    ASSUME NEW n \in Boundary, NEW chunks \in Seq(ChunkStarts(Length)), Onward(n, chunks),
           chunks # <<>>
    PROVE  /\ Head(chunks) \in ChunkStarts(Length)
           /\ Head(chunks) = n \/ (Head(chunks) < n /\ After(Head(chunks)) = n)
           /\ Onward(After(Head(chunks)), Tail(chunks))
  <1> DEFINE h == Head(chunks)
             t == Tail(chunks)
  <1>1. 1 \in DOMAIN chunks /\ h = chunks[1] /\ h \in ChunkStarts(Length)
    OBVIOUS
  <1>2. /\ DOMAIN chunks = 1 .. Len(chunks) /\ Len(chunks) \in Nat
        /\ DOMAIN t = 1 .. Len(chunks) - 1 /\ \A i \in DOMAIN t : t[i] = chunks[i + 1]
    OBVIOUS
  <1> HIDE DEF t, h
  <1>3. \A i \in DOMAIN chunks : chunks[i] \in ChunkStarts(Length) /\ chunks[i] \in Nat /\ h <= chunks[i]
    <2> SUFFICES ASSUME NEW i \in DOMAIN chunks
                 PROVE  chunks[i] \in ChunkStarts(Length) /\ chunks[i] \in Nat /\ h <= chunks[i]
      OBVIOUS
    <2>1. chunks[i] \in ChunkStarts(Length) /\ chunks[i] \in Nat
      BY StartsAreNumbers
    <2>2. i = 1 \/ 1 < i
      OBVIOUS
    <2>3. 1 < i => chunks[1] <= chunks[i]
      BY <1>1 DEF Onward, Ascends
    <2> QED
      BY <1>1, <2>1, <2>2, <2>3
  <1>4. h \in Nat /\ n \in Nat /\ After(h) \in Nat /\ h < After(h) /\ After(h) <= Length
    BY <1>1, StartsAreNumbers, PartsAssumption, StartsFollow DEF After, Boundary
  <1>5. h = n \/ (h < n /\ After(h) = n)
    <2>1. CASE h < n
      <3>1. n <= After(h)
        BY <1>1 DEF Onward, Range
      <3>2. CASE n \in ChunkStarts(Length)
        <4>1. n \in {c \in ChunkStarts(Length) : h <= c} \ {h}
          BY <2>1, <3>2, <1>4
        <4>2. After(h) <= n
          BY <1>1, <4>1, StartsFollow
        <4> QED
          BY <1>4, <2>1, <3>1, <4>2
      <3>3. CASE n = Length
        BY <1>4, <2>1, <3>1, <3>3
      <3> QED
        BY <3>2, <3>3 DEF Boundary
    <2>2. CASE n <= h
      <3>1. n # Length
        BY <1>1, <2>2, <1>4, StartsAreNumbers, PartsAssumption
      <3>2. n \in ChunkStarts(Length)
        BY <3>1 DEF Boundary
      <3>3. n \in Range(chunks)
        BY <3>2, <1>4 DEF Onward
      <3>4. h <= n
        BY <3>3, <1>3 DEF Range
      <3> QED
        BY <2>2, <3>4, <1>4
    <2> QED
      BY <2>1, <2>2, <1>4
  <1>6. Ascends(t)
    <2> SUFFICES ASSUME NEW i \in DOMAIN t, NEW j \in DOMAIN t, i < j PROVE t[i] <= t[j]
      BY DEF Ascends
    <2>1. i + 1 \in DOMAIN chunks /\ j + 1 \in DOMAIN chunks /\ i + 1 < j + 1
      BY <1>2
    <2> QED
      BY <1>2, <2>1 DEF Onward, Ascends
  <1>7. ASSUME NEW c \in ChunkStarts(Length), After(h) <= c PROVE c \in Range(t)
    <2>1. c \in Nat /\ n <= c /\ c # h
      BY <1>4, <1>5, <1>7, StartsAreNumbers
    <2>2. PICK i \in DOMAIN chunks : chunks[i] = c
      BY <2>1 DEF Onward, Range
    <2>3. i # 1
      BY <1>1, <2>1, <2>2
    <2>4. i - 1 \in DOMAIN t /\ t[i - 1] = chunks[i - 1 + 1] /\ i - 1 + 1 = i
      BY <1>2, <2>3
    <2> QED
      BY <2>2, <2>4 DEF Range
  <1>8. ASSUME NEW c \in Range(t) PROVE After(h) <= After(c)
    <2>1. PICK i \in DOMAIN t : t[i] = c
      BY DEF Range
    <2>2. i + 1 \in DOMAIN chunks /\ chunks[i + 1] = c
      BY <1>2, <2>1
    <2>3. c \in ChunkStarts(Length) /\ h <= c
      BY <1>3, <2>2
    <2> QED
      BY <1>1, <2>3, LaterEndsLater
  <1> QED
    BY <1>1, <1>5, <1>6, <1>7, <1>8 DEF Onward, h, t

\* The bytes of a part.
LEMMA ChunkBytes ==
    ASSUME NEW n \in ChunkStarts(Length)
    PROVE  /\ Chunk(n) \in Seq(Nat) /\ Len(Chunk(n)) = After(n) - n
           /\ \A i \in 1 .. After(n) - n : Chunk(n)[i] = n + i - 1
  <1>1. n \in Nat /\ n < Length /\ After(n) \in Nat /\ n < After(n) /\ After(n) <= Length
    BY StartsAreNumbers, StartsFollow, PartsAssumption DEF After
  <1>2. Chunk(n) = SubSeq(Content, n + 1, After(n))
    BY DEF Chunk, After
  <1> DEFINE m == After(n)
             all == Content
  <1>3. /\ all \in Seq(Nat) /\ Len(all) = Length /\ Length \in Nat
        /\ \A i \in 1 .. Length : all[i] = i - 1
    BY PartsAssumption DEF Content
  <1> HIDE DEF m, all
  <1>4. /\ SubSeq(all, n + 1, m) \in Seq(Nat) /\ Len(SubSeq(all, n + 1, m)) = m - n
        /\ \A i \in 1 .. m - n : SubSeq(all, n + 1, m)[i] = all[n + i]
    BY <1>1, <1>3 DEF m
  <1>5. \A i \in 1 .. m - n : all[n + i] = n + i - 1
    <2> SUFFICES ASSUME NEW i \in 1 .. m - n PROVE all[n + i] = n + i - 1
      OBVIOUS
    <2>1. n + i \in 1 .. Length
      BY <1>1, <1>3 DEF m
    <2>2. \A k \in 1 .. Length : all[k] = k - 1
      BY <1>3
    <2> QED
      BY <1>1, <2>1, <2>2
  <1> DEFINE part == SubSeq(all, n + 1, m)
  <1>6. part \in Seq(Nat) /\ Len(part) = m - n /\ \A i \in 1 .. m - n : part[i] = n + i - 1
    <2>1. \A i \in 1 .. m - n : part[i] = all[n + i]
      BY <1>4, Zenon
    <2>2. part \in Seq(Nat) /\ Len(part) = m - n
      BY <1>4, Zenon
    <2> HIDE DEF part
    <2> QED
      BY <1>5, <2>1, <2>2, Zenon
  <1>7. Chunk(n) = part
    BY <1>2 DEF m, all
  <1> HIDE DEF part
  <1>8. /\ Chunk(n) \in Seq(Nat) /\ Len(Chunk(n)) = m - n
        /\ \A i \in 1 .. m - n : Chunk(n)[i] = n + i - 1
    BY <1>6, <1>7
  <1> QED
    BY <1>8 DEF m

\* The last byte of a part is the part's, and ends it.
LEMMA LastByte ==
    ASSUME NEW h \in ChunkStarts(Length)
    PROVE  EndsPart(After(h) - 1) /\ (After(h) - 1) - ((After(h) - 1) % ChunkSize) = h
  <1> USE PartsAssumption
  <1> DEFINE C == ChunkSize
             q == h \div C
             k == After(h) - 1 - h
  <1>1. h \in Nat /\ h < Length /\ h % C = 0 /\ C \in Nat /\ C > 0 /\ Length \in Nat
    BY StartsAreNumbers
  <1>2. q \in Nat /\ h = C * q
    BY <1>1
  <1>3. /\ After(h) \in Nat /\ k \in Nat /\ k < C /\ After(h) - 1 = h + k
        /\ After(h) = Length \/ After(h) = h + C
    BY <1>1 DEF After
  <1> HIDE DEF q, k
  <1>4. (h + C) % C = 0
    <2>1. h + C = C * (q + 1) /\ (C * (q + 1)) % C = 0
      BY <1>1, <1>2
    <2> QED
      BY <2>1
  <1>5. (h + k) % C = k
    <2> DEFINE r == (h + k) % C
               d == (h + k) \div C
    <2>1. r \in 0 .. C - 1 /\ d \in Int /\ h + k = C * d + r
      BY <1>1, <1>3
    <2> HIDE DEF r, d, C
    <2>2. r \in Int /\ 0 <= r /\ r < C
      BY <1>1, <2>1
    <2>3. d = q
      <3>1. C * (q + 1) = C * q + C /\ C * (d + 1) = C * d + C
        BY <1>1, <1>2, <2>1
      <3>2. CASE d > q
        <4>1. C * (q + 1) <= C * d
          BY <1>1, <1>2, <2>1, <3>2
        <4> QED
          BY <1>1, <1>2, <1>3, <2>1, <2>2, <3>1, <4>1
      <3>3. CASE d < q
        <4>1. C * (d + 1) <= C * q
          BY <1>1, <1>2, <2>1, <3>3
        <4> QED
          BY <1>1, <1>2, <1>3, <2>1, <2>2, <3>1, <4>1
      <3> QED
        BY <1>2, <2>1, <3>2, <3>3
    <2>4. r = k
      BY <1>1, <1>2, <1>3, <2>1, <2>2, <2>3
    <2> QED
      BY <2>4 DEF r
  <1>6. After(h) - 1 + 1 = After(h)
    BY <1>3
  <1>7. EndsPart(After(h) - 1)
    BY <1>3, <1>4, <1>6 DEF EndsPart
  <1> QED
    BY <1>1, <1>3, <1>5, <1>7

\* A part that follows, or comes again, writes on.
LEMMA ChunkWritesOn ==
    ASSUME NEW n \in Boundary, NEW h \in ChunkStarts(Length), NEW f,
           h = n \/ (h < n /\ After(h) = n), WrittenTo(n, f)
    PROVE  WrittenTo(After(h), f \o Chunk(h))
  <1> DEFINE c == Chunk(h)
             m == After(h)
             g == f \o c
  <1>1. /\ h \in Nat /\ n \in Nat /\ m \in Nat /\ h < m
    BY StartsAreNumbers, StartsFollow, PartsAssumption DEF After, Boundary
  <1>2. c \in Seq(Nat) /\ Len(c) = m - h /\ \A i \in 1 .. m - h : c[i] = h + i - 1
    BY ChunkBytes
  <1>3. EndsPart(m - 1) /\ (m - 1) - ((m - 1) % ChunkSize) = h
    BY LastByte
  <1> HIDE DEF c, m
  <1>4. f \in Seq(Nat) /\ Len(f) \in Nat
    BY DEF WrittenTo
  <1>5. /\ g \in Seq(Nat) /\ Len(g) = Len(f) + (m - h) /\ Len(g) \in Nat
        /\ \A i \in 1 .. Len(f) : g[i] = f[i]
        /\ \A i \in 1 .. m - h : g[Len(f) + i] = h + i - 1
    <2>1. /\ g \in Seq(Nat) /\ Len(g) = Len(f) + (m - h) /\ Len(g) \in Nat
          /\ \A i \in 1 .. Len(f) : g[i] = f[i]
      <3>0. c \in Seq(Nat) /\ f \in Seq(Nat)
        BY <1>2, <1>4
      <3>1. g \in Seq(Nat) /\ Len(g) = Len(f) + Len(c)
        BY <3>0, ConcatProperties
      <3>2. \A i \in 1 .. Len(f) : g[i] = f[i]
        BY <3>0
      <3> QED
        BY <1>1, <1>2, <1>4, <3>1, <3>2
    <2>2. ASSUME NEW i \in 1 .. m - h PROVE g[Len(f) + i] = h + i - 1
      <3>1. Len(f) + i \in 1 .. Len(f) + Len(c) /\ Len(f) + i > Len(f) /\ Len(f) + i - Len(f) = i
        BY <1>1, <1>2, <1>4
      <3>2. g[Len(f) + i] = c[i]
        BY <1>2, <1>4, <3>1
      <3> QED
        BY <1>2, <3>2
    <2> QED
      BY <2>1, <2>2
  <1> HIDE DEF g
  <1>6. m > 0 /\ g # <<>>
    BY <1>1, <1>4, <1>5
  <1>7. g[Len(g)] = m - 1
    <2>1. m - h \in 1 .. m - h /\ h + (m - h) - 1 = m - 1
      BY <1>1
    <2> QED
      BY <1>5, <2>1
  <1>8. CASE f = <<>>
    <2>1. n = 0 /\ h = 0 /\ Len(f) = 0
      BY <1>1, <1>8 DEF WrittenTo
    <2>2. \A i \in 1 .. m - h : g[i] = h + i - 1
      BY <1>5, <2>1
    <2>3. g[1] = 0 /\ Stepwise(g)
      <3>1. 1 \in 1 .. m - h
        BY <1>1
      <3>2. \A i \in 1 .. Len(g) - 1 : g[i + 1] = g[i] + 1
        BY <1>1, <1>5, <2>1, <2>2
      <3> QED
        BY <2>1, <2>2, <3>1, <3>2 DEF Stepwise
    <2> QED
      BY <1>5, <1>6, <1>7, <2>3 DEF WrittenTo, g, c, m
  <1>9. CASE f # <<>>
    <2>1. n > 0 /\ f[1] = 0 /\ Stepwise(f) /\ f[Len(f)] = n - 1 /\ Len(f) > 0
      BY <1>4, <1>9 DEF WrittenTo
    <2>2. ASSUME NEW i \in 1 .. Len(g) - 1
          PROVE  \/ g[i + 1] = g[i] + 1
                 \/ EndsPart(g[i]) /\ g[i + 1] = g[i] - (g[i] % ChunkSize)
      <3>1. CASE i < Len(f)
        <4>1. i \in 1 .. Len(f) - 1 /\ i \in 1 .. Len(f) /\ i + 1 \in 1 .. Len(f)
          BY <1>4, <3>1
        <4>2. g[i] = f[i] /\ g[i + 1] = f[i + 1]
          BY <1>5, <4>1
        <4> QED
          BY <2>1, <4>1, <4>2 DEF Stepwise
      <3>2. CASE i = Len(f)
        <4>1. g[i] = n - 1
          BY <1>4, <1>5, <2>1, <3>2
        <4>2. 1 \in 1 .. m - h /\ h + 1 - 1 = h
          BY <1>1
        <4>3. g[i + 1] = h
          BY <1>5, <3>2, <4>2
        <4>4. CASE h = n
          BY <1>1, <4>1, <4>3, <4>4
        <4>5. CASE h < n /\ After(h) = n
          BY <1>3, <4>1, <4>3, <4>5 DEF m
        <4> QED
          BY <4>4, <4>5
      <3>3. CASE i > Len(f)
        <4> DEFINE j == i - Len(f)
        <4>1. /\ j \in 1 .. m - h /\ j + 1 \in 1 .. m - h
              /\ Len(f) + j = i /\ Len(f) + (j + 1) = i + 1
          BY <1>1, <1>4, <1>5, <3>3
        <4> HIDE DEF j
        <4>2. g[i] = h + j - 1 /\ g[i + 1] = h + (j + 1) - 1
          BY <1>5, <4>1
        <4> QED
          BY <1>1, <4>1, <4>2
      <3> QED
        BY <1>4, <3>1, <3>2, <3>3
    <2>3. Stepwise(g)
      BY <2>2 DEF Stepwise
    <2>4. g[1] = 0
      BY <1>4, <1>5, <2>1
    <2> QED
      BY <1>5, <1>6, <1>7, <2>3, <2>4 DEF WrittenTo, g, c, m
  <1> QED
    BY <1>8, <1>9

\* When no part is left, all is written.
LEMMA NothingLeft ==
    ASSUME NEW n \in Boundary
    PROVE  /\ From(n, <<>>) => SubSeq(Content, 1, n) = Content
           /\ \A f : Onward(n, <<>>) /\ WrittenTo(n, f) => EveryByte(f)
  <1>1. From(n, <<>>) \/ Onward(n, <<>>) => n = Length
    <2> SUFFICES ASSUME From(n, <<>>) \/ Onward(n, <<>>) PROVE n = Length
      OBVIOUS
    <2>1. Range(<<>>) = {}
      BY DEF Range
    <2>2. n \notin ChunkStarts(Length)
      BY <2>1, StartsAreNumbers DEF From, Onward
    <2> QED
      BY <2>2 DEF Boundary
  <1>2. Content \in Seq(Int) /\ Len(Content) = Length /\ Length > 0
    BY PartsAssumption DEF Content
  <1>3. SubSeq(Content, 1, Length) = Content
    BY <1>2
  <1> QED
    BY <1>1, <1>2, <1>3 DEF WrittenTo, EveryByte

\* One more part in flight.
LEMMA OneMoreSent ==
    ASSUME NEW A, NEW a, NEW s
    PROVE  Starts(A \cup {<<a, s>>}) = Starts(A) \cup {s}
  <1>1. <<a, s>>[2] = s
    OBVIOUS
  <1> QED
    BY <1>1, Zenon DEF Starts

\* And one less.
LEMMA OneLessSent ==
    ASSUME NEW A, NEW a, NEW s, \A r \in A : r = <<a, r[2]>>
    PROVE  Starts(A \ {<<a, s>>}) = Starts(A) \ {s}
  <1>1. <<a, s>>[2] = s
    OBVIOUS
  <1>2. Starts(A \ {<<a, s>>}) \subseteq Starts(A) \ {s}
    <2> SUFFICES ASSUME NEW r \in A, r # <<a, s>> PROVE r[2] # s
      BY DEF Starts
    <2> QED
      OBVIOUS
  <1>3. Starts(A) \ {s} \subseteq Starts(A \ {<<a, s>>})
    <2> SUFFICES ASSUME NEW r \in A, r[2] # s PROVE r # <<a, s>>
      BY DEF Starts
    <2> QED
      BY <1>1
  <1> QED
    BY <1>2, <1>3

\* And one more row.
LEMMA OneMoreStored ==
    ASSUME NEW S, NEW s \in Seq(S), NEW e \in S
    PROVE  Range(Append(s, e)) = Range(s) \cup {e}
  <1> DEFINE t == Append(s, e)
  <1>1. /\ DOMAIN t = 1 .. Len(s) + 1 /\ DOMAIN s = 1 .. Len(s) /\ Len(s) \in Nat
        /\ t[Len(s) + 1] = e /\ \A i \in 1 .. Len(s) : t[i] = s[i]
    OBVIOUS
  <1> HIDE DEF t
  <1>2. {t[i] : i \in DOMAIN t} \subseteq {s[i] : i \in DOMAIN s} \cup {e}
    <2> SUFFICES ASSUME NEW i \in DOMAIN t PROVE t[i] \in {s[k] : k \in DOMAIN s} \cup {e}
      OBVIOUS
    <2>1. i \in DOMAIN s \/ i = Len(s) + 1
      BY <1>1
    <2> QED
      BY <1>1, <2>1
  <1>3. {s[i] : i \in DOMAIN s} \cup {e} \subseteq {t[i] : i \in DOMAIN t}
    <2>1. Len(s) + 1 \in DOMAIN t
      BY <1>1
    <2>2. \A i \in DOMAIN s : i \in DOMAIN t /\ t[i] = s[i]
      BY <1>1
    <2> QED
      BY <1>1, <2>1, <2>2
  <1> QED
    BY <1>2, <1>3 DEF t, Range

\* A step of a client that sends, and of a handler that stores a part.
LEMMA SendingStep ==
    ASSUME PartsTypeOK, Begun, OneFinish, PartsContents,
           \/ \E s \in ChunkStarts(Length) : SendPart(s)
           \/ \E p \in inFlight : StorePart(p)
    PROVE  PartsContents'
  <1> USE PartsAssumption DEF PartsTypeOK, Begun, Attempts, OneFinish, PartsContents, disturbances
  <1>1. ASSUME NEW s \in ChunkStarts(Length), SendPart(s) PROVE PartsContents'
    <2>1. EachPartOnce'
      <3>1. Sent' = Sent \cup {s} /\ Stored' = Stored
        <4>1. inFlight' = inFlight \cup {<<attempt, s>>} /\ rows' = rows
          BY <1>1 DEF SendPart
        <4> QED
          BY <4>1, OneMoreSent, Zenon DEF Sent, Stored
      <3> QED
        BY <1>1, <3>1 DEF SendPart, EachPartOnce, Once
    <2>2. ASSUME NEW a \in Attempts
          PROVE  (FinishWritesEveryByte(a) /\ (leftover \/ FinishMakesTheFile(a)))'
      BY <1>1 DEF SendPart, FinishMakesTheFile, FinishWritesEveryByte
    <2>3. WholeUnlessNeeded'
      BY <1>1 DEF SendPart, WholeUnlessNeeded
    <2> QED
      BY <2>1, <2>2, <2>3
  <1>2. ASSUME NEW p \in inFlight, StorePart(p) PROVE PartsContents'
    <2>0. p[1] = attempt /\ p[2] \in ChunkStarts(Length) /\ p[2] \in Sent /\ p = <<attempt, p[2]>>
      BY DEF Sent, Starts
    <2>1. EachPartOnce'
      <3> SUFFICES ASSUME client = "parts" PROVE EachPartOnce'
        BY <1>2 DEF StorePart, EachPartOnce
      <3>1. Sent' = Sent \ {p[2]}
        <4>1. inFlight' = inFlight \ {<<attempt, p[2]>>}
          BY <1>2, <2>0 DEF StorePart
        <4>2. \A r \in inFlight : r = <<attempt, r[2]>>
          OBVIOUS
        <4> QED
          BY <4>1, <4>2, OneLessSent, Zenon DEF Sent
      <3>2. /\ Len(rows') = Len(rows) + 1 /\ rows' \in Seq(ChunkStarts(Length))
            /\ rows'[Len(rows) + 1] = p[2] /\ \A i \in 1 .. Len(rows) : rows'[i] = rows[i]
        BY <1>2, <2>0 DEF StorePart
      <3>3. DOMAIN rows' = 1 .. Len(rows) + 1 /\ DOMAIN rows = 1 .. Len(rows) /\ Len(rows) \in Nat
        BY <3>2
      <3>4. Stored' = Stored \cup {p[2]}
        <4>1. rows' = Append(rows, p[2]) /\ rows \in Seq(ChunkStarts(Length))
          BY <1>2 DEF StorePart
        <4>2. Range(Append(rows, p[2])) = Range(rows) \cup {p[2]}
          BY <2>0, <4>1, OneMoreStored
        <4> QED
          BY <4>1, <4>2, Zenon DEF Stored
      <3>5. unsent' = unsent /\ client' = client /\ leftover' = leftover
        BY <1>2 DEF StorePart
      <3>6. unsent' \cup Sent' \cup Stored' = ChunkStarts(Length)
        BY <2>0, <3>1, <3>4, <3>5 DEF EachPartOnce
      <3>7. ASSUME ~leftover PROVE p[2] \notin Stored /\ Once(rows')
        <4>0. p[2] \notin Stored /\ Once(rows)
          BY <2>0, <3>7 DEF EachPartOnce
        <4> SUFFICES ASSUME NEW i \in DOMAIN rows', NEW j \in DOMAIN rows', rows'[i] = rows'[j]
                     PROVE  i = j
          BY <4>0 DEF Once
        <4>1. i \in DOMAIN rows \/ i = Len(rows) + 1
          BY <3>3
        <4>2. j \in DOMAIN rows \/ j = Len(rows) + 1
          BY <3>3
        <4>3. \A k \in DOMAIN rows : rows[k] # p[2]
          BY <4>0 DEF Stored, Range
        <4> QED
          BY <3>2, <3>3, <4>0, <4>1, <4>2, <4>3 DEF Once
      <3> QED
        BY <2>0, <3>1, <3>4, <3>5, <3>6, <3>7 DEF EachPartOnce
    <2>2. ASSUME NEW a \in Attempts
          PROVE  (FinishWritesEveryByte(a) /\ (leftover \/ FinishMakesTheFile(a)))'
      BY <1>2 DEF StorePart, FinishMakesTheFile, FinishWritesEveryByte
    <2>3. WholeUnlessNeeded'
      BY <1>2 DEF StorePart, WholeUnlessNeeded
    <2> QED
      BY <2>1, <2>2, <2>3
  <1> QED
    BY <1>1, <1>2

\* What a handler that finishes goes by is true of it still after its own step: with
\* leftovers,
LEMMA EveryByteStep ==
    ASSUME PartsTypeOK, NEW b \in Attempts, FinishWritesEveryByte(b),
           ReadRows(b) \/ Truncate(b) \/ AppendChunk(b) \/ DeleteRows(b) \/ DeleteNeeded(b)
           \/ FinishFails(b)
    PROVE  FinishWritesEveryByte(b)'
  <1> USE PartsAssumption DEF PartsTypeOK
  <1>1. CASE ReadRows(b)
    <2>1. Onward(0, InOrder(rows))
      BY <1>1, AllInOrder DEF ReadRows, FinishWritesEveryByte, Stored
    <2> QED
      BY <1>1, <2>1 DEF ReadRows, FinishWritesEveryByte
  <1>2. CASE Truncate(b)
    <2>1. finish'[b].at = "write" /\ finish'[b].chunks = finish[b].chunks
      BY <1>2 DEF Truncate
    <2>2. ~stuck' => file' = <<>>
      BY <1>2 DEF Truncate
    <2>3. 0 \in Boundary /\ WrittenTo(0, <<>>) /\ Onward(0, finish[b].chunks)
      BY <1>2 DEF Truncate, FinishWritesEveryByte, Boundary, ChunkStarts, WrittenTo
    <2>4. ~stuck' => \E n \in Boundary : WrittenTo(n, file') /\ Onward(n, finish'[b].chunks)
      BY <2>1, <2>2, <2>3, Zenon
    <2> QED
      BY <2>1, <2>4 DEF FinishWritesEveryByte
  <1>3. CASE AppendChunk(b)
    <2>1. /\ finish'[b].at = "write" /\ finish'[b].chunks = Tail(finish[b].chunks)
          /\ stuck' = stuck /\ file' = file \o Chunk(Head(finish[b].chunks))
          /\ finish[b].at = "write" /\ finish[b].chunks # <<>>
      BY <1>3 DEF AppendChunk, disturbances
    <2>2. ASSUME ~stuck
          PROVE  \E n \in Boundary : WrittenTo(n, file') /\ Onward(n, finish'[b].chunks)
      <3>1. PICK n \in Boundary : WrittenTo(n, file) /\ Onward(n, finish[b].chunks)
        BY <2>1, <2>2 DEF FinishWritesEveryByte
      <3> DEFINE h == Head(finish[b].chunks)
      <3>2. /\ h = n \/ (h < n /\ After(h) = n)
            /\ Onward(After(h), finish'[b].chunks)
        BY <2>1, <3>1, HeadGoesOn
      <3>3. h \in ChunkStarts(Length)
        BY <2>1
      <3> HIDE DEF h
      <3>4. WrittenTo(After(h), file \o Chunk(h)) /\ After(h) \in Boundary
        BY <3>1, <3>2, <3>3, ChunkWritesOn, StartsFollow
      <3>5. file' = file \o Chunk(h)
        BY <2>1 DEF h
      <3> QED
        BY <3>2, <3>4, <3>5, Zenon
    <2> QED
      BY <2>1, <2>2 DEF FinishWritesEveryByte
  <1>4. CASE DeleteRows(b)
    <2>1. /\ finish'[b].at = "stored" /\ stuck' = stuck /\ file' = file
          /\ finish[b].at = "write" /\ finish[b].chunks = <<>>
      BY <1>4 DEF DeleteRows, disturbances
    <2>2. ~stuck => EveryByte(file)
      BY <2>1, NothingLeft DEF FinishWritesEveryByte
    <2> QED
      BY <2>1, <2>2 DEF FinishWritesEveryByte
  <1>5. CASE DeleteNeeded(b)
    BY <1>5 DEF DeleteNeeded, NoFinish, FinishWritesEveryByte
  <1>6. CASE FinishFails(b)
    BY <1>6 DEF FinishFails, NoFinish, FinishWritesEveryByte
  <1> QED
    BY <1>1, <1>2, <1>3, <1>4, <1>5, <1>6

\* and without.
LEMMA MakesTheFileStep ==
    ASSUME PartsTypeOK, NEW b \in Attempts, FinishMakesTheFile(b),
           ReadRows(b) \/ Truncate(b) \/ AppendChunk(b) \/ DeleteRows(b) \/ DeleteNeeded(b)
           \/ FinishFails(b)
    PROVE  FinishMakesTheFile(b)'
  <1> USE PartsAssumption DEF PartsTypeOK
  <1>1. CASE ReadRows(b)
    <2>1. From(0, InOrder(rows))
      BY <1>1, AllInOrder DEF ReadRows, FinishMakesTheFile, Stored
    <2> QED
      BY <1>1, <2>1 DEF ReadRows, FinishMakesTheFile
  <1>2. CASE Truncate(b)
    <2>1. finish'[b].at = "write" /\ finish'[b].chunks = finish[b].chunks
      BY <1>2 DEF Truncate
    <2>2. ~stuck' => file' = <<>>
      BY <1>2 DEF Truncate
    <2>3. 0 \in Boundary /\ SubSeq(Content, 1, 0) = <<>> /\ From(0, finish[b].chunks)
      BY <1>2 DEF Truncate, FinishMakesTheFile, Boundary, ChunkStarts, Content
    <2>4. ~stuck' => \E n \in Boundary : file' = SubSeq(Content, 1, n) /\ From(n, finish'[b].chunks)
      BY <2>1, <2>2, <2>3, Zenon
    <2> QED
      BY <2>1, <2>4 DEF FinishMakesTheFile
  <1>3. CASE AppendChunk(b)
    <2>1. /\ finish'[b].at = "write" /\ finish'[b].chunks = Tail(finish[b].chunks)
          /\ stuck' = stuck /\ file' = file \o Chunk(Head(finish[b].chunks))
          /\ finish[b].at = "write" /\ finish[b].chunks # <<>>
      BY <1>3 DEF AppendChunk, disturbances
    <2>2. ASSUME ~stuck
          PROVE  \E n \in Boundary : file' = SubSeq(Content, 1, n) /\ From(n, finish'[b].chunks)
      <3>1. PICK n \in Boundary : file = SubSeq(Content, 1, n) /\ From(n, finish[b].chunks)
        BY <2>1, <2>2 DEF FinishMakesTheFile
      <3>2. /\ n \in ChunkStarts(Length) /\ Head(finish[b].chunks) = n
            /\ From(After(n), Tail(finish[b].chunks))
        BY <2>1, <3>1, HeadIsNext
      <3>3. file' = SubSeq(Content, 1, After(n)) /\ After(n) \in Boundary
        BY <2>1, <3>1, <3>2, ChunkExtends, StartsFollow
      <3>4. From(After(n), finish'[b].chunks)
        BY <2>1, <3>2
      <3> QED
        BY <3>3, <3>4, Zenon
    <2> QED
      BY <2>1, <2>2 DEF FinishMakesTheFile
  <1>4. CASE DeleteRows(b)
    <2>1. /\ finish'[b].at = "stored" /\ stuck' = stuck /\ file' = file
          /\ finish[b].at = "write" /\ finish[b].chunks = <<>>
      BY <1>4 DEF DeleteRows, disturbances
    <2>2. ~stuck => file = Content
      BY <2>1, NothingLeft DEF FinishMakesTheFile
    <2> QED
      BY <2>1, <2>2 DEF FinishMakesTheFile
  <1>5. CASE DeleteNeeded(b)
    BY <1>5 DEF DeleteNeeded, NoFinish, FinishMakesTheFile
  <1>6. CASE FinishFails(b)
    BY <1>6 DEF FinishFails, NoFinish, FinishMakesTheFile
  <1> QED
    BY <1>1, <1>2, <1>3, <1>4, <1>5, <1>6

\* While a handler finishes.
LEMMA FinishingStep ==
    ASSUME PartsTypeOK, Begun, OneFinish, PartsContents, NEW b \in Attempts,
           ReadRows(b) \/ Truncate(b) \/ AppendChunk(b) \/ DeleteRows(b) \/ DeleteNeeded(b)
           \/ FinishFails(b)
    PROVE  PartsContents'
  <1> USE PartsAssumption DEF PartsTypeOK, Begun, OneFinish
  <1>0. /\ finish[b].at # "none" /\ b = attempt /\ client # "parts" /\ needed
        /\ leftover' = leftover /\ (stuck => stuck')
        /\ \A a \in Attempts : a # b => finish[a].at = "none" /\ finish'[a] = finish[a]
    BY DEF PartsContents, WholeUnlessNeeded, disturbances, ReadRows, Truncate, AppendChunk, DeleteRows,
       DeleteNeeded, Received, FinishFails
  <1>1. EachPartOnce'
    BY <1>0 DEF EachPartOnce, ReadRows, Truncate, AppendChunk, DeleteRows, DeleteNeeded, FinishFails
  <1>2. ASSUME NEW a \in Attempts
        PROVE  (FinishWritesEveryByte(a) /\ (leftover \/ FinishMakesTheFile(a)))'
    <2>1. CASE a # b
      <3>1. finish'[a].at = "none"
        BY <1>0, <2>1
      <3> QED
        BY <3>1 DEF FinishWritesEveryByte, FinishMakesTheFile
    <2>2. CASE a = b
      BY <1>0, <2>2, EveryByteStep, MakesTheFileStep DEF PartsContents
    <2> QED
      BY <2>1, <2>2
  <1>3. CASE DeleteNeeded(b)
    <2>1. /\ finish[b].at = "stored" /\ file' = file /\ stuck' = stuck
          /\ \A a \in Attempts : finish'[a].at = "none"
          /\ client' # "parts"
      BY <1>0, <1>3 DEF DeleteNeeded, Received, NoFinish, disturbances
    <2>2. ~stuck => EveryByte(file) /\ (leftover \/ file = Content)
      BY <2>1 DEF PartsContents, FinishWritesEveryByte, FinishMakesTheFile
    <2>3. WholeUnlessNeeded'
      BY <1>0, <2>1, <2>2 DEF WholeUnlessNeeded
    <2> QED
      BY <1>1, <1>2, <2>3 DEF PartsContents
  <1>4. CASE ReadRows(b) \/ Truncate(b) \/ AppendChunk(b) \/ DeleteRows(b) \/ FinishFails(b)
    <2>1. needed'
      BY <1>0, <1>4 DEF ReadRows, Truncate, AppendChunk, DeleteRows, FinishFails
    <2>2. WholeUnlessNeeded'
      BY <2>1 DEF WholeUnlessNeeded
    <2> QED
      BY <1>1, <1>2, <2>2 DEF PartsContents
  <1> QED
    BY <1>3, <1>4

\* When an upload begins, is finished by the client, or ends early.
LEMMA UploadStep ==
    ASSUME PartsTypeOK, Begun, OneFinish, PartsContents, ~trimmed', ~overlapped',
           StartUpload \/ SendFinish \/ GiveUp \/ ServerCrashes \/ CleanUp
    PROVE  PartsContents'
  <1> USE PartsAssumption DEF PartsTypeOK, Begun, Attempts, OneFinish, disturbances
  <1>1. CASE StartUpload
    <2>1. /\ Sent' = {} /\ unsent' = ChunkStarts(Length) /\ rows' = rows /\ needed'
          /\ ~leftover' => rows' = <<>>
      BY <1>1 DEF StartUpload, BeingServed, Sent, Starts
    <2>2. Stored' \subseteq ChunkStarts(Length) /\ (~leftover' => Stored' = {} /\ Once(rows'))
      BY <2>1 DEF Stored, Range, Once
    <2>3. EachPartOnce'
      BY <2>1, <2>2 DEF EachPartOnce
    <2>4. \A a \in Attempts : finish'[a].at = "none"
      BY <1>1 DEF StartUpload, BeingServed
    <2>5. \A a \in Attempts : (FinishWritesEveryByte(a) /\ FinishMakesTheFile(a))'
      BY <2>4 DEF FinishMakesTheFile, FinishWritesEveryByte
    <2>6. WholeUnlessNeeded'
      BY <2>1 DEF WholeUnlessNeeded
    <2> QED
      BY <2>3, <2>5, <2>6 DEF PartsContents
  <1>2. CASE SendFinish
    <2>1. \A a \in Attempts : finish'[a].at = IF a = attempt THEN "sent" ELSE "none"
      BY <1>2 DEF SendFinish
    <2>2. inFlight = {} /\ Sent = {}
      <3>1. \A p \in inFlight : p[1] = attempt
        OBVIOUS
      <3> QED
        BY <1>2, <3>1 DEF SendFinish, Sent, Starts
    <2>3. Stored = ChunkStarts(Length) /\ (leftover \/ Once(rows))
      BY <1>2, <2>2 DEF SendFinish, EachPartOnce, PartsContents
    <2>4. Stored' = Stored /\ rows' = rows /\ leftover' = leftover /\ needed' = needed
      BY <1>2 DEF SendFinish, Stored
    <2>5. \A a \in Attempts : (FinishWritesEveryByte(a) /\ (leftover \/ FinishMakesTheFile(a)))'
      BY <2>1, <2>3, <2>4 DEF FinishMakesTheFile, FinishWritesEveryByte, Once
    <2>6. EachPartOnce'
      BY <1>2 DEF SendFinish, EachPartOnce
    <2>7. WholeUnlessNeeded'
      BY <1>2, <2>4 DEF SendFinish, WholeUnlessNeeded, PartsContents
    <2> QED
      BY <2>5, <2>6, <2>7 DEF PartsContents
  <1>3. CASE GiveUp
    BY <1>3 DEF GiveUp, EachPartOnce, FinishMakesTheFile, FinishWritesEveryByte, WholeUnlessNeeded, Stored,
       PartsContents
  <1>4. CASE ServerCrashes
    <2>1. /\ \A a \in Attempts : finish'[a].at = "none"
          /\ client' # "parts" /\ needed' = needed /\ file' = file /\ stuck' = stuck /\ leftover' = leftover
      BY <1>4 DEF ServerCrashes, NoFinish
    <2>2. EachPartOnce' /\ \A a \in Attempts : (FinishWritesEveryByte(a) /\ FinishMakesTheFile(a))'
      BY <2>1 DEF EachPartOnce, FinishMakesTheFile, FinishWritesEveryByte
    <2>3. WholeUnlessNeeded'
      BY <2>1 DEF WholeUnlessNeeded, PartsContents
    <2> QED
      BY <2>2, <2>3 DEF PartsContents
  <1>5. CASE CleanUp
    BY <1>5 DEF CleanUp
  <1> QED
    BY <1>1, <1>2, <1>3, <1>4, <1>5

\* The invariant holds at first and is kept by every step.
LEMMA PartsInitially == PartsInit => PartsInv
  <1> SUFFICES ASSUME PartsInit PROVE PartsInv
    OBVIOUS
  <1> USE PartsAssumption DEF PartsInit, NoFinish, Attempts
  <1>1. PartsTypeOK /\ Begun
    <2>1. NoFinish \in [at : {"none", "sent", "read", "write", "stored"},
                         chunks : Seq(ChunkStarts(Length))]
      OBVIOUS
    <2>2. finish \in [Attempts -> [at : {"none", "sent", "read", "write", "stored"},
                                  chunks : Seq(ChunkStarts(Length))]]
      <3> HIDE DEF NoFinish, Attempts
      <3> QED
        BY <2>1
    <2>3. rows \in Seq(ChunkStarts(Length)) /\ attempt \in 0 .. MaxAttempts
      OBVIOUS
    <2> HIDE DEF Attempts
    <2> QED
      BY <2>2, <2>3 DEF PartsTypeOK, Begun, disturbances
  <1>2. OneFinish
    BY DEF OneFinish
  <1>3. PartsContents
    BY DEF PartsContents, EachPartOnce, FinishMakesTheFile, FinishWritesEveryByte, WholeUnlessNeeded
  <1> QED
    BY <1>1, <1>2, <1>3 DEF PartsInv

\* Every step keeps the invariant.
LEMMA PartsStep == PartsInv /\ [PartsNext]_partsVars => PartsInv'
  <1> SUFFICES ASSUME PartsInv, [PartsNext]_partsVars PROVE PartsInv'
    OBVIOUS
  <1>1. PartsTypeOK /\ Begun /\ PartsTypeOK' /\ Begun'
    BY PartsTypeStep DEF PartsInv
  <1>2. ~overlapped' => ~overlapped /\ OneFinish /\ OneFinish'
    BY <1>1, DisturbancesStay, OneFinishStep DEF PartsInv
  <1>3. ASSUME ~overlapped', ~trimmed' PROVE PartsContents'
    <2>1. PartsContents /\ OneFinish
      BY <1>1, <1>2, <1>3, DisturbancesStay DEF PartsInv
    <2>2. CASE UNCHANGED partsVars
      BY <2>1, <2>2 DEF partsVars, disturbances, PartsContents, EachPartOnce, FinishMakesTheFile,
         FinishWritesEveryByte, WholeUnlessNeeded, Sent, Stored
    <2>3. CASE PartsNext
      BY <1>1, <1>3, <2>1, <2>3, SendingStep, FinishingStep, UploadStep DEF PartsNext
    <2> QED
      BY <2>2, <2>3
  <1> QED
    BY <1>1, <1>2, <1>3 DEF PartsInv

\* The invariant gives the properties.
LEMMA InvPartsMakeTheFile == PartsInv => PartsMakeTheFile
  <1> SUFFICES ASSUME PartsInv PROVE PartsMakeTheFile
    OBVIOUS
  <1>1. ReceivedIsWhole /\ RetriedHasEveryByte
    BY DEF PartsInv, ReceivedIsWhole, RetriedHasEveryByte, Undisturbed, PartsContents, WholeUnlessNeeded
  <1>2. AnsweredLeavesNoParts
    BY DEF PartsInv, AnsweredLeavesNoParts, OneFinish
  <1> QED
    BY <1>1, <1>2 DEF PartsInv, PartsMakeTheFile

(* When the server stops asking for a file it has every byte in its place,    *)
(* whatever order the parts came in and wherever an upload before was cut     *)
(* short; each byte once, unless that upload left parts, which then are there *)
(* again right after themselves.  And an upload that was answered leaves no   *)
(* part behind.  For any length, any chunk size and any number of attempts.   *)
THEOREM PartsMakeTheFileCorrect == PartsSpec => []PartsMakeTheFile
  <1>1. PartsInit => PartsInv
    BY PartsInitially
  <1>2. PartsInv /\ [PartsNext]_partsVars => PartsInv'
    BY PartsStep
  <1>3. PartsInv => PartsMakeTheFile
    BY InvPartsMakeTheFile
  <1> QED
    BY <1>1, <1>2, <1>3, PTL DEF PartsSpec
=============================================================================

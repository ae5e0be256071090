--------------------------- MODULE UniverseProofs ---------------------------
(* Proofs about Universe, for any catalogue of objects, callers and requests. *)
EXTENDS Universe, FiniteSetTheorems, SequenceTheorems, WellFoundedInduction, TLAPS

----------------------------------------------------------------------------
(* Types *)

AllRows ==
    Objects \cup ({"value"} \X Objects \X Objects) \cup ({"detail", "ship skills"} \X Objects)
StepSet ==
    {Fetch, Access} \cup {Need(o) : o \in Creatable} \cup {Spawn(o) : o \in Creatable}
    \cup {Insert(r) : r \in AllRows} \cup {Upsert(S) : S \in SUBSET AllRows}
    \cup {Missing(S) : S \in SUBSET Objects} \cup {Fan(J) : J \in SUBSET Entries}
Places == {"enter", "wait", "run", "fan", "fail"}
Frames == [job : Jobs, pc : Nat, failed : BOOLEAN, at : Places]
Outcomes == {"none", "ok", "error"}

\* A frame is at a step of its routine, at the end, or before its beginning.
FrameOK(f) ==
    /\ f.pc \in 1..(Len(Program[f.job]) + 1)
    /\ f.at \in {"enter", "wait"} => f.pc = 1 /\ f.job[1] \in {"create", "category"}
    /\ f.at = "fail" => f.pc <= Len(Program[f.job])
    /\ f.at = "fan" => f.pc <= Len(Program[f.job]) /\ Program[f.job][f.pc][1] = "fan"
\* The frame f called the frame g.
Calls(f, g) ==
    /\ f.at = "run" /\ f.pc <= Len(Program[f.job])
    /\ g.job[1] \in {"create", "hidden"}
    /\ Program[f.job][f.pc] = Need(g.job[2])
StackOK(s) ==
    /\ s \in Seq(Frames) /\ s # <<>>
    /\ \A i \in 1..Len(s) : FrameOK(s[i])
    /\ \A i \in 1..Len(s) : i + 1 <= Len(s) => Calls(s[i], s[i + 1])
    /\ s[1].job \in Entries
\* A goroutine that belongs to another one, which waits for it.
MemberOK(S, u) ==
    u[1] = "member" => /\ u = Member(u[2], u[3]) /\ u[2] \in DOMAIN S
                       /\ LET f == Last(S[u[2]])
                          IN  f.at = "fan" /\ u[3] \in Program[f.job][f.pc][2]
                       /\ S[u][1].job = u[3]
StacksOK(S) ==
    /\ S = [u \in DOMAIN S |-> S[u]]
    /\ \A u \in DOMAIN S : StackOK(S[u]) /\ MemberOK(S, u)
ValuesOK ==
    /\ rows \subseteq AllRows /\ cut \subseteq rows
    /\ request \in Requests /\ outcome \in [Callers -> Outcomes] /\ faults \in 0..MaxFaults
    /\ \A c \in Callers :
         outcome[c] # "none" \/ Caller(c) \in Goroutines => request[c] \in Entries
TypeInv == ValuesOK /\ StacksOK(stack)

----------------------------------------------------------------------------
(* One execution of a key *)

\* The i-th frame of u executes the routine of the key k.
Executes(f, k) == Keyed(f.job) /\ Key(f.job) = k /\ f.at \in {"run", "fan", "fail"}
Runs(S, u, i, k) == u \in DOMAIN S /\ i \in 1..Len(S[u]) /\ Executes(S[u][i], k)
FlightOK(F, S) ==
    /\ \A k \in F : \E u, i : Runs(S, u, i, k)
    /\ \A k, u, i : Runs(S, u, i, k) => k \in F
    /\ \A k, u, i, v, m : Runs(S, u, i, k) /\ Runs(S, v, m, k) => u = v /\ i = m
    /\ \A u \in DOMAIN S : Last(S[u]).at = "wait" => Key(Last(S[u]).job) \in F
FlightInv == FlightOK(flights, stack)

----------------------------------------------------------------------------
(* What has been done *)

\* What a step that has succeeded leaves in the tables, and what it writes.
Gives(s) == IF s[1] \in {"need", "insert"} THEN {s[2]} ELSE IF s[1] = "upsert" THEN s[2] ELSE {}
Writes(s) == IF s[1] = "insert" THEN {s[2]} ELSE IF s[1] = "upsert" THEN s[2] ELSE {}
JobDone(R, j) == \A n \in 1..Len(Program[j]) : Gives(Program[j][n]) \subseteq R
StepDone(R, s) == Gives(s) \subseteq R /\ (s[1] = "fan" => \A j \in s[2] : JobDone(R, j))
FrameDone(R, f) == \A n \in 1..(f.pc - 1) : StepDone(R, Program[f.job][n])
\* The jobs of an errgroup are done or under way, or one of them has failed.
FanDone(R, S, u) ==
    LET f == Last(S[u])
    IN  f.at = "fan" /\ ~f.failed =>
            \A j \in Program[f.job][f.pc][2] : JobDone(R, j) \/ Member(u, j) \in DOMAIN S
DoneOK(R, S) ==
    /\ \A u \in DOMAIN S : \A i \in 1..Len(S[u]) : FrameDone(R, S[u][i])
    /\ \A u \in DOMAIN S : FanDone(R, S, u)
DoneInv == DoneOK(rows, stack)

Complete(R, t) == \A x \in All(t, "attribute") \cup All(t, "effect") : Link(t, x) \in R
\* The routine that creates t has stored the row of t and goes on.
Past(f, t) ==
    /\ f.job = <<"create", t>> /\ f.at \in {"run", "fan", "fail"}
    /\ \E n \in 1..(f.pc - 1) : Program[f.job][n] = Insert(t)
GoesOn(S, t) == \E u \in DOMAIN S : \E i \in 1..Len(S[u]) : Past(S[u][i], t)
PartialOK(R, C, S) ==
    \A t \in R : Kind(t) = "type" => Complete(R, t) \/ t \in C \/ GoesOn(S, t)
PartialInv == PartialOK(rows, cut, stack)

IInv == TypeInv /\ FlightInv /\ DoneInv /\ PartialInv
----------------------------------------------------------------------------
(* Sequences of steps *)

\* A set of numbers has a least one.
LEMMA LeastNumber ==
    ASSUME NEW N \in SUBSET Nat, N # {}
    PROVE  \E m \in N : \A n \in N : m <= n
<1>1. PICK m \in N : \A n \in N : ~(<<n, m>> \in OpToRel(<, Nat))
  BY NatLessThanWellFounded, WFMin, Zenon
<1>2. ASSUME NEW n \in N PROVE m <= n
  <2>1. n < m => <<n, m>> \in OpToRel(<, Nat)
    BY DEF OpToRel
  <2>2. ~(n < m)
    BY <1>1, <2>1, Zenon
  <2>. QED
    BY <2>2
<1>. QED
  BY <1>2

\* The sequence s is a part of w, after the first m elements of w.
Block(w, m, s) ==
    /\ m + Len(s) <= Len(w)
    /\ \A k \in 1..Len(s) : w[m + k] = s[k]

\* f flattens the first n sequences of q, step by step as FlattenSeq does.
Flattens(q, n, T, f) ==
    /\ f \in [1..n -> Seq(T)]
    /\ f = [i \in 1..n |-> IF i = 1 THEN q[i] ELSE f[i - 1] \o q[i]]

\* The first sequences of q can be flattened: the first one,
LEMMA FlattenOne ==
    ASSUME NEW T, NEW n \in Nat, NEW q \in [1..n -> Seq(T)], n >= 1
    PROVE  \E f : Flattens(q, 1, T, f)
<1>. DEFINE f == [i \in 1..1 |-> q[i]]
<1>1. f \in [1..1 -> Seq(T)]
  OBVIOUS
<1>2. f = [i \in 1..1 |-> IF i = 1 THEN q[i] ELSE f[i - 1] \o q[i]]
  OBVIOUS
<1>. QED
  BY <1>1, <1>2 DEF Flattens

\* ... and one more.
LEMMA FlattenNext ==
    ASSUME NEW T, NEW n \in Nat, NEW q \in [1..n -> Seq(T)],
           NEW m \in 1..n, m < n, \E f : Flattens(q, m, T, f)
    PROVE  \E f : Flattens(q, m + 1, T, f)
<1>1. PICK e : Flattens(q, m, T, e)
  OBVIOUS
<1>. DEFINE f == [i \in 1..(m + 1) |-> IF i = m + 1 THEN e[m] \o q[i] ELSE e[i]]
<1>2. e[m] \o q[m + 1] \in Seq(T)
  BY <1>1, ConcatProperties DEF Flattens
<1>3. f \in [1..(m + 1) -> Seq(T)]
  <2>1. ASSUME NEW i \in 1..(m + 1) PROVE (IF i = m + 1 THEN e[m] \o q[i] ELSE e[i]) \in Seq(T)
    <3>1. CASE i = m + 1
      BY <1>2, <3>1
    <3>2. CASE i # m + 1
      <4>1. i \in 1..m
        BY <3>2
      <4>2. e \in [1..m -> Seq(T)]
        BY <1>1 DEF Flattens
      <4>. QED
        BY <3>2, <4>1, <4>2
    <3>. QED
      BY <3>1, <3>2
  <2>. QED
    BY <2>1
<1>4. ASSUME NEW i \in 1..(m + 1)
      PROVE  f[i] = IF i = 1 THEN q[i] ELSE f[i - 1] \o q[i]
  <2>1. CASE i = m + 1
    <3>1. i # 1 /\ i - 1 \in 1..m /\ i - 1 \in 1..(m + 1) /\ i - 1 # m + 1 /\ i - 1 = m
      BY <2>1
    <3>2. f[i] = e[m] \o q[i]
      BY <2>1
    <3>3. f[i - 1] = e[i - 1]
      BY <3>1
    <3>. HIDE DEF f
    <3>. QED
      BY <3>1, <3>2, <3>3
  <2>2. CASE i # m + 1
    <3>1. i \in 1..m /\ f[i] = e[i]
      BY <1>4, <2>2
    <3>2. e[i] = IF i = 1 THEN q[i] ELSE e[i - 1] \o q[i]
      BY <1>1, <3>1 DEF Flattens
    <3>3. i # 1 => f[i - 1] = e[i - 1]
      BY <3>1
    <3>. QED
      BY <3>1, <3>2, <3>3
  <2>. QED
    BY <2>1, <2>2
<1>5. f = [i \in 1..(m + 1) |-> IF i = 1 THEN q[i] ELSE f[i - 1] \o q[i]]
  <2>1. DOMAIN f = 1..(m + 1)
    OBVIOUS
  <2>. HIDE DEF f
  <2>2. f = [i \in 1..(m + 1) |-> f[i]]
    BY <1>3
  <2>. QED
    BY <1>4, <2>2
<1>. HIDE DEF f
<1>. QED
  BY <1>3, <1>5 DEF Flattens

\* All of them can be.
LEMMA FlattenExists ==
    ASSUME NEW T, NEW n \in Nat, NEW q \in [1..n -> Seq(T)], n >= 1
    PROVE  \E f : Flattens(q, n, T, f)
<1>. DEFINE N == {m \in 1..n : ~\E f : Flattens(q, m, T, f)}
<1>. SUFFICES ASSUME N # {} PROVE FALSE
  <2>1. n \in 1..n
    OBVIOUS
  <2>. QED
    BY <2>1, Zenon
<1>0. N \in SUBSET Nat
  OBVIOUS
<1>1. PICK m \in N : \A k \in N : m <= k
  <2>. HIDE DEF N
  <2>. QED
    BY <1>0, LeastNumber
<1>2. m \in 1..n /\ ~\E f : Flattens(q, m, T, f)
  BY Zenon
<1>3. m # 1
  BY <1>2, FlattenOne, Zenon
<1>4. m - 1 \in 1..n /\ m - 1 < n /\ m - 1 \notin N
  <2>. HIDE DEF N
  <2>1. m - 1 \in 1..n /\ m - 1 < n /\ ~(m <= m - 1)
    BY <1>2, <1>3
  <2>. QED
    BY <1>1, <2>1
<1>5. \E f : Flattens(q, m - 1, T, f)
  BY <1>4, Zenon
<1>6. (m - 1) + 1 = m
  BY <1>2
<1>. HIDE DEF N
<1>7. \E f : Flattens(q, (m - 1) + 1, T, f)
  BY <1>4, <1>5, FlattenNext, Zenon
<1>. QED
  BY <1>2, <1>6, <1>7, Zenon

\* A sequence is a part of what it is appended to, and parts stay parts.
LEMMA ConcatBlocks ==
    ASSUME NEW T, NEW v \in Seq(T), NEW s \in Seq(T)
    PROVE  /\ v \o s \in Seq(T) /\ Len(v \o s) = Len(v) + Len(s)
           /\ Block(v \o s, 0, v) /\ Block(v \o s, Len(v), s)
           /\ \A m \in Nat : \A r \in Seq(T) : Block(v, m, r) => Block(v \o s, m, r)
  BY ConcatProperties DEF Block

\* w is made of the first n sequences of q: each one is a part of w, and there
\* is nothing else in w.
Joins(q, n, T, w) ==
    /\ w \in Seq(T)
    /\ \A i \in 1..n : \E m \in Nat : Block(w, m, q[i])
    /\ \A k \in 1..Len(w) : \E i \in 1..n : \E m \in Nat :
         Block(w, m, q[i]) /\ m < k /\ k <= m + Len(q[i])

\* What is appended to a joint sequence joins it.
LEMMA JoinsNext ==
    ASSUME NEW T, NEW n \in Nat, NEW q \in [1..n -> Seq(T)],
           NEW m \in 1..n, m < n, NEW w, Joins(q, m, T, w)
    PROVE  Joins(q, m + 1, T, w \o q[m + 1])
<1>. DEFINE s == q[m + 1]
            v == w \o s
<1>1. w \in Seq(T) /\ s \in Seq(T)
  BY DEF Joins
<1>2. /\ v \in Seq(T) /\ Len(v) = Len(w) + Len(s)
      /\ Block(v, 0, w) /\ Block(v, Len(w), s)
      /\ \A k \in Nat : \A r \in Seq(T) : Block(w, k, r) => Block(v, k, r)
  BY <1>1, ConcatBlocks
<1>3. Len(w) \in Nat /\ Len(s) \in Nat
  BY <1>1, LenProperties
<1>. HIDE DEF v
<1>4. ASSUME NEW i \in 1..(m + 1)
      PROVE  \E k \in Nat : Block(v, k, q[i])
  <2>1. CASE i = m + 1
    BY <1>2, <1>3, <2>1
  <2>2. CASE i # m + 1
    <3>1. i \in 1..m /\ q[i] \in Seq(T)
      BY <2>2
    <3>2. PICK k \in Nat : Block(w, k, q[i])
      BY <3>1 DEF Joins
    <3>. QED
      BY <1>2, <3>1, <3>2
  <2>. QED
    BY <2>1, <2>2
<1>5. ASSUME NEW k \in 1..Len(v)
      PROVE  \E i \in 1..(m + 1) : \E l \in Nat :
               Block(v, l, q[i]) /\ l < k /\ k <= l + Len(q[i])
  <2>1. CASE k <= Len(w)
    <3>1. k \in 1..Len(w)
      BY <1>3, <2>1
    <3>2. PICK i \in 1..m, l \in Nat : Block(w, l, q[i]) /\ l < k /\ k <= l + Len(q[i])
      BY <3>1 DEF Joins
    <3>3. i \in 1..(m + 1) /\ q[i] \in Seq(T)
      OBVIOUS
    <3>. QED
      BY <1>2, <3>2, <3>3
  <2>2. CASE k > Len(w)
    <3>1. m + 1 \in 1..(m + 1) /\ Len(w) < k /\ k <= Len(w) + Len(s)
      BY <1>2, <1>3, <2>2
    <3>. QED
      BY <1>2, <1>3, <3>1
  <2>. QED
    BY <1>2, <1>3, <2>1, <2>2
<1>. QED
  BY <1>2, <1>4, <1>5 DEF Joins, v

\* FlattenSeq joins the sequences of q.
LEMMA FlattenJoins ==
    ASSUME NEW T, NEW n \in Nat, NEW q \in [1..n -> Seq(T)]
    PROVE  Joins(q, n, T, FlattenSeq(q))
<1>0. Len(q) = n /\ q \in Seq(Seq(T))
  BY IsASeq, LenProperties
<1>1. CASE n = 0
  <2>1. FlattenSeq(q) = q
    BY <1>0, <1>1 DEF FlattenSeq
  <2>2. q \in Seq(T) /\ Len(q) = 0
    BY <1>0, <1>1
  <2>. QED
    BY <1>1, <2>1, <2>2 DEF Joins
<1>2. CASE n # 0
  <2>. DEFINE f == CHOOSE f : f = [i \in 1..n |-> IF i = 1 THEN q[i] ELSE f[i - 1] \o q[i]]
              N == {m \in 1..n : ~Joins(q, m, T, f[m])}
  <2>1. FlattenSeq(q) = f[n]
    BY <1>0, <1>2 DEF FlattenSeq
  <2>2. f = [i \in 1..n |-> IF i = 1 THEN q[i] ELSE f[i - 1] \o q[i]]
    <3>1. PICK g : Flattens(q, n, T, g)
      BY <1>2, FlattenExists
    <3>. QED
      BY <3>1 DEF Flattens
  <2>. HIDE DEF f
  <2>3. N = {}
    <3>. SUFFICES ASSUME N # {} PROVE FALSE
      OBVIOUS
    <3>0. N \in SUBSET Nat
      OBVIOUS
    <3>1. PICK m \in N : \A k \in N : m <= k
      <4>. HIDE DEF N
      <4>. QED
        BY <3>0, LeastNumber
    <3>2. m \in 1..n /\ ~Joins(q, m, T, f[m])
      OBVIOUS
    <3>3. CASE m = 1
      <4>1. f[1] = q[1] /\ q[1] \in Seq(T)
        BY <1>2, <2>2
      <4>2. Block(f[1], 0, q[1]) /\ 1 \in 1..1
        BY <4>1, LenProperties DEF Block
      <4>3. \A k \in 1..Len(f[1]) : 0 < k /\ k <= 0 + Len(q[1])
        BY <4>1, LenProperties
      <4>4. Joins(q, 1, T, f[1])
        BY <4>1, <4>2, <4>3 DEF Joins
      <4>. QED
        BY <3>2, <3>3, <4>4
    <3>4. CASE m # 1
      <4>1. m - 1 \in 1..n /\ m - 1 < n /\ m - 1 \notin N
        <5>. HIDE DEF N
        <5>1. m - 1 \in 1..n /\ m - 1 < n /\ ~(m <= m - 1)
          BY <3>2, <3>4
        <5>. QED
          BY <3>1, <5>1
      <4>2. Joins(q, m - 1, T, f[m - 1])
        BY <4>1
      <4>. HIDE DEF N
      <4>3. (m - 1) + 1 = m /\ f[m] = f[m - 1] \o q[m]
        <5>1. (m - 1) + 1 = m
          BY <3>2
        <5>2. f[m] = IF m = 1 THEN q[m] ELSE f[m - 1] \o q[m]
          BY <2>2, <3>2
        <5>. QED
          BY <3>4, <5>1, <5>2
      <4>4. Joins(q, (m - 1) + 1, T, f[m - 1] \o q[(m - 1) + 1])
        BY <4>1, <4>2, JoinsNext
      <4>. QED
        BY <3>2, <4>3, <4>4
    <3>. QED
      BY <3>3, <3>4
  <2>4. n \in 1..n
    BY <1>2
  <2>. QED
    BY <2>1, <2>3, <2>4
<1>. QED
  BY <1>1, <1>2

\* SetToSeq goes through a finite set once.
LEMMA SetToSeqFacts ==
    ASSUME NEW S, IsFiniteSet(S)
    PROVE  LET s == SetToSeq(S)
           IN  /\ Len(s) \in Nat /\ s \in [1..Len(s) -> S]
               /\ \A x \in S : \E i \in 1..Len(s) : s[i] = x
<1>. DEFINE n == Cardinality(S)
            s == SetToSeq(S)
<1>1. n \in Nat /\ ExistsBijection(1..n, S)
  BY FS_CardinalityType
<1>. HIDE DEF n
<1>2. PICK b : b \in Bijection(1..n, S)
  BY <1>1 DEF ExistsBijection
<1>3. b \in [1..n -> S] /\ \A i, m \in 1..n : b[i] = b[m] => i = m
  BY <1>2 DEF Bijection, Injection, IsInjective
<1>4. IsInjective(b)
  BY <1>3 DEF IsInjective
<1>5. s \in [1..n -> S] /\ IsInjective(s)
  BY <1>3, <1>4 DEF SetToSeq, n
<1>. HIDE DEF s
<1>6. Len(s) = n
  BY <1>1, <1>5
<1>7. \A x \in S : \E i \in 1..n : s[i] = x
  <2>1. Cardinality(1..n) = n
    BY <1>1, FS_Interval
  <2>2. s \in Injection(1..n, S)
    BY <1>5 DEF Injection
  <2>3. s \in Surjection(1..n, S)
    BY <2>1, <2>2, FS_Injection DEF n
  <2>. QED
    BY <2>3 DEF Surjection
<1>. QED
  BY <1>1, <1>5, <1>6, <1>7 DEF s

\* Each joins the steps for every element of a finite set.
Joint(S, F, T, w) ==
    /\ w \in Seq(T)
    /\ \A x \in S : \E m \in Nat : Block(w, m, F[x])
    /\ \A k \in 1..Len(w) : \E x \in S : \E m \in Nat :
         Block(w, m, F[x]) /\ m < k /\ k <= m + Len(F[x])
\* The loops of the routines do the steps for every element, one element after the other.
LEMMA EachJoint ==
    ASSUME NEW T, NEW S, IsFiniteSet(S), NEW F \in [S -> Seq(T)]
    PROVE  LET s == SetToSeq(S)
           IN  Joint(S, F, T, FlattenSeq([i \in 1..Len(s) |-> F[s[i]]]))
<1>. DEFINE s == SetToSeq(S)
            n == Len(s)
            q == [i \in 1..n |-> F[s[i]]]
            w == FlattenSeq(q)
<1>1. n \in Nat /\ s \in [1..n -> S] /\ \A x \in S : \E i \in 1..n : s[i] = x
  BY SetToSeqFacts
<1>. HIDE DEF s, n
<1>2. q \in [1..n -> Seq(T)]
  BY <1>1
<1>3. Joins(q, n, T, w)
  BY <1>1, <1>2, FlattenJoins
<1>4. \A i \in 1..n : q[i] = F[s[i]] /\ s[i] \in S
  BY <1>1
<1>. HIDE DEF q, w
<1>5. Joint(S, F, T, w)
  <2>1. w \in Seq(T)
    BY <1>3 DEF Joins
  <2>2. ASSUME NEW x \in S PROVE \E m \in Nat : Block(w, m, F[x])
    <3>1. PICK i \in 1..n : s[i] = x
      BY <1>1
    <3>. QED
      BY <1>3, <1>4, <3>1 DEF Joins
  <2>3. ASSUME NEW k \in 1..Len(w)
        PROVE  \E x \in S : \E m \in Nat : Block(w, m, F[x]) /\ m < k /\ k <= m + Len(F[x])
    <3>1. PICK i \in 1..n, m \in Nat : Block(w, m, q[i]) /\ m < k /\ k <= m + Len(q[i])
      BY <1>3 DEF Joins
    <3>2. s[i] \in S /\ Block(w, m, F[s[i]]) /\ m < k /\ k <= m + Len(F[s[i]])
      BY <1>4, <3>1
    <3>. QED
      BY <3>2
  <2>. QED
    BY <2>1, <2>2, <2>3 DEF Joint
<1>. QED
  BY <1>5 DEF w, q, n, s

----------------------------------------------------------------------------
(* What the steps of a routine refer to *)

\* References of the rows for which they never change.
Refs(r) == IF r[1] = "ship skills" THEN {} ELSE References(r)
\* The steps w, of the set T, refer to what is in B and to what steps before
\* them have stored; once they are done, what is in C is there, too.
Leads(T, B, w, C) ==
    /\ w \in Seq(T)
    /\ \A n \in 1..Len(w) : \A r \in Writes(w[n]) : \A x \in Refs(r) :
         x \in B \/ \E m \in 1..(n - 1) : x \in Gives(w[m])
    /\ \A x \in C : x \in B \/ \E m \in 1..Len(w) : x \in Gives(w[m])

\* Steps one after the other.
LEMMA LeadsConcat ==
    ASSUME NEW T, NEW B, NEW C, NEW D, NEW v, NEW s,
           Leads(T, B, v, C), Leads(T, C, s, D)
    PROVE  Leads(T, B, v \o s, D)
<1>. DEFINE w == v \o s
<1>1. v \in Seq(T) /\ s \in Seq(T)
  BY DEF Leads
<1>2. /\ w \in Seq(T) /\ Len(w) = Len(v) + Len(s)
      /\ \A i \in 1..(Len(v) + Len(s)) : w[i] = IF i <= Len(v) THEN v[i] ELSE s[i - Len(v)]
  BY <1>1, ConcatProperties
<1>3. Len(w) \in Nat /\ Len(v) \in Nat /\ Len(s) \in Nat
  BY <1>1, <1>2, LenProperties
<1>. HIDE DEF w
<1>4. \A m \in 1..Len(v) : m \in 1..Len(w) /\ w[m] = v[m]
  BY <1>2, <1>3
<1>5. \A m \in 1..Len(s) : m + Len(v) \in 1..Len(w) /\ w[m + Len(v)] = s[m]
  BY <1>2, <1>3
<1>6. ASSUME NEW n \in 1..Len(w), NEW r \in Writes(w[n]), NEW x \in Refs(r)
      PROVE  x \in B \/ \E m \in 1..(n - 1) : x \in Gives(w[m])
  <2>1. CASE n <= Len(v)
    <3>1. n \in 1..Len(v) /\ w[n] = v[n]
      BY <1>2, <1>3, <2>1
    <3>2. x \in B \/ \E m \in 1..(n - 1) : x \in Gives(v[m])
      BY <1>6, <3>1 DEF Leads
    <3>3. \A m \in 1..(n - 1) : w[m] = v[m]
      BY <1>3, <1>4, <3>1
    <3>. QED
      BY <3>2, <3>3
  <2>2. CASE n > Len(v)
    <3>. DEFINE k == n - Len(v)
    <3>1. k \in 1..Len(s) /\ w[n] = s[k]
      BY <1>2, <1>3, <2>2
    <3>. HIDE DEF k
    <3>2. x \in C \/ \E m \in 1..(k - 1) : x \in Gives(s[m])
      BY <1>6, <3>1 DEF Leads
    <3>3. CASE x \in C
      <4>1. x \in B \/ \E m \in 1..Len(v) : x \in Gives(v[m])
        BY <3>3 DEF Leads
      <4>2. \A m \in 1..Len(v) : m \in 1..(n - 1) /\ w[m] = v[m]
        BY <1>3, <1>4, <2>2
      <4>. QED
        BY <4>1, <4>2
    <3>4. CASE \E m \in 1..(k - 1) : x \in Gives(s[m])
      <4>1. PICK m \in 1..(k - 1) : x \in Gives(s[m])
        BY <3>4
      <4>2. m \in 1..Len(s) /\ m + Len(v) \in 1..(n - 1)
        BY <1>3, <3>1 DEF k
      <4>. QED
        BY <1>5, <4>1, <4>2
    <3>. QED
      BY <3>2, <3>3, <3>4
  <2>. QED
    BY <1>3, <2>1, <2>2
<1>7. ASSUME NEW x \in D
      PROVE  x \in B \/ \E m \in 1..Len(w) : x \in Gives(w[m])
  <2>1. x \in C \/ \E m \in 1..Len(s) : x \in Gives(s[m])
    BY DEF Leads
  <2>2. x \in C => x \in B \/ \E m \in 1..Len(v) : x \in Gives(v[m])
    BY DEF Leads
  <2>. QED
    BY <1>4, <1>5, <2>1, <2>2
<1>. QED
  BY <1>2, <1>6, <1>7 DEF Leads, w

\* More may be there before, and less is asked for after them.
LEMMA LeadsWeaken ==
    ASSUME NEW T, NEW B, NEW C, NEW D, NEW E, NEW w, Leads(T, B, w, C),
           B \subseteq D, \A x \in E : x \in C \/ x \in D
    PROVE  Leads(T, D, w, E)
  BY DEF Leads

\* Steps of one set are steps of a larger one.
LEMMA LeadsMore ==
    ASSUME NEW T, NEW U, NEW B, NEW C, NEW w, Leads(T, B, w, C), T \subseteq U
    PROVE  Leads(U, B, w, C)
  BY SeqMonotonic DEF Leads

\* Each for a function in place of an operator.
Spread(S, F) == LET s == SetToSeq(S) IN FlattenSeq([i \in 1..Len(s) |-> F[s[i]]])
\* The same steps for every element of a set.
LEMMA LeadsEach ==
    ASSUME NEW T, NEW B, NEW C, NEW S, IsFiniteSet(S), NEW F, NEW G, F = [x \in S |-> F[x]],
           \A x \in S : Leads(T, B, F[x], G[x]),
           \A c \in C : c \in B \/ \E x \in S : c \in G[x]
    PROVE  Leads(T, B, Spread(S, F), C)
<1>. DEFINE w == Spread(S, F)
<1>1. \A x \in S : F[x] \in Seq(T) /\ Len(F[x]) \in Nat
  BY LenProperties DEF Leads
<1>2. F \in [S -> Seq(T)]
  BY <1>1
<1>3. Joint(S, F, T, w)
  BY <1>2, EachJoint DEF Spread
<1>. HIDE DEF w
<1>4. w \in Seq(T) /\ Len(w) \in Nat
  BY <1>3, LenProperties DEF Joint
<1>5. ASSUME NEW n \in 1..Len(w), NEW r \in Writes(w[n]), NEW y \in Refs(r)
      PROVE  y \in B \/ \E m \in 1..(n - 1) : y \in Gives(w[m])
  <2>1. PICK x \in S, m \in Nat : Block(w, m, F[x]) /\ m < n /\ n <= m + Len(F[x])
    BY <1>3 DEF Joint
  <2>. DEFINE k == n - m
  <2>2. k \in 1..Len(F[x]) /\ n = m + k
    BY <1>1, <2>1
  <2>. HIDE DEF k
  <2>3. w[n] = F[x][k]
    BY <2>1, <2>2 DEF Block
  <2>4. y \in B \/ \E l \in 1..(k - 1) : y \in Gives(F[x][l])
    BY <1>5, <2>2, <2>3 DEF Leads
  <2>5. \A l \in 1..(k - 1) : m + l \in 1..(n - 1) /\ w[m + l] = F[x][l]
    <3>1. \A l \in 1..(k - 1) : l \in 1..Len(F[x]) /\ m + l \in 1..(n - 1)
      BY <1>1, <2>2
    <3>. QED
      BY <2>1, <3>1 DEF Block
  <2>. QED
    BY <2>4, <2>5
<1>6. ASSUME NEW c \in C
      PROVE  c \in B \/ \E m \in 1..Len(w) : c \in Gives(w[m])
  <2>. SUFFICES ASSUME c \notin B PROVE \E m \in 1..Len(w) : c \in Gives(w[m])
    OBVIOUS
  <2>1. PICK x \in S : c \in G[x]
    OBVIOUS
  <2>2. PICK k \in 1..Len(F[x]) : c \in Gives(F[x][k])
    BY <2>1 DEF Leads
  <2>3. PICK m \in Nat : Block(w, m, F[x])
    BY <1>3 DEF Joint
  <2>4. m + k \in 1..Len(w) /\ w[m + k] = F[x][k]
    BY <1>1, <1>4, <2>2, <2>3 DEF Block
  <2>. QED
    BY <2>2, <2>4
<1>. QED
  BY <1>4, <1>5, <1>6 DEF Leads, w

----------------------------------------------------------------------------
(* The routines *)

\* Rows that may be written anywhere, and steps that are only that.
PlainRows == {r \in AllRows : r[1] \notin {"type", "ship skills"}}
Quiet ==
    {Fetch} \cup {Need(o) : o \in Creatable} \cup {Spawn(o) : o \in Creatable}
    \cup {Insert(r) : r \in PlainRows} \cup {Upsert(S) : S \in SUBSET PlainRows}
    \cup {Missing(S) : S \in SUBSET Objects}

\* Quiet steps are steps.
LEMMA QuietSteps == Quiet \subseteq StepSet
  BY DEF Quiet, StepSet, PlainRows

\* One step.
LEMMA LeadsOne ==
    ASSUME NEW T, NEW B, NEW C, NEW e \in T,
           \A r \in Writes(e) : Refs(r) \subseteq B,
           \A x \in C : x \in B \/ x \in Gives(e)
    PROVE  Leads(T, B, <<e>>, C)
<1>1. <<e>> \in Seq(T) /\ Len(<<e>>) = 1 /\ <<e>>[1] = e
  OBVIOUS
<1>. DEFINE w == <<e>>
<1>. HIDE DEF w
<1>2. w \in Seq(T) /\ Len(w) = 1 /\ w[1] = e
  BY <1>1 DEF w
<1>3. Leads(T, B, w, C)
  BY <1>2 DEF Leads
<1>. QED
  BY <1>3 DEF w

\* Loops are over finitely many objects.
LEMMA SubsetsAreFinite ==
    ASSUME NEW S \in SUBSET Objects
    PROVE  IsFiniteSet(S)
  BY CatalogueAssumption, FS_Subset

\* What the reply for o names.
LEMMA Named ==
    ASSUME NEW o \in Objects, NEW k
    PROVE  All(o, k) \subseteq Of({k}) /\ All(o, k) \subseteq Objects /\ All(o, k) \subseteq Names[o]
  BY CatalogueAssumption DEF All, Of

\* Where the code takes the one object of a kind from a reply, there is one.
LEMMA NamedOnce ==
    ASSUME NEW k, NEW l, <<k, l>> \in Once, NEW o \in Of({k})
    PROVE  /\ o \in Objects /\ The(o, l) \in Objects /\ Kind(The(o, l)) = l
           /\ All(o, l) = {The(o, l)}
<1>1. o \in Objects
  BY DEF Of
<1>2. PICK x \in Objects : All(o, l) = {x}
  BY CatalogueAssumption
<1>3. \A y : y \in Names[o] /\ Kind(y) = l <=> y = x
  BY <1>2 DEF All
<1>4. The(o, l) = x
  BY <1>3 DEF The
<1>. QED
  BY <1>1, <1>2, <1>3, <1>4

\* The routine for a set of entities stores them.
LEMMA MissingEntities ==
    ASSUME NEW B, NEW S \in SUBSET Of({"entity"})
    PROVE  Leads(Quiet, B, AddMissingEntities(S), B \cup S)
<1>1. IsFiniteSet(S) /\ S \subseteq Objects /\ \A e \in S : e[1] = "entity"
  BY SubsetsAreFinite DEF Of, Kind
<1>2. \A e \in S : Upsert({e}) \in Quiet
  BY <1>1 DEF Quiet, PlainRows, AllRows
<1>3. \A e \in S : Refs(e) = {}
  BY <1>1 DEF Refs, References
<1>4. Missing(S) \in Quiet
  BY <1>1 DEF Quiet
<1>5. Leads(Quiet, B, <<Missing(S)>>, B)
  BY <1>4, LeadsOne DEF Writes, Missing
<1>6. Leads(Quiet, B, Each(S, LAMBDA e : <<Upsert({e})>>), B \cup S)
  <2>. DEFINE F == [e \in S |-> <<Upsert({e})>>]
              G == [e \in S |-> {e}]
              s == SetToSeq(S)
  <2>1. ASSUME NEW e \in S PROVE Leads(Quiet, B, F[e], G[e])
    <3>1. Writes(Upsert({e})) = {e} /\ Gives(Upsert({e})) = {e}
      BY DEF Writes, Gives, Upsert
    <3>2. Leads(Quiet, B, <<Upsert({e})>>, {e})
      BY <1>2, <1>3, <3>1, LeadsOne
    <3>. QED
      BY <3>2
  <2>2. \A c \in B \cup S : c \in B \/ \E x \in S : c \in G[x]
    OBVIOUS
  <2>3. [i \in 1..Len(s) |-> F[s[i]]] = [i \in 1..Len(s) |-> <<Upsert({s[i]})>>]
    BY <1>1, SetToSeqFacts
  <2>4. Each(S, LAMBDA e : <<Upsert({e})>>) = Spread(S, F)
    BY <2>3 DEF Each, Spread
  <2>5. F = [x \in S |-> F[x]]
    OBVIOUS
  <2>. HIDE DEF F, G
  <2>6. Leads(Quiet, B, Spread(S, F), B \cup S)
    BY <1>1, <2>1, <2>2, <2>5, LeadsEach
  <2>. QED
    BY <2>4, <2>6, Zenon
<1>. QED
  BY <1>5, <1>6, LeadsConcat DEF AddMissingEntities

\* What a step may be, and what it does.
LEMMA StepKinds ==
    /\ Fetch \in Quiet /\ Gives(Fetch) = {} /\ Writes(Fetch) = {}
    /\ Access \in StepSet /\ Gives(Access) = {} /\ Writes(Access) = {}
    /\ \A o : Gives(Need(o)) = {o} /\ Writes(Need(o)) = {}
    /\ \A o : Gives(Insert(o)) = {o} /\ Writes(Insert(o)) = {o}
    /\ \A S : Gives(Upsert(S)) = S /\ Writes(Upsert(S)) = S
    /\ \A S : Gives(Missing(S)) = {} /\ Writes(Missing(S)) = {}
    /\ \A o : Gives(Spawn(o)) = {} /\ Writes(Spawn(o)) = {}
    /\ \A J : Gives(Fan(J)) = {} /\ Writes(Fan(J)) = {}
  BY DEF Gives, Writes, Fetch, Access, Need, Insert, Upsert, Missing, Spawn, Fan, Quiet, StepSet

\* To get or create an object, now or in the background, is quiet.
LEMMA QuietNeed ==
    ASSUME NEW o \in Creatable
    PROVE  Need(o) \in Quiet /\ Spawn(o) \in Quiet /\ o \in Objects
  BY DEF Quiet, Creatable, Of

\* Which rows may be written quietly: any but the row of a type.
LEMMA QuietRows ==
    /\ \A o \in Objects : Kind(o) # "type" => o \in PlainRows /\ Insert(o) \in Quiet
    /\ \A o, x \in Objects : Link(o, x) \in PlainRows /\ Insert(Link(o, x)) \in Quiet
    /\ \A o \in Objects : Detail(o) \in PlainRows
    /\ \A S \in SUBSET PlainRows : Upsert(S) \in Quiet
<1>1. \A o \in Objects : o[1] \in Created \cup {"entity", "effect", "root"}
  BY CatalogueAssumption DEF Kind
<1>2. \A o \in Objects : Kind(o) # "type" => o \in PlainRows
  BY <1>1 DEF PlainRows, AllRows, Kind, Created
<1>3. \A o, x \in Objects : Link(o, x) \in PlainRows
  BY DEF PlainRows, AllRows, Link
<1>4. \A o \in Objects : Detail(o) \in PlainRows
  BY DEF PlainRows, AllRows, Detail
<1>. QED
  BY <1>2, <1>3, <1>4 DEF Quiet

\* The same GetOrCreate for every object of a set.
LEMMA NeedEach ==
    ASSUME NEW B, NEW S \in SUBSET Creatable
    PROVE  Leads(Quiet, B, Each(S, LAMBDA x : <<Need(x)>>), B \cup S)
<1>. DEFINE F == [x \in S |-> <<Need(x)>>]
            G == [x \in S |-> {x}]
            s == SetToSeq(S)
<1>1. IsFiniteSet(S)
  BY SubsetsAreFinite DEF Creatable, Of
<1>2. ASSUME NEW x \in S PROVE Leads(Quiet, B, F[x], G[x])
  <2>1. Leads(Quiet, B, <<Need(x)>>, {x})
    BY QuietNeed, StepKinds, LeadsOne
  <2>. QED
    BY <2>1
<1>3. \A c \in B \cup S : c \in B \/ \E x \in S : c \in G[x]
  OBVIOUS
<1>4. [i \in 1..Len(s) |-> F[s[i]]] = [i \in 1..Len(s) |-> <<Need(s[i])>>]
  BY <1>1, SetToSeqFacts
<1>5. Each(S, LAMBDA x : <<Need(x)>>) = Spread(S, F)
  BY <1>4 DEF Each, Spread
<1>6. F = [x \in S |-> F[x]]
  OBVIOUS
<1>. HIDE DEF F, G
<1>7. Leads(Quiet, B, Spread(S, F), B \cup S)
  BY <1>1, <1>2, <1>3, <1>6, LeadsEach
<1>. QED
  BY <1>5, <1>7, Zenon

\* Two, three and four steps.
LEMMA LeadsTwo ==
    ASSUME NEW T, NEW a \in T, NEW b \in T, NEW B, NEW C,
           Writes(a) = {}, \A r \in Writes(b) : Refs(r) \subseteq B \cup Gives(a),
           C \subseteq Gives(a) \cup Gives(b)
    PROVE  Leads(T, B, <<a, b>>, C)
<1>. DEFINE w == <<a, b>>
<1>1. w \in Seq(T) /\ Len(w) = 2 /\ w[1] = a /\ w[2] = b
  OBVIOUS
<1>. HIDE DEF w
<1>2. Leads(T, B, w, C)
  <2>1. \A n \in 1..Len(w) : \A r \in Writes(w[n]) : \A x \in Refs(r) :
          x \in B \/ \E m \in 1..(n - 1) : x \in Gives(w[m])
    <3>1. \A n \in 1..Len(w) : n = 1 \/ n = 2
      BY <1>1
    <3>2. 1 \in 1..(2 - 1)
      OBVIOUS
    <3>. QED
      BY <1>1, <3>1, <3>2
  <2>. QED
    BY <1>1, <2>1 DEF Leads
<1>. QED
  BY <1>2 DEF w

\* Three steps, the last of which writes: it refers to what the second one got.
LEMMA LeadsThree ==
    ASSUME NEW T, NEW a \in T, NEW b \in T, NEW c \in T, NEW C,
           Writes(a) = {}, Writes(b) = {}, \A r \in Writes(c) : Refs(r) \subseteq Gives(b),
           C \subseteq Gives(b) \cup Gives(c)
    PROVE  Leads(T, {}, <<a, b, c>>, C)
<1>. DEFINE w == <<a, b, c>>
<1>1. w \in Seq(T) /\ Len(w) = 3 /\ w[1] = a /\ w[2] = b /\ w[3] = c
  OBVIOUS
<1>. HIDE DEF w
<1>2. Leads(T, {}, w, C)
  <2>1. \A n \in 1..Len(w) : \A r \in Writes(w[n]) : \A x \in Refs(r) :
          \E m \in 1..(n - 1) : x \in Gives(w[m])
    <3>1. \A n \in 1..Len(w) : n = 1 \/ n = 2 \/ n = 3
      BY <1>1
    <3>2. 2 \in 1..(3 - 1)
      OBVIOUS
    <3>. QED
      BY <1>1, <3>1, <3>2
  <2>. QED
    BY <1>1, <2>1 DEF Leads
<1>. QED
  BY <1>2 DEF w

\* The routines that fetch an object, perhaps get or create one other object,
\* and insert a row.
LEMMA PlainCreate ==
    ASSUME NEW o \in Objects, Kind(o) \in {"region", "category", "attribute", "race", "schematic"}
    PROVE  Leads(Quiet, {}, <<Fetch, Insert(o)>>, {o})
<1>1. Insert(o) \in Quiet
  BY QuietRows
<1>2. Refs(o) = {}
  BY DEF Refs, References, Kind
<1>. QED
  BY <1>1, <1>2, StepKinds, LeadsTwo

Below(k, l) ==
    <<k, l>> \in {<<"constellation", "region">>, <<"solar system", "constellation">>,
                  <<"moon", "solar system">>, <<"group", "category">>, <<"type", "group">>}
\* Fetch, get or create what the object belongs to, insert: the parent is there first.
LEMMA CreateBelow ==
    ASSUME NEW k, NEW l, Below(k, l), NEW o \in Of({k})
    PROVE  /\ Leads(StepSet, {}, <<Fetch, Need(The(o, l)), Insert(o)>>, {o})
           /\ k # "type" => Leads(Quiet, {}, <<Fetch, Need(The(o, l)), Insert(o)>>, {o})
<1>1. /\ o \in Objects /\ The(o, l) \in Objects /\ Kind(The(o, l)) = l
      /\ All(o, l) = {The(o, l)}
  <2>1. <<k, l>> \in Once
    BY DEF Once, Below
  <2>. QED
    BY <2>1, NamedOnce
<1>2. Kind(o) = k
  BY DEF Of
<1>3. The(o, l) \in Creatable
  BY <1>1 DEF Creatable, Created, Of, Below
<1>4. Refs(o) = {The(o, l)}
  BY <1>1, <1>2 DEF Refs, References, Kind, Below
<1>5. Need(The(o, l)) \in Quiet /\ Insert(o) \in StepSet /\ (k # "type" => Insert(o) \in Quiet)
  BY <1>1, <1>2, <1>3, QuietNeed, QuietRows DEF StepSet, AllRows
<1>6. Leads(StepSet, {}, <<Fetch, Need(The(o, l)), Insert(o)>>, {o})
  BY <1>4, <1>5, StepKinds, QuietSteps, LeadsThree
<1>7. k # "type" => Leads(Quiet, {}, <<Fetch, Need(The(o, l)), Insert(o)>>, {o})
  BY <1>4, <1>5, StepKinds, LeadsThree
<1>. QED
  BY <1>6, <1>7

\* A planet: its solar system and its type are there before its row.
LEMMA CreatePlanet ==
    ASSUME NEW o \in Of({"planet"})
    PROVE  Leads(Quiet, {}, createPlanetFromESI(o), {o})
<1>1. /\ o \in Objects /\ The(o, "solar system") \in Objects /\ The(o, "type") \in Objects
      /\ Kind(The(o, "solar system")) = "solar system" /\ Kind(The(o, "type")) = "type"
      /\ All(o, "solar system") = {The(o, "solar system")} /\ All(o, "type") = {The(o, "type")}
      /\ All(o, "entity") = {}
  <2>1. <<"planet", "solar system">> \in Once /\ <<"planet", "type">> \in Once
    BY DEF Once
  <2>. QED
    BY <2>1, NamedOnce, CatalogueAssumption
<1>2. Kind(o) = "planet"
  BY DEF Of
<1>3. Refs(o) = {The(o, "solar system"), The(o, "type")}
  BY <1>1, <1>2 DEF Refs, References, Kind
<1>. DEFINE a == Need(The(o, "solar system"))
            b == Need(The(o, "type"))
            c == Insert(o)
            w == <<Fetch, a, b, c>>
<1>4. Fetch \in Quiet /\ a \in Quiet /\ b \in Quiet /\ c \in Quiet
  <2>1. The(o, "solar system") \in Creatable /\ The(o, "type") \in Creatable
    BY <1>1 DEF Creatable, Created, Of
  <2>. QED
    BY <1>1, <1>2, <2>1, QuietNeed, QuietRows, StepKinds
<1>5. /\ Writes(Fetch) = {} /\ Writes(a) = {} /\ Writes(b) = {} /\ Writes(c) = {o}
      /\ Gives(a) = {The(o, "solar system")} /\ Gives(b) = {The(o, "type")} /\ Gives(c) = {o}
  BY StepKinds
<1>. HIDE DEF a, b, c
<1>6. w \in Seq(Quiet) /\ Len(w) = 4 /\ w[1] = Fetch /\ w[2] = a /\ w[3] = b /\ w[4] = c
  BY <1>4
<1>. HIDE DEF w
<1>7. Leads(Quiet, {}, w, {o})
  <2>1. \A n \in 1..Len(w) : \A r \in Writes(w[n]) : n = 4 /\ r = o
    <3>1. \A n \in 1..Len(w) : n = 1 \/ n = 2 \/ n = 3 \/ n = 4
      BY <1>6
    <3>. QED
      BY <1>5, <1>6, <3>1
  <2>2. \A x \in Refs(o) : x \in Gives(w[2]) \/ x \in Gives(w[3])
    BY <1>3, <1>5, <1>6
  <2>3. 2 \in 1..(4 - 1) /\ 3 \in 1..(4 - 1)
    OBVIOUS
  <2>4. 4 \in 1..Len(w) /\ o \in Gives(w[4])
    <3>1. 4 \in 1..Len(w)
      BY <1>6
    <3>2. Gives(w[4]) = {o}
      BY <1>5, <1>6, Zenon
    <3>. QED
      BY <3>1, <3>2
  <2>. QED
    BY <1>6, <2>1, <2>2, <2>3, <2>4 DEF Leads
<1>. QED
  BY <1>7 DEF w, a, b, c, createPlanetFromESI

\* A character: its corporation, alliance and faction are, and its race.
LEMMA CreateCharacter ==
    ASSUME NEW o \in Of({"eve character"})
    PROVE  Leads(Quiet, {}, createCharacterFromESI(o), {o})
<1>. DEFINE r == The(o, "race")
            E == All(o, "entity")
<1>1. o \in Objects /\ r \in Objects /\ Kind(r) = "race" /\ All(o, "race") = {r}
  <2>1. <<"eve character", "race">> \in Once
    BY DEF Once
  <2>. QED
    BY <2>1, NamedOnce
<1>2. Kind(o) = "eve character"
  BY DEF Of
<1>. HIDE DEF r
<1>3. Refs(o) = {r} \cup E
  BY <1>1, <1>2 DEF Refs, References, Kind
<1>4. Leads(Quiet, {}, <<Fetch>>, {})
  BY StepKinds, LeadsOne
<1>5. E \in SUBSET Of({"entity"})
  BY <1>1, Named
<1>. HIDE DEF E
<1>6. Leads(Quiet, {}, AddMissingEntities(E), {} \cup E)
  BY <1>5, MissingEntities
<1>7. Leads(Quiet, {}, <<Fetch>> \o AddMissingEntities(E), {} \cup E)
  BY <1>4, <1>6, LeadsConcat
<1>8. Leads(Quiet, {} \cup E, <<Need(r), Insert(o)>>, {o})
  <2>1. Need(r) \in Quiet /\ Insert(o) \in Quiet
    BY <1>1, <1>2, QuietNeed, QuietRows DEF Creatable, Created, Of
  <2>2. \A y \in Writes(Insert(o)) : Refs(y) \subseteq ({} \cup E) \cup Gives(Need(r))
    <3>1. Writes(Insert(o)) = {o} /\ Gives(Need(r)) = {r}
      BY StepKinds
    <3>. QED
      BY <1>3, <3>1
  <2>. QED
    BY <2>1, <2>2, StepKinds, LeadsTwo
<1>9. Leads(Quiet, {}, <<Fetch>> \o AddMissingEntities(E) \o <<Need(r), Insert(o)>>, {o})
  BY <1>7, <1>8, LeadsConcat
<1>. QED
  BY <1>9 DEF createCharacterFromESI, r, E

\* A station: its system, type and owner are.
LEMMA CreateStation ==
    ASSUME NEW o \in Of({"station"})
    PROVE  Leads(Quiet, {}, EveLocationStation(o), {o})
<1>. DEFINE s == The(o, "solar system")
            t == The(o, "type")
            E == All(o, "entity")
<1>1. /\ o \in Objects /\ s \in Objects /\ t \in Objects
      /\ Kind(s) = "solar system" /\ Kind(t) = "type"
      /\ All(o, "solar system") = {s} /\ All(o, "type") = {t}
  <2>1. <<"station", "solar system">> \in Once /\ <<"station", "type">> \in Once
    BY DEF Once
  <2>. QED
    BY <2>1, NamedOnce
<1>2. Kind(o) = "station"
  BY DEF Of
<1>. HIDE DEF s, t
<1>3. Refs(o) = {s, t} \cup E
  BY <1>1, <1>2 DEF Refs, References, Kind
<1>4. Leads(Quiet, {}, <<Fetch, Need(s), Need(t)>>, {s, t})
  BY <1>1, QuietNeed, StepKinds, LeadsThree DEF Creatable, Created, Of
<1>5. E \in SUBSET Of({"entity"})
  BY <1>1, Named
<1>. HIDE DEF E
<1>6. Leads(Quiet, {s, t}, AddMissingEntities(E), {s, t} \cup E)
  BY <1>5, MissingEntities
<1>7. Leads(Quiet, {}, <<Fetch, Need(s), Need(t)>> \o AddMissingEntities(E), {s, t} \cup E)
  BY <1>4, <1>6, LeadsConcat
<1>8. Leads(Quiet, {s, t} \cup E, <<Upsert({o})>>, {o})
  <2>1. Upsert({o}) \in Quiet
    BY <1>1, <1>2, QuietRows
  <2>2. \A r \in Writes(Upsert({o})) : Refs(r) \subseteq {s, t} \cup E
    BY <1>3, StepKinds
  <2>. QED
    BY <2>1, <2>2, StepKinds, LeadsOne
<1>9. Leads(Quiet, {}, <<Fetch, Need(s), Need(t)>> \o AddMissingEntities(E) \o <<Upsert({o})>>, {o})
  BY <1>7, <1>8, LeadsConcat
<1>. QED
  BY <1>9 DEF EveLocationStation, s, t, E

\* Any other location: the system and the type that it is known by are.
LEMMA CreatePlace ==
    ASSUME NEW o \in Of({"place"})
    PROVE  Leads(Quiet, {}, OtherLocation(o), {o})
<1>1. o \in Objects /\ Kind(o) = "place"
  BY DEF Of
<1>2. Names[o] \in SUBSET Creatable
  BY <1>1, CatalogueAssumption DEF Creatable, Created, Of
<1>3. Refs(o) \subseteq Names[o]
  BY <1>1 DEF Refs, References, Kind, All
<1>4. Leads(Quiet, {}, Each(Names[o], LAMBDA x : <<Need(x)>>), {} \cup Names[o])
  BY <1>2, NeedEach
<1>5. Leads(Quiet, {} \cup Names[o], <<Upsert({o})>>, {o})
  <2>1. Upsert({o}) \in Quiet
    BY <1>1, QuietRows
  <2>2. \A r \in Writes(Upsert({o})) : Refs(r) \subseteq Names[o]
    BY <1>3, StepKinds
  <2>. QED
    BY <2>1, <2>2, StepKinds, LeadsOne
<1>. QED
  BY <1>4, <1>5, LeadsConcat DEF OtherLocation

\* After its first steps h, v has only quiet ones.
Begins(v, h) ==
    /\ v \in Seq(StepSet) /\ Block(v, 0, h)
    /\ \A n \in (Len(h) + 1)..Len(v) : v[n] \in Quiet
\* What a routine begins with stays when quiet steps follow.
LEMMA BeginsConcat ==
    ASSUME NEW h \in Seq(StepSet), NEW v, Begins(v, h), NEW s \in Seq(Quiet)
    PROVE  Begins(v \o s, h)
<1>1. s \in Seq(StepSet) /\ v \in Seq(StepSet)
  BY QuietSteps, SeqMonotonic DEF Begins
<1>. DEFINE w == v \o s
<1>2. /\ w \in Seq(StepSet) /\ Len(w) = Len(v) + Len(s)
      /\ \A i \in 1..(Len(v) + Len(s)) : w[i] = IF i <= Len(v) THEN v[i] ELSE s[i - Len(v)]
  BY <1>1, ConcatProperties
<1>3. Len(h) \in Nat /\ Len(v) \in Nat /\ Len(s) \in Nat
  BY <1>1, LenProperties
<1>. HIDE DEF w
<1>4. Block(w, 0, h)
  BY <1>2, <1>3 DEF Block, Begins
<1>5. ASSUME NEW n \in (Len(h) + 1)..Len(w) PROVE w[n] \in Quiet
  <2>1. CASE n <= Len(v)
    <3>1. n \in (Len(h) + 1)..Len(v) /\ w[n] = v[n]
      BY <1>2, <1>3, <2>1
    <3>. QED
      BY <3>1 DEF Begins
  <2>2. CASE n > Len(v)
    <3>1. n - Len(v) \in 1..Len(s) /\ w[n] = s[n - Len(v)]
      BY <1>2, <1>3, <2>2
    <3>. QED
      BY <3>1
  <2>. QED
    BY <1>2, <1>3, <2>1, <2>2
<1>. QED
  BY <1>2, <1>4, <1>5 DEF Begins, w

\* It begins with all of itself.
LEMMA BeginsSelf ==
    ASSUME NEW h \in Seq(StepSet)
    PROVE  Begins(h, h)
<1>1. Len(h) \in Nat
  BY LenProperties
<1>. QED
  BY <1>1 DEF Begins, Block

\* A structure: the call that may be forbidden comes first, and only there.
LEMMA CreateStructure ==
    ASSUME NEW o \in Of({"structure"})
    PROVE  /\ Leads(StepSet, {}, EveLocationStructure(o), {o})
           /\ EveLocationStructure(o)[1] = Access
           /\ \A n \in 1..Len(EveLocationStructure(o)) :
                n # 1 => EveLocationStructure(o)[n] \in Quiet
<1>. DEFINE s == The(o, "solar system")
            E == All(o, "entity")
            S == All(o, "type")
            h == <<Access, Need(s)>>
            v1 == AddMissingEntities(E)
            v2 == Each(S, LAMBDA t : <<Need(t)>>)
            v3 == <<Upsert({o, Detail(o)})>>
<1>1. /\ o \in Objects /\ s \in Objects /\ Kind(s) = "solar system"
      /\ All(o, "solar system") = {s}
  <2>1. <<"structure", "solar system">> \in Once
    BY DEF Once
  <2>. QED
    BY <2>1, NamedOnce
<1>2. Kind(o) = "structure"
  BY DEF Of
<1>. HIDE DEF s
<1>3. Refs(o) = {s} \cup E \cup S /\ Refs(Detail(o)) = {}
  BY <1>1, <1>2 DEF Refs, References, Kind, Detail
<1>4. E \in SUBSET Of({"entity"}) /\ S \in SUBSET Creatable
  <2>1. E \subseteq Of({"entity"}) /\ S \subseteq Of({"type"})
    BY <1>1, Named
  <2>2. Of({"type"}) \subseteq Creatable
    BY DEF Creatable, Created, Of
  <2>. QED
    BY <2>1, <2>2
<1>. HIDE DEF E, S
<1>5. Leads(Quiet, {s}, v1, {s} \cup E)
  BY <1>4, MissingEntities
<1>6. Leads(Quiet, {s} \cup E, v2, ({s} \cup E) \cup S)
  BY <1>4, NeedEach
<1>7. Leads(Quiet, ({s} \cup E) \cup S, v3, {o})
  <2>1. Upsert({o, Detail(o)}) \in Quiet
    BY <1>1, <1>2, QuietRows
  <2>2. \A r \in Writes(Upsert({o, Detail(o)})) : Refs(r) \subseteq ({s} \cup E) \cup S
    <3>1. Writes(Upsert({o, Detail(o)})) = {o, Detail(o)}
      BY StepKinds
    <3>. QED
      BY <1>3, <3>1
  <2>3. \A x \in {o} : x \in Gives(Upsert({o, Detail(o)}))
    BY StepKinds
  <2>. QED
    BY <2>1, <2>2, <2>3, LeadsOne
<1>8. Need(s) \in Quiet /\ Need(s) \in StepSet
  BY <1>1, QuietNeed, QuietSteps DEF Creatable, Created, Of
<1>9. Leads(StepSet, {}, h, {s})
  BY <1>8, StepKinds, LeadsTwo
<1>10. h[1] = Access /\ h[2] = Need(s) /\ Len(h) = 2 /\ h \in Seq(StepSet)
  BY <1>9 DEF Leads
<1>. HIDE DEF h, v1, v2, v3
<1>11. v1 \in Seq(Quiet) /\ v2 \in Seq(Quiet) /\ v3 \in Seq(Quiet)
  BY <1>5, <1>6, <1>7 DEF Leads
<1>12. Leads(StepSet, {}, h \o v1 \o v2 \o v3, {o})
  <2>1. Leads(StepSet, {s}, v1, {s} \cup E)
    BY <1>5, QuietSteps, LeadsMore
  <2>2. Leads(StepSet, {s} \cup E, v2, ({s} \cup E) \cup S)
    BY <1>6, QuietSteps, LeadsMore
  <2>3. Leads(StepSet, ({s} \cup E) \cup S, v3, {o})
    BY <1>7, QuietSteps, LeadsMore
  <2>4. Leads(StepSet, {}, h \o v1, {s} \cup E)
    BY <1>9, <2>1, LeadsConcat
  <2>5. Leads(StepSet, {}, h \o v1 \o v2, ({s} \cup E) \cup S)
    BY <2>2, <2>4, LeadsConcat
  <2>. QED
    BY <2>3, <2>5, LeadsConcat
<1>13. Begins(h \o v1 \o v2 \o v3, h)
  <2>1. Begins(h, h)
    BY <1>10, BeginsSelf
  <2>2. Begins(h \o v1, h)
    BY <1>10, <1>11, <2>1, BeginsConcat
  <2>3. Begins(h \o v1 \o v2, h)
    BY <1>10, <1>11, <2>2, BeginsConcat
  <2>. QED
    BY <1>10, <1>11, <2>3, BeginsConcat
<1>14. EveLocationStructure(o) = h \o v1 \o v2 \o v3
  BY Zenon DEF EveLocationStructure, h, v1, v2, v3, s, E, S
<1>. DEFINE w == EveLocationStructure(o)
<1>. HIDE DEF w
<1>15. Begins(w, h) /\ Leads(StepSet, {}, w, {o})
  BY <1>12, <1>13, <1>14 DEF w
<1>16. w[1] = Access
  <2>1. Block(w, 0, h) /\ 1 \in 1..Len(h)
    BY <1>10, <1>15 DEF Begins
  <2>2. w[0 + 1] = h[1]
    BY <2>1 DEF Block
  <2>. QED
    BY <1>10, <2>2
<1>17. ASSUME NEW n \in 1..Len(w), n # 1 PROVE w[n] \in Quiet
  <2>1. CASE n = 2
    <3>1. Block(w, 0, h) /\ 2 \in 1..Len(h)
      BY <1>10, <1>15 DEF Begins
    <3>2. w[0 + 2] = h[2]
      BY <3>1 DEF Block
    <3>. QED
      BY <1>8, <1>10, <2>1, <3>2
  <2>2. CASE n # 2
    <3>1. n \in (Len(h) + 1)..Len(w)
      BY <1>10, <1>17, <2>2
    <3>. QED
      BY <1>15, <3>1 DEF Begins
  <2>. QED
    BY <2>1, <2>2
<1>. QED
  BY <1>15, <1>16, <1>17 DEF w

\* The goroutines for what a value of an attribute stands for.
LEMMA SpawnEach ==
    ASSUME NEW B, NEW o \in Objects, NEW a
    PROVE  Leads(Quiet, B, Each({m \in Mentions[o] : m[1] = a}, LAMBDA m : <<Spawn(m[2])>>), B)
<1>. DEFINE S == {m \in Mentions[o] : m[1] = a}
            F == [m \in S |-> <<Spawn(m[2])>>]
            G == [m \in S |-> {}]
            s == SetToSeq(S)
<1>1. S \subseteq Objects \X Of({"group", "type"})
  BY CatalogueAssumption
<1>2. IsFiniteSet(S)
  <2>1. Of({"group", "type"}) \in SUBSET Objects
    BY DEF Of
  <2>2. IsFiniteSet(Of({"group", "type"})) /\ IsFiniteSet(Objects)
    BY <2>1, SubsetsAreFinite, CatalogueAssumption
  <2>3. IsFiniteSet(Objects \X Of({"group", "type"}))
    BY <2>2, FS_Product
  <2>. QED
    BY <1>1, <2>3, FS_Subset
<1>. HIDE DEF S
<1>3. ASSUME NEW m \in S PROVE Leads(Quiet, B, F[m], G[m])
  <2>1. m[2] \in Creatable
    BY <1>1 DEF Creatable, Created, Of
  <2>2. Leads(Quiet, B, <<Spawn(m[2])>>, {})
    BY <2>1, QuietNeed, StepKinds, LeadsOne
  <2>. QED
    BY <2>2
<1>4. \A c \in B : c \in B \/ \E x \in S : c \in G[x]
  OBVIOUS
<1>5. [i \in 1..Len(s) |-> F[s[i]]] = [i \in 1..Len(s) |-> <<Spawn(s[i][2])>>]
  BY <1>2, SetToSeqFacts
<1>6. Each(S, LAMBDA m : <<Spawn(m[2])>>) = Spread(S, F)
  BY <1>5 DEF Each, Spread
<1>7. F = [x \in S |-> F[x]]
  OBVIOUS
<1>. HIDE DEF F, G
<1>8. Leads(Quiet, B, Spread(S, F), B)
  BY <1>2, <1>3, <1>4, <1>7, LeadsEach
<1>. QED
  BY <1>6, <1>8, Zenon DEF S

\* The values of a type's attributes, and its effects.
Valued(o, a) ==
    <<Need(a)>> \o Each({m \in Mentions[o] : m[1] = a}, LAMBDA m : <<Spawn(m[2])>>)
    \o <<Insert(Link(o, a))>>
\* One dogma attribute of a type: it is there before the value that refers to it.
LEMMA ValueOfAttribute ==
    ASSUME NEW o \in Objects, NEW a \in All(o, "attribute")
    PROVE  Leads(Quiet, {o}, Valued(o, a), {Link(o, a)})
<1>. DEFINE v == Each({m \in Mentions[o] : m[1] = a}, LAMBDA m : <<Spawn(m[2])>>)
            B == {o, a}
<1>1. a \in Of({"attribute"}) /\ a \in Objects
  BY Named
<1>2. a \in Creatable
  BY <1>1 DEF Creatable, Created, Of
<1>3. Leads(Quiet, {o}, <<Need(a)>>, B)
  BY <1>2, QuietNeed, StepKinds, LeadsOne
<1>4. Leads(Quiet, B, v, B)
  BY SpawnEach
<1>5. Refs(Link(o, a)) \subseteq B
  BY DEF Refs, References, Link
<1>. HIDE DEF B, v
<1>6. Leads(Quiet, B, <<Insert(Link(o, a))>>, {Link(o, a)})
  <2>1. Insert(Link(o, a)) \in Quiet
    BY <1>1, QuietRows
  <2>. QED
    BY <1>5, <2>1, StepKinds, LeadsOne
<1>7. Leads(Quiet, {o}, <<Need(a)>> \o v, B)
  BY <1>3, <1>4, LeadsConcat
<1>8. Leads(Quiet, {o}, <<Need(a)>> \o v \o <<Insert(Link(o, a))>>, {Link(o, a)})
  BY <1>6, <1>7, LeadsConcat
<1>. QED
  BY <1>8, Zenon DEF Valued, v

\* All attributes of a type, once its row is there: all values are stored.
LEMMA ValuesOfType ==
    ASSUME NEW o \in Objects
    PROVE  Leads(Quiet, {o}, Each(All(o, "attribute"), LAMBDA a : Valued(o, a)),
                 {o} \cup {Link(o, a) : a \in All(o, "attribute")})
<1>. DEFINE S == All(o, "attribute")
            F == [a \in S |-> Valued(o, a)]
            G == [a \in S |-> {Link(o, a)}]
            C == {o} \cup {Link(o, a) : a \in S}
            s == SetToSeq(S)
<1>1. IsFiniteSet(S)
  BY Named, SubsetsAreFinite
<1>2. \A a \in S : Leads(Quiet, {o}, Valued(o, a), {Link(o, a)})
  BY ValueOfAttribute
<1>. HIDE DEF S
<1>3. \A a \in S : Leads(Quiet, {o}, F[a], G[a])
  BY <1>2
<1>4. \A c \in C : c \in {o} \/ \E x \in S : c \in G[x]
  OBVIOUS
<1>5. [i \in 1..Len(s) |-> F[s[i]]] = [i \in 1..Len(s) |-> Valued(o, s[i])]
  BY <1>1, SetToSeqFacts
<1>6. Each(S, LAMBDA a : Valued(o, a)) = Spread(S, F)
  BY <1>5 DEF Each, Spread
<1>7. F = [x \in S |-> F[x]]
  OBVIOUS
<1>. HIDE DEF F, G, C
<1>8. Leads(Quiet, {o}, Spread(S, F), C)
  BY <1>1, <1>3, <1>4, <1>7, LeadsEach
<1>. QED
  BY <1>6, <1>8, Zenon DEF S, C

\* And all its effects.
LEMMA EffectsOfType ==
    ASSUME NEW o \in Objects, NEW B, o \in B
    PROVE  Leads(Quiet, B, Each(All(o, "effect"), LAMBDA e : <<Insert(Link(o, e))>>),
                 B \cup {Link(o, e) : e \in All(o, "effect")})
<1>. DEFINE S == All(o, "effect")
            F == [e \in S |-> <<Insert(Link(o, e))>>]
            G == [e \in S |-> {Link(o, e)}]
            C == B \cup {Link(o, e) : e \in S}
            s == SetToSeq(S)
<1>1. IsFiniteSet(S) /\ S \subseteq Objects /\ \A e \in S : Kind(e) = "effect"
  BY Named, SubsetsAreFinite DEF All
<1>. HIDE DEF S
<1>2. ASSUME NEW e \in S PROVE Leads(Quiet, B, F[e], G[e])
  <2>1. Refs(Link(o, e)) = {o}
    BY <1>1 DEF Refs, References, Link
  <2>2. Insert(Link(o, e)) \in Quiet
    BY <1>1, QuietRows
  <2>3. \A r \in Writes(Insert(Link(o, e))) : Refs(r) \subseteq B
    BY <2>1, StepKinds
  <2>4. Leads(Quiet, B, <<Insert(Link(o, e))>>, {Link(o, e)})
    BY <2>2, <2>3, StepKinds, LeadsOne
  <2>. QED
    BY <2>4
<1>4. \A c \in C : c \in B \/ \E x \in S : c \in G[x]
  OBVIOUS
<1>5. [i \in 1..Len(s) |-> F[s[i]]] = [i \in 1..Len(s) |-> <<Insert(Link(o, s[i]))>>]
  BY <1>1, SetToSeqFacts
<1>6. Each(S, LAMBDA e : <<Insert(Link(o, e))>>) = Spread(S, F)
  BY <1>5 DEF Each, Spread
<1>7. F = [x \in S |-> F[x]]
  OBVIOUS
<1>. HIDE DEF F, G, C
<1>8. Leads(Quiet, B, Spread(S, F), C)
  BY <1>1, <1>2, <1>4, <1>7, LeadsEach
<1>. QED
  BY <1>6, <1>8, Zenon DEF S, C

\* A type: its row is written by the third step, and only there.
LEMMA CreateType ==
    ASSUME NEW o \in Of({"type"})
    PROVE  LET w == createTypeFromESI(o)
           IN  /\ Leads(StepSet, {}, w, {o})
               /\ Leads(StepSet, {}, w,
                        {Link(o, x) : x \in All(o, "attribute") \cup All(o, "effect")})
               /\ Len(w) >= 3 /\ w[1] \in Quiet /\ w[2] \in Quiet /\ w[3] = Insert(o)
               /\ \A n \in 1..Len(w) : n # 3 => w[n] \in Quiet
<1>. DEFINE g == The(o, "group")
            h == <<Fetch, Need(g), Insert(o)>>
            v1 == Each(All(o, "attribute"), LAMBDA a : Valued(o, a))
            v2 == Each(All(o, "effect"), LAMBDA e : <<Insert(Link(o, e))>>)
            A == {Link(o, a) : a \in All(o, "attribute")}
            E == {Link(o, e) : e \in All(o, "effect")}
            w == h \o v1 \o v2
<1>1. o \in Objects /\ g \in Objects /\ Kind(g) = "group"
  <2>1. <<"type", "group">> \in Once
    BY DEF Once
  <2>. QED
    BY <2>1, NamedOnce
<1>2. Leads(StepSet, {}, h, {o})
  <2>1. Below("type", "group")
    BY DEF Below
  <2>. QED
    BY <2>1, CreateBelow
<1>3. Need(g) \in Quiet
  BY <1>1, QuietNeed DEF Creatable, Created, Of
<1>4. h[1] = Fetch /\ h[2] = Need(g) /\ h[3] = Insert(o) /\ Len(h) = 3 /\ h \in Seq(StepSet)
  BY <1>2 DEF Leads
<1>5. Leads(Quiet, {o}, v1, {o} \cup A)
  BY <1>1, ValuesOfType
<1>6. Leads(Quiet, {o} \cup A, v2, ({o} \cup A) \cup E)
  BY <1>1, EffectsOfType
<1>7. {Link(o, x) : x \in All(o, "attribute") \cup All(o, "effect")} \subseteq A \cup E
  OBVIOUS
<1>8. w = createTypeFromESI(o)
  BY Zenon DEF createTypeFromESI, Valued
<1>. HIDE DEF h, v1, v2, A, E, w
<1>9. v1 \in Seq(Quiet) /\ v2 \in Seq(Quiet)
  BY <1>5, <1>6 DEF Leads
<1>10. Leads(StepSet, {}, w, ({o} \cup A) \cup E)
  <2>1. Leads(StepSet, {o}, v1, {o} \cup A)
    BY <1>5, QuietSteps, LeadsMore
  <2>2. Leads(StepSet, {o} \cup A, v2, ({o} \cup A) \cup E)
    BY <1>6, QuietSteps, LeadsMore
  <2>3. Leads(StepSet, {}, h \o v1, {o} \cup A)
    BY <1>2, <2>1, LeadsConcat
  <2>. QED
    BY <2>2, <2>3, LeadsConcat DEF w
<1>11. /\ Leads(StepSet, {}, w, {o})
       /\ Leads(StepSet, {}, w, {Link(o, x) : x \in All(o, "attribute") \cup All(o, "effect")})
  BY <1>7, <1>10 DEF Leads
<1>12. Begins(w, h)
  <2>1. Begins(h, h)
    BY <1>4, BeginsSelf
  <2>2. Begins(h \o v1, h)
    BY <1>4, <1>9, <2>1, BeginsConcat
  <2>. QED
    BY <1>4, <1>9, <2>2, BeginsConcat DEF w
<1>13. Len(w) >= 3 /\ w[1] = Fetch /\ w[2] = Need(g) /\ w[3] = Insert(o)
  <2>1. Block(w, 0, h) /\ 1 \in 1..Len(h) /\ 2 \in 1..Len(h) /\ 3 \in 1..Len(h)
    BY <1>4, <1>12 DEF Begins
  <2>2. w[0 + 1] = h[1] /\ w[0 + 2] = h[2] /\ w[0 + 3] = h[3] /\ 0 + 3 <= Len(w)
    BY <1>4, <2>1 DEF Block
  <2>. QED
    BY <1>4, <2>2
<1>14. ASSUME NEW n \in 1..Len(w), n # 3 PROVE w[n] \in Quiet
  <2>1. CASE n = 1 \/ n = 2
    BY <1>3, <1>13, <2>1, StepKinds
  <2>2. CASE n # 1 /\ n # 2
    <3>1. n \in (Len(h) + 1)..Len(w)
      BY <1>4, <1>14, <2>2
    <3>. QED
      BY <1>12, <3>1 DEF Begins
  <2>. QED
    BY <2>1, <2>2
<1>. QED
  BY <1>3, <1>8, <1>11, <1>13, <1>14, StepKinds

----------------------------------------------------------------------------
(* The program *)

\* The table of programs holds the steps of every job.
LEMMA ProgramIs == \A j \in Jobs : Program[j] = Steps(j)
<1>1. Program = [j \in Jobs |-> Steps(j)]
  BY DEF Program
<1>. QED
  BY <1>1

\* What is known of a routine that creates o: all its steps are quiet but the
\* first one of a structure and the third one of a type.
Creates(o, w) ==
    /\ Leads(StepSet, {}, w, {o})
    /\ \A n \in 1..Len(w) :
         \/ w[n] \in Quiet
         \/ w[n] = Access /\ n = 1 /\ Kind(o) = "structure"
         \/ w[n] = Insert(o) /\ n = 3 /\ Kind(o) = "type"
\* A quiet routine that stores its object is one of the routines that create.
LEMMA QuietCreates ==
    ASSUME NEW o, NEW w, Leads(Quiet, {}, w, {o})
    PROVE  Creates(o, w)
<1>1. Leads(StepSet, {}, w, {o}) /\ w \in Seq(Quiet)
  BY QuietSteps, LeadsMore DEF Leads
<1>2. \A n \in 1..Len(w) : w[n] \in Quiet
  BY <1>1
<1>. QED
  BY <1>1, <1>2 DEF Creates

\* Every routine that creates an object stores it, and after what it refers to.
LEMMA CreateSteps ==
    ASSUME NEW o \in Creatable
    PROVE  Creates(o, Steps(<<"create", o>>))
<1>. DEFINE j == <<"create", o>>
            k == Kind(o)
<1>1. o \in Objects /\ k \in Created /\ j[1] = "create" /\ j[2] = o
  BY DEF Creatable, Of
<1>2. CASE k \in {"region", "category", "attribute", "race", "schematic"}
  <2>1. Steps(j) = <<Fetch, Insert(o)>>
    BY <1>1, <1>2 DEF Steps, createRegionFromESI, createCategoryFromESI,
       createDogmaAttributeFromESI, createRaceFromESI, createSchematicFromESI
  <2>2. Leads(Quiet, {}, <<Fetch, Insert(o)>>, {o})
    BY <1>1, <1>2, PlainCreate
  <2>. QED
    BY <2>1, <2>2, QuietCreates
<1>3. ASSUME NEW l, Below(k, l), k # "type"
      PROVE  Creates(o, <<Fetch, Need(The(o, l)), Insert(o)>>)
  <2>1. o \in Of({k})
    BY <1>1 DEF Of
  <2>. HIDE DEF k
  <2>2. Leads(Quiet, {}, <<Fetch, Need(The(o, l)), Insert(o)>>, {o})
    BY <1>3, <2>1, CreateBelow
  <2>. QED
    BY <2>2, QuietCreates
<1>4. CASE k = "constellation"
  <2>1. Steps(j) = <<Fetch, Need(The(o, "region")), Insert(o)>>
    BY <1>1, <1>4 DEF Steps, createConstellationFromESI
  <2>2. Below(k, "region")
    BY <1>4 DEF Below
  <2>. QED
    BY <1>3, <1>4, <2>1, <2>2
<1>5. CASE k = "solar system"
  <2>1. Steps(j) = <<Fetch, Need(The(o, "constellation")), Insert(o)>>
    BY <1>1, <1>5 DEF Steps, createSolarSystemFromESI
  <2>2. Below(k, "constellation")
    BY <1>5 DEF Below
  <2>. QED
    BY <1>3, <1>5, <2>1, <2>2
<1>6. CASE k = "moon"
  <2>1. Steps(j) = <<Fetch, Need(The(o, "solar system")), Insert(o)>>
    BY <1>1, <1>6 DEF Steps, createMoonFromESI
  <2>2. Below(k, "solar system")
    BY <1>6 DEF Below
  <2>. QED
    BY <1>3, <1>6, <2>1, <2>2
<1>7. CASE k = "group"
  <2>1. Steps(j) = <<Fetch, Need(The(o, "category")), Insert(o)>>
    BY <1>1, <1>7 DEF Steps, createGroupFromESI
  <2>2. Below(k, "category")
    BY <1>7 DEF Below
  <2>. QED
    BY <1>3, <1>7, <2>1, <2>2
<1>8. o \in Of({k})
  BY <1>1 DEF Of
<1>9. CASE k = "planet"
  <2>1. Steps(j) = createPlanetFromESI(o)
    BY <1>1, <1>9 DEF Steps
  <2>. QED
    BY <1>8, <1>9, <2>1, CreatePlanet, QuietCreates
<1>10. CASE k = "eve character"
  <2>1. Steps(j) = createCharacterFromESI(o)
    BY <1>1, <1>10 DEF Steps
  <2>. QED
    BY <1>8, <1>10, <2>1, CreateCharacter, QuietCreates
<1>11. CASE k = "station"
  <2>1. Steps(j) = EveLocationStation(o)
    BY <1>1, <1>11 DEF Steps
  <2>. QED
    BY <1>8, <1>11, <2>1, CreateStation, QuietCreates
<1>12. CASE k = "place"
  <2>1. Steps(j) = OtherLocation(o)
    BY <1>1, <1>12 DEF Steps
  <2>. QED
    BY <1>8, <1>12, <2>1, CreatePlace, QuietCreates
<1>13. CASE k = "structure"
  <2>1. Steps(j) = EveLocationStructure(o)
    BY <1>1, <1>13 DEF Steps
  <2>. QED
    <3>. DEFINE w == EveLocationStructure(o)
    <3>1. o \in Of({"structure"})
      BY <1>8, <1>13
    <3>2. Leads(StepSet, {}, w, {o}) /\ w[1] = Access /\ \A n \in 1..Len(w) : n # 1 => w[n] \in Quiet
      BY <3>1, CreateStructure
    <3>. HIDE DEF w
    <3>3. Creates(o, w)
      BY <1>13, <3>2 DEF Creates
    <3>. QED
      BY <2>1, <3>3 DEF w
<1>14. CASE k = "type"
  <2>1. Steps(j) = createTypeFromESI(o)
    BY <1>1, <1>14 DEF Steps
  <2>. QED
    <3>. DEFINE w == createTypeFromESI(o)
    <3>1. o \in Of({"type"})
      BY <1>8, <1>14
    <3>2. Leads(StepSet, {}, w, {o}) /\ w[3] = Insert(o) /\ \A n \in 1..Len(w) : n # 3 => w[n] \in Quiet
      BY <3>1, CreateType
    <3>. HIDE DEF w
    <3>3. Creates(o, w)
      BY <1>14, <3>2 DEF Creates
    <3>. QED
      BY <2>1, <3>3 DEF w
<1>. QED
  BY <1>1, <1>2, <1>4, <1>5, <1>6, <1>7, <1>9, <1>10, <1>11, <1>12, <1>13, <1>14 DEF Created

\* The jobs.
LEMMA Pair ==
    ASSUME NEW A, NEW B, NEW p \in A \X B
    PROVE  p = <<p[1], p[2]>> /\ p[1] \in A /\ p[2] \in B
  OBVIOUS
\* Which routine is for which kind of objects.
LEMMA JobKinds ==
    ASSUME NEW j \in Jobs
    PROVE  /\ j = <<j[1], j[2]>> /\ j[2] \in Objects
           /\ \/ j[1] \in {"get", "format", "create"} /\ j[2] \in Creatable
              \/ j[1] = "entity" /\ j[2] \in Of({"entity"})
              \/ j[1] = "hidden" /\ j[2] \in Of({"structure"})
              \/ j[1] = "category" /\ j[2] \in Of({"category"})
              \/ j[1] = "categories" /\ j[2] \in Of({"root"})
              \/ j[1] \in {"character", "affiliation"} /\ j[2] \in Of({"eve character"})
              \/ j[1] \in {"neighbours", "info", "planets"} /\ j[2] \in Of({"solar system"})
              \/ j[1] = "details" /\ (j[2] \in Of({"solar system"}) \/ j[2] \in Of({"eve character"}))
              \/ j[1] = "systems" /\ j[2] \in Of({"constellation"})
<1>1. \A K : Of(K) \subseteq Objects
  BY DEF Of
<1>. DEFINE In(K, S) == j \in K \X S
<1>2. \/ In({"get", "format", "create"}, Creatable)
      \/ In({"entity"}, Of({"entity"})) \/ In({"hidden"}, Of({"structure"}))
      \/ In({"category"}, Of({"category"})) \/ In({"categories"}, Of({"root"}))
      \/ In({"character", "affiliation", "details"}, Of({"eve character"}))
      \/ In({"details", "neighbours", "info"}, Of({"solar system"}))
      \/ In({"systems"}, Of({"constellation"})) \/ In({"planets"}, Of({"solar system"}))
  BY Zenon DEF Jobs
<1>3. \A K, S : In(K, S) => j = <<j[1], j[2]>> /\ j[1] \in K /\ j[2] \in S
  BY Pair
<1>. HIDE DEF In
<1>4. Creatable \subseteq Objects
  BY <1>1 DEF Creatable
<1>5. CASE In({"get", "format", "create"}, Creatable)
  <2>1. j = <<j[1], j[2]>> /\ j[1] \in {"get", "format", "create"} /\ j[2] \in Creatable
    BY <1>3, <1>5
  <2>. QED
    BY <1>1, <1>4, <2>1
<1>6. CASE In({"entity"}, Of({"entity"}))
  <2>1. j = <<j[1], j[2]>> /\ j[1] \in {"entity"} /\ j[2] \in Of({"entity"})
    BY <1>3, <1>6
  <2>. QED
    BY <1>1, <1>4, <2>1
<1>7. CASE In({"hidden"}, Of({"structure"}))
  <2>1. j = <<j[1], j[2]>> /\ j[1] \in {"hidden"} /\ j[2] \in Of({"structure"})
    BY <1>3, <1>7
  <2>. QED
    BY <1>1, <1>4, <2>1
<1>8. CASE In({"category"}, Of({"category"}))
  <2>1. j = <<j[1], j[2]>> /\ j[1] \in {"category"} /\ j[2] \in Of({"category"})
    BY <1>3, <1>8
  <2>. QED
    BY <1>1, <1>4, <2>1
<1>9. CASE In({"categories"}, Of({"root"}))
  <2>1. j = <<j[1], j[2]>> /\ j[1] \in {"categories"} /\ j[2] \in Of({"root"})
    BY <1>3, <1>9
  <2>. QED
    BY <1>1, <1>4, <2>1
<1>10. CASE In({"character", "affiliation", "details"}, Of({"eve character"}))
  <2>1. j = <<j[1], j[2]>> /\ j[1] \in {"character", "affiliation", "details"} /\ j[2] \in Of({"eve character"})
    BY <1>3, <1>10
  <2>. QED
    BY <1>1, <1>4, <2>1
<1>11. CASE In({"details", "neighbours", "info"}, Of({"solar system"}))
  <2>1. j = <<j[1], j[2]>> /\ j[1] \in {"details", "neighbours", "info"} /\ j[2] \in Of({"solar system"})
    BY <1>3, <1>11
  <2>. QED
    BY <1>1, <1>4, <2>1
<1>12. CASE In({"systems"}, Of({"constellation"}))
  <2>1. j = <<j[1], j[2]>> /\ j[1] \in {"systems"} /\ j[2] \in Of({"constellation"})
    BY <1>3, <1>12
  <2>. QED
    BY <1>1, <1>4, <2>1
<1>13. CASE In({"planets"}, Of({"solar system"}))
  <2>1. j = <<j[1], j[2]>> /\ j[1] \in {"planets"} /\ j[2] \in Of({"solar system"})
    BY <1>3, <1>13
  <2>. QED
    BY <1>1, <1>4, <2>1
<1>. QED
  BY <1>2, <1>5, <1>6, <1>7, <1>8, <1>9, <1>10, <1>11, <1>12, <1>13

\* What the jobs of an errgroup are.
LEMMA FanJobs ==
    ASSUME NEW o \in Objects
    PROVE  /\ {"category"} \X All(o, "category") \subseteq Entries
           /\ {"get"} \X All(o, "solar system") \subseteq Entries
           /\ {"details"} \X All(o, "solar system") \subseteq Entries
           /\ {"get"} \X All(o, "planet") \subseteq Entries
           /\ Kind(o) = "eve character" => {"affiliation", "details"} \X {o} \subseteq Entries
<1>1. /\ All(o, "category") \subseteq Of({"category"})
      /\ All(o, "solar system") \subseteq Of({"solar system"})
      /\ All(o, "planet") \subseteq Of({"planet"})
  BY Named
<1>2. Of({"solar system"}) \subseteq Creatable /\ Of({"planet"}) \subseteq Creatable
  BY DEF Creatable, Created, Of
<1>3. \A x \in Creatable : <<"get", x>> \in Entries
  BY DEF Entries, Jobs
<1>4. \A x \in Of({"category"}) : <<"category", x>> \in Entries
  BY DEF Entries, Jobs
<1>5. \A x \in Of({"solar system"}) : <<"details", x>> \in Entries
  BY DEF Entries, Jobs
<1>6. Kind(o) = "eve character" => o \in Of({"eve character"})
  BY DEF Of
<1>7. \A x \in Of({"eve character"}) : <<"affiliation", x>> \in Entries /\ <<"details", x>> \in Entries
  BY DEF Entries, Jobs
<1>8. \A k, S : (\A x \in S : <<k, x>> \in Entries) => {k} \X S \subseteq Entries
  OBVIOUS
<1>9. Kind(o) = "eve character" => {"affiliation", "details"} \X {o} \subseteq Entries
  <2>1. {"affiliation", "details"} \X {o} = {<<"affiliation", o>>, <<"details", o>>}
    OBVIOUS
  <2>. QED
    BY <1>6, <1>7, <2>1
<1>. QED
  BY <1>1, <1>2, <1>3, <1>4, <1>5, <1>8, <1>9

\* What is known of the other routines.
ShipSkills(j) == Upsert({<<"ship skills", j[2]>>})
Serves(j, w) ==
    /\ Leads(StepSet, {}, w, {})
    /\ \A n \in 1..Len(w) :
         \/ w[n] \in Quiet
         \/ \E J \in SUBSET Entries : w[n] = Fan(J)
         \/ /\ w[n] = ShipSkills(j) /\ n = 2 /\ j[1] = "categories"
            /\ w[1] = Fan({"category"} \X All(j[2], "category"))
\* A quiet routine is one of those that serve a caller.
LEMMA QuietServes ==
    ASSUME NEW j, NEW w, NEW C, Leads(Quiet, {}, w, C)
    PROVE  Serves(j, w)
<1>1. Leads(StepSet, {}, w, C) /\ w \in Seq(Quiet)
  BY QuietSteps, LeadsMore DEF Leads
<1>2. \A n \in 1..Len(w) : w[n] \in Quiet
  BY <1>1
<1>3. Leads(StepSet, {}, w, {})
  BY <1>1 DEF Leads
<1>. QED
  BY <1>2, <1>3 DEF Serves

\* Fetching several things.
LEMMA FetchEach ==
    ASSUME NEW B, NEW S \in SUBSET Objects
    PROVE  Leads(Quiet, B, Each(S, LAMBDA x : <<Fetch>>), B)
<1>. DEFINE F == [x \in S |-> <<Fetch>>]
            G == [x \in S |-> {}]
            s == SetToSeq(S)
<1>1. IsFiniteSet(S)
  BY SubsetsAreFinite
<1>2. ASSUME NEW x \in S PROVE Leads(Quiet, B, F[x], G[x])
  <2>1. Leads(Quiet, B, <<Fetch>>, {})
    BY StepKinds, LeadsOne
  <2>. QED
    BY <2>1
<1>3. \A c \in B : c \in B \/ \E x \in S : c \in G[x]
  OBVIOUS
<1>4. [i \in 1..Len(s) |-> F[s[i]]] = [i \in 1..Len(s) |-> <<Fetch>>]
  BY <1>1, SetToSeqFacts
<1>5. Each(S, LAMBDA x : <<Fetch>>) = Spread(S, F)
  BY <1>4 DEF Each, Spread
<1>6. F = [x \in S |-> F[x]]
  OBVIOUS
<1>. HIDE DEF F, G
<1>7. Leads(Quiet, B, Spread(S, F), B)
  BY <1>1, <1>2, <1>3, <1>6, LeadsEach
<1>. QED
  BY <1>5, <1>7, Zenon

\* A category: its types are there in the end.
TypesIn(c) == UNION {All(g, "type") : g \in All(c, "group")}
\* The update of a category gets or creates all its types.
LEMMA CategorySteps ==
    ASSUME NEW o \in Of({"category"})
    PROVE  Leads(Quiet, {}, UpdateCategoryWithChildrenESI(o), TypesIn(o))
<1>. DEFINE G == All(o, "group")
            S == TypesIn(o)
            v1 == Each(G, LAMBDA g : <<Fetch>>)
            v2 == Each(S, LAMBDA t : <<Need(t)>>)
<1>1. o \in Objects
  BY DEF Of
<1>2. G \in SUBSET Objects
  BY <1>1, Named
<1>3. S \in SUBSET Creatable
  <2>1. \A g \in G : All(g, "type") \subseteq Of({"type"})
    BY <1>2, Named
  <2>2. Of({"type"}) \subseteq Creatable
    BY DEF Creatable, Created, Of
  <2>. QED
    BY <2>1, <2>2 DEF TypesIn
<1>4. Leads(Quiet, {}, <<Fetch>>, {})
  BY StepKinds, LeadsOne
<1>. HIDE DEF G, S
<1>5. Leads(Quiet, {}, v1, {})
  BY <1>2, FetchEach
<1>6. Leads(Quiet, {}, v2, {} \cup S)
  BY <1>3, NeedEach
<1>. HIDE DEF v1, v2
<1>7. Leads(Quiet, {}, <<Fetch>> \o v1, {})
  BY <1>4, <1>5, LeadsConcat
<1>8. Leads(Quiet, {}, <<Fetch>> \o v1 \o v2, {} \cup S)
  BY <1>6, <1>7, LeadsConcat
<1>9. UpdateCategoryWithChildrenESI(o) = <<Fetch>> \o v1 \o v2
  BY Zenon DEF UpdateCategoryWithChildrenESI, v1, v2, G, S, TypesIn
<1>10. {} \cup S = S
  OBVIOUS
<1>. QED
  BY <1>8, <1>9, <1>10 DEF S

\* One errgroup after another step, and the like.
LEMMA ServesOne ==
    ASSUME NEW j, NEW J \in SUBSET Entries
    PROVE  Serves(j, <<Fan(J)>>)
<1>. DEFINE a == Fan(J)
<1>1. a \in StepSet /\ Writes(a) = {} /\ Gives(a) = {}
  BY StepKinds DEF StepSet
<1>2. Leads(StepSet, {}, <<a>>, {})
  BY <1>1, LeadsOne
<1>. HIDE DEF a
<1>3. \A n \in 1..Len(<<a>>) : <<a>>[n] = a
  OBVIOUS
<1>4. \A n \in 1..Len(<<a>>) : \E K \in SUBSET Entries : <<a>>[n] = Fan(K)
  BY <1>3 DEF a
<1>. QED
  BY <1>2, <1>4 DEF Serves, a

\* An errgroup or a call, and a second one or what is written then.
LEMMA ServesTwo ==
    ASSUME NEW j, NEW a \in StepSet, NEW b \in StepSet, Writes(a) = {},
           a \in Quiet \/ \E J \in SUBSET Entries : a = Fan(J),
           b \in Quiet \/ (\E J \in SUBSET Entries : b = Fan(J))
           \/ (/\ b = ShipSkills(j) /\ j[1] = "categories"
               /\ a = Fan({"category"} \X All(j[2], "category"))),
           \A r \in Writes(b) : Refs(r) = {}
    PROVE  Serves(j, <<a, b>>)
<1>. DEFINE w == <<a, b>>
<1>1. w \in Seq(StepSet) /\ Len(w) = 2 /\ w[1] = a /\ w[2] = b
  OBVIOUS
<1>2. Leads(StepSet, {}, w, {})
  BY LeadsTwo
<1>. HIDE DEF w
<1>3. \A n \in 1..Len(w) : n = 1 \/ n = 2
  BY <1>1
<1>4. Serves(j, w)
  BY <1>1, <1>2, <1>3 DEF Serves
<1>. QED
  BY <1>4 DEF w

\* The news of an object and the entities it names.
LEMMA FetchEntities ==
    ASSUME NEW o \in Objects, NEW j
    PROVE  Serves(j, <<Fetch>> \o AddMissingEntities(All(o, "entity")))
<1>1. Leads(Quiet, {}, <<Fetch>>, {})
  BY StepKinds, LeadsOne
<1>2. Leads(Quiet, {}, AddMissingEntities(All(o, "entity")), {} \cup All(o, "entity"))
  BY Named, MissingEntities
<1>. QED
  BY <1>1, <1>2, LeadsConcat, QuietServes

\* Every routine that serves a caller refers only to what it got or stored before.
LEMMA ServeSteps ==
    ASSUME NEW j \in Jobs, j[1] \notin {"create", "hidden"}
    PROVE  Serves(j, Steps(j))
<1>. DEFINE o == j[2]
<1>1. o \in Objects
  BY JobKinds
<1>. HIDE DEF o
<1>2. CASE j[1] = "get"
  <2>1. Steps(j) = <<Need(o)>> /\ o \in Creatable
    BY <1>2, JobKinds DEF Steps, o
  <2>2. Leads(Quiet, {}, <<Need(o)>>, {o})
    BY <2>1, QuietNeed, StepKinds, LeadsOne
  <2>. QED
    BY <2>1, <2>2, QuietServes
<1>3. CASE j[1] = "format"
  <2>1. Steps(j) = <<Spawn(o)>> /\ o \in Creatable
    BY <1>3, JobKinds DEF Steps, FormatDogmaValue, o
  <2>2. Leads(Quiet, {}, <<Spawn(o)>>, {})
    BY <2>1, QuietNeed, StepKinds, LeadsOne
  <2>. QED
    BY <2>1, <2>2, QuietServes
<1>4. CASE j[1] = "entity"
  <2>1. Steps(j) = AddMissingEntities({o}) /\ {o} \in SUBSET Of({"entity"})
    BY <1>4, JobKinds DEF Steps, o
  <2>2. Leads(Quiet, {}, AddMissingEntities({o}), {} \cup {o})
    BY <2>1, MissingEntities
  <2>. QED
    BY <2>1, <2>2, QuietServes
<1>5. CASE j[1] = "category"
  <2>1. Steps(j) = UpdateCategoryWithChildrenESI(o) /\ o \in Of({"category"})
    BY <1>5, JobKinds DEF Steps, o
  <2>. QED
    BY <2>1, CategorySteps, QuietServes
<1>6. CASE j[1] = "categories"
  <2>. DEFINE a == Fan({"category"} \X All(o, "category"))
              b == ShipSkills(j)
  <2>1. Steps(j) = <<a, b>>
    BY <1>6 DEF Steps, updateCategories, UpdateEveShipSkills, ShipSkills, o
  <2>2. a \in StepSet /\ Writes(a) = {} /\ \E J \in SUBSET Entries : a = Fan(J)
    BY <1>1, FanJobs, StepKinds DEF StepSet
  <2>3. <<"ship skills", o>> \in AllRows
    BY <1>1 DEF AllRows
  <2>4. b \in StepSet /\ \A r \in Writes(b) : r = <<"ship skills", o>>
    <3>1. b = Upsert({<<"ship skills", o>>})
      BY DEF ShipSkills, o
    <3>2. Writes(b) = {<<"ship skills", o>>}
      BY <3>1, StepKinds
    <3>3. {<<"ship skills", o>>} \in SUBSET AllRows
      BY <2>3
    <3>4. \A S \in SUBSET AllRows : Upsert(S) \in StepSet
      BY DEF StepSet
    <3>. QED
      BY <3>1, <3>2, <3>3, <3>4
  <2>5. Refs(<<"ship skills", o>>) = {}
    BY DEF Refs
  <2>6. b = ShipSkills(j) /\ j[1] = "categories" /\ a = Fan({"category"} \X All(j[2], "category"))
    BY <1>6 DEF o
  <2>. HIDE DEF a, b
  <2>7. Serves(j, <<a, b>>)
    BY <2>2, <2>4, <2>5, <2>6, ServesTwo
  <2>. QED
    BY <2>1, <2>7
<1>7. CASE j[1] = "character"
  <2>. DEFINE a == Fan({"affiliation", "details"} \X {o})
              b == Upsert({})
  <2>1. Steps(j) = <<a, b>> /\ Kind(o) = "eve character"
    BY <1>7, JobKinds DEF Steps, updateCharacterESI, o, Of
  <2>2. a \in StepSet /\ Writes(a) = {} /\ \E J \in SUBSET Entries : a = Fan(J)
    BY <1>1, <2>1, FanJobs, StepKinds DEF StepSet
  <2>3. b \in Quiet /\ b \in StepSet /\ Writes(b) = {}
    BY QuietRows, QuietSteps, StepKinds
  <2>. HIDE DEF a, b
  <2>. QED
    BY <2>1, <2>2, <2>3, ServesTwo
<1>8. CASE j[1] = "affiliation"
  <2>1. Steps(j) = <<Fetch>> \o AddMissingEntities(All(o, "entity"))
    BY <1>8 DEF Steps, updateAffiliation, o
  <2>. QED
    BY <1>1, <2>1, FetchEntities
<1>9. CASE j[1] = "details"
  <2>1. Steps(j) = <<Fetch>>
    BY <1>9 DEF Steps
  <2>2. Leads(Quiet, {}, <<Fetch>>, {})
    BY StepKinds, LeadsOne
  <2>. QED
    BY <2>1, <2>2, QuietServes
<1>10. CASE j[1] = "systems"
  <2>. DEFINE b == Fan({"get"} \X All(o, "solar system"))
  <2>1. Steps(j) = <<Fetch, b>>
    BY <1>10 DEF Steps, GetConstellationSolarSytemsESI, o
  <2>2. b \in StepSet /\ Writes(b) = {} /\ \E J \in SUBSET Entries : b = Fan(J)
    BY <1>1, FanJobs, StepKinds DEF StepSet
  <2>3. Fetch \in StepSet /\ Fetch \in Quiet /\ Writes(Fetch) = {}
    BY StepKinds, QuietSteps
  <2>4. \A r \in Writes(b) : Refs(r) = {}
    BY <2>2
  <2>. HIDE DEF b
  <2>5. Serves(j, <<Fetch, b>>)
    BY <2>2, <2>3, <2>4, ServesTwo
  <2>. QED
    BY <2>1, <2>5
<1>11. CASE j[1] = "neighbours"
  <2>. DEFINE a == Fan({"details"} \X All(o, "solar system"))
              b == Fan({"get"} \X All(o, "solar system"))
  <2>1. Steps(j) = <<a, b>>
    BY <1>11 DEF Steps, GetStargateSolarSystemsESI, o
  <2>2. a \in StepSet /\ Writes(a) = {} /\ \E J \in SUBSET Entries : a = Fan(J)
    BY <1>1, FanJobs, StepKinds DEF StepSet
  <2>3. b \in StepSet /\ Writes(b) = {} /\ \E J \in SUBSET Entries : b = Fan(J)
    BY <1>1, FanJobs, StepKinds DEF StepSet
  <2>. HIDE DEF a, b
  <2>4. \A r \in Writes(b) : Refs(r) = {}
    BY <2>3
  <2>5. Serves(j, <<a, b>>)
    BY <2>2, <2>3, <2>4, ServesTwo
  <2>. QED
    BY <2>1, <2>5
<1>12. CASE j[1] = "info"
  <2>1. Steps(j) = <<Fetch>> \o AddMissingEntities(All(o, "entity"))
    BY <1>12 DEF Steps, GetSolarSystemInfoESI, o
  <2>. QED
    BY <1>1, <2>1, FetchEntities
<1>13. CASE j[1] = "planets"
  <2>1. Steps(j) = <<Fan({"get"} \X All(o, "planet"))>>
    BY <1>13 DEF Steps, GetSolarSystemPlanets, o
  <2>. QED
    BY <1>1, <2>1, FanJobs, ServesOne
<1>. QED
  BY JobKinds, <1>2, <1>3, <1>4, <1>5, <1>6, <1>7, <1>8, <1>9, <1>10, <1>11, <1>12, <1>13

\* The three sorts of jobs.
LEMMA JobPrograms ==
    ASSUME NEW j \in Jobs
    PROVE  /\ Program[j] \in Seq(StepSet) /\ Len(Program[j]) \in Nat
           /\ j[1] = "create" => j = <<"create", j[2]>> /\ Creates(j[2], Program[j])
           /\ j[1] = "hidden" => j = <<"hidden", j[2]>> /\ Program[j] = <<Upsert({j[2]})>>
           /\ j[1] \notin {"create", "hidden"} => Serves(j, Program[j])
<1>1. Program[j] = Steps(j) /\ j = <<j[1], j[2]>>
  BY ProgramIs, JobKinds
<1>2. j[1] = "create" => Creates(j[2], Program[j])
  <2>. SUFFICES ASSUME j[1] = "create" PROVE Creates(j[2], Program[j])
    OBVIOUS
  <2>1. j = <<"create", j[2]>> /\ j[2] \in Creatable
    BY <1>1, JobKinds
  <2>. DEFINE o == j[2]
  <2>. HIDE DEF o
  <2>2. Creates(o, Steps(<<"create", o>>))
    BY <2>1, CreateSteps DEF o
  <2>. QED
    BY <1>1, <2>1, <2>2 DEF o
<1>3. j[1] = "hidden" => Program[j] = <<Upsert({j[2]})>>
  BY <1>1 DEF Steps, ForbiddenStructure
<1>4. j[1] \notin {"create", "hidden"} => Serves(j, Program[j])
  BY <1>1, ServeSteps
<1>5. Program[j] \in Seq(StepSet)
  <2>1. CASE j[1] = "hidden"
    <3>. DEFINE e == Upsert({j[2]})
    <3>1. e \in StepSet
      BY JobKinds DEF StepSet, AllRows
    <3>. HIDE DEF e
    <3>2. <<e>> \in Seq(StepSet)
      BY <3>1
    <3>. QED
      BY <1>3, <2>1, <3>2 DEF e
  <2>2. CASE j[1] = "create"
    BY <1>2, <2>2 DEF Creates, Leads
  <2>3. CASE j[1] \notin {"create", "hidden"}
    BY <1>4, <2>3 DEF Serves, Leads
  <2>. QED
    BY <2>1, <2>2, <2>3
<1>. QED
  BY <1>1, <1>2, <1>3, <1>4, <1>5, LenProperties

\* What the parts of a step are.
LEMMA StepTypes ==
    ASSUME NEW e \in StepSet
    PROVE  /\ e[1] = "need" => e = Need(e[2]) /\ e[2] \in Creatable
           /\ e[1] = "insert" => e = Insert(e[2]) /\ e[2] \in AllRows
           /\ e[1] = "upsert" => e[2] \subseteq AllRows
           /\ e[1] = "spawn" => e[2] \in Creatable
           /\ e[1] = "fan" => e[2] \subseteq Entries
           /\ e[1] = "access" => e = Access
           /\ e[1] \in {"fetch", "access", "missing", "spawn", "fan"} => Gives(e) = {}
           /\ e[1] \in {"need", "insert"} => Gives(e) = {e[2]}
           /\ e[1] = "upsert" => Gives(e) = e[2]
           /\ e[1] = "insert" => Writes(e) = {e[2]}
           /\ e[1] = "upsert" => Writes(e) = e[2]
           /\ e[1] \notin {"insert", "upsert"} => Writes(e) = {}
  BY DEF StepSet, Fetch, Access, Need, Insert, Upsert, Missing, Spawn, Fan, Gives, Writes

\* Quiet steps.
LEMMA QuietTypes ==
    ASSUME NEW e \in Quiet
    PROVE  /\ e[1] # "access" /\ e[1] # "fan"
           /\ \A r \in Writes(e) : r[1] \notin {"type", "ship skills"}
<1>1. CASE e = Fetch
  BY <1>1, StepKinds DEF Fetch
<1>2. CASE \E o : e = Need(o)
  <2>1. PICK o : e = Need(o)
    BY <1>2
  <2>2. Writes(e) = {}
    BY <2>1, StepKinds
  <2>. QED
    BY <2>1, <2>2 DEF Need
<1>3. CASE \E o : e = Spawn(o)
  <2>1. PICK o : e = Spawn(o)
    BY <1>3
  <2>2. Writes(e) = {}
    BY <2>1, StepKinds
  <2>. QED
    BY <2>1, <2>2 DEF Spawn
<1>4. CASE \E r \in PlainRows : e = Insert(r)
  <2>1. PICK r \in PlainRows : e = Insert(r)
    BY <1>4
  <2>2. Writes(e) = {r} /\ e[1] = "insert"
    BY <2>1, StepKinds DEF Insert
  <2>. QED
    BY <2>2 DEF PlainRows
<1>5. CASE \E S \in SUBSET PlainRows : e = Upsert(S)
  <2>1. PICK S \in SUBSET PlainRows : e = Upsert(S)
    BY <1>5
  <2>2. Writes(e) = S /\ e[1] = "upsert"
    BY <2>1, StepKinds DEF Upsert
  <2>. QED
    BY <2>2 DEF PlainRows
<1>6. CASE \E S : e = Missing(S)
  <2>1. PICK S : e = Missing(S)
    BY <1>6
  <2>2. Writes(e) = {}
    BY <2>1, StepKinds
  <2>. QED
    BY <2>1, <2>2 DEF Missing
<1>. QED
  BY <1>1, <1>2, <1>3, <1>4, <1>5, <1>6 DEF Quiet

\* The steps of routines that are not quiet.
LEMMA StepSorts ==
    ASSUME NEW j \in Jobs, NEW n \in 1..Len(Program[j])
    PROVE  LET e == Program[j][n]
               o == j[2]
           IN  /\ e \in StepSet /\ o \in Objects
               /\ \/ e \in Quiet
                  \/ e = Access /\ n = 1 /\ j = <<"create", o>> /\ Kind(o) = "structure"
                  \/ e = Insert(o) /\ j = <<"create", o>> /\ Kind(o) = "type"
                  \/ \E J \in SUBSET Entries : e = Fan(J)
                  \/ /\ e = Upsert({<<"ship skills", o>>}) /\ n = 2
                     /\ Program[j][1] = Fan({"category"} \X All(o, "category"))
<1>. DEFINE e == Program[j][n]
<1>1. e \in StepSet /\ j[2] \in Objects
  <2>1. Program[j] \in Seq(StepSet)
    BY JobPrograms
  <2>2. j[2] \in Objects
    BY JobKinds
  <2>. QED
    BY <2>1, <2>2
<1>2. CASE j[1] = "hidden"
  <2>. DEFINE x == Upsert({j[2]})
  <2>1. Program[j] = <<x>> /\ j[2] \in Of({"structure"})
    BY <1>2, JobPrograms, JobKinds
  <2>2. x \in Quiet
    <3>1. Kind(j[2]) # "type"
      BY <2>1 DEF Of
    <3>2. {j[2]} \in SUBSET PlainRows
      BY <1>1, <3>1, QuietRows
    <3>. QED
      BY <3>2, QuietRows
  <2>. HIDE DEF x
  <2>3. e = x
    BY <2>1
  <2>. QED
    BY <1>1, <2>2, <2>3
<1>3. CASE j[1] = "create"
  <2>1. j = <<"create", j[2]>> /\ Creates(j[2], Program[j])
    BY <1>3, JobPrograms
  <2>. QED
    BY <1>1, <2>1 DEF Creates
<1>4. CASE j[1] \notin {"create", "hidden"}
  <2>1. Serves(j, Program[j])
    BY <1>4, JobPrograms
  <2>2. \/ e \in Quiet
        \/ \E J \in SUBSET Entries : e = Fan(J)
        \/ e = ShipSkills(j) /\ n = 2 /\ Program[j][1] = Fan({"category"} \X All(j[2], "category"))
    BY <2>1 DEF Serves
  <2>. QED
    BY <1>1, <2>2 DEF ShipSkills
<1>. QED
  BY <1>2, <1>3, <1>4

\* The call that may be forbidden is the first step of a structure's routine.
LEMMA AccessFirst ==
    ASSUME NEW j \in Jobs, NEW n \in 1..Len(Program[j]), Program[j][n][1] = "access"
    PROVE  /\ n = 1 /\ j = <<"create", j[2]>> /\ <<"hidden", j[2]>> \in Jobs
<1>. DEFINE e == Program[j][n]
            o == j[2]
<1>1. e \notin Quiet
  BY QuietTypes
<1>2. /\ \A x : e # Insert(x)
      /\ \A J : e # Fan(J)
      /\ \A S : e # Upsert(S)
  BY DEF Insert, Fan, Upsert
<1>3. n = 1 /\ j = <<"create", o>> /\ Kind(o) = "structure" /\ o \in Objects
  <2>. HIDE DEF e, o
  <2>. QED
    BY <1>1, <1>2, StepSorts DEF e, o
<1>4. <<"hidden", o>> \in Jobs
  BY <1>3 DEF Jobs, Of
<1>. QED
  BY <1>3, <1>4

\* A routine that creates o stores it.
LEMMA StoresOwn ==
    ASSUME NEW j \in Jobs, j[1] \in {"create", "hidden"}
    PROVE  \E n \in 1..Len(Program[j]) : j[2] \in Gives(Program[j][n])
<1>1. CASE j[1] = "create"
  BY <1>1, JobPrograms DEF Creates, Leads
<1>2. CASE j[1] = "hidden"
  <2>. DEFINE e == Upsert({j[2]})
  <2>1. Gives(e) = {j[2]}
    BY StepKinds
  <2>2. Program[j] = <<e>>
    BY <1>2, JobPrograms
  <2>. HIDE DEF e
  <2>3. 1 \in 1..Len(Program[j]) /\ Program[j][1] = e
    BY <2>2
  <2>. QED
    BY <2>1, <2>3
<1>. QED
  BY <1>1, <1>2

\* What a routine writes refers to what it got or stored before.
LEMMA RefersBack ==
    ASSUME NEW j \in Jobs, j[1] # "hidden", NEW n \in 1..Len(Program[j]),
           NEW r \in Writes(Program[j][n]), NEW x \in Refs(r)
    PROVE  \E m \in 1..(n - 1) : x \in Gives(Program[j][m])
<1>1. Leads(StepSet, {}, Program[j], {j[2]}) \/ Leads(StepSet, {}, Program[j], {})
  BY JobPrograms DEF Creates, Serves
<1>. QED
  BY <1>1 DEF Leads

\* The row of a type is only written by the routine that creates it.
LEMMA WritesType ==
    ASSUME NEW j \in Jobs, NEW n \in 1..Len(Program[j]),
           NEW r \in Writes(Program[j][n]), r[1] = "type"
    PROVE  j = <<"create", r>> /\ Program[j][n] = Insert(r)
<1>. DEFINE e == Program[j][n]
            o == j[2]
<1>1. e \notin Quiet
  BY QuietTypes
<1>2. e # Access /\ (\A J : e # Fan(J)) /\ e # Upsert({<<"ship skills", o>>})
  <2>1. e # Access /\ \A J : e # Fan(J)
    BY StepKinds
  <2>2. e # Upsert({<<"ship skills", o>>})
    <3>. SUFFICES ASSUME e = Upsert({<<"ship skills", o>>}) PROVE FALSE
      OBVIOUS
    <3>1. Writes(e) = {<<"ship skills", o>>}
      BY StepKinds
    <3>2. r = <<"ship skills", o>>
      BY <3>1
    <3>3. r[1] = "ship skills"
      BY <3>2
    <3>. QED
      BY <3>3
  <2>. QED
    BY <2>1, <2>2
<1>3. e = Insert(o) /\ j = <<"create", o>>
  <2>. HIDE DEF e, o
  <2>. QED
    BY <1>1, <1>2, StepSorts DEF e, o
<1>4. Writes(e) = {o}
  BY <1>3, StepKinds
<1>. QED
  BY <1>3, <1>4

\* The routine of a type inserts its row once, and all its values.
LEMMA TypeProgram ==
    ASSUME NEW o \in Of({"type"})
    PROVE  LET p == Program[<<"create", o>>]
           IN  /\ <<"create", o>> \in Jobs /\ Len(p) \in Nat
               /\ \A n, m \in 1..Len(p) : p[n] = Insert(o) /\ p[m] = Insert(o) => n = m
               /\ \A x \in All(o, "attribute") \cup All(o, "effect") :
                    \E n \in 1..Len(p) : Link(o, x) \in Gives(p[n])
<1>. DEFINE j == <<"create", o>>
            w == createTypeFromESI(o)
<1>1. o \in Objects /\ Kind(o) = "type" /\ o[1] = "type" /\ o \in Creatable
  BY DEF Of, Creatable, Created, Kind
<1>2. j \in Jobs
  BY <1>1 DEF Jobs
<1>3. Program[j] = w
  BY <1>1, <1>2, ProgramIs DEF Steps
<1>4. /\ Leads(StepSet, {}, w, {Link(o, x) : x \in All(o, "attribute") \cup All(o, "effect")})
      /\ \A n \in 1..Len(w) : n # 3 => w[n] \in Quiet
  BY CreateType
<1>5. Insert(o) \notin Quiet
  <2>1. Writes(Insert(o)) = {o}
    BY StepKinds
  <2>. QED
    BY <1>1, <2>1, QuietTypes
<1>. HIDE DEF w
<1>6. \A n, m \in 1..Len(w) : w[n] = Insert(o) /\ w[m] = Insert(o) => n = m
  BY <1>4, <1>5
<1>7. \A x \in All(o, "attribute") \cup All(o, "effect") :
        \E n \in 1..Len(w) : Link(o, x) \in Gives(w[n])
  BY <1>4 DEF Leads
<1>. QED
  BY <1>2, <1>3, <1>6, <1>7, JobPrograms

\* The ship skills are written when the categories have been updated, and that
\* gets or creates their types.
LEMMA WritesSkills ==
    ASSUME NEW j \in Jobs, NEW n \in 1..Len(Program[j]),
           NEW r \in Writes(Program[j][n]), r[1] = "ship skills"
    PROVE  /\ n = 2 /\ r = <<"ship skills", j[2]>> /\ j[2] \in Objects
           /\ Program[j][1] = Fan({"category"} \X All(j[2], "category"))
<1>. DEFINE e == Program[j][n]
            o == j[2]
<1>1. e \notin Quiet
  BY QuietTypes
<1>2. e # Access /\ \A J : e # Fan(J)
  BY StepKinds
<1>3. ~(e = Insert(o) /\ Kind(o) = "type")
  <2>. SUFFICES ASSUME e = Insert(o), Kind(o) = "type" PROVE FALSE
    OBVIOUS
  <2>1. Writes(e) = {o}
    BY StepKinds
  <2>. QED
    BY <2>1 DEF Kind
<1>4. /\ e = Upsert({<<"ship skills", o>>}) /\ n = 2 /\ o \in Objects
      /\ Program[j][1] = Fan({"category"} \X All(o, "category"))
  <2>. HIDE DEF e, o
  <2>. QED
    BY <1>1, <1>2, <1>3, StepSorts DEF e, o
<1>5. Writes(e) = {<<"ship skills", o>>}
  BY <1>4, StepKinds
<1>. QED
  BY <1>4, <1>5

\* A category that has been updated has all its types in the tables.
LEMMA CategoryProgram ==
    ASSUME NEW c \in Of({"category"}), NEW t \in TypesIn(c)
    PROVE  LET p == Program[<<"category", c>>]
           IN  \E n \in 1..Len(p) : t \in Gives(p[n])
<1>1. <<"category", c>> \in Jobs
  BY DEF Jobs
<1>2. Program[<<"category", c>>] = UpdateCategoryWithChildrenESI(c)
  BY <1>1, ProgramIs DEF Steps
<1>3. Leads(Quiet, {}, UpdateCategoryWithChildrenESI(c), TypesIn(c))
  BY CategorySteps
<1>. QED
  BY <1>2, <1>3 DEF Leads

----------------------------------------------------------------------------
(* Stacks *)

\* The innermost frame of a goroutine.
LEMMA StackTop ==
    ASSUME NEW s, StackOK(s)
    PROVE  /\ Len(s) \in Nat /\ Len(s) >= 1 /\ Len(s) \in 1..Len(s)
           /\ Last(s) = s[Len(s)] /\ Last(s) \in Frames /\ FrameOK(Last(s))
           /\ \A i \in 1..Len(s) : s[i] \in Frames /\ FrameOK(s[i])
<1>1. s \in Seq(Frames) /\ s # <<>>
  BY DEF StackOK
<1>2. Len(s) \in Nat /\ Len(s) # 0
  BY <1>1, EmptySeq, LenProperties
<1>3. Len(s) \in 1..Len(s)
  BY <1>2
<1>4. Last(s) = s[Len(s)]
  BY DEF Last
<1>. QED
  BY <1>1, <1>2, <1>3, <1>4 DEF StackOK

\* Every frame but the innermost one runs and waits for the next.
LEMMA StackCalls ==
    ASSUME NEW s, StackOK(s), NEW i \in 1..Len(s), i # Len(s)
    PROVE  i + 1 \in 1..Len(s) /\ Calls(s[i], s[i + 1]) /\ s[i].at = "run"
<1>1. Len(s) \in Nat
  BY StackTop
<1>2. i + 1 \in 1..Len(s) /\ i + 1 <= Len(s)
  BY <1>1
<1>. QED
  BY <1>2 DEF StackOK, Calls

\* A sequence without its last element.
LEMMA FrontIs ==
    ASSUME NEW T, NEW s \in Seq(T), Len(s) >= 1
    PROVE  /\ Front(s) \in Seq(T) /\ Len(Front(s)) = Len(s) - 1
           /\ \A i \in 1..(Len(s) - 1) : Front(s)[i] = s[i]
<1>1. Len(s) \in Nat
  BY LenProperties
<1>2. Front(s) = SubSeq(s, 1, Len(s) - 1)
  BY DEF Front
<1>. DEFINE n == Len(s) - 1
<1>3. n \in Nat /\ 1 \in 1..(Len(s) + 1) /\ n \in 0..Len(s)
  BY <1>1
<1>4. /\ SubSeq(s, 1, n) \in Seq(T)
      /\ Len(SubSeq(s, 1, n)) = IF 1 <= n THEN n - 1 + 1 ELSE 0
      /\ \A i \in 1..(n - 1 + 1) : SubSeq(s, 1, n)[i] = s[1 + i - 1]
  <2>. HIDE DEF n
  <2>. QED
    BY <1>3, SubSeqProperties
<1>5. \A i \in 1..n : i \in 1..(n - 1 + 1) /\ 1 + i - 1 = i
  BY <1>3
<1>6. (IF 1 <= n THEN n - 1 + 1 ELSE 0) = n
  <2>. HIDE DEF n
  <2>. QED
    BY <1>3
<1>. QED
  BY <1>2, <1>4, <1>5, <1>6

\* s with f in the place of its innermost frame.
WithLast(s, f) == Append(Front(s), f)
\* Only the innermost frame is another one.
LEMMA WithLastIs ==
    ASSUME NEW s, StackOK(s), NEW f \in Frames
    PROVE  LET w == WithLast(s, f)
           IN  /\ w \in Seq(Frames) /\ Len(w) = Len(s) /\ w # <<>>
               /\ \A i \in 1..Len(s) : w[i] = IF i = Len(s) THEN f ELSE s[i]
               /\ Last(w) = f
<1>. DEFINE n == Len(s)
            v == Front(s)
            w == Append(v, f)
<1>1. s \in Seq(Frames) /\ n \in Nat /\ n >= 1
  BY StackTop DEF StackOK
<1>2. v \in Seq(Frames) /\ Len(v) = n - 1 /\ \A i \in 1..(n - 1) : v[i] = s[i]
  BY <1>1, FrontIs
<1>. HIDE DEF v, n
<1>3. w \in Seq(Frames) /\ Len(w) = n /\ w[n] = f /\ \A i \in 1..(n - 1) : w[i] = s[i]
  BY <1>1, <1>2
<1>. HIDE DEF w
<1>4. w # <<>>
  BY <1>1, <1>3
<1>5. \A i \in 1..n : w[i] = IF i = n THEN f ELSE s[i]
  BY <1>1, <1>3
<1>6. Last(w) = f
  BY <1>3 DEF Last
<1>. QED
  BY <1>3, <1>4, <1>5, <1>6 DEF WithLast, w, v, n

\* f is in the same call as g, perhaps after the answer that it is forbidden.
SameCall(g, f) ==
    \/ f.job = g.job
    \/ g.job[1] = "create" /\ f.job[1] = "hidden" /\ f.job[2] = g.job[2]
\* A goroutine stays in order when its innermost frame goes on in the same call.
LEMMA ReplaceTop ==
    ASSUME NEW s, StackOK(s), NEW f \in Frames, FrameOK(f), SameCall(Last(s), f)
    PROVE  StackOK(WithLast(s, f))
<1>. DEFINE w == WithLast(s, f)
            n == Len(s)
<1>1. /\ w \in Seq(Frames) /\ Len(w) = n /\ w # <<>>
      /\ \A i \in 1..n : w[i] = IF i = n THEN f ELSE s[i]
  BY WithLastIs
<1>. HIDE DEF w
<1>2. n \in Nat /\ n >= 1 /\ Last(s) = s[n] /\ \A i \in 1..n : FrameOK(s[i])
  BY StackTop
<1>3. ASSUME NEW i \in 1..n, i + 1 <= n PROVE Calls(w[i], w[i + 1])
  <2>1. Calls(s[i], s[i + 1]) /\ i # n /\ w[i] = s[i] /\ i + 1 \in 1..n
    BY <1>1, <1>2, <1>3 DEF StackOK
  <2>2. w[i + 1].job[1] \in {"create", "hidden"} /\ w[i + 1].job[2] = s[i + 1].job[2]
    BY <1>1, <1>2, <2>1 DEF Calls, SameCall
  <2>. QED
    BY <2>1, <2>2 DEF Calls
<1>4. w[1].job \in Entries
  <2>1. s[1].job \in Entries
    BY DEF StackOK
  <2>2. s[1].job[1] # "create"
    BY <2>1 DEF Entries
  <2>. QED
    BY <1>1, <1>2, <2>1, <2>2 DEF SameCall
<1>. QED
  BY <1>1, <1>2, <1>3, <1>4 DEF StackOK, w

\* A call of the routine that creates x.
Called(x) == Frame(<<"create", x>>)
\* It does when it calls the routine of the object that its step needs.
LEMMA PushFrame ==
    ASSUME NEW s, StackOK(s), NEW x \in Creatable, Last(s).at = "run",
           Last(s).pc <= Len(Program[Last(s).job]), Program[Last(s).job][Last(s).pc] = Need(x)
    PROVE  LET w == Append(s, Called(x))
           IN  /\ StackOK(w) /\ Len(w) = Len(s) + 1 /\ Last(w) = Called(x)
               /\ \A i \in 1..(Len(s) + 1) : w[i] = IF i <= Len(s) THEN s[i] ELSE Called(x)
<1>. DEFINE n == Len(s)
            g == Called(x)
            w == Append(s, g)
<1>1. <<"create", x>> \in Jobs
  BY DEF Jobs
<1>2. g = [job |-> <<"create", x>>, pc |-> 1, failed |-> FALSE, at |-> "enter"]
  BY DEF Called, Frame
<1>3. g \in Frames /\ FrameOK(g)
  <2>1. Len(Program[<<"create", x>>]) \in Nat
    BY <1>1, JobPrograms
  <2>. QED
    BY <1>1, <1>2, <2>1 DEF Frames, FrameOK, Places
<1>4. /\ s \in Seq(Frames) /\ n \in Nat /\ n >= 1 /\ Last(s) = s[n]
      /\ \A i \in 1..n : FrameOK(s[i])
  BY StackTop DEF StackOK
<1>5. Calls(s[n], g)
  BY <1>2, <1>4 DEF Calls
<1>. HIDE DEF g, n
<1>6. w \in Seq(Frames) /\ Len(w) = n + 1 /\ \A i \in 1..(n + 1) : w[i] = IF i <= n THEN s[i] ELSE g
  BY <1>3, <1>4, AppendProperties DEF n
<1>. HIDE DEF w
<1>7. ASSUME NEW i \in 1..(n + 1), i + 1 <= n + 1 PROVE Calls(w[i], w[i + 1])
  <2>1. CASE i = n
    BY <1>4, <1>5, <1>6, <2>1
  <2>2. CASE i # n
    <3>1. i \in 1..n /\ i + 1 <= n /\ i + 1 \in 1..(n + 1)
      BY <1>4, <1>7, <2>2
    <3>2. Calls(s[i], s[i + 1])
      BY <3>1 DEF StackOK, n
    <3>. QED
      BY <1>6, <3>1, <3>2
  <2>. QED
    BY <2>1, <2>2
<1>8. \A i \in 1..(n + 1) : FrameOK(w[i])
  BY <1>3, <1>4, <1>6
<1>9. w # <<>> /\ w[1].job \in Entries
  BY <1>4, <1>6 DEF StackOK
<1>10. StackOK(w) /\ Last(w) = g
  BY <1>4, <1>6, <1>7, <1>8, <1>9 DEF StackOK, Last
<1>. QED
  BY <1>6, <1>10 DEF w, g, n

\* The innermost call has returned.
LEMMA PopFrame ==
    ASSUME NEW s, StackOK(s), Len(s) # 1
    PROVE  LET w == Front(s)
           IN  /\ StackOK(w) /\ Len(w) = Len(s) - 1
               /\ \A i \in 1..(Len(s) - 1) : w[i] = s[i]
               /\ Last(w) = s[Len(s) - 1] /\ Calls(Last(w), Last(s))
<1>. DEFINE n == Len(s)
            w == Front(s)
<1>1. s \in Seq(Frames) /\ n \in Nat /\ n >= 2 /\ Last(s) = s[n]
  <2>1. s \in Seq(Frames)
    BY DEF StackOK
  <2>2. n \in Nat /\ n >= 1 /\ Last(s) = s[n]
    BY StackTop
  <2>3. n # 1
    OBVIOUS
  <2>. HIDE DEF n
  <2>. QED
    BY <2>1, <2>2, <2>3
<1>2. w \in Seq(Frames) /\ Len(w) = n - 1 /\ \A i \in 1..(n - 1) : w[i] = s[i]
  BY <1>1, FrontIs
<1>. HIDE DEF w
<1>3. \A i \in 1..(n - 1) : i \in 1..n /\ (i + 1 <= n - 1 => i + 1 \in 1..(n - 1))
  BY <1>1
<1>4. n - 1 \in 1..(n - 1) /\ (n - 1) + 1 = n /\ 1 \in 1..(n - 1) /\ w # <<>>
  BY <1>1, <1>2
<1>5. StackOK(w)
  <2>1. \A i \in 1..(n - 1) : FrameOK(w[i])
    BY <1>2, <1>3 DEF StackOK
  <2>2. ASSUME NEW i \in 1..(n - 1), i + 1 <= n - 1 PROVE Calls(w[i], w[i + 1])
    <3>1. i \in 1..n /\ i + 1 <= n /\ i + 1 \in 1..(n - 1)
      BY <1>1, <2>2
    <3>2. Calls(s[i], s[i + 1])
      BY <3>1 DEF StackOK
    <3>. QED
      BY <1>2, <3>1, <3>2
  <2>3. w[1].job \in Entries
    BY <1>2, <1>4 DEF StackOK
  <2>. QED
    BY <1>2, <1>4, <2>1, <2>2, <2>3 DEF StackOK
<1>6. Last(w) = s[n - 1]
  BY <1>2, <1>4 DEF Last
<1>7. Calls(s[n - 1], s[n])
  BY <1>1, <1>3, <1>4 DEF StackOK
<1>. QED
  BY <1>1, <1>2, <1>5, <1>6, <1>7 DEF w

\* A goroutine that begins.
LEMMA NewStack ==
    ASSUME NEW j \in Entries
    PROVE  LET w == <<Frame(j)>>
           IN  /\ StackOK(w) /\ Len(w) = 1 /\ w[1] = Frame(j) /\ Last(w) = Frame(j)
               /\ Frame(j).job = j /\ Frame(j).pc = 1 /\ Frame(j).at \in {"enter", "run"}
               /\ \A k : ~Executes(Frame(j), k)
               /\ ~Frame(j).failed
<1>. DEFINE f == Frame(j)
            w == <<f>>
<1>1. j \in Jobs /\ j[1] \notin {"create", "hidden"}
  BY DEF Entries
<1>2. /\ f.job = j /\ f.pc = 1 /\ f.failed = FALSE
      /\ f.at = IF j[1] = "category" THEN "enter" ELSE "run"
      /\ f \in Frames
  BY <1>1 DEF Frame, Frames, Places
<1>3. FrameOK(f)
  <2>1. Len(Program[j]) \in Nat
    BY <1>1, JobPrograms
  <2>. QED
    BY <1>1, <1>2, <2>1 DEF FrameOK
<1>4. \A k : ~Executes(f, k)
  BY <1>1, <1>2 DEF Executes, Keyed
<1>. HIDE DEF f
<1>5. w \in Seq(Frames) /\ Len(w) = 1 /\ w[1] = f /\ w # <<>> /\ Last(w) = f
  BY <1>2 DEF Last
<1>. HIDE DEF w
<1>6. StackOK(w)
  BY <1>2, <1>3, <1>5 DEF StackOK
<1>7. f.at \in {"enter", "run"}
  BY <1>2
<1>. QED
  BY <1>2, <1>4, <1>5, <1>6, <1>7 DEF w, f

----------------------------------------------------------------------------
(* Goroutines *)

\* S with the stack w for the goroutine t: the others stay, and the innermost
\* frame keeps its call.
Put(S, t, w) == [S EXCEPT ![t] = w]
Stays(S, t, w) ==
    /\ StackOK(w) /\ w[1].job = S[t][1].job
    /\ Last(S[t]).at = "fan" => \A u \in DOMAIN S : ~(u[1] = "member" /\ u[2] = t)
\* The goroutines stay in order when one of them changes.
LEMMA PutStacks ==
    ASSUME NEW S, StacksOK(S), NEW t \in DOMAIN S, NEW w, Stays(S, t, w)
    PROVE  /\ StacksOK(Put(S, t, w)) /\ DOMAIN Put(S, t, w) = DOMAIN S
           /\ \A u \in DOMAIN S : Put(S, t, w)[u] = IF u = t THEN w ELSE S[u]
<1>. DEFINE S2 == Put(S, t, w)
<1>1. /\ DOMAIN S2 = DOMAIN S /\ S2 = [u \in DOMAIN S2 |-> S2[u]]
      /\ \A u \in DOMAIN S : S2[u] = IF u = t THEN w ELSE S[u]
  BY DEF Put, StacksOK
<1>. HIDE DEF S2
<1>2. ASSUME NEW u \in DOMAIN S PROVE StackOK(S2[u]) /\ MemberOK(S2, u)
  <2>1. StackOK(S2[u])
    BY <1>1 DEF StacksOK, Stays
  <2>2. MemberOK(S2, u)
    <3>. SUFFICES ASSUME u[1] = "member" PROVE MemberOK(S2, u)
      BY DEF MemberOK
    <3>. DEFINE v == u[2]
                f == Last(S[v])
    <3>1. /\ u = Member(v, u[3]) /\ v \in DOMAIN S /\ S[u][1].job = u[3]
          /\ f.at = "fan" /\ u[3] \in Program[f.job][f.pc][2]
      BY DEF StacksOK, MemberOK
    <3>2. v # t
      BY <3>1 DEF Stays
    <3>3. S2[v] = S[v]
      BY <1>1, <3>1, <3>2
    <3>4. S2[u][1].job = u[3]
      BY <1>1, <3>1 DEF Stays
    <3>. QED
      BY <1>1, <3>1, <3>3, <3>4 DEF MemberOK
  <2>. QED
    BY <2>1, <2>2
<1>3. StacksOK(S2)
  BY <1>1, <1>2 DEF StacksOK
<1>. QED
  BY <1>1, <1>3 DEF S2

\* S with f in the place of the innermost frame of t.
PutLast(S, t, f) == Put(S, t, WithLast(S[t], f))
\* f may follow the innermost frame of t.
Follows(S, t, f) ==
    /\ f \in Frames /\ FrameOK(f) /\ SameCall(Last(S[t]), f)
    /\ Last(S[t]).at = "fan" => \A u \in DOMAIN S : ~(u[1] = "member" /\ u[2] = t)
\* They do when the innermost frame of one of them goes on.
LEMMA PutLastStacks ==
    ASSUME NEW S, StacksOK(S), NEW t \in DOMAIN S, NEW f, Follows(S, t, f)
    PROVE  LET S2 == PutLast(S, t, f)
               n == Len(S[t])
           IN  /\ StacksOK(S2) /\ DOMAIN S2 = DOMAIN S
               /\ \A u \in DOMAIN S : u # t => S2[u] = S[u]
               /\ Len(S2[t]) = n /\ n \in Nat /\ n >= 1 /\ S[t][n] = Last(S[t])
               /\ \A i \in 1..n : S2[t][i] = IF i = n THEN f ELSE S[t][i]
               /\ Last(S2[t]) = f
<1>. DEFINE w == WithLast(S[t], f)
            n == Len(S[t])
<1>1. StackOK(S[t])
  BY DEF StacksOK
<1>2. /\ Len(w) = n /\ \A i \in 1..n : w[i] = IF i = n THEN f ELSE S[t][i]
      /\ Last(w) = f
  BY <1>1, WithLastIs DEF Follows
<1>3. StackOK(w)
  BY <1>1, ReplaceTop DEF Follows
<1>4. n \in Nat /\ n >= 1 /\ S[t][n] = Last(S[t]) /\ S[t][1].job \in Entries
  BY <1>1, StackTop DEF StackOK
<1>. HIDE DEF w
<1>5. w[1].job = S[t][1].job
  <2>1. CASE n = 1
    <3>1. w[1] = f /\ SameCall(S[t][1], f)
      BY <1>2, <1>4, <2>1 DEF Follows
    <3>. QED
      BY <1>4, <3>1 DEF SameCall, Entries
  <2>2. CASE n # 1
    BY <1>2, <1>4, <2>2
  <2>. QED
    BY <2>1, <2>2
<1>6. Stays(S, t, w)
  BY <1>3, <1>5 DEF Stays, Follows
<1>7. PutLast(S, t, f) = Put(S, t, w)
  BY DEF PutLast, w
<1>. QED
  BY <1>2, <1>4, <1>6, <1>7, PutStacks

\* New goroutines beside those of S.
Adds(S, N) ==
    /\ \A u \in DOMAIN N : \E j \in Entries : N[u] = <<Frame(j)>>
    /\ \A u \in DOMAIN N \ DOMAIN S :
         u[1] = "member" => /\ u = Member(u[2], u[3]) /\ u[2] \in DOMAIN S
                            /\ LET f == Last(S[u[2]])
                               IN  f.at = "fan" /\ u[3] \in Program[f.job][f.pc][2]
                            /\ N[u] = <<Frame(u[3])>>
\* They do when others begin.
LEMMA BesideStacks ==
    ASSUME NEW S, StacksOK(S), NEW N, Adds(S, N)
    PROVE  LET S2 == Beside(S, N)
           IN  /\ StacksOK(S2) /\ DOMAIN S2 = DOMAIN S \cup DOMAIN N
               /\ \A u \in DOMAIN S : S2[u] = S[u]
               /\ \A u \in DOMAIN S2 \ DOMAIN S : \E j \in Entries : S2[u] = <<Frame(j)>>
<1>. DEFINE S2 == Beside(S, N)
<1>1. /\ DOMAIN S2 = DOMAIN S \cup DOMAIN N /\ S2 = [u \in DOMAIN S2 |-> S2[u]]
      /\ \A u \in DOMAIN S : S2[u] = S[u]
      /\ \A u \in DOMAIN N \ DOMAIN S : S2[u] = N[u]
  BY DEF Beside
<1>. HIDE DEF S2
<1>2. ASSUME NEW u \in DOMAIN S PROVE StackOK(S2[u]) /\ MemberOK(S2, u)
  <2>1. StackOK(S[u]) /\ MemberOK(S, u)
    BY DEF StacksOK
  <2>. QED
    BY <1>1, <2>1 DEF MemberOK
<1>3. ASSUME NEW u \in DOMAIN N \ DOMAIN S PROVE StackOK(S2[u]) /\ MemberOK(S2, u)
  <2>1. PICK j \in Entries : N[u] = <<Frame(j)>>
    BY DEF Adds
  <2>2. StackOK(S2[u]) /\ S2[u] = N[u]
    BY <1>1, <2>1, NewStack
  <2>3. MemberOK(S2, u)
    <3>. SUFFICES ASSUME u[1] = "member" PROVE MemberOK(S2, u)
      BY DEF MemberOK
    <3>1. /\ u = Member(u[2], u[3]) /\ u[2] \in DOMAIN S
          /\ Last(S[u[2]]).at = "fan"
          /\ u[3] \in Program[Last(S[u[2]]).job][Last(S[u[2]]).pc][2]
          /\ N[u] = <<Frame(u[3])>>
      BY DEF Adds
    <3>2. S2[u][1].job = u[3]
      BY <2>2, <3>1 DEF Frame
    <3>3. S2[u[2]] = S[u[2]] /\ u[2] \in DOMAIN S2
      BY <1>1, <3>1
    <3>. QED
      BY <3>1, <3>2, <3>3 DEF MemberOK
  <2>. QED
    BY <2>2, <2>3
<1>4. StacksOK(S2)
  BY <1>1, <1>2, <1>3 DEF StacksOK
<1>5. \A u \in DOMAIN S2 \ DOMAIN S : \E j \in Entries : S2[u] = <<Frame(j)>>
  BY <1>1 DEF Adds
<1>. QED
  BY <1>1, <1>4, <1>5 DEF S2

----------------------------------------------------------------------------
(* Goroutines and keys *)

\* The same frames execute the same keys.
SameRuns(S, S2) == \A u, i, k : Runs(S2, u, i, k) <=> Runs(S, u, i, k)
\* Keys stay exclusive when the same frames execute them.
LEMMA FlightKept ==
    ASSUME NEW F, NEW S, NEW S2, FlightOK(F, S), SameRuns(S, S2),
           \A u \in DOMAIN S2 : Last(S2[u]).at = "wait" => Key(Last(S2[u]).job) \in F
    PROVE  FlightOK(F, S2)
  BY DEF FlightOK, SameRuns

\* Who executes what after a step of t.
LEMMA PutLastRuns ==
    ASSUME NEW S, StacksOK(S), NEW t \in DOMAIN S, NEW f, Follows(S, t, f), NEW u, NEW i, NEW k
    PROVE  Runs(PutLast(S, t, f), u, i, k) <=>
             IF u = t /\ i = Len(S[t]) THEN Executes(f, k) ELSE Runs(S, u, i, k)
<1>. DEFINE S2 == PutLast(S, t, f)
            n == Len(S[t])
<1>1. /\ DOMAIN S2 = DOMAIN S
      /\ \A v \in DOMAIN S : v # t => S2[v] = S[v]
      /\ Len(S2[t]) = n /\ n \in 1..n
      /\ \A m \in 1..n : S2[t][m] = IF m = n THEN f ELSE S[t][m]
  BY PutLastStacks
<1>. HIDE DEF S2
<1>2. Runs(S2, u, i, k) <=> IF u = t /\ i = n THEN Executes(f, k) ELSE Runs(S, u, i, k)
  <2>1. CASE u = t
    BY <1>1, <2>1 DEF Runs
  <2>2. CASE u # t
    BY <1>1, <2>2 DEF Runs
  <2>. QED
    BY <2>1, <2>2
<1>. QED
  BY <1>2 DEF S2

\* A step that neither begins nor ends an execution.
LEMMA PutLastFlight ==
    ASSUME NEW S, StacksOK(S), NEW t \in DOMAIN S, NEW f, Follows(S, t, f),
           NEW F, FlightOK(F, S),
           \A k : Executes(f, k) <=> Executes(Last(S[t]), k),
           f.at = "wait" => Key(f.job) \in F
    PROVE  FlightOK(F, PutLast(S, t, f))
<1>. DEFINE S2 == PutLast(S, t, f)
            n == Len(S[t])
<1>1. /\ DOMAIN S2 = DOMAIN S /\ Last(S2[t]) = f /\ n \in 1..n /\ S[t][n] = Last(S[t])
      /\ \A v \in DOMAIN S : v # t => S2[v] = S[v]
  BY PutLastStacks
<1>2. SameRuns(S, S2)
  <2>1. ASSUME NEW u, NEW i, NEW k PROVE Runs(S2, u, i, k) <=> Runs(S, u, i, k)
    <3>1. Runs(S2, u, i, k) <=> IF u = t /\ i = n THEN Executes(f, k) ELSE Runs(S, u, i, k)
      BY PutLastRuns
    <3>2. Runs(S, t, n, k) <=> Executes(Last(S[t]), k)
      BY <1>1 DEF Runs
    <3>. QED
      BY <3>1, <3>2
  <2>. QED
    BY <2>1 DEF SameRuns
<1>. HIDE DEF S2
<1>3. \A u \in DOMAIN S2 : Last(S2[u]).at = "wait" => Key(Last(S2[u]).job) \in F
  BY <1>1 DEF FlightOK
<1>. QED
  BY <1>2, <1>3, FlightKept DEF S2

\* A goroutine begins to execute a key that nobody executes.
LEMMA PutLastEnters ==
    ASSUME NEW S, StacksOK(S), NEW t \in DOMAIN S, NEW f, Follows(S, t, f),
           NEW F, FlightOK(F, S), Last(S[t]).at = "enter", f.at = "run",
           Keyed(f.job), Key(f.job) \notin F
    PROVE  FlightOK(F \cup {Key(f.job)}, PutLast(S, t, f))
<1>. DEFINE S2 == PutLast(S, t, f)
            n == Len(S[t])
            key == Key(f.job)
<1>1. /\ DOMAIN S2 = DOMAIN S /\ Last(S2[t]) = f
      /\ \A v \in DOMAIN S : v # t => S2[v] = S[v]
  BY PutLastStacks
<1>2. \A u, i, k : Runs(S2, u, i, k) <=>
        IF u = t /\ i = n THEN Executes(f, k) ELSE Runs(S, u, i, k)
  BY PutLastRuns
<1>3. \A k : ~Runs(S, t, n, k)
  <2>1. S[t][n] = Last(S[t])
    BY PutLastStacks
  <2>. QED
    BY <2>1 DEF Runs, Executes
<1>4. \A k : Executes(f, k) <=> k = key
  BY DEF Executes
<1>. HIDE DEF S2, n, key
<1>5. \A u, i, k : Runs(S2, u, i, k) <=> (u = t /\ i = n /\ k = key) \/ Runs(S, u, i, k)
  BY <1>2, <1>3, <1>4
<1>6. \A u, i : ~Runs(S, u, i, key)
  BY DEF FlightOK, key
<1>7. \A u \in DOMAIN S2 : Last(S2[u]).at = "wait" => Key(Last(S2[u]).job) \in F \cup {key}
  BY <1>1 DEF FlightOK
<1>8. FlightOK(F \cup {key}, S2)
  <2>1. \A k \in F \cup {key} : \E u, i : Runs(S2, u, i, k)
    BY <1>5 DEF FlightOK
  <2>2. \A k, u, i : Runs(S2, u, i, k) => k \in F \cup {key}
    BY <1>5 DEF FlightOK
  <2>3. \A k, u, i, v, m : Runs(S2, u, i, k) /\ Runs(S2, v, m, k) => u = v /\ i = m
    <3>. SUFFICES ASSUME NEW k, NEW u, NEW i, NEW v, NEW m,
                         Runs(S2, u, i, k), Runs(S2, v, m, k)
                  PROVE  u = v /\ i = m
      OBVIOUS
    <3>1. CASE k = key
      BY <1>5, <1>6, <3>1
    <3>2. CASE k # key
      <4>1. Runs(S, u, i, k) /\ Runs(S, v, m, k)
        BY <1>5, <3>2
      <4>. QED
        BY <4>1 DEF FlightOK
    <3>. QED
      BY <3>1, <3>2
  <2>. QED
    BY <1>7, <2>1, <2>2, <2>3 DEF FlightOK
<1>. QED
  BY <1>8 DEF S2, key

\* Goroutines that begin do not execute a key yet.
LEMMA BesideFlight ==
    ASSUME NEW S, StacksOK(S), NEW N, Adds(S, N), NEW F, FlightOK(F, S)
    PROVE  FlightOK(F, Beside(S, N))
<1>. DEFINE S2 == Beside(S, N)
<1>1. /\ DOMAIN S2 = DOMAIN S \cup DOMAIN N
      /\ \A u \in DOMAIN S : S2[u] = S[u]
      /\ \A u \in DOMAIN S2 \ DOMAIN S : \E j \in Entries : S2[u] = <<Frame(j)>>
  BY BesideStacks
<1>. HIDE DEF S2
<1>2. \A u \in DOMAIN S2 \ DOMAIN S :
        /\ Len(S2[u]) = 1 /\ \A k : ~Executes(S2[u][1], k)
        /\ Last(S2[u]).at # "wait"
  BY <1>1, NewStack
<1>3. ASSUME NEW u, NEW i, NEW k PROVE Runs(S2, u, i, k) <=> Runs(S, u, i, k)
  <2>1. CASE u \in DOMAIN S
    BY <1>1, <2>1 DEF Runs
  <2>2. CASE u \in DOMAIN S2 \ DOMAIN S
    <3>1. \A m \in 1..Len(S2[u]) : m = 1
      <4>1. Len(S2[u]) = 1
        BY <1>2, <2>2
      <4>. QED
        BY <4>1
    <3>. QED
      BY <1>2, <2>2, <3>1 DEF Runs
  <2>3. CASE u \notin DOMAIN S2
    BY <1>1, <2>3 DEF Runs
  <2>. QED
    BY <2>1, <2>2, <2>3
<1>4. \A u \in DOMAIN S2 : Last(S2[u]).at = "wait" => Key(Last(S2[u]).job) \in F
  BY <1>1, <1>2 DEF FlightOK
<1>5. SameRuns(S, S2)
  BY <1>3 DEF SameRuns
<1>. QED
  BY <1>4, <1>5, FlightKept DEF S2

----------------------------------------------------------------------------
(* Goroutines and rows *)

\* What is done stays done.
LEMMA DoneMore ==
    ASSUME NEW R, NEW R2, R \subseteq R2
    PROVE  /\ \A j : JobDone(R, j) => JobDone(R2, j)
           /\ \A e : StepDone(R, e) => StepDone(R2, e)
           /\ \A f : FrameDone(R, f) => FrameDone(R2, f)
<1>1. \A j : JobDone(R, j) => JobDone(R2, j)
  BY DEF JobDone
<1>2. \A e : StepDone(R, e) => StepDone(R2, e)
  BY <1>1 DEF StepDone
<1>3. \A f : FrameDone(R, f) => FrameDone(R2, f)
  BY <1>2 DEF FrameDone
<1>. QED
  BY <1>1, <1>2, <1>3

FramesDone(R, S) == \A u \in DOMAIN S : \A i \in 1..Len(S[u]) : FrameDone(R, S[u][i])
\* What frames have behind them is done when t goes on to f.
LEMMA PutLastFrames ==
    ASSUME NEW S, StacksOK(S), NEW t \in DOMAIN S, NEW f, Follows(S, t, f),
           NEW R, NEW R2, R \subseteq R2, FramesDone(R, S), FrameDone(R2, f)
    PROVE  FramesDone(R2, PutLast(S, t, f))
<1>. DEFINE S2 == PutLast(S, t, f)
            n == Len(S[t])
<1>1. /\ DOMAIN S2 = DOMAIN S
      /\ \A v \in DOMAIN S : v # t => S2[v] = S[v]
      /\ Len(S2[t]) = n
      /\ \A m \in 1..n : S2[t][m] = IF m = n THEN f ELSE S[t][m]
  BY PutLastStacks
<1>. HIDE DEF S2
<1>2. ASSUME NEW u \in DOMAIN S2, NEW i \in 1..Len(S2[u]) PROVE FrameDone(R2, S2[u][i])
  <2>1. CASE u = t
    BY <1>1, <2>1, DoneMore DEF FramesDone
  <2>2. CASE u # t
    BY <1>1, <2>2, DoneMore DEF FramesDone
  <2>. QED
    BY <2>1, <2>2
<1>3. FramesDone(R2, S2)
  BY <1>2 DEF FramesDone
<1>. QED
  BY <1>3 DEF S2

\* ... and for goroutines that are not at an errgroup, nothing else is to be shown.
LEMMA PutLastDone ==
    ASSUME NEW S, StacksOK(S), NEW t \in DOMAIN S, NEW f, Follows(S, t, f),
           NEW R, NEW R2, R \subseteq R2, DoneOK(R, S), FrameDone(R2, f), f.at # "fan"
    PROVE  DoneOK(R2, PutLast(S, t, f))
<1>. DEFINE S2 == PutLast(S, t, f)
<1>1. FramesDone(R, S)
  BY DEF DoneOK, FramesDone
<1>2. FramesDone(R2, S2)
  BY <1>1, PutLastFrames
<1>3. /\ DOMAIN S2 = DOMAIN S /\ Last(S2[t]) = f
      /\ \A v \in DOMAIN S : v # t => S2[v] = S[v]
  BY PutLastStacks
<1>. HIDE DEF S2
<1>4. ASSUME NEW u \in DOMAIN S2 PROVE FanDone(R2, S2, u)
  <2>1. CASE u = t
    BY <1>3, <2>1 DEF FanDone
  <2>2. CASE u # t
    <3>1. u \in DOMAIN S /\ S2[u] = S[u] /\ FanDone(R, S, u)
      BY <1>3, <2>2 DEF DoneOK
    <3>. QED
      BY <1>3, <3>1, DoneMore DEF FanDone
  <2>. QED
    BY <2>1, <2>2
<1>5. DoneOK(R2, S2)
  BY <1>2, <1>4 DEF DoneOK, FramesDone
<1>. QED
  BY <1>5 DEF S2

\* A goroutine that begins has done nothing; the jobs of an errgroup are under way.
LEMMA BesideDone ==
    ASSUME NEW S, StacksOK(S), NEW N, Adds(S, N), NEW R, FramesDone(R, S),
           \A u \in DOMAIN S :
               \/ FanDone(R, S, u)
               \/ \A j \in Program[Last(S[u]).job][Last(S[u]).pc][2] : Member(u, j) \in DOMAIN N
    PROVE  DoneOK(R, Beside(S, N))
<1>. DEFINE S2 == Beside(S, N)
<1>1. /\ DOMAIN S2 = DOMAIN S \cup DOMAIN N
      /\ \A u \in DOMAIN S : S2[u] = S[u]
      /\ \A u \in DOMAIN S2 \ DOMAIN S : \E j \in Entries : S2[u] = <<Frame(j)>>
  BY BesideStacks
<1>. HIDE DEF S2
<1>2. ASSUME NEW u \in DOMAIN S2 \ DOMAIN S
      PROVE  (\A i \in 1..Len(S2[u]) : FrameDone(R, S2[u][i])) /\ FanDone(R, S2, u)
  <2>1. PICK j \in Entries : S2[u] = <<Frame(j)>>
    BY <1>1
  <2>2. /\ Len(S2[u]) = 1 /\ S2[u][1] = Frame(j) /\ Last(S2[u]) = Frame(j)
        /\ Frame(j).pc = 1 /\ Frame(j).at # "fan"
    BY <2>1, NewStack
  <2>3. \A i \in 1..Len(S2[u]) : i = 1
    BY <2>2
  <2>4. FrameDone(R, Frame(j))
    BY <2>2 DEF FrameDone
  <2>. QED
    BY <2>2, <2>3, <2>4 DEF FanDone
<1>3. ASSUME NEW u \in DOMAIN S
      PROVE  (\A i \in 1..Len(S2[u]) : FrameDone(R, S2[u][i])) /\ FanDone(R, S2, u)
  <2>1. S2[u] = S[u]
    BY <1>1
  <2>2. FanDone(R, S2, u)
    BY <1>1, <2>1 DEF FanDone
  <2>. QED
    BY <2>1, <2>2 DEF FramesDone
<1>4. DoneOK(R, S2)
  BY <1>1, <1>2, <1>3 DEF DoneOK
<1>. QED
  BY <1>4 DEF S2

\* A type without values keeps its cause when t goes on to f.
LEMMA PutLastPartial ==
    ASSUME NEW S, StacksOK(S), NEW t \in DOMAIN S, NEW f, Follows(S, t, f),
           NEW R, NEW R2, R \subseteq R2, NEW C, PartialOK(R, C, S),
           \A x : Past(Last(S[t]), x) => Past(f, x),
           \A x \in R2 \ R : Kind(x) = "type" => Past(f, x)
    PROVE  PartialOK(R2, C, PutLast(S, t, f))
<1>. DEFINE S2 == PutLast(S, t, f)
            n == Len(S[t])
<1>1. /\ DOMAIN S2 = DOMAIN S
      /\ \A v \in DOMAIN S : v # t => S2[v] = S[v]
      /\ Len(S2[t]) = n /\ n \in 1..n /\ S[t][n] = Last(S[t])
      /\ \A m \in 1..n : S2[t][m] = IF m = n THEN f ELSE S[t][m]
  BY PutLastStacks
<1>. HIDE DEF S2
<1>2. ASSUME NEW x, Past(f, x) PROVE GoesOn(S2, x)
  <2>1. t \in DOMAIN S2 /\ n \in 1..Len(S2[t]) /\ S2[t][n] = f
    BY <1>1
  <2>. QED
    BY <1>2, <2>1 DEF GoesOn
<1>3. ASSUME NEW x, GoesOn(S, x) PROVE GoesOn(S2, x)
  <2>0. PICK u \in DOMAIN S : \E i \in 1..Len(S[u]) : Past(S[u][i], x)
    BY <1>3 DEF GoesOn
  <2>1. PICK i \in 1..Len(S[u]) : Past(S[u][i], x)
    BY <2>0
  <2>2. CASE u = t /\ i = n
    BY <1>1, <1>2, <2>1, <2>2
  <2>3. CASE ~(u = t /\ i = n)
    <3>1. u \in DOMAIN S2 /\ i \in 1..Len(S2[u]) /\ S2[u][i] = S[u][i]
      BY <1>1, <2>3
    <3>. QED
      BY <2>1, <3>1 DEF GoesOn
  <2>. QED
    BY <2>2, <2>3
<1>4. \A x : Complete(R, x) => Complete(R2, x)
  BY DEF Complete
<1>5. PartialOK(R2, C, S2)
  BY <1>2, <1>3, <1>4 DEF PartialOK
<1>. QED
  BY <1>5 DEF S2

\* ... and when goroutines begin.
LEMMA BesidePartial ==
    ASSUME NEW S, StacksOK(S), NEW N, Adds(S, N), NEW R, NEW C, PartialOK(R, C, S)
    PROVE  PartialOK(R, C, Beside(S, N))
<1>. DEFINE S2 == Beside(S, N)
<1>1. DOMAIN S2 = DOMAIN S \cup DOMAIN N /\ \A u \in DOMAIN S : S2[u] = S[u]
  BY BesideStacks
<1>. HIDE DEF S2
<1>2. ASSUME NEW x, GoesOn(S, x) PROVE GoesOn(S2, x)
  <2>0. PICK u \in DOMAIN S : \E i \in 1..Len(S[u]) : Past(S[u][i], x)
    BY <1>2 DEF GoesOn
  <2>1. PICK i \in 1..Len(S[u]) : Past(S[u][i], x)
    BY <2>0
  <2>2. u \in DOMAIN S2 /\ S2[u] = S[u]
    BY <1>1
  <2>. QED
    BY <2>1, <2>2 DEF GoesOn
<1>3. PartialOK(R, C, S2)
  BY <1>2 DEF PartialOK
<1>. QED
  BY <1>3 DEF S2

\* A goroutine calls the routine that creates x.
MayCall(S, t, x) ==
    LET f == Last(S[t])
    IN  f.at = "run" /\ f.pc <= Len(Program[f.job]) /\ Program[f.job][f.pc] = Need(x)
\* A call changes nothing but the stack.
LEMMA PushStep ==
    ASSUME NEW S, StacksOK(S), NEW t \in DOMAIN S, NEW x \in Creatable, MayCall(S, t, x),
           NEW F, FlightOK(F, S), NEW R, DoneOK(R, S), NEW C, PartialOK(R, C, S)
    PROVE  LET S2 == Put(S, t, Append(S[t], Called(x)))
           IN  /\ StacksOK(S2) /\ DOMAIN S2 = DOMAIN S
               /\ FlightOK(F, S2) /\ DoneOK(R, S2) /\ PartialOK(R, C, S2)
<1>. DEFINE w == Append(S[t], Called(x))
            S2 == Put(S, t, w)
            n == Len(S[t])
<1>0. StackOK(S[t]) /\ n \in Nat /\ n >= 1
  BY StackTop DEF StacksOK
<1>1. /\ StackOK(w) /\ Len(w) = n + 1 /\ Last(w) = Called(x)
      /\ \A i \in 1..(n + 1) : w[i] = IF i <= n THEN S[t][i] ELSE Called(x)
  BY <1>0, PushFrame DEF MayCall
<1>. HIDE DEF w
<1>2. Stays(S, t, w)
  BY <1>0, <1>1 DEF Stays, MayCall
<1>3. /\ StacksOK(S2) /\ DOMAIN S2 = DOMAIN S
      /\ \A u \in DOMAIN S : S2[u] = IF u = t THEN w ELSE S[u]
  BY <1>2, PutStacks
<1>4. /\ Called(x).at = "enter" /\ Called(x).pc = 1
      /\ \A k : ~Executes(Called(x), k)
  BY DEF Called, Frame, Executes
<1>. HIDE DEF S2
<1>5. FlightOK(F, S2)
  <2>1. ASSUME NEW u, NEW i, NEW k PROVE Runs(S2, u, i, k) <=> Runs(S, u, i, k)
    <3>1. CASE u = t
      <4>1. \A m \in 1..(n + 1) : m \in 1..n \/ m = n + 1
        BY <1>0
      <4>. QED
        BY <1>0, <1>1, <1>3, <1>4, <3>1, <4>1 DEF Runs
    <3>2. CASE u # t
      BY <1>3, <3>2 DEF Runs
    <3>. QED
      BY <3>1, <3>2
  <2>2. \A u \in DOMAIN S2 : Last(S2[u]).at = "wait" => Key(Last(S2[u]).job) \in F
    BY <1>1, <1>3, <1>4 DEF FlightOK
  <2>3. SameRuns(S, S2)
    BY <2>1 DEF SameRuns
  <2>. QED
    BY <2>2, <2>3, FlightKept
<1>6. DoneOK(R, S2)
  <2>1. FrameDone(R, Called(x))
    BY <1>4 DEF FrameDone
  <2>2. \A u \in DOMAIN S2 : \A i \in 1..Len(S2[u]) : FrameDone(R, S2[u][i])
    <3>1. ASSUME NEW i \in 1..(n + 1) PROVE FrameDone(R, w[i])
      <4>1. CASE i <= n
        <5>1. i \in 1..n /\ w[i] = S[t][i]
          BY <1>1, <4>1
        <5>. QED
          BY <5>1 DEF DoneOK
      <4>2. CASE ~(i <= n)
        BY <1>1, <2>1, <4>2
      <4>. QED
        BY <4>1, <4>2
    <3>. QED
      BY <1>1, <1>3, <3>1 DEF DoneOK
  <2>3. \A u \in DOMAIN S2 : FanDone(R, S2, u)
    BY <1>1, <1>3, <1>4 DEF DoneOK, FanDone
  <2>. QED
    BY <2>2, <2>3 DEF DoneOK
<1>7. PartialOK(R, C, S2)
  <2>1. ASSUME NEW y, GoesOn(S, y) PROVE GoesOn(S2, y)
    <3>0. PICK u \in DOMAIN S : \E i \in 1..Len(S[u]) : Past(S[u][i], y)
      BY <2>1 DEF GoesOn
    <3>1. PICK i \in 1..Len(S[u]) : Past(S[u][i], y)
      BY <3>0
    <3>2. i \in 1..Len(S2[u]) /\ S2[u][i] = S[u][i]
      BY <1>0, <1>1, <1>3
    <3>. QED
      BY <1>3, <3>1, <3>2 DEF GoesOn
  <2>. QED
    BY <2>1 DEF PartialOK
<1>. QED
  BY <1>3, <1>5, <1>6, <1>7 DEF S2, w

----------------------------------------------------------------------------
(* The return of a routine *)

Back(S, t) ==
    {t} \cup {u \in DOMAIN S : /\ Keyed(Last(S[t]).job)
                               /\ Last(S[u]).at = "wait"
                               /\ Key(Last(S[u]).job) = Key(Last(S[t]).job)}
Ended(S, t) == {u \in Back(S, t) : Len(S[u]) = 1}
Resumed(h, ok) == IF ok THEN After(h) ELSE [h EXCEPT !.at = "fail"]
ChildrenOf(S, u) == {v \in DOMAIN S : v[1] = "member" /\ v[2] = u}
Told(S, t, ok, u) ==
    IF ~ok /\ ChildrenOf(S, u) \cap Ended(S, t) # {}
    THEN WithLast(S[u], [Last(S[u]) EXCEPT !.failed = TRUE])
    ELSE S[u]
Returned(S, t, ok) ==
    [u \in DOMAIN S \ Ended(S, t) |->
        IF u \in Back(S, t) THEN WithLast(Front(S[u]), Resumed(Last(Front(S[u])), ok))
        ELSE Told(S, t, ok, u)]
\* The routine of t's innermost frame is at its end or has failed.
MayReturn(S, t, ok) ==
    LET g == Last(S[t])
    IN  \/ ok = TRUE /\ g.at = "run" /\ g.pc > Len(Program[g.job])
        \/ ok = FALSE /\ g.at = "fail"

\* Those that are resumed had called the routine of the same object.
LEMMA ReturnBack ==
    ASSUME NEW S, StacksOK(S), NEW t \in DOMAIN S, NEW ok, MayReturn(S, t, ok),
           NEW u \in Back(S, t)
    PROVE  LET g == Last(S[t])
               f == Last(S[u])
               n == Len(S[u])
               h == S[u][n - 1]
           IN  /\ u \in DOMAIN S /\ (u # t => f.at = "wait") /\ n \in Nat /\ n >= 1 /\ S[u][n] = f
               /\ f.at # "fan"
               /\ u \notin Ended(S, t) =>
                    /\ n >= 2 /\ n - 1 \in 1..n /\ h \in Frames /\ FrameOK(h)
                    /\ h.at = "run" /\ h.pc <= Len(Program[h.job])
                    /\ g.job[1] \in {"create", "hidden"}
                    /\ Program[h.job][h.pc] = Need(g.job[2])
               /\ u \in Ended(S, t) => f.job = g.job /\ S[u][1].job = g.job
<1>. DEFINE g == Last(S[t])
            f == Last(S[u])
            n == Len(S[u])
            h == S[u][n - 1]
<1>1. u \in DOMAIN S /\ (u # t => f.at = "wait" /\ Keyed(g.job) /\ Key(f.job) = Key(g.job))
  BY DEF Back
<1>2. StackOK(S[u]) /\ StackOK(S[t])
  BY <1>1 DEF StacksOK
<1>3. n \in Nat /\ n >= 1 /\ S[u][n] = f /\ f \in Frames /\ FrameOK(f) /\ g \in Frames
  BY <1>2, StackTop
<1>4. f.at # "fan"
  BY <1>1 DEF MayReturn
<1>5. f.job \in Jobs /\ g.job \in Jobs
  BY <1>3 DEF Frames
<1>6. f.job = <<f.job[1], f.job[2]>> /\ g.job = <<g.job[1], g.job[2]>>
  BY <1>5, JobKinds
<1>7. u # t => f.job[1] \in {"create", "category"}
  BY <1>1, <1>3 DEF FrameOK
<1>8. u # t => f.job = g.job \/ (f.job[1] = "create" /\ g.job[1] = "hidden" /\ g.job[2] = f.job[2])
  <2>. SUFFICES ASSUME u # t PROVE f.job = g.job
                         \/ (f.job[1] = "create" /\ g.job[1] = "hidden" /\ g.job[2] = f.job[2])
    OBVIOUS
  <2>1. Key(f.job) = f.job
    BY <1>7 DEF Key
  <2>2. CASE g.job[1] = "hidden"
    <3>1. f.job = <<"create", g.job[2]>>
      BY <1>1, <2>1, <2>2 DEF Key
    <3>2. f.job[1] = "create" /\ f.job[2] = g.job[2]
      BY <3>1
    <3>. QED
      BY <2>2, <3>2
  <2>3. CASE g.job[1] # "hidden"
    BY <1>1, <2>1, <2>3 DEF Key
  <2>. QED
    BY <2>2, <2>3
<1>9. ASSUME u \notin Ended(S, t)
      PROVE  /\ n >= 2 /\ n - 1 \in 1..n /\ h \in Frames /\ FrameOK(h)
             /\ h.at = "run" /\ h.pc <= Len(Program[h.job])
             /\ g.job[1] \in {"create", "hidden"}
             /\ Program[h.job][h.pc] = Need(g.job[2])
  <2>1. n >= 2
    <3>1. n # 1
      BY <1>9 DEF Ended
    <3>. HIDE DEF n
    <3>. QED
      BY <1>3, <3>1
  <2>2. n - 1 \in 1..n /\ n - 1 # n /\ (n - 1) + 1 = n
    BY <1>3, <2>1
  <2>3. h \in Frames /\ FrameOK(h)
    BY <1>2, <2>2, StackTop
  <2>4. Calls(h, f)
    BY <1>2, <1>3, <2>2, StackCalls
  <2>5. f.job[1] \in {"create", "hidden"}
    BY <2>4 DEF Calls
  <2>6. g.job[1] \in {"create", "hidden"} /\ g.job[2] = f.job[2]
    BY <1>8, <2>5
  <2>. QED
    BY <2>1, <2>2, <2>3, <2>4, <2>6 DEF Calls
<1>10. ASSUME u \in Ended(S, t) PROVE f.job = g.job /\ S[u][1].job = g.job
  <2>1. n = 1 /\ S[u][1] = f
    BY <1>3, <1>10 DEF Ended
  <2>2. f.job \in Entries
    BY <1>2, <2>1 DEF StackOK
  <2>3. f.job[1] # "create"
    BY <2>2 DEF Entries
  <2>. QED
    BY <1>8, <2>1, <2>3
<1>. QED
  BY <1>1, <1>3, <1>4, <1>9, <1>10

\* What becomes of the goroutines: some end,
LEMMA ReturnDomain ==
    ASSUME NEW S, NEW t \in DOMAIN S, NEW ok
    PROVE  /\ DOMAIN Returned(S, t, ok) = DOMAIN S \ Ended(S, t)
           /\ Ended(S, t) \subseteq Back(S, t) /\ t \in Back(S, t) /\ Back(S, t) \subseteq DOMAIN S
  BY DEF Returned, Ended, Back

\* ... others go on after their call or fail with it,
LEMMA ReturnResumes ==
    ASSUME NEW S, StacksOK(S), NEW t \in DOMAIN S, NEW ok \in BOOLEAN, MayReturn(S, t, ok),
           NEW u \in Back(S, t) \ Ended(S, t)
    PROVE  LET w == Returned(S, t, ok)[u]
               n == Len(S[u])
           IN  /\ StackOK(w) /\ w[1].job = S[u][1].job /\ Len(w) = n - 1
               /\ \A i \in 1..(n - 1) : w[i] = IF i = n - 1 THEN Resumed(S[u][i], ok) ELSE S[u][i]
               /\ Last(w) = Resumed(S[u][n - 1], ok)
<1>. DEFINE v == Front(S[u])
            n == Len(S[u])
            h == Last(v)
            f == Resumed(h, ok)
            w == WithLast(v, f)
<1>1. Returned(S, t, ok)[u] = w
  <2>1. u \in DOMAIN S \ Ended(S, t) /\ u \in Back(S, t)
    BY ReturnDomain
  <2>. QED
    BY <2>1 DEF Returned
<1>2. StackOK(S[u]) /\ u \notin Ended(S, t) /\ n # 1 /\ n \in Nat /\ n >= 2
  BY ReturnBack DEF StacksOK, Ended
<1>3. /\ StackOK(v) /\ Len(v) = n - 1 /\ \A i \in 1..(n - 1) : v[i] = S[u][i]
      /\ h = S[u][n - 1] /\ Calls(h, Last(S[u]))
  BY <1>2, PopFrame
<1>4. h \in Frames /\ FrameOK(h)
  BY <1>3, StackTop
<1>5. h.at = "run" /\ h.pc <= Len(Program[h.job])
  BY <1>3 DEF Calls
<1>6. f \in Frames /\ FrameOK(f) /\ f.job = h.job
  <2>1. h.job \in Jobs /\ h.pc \in Nat /\ h.failed \in BOOLEAN
    BY <1>4 DEF Frames
  <2>2. Len(Program[h.job]) \in Nat
    BY <2>1, JobPrograms
  <2>. HIDE DEF h
  <2>3. CASE ok
    <3>1. f = [h EXCEPT !.pc = @ + 1]
      BY <2>3 DEF Resumed, After
    <3>2. f.pc = h.pc + 1 /\ f.job = h.job /\ f.at = "run" /\ f \in Frames
      BY <1>4, <1>5, <2>1, <3>1 DEF Frames
    <3>. QED
      BY <1>4, <1>5, <2>1, <2>2, <3>2 DEF FrameOK
  <2>4. CASE ~ok
    <3>1. f = [h EXCEPT !.at = "fail"]
      BY <2>4 DEF Resumed
    <3>2. f.pc = h.pc /\ f.job = h.job /\ f.at = "fail" /\ f \in Frames
      BY <1>4, <3>1 DEF Frames, Places
    <3>. QED
      BY <1>4, <1>5, <3>2 DEF FrameOK
  <2>. QED
    BY <2>3, <2>4
<1>. HIDE DEF f, v, h
<1>7. StackOK(w)
  BY <1>3, <1>6, ReplaceTop DEF SameCall, h
<1>8. Len(w) = n - 1 /\ Last(w) = f /\ \A i \in 1..(n - 1) : w[i] = IF i = n - 1 THEN f ELSE v[i]
  BY <1>3, <1>6, WithLastIs
<1>9. \A i \in 1..(n - 1) : w[i] = IF i = n - 1 THEN Resumed(S[u][i], ok) ELSE S[u][i]
  BY <1>3, <1>8 DEF f
<1>10. w[1].job = S[u][1].job
  <2>1. 1 \in 1..(n - 1)
    BY <1>2
  <2>. QED
    BY <1>3, <1>6, <1>8, <2>1
<1>. HIDE DEF w
<1>. QED
  BY <1>1, <1>3, <1>7, <1>8, <1>9, <1>10 DEF f

\* ... and the rest stay, perhaps told of a failure.
MayBeTold(f, h) == h = f \/ h = [f EXCEPT !.failed = TRUE]
\* The others keep their frames, except for the word that a job has failed.
LEMMA ReturnTells ==
    ASSUME NEW S, StacksOK(S), NEW t \in DOMAIN S, NEW ok \in BOOLEAN, MayReturn(S, t, ok),
           NEW u \in DOMAIN S \ Back(S, t)
    PROVE  LET w == Returned(S, t, ok)[u]
               n == Len(S[u])
           IN  /\ StackOK(w) /\ w[1].job = S[u][1].job /\ Len(w) = n
               /\ MayBeTold(Last(S[u]), Last(w)) /\ \A i \in 1..n : MayBeTold(S[u][i], w[i])
               /\ ~ok /\ ChildrenOf(S, u) \cap Ended(S, t) # {} => Last(w).failed
<1>. DEFINE n == Len(S[u])
            g == Last(S[u])
            f == [g EXCEPT !.failed = TRUE]
            w == WithLast(S[u], f)
<1>1. Returned(S, t, ok)[u] = Told(S, t, ok, u)
  BY DEF Returned, Back, Ended
<1>2. StackOK(S[u])
  BY DEF StacksOK
<1>3. g \in Frames /\ FrameOK(g) /\ S[u][n] = g /\ n \in Nat /\ n >= 1
  BY <1>2, StackTop
<1>4. f \in Frames /\ FrameOK(f) /\ f.job = g.job /\ f.failed = TRUE
  BY <1>3 DEF Frames, FrameOK
<1>5. Len(w) = n /\ Last(w) = f /\ \A i \in 1..n : w[i] = IF i = n THEN f ELSE S[u][i]
  BY <1>2, <1>4, WithLastIs
<1>6. StackOK(w)
  BY <1>2, <1>4, ReplaceTop DEF SameCall
<1>7. w[1].job = S[u][1].job
  <2>1. 1 \in 1..n
    BY <1>3
  <2>. QED
    BY <1>3, <1>4, <1>5, <2>1
<1>8. MayBeTold(g, Last(w)) /\ \A i \in 1..n : MayBeTold(S[u][i], w[i])
  BY <1>3, <1>5 DEF MayBeTold
<1>9. CASE ~ok /\ ChildrenOf(S, u) \cap Ended(S, t) # {}
  <2>1. Returned(S, t, ok)[u] = w
    BY <1>1, <1>9 DEF Told
  <2>. HIDE DEF w
  <2>. QED
    BY <1>4, <1>5, <1>6, <1>7, <1>8, <2>1
<1>10. CASE ~(~ok /\ ChildrenOf(S, u) \cap Ended(S, t) # {})
  <2>1. Returned(S, t, ok)[u] = S[u]
    BY <1>1, <1>10 DEF Told
  <2>. QED
    BY <1>2, <1>10, <2>1 DEF MayBeTold
<1>. QED
  BY <1>9, <1>10

\* The goroutines that are left are in order, and those that wait for the jobs
\* of an errgroup wait on.
LEMMA ReturnStacksOK ==
    ASSUME NEW S, StacksOK(S), NEW t \in DOMAIN S, NEW ok \in BOOLEAN, MayReturn(S, t, ok)
    PROVE  StacksOK(Returned(S, t, ok))
<1>. DEFINE S2 == Returned(S, t, ok)
<1>1. /\ DOMAIN S2 = DOMAIN S \ Ended(S, t) /\ Ended(S, t) \subseteq Back(S, t)
      /\ \A u \in DOMAIN S2 : StackOK(S2[u]) /\ S2[u][1].job = S[u][1].job
  <2>1. DOMAIN S2 = DOMAIN S \ Ended(S, t) /\ Ended(S, t) \subseteq Back(S, t)
    BY ReturnDomain
  <2>2. ASSUME NEW u \in DOMAIN S2 PROVE StackOK(S2[u]) /\ S2[u][1].job = S[u][1].job
    <3>1. CASE u \in Back(S, t)
      BY <2>1, <2>2, <3>1, ReturnResumes
    <3>2. CASE u \notin Back(S, t)
      BY <2>1, <2>2, <3>2, ReturnTells
    <3>. QED
      BY <3>1, <3>2
  <2>. QED
    BY <2>1, <2>2
<1>2. \A u \in DOMAIN S2 : u \notin Back(S, t) =>
        MayBeTold(Last(S[u]), Last(S2[u]))
  BY ReturnDomain, ReturnTells
<1>3. S2 = [u \in DOMAIN S2 |-> S2[u]]
  BY DEF Returned
<1>. HIDE DEF S2
<1>4. ASSUME NEW u \in DOMAIN S2, u[1] = "member" PROVE MemberOK(S2, u)
  <2>. DEFINE v == u[2]
              f == Last(S[v])
              g == Last(S2[v])
  <2>1. /\ u = Member(v, u[3]) /\ v \in DOMAIN S /\ S[u][1].job = u[3]
        /\ f.at = "fan" /\ u[3] \in Program[f.job][f.pc][2]
    BY <1>1, <1>4 DEF StacksOK, MemberOK
  <2>2. v \notin Back(S, t)
    BY <2>1, ReturnBack
  <2>3. v \in DOMAIN S2
    BY <1>1, <2>1, <2>2
  <2>4. f \in Frames
    BY <2>1, StackTop DEF StacksOK
  <2>5. g = f \/ g = [f EXCEPT !.failed = TRUE]
    BY <1>2, <2>2, <2>3 DEF MayBeTold
  <2>. HIDE DEF f, g
  <2>6. g.at = f.at /\ g.job = f.job /\ g.pc = f.pc
    BY <2>4, <2>5 DEF Frames
  <2>7. g.at = "fan" /\ u[3] \in Program[g.job][g.pc][2]
    BY <2>1, <2>6
  <2>. QED
    BY <1>1, <2>1, <2>3, <2>7 DEF MemberOK, g
<1>5. \A u \in DOMAIN S2 : MemberOK(S2, u)
  BY <1>4 DEF MemberOK
<1>6. StacksOK(S2)
  BY <1>1, <1>3, <1>5 DEF StacksOK
<1>. QED
  BY <1>6 DEF S2

\* The frame that is gone is the only one that executed its key.
LEMMA ReturnRuns ==
    ASSUME NEW S, StacksOK(S), NEW t \in DOMAIN S, NEW ok \in BOOLEAN, MayReturn(S, t, ok),
           NEW u, NEW i, NEW k
    PROVE  Runs(Returned(S, t, ok), u, i, k) <=> Runs(S, u, i, k) /\ ~(u = t /\ i = Len(S[t]))
<1>. DEFINE S2 == Returned(S, t, ok)
            n == Len(S[u])
<1>1. DOMAIN S2 = DOMAIN S \ Ended(S, t) /\ Ended(S, t) \subseteq Back(S, t) /\ t \in Back(S, t)
  BY ReturnDomain
<1>2. CASE u \notin DOMAIN S
  BY <1>1, <1>2 DEF Runs
<1>3. CASE u \in Back(S, t)
  <2>1. /\ u \in DOMAIN S /\ (u # t => Last(S[u]).at = "wait")
        /\ n \in Nat /\ n >= 1 /\ S[u][n] = Last(S[u])
    BY <1>3, ReturnBack
  <2>2. u # t => ~Runs(S, u, n, k)
    BY <2>1 DEF Runs, Executes
  <2>3. CASE u \in Ended(S, t)
    <3>1. n = 1 /\ u \notin DOMAIN S2
      BY <1>1, <2>3 DEF Ended
    <3>2. \A m \in 1..n : m = n
      BY <2>1, <3>1
    <3>3. Runs(S, u, i, k) => i = n
      BY <3>2 DEF Runs
    <3>4. ~Runs(S2, u, i, k)
      BY <3>1 DEF Runs
    <3>. QED
      BY <2>2, <3>3, <3>4
  <2>4. CASE u \notin Ended(S, t)
    <3>1. u \in DOMAIN S2
      BY <1>1, <2>1, <2>4
    <3>2. /\ Len(S2[u]) = n - 1
          /\ \A m \in 1..(n - 1) : S2[u][m] = IF m = n - 1 THEN Resumed(S[u][m], ok) ELSE S[u][m]
      BY <1>3, <2>4, ReturnResumes
    <3>3. n - 1 \in 1..n /\ S[u][n - 1] \in Frames /\ S[u][n - 1].at = "run"
      BY <1>3, <2>4, ReturnBack
    <3>. DEFINE h == S[u][n - 1]
    <3>4. Executes(Resumed(h, ok), k) <=> Executes(h, k)
      <4>. HIDE DEF h
      <4>1. CASE ok
        <5>1. Resumed(h, ok) = [h EXCEPT !.pc = @ + 1]
          BY <4>1 DEF Resumed, After
        <5>2. Resumed(h, ok).job = h.job /\ Resumed(h, ok).at = h.at
          BY <3>3, <5>1 DEF Frames, h
        <5>. QED
          BY <5>2 DEF Executes
      <4>2. CASE ~ok
        <5>1. Resumed(h, ok) = [h EXCEPT !.at = "fail"]
          BY <4>2 DEF Resumed
        <5>2. Resumed(h, ok).job = h.job /\ Resumed(h, ok).at = "fail"
          BY <3>3, <5>1 DEF Frames, h
        <5>. QED
          BY <3>3, <5>2 DEF Executes, h
      <4>. QED
        BY <4>1, <4>2
    <3>. HIDE DEF S2, n
    <3>5. \A m \in 1..(n - 1) : Executes(S2[u][m], k) <=> Executes(S[u][m], k)
      BY <3>2, <3>4
    <3>6. Runs(S2, u, i, k) <=> Runs(S, u, i, k) /\ i # n
      <4>1. i \in 1..(n - 1) <=> i \in 1..n /\ i # n
        BY <2>1
      <4>. QED
        BY <2>1, <3>1, <3>2, <3>5, <4>1 DEF Runs, n
    <3>. QED
      BY <2>2, <3>6 DEF S2, n
  <2>. QED
    BY <2>3, <2>4
<1>4. CASE u \in DOMAIN S /\ u \notin Back(S, t)
  <2>1. u \in DOMAIN S2 /\ u # t
    BY <1>1, <1>4
  <2>2. /\ Len(S2[u]) = n
        /\ \A m \in 1..n : MayBeTold(S[u][m], S2[u][m])
    BY <1>4, ReturnTells
  <2>3. \A m \in 1..n : S[u][m] \in Frames
    BY <1>4, StackTop DEF StacksOK
  <2>. HIDE DEF S2
  <2>4. \A m \in 1..n : S2[u][m].job = S[u][m].job /\ S2[u][m].at = S[u][m].at
    BY <2>2, <2>3 DEF Frames, MayBeTold
  <2>5. \A m \in 1..n : Executes(S2[u][m], k) <=> Executes(S[u][m], k)
    BY <2>4 DEF Executes
  <2>. QED
    BY <1>4, <2>1, <2>2, <2>5 DEF Runs, S2
<1>. QED
  BY <1>2, <1>3, <1>4

\* Its key is free, and nobody waits for it any more.
LEMMA ReturnFlight ==
    ASSUME NEW S, StacksOK(S), NEW t \in DOMAIN S, NEW ok \in BOOLEAN, MayReturn(S, t, ok),
           NEW F, FlightOK(F, S)
    PROVE  LET j == Last(S[t]).job
           IN  FlightOK(IF Keyed(j) THEN F \ {Key(j)} ELSE F, Returned(S, t, ok))
<1>. DEFINE S2 == Returned(S, t, ok)
            g == Last(S[t])
            j == g.job
            n == Len(S[t])
            F2 == IF Keyed(j) THEN F \ {Key(j)} ELSE F
<1>1. \A u, i, k : Runs(S2, u, i, k) <=> Runs(S, u, i, k) /\ ~(u = t /\ i = n)
  BY ReturnRuns
<1>2. n \in 1..n /\ S[t][n] = g /\ g.at \in {"run", "fail"}
  BY StackTop DEF StacksOK, MayReturn
<1>3. \A k : Runs(S, t, n, k) <=> Keyed(j) /\ Key(j) = k
  BY <1>2 DEF Runs, Executes
<1>4. \A u \in DOMAIN S2 : Last(S2[u]).at = "wait" =>
        /\ u \in DOMAIN S /\ Last(S[u]).at = "wait" /\ Last(S2[u]).job = Last(S[u]).job
        /\ u \notin Back(S, t)
  <2>. SUFFICES ASSUME NEW u \in DOMAIN S2, Last(S2[u]).at = "wait"
                PROVE  /\ u \in DOMAIN S /\ Last(S[u]).at = "wait" /\ Last(S2[u]).job = Last(S[u]).job
                       /\ u \notin Back(S, t)
    OBVIOUS
  <2>1. u \in DOMAIN S /\ u \notin Ended(S, t)
    BY ReturnDomain
  <2>2. CASE u \in Back(S, t)
    <3>. DEFINE h == S[u][Len(S[u]) - 1]
    <3>1. h \in Frames /\ h.at = "run"
      BY <2>1, <2>2, ReturnBack
    <3>2. Last(S2[u]) = Resumed(h, ok)
      BY <2>1, <2>2, ReturnResumes
    <3>. HIDE DEF h
    <3>3. Resumed(h, ok).at # "wait"
      <4>1. CASE ok
        <5>1. Resumed(h, ok) = [h EXCEPT !.pc = @ + 1]
          BY <4>1 DEF Resumed, After
        <5>. QED
          BY <3>1, <5>1 DEF Frames
      <4>2. CASE ~ok
        <5>1. Resumed(h, ok) = [h EXCEPT !.at = "fail"]
          BY <4>2 DEF Resumed
        <5>. QED
          BY <3>1, <5>1 DEF Frames
      <4>. QED
        BY <4>1, <4>2
    <3>. HIDE DEF S2
    <3>. QED
      BY <3>2, <3>3
  <2>3. CASE u \notin Back(S, t)
    <3>. DEFINE f == Last(S[u])
                f2 == Last(S2[u])
    <3>1. MayBeTold(f, f2)
      BY <2>1, <2>3, ReturnTells
    <3>2. f \in Frames
      BY <2>1, StackTop DEF StacksOK
    <3>. HIDE DEF f, f2
    <3>3. f2.at = f.at /\ f2.job = f.job
      BY <3>1, <3>2 DEF Frames, MayBeTold
    <3>4. f2.at = "wait"
      BY DEF f2
    <3>5. f.at = "wait" /\ f2.job = f.job
      BY <3>3, <3>4
    <3>. QED
      BY <2>1, <2>3, <3>5 DEF f, f2
  <2>. QED
    BY <2>2, <2>3
<1>. HIDE DEF S2, n
<1>5. \A k \in F2 : \E u, i : Runs(S2, u, i, k)
  <2>. SUFFICES ASSUME NEW k \in F2 PROVE \E u, i : Runs(S2, u, i, k)
    OBVIOUS
  <2>1. k \in F /\ ~(Keyed(j) /\ Key(j) = k)
    OBVIOUS
  <2>2. PICK u, i : Runs(S, u, i, k)
    BY <2>1 DEF FlightOK
  <2>. QED
    BY <1>1, <1>3, <2>1, <2>2
<1>6. \A k, u, i : Runs(S2, u, i, k) => k \in F2
  <2>. SUFFICES ASSUME NEW k, NEW u, NEW i, Runs(S2, u, i, k) PROVE k \in F2
    OBVIOUS
  <2>1. Runs(S, u, i, k) /\ ~(u = t /\ i = n)
    BY <1>1
  <2>2. k \in F
    BY <2>1 DEF FlightOK
  <2>3. ~Runs(S, t, n, k)
    BY <2>1 DEF FlightOK
  <2>. QED
    BY <1>3, <2>2, <2>3
<1>7. \A k, u, i, v, m : Runs(S2, u, i, k) /\ Runs(S2, v, m, k) => u = v /\ i = m
  <2>. SUFFICES ASSUME NEW k, NEW u, NEW i, NEW v, NEW m, Runs(S2, u, i, k), Runs(S2, v, m, k)
                PROVE  u = v /\ i = m
    OBVIOUS
  <2>1. Runs(S, u, i, k) /\ Runs(S, v, m, k)
    BY <1>1
  <2>. QED
    BY <2>1 DEF FlightOK
<1>8. \A u \in DOMAIN S2 : Last(S2[u]).at = "wait" => Key(Last(S2[u]).job) \in F2
  <2>. SUFFICES ASSUME NEW u \in DOMAIN S2, Last(S2[u]).at = "wait"
                PROVE  Key(Last(S2[u]).job) \in F2
    OBVIOUS
  <2>1. /\ u \in DOMAIN S /\ Last(S[u]).at = "wait" /\ Last(S2[u]).job = Last(S[u]).job
        /\ u \notin Back(S, t)
    BY <1>4
  <2>2. Key(Last(S[u]).job) \in F
    BY <2>1 DEF FlightOK
  <2>3. ~(Keyed(j) /\ Key(Last(S[u]).job) = Key(j))
    BY <2>1 DEF Back
  <2>. HIDE DEF j
  <2>. QED
    BY <2>1, <2>2, <2>3
<1>9. FlightOK(F2, S2)
  <2>. HIDE DEF F2
  <2>. QED
    BY <1>5, <1>6, <1>7, <1>8 DEF FlightOK
<1>. QED
  BY <1>9 DEF S2
\* A routine that succeeds has done all its steps.
LEMMA ReturnTop ==
    ASSUME NEW S, StacksOK(S), NEW t \in DOMAIN S, NEW ok \in BOOLEAN, MayReturn(S, t, ok),
           NEW R, DoneOK(R, S)
    PROVE  LET g == Last(S[t])
           IN  /\ StackOK(S[t]) /\ g \in Frames /\ FrameOK(g) /\ g.job \in Jobs
               /\ FrameDone(R, g) /\ (ok => JobDone(R, g.job))
<1>. DEFINE g == Last(S[t])
            j == g.job
<1>1. /\ StackOK(S[t]) /\ g \in Frames /\ FrameOK(g) /\ j \in Jobs /\ g.pc \in Nat
      /\ FrameDone(R, g) /\ Len(Program[j]) \in Nat
  <2>1. StackOK(S[t])
    BY DEF StacksOK
  <2>2. g \in Frames /\ FrameOK(g) /\ Len(S[t]) \in 1..Len(S[t]) /\ g = S[t][Len(S[t])]
    BY <2>1, StackTop
  <2>3. FrameDone(R, g)
    BY <2>2 DEF DoneOK
  <2>. QED
    BY <2>1, <2>2, <2>3, JobPrograms DEF Frames
<1>2. ok => JobDone(R, j)
  <2>. SUFFICES ASSUME ok PROVE JobDone(R, j)
    OBVIOUS
  <2>. HIDE DEF g
  <2>1. g.pc > Len(Program[j])
    BY DEF MayReturn, g
  <2>2. \A n \in 1..Len(Program[j]) : n \in 1..(g.pc - 1)
    BY <1>1, <2>1
  <2>. QED
    BY <1>1, <2>2 DEF FrameDone, StepDone, JobDone
<1>. QED
  BY <1>1, <1>2

\* What the routine was called for is there when it succeeds, so that those who
\* go on have what they went for, and a job of an errgroup is done or the
\* goroutine that waits for it knows that it failed.
LEMMA ReturnDone ==
    ASSUME NEW S, StacksOK(S), NEW t \in DOMAIN S, NEW ok \in BOOLEAN, MayReturn(S, t, ok),
           NEW R, DoneOK(R, S)
    PROVE  DoneOK(R, Returned(S, t, ok))
<1>. DEFINE S2 == Returned(S, t, ok)
            g == Last(S[t])
            j == g.job
<1>1. /\ DOMAIN S2 = DOMAIN S \ Ended(S, t) /\ Ended(S, t) \subseteq Back(S, t)
      /\ t \in Back(S, t) /\ Back(S, t) \subseteq DOMAIN S
  BY ReturnDomain
<1>2. g \in Frames /\ j \in Jobs /\ g.pc \in Nat
  BY ReturnTop DEF Frames
<1>3. ok => JobDone(R, j)
  BY ReturnTop
<1>4. ASSUME ok, j[1] \in {"create", "hidden"} PROVE StepDone(R, Need(j[2]))
  <2>. HIDE DEF g
  <2>1. PICK n \in 1..Len(Program[j]) : j[2] \in Gives(Program[j][n])
    BY <1>2, <1>4, StoresOwn
  <2>2. j[2] \in R
    BY <1>3, <1>4, <2>1 DEF JobDone
  <2>3. Gives(Need(j[2])) = {j[2]} /\ Need(j[2])[1] = "need"
    BY DEF Gives, Need
  <2>. QED
    BY <2>2, <2>3 DEF StepDone
<1>5. ASSUME NEW u \in DOMAIN S2, u \in Back(S, t)
      PROVE  (\A i \in 1..Len(S2[u]) : FrameDone(R, S2[u][i])) /\ FanDone(R, S2, u)
  <2>. DEFINE n == Len(S[u])
              h == S[u][n - 1]
              f == Resumed(h, ok)
  <2>1. u \in Back(S, t) \ Ended(S, t)
    BY <1>1, <1>5
  <2>2. /\ n \in Nat /\ n >= 2 /\ n - 1 \in 1..n /\ h \in Frames /\ FrameOK(h)
        /\ h.at = "run" /\ h.pc <= Len(Program[h.job])
        /\ j[1] \in {"create", "hidden"} /\ Program[h.job][h.pc] = Need(j[2])
    BY <2>1, ReturnBack
  <2>3. /\ Len(S2[u]) = n - 1 /\ Last(S2[u]) = f
        /\ \A i \in 1..(n - 1) : S2[u][i] = IF i = n - 1 THEN Resumed(S[u][i], ok) ELSE S[u][i]
    BY <2>1, ReturnResumes
  <2>4. \A i \in 1..n : FrameDone(R, S[u][i])
    BY <1>1 DEF DoneOK
  <2>5. FrameDone(R, f) /\ f.at # "fan"
    <3>1. FrameDone(R, h) /\ h.pc \in Nat /\ h.pc >= 1
      BY <2>2, <2>4 DEF Frames, FrameOK
    <3>. HIDE DEF h, g
    <3>2. CASE ok
      <4>1. f = [h EXCEPT !.pc = @ + 1]
        BY <3>2 DEF Resumed, After
      <4>2. f.job = h.job /\ f.pc = h.pc + 1 /\ f.at = "run"
        BY <2>2, <4>1 DEF Frames
      <4>3. StepDone(R, Program[h.job][h.pc])
        BY <1>4, <2>2, <3>2
      <4>4. \A m \in 1..(f.pc - 1) : m \in 1..(h.pc - 1) \/ m = h.pc
        BY <3>1, <4>2
      <4>. QED
        BY <3>1, <4>2, <4>3, <4>4 DEF FrameDone
    <3>3. CASE ~ok
      <4>1. f = [h EXCEPT !.at = "fail"]
        BY <3>3 DEF Resumed
      <4>2. f.job = h.job /\ f.pc = h.pc /\ f.at = "fail"
        BY <2>2, <4>1 DEF Frames
      <4>. QED
        BY <3>1, <4>2 DEF FrameDone
    <3>. QED
      BY <3>2, <3>3
  <2>6. FanDone(R, S2, u)
    <3>. HIDE DEF f, S2
    <3>. QED
      BY <2>3, <2>5 DEF FanDone
  <2>7. ASSUME NEW i \in 1..(n - 1) PROVE FrameDone(R, S2[u][i])
    <3>1. CASE i = n - 1
      <4>1. S2[u][i] = f
        BY <2>3, <2>7, <3>1
      <4>. HIDE DEF f, S2
      <4>. QED
        BY <2>5, <4>1
    <3>2. CASE i # n - 1
      <4>1. S2[u][i] = S[u][i] /\ i \in 1..n
        BY <2>2, <2>3, <2>7, <3>2
      <4>. HIDE DEF S2
      <4>. QED
        BY <2>4, <4>1
    <3>. QED
      BY <3>1, <3>2
  <2>. HIDE DEF S2
  <2>. QED
    BY <2>3, <2>6, <2>7
<1>6. ASSUME NEW u \in DOMAIN S2, u \notin Back(S, t)
      PROVE  (\A i \in 1..Len(S2[u]) : FrameDone(R, S2[u][i])) /\ FanDone(R, S2, u)
  <2>. DEFINE n == Len(S[u])
              f == Last(S[u])
              f2 == Last(S2[u])
  <2>1. u \in DOMAIN S \ Back(S, t)
    BY <1>1, <1>6
  <2>2. /\ Len(S2[u]) = n /\ MayBeTold(f, f2) /\ \A i \in 1..n : MayBeTold(S[u][i], S2[u][i])
        /\ ~ok /\ ChildrenOf(S, u) \cap Ended(S, t) # {} => f2.failed
    BY <2>1, ReturnTells
  <2>3. /\ \A i \in 1..n : S[u][i] \in Frames /\ FrameDone(R, S[u][i])
        /\ FanDone(R, S, u) /\ f \in Frames
    BY <2>1, StackTop DEF StacksOK, DoneOK
  <2>. HIDE DEF S2
  <2>4. ASSUME NEW i \in 1..n PROVE FrameDone(R, S2[u][i])
    <3>1. S2[u][i].job = S[u][i].job /\ S2[u][i].pc = S[u][i].pc
      BY <2>2, <2>3 DEF Frames, MayBeTold
    <3>2. FrameDone(R, S[u][i])
      BY <2>3
    <3>. QED
      BY <3>1, <3>2 DEF FrameDone
  <2>5. f2.job = f.job /\ f2.pc = f.pc /\ f2.at = f.at /\ (~f2.failed => ~f.failed)
    <3>. HIDE DEF f, f2
    <3>. QED
      BY <2>2, <2>3 DEF Frames, MayBeTold
  <2>6. FanDone(R, S2, u)
    <3>. SUFFICES ASSUME f2.at = "fan", ~f2.failed, NEW i \in Program[f2.job][f2.pc][2]
                  PROVE  JobDone(R, i) \/ Member(u, i) \in DOMAIN S2
      BY DEF FanDone
    <3>1. JobDone(R, i) \/ Member(u, i) \in DOMAIN S
      BY <2>3, <2>5 DEF FanDone
    <3>2. ASSUME Member(u, i) \in Ended(S, t) PROVE JobDone(R, i)
      <4>. DEFINE v == Member(u, i)
      <4>1. v[1] = "member" /\ v[2] = u /\ v[3] = i
        BY DEF Member
      <4>2. v \in DOMAIN S /\ v \in Back(S, t)
        BY <1>1, <3>2
      <4>3. S[v][1].job = i
        BY <4>1, <4>2 DEF StacksOK, MemberOK
      <4>4. S[v][1].job = j
        BY <3>2, <4>2, ReturnBack
      <4>5. v \in ChildrenOf(S, u)
        BY <4>1, <4>2 DEF ChildrenOf
      <4>6. ok
        BY <2>2, <3>2, <4>5
      <4>. QED
        BY <1>3, <4>3, <4>4, <4>6
    <3>. QED
      BY <1>1, <3>1, <3>2
  <2>. QED
    BY <2>2, <2>4, <2>6
<1>7. DoneOK(R, S2)
  <2>. HIDE DEF S2
  <2>. QED
    BY <1>5, <1>6 DEF DoneOK
<1>. QED
  BY <1>7 DEF S2

\* The rows with the kind of types are types.
LEMMA TypeRows ==
    ASSUME NEW x \in AllRows, Kind(x) = "type"
    PROVE  x \in Of({"type"})
  BY DEF AllRows, Kind, Of

\* The routine of a type that succeeds has stored all its values; one that
\* fails after the row of the type cuts it short.
CutBy(S, t, R) ==
    LET g == Last(S[t])
    IN  {o \in R : g.job = <<"create", o>> /\ Program[g.job][g.pc] # Insert(o)}
\* A type without values keeps its cause: success stores them, failure cuts it short.
LEMMA ReturnPartial ==
    ASSUME NEW S, StacksOK(S), NEW t \in DOMAIN S, NEW ok \in BOOLEAN, MayReturn(S, t, ok),
           NEW R \in SUBSET AllRows, DoneOK(R, S), NEW C, PartialOK(R, C, S)
    PROVE  PartialOK(R, IF ok THEN C ELSE C \cup CutBy(S, t, R), Returned(S, t, ok))
<1>. DEFINE S2 == Returned(S, t, ok)
            C2 == IF ok THEN C ELSE C \cup CutBy(S, t, R)
            g == Last(S[t])
<1>1. /\ DOMAIN S2 = DOMAIN S \ Ended(S, t) /\ Ended(S, t) \subseteq Back(S, t)
      /\ t \in Back(S, t) /\ Back(S, t) \subseteq DOMAIN S
  BY ReturnDomain
<1>2. /\ StackOK(S[t]) /\ g \in Frames /\ FrameOK(g) /\ (ok => JobDone(R, g.job))
      /\ g = S[t][Len(S[t])]
  BY ReturnTop, StackTop
<1>. HIDE DEF S2, g
<1>3. ASSUME NEW x \in R, Kind(x) = "type", Past(g, x) PROVE Complete(R, x) \/ x \in C2
  <2>. DEFINE p == Program[<<"create", x>>]
  <2>1. x \in Of({"type"})
    BY <1>3, TypeRows
  <2>2. g.job = <<"create", x>> /\ \E n \in 1..(g.pc - 1) : p[n] = Insert(x)
    BY <1>3 DEF Past
  <2>3. /\ Len(p) \in Nat
        /\ \A n, m \in 1..Len(p) : p[n] = Insert(x) /\ p[m] = Insert(x) => n = m
        /\ \A y \in All(x, "attribute") \cup All(x, "effect") :
             \E n \in 1..Len(p) : Link(x, y) \in Gives(p[n])
    BY <2>1, TypeProgram
  <2>4. CASE ok
    <3>1. \A n \in 1..Len(p) : Gives(p[n]) \subseteq R
      BY <1>2, <2>2, <2>4 DEF JobDone
    <3>. HIDE DEF p
    <3>2. Complete(R, x)
      BY <2>3, <3>1 DEF Complete
    <3>. QED
      BY <3>2
  <2>5. CASE ~ok
    <3>1. g.pc <= Len(p) /\ g.pc \in Nat /\ g.pc >= 1
      BY <1>2, <2>2, <2>5 DEF MayReturn, FrameOK, Frames, g
    <3>. HIDE DEF p
    <3>2. PICK n \in 1..(g.pc - 1) : p[n] = Insert(x)
      BY <2>2
    <3>3. n \in 1..Len(p) /\ g.pc \in 1..Len(p) /\ n # g.pc
      BY <2>3, <3>1
    <3>4. p[g.pc] # Insert(x)
      BY <2>3, <3>2, <3>3
    <3>5. x \in CutBy(S, t, R)
      BY <2>2, <3>4 DEF CutBy, g, p
    <3>. QED
      BY <2>5, <3>5
  <2>. QED
    BY <2>4, <2>5
<1>4. ASSUME NEW x, NEW u \in DOMAIN S, NEW i \in 1..Len(S[u]), Past(S[u][i], x),
             ~(u = t /\ i = Len(S[t]))
      PROVE  GoesOn(S2, x)
  <2>. DEFINE n == Len(S[u])
              f == S[u][i]
  <2>1. CASE u \in Back(S, t)
    <3>1. /\ n \in Nat /\ n >= 1 /\ (u # t => S[u][n].at = "wait")
      BY <2>1, ReturnBack
    <3>2. i # n
      BY <1>4, <3>1 DEF Past
    <3>3. u \notin Ended(S, t)
      <4>1. n # 1
        <5>1. \A m \in 1..1 : m = 1
          OBVIOUS
        <5>. HIDE DEF n
        <5>. QED
          BY <3>2, <5>1 DEF n
      <4>. QED
        BY <4>1 DEF Ended
    <3>4. u \in Back(S, t) \ Ended(S, t) /\ u \in DOMAIN S2
      BY <1>1, <2>1, <3>3
    <3>5. /\ Len(S2[u]) = n - 1
          /\ \A m \in 1..(n - 1) : S2[u][m] = IF m = n - 1 THEN Resumed(S[u][m], ok) ELSE S[u][m]
      BY <3>4, ReturnResumes DEF S2
    <3>6. i \in 1..(n - 1)
      BY <3>1, <3>2
    <3>7. f \in Frames /\ S[u][n - 1].at = "run"
      <4>1. StackOK(S[u])
        BY DEF StacksOK
      <4>. QED
        BY <3>4, <4>1, ReturnBack, StackTop
    <3>8. Past(S2[u][i], x)
      <4>1. CASE i # n - 1
        BY <1>4, <3>5, <3>6, <4>1
      <4>2. CASE i = n - 1
        <5>1. S2[u][i] = Resumed(f, ok) /\ f.at = "run"
          BY <3>5, <3>6, <3>7, <4>2
        <5>2. Past(f, x)
          BY <1>4
        <5>. HIDE DEF f
        <5>3. CASE ok
          <6>1. Resumed(f, ok) = [f EXCEPT !.pc = @ + 1]
            BY <5>3 DEF Resumed, After
          <6>2. Resumed(f, ok).job = f.job /\ Resumed(f, ok).pc = f.pc + 1 /\ Resumed(f, ok).at = "run"
                /\ f.pc \in Nat
            BY <3>7, <5>1, <6>1 DEF Frames
          <6>3. \A m \in 1..(f.pc - 1) : m \in 1..(f.pc + 1 - 1)
            BY <6>2
          <6>. QED
            BY <5>1, <5>2, <6>2, <6>3 DEF Past
        <5>4. CASE ~ok
          <6>1. Resumed(f, ok) = [f EXCEPT !.at = "fail"]
            BY <5>4 DEF Resumed
          <6>2. Resumed(f, ok).job = f.job /\ Resumed(f, ok).pc = f.pc /\ Resumed(f, ok).at = "fail"
            BY <3>7, <6>1 DEF Frames
          <6>. QED
            BY <5>1, <5>2, <6>2 DEF Past
        <5>. QED
          BY <5>3, <5>4
      <4>. QED
        BY <4>1, <4>2
    <3>. QED
      BY <3>4, <3>5, <3>6, <3>8 DEF GoesOn
  <2>2. CASE u \notin Back(S, t)
    <3>1. u \in DOMAIN S \ Back(S, t) /\ u \in DOMAIN S2
      BY <1>1, <2>2
    <3>2. Len(S2[u]) = n /\ MayBeTold(f, S2[u][i])
      BY <3>1, ReturnTells DEF S2
    <3>3. f \in Frames
      BY StackTop DEF StacksOK
    <3>. HIDE DEF f
    <3>4. S2[u][i].job = f.job /\ S2[u][i].pc = f.pc /\ S2[u][i].at = f.at
      BY <3>2, <3>3 DEF MayBeTold, Frames
    <3>5. Past(S2[u][i], x)
      BY <1>4, <3>4 DEF Past, f
    <3>. QED
      BY <3>1, <3>2, <3>5 DEF GoesOn
  <2>. QED
    BY <2>1, <2>2
<1>5. ASSUME NEW x \in R, Kind(x) = "type" PROVE Complete(R, x) \/ x \in C2 \/ GoesOn(S2, x)
  <2>1. CASE Complete(R, x)
    BY <2>1
  <2>2. CASE x \in C
    BY <2>2
  <2>3. CASE GoesOn(S, x)
    <3>1. PICK u \in DOMAIN S : \E i \in 1..Len(S[u]) : Past(S[u][i], x)
      BY <2>3 DEF GoesOn
    <3>2. PICK i \in 1..Len(S[u]) : Past(S[u][i], x)
      BY <3>1
    <3>3. CASE u = t /\ i = Len(S[t])
      <4>1. Past(g, x)
        BY <1>2, <3>2, <3>3
      <4>. QED
        BY <1>3, <1>5, <4>1
    <3>4. CASE ~(u = t /\ i = Len(S[t]))
      BY <1>4, <3>2, <3>4
    <3>. QED
      BY <3>3, <3>4
  <2>. QED
    BY <1>5, <2>1, <2>2, <2>3 DEF PartialOK
<1>. HIDE DEF C2
<1>6. PartialOK(R, C2, S2)
  BY <1>5 DEF PartialOK
<1>. QED
  BY <1>6 DEF C2, S2

----------------------------------------------------------------------------
(* Steps *)

\* The parts of the invariant that are about goroutines.
StateOK(R, F, S, C) == StacksOK(S) /\ FlightOK(F, S) /\ DoneOK(R, S) /\ PartialOK(R, C, S)

\* The innermost frame of a goroutine and its step.
LEMMA TopIs ==
    ASSUME NEW S, StacksOK(S), NEW t \in DOMAIN S
    PROVE  LET g == Last(S[t])
               p == Program[g.job]
           IN  /\ g \in Frames /\ FrameOK(g) /\ g.job \in Jobs
               /\ g.pc \in Nat /\ g.pc >= 1 /\ g.at \in Places /\ g.failed \in BOOLEAN
               /\ p \in Seq(StepSet) /\ Len(p) \in Nat /\ g.pc <= Len(p) + 1
               /\ g.pc <= Len(p) => g.pc \in 1..Len(p) /\ p[g.pc] \in StepSet
<1>. DEFINE g == Last(S[t])
            p == Program[g.job]
<1>1. g \in Frames /\ FrameOK(g)
  BY StackTop DEF StacksOK
<1>. HIDE DEF g
<1>2. g.job \in Jobs /\ g.pc \in Nat /\ g.at \in Places /\ g.failed \in BOOLEAN
  BY <1>1 DEF Frames
<1>3. p \in Seq(StepSet) /\ Len(p) \in Nat
  BY <1>2, JobPrograms
<1>4. g.pc >= 1 /\ g.pc <= Len(p) + 1
  BY <1>1, <1>2, <1>3 DEF FrameOK
<1>. HIDE DEF p
<1>5. g.pc <= Len(p) => g.pc \in 1..Len(p) /\ p[g.pc] \in StepSet
  BY <1>2, <1>3, <1>4
<1>. QED
  BY <1>1, <1>2, <1>3, <1>4, <1>5 DEF g, p

\* A frame takes the place of the innermost one of t.
LEMMA ReplaceOK ==
    ASSUME NEW R, NEW F, NEW S, NEW C, StateOK(R, F, S, C), NEW t \in DOMAIN S,
           NEW f, Follows(S, t, f), f.at \notin {"fan", "wait"},
           \A k : Executes(f, k) <=> Executes(Last(S[t]), k),
           NEW R2, R \subseteq R2, FrameDone(R2, f),
           \A x : Past(Last(S[t]), x) => Past(f, x),
           \A x \in R2 \ R : Kind(x) = "type" => Past(f, x)
    PROVE  StateOK(R2, F, PutLast(S, t, f), C)
<1>1. StacksOK(S) /\ FlightOK(F, S) /\ DoneOK(R, S) /\ PartialOK(R, C, S)
  BY DEF StateOK
<1>2. StacksOK(PutLast(S, t, f))
  BY <1>1, PutLastStacks
<1>3. FlightOK(F, PutLast(S, t, f))
  BY <1>1, PutLastFlight
<1>4. DoneOK(R2, PutLast(S, t, f))
  BY <1>1, PutLastDone
<1>5. PartialOK(R2, C, PutLast(S, t, f))
  BY <1>1, PutLastPartial
<1>. QED
  BY <1>2, <1>3, <1>4, <1>5 DEF StateOK

\* A goroutine has taken a step e of its routine.
LEMMA AdvanceOK ==
    ASSUME NEW R, NEW F, NEW S, NEW C, StateOK(R, F, S, C), NEW t \in DOMAIN S,
           NEW g, g = Last(S[t]), g.at = "run", g.pc <= Len(Program[g.job]),
           NEW e, e = Program[g.job][g.pc],
           NEW R2, R \subseteq R2, StepDone(R2, e), R2 \ R \subseteq Writes(e)
    PROVE  StateOK(R2, F, PutLast(S, t, After(g)), C)
<1>. DEFINE f == After(g)
<1>1. /\ g \in Frames /\ FrameOK(g) /\ g.job \in Jobs /\ g.pc \in Nat /\ g.pc >= 1
      /\ Len(Program[g.job]) \in Nat /\ g.pc \in 1..Len(Program[g.job])
  BY TopIs DEF StateOK
<1>2. FrameDone(R, g)
  <2>1. Len(S[t]) \in 1..Len(S[t]) /\ S[t][Len(S[t])] = g
    BY StackTop DEF StateOK, StacksOK
  <2>. QED
    BY <2>1 DEF StateOK, DoneOK
<1>3. f \in Frames /\ f.job = g.job /\ f.pc = g.pc + 1 /\ f.at = "run"
  BY <1>1 DEF After, Frames
<1>. HIDE DEF f
<1>4. FrameOK(f)
  BY <1>1, <1>3 DEF FrameOK
<1>5. Follows(S, t, f)
  BY <1>3, <1>4 DEF Follows, SameCall
<1>6. \A k : Executes(f, k) <=> Executes(g, k)
  BY <1>3 DEF Executes
<1>7. FrameDone(R2, f)
  <2>1. \A m \in 1..(f.pc - 1) : m \in 1..(g.pc - 1) \/ m = g.pc
    BY <1>1, <1>3
  <2>2. FrameDone(R2, g)
    BY <1>2, DoneMore
  <2>. QED
    BY <1>3, <2>1, <2>2 DEF FrameDone
<1>8. \A x : Past(g, x) => Past(f, x)
  <2>1. \A m \in 1..(g.pc - 1) : m \in 1..(f.pc - 1)
    BY <1>1, <1>3
  <2>. QED
    BY <1>3, <2>1 DEF Past
<1>9. ASSUME NEW x \in R2 \ R, Kind(x) = "type" PROVE Past(f, x)
  <2>1. x \in Writes(Program[g.job][g.pc]) /\ x[1] = "type"
    BY <1>9 DEF Kind
  <2>2. g.job = <<"create", x>> /\ Program[g.job][g.pc] = Insert(x)
    BY <1>1, <2>1, WritesType
  <2>3. g.pc \in 1..(f.pc - 1)
    BY <1>1, <1>3
  <2>. QED
    BY <1>3, <2>2, <2>3 DEF Past
<1>10. StateOK(R2, F, PutLast(S, t, f), C)
  BY <1>3, <1>5, <1>6, <1>7, <1>8, <1>9, ReplaceOK
<1>. QED
  BY <1>10 DEF f

\* A goroutine has taken a step that has failed.
LEMMA FailOK ==
    ASSUME NEW R, NEW F, NEW S, NEW C, StateOK(R, F, S, C), NEW t \in DOMAIN S,
           NEW g, g = Last(S[t]), g.at \in {"run", "fan"}, g.pc <= Len(Program[g.job]),
           g.at = "fan" => \A u \in DOMAIN S : ~(u[1] = "member" /\ u[2] = t)
    PROVE  StateOK(R, F, PutLast(S, t, [g EXCEPT !.at = "fail"]), C)
<1>. DEFINE f == [g EXCEPT !.at = "fail"]
<1>1. g \in Frames /\ FrameOK(g)
  BY TopIs DEF StateOK
<1>2. FrameDone(R, g)
  <2>1. Len(S[t]) \in 1..Len(S[t]) /\ S[t][Len(S[t])] = g
    BY StackTop DEF StateOK, StacksOK
  <2>. QED
    BY <2>1 DEF StateOK, DoneOK
<1>3. f \in Frames /\ f.job = g.job /\ f.pc = g.pc /\ f.at = "fail"
  BY <1>1 DEF Frames, Places
<1>. HIDE DEF f
<1>4. FrameOK(f)
  BY <1>1, <1>3 DEF FrameOK
<1>5. Follows(S, t, f)
  BY <1>3, <1>4 DEF Follows, SameCall
<1>6. \A k : Executes(f, k) <=> Executes(g, k)
  BY <1>3 DEF Executes
<1>7. FrameDone(R, f)
  BY <1>2, <1>3 DEF FrameDone
<1>8. \A x : Past(g, x) => Past(f, x)
  BY <1>3 DEF Past
<1>9. StateOK(R, F, PutLast(S, t, f), C)
  <2>1. R \subseteq R /\ R \ R = {} /\ f.at \notin {"fan", "wait"}
    BY <1>3
  <2>. QED
    BY <1>5, <1>6, <1>7, <1>8, <2>1, ReplaceOK
<1>. QED
  BY <1>9 DEF f

\* Goroutines begin.
LEMMA BesideOK ==
    ASSUME NEW R, NEW F, NEW S, NEW C, StateOK(R, F, S, C), NEW N, Adds(S, N)
    PROVE  StateOK(R, F, Beside(S, N), C)
<1>1. StacksOK(S) /\ FlightOK(F, S) /\ DoneOK(R, S) /\ PartialOK(R, C, S)
  BY DEF StateOK
<1>2. FramesDone(R, S) /\ \A u \in DOMAIN S : FanDone(R, S, u)
  BY <1>1 DEF DoneOK, FramesDone
<1>3. DoneOK(R, Beside(S, N))
  BY <1>1, <1>2, BesideDone
<1>. QED
  BY <1>1, <1>3, BesideStacks, BesideFlight, BesidePartial DEF StateOK

\* The values of the other variables keep their types.
LEMMA ValuesNext ==
    ASSUME ValuesOK, rows' \subseteq AllRows, cut' \subseteq rows', request' = request,
           outcome' \in [Callers -> Outcomes], faults' \in 0..MaxFaults,
           \A c \in Callers : outcome'[c] # "none" \/ Caller(c) \in DOMAIN stack' =>
               outcome[c] # "none" \/ Caller(c) \in DOMAIN stack \/ request[c] \in Entries
    PROVE  ValuesOK'
  BY DEF ValuesOK, Goroutines

----------------------------------------------------------------------------
(* Actions *)

State == StateOK(rows, flights, stack, cut)
\* The invariant is about values and about goroutines,
LEMMA StateIs == IInv <=> ValuesOK /\ State
  BY DEF IInv, TypeInv, FlightInv, DoneInv, PartialInv, State, StateOK
\* ... also after a step.
LEMMA StateIsNext == IInv' <=> ValuesOK' /\ StateOK(rows', flights', stack', cut')
  BY DEF IInv, TypeInv, FlightInv, DoneInv, PartialInv, State, StateOK

\* Most steps leave the callers and what they were told alone.
LEMMA ValuesStay ==
    ASSUME ValuesOK, rows \subseteq rows', rows' \subseteq AllRows,
           request' = request, outcome' = outcome, cut' = cut, faults' \in 0..MaxFaults,
           \A c \in Callers : Caller(c) \in DOMAIN stack' => Caller(c) \in DOMAIN stack
    PROVE  ValuesOK'
<1>1. cut' \subseteq rows' /\ outcome' \in [Callers -> Outcomes]
  BY DEF ValuesOK
<1>. QED
  BY <1>1, ValuesNext

\* The step that a goroutine is at.
LEMMA AtIs ==
    ASSUME StacksOK(stack), NEW t \in Goroutines, NEW op, At(t, op)
    PROVE  LET g == Last(stack[t])
               e == Program[g.job][g.pc]
           IN  /\ Top(t) = g /\ g.at = "run" /\ g.job \in Jobs
               /\ g.pc \in 1..Len(Program[g.job]) /\ g.pc <= Len(Program[g.job])
               /\ e \in StepSet /\ e[1] = op /\ Arg(t) = e[2]
<1>. DEFINE g == Last(stack[t])
<1>1. Top(t) = g /\ t \in DOMAIN stack
  BY DEF Top, Goroutines
<1>2. g.at = "run" /\ g.pc <= Len(Program[g.job]) /\ Program[g.job][g.pc][1] = op
  BY <1>1 DEF At
<1>3. g.job \in Jobs /\ g.pc \in 1..Len(Program[g.job]) /\ Program[g.job][g.pc] \in StepSet
  BY <1>1, <1>2, TopIs
<1>4. Arg(t) = Program[g.job][g.pc][2]
  BY <1>1 DEF Arg
<1>. QED
  BY <1>1, <1>2, <1>3, <1>4

\* The actions put a frame in the place of the innermost one.
LEMMA SetTopIs ==
    ASSUME NEW t, NEW f
    PROVE  WithTop(t, f) = PutLast(stack, t, f)
  BY DEF WithTop, PutLast, Put, WithLast

\* Calls that leave the tables alone.
LEMMA CallStep ==
    ASSUME IInv, NEW t \in Goroutines, Call(t)
    PROVE  IInv'
<1>. DEFINE g == Last(stack[t])
            e == Program[g.job][g.pc]
<1>1. ValuesOK /\ State /\ StacksOK(stack) /\ t \in DOMAIN stack
  BY StateIs DEF State, StateOK, Goroutines
<1>2. PICK op \in {"fetch", "missing", "access"} : At(t, op)
  BY DEF Call
<1>3. /\ Top(t) = g /\ g.at = "run" /\ g.pc <= Len(Program[g.job])
      /\ e \in StepSet /\ e[1] = op
  BY <1>1, <1>2, AtIs
<1>4. stack' = PutLast(stack, t, After(g))
  BY <1>3, SetTopIs DEF Call, Advance, SetTop
<1>5. UNCHANGED <<rows, flights, request, outcome, faults, cut>>
  BY DEF Call
<1>6. StepDone(rows, e)
  <2>1. Gives(e) = {} /\ e[1] # "fan"
    BY <1>3, StepTypes
  <2>. QED
    BY <2>1 DEF StepDone
<1>7. StateOK(rows, flights, stack', cut)
  <2>1. rows \ rows \subseteq Writes(e)
    OBVIOUS
  <2>. HIDE DEF g, e
  <2>2. g = Last(stack[t]) /\ e = Program[g.job][g.pc]
    BY DEF g, e
  <2>. QED
    BY <1>1, <1>3, <1>4, <1>6, <2>1, <2>2, AdvanceOK DEF State
<1>8. DOMAIN stack' = DOMAIN stack
  BY <1>4 DEF PutLast, Put
<1>9. ValuesOK'
  BY <1>1, <1>5, <1>8, ValuesStay DEF ValuesOK
<1>. QED
  BY <1>5, <1>7, <1>9, StateIsNext

\* A call of ESI or of the database fails.
LEMMA FailStep ==
    ASSUME IInv, NEW t \in Goroutines, Fail(t)
    PROVE  IInv'
<1>. DEFINE g == Last(stack[t])
<1>1. ValuesOK /\ State /\ StacksOK(stack) /\ t \in DOMAIN stack
  BY StateIs DEF State, StateOK, Goroutines
<1>2. PICK op : At(t, op)
  BY DEF Fail
<1>3. Top(t) = g /\ g.at = "run" /\ g.pc <= Len(Program[g.job])
  BY <1>1, <1>2, AtIs
<1>4. stack' = PutLast(stack, t, [g EXCEPT !.at = "fail"])
  BY <1>3, SetTopIs DEF Fail, SetTop
<1>5. UNCHANGED <<rows, flights, request, outcome, cut>> /\ faults' \in 0..MaxFaults
  BY <1>1, BoundAssumption DEF Fail, ValuesOK
<1>6. StateOK(rows, flights, stack', cut)
  <2>. HIDE DEF g
  <2>1. g = Last(stack[t]) /\ g.at \in {"run", "fan"} /\ g.at # "fan"
    BY <1>3 DEF g
  <2>. QED
    BY <1>1, <1>3, <1>4, <2>1, FailOK DEF State
<1>7. DOMAIN stack' = DOMAIN stack
  BY <1>4 DEF PutLast, Put
<1>8. ValuesOK'
  BY <1>1, <1>5, <1>7, ValuesStay DEF ValuesOK
<1>. QED
  BY <1>5, <1>6, <1>8, StateIsNext

\* Singleflight is entered: the key is free or the goroutine waits.
LEMMA EnterStep ==
    ASSUME IInv, NEW t \in Goroutines, Enter(t)
    PROVE  IInv'
<1>. DEFINE g == Last(stack[t])
            k == Key(g.job)
            f == [g EXCEPT !.at = IF k \in flights THEN "wait" ELSE "run"]
<1>1. ValuesOK /\ State /\ StacksOK(stack) /\ t \in DOMAIN stack /\ Top(t) = g
  BY StateIs DEF State, StateOK, Goroutines, Top
<1>2. g.at = "enter" /\ stack' = PutLast(stack, t, f) /\ flights' = flights \cup {k}
  BY <1>1, SetTopIs DEF Enter, SetTop
<1>3. UNCHANGED <<rows, request, outcome, faults, cut>>
  BY DEF Enter
<1>4. g \in Frames /\ FrameOK(g)
  BY <1>1, TopIs
<1>5. FrameDone(rows, g)
  <2>1. Len(stack[t]) \in 1..Len(stack[t]) /\ stack[t][Len(stack[t])] = g
    BY <1>1, StackTop DEF StacksOK
  <2>. QED
    BY <1>1, <2>1 DEF State, StateOK, DoneOK
<1>. HIDE DEF g
<1>6. /\ f \in Frames /\ f.job = g.job /\ f.pc = g.pc /\ f.at \in {"wait", "run"}
      /\ (f.at = "wait" <=> k \in flights)
  <2>. HIDE DEF k
  <2>. QED
    BY <1>4 DEF Frames, Places
<1>. HIDE DEF f, k
<1>7. FrameOK(f) /\ Keyed(f.job) /\ k = Key(f.job)
  BY <1>2, <1>4, <1>6 DEF FrameOK, Keyed, k
<1>8. Follows(stack, t, f)
  BY <1>2, <1>6, <1>7 DEF Follows, SameCall, g
<1>9. FrameDone(rows, f)
  BY <1>5, <1>6 DEF FrameDone
<1>10. \A x : ~Past(Last(stack[t]), x)
  BY <1>2 DEF Past, g
<1>11. FlightOK(flights', stack')
  <2>1. FlightOK(flights, stack) /\ Last(stack[t]).at = "enter"
    BY <1>1, <1>2 DEF State, StateOK, g
  <2>2. CASE k \in flights
    <3>1. \A x : Executes(f, x) <=> Executes(Last(stack[t]), x)
      BY <1>6, <2>1, <2>2 DEF Executes
    <3>2. FlightOK(flights, PutLast(stack, t, f))
      BY <1>1, <1>7, <1>8, <2>1, <2>2, <3>1, PutLastFlight
    <3>3. flights' = flights
      BY <1>2, <2>2
    <3>. QED
      BY <1>2, <3>2, <3>3
  <2>3. CASE k \notin flights
    <3>1. f.at = "run"
      BY <1>6, <2>3
    <3>2. FlightOK(flights \cup {k}, PutLast(stack, t, f))
      BY <1>1, <1>7, <1>8, <2>1, <2>3, <3>1, PutLastEnters
    <3>. QED
      BY <1>2, <3>2
  <2>. QED
    BY <2>2, <2>3
<1>12. StacksOK(stack') /\ DoneOK(rows, stack') /\ PartialOK(rows, cut, stack')
  <2>1. StacksOK(PutLast(stack, t, f))
    BY <1>1, <1>8, PutLastStacks
  <2>2. f.at # "fan" /\ rows \subseteq rows /\ rows \ rows = {}
    BY <1>6
  <2>3. DoneOK(rows, PutLast(stack, t, f))
    BY <1>1, <1>8, <1>9, <2>2, PutLastDone DEF State, StateOK
  <2>4. PartialOK(rows, cut, PutLast(stack, t, f))
    BY <1>1, <1>8, <1>10, <2>2, PutLastPartial DEF State, StateOK
  <2>. QED
    BY <1>2, <2>1, <2>3, <2>4
<1>13. DOMAIN stack' = DOMAIN stack
  BY <1>2 DEF PutLast, Put
<1>14. ValuesOK'
  BY <1>1, <1>3, <1>13, ValuesStay DEF ValuesOK
<1>. QED
  BY <1>3, <1>11, <1>12, <1>14, StateIsNext DEF StateOK

\* The character may not see the structure: its routine is another one, its key is not.
LEMMA ForbiddenStep ==
    ASSUME IInv, NEW t \in Goroutines, Forbidden(t)
    PROVE  IInv'
<1>. DEFINE g == Last(stack[t])
            e == Program[g.job][g.pc]
            o == g.job[2]
            f == [g EXCEPT !.job = <<"hidden", @[2]>>]
<1>1. ValuesOK /\ State /\ StacksOK(stack) /\ t \in DOMAIN stack
  BY StateIs DEF State, StateOK, Goroutines
<1>2. At(t, "access")
  BY DEF Forbidden
<1>3. /\ Top(t) = g /\ g.at = "run" /\ g.job \in Jobs
      /\ g.pc \in 1..Len(Program[g.job]) /\ e[1] = "access"
  BY <1>1, <1>2, AtIs
<1>4. stack' = PutLast(stack, t, f)
  BY <1>3, SetTopIs DEF Forbidden, SetTop
<1>5. UNCHANGED <<rows, flights, request, outcome, faults, cut>>
  BY DEF Forbidden
<1>6. g.pc = 1 /\ g.job = <<"create", o>> /\ <<"hidden", o>> \in Jobs
  BY <1>3, AccessFirst
<1>7. g \in Frames /\ FrameOK(g)
  BY <1>1, TopIs
<1>. HIDE DEF g
<1>8. f \in Frames /\ f.job = <<"hidden", o>> /\ f.pc = 1 /\ f.at = "run"
  BY <1>3, <1>6, <1>7 DEF Frames
<1>9. g.job[1] = "create" /\ f.job[1] = "hidden" /\ f.job[2] = o
  BY <1>6, <1>8
<1>. HIDE DEF f
<1>10. FrameOK(f)
  <2>1. Len(Program[f.job]) \in Nat
    BY <1>6, <1>8, JobPrograms
  <2>. QED
    BY <1>8, <2>1 DEF FrameOK
<1>11. Follows(stack, t, f)
  BY <1>3, <1>8, <1>9, <1>10 DEF Follows, SameCall, g
<1>12. \A k : Executes(f, k) <=> Executes(g, k)
  <2>1. Key(f.job) = <<"create", o>> /\ Key(g.job) = <<"create", o>>
    BY <1>6, <1>9 DEF Key
  <2>. QED
    BY <1>3, <1>8, <1>9, <2>1 DEF Executes, Keyed
<1>13. FrameDone(rows, f) /\ \A x : ~Past(g, x)
  BY <1>6, <1>8 DEF FrameDone, Past
<1>14. StateOK(rows, flights, stack', cut)
  <2>1. f.at \notin {"fan", "wait"} /\ rows \subseteq rows /\ rows \ rows = {}
    BY <1>8
  <2>. QED
    BY <1>1, <1>4, <1>11, <1>12, <1>13, <2>1, ReplaceOK DEF State, g
<1>15. DOMAIN stack' = DOMAIN stack
  BY <1>4 DEF PutLast, Put
<1>16. ValuesOK'
  BY <1>1, <1>5, <1>15, ValuesStay DEF ValuesOK
<1>. QED
  BY <1>5, <1>14, <1>16, StateIsNext

\* A row that is there is used, another one is created.
LEMMA ReadStep ==
    ASSUME IInv, NEW t \in Goroutines, Read(t)
    PROVE  IInv'
<1>. DEFINE g == Last(stack[t])
            e == Program[g.job][g.pc]
            x == e[2]
<1>1. ValuesOK /\ State /\ StacksOK(stack) /\ t \in DOMAIN stack
  BY StateIs DEF State, StateOK, Goroutines
<1>2. At(t, "need")
  BY DEF Read
<1>3. /\ Top(t) = g /\ g.at = "run" /\ g.pc <= Len(Program[g.job])
      /\ e \in StepSet /\ e[1] = "need" /\ Arg(t) = x
  BY <1>1, <1>2, AtIs
<1>4. e = Need(x) /\ x \in Creatable /\ Gives(e) = {x} /\ Writes(e) = {}
  BY <1>3, StepTypes
<1>5. UNCHANGED <<rows, flights, request, outcome, faults, cut>>
  BY DEF Read
<1>6. StateOK(rows, flights, stack', cut) /\ DOMAIN stack' = DOMAIN stack
  <2>1. CASE x \in rows
    <3>1. stack' = PutLast(stack, t, After(g))
      BY <1>3, <2>1, SetTopIs DEF Read, Advance, SetTop
    <3>2. StepDone(rows, e)
      BY <1>3, <1>4, <2>1 DEF StepDone
    <3>3. rows \ rows \subseteq Writes(e) /\ rows \subseteq rows
      OBVIOUS
    <3>4. DOMAIN stack' = DOMAIN stack
      BY <3>1 DEF PutLast, Put
    <3>. HIDE DEF g, e
    <3>5. g = Last(stack[t]) /\ e = Program[g.job][g.pc]
      BY DEF g, e
    <3>. QED
      BY <1>1, <1>3, <3>1, <3>2, <3>3, <3>4, <3>5, AdvanceOK DEF State
  <2>2. CASE x \notin rows
    <3>1. stack' = Put(stack, t, Append(stack[t], Called(x)))
      BY <1>3, <2>2 DEF Read, Put, Called
    <3>2. MayCall(stack, t, x)
      BY <1>3, <1>4 DEF MayCall
    <3>. HIDE DEF x
    <3>3. /\ StacksOK(stack') /\ DOMAIN stack' = DOMAIN stack
          /\ FlightOK(flights, stack') /\ DoneOK(rows, stack') /\ PartialOK(rows, cut, stack')
      BY <1>1, <1>4, <3>1, <3>2, PushStep DEF State, StateOK
    <3>. QED
      BY <3>3 DEF StateOK
  <2>. QED
    BY <2>1, <2>2
<1>7. ValuesOK'
  BY <1>1, <1>5, <1>6, ValuesStay DEF ValuesOK
<1>. QED
  BY <1>5, <1>6, <1>7, StateIsNext

\* A row is stored, or it was there.
LEMMA WriteStep ==
    ASSUME IInv, NEW t \in Goroutines, Write(t)
    PROVE  IInv'
<1>. DEFINE g == Last(stack[t])
            e == Program[g.job][g.pc]
<1>1. ValuesOK /\ State /\ StacksOK(stack) /\ t \in DOMAIN stack
  BY StateIs DEF State, StateOK, Goroutines
<1>2. UNCHANGED <<flights, request, outcome, faults, cut>>
  BY DEF Write
<1>3. /\ Top(t) = g /\ g.at = "run" /\ g.pc <= Len(Program[g.job])
      /\ e \in StepSet /\ e[1] \in {"insert", "upsert"} /\ Arg(t) = e[2]
  <2>1. PICK op \in {"insert", "upsert"} : At(t, op)
    BY DEF Write
  <2>. QED
    BY <1>1, <2>1, AtIs
<1>4. /\ Gives(e) = Writes(e) /\ Writes(e) \subseteq AllRows
      /\ e[1] = "insert" => Writes(e) = {e[2]}
      /\ e[1] = "upsert" => Writes(e) = e[2]
  <2>. HIDE DEF e
  <2>1. CASE e[1] = "insert"
    <3>1. Gives(e) = {e[2]} /\ Writes(e) = {e[2]} /\ e[2] \in AllRows
      BY <1>3, <2>1, StepTypes
    <3>. QED
      BY <2>1, <3>1
  <2>2. CASE e[1] = "upsert"
    <3>1. Gives(e) = e[2] /\ Writes(e) = e[2] /\ e[2] \subseteq AllRows
      BY <1>3, <2>2, StepTypes
    <3>. QED
      BY <2>2, <3>1
  <2>. QED
    BY <1>3, <2>1, <2>2
<1>5. rows' = rows \cup Writes(e)
  <2>1. CASE At(t, "insert")
    <3>1. e[1] = "insert"
      BY <1>1, <2>1, AtIs
    <3>2. ~At(t, "upsert")
      BY <2>1 DEF At
    <3>. QED
      BY <1>3, <1>4, <3>1, <3>2 DEF Write
  <2>2. CASE At(t, "upsert")
    <3>1. e[1] = "upsert"
      BY <1>1, <2>2, AtIs
    <3>2. ~At(t, "insert")
      BY <2>2 DEF At
    <3>. QED
      BY <1>3, <1>4, <3>1, <3>2 DEF Write
  <2>. QED
    BY <2>1, <2>2 DEF Write
<1>6. \/ stack' = PutLast(stack, t, After(g))
      \/ stack' = PutLast(stack, t, [g EXCEPT !.at = "fail"]) /\ rows' = rows
  <2>1. SetTop(t, [Top(t) EXCEPT !.at = "fail"]) =>
          stack' = PutLast(stack, t, [g EXCEPT !.at = "fail"])
    BY <1>3, SetTopIs DEF SetTop
  <2>2. Advance(t) => stack' = PutLast(stack, t, After(g))
    BY <1>3, SetTopIs DEF Advance, SetTop
  <2>3. Advance(t) \/ (SetTop(t, [Top(t) EXCEPT !.at = "fail"])
                       /\ rows' = rows \cup {Arg(t)} /\ Arg(t) \in rows)
    BY DEF Write
  <2>. QED
    BY <2>1, <2>2, <2>3
<1>7. StateOK(rows', flights, stack', cut)
  <2>. HIDE DEF g, e
  <2>0. g = Last(stack[t]) /\ e = Program[g.job][g.pc]
    BY DEF g, e
  <2>1. CASE stack' = PutLast(stack, t, After(g))
    <3>1. Gives(e) \subseteq rows' /\ e[1] # "fan"
      BY <1>3, <1>4, <1>5
    <3>2. StepDone(rows', e)
      BY <3>1 DEF StepDone
    <3>3. rows' \ rows \subseteq Writes(e) /\ rows \subseteq rows'
      BY <1>5
    <3>. QED
      BY <1>1, <1>3, <2>0, <2>1, <3>2, <3>3, AdvanceOK DEF State
  <2>2. CASE stack' = PutLast(stack, t, [g EXCEPT !.at = "fail"]) /\ rows' = rows
    <3>1. g.at \in {"run", "fan"} /\ g.at # "fan"
      BY <1>3
    <3>. QED
      BY <1>1, <1>3, <2>0, <2>2, <3>1, FailOK DEF State
  <2>. QED
    BY <1>6, <2>1, <2>2
<1>8. DOMAIN stack' = DOMAIN stack
  BY <1>6 DEF PutLast, Put
<1>9. ValuesOK'
  <2>1. rows \subseteq rows' /\ rows' \subseteq AllRows
    BY <1>1, <1>4, <1>5 DEF ValuesOK
  <2>. QED
    BY <1>1, <1>2, <1>8, <2>1, ValuesStay DEF ValuesOK
<1>. QED
  BY <1>2, <1>7, <1>9, StateIsNext

\* A goroutine nobody waits for begins.
LEMMA BackgroundStep ==
    ASSUME IInv, NEW t \in Goroutines, Background(t)
    PROVE  IInv'
<1>. DEFINE g == Last(stack[t])
            e == Program[g.job][g.pc]
            x == e[2]
            S == PutLast(stack, t, After(g))
            b == <<"background", x>>
            N == Starting(b, <<"get", x>>)
<1>1. ValuesOK /\ State /\ StacksOK(stack) /\ t \in DOMAIN stack
  BY StateIs DEF State, StateOK, Goroutines
<1>2. At(t, "spawn")
  BY DEF Background
<1>3. /\ Top(t) = g /\ g.at = "run" /\ g.pc <= Len(Program[g.job])
      /\ e \in StepSet /\ e[1] = "spawn" /\ Arg(t) = x
  BY <1>1, <1>2, AtIs
<1>4. x \in Creatable /\ Gives(e) = {}
  BY <1>3, StepTypes
<1>5. UNCHANGED <<rows, flights, request, outcome, faults, cut>>
  BY DEF Background
<1>6. stack' = Beside(S, N)
  BY <1>3, SetTopIs DEF Background
<1>7. StateOK(rows, flights, S, cut)
  <2>1. StepDone(rows, e)
    BY <1>3, <1>4 DEF StepDone
  <2>2. rows \ rows \subseteq Writes(e) /\ rows \subseteq rows
    OBVIOUS
  <2>. HIDE DEF g, e
  <2>3. g = Last(stack[t]) /\ e = Program[g.job][g.pc]
    BY DEF g, e
  <2>. QED
    BY <1>1, <1>3, <2>1, <2>2, <2>3, AdvanceOK DEF State
<1>8. DOMAIN S = DOMAIN stack
  BY DEF PutLast, Put
<1>. HIDE DEF S, x
<1>9. DOMAIN N = {b} /\ N[b] = <<Frame(<<"get", x>>)>>
  BY DEF Starting
<1>10. <<"get", x>> \in Entries
  <2>. DEFINE j == <<"get", x>>
  <2>1. j \in Jobs
    BY <1>4 DEF Jobs
  <2>2. j[1] = "get"
    OBVIOUS
  <2>. HIDE DEF j
  <2>3. j \in Entries
    BY <2>1, <2>2 DEF Entries
  <2>. QED
    BY <2>3 DEF j
<1>11. b[1] = "background" /\ \A c : Caller(c) # b
  BY DEF Caller
<1>. HIDE DEF N, b
<1>12. Adds(S, N)
  BY <1>9, <1>10, <1>11 DEF Adds
<1>13. StateOK(rows, flights, stack', cut)
  BY <1>6, <1>7, <1>12, BesideOK
<1>14. DOMAIN stack' = DOMAIN stack \cup {b}
  BY <1>6, <1>8, <1>9 DEF Beside
<1>15. ValuesOK'
  BY <1>1, <1>5, <1>11, <1>14, ValuesStay DEF ValuesOK
<1>. QED
  BY <1>5, <1>13, <1>15, StateIsNext

\* The goroutines of an errgroup begin.
LEMMA ForkStep ==
    ASSUME IInv, NEW t \in Goroutines, Fork(t)
    PROVE  IInv'
<1>. DEFINE g == Last(stack[t])
            e == Program[g.job][g.pc]
            f == [g EXCEPT !.at = "fan"]
            S == PutLast(stack, t, f)
            J == e[2]
            N == [u \in {Member(t, j) : j \in J} |-> <<Frame(u[3])>>]
<1>1. ValuesOK /\ State /\ StacksOK(stack) /\ t \in DOMAIN stack
  BY StateIs DEF State, StateOK, Goroutines
<1>2. At(t, "fan")
  BY DEF Fork
<1>3. /\ Top(t) = g /\ g.at = "run" /\ g.pc <= Len(Program[g.job])
      /\ e \in StepSet /\ e[1] = "fan" /\ Arg(t) = J
  BY <1>1, <1>2, AtIs
<1>4. J \subseteq Entries
  BY <1>3, StepTypes
<1>5. UNCHANGED <<rows, flights, request, outcome, faults, cut>>
  BY DEF Fork
<1>6. stack' = Beside(S, N)
  BY <1>3, SetTopIs DEF Fork
<1>7. g \in Frames /\ FrameOK(g) /\ g.pc \in Nat /\ FrameDone(rows, g)
  <2>1. Len(stack[t]) \in 1..Len(stack[t]) /\ stack[t][Len(stack[t])] = g
    BY <1>1, StackTop DEF StacksOK
  <2>. QED
    BY <1>1, <2>1, TopIs DEF State, StateOK, DoneOK
<1>. HIDE DEF g
<1>8. f \in Frames /\ f.job = g.job /\ f.pc = g.pc /\ f.at = "fan"
  BY <1>7 DEF Frames, Places
<1>. HIDE DEF f
<1>9. FrameOK(f)
  BY <1>3, <1>7, <1>8 DEF FrameOK
<1>10. Follows(stack, t, f)
  BY <1>3, <1>8, <1>9 DEF Follows, SameCall, g
<1>11. \A k : Executes(f, k) <=> Executes(Last(stack[t]), k)
  BY <1>3, <1>8 DEF Executes, g
<1>12. /\ StacksOK(S) /\ DOMAIN S = DOMAIN stack /\ Last(S[t]) = f
       /\ \A u \in DOMAIN stack : u # t => S[u] = stack[u]
  BY <1>1, <1>10, PutLastStacks
<1>13. FlightOK(flights, S)
  BY <1>1, <1>8, <1>10, <1>11, PutLastFlight DEF State, StateOK
<1>14. FramesDone(rows, S)
  <2>1. FrameDone(rows, f)
    BY <1>7, <1>8 DEF FrameDone
  <2>2. FramesDone(rows, stack) /\ rows \subseteq rows
    BY <1>1 DEF State, StateOK, DoneOK, FramesDone
  <2>. QED
    BY <1>1, <1>10, <2>1, <2>2, PutLastFrames
<1>15. PartialOK(rows, cut, S)
  <2>1. \A x : Past(Last(stack[t]), x) => Past(f, x)
    BY <1>8 DEF Past, g
  <2>2. rows \subseteq rows /\ rows \ rows = {}
    OBVIOUS
  <2>. QED
    BY <1>1, <1>10, <2>1, <2>2, PutLastPartial DEF State, StateOK
<1>. HIDE DEF S, J
<1>16. \A u \in DOMAIN N : \E j \in J : u = Member(t, j) /\ u[2] = t /\ u[3] = j /\ N[u] = <<Frame(j)>>
  BY DEF Member
<1>17. \A j \in J : Member(t, j) \in DOMAIN N
  OBVIOUS
<1>. HIDE DEF N
<1>18. Adds(S, N)
  <2>1. \A u \in DOMAIN N : \E j \in Entries : N[u] = <<Frame(j)>>
    BY <1>4, <1>16
  <2>2. ASSUME NEW u \in DOMAIN N
        PROVE  /\ u = Member(u[2], u[3]) /\ u[2] \in DOMAIN S
               /\ LET h == Last(S[u[2]])
                  IN  h.at = "fan" /\ u[3] \in Program[h.job][h.pc][2]
               /\ N[u] = <<Frame(u[3])>>
    <3>1. PICK j \in J : u = Member(t, j) /\ u[2] = t /\ u[3] = j /\ N[u] = <<Frame(j)>>
      BY <1>16
    <3>2. J = Program[f.job][f.pc][2]
      BY <1>8 DEF J
    <3>. QED
      BY <1>1, <1>8, <1>12, <3>1, <3>2
  <2>. QED
    BY <2>1, <2>2 DEF Adds
<1>19. DoneOK(rows, Beside(S, N))
  <2>1. ASSUME NEW u \in DOMAIN S
        PROVE  \/ FanDone(rows, S, u)
               \/ \A j \in Program[Last(S[u]).job][Last(S[u]).pc][2] : Member(u, j) \in DOMAIN N
    <3>1. CASE u = t
      <4>1. Program[Last(S[u]).job][Last(S[u]).pc][2] = J
        BY <1>8, <1>12, <3>1 DEF J
      <4>. QED
        BY <1>17, <3>1, <4>1
    <3>2. CASE u # t
      <4>1. FanDone(rows, stack, u) /\ S[u] = stack[u]
        BY <1>1, <1>12, <3>2 DEF State, StateOK, DoneOK
      <4>. QED
        BY <1>12, <4>1 DEF FanDone
    <3>. QED
      BY <3>1, <3>2
  <2>. QED
    BY <1>12, <1>14, <1>18, <2>1, BesideDone
<1>20. StateOK(rows, flights, stack', cut)
  BY <1>6, <1>12, <1>13, <1>15, <1>18, <1>19, BesideStacks, BesideFlight, BesidePartial DEF StateOK
<1>21. \A c \in Callers : Caller(c) \in DOMAIN stack' => Caller(c) \in DOMAIN stack
  <2>1. DOMAIN stack' = DOMAIN stack \cup DOMAIN N
    BY <1>6, <1>12 DEF Beside
  <2>2. ASSUME NEW c \in Callers PROVE Caller(c) \notin DOMAIN N
    <3>1. \A j : Caller(c)[1] # Member(t, j)[1]
      BY DEF Caller, Member
    <3>. QED
      BY <1>16, <3>1
  <2>. QED
    BY <2>1, <2>2
<1>22. ValuesOK'
  BY <1>1, <1>5, <1>21, ValuesStay DEF ValuesOK
<1>. QED
  BY <1>5, <1>20, <1>22, StateIsNext

\* The last goroutine of an errgroup has ended.
LEMMA JoinStep ==
    ASSUME IInv, NEW t \in Goroutines, Join(t)
    PROVE  IInv'
<1>. DEFINE g == Last(stack[t])
            e == Program[g.job][g.pc]
            f == [After(g) EXCEPT !.at = "run"]
<1>1. ValuesOK /\ State /\ StacksOK(stack) /\ t \in DOMAIN stack /\ Top(t) = g
  BY StateIs DEF State, StateOK, Goroutines, Top
<1>2. UNCHANGED <<rows, flights, request, outcome, faults, cut>> /\ g.at = "fan"
  BY <1>1 DEF Join
<1>3. /\ g \in Frames /\ FrameOK(g) /\ g.job \in Jobs /\ g.pc \in Nat /\ g.pc >= 1
      /\ Len(Program[g.job]) \in Nat
  BY <1>1, TopIs
<1>4. /\ g.pc <= Len(Program[g.job]) /\ g.pc \in 1..Len(Program[g.job])
      /\ e \in StepSet /\ e[1] = "fan"
  <2>1. g.pc <= Len(Program[g.job]) /\ e[1] = "fan"
    BY <1>2, <1>3 DEF FrameOK
  <2>. QED
    BY <1>1, <2>1, TopIs
<1>5. \A u \in DOMAIN stack : ~(u[1] = "member" /\ u[2] = t)
  BY DEF Join, Children, Goroutines
<1>6. FrameDone(rows, g)
  <2>1. Len(stack[t]) \in 1..Len(stack[t]) /\ stack[t][Len(stack[t])] = g
    BY <1>1, StackTop DEF StacksOK
  <2>. QED
    BY <1>1, <2>1 DEF State, StateOK, DoneOK
<1>7. CASE g.failed
  <2>1. stack' = PutLast(stack, t, [g EXCEPT !.at = "fail"])
    BY <1>1, <1>7, SetTopIs DEF Join, SetTop
  <2>2. StateOK(rows, flights, stack', cut)
    <3>. HIDE DEF g
    <3>1. g = Last(stack[t]) /\ g.at \in {"run", "fan"}
      BY <1>2 DEF g
    <3>. QED
      BY <1>1, <1>4, <1>5, <2>1, <3>1, FailOK DEF State
  <2>3. DOMAIN stack' = DOMAIN stack
    BY <2>1 DEF PutLast, Put
  <2>4. ValuesOK'
    BY <1>1, <1>2, <2>3, ValuesStay DEF ValuesOK
  <2>. QED
    BY <1>2, <2>2, <2>4, StateIsNext
<1>8. CASE ~g.failed
  <2>1. stack' = PutLast(stack, t, f)
    BY <1>1, <1>8, SetTopIs DEF Join, SetTop
  <2>2. StepDone(rows, e)
    <3>1. \A j \in e[2] : JobDone(rows, j) \/ Member(t, j) \in DOMAIN stack
      BY <1>1, <1>2, <1>8 DEF State, StateOK, DoneOK, FanDone
    <3>2. \A j : Member(t, j)[1] = "member" /\ Member(t, j)[2] = t
      BY DEF Member
    <3>3. \A j \in e[2] : JobDone(rows, j)
      BY <1>5, <3>1, <3>2
    <3>4. Gives(e) = {}
      BY <1>4, StepTypes
    <3>. QED
      BY <3>3, <3>4 DEF StepDone
  <2>. HIDE DEF g
  <2>3. f \in Frames /\ f.job = g.job /\ f.pc = g.pc + 1 /\ f.at = "run"
    <3>. DEFINE h == After(g)
    <3>1. h \in Frames /\ h.job = g.job /\ h.pc = g.pc + 1
      BY <1>3 DEF After, Frames
    <3>. HIDE DEF h
    <3>. QED
      BY <3>1 DEF Frames, Places, h
  <2>. HIDE DEF f
  <2>4. FrameOK(f)
    BY <1>3, <1>4, <2>3 DEF FrameOK
  <2>5. Follows(stack, t, f)
    BY <1>5, <2>3, <2>4 DEF Follows, SameCall, g
  <2>6. \A k : Executes(f, k) <=> Executes(g, k)
    BY <1>2, <2>3 DEF Executes
  <2>7. FrameDone(rows, f)
    <3>1. \A m \in 1..(f.pc - 1) : m \in 1..(g.pc - 1) \/ m = g.pc
      BY <1>3, <2>3
    <3>. QED
      BY <1>6, <2>2, <2>3, <3>1 DEF FrameDone
  <2>8. \A x : Past(g, x) => Past(f, x)
    <3>1. \A m \in 1..(g.pc - 1) : m \in 1..(f.pc - 1)
      BY <1>3, <2>3
    <3>. QED
      BY <2>3, <3>1 DEF Past
  <2>9. StateOK(rows, flights, stack', cut)
    <3>1. f.at \notin {"fan", "wait"} /\ rows \subseteq rows /\ rows \ rows = {}
      BY <2>3
    <3>. QED
      BY <1>1, <2>1, <2>5, <2>6, <2>7, <2>8, <3>1, ReplaceOK DEF State, g
  <2>10. DOMAIN stack' = DOMAIN stack
    BY <2>1 DEF PutLast, Put
  <2>11. ValuesOK'
    BY <1>1, <1>2, <2>10, ValuesStay DEF ValuesOK
  <2>. QED
    BY <1>2, <2>9, <2>11, StateIsNext
<1>. QED
  BY <1>7, <1>8

\* A goroutine of a caller begins.
LEMMA CallerStarts ==
    ASSUME State, NEW c \in Callers, request[c] \in Entries, stack' = Go(Caller(c), request[c])
    PROVE  StateOK(rows, flights, stack', cut) /\ DOMAIN stack' = DOMAIN stack \cup {Caller(c)}
<1>. DEFINE b == Caller(c)
            N == Starting(b, request[c])
<1>1. DOMAIN N = {b} /\ N[b] = <<Frame(request[c])>>
  BY DEF Starting
<1>2. b[1] # "member"
  BY DEF Caller
<1>3. stack' = Beside(stack, N)
  BY DEF Go
<1>. HIDE DEF N, b
<1>4. Adds(stack, N)
  BY <1>1, <1>2 DEF Adds
<1>5. StateOK(rows, flights, stack', cut)
  BY <1>3, <1>4, BesideOK DEF State
<1>6. DOMAIN stack' = DOMAIN stack \cup {b}
  BY <1>1, <1>3 DEF Beside
<1>. QED
  BY <1>5, <1>6 DEF b

\* A caller asks, or asks again.
LEMMA AskStep ==
    ASSUME IInv, NEW c \in Callers, Ask(c) \/ AskAgain(c)
    PROVE  IInv'
<1>1. ValuesOK /\ State
  BY StateIs
<1>2. request[c] \in Entries
  <2>1. CASE Ask(c)
    BY <1>1, <2>1, RequestAssumption DEF Ask, ValuesOK
  <2>2. CASE AskAgain(c)
    BY <1>1, <2>2 DEF AskAgain, ValuesOK
  <2>. QED
    BY <2>1, <2>2
<1>3. UNCHANGED <<rows, flights, request, faults, cut>> /\ stack' = Go(Caller(c), request[c])
  BY DEF Ask, AskAgain
<1>4. StateOK(rows, flights, stack', cut) /\ DOMAIN stack' = DOMAIN stack \cup {Caller(c)}
  BY <1>1, <1>2, <1>3, CallerStarts
<1>5. /\ outcome' \in [Callers -> Outcomes]
      /\ \A d \in Callers : outcome'[d] # "none" => outcome[d] # "none"
  <2>1. CASE Ask(c)
    BY <1>1, <2>1 DEF Ask, ValuesOK
  <2>2. CASE AskAgain(c)
    BY <1>1, <2>2 DEF AskAgain, ValuesOK, Outcomes
  <2>. QED
    BY <2>1, <2>2
<1>6. \A d \in Callers : Caller(d) \in DOMAIN stack' => Caller(d) \in DOMAIN stack \/ request[d] \in Entries
  <2>1. \A d \in Callers : Caller(d) = Caller(c) => d = c
    BY DEF Caller
  <2>. QED
    BY <1>2, <1>4, <2>1
<1>7. ValuesOK'
  <2>1. rows' \subseteq AllRows /\ cut' \subseteq rows' /\ faults' \in 0..MaxFaults
    BY <1>1, <1>3 DEF ValuesOK
  <2>. QED
    BY <1>1, <1>3, <1>5, <1>6, <2>1, ValuesNext
<1>. QED
  BY <1>3, <1>4, <1>7, StateIsNext

\* A routine returns.
LEMMA ReturnStep ==
    ASSUME IInv, NEW t \in Goroutines, Finish(t) \/ GiveUp(t)
    PROVE  IInv'
<1>. DEFINE g == Last(stack[t])
            j == g.job
<1>1. ValuesOK /\ State /\ StacksOK(stack) /\ t \in DOMAIN stack /\ Top(t) = g
  BY StateIs DEF State, StateOK, Goroutines, Top
<1>2. PICK ok \in BOOLEAN : Return(t, ok) /\ MayReturn(stack, t, ok)
  <2>1. CASE Finish(t)
    <3>1. Return(t, TRUE) /\ MayReturn(stack, t, TRUE)
      BY <1>1, <2>1 DEF Finish, MayReturn
    <3>. QED
      BY <3>1
  <2>2. CASE GiveUp(t)
    <3>1. Return(t, FALSE) /\ MayReturn(stack, t, FALSE)
      BY <1>1, <2>2 DEF GiveUp, MayReturn
    <3>. QED
      BY <3>1
  <2>. QED
    BY <2>1, <2>2
<1>. DEFINE S2 == Returned(stack, t, ok)
            F2 == IF Keyed(j) THEN flights \ {Key(j)} ELSE flights
            C2 == IF ok THEN cut ELSE cut \cup CutBy(stack, t, rows)
<1>3. stack' = S2
  BY <1>2 DEF Return, Returned, Back, Ended, Resumed, Told, ChildrenOf, Children, WithLast, Top, Goroutines
<1>4. flights' = F2 /\ UNCHANGED <<rows, request, faults>>
  BY <1>1, <1>2 DEF Return
<1>5. cut' = C2
  BY <1>1, <1>2 DEF Return, CutBy
<1>6. outcome' = [c \in Callers |-> IF Caller(c) \notin Ended(stack, t) THEN outcome[c]
                                    ELSE IF ok THEN "ok" ELSE "error"]
  BY <1>2 DEF Return, Back, Ended, Top, Goroutines
<1>7. FlightOK(F2, S2) /\ StacksOK(S2) /\ DoneOK(rows, S2) /\ PartialOK(rows, C2, S2)
  <2>1. rows \in SUBSET AllRows
    BY <1>1 DEF ValuesOK
  <2>2. FlightOK(F2, S2)
    BY <1>1, <1>2, ReturnFlight DEF State, StateOK
  <2>3. StacksOK(S2)
    BY <1>1, <1>2, ReturnStacksOK
  <2>4. DoneOK(rows, S2)
    BY <1>1, <1>2, ReturnDone DEF State, StateOK
  <2>5. PartialOK(rows, C2, S2)
    BY <1>1, <1>2, <2>1, ReturnPartial DEF State, StateOK
  <2>. QED
    BY <2>2, <2>3, <2>4, <2>5
<1>8. /\ DOMAIN S2 \subseteq DOMAIN stack /\ Ended(stack, t) \subseteq DOMAIN stack
  BY <1>1, ReturnDomain
<1>9. C2 \subseteq rows
  BY <1>1 DEF ValuesOK, CutBy
<1>. HIDE DEF S2, F2, C2
<1>10. ValuesOK'
  <2>1. outcome' \in [Callers -> Outcomes]
    BY <1>1, <1>6 DEF ValuesOK, Outcomes
  <2>2. \A c \in Callers : outcome'[c] # "none" \/ Caller(c) \in DOMAIN stack' =>
          outcome[c] # "none" \/ Caller(c) \in DOMAIN stack
    BY <1>3, <1>6, <1>8
  <2>3. rows' \subseteq AllRows /\ cut' \subseteq rows' /\ faults' \in 0..MaxFaults
    BY <1>1, <1>4, <1>5, <1>9 DEF ValuesOK
  <2>. QED
    BY <1>1, <1>4, <2>1, <2>2, <2>3, ValuesNext
<1>. QED
  BY <1>3, <1>4, <1>5, <1>7, <1>10, StateIsNext DEF StateOK

\* With no goroutine there is nothing to go wrong, and what was being created
\* is cut short.
LEMMA NobodyLeft ==
    ASSUME NEW R, NEW C, \A x \in R : Kind(x) = "type" => Complete(R, x) \/ x \in C
    PROVE  StateOK(R, {}, <<>>, C)
<1>1. DOMAIN <<>> = {}
  OBVIOUS
<1>2. StacksOK(<<>>)
  BY <1>1 DEF StacksOK
<1>3. FlightOK({}, <<>>)
  BY <1>1 DEF FlightOK, Runs
<1>4. DoneOK(R, <<>>)
  BY <1>1 DEF DoneOK
<1>5. PartialOK(R, C, <<>>)
  BY DEF PartialOK
<1>. QED
  BY <1>2, <1>3, <1>4, <1>5 DEF StateOK

\* A type whose row is there and whose routine goes on is in flight.
LEMMA PartialIsInFlight ==
    ASSUME NEW F, NEW S, FlightOK(F, S), NEW x, GoesOn(S, x)
    PROVE  <<"create", x>> \in F
<1>1. PICK u \in DOMAIN S : \E i \in 1..Len(S[u]) : Past(S[u][i], x)
  BY DEF GoesOn
<1>2. PICK i \in 1..Len(S[u]) : Past(S[u][i], x)
  BY <1>1
<1>. DEFINE k == <<"create", x>>
            f == S[u][i]
<1>3. f.job = k /\ f.at \in {"run", "fan", "fail"}
  BY <1>2 DEF Past
<1>4. Keyed(f.job) /\ Key(f.job) = k
  BY <1>3 DEF Keyed, Key
<1>. HIDE DEF k
<1>5. Runs(S, u, i, k)
  BY <1>3, <1>4 DEF Runs, Executes
<1>6. k \in F
  BY <1>5 DEF FlightOK
<1>. QED
  BY <1>6 DEF k

\* The process ends and starts again.
LEMMA RestartStep ==
    ASSUME IInv, Restart
    PROVE  IInv'
<1>1. ValuesOK /\ State
  BY StateIs
<1>2. \A x \in rows : Kind(x) = "type" => Complete(rows, x) \/ x \in cut'
  <2>. SUFFICES ASSUME NEW x \in rows, Kind(x) = "type" PROVE Complete(rows, x) \/ x \in cut'
    OBVIOUS
  <2>1. Complete(rows, x) \/ x \in cut \/ GoesOn(stack, x)
    BY <1>1 DEF State, StateOK, PartialOK
  <2>2. GoesOn(stack, x) => <<"create", x>> \in flights
    BY <1>1, PartialIsInFlight DEF State, StateOK
  <2>. QED
    BY <2>1, <2>2 DEF Restart
<1>3. StateOK(rows', flights', stack', cut')
  BY <1>2, NobodyLeft DEF Restart
<1>4. ValuesOK'
  <2>1. DOMAIN stack' = {}
    BY DEF Restart
  <2>2. outcome' \in [Callers -> Outcomes]
    BY <1>1 DEF Restart, ValuesOK, Outcomes
  <2>3. \A c \in Callers : outcome'[c] # "none" => outcome[c] # "none" \/ Caller(c) \in DOMAIN stack
    BY DEF Restart, Goroutines
  <2>4. rows' \subseteq AllRows /\ cut' \subseteq rows' /\ request' = request
    BY <1>1 DEF Restart, ValuesOK
  <2>5. faults' \in 0..MaxFaults
    BY <1>1, BoundAssumption DEF Restart, ValuesOK
  <2>. QED
    BY <1>1, <2>1, <2>2, <2>3, <2>4, <2>5, ValuesNext
<1>. QED
  BY <1>3, <1>4, StateIsNext

\* The invariant holds at the start,
LEMMA InitOK == Init => IInv
<1>. SUFFICES ASSUME Init PROVE IInv
  OBVIOUS
<1>1. StateOK(rows, flights, stack, cut)
  BY NobodyLeft DEF Init
<1>2. ValuesOK
  <2>1. DOMAIN stack = {}
    BY DEF Init
  <2>. QED
    BY <2>1, BoundAssumption DEF Init, ValuesOK, Outcomes, Goroutines
<1>. QED
  BY <1>1, <1>2, StateIs DEF State

\* ... every step of the specification keeps it,
LEMMA NextOK == IInv /\ [Next]_vars => IInv'
<1>. SUFFICES ASSUME IInv, [Next]_vars PROVE IInv'
  OBVIOUS
<1>1. ASSUME NEW t \in Goroutines, Step(t) PROVE IInv'
  BY <1>1, EnterStep, CallStep, ForbiddenStep, ReadStep, WriteStep, BackgroundStep, ForkStep,
     JoinStep, ReturnStep DEF Step
<1>2. ASSUME NEW c \in Callers, Ask(c) \/ AskAgain(c) PROVE IInv'
  BY <1>2, AskStep
<1>3. ASSUME NEW t \in Goroutines, Fail(t) PROVE IInv'
  BY <1>3, FailStep
<1>4. CASE Restart
  BY <1>4, RestartStep
<1>5. CASE UNCHANGED vars
  BY <1>5 DEF vars, IInv, TypeInv, FlightInv, DoneInv, PartialInv, ValuesOK, Goroutines
<1>. QED
  BY <1>1, <1>2, <1>3, <1>4, <1>5 DEF Next, Progress

\* ... so that it always holds.
LEMMA Invariance == Spec => []IInv
  BY InitOK, NextOK, PTL DEF Spec

----------------------------------------------------------------------------
(* The theorems *)

\* A key that is being executed is executed by exactly one goroutine.
LEMMA KeysOfFlights ==
    ASSUME IInv, NEW k \in flights
    PROVE  /\ k[1] \in {"create", "category"} /\ k[2] \in Objects
           /\ Cardinality(Executing(k)) = 1
<1>1. StacksOK(stack) /\ FlightOK(flights, stack)
  BY DEF IInv, TypeInv, FlightInv
<1>2. PICK u, i : Runs(stack, u, i, k)
  BY <1>1 DEF FlightOK
<1>. DEFINE f == stack[u][i]
<1>3. u \in DOMAIN stack /\ i \in 1..Len(stack[u]) /\ Keyed(f.job) /\ Key(f.job) = k
  BY <1>2 DEF Runs, Executes
<1>4. f.job \in Jobs
  BY <1>1, <1>3, StackTop DEF StacksOK, Frames
<1>5. k[1] \in {"create", "category"} /\ k[2] \in Objects
  <2>1. f.job[2] \in Objects /\ f.job = <<f.job[1], f.job[2]>>
    BY <1>4, JobKinds
  <2>. HIDE DEF f
  <2>. QED
    BY <1>3, <2>1 DEF Keyed, Key
<1>6. \A v \in Goroutines : v \in Executing(k) <=> \E m \in 1..Len(stack[v]) : Runs(stack, v, m, k)
  BY DEF Executing, Runs, Executes, Goroutines
<1>7. Executing(k) = {u}
  <2>1. u \in Executing(k)
    BY <1>2, <1>3, <1>6 DEF Goroutines
  <2>2. ASSUME NEW v \in Executing(k) PROVE v = u
    <3>1. v \in Goroutines
      BY DEF Executing
    <3>2. PICK m \in 1..Len(stack[v]) : Runs(stack, v, m, k)
      BY <1>6, <3>1
    <3>. QED
      BY <1>1, <1>2, <3>2 DEF FlightOK
  <2>. QED
    BY <2>1, <2>2
<1>8. Cardinality(Executing(k)) = 1
  BY <1>7, FS_Singleton
<1>. QED
  BY <1>5, <1>8

\* What the invariant says of keys and of types,
LEMMA FlightsSafe == IInv => FlightsAreExclusive
<1>. SUFFICES ASSUME IInv PROVE FlightsAreExclusive
  OBVIOUS
<1>1. ValuesOK /\ StacksOK(stack) /\ FlightOK(flights, stack)
  BY DEF IInv, TypeInv, FlightInv
<1>2. OneCreator
  BY <1>1, KeysOfFlights DEF OneCreator, FlightOK, Top, Goroutines
<1>3. \A r \in rows : r \in Objects \/ r[1] \in {"value", "detail", "ship skills"}
  BY <1>1 DEF ValuesOK, AllRows
<1>4. \A k \in flights : k[1] \in {"create", "category"} /\ k[2] \in Objects
  BY KeysOfFlights
<1>5. ASSUME NEW t \in Goroutines
      PROVE  /\ stack[t] # <<>>
             /\ \A i \in 1..Len(stack[t]) :
                  /\ stack[t][i].at \in {"enter", "wait", "run", "fan", "fail"}
                  /\ stack[t][i].pc \in 1..(Len(Program[stack[t][i].job]) + 1)
  <2>1. StackOK(stack[t])
    BY <1>1 DEF StacksOK, Goroutines
  <2>2. \A i \in 1..Len(stack[t]) : stack[t][i] \in Frames /\ FrameOK(stack[t][i])
    BY <2>1, StackTop
  <2>3. stack[t] # <<>>
    BY <2>1 DEF StackOK
  <2>. QED
    BY <2>2, <2>3 DEF Frames, FrameOK, Places
<1>6. TypeOK
  BY <1>1, <1>3, <1>4, <1>5 DEF TypeOK, ValuesOK, Outcomes
<1>. QED
  BY <1>2, <1>6 DEF FlightsAreExclusive

\* ... of types without values,
LEMMA PartialSafe == IInv => PartialTypesHaveCause
<1>. SUFFICES ASSUME IInv PROVE PartialTypesHaveCause
  OBVIOUS
<1>1. FlightOK(flights, stack) /\ PartialOK(rows, cut, stack)
  BY DEF IInv, FlightInv, PartialInv
<1>2. ASSUME NEW x \in rows, Kind(x) = "type"
      PROVE  Complete(rows, x) \/ <<"create", x>> \in flights \/ x \in cut
  BY <1>1, <1>2, PartialIsInFlight DEF PartialOK
<1>. QED
  BY <1>2 DEF PartialTypesHaveCause, Complete

\* What the skills of ships refer to is there once the categories are.
LEMMA SkillsRefer ==
    ASSUME NEW R, NEW o \in Objects,
           StepDone(R, Fan({"category"} \X All(o, "category"))), NEW x \in TypesOf(o)
    PROVE  x \in R
<1>1. PICK g \in GroupsOf(o) : x \in All(g, "type")
  BY DEF TypesOf
<1>2. PICK c \in All(o, "category") : g \in All(c, "group")
  BY DEF GroupsOf
<1>3. c \in Of({"category"})
  BY <1>2, Named
<1>4. x \in TypesIn(c)
  BY <1>1, <1>2 DEF TypesIn
<1>5. \E n \in 1..Len(Program[<<"category", c>>]) : x \in Gives(Program[<<"category", c>>][n])
  BY <1>3, <1>4, CategoryProgram
<1>. DEFINE J == {"category"} \X All(o, "category")
<1>6. <<"category", c>> \in J
  BY <1>2
<1>. HIDE DEF J
<1>7. Fan(J)[1] = "fan" /\ Fan(J)[2] = J
  BY DEF Fan
<1>8. JobDone(R, <<"category", c>>)
  BY <1>6, <1>7 DEF StepDone, J
<1>. QED
  BY <1>5, <1>8 DEF JobDone

\* ... and of the rows that are about to be written.
LEMMA WritesSafe == IInv => WritesRefer
<1>. SUFFICES ASSUME IInv, NEW t \in Goroutines,
                     NEW r \in (IF At(t, "insert") THEN {Arg(t)}
                                ELSE IF At(t, "upsert") THEN Arg(t) ELSE {}),
                     Top(t).job[1] # "hidden", NEW x \in References(r)
              PROVE  x \in rows
  BY DEF WritesRefer
<1>. DEFINE g == Last(stack[t])
            e == Program[g.job][g.pc]
<1>1. StacksOK(stack) /\ DoneOK(rows, stack) /\ t \in DOMAIN stack /\ Top(t) = g
  BY DEF IInv, TypeInv, DoneInv, Goroutines, Top
<1>2. PICK op \in {"insert", "upsert"} : At(t, op) /\ (r \in IF op = "insert" THEN {Arg(t)} ELSE Arg(t))
  OBVIOUS
<1>3. /\ g.job \in Jobs /\ g.pc \in 1..Len(Program[g.job])
      /\ e \in StepSet /\ e[1] = op /\ Arg(t) = e[2]
  BY <1>1, <1>2, AtIs
<1>4. r \in Writes(e)
  <2>. HIDE DEF e
  <2>1. CASE op = "insert"
    BY <1>2, <1>3, <2>1, StepTypes
  <2>2. CASE op = "upsert"
    BY <1>2, <1>3, <2>2, StepTypes
  <2>. QED
    BY <2>1, <2>2
<1>5. \A m \in 1..(g.pc - 1) : StepDone(rows, Program[g.job][m])
  <2>1. Len(stack[t]) \in 1..Len(stack[t]) /\ stack[t][Len(stack[t])] = g
    BY <1>1, StackTop DEF StacksOK
  <2>2. FrameDone(rows, g)
    BY <1>1, <2>1 DEF DoneOK
  <2>. QED
    BY <2>2 DEF FrameDone
<1>. HIDE DEF g
<1>6. CASE r[1] # "ship skills"
  <2>1. x \in Refs(r)
    BY <1>6 DEF Refs
  <2>2. PICK m \in 1..(g.pc - 1) : x \in Gives(Program[g.job][m])
    BY <1>1, <1>3, <1>4, <2>1, RefersBack
  <2>. QED
    BY <1>5, <2>2 DEF StepDone
<1>7. CASE r[1] = "ship skills"
  <2>. DEFINE o == g.job[2]
  <2>1. /\ g.pc = 2 /\ r = <<"ship skills", o>> /\ o \in Objects
        /\ Program[g.job][1] = Fan({"category"} \X All(o, "category"))
    BY <1>3, <1>4, <1>7, WritesSkills
  <2>2. StepDone(rows, Fan({"category"} \X All(o, "category")))
    <3>1. 1 \in 1..(g.pc - 1)
      <4>1. g.pc = 2
        BY <2>1
      <4>. QED
        BY <4>1
    <3>2. StepDone(rows, Program[g.job][1])
      BY <1>5, <3>1
    <3>. HIDE DEF o
    <3>. QED
      BY <2>1, <3>2
  <2>. HIDE DEF o
  <2>3. r[1] = "ship skills" /\ r[2] = o
    BY <2>1
  <2>4. x \in TypesOf(o)
    BY <2>3 DEF References
  <2>. QED
    BY <2>1, <2>2, <2>4, SkillsRefer
<1>. QED
  BY <1>6, <1>7

\* singleflight: a key has one execution, and who waits for it waits for that one.
THEOREM FlightsAlwaysExclusive == Spec => []FlightsAreExclusive
  BY Invariance, FlightsSafe, PTL

\* Foreign keys: what is written refers to rows that are there.
THEOREM WritesAlwaysRefer == Spec => []WritesRefer
  BY Invariance, WritesSafe, PTL

\* A type without its values is being created or was cut short by a fault.
THEOREM PartialTypesAlwaysHaveCause == Spec => []PartialTypesHaveCause
  BY Invariance, PartialSafe, PTL
=============================================================================

------------------------- MODULE EnumerationsProofs -------------------------
(***************************************************************************)
(* What the proofs about recordings and rides need to know of sequences    *)
(* built position by position: induction on the naturals and recursive     *)
(* functions on them, stated with sets and functions where the library's   *)
(* theorems have operators, the elements of InOrder, and FlattenSeq.       *)
(***************************************************************************)
EXTENDS Enumerations, SequencesExt, FiniteSetTheorems, SequenceTheorems, TLAPS

-----------------------------------------------------------------------------
(* The naturals                                                            *)

\* Induction.  Were a natural left out, those up to it that are left out would be
\* a finite set that subtracting one maps into itself, but not onto.
LEMMA Induction ==
  ASSUME NEW S \in SUBSET Nat, 0 \in S, \A n \in Nat : n \in S => n + 1 \in S
  PROVE  S = Nat
<1>1. SUFFICES ASSUME NEW m \in Nat, m \notin S PROVE FALSE
  OBVIOUS
<1> DEFINE T == {y \in Nat : y <= m /\ y \notin S}
           f == [y \in T |-> y - 1]
<1>2. IsFiniteSet(T)
  <2>1. T \in SUBSET Nat /\ \A s \in T : s <= m
    OBVIOUS
  <2> HIDE DEF T
  <2> QED BY <2>1, FS_BoundedSetOfNaturals
<1>3. ASSUME NEW y \in T PROVE y - 1 \in T
  <2>1. y - 1 \in Nat /\ (y - 1) + 1 = y
    OBVIOUS
  <2>2. y - 1 \notin S
    BY <2>1
  <2> QED BY <2>1, <2>2
<1>4. f \in Injection(T, T)
  <2>1. f \in [T -> T]
    BY <1>3
  <2>2. \A a, b \in T : f[a] = f[b] => a = b
    OBVIOUS
  <2> QED BY <2>1, <2>2 DEF Injection, IsInjective
<1>5. f \in Surjection(T, T)
  <2> HIDE DEF T, f
  <2> QED BY <1>2, <1>4, FS_Injection
<1>6. m \in T
  BY <1>1
<1>7. PICK y \in T : f[y] = m
  BY <1>5, <1>6 DEF Surjection
<1> QED BY <1>7

LEMMA Least ==
  ASSUME NEW S \in SUBSET Nat, S # {}
  PROVE  \E x \in S : \A y \in S : x <= y
<1>1. SUFFICES ASSUME \A x \in S : \E y \in S : y < x PROVE FALSE
  OBVIOUS
<1> DEFINE U == {n \in Nat : \A y \in S : n <= y}
<1>2. U = Nat
  <2>1. U \in SUBSET Nat /\ 0 \in U
    OBVIOUS
  <2>2. ASSUME NEW n \in Nat, n \in U PROVE n + 1 \in U
    <3>1. n \notin S
      BY <1>1, <2>2
    <3> QED BY <2>2, <3>1
  <2> HIDE DEF U
  <2> QED BY <2>1, <2>2, Induction
<1>3. PICK x : x \in S
  OBVIOUS
<1>4. x + 1 \in U
  BY <1>2, <1>3
<1> QED BY <1>3, <1>4

LEMMA Greatest ==
  ASSUME NEW n \in Nat, NEW S \in SUBSET (0..n), S # {}
  PROVE  \E x \in S : \A y \in S : y <= x
<1> DEFINE R == {n - x : x \in S}
<1>1. R \in SUBSET Nat /\ R # {}
  <2>1. ASSUME NEW x \in S PROVE n - x \in Nat
    OBVIOUS
  <2> QED BY <2>1
<1>2. PICK r \in R : \A q \in R : r <= q
  <2> HIDE DEF R
  <2> QED BY <1>1, Least
<1>3. PICK x \in S : r = n - x
  BY <1>2
<1>4. ASSUME NEW y \in S PROVE y <= x
  <2>1. n - y \in R
    OBVIOUS
  <2>2. r <= n - y
    BY <1>2, <2>1
  <2> QED BY <1>3, <2>2
<1> QED BY <1>4

-----------------------------------------------------------------------------
(* Recursive functions on the naturals                                     *)

\* f follows step from base for the first n steps.
Follows(f, T, base, step, n) ==
  /\ f \in [0..n -> T]
  /\ f[0] = base
  /\ \A i \in 0..(n - 1) : f[i + 1] = step[i][f[i]]

LEMMA FollowsUnique ==
  ASSUME NEW T, NEW base, NEW step, NEW m \in Nat, NEW n \in Nat, NEW f, NEW g,
         Follows(f, T, base, step, m), Follows(g, T, base, step, n),
         NEW k \in Nat, k <= m, k <= n
  PROVE  f[k] = g[k]
<1> DEFINE S == {i \in Nat : i <= m /\ i <= n => f[i] = g[i]}
<1>1. S \in SUBSET Nat /\ 0 \in S
  BY DEF Follows
<1>2. ASSUME NEW i \in Nat, i \in S PROVE i + 1 \in S
  <2>1. CASE i + 1 <= m /\ i + 1 <= n
    <3>1. i \in 0..(m - 1) /\ i \in 0..(n - 1) /\ f[i] = g[i]
      BY <1>2, <2>1
    <3>2. f[i + 1] = step[i][f[i]]
      BY <3>1 DEF Follows
    <3>3. g[i + 1] = step[i][g[i]]
      BY <3>1 DEF Follows
    <3> QED BY <3>1, <3>2, <3>3
  <2>2. CASE ~(i + 1 <= m /\ i + 1 <= n)
    BY <2>2
  <2> QED BY <2>1, <2>2
<1>3. S = Nat
  <2> HIDE DEF S
  <2> QED BY <1>1, <1>2, Induction
<1> QED BY <1>3

LEMMA FollowsExists ==
  ASSUME NEW T, NEW base \in T, NEW step \in [Nat -> [T -> T]], NEW n \in Nat
  PROVE  \E f : Follows(f, T, base, step, n)
<1> DEFINE S == {m \in Nat : \E f : Follows(f, T, base, step, m)}
<1>1. S \in SUBSET Nat
  OBVIOUS
<1>2. 0 \in S
  <2>1. Follows([i \in 0..0 |-> base], T, base, step, 0)
    BY DEF Follows
  <2> QED BY <2>1
<1>3. ASSUME NEW m \in Nat, m \in S PROVE m + 1 \in S
  <2>1. PICK f : Follows(f, T, base, step, m)
    BY <1>3
  <2>2. f \in [0..m -> T] /\ f[m] \in T /\ step[m][f[m]] \in T
    BY <2>1 DEF Follows
  <2> DEFINE g == [i \in 0..(m + 1) |-> IF i = m + 1 THEN step[m][f[m]] ELSE f[i]]
  <2>3. g \in [0..(m + 1) -> T]
    BY <2>2
  <2>4. ASSUME NEW i \in 0..((m + 1) - 1) PROVE g[i + 1] = step[i][g[i]]
    <3>1. i \in 0..m /\ g[i] = f[i]
      OBVIOUS
    <3>2. CASE i = m
      <4>1. g[i + 1] = step[m][f[m]]
        BY <3>2
      <4> QED BY <3>1, <3>2, <4>1
    <3>3. CASE i # m
      <4>1. i \in 0..(m - 1) /\ g[i + 1] = f[i + 1]
        BY <3>1, <3>3
      <4> QED BY <2>1, <3>1, <4>1 DEF Follows
    <3> QED BY <3>2, <3>3
  <2>5. g[0] = base
    BY <2>1 DEF Follows
  <2>6. Follows(g, T, base, step, m + 1)
    <3> HIDE DEF g
    <3> QED BY <2>3, <2>4, <2>5 DEF Follows
  <2> QED BY <2>6
<1>4. S = Nat
  <2> HIDE DEF S
  <2> QED BY <1>1, <1>2, <1>3, Induction
<1> QED BY <1>4

\* f follows step from base on.
Iterates(f, T, base, step) ==
  /\ f \in [Nat -> T]
  /\ f[0] = base
  /\ \A n \in Nat : f[n + 1] = step[n][f[n]]

\* Whatever step does with a position and what came before it, some function
\* on the naturals takes it from base on.
LEMMA Recursion ==
  ASSUME NEW T, NEW base \in T, NEW step \in [Nat -> [T -> T]]
  PROVE  \E f : Iterates(f, T, base, step)
<1> DEFINE G(n) == CHOOSE f : Follows(f, T, base, step, n)
           f == [n \in Nat |-> G(n)[n]]
<1>1. ASSUME NEW n \in Nat PROVE Follows(G(n), T, base, step, n)
  BY FollowsExists
<1> HIDE DEF G
<1>2. f \in [Nat -> T]
  <2>1. ASSUME NEW n \in Nat PROVE G(n)[n] \in T
    BY <1>1 DEF Follows
  <2> QED BY <2>1
<1>3. f[0] = base
  BY <1>1 DEF Follows
<1>4. ASSUME NEW n \in Nat PROVE f[n + 1] = step[n][f[n]]
  <2>1. Follows(G(n), T, base, step, n) /\ Follows(G(n + 1), T, base, step, n + 1)
    BY <1>1
  <2>2. G(n + 1)[n] = G(n)[n]
    BY <2>1, FollowsUnique
  <2>3. G(n + 1)[n + 1] = step[n][G(n + 1)[n]]
    BY <2>1 DEF Follows
  <2> QED BY <2>2, <2>3
<1>5. Iterates(f, T, base, step)
  <2> HIDE DEF f
  <2> QED BY <1>2, <1>3, <1>4 DEF Iterates
<1> QED BY <1>5
-----------------------------------------------------------------------------
(* InOrder                                                                 *)

LEMMA SeqByElements ==
  ASSUME NEW T, NEW n \in Nat, NEW f, f = [k \in 1..n |-> f[k]], \A k \in 1..n : f[k] \in T
  PROVE  f \in Seq(T) /\ Len(f) = n
OBVIOUS

LEMMA AppendOne ==
  ASSUME NEW T, NEW s \in Seq(T), NEW x \in T
  PROVE  /\ Append(s, x) \in Seq(T) /\ Len(Append(s, x)) = Len(s) + 1
         /\ \A j \in 1..Len(s) : Append(s, x)[j] = s[j]
         /\ Append(s, x)[Len(s) + 1] = x
OBVIOUS

\* One more position adds itself, if it is one of them.
LEMMA InOrderSteps ==
  ASSUME NEW S
  PROVE  /\ InOrder(S, 0) = <<>>
         /\ \A n \in Nat : /\ InOrder(S, n) \in Seq(Nat)
                           /\ InOrder(S, n + 1) = IF n + 1 \in S THEN Append(InOrder(S, n), n + 1)
                                                                ELSE InOrder(S, n)
<1> DEFINE Def(u) == [i \in Nat |-> IF i = 0 THEN <<>>
                                    ELSE IF i \in S THEN Append(u[i - 1], i)
                                    ELSE u[i - 1]]
           step == [i \in Nat |-> [s \in Seq(Nat) |-> IF i + 1 \in S THEN Append(s, i + 1) ELSE s]]
           u == CHOOSE v : v = Def(v)
<1>1. \E v \in [Nat -> Seq(Nat)] : v = Def(v)
  <2>1. step \in [Nat -> [Seq(Nat) -> Seq(Nat)]]
    OBVIOUS
  <2>2. PICK v : Iterates(v, Seq(Nat), <<>>, step)
    <3>1. <<>> \in Seq(Nat)
      OBVIOUS
    <3> HIDE DEF step
    <3> QED BY <2>1, <3>1, Recursion
  <2>3. ASSUME NEW i \in Nat
        PROVE  v[i] = IF i = 0 THEN <<>> ELSE IF i \in S THEN Append(v[i - 1], i) ELSE v[i - 1]
    <3>1. CASE i = 0
      BY <2>2, <3>1 DEF Iterates
    <3>2. CASE i # 0
      <4>1. i - 1 \in Nat /\ (i - 1) + 1 = i /\ v[i - 1] \in Seq(Nat)
        BY <2>2, <3>2 DEF Iterates
      <4>2. v[i] = step[i - 1][v[i - 1]]
        BY <2>2, <4>1 DEF Iterates
      <4>3. step[i - 1][v[i - 1]] = IF i \in S THEN Append(v[i - 1], i) ELSE v[i - 1]
        BY <4>1
      <4> QED BY <3>2, <4>2, <4>3
    <3> QED BY <3>1, <3>2
  <2> QED BY <2>2, <2>3 DEF Iterates
<1>2. u = Def(u)
  BY <1>1
<1>3. \A n \in Nat : InOrder(S, n) = u[n]
  BY DEF InOrder
<1> HIDE DEF u, step
<1>4. InOrder(S, 0) = <<>>
  BY <1>2, <1>3
<1>5. ASSUME NEW n \in Nat
      PROVE  InOrder(S, n + 1) = IF n + 1 \in S THEN Append(InOrder(S, n), n + 1) ELSE InOrder(S, n)
  <2>1. n + 1 \in Nat /\ n + 1 # 0 /\ (n + 1) - 1 = n
    OBVIOUS
  <2>2. u[n + 1] = Def(u)[n + 1]
    BY <1>2
  <2>3. u[n + 1] = IF n + 1 \in S THEN Append(u[n], n + 1) ELSE u[n]
    BY <2>1, <2>2
  <2> QED BY <1>3, <2>3
<1>6. ASSUME NEW n \in Nat PROVE InOrder(S, n) \in Seq(Nat)
  <2> DEFINE N == {m \in Nat : InOrder(S, m) \in Seq(Nat)}
  <2>1. 0 \in N
    <3>1. <<>> \in Seq(Nat)
      OBVIOUS
    <3> QED BY <1>4, <3>1
  <2>2. ASSUME NEW m \in Nat, m \in N PROVE m + 1 \in N
    <3>1. InOrder(S, m) \in Seq(Nat)
      BY <2>2
    <3>2. Append(InOrder(S, m), m + 1) \in Seq(Nat)
      BY <3>1
    <3>3. InOrder(S, m + 1) \in Seq(Nat)
      BY <1>5, <3>1, <3>2
    <3> QED BY <3>3
  <2>3. N = Nat
    <3> HIDE DEF N
    <3>1. N \in SUBSET Nat
      BY DEF N
    <3> QED BY <2>1, <2>2, <3>1, Induction
  <2> QED BY <2>3
<1> QED BY <1>4, <1>5, <1>6

Increasing(s) == \A j, k \in DOMAIN s : j < k => s[j] < s[k]

\* It lists the elements of S among 1..n, and in increasing order.
LEMMA InOrderLists ==
  ASSUME NEW S, NEW n \in Nat
  PROVE  /\ InOrder(S, n) \in Seq(1..n)
         /\ Increasing(InOrder(S, n))
         /\ \A i \in S \cap (1..n) : \E k \in DOMAIN InOrder(S, n) : InOrder(S, n)[k] = i
         /\ \A k \in DOMAIN InOrder(S, n) : InOrder(S, n)[k] \in S \cap (1..n)
<1> DEFINE Lists(m) ==
             /\ \A k \in DOMAIN InOrder(S, m) : InOrder(S, m)[k] \in S \cap (1..m)
             /\ Increasing(InOrder(S, m))
             /\ \A i \in S \cap (1..m) : \E k \in DOMAIN InOrder(S, m) : InOrder(S, m)[k] = i
           N == {m \in Nat : Lists(m)}
<1>1. 0 \in N
  BY InOrderSteps DEF Increasing
<1>2. ASSUME NEW m \in Nat, m \in N PROVE m + 1 \in N
  <2> DEFINE s == InOrder(S, m)
             t == InOrder(S, m + 1)
  <2>1. s \in Seq(Nat) /\ t = IF m + 1 \in S THEN Append(s, m + 1) ELSE s
    BY InOrderSteps
  <2>2. /\ \A k \in DOMAIN s : s[k] \in S \cap (1..m)
        /\ Increasing(s)
        /\ \A i \in S \cap (1..m) : \E k \in DOMAIN s : s[k] = i
    BY <1>2
  <2> HIDE DEF s, t
  <2>3. CASE m + 1 \in S
    <3> DEFINE l == Len(s)
    <3>1. /\ l \in Nat /\ DOMAIN s = 1..l /\ DOMAIN t = 1..(l + 1)
          /\ \A k \in 1..l : t[k] = s[k]
          /\ t[l + 1] = m + 1
      BY <2>1, <2>3
    <3> HIDE DEF l
    <3>2. \A k \in DOMAIN t : t[k] \in S \cap (1..(m + 1))
      BY <2>2, <2>3, <3>1
    <3>3. Increasing(t)
      BY <2>2, <3>1 DEF Increasing
    <3>4. ASSUME NEW i \in S \cap (1..(m + 1)) PROVE \E k \in DOMAIN t : t[k] = i
      <4>1. CASE i = m + 1
        BY <3>1, <4>1
      <4>2. CASE i # m + 1
        <5>1. PICK k \in DOMAIN s : s[k] = i
          BY <2>2, <4>2
        <5> QED BY <3>1, <5>1
      <4> QED BY <4>1, <4>2
    <3> QED BY <3>2, <3>3, <3>4 DEF t
  <2>4. CASE m + 1 \notin S
    <3>1. t = s /\ S \cap (1..(m + 1)) = S \cap (1..m)
      BY <2>1, <2>4
    <3> QED BY <2>2, <3>1 DEF t
  <2> QED BY <2>3, <2>4
<1>3. N = Nat
  <2> HIDE DEF N
  <2>1. N \in SUBSET Nat
    BY DEF N
  <2> QED BY <1>1, <1>2, <2>1, Induction
<1>4. Lists(n)
  BY <1>3
<1>5. InOrder(S, n) \in Seq(1..n)
  <2>1. InOrder(S, n) \in Seq(Nat)
    BY InOrderSteps
  <2>2. \A k \in 1..Len(InOrder(S, n)) : InOrder(S, n)[k] \in 1..n
    <3>1. DOMAIN InOrder(S, n) = 1..Len(InOrder(S, n))
      BY <2>1
    <3> QED BY <1>4, <3>1
  <2> QED BY <2>1, <2>2
<1> QED BY <1>4, <1>5

\* Of two increasing enumerations the one that has the first elements of the
\* other, and no more, is the beginning of the other.
LEMMA IncreasingPrefix ==
  ASSUME NEW s \in Seq(Nat), Increasing(s),
         NEW t \in Seq(Nat), Increasing(t),
         \A k \in DOMAIN t : \E i \in DOMAIN s : s[i] = t[k],
         \A i \in DOMAIN s : \/ \E k \in DOMAIN t : t[k] = s[i]
                             \/ \A k \in DOMAIN t : t[k] < s[i]
  PROVE  \A k \in DOMAIN t : k \in DOMAIN s /\ s[k] = t[k]
<1>1. SUFFICES ASSUME NEW n \in Nat
               PROVE  \A k \in DOMAIN t : k <= n => k \in DOMAIN s /\ s[k] = t[k]
  <2>1. \A k \in DOMAIN t : k \in Nat
    OBVIOUS
  <2> QED BY <2>1
<1> DEFINE N == {m \in Nat : \A k \in DOMAIN t : k <= m => k \in DOMAIN s /\ s[k] = t[k]}
<1>2. 0 \in N
  OBVIOUS
<1>3. ASSUME NEW m \in Nat, m \in N PROVE m + 1 \in N
  <2>1. SUFFICES ASSUME m + 1 \in DOMAIN t PROVE m + 1 \in DOMAIN s /\ s[m + 1] = t[m + 1]
    <3>1. ASSUME NEW k \in DOMAIN t, k <= m + 1 PROVE k \in DOMAIN s /\ s[k] = t[k]
      <4>1. CASE k = m + 1
        BY <2>1, <4>1
      <4>2. CASE k <= m
        BY <1>3, <4>2
      <4> QED BY <3>1, <4>1, <4>2
    <3> QED BY <3>1
  <2>2. /\ DOMAIN s = 1..Len(s) /\ DOMAIN t = 1..Len(t) /\ Len(s) \in Nat /\ Len(t) \in Nat
        /\ \A k \in DOMAIN s : s[k] \in Nat
        /\ \A k \in DOMAIN t : t[k] \in Nat
    OBVIOUS
  <2>3. \A k \in 1..m : k \in DOMAIN s /\ k \in DOMAIN t /\ s[k] = t[k]
    <3>1. ASSUME NEW k \in 1..m PROVE k \in DOMAIN t /\ k <= m
      BY <2>1, <2>2
    <3> QED BY <1>3, <3>1
  <2>4. PICK i \in DOMAIN s : s[i] = t[m + 1]
    BY <2>1
  <2>5. ~(i < m + 1)
    <3>1. SUFFICES ASSUME i < m + 1 PROVE FALSE
      OBVIOUS
    <3>2. i \in 1..m
      BY <2>2, <3>1
    <3>3. t[i] < t[m + 1] /\ t[i] = s[i]
      BY <2>1, <2>2, <2>3, <3>1, <3>2 DEF Increasing
    <3> QED BY <2>1, <2>2, <2>4, <3>3
  <2>6. ~(i > m + 1)
    <3>1. SUFFICES ASSUME i > m + 1 PROVE FALSE
      OBVIOUS
    <3>2. m + 1 \in DOMAIN s /\ s[m + 1] < t[m + 1]
      BY <2>2, <2>4, <3>1 DEF Increasing
    <3>3. PICK k \in DOMAIN t : t[k] = s[m + 1]
      <4>1. ~(t[m + 1] < s[m + 1])
        BY <2>1, <2>2, <3>2
      <4> QED BY <2>1, <3>2, <4>1
    <3>4. k < m + 1
      <4>1. ~(k > m + 1)
        <5>1. SUFFICES ASSUME k > m + 1 PROVE FALSE
          OBVIOUS
        <5>2. t[m + 1] < t[k]
          BY <2>1, <2>2, <5>1 DEF Increasing
        <5> QED BY <2>1, <2>2, <3>2, <3>3, <5>2
      <4>2. k # m + 1
        BY <2>1, <2>2, <3>2, <3>3
      <4> QED BY <2>2, <4>1, <4>2
    <3>5. k \in 1..m /\ s[k] = s[m + 1]
      BY <2>2, <2>3, <3>3, <3>4
    <3>6. s[k] < s[m + 1]
      BY <2>3, <3>2, <3>4, <3>5 DEF Increasing
    <3> QED BY <2>2, <3>2, <3>5, <3>6
  <2>7. i = m + 1
    BY <2>2, <2>5, <2>6
  <2> QED BY <2>4, <2>7
<1>4. N = Nat
  <2> HIDE DEF N
  <2>1. N \in SUBSET Nat
    BY DEF N
  <2> QED BY <1>2, <1>3, <2>1, Induction
<1> QED BY <1>4
-----------------------------------------------------------------------------
(* FlattenSeq                                                              *)

\* The sequences are appended one after the other.
LEMMA FlattenSteps ==
  ASSUME NEW T, NEW seqs \in Seq(Seq(T)), seqs # <<>>
  PROVE  \E acc \in [1..Len(seqs) -> Seq(T)] :
           /\ acc[1] = seqs[1]
           /\ \A i \in 1..(Len(seqs) - 1) : acc[i + 1] = acc[i] \o seqs[i + 1]
           /\ FlattenSeq(seqs) = acc[Len(seqs)]
<1> DEFINE n == Len(seqs)
           Def(u) == [i \in 1..n |-> IF i = 1 THEN seqs[i] ELSE u[i - 1] \o seqs[i]]
           step == [i \in Nat |-> [s \in Seq(T) |-> IF i + 1 \notin 1..n THEN s
                                                    ELSE IF i = 0 THEN seqs[1]
                                                    ELSE s \o seqs[i + 1]]]
           acc == CHOOSE u : u = Def(u)
<1>1. n \in Nat \ {0} /\ \A i \in 1..n : seqs[i] \in Seq(T)
  OBVIOUS
<1>2. \E v : v = Def(v)
  <2>1. step \in [Nat -> [Seq(T) -> Seq(T)]]
    <3>1. ASSUME NEW i \in Nat, NEW s \in Seq(T)
          PROVE  (IF i + 1 \notin 1..n THEN s ELSE IF i = 0 THEN seqs[1] ELSE s \o seqs[i + 1])
                   \in Seq(T)
      BY <1>1
    <3> HIDE DEF n
    <3> QED BY <3>1
  <2>2. PICK f : Iterates(f, Seq(T), <<>>, step)
    <3>1. <<>> \in Seq(T)
      OBVIOUS
    <3> HIDE DEF step
    <3> QED BY <2>1, <3>1, Recursion
  <2> DEFINE v == [i \in 1..n |-> f[i]]
  <2>3. ASSUME NEW i \in 1..n PROVE f[i] = IF i = 1 THEN seqs[i] ELSE v[i - 1] \o seqs[i]
    <3>1. i - 1 \in Nat /\ (i - 1) + 1 = i /\ f[i - 1] \in Seq(T)
      BY <1>1, <2>2 DEF Iterates
    <3>2. f[i] = step[i - 1][f[i - 1]]
      BY <2>2, <3>1 DEF Iterates
    <3>3. f[i] = IF i - 1 = 0 THEN seqs[1] ELSE f[i - 1] \o seqs[i]
      BY <3>1, <3>2
    <3>4. i # 1 => v[i - 1] = f[i - 1]
      BY <1>1, <3>1
    <3> QED BY <3>1, <3>3, <3>4
  <2>4. v = Def(v)
    <3> HIDE DEF n
    <3> QED BY <2>3
  <2> QED BY <2>4
<1>3. acc = Def(acc)
  <2> HIDE DEF Def
  <2> QED BY <1>2
<1>4. FlattenSeq(seqs) = acc[n]
  BY <1>1 DEF FlattenSeq
<1> HIDE DEF acc, n
<1>5. acc[1] = seqs[1]
  BY <1>1, <1>3
<1>6. ASSUME NEW i \in 1..(n - 1) PROVE acc[i + 1] = acc[i] \o seqs[i + 1]
  <2>1. i + 1 \in 1..n /\ i + 1 # 1 /\ (i + 1) - 1 = i
    BY <1>1
  <2>2. acc[i + 1] = Def(acc)[i + 1]
    BY <1>3
  <2> QED BY <2>1, <2>2
<1>7. ASSUME NEW i \in 1..n PROVE acc[i] \in Seq(T)
  <2> DEFINE N == {m \in Nat : m + 1 \in 1..n => acc[m + 1] \in Seq(T)}
  <2>1. 0 \in N
    BY <1>1, <1>5
  <2>2. ASSUME NEW m \in Nat, m \in N PROVE m + 1 \in N
    <3>1. SUFFICES ASSUME (m + 1) + 1 \in 1..n PROVE acc[(m + 1) + 1] \in Seq(T)
      OBVIOUS
    <3>2. m + 1 \in 1..(n - 1) /\ m + 1 \in 1..n
      BY <1>1, <3>1
    <3>3. acc[m + 1] \in Seq(T) /\ seqs[(m + 1) + 1] \in Seq(T)
      BY <1>1, <2>2, <3>1, <3>2
    <3>4. acc[(m + 1) + 1] = acc[m + 1] \o seqs[(m + 1) + 1]
      BY <1>6, <3>2
    <3> QED BY <3>3, <3>4
  <2>3. N = Nat
    <3>1. N \in SUBSET Nat
      OBVIOUS
    <3> HIDE DEF N
    <3> QED BY <2>1, <2>2, <3>1, Induction
  <2>4. i - 1 \in Nat /\ (i - 1) + 1 = i
    BY <1>1
  <2>5. i - 1 \in N
    <3> HIDE DEF N
    <3> QED BY <2>3, <2>4
  <2> QED BY <2>4, <2>5
<1>8. acc \in [1..n -> Seq(T)]
  <2>1. acc = [i \in 1..n |-> acc[i]]
    BY <1>3
  <2> QED BY <1>7, <2>1
<1> QED BY <1>4, <1>5, <1>6, <1>8 DEF n
=============================================================================

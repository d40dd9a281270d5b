---------------------------- MODULE RidingProofs ----------------------------
(***************************************************************************)
(* Proofs about Riding, for corridors of any length with any number of     *)
(* passthroughs.  The milestones of a corridor are worked out first: where *)
(* each segment begins on the road, and that every place of it lies there  *)
(* once.  The rest is arithmetic on milestones.                            *)
(***************************************************************************)
EXTENDS Riding, EnumerationsProofs

Segment == [from : Anchors, via : Seq(Anchors), to : Anchors, mode : Modes, transfer : BOOLEAN]

\* The places of a segment after its first.
Part(s) == Append(s.via, s.to)

\* Each segment starts where the one before it ends.
Linked(segs) == \A k \in 1..(Len(segs) - 1) : segs[k + 1].from = segs[k].to

\* No place comes twice.
Distinct(segs) ==
  /\ \A k \in DOMAIN segs : IsInjective(Part(segs[k])) /\ segs[1].from \notin ToSet(Part(segs[k]))
  /\ \A j, k \in DOMAIN segs : j # k => ToSet(Part(segs[j])) \cap ToSet(Part(segs[k])) = {}

-----------------------------------------------------------------------------
(* The road                                                                *)

\* off[k] is the milestone at which the k-th segment starts.
Marks(segs, off) ==
  /\ off \in [1..(Len(segs) + 1) -> Nat] /\ off[1] = 1
  /\ \A k \in 1..Len(segs) : off[k + 1] = off[k] + Len(Part(segs[k]))
  /\ DOMAIN Road(segs) = 1..off[Len(segs) + 1]
  /\ Road(segs)[1] = segs[1].from
  /\ \A k \in 1..Len(segs) : \A i \in 1..Len(Part(segs[k])) : Road(segs)[off[k] + i] = Part(segs[k])[i]

\* u begins with s, and is s followed by t.
Begins(u, s) == Len(s) <= Len(u) /\ \A j \in 1..Len(s) : u[j] = s[j]

Joins(u, s, t) == /\ Len(u) = Len(s) + Len(t) /\ Begins(u, s)
                  /\ \A j \in 1..Len(t) : u[Len(s) + j] = t[j]

LEMMA ConcatJoins ==
  ASSUME NEW T, NEW s \in Seq(T), NEW t \in Seq(T)
  PROVE  s \o t \in Seq(T) /\ Joins(s \o t, s, t)
BY DEF Joins, Begins

LEMMA BeginsAlso ==
  ASSUME NEW T, NEW u \in Seq(T), NEW v \in Seq(T), NEW w \in Seq(T), Begins(v, u), Begins(w, v)
  PROVE  Begins(w, u)
<1>1. Len(u) \in Nat /\ Len(v) \in Nat /\ Len(w) \in Nat
  OBVIOUS
<1>2. 1..Len(u) \subseteq 1..Len(v) /\ Len(u) <= Len(w)
  BY <1>1 DEF Begins
<1> QED BY <1>2 DEF Begins

LEMMA PartIs ==
  ASSUME NEW s \in Segment
  PROVE  /\ Part(s) \in Seq(Anchors) /\ Len(Part(s)) = Len(s.via) + 1 /\ Len(s.via) \in Nat
         /\ \A i \in 1..Len(s.via) : Part(s)[i] = s.via[i]
         /\ Part(s)[Len(s.via) + 1] = s.to
         /\ ToSet(Part(s)) = Via(s) \cup {s.to}
<1>1. s.via \in Seq(Anchors) /\ s.to \in Anchors /\ Len(s.via) \in Nat /\ DOMAIN s.via = 1..Len(s.via)
  BY DEF Segment
<1>2. /\ Part(s) \in Seq(Anchors) /\ Len(Part(s)) = Len(s.via) + 1
      /\ \A i \in 1..Len(s.via) : Part(s)[i] = s.via[i]
      /\ Part(s)[Len(s.via) + 1] = s.to
  BY <1>1, AppendOne DEF Part
<1>3. DOMAIN Part(s) = 1..(Len(s.via) + 1)
  BY <1>1, <1>2
<1>4. ToSet(Part(s)) \subseteq Via(s) \cup {s.to}
  <2>1. SUFFICES ASSUME NEW i \in DOMAIN Part(s) PROVE Part(s)[i] \in Via(s) \cup {s.to}
    BY DEF ToSet
  <2>2. i = Len(s.via) + 1 \/ i \in DOMAIN s.via
    BY <1>1, <1>3
  <2>3. i \in DOMAIN s.via => s.via[i] \in Via(s)
    BY DEF Via, ToSet
  <2> QED BY <1>1, <1>2, <2>2, <2>3
<1>5. Via(s) \cup {s.to} \subseteq ToSet(Part(s))
  <2>1. s.to \in ToSet(Part(s))
    <3>1. Len(s.via) + 1 \in DOMAIN Part(s)
      BY <1>1, <1>3
    <3> QED BY <1>2, <3>1 DEF ToSet
  <2>2. ASSUME NEW i \in DOMAIN s.via PROVE s.via[i] \in ToSet(Part(s))
    <3>1. i \in DOMAIN Part(s) /\ Part(s)[i] = s.via[i]
      BY <1>1, <1>2, <1>3
    <3> QED BY <3>1 DEF ToSet
  <2> QED BY <2>1, <2>2 DEF Via, ToSet
<1> QED BY <1>1, <1>2, <1>4, <1>5

\* What was flattened so far stays as more is appended.
LEMMA PrefixStays ==
  ASSUME NEW T, NEW c \in Nat \ {0}, NEW acc \in [1..c -> Seq(T)], NEW seqs \in [1..c -> Seq(T)],
         \A i \in 1..(c - 1) : acc[i + 1] = acc[i] \o seqs[i + 1],
         NEW k \in 1..c
  PROVE  Begins(acc[c], acc[k])
<1> DEFINE N == {m \in Nat : k + m \in 1..c => Begins(acc[k + m], acc[k])}
<1>1. 0 \in N
  <2>1. Len(acc[k]) \in Nat /\ k + 0 = k
    OBVIOUS
  <2> QED BY <2>1 DEF Begins
<1>2. ASSUME NEW m \in Nat, m \in N PROVE m + 1 \in N
  <2>1. SUFFICES ASSUME k + (m + 1) \in 1..c PROVE Begins(acc[k + (m + 1)], acc[k])
    OBVIOUS
  <2> DEFINE n == k + m
  <2>2. n \in 1..c /\ n \in 1..(c - 1) /\ n + 1 \in 1..c /\ k + (m + 1) = n + 1
    BY <2>1
  <2>3. Begins(acc[n], acc[k])
    BY <1>2, <2>2
  <2> HIDE DEF n
  <2>4. /\ acc[n + 1] = acc[n] \o seqs[n + 1] /\ acc[n] \in Seq(T) /\ seqs[n + 1] \in Seq(T)
        /\ acc[k] \in Seq(T) /\ acc[n + 1] \in Seq(T)
    BY <2>2
  <2>5. Begins(acc[n + 1], acc[n])
    BY <2>4, ConcatJoins DEF Joins
  <2> QED BY <2>2, <2>3, <2>4, <2>5, BeginsAlso
<1>3. N = Nat
  <2>1. N \in SUBSET Nat
    OBVIOUS
  <2> HIDE DEF N
  <2> QED BY <1>1, <1>2, <2>1, Induction
<1>4. c - k \in N
  <2>1. c - k \in Nat
    OBVIOUS
  <2> HIDE DEF N
  <2> QED BY <1>3, <2>1
<1>5. k + (c - k) = c /\ c \in 1..c
  OBVIOUS
<1> QED BY <1>4, <1>5

LEMMA WithinPart ==
  ASSUME NEW a \in Nat, NEW p \in Nat, NEW o \in Nat, o >= 1, 1 + a = o + p, NEW i \in 1..p
  PROVE  (o - 1) + i \in 1..a /\ 1 + ((o - 1) + i) = o + i
OBVIOUS

LEMMA RoadHasMarks ==
  ASSUME NEW segs \in Seq(Segment), segs # <<>>
  PROVE  \E off : Marks(segs, off)
<1> DEFINE c == Len(segs)
           parts == [k \in DOMAIN segs |-> Append(segs[k].via, segs[k].to)]
<1>1. c \in Nat \ {0} /\ DOMAIN segs = 1..c /\ \A k \in 1..c : segs[k] \in Segment
  OBVIOUS
<1>2. ASSUME NEW k \in 1..c PROVE parts[k] = Part(segs[k]) /\ parts[k] \in Seq(Anchors)
  BY <1>1, PartIs DEF Part
<1>3. parts = [k \in 1..c |-> parts[k]]
  BY <1>1
<1>4. Road(segs) = <<segs[1].from>> \o FlattenSeq(parts)
  BY DEF Road
<1> HIDE DEF parts, c
<1>5. parts \in Seq(Seq(Anchors)) /\ Len(parts) = c /\ parts # <<>>
  <2>1. parts \in Seq(Seq(Anchors)) /\ Len(parts) = c
    BY <1>1, <1>2, <1>3, SeqByElements
  <2> QED BY <1>1, <2>1
<1>6. PICK acc :
        /\ acc \in [1..c -> Seq(Anchors)]
        /\ acc[1] = parts[1]
        /\ \A i \in 1..(c - 1) : acc[i + 1] = acc[i] \o parts[i + 1]
        /\ FlattenSeq(parts) = acc[c]
  BY <1>5, FlattenSteps
<1> DEFINE off == [k \in 1..(c + 1) |-> IF k = 1 THEN 1 ELSE 1 + Len(acc[k - 1])]
<1>7. \A k \in 1..c : acc[k] \in Seq(Anchors) /\ Len(acc[k]) \in Nat /\ Len(parts[k]) \in Nat
  BY <1>2, <1>6
<1>8. /\ off[1] = 1
      /\ \A k \in 1..c : off[k + 1] = 1 + Len(acc[k])
      /\ off \in [1..(c + 1) -> Nat]
  <2>1. 1 \in 1..(c + 1)
    BY <1>1
  <2>2. ASSUME NEW k \in 1..c PROVE off[k + 1] = 1 + Len(acc[k])
    <3>1. k + 1 \in 1..(c + 1) /\ k + 1 # 1 /\ (k + 1) - 1 = k
      BY <1>1
    <3> QED BY <3>1
  <2>3. ASSUME NEW k \in 1..(c + 1) PROVE off[k] \in Nat
    <3>1. CASE k = 1
      BY <3>1
    <3>2. CASE k # 1
      <4>1. k - 1 \in 1..c
        BY <1>1, <3>2
      <4> QED BY <1>7, <3>2, <4>1
    <3> QED BY <3>1, <3>2
  <2> QED BY <2>1, <2>2, <2>3
<1> HIDE DEF off
<1>9. ASSUME NEW k \in 1..c
      PROVE  /\ off[k] \in Nat /\ off[k] >= 1 /\ off[k + 1] = off[k] + Len(parts[k])
             /\ \A i \in 1..Len(parts[k]) : acc[k][(off[k] - 1) + i] = parts[k][i]
  <2>1. CASE k = 1
    <3>1. off[k] = 1 /\ off[k + 1] = 1 + Len(parts[k]) /\ acc[k] = parts[k] /\ Len(parts[k]) \in Nat
      BY <1>6, <1>7, <1>8, <2>1
    <3>2. \A i \in 1..Len(parts[k]) : (off[k] - 1) + i = i
      BY <3>1
    <3> QED BY <3>1, <3>2
  <2>2. CASE k # 1
    <3>1. PICK j \in Nat : j \in 1..(c - 1) /\ j \in 1..c /\ j + 1 = k
      <4>1. k - 1 \in Nat /\ k - 1 \in 1..(c - 1) /\ k - 1 \in 1..c /\ (k - 1) + 1 = k
        BY <1>1, <2>2
      <4> QED BY <4>1
    <3>2. acc[k] = acc[j] \o parts[k]
      BY <1>6, <3>1
    <3>3. acc[j] \in Seq(Anchors) /\ parts[k] \in Seq(Anchors)
      BY <1>2, <1>7, <3>1
    <3>4. Joins(acc[k], acc[j], parts[k])
      BY <3>2, <3>3, ConcatJoins
    <3>5. off[k] = 1 + Len(acc[j]) /\ off[k + 1] = 1 + Len(acc[k])
          /\ Len(acc[j]) \in Nat /\ Len(acc[k]) \in Nat /\ Len(parts[k]) \in Nat
      BY <1>7, <1>8, <3>1
    <3>6. off[k] - 1 = Len(acc[j]) /\ off[k] \in Nat /\ off[k] >= 1
      BY <3>5
    <3>7. Len(acc[k]) = Len(acc[j]) + Len(parts[k])
      BY <3>4 DEF Joins
    <3>8. off[k + 1] = off[k] + Len(parts[k])
      <4> DEFINE a == Len(acc[j])
                 l == Len(acc[k])
                 p == Len(parts[k])
      <4>1. a \in Nat /\ p \in Nat /\ off[k] = 1 + a /\ off[k + 1] = 1 + l /\ l = a + p
        BY <3>5, <3>7
      <4> HIDE DEF a, l, p
      <4>2. off[k + 1] = off[k] + p
        BY <4>1
      <4> QED BY <4>2 DEF p
    <3>9. \A i \in 1..Len(parts[k]) : acc[k][Len(acc[j]) + i] = parts[k][i]
      BY <3>4 DEF Joins
    <3> QED BY <3>6, <3>8, <3>9
  <2> QED BY <2>1, <2>2
<1>10. Road(segs) = <<segs[1].from>> \o acc[c]
  BY <1>4, <1>6
<1>11. /\ Len(Road(segs)) = 1 + Len(acc[c]) /\ Road(segs) \in Seq(Anchors)
       /\ Road(segs)[1] = segs[1].from
       /\ \A j \in 1..Len(acc[c]) : Road(segs)[1 + j] = acc[c][j]
  <2>1. c \in 1..c /\ 1 \in 1..c
    BY <1>1
  <2>2. segs[1] \in Segment
    BY <1>1, <2>1
  <2>3. segs[1].from \in Anchors
    BY <2>2 DEF Segment
  <2>4. <<segs[1].from>> \in Seq(Anchors) /\ Len(<<segs[1].from>>) = 1 /\ <<segs[1].from>>[1] = segs[1].from
    BY <2>3
  <2> HIDE DEF c
  <2>5. acc[c] \in Seq(Anchors)
    BY <1>7, <2>1
  <2>6. Road(segs) \in Seq(Anchors) /\ Joins(Road(segs), <<segs[1].from>>, acc[c])
    BY <1>10, <2>4, <2>5, ConcatJoins
  <2>7. Road(segs)[1] = segs[1].from
    BY <2>4, <2>6 DEF Joins, Begins
  <2> QED BY <2>4, <2>6, <2>7 DEF Joins
<1>12. DOMAIN Road(segs) = 1..off[c + 1]
  <2>1. c \in 1..c
    BY <1>1
  <2> QED BY <1>8, <1>11, <2>1
<1>13. ASSUME NEW k \in 1..c, NEW i \in 1..Len(parts[k])
       PROVE  Road(segs)[off[k] + i] = parts[k][i]
  <2>1. Begins(acc[c], acc[k])
    <3>1. parts \in [1..c -> Seq(Anchors)]
      BY <1>2, <1>3
    <3> QED BY <1>1, <1>6, <3>1, PrefixStays
  <2>2. c \in 1..c /\ Len(acc[c]) \in Nat /\ Len(acc[k]) \in Nat /\ Len(parts[k]) \in Nat
    BY <1>1, <1>7
  <2>3. off[k] \in Nat /\ off[k] >= 1 /\ 1 + Len(acc[k]) = off[k] + Len(parts[k])
    BY <1>8, <1>9
  <2> DEFINE j == (off[k] - 1) + i
  <2>4. j \in 1..Len(acc[k]) /\ 1 + j = off[k] + i
    BY <1>1, <2>2, <2>3, WithinPart
  <2>5. acc[k][j] = parts[k][i]
    BY <1>9
  <2> HIDE DEF j
  <2>6. acc[c][j] = acc[k][j] /\ j \in 1..Len(acc[c])
    BY <2>1, <2>2, <2>4 DEF Begins
  <2> QED BY <1>11, <2>4, <2>5, <2>6
<1>14. /\ \A k \in 1..c : off[k + 1] = off[k] + Len(Part(segs[k]))
       /\ \A k \in 1..c : \A i \in 1..Len(Part(segs[k])) : Road(segs)[off[k] + i] = Part(segs[k])[i]
  BY <1>2, <1>9, <1>13
<1>15. Marks(segs, off)
  BY <1>8, <1>11, <1>12, <1>14 DEF Marks, c
<1> QED BY <1>15
LEMMA Rising ==
  ASSUME NEW m \in Nat, NEW f \in [1..(m + 1) -> Nat], \A k \in 1..m : f[k] < f[k + 1]
  PROVE  \A j, k \in 1..(m + 1) : j < k => f[j] < f[k]
<1> DEFINE N == {n \in Nat : n \in 1..(m + 1) => \A j \in 1..(n - 1) : f[j] < f[n]}
<1>1. 0 \in N
  OBVIOUS
<1>2. ASSUME NEW n \in Nat, n \in N PROVE n + 1 \in N
  <2>1. SUFFICES ASSUME n + 1 \in 1..(m + 1), NEW j \in 1..n PROVE f[j] < f[n + 1]
    OBVIOUS
  <2>2. n \in 1..m /\ n \in 1..(m + 1) /\ f[n] < f[n + 1]
    BY <2>1
  <2>3. f[j] \in Nat /\ f[n] \in Nat /\ f[n + 1] \in Nat
    BY <2>1, <2>2
  <2>4. CASE j = n
    BY <2>2, <2>4
  <2>5. CASE j # n
    <3>1. j \in 1..(n - 1)
      BY <2>5
    <3>2. f[j] < f[n]
      BY <1>2, <2>2, <3>1
    <3> QED BY <2>2, <2>3, <3>2
  <2> QED BY <2>4, <2>5
<1>3. N = Nat
  <2>1. N \in SUBSET Nat
    OBVIOUS
  <2> HIDE DEF N
  <2> QED BY <1>1, <1>2, <2>1, Induction
<1>4. ASSUME NEW j \in 1..(m + 1), NEW k \in 1..(m + 1), j < k PROVE f[j] < f[k]
  <2>1. k \in Nat /\ j \in 1..(k - 1)
    BY <1>4
  <2>2. k \in N
    <3> HIDE DEF N
    <3> QED BY <1>3, <2>1
  <2> QED BY <2>1, <2>2
<1> QED BY <1>4

\* The road of a corridor: what is needed of it from here on.
RoadOf(segs) == segs \in Seq(Segment) /\ segs # <<>> /\ Linked(segs) /\ Distinct(segs)

LEMMA MarksRise ==
  ASSUME NEW segs, RoadOf(segs), NEW off, Marks(segs, off)
  PROVE  LET c == Len(segs) IN
         /\ c \in Nat \ {0} /\ DOMAIN segs = 1..c
         /\ \A k \in 1..(c + 1) : off[k] \in Nat /\ off[k] >= 1
         /\ \A j, k \in 1..(c + 1) : j < k => off[j] < off[k]
<1> DEFINE c == Len(segs)
<1>1. /\ c \in Nat \ {0} /\ DOMAIN segs = 1..c
      /\ \A k \in 1..c : segs[k] \in Segment
  <2>1. segs \in Seq(Segment) /\ segs # <<>>
    BY DEF RoadOf
  <2> QED BY <2>1
<1>2. /\ off \in [1..(c + 1) -> Nat] /\ off[1] = 1
      /\ \A k \in 1..c : off[k + 1] = off[k] + Len(Part(segs[k]))
  BY DEF Marks
<1> HIDE DEF c
<1>3. ASSUME NEW k \in 1..c PROVE off[k] < off[k + 1]
  <2> DEFINE p == Len(Part(segs[k]))
  <2>1. p \in Nat /\ p > 0
    <3> DEFINE v == Len(segs[k].via)
    <3>1. p = v + 1 /\ v \in Nat
      BY <1>1, PartIs
    <3> HIDE DEF p, v
    <3> QED BY <3>1
  <2>2. off[k + 1] = off[k] + p /\ off[k] \in Nat
    <3>1. k \in 1..(c + 1)
      BY <1>1
    <3> QED BY <1>2, <3>1
  <2> HIDE DEF p
  <2> QED BY <2>1, <2>2
<1>4. \A j, k \in 1..(c + 1) : j < k => off[j] < off[k]
  BY <1>1, <1>2, <1>3, Rising
<1>5. ASSUME NEW k \in 1..(c + 1) PROVE off[k] \in Nat /\ off[k] >= 1
  <2>1. 1 \in 1..(c + 1) /\ (k = 1 \/ 1 < k)
    BY <1>1
  <2>2. off[k] \in Nat /\ off[1] = 1
    BY <1>2
  <2>3. 1 < k => off[1] < off[k]
    BY <1>4, <2>1
  <2> QED BY <2>1, <2>2, <2>3
<1> QED BY <1>1, <1>4, <1>5 DEF c

\* Every place on the road but the first belongs to one segment.
LEMMA OnRoad ==
  ASSUME NEW segs, RoadOf(segs), NEW off, Marks(segs, off), NEW p \in DOMAIN Road(segs), p # 1
  PROVE  \E k \in 1..Len(segs) : \E i \in 1..Len(Part(segs[k])) : p = off[k] + i
<1> DEFINE c == Len(segs)
           S == {k \in 1..c : p <= off[k + 1]}
<1>1. /\ c \in Nat \ {0}
      /\ \A k \in 1..(c + 1) : off[k] \in Nat /\ off[k] >= 1
  BY MarksRise
<1>2. /\ off[1] = 1 /\ DOMAIN Road(segs) = 1..off[c + 1]
      /\ \A k \in 1..c : off[k + 1] = off[k] + Len(Part(segs[k]))
  BY DEF Marks
<1> HIDE DEF c
<1>3. p \in Nat /\ p > 1 /\ p <= off[c + 1]
  <2>1. off[c + 1] \in Nat
    <3>1. c + 1 \in 1..(c + 1)
      BY <1>1
    <3> QED BY <1>1, <3>1
  <2> QED BY <1>2, <2>1
<1>4. S \in SUBSET Nat /\ S # {}
  <2>1. c \in S
    BY <1>1, <1>3
  <2>2. S \in SUBSET Nat
    OBVIOUS
  <2> QED BY <2>1, <2>2
<1>5. PICK k \in S : \A l \in S : k <= l
  <2> HIDE DEF S
  <2> QED BY <1>4, Least
<1>6. k \in 1..c /\ p <= off[k + 1] /\ k \in 1..(c + 1) /\ off[k] \in Nat
  <2>1. k \in 1..c /\ p <= off[k + 1] /\ k \in 1..(c + 1)
    BY <1>1, <1>5
  <2> QED BY <1>1, <2>1
<1>7. off[k] < p
  <2>1. CASE k = 1
    BY <1>2, <1>3, <2>1
  <2>2. CASE k # 1
    <3>1. k - 1 \in 1..c /\ (k - 1) + 1 = k /\ ~(k <= k - 1)
      BY <1>1, <1>6, <2>2
    <3>2. ~(p <= off[k])
      <4>1. k - 1 \notin S
        <5> HIDE DEF S
        <5> QED BY <1>5, <3>1
      <4> QED BY <3>1, <4>1
    <3> QED BY <1>3, <1>6, <3>2
  <2> QED BY <2>1, <2>2
<1>8. p - off[k] \in 1..Len(Part(segs[k])) /\ p = off[k] + (p - off[k])
  <2> DEFINE l == Len(Part(segs[k]))
  <2>1. off[k + 1] = off[k] + l /\ l \in Nat
    <3>1. off[k + 1] = off[k] + l
      BY <1>2, <1>6
    <3>2. DOMAIN segs = 1..c /\ \A m \in DOMAIN segs : segs[m] \in Segment
      <4>1. segs \in Seq(Segment)
        BY DEF RoadOf
      <4> QED BY <4>1 DEF c
    <3>3. segs[k] \in Segment
      BY <1>6, <3>2
    <3>4. Part(segs[k]) \in Seq(Anchors)
      BY <3>3, PartIs
    <3> QED BY <3>1, <3>4
  <2> HIDE DEF l
  <2>2. p - off[k] \in 1..l /\ p = off[k] + (p - off[k])
    BY <1>3, <1>6, <1>7, <2>1
  <2> QED BY <2>2 DEF l
<1> QED BY <1>6, <1>8 DEF c

\* No place comes twice on the road, so each has one milestone.
LEMMA MilestoneIs ==
  ASSUME NEW segs, RoadOf(segs), NEW off, Marks(segs, off), NEW p \in DOMAIN Road(segs)
  PROVE  Milestone(segs, Road(segs)[p]) = p
<1> DEFINE r == Road(segs)
<1>1. /\ r[1] = segs[1].from
      /\ \A k \in 1..Len(segs) : \A i \in 1..Len(Part(segs[k])) : r[off[k] + i] = Part(segs[k])[i]
  BY DEF Marks
<1>2. /\ \A k \in DOMAIN segs : IsInjective(Part(segs[k])) /\ segs[1].from \notin ToSet(Part(segs[k]))
      /\ \A j, k \in DOMAIN segs : j # k => ToSet(Part(segs[j])) \cap ToSet(Part(segs[k])) = {}
  BY DEF RoadOf, Distinct
<1>3. /\ DOMAIN segs = 1..Len(segs)
      /\ \A k \in 1..Len(segs) : DOMAIN Part(segs[k]) = 1..Len(Part(segs[k]))
  <2>1. segs \in Seq(Segment)
    BY DEF RoadOf
  <2>2. ASSUME NEW k \in 1..Len(segs) PROVE DOMAIN Part(segs[k]) = 1..Len(Part(segs[k]))
    <3>1. segs[k] \in Segment
      BY <2>1
    <3>2. Part(segs[k]) \in Seq(Anchors)
      BY <3>1, PartIs
    <3> QED BY <3>2
  <2> QED BY <2>1, <2>2
<1>4. ASSUME NEW q \in DOMAIN r, q # 1
      PROVE  \E k \in DOMAIN segs : \E i \in DOMAIN Part(segs[k]) :
               q = off[k] + i /\ r[q] = Part(segs[k])[i] /\ r[q] \in ToSet(Part(segs[k]))
  <2>1. PICK k \in 1..Len(segs) : \E i \in 1..Len(Part(segs[k])) : q = off[k] + i
    BY <1>4, OnRoad
  <2>2. PICK i \in 1..Len(Part(segs[k])) : q = off[k] + i
    BY <2>1
  <2>3. r[q] = Part(segs[k])[i] /\ k \in DOMAIN segs /\ i \in DOMAIN Part(segs[k])
    <3> HIDE DEF r
    <3> QED BY <1>1, <1>3, <2>2
  <2>4. Part(segs[k])[i] \in ToSet(Part(segs[k]))
    BY <2>3 DEF ToSet
  <2> HIDE DEF r
  <2> QED BY <2>2, <2>3, <2>4
<1> HIDE DEF r
<1>5. ASSUME NEW q \in DOMAIN r, q # 1 PROVE r[q] # r[1]
  BY <1>1, <1>2, <1>4, <1>5
<1>6. ASSUME NEW a \in DOMAIN r, NEW b \in DOMAIN r, a # 1, b # 1, r[a] = r[b] PROVE a = b
  <2>1. PICK k \in DOMAIN segs : \E i \in DOMAIN Part(segs[k]) :
          a = off[k] + i /\ r[a] = Part(segs[k])[i] /\ r[a] \in ToSet(Part(segs[k]))
    BY <1>4, <1>6
  <2>2. PICK l \in DOMAIN segs : \E j \in DOMAIN Part(segs[l]) :
          b = off[l] + j /\ r[b] = Part(segs[l])[j] /\ r[b] \in ToSet(Part(segs[l]))
    BY <1>4, <1>6
  <2>3. k = l
    BY <1>2, <1>6, <2>1, <2>2
  <2>4. PICK i \in DOMAIN Part(segs[k]) : a = off[k] + i /\ r[a] = Part(segs[k])[i]
    BY <2>1
  <2>5. PICK j \in DOMAIN Part(segs[k]) : b = off[k] + j /\ r[b] = Part(segs[k])[j]
    BY <2>2, <2>3
  <2>6. i = j
    BY <1>2, <1>6, <2>4, <2>5 DEF IsInjective
  <2> QED BY <2>4, <2>5, <2>6
<1>7. p \in DOMAIN r
  BY DEF r
<1>8. \A q \in DOMAIN r : r[q] = r[p] => q = p
  BY <1>5, <1>6, <1>7
<1>9. Milestone(segs, r[p]) = CHOOSE q \in DOMAIN r : r[q] = r[p]
  BY DEF Milestone, r
<1> QED BY <1>7, <1>8, <1>9 DEF r
\* Where the places of the k-th segment lie.
LEMMA Places ==
  ASSUME NEW segs, RoadOf(segs), NEW off, Marks(segs, off), NEW k \in 1..Len(segs)
  PROVE  /\ Milestone(segs, segs[k].from) = off[k]
         /\ Milestone(segs, segs[k].to) = off[k + 1]
         /\ \A x \in Via(segs[k]) : /\ Milestone(segs, x) \in Nat
                                    /\ off[k] < Milestone(segs, x) /\ Milestone(segs, x) < off[k + 1]
<1> DEFINE c == Len(segs)
           r == Road(segs)
<1>1. /\ c \in Nat \ {0} /\ DOMAIN segs = 1..c
      /\ \A l \in 1..(c + 1) : off[l] \in Nat /\ off[l] >= 1
      /\ \A j, l \in 1..(c + 1) : j < l => off[j] < off[l]
  BY MarksRise
<1>2. \A l \in DOMAIN segs : segs[l] \in Segment
  <2>1. segs \in Seq(Segment)
    BY DEF RoadOf
  <2> QED BY <2>1
<1>3. /\ off[1] = 1 /\ DOMAIN r = 1..off[c + 1] /\ r[1] = segs[1].from
      /\ \A l \in 1..c : off[l + 1] = off[l] + Len(Part(segs[l]))
      /\ \A l \in 1..c : \A i \in 1..Len(Part(segs[l])) : r[off[l] + i] = Part(segs[l])[i]
  BY DEF Marks
<1>4. \A l \in 1..(c - 1) : segs[l + 1].from = segs[l].to
  BY DEF RoadOf, Linked
<1>5. k \in 1..c
  OBVIOUS
<1>6. \A p \in DOMAIN r : Milestone(segs, r[p]) = p
  BY MilestoneIs
<1> HIDE DEF c, r
<1>7. ASSUME NEW l \in 1..c, NEW i \in 1..(Len(segs[l].via) + 1)
      PROVE  /\ Milestone(segs, Part(segs[l])[i]) = off[l] + i /\ off[l] \in Nat
             /\ off[l + 1] = off[l] + (Len(segs[l].via) + 1) /\ Len(segs[l].via) \in Nat
  <2> DEFINE v == Len(segs[l].via)
  <2>1. v \in Nat /\ Len(Part(segs[l])) = v + 1
    BY <1>1, <1>2, PartIs
  <2>2. off[l + 1] = off[l] + (v + 1) /\ r[off[l] + i] = Part(segs[l])[i]
    BY <1>3, <2>1
  <2>3. /\ off[l] \in Nat /\ off[l] >= 1 /\ off[l + 1] \in Nat /\ off[c + 1] \in Nat
        /\ off[l + 1] <= off[c + 1]
    <3>1. l \in 1..(c + 1) /\ l + 1 \in 1..(c + 1) /\ c + 1 \in 1..(c + 1) /\ (l + 1 = c + 1 \/ l + 1 < c + 1)
      BY <1>1
    <3>2. off[l] \in Nat /\ off[l] >= 1 /\ off[l + 1] \in Nat /\ off[c + 1] \in Nat
      BY <1>1, <3>1
    <3>3. l + 1 < c + 1 => off[l + 1] < off[c + 1]
      BY <1>1, <3>1
    <3> QED BY <3>1, <3>2, <3>3
  <2>4. i \in 1..(v + 1)
    OBVIOUS
  <2> HIDE DEF v
  <2>5. off[l] + i \in 1..off[c + 1]
    BY <2>1, <2>2, <2>3, <2>4
  <2> QED BY <1>3, <1>6, <2>1, <2>2, <2>3, <2>5 DEF v
<1>8. ASSUME NEW l \in 1..c PROVE Milestone(segs, segs[l].to) = off[l + 1]
  <2> DEFINE v == Len(segs[l].via)
  <2>1. v \in Nat /\ Part(segs[l])[v + 1] = segs[l].to
    BY <1>1, <1>2, PartIs
  <2>2. v + 1 \in 1..(v + 1)
    <3> HIDE DEF v
    <3> QED BY <2>1
  <2>3. Milestone(segs, Part(segs[l])[v + 1]) = off[l] + (v + 1) /\ off[l + 1] = off[l] + (v + 1)
    BY <1>7, <2>2
  <2> HIDE DEF v
  <2> QED BY <2>1, <2>3
<1>9. Milestone(segs, segs[k].from) = off[k]
  <2>1. CASE k = 1
    <3>1. 1 \in DOMAIN r
      <4>1. c + 1 \in 1..(c + 1)
        BY <1>1
      <4>2. off[c + 1] \in Nat /\ off[c + 1] >= 1
        BY <1>1, <4>1
      <4> QED BY <1>3, <4>2
    <3> QED BY <1>3, <1>6, <2>1, <3>1
  <2>2. CASE k # 1
    <3>1. k - 1 \in 1..c /\ k - 1 \in 1..(c - 1) /\ (k - 1) + 1 = k
      BY <1>1, <1>5, <2>2
    <3>2. segs[(k - 1) + 1].from = segs[k - 1].to
      BY <1>4, <3>1
    <3>3. Milestone(segs, segs[k - 1].to) = off[(k - 1) + 1]
      BY <1>8, <3>1
    <3> QED BY <3>1, <3>2, <3>3
  <2> QED BY <2>1, <2>2
<1>10. ASSUME NEW x \in Via(segs[k])
       PROVE  /\ Milestone(segs, x) \in Nat
              /\ off[k] < Milestone(segs, x) /\ Milestone(segs, x) < off[k + 1]
  <2> DEFINE v == Len(segs[k].via)
  <2>1. PICK i \in DOMAIN segs[k].via : x = segs[k].via[i]
    BY <1>10 DEF Via, ToSet
  <2>2. /\ v \in Nat /\ DOMAIN segs[k].via = 1..v
        /\ \A l \in 1..v : Part(segs[k])[l] = segs[k].via[l]
    <3>1. segs[k] \in Segment
      BY <1>1, <1>2, <1>5
    <3>2. segs[k].via \in Seq(Anchors)
      BY <3>1 DEF Segment
    <3> QED BY <3>1, <3>2, PartIs
  <2>3. i \in 1..v /\ i \in 1..(v + 1) /\ Part(segs[k])[i] = x
    <3> HIDE DEF v
    <3> QED BY <2>1, <2>2
  <2>4. Milestone(segs, x) = off[k] + i /\ off[k] \in Nat /\ off[k + 1] = off[k] + (v + 1)
    BY <1>5, <1>7, <2>3
  <2> HIDE DEF v
  <2> QED BY <2>2, <2>3, <2>4
<1> QED BY <1>5, <1>8, <1>9, <1>10

-----------------------------------------------------------------------------
(* Clipping                                                                *)

LEMMA JoinPointIs ==
  ASSUME NEW segs, RoadOf(segs), NEW a \in JoinPoints(segs)
  PROVE  /\ a = segs[1].from \/ \E k \in 1..Len(segs) : Alights(segs[k], a)
         /\ a = segs[Len(segs)].to \/ \E k \in 1..Len(segs) : Boards(segs[k], a)
<1> DEFINE c == Len(segs)
<1>1. /\ c \in Nat \ {0} /\ DOMAIN segs = 1..c
      /\ \A l \in 1..(c - 1) : segs[l + 1].from = segs[l].to
  <2>1. segs \in Seq(Segment) /\ segs # <<>> /\ \A l \in 1..(c - 1) : segs[l + 1].from = segs[l].to
    BY DEF RoadOf, Linked
  <2> QED BY <2>1
<1>2. PICK k \in 1..c : a \in {segs[k].from, segs[k].to} \cup Via(segs[k])
  BY <1>1 DEF JoinPoints, ToSet
<1> HIDE DEF c
<1>3. CASE a = segs[k].from /\ k # 1
  <2>1. k - 1 \in 1..c /\ k - 1 \in 1..(c - 1) /\ (k - 1) + 1 = k
    BY <1>1, <1>2, <1>3
  <2>2. segs[k - 1].to = a
    BY <1>1, <1>3, <2>1
  <2> QED BY <1>2, <1>3, <2>1, <2>2 DEF Boards, Alights, c
<1>4. CASE a = segs[k].to /\ k # c
  <2>1. k + 1 \in 1..c /\ k \in 1..(c - 1)
    BY <1>1, <1>2, <1>4
  <2>2. segs[k + 1].from = a
    BY <1>1, <1>4, <2>1
  <2> QED BY <1>2, <1>4, <2>1, <2>2 DEF Boards, Alights, c
<1> QED BY <1>2, <1>3, <1>4 DEF Boards, Alights, c

LEMMA BoardingIs ==
  ASSUME NEW segs \in Seq(Segment), NEW a
  PROVE  LET i == BoardingSegment(segs, a) IN
         \/ i = 0 /\ \A k \in 1..Len(segs) : ~Boards(segs[k], a)
         \/ i \in 1..Len(segs) /\ Boards(segs[i], a)
<1> DEFINE S == {k \in DOMAIN segs : Boards(segs[k], a)}
<1>1. S \in SUBSET Nat /\ DOMAIN segs = 1..Len(segs)
  OBVIOUS
<1>2. BoardingSegment(segs, a) =
           IF \E k \in DOMAIN segs : Boards(segs[k], a)
           THEN CHOOSE k \in DOMAIN segs :
                  Boards(segs[k], a) /\ \A l \in DOMAIN segs : Boards(segs[l], a) => k <= l
           ELSE 0
  BY DEF BoardingSegment, First, Boards
<1>3. CASE S = {}
  BY <1>1, <1>2, <1>3
<1>4. CASE S # {}
  <2>1. PICK k \in S : \A l \in S : k <= l
    <3> HIDE DEF S
    <3> QED BY <1>1, <1>4, Least
  <2>2. k \in DOMAIN segs /\ Boards(segs[k], a) /\ \A l \in DOMAIN segs : Boards(segs[l], a) => k <= l
    BY <2>1
  <2> QED BY <1>1, <1>2, <2>2
<1> QED BY <1>3, <1>4

\* The segment on which a rider bound for a gets off, from the i-th on.
Alighting(segs, i, a) == First(LAMBDA k : Alights(segs[k], a), i..Len(segs))

LEMMA AlightingIs ==
  ASSUME NEW segs \in Seq(Segment), NEW a, NEW i \in 1..Len(segs)
  PROVE  LET j == Alighting(segs, i, a) IN
         \/ j = 0 /\ \A k \in i..Len(segs) : ~Alights(segs[k], a)
         \/ j \in i..Len(segs) /\ Alights(segs[j], a)
<1> DEFINE S == {k \in i..Len(segs) : Alights(segs[k], a)}
<1>1. /\ S \in SUBSET Nat
      /\ Alighting(segs, i, a) =
           IF \E k \in i..Len(segs) : Alights(segs[k], a)
           THEN CHOOSE k \in i..Len(segs) :
                  Alights(segs[k], a) /\ \A l \in i..Len(segs) : Alights(segs[l], a) => k <= l
           ELSE 0
  BY DEF Alighting, First, Alights
<1>2. CASE S = {}
  BY <1>1, <1>2
<1>3. CASE S # {}
  <2>1. PICK k \in S : \A l \in S : k <= l
    <3> HIDE DEF S
    <3> QED BY <1>1, <1>3, Least
  <2>2. k \in i..Len(segs) /\ Alights(segs[k], a) /\ \A l \in i..Len(segs) : Alights(segs[l], a) => k <= l
    BY <2>1
  <2> QED BY <1>1, <2>2
<1> QED BY <1>2, <1>3
\* Leaving out the place where the last segment ends, any place is boarded at.
LEMMA ClipFromIs ==
  ASSUME NEW segs, RoadOf(segs), NEW a \in JoinPoints(segs)
  PROVE  \/ ClipFromAnchor(segs, a) = <<>> /\ a = segs[Len(segs)].to
         \/ \E i \in 1..Len(segs) : Boards(segs[i], a) /\ ClipFromAnchor(segs, a) = SubSeq(segs, i, Len(segs))
<1> DEFINE i == BoardingSegment(segs, a)
<1>1. segs \in Seq(Segment)
  BY DEF RoadOf
<1>2. \/ i = 0 /\ \A k \in 1..Len(segs) : ~Boards(segs[k], a)
      \/ i \in 1..Len(segs) /\ Boards(segs[i], a)
  BY <1>1, BoardingIs
<1>3. ClipFromAnchor(segs, a) = IF i = 0 THEN <<>> ELSE SubSeq(segs, i, Len(segs))
  BY DEF ClipFromAnchor
<1>4. a = segs[Len(segs)].to \/ \E k \in 1..Len(segs) : Boards(segs[k], a)
  BY JoinPointIs
<1>5. \A k \in 1..Len(segs) : k # 0
  BY <1>1
<1> HIDE DEF i
<1> QED BY <1>2, <1>3, <1>4, <1>5

\* A rider not taken wants to go back, or to stay.
LEMMA ClipBetweenIs ==
  ASSUME NEW segs, RoadOf(segs), NEW a \in JoinPoints(segs), NEW b \in JoinPoints(segs)
  PROVE  \/ ClipBetween(segs, a, b) = <<>> /\ Milestone(segs, b) <= Milestone(segs, a)
         \/ \E i, j \in 1..Len(segs) : /\ i <= j /\ Boards(segs[i], a) /\ Alights(segs[j], b)
                                       /\ ClipBetween(segs, a, b) = SubSeq(segs, i, j)
<1> DEFINE c == Len(segs)
           i == BoardingSegment(segs, a)
           j == Alighting(segs, i, b)
<1>1. segs \in Seq(Segment) /\ segs # <<>> /\ c \in Nat \ {0}
  BY DEF RoadOf
<1>2. PICK off : Marks(segs, off)
  BY <1>1, RoadHasMarks
<1>3. /\ \A k \in 1..(c + 1) : off[k] \in Nat
      /\ \A k, l \in 1..(c + 1) : k < l => off[k] < off[l]
      /\ off[1] = 1 /\ \A k \in 1..(c + 1) : off[k] >= 1
  BY <1>2, MarksRise DEF Marks
<1>4. \A k \in 1..c : /\ Boards(segs[k], a) => /\ Milestone(segs, a) \in Nat
                                               /\ off[k] <= Milestone(segs, a)
                      /\ Alights(segs[k], b) => /\ Milestone(segs, b) \in Nat
                                                /\ Milestone(segs, b) <= off[k + 1]
  <2>1. ASSUME NEW k \in 1..c
        PROVE  /\ Milestone(segs, segs[k].from) = off[k]
               /\ Milestone(segs, segs[k].to) = off[k + 1]
               /\ \A x \in Via(segs[k]) : /\ Milestone(segs, x) \in Nat
                                          /\ off[k] < Milestone(segs, x) /\ Milestone(segs, x) < off[k + 1]
               /\ off[k] \in Nat /\ off[k + 1] \in Nat
    <3>1. k \in 1..(c + 1) /\ k + 1 \in 1..(c + 1)
      BY <1>1
    <3> QED BY <1>2, <1>3, <3>1, Places
  <2> HIDE DEF c
  <2> QED BY <2>1 DEF Boards, Alights
<1>5. ClipBetween(segs, a, b) = IF i = 0 \/ j = 0 THEN <<>> ELSE SubSeq(segs, i, j)
  BY DEF ClipBetween, Alighting
<1>6. CASE i = 0
  <2>1. a = segs[c].to
    <3>1. \A k \in 1..c : ~Boards(segs[k], a)
      <4>1. i \notin 1..c
        BY <1>1, <1>6
      <4> QED BY <1>1, <4>1, BoardingIs
    <3> QED BY <3>1, JoinPointIs
  <2>2. Milestone(segs, a) = off[c + 1]
    <3>1. c \in 1..c
      BY <1>1
    <3> QED BY <1>2, <2>1, <3>1, Places
  <2>3. Milestone(segs, b) <= off[c + 1]
    <3>1. CASE b = segs[1].from
      <4>1. 1 \in 1..c /\ 1 \in 1..(c + 1) /\ c + 1 \in 1..(c + 1) /\ 1 < c + 1
        BY <1>1
      <4>2. Milestone(segs, b) = off[1]
        BY <1>2, <3>1, <4>1, Places
      <4> HIDE DEF c
      <4> QED BY <1>3, <4>1, <4>2
    <3>2. CASE \E k \in 1..c : Alights(segs[k], b)
      <4>1. PICK k \in 1..c : Alights(segs[k], b)
        BY <3>2
      <4>2. Milestone(segs, b) \in Nat /\ Milestone(segs, b) <= off[k + 1]
        BY <1>4, <4>1
      <4>3. k + 1 \in 1..(c + 1) /\ c + 1 \in 1..(c + 1) /\ (k + 1 = c + 1 \/ k + 1 < c + 1)
        BY <1>1
      <4>4. off[k + 1] \in Nat /\ off[c + 1] \in Nat /\ off[k + 1] <= off[c + 1]
        <5> HIDE DEF c
        <5> QED BY <1>3, <4>3
      <4> QED BY <4>2, <4>4
    <3> QED BY <3>1, <3>2, JoinPointIs
  <2> QED BY <1>5, <1>6, <2>2, <2>3
<1>7. CASE i # 0 /\ j = 0
  <2>1. i \in 1..c /\ Boards(segs[i], a)
    BY <1>1, <1>7, BoardingIs
  <2>2. \A k \in i..c : ~Alights(segs[k], b)
    <3>1. j \notin i..c
      BY <1>1, <1>7, <2>1
    <3> HIDE DEF i
    <3> QED BY <1>1, <2>1, <3>1, AlightingIs
  <2> HIDE DEF i, j
  <2>3. Milestone(segs, a) \in Nat /\ off[i] <= Milestone(segs, a) /\ off[i] \in Nat /\ off[i] >= 1
    <3>1. i \in 1..(c + 1)
      BY <1>1, <2>1
    <3> QED BY <1>3, <1>4, <2>1, <3>1
  <2>4. Milestone(segs, b) \in Nat /\ Milestone(segs, b) <= off[i]
    <3>1. CASE b = segs[1].from
      <4>1. 1 \in 1..c
        BY <1>1
      <4>2. Milestone(segs, b) = 1
        BY <1>2, <1>3, <3>1, <4>1, Places
      <4> QED BY <2>3, <4>2
    <3>2. CASE \E k \in 1..c : Alights(segs[k], b)
      <4>1. PICK k \in 1..c : Alights(segs[k], b)
        BY <3>2
      <4>2. Milestone(segs, b) \in Nat /\ Milestone(segs, b) <= off[k + 1]
        BY <1>4, <4>1
      <4>3. k \notin i..c
        BY <2>2, <4>1
      <4>4. k + 1 \in 1..(c + 1) /\ i \in 1..(c + 1) /\ (k + 1 = i \/ k + 1 < i)
        BY <1>1, <2>1, <4>3
      <4>5. off[k + 1] \in Nat /\ off[k + 1] <= off[i]
        <5> HIDE DEF c
        <5> QED BY <1>3, <2>3, <4>4
      <4> QED BY <2>3, <4>2, <4>5
    <3> QED BY <3>1, <3>2, JoinPointIs
  <2> QED BY <1>5, <1>7, <2>3, <2>4
<1>8. CASE i # 0 /\ j # 0
  <2>1. i \in 1..c /\ Boards(segs[i], a)
    BY <1>1, <1>8, BoardingIs
  <2>2. j \in i..c /\ Alights(segs[j], b)
    <3> HIDE DEF i
    <3> QED BY <1>1, <1>8, <2>1, AlightingIs
  <2> HIDE DEF i, j
  <2>3. j \in 1..c /\ i <= j
    BY <1>1, <2>1, <2>2
  <2> QED BY <1>5, <1>8, <2>1, <2>2, <2>3
<1> QED BY <1>6, <1>7, <1>8
LEMMA SubSeqIs ==
  ASSUME NEW T, NEW s \in Seq(T), NEW i \in 1..Len(s), NEW j \in 1..Len(s), i <= j
  PROVE  /\ SubSeq(s, i, j) \in Seq(T) /\ SubSeq(s, i, j) # <<>>
         /\ Len(SubSeq(s, i, j)) = j - i + 1
         /\ \A k \in 1..(j - i + 1) : SubSeq(s, i, j)[k] = s[i + k - 1]
<1>1. SubSeq(s, i, j) \in Seq(T) /\ Len(SubSeq(s, i, j)) = j - i + 1
  OBVIOUS
<1>2. j - i + 1 \in Nat /\ j - i + 1 > 0
  OBVIOUS
<1>3. SubSeq(s, i, j) # <<>>
  BY <1>1, <1>2
<1> QED BY <1>1, <1>3

-----------------------------------------------------------------------------
(* The steps                                                               *)

Step == [mode : Modes, from : Anchors, to : Anchors]

\* st leads from join to target along segs, with a step from each of starts on.
Lead(st, starts, segs, join, target) ==
  /\ st \in Seq(Step) /\ Len(st) = Len(starts)
  /\ \A k \in 1..Len(starts) :
       /\ st[k].mode = segs[starts[k]].mode
       /\ st[k].from = IF k = 1 THEN join ELSE segs[starts[k] - 1].to
       /\ st[k].to = IF k = Len(starts) THEN target ELSE segs[starts[k + 1] - 1].to

\* The positions where a step starts: the first, and wherever a vehicle is changed.
Starting(starts, segs) ==
  /\ starts \in Seq(1..Len(segs)) /\ Increasing(starts)
  /\ Len(starts) \in Nat \ {0} /\ starts[1] = 1
  /\ \A k \in 1..Len(starts) : starts[k] \in RunStarts(segs)
  /\ \A p \in RunStarts(segs) : \E k \in 1..Len(starts) : starts[k] = p

LEMMA StartsAre ==
  ASSUME NEW segs \in Seq(Segment), segs # <<>>
  PROVE  Starting(InOrder(RunStarts(segs), Len(segs)), segs)
<1> DEFINE n == Len(segs)
           s == InOrder(RunStarts(segs), n)
<1>1. n \in Nat \ {0} /\ DOMAIN segs = 1..n
  OBVIOUS
<1> HIDE DEF n
<1>2. /\ s \in Seq(1..n) /\ Increasing(s)
      /\ \A i \in RunStarts(segs) \cap (1..n) : \E k \in DOMAIN s : s[k] = i
      /\ \A k \in DOMAIN s : s[k] \in RunStarts(segs) \cap (1..n)
  BY <1>1, InOrderLists
<1>3. 1 \in RunStarts(segs) \cap (1..n)
  BY <1>1 DEF RunStarts
<1> HIDE DEF s
<1>4. PICK k \in DOMAIN s : s[k] = 1
  BY <1>2, <1>3
<1>5. Len(s) \in Nat /\ DOMAIN s = 1..Len(s)
  BY <1>2
<1>6. Len(s) \in Nat \ {0} /\ k \in 1..Len(s) /\ 1 \in 1..Len(s) /\ 1 \in DOMAIN s
  BY <1>4, <1>5
<1>7. s[1] = 1
  <2>1. s[1] \in 1..n /\ (1 = k \/ 1 < k)
    BY <1>2, <1>6
  <2>2. 1 < k => s[1] < s[k]
    BY <1>2, <1>4, <1>6 DEF Increasing
  <2> QED BY <1>1, <1>4, <2>1, <2>2
<1>8. RunStarts(segs) \subseteq 1..n
  BY <1>1 DEF RunStarts
<1> QED BY <1>2, <1>5, <1>6, <1>7, <1>8 DEF Starting, s, n

\* Where the steps lead: to end_anchor, else to the end of the last segment.
LastPlace(segs, end_anchor) == IF end_anchor # Nowhere THEN end_anchor ELSE segs[Len(segs)].to

LEMMA StepsAre ==
  ASSUME NEW segs \in Seq(Segment), segs # <<>>, NEW join \in Anchors,
         NEW end_anchor \in Anchors \cup {Nowhere}
  PROVE  \E starts :
           /\ Starting(starts, segs)
           /\ Lead(Steps(segs, join, end_anchor), starts, segs, join, LastPlace(segs, end_anchor))
<1> DEFINE starts == InOrder(RunStarts(segs), Len(segs))
           n == Len(starts)
           target == LastPlace(segs, end_anchor)
           end(k) == IF k < n THEN segs[starts[k + 1] - 1].to
                     ELSE IF end_anchor # Nowhere THEN end_anchor ELSE Last(segs).to
           st == [k \in DOMAIN starts |-> [mode |-> segs[starts[k]].mode,
                                           from |-> IF k = 1 THEN join ELSE end(k - 1),
                                           to   |-> end(k)]]
<1>1. Starting(starts, segs)
  BY StartsAre
<1>2. Steps(segs, join, end_anchor) = st
  BY DEF Steps
<1> HIDE DEF starts
<1>3. /\ n \in Nat \ {0} /\ DOMAIN starts = 1..n
      /\ \A k \in 1..n : starts[k] \in 1..Len(segs)
      /\ \A k \in 2..n : starts[k] - 1 \in 1..Len(segs)
  <2>1. starts \in Seq(1..Len(segs)) /\ n \in Nat \ {0} /\ starts[1] = 1 /\ Increasing(starts)
    BY <1>1 DEF Starting
  <2>2. DOMAIN starts = 1..n /\ \A k \in 1..n : starts[k] \in 1..Len(segs)
    BY <2>1
  <2>3. ASSUME NEW k \in 2..n PROVE starts[k] - 1 \in 1..Len(segs)
    <3>1. k \in 1..n /\ 1 \in 1..n /\ 1 < k
      BY <2>1
    <3>2. starts[1] < starts[k] /\ starts[k] \in 1..Len(segs)
      BY <2>1, <2>2, <3>1 DEF Increasing
    <3>3. Len(segs) \in Nat
      OBVIOUS
    <3> QED BY <2>1, <3>2, <3>3
  <2> QED BY <2>1, <2>2, <2>3
<1>4. \A k \in 1..Len(segs) : segs[k].mode \in Modes /\ segs[k].to \in Anchors
  <2>1. \A k \in 1..Len(segs) : segs[k] \in Segment
    OBVIOUS
  <2> QED BY <2>1 DEF Segment
<1>5. target \in Anchors
  <2>1. Len(segs) \in 1..Len(segs)
    OBVIOUS
  <2>2. segs[Len(segs)].to \in Anchors
    BY <1>4, <2>1
  <2> QED BY <2>2 DEF LastPlace
<1>6. ASSUME NEW k \in 1..n
      PROVE  end(k) = IF k = n THEN target ELSE segs[starts[k + 1] - 1].to
  <2>1. CASE k = n
    <3>1. ~(k < n)
      BY <1>3, <2>1
    <3>2. end(k) = IF end_anchor # Nowhere THEN end_anchor ELSE Last(segs).to
      BY <3>1
    <3>3. target = IF end_anchor # Nowhere THEN end_anchor ELSE Last(segs).to
      BY DEF LastPlace, Last
    <3> HIDE DEF end, target
    <3> QED BY <2>1, <3>2, <3>3
  <2>2. CASE k # n
    <3>1. k < n
      <4> HIDE DEF n
      <4> QED BY <1>3, <2>2
    <3> QED BY <2>2, <3>1
  <2> QED BY <2>1, <2>2
<1> HIDE DEF n, target, end
<1>7. ASSUME NEW k \in 1..n PROVE end(k) \in Anchors
  <2>1. CASE k = n
    BY <1>5, <1>6, <2>1
  <2>2. CASE k # n
    <3>1. k + 1 \in 2..n
      BY <1>3, <2>2
    <3>2. starts[k + 1] - 1 \in 1..Len(segs)
      BY <1>3, <3>1
    <3> QED BY <1>4, <1>6, <2>2, <3>2
  <2> QED BY <2>1, <2>2
<1>8. ASSUME NEW k \in 1..n
      PROVE  /\ k # 1 => k - 1 \in 1..n /\ end(k - 1) = segs[starts[k] - 1].to
  <2>1. k # 1 => k - 1 \in 1..n /\ k - 1 # n /\ (k - 1) + 1 = k
    BY <1>3
  <2> QED BY <1>6, <2>1
<1>9. \A k \in 1..n :
        /\ st[k].mode = segs[starts[k]].mode
        /\ st[k].from = IF k = 1 THEN join ELSE segs[starts[k] - 1].to
        /\ st[k].to = end(k)
  BY <1>3, <1>8
<1>10. st \in Seq(Step) /\ Len(st) = n
  <2>1. ASSUME NEW k \in 1..n PROVE st[k] \in Step
    <3>1. segs[starts[k]].mode \in Modes /\ end(k) \in Anchors
      BY <1>3, <1>4, <1>7
    <3>2. (IF k = 1 THEN join ELSE end(k - 1)) \in Anchors
      BY <1>7, <1>8
    <3>3. st[k] = [mode |-> segs[starts[k]].mode,
                   from |-> IF k = 1 THEN join ELSE end(k - 1), to |-> end(k)]
      BY <1>3
    <3> QED BY <3>1, <3>2, <3>3 DEF Step
  <2>2. st = [k \in 1..n |-> st[k]] /\ n \in Nat
    BY <1>3
  <2> HIDE DEF st
  <2> QED BY <2>1, <2>2, SeqByElements
<1>11. Lead(st, starts, segs, join, target)
  <2> HIDE DEF st
  <2> QED BY <1>9, <1>10, <1>6 DEF Lead, n
<1> QED BY <1>1, <1>2, <1>11 DEF target

\* Between two places of one segment, or from one segment to a later one.
LEMMA AheadOrAlong ==
  ASSUME NEW segs, RoadOf(segs), NEW off, Marks(segs, off),
         NEW i \in 1..Len(segs), NEW j \in 1..Len(segs), i <= j,
         NEW a, Boards(segs[i], a), NEW b, Alights(segs[j], b)
  PROVE  /\ Milestone(segs, a) \in Nat /\ Milestone(segs, a) < off[i + 1]
         /\ Milestone(segs, b) \in Nat /\ off[j] < Milestone(segs, b)
         /\ Milestone(segs, a) < Milestone(segs, b) \/ Along(segs, a, b)
<1> DEFINE c == Len(segs)
           A == Milestone(segs, a)
           B == Milestone(segs, b)
<1>1. /\ c \in Nat \ {0} /\ DOMAIN segs = 1..c
      /\ \A l \in 1..(c + 1) : off[l] \in Nat
      /\ \A k, l \in 1..(c + 1) : k < l => off[k] < off[l]
  BY MarksRise
<1>2. i \in 1..c /\ j \in 1..c
  OBVIOUS
<1>3. /\ Milestone(segs, segs[i].from) = off[i] /\ Milestone(segs, segs[j].to) = off[j + 1]
      /\ \A x \in Via(segs[i]) : /\ Milestone(segs, x) \in Nat
                                 /\ off[i] < Milestone(segs, x) /\ Milestone(segs, x) < off[i + 1]
      /\ \A x \in Via(segs[j]) : /\ Milestone(segs, x) \in Nat
                                 /\ off[j] < Milestone(segs, x) /\ Milestone(segs, x) < off[j + 1]
  BY Places
<1> HIDE DEF c
<1>4. /\ off[i] \in Nat /\ off[i + 1] \in Nat /\ off[i] < off[i + 1]
      /\ off[j] \in Nat /\ off[j + 1] \in Nat /\ off[j] < off[j + 1]
  <2>1. /\ i \in 1..(c + 1) /\ i + 1 \in 1..(c + 1) /\ i < i + 1
        /\ j \in 1..(c + 1) /\ j + 1 \in 1..(c + 1) /\ j < j + 1
    BY <1>1, <1>2
  <2> QED BY <1>1, <2>1
<1>5. i < j => off[i + 1] <= off[j]
  <2>1. i + 1 \in 1..(c + 1) /\ j \in 1..(c + 1) /\ (i < j => i + 1 = j \/ i + 1 < j)
    BY <1>1, <1>2
  <2> QED BY <1>1, <1>4, <2>1
<1>6. A \in Nat /\ off[i] <= A /\ A < off[i + 1] /\ (a \in Via(segs[i]) \/ A = off[i])
  BY <1>3, <1>4 DEF Boards
<1>7. B \in Nat /\ off[j] < B /\ B <= off[j + 1] /\ (b \in Via(segs[j]) \/ B = off[j + 1])
  BY <1>3, <1>4 DEF Alights
<1>8. A < B \/ Along(segs, a, b)
  <2>1. CASE i < j
    <3> HIDE DEF A, B
    <3> QED BY <1>4, <1>5, <1>6, <1>7, <2>1
  <2>2. CASE i = j /\ a \in Via(segs[i]) /\ b \in Via(segs[j])
    <3>1. segs[i] \in ToSet(segs)
      BY <1>1, <1>2 DEF ToSet
    <3> QED BY <2>2, <3>1 DEF Along
  <2>3. CASE i = j /\ ~(a \in Via(segs[i]) /\ b \in Via(segs[j]))
    <3> HIDE DEF A, B
    <3> QED BY <1>4, <1>6, <1>7, <2>3
  <2>4. i < j \/ i = j
    BY <1>1, <1>2
  <2> QED BY <2>1, <2>2, <2>3, <2>4
<1> QED BY <1>6, <1>7, <1>8

\* An element of a sequence is of the sequence's kind.
LEMMA ElementOf ==
  ASSUME NEW T, NEW s \in Seq(T), NEW k \in DOMAIN s
  PROVE  s[k] \in T
OBVIOUS

\* A step that is not the first starts at the p-th of the segments clipped, which
\* were cut out of the corridor from the i-th to the j-th.
Turn(segs, clipped, i, j, p) ==
  LET J == i + p - 1
  IN /\ J \in (i + 1)..j /\ p \in Nat
     /\ clipped[p - 1].to = segs[J].from /\ segs[J - 1].to = segs[J].from
     /\ segs[J].transfer \/ segs[J].mode # segs[J - 1].mode

LEMMA StartInCorridor ==
  ASSUME NEW segs, RoadOf(segs), NEW i \in 1..Len(segs), NEW j \in 1..Len(segs), i <= j,
         NEW starts, Starting(starts, SubSeq(segs, i, j)), NEW k \in 2..Len(starts)
  PROVE  Turn(segs, SubSeq(segs, i, j), i, j, starts[k])
<1> DEFINE clipped == SubSeq(segs, i, j)
           J == i + starts[k] - 1
           n == Len(clipped)
<1>1. /\ segs \in Seq(Segment) /\ Len(segs) \in Nat
      /\ \A l \in 1..(Len(segs) - 1) : segs[l + 1].from = segs[l].to
  BY DEF RoadOf, Linked
<1>2. /\ n = j - i + 1 /\ \A l \in 1..(j - i + 1) : clipped[l] = segs[i + l - 1]
      /\ clipped \in Seq(Segment) /\ DOMAIN clipped = 1..n
  <2>1. /\ clipped \in Seq(Segment) /\ n = j - i + 1
        /\ \A l \in 1..(j - i + 1) : clipped[l] = segs[i + l - 1]
    BY <1>1, SubSeqIs
  <2>2. DOMAIN clipped = 1..n
    <3> HIDE DEF clipped
    <3> QED BY <2>1
  <2> QED BY <2>1, <2>2
<1> HIDE DEF clipped, n
<1>3. /\ starts \in Seq(1..n) /\ Increasing(starts) /\ starts[1] = 1
      /\ Len(starts) \in Nat \ {0} /\ starts[k] \in RunStarts(clipped)
  <2>1. Starting(starts, clipped)
    BY DEF clipped
  <2>2. k \in 1..Len(starts)
    OBVIOUS
  <2> QED BY <2>1, <2>2 DEF Starting, n
<1>4. starts[k] \in 2..n
  <2>1. 1 \in DOMAIN starts /\ k \in DOMAIN starts /\ 1 < k
    BY <1>3
  <2>2. starts[1] < starts[k]
    BY <2>1, <1>3 DEF Increasing
  <2>3. n \in Nat
    BY <1>1, <1>2
  <2>4. starts[k] \in 1..n
    BY <1>3, <2>1, ElementOf
  <2> QED BY <1>3, <2>2, <2>3, <2>4
<1>5. starts[k] \in Nat /\ starts[k] \in 1..(j - i + 1) /\ starts[k] - 1 \in 1..(j - i + 1) /\ starts[k] # 1
  <2> DEFINE x == starts[k]
  <2>1. x \in 2..n /\ n = j - i + 1 /\ i \in Nat /\ j \in Nat
    BY <1>1, <1>2, <1>4
  <2> HIDE DEF x
  <2>2. x \in Nat /\ x \in 1..(j - i + 1) /\ x - 1 \in 1..(j - i + 1) /\ x # 1
    BY <2>1
  <2> QED BY <2>2 DEF x
<1>6. J \in (i + 1)..j /\ J \in 1..Len(segs) /\ J - 1 \in 1..(Len(segs) - 1) /\ J - 1 \in 1..Len(segs)
      /\ i + (starts[k] - 1) - 1 = J - 1 /\ (J - 1) + 1 = J
  <2> DEFINE x == starts[k]
             c == Len(segs)
  <2>1. x \in Nat /\ x \in 1..(j - i + 1) /\ x # 1 /\ c \in Nat /\ i \in 1..c /\ j \in 1..c
    BY <1>1, <1>5
  <2> HIDE DEF x, c
  <2>2. /\ i + x - 1 \in (i + 1)..j /\ i + x - 1 \in 1..c
        /\ (i + x - 1) - 1 \in 1..(c - 1) /\ (i + x - 1) - 1 \in 1..c
        /\ i + (x - 1) - 1 = (i + x - 1) - 1 /\ ((i + x - 1) - 1) + 1 = i + x - 1
    BY <2>1
  <2> QED BY <2>2 DEF x, c
<1>7. clipped[starts[k] - 1] = segs[J - 1] /\ clipped[starts[k]] = segs[J]
  BY <1>2, <1>5, <1>6
<1>8. segs[J].from = segs[J - 1].to
  <2> HIDE DEF J
  <2>1. segs[(J - 1) + 1].from = segs[J - 1].to
    BY <1>1, <1>6
  <2> QED BY <1>6, <2>1
<1>9. segs[J].transfer \/ segs[J].mode # segs[J - 1].mode
  BY <1>3, <1>5, <1>7 DEF RunStarts
<1> QED BY <1>5, <1>6, <1>7, <1>8, <1>9 DEF clipped, Turn
\* A place where the contributor changed vehicle.
ChangeAt(segs, a) ==
  \E i \in 2..Len(segs) : /\ segs[i].from = a
                          /\ segs[i].transfer \/ segs[i].mode # segs[i - 1].mode

Forward(segs, a, b) == Milestone(segs, a) < Milestone(segs, b) \/ Along(segs, a, b)

\* Rides that take a rider from one place of the road to another.
Journey(segs, st, join, target) ==
  /\ st \in Seq(Step) /\ Len(st) \in Nat \ {0}
  /\ st[1].from = join /\ st[Len(st)].to = target
  /\ \A k \in 1..(Len(st) - 1) : st[k].to = st[k + 1].from /\ ChangeAt(segs, st[k].to)
  /\ \A k \in 1..Len(st) : Ride(segs, st[k])

\* Between the places where steps start, no vehicle is changed.
LEMMA NoChange ==
  ASSUME NEW segs, RoadOf(segs), NEW i \in 1..Len(segs), NEW j \in 1..Len(segs), i <= j,
         NEW p \in 2..(j - i + 1), p \notin RunStarts(SubSeq(segs, i, j))
  PROVE  segs[i + p - 1].mode = segs[(i + p - 1) - 1].mode /\ ~segs[i + p - 1].transfer
<1> DEFINE clipped == SubSeq(segs, i, j)
           n == j - i + 1
<1>1. segs \in Seq(Segment) /\ Len(segs) \in Nat
  BY DEF RoadOf
<1>2. /\ clipped \in Seq(Segment) /\ Len(clipped) = n
      /\ \A k \in 1..n : clipped[k] = segs[i + k - 1]
  BY <1>1, SubSeqIs
<1>3. i \in Nat /\ j \in Nat /\ n \in Nat /\ p \in 1..n /\ p - 1 \in 1..n /\ p # 1
      /\ i + (p - 1) - 1 = (i + p - 1) - 1
  BY <1>1
<1> HIDE DEF clipped, n
<1>4. DOMAIN clipped = 1..n
  BY <1>2
<1>5. clipped[p].mode = clipped[p - 1].mode /\ ~clipped[p].transfer
  BY <1>3, <1>4 DEF RunStarts, clipped
<1>6. clipped[p] = segs[i + p - 1] /\ clipped[p - 1] = segs[i + (p - 1) - 1]
  BY <1>2, <1>3
<1> QED BY <1>3, <1>5, <1>6

LEMMA BetweenStarts ==
  ASSUME NEW n \in Nat, NEW starts, \A m \in 1..n : starts[m] \in Nat,
         \A a, b \in 1..n : a < b => starts[a] < starts[b],
         NEW k \in 1..n, NEW p \in Nat, starts[k] < p, k = n \/ p < starts[k + 1], NEW l \in 1..n
  PROVE  starts[l] # p
<1>1. CASE l <= k
  <2>1. l = k \/ l < k
    BY <1>1
  <2> QED BY <2>1
<1>2. CASE k < l
  <2>1. k + 1 \in 1..n /\ k # n /\ (l = k + 1 \/ k + 1 < l)
    BY <1>2
  <2> QED BY <2>1
<1> QED BY <1>1, <1>2

\* The segments from the i-th to the j-th, told to a rider who boards the one
\* and alights from the other.
LEMMA StepsAreJourney ==
  ASSUME NEW segs, RoadOf(segs),
         NEW i \in 1..Len(segs), NEW j \in 1..Len(segs), i <= j,
         NEW join \in Anchors, Boards(segs[i], join),
         NEW end_anchor \in Anchors \cup {Nowhere},
         NEW target, target = LastPlace(SubSeq(segs, i, j), end_anchor), Alights(segs[j], target)
  PROVE  Journey(segs, Steps(SubSeq(segs, i, j), join, end_anchor), join, target)
<1> DEFINE clipped == SubSeq(segs, i, j)
           st == Steps(clipped, join, end_anchor)
<1>1. segs \in Seq(Segment) /\ Len(segs) \in Nat
  BY DEF RoadOf
<1>2. clipped \in Seq(Segment) /\ clipped # <<>> /\ Len(clipped) = j - i + 1
  BY <1>1, SubSeqIs
<1> HIDE DEF clipped
<1>3. PICK starts : Starting(starts, clipped) /\ Lead(st, starts, clipped, join, target)
  BY <1>2, StepsAre DEF clipped
<1> DEFINE n == Len(starts)
           J(k) == i + starts[k] - 1
<1> HIDE DEF st
<1>4. /\ n \in Nat \ {0} /\ starts[1] = 1 /\ starts \in Seq(1..Len(clipped)) /\ Increasing(starts)
      /\ st \in Seq(Step) /\ Len(st) = n
      /\ \A p \in RunStarts(clipped) : \E k \in 1..n : starts[k] = p
      /\ \A k \in 1..n : st[k].mode = clipped[starts[k]].mode /\ starts[k] \in RunStarts(clipped)
      /\ \A k \in 1..n : st[k].from = IF k = 1 THEN join ELSE clipped[starts[k] - 1].to
      /\ \A k \in 1..n : st[k].to = IF k = n THEN target ELSE clipped[starts[k + 1] - 1].to
  BY <1>3 DEF Starting, Lead
<1>5. ASSUME NEW k \in 2..n
      PROVE  /\ J(k) \in (i + 1)..j /\ starts[k] \in Nat
             /\ clipped[starts[k] - 1].to = segs[J(k)].from
             /\ segs[J(k) - 1].to = segs[J(k)].from
             /\ segs[J(k)].transfer \/ segs[J(k)].mode # segs[J(k) - 1].mode
  <2>1. Starting(starts, SubSeq(segs, i, j))
    BY <1>3 DEF clipped
  <2>2. Turn(segs, SubSeq(segs, i, j), i, j, starts[k])
    BY <2>1, StartInCorridor
  <2> QED BY <2>2 DEF Turn, clipped
<1>6. J(1) = i
  BY <1>4
<1>7. ASSUME NEW k \in 1..n, k # n
      PROVE  k + 1 \in 2..n /\ k + 1 \in 1..n /\ k + 1 # 1 /\ starts[k] < starts[k + 1]
  <2>1. k + 1 \in 2..n /\ k + 1 \in 1..n /\ k + 1 # 1 /\ k < k + 1
    BY <1>4, <1>7
  <2>2. k \in DOMAIN starts /\ k + 1 \in DOMAIN starts
    BY <1>4, <2>1
  <2>3. starts[k] < starts[k + 1]
    BY <1>4, <2>1, <2>2 DEF Increasing
  <2> QED BY <2>1, <2>3
<1>8. ASSUME NEW k \in 1..n
      PROVE  /\ J(k) \in i..j /\ J(k) \in 1..Len(segs) /\ starts[k] \in Nat
             /\ Boards(segs[J(k)], st[k].from)
  <2>1. CASE k = 1
    <3>1. st[k].from = join
      BY <1>4, <2>1
    <3>2. i \in i..j
      BY <1>1
    <3> QED BY <1>4, <1>6, <2>1, <3>1, <3>2
  <2>2. CASE k # 1
    <3>1. k \in 2..n
      BY <1>4, <2>2
    <3>2. st[k].from = segs[J(k)].from
      BY <1>4, <1>5, <2>2, <3>1
    <3>3. J(k) \in (i + 1)..j /\ starts[k] \in Nat
      BY <1>5, <3>1
    <3>4. J(k) \in i..j /\ J(k) \in 1..Len(segs)
      <4> DEFINE x == J(k)
                 c == Len(segs)
      <4>1. x \in (i + 1)..j /\ c \in Nat /\ i \in 1..c /\ j \in 1..c
        BY <1>1, <3>3
      <4> HIDE DEF x, c
      <4>2. x \in i..j /\ x \in 1..c
        BY <4>1
      <4> QED BY <4>2 DEF x, c
    <3> QED BY <3>2, <3>3, <3>4 DEF Boards
  <2> QED BY <2>1, <2>2
<1>9. ASSUME NEW k \in 1..n
      PROVE  /\ J(k) = i + starts[k] - 1 /\ starts[k] \in 1..(j - i + 1)
             /\ st[k].mode = segs[J(k)].mode
  <2>1. starts[k] \in 1..(j - i + 1)
    <3>1. k \in DOMAIN starts
      BY <1>4
    <3> QED BY <1>2, <1>4, <3>1, ElementOf
  <2>2. clipped[starts[k]] = segs[i + starts[k] - 1]
    BY <1>1, <2>1, SubSeqIs DEF clipped
  <2> QED BY <1>4, <2>1, <2>2
<1>10. ASSUME NEW k \in 1..n
       PROVE  \E e \in 1..Len(segs) :
                /\ J(k) <= e /\ Alights(segs[e], st[k].to) /\ e <= j
                /\ k # n => e + 1 = J(k + 1)
  <2>1. CASE k = n
    <3>1. st[k].to = target
      BY <1>4, <2>1
    <3>2. J(k) <= j /\ j <= j
      BY <1>8, <1>1
    <3> QED BY <2>1, <3>1, <3>2
  <2>2. CASE k # n
    <3>1. k + 1 \in 2..n /\ starts[k] < starts[k + 1] /\ k + 1 \in 1..n
      BY <1>7, <2>2
    <3>2. /\ J(k + 1) \in (i + 1)..j /\ starts[k + 1] \in Nat
          /\ clipped[starts[k + 1] - 1].to = segs[J(k + 1) - 1].to
      BY <1>5, <3>1
    <3>3. /\ J(k + 1) - 1 \in 1..Len(segs) /\ J(k) <= J(k + 1) - 1
          /\ J(k + 1) - 1 <= j /\ (J(k + 1) - 1) + 1 = J(k + 1)
      <4> DEFINE x == starts[k]
                 y == starts[k + 1]
                 c == Len(segs)
      <4>1. /\ x \in Nat /\ y \in Nat /\ x < y /\ i + y - 1 \in (i + 1)..j
            /\ c \in Nat /\ i \in 1..c /\ j \in 1..c
        BY <1>1, <1>8, <3>1, <3>2
      <4> HIDE DEF x, y, c
      <4>2. /\ (i + y - 1) - 1 \in 1..c /\ i + x - 1 <= (i + y - 1) - 1
            /\ (i + y - 1) - 1 <= j /\ ((i + y - 1) - 1) + 1 = i + y - 1
        BY <4>1
      <4> QED BY <4>2 DEF x, y, c
    <3>4. st[k].to = segs[J(k + 1) - 1].to
      BY <1>4, <2>2, <3>2
    <3> QED BY <3>3, <3>4 DEF Alights
  <2> QED BY <2>1, <2>2
<1>11. ASSUME NEW k \in 1..n
       PROVE  Ride(segs, st[k])
  <2>1. PICK e \in 1..Len(segs) : /\ J(k) <= e /\ Alights(segs[e], st[k].to) /\ e <= j
                                  /\ k # n => e + 1 = J(k + 1)
    BY <1>10
  <2>2. J(k) \in 1..Len(segs) /\ Boards(segs[J(k)], st[k].from) /\ st[k].mode = segs[J(k)].mode
    BY <1>8, <1>9
  <2>3. ASSUME NEW m \in (J(k) + 1)..e
        PROVE  segs[m].mode = segs[m - 1].mode /\ ~segs[m].transfer
    <3> DEFINE p == m - i + 1
               x == starts[k]
               y == starts[k + 1]
    <3>1. /\ x \in 1..(j - i + 1) /\ i \in Nat /\ j \in Nat /\ e \in Nat /\ e <= j
          /\ m \in (i + x - 1 + 1)..e
      <4>1. x \in 1..(j - i + 1)
        BY <1>9
      <4>2. i \in Nat /\ j \in Nat /\ e \in Nat
        BY <1>1
      <4>3. m \in (i + x - 1 + 1)..e
        OBVIOUS
      <4> HIDE DEF x, y, p, J
      <4> QED BY <2>1, <4>1, <4>2, <4>3
    <3>2. k # n => y \in Nat /\ e + 1 = i + y - 1
      BY <1>7, <1>9, <2>1
    <3> HIDE DEF x, y
    <3>3. p \in Nat /\ p \in 2..(j - i + 1) /\ x < p /\ i + p - 1 = m
      BY <3>1
    <3>4. k = n \/ p < y
      BY <3>1, <3>2
    <3> HIDE DEF p
    <3>5. starts \in Seq(Nat) /\ Increasing(starts)
      BY <1>4
    <3>6. ASSUME NEW l \in 1..n
          PROVE  starts[l] # p
      <4>1. n \in Nat /\ DOMAIN starts = 1..n /\ \A q \in 1..n : starts[q] \in Nat
        <5>1. n \in Nat
          BY <1>4
        <5>2. DOMAIN starts = 1..n
          BY <3>5
        <5>3. \A q \in DOMAIN starts : starts[q] \in Nat
          BY <3>5, ElementOf
        <5> QED BY <5>1, <5>2, <5>3
      <4>2. \A a, b \in 1..n : a < b => starts[a] < starts[b]
        BY <3>5, <4>1 DEF Increasing
      <4>3. starts[k] < p /\ (k = n \/ p < starts[k + 1])
        BY <3>3, <3>4 DEF x, y
      <4> HIDE DEF n
      <4> QED BY <3>3, <4>1, <4>2, <4>3, BetweenStarts
    <3>7. p \notin RunStarts(clipped)
      BY <1>4, <3>6
    <3> QED BY <3>3, <3>7, NoChange DEF clipped
  <2>4. DOMAIN segs = 1..Len(segs)
    BY <1>1
  <2> HIDE DEF J
  <2> QED BY <2>1, <2>2, <2>3, <2>4 DEF Ride
<1> HIDE DEF J
<1>12. \A k \in 1..(n - 1) : st[k].to = st[k + 1].from /\ ChangeAt(segs, st[k].to)
  <2>1. SUFFICES ASSUME NEW k \in 1..(n - 1)
                 PROVE  st[k].to = st[k + 1].from /\ ChangeAt(segs, st[k].to)
    OBVIOUS
  <2>2. k \in 1..n /\ k # n /\ k + 1 \in 1..n /\ k + 1 \in 2..n /\ k + 1 # 1
    BY <1>4
  <2>3. st[k].to = clipped[starts[k + 1] - 1].to /\ st[k + 1].from = clipped[starts[k + 1] - 1].to
    BY <1>4, <2>2
  <2>4. /\ J(k + 1) \in (i + 1)..j
        /\ st[k].to = segs[J(k + 1)].from
        /\ segs[J(k + 1)].transfer \/ segs[J(k + 1)].mode # segs[J(k + 1) - 1].mode
    BY <1>5, <2>2, <2>3 DEF J
  <2>5. J(k + 1) \in 2..Len(segs)
    <3> DEFINE c == Len(segs)
    <3>1. J(k + 1) \in (i + 1)..j /\ c \in Nat /\ i \in 1..c /\ j \in 1..c
      BY <1>1, <2>4
    <3> HIDE DEF c
    <3>2. J(k + 1) \in 2..c
      BY <3>1
    <3> QED BY <3>2 DEF c
  <2> QED BY <2>3, <2>4, <2>5 DEF ChangeAt
<1>13. st[1].from = join /\ st[n].to = target
  BY <1>4
<1>14. Journey(segs, st, join, target)
  BY <1>4, <1>11, <1>12, <1>13 DEF Journey
<1> QED BY <1>14 DEF st, clipped
-----------------------------------------------------------------------------
(* What a rider is told                                                    *)

\* Where a rider bound for target gets off at last.
Arrival(target) == IF target = destination THEN segments[Len(segments)].to ELSE target

\* A corridor as it is filed.
Filed == /\ RoadOf(segments) /\ destination \in Anchors
         /\ destination = segments[Len(segments)].to \/ destination \notin JoinPoints(segments)

\* Why a rider at join may be refused the way to target.
Behind(join, target) ==
  IF target \in JoinPoints(segments) THEN Milestone(segments, target) <= Milestone(segments, join)
  ELSE join = segments[Len(segments)].to

\* A rider is given a journey, or asks for a place that is not ahead.
LEMMA ClipServes ==
  ASSUME RidingAssumption, Filed,
         NEW join \in Anchors, join \in JoinPoints(segments),
         NEW target \in Anchors, target \in JoinPoints(segments) \cup {destination}
  PROVE  LET clipped == Clip(segments, join, target)
         IN \/ clipped = <<>> /\ Behind(join, target)
            \/ /\ clipped # <<>>
               /\ Journey(segments, Steps(clipped, join, EndAnchor(target)), join, Arrival(target))
<1> DEFINE clipped == Clip(segments, join, target)
           c == Len(segments)
           end == EndAnchor(target)
<1>1. RoadOf(segments)
  BY DEF Filed
<1>2. segments \in Seq(Segment) /\ c \in Nat \ {0} /\ c \in 1..c
  BY <1>1 DEF RoadOf
<1>3. PICK off : Marks(segments, off)
  BY <1>1, RoadHasMarks DEF RoadOf
<1>4. end \in Anchors \cup {Nowhere}
  BY DEF EndAnchor
<1>5. ASSUME NEW i \in 1..c, NEW j \in 1..c, i <= j, Boards(segments[i], join),
             Alights(segments[j], Arrival(target)), clipped = SubSeq(segments, i, j),
             Arrival(target) = LastPlace(SubSeq(segments, i, j), end)
      PROVE  clipped # <<>> /\ Journey(segments, Steps(clipped, join, end), join, Arrival(target))
  <2>1. SubSeq(segments, i, j) # <<>>
    BY <1>2, <1>5, SubSeqIs
  <2> HIDE DEF end
  <2>2. Journey(segments, Steps(SubSeq(segments, i, j), join, end), join, Arrival(target))
    BY <1>1, <1>4, <1>5, StepsAreJourney
  <2> QED BY <1>5, <2>1, <2>2
<1>6. CASE target = destination
  <2>1. clipped = ClipFromAnchor(segments, join) /\ Arrival(target) = segments[c].to /\ end = Nowhere
    BY <1>6 DEF Clip, Arrival, EndAnchor
  <2>2. CASE clipped = <<>> /\ join = segments[c].to
    <3>1. CASE target = segments[c].to
      <4>1. Milestone(segments, target) = off[c + 1]
        BY <1>1, <1>2, <1>3, <3>1, Places
      <4>2. off[c + 1] \in Nat
        <5>1. c + 1 \in 1..(c + 1)
          BY <1>2
        <5>2. off \in [1..(c + 1) -> Nat]
          BY <1>3 DEF Marks
        <5> HIDE DEF c
        <5> QED BY <5>1, <5>2
      <4>3. Milestone(segments, target) <= Milestone(segments, join)
        <5> HIDE DEF c
        <5> QED BY <2>2, <3>1, <4>1, <4>2
      <4> QED BY <2>2, <4>3 DEF Behind
    <3>2. CASE target \notin JoinPoints(segments)
      BY <2>2, <3>2 DEF Behind
    <3> QED BY <1>6, <3>1, <3>2 DEF Filed
  <2>3. CASE \E i \in 1..c : Boards(segments[i], join) /\ clipped = SubSeq(segments, i, c)
    <3>1. PICK i \in 1..c : Boards(segments[i], join) /\ clipped = SubSeq(segments, i, c)
      BY <2>3
    <3>2. Alights(segments[c], Arrival(target)) /\ i <= c
      BY <1>2, <2>1 DEF Alights
    <3>3. Arrival(target) = LastPlace(SubSeq(segments, i, c), end)
      <4> DEFINE u == SubSeq(segments, i, c)
                 n == c - i + 1
      <4>1. Len(u) = n /\ \A k \in 1..n : u[k] = segments[i + k - 1]
        BY <1>2, <3>2, SubSeqIs
      <4>2. n \in 1..n /\ i + n - 1 = c
        <5> HIDE DEF c
        <5> QED BY <1>2, <3>2
      <4> HIDE DEF u, n
      <4>3. u[Len(u)] = segments[c]
        BY <4>1, <4>2
      <4> QED BY <2>1, <4>3 DEF LastPlace, u
    <3> HIDE DEF clipped, c, end
    <3>4. clipped # <<>> /\ Journey(segments, Steps(clipped, join, end), join, Arrival(target))
      BY <1>2, <1>5, <3>1, <3>2, <3>3
    <3> QED BY <3>4 DEF clipped, end
  <2> QED BY <1>1, <2>1, <2>2, <2>3, ClipFromIs
<1>7. CASE target # destination
  <2>1. /\ clipped = ClipBetween(segments, join, target) /\ target \in JoinPoints(segments)
        /\ Arrival(target) = target /\ end = target
    BY <1>7 DEF Clip, Arrival, EndAnchor
  <2>2. CASE clipped = <<>> /\ Milestone(segments, target) <= Milestone(segments, join)
    BY <2>1, <2>2 DEF Behind
  <2>3. CASE \E i, j \in 1..c : /\ i <= j /\ Boards(segments[i], join) /\ Alights(segments[j], target)
                                /\ clipped = SubSeq(segments, i, j)
    <3>1. PICK i \in 1..c, j \in 1..c :
            /\ i <= j /\ Boards(segments[i], join) /\ Alights(segments[j], target)
            /\ clipped = SubSeq(segments, i, j)
      BY <2>3
    <3>2. Arrival(target) = LastPlace(SubSeq(segments, i, j), end)
      BY <2>1 DEF LastPlace, RidingAssumption
    <3> HIDE DEF clipped, c, end
    <3>3. clipped # <<>> /\ Journey(segments, Steps(clipped, join, end), join, Arrival(target))
      BY <1>5, <2>1, <3>1, <3>2
    <3> QED BY <3>3 DEF clipped, end
  <2> QED BY <1>1, <2>1, <2>2, <2>3, ClipBetweenIs
<1> QED BY <1>6, <1>7

-----------------------------------------------------------------------------
(* The inductive invariant                                                 *)

TypesInv == /\ segments \in Seq(Segment)
            /\ destination \in Anchors \cup {Nowhere}
            /\ phase \in {"drawing", "filed", "riding", "refused"}
            /\ at \in Anchors \cup {Nowhere} /\ dest \in Anchors \cup {Nowhere}
            /\ steps \in Seq(Step)

\* What is drawn is a road, and only a filed corridor is asked about.
RoadInv == /\ segments # <<>> => RoadOf(segments)
           /\ phase # "drawing" => Filed

\* The steps still to follow are chained, and the last ends where the rider gets
\* off: without this, following a step might leave the rider beside the next one.
StepsChained ==
  phase = "riding" =>
    /\ \A k \in 1..(Len(steps) - 1) : steps[k].to = steps[k + 1].from
    /\ IF steps = <<>> THEN at = Arrival(dest) ELSE steps[Len(steps)].to = Arrival(dest)

IInv == /\ TypesInv /\ RoadInv /\ StepsChained
        /\ StepsAreRides /\ ServedWhenAhead /\ ChangesAreReal

LEMMA TailIs ==
  ASSUME NEW T, NEW s \in Seq(T), s # <<>>
  PROVE  /\ Tail(s) \in Seq(T) /\ Len(s) \in Nat \ {0} /\ Len(Tail(s)) = Len(s) - 1
         /\ Head(s) = s[1] /\ \A k \in 1..(Len(s) - 1) : Tail(s)[k] = s[k + 1]
OBVIOUS

LEMMA InitIs == Init => IInv
<1> SUFFICES ASSUME Init PROVE IInv
  OBVIOUS
<1>1. /\ segments = <<>> /\ destination = Nowhere /\ phase = "drawing"
      /\ at = Nowhere /\ dest = Nowhere /\ steps = <<>>
  BY DEF Init
<1> QED BY <1>1 DEF IInv, TypesInv, RoadInv, StepsChained, StepsAreRides, ServedWhenAhead, ChangesAreReal

\* A segment that continues the road to places not on it.
LEMMA RoadGrows ==
  ASSUME NEW segs \in Seq(Segment), segs # <<>> => RoadOf(segs),
         NEW seg \in Segment, segs # <<>> => seg.from = segs[Len(segs)].to,
         IsInjective(Part(seg)), ToSet(Part(seg)) \cap (JoinPoints(segs) \cup {seg.from}) = {}
  PROVE  RoadOf(Append(segs, seg))
<1> DEFINE new == Append(segs, seg)
           c == Len(segs)
<1>1. /\ new \in Seq(Segment) /\ Len(new) = c + 1 /\ new[c + 1] = seg
      /\ \A k \in 1..c : new[k] = segs[k]
  BY AppendOne
<1>2. c \in Nat /\ (c # 0 <=> segs # <<>>) /\ DOMAIN segs = 1..c
  OBVIOUS
<1> HIDE DEF new, c
<1>3. DOMAIN new = 1..(c + 1) /\ new # <<>> /\ \A k \in 1..(c + 1) : k \in 1..c \/ k = c + 1
  BY <1>1, <1>2
<1>4. ASSUME NEW k \in 1..c
      PROVE  /\ segs # <<>> /\ new[k] = segs[k] /\ 1 \in 1..c /\ new[1] = segs[1]
             /\ ToSet(Part(segs[k])) \subseteq JoinPoints(segs) /\ segs[1].from \in JoinPoints(segs)
  <2>1. segs # <<>> /\ 1 \in 1..c
    BY <1>2
  <2>2. segs[k] \in ToSet(segs) /\ segs[1] \in ToSet(segs)
    BY <1>2, <2>1 DEF ToSet
  <2>3. segs[k] \in Segment
    BY <1>2, ElementOf
  <2>4. ToSet(Part(segs[k])) = Via(segs[k]) \cup {segs[k].to}
    BY <2>3, PartIs
  <2> QED BY <1>1, <2>1, <2>2, <2>4 DEF JoinPoints
<1>5. Linked(new)
  <2>1. SUFFICES ASSUME NEW k \in 1..c PROVE new[k + 1].from = new[k].to
    BY <1>1, <1>2 DEF Linked
  <2>2. CASE k = c
    BY <1>1, <1>4, <2>2 DEF c
  <2>3. CASE k # c
    <3>1. k \in 1..(c - 1) /\ k + 1 \in 1..c
      BY <1>2, <2>3
    <3>2. segs[k + 1].from = segs[k].to
      BY <1>4, <3>1 DEF RoadOf, Linked, c
    <3> QED BY <1>1, <3>1, <3>2
  <2> QED BY <2>2, <2>3
<1>6. ASSUME NEW k \in 1..(c + 1)
      PROVE  IsInjective(Part(new[k])) /\ new[1].from \notin ToSet(Part(new[k]))
  <2>1. CASE k \in 1..c
    BY <1>2, <1>4, <2>1 DEF RoadOf, Distinct
  <2>2. CASE k = c + 1 /\ c = 0
    BY <1>1, <2>2
  <2>3. CASE k = c + 1 /\ c # 0
    <3>1. 1 \in 1..c
      BY <1>2, <2>3
    <3>2. new[1].from \in JoinPoints(segs)
      BY <1>4, <3>1
    <3> QED BY <1>1, <2>3, <3>2
  <2> QED BY <1>3, <2>1, <2>2, <2>3
<1>7. ASSUME NEW k \in 1..c
      PROVE  ToSet(Part(new[k])) \cap ToSet(Part(seg)) = {}
  BY <1>4
<1>8. ASSUME NEW j \in 1..(c + 1), NEW k \in 1..(c + 1), j # k
      PROVE  ToSet(Part(new[j])) \cap ToSet(Part(new[k])) = {}
  <2>1. CASE j \in 1..c /\ k \in 1..c
    BY <1>2, <1>4, <1>8, <2>1 DEF RoadOf, Distinct
  <2>2. CASE j \in 1..c /\ k = c + 1
    BY <1>1, <1>7, <2>2
  <2>3. CASE j = c + 1 /\ k \in 1..c
    BY <1>1, <1>7, <2>3
  <2> QED BY <1>3, <1>8, <2>1, <2>2, <2>3
<1>9. Distinct(new)
  BY <1>3, <1>6, <1>8 DEF Distinct
<1> QED BY <1>1, <1>3, <1>5, <1>9 DEF RoadOf, new
\* A contributor's segment leaves a road.
LEMMA DrawKeeps ==
  ASSUME IInv, NEW seg \in Segment, Draw(seg)
  PROVE  IInv'
<1> DEFINE new == Append(seg.via, seg.to)
<1>1. TypesInv /\ RoadInv /\ phase = "drawing"
  BY DEF IInv, Draw
<1>2. /\ segments' = Append(segments, seg) /\ UNCHANGED <<destination, phase, at, dest, steps>>
      /\ segments # <<>> => seg.from = segments[Len(segments)].to
      /\ IsInjective(new) /\ ToSet(new) \cap (JoinPoints(segments) \cup {seg.from}) = {}
  BY DEF Draw, Last
<1>3. segments \in Seq(Segment)
  BY <1>1 DEF TypesInv
<1>4. RoadOf(Append(segments, seg))
  <2>1. segments # <<>> => RoadOf(segments)
    BY <1>1 DEF RoadInv
  <2>2. segments # <<>> => seg.from = segments[Len(segments)].to
    BY <1>2
  <2>3. IsInjective(Part(seg)) /\ ToSet(Part(seg)) \cap (JoinPoints(segments) \cup {seg.from}) = {}
    BY <1>2 DEF Part
  <2> QED BY <1>3, <2>1, <2>2, <2>3, RoadGrows
<1>5. TypesInv'
  <2>1. Append(segments, seg) \in Seq(Segment)
    BY <1>3, AppendOne
  <2> QED BY <1>1, <1>2, <2>1 DEF TypesInv
<1>6. RoadInv'
  BY <1>1, <1>2, <1>4 DEF RoadInv
<1>7. phase' = "drawing"
  BY <1>1, <1>2
<1> QED BY <1>5, <1>6, <1>7 DEF IInv, StepsChained, StepsAreRides, ServedWhenAhead, ChangesAreReal

\* What is filed is a road, with its destination at its end or beyond.
LEMMA FileKeeps ==
  ASSUME IInv, NEW d \in Anchors, File(d)
  PROVE  IInv'
<1>1. TypesInv /\ RoadInv
  BY DEF IInv
<1>2. /\ segments # <<>> /\ (d = segments[Len(segments)].to \/ d \notin JoinPoints(segments))
      /\ destination' = d /\ phase' = "filed" /\ UNCHANGED <<segments, at, dest, steps>>
  BY DEF File, Last
<1>3. TypesInv'
  BY <1>1, <1>2 DEF TypesInv
<1>4. RoadInv'
  BY <1>1, <1>2 DEF RoadInv, RoadOf, Filed
<1> QED BY <1>2, <1>3, <1>4 DEF IInv, StepsChained, StepsAreRides, ServedWhenAhead, ChangesAreReal

\* What the answer to a question is.
LEMMA AskAnswers ==
  ASSUME RidingAssumption, TypesInv, RoadInv, NEW join \in Anchors, NEW target \in Anchors,
         Ask(join, target)
  PROVE  /\ Filed /\ UNCHANGED <<segments, destination>> /\ at' = join /\ dest' = target
         /\ \/ phase' = "refused" /\ steps' = <<>> /\ Behind(join, target)
            \/ phase' = "riding" /\ Journey(segments, steps', join, Arrival(target))
<1> DEFINE clipped == Clip(segments, join, target)
           told == Steps(clipped, join, EndAnchor(target))
<1>1. Filed /\ UNCHANGED <<segments, destination>> /\ at' = join /\ dest' = target
  BY DEF Ask, RoadInv
<1>2. /\ phase' = IF clipped = <<>> THEN "refused" ELSE "riding"
      /\ steps' = IF clipped = <<>> THEN <<>> ELSE told
  BY DEF Ask
<1>3. \/ clipped = <<>> /\ Behind(join, target)
      \/ clipped # <<>> /\ Journey(segments, told, join, Arrival(target))
  <2>1. join \in JoinPoints(segments) /\ target \in JoinPoints(segments) \cup {destination}
    BY DEF Ask
  <2> QED BY <1>1, <2>1, ClipServes
<1> HIDE DEF clipped, told
<1> QED BY <1>1, <1>2, <1>3

\* Who gets off where the corridor leads is at the place asked for, or as near to
\* it as the corridor goes.
LEMMA ArrivalIs ==
  ASSUME Filed, NEW target
  PROVE  \/ Arrival(target) = target
         \/ /\ target = destination /\ destination \notin JoinPoints(segments)
            /\ Arrival(target) = Last(segments).to
BY DEF Filed, Arrival, Last

LEMMA AskKeeps ==
  ASSUME RidingAssumption, IInv, NEW join \in Anchors, NEW target \in Anchors, Ask(join, target)
  PROVE  IInv'
<1>1. TypesInv /\ RoadInv
  BY DEF IInv
<1>2. /\ Filed /\ UNCHANGED <<segments, destination>> /\ at' = join /\ dest' = target
  BY <1>1, AskAnswers
<1>3. RoadInv'
  BY <1>1, <1>2 DEF RoadInv, RoadOf, Filed
<1>4. CASE phase' = "refused" /\ steps' = <<>> /\ Behind(join, target)
  <2>1. TypesInv'
    BY <1>1, <1>2, <1>4 DEF TypesInv
  <2>2. ServedWhenAhead'
    BY <1>2, <1>4 DEF ServedWhenAhead, Behind, Last
  <2> QED BY <1>3, <1>4, <2>1, <2>2 DEF IInv, StepsChained, StepsAreRides, ChangesAreReal
<1>5. CASE phase' = "riding" /\ Journey(segments, steps', join, Arrival(target))
  <2>1. /\ steps' \in Seq(Step) /\ Len(steps') \in Nat \ {0}
        /\ steps'[1].from = join /\ steps'[Len(steps')].to = Arrival(target)
        /\ \A k \in 1..(Len(steps') - 1) : /\ steps'[k].to = steps'[k + 1].from
                                           /\ ChangeAt(segments, steps'[k].to)
        /\ \A k \in 1..Len(steps') : Ride(segments, steps'[k])
    BY <1>5 DEF Journey
  <2>2. steps' # <<>> /\ Head(steps') = steps'[1] /\ DOMAIN steps' = 1..Len(steps')
    BY <2>1
  <2>3. TypesInv'
    BY <1>1, <1>2, <1>5, <2>1 DEF TypesInv
  <2>4. StepsChained'
    BY <1>2, <2>1, <2>2 DEF StepsChained, Arrival
  <2>5. StepsAreRides'
    BY <1>2, <2>1, <2>2 DEF StepsAreRides, Ride
  <2>6. ChangesAreReal'
    BY <1>2, <2>1 DEF ChangesAreReal, ChangeAt
  <2> QED BY <1>3, <1>5, <2>3, <2>4, <2>5, <2>6 DEF IInv, ServedWhenAhead
<1> QED BY <1>1, <1>4, <1>5, AskAnswers

\* A ride never leads back, nor nowhere, except between passthroughs of one segment.
LEMMA RideForward ==
  ASSUME NEW segs, RoadOf(segs), NEW step, Ride(segs, step)
  PROVE  Forward(segs, step.from, step.to)
<1>1. segs \in Seq(Segment) /\ segs # <<>> /\ DOMAIN segs = 1..Len(segs)
  BY DEF RoadOf
<1>2. PICK off : Marks(segs, off)
  BY <1>1, RoadHasMarks
<1>3. PICK i \in 1..Len(segs), j \in 1..Len(segs) :
        i <= j /\ Boards(segs[i], step.from) /\ Alights(segs[j], step.to)
  BY <1>1 DEF Ride
<1> QED BY <1>2, <1>3, AheadOrAlong DEF Forward

\* A rider who follows a step is where the next one starts.
LEMMA FollowKeeps ==
  ASSUME IInv, Follow
  PROVE  IInv' /\ Forward(segments, at, at')
<1> DEFINE n == Len(steps)
<1>1. TypesInv /\ RoadInv /\ StepsChained /\ StepsAreRides /\ ChangesAreReal
  BY DEF IInv
<1>2. /\ phase = "riding" /\ steps # <<>> /\ at' = Head(steps).to /\ steps' = Tail(steps)
      /\ UNCHANGED <<segments, destination, phase, dest>>
  BY DEF Follow
<1>3. /\ steps \in Seq(Step) /\ n \in Nat \ {0} /\ Head(steps) = steps[1] /\ DOMAIN steps = 1..n
      /\ steps' \in Seq(Step) /\ Len(steps') = n - 1 /\ \A k \in 1..(n - 1) : steps'[k] = steps[k + 1]
      /\ \A k \in 1..n : steps[k] \in Step
  <2>1. steps \in Seq(Step)
    BY <1>1 DEF TypesInv
  <2> QED BY <1>2, <2>1, TailIs
<1>4. /\ steps[1].from = at /\ steps[n].to = Arrival(dest)
      /\ \A k \in 1..(n - 1) : steps[k].to = steps[k + 1].from
      /\ \A k \in 1..n : Ride(segments, steps[k])
  BY <1>1, <1>2, <1>3 DEF StepsChained, StepsAreRides
<1> HIDE DEF n
<1>5. 1 \in 1..n /\ \A k \in 1..(n - 1) : k \in 1..n /\ k + 1 \in 1..n
  BY <1>3
<1>6. Forward(segments, at, at')
  <2>1. RoadOf(segments)
    BY <1>1, <1>2 DEF RoadInv, Filed
  <2>2. Forward(segments, steps[1].from, steps[1].to)
    BY <1>4, <1>5, <2>1, RideForward
  <2> QED BY <1>2, <1>3, <1>4, <2>2
<1>7. TypesInv' /\ RoadInv'
  <2>1. at' \in Anchors
    BY <1>2, <1>3, <1>5 DEF Step
  <2> QED BY <1>1, <1>2, <1>3, <2>1 DEF TypesInv, RoadInv, RoadOf, Filed
<1>8. DOMAIN steps' = 1..(n - 1)
  BY <1>3
<1>9. ASSUME n = 1
      PROVE  StepsChained' /\ StepsAreRides'
  <2>1. steps' = <<>> /\ at' = Arrival(dest) /\ Arrival(dest)' = Arrival(dest)
    BY <1>2, <1>3, <1>4, <1>9 DEF Arrival
  <2>2. \A k \in 1..(Len(steps') - 1) : FALSE
    BY <1>3, <1>9
  <2>3. StepsChained'
    BY <2>1, <2>2 DEF StepsChained
  <2>4. \/ at' = dest'
        \/ /\ dest' = destination' /\ destination' \notin JoinPoints(segments')
           /\ at' = Last(segments').to
    BY <1>1, <1>2, <2>1, ArrivalIs DEF RoadInv
  <2>5. DOMAIN steps' = {}
    BY <1>3, <1>8, <1>9
  <2>6. StepsAreRides'
    BY <2>1, <2>4, <2>5 DEF StepsAreRides
  <2> QED BY <2>3, <2>6
<1>10. ASSUME n # 1
       PROVE  StepsChained' /\ StepsAreRides'
  <2>1. 1 \in 1..(n - 1) /\ n - 1 \in 1..(n - 1) /\ (n - 1) + 1 = n /\ 1 + 1 \in 1..n
    BY <1>3, <1>10
  <2>2. steps' # <<>> /\ Head(steps') = steps'[1]
    BY <1>3, <2>1
  <2>3. Head(steps').from = at'
    BY <1>2, <1>3, <1>4, <2>1, <2>2
  <2>4. steps'[n - 1].to = Arrival(dest) /\ Arrival(dest)' = Arrival(dest)
    <3>1. steps'[n - 1] = steps[(n - 1) + 1]
      BY <1>3, <2>1
    <3> QED BY <1>2, <1>4, <2>1, <3>1 DEF Arrival
  <2>5. ASSUME NEW k \in 1..(Len(steps') - 1) PROVE steps'[k].to = steps'[k + 1].from
    <3>1. k \in 1..(n - 1) /\ k + 1 \in 1..(n - 1)
      BY <1>3, <2>5
    <3> QED BY <1>3, <1>4, <3>1
  <2>6. \A k \in DOMAIN steps' : Ride(segments, steps'[k])
    BY <1>3, <1>4, <1>5, <1>8
  <2>7. StepsChained'
    BY <1>3, <2>2, <2>4, <2>5 DEF StepsChained
  <2>8. StepsAreRides'
    BY <1>2, <2>2, <2>3, <2>6 DEF StepsAreRides
  <2> QED BY <2>7, <2>8
<1>11. ChangesAreReal'
  <2>1. SUFFICES ASSUME NEW k \in 1..(Len(steps') - 1) PROVE ChangeAt(segments, steps'[k].to)
    BY <1>2 DEF ChangesAreReal, ChangeAt
  <2>2. k \in 1..(n - 1) /\ k + 1 \in 1..(n - 1)
    BY <1>3, <2>1
  <2>3. ChangeAt(segments, steps[k + 1].to)
    BY <1>1, <1>2, <2>2 DEF ChangesAreReal, ChangeAt, n
  <2> QED BY <1>3, <2>2, <2>3
<1> QED BY <1>2, <1>6, <1>7, <1>9, <1>10, <1>11 DEF IInv, ServedWhenAhead

LEMMA StepKeeps == RidingAssumption /\ IInv /\ [Next]_vars => IInv'
<1> SUFFICES ASSUME RidingAssumption, IInv, [Next]_vars PROVE IInv'
  OBVIOUS
<1>1. ASSUME NEW f \in Anchors, NEW t \in Anchors, NEW v \in Vias, NEW m \in Modes, NEW x \in BOOLEAN,
             Draw([from |-> f, via |-> v, to |-> t, mode |-> m, transfer |-> x])
      PROVE  IInv'
  <2>1. v \in Seq(Anchors)
    <3>1. PICK n \in 0..2 : v \in [1..n -> Anchors]
      BY DEF Vias
    <3>2. v = [k \in 1..n |-> v[k]] /\ \A k \in 1..n : v[k] \in Anchors
      BY <3>1
    <3> QED BY <3>2, SeqByElements
  <2>2. [from |-> f, via |-> v, to |-> t, mode |-> m, transfer |-> x] \in Segment
    BY <2>1 DEF Segment
  <2> QED BY <1>1, <2>2, DrawKeeps
<1>2. ASSUME NEW j \in Anchors, NEW t \in Anchors, Ask(j, t) PROVE IInv'
  BY <1>2, AskKeeps
<1>3. ASSUME NEW d \in Anchors, File(d) PROVE IInv'
  BY <1>3, FileKeeps
<1>4. CASE Follow
  BY <1>4, FollowKeeps
<1>5. CASE Rest \/ UNCHANGED vars
  <2>1. UNCHANGED <<segments, destination, phase, at, dest, steps>>
    BY <1>5 DEF Rest, vars
  <2>2. TypesInv' /\ RoadInv'
    BY <2>1 DEF IInv, TypesInv, RoadInv, RoadOf, Filed
  <2>3. StepsChained'
    BY <2>1 DEF IInv, StepsChained, Arrival
  <2>4. StepsAreRides'
    BY <2>1 DEF IInv, StepsAreRides, Ride
  <2>5. ServedWhenAhead' /\ ChangesAreReal'
    BY <2>1 DEF IInv, ServedWhenAhead, ChangesAreReal
  <2> QED BY <2>2, <2>3, <2>4, <2>5 DEF IInv
<1> QED BY <1>1, <1>2, <1>3, <1>4, <1>5 DEF Next

LEMMA Invariant == Spec => []IInv
BY InitIs, StepKeeps, RidingAssumption, PTL DEF Spec

-----------------------------------------------------------------------------
(* The theorems                                                            *)

\* Every step of a reply is one ride that can be made from where the rider is by
\* then, and the last leads to the place asked for, or as near as a corridor filed
\* short of it goes, whatever the lengths of the corridor and of its segments
\* (format_corridor, _group_runs, the clipping of repository.py).
THEOREM StepsCorrect == Spec => []StepsAreRides
<1>1. IInv => StepsAreRides
  BY DEF IInv
<1> QED BY <1>1, Invariant, PTL

\* A rider whose destination lies ahead on the corridor is never refused
\* (clip_from_anchor, clip_between, _try_corridor_reply).
THEOREM ServedCorrect == Spec => []ServedWhenAhead
<1>1. IInv => ServedWhenAhead
  BY DEF IInv
<1> QED BY <1>1, Invariant, PTL

\* A rider changes vehicle only where the contributor did (_group_runs).
THEOREM ChangesCorrect == Spec => []ChangesAreReal
<1>1. IInv => ChangesAreReal
  BY DEF IInv
<1> QED BY <1>1, Invariant, PTL

\* A rider who follows the steps never moves back along the road, nor stays,
\* except between two passthroughs of one segment.
THEOREM NeverBack == Spec => NoWayBack
<1>1. IInv /\ [Next]_vars
      => [Follow => Milestone(segments, at) < Milestone(segments, at') \/ Along(segments, at, at')]_vars
  BY FollowKeeps DEF Forward
<1> QED BY <1>1, Invariant, PTL DEF Spec, NoWayBack
=============================================================================

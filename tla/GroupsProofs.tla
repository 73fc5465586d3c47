---------------------------- MODULE GroupsProofs ----------------------------
EXTENDS Groups, FiniteSetTheorems, SequenceTheorems, WellFoundedInduction, TLAPS

(***************************************************************************)
(* The array of terminated groups is ascending, which makes its loops      *)
(* arithmetic: expireOldGroups cuts off a prefix of it, terminateGroup     *)
(* inserts into it, and shiftByTerminatedGroups adds to an index the       *)
(* number of entries it passes. From this a selection hits every active    *)
(* group equally often.                                                    *)
(***************************************************************************)

(* Induction up to N, for a set of numbers.                                *)
LEMMA CountingUp ==
    ASSUME NEW N \in Nat, NEW T, 0 \in T, \A n \in 1..N : n - 1 \in T => n \in T
    PROVE  N \in T
  <1> DEFINE R == {ss \in Nat \X Nat : ss[1] < ss[2]}
             S == {n \in 0..N : n \notin T}
  <1>1. R = OpToRel(<, Nat)
    BY Zenon DEF OpToRel
  <1>2. IsWellFoundedOn(R, Nat)
    BY <1>1, NatLessThanWellFounded, Zenon
  <1>3. SUFFICES ASSUME S /= {} PROVE FALSE
    BY SMT
  <1>4. S \in SUBSET Nat
    BY SMT
  <1> HIDE DEF R, S
  <1>5. PICK x \in S : \A y \in S : ~(<<y, x>> \in R)
    BY <1>2, <1>3, <1>4, WFMin, Zenon
  <1>6. x \in 0..N /\ x \notin T /\ x /= 0
    BY Zenon DEF S
  <1>7. x \in 1..N /\ x - 1 \in 0..N /\ x - 1 \in Nat /\ x \in Nat /\ x - 1 < x
    BY <1>6, SMT
  <1>8. x - 1 \in S
    BY <1>6, <1>7, Zenon DEF S
  <1>9. PICK y : y = x - 1
    BY Zenon
  <1>10. <<y, x>> \in R
    <2>1. <<y, x>> \in Nat \X Nat /\ <<y, x>>[1] = y /\ <<y, x>>[2] = x
      BY <1>7, <1>9, SMT
    <2>2. y < x
      BY <1>7, <1>9, Zenon
    <2> QED
      BY <2>1, <2>2, Zenon DEF R
  <1> QED
    BY <1>5, <1>8, <1>9, <1>10, Zenon

(* A set of positions that holds all the positions below its members is an *)
(* initial segment.                                                        *)
LEMMA InitialSegment ==
    ASSUME NEW N \in Nat, NEW T, \A i, j \in 1..N : i < j /\ j \in T => i \in T
    PROVE  \E p \in 0..N : \A i \in 1..N : i \in T <=> i <= p
  <1> DEFINE I == {n \in 0..N : \E p \in 0..n : \A i \in 1..n : i \in T <=> i <= p}
  <1>1. 0 \in I
    BY SMT
  <1>2. ASSUME NEW n \in 1..N, n - 1 \in I PROVE n \in I
    <2>1. PICK p \in 0..(n - 1) : \A i \in 1..(n - 1) : i \in T <=> i <= p
      BY <1>2, Zenon
    <2>2. CASE n \in T
      <3>1. \A i \in 1..n : i \in T
        BY <2>2, SMT
      <3> QED
        BY <3>1, SMT
    <2>3. CASE n \notin T
      <3>1. \A i \in 1..n : i \in T <=> i <= p
        BY <2>1, <2>3, SMT
      <3>2. p \in 0..n /\ n \in 0..N
        BY SMT
      <3> QED
        BY <3>1, <3>2, Zenon
    <2> QED
      BY <2>2, <2>3, Zenon
  <1> HIDE DEF I
  <1>3. N \in I
    BY <1>1, <1>2, CountingUp, Zenon
  <1> QED
    BY <1>3, Zenon DEF I

OneToOne(f, m) == \A i, j \in 1..m : f[i] = f[j] => i = j

Image(f, m) == {f[i] : i \in 1..m}

(* The number of elements of a sequence without repetitions.               *)
LEMMA CardinalityOfImage ==
    ASSUME NEW m \in Nat, NEW f, OneToOne(f, m)
    PROVE  IsFiniteSet(Image(f, m)) /\ Cardinality(Image(f, m)) = m
  <1> DEFINE T == Image(f, m)
             g == [i \in 1..m |-> f[i]]
  <1>1. g \in Bijection(1..m, T)
    BY Zenon DEF Bijection, Injection, Surjection, IsInjective, OneToOne, Image
  <1>2. ExistsBijection(1..m, T)
    BY <1>1, Zenon DEF ExistsBijection
  <1>3. IsFiniteSet(1..m) /\ Cardinality(1..m) = m
    BY FS_Interval, SMT
  <1> HIDE DEF T
  <1>4. IsFiniteSet(T) /\ Cardinality(T) = m
    BY <1>2, <1>3, FS_Bijection, Zenon
  <1> QED
    BY <1>4, Zenon DEF T

(* The order shiftByTerminatedGroups relies on.                            *)
Ascending(s) == \A i, j \in DOMAIN s : i < j => s[i] < s[j]

(* The loop of expireOldGroups over an ascending array cuts off a prefix.  *)
LEMMA UnexpiredIsSuffix ==
    ASSUME NEW t \in Seq(Nat), Ascending(t), expiredOffset \in Nat
    PROVE  \E p \in 0..Len(t) :
              /\ unexpired(t) = SubSeq(t, p + 1, Len(t))
              /\ \A i \in 1..Len(t) : t[i] < expiredOffset <=> i <= p
  <1> DEFINE N == Len(t)
             T == {i \in 1..N : t[i] < expiredOffset}
  <1>1. N \in Nat /\ DOMAIN t = 1..N /\ \A i \in 1..N : t[i] \in Nat
    BY LenProperties, SMT
  <1>2. ASSUME NEW i \in 1..N, NEW j \in 1..N, i < j, j \in T PROVE i \in T
    <2>1. t[i] < t[j] /\ t[j] < expiredOffset /\ t[i] \in Nat /\ t[j] \in Nat
      BY <1>1, <1>2, Zenon DEF Ascending
    <2>2. \A a, b, c \in Nat : a < b /\ b < c => a < c
      BY SMT
    <2>3. t[i] < expiredOffset
      BY <2>1, <2>2, Zenon
    <2> QED
      BY <2>3, Zenon
  <1>3. PICK p \in 0..N : \A i \in 1..N : i \in T <=> i <= p
    <2> HIDE DEF N, T
    <2> QED
      BY <1>1, <1>2, InitialSegment, Zenon
  <1>4. \A i \in 1..N : t[i] < expiredOffset <=> i <= p
    BY <1>3, Zenon
  <1> DEFINE V(n) == SubSeq(t, p + 1, n)
             next(kept, n) == IF expiredOffset > t[n] THEN kept ELSE Append(kept, t[n])
             Body(f) == [n \in 0..N |-> IF n = 0 THEN <<>> ELSE next(f[n - 1], n)]
  <1>5. unexpired(t) = (CHOOSE f : f = Body(f))[N]
    BY Zenon DEF unexpired
  <1> HIDE DEF N, T
  <1>6. V(0) = <<>>
    BY <1>1, <1>3, SubSeqEmpty, SMT
  <1>7. ASSUME NEW n \in 1..N PROVE V(n) = next(V(n - 1), n)
    <2>1. expiredOffset > t[n] <=> n <= p
      BY <1>1, <1>4, SMT
    <2>2. CASE n <= p
      <3>1. p + 1 \in Int /\ n \in Int /\ n - 1 \in Int /\ n < p + 1 /\ n - 1 < p + 1
        BY <1>1, <1>3, <2>2, SMT
      <3>2. V(n) = <<>> /\ V(n - 1) = <<>>
        BY <3>1, SubSeqEmpty, Zenon
      <3> QED
        BY <2>1, <2>2, <3>2, Zenon
    <2>3. CASE ~(n <= p)
      <3>1. p + 1 \in 1..Len(t) /\ n \in (p + 1)..Len(t)
        BY <1>1, <1>3, <2>3, SMT DEF N
      <3>2. SubSeq(t, p + 1, n) = SubSeq(t, p + 1, n - 1) \o <<t[n]>>
        BY <3>1, SubSeqRecursiveSecond, Zenon
      <3>3. SubSeq(t, p + 1, n - 1) \in Seq(Nat) /\ t[n] \in Nat
        <4>1. p + 1 \in Int /\ n - 1 \in Int /\ \A i \in (p + 1)..(n - 1) : t[i] \in Nat
          BY <1>1, <1>3, SMT
        <4> QED
          BY <1>1, <4>1, SubSeqProperties, Zenon
      <3>4. Append(V(n - 1), t[n]) = V(n - 1) \o <<t[n]>>
        BY <3>3, AppendIsConcat, Zenon
      <3> QED
        BY <2>1, <2>3, <3>2, <3>4, Zenon
    <2> QED
      BY <2>2, <2>3, Zenon
  <1> HIDE DEF V, next
  <1>8. \E f : f = Body(f)
    <2> DEFINE h == [n \in 0..N |-> V(n)]
    <2>1. ASSUME NEW n \in 0..N PROVE h[n] = Body(h)[n]
      <3>1. CASE n = 0
        BY <1>6, <3>1, Zenon
      <3>2. CASE n /= 0
        <4>1. n \in 1..N /\ n - 1 \in 0..N
          BY <1>1, <3>2, SMT
        <4>2. h[n] = V(n) /\ h[n - 1] = V(n - 1)
          BY <4>1, Zenon
        <4> QED
          BY <1>7, <3>2, <4>1, <4>2, Zenon
      <3> QED
        BY <3>1, <3>2, Zenon
    <2>2. h = Body(h)
      BY <2>1, Zenon
    <2> QED
      BY <2>2, Zenon
  <1>9. PICK f : f = Body(f) /\ unexpired(t) = f[N]
    BY <1>5, <1>8, Zenon
  <1> DEFINE I == {n \in 0..N : f[n] = V(n)}
  <1>10. 0 \in I
    <2>1. 0 \in 0..N
      BY <1>1, SMT
    <2>2. f[0] = <<>>
      BY <1>9, <2>1, Zenon
    <2> QED
      BY <1>6, <2>1, <2>2, Zenon
  <1>11. ASSUME NEW n \in 1..N, n - 1 \in I PROVE n \in I
    <2>1. n \in 0..N /\ n /= 0
      BY <1>1, SMT
    <2>2. f[n] = next(f[n - 1], n)
      BY <1>9, <2>1, Zenon
    <2> QED
      BY <1>7, <1>11, <2>1, <2>2, Zenon
  <1> HIDE DEF I
  <1>12. N \in I
    BY <1>1, <1>10, <1>11, CountingUp, Zenon
  <1>13. unexpired(t) = V(N)
    BY <1>9, <1>12, Zenon DEF I
  <1> QED
    BY <1>3, <1>4, <1>13, Zenon DEF V, N

(* What expireOldGroups leaves of an ascending array: the groups that are  *)
(* not expired, in the same order.                                         *)
LEMMA Unexpired ==
    ASSUME NEW t \in Seq(Nat), Ascending(t), expiredOffset \in Nat
    PROVE  /\ unexpired(t) \in Seq(Nat)
           /\ Ascending(unexpired(t))
           /\ ToSet(unexpired(t)) = {id \in ToSet(t) : id >= expiredOffset}
  <1>1. PICK p \in 0..Len(t) :
              /\ unexpired(t) = SubSeq(t, p + 1, Len(t))
              /\ \A i \in 1..Len(t) : t[i] < expiredOffset <=> i <= p
    BY UnexpiredIsSuffix, Zenon
  <1>2. PICK E \in Nat : E = expiredOffset
    BY Zenon
  <1>0. PICK N \in Nat : N = Len(t)
    BY LenProperties, Zenon
  <1>3. PICK u : u = SubSeq(t, p + 1, N) /\ N = Len(t) /\ u = unexpired(t)
    BY <1>0, <1>1, Zenon
  <1>4. DOMAIN t = 1..N /\ \A i \in 1..N : t[i] \in Nat
    BY <1>3, LenProperties, Zenon
  <1>5. p + 1 \in Int /\ N \in Int /\ p \in 0..N
    BY <1>1, <1>3, SMT
  <1>6. /\ u \in Seq(Nat)
        /\ Len(u) = IF p + 1 <= N THEN N - (p + 1) + 1 ELSE 0
        /\ \A i \in 1..(N - (p + 1) + 1) : u[i] = t[p + 1 + i - 1]
    <2>1. \A i \in (p + 1)..N : t[i] \in Nat
      BY <1>4, <1>5, SMT
    <2> QED
      BY <1>3, <1>5, <2>1, SubSeqProperties, SMT
  <1>7. Len(u) = N - p /\ DOMAIN u = 1..(N - p) /\ \A i \in 1..(N - p) : i + p \in 1..N /\ u[i] = t[i + p]
    <2>1. Len(u) = N - p /\ N - (p + 1) + 1 = N - p
      BY <1>5, <1>6, SMT
    <2>2. \A i \in 1..(N - p) : i + p \in 1..N /\ p + 1 + i - 1 = i + p
      BY <1>5, SMT
    <2>3. DOMAIN u = 1..Len(u)
      BY <1>6, LenProperties, Zenon
    <2> QED
      BY <1>6, <2>1, <2>2, <2>3, Zenon
  <1>8. Ascending(u)
    <2>1. SUFFICES ASSUME NEW i \in 1..(N - p), NEW j \in 1..(N - p), i < j PROVE u[i] < u[j]
      BY <1>7, Zenon DEF Ascending
    <2>2. i + p < j + p
      BY <1>5, <2>1, SMT
    <2>3. t[i + p] < t[j + p]
      BY <1>4, <1>7, <2>2, Zenon DEF Ascending
    <2> QED
      BY <1>7, <2>3, Zenon
  <1>9. ASSUME NEW id PROVE id \in ToSet(u) <=> id \in ToSet(t) /\ id >= E
    <2>1. ASSUME NEW i \in 1..(N - p) PROVE t[i + p] \in ToSet(t) /\ t[i + p] >= E
      <3>1. i + p \in 1..N /\ ~(i + p <= p)
        BY <1>5, SMT
      <3>2. ~(t[i + p] < E) /\ t[i + p] \in Nat
        BY <1>1, <1>2, <1>3, <1>4, <3>1, Zenon
      <3>3. t[i + p] >= E
        BY <3>2, SMT
      <3> QED
        BY <1>4, <3>1, <3>3, Zenon DEF ToSet
    <2>2. ASSUME NEW k \in 1..N, t[k] >= E PROVE t[k] \in ToSet(u)
      <3>1. ~(t[k] < E)
        BY <1>4, <2>2, SMT
      <3>2. ~(k <= p)
        BY <1>1, <1>2, <1>3, <3>1, Zenon
      <3>3. k - p \in 1..(N - p) /\ (k - p) + p = k
        BY <1>5, <3>2, SMT
      <3>4. u[k - p] = t[k]
        BY <1>7, <3>3, Zenon
      <3> QED
        BY <1>7, <3>3, <3>4, Zenon DEF ToSet
    <2> QED
      BY <1>4, <1>7, <2>1, <2>2, Zenon DEF ToSet
  <1> QED
    BY <1>2, <1>3, <1>6, <1>8, <1>9, Zenon

(* The loop of shiftByTerminatedGroups over an ascending array: it moves   *)
(* past its first m entries, those it meets at or below the position it    *)
(* has reached.                                                            *)
LEMMA ShiftedPast ==
    ASSUME NEW t \in Seq(Nat), Ascending(t), NEW index \in Nat
    PROVE  \E m \in 0..Len(t) :
              /\ shiftByTerminatedGroups(index, t) = index + m
              /\ \A i \in 1..Len(t) : t[i] <= index + i - 1 <=> i <= m
  <1> DEFINE N == Len(t)
             T == {i \in 1..N : t[i] <= index + i - 1}
  <1>1. N \in Nat /\ DOMAIN t = 1..N /\ \A i \in 1..N : t[i] \in Nat
    BY LenProperties, SMT
  <1>2. ASSUME NEW i \in 1..N, NEW j \in 1..N, i < j, j \in T PROVE i \in T
    <2> DEFINE J == {n \in 0..N : \A k \in 1..n : k \in T => \A l \in 1..k : l \in T}
    <2>1. 0 \in J
      BY <1>1, SMT
    <2>2. ASSUME NEW n \in 1..N, n - 1 \in J PROVE n \in J
      <3>1. CASE n \in T /\ n /= 1
        <4>1. n - 1 \in 1..N /\ n - 1 \in 1..(n - 1) /\ n - 1 < n
          BY <1>1, <3>1, SMT
        <4>2. t[n - 1] < t[n] /\ t[n] <= index + n - 1 /\ t[n - 1] \in Nat /\ t[n] \in Nat
          BY <1>1, <3>1, <4>1, Zenon DEF Ascending
        <4>3. t[n - 1] <= index + (n - 1) - 1
          <5>1. \A a, b \in Nat : a < b /\ b <= index + n - 1 => a <= index + (n - 1) - 1
            BY <1>1, SMT
          <5> QED
            BY <4>2, <5>1, Zenon
        <4>4. n - 1 \in T
          BY <4>1, <4>3, Zenon
        <4>5. \A l \in 1..(n - 1) : l \in T
          BY <2>2, <4>1, <4>4, Zenon
        <4>6. n \in 0..N /\ \A l \in 1..n : l = n \/ l \in 1..(n - 1)
          BY <1>1, SMT
        <4>7. \A k \in 1..n : \A l \in 1..k : l \in 1..n
          BY <1>1, SMT
        <4> HIDE DEF T
        <4> QED
          BY <3>1, <4>5, <4>6, <4>7, Zenon
      <3>2. CASE n \notin T \/ n = 1
        <4>1. n \in 0..N /\ \A l \in 1..n : l = n \/ l \in 1..(n - 1)
          BY <1>1, SMT
        <4>2. n = 1 => \A l \in 1..n : l = n
          BY SMT
        <4> HIDE DEF T
        <4> QED
          BY <2>2, <3>2, <4>1, <4>2, Zenon
      <3> QED
        BY <3>1, <3>2, Zenon
    <2> HIDE DEF J
    <2>3. N \in J
      BY <1>1, <2>1, <2>2, CountingUp, Zenon
    <2>4. i \in 1..j
      BY <1>1, <1>2, SMT
    <2> QED
      BY <1>2, <2>3, <2>4, Zenon DEF J
  <1>3. PICK m \in 0..N : \A i \in 1..N : i \in T <=> i <= m
    <2> HIDE DEF N, T
    <2> QED
      BY <1>1, <1>2, InitialSegment, Zenon
  <1>4. \A i \in 1..N : t[i] <= index + i - 1 <=> i <= m
    BY <1>3, Zenon
  <1> DEFINE V(n) == IF n <= m THEN index + n ELSE index + m
             next(at, n) == IF t[n] <= at THEN at + 1 ELSE at
             Body(f) == [n \in 0..N |-> IF n = 0 THEN index ELSE next(f[n - 1], n)]
  <1>5. shiftByTerminatedGroups(index, t) = (CHOOSE f : f = Body(f))[N]
    BY Zenon DEF shiftByTerminatedGroups
  <1> HIDE DEF N, T
  <1>6. V(0) = index
    BY <1>1, <1>3, SMT
  <1>7. ASSUME NEW n \in 1..N PROVE V(n) = next(V(n - 1), n)
    <2>1. PICK a \in Nat : a = t[n] /\ (a <= index + n - 1 <=> n <= m)
      BY <1>1, <1>4, Zenon
    <2>2. n <= m => a <= V(n - 1) /\ V(n) = V(n - 1) + 1
      BY <1>1, <1>3, <2>1, SMT
    <2>3. ~(n <= m) => ~(a <= V(n - 1)) /\ V(n) = V(n - 1)
      BY <1>1, <1>3, <2>1, SMT
    <2> QED
      BY <2>1, <2>2, <2>3, Zenon
  <1> HIDE DEF V, next
  <1>8. \E f : f = Body(f)
    <2> DEFINE h == [n \in 0..N |-> V(n)]
    <2>1. ASSUME NEW n \in 0..N PROVE h[n] = Body(h)[n]
      <3>1. CASE n = 0
        BY <1>6, <3>1, Zenon
      <3>2. CASE n /= 0
        <4>1. n \in 1..N /\ n - 1 \in 0..N
          BY <1>1, <3>2, SMT
        <4>2. h[n] = V(n) /\ h[n - 1] = V(n - 1)
          BY <4>1, Zenon
        <4> QED
          BY <1>7, <3>2, <4>1, <4>2, Zenon
      <3> QED
        BY <3>1, <3>2, Zenon
    <2>2. h = Body(h)
      BY <2>1, Zenon
    <2> QED
      BY <2>2, Zenon
  <1>9. PICK f : f = Body(f) /\ shiftByTerminatedGroups(index, t) = f[N]
    BY <1>5, <1>8, Zenon
  <1> DEFINE I == {n \in 0..N : f[n] = V(n)}
  <1>10. 0 \in I
    <2>1. 0 \in 0..N
      BY <1>1, SMT
    <2>2. f[0] = index
      BY <1>9, <2>1, Zenon
    <2> QED
      BY <1>6, <2>1, <2>2, Zenon
  <1>11. ASSUME NEW n \in 1..N, n - 1 \in I PROVE n \in I
    <2>1. n \in 0..N /\ n /= 0
      BY <1>1, SMT
    <2>2. f[n] = next(f[n - 1], n)
      BY <1>9, <2>1, Zenon
    <2> QED
      BY <1>7, <1>11, <2>1, <2>2, Zenon
  <1> HIDE DEF I
  <1>12. N \in I
    BY <1>1, <1>10, <1>11, CountingUp, Zenon
  <1>13. V(N) = index + m
    BY <1>1, <1>3, SMT DEF V
  <1>14. shiftByTerminatedGroups(index, t) = index + m
    BY <1>9, <1>12, <1>13, Zenon DEF I
  <1> QED
    BY <1>3, <1>4, <1>14, Zenon DEF N

(* w is s with e inserted after its first p elements.                      *)
IsInserted(w, s, p, e) ==
    /\ Len(w) = Len(s) + 1
    /\ \A i \in 1..p : w[i] = s[i]
    /\ w[p + 1] = e
    /\ \A i \in (p + 2)..(Len(s) + 1) : w[i] = s[i - 1]

(* What InsertAt computes.                                                 *)
LEMMA Inserted ==
    ASSUME NEW S, NEW s \in Seq(S), NEW e \in S, NEW p \in 0..Len(s),
           NEW w, w = InsertAt(s, p + 1, e)
    PROVE  w \in Seq(S) /\ IsInserted(w, s, p, e)
  <1> DEFINE N == Len(s)
             a == SubSeq(s, 1, p)
             b == SubSeq(s, p + 1, N)
  <1>1. w = (a \o <<e>>) \o b
    <2>1. (p + 1) - 1 = p
      BY SMT
    <2> QED
      BY <2>1, Zenon DEF InsertAt
  <1>2. N \in Nat /\ \A i \in 1..N : s[i] \in S
    BY LenProperties, Zenon
  <1> HIDE DEF N
  <1>3. p \in 0..N
    BY Zenon DEF N
  <1>4. a \in Seq(S) /\ Len(a) = p /\ \A i \in 1..p : a[i] = s[i]
    <2>1. \A i \in 1..p : s[i] \in S
      BY <1>2, <1>3, SMT
    <2>2. 1 \in Int /\ p \in Int
      BY SMT
    <2>3. /\ a \in Seq(S) /\ Len(a) = (IF 1 <= p THEN p - 1 + 1 ELSE 0)
          /\ \A i \in 1..(p - 1 + 1) : a[i] = s[1 + i - 1]
      BY <2>1, <2>2, SubSeqProperties, SMT
    <2>4. p - 1 + 1 = p /\ (IF 1 <= p THEN p - 1 + 1 ELSE 0) = p /\ \A i \in 1..p : 1 + i - 1 = i
      BY <1>3, SMT
    <2> QED
      BY <2>3, <2>4, Zenon
  <1>5. b \in Seq(S) /\ Len(b) = N - p /\ \A i \in 1..(N - p) : b[i] = s[p + i]
    <2>1. \A i \in (p + 1)..N : s[i] \in S
      BY <1>2, <1>3, SMT
    <2>2. p + 1 \in Int /\ N \in Int
      BY <1>2, SMT
    <2>3. /\ b \in Seq(S) /\ Len(b) = (IF p + 1 <= N THEN N - (p + 1) + 1 ELSE 0)
          /\ \A i \in 1..(N - (p + 1) + 1) : b[i] = s[p + 1 + i - 1]
      BY <2>1, <2>2, SubSeqProperties, SMT
    <2>4. /\ N - (p + 1) + 1 = N - p
          /\ (IF p + 1 <= N THEN N - (p + 1) + 1 ELSE 0) = N - p
          /\ \A i \in 1..(N - p) : p + 1 + i - 1 = p + i
      BY <1>2, <1>3, SMT
    <2> QED
      BY <2>3, <2>4, Zenon
  <1>6. <<e>> \in Seq(S) /\ Len(<<e>>) = 1 /\ <<e>>[1] = e
    BY SMT
  <1> HIDE DEF a, b
  <1>7. PICK c : c = a \o <<e>>
    BY Zenon
  <1>8. /\ c \in Seq(S) /\ Len(c) = p + 1
        /\ \A i \in 1..(p + 1) : c[i] = IF i <= p THEN a[i] ELSE <<e>>[i - p]
    BY <1>4, <1>6, <1>7, ConcatProperties, Zenon
  <1>9. /\ w \in Seq(S) /\ Len(w) = (p + 1) + (N - p)
        /\ \A i \in 1..((p + 1) + (N - p)) : w[i] = IF i <= p + 1 THEN c[i] ELSE b[i - (p + 1)]
    <2>1. w = c \o b
      BY <1>1, <1>7, Zenon
    <2>2. b \in Seq(S) /\ c \in Seq(S)
      BY <1>5, <1>8, Zenon
    <2>3. /\ c \o b \in Seq(S) /\ Len(c \o b) = Len(c) + Len(b)
          /\ \A i \in 1..(Len(c) + Len(b)) : (c \o b)[i] = IF i <= Len(c) THEN c[i] ELSE b[i - Len(c)]
      BY <2>2, ConcatProperties, Zenon
    <2>4. Len(c) = p + 1 /\ Len(b) = N - p
      BY <1>5, <1>8, Zenon
    <2> QED
      BY <2>1, <2>3, <2>4, Zenon
  <1>10. (p + 1) + (N - p) = N + 1
    BY <1>2, SMT
  <1>11. ASSUME NEW i \in 1..p PROVE w[i] = s[i]
    <2>1. i \in 1..(N + 1) /\ i \in 1..(p + 1) /\ i <= p + 1 /\ i <= p
      BY <1>2, <1>3, SMT
    <2> QED
      BY <1>4, <1>8, <1>9, <1>10, <2>1, Zenon
  <1>12. w[p + 1] = e
    <2>1. p + 1 \in 1..(N + 1) /\ p + 1 \in 1..(p + 1) /\ p + 1 <= p + 1 /\ ~(p + 1 <= p) /\ (p + 1) - p = 1
      BY <1>2, <1>3, SMT
    <2> QED
      BY <1>6, <1>8, <1>9, <1>10, <2>1, Zenon
  <1>13. ASSUME NEW i \in (p + 2)..(N + 1) PROVE w[i] = s[i - 1]
    <2>1. /\ i \in 1..(N + 1) /\ ~(i <= p + 1)
          /\ i - (p + 1) \in 1..(N - p) /\ p + (i - (p + 1)) = i - 1
      BY <1>2, <1>3, SMT
    <2> QED
      BY <1>5, <1>9, <1>10, <2>1, Zenon
  <1> QED
    BY <1>9, <1>10, <1>11, <1>12, <1>13, Zenon DEF N, IsInserted

(* The loop of terminateGroup keeps the array ascending and loses nothing. *)
LEMMA WithTerminated ==
    ASSUME NEW id \in Nat, activeTerminatedGroups \in Seq(Nat), Ascending(activeTerminatedGroups),
           id \notin ToSet(activeTerminatedGroups)
    PROVE  /\ withTerminated(id) \in Seq(Nat)
           /\ Ascending(withTerminated(id))
           /\ ToSet(withTerminated(id)) = ToSet(activeTerminatedGroups) \cup {id}
  <1>1. PICK t \in Seq(Nat) : t = activeTerminatedGroups
    BY Zenon
  <1>2. PICK N \in Nat : N = Len(t) /\ DOMAIN t = 1..N /\ \A i \in 1..N : t[i] \in Nat
    BY LenProperties, Zenon
  <1>3. Ascending(t) /\ id \notin ToSet(t)
    BY <1>1, Zenon
  <1> DEFINE smaller == {i \in 1..N : t[i] <= id}
  <1>4. ASSUME NEW i \in 1..N, NEW j \in 1..N, i < j, j \in smaller PROVE i \in smaller
    <2>1. t[i] < t[j] /\ t[j] <= id /\ t[i] \in Nat /\ t[j] \in Nat
      BY <1>2, <1>3, <1>4, Zenon DEF Ascending
    <2>2. \A a, b \in Nat : a < b /\ b <= id => a <= id
      BY SMT
    <2> QED
      BY <2>1, <2>2, Zenon
  <1>5. PICK p \in 0..N : \A i \in 1..N : i \in smaller <=> i <= p
    <2> HIDE DEF smaller
    <2> QED
      BY <1>4, InitialSegment, Zenon
  <1>6. \A i \in 1..N : t[i] <= id <=> i <= p
    BY <1>5, Zenon
  <1>7. Max(smaller \cup {0}) = p
    <2>1. \A i : i \in smaller <=> i \in 1..p
      BY <1>2, <1>5, SMT
    <2> HIDE DEF smaller
    <2>2. smaller \cup {0} = 0..p
      BY <2>1, SMT
    <2>3. \A x \in 0..p : (\A y \in 0..p : x >= y) => x = p
      BY SMT
    <2>4. p \in 0..p /\ \A y \in 0..p : p >= y
      BY SMT
    <2>5. Max(0..p) \in 0..p /\ \A y \in 0..p : Max(0..p) >= y
      BY <2>4, Zenon DEF Max
    <2> QED
      BY <2>2, <2>3, <2>5, Zenon
  <1>8. PICK w : w = withTerminated(id) /\ w = InsertAt(t, p + 1, id)
    BY <1>1, <1>2, <1>7, Zenon DEF withTerminated
  <1>9. /\ w \in Seq(Nat) /\ Len(w) = N + 1
        /\ \A i \in 1..p : w[i] = t[i]
        /\ w[p + 1] = id
        /\ \A i \in (p + 2)..(N + 1) : w[i] = t[i - 1]
    <2>1. p \in 0..Len(t) /\ w = InsertAt(t, p + 1, id)
      BY <1>2, <1>5, <1>8, Zenon
    <2>2. w \in Seq(Nat) /\ IsInserted(w, t, p, id)
      BY <2>1, Inserted, Zenon
    <2>3. Len(t) = N
      BY <1>2, Zenon
    <2> QED
      BY <2>2, <2>3, Zenon DEF IsInserted
  <1>10. DOMAIN w = 1..(N + 1)
    BY <1>9, LenProperties, Zenon
  <1>11. /\ \A i \in 1..p : i \in 1..N /\ t[i] < id
         /\ \A i \in (p + 1)..N : i \in 1..N /\ id < t[i]
    <2>1. ASSUME NEW i \in 1..N PROVE t[i] /= id
      BY <1>2, <1>3, Zenon DEF ToSet
    <2>2. \A i \in 1..p : i \in 1..N /\ i <= p
      BY SMT
    <2>3. \A i \in (p + 1)..N : i \in 1..N /\ ~(i <= p)
      BY SMT
    <2>4. \A a \in Nat : (a <= id /\ a /= id => a < id) /\ (~(a <= id) => id < a)
      BY SMT
    <2> QED
      BY <1>2, <1>6, <2>1, <2>2, <2>3, <2>4, Zenon
  <1>12. Ascending(w)
    <2>1. SUFFICES ASSUME NEW i \in 1..(N + 1), NEW j \in 1..(N + 1), i < j PROVE w[i] < w[j]
      BY <1>10, Zenon DEF Ascending
    <2>2. CASE j <= p
      <3>1. i \in 1..p /\ j \in 1..p
        BY <2>1, <2>2, SMT
      <3> QED
        BY <1>2, <1>3, <1>9, <1>11, <2>1, <3>1, Zenon DEF Ascending
    <2>3. CASE j = p + 1
      <3>1. i \in 1..p
        BY <2>1, <2>3, SMT
      <3> QED
        BY <1>9, <1>11, <2>3, <3>1, Zenon
    <2>4. CASE j >= p + 2
      <3>1. /\ j \in (p + 2)..(N + 1) /\ j - 1 \in (p + 1)..N
            /\ i <= p => i \in 1..p /\ i < j - 1
            /\ i >= p + 2 => i \in (p + 2)..(N + 1) /\ i - 1 \in (p + 1)..N /\ i - 1 < j - 1
            /\ i <= p \/ i = p + 1 \/ i >= p + 2
        BY <2>1, <2>4, SMT
      <3>2. w[j] = t[j - 1] /\ j - 1 \in 1..N /\ id < t[j - 1]
        BY <1>9, <1>11, <3>1, Zenon
      <3>3. CASE i <= p
        <4>1. i \in 1..N /\ w[i] = t[i] /\ i < j - 1
          BY <1>9, <1>11, <3>1, <3>3, Zenon
        <4> QED
          BY <1>2, <1>3, <3>2, <4>1, Zenon DEF Ascending
      <3>4. CASE i = p + 1
        BY <1>9, <3>2, <3>4, Zenon
      <3>5. CASE i >= p + 2
        <4>1. i - 1 \in 1..N /\ w[i] = t[i - 1] /\ i - 1 < j - 1
          BY <1>9, <1>11, <3>1, <3>5, Zenon
        <4> QED
          BY <1>2, <1>3, <3>2, <4>1, Zenon DEF Ascending
      <3> QED
        BY <3>1, <3>3, <3>4, <3>5, Zenon
    <2> QED
      BY <2>1, <2>2, <2>3, <2>4, SMT
  <1>13. ASSUME NEW x PROVE x \in ToSet(w) <=> x \in ToSet(t) \/ x = id
    <2>1. /\ \A i \in 1..(N + 1) : i \in 1..p \/ i = p + 1 \/ (i \in (p + 2)..(N + 1) /\ i - 1 \in 1..N)
          /\ p + 1 \in 1..(N + 1)
          /\ \A i \in 1..N : \/ i \in 1..p /\ i \in 1..(N + 1)
                             \/ i + 1 \in (p + 2)..(N + 1) /\ i + 1 \in 1..(N + 1) /\ (i + 1) - 1 = i
      BY <1>2, <1>5, SMT
    <2>2. ASSUME NEW i \in 1..(N + 1) PROVE w[i] = id \/ \E k \in 1..N : w[i] = t[k]
      BY <1>9, <1>11, <2>1, Zenon
    <2>3. ASSUME NEW k \in 1..N PROVE \E i \in 1..(N + 1) : w[i] = t[k]
      <3>1. CASE k \in 1..p /\ k \in 1..(N + 1)
        BY <1>9, <3>1, Zenon
      <3>2. CASE k + 1 \in (p + 2)..(N + 1) /\ k + 1 \in 1..(N + 1) /\ (k + 1) - 1 = k
        <4>1. w[k + 1] = t[k]
          BY <1>9, <3>2, Zenon
        <4> QED
          BY <3>2, <4>1, Zenon
      <3> QED
        BY <2>1, <3>1, <3>2, Zenon
    <2>4. /\ x \in ToSet(w) <=> \E i \in 1..(N + 1) : x = w[i]
          /\ x \in ToSet(t) <=> \E i \in 1..N : x = t[i]
      BY <1>2, <1>10, Zenon DEF ToSet
    <2>5. \E i \in 1..(N + 1) : w[i] = id
      BY <1>9, <2>1, Zenon
    <2> QED
      BY <2>2, <2>3, <2>4, <2>5, Zenon
  <1> QED
    BY <1>1, <1>8, <1>9, <1>12, <1>13, Zenon

(* The numbers of an interval other than m different ones of it.           *)
LEMMA CountingOthers ==
    ASSUME NEW a \in Nat, NEW b \in Nat, a <= b, NEW m \in Nat, NEW f, OneToOne(f, m),
           NEW S, S = a..(b - 1), Image(f, m) \subseteq S
    PROVE  IsFiniteSet(S \ Image(f, m)) /\ Cardinality(S \ Image(f, m)) = b - a - m
  <1>1. PICK T : T = Image(f, m)
    BY Zenon
  <1>2. IsFiniteSet(T) /\ Cardinality(T) = m
    BY <1>1, CardinalityOfImage, Zenon
  <1>3. IsFiniteSet(S) /\ Cardinality(S) = b - a
    <2>1. a \in Int /\ b - 1 \in Int /\ (IF a > b - 1 THEN 0 ELSE (b - 1) - a + 1) = b - a
      BY SMT
    <2>2. IsFiniteSet(S) /\ Cardinality(S) = (IF a > b - 1 THEN 0 ELSE (b - 1) - a + 1)
      BY <2>1, FS_Interval, SMT
    <2> QED
      BY <2>1, <2>2, Zenon
  <1>4. S \cap T = T
    BY <1>1, Zenon
  <1>5. IsFiniteSet(S \ T) /\ Cardinality(S \ T) = Cardinality(S) - Cardinality(S \cap T)
    BY <1>3, FS_Difference, Zenon
  <1>6. Cardinality(S \ T) = Cardinality(S) - Cardinality(T)
    BY <1>4, <1>5, Zenon
  <1> QED
    BY <1>1, <1>2, <1>3, <1>5, <1>6, Zenon

(* No number occurs twice in an ascending sequence.                        *)
LEMMA AscendingIsInjective ==
    ASSUME NEW u \in Seq(Nat), Ascending(u), NEW i \in DOMAIN u, NEW j \in DOMAIN u, u[i] = u[j]
    PROVE  i = j
  <1>1. i \in Nat /\ j \in Nat /\ u[i] \in Nat /\ u[j] \in Nat
    BY LenProperties, SMT
  <1>2. i < j => u[i] < u[j]
    BY Zenon DEF Ascending
  <1>3. j < i => u[j] < u[i]
    BY Zenon DEF Ascending
  <1>4. i = j \/ i < j \/ j < i
    BY <1>1, SMT
  <1>5. \A x \in Nat : ~(x < x)
    BY SMT
  <1> QED
    BY <1>1, <1>2, <1>3, <1>4, <1>5, Zenon

(* A seed smaller than n leads to the member of A that has as many members *)
(* of A below it.                                                          *)
SelectsFrom(A, E, u, n) ==
    /\ n = Cardinality(A)
    /\ \A draw \in 0..(n - 1) :
          LET v == shiftByTerminatedGroups(E + draw, u)
          IN  v \in A /\ Cardinality({i \in A : i < v}) = draw

(* Index arithmetic of the selection: E is the first group that is not     *)
(* expired, L the number of groups, u the terminated groups in between.    *)
LEMMA SelectionArithmetic ==
    ASSUME NEW E \in Nat, NEW L \in Nat, E <= L,
           NEW u \in Seq(Nat), Ascending(u), ToSet(u) \subseteq E..(L - 1),
           NEW A, A = (E..(L - 1)) \ ToSet(u)
    PROVE  \E n \in Nat : n = L - E - Len(u) /\ SelectsFrom(A, E, u, n)
  <1>1. PICK k \in Nat : k = Len(u) /\ DOMAIN u = 1..k /\ \A i \in 1..k : u[i] \in Nat
    BY LenProperties, Zenon
  <1>2. ToSet(u) = Image(u, k) /\ \A i \in 1..k : u[i] \in E..(L - 1)
    BY <1>1, Zenon DEF ToSet, Image
  <1>3. OneToOne(u, k)
    BY <1>1, AscendingIsInjective, Zenon DEF OneToOne
  <1>4. IsFiniteSet(A) /\ Cardinality(A) = L - E - k
    <2>1. PICK S : S = E..(L - 1) /\ Image(u, k) \subseteq S /\ A = S \ Image(u, k)
      BY <1>2, Zenon
    <2>2. IsFiniteSet(S \ Image(u, k)) /\ Cardinality(S \ Image(u, k)) = L - E - k
      BY <1>3, <2>1, CountingOthers, SMT
    <2> QED
      BY <2>1, <2>2, Zenon
  <1>5. Cardinality(A) \in Nat
    BY <1>4, FS_CardinalityType, Zenon
  <1>6. ASSUME NEW b \in Nat, NEW m \in Nat, E <= b, OneToOne(u, m),
               NEW S, S = E..(b - 1), Image(u, m) \subseteq S
        PROVE  Cardinality(S \ Image(u, m)) = b - E - m
    BY <1>6, CountingOthers, SMT
  <1>7. ASSUME NEW draw \in 0..(L - E - k - 1), NEW v, v = shiftByTerminatedGroups(E + draw, u)
        PROVE  v \in A /\ Cardinality({i \in A : i < v}) = draw
    <2>1. PICK index \in Nat : index = E + draw
      BY SMT
    <2>2. PICK m \in 0..k : v = index + m /\ \A i \in 1..k : u[i] <= index + i - 1 <=> i <= m
      BY <1>1, <1>7, <2>1, ShiftedPast, Zenon
    <2>3. m \in Nat /\ v \in Nat /\ v \in E..(L - 1) /\ E <= v /\ v <= L
      BY <1>1, <1>7, <2>1, <2>2, SMT
    <2>4. ASSUME NEW i \in 1..k PROVE u[i] /= v /\ (u[i] < v <=> i <= m)
      <3>1. PICK a \in Nat : a = u[i] /\ (a <= index + i - 1 <=> i <= m)
        BY <1>1, <2>2, Zenon
      <3>2. a /= v /\ (a < v <=> i <= m)
        BY <2>2, <2>3, <3>1, SMT
      <3> QED
        BY <3>1, <3>2, Zenon
    <2>5. v \in A
      BY <1>2, <2>3, <2>4, Zenon DEF Image
    <2>6. \A i \in 1..m : i \in 1..k /\ i <= m
      BY <2>2, SMT
    <2>7. \A i \in 1..m : u[i] \in E..(v - 1)
      <3>1. \A x \in E..(L - 1) : x < v => x \in E..(v - 1)
        BY <2>3, SMT
      <3> QED
        BY <1>2, <2>4, <2>6, <3>1, Zenon
    <2>8. OneToOne(u, m)
      BY <1>3, <2>6, Zenon DEF OneToOne
    <2>9. PICK S : S = E..(v - 1) /\ Image(u, m) \subseteq S
      BY <2>7, Zenon DEF Image
    <2>10. {i \in A : i < v} = S \ Image(u, m)
      <3>1. \A x : x \in S <=> x \in E..(L - 1) /\ x < v
        BY <2>3, <2>9, SMT
      <3>2. \A i \in 1..k : u[i] < v => i \in 1..m
        BY <2>4, SMT
      <3>3. ASSUME NEW x, x < v
            PROVE  x \in Image(u, k) <=> x \in Image(u, m)
        BY <2>6, <3>2, <3>3, Zenon DEF Image
      <3> QED
        BY <1>2, <3>1, <3>3, Zenon
    <2>11. Cardinality(S \ Image(u, m)) = v - E - m
      BY <1>6, <2>3, <2>8, <2>9, Zenon
    <2>12. v - E - m = draw
      BY <2>1, <2>2, <2>3, SMT
    <2> QED
      BY <2>5, <2>10, <2>11, <2>12, Zenon
  <1>8. PICK n \in Nat : n = Cardinality(A) /\ n = L - E - k
    BY <1>4, <1>5, Zenon
  <1>9. SelectsFrom(A, E, u, n)
    BY <1>7, <1>8, Zenon DEF SelectsFrom
  <1> QED
    BY <1>1, <1>8, <1>9, Zenon

(* Min of a set of natural numbers is its least member.                    *)
LEMMA LeastNumber ==
    ASSUME NEW T \in SUBSET Nat, T /= {}
    PROVE  Min(T) \in T /\ \A x \in T : Min(T) <= x
  <1> DEFINE R == {ss \in Nat \X Nat : ss[1] < ss[2]}
  <1>1. R = OpToRel(<, Nat)
    BY Zenon DEF OpToRel
  <1>2. IsWellFoundedOn(R, Nat)
    BY <1>1, NatLessThanWellFounded, Zenon
  <1> HIDE DEF R
  <1>3. PICK x \in T : \A y \in T : ~(<<y, x>> \in R)
    BY <1>2, WFMin, Zenon
  <1>4. ASSUME NEW y \in T PROVE x <= y
    <2>1. x \in Nat /\ y \in Nat
      BY Zenon
    <2>2. y < x => <<y, x>> \in R
      BY <2>1, Zenon DEF R
    <2>3. ~(y < x)
      BY <1>3, <2>2, Zenon
    <2> QED
      BY <2>1, <2>3, SMT
  <1> QED
    BY <1>3, <1>4, Zenon DEF Min

(***************************************************************************)
(* What the calls of the library keep. A key is in the registry once it    *)
(* has a registration block, and at one place only, since its registration *)
(* is refused from then on; the blocks of the registry never decrease, as  *)
(* the expiry takes for granted; and terminated groups are tracked.        *)
(***************************************************************************)
RegistryInv ==
    /\ \A k \in GroupKeys :
          /\ k \in ToSet(groupsRegistry) <=> groupsData[k].registrationBlockNumber /= 0
          /\ groupsData[k].terminated => k \in ToSet(groupsRegistry)
          /\ groupsData[k].registrationBlockNumber <= block
    /\ \A i, j \in DOMAIN groupsRegistry : i < j =>
          /\ groupsRegistry[i] /= groupsRegistry[j]
          /\ groupsData[groupsRegistry[i]].registrationBlockNumber
                <= groupsData[groupsRegistry[j]].registrationBlockNumber

GroupsInv ==
    /\ block \in Nat \ {0}
    /\ GroupsTypeOK
    /\ expiredGroupOffset <= Len(groupsRegistry)
    /\ RegistryInv
    /\ TerminatedGroupsAreTracked

(* The while loop of expireOldGroups stops at the oldest group that is not *)
(* too old, and no younger group is.                                       *)
LEMMA Offset ==
    ASSUME GroupsInv
    PROVE  /\ expiredOffset \in Nat
           /\ expiredGroupOffset <= expiredOffset
           /\ expiredOffset <= Len(groupsRegistry)
           /\ \A id \in GroupIds : id >= expiredGroupOffset =>
                 (groupLifetimeOf(id) >= block <=> id >= expiredOffset)
  <1>1. PICK L \in Nat : L = Len(groupsRegistry) /\ DOMAIN groupsRegistry = 1..L
    <2>1. groupsRegistry \in Seq(GroupKeys)
      BY Zenon DEF GroupsInv, GroupsTypeOK
    <2> QED
      BY <2>1, LenProperties, Zenon
  <1>2. PICK o \in Nat : o = expiredGroupOffset /\ o <= L
    BY <1>1, Zenon DEF GroupsInv, GroupsTypeOK
  <1>3. PICK S : /\ expiredOffset = Min(S)
                 /\ \A i : i \in S <=> i \in o..L /\ (i = L \/ groupLifetimeOf(i) >= block)
    <2>1. PICK S : S = {i \in expiredGroupOffset..Len(groupsRegistry) :
                           i = Len(groupsRegistry) \/ groupLifetimeOf(i) >= block}
      BY Zenon
    <2>2. expiredOffset = Min(S)
      BY <2>1, Zenon DEF expiredOffset
    <2>3. \A i : i \in S <=> i \in o..L /\ (i = L \/ groupLifetimeOf(i) >= block)
      BY <1>1, <1>2, <2>1, Zenon
    <2> QED
      BY <2>2, <2>3, Zenon
  <1>4. S \in SUBSET Nat /\ L \in S /\ S /= {}
    BY <1>2, <1>3, SMT
  <1>5. PICK E : E = expiredOffset /\ E = Min(S)
    BY <1>3, Zenon
  <1>6. E \in S /\ \A x \in S : E <= x
    <2>1. Min(S) \in S /\ \A x \in S : Min(S) <= x
      BY <1>4, LeastNumber, Zenon
    <2> QED
      BY <1>5, <2>1, Zenon
  <1>7. E \in Nat /\ o <= E /\ E <= L
    BY <1>2, <1>3, <1>6, SMT
  <1>8. ASSUME NEW id \in 0..(L - 1), id >= o
        PROVE  groupLifetimeOf(id) >= block <=> id >= E
    <2>1. id \in o..L /\ id /= L /\ id \in Nat
      BY <1>2, <1>8, SMT
    <2>2. CASE id < E
      <3>1. ~(id >= E) /\ ~(E <= id)
        BY <1>7, <2>1, <2>2, SMT
      <3>2. id \notin S
        BY <1>6, <3>1, Zenon
      <3> QED
        BY <1>3, <2>1, <3>1, <3>2, Zenon
    <2>3. CASE id >= E
      <3>1. E /= L /\ id + 1 \in 1..L /\ E + 1 \in 1..L /\ (E = id \/ E + 1 < id + 1)
        BY <1>7, <2>1, <2>3, SMT
      <3>2. groupLifetimeOf(E) >= block
        BY <1>3, <1>6, <3>1, Zenon
      <3>3. PICK a, b \in Nat : /\ a = groupsData[groupsRegistry[E + 1]].registrationBlockNumber
                                /\ b = groupsData[groupsRegistry[id + 1]].registrationBlockNumber
        <4>1. groupsRegistry[E + 1] \in GroupKeys /\ groupsRegistry[id + 1] \in GroupKeys
          BY <1>1, <3>1, ElementOfSeq, Zenon DEF GroupsInv, GroupsTypeOK
        <4>2. \A k \in GroupKeys : groupsData[k].registrationBlockNumber \in Nat
          BY SMT DEF GroupsInv, GroupsTypeOK, Group
        <4> QED
          BY <4>1, <4>2, Zenon
      <3>4. E = id \/ a <= b
        BY <1>1, <3>1, <3>3, Zenon DEF GroupsInv, RegistryInv
      <3>5. groupLifetimeOf(E) = a + groupLifetime /\ groupLifetimeOf(id) = b + groupLifetime
        BY <3>3, Zenon DEF groupLifetimeOf, getGroup
      <3>6. groupLifetime \in Nat /\ block \in Nat
        BY LifetimesAssumption, Zenon DEF GroupsInv, GroupsTypeOK
      <3>7. E = id => a = b
        BY <3>3, Zenon
      <3>8. a <= b /\ a + groupLifetime >= block => b + groupLifetime >= block
        BY <3>3, <3>6, SMT
      <3>9. b + groupLifetime >= block
        BY <3>2, <3>3, <3>4, <3>5, <3>7, <3>8, SMT
      <3> QED
        BY <2>3, <3>5, <3>9, Zenon
    <2> QED
      BY <1>7, <2>1, <2>2, <2>3, SMT
  <1> QED
    BY <1>1, <1>2, <1>5, <1>7, <1>8, Zenon DEF GroupIds

(* The groups that may be selected, as the arithmetic sees them.           *)
LEMMA SelectableGroups ==
    ASSUME GroupsInv
    PROVE  Selectable = (expiredOffset..(Len(groupsRegistry) - 1))
                            \ ToSet(unexpired(activeTerminatedGroups))
  <1>1. PICK L \in Nat : L = Len(groupsRegistry)
    <2>1. groupsRegistry \in Seq(GroupKeys)
      BY Zenon DEF GroupsInv, GroupsTypeOK
    <2> QED
      BY <2>1, LenProperties, Zenon
  <1>2. PICK o, E \in Nat :
           /\ o = expiredGroupOffset /\ E = expiredOffset /\ o <= E /\ E <= L
           /\ \A id \in 0..(L - 1) : id >= o => (groupLifetimeOf(id) >= block <=> id >= E)
    <2>1. expiredGroupOffset \in Nat
      BY Zenon DEF GroupsInv, GroupsTypeOK
    <2> QED
      BY <1>1, <2>1, Offset, Zenon DEF GroupIds
  <1>3. PICK t : t = activeTerminatedGroups /\ t \in Seq(Nat) /\ Ascending(t)
    BY Zenon DEF GroupsInv, GroupsTypeOK, TerminatedGroupsAreTracked, Ascending
  <1>4. PICK U : U = ToSet(unexpired(t)) /\ \A id : id \in U <=> id \in ToSet(t) /\ id >= E
    <2>1. ToSet(unexpired(t)) = {id \in ToSet(t) : id >= expiredOffset}
      BY <1>2, <1>3, Unexpired, Zenon
    <2> QED
      BY <1>2, <2>1, Zenon
  <1>5. /\ \A id \in 0..(L - 1) : isGroupTerminated(id) /\ id >= o => id \in ToSet(t)
        /\ \A id \in ToSet(t) : isGroupTerminated(id)
    BY <1>1, <1>2, <1>3, Zenon DEF GroupsInv, TerminatedGroupsAreTracked, GroupIds
  <1>6. \A id : id \in Selectable
           <=> id \in 0..(L - 1) /\ id >= o /\ groupLifetimeOf(id) >= block /\ ~isGroupTerminated(id)
    BY <1>1, <1>2, Zenon DEF Selectable, GroupIds, isGroupActive
  <1>7. \A id : id \in E..(L - 1) <=> id \in 0..(L - 1) /\ id >= E
    BY <1>2, SMT
  <1>8. \A id \in 0..(L - 1) : id >= E => id >= o
    BY <1>2, SMT
  <1>9. ASSUME NEW id PROVE id \in Selectable <=> id \in E..(L - 1) /\ id \notin U
    <2>1. CASE id \in Selectable
      BY <1>2, <1>4, <1>5, <1>6, <1>7, <2>1, Zenon
    <2>2. CASE id \in E..(L - 1) /\ id \notin U
      <3>1. id \in 0..(L - 1) /\ id >= E /\ id >= o
        BY <1>7, <1>8, <2>2, Zenon
      <3>2. ~isGroupTerminated(id)
        BY <1>4, <1>5, <2>2, <3>1, Zenon
      <3> QED
        BY <1>2, <1>6, <2>2, <3>1, <3>2, Zenon
    <2> QED
      BY <2>1, <2>2, Zenon
  <1> QED
    BY <1>1, <1>2, <1>3, <1>4, <1>9, Zenon

(* What selectGroup does with a seed that is smaller than the number of    *)
(* groups is what it does with any: it takes the remainder first.          *)
LEMMA Remainder ==
    ASSUME NEW n \in Nat, NEW s \in 0..(n - 1)
    PROVE  s % n = s
  BY SMT

(* The selection is right in every state that satisfies the invariant.     *)
LEMMA SelectionIsRight == GroupsInv => SelectionIsUniform
  <1>1. SUFFICES ASSUME GroupsInv PROVE SelectionIsUniform
    BY Zenon
  <1>2. PICK L \in Nat : L = Len(groupsRegistry) /\ (groupsRegistry = <<>> <=> L = 0)
    <2>1. groupsRegistry \in Seq(GroupKeys)
      BY <1>1, Zenon DEF GroupsInv, GroupsTypeOK
    <2>2. Len(groupsRegistry) \in Nat /\ (groupsRegistry = <<>> <=> Len(groupsRegistry) = 0)
      BY <2>1, EmptySeq, LenProperties, SMT
    <2> QED
      BY <2>2, Zenon
  <1>3. PICK E \in Nat : E = expiredOffset /\ E <= L
    BY <1>1, <1>2, Offset, Zenon
  <1>4. PICK t : t = activeTerminatedGroups /\ t \in Seq(Nat) /\ Ascending(t)
    BY <1>1, Zenon DEF GroupsInv, GroupsTypeOK, TerminatedGroupsAreTracked, Ascending
  <1>5. PICK u \in Seq(Nat) :
           u = unexpired(t) /\ Ascending(u) /\ ToSet(u) = {id \in ToSet(t) : id >= expiredOffset}
    BY <1>3, <1>4, Unexpired, Zenon
  <1>6. ToSet(u) \subseteq E..(L - 1)
    <2>1. \A id \in ToSet(t) : id \in 0..(L - 1)
      BY <1>1, <1>2, <1>4, Zenon DEF GroupsInv, TerminatedGroupsAreTracked, GroupIds
    <2>2. \A id \in 0..(L - 1) : id >= E => id \in E..(L - 1)
      BY <1>3, SMT
    <2> QED
      BY <1>3, <1>5, <2>1, <2>2, Zenon
  <1>7. Selectable = (E..(L - 1)) \ ToSet(u)
    BY <1>1, <1>2, <1>3, <1>4, <1>5, SelectableGroups, Zenon
  <1>8. PICK n \in Nat : n = L - E - Len(u) /\ SelectsFrom(Selectable, E, u, n)
    BY <1>3, <1>5, <1>6, <1>7, SelectionArithmetic, Zenon
  <1>9. activeGroups(E, u) = n
    <2>1. activeGroups(E, u) = IF L = 0 THEN 0 ELSE L - E - Len(u)
      BY <1>2, Zenon DEF activeGroups
    <2>2. L = 0 => n = 0
      <3>1. Len(u) \in Nat
        BY LenProperties, Zenon
      <3> QED
        BY <1>3, <1>8, <3>1, SMT
    <2> QED
      BY <1>8, <2>1, <2>2, Zenon
  <1>10. canSelectGroup(activeTerminatedGroups) <=> n > 0
    BY <1>3, <1>4, <1>5, <1>9, Zenon DEF canSelectGroup
  <1>11. ASSUME NEW draw \in 0..(n - 1)
         PROVE  selectedGroup(draw, activeTerminatedGroups) = shiftByTerminatedGroups(E + draw, u)
    <2>1. draw % n = draw
      BY Remainder, Zenon
    <2> QED
      BY <1>3, <1>4, <1>5, <1>9, <2>1, Zenon DEF selectedGroup
  <1>12. TerminatedGroupsAreTracked
    BY <1>1, Zenon DEF GroupsInv
  <1>13. n = Cardinality(Selectable)
    BY <1>8, Zenon DEF SelectsFrom
  <1>14. ASSUME NEW draw \in 0..(n - 1), NEW id, id = selectedGroup(draw, activeTerminatedGroups)
         PROVE  id \in Selectable /\ Cardinality({i \in Selectable : i < id}) = draw
    BY <1>8, <1>11, <1>14, Zenon DEF SelectsFrom
  <1> QED
    BY <1>10, <1>12, <1>13, <1>14, Zenon DEF SelectionIsUniform

(* The remainder selectGroup takes of a seed.                              *)
LEMMA RemainderRange ==
    ASSUME NEW n \in Nat, n > 0, NEW s \in Nat
    PROVE  s % n \in 0..(n - 1)
  BY SMT

(* Whatever the seed and the ascending array t of groups to avoid,         *)
(* selectGroup returns a group that is not too old and not in t.           *)
LEMMA Choice ==
    ASSUME GroupsInv, NEW t \in Seq(Nat), Ascending(t), ToSet(t) \subseteq GroupIds,
           canSelectGroup(t), NEW draw \in Nat
    PROVE  /\ selectedGroup(draw, t) \in GroupIds
           /\ selectedGroup(draw, t) >= expiredOffset
           /\ selectedGroup(draw, t) \notin ToSet(t)
  <1>1. PICK L \in Nat : L = Len(groupsRegistry) /\ (groupsRegistry = <<>> <=> L = 0)
    <2>1. groupsRegistry \in Seq(GroupKeys)
      BY Zenon DEF GroupsInv, GroupsTypeOK
    <2>2. Len(groupsRegistry) \in Nat /\ (groupsRegistry = <<>> <=> Len(groupsRegistry) = 0)
      BY <2>1, EmptySeq, LenProperties, SMT
    <2> QED
      BY <2>2, Zenon
  <1>2. PICK E \in Nat : E = expiredOffset /\ E <= L
    BY <1>1, Offset, Zenon
  <1>3. PICK u \in Seq(Nat) :
           u = unexpired(t) /\ Ascending(u) /\ ToSet(u) = {id \in ToSet(t) : id >= expiredOffset}
    BY <1>2, Unexpired, Zenon
  <1>4. PICK A : A = (E..(L - 1)) \ ToSet(u)
    BY Zenon
  <1>5. ToSet(u) \subseteq E..(L - 1)
    <2>1. \A id \in ToSet(t) : id \in 0..(L - 1)
      BY <1>1, Zenon DEF GroupIds
    <2>2. \A id \in 0..(L - 1) : id >= E => id \in E..(L - 1)
      BY <1>2, SMT
    <2> QED
      BY <1>2, <1>3, <2>1, <2>2, Zenon
  <1>6. PICK n \in Nat : n = L - E - Len(u) /\ SelectsFrom(A, E, u, n)
    BY <1>2, <1>3, <1>4, <1>5, SelectionArithmetic, Zenon
  <1>7. activeGroups(E, u) = n /\ n > 0
    <2>1. activeGroups(E, u) = IF L = 0 THEN 0 ELSE L - E - Len(u)
      BY <1>1, Zenon DEF activeGroups
    <2>2. activeGroups(E, u) > 0
      BY <1>2, <1>3, Zenon DEF canSelectGroup
    <2>3. ~(0 > 0)
      BY SMT
    <2> QED
      BY <1>6, <2>1, <2>2, <2>3, Zenon
  <1>8. PICK s \in 0..(n - 1) : s = draw % n
    BY <1>7, RemainderRange, Zenon
  <1>9. PICK v : v = shiftByTerminatedGroups(E + s, u) /\ v \in A
    BY <1>6, <1>8, Zenon DEF SelectsFrom
  <1>10. selectedGroup(draw, t) = v
    BY <1>2, <1>3, <1>7, <1>8, <1>9, Zenon DEF selectedGroup
  <1>11. v \in 0..(L - 1) /\ v >= E
    <2>1. \A x \in E..(L - 1) : x \in 0..(L - 1) /\ x >= E
      BY <1>2, SMT
    <2> QED
      BY <1>4, <1>9, <2>1, Zenon
  <1>12. v \notin ToSet(t)
    BY <1>2, <1>3, <1>4, <1>9, <1>11, Zenon
  <1> QED
    BY <1>1, <1>2, <1>10, <1>11, <1>12, Zenon DEF GroupIds

(***************************************************************************)
(* The steps of the library keep the invariant.                            *)
(***************************************************************************)
LEMMA InvParts ==
    ASSUME GroupsInv
    PROVE  /\ block \in Nat \ {0} /\ block \in Nat
           /\ groupsData \in [GroupKeys -> Group]
           /\ groupsRegistry \in Seq(GroupKeys)
           /\ activeTerminatedGroups \in Seq(Nat)
           /\ Ascending(activeTerminatedGroups)
           /\ expiredGroupOffset \in Nat
           /\ groupLifetime \in Lifetimes
           /\ expiredGroupOffset <= Len(groupsRegistry)
           /\ RegistryInv
           /\ TerminatedGroupsAreTracked
  BY Zenon DEF GroupsInv, GroupsTypeOK, TerminatedGroupsAreTracked, Ascending

(* The ids of groups are places of the registry.                           *)
LEMMA IdsArePlaces ==
    ASSUME groupsRegistry \in Seq(GroupKeys)
    PROVE  /\ \A id : id \in GroupIds <=> id \in Nat /\ id + 1 \in DOMAIN groupsRegistry
           /\ \A id \in GroupIds : groupsRegistry[id + 1] \in GroupKeys
  <1>1. PICK L \in Nat : L = Len(groupsRegistry) /\ DOMAIN groupsRegistry = 1..L
    BY LenProperties, Zenon
  <1>2. \A id : id \in 0..(L - 1) <=> id \in Nat /\ id + 1 \in 1..L
    BY SMT
  <1>3. \A i \in 1..L : groupsRegistry[i] \in GroupKeys
    BY <1>1, ElementOfSeq, Zenon
  <1> QED
    BY <1>1, <1>2, <1>3, Zenon DEF GroupIds

(* A call that registers and terminates no group, and moves the offset and *)
(* the array of terminated groups together.                                *)
LEMMA RetrackedSame ==
    ASSUME GroupsInv, UNCHANGED <<groupsData, groupsRegistry, block>>,
           groupLifetime' \in Lifetimes,
           expiredGroupOffset' \in Nat, expiredGroupOffset' <= Len(groupsRegistry),
           activeTerminatedGroups' \in Seq(Nat), Ascending(activeTerminatedGroups'),
           expiredGroupOffset <= expiredGroupOffset',
           \A id : id \in ToSet(activeTerminatedGroups')
                      => id \in ToSet(activeTerminatedGroups),
           \A id \in ToSet(activeTerminatedGroups) :
               id >= expiredGroupOffset' => id \in ToSet(activeTerminatedGroups')
    PROVE  GroupsInv'
  <1>1. /\ block' \in Nat \ {0} /\ GroupsTypeOK' /\ expiredGroupOffset' <= Len(groupsRegistry')
    BY InvParts, Zenon DEF GroupsTypeOK
  <1>2. RegistryInv'
    BY InvParts, Zenon DEF RegistryInv
  <1>3. \A id : (id \in GroupIds)' <=> id \in GroupIds
    BY Zenon DEF GroupIds
  <1>4. \A id : isGroupTerminated(id)' = isGroupTerminated(id)
    BY Zenon DEF isGroupTerminated, getGroup
  <1>5. ASSUME NEW id \in GroupIds, id >= expiredGroupOffset' PROVE id >= expiredGroupOffset
    <2>1. id \in Nat /\ expiredGroupOffset \in Nat
      BY InvParts, IdsArePlaces, Zenon
    <2> QED
      BY <1>5, <2>1, SMT
  <1>6. TerminatedGroupsAreTracked'
    <2>1. \A id \in GroupIds : isGroupTerminated(id) /\ id >= expiredGroupOffset'
              => id \in ToSet(activeTerminatedGroups')
      BY <1>5, InvParts, Zenon DEF TerminatedGroupsAreTracked
    <2>2. \A id \in ToSet(activeTerminatedGroups') : id \in GroupIds /\ isGroupTerminated(id)
      BY InvParts, Zenon DEF TerminatedGroupsAreTracked
    <2> QED
      BY <1>3, <1>4, <2>1, <2>2, Zenon DEF TerminatedGroupsAreTracked, Ascending
  <1> QED
    BY <1>1, <1>2, <1>6, Zenon DEF GroupsInv

(* expireOldGroups drops from the array the terminated groups that expire, *)
(* and leaves an ascending array of unexpired ones.                        *)
LEMMA ExpireStep ==
    ASSUME GroupsInv, expireOldGroups(activeTerminatedGroups),
           UNCHANGED <<groupsData, groupsRegistry, block, groupLifetime>>
    PROVE  GroupsInv'
  <1>1. /\ expiredOffset \in Nat /\ expiredGroupOffset <= expiredOffset
        /\ expiredOffset <= Len(groupsRegistry)
    BY Offset, Zenon
  <1>2. PICK t : t = activeTerminatedGroups /\ t \in Seq(Nat) /\ Ascending(t)
    BY InvParts, Zenon
  <1>3. /\ unexpired(t) \in Seq(Nat) /\ Ascending(unexpired(t))
        /\ ToSet(unexpired(t)) = {id \in ToSet(t) : id >= expiredOffset}
    BY <1>1, <1>2, Unexpired, Zenon
  <1>4. expiredGroupOffset' = expiredOffset /\ activeTerminatedGroups' = unexpired(t)
    BY <1>2, Zenon DEF expireOldGroups
  <1>5. groupLifetime' \in Lifetimes
    BY InvParts, Zenon
  <1> QED
    BY <1>1, <1>2, <1>3, <1>4, <1>5, RetrackedSame, Zenon

(* A termination, with or without the expiry of old groups.                *)
LEMMA TerminateStep ==
    ASSUME GroupsInv, NEW id \in GroupIds, markTerminated(id),
           \/ UNCHANGED expiredGroupOffset /\ activeTerminatedGroups' = withTerminated(id)
           \/ expireOldGroups(withTerminated(id)),
           UNCHANGED <<block, groupsRegistry, groupLifetime>>
    PROVE  GroupsInv'
  <1>1. PICK k \in GroupKeys : k = groupsRegistry[id + 1]
    BY InvParts, IdsArePlaces, Zenon
  <1>2. /\ groupsData' \in [GroupKeys -> Group]
        /\ \A j \in GroupKeys :
              /\ groupsData'[j].registrationBlockNumber = groupsData[j].registrationBlockNumber
              /\ groupsData'[j].terminated <=> groupsData[j].terminated \/ j = k
    <2>1. groupsData' = [groupsData EXCEPT ![k].terminated = TRUE] /\ groupsData \in [GroupKeys -> Group]
      BY <1>1, InvParts, Zenon DEF markTerminated
    <2>2. /\ groupsData' \in [GroupKeys -> Group]
          /\ \A j \in GroupKeys :
                groupsData'[j].registrationBlockNumber = groupsData[j].registrationBlockNumber
      BY <2>1, Zenon DEF Group
    <2>3. groupsData'[k].terminated = TRUE /\ \A j \in GroupKeys : j /= k => groupsData'[j] = groupsData[j]
      BY <2>1, Zenon DEF Group
    <2> QED
      BY <2>2, <2>3, Zenon
  <1>3. id \in Nat /\ id + 1 \in DOMAIN groupsRegistry
    BY InvParts, IdsArePlaces, Zenon
  <1>4. \A x : (x \in GroupIds)' <=> x \in GroupIds
    BY Zenon DEF GroupIds
  <1>5. ASSUME NEW x \in GroupIds PROVE isGroupTerminated(x)' <=> isGroupTerminated(x) \/ x = id
    <2>1. x \in Nat /\ x + 1 \in DOMAIN groupsRegistry /\ groupsRegistry[x + 1] \in GroupKeys
      BY InvParts, IdsArePlaces, Zenon
    <2>2. x = id \/ x + 1 < id + 1 \/ id + 1 < x + 1
      BY <1>3, <2>1, SMT
    <2>3. x = id \/ groupsRegistry[x + 1] /= k
      BY <1>1, <1>3, <2>1, <2>2, InvParts, Zenon DEF RegistryInv
    <2>4. /\ isGroupTerminated(x) <=> groupsData[groupsRegistry[x + 1]].terminated
          /\ isGroupTerminated(x)' <=> groupsData'[groupsRegistry[x + 1]].terminated
      BY Zenon DEF isGroupTerminated, getGroup
    <2> QED
      BY <1>1, <1>2, <2>1, <2>3, <2>4, Zenon
  <1>6. RegistryInv'
    <2>1. k \in ToSet(groupsRegistry)
      BY <1>1, <1>3, Zenon DEF ToSet
    <2>2. \A j \in GroupKeys :
            /\ j \in ToSet(groupsRegistry) <=> groupsData'[j].registrationBlockNumber /= 0
            /\ groupsData'[j].terminated => j \in ToSet(groupsRegistry)
            /\ groupsData'[j].registrationBlockNumber <= block
      BY <1>2, <2>1, InvParts, Zenon DEF RegistryInv
    <2>3. \A i \in DOMAIN groupsRegistry : groupsRegistry[i] \in GroupKeys
      BY InvParts, LenProperties, Zenon
    <2>4. \A i, j \in DOMAIN groupsRegistry : i < j =>
            /\ groupsRegistry[i] /= groupsRegistry[j]
            /\ groupsData'[groupsRegistry[i]].registrationBlockNumber
                  <= groupsData'[groupsRegistry[j]].registrationBlockNumber
      BY <1>2, <2>3, InvParts, Zenon DEF RegistryInv
    <2> QED
      BY <2>2, <2>4, Zenon DEF RegistryInv
  <1>7. PICK w : /\ w = withTerminated(id) /\ w \in Seq(Nat) /\ Ascending(w)
                 /\ \A x : x \in ToSet(w) <=> x \in ToSet(activeTerminatedGroups) \/ x = id
    <2>1. ~isGroupTerminated(id)
      BY Zenon DEF markTerminated
    <2>2. id \notin ToSet(activeTerminatedGroups)
      BY <2>1, InvParts, Zenon DEF TerminatedGroupsAreTracked
    <2> QED
      BY <1>3, <2>2, InvParts, WithTerminated, Zenon
  <1>8. /\ expiredGroupOffset' \in Nat
        /\ expiredGroupOffset <= expiredGroupOffset'
        /\ expiredGroupOffset' <= Len(groupsRegistry)
        /\ activeTerminatedGroups' \in Seq(Nat)
        /\ Ascending(activeTerminatedGroups')
        /\ \A x : x \in ToSet(activeTerminatedGroups') => x \in ToSet(w)
        /\ \A x \in ToSet(w) : x >= expiredGroupOffset' => x \in ToSet(activeTerminatedGroups')
    <2>1. CASE UNCHANGED expiredGroupOffset /\ activeTerminatedGroups' = withTerminated(id)
      <3>1. expiredGroupOffset \in Nat /\ expiredGroupOffset <= Len(groupsRegistry)
        BY InvParts, Zenon
      <3>2. expiredGroupOffset <= expiredGroupOffset
        BY <3>1, SMT
      <3> QED
        BY <1>7, <2>1, <3>1, <3>2, Zenon
    <2>2. CASE expireOldGroups(withTerminated(id))
      <3>1. /\ expiredOffset \in Nat /\ expiredGroupOffset <= expiredOffset
            /\ expiredOffset <= Len(groupsRegistry)
        BY Offset, Zenon
      <3>2. expiredGroupOffset' = expiredOffset /\ activeTerminatedGroups' = unexpired(w)
        BY <1>7, <2>2, Zenon DEF expireOldGroups
      <3>3. /\ unexpired(w) \in Seq(Nat) /\ Ascending(unexpired(w))
            /\ ToSet(unexpired(w)) = {x \in ToSet(w) : x >= expiredOffset}
        BY <1>7, <3>1, Unexpired, Zenon
      <3> QED
        BY <3>1, <3>2, <3>3, Zenon
    <2> QED
      BY <2>1, <2>2, Zenon
  <1>9. TerminatedGroupsAreTracked'
    <2>1. ASSUME NEW x \in GroupIds, isGroupTerminated(x)', x >= expiredGroupOffset'
          PROVE  x \in ToSet(activeTerminatedGroups')
      <3>1. x \in Nat /\ expiredGroupOffset \in Nat
        BY InvParts, IdsArePlaces, Zenon
      <3>2. x >= expiredGroupOffset
        BY <1>8, <2>1, <3>1, SMT
      <3>3. x \in ToSet(w)
        BY <1>5, <1>7, <2>1, <3>2, InvParts, Zenon DEF TerminatedGroupsAreTracked
      <3> QED
        BY <1>8, <2>1, <3>3, Zenon
    <2>2. ASSUME NEW x \in ToSet(activeTerminatedGroups') PROVE x \in GroupIds /\ isGroupTerminated(x)'
      <3>1. x \in ToSet(w)
        BY <1>8, Zenon
      <3> QED
        BY <1>5, <1>7, <3>1, InvParts, Zenon DEF TerminatedGroupsAreTracked
    <2> QED
      BY <1>4, <1>8, <2>1, <2>2, Zenon DEF TerminatedGroupsAreTracked, Ascending
  <1>10. GroupsTypeOK' /\ block' \in Nat \ {0} /\ expiredGroupOffset' <= Len(groupsRegistry')
    BY <1>2, <1>8, InvParts, Zenon DEF GroupsTypeOK
  <1> QED
    BY <1>6, <1>9, <1>10, Zenon DEF GroupsInv

(* addGroup registers one group and leaves the others alone.               *)
LEMMA AddGroupData ==
    ASSUME block \in Nat, groupsData \in [GroupKeys -> Group],
           NEW k \in GroupKeys, NEW m \in Members, addGroup(k, m)
    PROVE  /\ groupsData' \in [GroupKeys -> Group]
           /\ groupsData'[k].registrationBlockNumber = block
           /\ groupsData'[k].members = m
           /\ groupsData'[k].terminated = groupsData[k].terminated
           /\ \A j \in GroupKeys : j /= k => groupsData'[j] = groupsData[j]
  <1> DEFINE new == [registrationBlockNumber |-> block, members |-> m,
                     terminated |-> groupsData[k].terminated]
             once == [groupsData EXCEPT ![k].members = m]
  <1>1. groupsData[k] \in Group /\ block \in Nat /\ DOMAIN groupsData = GroupKeys
    BY Zenon
  <1>2. new \in Group
    BY <1>1, Zenon DEF Group
  <1>3. /\ DOMAIN once = GroupKeys /\ \A j \in GroupKeys : j # k => once[j] = groupsData[j]
        /\ once[k] = [registrationBlockNumber |-> groupsData[k].registrationBlockNumber, members |-> m,
                      terminated |-> groupsData[k].terminated]
    BY <1>1, Zenon DEF Group
  <1>4. groupsData' = [once EXCEPT ![k].registrationBlockNumber = block]
    BY Zenon DEF addGroup
  <1> HIDE DEF once
  <1>5. /\ DOMAIN groupsData' = GroupKeys /\ \A j \in GroupKeys : j # k => groupsData'[j] = groupsData[j]
        /\ groupsData'[k] = new
    BY <1>3, <1>4, SMT
  <1>6. groupsData' = [j \in GroupKeys |-> groupsData'[j]]
    BY <1>4, <1>5, Zenon
  <1>7. groupsData' \in [GroupKeys -> Group]
    BY <1>2, <1>5, <1>6, Zenon
  <1>8. new.registrationBlockNumber = block /\ new.members = m /\ new.terminated = groupsData[k].terminated
    BY SMT
  <1> HIDE DEF new
  <1> QED
    BY <1>5, <1>7, <1>8, Zenon

(* A registration. The new group is the youngest and is not terminated.    *)
LEMMA ActivateStep ==
    ASSUME GroupsInv, NEW k \in GroupKeys, NEW m \in Members, activateGroup(k, m)
    PROVE  GroupsInv'
  <1>1. PICK L \in Nat : L = Len(groupsRegistry) /\ DOMAIN groupsRegistry = 1..L
    BY InvParts, LenProperties, Zenon
  <1>2. /\ groupsRegistry' \in Seq(GroupKeys) /\ Len(groupsRegistry') = L + 1
        /\ \A i \in 1..L : groupsRegistry'[i] = groupsRegistry[i]
        /\ groupsRegistry'[L + 1] = k
    <2>1. groupsRegistry \in Seq(GroupKeys) /\ groupsRegistry' = Append(groupsRegistry, k)
      BY InvParts, Zenon DEF activateGroup, addGroup
    <2>2. /\ groupsRegistry' \in Seq(GroupKeys) /\ Len(groupsRegistry') = Len(groupsRegistry) + 1
          /\ \A i \in 1..Len(groupsRegistry) : groupsRegistry'[i] = groupsRegistry[i]
          /\ groupsRegistry'[Len(groupsRegistry) + 1] = k
      BY <2>1, AppendProperties, SMT
    <2> QED
      BY <1>1, <2>2, Zenon
  <1>3. DOMAIN groupsRegistry' = 1..(L + 1)
    BY <1>2, LenProperties, Zenon
  <1>4. /\ groupsData' \in [GroupKeys -> Group]
        /\ groupsData'[k].registrationBlockNumber = block
        /\ groupsData'[k].terminated = groupsData[k].terminated
        /\ \A j \in GroupKeys : j /= k => groupsData'[j] = groupsData[j]
    BY InvParts, AddGroupData, Zenon DEF activateGroup
  <1>5. /\ groupsData[k].registrationBlockNumber = 0
        /\ k \notin ToSet(groupsRegistry) /\ ~groupsData[k].terminated
    <2>1. groupsData[k].registrationBlockNumber = 0
      BY Zenon DEF activateGroup, validatePublicKey
    <2> QED
      BY <2>1, InvParts, Zenon DEF RegistryInv
  <1>6. \A i \in 1..(L + 1) : i \in 1..L \/ i = L + 1
    BY SMT
  <1>7. L + 1 \in 1..(L + 1) /\ \A i \in 1..L : i \in 1..(L + 1)
    BY SMT
  <1>8. \A i \in 1..L : groupsRegistry[i] \in GroupKeys /\ groupsRegistry[i] /= k
    <2>1. \A i \in 1..L : groupsRegistry[i] \in GroupKeys
      <3>1. groupsRegistry \in Seq(GroupKeys)
        BY InvParts, Zenon
      <3> QED
        BY <1>1, <3>1, ElementOfSeq, Zenon
    <2>2. \A i \in 1..L : groupsRegistry[i] /= k
      BY <1>1, <1>5, Zenon DEF ToSet
    <2> QED
      BY <2>1, <2>2, Zenon
  <1>9. \A j : j \in ToSet(groupsRegistry') <=> j \in ToSet(groupsRegistry) \/ j = k
    <2>1. \A j : j \in ToSet(groupsRegistry') <=> \E i \in 1..(L + 1) : j = groupsRegistry'[i]
      BY <1>3, Zenon DEF ToSet
    <2>2. \A j : j \in ToSet(groupsRegistry) <=> \E i \in 1..L : j = groupsRegistry[i]
      BY <1>1, Zenon DEF ToSet
    <2>3. ASSUME NEW j \in ToSet(groupsRegistry') PROVE j \in ToSet(groupsRegistry) \/ j = k
      <3>1. PICK i \in 1..(L + 1) : j = groupsRegistry'[i]
        BY <2>1, Zenon
      <3> QED
        BY <1>2, <1>6, <2>2, <3>1, Zenon
    <2>4. ASSUME NEW j \in ToSet(groupsRegistry) PROVE j \in ToSet(groupsRegistry')
      <3>1. PICK i \in 1..L : j = groupsRegistry[i]
        BY <2>2, Zenon
      <3> QED
        BY <1>2, <1>7, <2>1, <3>1, Zenon
    <2>5. k \in ToSet(groupsRegistry')
      BY <1>2, <1>7, <2>1, Zenon
    <2> QED
      BY <2>3, <2>4, <2>5, Zenon
  <1>10. RegistryInv'
    <2>1. block' = block /\ block \in Nat \ {0}
      BY InvParts, Zenon DEF activateGroup
    <2>2. block /= 0 /\ block <= block
      BY <2>1, SMT
    <2>3. \A j \in GroupKeys :
            /\ j \in ToSet(groupsRegistry') <=> groupsData'[j].registrationBlockNumber /= 0
            /\ groupsData'[j].terminated => j \in ToSet(groupsRegistry')
            /\ groupsData'[j].registrationBlockNumber <= block
      BY <1>4, <1>5, <1>9, <2>2, InvParts, Zenon DEF RegistryInv
    <2>4. ASSUME NEW i \in 1..(L + 1), NEW j \in 1..(L + 1), i < j
          PROVE  /\ groupsRegistry'[i] /= groupsRegistry'[j]
                 /\ groupsData'[groupsRegistry'[i]].registrationBlockNumber
                       <= groupsData'[groupsRegistry'[j]].registrationBlockNumber
      <3>1. i \in 1..L
        BY <2>4, SMT
      <3>2. groupsRegistry'[i] = groupsRegistry[i] /\ groupsData'[groupsRegistry[i]] = groupsData[groupsRegistry[i]]
        BY <1>2, <1>4, <1>8, <3>1, Zenon
      <3>3. CASE j \in 1..L
        <4>1. groupsRegistry'[j] = groupsRegistry[j] /\ groupsData'[groupsRegistry[j]] = groupsData[groupsRegistry[j]]
          BY <1>2, <1>4, <1>8, <3>3, Zenon
        <4> QED
          BY <1>1, <2>4, <3>1, <3>2, <3>3, <4>1, InvParts, Zenon DEF RegistryInv
      <3>4. CASE j = L + 1
        <4>1. groupsRegistry'[j] = k /\ groupsData'[k].registrationBlockNumber = block
          BY <1>2, <1>4, <3>4, Zenon
        <4>2. groupsData[groupsRegistry[i]].registrationBlockNumber <= block
          BY <1>8, <3>1, InvParts, Zenon DEF RegistryInv
        <4> QED
          BY <1>8, <3>1, <3>2, <4>1, <4>2, Zenon
      <3> QED
        BY <1>6, <3>3, <3>4, Zenon
    <2> QED
      BY <1>3, <2>1, <2>3, <2>4, Zenon DEF RegistryInv
  <1>11. UNCHANGED <<block, activeTerminatedGroups, expiredGroupOffset, groupLifetime>>
    BY Zenon DEF activateGroup, addGroup
  <1>12. GroupIds' = 0..L
    <2>1. Len(groupsRegistry') - 1 = L
      BY <1>2, SMT
    <2> QED
      BY <2>1, Zenon DEF GroupIds
  <1>13. ASSUME NEW x \in GroupIds PROVE (x \in GroupIds)' /\ isGroupTerminated(x)' = isGroupTerminated(x)
    <2>1. x \in Nat /\ x + 1 \in 1..L /\ groupsRegistry[x + 1] \in GroupKeys /\ groupsRegistry[x + 1] /= k
      BY <1>1, <1>8, InvParts, IdsArePlaces, Zenon
    <2>2. x \in 0..L
      BY <2>1, SMT
    <2>3. (x \in GroupIds)' <=> x \in 0..L
      BY <1>12, Zenon
    <2>4. groupsData'[groupsRegistry'[x + 1]] = groupsData[groupsRegistry[x + 1]]
      BY <1>2, <1>4, <2>1, Zenon
    <2> QED
      BY <2>2, <2>3, <2>4, Zenon DEF isGroupTerminated, getGroup
  <1>14. \A x : (x \in GroupIds)' => x \in GroupIds \/ ~isGroupTerminated(x)'
    <2>1. \A x : (x \in GroupIds)' <=> x \in 0..L
      BY <1>12, Zenon
    <2>2. \A x : x \in 0..L => x \in 0..(L - 1) \/ x = L
      BY SMT
    <2>3. ~isGroupTerminated(L)'
      BY <1>2, <1>4, <1>5, Zenon DEF isGroupTerminated, getGroup
    <2> QED
      BY <1>1, <2>1, <2>2, <2>3, Zenon DEF GroupIds
  <1>15. TerminatedGroupsAreTracked'
    <2>1. ASSUME NEW x, (x \in GroupIds)', isGroupTerminated(x)', x >= expiredGroupOffset
          PROVE  x \in ToSet(activeTerminatedGroups)
      BY <1>13, <1>14, <2>1, InvParts, Zenon DEF TerminatedGroupsAreTracked
    <2>2. ASSUME NEW x \in ToSet(activeTerminatedGroups) PROVE (x \in GroupIds)' /\ isGroupTerminated(x)'
      BY <1>13, InvParts, Zenon DEF TerminatedGroupsAreTracked
    <2> QED
      BY <1>11, <2>1, <2>2, InvParts, Zenon DEF TerminatedGroupsAreTracked, Ascending
  <1>16. expiredGroupOffset' <= Len(groupsRegistry')
    <2>1. expiredGroupOffset \in Nat /\ expiredGroupOffset <= L
      BY <1>1, InvParts, Zenon
    <2>2. expiredGroupOffset <= L + 1
      BY <2>1, SMT
    <2> QED
      BY <1>2, <1>11, <2>2, Zenon
  <1>17. GroupsTypeOK' /\ block' \in Nat \ {0}
    BY <1>2, <1>4, <1>11, InvParts, Zenon DEF GroupsTypeOK
  <1> QED
    BY <1>10, <1>15, <1>16, <1>17, Zenon DEF GroupsInv

(* Every call keeps the invariant.                                         *)
LEMMA GroupsStep ==
    ASSUME GroupsInv, [GroupsNext]_<<block, groupsVars>>
    PROVE  GroupsInv'
  <1>1. ASSUME UNCHANGED groupsVars, block' \in Nat \ {0}, block <= block' PROVE GroupsInv'
    <2>1. UNCHANGED <<groupsData, groupsRegistry, activeTerminatedGroups, expiredGroupOffset, groupLifetime>>
      BY <1>1, Zenon DEF groupsVars
    <2>2. \A k \in GroupKeys : groupsData[k].registrationBlockNumber <= block'
      <3>1. \A k \in GroupKeys : groupsData[k].registrationBlockNumber \in Nat
        BY InvParts, SMT DEF Group
      <3>2. \A k \in GroupKeys : groupsData[k].registrationBlockNumber <= block
        BY InvParts, Zenon DEF RegistryInv
      <3>3. \A a \in Nat : a <= block => a <= block'
        BY <1>1, InvParts, SMT
      <3> QED
        BY <3>1, <3>2, <3>3, Zenon
    <2>3. RegistryInv'
      BY <2>1, <2>2, InvParts, Zenon DEF RegistryInv
    <2>4. TerminatedGroupsAreTracked'
      BY <2>1, InvParts, Zenon DEF TerminatedGroupsAreTracked, GroupIds, isGroupTerminated, getGroup
    <2> QED
      BY <1>1, <2>1, <2>3, <2>4, InvParts, Zenon DEF GroupsInv, GroupsTypeOK
  <1>2. CASE mineBlock /\ UNCHANGED groupsVars
    <2>1. block' = block + 1 /\ block \in Nat
      BY <1>2, InvParts, Zenon DEF mineBlock
    <2>2. block' \in Nat \ {0} /\ block <= block'
      BY <2>1, SMT
    <2> QED
      BY <1>1, <1>2, <2>2, Zenon
  <1>3. ASSUME NEW k \in GroupKeys, NEW m \in Members, activateGroup(k, m) PROVE GroupsInv'
    BY <1>3, ActivateStep, Zenon
  <1>4. ASSUME NEW id \in GroupIds, terminateGroup(id) \/ terminateAndExpire(id) PROVE GroupsInv'
    BY <1>4, TerminateStep, Zenon DEF terminateGroup, terminateAndExpire
  <1>5. CASE selectGroup
    BY <1>5, ExpireStep, Zenon DEF selectGroup
  <1>6. ASSUME NEW lifetime \in Lifetimes, setGroupLifetime(lifetime) PROVE GroupsInv'
    <2>1. /\ UNCHANGED <<block, groupsData, groupsRegistry, activeTerminatedGroups, expiredGroupOffset>>
          /\ groupLifetime' = lifetime
      BY <1>6, Zenon DEF setGroupLifetime
    <2>2. expiredGroupOffset <= expiredGroupOffset
      BY InvParts, SMT
    <2> QED
      BY <2>1, <2>2, InvParts, RetrackedSame, Zenon
  <1>7. CASE UNCHANGED <<block, groupsVars>>
    <2>1. block' \in Nat \ {0} /\ block <= block'
      BY <1>7, InvParts, SMT
    <2> QED
      BY <1>1, <1>7, <2>1, Zenon
  <1> QED
    BY <1>2, <1>3, <1>4, <1>5, <1>6, <1>7, Zenon DEF GroupsNext

(* A library without groups satisfies the invariant.                       *)
LEMMA GroupsStart == LibraryInit => GroupsInv
  <1>1. SUFFICES ASSUME LibraryInit PROVE GroupsInv
    BY Zenon
  <1>2. /\ block = 1 /\ groupsRegistry = <<>> /\ activeTerminatedGroups = <<>>
        /\ expiredGroupOffset = 0 /\ groupLifetime \in Lifetimes
        /\ groupsData = [k \in GroupKeys |->
              [registrationBlockNumber |-> 0, members |-> None, terminated |-> FALSE]]
    BY <1>1, Zenon DEF LibraryInit, GroupsInit
  <1>3. /\ groupsRegistry \in Seq(GroupKeys) /\ activeTerminatedGroups \in Seq(Nat)
        /\ Len(groupsRegistry) = 0
        /\ \A i : i \notin DOMAIN groupsRegistry /\ i \notin DOMAIN activeTerminatedGroups
    BY <1>2, SMT
  <1>4. \A k \in GroupKeys : /\ groupsData[k].registrationBlockNumber = 0 /\ ~groupsData[k].terminated
                             /\ groupsData[k] \in Group
    BY <1>2, SMT DEF Group
  <1>5. groupsData \in [GroupKeys -> Group]
    BY <1>2, <1>4, Zenon
  <1>6. GroupsTypeOK /\ block \in Nat \ {0} /\ expiredGroupOffset <= Len(groupsRegistry)
    <2>1. 0 \in Nat /\ 1 \in Nat \ {0} /\ 0 <= 0
      BY SMT
    <2> QED
      BY <1>2, <1>3, <1>5, <2>1, Zenon DEF GroupsTypeOK
  <1>7. \A k : k \notin ToSet(groupsRegistry) /\ k \notin ToSet(activeTerminatedGroups)
    BY <1>3, Zenon DEF ToSet
  <1>8. RegistryInv
    <2>1. 0 <= block
      BY <1>2, SMT
    <2> QED
      BY <1>3, <1>4, <1>7, <2>1, Zenon DEF RegistryInv
  <1>9. \A id : id \notin GroupIds
    BY <1>3, SMT DEF GroupIds
  <1>10. TerminatedGroupsAreTracked
    BY <1>3, <1>7, <1>9, Zenon DEF TerminatedGroupsAreTracked
  <1> QED
    BY <1>6, <1>8, <1>10, Zenon DEF GroupsInv

(* selectGroup picks every active group with the same share of the seeds   *)
(* and no other group, for any number of groups, however registrations,    *)
(* terminations, expiries and changes of the lifetime follow each other.   *)
THEOREM SelectionStaysUniform == GroupsSpec => []SelectionIsUniform
  <1>1. GroupsInv /\ [GroupsNext]_<<block, groupsVars>> => GroupsInv'
    BY GroupsStep, Zenon
  <1> QED
    BY <1>1, GroupsStart, SelectionIsRight, PTL DEF GroupsSpec
=============================================================================

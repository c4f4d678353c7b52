-------------------------- MODULE SchedulersProofs --------------------------
(***************************************************************************)
(* Theorems about the event lists: the contract is consistent, and list,   *)
(* heap and calendar implement it, hold the same events and hand out the   *)
(* same one.  The inductive invariant (SchedulersInv) says that the list   *)
(* is sorted, the heap ordered, every event of the calendar in the sorted  *)
(* bucket of its time stamp and its position not ahead of any event.       *)
(*                                                                         *)
(* HeapScheduler::Remove is wrong in one case, and the theorems say        *)
(* exactly which (HeapSpared): with at most five events it does not occur. *)
(*                                                                         *)
(* The loops of the code are recursive functions of the number of their    *)
(* iterations; such a function exists and stays where every iteration      *)
(* stays, by induction over sets of numbers (LoopExists, Stays).           *)
(***************************************************************************)
EXTENDS Schedulers, SequenceTheorems, FiniteSetTheorems, NaturalsInduction,
        WellFoundedInduction, TLAPS

-----------------------------------------------------------------------------
(* Numbers and loops.  Induction is over sets of numbers, and a loop is a  *)
(* function of the number of its iterations.                               *)

\* A nonempty set of natural numbers has a least element.
LEMMA LeastNumber ==
    ASSUME NEW S \in SUBSET Nat, S # {}
    PROVE  \E x \in S : \A y \in S : x <= y
<1> DEFINE R == {p \in Nat \X Nat : p[1] < p[2]}
<1>1. IsWellFoundedOn(R, Nat)
    BY NatLessThanWellFounded DEF OpToRel
<1> HIDE DEF R
<1>2. PICK x \in S : \A y \in S : ~(<<y, x>> \in R)
    BY <1>1, WFMin
<1>3. ASSUME NEW y \in S PROVE x <= y
  <2>1. x \in Nat /\ y \in Nat
      OBVIOUS
  <2>2. ~(y < x)
      BY <1>2, <2>1 DEF R
  <2> QED
      BY <2>1, <2>2
<1> QED
    BY <1>3

\* What holds of 0 and of i + 1 if it holds of i < n holds up to n.
LEMMA UpTo ==
    ASSUME NEW n \in Nat, NEW S, 0 \in S, \A i \in 1..n : i - 1 \in S => i \in S
    PROVE  \A i \in 0..n : i \in S
<1> DEFINE Bad == {i \in 0..n : i \notin S}
<1>1. SUFFICES ASSUME Bad # {} PROVE FALSE
    OBVIOUS
<1>2. PICK i \in Bad : \A k \in Bad : i <= k
  <2>1. Bad \in SUBSET Nat
      OBVIOUS
  <2> HIDE DEF Bad
  <2> QED
      BY <1>1, <2>1, LeastNumber
<1>3. i \in 0..n /\ i \notin S /\ i # 0
    OBVIOUS
<1>4. i \in 1..n /\ i - 1 \in 0..n /\ ~(i <= i - 1)
    BY <1>3
<1>5. i - 1 \in S
    BY <1>2, <1>4
<1> QED
    BY <1>3, <1>4, <1>5

\* The values of a loop of n iterations from x, where iteration i takes a d of
\* D[i - 1] to step[i][d].
Loop(n, x, step, f) == f = [i \in 0..n |-> IF i = 0 THEN x ELSE step[i][f[i - 1]]]

\* A loop whose iterations take D[i - 1] to D[i] has values, and they are there.
LEMMA LoopExists ==
    ASSUME NEW n \in Nat, NEW D, NEW x \in D[0], NEW step,
           \A i \in 1..n : \A d \in D[i - 1] : step[i][d] \in D[i]
    PROVE  \E f : Loop(n, x, step, f) /\ \A i \in 0..n : f[i] \in D[i]
<1> DEFINE S == {m \in 0..n : \E f : Loop(m, x, step, f) /\ \A i \in 0..m : f[i] \in D[i]}
<1>1. 0 \in S
  <2> DEFINE f == [i \in 0..0 |-> x]
  <2>1. \A i \in 0..0 : f[i] = x /\ i = 0
      OBVIOUS
  <2>2. f = [i \in 0..0 |-> IF i = 0 THEN x ELSE step[i][f[i - 1]]]
      BY <2>1
  <2>3. \A i \in 0..0 : f[i] \in D[i]
      BY <2>1
  <2> HIDE DEF f
  <2>4. Loop(0, x, step, f)
      BY <2>2 DEF Loop
  <2> QED
      BY <2>3, <2>4
<1>2. ASSUME NEW m \in 1..n, m - 1 \in S PROVE m \in S
  <2>1. PICK g : Loop(m - 1, x, step, g) /\ \A i \in 0..m - 1 : g[i] \in D[i]
      BY <1>2
  <2>2. m - 1 \in 0..m - 1 /\ m \in 0..n /\ m \in 0..m /\ m # 0 /\ 0 \in 0..m - 1
      BY <1>2
  <2>3. PICK d : d = step[m][g[m - 1]]
      OBVIOUS
  <2>4. d \in D[m]
      BY <2>1, <2>2, <2>3
  <2> DEFINE f == [i \in 0..m |-> IF i = m THEN d ELSE g[i]]
  <2>5. \A i \in 0..m - 1 : i \in 0..m /\ i # m
      BY <1>2
  <2>6. \A i \in 0..m - 1 : f[i] = g[i]
      BY <2>5
  <2>7. f[m] = d
      BY <2>2
  <2>8. ASSUME NEW i \in 0..m PROVE f[i] = (IF i = 0 THEN x ELSE step[i][f[i - 1]]) /\ f[i] \in D[i]
    <3>1. CASE i = m
      <4>1. f[m - 1] = g[m - 1]
          BY <2>2, <2>6
      <4> QED
          BY <2>2, <2>3, <2>4, <2>7, <3>1, <4>1
    <3>2. CASE i # m
      <4>1. i \in 0..m - 1 /\ (i # 0 => i - 1 \in 0..m - 1)
          BY <1>2, <3>2
      <4>2. g[i] = IF i = 0 THEN x ELSE step[i][g[i - 1]]
          BY <2>1, <4>1 DEF Loop
      <4> HIDE DEF f
      <4> QED
          BY <2>1, <2>6, <4>1, <4>2
    <3> QED
        BY <3>1, <3>2
  <2>9. f = [i \in 0..m |-> IF i = 0 THEN x ELSE step[i][f[i - 1]]]
      BY <2>8
  <2> HIDE DEF f
  <2>10. Loop(m, x, step, f)
      BY <2>9 DEF Loop
  <2> QED
      BY <2>2, <2>8, <2>10
<1> HIDE DEF S
<1>3. \A i \in 0..n : i \in S
    BY <1>1, <1>2, UpTo
<1>4. n \in S
    BY <1>3
<1> QED
    BY <1>4 DEF S

-----------------------------------------------------------------------------
(* The order on keys and sorted sequences.                                 *)

\* The order is transitive,
LEMMA LessTransitive ==
    ASSUME NEW a \in EventKey, NEW b \in EventKey, NEW c \in EventKey,
           Less(a, b), Less(b, c)
    PROVE  Less(a, c)
BY DEF Less, EventKey

\* no key precedes itself,
LEMMA LessIrreflexive == \A a \in EventKey : ~Less(a, a)
BY DEF Less, EventKey

\* and two keys neither of which precedes the other are the same.
LEMMA LessTotal ==
    ASSUME NEW a \in EventKey, NEW b \in EventKey, ~Less(a, b), ~Less(b, a)
    PROVE  a = b
<1>1. a.ts = b.ts /\ a.uid = b.uid
    BY DEF Less, EventKey
<1> QED
    BY <1>1 DEF EventKey

\* The order of a bucket, in reverse or not.
Before(a, b, rev) == IF rev THEN Less(b, a) ELSE Less(a, b)

\* The order of a bucket, in either direction, is a strict total order.
LEMMA BeforeOrder ==
    ASSUME NEW rev \in BOOLEAN
    PROVE  /\ \A a, b, c \in EventKey : Before(a, b, rev) /\ Before(b, c, rev) => Before(a, c, rev)
           /\ \A a \in EventKey : ~Before(a, a, rev)
           /\ \A a, b \in EventKey : ~Before(a, b, rev) /\ ~Before(b, a, rev) => a = b
<1>1. \A a, b, c \in EventKey : Before(a, b, rev) /\ Before(b, c, rev) => Before(a, c, rev)
    BY LessTransitive DEF Before
<1>2. \A a \in EventKey : ~Before(a, a, rev)
    BY LessIrreflexive DEF Before
<1>3. \A a, b \in EventKey : ~Before(a, b, rev) /\ ~Before(b, a, rev) => a = b
    BY LessTotal DEF Before
<1> QED
    BY <1>1, <1>2, <1>3

\* A sorted sequence; rev for a bucket in reverse order.
Sorted(s, rev) == \A i, j \in 1..Len(s) : i < j => Before(s[i], s[j], rev)

\* r is s with e put in at position i.
PutIn(r, s, i, e) ==
    /\ Len(r) = Len(s) + 1
    /\ \A j \in 1..Len(s) : (j < i => r[j] = s[j]) /\ (i <= j => r[j + 1] = s[j])
    /\ r[i] = e

\* r is s without what it has at position i.
TakenOut(r, s, i) ==
    /\ Len(r) + 1 = Len(s)
    /\ \A j \in 1..Len(s) : (j < i => r[j] = s[j]) /\ (i < j => r[j - 1] = s[j])

\* Append puts an element in at the end.
LEMMA Appended ==
    ASSUME NEW S, NEW s \in Seq(S), NEW e \in S
    PROVE  Append(s, e) \in Seq(S) /\ PutIn(Append(s, e), s, Len(s) + 1, e)
BY AppendProperties DEF PutIn

\* The first k elements of a sequence.
LEMMA Prefix ==
    ASSUME NEW S, NEW s \in Seq(S), NEW k \in 0..Len(s)
    PROVE  /\ SubSeq(s, 1, k) \in Seq(S) /\ Len(SubSeq(s, 1, k)) = k
           /\ \A j \in 1..k : SubSeq(s, 1, k)[j] = s[j]
<1>1. Len(s) \in Nat /\ k \in Int /\ 1 \in Int /\ \A j \in 1..k : s[j] \in S
    OBVIOUS
<1>2. /\ SubSeq(s, 1, k) \in Seq(S)
      /\ Len(SubSeq(s, 1, k)) = IF 1 <= k THEN k - 1 + 1 ELSE 0
      /\ \A j \in 1..k - 1 + 1 : SubSeq(s, 1, k)[j] = s[1 + j - 1]
    BY <1>1, SubSeqProperties
<1>3. (IF 1 <= k THEN k - 1 + 1 ELSE 0) = k /\ k - 1 + 1 = k
    BY <1>1
<1>4. \A j \in 1..k : 1 + j - 1 = j
    OBVIOUS
<1> QED
    BY <1>2, <1>3, <1>4

\* The elements of a sequence from k on.
LEMMA Suffix ==
    ASSUME NEW S, NEW s \in Seq(S), NEW k \in 1..Len(s) + 1
    PROVE  /\ SubSeq(s, k, Len(s)) \in Seq(S) /\ Len(SubSeq(s, k, Len(s))) = Len(s) - k + 1
           /\ \A j \in 1..Len(s) - k + 1 : SubSeq(s, k, Len(s))[j] = s[k + j - 1]
<1>1. Len(s) \in Int /\ k \in Int /\ \A j \in k..Len(s) : s[j] \in S
    OBVIOUS
<1>2. /\ SubSeq(s, k, Len(s)) \in Seq(S)
      /\ Len(SubSeq(s, k, Len(s))) = IF k <= Len(s) THEN Len(s) - k + 1 ELSE 0
      /\ \A j \in 1..Len(s) - k + 1 : SubSeq(s, k, Len(s))[j] = s[k + j - 1]
    BY <1>1, SubSeqProperties
<1>3. (IF k <= Len(s) THEN Len(s) - k + 1 ELSE 0) = Len(s) - k + 1
    BY <1>1
<1> QED
    BY <1>2, <1>3

\* InsertAt puts an element in.
LEMMA Inserted ==
    ASSUME NEW S, NEW s \in Seq(S), NEW i \in 1..Len(s), NEW e \in S
    PROVE  /\ SubSeq(s, 1, i - 1) \o <<e>> \o SubSeq(s, i, Len(s)) \in Seq(S)
           /\ PutIn(SubSeq(s, 1, i - 1) \o <<e>> \o SubSeq(s, i, Len(s)), s, i, e)
<1> DEFINE a == SubSeq(s, 1, i - 1)
           b == SubSeq(s, i, Len(s))
           c == a \o <<e>>
           r == c \o b
<1>a. Len(s) \in Nat /\ i - 1 \in 0..Len(s) /\ i \in 1..Len(s) + 1
    OBVIOUS
<1>1. a \in Seq(S) /\ Len(a) = i - 1 /\ \A j \in 1..i - 1 : a[j] = s[j]
    BY <1>a, Prefix
<1>2. b \in Seq(S) /\ Len(b) = Len(s) - i + 1 /\ \A j \in 1..Len(s) - i + 1 : b[j] = s[i + j - 1]
    BY <1>a, Suffix
<1> HIDE DEF a, b
<1>3. c \in Seq(S) /\ Len(c) = i /\ c[i] = e /\ \A j \in 1..i - 1 : c[j] = s[j]
  <2>1. a \o <<e>> = Append(a, e)
      BY <1>1, AppendIsConcat
  <2>2. /\ Append(a, e) \in Seq(S) /\ Len(Append(a, e)) = Len(a) + 1
        /\ \A j \in 1..Len(a) : Append(a, e)[j] = a[j]
        /\ Append(a, e)[Len(a) + 1] = e
      BY <1>1, AppendProperties
  <2>3. Len(a) + 1 = i
      BY <1>a, <1>1
  <2> QED
      BY <1>1, <2>1, <2>2, <2>3
<1> HIDE DEF c
<1>4. /\ r \in Seq(S) /\ Len(r) = Len(s) + 1
      /\ \A j \in 1..Len(s) + 1 : r[j] = IF j <= i THEN c[j] ELSE b[j - i]
  <2>1. /\ c \o b \in Seq(S) /\ Len(c \o b) = Len(c) + Len(b)
        /\ \A j \in 1..Len(c) + Len(b) : (c \o b)[j] = IF j <= Len(c) THEN c[j] ELSE b[j - Len(c)]
      BY <1>2, <1>3, ConcatProperties
  <2>2. Len(c) + Len(b) = Len(s) + 1 /\ Len(c) = i
      BY <1>a, <1>2, <1>3
  <2> QED
      BY <2>1, <2>2
<1> HIDE DEF r
<1>6. ASSUME NEW j \in 1..Len(s), j < i PROVE r[j] = s[j]
  <2>1. j \in 1..i - 1 /\ j \in 1..Len(s) + 1 /\ j <= i
      BY <1>a, <1>6
  <2> QED
      BY <1>3, <1>4, <2>1
<1>7. ASSUME NEW j \in 1..Len(s), i <= j PROVE r[j + 1] = s[j]
  <2>1. /\ j + 1 \in 1..Len(s) + 1 /\ ~(j + 1 <= i)
        /\ j + 1 - i \in 1..Len(s) - i + 1 /\ i + (j + 1 - i) - 1 = j
      BY <1>a, <1>7
  <2>2. r[j + 1] = b[j + 1 - i]
      BY <1>4, <2>1
  <2> QED
      BY <1>2, <2>1, <2>2
<1>8. r[i] = e
    BY <1>a, <1>3, <1>4
<1>9. PutIn(r, s, i, e)
    BY <1>4, <1>6, <1>7, <1>8 DEF PutIn
<1> QED
    BY <1>4, <1>9 DEF r, c, a, b

\* RemoveAt takes an element out.
LEMMA Removed ==
    ASSUME NEW S, NEW s \in Seq(S), NEW i \in 1..Len(s)
    PROVE  /\ SubSeq(s, 1, i - 1) \o SubSeq(s, i + 1, Len(s)) \in Seq(S)
           /\ TakenOut(SubSeq(s, 1, i - 1) \o SubSeq(s, i + 1, Len(s)), s, i)
<1> DEFINE a == SubSeq(s, 1, i - 1)
           b == SubSeq(s, i + 1, Len(s))
           r == a \o b
<1>a. Len(s) \in Nat /\ i - 1 \in 0..Len(s) /\ i + 1 \in 1..Len(s) + 1
    OBVIOUS
<1>1. a \in Seq(S) /\ Len(a) = i - 1 /\ \A j \in 1..i - 1 : a[j] = s[j]
    BY <1>a, Prefix
<1>2. /\ b \in Seq(S) /\ Len(b) = Len(s) - (i + 1) + 1
      /\ \A j \in 1..Len(s) - (i + 1) + 1 : b[j] = s[i + 1 + j - 1]
    BY <1>a, Suffix
<1> HIDE DEF a, b
<1>3. /\ r \in Seq(S) /\ Len(r) = Len(s) - 1
      /\ \A j \in 1..Len(s) - 1 : r[j] = IF j <= i - 1 THEN a[j] ELSE b[j - (i - 1)]
  <2>1. /\ a \o b \in Seq(S) /\ Len(a \o b) = Len(a) + Len(b)
        /\ \A j \in 1..Len(a) + Len(b) : (a \o b)[j] = IF j <= Len(a) THEN a[j] ELSE b[j - Len(a)]
      BY <1>1, <1>2, ConcatProperties
  <2>2. Len(a) + Len(b) = Len(s) - 1 /\ Len(a) = i - 1
      BY <1>a, <1>1, <1>2
  <2> QED
      BY <2>1, <2>2
<1> HIDE DEF r
<1>4. ASSUME NEW j \in 1..Len(s), j < i PROVE r[j] = s[j]
  <2>1. j \in 1..i - 1 /\ j \in 1..Len(s) - 1 /\ j <= i - 1
      BY <1>a, <1>4
  <2> QED
      BY <1>1, <1>3, <2>1
<1>5. ASSUME NEW j \in 1..Len(s), i < j PROVE r[j - 1] = s[j]
  <2>1. /\ j - 1 \in 1..Len(s) - 1 /\ ~(j - 1 <= i - 1)
        /\ j - 1 - (i - 1) \in 1..Len(s) - (i + 1) + 1 /\ i + 1 + (j - 1 - (i - 1)) - 1 = j
      BY <1>a, <1>5
  <2>2. r[j - 1] = b[j - 1 - (i - 1)]
      BY <1>3, <2>1
  <2> QED
      BY <1>2, <2>1, <2>2
<1>6. Len(r) + 1 = Len(s)
    BY <1>a, <1>3
<1>7. TakenOut(r, s, i)
    BY <1>4, <1>5, <1>6 DEF TakenOut
<1> QED
    BY <1>3, <1>7 DEF r, a, b

\* No event twice.
Distinct(s) == \A i, j \in 1..Len(s) : s[i] = s[j] => i = j

\* The elements of a sequence, by position.
LEMMA Members ==
    ASSUME NEW S, NEW s \in Seq(S)
    PROVE  /\ Seqs!ToSet(s) = {s[i] : i \in 1..Len(s)}
           /\ \A i \in 1..Len(s) : s[i] \in S /\ s[i] \in Seqs!ToSet(s)
           /\ \A x \in Seqs!ToSet(s) : x \in S /\ \E i \in 1..Len(s) : x = s[i]
<1>1. DOMAIN s = 1..Len(s) /\ \A i \in 1..Len(s) : s[i] \in S
    OBVIOUS
<1> QED
    BY <1>1 DEF Seqs!ToSet

\* Putting an element in adds it to the members.
LEMMA PutInMembers ==
    ASSUME NEW S, NEW s \in Seq(S), NEW r \in Seq(S), NEW i \in 1..Len(s) + 1, NEW e,
           PutIn(r, s, i, e)
    PROVE  Seqs!ToSet(r) = Seqs!ToSet(s) \cup {e}
<1>a. Len(s) \in Nat /\ Len(r) = Len(s) + 1 /\ r[i] = e /\ i \in 1..Len(r)
    BY DEF PutIn
<1>b. \A j \in 1..Len(s) : (j < i => r[j] = s[j]) /\ (i <= j => r[j + 1] = s[j])
    BY DEF PutIn
<1>1. ASSUME NEW x \in Seqs!ToSet(r) PROVE x \in Seqs!ToSet(s) \cup {e}
  <2>1. PICK j \in 1..Len(r) : x = r[j]
      BY Members
  <2>2. CASE j < i
    <3>1. j \in 1..Len(s)
        BY <1>a, <2>2
    <3> QED
        BY <1>b, <2>1, <2>2, <3>1, Members
  <2>3. CASE j > i
    <3>1. j - 1 \in 1..Len(s) /\ i <= j - 1 /\ j - 1 + 1 = j
        BY <1>a, <2>3
    <3>2. r[j] = s[j - 1]
        BY <1>b, <3>1
    <3> QED
        BY <2>1, <3>1, <3>2, Members
  <2> QED
      BY <1>a, <2>1, <2>2, <2>3
<1>2. ASSUME NEW x \in Seqs!ToSet(s) PROVE x \in Seqs!ToSet(r)
  <2>1. PICK j \in 1..Len(s) : x = s[j]
      BY Members
  <2>2. j \in 1..Len(r) /\ j + 1 \in 1..Len(r) /\ (j < i \/ i <= j)
      BY <1>a
  <2>3. x = r[j] \/ x = r[j + 1]
      BY <1>b, <2>1, <2>2
  <2> QED
      BY <2>2, <2>3, Members
<1>3. e \in Seqs!ToSet(r)
    BY <1>a, Members
<1> QED
    BY <1>1, <1>2, <1>3

\* Taking an element out of a sequence without repetition takes it from the members.
LEMMA TakenOutMembers ==
    ASSUME NEW S, NEW s \in Seq(S), NEW r \in Seq(S), NEW i \in 1..Len(s),
           TakenOut(r, s, i), Distinct(s)
    PROVE  Seqs!ToSet(r) = Seqs!ToSet(s) \ {s[i]}
<1>a. Len(s) \in Nat /\ Len(r) \in Nat /\ Len(r) + 1 = Len(s)
    BY DEF TakenOut
<1>b. \A j \in 1..Len(s) : (j < i => r[j] = s[j]) /\ (i < j => r[j - 1] = s[j])
    BY DEF TakenOut
<1>1. ASSUME NEW x \in Seqs!ToSet(r) PROVE x \in Seqs!ToSet(s) \ {s[i]}
  <2>1. PICK j \in 1..Len(r) : x = r[j]
      BY Members
  <2>2. CASE j < i
    <3>1. j \in 1..Len(s) /\ j # i
        BY <1>a, <2>2
    <3>2. x = s[j]
        BY <1>b, <2>1, <2>2, <3>1
    <3> QED
        BY <3>1, <3>2, Members DEF Distinct
  <2>3. CASE ~(j < i)
    <3>1. j + 1 \in 1..Len(s) /\ i < j + 1 /\ j + 1 - 1 = j /\ j + 1 # i
        BY <1>a, <2>3
    <3>2. x = s[j + 1]
        BY <1>b, <2>1, <3>1
    <3> QED
        BY <3>1, <3>2, Members DEF Distinct
  <2> QED
      BY <2>2, <2>3
<1>2. ASSUME NEW x \in Seqs!ToSet(s) \ {s[i]} PROVE x \in Seqs!ToSet(r)
  <2>1. PICK j \in 1..Len(s) : x = s[j]
      BY Members
  <2>2. j # i
      BY <1>2, <2>1
  <2>3. CASE j < i
    <3>1. j \in 1..Len(r) /\ r[j] = s[j]
        BY <1>a, <1>b, <2>3
    <3> QED
        BY <2>1, <3>1, Members
  <2>4. CASE i < j
    <3>1. j - 1 \in 1..Len(r) /\ r[j - 1] = s[j]
        BY <1>a, <1>b, <2>4
    <3> QED
        BY <2>1, <3>1, Members
  <2> QED
      BY <2>2, <2>3, <2>4
<1> QED
    BY <1>1, <1>2

\* A sorted sequence holds no event twice.
LEMMA SortedDistinct ==
    ASSUME NEW s \in Seq(EventKey), NEW rev \in BOOLEAN, Sorted(s, rev)
    PROVE  Distinct(s)
<1> SUFFICES ASSUME NEW i \in 1..Len(s), NEW j \in 1..Len(s), s[i] = s[j], i # j
             PROVE  FALSE
    BY DEF Distinct
<1>1. i < j \/ j < i
    OBVIOUS
<1>2. s[i] \in EventKey /\ s[j] \in EventKey
    OBVIOUS
<1>3. Before(s[i], s[j], rev) \/ Before(s[j], s[i], rev)
    BY <1>1 DEF Sorted
<1> QED
    BY <1>2, <1>3, BeforeOrder

\* What is left of a sorted sequence is sorted.
LEMMA TakenOutSorted ==
    ASSUME NEW s \in Seq(EventKey), NEW r \in Seq(EventKey), NEW i \in 1..Len(s),
           NEW rev \in BOOLEAN, TakenOut(r, s, i), Sorted(s, rev)
    PROVE  Sorted(r, rev)
<1>a. Len(s) \in Nat /\ Len(r) \in Nat /\ Len(r) + 1 = Len(s)
    BY DEF TakenOut
<1>b. \A j \in 1..Len(s) : (j < i => r[j] = s[j]) /\ (i < j => r[j - 1] = s[j])
    BY DEF TakenOut
<1>1. ASSUME NEW j \in 1..Len(r)
      PROVE  \E k \in 1..Len(s) : r[j] = s[k] /\ k = IF j < i THEN j ELSE j + 1
  <2>1. CASE j < i
    <3>1. j \in 1..Len(s) /\ r[j] = s[j]
        BY <1>a, <1>b, <2>1
    <3> QED
        BY <2>1, <3>1
  <2>2. CASE ~(j < i)
    <3>1. j + 1 \in 1..Len(s) /\ i < j + 1 /\ j + 1 - 1 = j
        BY <1>a, <2>2
    <3>2. r[j] = s[j + 1]
        BY <1>b, <3>1
    <3> QED
        BY <2>2, <3>1, <3>2
  <2> QED
      BY <2>1, <2>2
<1>2. ASSUME NEW j \in 1..Len(r), NEW k \in 1..Len(r), j < k
      PROVE  Before(r[j], r[k], rev)
  <2>1. PICK m \in 1..Len(s) : r[j] = s[m] /\ m = IF j < i THEN j ELSE j + 1
      BY <1>1
  <2>2. PICK n \in 1..Len(s) : r[k] = s[n] /\ n = IF k < i THEN k ELSE k + 1
      BY <1>1
  <2>3. m < n
      BY <1>2, <2>1, <2>2
  <2> QED
      BY <2>1, <2>2, <2>3 DEF Sorted
<1> QED
    BY <1>2 DEF Sorted

\* i is the first position of s that e precedes, or the one after the last.
FirstAfter(s, e, i, rev) ==
    /\ i \in 1..Len(s) + 1
    /\ i <= Len(s) => Before(e, s[i], rev)
    /\ \A k \in 1..Len(s) : k < i => ~Before(e, s[k], rev)

\* An element put in there leaves the sequence sorted.
LEMMA PutInSorted ==
    ASSUME NEW s \in Seq(EventKey), NEW r \in Seq(EventKey), NEW e \in EventKey, NEW i,
           NEW rev \in BOOLEAN, PutIn(r, s, i, e), FirstAfter(s, e, i, rev),
           Sorted(s, rev), e \notin Seqs!ToSet(s)
    PROVE  Sorted(r, rev)
<1>a. Len(s) \in Nat /\ Len(r) = Len(s) + 1 /\ r[i] = e /\ i \in 1..Len(s) + 1
    BY DEF PutIn, FirstAfter
<1>b. \A j \in 1..Len(s) : (j < i => r[j] = s[j]) /\ (i <= j => r[j + 1] = s[j])
    BY DEF PutIn
<1>c. \A j \in 1..Len(s) : s[j] \in EventKey /\ s[j] # e
    BY Members
<1>1. ASSUME NEW j \in 1..Len(s), j < i PROVE Before(s[j], e, rev)
  <2>1. ~Before(e, s[j], rev)
      BY <1>1 DEF FirstAfter
  <2> QED
      BY <1>c, <2>1, BeforeOrder
<1>2. ASSUME NEW j \in 1..Len(s), i <= j PROVE Before(e, s[j], rev)
  <2>1. i \in 1..Len(s) /\ Before(e, s[i], rev)
      BY <1>a, <1>2 DEF FirstAfter
  <2>2. i = j \/ Before(s[i], s[j], rev)
      BY <1>2, <2>1 DEF Sorted
  <2> QED
      BY <1>c, <2>1, <2>2, BeforeOrder
<1>3. ASSUME NEW j \in 1..Len(r), j # i
      PROVE  \E k \in 1..Len(s) : r[j] = s[k] /\ k = IF j < i THEN j ELSE j - 1
  <2>1. CASE j < i
    <3>1. j \in 1..Len(s) /\ r[j] = s[j]
        BY <1>a, <1>b, <2>1
    <3> QED
        BY <2>1, <3>1
  <2>2. CASE ~(j < i)
    <3>1. j - 1 \in 1..Len(s) /\ i <= j - 1 /\ j - 1 + 1 = j
        BY <1>a, <1>3, <2>2
    <3>2. r[j] = s[j - 1]
        BY <1>b, <3>1
    <3> QED
        BY <2>2, <3>1, <3>2
  <2> QED
      BY <2>1, <2>2
<1>4. ASSUME NEW j \in 1..Len(r), NEW k \in 1..Len(r), j < k
      PROVE  Before(r[j], r[k], rev)
  <2>1. CASE j = i
    <3>1. PICK n \in 1..Len(s) : r[k] = s[n] /\ n = IF k < i THEN k ELSE k - 1
      <4>1. k # i
          BY <1>4, <2>1
      <4> QED
          BY <1>3, <4>1
    <3>2. i <= n
        BY <1>a, <1>4, <2>1, <3>1
    <3> QED
        BY <1>a, <1>2, <2>1, <3>1, <3>2
  <2>2. CASE k = i
    <3>1. PICK m \in 1..Len(s) : r[j] = s[m] /\ m = IF j < i THEN j ELSE j - 1
      <4>1. j # i
          BY <1>4, <2>2
      <4> QED
          BY <1>3, <4>1
    <3>2. m < i
        BY <1>a, <1>4, <2>2, <3>1
    <3> QED
        BY <1>a, <1>1, <2>2, <3>1, <3>2
  <2>3. CASE j # i /\ k # i
    <3>1. PICK m \in 1..Len(s) : r[j] = s[m] /\ m = IF j < i THEN j ELSE j - 1
        BY <1>3, <2>3
    <3>2. PICK n \in 1..Len(s) : r[k] = s[n] /\ n = IF k < i THEN k ELSE k - 1
        BY <1>3, <2>3
    <3>3. m < n
        BY <1>a, <1>4, <2>3, <3>1, <3>2
    <3> QED
        BY <3>1, <3>2, <3>3 DEF Sorted
  <2> QED
      BY <2>1, <2>2, <2>3
<1> QED
    BY <1>4 DEF Sorted

\* What ListScheduler::Insert and CalendarScheduler::DoInsert do to a list.
PlaceOf(s, e, rev) ==
    LET I == {i \in 1..Len(s) : Before(e, s[i], rev)}
    IN  IF I # {} THEN CHOOSE x \in I : \A y \in I : x <= y ELSE 0

\* What an insertion yields.
InsertedInto(s, e, rev) ==
    LET i == PlaceOf(s, e, rev)
    IN  IF i = 0 THEN Append(s, e)
        ELSE SubSeq(s, 1, i - 1) \o <<e>> \o SubSeq(s, i, Len(s))

\* The insertion of ListScheduler and of the buckets: before the first event that is
\* later, or at the end, keeps a sorted sequence sorted.
LEMMA InsertedSorted ==
    ASSUME NEW s \in Seq(EventKey), NEW e \in EventKey, NEW rev \in BOOLEAN,
           Sorted(s, rev), e \notin Seqs!ToSet(s)
    PROVE  /\ InsertedInto(s, e, rev) \in Seq(EventKey)
           /\ Sorted(InsertedInto(s, e, rev), rev)
           /\ Seqs!ToSet(InsertedInto(s, e, rev)) = Seqs!ToSet(s) \cup {e}
           /\ Len(InsertedInto(s, e, rev)) = Len(s) + 1
<1> DEFINE I == {i \in 1..Len(s) : Before(e, s[i], rev)}
           r == InsertedInto(s, e, rev)
<1>a. Len(s) \in Nat
    OBVIOUS
<1>1. PICK i \in 1..Len(s) + 1 : FirstAfter(s, e, i, rev) /\ r \in Seq(EventKey) /\ PutIn(r, s, i, e)
  <2>1. CASE I = {}
    <3>1. PlaceOf(s, e, rev) = 0
        BY <2>1 DEF PlaceOf
    <3>2. r = Append(s, e)
        BY <3>1 DEF InsertedInto
    <3>3. Append(s, e) \in Seq(EventKey) /\ PutIn(Append(s, e), s, Len(s) + 1, e)
        BY Appended
    <3>4. \A k \in 1..Len(s) : ~Before(e, s[k], rev)
        BY <2>1
    <3>5. Len(s) + 1 \in 1..Len(s) + 1 /\ ~(Len(s) + 1 <= Len(s))
        BY <1>a
    <3>6. FirstAfter(s, e, Len(s) + 1, rev)
        BY <3>4, <3>5 DEF FirstAfter
    <3> QED
        BY <3>2, <3>3, <3>5, <3>6
  <2>2. CASE I # {}
    <3>1. I \in SUBSET Nat
        OBVIOUS
    <3>2. PICK m \in I : \A y \in I : m <= y
      <4> HIDE DEF I
      <4> QED
          BY <2>2, <3>1, LeastNumber
    <3>3. PICK i : i = CHOOSE x \in I : \A y \in I : x <= y
        OBVIOUS
    <3>4. i \in I /\ \A y \in I : i <= y
        BY <3>2, <3>3
    <3>5. PlaceOf(s, e, rev) = i
        BY <2>2, <3>3 DEF PlaceOf
    <3>6. i \in 1..Len(s) /\ Before(e, s[i], rev) /\ i \in 1..Len(s) + 1 /\ i # 0
        BY <1>a, <3>4
    <3>7. \A k \in 1..Len(s) : k < i => ~Before(e, s[k], rev)
      <4>1. ASSUME NEW k \in 1..Len(s), k < i, Before(e, s[k], rev) PROVE FALSE
        <5>1. k \in I
            BY <4>1
        <5>2. i <= k
            BY <3>4, <5>1
        <5> QED
            BY <3>6, <4>1, <5>2
      <4> QED
          BY <4>1
    <3>8. FirstAfter(s, e, i, rev)
        BY <3>6, <3>7 DEF FirstAfter
    <3>9. r = SubSeq(s, 1, i - 1) \o <<e>> \o SubSeq(s, i, Len(s))
        BY <3>5, <3>6 DEF InsertedInto
    <3>10. /\ SubSeq(s, 1, i - 1) \o <<e>> \o SubSeq(s, i, Len(s)) \in Seq(EventKey)
           /\ PutIn(SubSeq(s, 1, i - 1) \o <<e>> \o SubSeq(s, i, Len(s)), s, i, e)
        BY <3>6, Inserted
    <3>11. r \in Seq(EventKey) /\ PutIn(r, s, i, e)
        BY <3>9, <3>10, Zenon
    <3> HIDE DEF r
    <3> QED
        BY <3>6, <3>8, <3>11
  <2> QED
      BY <2>1, <2>2
<1> HIDE DEF r
<1>2. Sorted(r, rev)
    BY <1>1, PutInSorted
<1>3. Seqs!ToSet(r) = Seqs!ToSet(s) \cup {e}
    BY <1>1, PutInMembers
<1>4. Len(r) = Len(s) + 1
    BY <1>1 DEF PutIn
<1> QED
    BY <1>1, <1>2, <1>3, <1>4 DEF r

\* A sorted sequence is sorted without its i-th event.
LEMMA RemovedSorted ==
    ASSUME NEW s \in Seq(EventKey), NEW rev \in BOOLEAN, Sorted(s, rev), NEW i \in 1..Len(s)
    PROVE  /\ Seqs!RemoveAt(s, i) \in Seq(EventKey)
           /\ Sorted(Seqs!RemoveAt(s, i), rev)
           /\ Seqs!ToSet(Seqs!RemoveAt(s, i)) = Seqs!ToSet(s) \ {s[i]}
<1> DEFINE r == Seqs!RemoveAt(s, i)
<1>1. r \in Seq(EventKey) /\ TakenOut(r, s, i)
    BY Removed DEF Seqs!RemoveAt
<1> HIDE DEF r
<1>2. Sorted(r, rev)
    BY <1>1, TakenOutSorted
<1>3. Distinct(s)
    BY SortedDistinct
<1>4. Seqs!ToSet(r) = Seqs!ToSet(s) \ {s[i]}
    BY <1>1, <1>3, TakenOutMembers
<1> QED
    BY <1>1, <1>2, <1>4 DEF r

\* The ends of a sorted sequence.
LEMMA TailSorted ==
    ASSUME NEW s \in Seq(EventKey), NEW rev \in BOOLEAN, Sorted(s, rev), s # <<>>
    PROVE  /\ Tail(s) \in Seq(EventKey) /\ Sorted(Tail(s), rev)
           /\ Head(s) \in Seqs!ToSet(s) /\ Head(s) \in EventKey
           /\ Seqs!ToSet(Tail(s)) = Seqs!ToSet(s) \ {Head(s)}
           /\ \A e \in Seqs!ToSet(s) \ {Head(s)} : Before(Head(s), e, rev)
<1>1. Len(s) \in Nat /\ 1 \in 1..Len(s) /\ Head(s) = s[1]
    BY EmptySeq
<1>2. Tail(s) \in Seq(EventKey) /\ TakenOut(Tail(s), s, 1)
  <2>1. Tail(s) \in Seq(EventKey) /\ Len(Tail(s)) = Len(s) - 1
        /\ \A i \in 1..Len(Tail(s)) : Tail(s)[i] = s[i + 1]
      BY HeadTailProperties
  <2>2. ASSUME NEW j \in 1..Len(s), 1 < j PROVE Tail(s)[j - 1] = s[j]
    <3>1. j - 1 \in 1..Len(Tail(s)) /\ j - 1 + 1 = j
        BY <1>1, <2>1, <2>2
    <3> QED
        BY <2>1, <3>1
  <2> QED
      BY <1>1, <2>1, <2>2 DEF TakenOut
<1>3. Sorted(Tail(s), rev)
    BY <1>1, <1>2, TakenOutSorted
<1>4. Seqs!ToSet(Tail(s)) = Seqs!ToSet(s) \ {s[1]}
  <2> DEFINE t == Tail(s)
  <2>1. t \in Seq(EventKey) /\ TakenOut(t, s, 1)
      BY <1>2
  <2> HIDE DEF t
  <2>2. Distinct(s)
      BY SortedDistinct
  <2>3. Seqs!ToSet(t) = Seqs!ToSet(s) \ {s[1]}
      BY <1>1, <2>1, <2>2, TakenOutMembers
  <2> QED
      BY <2>3 DEF t
<1>5. ASSUME NEW e \in Seqs!ToSet(s) \ {s[1]} PROVE Before(s[1], e, rev)
  <2>1. PICK k \in 1..Len(s) : e = s[k]
      BY Members
  <2>2. 1 < k
      BY <1>1, <1>5, <2>1
  <2> QED
      BY <1>1, <2>1, <2>2 DEF Sorted
<1> QED
    BY <1>1, <1>2, <1>3, <1>4, <1>5, Members

\* The last event of a sorted sequence is after all the others.
LEMMA FrontSorted ==
    ASSUME NEW s \in Seq(EventKey), NEW rev \in BOOLEAN, Sorted(s, rev), s # <<>>
    PROVE  /\ Seqs!Front(s) \in Seq(EventKey) /\ Sorted(Seqs!Front(s), rev)
           /\ Seqs!Last(s) \in Seqs!ToSet(s) /\ Seqs!Last(s) \in EventKey
           /\ Seqs!ToSet(Seqs!Front(s)) = Seqs!ToSet(s) \ {Seqs!Last(s)}
           /\ \A e \in Seqs!ToSet(s) \ {Seqs!Last(s)} : Before(e, Seqs!Last(s), rev)
<1> DEFINE n == Len(s)
           f == Seqs!Front(s)
<1>1. n \in Nat /\ n \in 1..Len(s) /\ Seqs!Last(s) = s[n]
    BY EmptySeq DEF Seqs!Last
<1>2. f \in Seq(EventKey) /\ TakenOut(f, s, n)
  <2>1. n - 1 \in 0..Len(s)
      BY <1>1
  <2>2. f \in Seq(EventKey) /\ Len(f) = n - 1 /\ \A j \in 1..n - 1 : f[j] = s[j]
      BY <2>1, Prefix DEF Seqs!Front
  <2> HIDE DEF f
  <2> QED
      BY <1>1, <2>2 DEF TakenOut
<1> HIDE DEF f
<1>3. Sorted(f, rev)
    BY <1>1, <1>2, TakenOutSorted
<1>4. Seqs!ToSet(f) = Seqs!ToSet(s) \ {s[n]}
    BY <1>1, <1>2, SortedDistinct, TakenOutMembers
<1>5. ASSUME NEW e \in Seqs!ToSet(s) \ {s[n]} PROVE Before(e, s[n], rev)
  <2>1. PICK k \in 1..Len(s) : e = s[k]
      BY Members
  <2>2. k < n
      BY <1>1, <1>5, <2>1
  <2> QED
      BY <1>1, <2>1, <2>2 DEF Sorted
<1> QED
    BY <1>1, <1>2, <1>3, <1>4, <1>5, Members DEF f

-----------------------------------------------------------------------------
(* ListScheduler.                                                          *)

\* ListScheduler::Insert keeps the list sorted and adds the event.
LEMMA ListInsert ==
    ASSUME NEW l \in Seq(EventKey), NEW ev \in EventKey, Sorted(l, FALSE), ev \notin Seqs!ToSet(l)
    PROVE  /\ List!InsertSorted(l, ev) \in Seq(EventKey)
           /\ Sorted(List!InsertSorted(l, ev), FALSE)
           /\ Seqs!ToSet(List!InsertSorted(l, ev)) = Seqs!ToSet(l) \cup {ev}
           /\ Len(List!InsertSorted(l, ev)) = Len(l) + 1
<1>1. List!InsertSorted(l, ev) = InsertedInto(l, ev, FALSE)
    BY DEF List!InsertSorted, List!Seqs!SelectInSeq, List!Seqs!InsertAt, List!Seqs!Min,
           List!Less, Less, InsertedInto, PlaceOf, Before
<1> QED
    BY <1>1, InsertedSorted

\* What holds of the values of a loop holds through it.
LEMMA Stays ==
    ASSUME NEW n \in Nat, NEW D, NEW f, f[0] \in D[0],
           \A i \in 1..n : f[i - 1] \in D[i - 1] => f[i] \in D[i]
    PROVE  \A i \in 0..n : f[i] \in D[i]
<1> DEFINE S == {i \in 0..n : f[i] \in D[i]}
<1>1. 0 \in S
    OBVIOUS
<1>2. \A i \in 1..n : i - 1 \in S => i \in S
    OBVIOUS
<1> HIDE DEF S
<1>3. \A i \in 0..n : i \in S
    BY <1>1, <1>2, UpTo
<1> QED
    BY <1>3 DEF S

\* ListScheduler::Remove takes off the event it searches by uid.
LEMMA ListRemove ==
    ASSUME NEW l \in Seq(EventKey), Sorted(l, FALSE), NEW ev \in Seqs!ToSet(l),
           \A e, f \in Seqs!ToSet(l) : e.uid = f.uid => e = f,
           NEW r, r = List!Seqs!RemoveAt(l, List!Seqs!SelectInSeq(l, LAMBDA e : e.uid = ev.uid))
    PROVE  /\ r \in Seq(EventKey) /\ Sorted(r, FALSE)
           /\ Seqs!ToSet(r) = Seqs!ToSet(l) \ {ev}
<1> DEFINE I == {i \in 1..Len(l) : l[i].uid = ev.uid}
           k == CHOOSE x \in I : \A y \in I : x <= y
<1>1. PICK i \in 1..Len(l) : ev = l[i]
    BY Members
<1>2. i \in I /\ I \in SUBSET Nat
    BY <1>1
<1>3. k \in I
  <2>1. \E x \in I : \A y \in I : x <= y
    <3> HIDE DEF I
    <3> QED
        BY <1>2, LeastNumber
  <2> QED
      BY <2>1
<1>4. List!Seqs!SelectInSeq(l, LAMBDA e : e.uid = ev.uid) = k
    BY <1>2 DEF List!Seqs!SelectInSeq, List!Seqs!Min
<1> HIDE DEF k
<1>5. k \in 1..Len(l) /\ l[k].uid = ev.uid
    BY <1>3
<1>6. l[k] = ev
    BY <1>5, Members
<1>7. r = Seqs!RemoveAt(l, k)
    BY <1>4 DEF List!Seqs!RemoveAt, Seqs!RemoveAt
<1>8. FALSE \in BOOLEAN
    OBVIOUS
<1>9. /\ Seqs!RemoveAt(l, k) \in Seq(EventKey) /\ Sorted(Seqs!RemoveAt(l, k), FALSE)
      /\ Seqs!ToSet(Seqs!RemoveAt(l, k)) = Seqs!ToSet(l) \ {l[k]}
    BY <1>5, <1>8, RemovedSorted
<1> QED
    BY <1>6, <1>7, <1>9, Zenon

\* The first events of a sequence.
FirstOf(s, i) == {s[k] : k \in 1..i}

\* The first i elements are the first i - 1 and the i-th.
LEMMA FirstOfNext ==
    ASSUME NEW S, NEW s \in Seq(S), Distinct(s), NEW i \in 1..Len(s)
    PROVE  /\ FirstOf(s, i) = FirstOf(s, i - 1) \cup {s[i]}
           /\ s[i] \notin FirstOf(s, i - 1) /\ s[i] \in S
<1>1. Len(s) \in Nat /\ \A k \in 1..i - 1 : k \in 1..Len(s) /\ k # i /\ k \in 1..i
    OBVIOUS
<1>2. \A k \in 1..i : k = i \/ k \in 1..i - 1
    OBVIOUS
<1>3. s[i] \notin FirstOf(s, i - 1)
    BY <1>1 DEF FirstOf, Distinct
<1>4. FirstOf(s, i) = FirstOf(s, i - 1) \cup {s[i]}
    BY <1>1, <1>2 DEF FirstOf
<1> QED
    BY <1>3, <1>4

\* The first 0 elements, and all of them.
LEMMA FirstOfEnds ==
    ASSUME NEW S, NEW s \in Seq(S)
    PROVE  FirstOf(s, 0) = {} /\ FirstOf(s, Len(s)) = Seqs!ToSet(s)
<1>1. 1..0 = {}
    OBVIOUS
<1> QED
    BY <1>1, Members DEF FirstOf

\* The empty sequence is sorted and has no members.
LEMMA EmptyList ==
    /\ <<>> \in Seq(EventKey) /\ Seqs!ToSet(<<>>) = {} /\ Len(<<>>) = 0
    /\ \A rev \in BOOLEAN : Sorted(<<>>, rev)
<1>1. <<>> \in Seq(EventKey) /\ Len(<<>>) = 0 /\ 1..0 = {}
    OBVIOUS
<1>2. Seqs!ToSet(<<>>) = {}
    BY <1>1, Members
<1> QED
    BY <1>1, <1>2 DEF Sorted

\* Inserting distinct events in turn gives a sorted list of them.
LEMMA ListFilled ==
    ASSUME NEW evs \in Seq(EventKey), Distinct(evs)
    PROVE  /\ List!Filled(evs) \in Seq(EventKey) /\ Sorted(List!Filled(evs), FALSE)
           /\ Seqs!ToSet(List!Filled(evs)) = Seqs!ToSet(evs)
<1> DEFINE n == Len(evs)
           D == [i \in 0..n |-> {l \in Seq(EventKey) : Sorted(l, FALSE) /\ Seqs!ToSet(l) = FirstOf(evs, i)}]
           E(f) == [i \in 0..n |-> IF i = 0 THEN <<>> ELSE List!InsertSorted(f[i - 1], evs[i])]
           step == [i \in 1..n |-> [d \in D[i - 1] |-> List!InsertSorted(d, evs[i])]]
           after == CHOOSE f : f = E(f)
<1>1. n \in Nat /\ 0 \in 0..n /\ n \in 0..n /\ \A i \in 1..n : i \in 0..n /\ i - 1 \in 0..n /\ i # 0
    OBVIOUS
<1>2. <<>> \in D[0]
    BY <1>1, EmptyList, FirstOfEnds
<1>3. ASSUME NEW i \in 1..n, NEW d \in D[i - 1] PROVE List!InsertSorted(d, evs[i]) \in D[i]
  <2>1. d \in Seq(EventKey) /\ Sorted(d, FALSE) /\ Seqs!ToSet(d) = FirstOf(evs, i - 1)
      BY <1>1, <1>3
  <2>2. evs[i] \in EventKey /\ evs[i] \notin Seqs!ToSet(d) /\ FirstOf(evs, i) = Seqs!ToSet(d) \cup {evs[i]}
      BY <2>1, FirstOfNext
  <2>3. /\ List!InsertSorted(d, evs[i]) \in Seq(EventKey) /\ Sorted(List!InsertSorted(d, evs[i]), FALSE)
        /\ Seqs!ToSet(List!InsertSorted(d, evs[i])) = FirstOf(evs, i)
      BY <2>1, <2>2, ListInsert
  <2> QED
      BY <1>1, <2>3
<1>4. \A i \in 1..n : \A d \in D[i - 1] : step[i][d] = List!InsertSorted(d, evs[i])
    OBVIOUS
<1>5. after = E(after)
  <2> HIDE DEF D
  <2>1. \A i \in 1..n : \A d \in D[i - 1] : step[i][d] \in D[i]
      BY <1>3, <1>4
  <2> HIDE DEF step, n
  <2>2. PICK f : Loop(n, <<>>, step, f) /\ \A i \in 0..n : f[i] \in D[i]
      BY <1>1, <1>2, <2>1, LoopExists
  <2>3. \A i \in 1..n : step[i][f[i - 1]] = List!InsertSorted(f[i - 1], evs[i])
      BY <1>1, <1>4, <2>2
  <2>4. f = E(f)
      BY <1>1, <2>2, <2>3 DEF Loop
  <2> HIDE DEF E
  <2> QED
      BY <2>4
<1>6. List!Filled(evs) = after[n]
    BY DEF List!Filled
<1> HIDE DEF after
<1>7. after[0] = <<>> /\ \A i \in 1..n : after[i] = List!InsertSorted(after[i - 1], evs[i])
    BY <1>1, <1>5
<1> HIDE DEF n, D
<1>8. \A i \in 0..n : after[i] \in D[i]
    BY <1>1, <1>2, <1>3, <1>7, Stays
<1>9. after[n] \in D[n]
    BY <1>1, <1>8
<1>10. FirstOf(evs, n) = Seqs!ToSet(evs)
    BY FirstOfEnds DEF n
<1> QED
    BY <1>1, <1>6, <1>9, <1>10 DEF D

-----------------------------------------------------------------------------
(* HeapScheduler.                                                          *)

\* What is not before is ordered too.
LEMMA NotLess ==
    /\ \A a, b \in EventKey : Less(a, b) => ~Less(b, a)
    /\ \A a, b, c \in EventKey : ~Less(a, b) /\ ~Less(b, c) => ~Less(a, c)
    /\ \A a, b, c \in EventKey : ~Less(a, b) /\ Less(c, b) => ~Less(a, c)
    /\ \A a, b, c \in EventKey : Less(a, b) /\ ~Less(c, b) => ~Less(c, a)
BY DEF Less, EventKey

\* The parent of an index below the root.
LEMMA Half ==
    ASSUME NEW j \in Nat, j >= 2
    PROVE  /\ j \div 2 \in Nat /\ 1 <= j \div 2 /\ j \div 2 < j
           /\ j = 2 * (j \div 2) \/ j = 2 * (j \div 2) + 1
OBVIOUS

\* Both children of an index have it as parent.
LEMMA Doubled == \A i \in Nat : (i * 2) \div 2 = i /\ (i * 2 + 1) \div 2 = i
OBVIOUS

\* r is h with two elements exchanged.
Exchanged(r, h, a, b) ==
    /\ r \in Seq(EventKey) /\ Len(r) = Len(h)
    /\ r[a] = h[b] /\ r[b] = h[a]
    /\ \A j \in 1..Len(h) : j # a /\ j # b => r[j] = h[j]

\* Exch exchanges two elements.
LEMMA HeapExch ==
    ASSUME NEW h \in Seq(EventKey), NEW a \in 1..Len(h), NEW b \in 1..Len(h)
    PROVE  Exchanged(Heap!Exch(h, a, b), h, a, b)
<1> DEFINE r == Heap!Exch(h, a, b)
<1>1. h[a] \in EventKey /\ h[b] \in EventKey /\ DOMAIN h = 1..Len(h) /\ Len(h) \in Nat
    OBVIOUS
<1>2. r = [h EXCEPT ![a] = h[b], ![b] = h[a]]
    BY DEF Heap!Exch
<1>3. r = [j \in 1..Len(h) |-> IF j = b THEN h[a] ELSE IF j = a THEN h[b] ELSE h[j]]
    BY <1>1, <1>2
<1> HIDE DEF r
<1>4. r \in Seq(EventKey) /\ Len(r) = Len(h)
  <2>1. \A j \in 1..Len(h) : (IF j = b THEN h[a] ELSE IF j = a THEN h[b] ELSE h[j]) \in EventKey
      BY <1>1
  <2>2. r \in [1..Len(h) -> EventKey]
      BY <1>3, <2>1
  <2>3. r \in Seq(EventKey)
      BY <1>1, <2>2, SeqDef
  <2> QED
      BY <1>1, <2>2, <2>3, LenProperties
<1>5. r[a] = h[b] /\ r[b] = h[a] /\ \A j \in 1..Len(h) : j # a /\ j # b => r[j] = h[j]
    BY <1>3
<1> QED
    BY <1>4, <1>5 DEF Exchanged, r

\* An exchange neither loses nor duplicates an event.
LEMMA ExchangedMembers ==
    ASSUME NEW h \in Seq(EventKey), NEW a \in 1..Len(h), NEW b \in 1..Len(h), NEW r,
           Exchanged(r, h, a, b)
    PROVE  /\ Seqs!ToSet(r) = Seqs!ToSet(h)
           /\ Distinct(h) => Distinct(r)
<1>1. /\ r \in Seq(EventKey) /\ Len(r) = Len(h) /\ r[a] = h[b] /\ r[b] = h[a]
      /\ \A j \in 1..Len(h) : j # a /\ j # b => r[j] = h[j]
    BY DEF Exchanged
<1>2. Seqs!ToSet(h) = {h[j] : j \in 1..Len(h)} /\ Seqs!ToSet(r) = {r[j] : j \in 1..Len(h)}
    BY <1>1, Members
<1>3. \A j \in 1..Len(h) : \E k \in 1..Len(h) : r[j] = h[k]
    BY <1>1
<1>4. \A j \in 1..Len(h) : \E k \in 1..Len(h) : h[j] = r[k]
    BY <1>1
<1>5. Seqs!ToSet(r) = Seqs!ToSet(h)
  <2>1. \A x \in Seqs!ToSet(r) : x \in Seqs!ToSet(h)
      BY <1>2, <1>3
  <2>2. \A x \in Seqs!ToSet(h) : x \in Seqs!ToSet(r)
      BY <1>2, <1>4
  <2> QED
      BY <2>1, <2>2
<1>6. ASSUME Distinct(h), NEW i \in 1..Len(h), NEW j \in 1..Len(h), r[i] = r[j] PROVE i = j
    BY <1>1, <1>6 DEF Distinct
<1>7. Distinct(h) => Distinct(r)
    BY <1>1, <1>6 DEF Distinct
<1> QED
    BY <1>5, <1>7

\* No event precedes its parent.
HeapOrdered(h) == \A j \in 2..Len(h) : ~Less(h[j], h[j \div 2])

\* The root of an ordered heap is the earliest event.
LEMMA RootEarliest ==
    ASSUME NEW h \in Seq(EventKey), h # <<>>, HeapOrdered(h)
    PROVE  IsEarliest(h[1], Seqs!ToSet(h)) /\ h[1] \in EventKey
<1>1. Len(h) \in Nat /\ 1 \in 1..Len(h) /\ \A j \in 1..Len(h) : h[j] \in EventKey
    BY EmptySeq
<1> DEFINE Bad == {j \in 1..Len(h) : Less(h[j], h[1])}
<1>2. Bad = {}
  <2>1. SUFFICES ASSUME Bad # {} PROVE FALSE
      OBVIOUS
  <2>2. PICK j \in Bad : \A k \in Bad : j <= k
    <3>1. Bad \in SUBSET Nat
        OBVIOUS
    <3> HIDE DEF Bad
    <3> QED
        BY <2>1, <3>1, LeastNumber
  <2>3. j \in 1..Len(h) /\ Less(h[j], h[1])
      OBVIOUS
  <2>4. j # 1
      BY <1>1, <2>3, LessIrreflexive
  <2>5. j \in Nat /\ j >= 2 /\ j \in 2..Len(h)
      BY <1>1, <2>3, <2>4
  <2>6. j \div 2 \in 1..Len(h) /\ ~(j <= j \div 2)
      BY <1>1, <2>5, Half
  <2>7. ~Less(h[j \div 2], h[1])
      BY <2>2, <2>6
  <2>8. ~Less(h[j], h[j \div 2])
      BY <2>5 DEF HeapOrdered
  <2>9. ~Less(h[j], h[1])
      BY <1>1, <2>3, <2>6, <2>7, <2>8, NotLess
  <2> QED
      BY <2>3, <2>9
<1>3. ASSUME NEW e \in Seqs!ToSet(h) \ {h[1]} PROVE Less(h[1], e)
  <2>1. PICK j \in 1..Len(h) : e = h[j]
      BY Members
  <2>2. ~Less(h[j], h[1])
      BY <1>2
  <2> QED
      BY <1>1, <1>3, <2>1, <2>2, LessTotal
<1>4. h[1] \in Seqs!ToSet(h)
    BY <1>1, Members
<1> QED
    BY <1>1, <1>3, <1>4 DEF IsEarliest

\* An iteration of BottomUp or TopDown is at a heap with the events of h.
At(h) == {at \in [heap : Seq(EventKey), index : Nat \ {0}] :
             /\ Len(at.heap) = Len(h)
             /\ Seqs!ToSet(at.heap) = Seqs!ToSet(h)
             /\ Distinct(h) => Distinct(at.heap)}

\* A state of a loop of the heap: a permuted heap and an index.
LEMMA AtFacts ==
    ASSUME NEW h \in Seq(EventKey), NEW at \in At(h)
    PROVE  /\ at.heap \in Seq(EventKey) /\ at.index \in Nat /\ at.index # 0
           /\ Len(at.heap) = Len(h) /\ Len(h) \in Nat
           /\ \A j \in 1..Len(h) : at.heap[j] \in EventKey
BY DEF At

\* An exchange leads to another such state.
LEMMA AtExchanged ==
    ASSUME NEW h \in Seq(EventKey), NEW at \in At(h),
           NEW a \in 1..Len(h), NEW b \in 1..Len(h), NEW r, Exchanged(r, at.heap, a, b)
    PROVE  [heap |-> r, index |-> b] \in At(h)
<1> DEFINE g == at.heap
<1>1. /\ g \in Seq(EventKey) /\ Len(g) = Len(h) /\ Seqs!ToSet(g) = Seqs!ToSet(h)
      /\ Distinct(h) => Distinct(g)
    BY DEF At
<1>2. Exchanged(r, g, a, b)
    OBVIOUS
<1> HIDE DEF g
<1>3. Seqs!ToSet(r) = Seqs!ToSet(h) /\ (Distinct(h) => Distinct(r))
    BY <1>1, <1>2, ExchangedMembers
<1>4. r \in Seq(EventKey) /\ Len(r) = Len(h)
    BY <1>1, <1>2 DEF Exchanged
<1>5. b \in Nat \ {0}
    OBVIOUS
<1> QED
    BY <1>3, <1>4, <1>5 DEF At

\* Around an index i of g, the heap is ordered but for i and its parent.
Climbing(g, i) ==
    /\ i \in 1..Len(g)
    /\ \A j \in 2..Len(g) : j # i => ~Less(g[j], g[j \div 2])
    /\ \A j \in 2..Len(g) : j \div 2 = i /\ i >= 2 => ~Less(g[j], g[i \div 2])

\* Where BottomUp stops.
Climbed(g, i) == i = 1 \/ ~Less(g[i], g[i \div 2])

\* BottomUp may stop where its element does not precede its parent.
LEMMA ClimbedOrdered ==
    ASSUME NEW g, NEW i, Climbing(g, i), Climbed(g, i)
    PROVE  HeapOrdered(g)
BY DEF Climbing, Climbed, HeapOrdered

\* An exchange with the parent leaves only the parent's place in question.
LEMMA ClimbingStep ==
    ASSUME NEW g \in Seq(EventKey), NEW i, Climbing(g, i), ~Climbed(g, i),
           NEW r, Exchanged(r, g, i, i \div 2)
    PROVE  Climbing(r, i \div 2) /\ i \div 2 < i /\ i \div 2 \in 1..Len(g)
<1> DEFINE p == i \div 2
<1>1. Len(g) \in Nat /\ \A j \in 1..Len(g) : g[j] \in EventKey
    OBVIOUS
<1>2. i \in 2..Len(g) /\ i \in 1..Len(g) /\ Less(g[i], g[p])
    BY <1>1 DEF Climbing, Climbed
<1>3. p \in 1..Len(g) /\ p < i
    BY <1>1, <1>2, Half
<1>4. ASSUME NEW j \in 2..Len(g)
      PROVE  j \in 1..Len(g) /\ j \div 2 \in 1..Len(g) /\ j \div 2 < j
    BY <1>1, Half
<1>5. /\ Len(r) = Len(g) /\ r[i] = g[p] /\ r[p] = g[i]
      /\ \A j \in 1..Len(g) : j # i /\ j # p => r[j] = g[j]
    BY DEF Exchanged
<1>6. \A j \in 2..Len(g) : j # i => ~Less(g[j], g[j \div 2])
    BY DEF Climbing
<1>7. \A j \in 2..Len(g) : j \div 2 = i => ~Less(g[j], g[p])
    BY <1>2 DEF Climbing
<1>8. ASSUME NEW j \in 2..Len(g), j # p PROVE ~Less(r[j], r[j \div 2])
  <2>1. CASE j = i
      BY <1>1, <1>2, <1>3, <1>5, <2>1, NotLess
  <2>2. CASE j # i /\ j \div 2 = i
      BY <1>4, <1>5, <1>7, <1>8, <2>2
  <2>3. CASE j # i /\ j \div 2 = p
    <3>1. r[j] = g[j] /\ r[j \div 2] = g[i] /\ ~Less(g[j], g[p])
        BY <1>4, <1>5, <1>6, <1>8, <2>3
    <3> QED
        BY <1>1, <1>2, <1>3, <1>4, <3>1, NotLess
  <2>4. CASE j # i /\ j \div 2 # i /\ j \div 2 # p
      BY <1>4, <1>5, <1>6, <1>8, <2>4
  <2> QED
      BY <2>1, <2>2, <2>3, <2>4
<1>9. ASSUME NEW j \in 2..Len(g), j \div 2 = p, p >= 2 PROVE ~Less(r[j], r[p \div 2])
  <2>1. p \in 2..Len(g)
      BY <1>3, <1>9
  <2>2. p \div 2 \in 1..Len(g) /\ p \div 2 < p
      BY <1>4, <2>1
  <2>3. r[p \div 2] = g[p \div 2]
      BY <1>3, <1>5, <2>2
  <2>4. ~Less(g[p], g[p \div 2])
      BY <1>3, <1>6, <2>1
  <2>5. CASE j = i
      BY <1>5, <2>3, <2>4, <2>5
  <2>6. CASE j # i
    <3>1. j # p
        BY <1>4, <1>9
    <3>2. r[j] = g[j] /\ ~Less(g[j], g[p])
        BY <1>4, <1>5, <1>6, <1>9, <2>6, <3>1
    <3> QED
        BY <1>1, <1>3, <1>4, <2>2, <2>3, <2>4, <3>2, NotLess
  <2> QED
      BY <2>5, <2>6
<1> QED
    BY <1>3, <1>5, <1>8, <1>9 DEF Climbing

\* Around an index i of g, the heap is ordered but for i and its children.
Descending(g, i) ==
    /\ \A j \in 2..Len(g) : j \div 2 # i => ~Less(g[j], g[j \div 2])
    /\ \A j \in 2..Len(g) : j \div 2 = i /\ i >= 2 => ~Less(g[j], g[i \div 2])

\* c is the smallest child of i.
LeastChild(g, i, c) ==
    /\ c \in 2..Len(g) /\ c \div 2 = i
    /\ \A j \in 2..Len(g) : j \div 2 = i => ~Less(g[j], g[c])

\* TopDown may stop where its element precedes its least child.
LEMMA DescendedOrdered ==
    ASSUME NEW g \in Seq(EventKey), NEW i \in Nat, Descending(g, i),
           \/ i * 2 > Len(g)
           \/ \E c : LeastChild(g, i, c) /\ Less(g[i], g[c])
    PROVE  HeapOrdered(g)
<1>1. Len(g) \in Nat /\ \A j \in 1..Len(g) : g[j] \in EventKey
    OBVIOUS
<1>2. SUFFICES ASSUME NEW j \in 2..Len(g), j \div 2 = i PROVE ~Less(g[j], g[i])
    BY DEF Descending, HeapOrdered
<1>3. j \in 1..Len(g) /\ i \in 1..Len(g) /\ ~(i * 2 > Len(g))
    BY <1>1, <1>2, Half
<1>4. PICK c : LeastChild(g, i, c) /\ Less(g[i], g[c])
    BY <1>3
<1>5. c \in 1..Len(g) /\ ~Less(g[j], g[c])
    BY <1>1, <1>2, <1>4 DEF LeastChild
<1> QED
    BY <1>1, <1>3, <1>4, <1>5, NotLess

\* An exchange with the least child leaves only that child's place in question.
LEMMA DescendingStep ==
    ASSUME NEW g \in Seq(EventKey), NEW i \in Nat, Descending(g, i), NEW c, LeastChild(g, i, c),
           ~Less(g[i], g[c]), NEW r, Exchanged(r, g, i, c)
    PROVE  Descending(r, c)
<1>1. Len(g) \in Nat /\ \A j \in 1..Len(g) : g[j] \in EventKey
    OBVIOUS
<1>2. ASSUME NEW j \in 2..Len(g)
      PROVE  j \in 1..Len(g) /\ j \div 2 \in 1..Len(g) /\ j \div 2 < j
    BY <1>1, Half
<1>3. c \in 2..Len(g) /\ c \div 2 = i /\ i \in 1..Len(g) /\ i < c /\ c \in 1..Len(g)
    BY <1>2 DEF LeastChild
<1>4. /\ Len(r) = Len(g) /\ r[i] = g[c] /\ r[c] = g[i]
      /\ \A j \in 1..Len(g) : j # i /\ j # c => r[j] = g[j]
    BY DEF Exchanged
<1>5. \A j \in 2..Len(g) : j \div 2 # i => ~Less(g[j], g[j \div 2])
    BY DEF Descending
<1>6. \A j \in 2..Len(g) : j \div 2 = i => ~Less(g[j], g[c])
    BY DEF LeastChild
<1>7. ASSUME NEW j \in 2..Len(g), j \div 2 # c PROVE ~Less(r[j], r[j \div 2])
  <2>1. CASE j = c
      BY <1>3, <1>4, <2>1
  <2>2. CASE j # c /\ j \div 2 = i
    <3>1. j # i
        BY <1>2, <2>2
    <3> QED
        BY <1>2, <1>4, <1>6, <2>2, <3>1
  <2>3. CASE j = i
    <3>1. i >= 2 /\ j \div 2 # i /\ j \div 2 # c /\ j \div 2 = i \div 2
        BY <1>2, <1>7, <2>3
    <3>2. ~Less(g[c], g[i \div 2])
        BY <1>3, <3>1 DEF Descending
    <3> QED
        BY <1>2, <1>4, <2>3, <3>1, <3>2
  <2>4. CASE j # c /\ j # i /\ j \div 2 # i
      BY <1>2, <1>4, <1>5, <1>7, <2>4
  <2> QED
      BY <2>1, <2>2, <2>3, <2>4
<1>8. ASSUME NEW j \in 2..Len(g), j \div 2 = c PROVE ~Less(r[j], r[c \div 2])
  <2>1. j # c /\ j # i /\ j \div 2 # i
      BY <1>2, <1>3, <1>8
  <2> QED
      BY <1>2, <1>3, <1>4, <1>5, <1>8, <2>1
<1> QED
    BY <1>4, <1>7, <1>8 DEF Descending

\* r is a heap of the events of h.
HeapOf(r, h) ==
    /\ r \in Seq(EventKey) /\ Len(r) = Len(h) /\ HeapOrdered(r)
    /\ Seqs!ToSet(r) = Seqs!ToSet(h)
    /\ Distinct(h) => Distinct(r)

\* An iteration of BottomUp ends the loop or comes closer to the root.
LEMMA HeapClimb ==
    ASSUME NEW h \in Seq(EventKey), NEW at \in At(h), Climbing(at.heap, at.index)
    PROVE  \/ Heap!Climb(at) = at /\ Climbed(at.heap, at.index)
           \/ /\ ~Climbed(at.heap, at.index)
              /\ Heap!Climb(at) \in At(h) /\ Heap!Climb(at).index < at.index
              /\ Climbing(Heap!Climb(at).heap, Heap!Climb(at).index)
<1> DEFINE g == at.heap
           i == at.index
           p == i \div 2
           r == Heap!Exch(g, i, p)
<1>1. Heap!Climb(at) = IF i = 1 \/ ~Less(g[i], g[p]) THEN at ELSE [heap |-> r, index |-> p]
    BY DEF Heap!Climb, Heap!Parent, Heap!Root, Heap!IsLessStrictly, Heap!Less, Less
<1>2. CASE i = 1 \/ ~Less(g[i], g[p])
    BY <1>1, <1>2 DEF Climbed
<1>3. CASE ~(i = 1 \/ ~Less(g[i], g[p]))
  <2>1. ~Climbed(g, i)
      BY <1>3 DEF Climbed
  <2>2. Climbing(g, i) /\ i \in 1..Len(g) /\ g \in Seq(EventKey) /\ Len(g) = Len(h) /\ Len(h) \in Nat
      BY AtFacts DEF Climbing
  <2> HIDE DEF g, i
  <2>3. p \in 1..Len(g)
    <3>1. i \in Nat /\ i >= 2
        BY <1>3, <2>2
    <3> QED
        BY <2>2, <3>1, Half
  <2>4. Exchanged(r, g, i, p)
      BY <2>2, <2>3, HeapExch
  <2> HIDE DEF r
  <2>5. Climbing(r, p) /\ p < i
      BY <2>1, <2>2, <2>4, ClimbingStep
  <2>6. [heap |-> r, index |-> p] \in At(h)
      BY <2>2, <2>3, <2>4, AtExchanged DEF g, i
  <2>7. Heap!Climb(at) = [heap |-> r, index |-> p]
      BY <1>1, <1>3
  <2> QED
      BY <2>1, <2>5, <2>6, <2>7 DEF g, i
<1> QED
    BY <1>2, <1>3

\* BottomUp restores the order after an element at start came too late.
LEMMA HeapBottomUp ==
    ASSUME NEW h \in Seq(EventKey), NEW start \in 1..Len(h), Climbing(h, start)
    PROVE  HeapOf(Heap!BottomUp(h, start), h)
<1> DEFINE n == Len(h)
           D == [i \in 0..n |-> {at \in At(h) : /\ Climbing(at.heap, at.index)
                                                /\ Climbed(at.heap, at.index) \/ at.index + i <= start}]
           first == [heap |-> h, index |-> start]
           E(f) == [i \in 0..n |-> IF i = 0 THEN first ELSE Heap!Climb(f[i - 1])]
           step == [i \in 1..n |-> [d \in D[i - 1] |-> Heap!Climb(d)]]
           after == CHOOSE f : f = E(f)
<1>1. n \in Nat /\ 0 \in 0..n /\ n \in 0..n /\ \A i \in 1..n : i \in 0..n /\ i - 1 \in 0..n /\ i # 0
    OBVIOUS
<1>2. first \in D[0]
  <2>1. first \in At(h)
      BY DEF At
  <2>2. first.index + 0 <= start
      OBVIOUS
  <2> QED
      BY <1>1, <2>1, <2>2
<1>3. ASSUME NEW i \in 1..n, NEW d \in D[i - 1] PROVE Heap!Climb(d) \in D[i]
  <2>1. /\ d \in At(h) /\ Climbing(d.heap, d.index)
        /\ Climbed(d.heap, d.index) \/ d.index + (i - 1) <= start
      BY <1>1, <1>3
  <2> DEFINE c == Heap!Climb(d)
  <2>2. \/ c = d /\ Climbed(d.heap, d.index)
        \/ ~Climbed(d.heap, d.index) /\ c \in At(h) /\ c.index < d.index /\ Climbing(c.heap, c.index)
      BY <2>1, HeapClimb
  <2>3. CASE c = d /\ Climbed(d.heap, d.index)
      BY <1>1, <2>1, <2>3
  <2>4. CASE ~Climbed(d.heap, d.index) /\ c \in At(h) /\ c.index < d.index /\ Climbing(c.heap, c.index)
    <3>1. d.index \in Nat /\ c.index \in Nat
        BY <2>1, <2>4, AtFacts
    <3>3. c.index + i <= start
        BY <2>1, <2>4, <3>1
    <3> HIDE DEF c
    <3>4. c \in D[i]
        BY <1>1, <2>4, <3>3
    <3> QED
        BY <3>4 DEF c
  <2> QED
      BY <2>2, <2>3, <2>4
<1>4. \A i \in 1..n : \A d \in D[i - 1] : step[i][d] = Heap!Climb(d)
    OBVIOUS
<1>5. after = E(after)
  <2> HIDE DEF D
  <2>1. \A i \in 1..n : \A d \in D[i - 1] : step[i][d] \in D[i]
      BY <1>3, <1>4
  <2> HIDE DEF step, n, first
  <2>2. PICK f : Loop(n, first, step, f) /\ \A i \in 0..n : f[i] \in D[i]
      BY <1>1, <1>2, <2>1, LoopExists
  <2>3. \A i \in 1..n : step[i][f[i - 1]] = Heap!Climb(f[i - 1])
      BY <1>1, <1>4, <2>2
  <2>4. f = E(f)
      BY <1>1, <2>2, <2>3, SMTT(60) DEF Loop
  <2> HIDE DEF E
  <2> QED
      BY <2>4
<1>6. Heap!BottomUp(h, start) = after[n].heap
    BY DEF Heap!BottomUp
<1> HIDE DEF after
<1>7. after[0] = first /\ \A i \in 1..n : after[i] = Heap!Climb(after[i - 1])
    BY <1>1, <1>5
<1> HIDE DEF n, D, first
<1>8. \A i \in 0..n : after[i] \in D[i]
    BY <1>1, <1>2, <1>3, <1>7, Stays
<1>9. PICK at : at = after[n]
    OBVIOUS
<1>10. /\ at \in At(h) /\ Climbing(at.heap, at.index)
       /\ Climbed(at.heap, at.index) \/ at.index + n <= start
    BY <1>1, <1>8, <1>9 DEF D
<1>11. Climbed(at.heap, at.index)
  <2>1. at.index \in Nat /\ at.index # 0
      BY <1>10, AtFacts
  <2>2. start <= n
      BY DEF n
  <2>3. ~(at.index + n <= start)
      BY <1>1, <2>1, <2>2
  <2> QED
      BY <1>10, <2>3
<1>12. HeapOrdered(at.heap)
    BY <1>10, <1>11, ClimbedOrdered
<1> QED
    BY <1>6, <1>9, <1>10, <1>12 DEF HeapOf, At

\* HeapScheduler::Insert keeps the heap ordered and adds the event.
LEMMA HeapPush ==
    ASSUME NEW h \in Seq(EventKey), NEW ev \in EventKey, HeapOrdered(h), Distinct(h), ev \notin Seqs!ToSet(h)
    PROVE  LET r == Heap!Push(h, ev)
           IN  /\ r \in Seq(EventKey) /\ Len(r) = Len(h) + 1 /\ HeapOrdered(r) /\ Distinct(r)
               /\ Seqs!ToSet(r) = Seqs!ToSet(h) \cup {ev}
<1> DEFINE g == Append(h, ev)
           n == Len(h) + 1
<1>1. g \in Seq(EventKey) /\ PutIn(g, h, n, ev) /\ Len(h) \in Nat /\ n \in 1..n
    BY Appended
<1> HIDE DEF g
<1>2. Len(g) = n /\ g[n] = ev /\ \A j \in 1..Len(h) : j < n /\ g[j] = h[j]
    BY <1>1 DEF PutIn
<1>3. Seqs!ToSet(g) = Seqs!ToSet(h) \cup {ev}
    BY <1>1, PutInMembers
<1>4. Distinct(g)
  <2>1. ASSUME NEW i \in 1..Len(g), NEW j \in 1..Len(g), g[i] = g[j], i # j PROVE FALSE
    <3>1. (i \in 1..Len(h) \/ i = n) /\ (j \in 1..Len(h) \/ j = n)
        BY <1>1, <1>2
    <3>2. \A k \in 1..Len(h) : h[k] # ev
        BY Members
    <3> QED
        BY <1>2, <2>1, <3>1, <3>2 DEF Distinct
  <2> QED
      BY <2>1 DEF Distinct
<1>5. Climbing(g, n)
  <2>1. ASSUME NEW j \in 2..Len(g), j # n PROVE ~Less(g[j], g[j \div 2])
    <3>1. j \in 2..Len(h) /\ j \in 1..Len(h)
        BY <1>1, <1>2, <2>1
    <3>2. j \div 2 \in 1..Len(h)
        BY <1>1, <3>1, Half
    <3> QED
        BY <1>2, <3>1, <3>2 DEF HeapOrdered
  <2>2. ASSUME NEW j \in 2..Len(g), j \div 2 = n PROVE FALSE
      BY <1>1, <1>2, <2>2, Half
  <2> QED
      BY <1>1, <1>2, <2>1, <2>2 DEF Climbing
<1>6. Heap!Push(h, ev) = Heap!BottomUp(g, n)
    BY DEF Heap!Push, g
<1> DEFINE r == Heap!Push(h, ev)
<1>7. HeapOf(r, g)
    BY <1>1, <1>2, <1>5, <1>6, HeapBottomUp
<1> HIDE DEF r
<1>8. /\ r \in Seq(EventKey) /\ Len(r) = Len(h) + 1 /\ HeapOrdered(r) /\ Distinct(r)
      /\ Seqs!ToSet(r) = Seqs!ToSet(h) \cup {ev}
    BY <1>2, <1>3, <1>4, <1>7 DEF HeapOf
<1> QED
    BY <1>8 DEF r

\* Where TopDown stops.
Descended(g, i) == i * 2 > Len(g) \/ Less(g[i], g[Heap!Child(g, i)])

\* TopDown compares with the smallest child.
LEMMA HeapChild ==
    ASSUME NEW g \in Seq(EventKey), NEW i \in Nat \ {0}, ~(i * 2 > Len(g))
    PROVE  LeastChild(g, i, Heap!Child(g, i))
<1> DEFINE c == Heap!Child(g, i)
           a == i * 2
           b == i * 2 + 1
<1>1. Len(g) \in Nat /\ a \in 2..Len(g) /\ a \in 1..Len(g) /\ \A j \in 1..Len(g) : g[j] \in EventKey
    OBVIOUS
<1>2. c = IF b > Len(g) THEN a ELSE IF Less(g[a], g[b]) THEN a ELSE b
    BY DEF Heap!Child, Heap!IsBottom, Heap!RightChild, Heap!LeftChild, Heap!Smallest,
           Heap!IsLessStrictly, Heap!Less, Less
<1>3. a \div 2 = i /\ b \div 2 = i
    BY Doubled
<1>4. ASSUME NEW j \in 2..Len(g), j \div 2 = i PROVE j = a \/ (j = b /\ b \in 2..Len(g) /\ ~(b > Len(g)))
    BY <1>1, <1>4, Half
<1>5. ~(b > Len(g)) => b \in 2..Len(g) /\ b \in 1..Len(g)
    BY <1>1
<1> HIDE DEF a, b
<1>6. c \in 2..Len(g) /\ c \div 2 = i
    BY <1>1, <1>2, <1>3, <1>5
<1> HIDE DEF c
<1>7. ASSUME NEW j \in 2..Len(g), j \div 2 = i PROVE ~Less(g[j], g[c])
  <2>1. CASE j = c
    <3>1. g[j] \in EventKey
        BY <1>1
    <3> QED
        BY <2>1, <3>1, LessIrreflexive
  <2>2. CASE j # c
      BY <1>1, <1>2, <1>4, <1>5, <1>7, <2>2, NotLess
  <2> QED
      BY <2>1, <2>2
<1> QED
    BY <1>6, <1>7 DEF LeastChild, c

\* An iteration of TopDown ends the loop or goes further down.
LEMMA HeapDescend ==
    ASSUME NEW h \in Seq(EventKey), NEW at \in At(h), Descending(at.heap, at.index)
    PROVE  \/ Heap!Descend(at) = at /\ Descended(at.heap, at.index)
           \/ /\ ~Descended(at.heap, at.index)
              /\ Heap!Descend(at) \in At(h) /\ Heap!Descend(at).index > at.index
              /\ Descending(Heap!Descend(at).heap, Heap!Descend(at).index)
<1> DEFINE g == at.heap
           i == at.index
           c == Heap!Child(g, i)
           r == Heap!Exch(g, i, c)
<1>1. Heap!Descend(at) = IF i * 2 > Len(g) \/ Less(g[i], g[c]) THEN at ELSE [heap |-> r, index |-> c]
    BY DEF Heap!Descend, Heap!LeftChild, Heap!IsBottom, Heap!IsLessStrictly, Heap!Less, Less
<1>2. g \in Seq(EventKey) /\ Len(g) = Len(h) /\ i \in Nat \ {0} /\ Len(h) \in Nat /\ Descending(g, i)
    BY AtFacts
<1>3. CASE i * 2 > Len(g)
    BY <1>1, <1>3 DEF Descended
<1>4. CASE ~(i * 2 > Len(g))
  <2> HIDE DEF g, i
  <2>1. LeastChild(g, i, c)
      BY <1>2, <1>4, HeapChild
  <2> HIDE DEF c
  <2>2. c \in 1..Len(g) /\ i \in 1..Len(g) /\ c > i
    <3>1. c \in 2..Len(g) /\ c \div 2 = i
        BY <2>1 DEF LeastChild
    <3> QED
        BY <1>2, <3>1, Half
  <2>3. CASE Less(g[i], g[c])
      BY <1>1, <2>3 DEF Descended, c, g, i
  <2>4. CASE ~Less(g[i], g[c])
    <3>1. Exchanged(r, g, i, c)
        BY <1>2, <2>2, HeapExch
    <3> HIDE DEF r
    <3>2. Descending(r, c)
        BY <1>2, <2>1, <2>4, <3>1, DescendingStep
    <3>3. [heap |-> r, index |-> c] \in At(h)
        BY <1>2, <2>2, <3>1, AtExchanged DEF g, i
    <3>4. Heap!Descend(at) = [heap |-> r, index |-> c]
        BY <1>1, <1>4, <2>4
    <3>5. ~Descended(g, i)
        BY <1>4, <2>4 DEF Descended, c
    <3> QED
        BY <2>2, <3>2, <3>3, <3>4, <3>5 DEF g, i
  <2> QED
      BY <2>3, <2>4
<1> QED
    BY <1>3, <1>4

\* TopDown restores the order after the element at start came too early.
LEMMA HeapTopDown ==
    ASSUME NEW h \in Seq(EventKey), NEW start \in Nat \ {0}, Descending(h, start)
    PROVE  HeapOf(Heap!TopDown(h, start), h)
<1> DEFINE n == Len(h)
           D == [i \in 0..n |-> {at \in At(h) : /\ Descending(at.heap, at.index)
                                                /\ Descended(at.heap, at.index) \/ at.index > i}]
           first == [heap |-> h, index |-> start]
           E(f) == [i \in 0..n |-> IF i = 0 THEN first ELSE Heap!Descend(f[i - 1])]
           step == [i \in 1..n |-> [d \in D[i - 1] |-> Heap!Descend(d)]]
           after == CHOOSE f : f = E(f)
<1>1. n \in Nat /\ 0 \in 0..n /\ n \in 0..n /\ \A i \in 1..n : i \in 0..n /\ i - 1 \in 0..n /\ i # 0
    OBVIOUS
<1>2. first \in D[0]
  <2>1. first \in At(h)
      BY DEF At
  <2>2. first.index > 0
      OBVIOUS
  <2> QED
      BY <1>1, <2>1, <2>2
<1>3. ASSUME NEW i \in 1..n, NEW d \in D[i - 1] PROVE Heap!Descend(d) \in D[i]
  <2>1. /\ d \in At(h) /\ Descending(d.heap, d.index)
        /\ Descended(d.heap, d.index) \/ d.index > i - 1
      BY <1>1, <1>3
  <2> DEFINE c == Heap!Descend(d)
  <2>2. \/ c = d /\ Descended(d.heap, d.index)
        \/ ~Descended(d.heap, d.index) /\ c \in At(h) /\ c.index > d.index /\ Descending(c.heap, c.index)
      BY <2>1, HeapDescend
  <2>3. CASE c = d /\ Descended(d.heap, d.index)
      BY <1>1, <2>1, <2>3
  <2>4. CASE c \in At(h) /\ c.index > d.index /\ Descending(c.heap, c.index) /\ ~Descended(d.heap, d.index)
    <3>1. d.index \in Nat /\ c.index \in Nat
        BY <2>1, <2>4, AtFacts
    <3>2. c.index > i
        BY <2>1, <2>4, <3>1
    <3> HIDE DEF c
    <3>3. c \in D[i]
        BY <1>1, <2>4, <3>2
    <3> QED
        BY <3>3 DEF c
  <2> QED
      BY <2>2, <2>3, <2>4
<1>4. \A i \in 1..n : \A d \in D[i - 1] : step[i][d] = Heap!Descend(d)
    OBVIOUS
<1>5. after = E(after)
  <2> HIDE DEF D
  <2>1. \A i \in 1..n : \A d \in D[i - 1] : step[i][d] \in D[i]
      BY <1>3, <1>4
  <2> HIDE DEF step, n, first
  <2>2. PICK f : Loop(n, first, step, f) /\ \A i \in 0..n : f[i] \in D[i]
      BY <1>1, <1>2, <2>1, LoopExists
  <2>3. \A i \in 1..n : step[i][f[i - 1]] = Heap!Descend(f[i - 1])
      BY <1>1, <1>4, <2>2
  <2>4. f = E(f)
      BY <1>1, <2>2, <2>3 DEF Loop
  <2> HIDE DEF E
  <2> QED
      BY <2>4
<1>6. Heap!TopDown(h, start) = after[n].heap
    BY DEF Heap!TopDown
<1> HIDE DEF after
<1>7. after[0] = first /\ \A i \in 1..n : after[i] = Heap!Descend(after[i - 1])
    BY <1>1, <1>5
<1> HIDE DEF n, D, first
<1>8. \A i \in 0..n : after[i] \in D[i]
    BY <1>1, <1>2, <1>3, <1>7, Stays
<1>9. PICK at : at = after[n]
    OBVIOUS
<1>10. /\ at \in At(h) /\ Descending(at.heap, at.index)
       /\ Descended(at.heap, at.index) \/ at.index > n
    BY <1>1, <1>8, <1>9 DEF D
<1>11. at.heap \in Seq(EventKey) /\ at.index \in Nat /\ Len(at.heap) = n
    BY <1>10, AtFacts DEF n
<1>12. Descended(at.heap, at.index)
    BY <1>1, <1>10, <1>11 DEF Descended
<1>13. HeapOrdered(at.heap)
  <2>1. \/ at.index * 2 > Len(at.heap)
        \/ /\ LeastChild(at.heap, at.index, Heap!Child(at.heap, at.index))
           /\ Less(at.heap[at.index], at.heap[Heap!Child(at.heap, at.index)])
    <3>1. at.index \in Nat \ {0}
        BY <1>10, AtFacts
    <3> QED
        BY <1>11, <1>12, <3>1, HeapChild DEF Descended
  <2> QED
      BY <1>10, <1>11, <2>1, DescendedOrdered
<1> QED
    BY <1>6, <1>9, <1>10, <1>13 DEF HeapOf, At

\* The last event may take the place of the one at i.
Spared(h, i) == i = 1 \/ i = Len(h) \/ ~Less(h[Len(h)], h[i \div 2])

\* Taking the i-th event off a heap, when the last one may take its place, leaves a
\* heap of the others.
LEMMA HeapExtract ==
    ASSUME NEW h \in Seq(EventKey), HeapOrdered(h), Distinct(h), NEW i \in 1..Len(h), Spared(h, i)
    PROVE  LET r == Heap!Extract(h, i)
           IN  /\ r \in Seq(EventKey) /\ Len(r) = Len(h) - 1 /\ HeapOrdered(r) /\ Distinct(r)
               /\ Seqs!ToSet(r) = Seqs!ToSet(h) \ {h[i]}
<1> DEFINE n == Len(h)
           g == Heap!Exch(h, i, n)
           f == Seqs!Front(g)
           r == Heap!Extract(h, i)
<1>1. n \in Nat /\ n \in 1..n /\ n - 1 \in 0..n /\ \A j \in 1..n : h[j] \in EventKey
    OBVIOUS
<1>2. Exchanged(g, h, i, n)
    BY <1>1, HeapExch
<1> HIDE DEF g
<1>3. /\ g \in Seq(EventKey) /\ Len(g) = n /\ g[i] = h[n] /\ g[n] = h[i]
      /\ \A j \in 1..n : j # i /\ j # n => g[j] = h[j]
    BY <1>2 DEF Exchanged
<1>4. Seqs!ToSet(g) = Seqs!ToSet(h) /\ Distinct(g)
    BY <1>1, <1>2, ExchangedMembers
<1>5. f \in Seq(EventKey) /\ Len(f) = n - 1 /\ \A j \in 1..n - 1 : f[j] = g[j]
    BY <1>1, <1>3, Prefix DEF Seqs!Front
<1> HIDE DEF f
<1>6. TakenOut(f, g, n)
  <2>1. \A j \in 1..n : (j < n => f[j] = g[j]) /\ ~(n < j)
      BY <1>1, <1>5
  <2>2. Len(f) + 1 = n
      BY <1>1, <1>5
  <2> QED
      BY <1>3, <2>1, <2>2 DEF TakenOut
<1>7. Seqs!ToSet(f) = Seqs!ToSet(h) \ {h[i]}
  <2>1. n \in 1..Len(g)
      BY <1>1, <1>3
  <2> QED
      BY <1>3, <1>4, <1>5, <1>6, <2>1, TakenOutMembers
<1>8. Distinct(f)
  <2>1. \A j \in 1..Len(f) : j \in 1..Len(g) /\ j \in 1..n - 1
      BY <1>1, <1>3, <1>5
  <2> QED
      BY <1>4, <1>5, <2>1 DEF Distinct
<1>9. ASSUME NEW j \in 2..n - 1
      PROVE  /\ j \in 1..n - 1 /\ j \div 2 \in 1..n - 1 /\ j \in 1..n /\ j \div 2 \in 1..n
             /\ j # n /\ j \div 2 # n /\ j \in 2..n /\ j \div 2 # j
    BY <1>1, Half
<1>10. \A j \in 2..n : ~Less(h[j], h[j \div 2])
    BY DEF HeapOrdered
<1>11. Descending(f, i)
  <2>1. ASSUME NEW j \in 2..n - 1, j \div 2 # i PROVE ~Less(f[j], f[j \div 2])
    <3>1. f[j] = g[j] /\ f[j \div 2] = h[j \div 2]
        BY <1>3, <1>5, <1>9, <2>1
    <3>2. CASE j = i
      <4>1. i # 1 /\ i # n
          BY <1>9, <3>2
      <4> QED
          BY <1>3, <3>1, <3>2, <4>1 DEF Spared
    <3>3. CASE j # i
        BY <1>3, <1>9, <1>10, <3>1, <3>3
    <3> QED
        BY <3>2, <3>3
  <2>2. ASSUME NEW j \in 2..n - 1, j \div 2 = i, i >= 2 PROVE ~Less(f[j], f[i \div 2])
    <3>1. i \in 2..n - 1
        BY <1>1, <1>9, <2>2
    <3>2. i \div 2 \in 1..n - 1 /\ i \div 2 # i /\ i \div 2 # n /\ i \div 2 \in 1..n /\ i \in 2..n
        BY <1>9, <3>1
    <3>3. f[i \div 2] = h[i \div 2]
        BY <1>3, <1>5, <3>2
    <3>4. f[j] = h[j]
        BY <1>3, <1>5, <1>9, <2>2
    <3>5. ~Less(h[j], h[i]) /\ ~Less(h[i], h[i \div 2])
        BY <1>9, <1>10, <2>2, <3>2
    <3> QED
        BY <1>1, <1>9, <3>2, <3>3, <3>4, <3>5, NotLess
  <2> QED
      BY <1>5, <2>1, <2>2 DEF Descending
<1>12. r = Heap!TopDown(f, i)
    BY DEF Heap!Extract, Heap!Last, Heap!Seqs!Front, f, Seqs!Front, g
<1>13. HeapOf(r, f)
    BY <1>5, <1>11, <1>12, HeapTopDown
<1> HIDE DEF r
<1>14. /\ r \in Seq(EventKey) /\ Len(r) = Len(h) - 1 /\ HeapOrdered(r) /\ Distinct(r)
       /\ Seqs!ToSet(r) = Seqs!ToSet(h) \ {h[i]}
    BY <1>5, <1>7, <1>8, <1>13 DEF HeapOf
<1> QED
    BY <1>14 DEF r

\* A set from which the elements of e are taken one after the other.
LEMMA Drain ==
    ASSUME NEW S, NEW e \in Seq(S), NEW C,
           \A i \in 1..Len(e) : e[i] \in C[i - 1] /\ C[i] = C[i - 1] \ {e[i]}
    PROVE  /\ Distinct(e)
           /\ C[0] = C[Len(e)] \cup Seqs!ToSet(e)
           /\ C[Len(e)] \cap Seqs!ToSet(e) = {}
<1> DEFINE n == Len(e)
           Good == {i \in 0..n : C[0] = C[i] \cup FirstOf(e, i) /\ C[i] \cap FirstOf(e, i) = {}}
<1>1. n \in Nat
    OBVIOUS
<1>2. 0 \in Good
    BY FirstOfEnds
<1>3. ASSUME NEW i \in 1..n PROVE FirstOf(e, i) = FirstOf(e, i - 1) \cup {e[i]}
  <2>1. \A k \in 1..i : k = i \/ k \in 1..i - 1
      OBVIOUS
  <2>2. \A k \in 1..i - 1 : k \in 1..i
      OBVIOUS
  <2>3. i \in 1..i
      OBVIOUS
  <2> QED
      BY <2>1, <2>2, <2>3 DEF FirstOf
<1>4. ASSUME NEW i \in 1..n, i - 1 \in Good PROVE i \in Good
  <2>1. i \in 0..n
      OBVIOUS
  <2>2. C[0] = C[i - 1] \cup FirstOf(e, i - 1) /\ C[i - 1] \cap FirstOf(e, i - 1) = {}
      BY <1>4
  <2> QED
      BY <1>3, <2>1, <2>2
<1> HIDE DEF Good
<1>5. \A i \in 0..n : i \in Good
    BY <1>1, <1>2, <1>4, UpTo
<1>6. ASSUME NEW i \in 1..n, NEW j \in 1..n, i < j PROVE e[i] # e[j]
  <2>1. j - 1 \in 0..n /\ i \in 1..j - 1
      BY <1>6
  <2>2. C[j - 1] \cap FirstOf(e, j - 1) = {}
      BY <1>5, <2>1 DEF Good
  <2>3. e[i] \in FirstOf(e, j - 1)
      BY <2>1 DEF FirstOf
  <2> QED
      BY <2>2, <2>3
<1>7. Distinct(e)
  <2>1. \A i, j \in 1..n : i # j => i < j \/ j < i
      OBVIOUS
  <2> QED
      BY <1>6, <2>1 DEF Distinct
<1>8. n \in 0..n
    OBVIOUS
<1> QED
    BY <1>5, <1>7, <1>8, FirstOfEnds DEF Good

\* RemoveNext until the heap is empty hands out every event once.
LEMMA HeapDrained ==
    ASSUME NEW h \in Seq(EventKey), HeapOrdered(h), Distinct(h)
    PROVE  /\ Heap!Drained(h) \in Seq(EventKey) /\ Distinct(Heap!Drained(h))
           /\ Seqs!ToSet(Heap!Drained(h)) = Seqs!ToSet(h) /\ Len(Heap!Drained(h)) = Len(h)
<1> DEFINE n == Len(h)
           D == [i \in 0..n |-> {g \in Seq(EventKey) : HeapOrdered(g) /\ Distinct(g) /\ Len(g) = n - i}]
           E(f) == [i \in 0..n |-> IF i = 0 THEN h ELSE Heap!Extract(f[i - 1], 1)]
           step == [i \in 1..n |-> [d \in D[i - 1] |-> Heap!Extract(d, 1)]]
           after == CHOOSE f : f = E(f)
<1>1. n \in Nat /\ 0 \in 0..n /\ n \in 0..n /\ \A i \in 1..n : i \in 0..n /\ i - 1 \in 0..n /\ i # 0
    OBVIOUS
<1>2. h \in D[0]
    BY <1>1
<1>3. ASSUME NEW i \in 1..n, NEW d \in D[i - 1]
      PROVE  /\ Heap!Extract(d, 1) \in D[i] /\ d[1] \in EventKey /\ d[1] \in Seqs!ToSet(d)
             /\ Seqs!ToSet(Heap!Extract(d, 1)) = Seqs!ToSet(d) \ {d[1]}
  <2>1. d \in Seq(EventKey) /\ HeapOrdered(d) /\ Distinct(d) /\ Len(d) = n - (i - 1)
      BY <1>1, <1>3
  <2>2. 1 \in 1..Len(d) /\ Len(d) - 1 = n - i
      BY <1>1, <2>1
  <2>3. Spared(d, 1)
      BY DEF Spared
  <2> DEFINE r == Heap!Extract(d, 1)
  <2>4. /\ r \in Seq(EventKey) /\ Len(r) = Len(d) - 1 /\ HeapOrdered(r) /\ Distinct(r)
        /\ Seqs!ToSet(r) = Seqs!ToSet(d) \ {d[1]}
      BY <2>1, <2>2, <2>3, HeapExtract
  <2> HIDE DEF r
  <2>5. r \in D[i]
      BY <1>1, <2>2, <2>4
  <2>6. d[1] \in EventKey /\ d[1] \in Seqs!ToSet(d)
      BY <2>1, <2>2, Members
  <2> QED
      BY <2>4, <2>5, <2>6 DEF r
<1>4. \A i \in 1..n : \A d \in D[i - 1] : step[i][d] = Heap!Extract(d, 1)
    OBVIOUS
<1>5. after = E(after)
  <2> HIDE DEF D
  <2>1. \A i \in 1..n : \A d \in D[i - 1] : step[i][d] \in D[i]
      BY <1>3, <1>4
  <2> HIDE DEF step, n
  <2>2. PICK f : Loop(n, h, step, f) /\ \A i \in 0..n : f[i] \in D[i]
      BY <1>1, <1>2, <2>1, LoopExists
  <2>3. \A i \in 1..n : step[i][f[i - 1]] = Heap!Extract(f[i - 1], 1)
      BY <1>1, <1>4, <2>2
  <2>4. f = E(f)
      BY <1>1, <2>2, <2>3, SMTT(60) DEF Loop
  <2> HIDE DEF E
  <2> QED
      BY <2>4
<1>6. Heap!Drained(h) = [i \in 1..n |-> after[i - 1][1]]
    BY DEF Heap!Drained, Heap!Root
<1> HIDE DEF after
<1>7. after[0] = h /\ \A i \in 1..n : after[i] = Heap!Extract(after[i - 1], 1)
    BY <1>1, <1>5
<1> HIDE DEF n, D
<1>8. \A i \in 0..n : after[i] \in D[i]
  <2>1. \A i \in 1..n : after[i - 1] \in D[i - 1] => after[i] \in D[i]
      BY <1>3, <1>7
  <2> QED
      BY <1>1, <1>2, <1>7, <2>1, Stays
<1> DEFINE e == Heap!Drained(h)
           C == [i \in 0..n |-> Seqs!ToSet(after[i])]
<1>9. \A i \in 1..n : after[i - 1][1] \in EventKey
    BY <1>1, <1>3, <1>8
<1>10. e \in Seq(EventKey) /\ Len(e) = n
  <2>1. e \in [1..n -> EventKey]
      BY <1>6, <1>9
  <2> HIDE DEF e
  <2>2. e \in Seq(EventKey)
      BY <1>1, <2>1, SeqDef
  <2> QED
      BY <1>1, <2>1, <2>2, LenProperties
<1>11. ASSUME NEW i \in 1..n PROVE e[i] \in C[i - 1] /\ C[i] = C[i - 1] \ {e[i]}
  <2>1. e[i] = after[i - 1][1]
      BY <1>6
  <2>2. C[i] = Seqs!ToSet(after[i]) /\ C[i - 1] = Seqs!ToSet(after[i - 1])
      BY <1>1
  <2>3. after[i - 1] \in D[i - 1] /\ after[i] = Heap!Extract(after[i - 1], 1)
      BY <1>1, <1>7, <1>8
  <2> QED
      BY <1>3, <2>1, <2>2, <2>3
<1>12. C[0] = Seqs!ToSet(h) /\ C[n] = {}
  <2>1. after[n] \in Seq(EventKey) /\ Len(after[n]) = n - n
      BY <1>1, <1>8 DEF D
  <2>2. 1..Len(after[n]) = {}
      BY <1>1, <2>1
  <2>3. Seqs!ToSet(after[n]) = {}
      BY <2>1, <2>2, Members
  <2> QED
      BY <1>1, <1>7, <2>3
<1> HIDE DEF e, C
<1>13. Distinct(e) /\ C[0] = C[n] \cup Seqs!ToSet(e)
    BY <1>10, <1>11, Drain
<1> QED
    BY <1>10, <1>12, <1>13 DEF e, n

\* Inserting distinct events in turn gives a heap of them.
LEMMA HeapFilled ==
    ASSUME NEW evs \in Seq(EventKey), Distinct(evs)
    PROVE  LET r == Heap!Filled(evs)
           IN  /\ r \in Seq(EventKey) /\ Len(r) = Len(evs) /\ HeapOrdered(r) /\ Distinct(r)
               /\ Seqs!ToSet(r) = Seqs!ToSet(evs)
<1> DEFINE n == Len(evs)
           D == [i \in 0..n |-> {g \in Seq(EventKey) : /\ HeapOrdered(g) /\ Distinct(g) /\ Len(g) = i
                                                       /\ Seqs!ToSet(g) = FirstOf(evs, i)}]
           E(f) == [i \in 0..n |-> IF i = 0 THEN <<>> ELSE Heap!Push(f[i - 1], evs[i])]
           step == [i \in 1..n |-> [d \in D[i - 1] |-> Heap!Push(d, evs[i])]]
           after == CHOOSE f : f = E(f)
<1>1. n \in Nat /\ 0 \in 0..n /\ n \in 0..n /\ \A i \in 1..n : i \in 0..n /\ i - 1 \in 0..n /\ i # 0
    OBVIOUS
<1>2. <<>> \in D[0]
  <2>1. 1..0 = {} /\ 2..0 = {}
      OBVIOUS
  <2>2. HeapOrdered(<<>>) /\ Distinct(<<>>)
      BY <2>1, EmptyList DEF HeapOrdered, Distinct
  <2> QED
      BY <1>1, <2>2, EmptyList, FirstOfEnds
<1>3. ASSUME NEW i \in 1..n, NEW d \in D[i - 1] PROVE Heap!Push(d, evs[i]) \in D[i]
  <2>1. /\ d \in Seq(EventKey) /\ HeapOrdered(d) /\ Distinct(d) /\ Len(d) = i - 1
        /\ Seqs!ToSet(d) = FirstOf(evs, i - 1)
      BY <1>1, <1>3
  <2>2. evs[i] \in EventKey /\ evs[i] \notin Seqs!ToSet(d) /\ FirstOf(evs, i) = Seqs!ToSet(d) \cup {evs[i]}
      BY <2>1, FirstOfNext
  <2> DEFINE r == Heap!Push(d, evs[i])
  <2>3. /\ r \in Seq(EventKey) /\ Len(r) = Len(d) + 1 /\ HeapOrdered(r) /\ Distinct(r)
        /\ Seqs!ToSet(r) = Seqs!ToSet(d) \cup {evs[i]}
      BY <2>1, <2>2, HeapPush
  <2> HIDE DEF r
  <2>4. Len(r) = i /\ Seqs!ToSet(r) = FirstOf(evs, i)
      BY <2>1, <2>2, <2>3
  <2>5. r \in D[i]
      BY <1>1, <2>3, <2>4
  <2> QED
      BY <2>5 DEF r
<1>4. \A i \in 1..n : \A d \in D[i - 1] : step[i][d] = Heap!Push(d, evs[i])
    OBVIOUS
<1>5. after = E(after)
  <2> HIDE DEF D
  <2>1. \A i \in 1..n : \A d \in D[i - 1] : step[i][d] \in D[i]
      BY <1>3, <1>4
  <2> HIDE DEF step, n
  <2>2. PICK f : Loop(n, <<>>, step, f) /\ \A i \in 0..n : f[i] \in D[i]
      BY <1>1, <1>2, <2>1, LoopExists
  <2>3. \A i \in 1..n : step[i][f[i - 1]] = Heap!Push(f[i - 1], evs[i])
      BY <1>1, <1>4, <2>2
  <2>4. f = E(f)
      BY <1>1, <2>2, <2>3 DEF Loop
  <2> HIDE DEF E
  <2> QED
      BY <2>4
<1>6. Heap!Filled(evs) = after[n]
    BY DEF Heap!Filled
<1> HIDE DEF after
<1>7. after[0] = <<>> /\ \A i \in 1..n : after[i] = Heap!Push(after[i - 1], evs[i])
    BY <1>1, <1>5
<1> HIDE DEF n, D
<1>8. \A i \in 0..n : after[i] \in D[i]
    BY <1>1, <1>2, <1>3, <1>7, Stays
<1>9. after[n] \in D[n]
    BY <1>1, <1>8
<1>10. FirstOf(evs, n) = Seqs!ToSet(evs)
    BY FirstOfEnds DEF n
<1> QED
    BY <1>1, <1>6, <1>9, <1>10 DEF D, n

-----------------------------------------------------------------------------
(* Arithmetic of intervals and buckets.                                    *)

\* Quotient and remainder.
LEMMA DivMod ==
    ASSUME NEW t \in Nat, NEW w \in Nat \ {0}
    PROVE  /\ t \div w \in Nat /\ t % w \in Nat /\ t % w < w
           /\ t = w * (t \div w) + (t % w)
OBVIOUS

\* The interval a time stamp is in, by its end.
LEMMA DivBound ==
    ASSUME NEW t \in Nat, NEW w \in Nat \ {0}, NEW k \in Nat
    PROVE  t < (k + 1) * w <=> t \div w <= k
<1>1. t \div w \in Nat /\ t % w \in Nat /\ t % w < w /\ t = w * (t \div w) + (t % w)
    BY DivMod
<1> DEFINE q == t \div w
           r == t % w
<1>2. q \in Nat /\ r \in Nat /\ r < w /\ t = w * q + r
    BY <1>1
<1> HIDE DEF q, r
<1>3. CASE q <= k
  <2>1. PICK d \in Nat : k = q + d
    <3>1. k - q \in Nat /\ k = q + (k - q)
        BY <1>2, <1>3
    <3> QED
        BY <3>1
  <2>2. (k + 1) * w = q * w + d * w + w /\ d * w \in Nat /\ q * w = w * q
      BY <1>2, <2>1
  <2> QED
      BY <1>2, <1>3, <2>2 DEF q
<1>4. CASE ~(q <= k)
  <2>1. PICK d \in Nat : q = k + 1 + d
    <3>1. q - k - 1 \in Nat /\ q = k + 1 + (q - k - 1)
        BY <1>2, <1>4
    <3> QED
        BY <3>1
  <2>2. w * q = (k + 1) * w + d * w /\ d * w \in Nat /\ (k + 1) * w \in Nat
      BY <1>2, <2>1
  <2> QED
      BY <1>2, <1>4, <2>2 DEF q
<1> QED
    BY <1>3, <1>4

\* Two intervals less than a year apart that share a bucket are the same.
LEMMA ModEqual ==
    ASSUME NEW q \in Nat, NEW L \in Nat, NEW n \in Nat \ {0}, NEW k \in Nat, k < n,
           L <= q, q <= L + k, q % n = (L + k) % n
    PROVE  q = L + k
<1> DEFINE a == q \div n
           b == (L + k) \div n
           r == q % n
<1>1. a \in Nat /\ r \in Nat /\ q = n * a + r
    BY DivMod
<1>2. b \in Nat /\ L + k = n * b + r
  <2>1. L + k \in Nat
      OBVIOUS
  <2> QED
      BY <2>1, DivMod
<1> HIDE DEF a, b, r
<1>3. CASE a = b
    BY <1>1, <1>2, <1>3
<1>4. CASE b < a
  <2>1. PICK d \in Nat : a = b + 1 + d
    <3>1. a - b - 1 \in Nat /\ a = b + 1 + (a - b - 1)
        BY <1>1, <1>2, <1>4
    <3> QED
        BY <3>1
  <2>2. n * a = n * b + n + n * d /\ n * d \in Nat /\ n * b \in Nat
      BY <1>2, <2>1
  <2> QED
      BY <1>1, <1>2, <2>2
<1>5. CASE a < b
  <2>1. PICK d \in Nat : b = a + 1 + d
    <3>1. b - a - 1 \in Nat /\ b = a + 1 + (b - a - 1)
        BY <1>1, <1>2, <1>5
    <3> QED
        BY <3>1
  <2>2. n * b = n * a + n + n * d /\ n * d \in Nat /\ n * a \in Nat
      BY <1>1, <2>1
  <2> QED
      BY <1>1, <1>2, <2>2
<1> QED
    BY <1>1, <1>2, <1>3, <1>4, <1>5

\* The k-th bucket from the bucket of an interval.
LEMMA ModAdd ==
    ASSUME NEW L \in Nat, NEW n \in Nat \ {0}, NEW k \in Nat
    PROVE  ((L % n) + k) % n = (L + k) % n
<1> DEFINE a == L \div n
           r == L % n
           b == (r + k) \div n
           s == (r + k) % n
<1>1. a \in Nat /\ r \in Nat /\ L = n * a + r
    BY DivMod
<1>2. r + k \in Nat /\ L + k \in Nat
    BY <1>1
<1>3. b \in Nat /\ s \in Nat /\ s < n /\ r + k = n * b + s
    BY <1>2, DivMod
<1> HIDE DEF a, b, r, s
<1>4. L + k = n * (a + b) + s
    BY <1>1, <1>3
<1> DEFINE c == (L + k) \div n
           u == (L + k) % n
<1>5. c \in Nat /\ u \in Nat /\ u < n /\ L + k = n * c + u
    BY <1>2, DivMod
<1> HIDE DEF c, u
<1>6. u = s
  <2> DEFINE p == a + b
  <2>1. p \in Nat /\ n * p + s = n * c + u
      BY <1>1, <1>3, <1>4, <1>5
  <2> HIDE DEF p
  <2>2. CASE p < c
    <3>1. PICK d \in Nat : c = p + 1 + d
      <4>1. c - p - 1 \in Nat /\ c = p + 1 + (c - p - 1)
          BY <1>5, <2>1, <2>2
      <4> QED
          BY <4>1
    <3>2. n * c = n * p + n + n * d /\ n * d \in Nat /\ n * p \in Nat
        BY <2>1, <3>1
    <3> QED
        BY <1>3, <1>5, <2>1, <3>2
  <2>3. CASE c < p
    <3>1. PICK d \in Nat : p = c + 1 + d
      <4>1. p - c - 1 \in Nat /\ p = c + 1 + (p - c - 1)
          BY <1>5, <2>1, <2>3
      <4> QED
          BY <4>1
    <3>2. n * p = n * c + n + n * d /\ n * d \in Nat /\ n * c \in Nat
        BY <1>5, <3>1
    <3> QED
        BY <1>3, <1>5, <2>1, <3>2
  <2>4. CASE p = c
      BY <1>3, <1>5, <2>1, <2>4
  <2> QED
      BY <1>5, <2>1, <2>2, <2>3, <2>4
<1> QED
    BY <1>6 DEF u, s, r

-----------------------------------------------------------------------------
(* CalendarScheduler.                                                      *)

\* Buckets in any number.
Buckets == UNION {[0..m - 1 -> Seq(EventKey)] : m \in Nat}

\* The calendars.
Cals == {c \in [buckets : Buckets, nBuckets : Nat \ {0}, width : Nat \ {0},
                lastPrio : Nat, lastBucket : Nat, bucketTop : Nat] :
            c.buckets \in [0..c.nBuckets - 1 -> Seq(EventKey)]}

\* The indices of the buckets.
Days(c) == 0..c.nBuckets - 1

\* The fields of a calendar.
LEMMA CalsFacts ==
    ASSUME NEW c \in Cals
    PROVE  /\ c.nBuckets \in Nat \ {0} /\ c.width \in Nat \ {0} /\ c.lastPrio \in Nat
           /\ c.lastBucket \in Nat /\ c.bucketTop \in Nat
           /\ DOMAIN c.buckets = Days(c) /\ c.buckets \in [Days(c) -> Seq(EventKey)]
           /\ \A b \in Days(c) : c.buckets[b] \in Seq(EventKey)
BY DEF Cals, Days

\* Hash yields a bucket.
LEMMA HashFacts ==
    ASSUME NEW c \in Cals, NEW ts \in Nat
    PROVE  Calendar!Hash(c, ts) \in Days(c) /\ Calendar!Hash(c, ts) \in Nat
           /\ Calendar!Hash(c, ts) = (ts \div c.width) % c.nBuckets
<1>1. c.nBuckets \in Nat \ {0} /\ c.width \in Nat \ {0}
    BY CalsFacts
<1>2. ts \div c.width \in Nat
    BY <1>1, DivMod
<1>3. (ts \div c.width) % c.nBuckets \in Nat /\ (ts \div c.width) % c.nBuckets < c.nBuckets
    BY <1>1, <1>2, DivMod
<1> QED
    BY <1>1, <1>3 DEF Calendar!Hash, Days

\* d is c with s as bucket b, and perhaps another position.
Rebucketed(d, c, b, s) ==
    /\ d \in Cals /\ d.nBuckets = c.nBuckets /\ d.width = c.width
    /\ d.buckets[b] = s
    /\ \A k \in Days(c) \ {b} : d.buckets[k] = c.buckets[k]

\* d stands where c stands.
SamePosition(d, c) ==
    d.lastPrio = c.lastPrio /\ d.lastBucket = c.lastBucket /\ d.bucketTop = c.bucketTop

\* Replacing a bucket leaves a calendar.
LEMMA Rebucket ==
    ASSUME NEW c \in Cals, NEW b \in Days(c), NEW s \in Seq(EventKey), NEW d,
           d = [c EXCEPT !.buckets[b] = s]
    PROVE  Rebucketed(d, c, b, s) /\ SamePosition(d, c)
<1> DEFINE B == [c.buckets EXCEPT ![b] = s]
<1>1. B \in [Days(c) -> Seq(EventKey)] /\ B[b] = s /\ \A k \in Days(c) \ {b} : B[k] = c.buckets[k]
    BY CalsFacts
<1>2. c.nBuckets \in Nat \ {0}
    BY CalsFacts
<1>3. B \in Buckets
    BY <1>1, <1>2 DEF Buckets, Days
<1>4. d = [c EXCEPT !.buckets = B]
    OBVIOUS
<1> HIDE DEF B
<1>5. /\ d.nBuckets = c.nBuckets /\ d.width = c.width /\ d.buckets = B /\ SamePosition(d, c)
      /\ d \in [buckets : Buckets, nBuckets : Nat \ {0}, width : Nat \ {0},
                lastPrio : Nat, lastBucket : Nat, bucketTop : Nat]
    BY <1>3, <1>4 DEF Cals, SamePosition
<1>6. d \in Cals
    BY <1>1, <1>5 DEF Cals, Days
<1> QED
    BY <1>1, <1>5, <1>6 DEF Rebucketed

\* c with a bucket and the position replaced.
Moved(c, b, s, x, y, z) ==
    [c EXCEPT !.lastBucket = x, !.lastPrio = y, !.bucketTop = z, !.buckets[b] = s]

\* Replacing a bucket and the position leaves a calendar.
LEMMA RebucketMove ==
    ASSUME NEW c \in Cals, NEW b \in Days(c), NEW s \in Seq(EventKey), NEW d,
           NEW x \in Nat, NEW y \in Nat, NEW z \in Nat,
           d = Moved(c, b, s, x, y, z)
    PROVE  /\ Rebucketed(d, c, b, s)
           /\ d.lastBucket = x /\ d.lastPrio = y /\ d.bucketTop = z
<1> DEFINE m == [c EXCEPT !.lastBucket = x, !.bucketTop = z, !.lastPrio = y]
<1>1. /\ m \in Cals /\ m.nBuckets = c.nBuckets /\ m.width = c.width /\ m.buckets = c.buckets
      /\ m.lastBucket = x /\ m.lastPrio = y /\ m.bucketTop = z
    BY DEF Cals
<1>2. d = [m EXCEPT !.buckets[b] = s]
    BY DEF Cals, Moved
<1> HIDE DEF m
<1>3. Days(m) = Days(c)
    BY <1>1 DEF Days
<1>4. Rebucketed(d, m, b, s) /\ SamePosition(d, m)
    BY <1>1, <1>2, <1>3, Rebucket
<1> QED
    BY <1>1, <1>3, <1>4 DEF Rebucketed, SamePosition

\* The events of a calendar, and its order.
Held(c) == UNION {Seqs!ToSet(c.buckets[b]) : b \in Days(c)}

\* Every event is in the bucket of its time stamp, and the buckets are sorted.
Filed(c, rev) ==
    \A b \in Days(c) : /\ Sorted(c.buckets[b], rev)
                       /\ \A e \in Seqs!ToSet(c.buckets[b]) : Calendar!Hash(c, e.ts) = b

\* The position is the interval of lastPrio, and no event is before that.
Placed(c) == /\ c.lastBucket = Calendar!Hash(c, c.lastPrio)
             /\ c.bucketTop = (c.lastPrio \div c.width + 1) * c.width
             /\ \A e \in Held(c) : c.lastPrio <= e.ts

\* What a calendar holds.
LEMMA HeldIs ==
    ASSUME NEW c, NEW e
    PROVE  e \in Held(c) <=> \E b \in Days(c) : e \in Seqs!ToSet(c.buckets[b])
BY DEF Held

\* A held event is in the bucket of its time stamp.
LEMMA HeldAway ==
    ASSUME NEW c \in Cals, NEW rev, Filed(c, rev), NEW e \in Held(c)
    PROVE  /\ e \in EventKey /\ e.ts \in Nat /\ Calendar!Hash(c, e.ts) \in Days(c)
           /\ e \in Seqs!ToSet(c.buckets[Calendar!Hash(c, e.ts)])
<1>1. PICK b \in Days(c) : e \in Seqs!ToSet(c.buckets[b])
    BY HeldIs
<1>2. c.buckets[b] \in Seq(EventKey)
    BY CalsFacts
<1>3. e \in EventKey
    BY <1>1, <1>2, Members
<1>4. Calendar!Hash(c, e.ts) = b
    BY <1>1 DEF Filed
<1> QED
    BY <1>1, <1>3, <1>4 DEF EventKey

\* The bucket of a time stamp depends on the number of buckets and the width only.
LEMMA SameHash ==
    ASSUME NEW c, NEW d, NEW ts, d.nBuckets = c.nBuckets, d.width = c.width
    PROVE  Calendar!Hash(d, ts) = Calendar!Hash(c, ts)
BY DEF Calendar!Hash

\* A calendar stays in order when a bucket gets an event that belongs there.
LEMMA FiledMore ==
    ASSUME NEW c \in Cals, NEW rev, Filed(c, rev), NEW e \in EventKey, NEW s, NEW d,
           Rebucketed(d, c, Calendar!Hash(c, e.ts), s), Sorted(s, rev),
           Seqs!ToSet(s) = Seqs!ToSet(c.buckets[Calendar!Hash(c, e.ts)]) \cup {e}
    PROVE  Filed(d, rev) /\ Held(d) = Held(c) \cup {e}
<1> DEFINE b == Calendar!Hash(c, e.ts)
<1>1. b \in Days(c)
    BY HashFacts DEF EventKey
<1>2. d.nBuckets = c.nBuckets /\ d.width = c.width /\ d.buckets[b] = s
      /\ \A k \in Days(c) \ {b} : d.buckets[k] = c.buckets[k]
    BY DEF Rebucketed
<1>3. Days(d) = Days(c) /\ \A ts : Calendar!Hash(d, ts) = Calendar!Hash(c, ts)
    BY <1>2, SameHash DEF Days
<1>4. Seqs!ToSet(s) = Seqs!ToSet(c.buckets[b]) \cup {e} /\ Calendar!Hash(c, e.ts) = b
    OBVIOUS
<1> HIDE DEF b
<1>5. ASSUME NEW k \in Days(d)
      PROVE  /\ Sorted(d.buckets[k], rev)
             /\ \A f \in Seqs!ToSet(d.buckets[k]) : Calendar!Hash(d, f.ts) = k
  <2>1. CASE k = b
      BY <1>1, <1>2, <1>3, <1>4, <2>1 DEF Filed
  <2>2. CASE k # b
    <3>1. d.buckets[k] = c.buckets[k] /\ k \in Days(c)
        BY <1>2, <1>3, <2>2
    <3> QED
        BY <1>3, <3>1 DEF Filed
  <2> QED
      BY <2>1, <2>2
<1>6. ASSUME NEW f \in Held(d) PROVE f \in Held(c) \cup {e}
  <2>1. PICK k \in Days(c) : f \in Seqs!ToSet(d.buckets[k])
      BY <1>3, HeldIs
  <2>2. k = b \/ d.buckets[k] = c.buckets[k]
      BY <1>2
  <2> QED
      BY <1>1, <1>2, <1>4, <2>1, <2>2, HeldIs
<1>7. ASSUME NEW f \in Held(c) PROVE f \in Held(d)
  <2>1. PICK k \in Days(c) : f \in Seqs!ToSet(c.buckets[k])
      BY HeldIs
  <2>2. k = b \/ d.buckets[k] = c.buckets[k]
      BY <1>2
  <2> QED
      BY <1>1, <1>2, <1>3, <1>4, <2>1, <2>2, HeldIs
<1>8. e \in Held(d)
    BY <1>1, <1>2, <1>3, <1>4, HeldIs
<1> QED
    BY <1>5, <1>6, <1>7, <1>8 DEF Filed

\* r has the elements of s but e.
Without(r, s, e) == Seqs!ToSet(r) = Seqs!ToSet(s) \ {e}

\* A calendar stays in order when a bucket loses an event.
LEMMA FiledLess ==
    ASSUME NEW c \in Cals, NEW rev, Filed(c, rev), NEW e \in Held(c), NEW s, NEW d,
           Rebucketed(d, c, Calendar!Hash(c, e.ts), s), Sorted(s, rev),
           Without(s, c.buckets[Calendar!Hash(c, e.ts)], e)
    PROVE  Filed(d, rev) /\ Held(d) = Held(c) \ {e}
<1> DEFINE b == Calendar!Hash(c, e.ts)
<1>1. b \in Days(c)
    BY HeldAway
<1>2. d.nBuckets = c.nBuckets /\ d.width = c.width /\ d.buckets[b] = s
      /\ \A k \in Days(c) \ {b} : d.buckets[k] = c.buckets[k]
    BY DEF Rebucketed
<1>3. Days(d) = Days(c) /\ \A ts : Calendar!Hash(d, ts) = Calendar!Hash(c, ts)
    BY <1>2, SameHash DEF Days
<1>4. Seqs!ToSet(s) = Seqs!ToSet(c.buckets[b]) \ {e} /\ Calendar!Hash(c, e.ts) = b
    BY DEF Without
<1> HIDE DEF b
<1>5. ASSUME NEW k \in Days(d)
      PROVE  /\ Sorted(d.buckets[k], rev)
             /\ \A f \in Seqs!ToSet(d.buckets[k]) : Calendar!Hash(d, f.ts) = k
  <2>1. CASE k = b
      BY <1>1, <1>2, <1>3, <1>4, <2>1 DEF Filed
  <2>2. CASE k # b
    <3>1. d.buckets[k] = c.buckets[k] /\ k \in Days(c)
        BY <1>2, <1>3, <2>2
    <3> QED
        BY <1>3, <3>1 DEF Filed
  <2> QED
      BY <2>1, <2>2
<1>6. ASSUME NEW f \in Held(d) PROVE f \in Held(c) \ {e}
  <2>1. PICK k \in Days(c) : f \in Seqs!ToSet(d.buckets[k])
      BY <1>3, HeldIs
  <2>2. CASE k = b
      BY <1>2, <1>4, <2>1, <2>2, HeldIs
  <2>3. CASE k # b
    <3>1. d.buckets[k] = c.buckets[k]
        BY <1>2, <2>3
    <3>2. Calendar!Hash(c, f.ts) = k
        BY <2>1, <3>1 DEF Filed
    <3>3. f # e
        BY <1>4, <2>3, <3>2
    <3> QED
        BY <2>1, <3>1, <3>3, HeldIs
  <2> QED
      BY <2>2, <2>3
<1>7. ASSUME NEW f \in Held(c) \ {e} PROVE f \in Held(d)
  <2>1. PICK k \in Days(c) : f \in Seqs!ToSet(c.buckets[k])
      BY HeldIs
  <2>2. k = b \/ d.buckets[k] = c.buckets[k]
      BY <1>2
  <2> QED
      BY <1>1, <1>2, <1>3, <1>4, <1>7, <2>1, <2>2, HeldIs
<1> QED
    BY <1>5, <1>6, <1>7 DEF Filed

\* CalendarScheduler::DoInsert keeps the calendar in order and adds the event.
LEMMA CalDoInsert ==
    ASSUME m_reverse \in BOOLEAN, NEW c \in Cals, Filed(c, m_reverse), NEW e \in EventKey, e \notin Held(c)
    PROVE  LET d == Calendar!DoInsert(c, e)
           IN  /\ d \in Cals /\ Filed(d, m_reverse) /\ Held(d) = Held(c) \cup {e}
               /\ d.nBuckets = c.nBuckets /\ d.width = c.width /\ SamePosition(d, c)
<1> DEFINE b == Calendar!Hash(c, e.ts)
           s == c.buckets[b]
           r == InsertedInto(s, e, m_reverse)
           d == Calendar!DoInsert(c, e)
<1>1. b \in Days(c)
    BY HashFacts DEF EventKey
<1>2. s \in Seq(EventKey) /\ Sorted(s, m_reverse) /\ e \notin Seqs!ToSet(s)
    BY <1>1, CalsFacts, HeldIs DEF Filed
<1>3. d = [c EXCEPT !.buckets[b] = r]
    BY DEF Calendar!DoInsert, Calendar!Seqs!SelectInSeq, Calendar!Seqs!InsertAt, Calendar!Seqs!Min,
           Calendar!Order, Calendar!Less, Less, InsertedInto, PlaceOf, Before
<1> HIDE DEF d
<1>4. r \in Seq(EventKey) /\ Sorted(r, m_reverse) /\ Seqs!ToSet(r) = Seqs!ToSet(s) \cup {e}
    BY <1>2, InsertedSorted
<1> HIDE DEF r
<1>5. Rebucketed(d, c, b, r) /\ SamePosition(d, c)
    BY <1>1, <1>3, <1>4, Rebucket
<1>6. Filed(d, m_reverse) /\ Held(d) = Held(c) \cup {e}
    BY <1>4, <1>5, FiledMore
<1>7. d \in Cals /\ d.nBuckets = c.nBuckets /\ d.width = c.width
    BY <1>5 DEF Rebucketed
<1> QED
    BY <1>5, <1>6, <1>7 DEF d

\* The event RemoveNext looks at in a bucket is the earliest there.
LEMMA CalNextEvent ==
    ASSUME m_reverse \in BOOLEAN, NEW s \in Seq(EventKey), Sorted(s, m_reverse), s # <<>>
    PROVE  /\ IsEarliest(Calendar!NextEvent(s), Seqs!ToSet(s))
           /\ Calendar!NextEvent(s) \in EventKey
           /\ Calendar!Pop(s) \in Seq(EventKey) /\ Sorted(Calendar!Pop(s), m_reverse)
           /\ Seqs!ToSet(Calendar!Pop(s)) = Seqs!ToSet(s) \ {Calendar!NextEvent(s)}
<1>1. CASE m_reverse
  <2>1. Calendar!NextEvent(s) = Seqs!Last(s) /\ Calendar!Pop(s) = Seqs!Front(s)
      BY <1>1 DEF Calendar!NextEvent, Calendar!Pop, Calendar!Seqs!Last, Seqs!Last,
                  Calendar!Seqs!Front, Seqs!Front
  <2>2. /\ Seqs!Front(s) \in Seq(EventKey) /\ Sorted(Seqs!Front(s), m_reverse)
        /\ Seqs!Last(s) \in Seqs!ToSet(s) /\ Seqs!Last(s) \in EventKey
        /\ Seqs!ToSet(Seqs!Front(s)) = Seqs!ToSet(s) \ {Seqs!Last(s)}
        /\ \A e \in Seqs!ToSet(s) \ {Seqs!Last(s)} : Before(e, Seqs!Last(s), m_reverse)
      BY FrontSorted
  <2> QED
      BY <1>1, <2>1, <2>2 DEF IsEarliest, Before
<1>2. CASE ~m_reverse
  <2>1. Calendar!NextEvent(s) = Head(s) /\ Calendar!Pop(s) = Tail(s)
      BY <1>2 DEF Calendar!NextEvent, Calendar!Pop
  <2>2. /\ Tail(s) \in Seq(EventKey) /\ Sorted(Tail(s), m_reverse)
        /\ Head(s) \in Seqs!ToSet(s) /\ Head(s) \in EventKey
        /\ Seqs!ToSet(Tail(s)) = Seqs!ToSet(s) \ {Head(s)}
        /\ \A e \in Seqs!ToSet(s) \ {Head(s)} : Before(Head(s), e, m_reverse)
      BY TailSorted
  <2> QED
      BY <1>2, <2>1, <2>2 DEF IsEarliest, Before
<1> QED
    BY <1>1, <1>2

\* Every nonempty set of keys has an earliest one.
LEMMA EarliestExists ==
    ASSUME NEW S \in SUBSET EventKey, S # {}
    PROVE  \E e \in S : IsEarliest(e, S)
<1> DEFINE T == {e.ts : e \in S}
<1>1. T \in SUBSET Nat /\ T # {}
    BY DEF EventKey
<1>2. PICK t \in T : \A u \in T : t <= u
  <2> HIDE DEF T
  <2> QED
      BY <1>1, LeastNumber
<1> DEFINE U == {e.uid : e \in {f \in S : f.ts = t}}
<1>3. U \in SUBSET Nat /\ U # {}
    BY DEF EventKey
<1>4. PICK u \in U : \A v \in U : u <= v
  <2> HIDE DEF U
  <2> QED
      BY <1>3, LeastNumber
<1>5. PICK e \in S : e.ts = t /\ e.uid = u
    OBVIOUS
<1>6. ASSUME NEW f \in S \ {e} PROVE Less(e, f)
  <2>1. /\ e \in EventKey /\ f \in EventKey /\ f.ts \in T /\ f.ts \in Nat
        /\ e.ts \in Nat /\ e.uid \in Nat /\ f.uid \in Nat
      BY DEF EventKey
  <2>2. t <= f.ts
      BY <1>2, <2>1
  <2>3. CASE f.ts = t
    <3>1. u <= f.uid
        BY <1>4, <2>3
    <3>2. ~Less(f, e)
        BY <1>5, <2>1, <2>3, <3>1 DEF Less
    <3> QED
        BY <2>1, <3>2, LessTotal
  <2>4. CASE f.ts # t
      BY <1>5, <2>1, <2>2, <2>4 DEF Less
  <2> QED
      BY <2>3, <2>4
<1> QED
    BY <1>5, <1>6 DEF IsEarliest

\* What is earliest of the earliest of all buckets is the earliest of all.
LEMMA CalNext ==
    ASSUME m_reverse \in BOOLEAN, NEW c \in Cals, Filed(c, m_reverse), NEW b \in Days(c), c.buckets[b] # <<>>
    PROVE  LET e == Calendar!NextEvent(c.buckets[b])
           IN  /\ IsEarliest(e, Seqs!ToSet(c.buckets[b])) /\ e \in Held(c) /\ e \in EventKey
               /\ Calendar!Hash(c, e.ts) = b
<1>1. c.buckets[b] \in Seq(EventKey) /\ Sorted(c.buckets[b], m_reverse)
    BY CalsFacts DEF Filed
<1> DEFINE e == Calendar!NextEvent(c.buckets[b])
<1>2. IsEarliest(e, Seqs!ToSet(c.buckets[b])) /\ e \in EventKey
    BY <1>1, CalNextEvent
<1> HIDE DEF e
<1>3. e \in Seqs!ToSet(c.buckets[b])
    BY <1>2 DEF IsEarliest
<1>4. e \in Held(c)
    BY <1>3, HeldIs
<1>5. Calendar!Hash(c, e.ts) = b
    BY <1>3 DEF Filed
<1> QED
    BY <1>2, <1>4, <1>5 DEF e

\* Without a hit, RemoveNext takes the earliest of the first events of the buckets.
LEMMA CalMinCandidate ==
    ASSUME m_reverse \in BOOLEAN, NEW c \in Cals, Filed(c, m_reverse), Held(c) # {}
    PROVE  LET e == Calendar!MinCandidate(c)
           IN  /\ IsEarliest(e, Held(c))
               /\ c.buckets[Calendar!Hash(c, e.ts)] # <<>>
               /\ e = Calendar!NextEvent(c.buckets[Calendar!Hash(c, e.ts)])
<1> DEFINE N == {b \in Days(c) : c.buckets[b] # <<>>}
           K == {Calendar!NextEvent(c.buckets[b]) : b \in N}
           e == Calendar!MinCandidate(c)
<1>1. Calendar!Candidates(c) = K
    BY CalsFacts DEF Calendar!Candidates
<1>2. \A f \in K : f \in EventKey /\ f \in Held(c) /\ c.buckets[Calendar!Hash(c, f.ts)] # <<>>
                   /\ f = Calendar!NextEvent(c.buckets[Calendar!Hash(c, f.ts)])
    BY CalNext
<1>3. ASSUME NEW f \in Held(c) PROVE \E g \in K : g = f \/ Less(g, f)
  <2>1. PICK b \in Days(c) : f \in Seqs!ToSet(c.buckets[b])
      BY HeldIs
  <2>2. c.buckets[b] # <<>>
      BY <2>1, EmptyList
  <2>3. IsEarliest(Calendar!NextEvent(c.buckets[b]), Seqs!ToSet(c.buckets[b]))
      BY <2>2, CalNext
  <2>4. Calendar!NextEvent(c.buckets[b]) \in K
      BY <2>2
  <2> HIDE DEF K
  <2> QED
      BY <2>1, <2>3, <2>4 DEF IsEarliest
<1>4. K # {} /\ K \in SUBSET EventKey
    BY <1>2, <1>3
<1>5. e = CHOOSE x \in K : IsEarliest(x, K)
    BY <1>1 DEF Calendar!MinCandidate, Calendar!IsEarliest, IsEarliest, Calendar!Less, Less
<1> HIDE DEF e, K
<1>6. e \in K /\ IsEarliest(e, K)
    BY <1>4, <1>5, EarliestExists
<1>7. ASSUME NEW f \in Held(c) \ {e} PROVE Less(e, f)
  <2>1. PICK g \in K : g = f \/ Less(g, f)
      BY <1>3
  <2>2. g = e \/ Less(e, g)
      BY <1>6 DEF IsEarliest
  <2>3. e \in EventKey /\ g \in EventKey /\ f \in EventKey
      BY <1>4, <1>6, HeldAway
  <2> QED
      BY <1>7, <2>1, <2>2, <2>3, LessTransitive
<1>8. IsEarliest(e, Held(c))
    BY <1>2, <1>6, <1>7 DEF IsEarliest
<1> QED
    BY <1>2, <1>6, <1>8 DEF e

\* The position of step k of the scan.
LEMMA CalScan ==
    ASSUME NEW c \in Cals, Placed(c), NEW k \in Days(c)
    PROVE  LET L == c.lastPrio \div c.width
           IN  /\ L \in Nat /\ k \in Nat
               /\ Calendar!BucketAt(c, k) = (L + k) % c.nBuckets
               /\ Calendar!BucketAt(c, k) \in Days(c)
               /\ Calendar!BucketTop(c, k) = (L + k + 1) * c.width
<1> DEFINE L == c.lastPrio \div c.width
           n == c.nBuckets
           w == c.width
<1>1. n \in Nat \ {0} /\ w \in Nat \ {0} /\ c.lastPrio \in Nat
    BY CalsFacts
<1>2. L \in Nat
    BY <1>1, DivMod
<1>3. k \in Nat /\ k < n
    BY <1>1 DEF Days
<1>4. c.lastBucket = L % n
    BY <1>1, HashFacts DEF Placed
<1>5. c.bucketTop = (L + 1) * w
    BY DEF Placed
<1>6. Calendar!BucketAt(c, k) = ((L % n) + k) % n
    BY <1>4 DEF Calendar!BucketAt
<1>7. Calendar!BucketTop(c, k) = (L + 1) * w + k * w
    BY <1>5 DEF Calendar!BucketTop
<1> HIDE DEF L, n, w
<1>8. ((L % n) + k) % n = (L + k) % n
    BY <1>1, <1>2, <1>3, ModAdd
<1>9. (L + 1) * w + k * w = (L + k + 1) * w
    BY <1>1, <1>2, <1>3
<1>10. (L + k) % n \in Nat /\ (L + k) % n < n
  <2>1. L + k \in Nat
      BY <1>2, <1>3
  <2> QED
      BY <1>1, <2>1, DivMod
<1>11. (L + k) % n \in Days(c)
    BY <1>1, <1>10 DEF Days, n
<1>12. /\ L \in Nat /\ k \in Nat
       /\ Calendar!BucketAt(c, k) = (L + k) % n /\ Calendar!BucketAt(c, k) \in Days(c)
       /\ Calendar!BucketTop(c, k) = (L + k + 1) * w
    BY <1>2, <1>3, <1>6, <1>7, <1>8, <1>9, <1>11
<1> QED
    BY <1>12 DEF L, n, w

\* The interval of an event is not before that of the position.
LEMMA DivMonotonic ==
    ASSUME NEW s \in Nat, NEW t \in Nat, NEW w \in Nat \ {0}, s <= t
    PROVE  s \div w <= t \div w
<1> DEFINE k == t \div w
<1>1. k \in Nat /\ s \div w \in Nat
    BY DivMod
<1>2. t < (k + 1) * w
  <2>1. k <= k
      BY <1>1
  <2> QED
      BY <1>1, <2>1, DivBound
<1> HIDE DEF k
<1>3. (k + 1) * w \in Nat
    BY <1>1
<1>4. s < (k + 1) * w
    BY <1>2, <1>3
<1>5. s \div w <= k
    BY <1>1, <1>4, DivBound
<1> QED
    BY <1>5 DEF k

\* The first bucket whose first event is in its current interval has the earliest event
\* of all: the scan of a year neither passes over an earlier one nor takes one of a
\* later year.
LEMMA CalHit ==
    ASSUME m_reverse \in BOOLEAN, NEW c \in Cals, Filed(c, m_reverse), Placed(c),
           NEW k \in Days(c), c.buckets[Calendar!BucketAt(c, k)] # <<>>,
           Calendar!NextEvent(c.buckets[Calendar!BucketAt(c, k)]).ts < Calendar!BucketTop(c, k),
           \A j \in Calendar!Hits(c) : k <= j
    PROVE  LET e == Calendar!NextEvent(c.buckets[Calendar!BucketAt(c, k)])
           IN  /\ IsEarliest(e, Held(c)) /\ e \in EventKey
               /\ Calendar!Hash(c, e.ts) = Calendar!BucketAt(c, k)
               /\ Calendar!BucketTop(c, k) = (e.ts \div c.width + 1) * c.width
<1> DEFINE L == c.lastPrio \div c.width
           n == c.nBuckets
           w == c.width
           b == Calendar!BucketAt(c, k)
           e == Calendar!NextEvent(c.buckets[b])
<1>1. n \in Nat \ {0} /\ w \in Nat \ {0} /\ c.lastPrio \in Nat
    BY CalsFacts
<1>2. /\ L \in Nat /\ k \in Nat /\ b = (L + k) % n /\ b \in Days(c)
      /\ Calendar!BucketTop(c, k) = (L + k + 1) * w
    BY CalScan
<1>3. k < n
    BY <1>1 DEF Days
<1>4. /\ IsEarliest(e, Seqs!ToSet(c.buckets[b])) /\ e \in Held(c) /\ e \in EventKey
      /\ Calendar!Hash(c, e.ts) = b
    BY <1>2, CalNext
<1>5. e.ts < (L + k + 1) * w
    BY <1>2
<1> HIDE DEF e, b
<1>6. ASSUME NEW f \in Held(c)
      PROVE  /\ f \in EventKey /\ f.ts \in Nat /\ f.ts \div w \in Nat /\ L <= f.ts \div w
             /\ Calendar!Hash(c, f.ts) = (f.ts \div w) % n
             /\ f \in Seqs!ToSet(c.buckets[(f.ts \div w) % n])
  <2>1. f \in EventKey /\ f.ts \in Nat /\ f \in Seqs!ToSet(c.buckets[Calendar!Hash(c, f.ts)])
      BY HeldAway
  <2>2. c.lastPrio <= f.ts
      BY DEF Placed
  <2>3. L <= f.ts \div w /\ f.ts \div w \in Nat
      BY <1>1, <2>1, <2>2, DivMonotonic, DivMod
  <2>4. Calendar!Hash(c, f.ts) = (f.ts \div w) % n
      BY <2>1, HashFacts
  <2> QED
      BY <2>1, <2>3, <2>4
<1>7. e.ts \div w = L + k
  <2>1. e.ts \div w <= L + k
    <3>1. L + k \in Nat /\ e.ts \in Nat
        BY <1>2, <1>4, <1>6
    <3> HIDE DEF L, w
    <3> QED
        BY <1>1, <1>5, <3>1, DivBound
  <2>2. (e.ts \div w) % n = (L + k) % n /\ e.ts \div w \in Nat /\ L <= e.ts \div w
      BY <1>2, <1>4, <1>6
  <2> DEFINE q == e.ts \div w
  <2> HIDE DEF q, L, n
  <2>3. q = L + k
      BY <1>1, <1>2, <1>3, <2>1, <2>2, ModEqual DEF q
  <2> QED
      BY <2>3 DEF q
<1>8. ASSUME NEW f \in Held(c) \ {e} PROVE Less(e, f)
  <2> DEFINE q == f.ts \div w
  <2>1. /\ f \in EventKey /\ f.ts \in Nat /\ q \in Nat /\ L <= q
        /\ Calendar!Hash(c, f.ts) = q % n /\ f \in Seqs!ToSet(c.buckets[q % n])
      BY <1>6
  <2>2. e.ts \in Nat
      BY <1>4, <1>6
  <2>3. CASE q < L + k
    <3> DEFINE j == q - L
    <3>1. j \in Nat /\ j < k /\ j \in Days(c) /\ L + j = q
      <4> HIDE DEF q, L
      <4>1. j \in Nat /\ j < k /\ L + j = q /\ j \in 0..n - 1
        <5> HIDE DEF n
        <5> QED
            BY <1>1, <1>2, <1>3, <2>1, <2>3
      <4> QED
          BY <4>1 DEF Days
    <3>2. /\ Calendar!BucketAt(c, j) = q % n /\ Calendar!BucketAt(c, j) \in Days(c)
          /\ Calendar!BucketTop(c, j) = (q + 1) * w
      <4>1. /\ Calendar!BucketAt(c, j) = (L + j) % n /\ Calendar!BucketAt(c, j) \in Days(c)
            /\ Calendar!BucketTop(c, j) = (L + j + 1) * w
          BY <3>1, CalScan
      <4> HIDE DEF j, q, L, n, w
      <4> QED
          BY <3>1, <4>1
    <3>3. c.buckets[q % n] # <<>>
        BY <2>1, EmptyList
    <3> DEFINE g == Calendar!NextEvent(c.buckets[q % n])
    <3>4. IsEarliest(g, Seqs!ToSet(c.buckets[q % n])) /\ g \in EventKey
        BY <3>2, <3>3, CalNext
    <3> HIDE DEF g
    <3>5. g.ts <= f.ts /\ g.ts \in Nat
      <4>1. g = f \/ Less(g, f)
          BY <2>1, <3>4 DEF IsEarliest
      <4> QED
          BY <2>1, <3>4, <4>1 DEF Less, EventKey
    <3>6. f.ts < (q + 1) * w
      <4>1. q <= q
          BY <2>1
      <4> QED
          BY <1>1, <2>1, <4>1, DivBound
    <3>7. g.ts < (q + 1) * w
      <4>1. (q + 1) * w \in Nat
        <5> HIDE DEF q, w
        <5> QED
            BY <1>1, <2>1
      <4> HIDE DEF q, w
      <4> QED
          BY <2>1, <3>5, <3>6, <4>1
    <3>8. j \in 0..c.nBuckets - 1
        BY <3>1 DEF Days
    <3>9. c.buckets[Calendar!BucketAt(c, j)] # <<>>
          /\ Calendar!NextEvent(c.buckets[Calendar!BucketAt(c, j)]).ts < Calendar!BucketTop(c, j)
        BY <3>2, <3>3, <3>7 DEF g
    <3>10. j \in Calendar!Hits(c)
      <4> HIDE DEF j
      <4> QED
        BY <3>8, <3>9 DEF Calendar!Hits
    <3>11. k <= j
      <4> HIDE DEF j
      <4> QED
          BY <3>10
    <3> HIDE DEF j
    <3> QED
        BY <1>2, <3>1, <3>11
  <2>4. CASE q = L + k
    <3>1. f \in Seqs!ToSet(c.buckets[b])
        BY <1>2, <2>1, <2>4
    <3> QED
        BY <1>4, <1>8, <3>1 DEF IsEarliest
  <2>5. CASE q > L + k
    <3>1. ~(f.ts <= e.ts)
      <4>1. SUFFICES ASSUME f.ts <= e.ts PROVE FALSE
          OBVIOUS
      <4>2. f.ts \div w <= e.ts \div w
          BY <1>1, <2>1, <2>2, <4>1, DivMonotonic
      <4> HIDE DEF L, w
      <4> QED
          BY <1>2, <1>7, <2>1, <2>5, <4>2
    <3> QED
        BY <2>1, <2>2, <3>1 DEF Less
  <2>6. q < L + k \/ q = L + k \/ q > L + k
    <3> HIDE DEF q, L
    <3> QED
        BY <1>2, <2>1
  <2> QED
      BY <2>3, <2>4, <2>5, <2>6
<1>9. IsEarliest(e, Held(c))
    BY <1>4, <1>8 DEF IsEarliest
<1>10. Calendar!BucketTop(c, k) = (e.ts \div w + 1) * w
    BY <1>2, <1>7
<1> QED
    BY <1>4, <1>9, <1>10 DEF e, b

\* The invariant of a calendar between two calls.
Ready(c, rev) == c \in Cals /\ Filed(c, rev) /\ Placed(c)

\* What DoRemoveNext returns and where it leaves the calendar.
TakenOff(c, e) ==
    [c EXCEPT !.lastBucket = Calendar!Hash(c, e.ts), !.lastPrio = e.ts,
              !.bucketTop = (e.ts \div c.width + 1) * c.width,
              !.buckets[Calendar!Hash(c, e.ts)] = Calendar!Pop(@)]

\* e is the first event of its bucket.
Foremost(c, e) == /\ c.buckets[Calendar!Hash(c, e.ts)] # <<>>
                  /\ e = Calendar!NextEvent(c.buckets[Calendar!Hash(c, e.ts)])

\* Taking the earliest event off moves the position to its interval.
LEMMA CalRemoved ==
    ASSUME m_reverse \in BOOLEAN, NEW c \in Cals, Filed(c, m_reverse), NEW e, IsEarliest(e, Held(c)),
           Foremost(c, e), NEW d,
           d = TakenOff(c, e)
    PROVE  /\ e \in EventKey /\ Ready(d, m_reverse)
           /\ Held(d) = Held(c) \ {e} /\ d.nBuckets = c.nBuckets /\ d.width = c.width
           /\ d.lastPrio = e.ts
<1> DEFINE b == Calendar!Hash(c, e.ts)
           s == c.buckets[b]
           r == Calendar!Pop(s)
           z == (e.ts \div c.width + 1) * c.width
<1>1. e \in Held(c) /\ e \in EventKey /\ e.ts \in Nat /\ b \in Days(c) /\ b \in Nat
    BY HeldAway, HashFacts DEF IsEarliest
<1>2. s \in Seq(EventKey) /\ Sorted(s, m_reverse) /\ s # <<>> /\ e = Calendar!NextEvent(s)
    BY <1>1, CalsFacts DEF Filed, Foremost
<1>3. r \in Seq(EventKey) /\ Sorted(r, m_reverse) /\ Seqs!ToSet(r) = Seqs!ToSet(s) \ {e}
    BY <1>2, CalNextEvent
<1>4. z \in Nat
  <2>1. c.width \in Nat \ {0}
      BY CalsFacts
  <2>2. e.ts \div c.width \in Nat
      BY <1>1, <2>1, DivMod
  <2> QED
      BY <2>1, <2>2
<1>5. d = Moved(c, b, r, b, e.ts, z)
    BY DEF TakenOff, Moved
<1> HIDE DEF r, z, s
<1>6. /\ Rebucketed(d, c, b, r)
      /\ d.lastBucket = b /\ d.lastPrio = e.ts /\ d.bucketTop = z
    BY <1>1, <1>3, <1>4, <1>5, RebucketMove
<1>7. Filed(d, m_reverse) /\ Held(d) = Held(c) \ {e}
  <2>1. Without(r, c.buckets[b], e)
      BY <1>3 DEF Without, s
  <2>2. Rebucketed(d, c, Calendar!Hash(c, e.ts), r)
      BY <1>6
  <2>3. Without(r, c.buckets[Calendar!Hash(c, e.ts)], e)
      BY <2>1
  <2>4. Sorted(r, m_reverse) /\ e \in Held(c)
      BY <1>1, <1>3
  <2> HIDE DEF b
  <2> QED
      BY <2>2, <2>3, <2>4, FiledLess, ZenonT(60)
<1>8. d \in Cals /\ d.nBuckets = c.nBuckets /\ d.width = c.width
    BY <1>6 DEF Rebucketed
<1>9. Placed(d)
  <2>1. Calendar!Hash(d, d.lastPrio) = b
      BY <1>6, <1>8, SameHash
  <2>2. ASSUME NEW f \in Held(d) PROVE e.ts <= f.ts
    <3>1. f \in Held(c) \ {e}
        BY <1>7
    <3>2. Less(e, f) /\ f.ts \in Nat
        BY <3>1, HeldAway DEF IsEarliest
    <3> QED
        BY <1>1, <3>2 DEF Less
  <2> QED
      BY <1>6, <1>8, <2>1, <2>2 DEF Placed, z
<1> QED
    BY <1>1, <1>6, <1>7, <1>8, <1>9 DEF Ready

\* CalendarScheduler::DoRemoveNext takes the earliest event off, found in the
\* scan of a year or in the search through all buckets.
LEMMA CalDoRemoveNext ==
    ASSUME m_reverse \in BOOLEAN, NEW c, Ready(c, m_reverse), Held(c) # {}
    PROVE  LET e == Calendar!PeekNext(c)
               d == Calendar!DoRemoveNext(c)
           IN  /\ e \in EventKey /\ IsEarliest(e, Held(c)) /\ Ready(d, m_reverse)
               /\ Held(d) = Held(c) \ {e} /\ d.nBuckets = c.nBuckets /\ d.width = c.width
               /\ d.lastPrio = e.ts
<1> DEFINE H == Calendar!Hits(c)
           k == Calendar!Sets!Min(H)
           b == Calendar!BucketAt(c, k)
           e == Calendar!PeekNext(c)
           d == Calendar!DoRemoveNext(c)
<1>1. c \in Cals /\ Filed(c, m_reverse) /\ Placed(c)
    BY DEF Ready
<1>2. CASE H # {}
  <2>1. H \in SUBSET Nat /\ H \subseteq Days(c)
      BY <1>1, CalsFacts DEF Calendar!Hits, Days
  <2>2. k \in H /\ \A j \in H : k <= j
    <3> HIDE DEF H
    <3>1. \E x \in H : \A y \in H : x <= y
        BY <1>2, <2>1, LeastNumber
    <3> QED
        BY <3>1 DEF Calendar!Sets!Min
  <2>3. e = Calendar!NextEvent(c.buckets[b])
      BY <1>2 DEF Calendar!PeekNext
  <2>4. d = [c EXCEPT !.lastBucket = b, !.lastPrio = e.ts,
                      !.bucketTop = Calendar!BucketTop(c, k), !.buckets[b] = Calendar!Pop(@)]
      BY <1>2 DEF Calendar!DoRemoveNext
  <2> HIDE DEF k, d, e
  <2>5. k \in Days(c) /\ c.buckets[b] # <<>> /\ Calendar!NextEvent(c.buckets[b]).ts < Calendar!BucketTop(c, k)
      BY <2>1, <2>2 DEF Calendar!Hits
  <2>6. /\ IsEarliest(e, Held(c)) /\ e \in EventKey /\ Calendar!Hash(c, e.ts) = b
        /\ Calendar!BucketTop(c, k) = (e.ts \div c.width + 1) * c.width
      BY <1>1, <2>2, <2>3, <2>5, CalHit
  <2> HIDE DEF b, H
  <2>7. d = TakenOff(c, e)
      BY <2>4, <2>6, Zenon DEF TakenOff
  <2>8. Foremost(c, e)
      BY <2>3, <2>5, <2>6 DEF Foremost
  <2>9. /\ Ready(d, m_reverse)
        /\ Held(d) = Held(c) \ {e} /\ d.nBuckets = c.nBuckets /\ d.width = c.width
        /\ d.lastPrio = e.ts
      BY <1>1, <2>6, <2>7, <2>8, CalRemoved
  <2> QED
      BY <2>6, <2>9 DEF e, d
<1>3. CASE H = {}
  <2>1. e = Calendar!MinCandidate(c)
      BY <1>3 DEF Calendar!PeekNext
  <2>2. d = TakenOff(c, e)
      BY <1>3 DEF Calendar!DoRemoveNext, TakenOff
  <2> HIDE DEF d, e
  <2>3. IsEarliest(e, Held(c)) /\ Foremost(c, e)
      BY <1>1, <2>1, CalMinCandidate DEF Foremost
  <2>4. /\ e \in EventKey /\ Ready(d, m_reverse)
        /\ Held(d) = Held(c) \ {e} /\ d.nBuckets = c.nBuckets /\ d.width = c.width
        /\ d.lastPrio = e.ts
      BY <1>1, <2>2, <2>3, CalRemoved
  <2> QED
      BY <2>3, <2>4 DEF e, d
<1> QED
    BY <1>2, <1>3

\* Buckets and widths of the same size.
Alike(d, c) == d.nBuckets = c.nBuckets /\ d.width = c.width

\* Inserting distinct events in turn.
LEMMA CalInsertEach ==
    ASSUME m_reverse \in BOOLEAN, NEW c \in Cals, Filed(c, m_reverse),
           NEW evs \in Seq(EventKey), Distinct(evs), Held(c) \cap Seqs!ToSet(evs) = {}
    PROVE  LET d == Calendar!InsertEach(c, evs)
           IN  /\ d \in Cals /\ Filed(d, m_reverse) /\ Held(d) = Held(c) \cup Seqs!ToSet(evs)
               /\ Alike(d, c) /\ SamePosition(d, c)
<1> DEFINE n == Len(evs)
           D == [i \in 0..n |-> {d \in Cals : /\ Filed(d, m_reverse) /\ Held(d) = Held(c) \cup FirstOf(evs, i)
                                              /\ Alike(d, c) /\ SamePosition(d, c)}]
           E(f) == [i \in 0..n |-> IF i = 0 THEN c ELSE Calendar!DoInsert(f[i - 1], evs[i])]
           step == [i \in 1..n |-> [d \in D[i - 1] |-> Calendar!DoInsert(d, evs[i])]]
           after == CHOOSE f : f = E(f)
<1>1. n \in Nat /\ 0 \in 0..n /\ n \in 0..n /\ \A i \in 1..n : i \in 0..n /\ i - 1 \in 0..n /\ i # 0
    OBVIOUS
<1>2. c \in D[0]
  <2>1. Held(c) = Held(c) \cup FirstOf(evs, 0)
      BY FirstOfEnds
  <2>2. Alike(c, c) /\ SamePosition(c, c)
      BY DEF Alike, SamePosition
  <2> QED
      BY <1>1, <2>1, <2>2
<1>3. ASSUME NEW i \in 1..n, NEW d \in D[i - 1] PROVE Calendar!DoInsert(d, evs[i]) \in D[i]
  <2>1. /\ d \in Cals /\ Filed(d, m_reverse) /\ Held(d) = Held(c) \cup FirstOf(evs, i - 1)
        /\ Alike(d, c) /\ SamePosition(d, c)
      BY <1>1, <1>3
  <2>2. evs[i] \in EventKey /\ evs[i] \notin FirstOf(evs, i - 1)
        /\ FirstOf(evs, i) = FirstOf(evs, i - 1) \cup {evs[i]}
      BY FirstOfNext
  <2>3. evs[i] \in Seqs!ToSet(evs)
      BY Members
  <2>4. evs[i] \notin Held(d)
      BY <2>1, <2>2, <2>3
  <2> DEFINE r == Calendar!DoInsert(d, evs[i])
  <2>5. /\ r \in Cals /\ Filed(r, m_reverse) /\ Held(r) = Held(d) \cup {evs[i]}
        /\ r.nBuckets = d.nBuckets /\ r.width = d.width /\ SamePosition(r, d)
      BY <2>1, <2>2, <2>4, CalDoInsert
  <2> HIDE DEF r
  <2>6. Held(r) = Held(c) \cup FirstOf(evs, i)
      BY <2>1, <2>2, <2>5
  <2>7. Alike(r, c) /\ SamePosition(r, c)
      BY <2>1, <2>5 DEF Alike, SamePosition
  <2>8. r \in D[i]
      BY <1>1, <2>5, <2>6, <2>7
  <2> QED
      BY <2>8 DEF r
<1>4. \A i \in 1..n : \A d \in D[i - 1] : step[i][d] = Calendar!DoInsert(d, evs[i])
    OBVIOUS
<1>5. after = E(after)
  <2> HIDE DEF D
  <2>1. \A i \in 1..n : \A d \in D[i - 1] : step[i][d] \in D[i]
      BY <1>3, <1>4
  <2> HIDE DEF step, n
  <2>2. PICK f : Loop(n, c, step, f) /\ \A i \in 0..n : f[i] \in D[i]
      BY <1>1, <1>2, <2>1, LoopExists
  <2>3. \A i \in 1..n : step[i][f[i - 1]] = Calendar!DoInsert(f[i - 1], evs[i])
      BY <1>1, <1>4, <2>2
  <2>4. f = E(f)
      BY <1>1, <2>2, <2>3 DEF Loop
  <2> HIDE DEF E
  <2> QED
      BY <2>4
<1>6. Calendar!InsertEach(c, evs) = after[n]
    BY DEF Calendar!InsertEach
<1> HIDE DEF after
<1>7. after[0] = c /\ \A i \in 1..n : after[i] = Calendar!DoInsert(after[i - 1], evs[i])
    BY <1>1, <1>5
<1> HIDE DEF n, D
<1>8. \A i \in 0..n : after[i] \in D[i]
  <2>1. \A i \in 1..n : after[i - 1] \in D[i - 1] => after[i] \in D[i]
      BY <1>3, <1>7
  <2> QED
      BY <1>1, <1>2, <1>7, <2>1, Stays
<1>9. after[n] \in D[n]
    BY <1>1, <1>8
<1>10. FirstOf(evs, n) = Seqs!ToSet(evs)
    BY FirstOfEnds DEF n
<1> QED
    BY <1>1, <1>6, <1>9, <1>10 DEF D

\* A calendar with as many events as q.
Full(c, q) == IsFiniteSet(Held(c)) /\ Cardinality(Held(c)) = q

\* A calendar with a positive m_qSize holds an event.
LEMMA FullNonempty ==
    ASSUME NEW c, NEW q \in Nat \ {0}, Full(c, q)
    PROVE  Held(c) # {}
BY FS_EmptySet DEF Full

\* m_qSize after a removal.
LEMMA FullLess ==
    ASSUME NEW c, NEW d, NEW q \in Int, Full(c, q), NEW e \in Held(c), Held(d) = Held(c) \ {e}
    PROVE  Full(d, q - 1)
BY FS_RemoveElement DEF Full

\* m_qSize after an insertion.
LEMMA FullMore ==
    ASSUME NEW c, NEW d, NEW q \in Int, Full(c, q), NEW e, e \notin Held(c), Held(d) = Held(c) \cup {e}
    PROVE  Full(d, q + 1)
BY FS_AddElement DEF Full

\* The samples CalculateNewWidth takes are distinct events of the calendar.
LEMMA CalSampling ==
    ASSUME m_reverse \in BOOLEAN, NEW c, Ready(c, m_reverse), NEW q \in Nat, Full(c, q), NEW n \in 0..q
    PROVE  LET A == Calendar!Sampling(c, n)
           IN  /\ A[0] = c
               /\ \A i \in 1..n : /\ Calendar!PeekNext(A[i - 1]) \in EventKey
                                  /\ Calendar!PeekNext(A[i - 1]) \in Held(A[i - 1])
                                  /\ Held(A[i]) = Held(A[i - 1]) \ {Calendar!PeekNext(A[i - 1])}
               /\ Ready(A[n], m_reverse) /\ Alike(A[n], c)
<1> DEFINE D == [i \in 0..n |-> {d \in Cals : Ready(d, m_reverse) /\ Full(d, q - i) /\ Alike(d, c)}]
           E(f) == [i \in 0..n |-> IF i = 0 THEN c ELSE Calendar!DoRemoveNext(f[i - 1])]
           step == [i \in 1..n |-> [d \in D[i - 1] |-> Calendar!DoRemoveNext(d)]]
           after == CHOOSE f : f = E(f)
<1>1. n \in Nat /\ 0 \in 0..n /\ n \in 0..n /\ \A i \in 1..n : i \in 0..n /\ i - 1 \in 0..n /\ i # 0
    OBVIOUS
<1>2. c \in D[0]
  <2>1. Alike(c, c) /\ c \in Cals
      BY DEF Alike, Ready
  <2>2. q - 0 = q
      OBVIOUS
  <2> QED
      BY <1>1, <2>1, <2>2
<1>3. ASSUME NEW i \in 1..n, NEW d \in D[i - 1]
      PROVE  /\ Calendar!DoRemoveNext(d) \in D[i]
             /\ Calendar!PeekNext(d) \in EventKey /\ Calendar!PeekNext(d) \in Held(d)
             /\ Held(Calendar!DoRemoveNext(d)) = Held(d) \ {Calendar!PeekNext(d)}
  <2>1. d \in Cals /\ Ready(d, m_reverse) /\ Full(d, q - (i - 1)) /\ Alike(d, c)
      BY <1>1, <1>3
  <2>2. q - (i - 1) \in Nat \ {0} /\ q - (i - 1) - 1 = q - i /\ q - (i - 1) \in Int
      BY <1>1
  <2>3. Held(d) # {}
      BY <2>1, <2>2, FullNonempty
  <2> DEFINE r == Calendar!DoRemoveNext(d)
             e == Calendar!PeekNext(d)
  <2>4. /\ e \in EventKey /\ IsEarliest(e, Held(d)) /\ Ready(r, m_reverse)
        /\ Held(r) = Held(d) \ {e} /\ r.nBuckets = d.nBuckets /\ r.width = d.width
      BY <2>1, <2>3, CalDoRemoveNext
  <2> HIDE DEF r, e
  <2>5. e \in Held(d)
      BY <2>4 DEF IsEarliest
  <2>6. Full(r, q - i)
    <3>1. Full(r, q - (i - 1) - 1)
        BY <2>1, <2>2, <2>4, <2>5, FullLess, Zenon
    <3> QED
        BY <2>2, <3>1
  <2>7. r \in Cals /\ Alike(r, c)
      BY <2>1, <2>4 DEF Ready, Alike
  <2>8. r \in D[i]
      BY <1>1, <2>4, <2>6, <2>7
  <2> QED
      BY <2>4, <2>5, <2>8 DEF r, e
<1>4. \A i \in 1..n : \A d \in D[i - 1] : step[i][d] = Calendar!DoRemoveNext(d)
    OBVIOUS
<1>5. after = E(after)
  <2> HIDE DEF D
  <2>1. \A i \in 1..n : \A d \in D[i - 1] : step[i][d] \in D[i]
      BY <1>3, <1>4
  <2> HIDE DEF step
  <2>2. PICK f : Loop(n, c, step, f) /\ \A i \in 0..n : f[i] \in D[i]
      BY <1>1, <1>2, <2>1, LoopExists
  <2>3. \A i \in 1..n : step[i][f[i - 1]] = Calendar!DoRemoveNext(f[i - 1])
      BY <1>1, <1>4, <2>2
  <2>4. f = E(f)
      BY <1>1, <2>2, <2>3 DEF Loop
  <2> HIDE DEF E
  <2> QED
      BY <2>4
<1>6. Calendar!Sampling(c, n) = after
    BY DEF Calendar!Sampling
<1> HIDE DEF after
<1>7. after[0] = c /\ \A i \in 1..n : after[i] = Calendar!DoRemoveNext(after[i - 1])
    BY <1>1, <1>5
<1> HIDE DEF D
<1>8. \A i \in 0..n : after[i] \in D[i]
  <2>1. \A i \in 1..n : after[i - 1] \in D[i - 1] => after[i] \in D[i]
      BY <1>3, <1>7
  <2> QED
      BY <1>1, <1>2, <1>7, <2>1, Stays
<1>9. Ready(after[n], m_reverse) /\ Alike(after[n], c)
    BY <1>1, <1>8 DEF D
<1>10. ASSUME NEW i \in 1..n
       PROVE  /\ Calendar!PeekNext(after[i - 1]) \in EventKey
              /\ Calendar!PeekNext(after[i - 1]) \in Held(after[i - 1])
              /\ Held(after[i]) = Held(after[i - 1]) \ {Calendar!PeekNext(after[i - 1])}
  <2>1. after[i - 1] \in D[i - 1] /\ after[i] = Calendar!DoRemoveNext(after[i - 1])
      BY <1>1, <1>7, <1>8
  <2> QED
      BY <1>3, <2>1
<1> QED
    BY <1>6, <1>7, <1>9, <1>10

\* A position fits the same events again.
LEMMA PlacedAgain ==
    ASSUME NEW c, NEW d, Placed(c), Alike(d, c), SamePosition(d, c), Held(d) = Held(c)
    PROVE  Placed(d)
<1>1. /\ d.nBuckets = c.nBuckets /\ d.width = c.width
      /\ d.lastPrio = c.lastPrio /\ d.lastBucket = c.lastBucket /\ d.bucketTop = c.bucketTop
    BY DEF Alike, SamePosition
<1>2. Calendar!Hash(d, d.lastPrio) = Calendar!Hash(c, c.lastPrio)
    BY <1>1, SameHash
<1> QED
    BY <1>1, <1>2 DEF Placed

\* The samples that CalculateNewWidth takes off are put back.
LEMMA CalPutBack ==
    ASSUME m_reverse \in BOOLEAN, NEW c, Ready(c, m_reverse), NEW q \in Nat, Full(c, q), NEW n \in 0..q
    PROVE  LET d == Calendar!PutBack(c, n)
           IN  /\ Ready(d, m_reverse) /\ Held(d) = Held(c) /\ Alike(d, c) /\ d.lastPrio = c.lastPrio
<1> DEFINE A == Calendar!Sampling(c, n)
           e == [i \in 1..n |-> Calendar!PeekNext(A[i - 1])]
           C == [i \in 0..n |-> Held(A[i])]
           full == Calendar!InsertEach(A[n], e)
           d == Calendar!PutBack(c, n)
<1>a. n \in Nat /\ 0 \in 0..n /\ n \in 0..n /\ \A i \in 1..n : i \in 0..n /\ i - 1 \in 0..n
    OBVIOUS
<1>1. /\ A[0] = c
      /\ \A i \in 1..n : /\ Calendar!PeekNext(A[i - 1]) \in EventKey
                         /\ Calendar!PeekNext(A[i - 1]) \in Held(A[i - 1])
                         /\ Held(A[i]) = Held(A[i - 1]) \ {Calendar!PeekNext(A[i - 1])}
      /\ Ready(A[n], m_reverse) /\ Alike(A[n], c)
    BY CalSampling
<1>2. d = [full EXCEPT !.lastBucket = c.lastBucket, !.bucketTop = c.bucketTop, !.lastPrio = c.lastPrio]
    BY DEF Calendar!PutBack
<1> HIDE DEF A, d
<1>3. e \in Seq(EventKey) /\ Len(e) = n
  <2>1. e \in [1..n -> EventKey]
      BY <1>1
  <2> HIDE DEF e
  <2>2. e \in Seq(EventKey)
      BY <1>a, <2>1, SeqDef
  <2> QED
      BY <1>a, <2>1, <2>2, LenProperties
<1>4. ASSUME NEW i \in 1..n PROVE e[i] \in C[i - 1] /\ C[i] = C[i - 1] \ {e[i]}
  <2>1. e[i] = Calendar!PeekNext(A[i - 1]) /\ C[i] = Held(A[i]) /\ C[i - 1] = Held(A[i - 1])
      BY <1>a
  <2> HIDE DEF e, C
  <2> QED
      BY <1>1, <2>1
<1>5. C[0] = Held(c) /\ C[n] = Held(A[n])
    BY <1>a, <1>1
<1> HIDE DEF e, C
<1>6. Distinct(e) /\ C[0] = C[n] \cup Seqs!ToSet(e) /\ C[n] \cap Seqs!ToSet(e) = {}
    BY <1>3, <1>4, Drain
<1>7. A[n] \in Cals /\ Filed(A[n], m_reverse) /\ Held(A[n]) \cap Seqs!ToSet(e) = {}
    BY <1>1, <1>5, <1>6 DEF Ready
<1>8. /\ full \in Cals /\ Filed(full, m_reverse) /\ Held(full) = Held(A[n]) \cup Seqs!ToSet(e)
      /\ Alike(full, A[n])
    BY <1>3, <1>6, <1>7, CalInsertEach
<1> HIDE DEF full
<1>9. c \in Cals /\ c.lastBucket \in Nat /\ c.bucketTop \in Nat /\ c.lastPrio \in Nat
    BY CalsFacts DEF Ready
<1>10. /\ d \in Cals /\ d.nBuckets = full.nBuckets /\ d.width = full.width /\ d.buckets = full.buckets
       /\ d.lastBucket = c.lastBucket /\ d.lastPrio = c.lastPrio /\ d.bucketTop = c.bucketTop
    BY <1>2, <1>8, <1>9 DEF Cals
<1>11. Held(d) = Held(full) /\ Filed(d, m_reverse)
  <2>1. Days(d) = Days(full) /\ \A ts : Calendar!Hash(d, ts) = Calendar!Hash(full, ts)
      BY <1>10, SameHash DEF Days
  <2>2. Held(d) = Held(full)
      BY <1>10, <2>1 DEF Held
  <2>3. Filed(d, m_reverse)
      BY <1>8, <1>10, <2>1 DEF Filed
  <2> QED
      BY <2>2, <2>3
<1>12. Held(d) = Held(c)
    BY <1>5, <1>6, <1>8, <1>11
<1>13. Alike(d, c) /\ SamePosition(d, c)
    BY <1>1, <1>8, <1>10 DEF Alike, SamePosition
<1>14. Placed(d)
    BY <1>12, <1>13, PlacedAgain DEF Ready
<1> QED
    BY <1>10, <1>11, <1>12, <1>13, <1>14 DEF Ready, d

\* A sum of integers is an integer.
LEMMA CalSum ==
    ASSUME NEW n \in Nat, NEW f, \A i \in 1..n : f[i] \in Int
    PROVE  Calendar!Sum(f, n) \in Int
<1> DEFINE D == [i \in 0..n |-> Int]
           E(g) == [i \in 0..n |-> IF i = 0 THEN 0 ELSE g[i - 1] + f[i]]
           step == [i \in 1..n |-> [d \in D[i - 1] |-> d + f[i]]]
           sum == CHOOSE g : g = E(g)
<1>1. 0 \in 0..n /\ n \in 0..n /\ \A i \in 1..n : i \in 0..n /\ i - 1 \in 0..n /\ i # 0
    OBVIOUS
<1>2. 0 \in D[0]
    BY <1>1
<1>3. \A i \in 1..n : \A d \in D[i - 1] : d + f[i] \in D[i]
    BY <1>1
<1>4. \A i \in 1..n : \A d \in D[i - 1] : step[i][d] = d + f[i]
    OBVIOUS
<1>5. sum = E(sum)
  <2> HIDE DEF D
  <2>1. \A i \in 1..n : \A d \in D[i - 1] : step[i][d] \in D[i]
      BY <1>3, <1>4
  <2> HIDE DEF step
  <2>2. PICK g : Loop(n, 0, step, g) /\ \A i \in 0..n : g[i] \in D[i]
      BY <1>1, <1>2, <2>1, LoopExists
  <2>3. \A i \in 1..n : step[i][g[i - 1]] = g[i - 1] + f[i]
      BY <1>1, <1>4, <2>2
  <2>4. g = E(g)
      BY <1>1, <2>2, <2>3 DEF Loop
  <2> HIDE DEF E
  <2> QED
      BY <2>4
<1>6. Calendar!Sum(f, n) = sum[n]
    BY DEF Calendar!Sum
<1> HIDE DEF sum
<1>7. sum[0] = 0 /\ \A i \in 1..n : sum[i] = sum[i - 1] + f[i]
    BY <1>1, <1>5
<1> HIDE DEF D
<1>8. \A i \in 0..n : sum[i] \in D[i]
  <2>1. \A i \in 1..n : sum[i - 1] \in D[i - 1] => sum[i] \in D[i]
      BY <1>3, <1>7
  <2> QED
      BY <1>1, <1>2, <1>7, <2>1, Stays
<1> QED
    BY <1>1, <1>6, <1>8 DEF D

\* There are not more samples than events, and at least two if there are.
LEMMA CalNSamples ==
    ASSUME NEW q \in Nat
    PROVE  Calendar!NSamples(q) \in 0..q /\ (q >= 2 => Calendar!NSamples(q) >= 2)
<1> DEFINE x == IF q <= 5 THEN q ELSE 5 + q \div 10
<1>1. x \in Nat /\ x <= q /\ (q >= 2 => x >= 2)
    OBVIOUS
<1>2. Calendar!NSamples(q) = CHOOSE z \in {25, x} : \A y \in {25, x} : z <= y
    BY DEF Calendar!NSamples, Calendar!Sets!Min
<1> HIDE DEF x
<1>3. Calendar!NSamples(q) \in {25, x} /\ \A y \in {25, x} : Calendar!NSamples(q) <= y
  <2>1. \E z \in {25, x} : \A y \in {25, x} : z <= y
    <3>1. CASE x <= 25
        BY <1>1, <3>1
    <3>2. CASE 25 <= x
        BY <1>1, <3>2
    <3> QED
        BY <1>1, <3>1, <3>2
  <2> QED
      BY <1>2, <2>1
<1> QED
    BY <1>1, <1>3

\* The new width is a width.
LEMMA CalNewWidth ==
    ASSUME m_reverse \in BOOLEAN, NEW c, Ready(c, m_reverse), NEW q \in Nat, Full(c, q)
    PROVE  Calendar!CalculateNewWidth(c, q) \in Nat \ {0}
<1>1. CASE q < 2
    BY <1>1 DEF Calendar!CalculateNewWidth
<1>2. CASE ~(q < 2)
  <2> DEFINE n == Calendar!NSamples(q)
             A == Calendar!Sampling(c, n)
             ts == [i \in 1..n |-> Calendar!PeekNext(A[i - 1]).ts]
             diff == [i \in 1..n - 1 |-> ts[i + 1] - ts[i]]
             twice == (Calendar!Sum(diff, n - 1) \div (n - 1)) * 2
             small == [i \in 1..n - 1 |-> IF diff[i] <= twice THEN diff[i] ELSE 0]
             x == 3 * Calendar!Sum(small, n - 1)
  <2>1. Calendar!CalculateNewWidth(c, q) = Calendar!Sets!Max({1, x})
      BY <1>2 DEF Calendar!CalculateNewWidth
  <2>2. n \in 0..q /\ n >= 2
      BY <1>2, CalNSamples
  <2> HIDE DEF n
  <2>3. n - 1 \in Nat \ {0} /\ \A i \in 1..n - 1 : i \in 1..n /\ i + 1 \in 1..n
      BY <2>2
  <2>4. \A i \in 1..n : Calendar!PeekNext(A[i - 1]) \in EventKey
      BY <2>2, CalSampling
  <2> HIDE DEF A
  <2>5. \A i \in 1..n : ts[i] \in Nat
      BY <2>4 DEF EventKey
  <2> HIDE DEF ts
  <2>6. \A i \in 1..n - 1 : diff[i] \in Int
      BY <2>3, <2>5
  <2> HIDE DEF diff
  <2>7. \A i \in 1..n - 1 : small[i] \in Int
      BY <2>6
  <2> HIDE DEF small
  <2>8. Calendar!Sum(small, n - 1) \in Int
    <3>1. n - 1 \in Nat
        BY <2>3
    <3> QED
        BY <2>7, <3>1, CalSum
  <2>9. x \in Int
      BY <2>8
  <2> HIDE DEF x
  <2>10. \E z \in {1, x} : \A y \in {1, x} : z >= y
    <3>1. CASE x >= 1
        BY <2>9, <3>1
    <3>2. CASE 1 >= x
        BY <2>9, <3>2
    <3> QED
        BY <2>9, <3>1, <3>2
  <2>11. Calendar!Sets!Max({1, x}) = CHOOSE z \in {1, x} : \A y \in {1, x} : z >= y
      BY DEF Calendar!Sets!Max
  <2>12. Calendar!Sets!Max({1, x}) \in {1, x} /\ Calendar!Sets!Max({1, x}) >= 1
      BY <2>10, <2>11
  <2> QED
      BY <2>1, <2>9, <2>12
<1> QED
    BY <1>1, <1>2

\* Init yields an empty calendar at the interval of its start.
LEMMA CalNew ==
    ASSUME NEW n \in Nat \ {0}, NEW w \in Nat \ {0}, NEW p \in Nat, NEW rev \in BOOLEAN
    PROVE  LET d == Calendar!NewCalendar(n, w, p)
           IN  Ready(d, rev) /\ Held(d) = {} /\ d.lastPrio = p /\ d.nBuckets = n /\ d.width = w
<1> DEFINE B == [b \in 0..n - 1 |-> <<>>]
           x == (p \div w) % n
           z == (p \div w + 1) * w
           d == Calendar!NewCalendar(n, w, p)
<1>1. d = [buckets |-> B, nBuckets |-> n, width |-> w, lastPrio |-> p, lastBucket |-> x, bucketTop |-> z]
    BY DEF Calendar!NewCalendar, Calendar!Hash
<1> HIDE DEF d
<1>2. B \in [0..n - 1 -> Seq(EventKey)] /\ \A b \in 0..n - 1 : B[b] = <<>>
    BY EmptyList
<1>3. B \in Buckets
    BY <1>2 DEF Buckets
<1>4. x \in Nat /\ z \in Nat
  <2>1. p \div w \in Nat
      BY DivMod
  <2> QED
      BY <2>1, DivMod
<1> HIDE DEF B
<1>5. /\ d.buckets = B /\ d.nBuckets = n /\ d.width = w /\ d.lastPrio = p
      /\ d.lastBucket = (p \div w) % n /\ d.bucketTop = (p \div w + 1) * w
    BY <1>1
<1>6. d \in Cals
    BY <1>1, <1>2, <1>3, <1>4 DEF Cals
<1> HIDE DEF x, z
<1>7. \A b \in Days(d) : d.buckets[b] = <<>>
    BY <1>2, <1>5 DEF Days
<1>8. Held(d) = {}
    BY <1>7, EmptyList DEF Held
<1>9. Filed(d, rev)
    BY <1>7, EmptyList DEF Filed
<1>10. Placed(d)
    BY <1>5, <1>8 DEF Placed, Calendar!Hash
<1> QED
    BY <1>5, <1>6, <1>8, <1>9, <1>10 DEF Ready, d

\* The events of the first buckets.
HeldUpTo(c, b) == UNION {Seqs!ToSet(c.buckets[k]) : k \in 0..b - 1}

\* DoResize moves every event to its bucket of the new calendar and keeps the
\* position in time.
LEMMA CalDoResize ==
    ASSUME m_reverse \in BOOLEAN, NEW c, Ready(c, m_reverse), NEW size \in Nat \ {0}, NEW w \in Nat \ {0}
    PROVE  LET d == Calendar!DoResize(c, size, w)
           IN  Ready(d, m_reverse) /\ Held(d) = Held(c) /\ d.lastPrio = c.lastPrio
<1> DEFINE n == c.nBuckets
           first == Calendar!NewCalendar(size, w, c.lastPrio)
           D == [i \in 0..n |-> {d \in Cals : /\ Filed(d, m_reverse) /\ Held(d) = HeldUpTo(c, i)
                                              /\ Alike(d, first) /\ SamePosition(d, first)}]
           E(f) == [i \in 0..n |-> IF i = 0 THEN first ELSE Calendar!InsertEach(f[i - 1], c.buckets[i - 1])]
           step == [i \in 1..n |-> [d \in D[i - 1] |-> Calendar!InsertEach(d, c.buckets[i - 1])]]
           after == CHOOSE f : f = E(f)
<1>a. c \in Cals /\ Filed(c, m_reverse) /\ Placed(c) /\ c.lastPrio \in Nat /\ n \in Nat \ {0}
    BY CalsFacts DEF Ready
<1>b. Ready(first, m_reverse) /\ Held(first) = {} /\ first.lastPrio = c.lastPrio
    BY <1>a, CalNew
<1> HIDE DEF n
<1>1. n \in Nat /\ 0 \in 0..n /\ n \in 0..n /\ \A i \in 1..n : i \in 0..n /\ i - 1 \in 0..n /\ i # 0
    BY <1>a
<1>c. \A i \in 1..n : i - 1 \in Days(c) /\ i - 1 \in Nat
    BY <1>a DEF Days, n
<1>2. first \in D[0]
  <2>1. HeldUpTo(c, 0) = {}
    <3>1. 0..0 - 1 = {}
        OBVIOUS
    <3> QED
        BY <3>1 DEF HeldUpTo
  <2> HIDE DEF first
  <2>2. Alike(first, first) /\ SamePosition(first, first)
      BY DEF Alike, SamePosition
  <2> QED
      BY <1>1, <1>b, <2>1, <2>2 DEF Ready
<1>3. ASSUME NEW i \in 1..n, NEW d \in D[i - 1] PROVE Calendar!InsertEach(d, c.buckets[i - 1]) \in D[i]
  <2> HIDE DEF first
  <2>1. /\ d \in Cals /\ Filed(d, m_reverse) /\ Held(d) = HeldUpTo(c, i - 1)
        /\ Alike(d, first) /\ SamePosition(d, first)
      BY <1>1, <1>3
  <2> DEFINE s == c.buckets[i - 1]
  <2>2. s \in Seq(EventKey) /\ Sorted(s, m_reverse)
      BY <1>a, <1>c, CalsFacts DEF Filed
  <2>3. Distinct(s)
      BY <2>2, SortedDistinct
  <2>4. Held(d) \cap Seqs!ToSet(s) = {}
    <3>1. SUFFICES ASSUME NEW x \in Held(d), x \in Seqs!ToSet(s) PROVE FALSE
        OBVIOUS
    <3>2. PICK k \in 0..i - 1 - 1 : x \in Seqs!ToSet(c.buckets[k])
        BY <2>1, <3>1 DEF HeldUpTo
    <3>3. k \in Days(c) /\ i - 1 \in Days(c) /\ k # i - 1
        BY <1>a, <1>c DEF Days, n
    <3>4. Calendar!Hash(c, x.ts) = k /\ Calendar!Hash(c, x.ts) = i - 1
        BY <1>a, <3>1, <3>2, <3>3 DEF Filed
    <3> QED
        BY <3>3, <3>4
  <2>5. HeldUpTo(c, i) = HeldUpTo(c, i - 1) \cup Seqs!ToSet(s)
    <3>1. 0..i - 1 = (0..i - 1 - 1) \cup {i - 1}
        BY <1>c
    <3> QED
        BY <3>1 DEF HeldUpTo
  <2> HIDE DEF s
  <2> DEFINE r == Calendar!InsertEach(d, s)
  <2>6. /\ r \in Cals /\ Filed(r, m_reverse) /\ Held(r) = Held(d) \cup Seqs!ToSet(s)
        /\ Alike(r, d) /\ SamePosition(r, d)
      BY <2>1, <2>2, <2>3, <2>4, CalInsertEach
  <2> HIDE DEF r
  <2>7. Held(r) = HeldUpTo(c, i)
      BY <2>1, <2>5, <2>6
  <2>8. Alike(r, first) /\ SamePosition(r, first)
      BY <2>1, <2>6 DEF Alike, SamePosition
  <2>9. r \in D[i]
      BY <1>1, <2>6, <2>7, <2>8
  <2> QED
      BY <2>9 DEF r, s
<1>4. \A i \in 1..n : \A d \in D[i - 1] : step[i][d] = Calendar!InsertEach(d, c.buckets[i - 1])
    OBVIOUS
<1>5. after = E(after)
  <2> HIDE DEF D
  <2>1. \A i \in 1..n : \A d \in D[i - 1] : step[i][d] \in D[i]
      BY <1>3, <1>4
  <2> HIDE DEF step, first
  <2>2. PICK f : Loop(n, first, step, f) /\ \A i \in 0..n : f[i] \in D[i]
      BY <1>1, <1>2, <2>1, LoopExists
  <2>3. \A i \in 1..n : step[i][f[i - 1]] = Calendar!InsertEach(f[i - 1], c.buckets[i - 1])
      BY <1>1, <1>4, <2>2
  <2>4. f = E(f)
      BY <1>1, <2>2, <2>3 DEF Loop
  <2> HIDE DEF E
  <2> QED
      BY <2>4
<1>6. Calendar!DoResize(c, size, w) = after[n]
    BY DEF Calendar!DoResize, n
<1> HIDE DEF after, first
<1>7. after[0] = first /\ \A i \in 1..n : after[i] = Calendar!InsertEach(after[i - 1], c.buckets[i - 1])
    BY <1>1, <1>5
<1> HIDE DEF D
<1>8. \A i \in 0..n : after[i] \in D[i]
  <2>1. \A i \in 1..n : after[i - 1] \in D[i - 1] => after[i] \in D[i]
      BY <1>3, <1>7
  <2> QED
      BY <1>1, <1>2, <1>7, <2>1, Stays
<1>9. PICK d : d = after[n]
    OBVIOUS
<1>10. /\ d \in Cals /\ Filed(d, m_reverse) /\ Held(d) = HeldUpTo(c, n)
       /\ Alike(d, first) /\ SamePosition(d, first)
    BY <1>1, <1>8, <1>9 DEF D
<1>11. Held(d) = Held(c)
    BY <1>10 DEF HeldUpTo, Held, Days, n
<1>12. Placed(d)
  <2>1. /\ d.nBuckets = first.nBuckets /\ d.width = first.width /\ d.lastPrio = first.lastPrio
        /\ d.lastBucket = first.lastBucket /\ d.bucketTop = first.bucketTop
      BY <1>10 DEF Alike, SamePosition
  <2>2. Calendar!Hash(d, d.lastPrio) = Calendar!Hash(first, first.lastPrio)
      BY <2>1, SameHash
  <2>3. Placed(first)
      BY <1>b DEF Ready
  <2>4. \A e \in Held(d) : d.lastPrio <= e.ts
      BY <1>a, <1>b, <1>11, <2>1 DEF Placed
  <2> QED
      BY <2>1, <2>2, <2>3, <2>4 DEF Placed
<1>13. d.lastPrio = c.lastPrio
    BY <1>b, <1>10 DEF SamePosition
<1> QED
    BY <1>6, <1>9, <1>10, <1>11, <1>12, <1>13 DEF Ready

\* Resize, with the samples taken and put back, keeps every event.
LEMMA CalResize ==
    ASSUME m_reverse \in BOOLEAN, NEW c, Ready(c, m_reverse), NEW q \in Nat, Full(c, q),
           NEW size \in Nat \ {0}
    PROVE  LET d == Calendar!Resize(c, q, size)
           IN  Ready(d, m_reverse) /\ Held(d) = Held(c) /\ d.lastPrio = c.lastPrio
<1> DEFINE w == Calendar!CalculateNewWidth(c, q)
           kept == IF q < 2 THEN c ELSE Calendar!PutBack(c, Calendar!NSamples(q))
<1>1. w \in Nat \ {0}
    BY CalNewWidth
<1>2. Ready(kept, m_reverse) /\ Held(kept) = Held(c) /\ kept.lastPrio = c.lastPrio
  <2>1. CASE q < 2
      BY <2>1
  <2>2. CASE ~(q < 2)
    <3>1. PICK n \in 0..q : n = Calendar!NSamples(q)
        BY CalNSamples
    <3>2. kept = Calendar!PutBack(c, n)
        BY <2>2, <3>1
    <3> HIDE DEF kept
    <3> QED
        BY <3>2, CalPutBack
  <2> QED
      BY <2>1, <2>2
<1>3. Calendar!Resize(c, q, size) = Calendar!DoResize(kept, size, w)
    BY DEF Calendar!Resize
<1> HIDE DEF w, kept
<1>4. LET d == Calendar!DoResize(kept, size, w)
      IN  Ready(d, m_reverse) /\ Held(d) = Held(kept) /\ d.lastPrio = kept.lastPrio
    BY <1>1, <1>2, CalDoResize
<1> QED
    BY <1>2, <1>3, <1>4

\* Resizing keeps the events and the position in time.
LEMMA CalResizes ==
    ASSUME m_reverse \in BOOLEAN, NEW c, Ready(c, m_reverse), NEW q \in Nat, Full(c, q)
    PROVE  /\ LET d == Calendar!ResizeUp(c, q)
              IN  Ready(d, m_reverse) /\ Held(d) = Held(c) /\ d.lastPrio = c.lastPrio
           /\ LET d == Calendar!ResizeDown(c, q)
              IN  Ready(d, m_reverse) /\ Held(d) = Held(c) /\ d.lastPrio = c.lastPrio
<1>1. c.nBuckets \in Nat \ {0}
    BY CalsFacts DEF Ready
<1>2. c.nBuckets * 2 \in Nat \ {0} /\ (q < c.nBuckets \div 2 => c.nBuckets \div 2 \in Nat \ {0})
    BY <1>1
<1>3. LET d == Calendar!ResizeUp(c, q)
      IN  Ready(d, m_reverse) /\ Held(d) = Held(c) /\ d.lastPrio = c.lastPrio
    BY <1>2, CalResize DEF Calendar!ResizeUp
<1>4. LET d == Calendar!ResizeDown(c, q)
      IN  Ready(d, m_reverse) /\ Held(d) = Held(c) /\ d.lastPrio = c.lastPrio
    BY <1>2, CalResize DEF Calendar!ResizeDown
<1> QED
    BY <1>3, <1>4

\* CalendarScheduler::Insert, with the resize it may cause.
LEMMA CalInsert ==
    ASSUME m_reverse \in BOOLEAN, NEW c, Ready(c, m_reverse), NEW q \in Nat, Full(c, q),
           NEW e \in EventKey, e \notin Held(c), c.lastPrio <= e.ts
    PROVE  LET d == Calendar!ResizeUp(Calendar!DoInsert(c, e), q + 1)
           IN  /\ Ready(d, m_reverse) /\ Held(d) = Held(c) \cup {e} /\ Full(d, q + 1)
               /\ d.lastPrio = c.lastPrio
<1> DEFINE m == Calendar!DoInsert(c, e)
           d == Calendar!ResizeUp(m, q + 1)
<1>1. c \in Cals /\ Filed(c, m_reverse) /\ Placed(c)
    BY DEF Ready
<1>2. /\ m \in Cals /\ Filed(m, m_reverse) /\ Held(m) = Held(c) \cup {e}
      /\ m.nBuckets = c.nBuckets /\ m.width = c.width /\ SamePosition(m, c)
    BY <1>1, CalDoInsert
<1> HIDE DEF m
<1>3. Placed(m)
  <2>1. m.lastPrio = c.lastPrio /\ m.lastBucket = c.lastBucket /\ m.bucketTop = c.bucketTop
      BY <1>2 DEF SamePosition
  <2>2. Calendar!Hash(m, m.lastPrio) = Calendar!Hash(c, c.lastPrio)
      BY <1>2, <2>1, SameHash
  <2>3. \A f \in Held(m) : m.lastPrio <= f.ts
      BY <1>1, <1>2, <2>1 DEF Placed
  <2> QED
      BY <1>1, <1>2, <2>1, <2>2, <2>3 DEF Placed
<1>4. Ready(m, m_reverse) /\ m.lastPrio = c.lastPrio
    BY <1>2, <1>3 DEF Ready, SamePosition
<1>5. q \in Int /\ q + 1 \in Nat
    OBVIOUS
<1>6. Full(m, q + 1)
    BY <1>2, <1>5, FullMore, Zenon
<1>7. Ready(d, m_reverse) /\ Held(d) = Held(m) /\ d.lastPrio = m.lastPrio
    BY <1>4, <1>5, <1>6, CalResizes
<1> HIDE DEF d
<1>8. Full(d, q + 1)
    BY <1>6, <1>7 DEF Full
<1> QED
    BY <1>2, <1>4, <1>7, <1>8 DEF d, m

\* CalendarScheduler::RemoveNext, with the resize it may cause.
LEMMA CalRemoveNext ==
    ASSUME m_reverse \in BOOLEAN, NEW c, Ready(c, m_reverse), NEW q \in Nat \ {0}, Full(c, q)
    PROVE  LET e == Calendar!PeekNext(c)
               d == Calendar!ResizeDown(Calendar!DoRemoveNext(c), q - 1)
           IN  /\ e \in EventKey /\ IsEarliest(e, Held(c))
               /\ Ready(d, m_reverse) /\ Held(d) = Held(c) \ {e} /\ Full(d, q - 1)
               /\ d.lastPrio = e.ts
<1> DEFINE e == Calendar!PeekNext(c)
           m == Calendar!DoRemoveNext(c)
           d == Calendar!ResizeDown(m, q - 1)
<1>1. Held(c) # {}
    BY FullNonempty
<1>2. /\ e \in EventKey /\ IsEarliest(e, Held(c)) /\ Ready(m, m_reverse)
      /\ Held(m) = Held(c) \ {e} /\ m.lastPrio = e.ts
    BY <1>1, CalDoRemoveNext
<1> HIDE DEF e, m
<1>3. q \in Int /\ q - 1 \in Nat
    OBVIOUS
<1>4. e \in Held(c)
    BY <1>2 DEF IsEarliest
<1>5. Full(m, q - 1)
    BY <1>2, <1>3, <1>4, FullLess, Zenon
<1>6. Ready(d, m_reverse) /\ Held(d) = Held(m) /\ d.lastPrio = m.lastPrio
    BY <1>2, <1>3, <1>5, CalResizes
<1> HIDE DEF d
<1>7. Full(d, q - 1)
    BY <1>5, <1>6 DEF Full
<1> QED
    BY <1>2, <1>6, <1>7 DEF d, m, e

\* CalendarScheduler::Remove, with the resize it may cause.
LEMMA CalRemove ==
    ASSUME m_reverse \in BOOLEAN, NEW c, Ready(c, m_reverse), NEW q \in Nat \ {0}, Full(c, q),
           NEW e \in Held(c), NEW i \in 1..Len(c.buckets[Calendar!Hash(c, e.ts)]),
           c.buckets[Calendar!Hash(c, e.ts)][i] = e,
           NEW d, d = Calendar!ResizeDown([c EXCEPT !.buckets[Calendar!Hash(c, e.ts)] =
                                              Calendar!Seqs!RemoveAt(@, i)], q - 1)
    PROVE  /\ Ready(d, m_reverse) /\ Held(d) = Held(c) \ {e} /\ Full(d, q - 1)
           /\ d.lastPrio = c.lastPrio
<1> DEFINE b == Calendar!Hash(c, e.ts)
           s == c.buckets[b]
           r == Seqs!RemoveAt(s, i)
           m == [c EXCEPT !.buckets[b] = Calendar!Seqs!RemoveAt(@, i)]
<1>0. d = Calendar!ResizeDown(m, q - 1)
    OBVIOUS
<1>1. c \in Cals /\ Filed(c, m_reverse) /\ Placed(c)
    BY DEF Ready
<1>2. b \in Days(c)
    BY <1>1, HeldAway
<1>3. s \in Seq(EventKey) /\ Sorted(s, m_reverse) /\ i \in 1..Len(s) /\ s[i] = e
    BY <1>1, <1>2, CalsFacts DEF Filed
<1>4. m = [c EXCEPT !.buckets[b] = r]
    BY DEF Calendar!Seqs!RemoveAt, Seqs!RemoveAt
<1> HIDE DEF m
<1>5. r \in Seq(EventKey) /\ Sorted(r, m_reverse) /\ Seqs!ToSet(r) = Seqs!ToSet(s) \ {e}
  <2>1. r \in Seq(EventKey) /\ Sorted(r, m_reverse) /\ Seqs!ToSet(r) = Seqs!ToSet(s) \ {s[i]}
    <3> HIDE DEF s
    <3> QED
        BY <1>3, RemovedSorted
  <2> QED
      BY <1>3, <2>1
<1>6. Without(r, c.buckets[Calendar!Hash(c, e.ts)], e)
    BY <1>5 DEF Without
<1> HIDE DEF r
<1>7. Rebucketed(m, c, b, r) /\ SamePosition(m, c)
    BY <1>1, <1>2, <1>4, <1>5, Rebucket
<1>8. Filed(m, m_reverse) /\ Held(m) = Held(c) \ {e}
  <2>1. Rebucketed(m, c, Calendar!Hash(c, e.ts), r)
      BY <1>7
  <2>2. Sorted(r, m_reverse)
      BY <1>5
  <2> HIDE DEF b
  <2> QED
      BY <1>1, <1>6, <2>1, <2>2, FiledLess, ZenonT(60)
<1>9. m \in Cals /\ m.nBuckets = c.nBuckets /\ m.width = c.width
    BY <1>7 DEF Rebucketed
<1>10. Ready(m, m_reverse) /\ m.lastPrio = c.lastPrio
  <2>1. m.lastPrio = c.lastPrio /\ m.lastBucket = c.lastBucket /\ m.bucketTop = c.bucketTop
      BY <1>7 DEF SamePosition
  <2>2. Calendar!Hash(m, m.lastPrio) = Calendar!Hash(c, c.lastPrio)
      BY <1>9, <2>1, SameHash
  <2>3. \A f \in Held(m) : m.lastPrio <= f.ts
      BY <1>1, <1>8, <2>1 DEF Placed
  <2>4. Placed(m)
      BY <1>1, <1>9, <2>1, <2>2, <2>3 DEF Placed
  <2> QED
      BY <1>8, <1>9, <2>1, <2>4 DEF Ready
<1>11. q \in Int /\ q - 1 \in Nat
    OBVIOUS
<1>12. Full(m, q - 1)
    BY <1>8, <1>11, FullLess, Zenon
<1>13. Ready(d, m_reverse) /\ Held(d) = Held(m) /\ d.lastPrio = m.lastPrio
    BY <1>10, <1>11, <1>12, <1>0, CalResizes
<1>14. Full(d, q - 1)
    BY <1>12, <1>13 DEF Full
<1> QED
    BY <1>8, <1>10, <1>13, <1>14

\* RemoveNext until the calendar is empty hands out every event once.
LEMMA CalDrained ==
    ASSUME m_reverse \in BOOLEAN, NEW c, Ready(c, m_reverse), NEW q \in Nat, Full(c, q)
    PROVE  LET e == Calendar!Drained(c, q)
           IN  e \in Seq(EventKey) /\ Distinct(e) /\ Seqs!ToSet(e) = Held(c)
<1> DEFINE Step(i, d) == Calendar!ResizeDown(Calendar!DoRemoveNext(d), q - i)
           D == [i \in 0..q |-> {d \in Cals : Ready(d, m_reverse) /\ Full(d, q - i)}]
           E(f) == [i \in 0..q |-> IF i = 0 THEN c ELSE Step(i, f[i - 1])]
           step == [i \in 1..q |-> [d \in D[i - 1] |-> Step(i, d)]]
           after == CHOOSE f : f = E(f)
<1>1. q \in Nat /\ 0 \in 0..q /\ q \in 0..q /\ \A i \in 1..q : i \in 0..q /\ i - 1 \in 0..q /\ i # 0
    OBVIOUS
<1>2. c \in D[0]
    BY <1>1 DEF Ready
<1>3. ASSUME NEW i \in 1..q, NEW d \in D[i - 1]
      PROVE  /\ Step(i, d) \in D[i]
             /\ Calendar!PeekNext(d) \in EventKey /\ Calendar!PeekNext(d) \in Held(d)
             /\ Held(Step(i, d)) = Held(d) \ {Calendar!PeekNext(d)}
  <2>1. d \in Cals /\ Ready(d, m_reverse) /\ Full(d, q - (i - 1))
      BY <1>1, <1>3
  <2>2. q - (i - 1) \in Nat \ {0} /\ q - (i - 1) - 1 = q - i
      BY <1>1
  <2> DEFINE r == Step(i, d)
             e == Calendar!PeekNext(d)
             p == q - (i - 1)
  <2>3. r = Calendar!ResizeDown(Calendar!DoRemoveNext(d), p - 1)
      BY <2>2
  <2> HIDE DEF p
  <2>4. p \in Nat \ {0} /\ Full(d, p)
      BY <2>1, <2>2 DEF p
  <2> HIDE DEF Step, r
  <2>5. /\ e \in EventKey /\ IsEarliest(e, Held(d)) /\ Ready(r, m_reverse)
        /\ Held(r) = Held(d) \ {e} /\ Full(r, p - 1)
      BY <2>1, <2>3, <2>4, CalRemoveNext
  <2> HIDE DEF e
  <2>6. e \in Held(d) /\ r \in Cals
      BY <2>5 DEF IsEarliest, Ready
  <2>7. p - 1 = q - i
      BY <2>2 DEF p
  <2>8. r \in D[i]
      BY <1>1, <2>5, <2>6, <2>7
  <2> QED
      BY <2>5, <2>6, <2>8 DEF r, e
<1> HIDE DEF Step
<1>4. \A i \in 1..q : \A d \in D[i - 1] : step[i][d] = Step(i, d)
    OBVIOUS
<1>5. after = E(after)
  <2> HIDE DEF D
  <2>1. \A i \in 1..q : \A d \in D[i - 1] : step[i][d] \in D[i]
      BY <1>3, <1>4
  <2> HIDE DEF step
  <2>2. PICK f : Loop(q, c, step, f) /\ \A i \in 0..q : f[i] \in D[i]
      BY <1>1, <1>2, <2>1, LoopExists
  <2>3. \A i \in 1..q : step[i][f[i - 1]] = Step(i, f[i - 1])
      BY <1>1, <1>4, <2>2
  <2>4. f = E(f)
      BY <1>1, <2>2, <2>3 DEF Loop
  <2> HIDE DEF E
  <2> QED
      BY <2>4
<1>6. Calendar!Drained(c, q) = [i \in 1..q |-> Calendar!PeekNext(after[i - 1])]
    BY DEF Calendar!Drained, Step
<1> HIDE DEF after
<1>7. after[0] = c /\ \A i \in 1..q : after[i] = Step(i, after[i - 1])
    BY <1>1, <1>5
<1> HIDE DEF D
<1>8. \A i \in 0..q : after[i] \in D[i]
  <2>1. \A i \in 1..q : after[i - 1] \in D[i - 1] => after[i] \in D[i]
      BY <1>3, <1>7
  <2> QED
      BY <1>1, <1>2, <1>7, <2>1, Stays
<1> DEFINE e == Calendar!Drained(c, q)
           C == [i \in 0..q |-> Held(after[i])]
<1>9. \A i \in 1..q : Calendar!PeekNext(after[i - 1]) \in EventKey
    BY <1>1, <1>3, <1>8
<1>10. e \in Seq(EventKey) /\ Len(e) = q
  <2>1. e \in [1..q -> EventKey]
      BY <1>6, <1>9
  <2> HIDE DEF e
  <2>2. e \in Seq(EventKey)
      BY <1>1, <2>1, SeqDef
  <2> QED
      BY <1>1, <2>1, <2>2, LenProperties
<1>11. ASSUME NEW i \in 1..q PROVE e[i] \in C[i - 1] /\ C[i] = C[i - 1] \ {e[i]}
  <2>1. e[i] = Calendar!PeekNext(after[i - 1])
      BY <1>6
  <2>2. C[i] = Held(after[i]) /\ C[i - 1] = Held(after[i - 1])
      BY <1>1
  <2>3. after[i - 1] \in D[i - 1] /\ after[i] = Step(i, after[i - 1])
      BY <1>1, <1>7, <1>8
  <2> HIDE DEF e, C
  <2> QED
      BY <1>3, <2>1, <2>2, <2>3
<1>12. C[0] = Held(c) /\ C[q] = {}
  <2>1. Full(after[q], q - q)
      BY <1>1, <1>8 DEF D
  <2>2. q - q = 0
      BY <1>1
  <2>3. Held(after[q]) = {}
      BY <2>1, <2>2, FS_EmptySet DEF Full
  <2> QED
      BY <1>1, <1>7, <2>3
<1> HIDE DEF e, C
<1>13. Distinct(e) /\ C[0] = C[q] \cup Seqs!ToSet(e)
    BY <1>10, <1>11, Drain
<1> QED
    BY <1>10, <1>12, <1>13 DEF e

\* Inserting distinct events in turn, with the resizes this causes.
LEMMA CalFilled ==
    ASSUME m_reverse \in BOOLEAN, NEW evs \in Seq(EventKey), Distinct(evs)
    PROVE  LET d == Calendar!Filled(evs)
           IN  /\ Ready(d, m_reverse) /\ Held(d) = Seqs!ToSet(evs) /\ Full(d, Len(evs))
               /\ d.lastPrio = 0
<1> DEFINE n == Len(evs)
           first == Calendar!NewCalendar(2, 1, 0)
           Step(i, d) == Calendar!ResizeUp(Calendar!DoInsert(d, evs[i]), i)
           D == [i \in 0..n |-> {d \in Cals : /\ Ready(d, m_reverse) /\ Full(d, i) /\ d.lastPrio = 0
                                              /\ Held(d) = FirstOf(evs, i)}]
           E(f) == [i \in 0..n |-> IF i = 0 THEN first ELSE Step(i, f[i - 1])]
           step == [i \in 1..n |-> [d \in D[i - 1] |-> Step(i, d)]]
           after == CHOOSE f : f = E(f)
<1>1. n \in Nat /\ 0 \in 0..n /\ n \in 0..n /\ \A i \in 1..n : i \in 0..n /\ i - 1 \in 0..n /\ i # 0
    OBVIOUS
<1>2. first \in D[0]
  <2>1. 2 \in Nat \ {0} /\ 1 \in Nat \ {0} /\ 0 \in Nat
      OBVIOUS
  <2>2. Ready(first, m_reverse) /\ Held(first) = {} /\ first.lastPrio = 0
      BY <2>1, CalNew
  <2> HIDE DEF first
  <2>3. Full(first, 0) /\ FirstOf(evs, 0) = {}
      BY <2>2, FS_EmptySet, FirstOfEnds DEF Full
  <2> QED
      BY <1>1, <2>2, <2>3 DEF Ready
<1>3. ASSUME NEW i \in 1..n, NEW d \in D[i - 1] PROVE Step(i, d) \in D[i]
  <2>1. Ready(d, m_reverse) /\ Full(d, i - 1) /\ d.lastPrio = 0 /\ Held(d) = FirstOf(evs, i - 1)
      BY <1>1, <1>3
  <2>2. evs[i] \in EventKey /\ evs[i] \notin Held(d) /\ FirstOf(evs, i) = Held(d) \cup {evs[i]}
      BY <2>1, FirstOfNext
  <2>3. d.lastPrio <= evs[i].ts
      BY <2>1, <2>2 DEF EventKey
  <2> DEFINE p == i - 1
             r == Step(i, d)
  <2>4. p \in Nat /\ p + 1 = i /\ Full(d, p)
      BY <1>1, <2>1
  <2> HIDE DEF p
  <2>5. r = Calendar!ResizeUp(Calendar!DoInsert(d, evs[i]), p + 1)
      BY <2>4
  <2> HIDE DEF Step, r
  <2>6. /\ Ready(r, m_reverse) /\ Held(r) = Held(d) \cup {evs[i]} /\ Full(r, p + 1)
        /\ r.lastPrio = d.lastPrio
      BY <2>1, <2>2, <2>3, <2>4, <2>5, CalInsert
  <2>7. Ready(r, m_reverse) /\ Held(r) = FirstOf(evs, i) /\ Full(r, i) /\ r.lastPrio = 0 /\ r \in Cals
      BY <2>1, <2>2, <2>4, <2>6 DEF Ready
  <2>8. r \in D[i]
      BY <1>1, <2>7
  <2> QED
      BY <2>8 DEF r
<1> HIDE DEF Step
<1>4. \A i \in 1..n : \A d \in D[i - 1] : step[i][d] = Step(i, d)
    OBVIOUS
<1>5. after = E(after)
  <2> HIDE DEF D
  <2>1. \A i \in 1..n : \A d \in D[i - 1] : step[i][d] \in D[i]
      BY <1>3, <1>4
  <2> HIDE DEF step, n, first
  <2>2. PICK f : Loop(n, first, step, f) /\ \A i \in 0..n : f[i] \in D[i]
      BY <1>1, <1>2, <2>1, LoopExists
  <2>3. \A i \in 1..n : step[i][f[i - 1]] = Step(i, f[i - 1])
      BY <1>1, <1>4, <2>2
  <2>4. f = E(f)
      BY <1>1, <2>2, <2>3 DEF Loop
  <2> HIDE DEF E
  <2> QED
      BY <2>4
<1>6. Calendar!Filled(evs) = after[n]
    BY DEF Calendar!Filled, Step
<1> HIDE DEF after
<1>7. after[0] = first /\ \A i \in 1..n : after[i] = Step(i, after[i - 1])
    BY <1>1, <1>5
<1> HIDE DEF n, D, first
<1>8. \A i \in 0..n : after[i] \in D[i]
  <2>1. \A i \in 1..n : after[i - 1] \in D[i - 1] => after[i] \in D[i]
      BY <1>3, <1>7
  <2> QED
      BY <1>1, <1>2, <1>7, <2>1, Stays
<1>9. after[n] \in D[n]
    BY <1>1, <1>8
<1>10. FirstOf(evs, n) = Seqs!ToSet(evs)
    BY FirstOfEnds DEF n
<1> QED
    BY <1>1, <1>6, <1>9, <1>10 DEF D, n

-----------------------------------------------------------------------------
(* EventList.                                                              *)

\* The keys of the model are keys, and so is NoEvent.
LEMMA KeysAreKeys == Keys \cup {NoEvent} \subseteq EventKey
BY BoundsAssumption DEF Keys, NoEvent, EventKey

\* The invariant: typed, no uid pending twice, nothing overdue.
Inv == TypeOK /\ UniqueUids /\ NothingOverdue

\* Every step of the contract keeps its invariant and goes forward.
LEMMA InvStep == Inv /\ [Next]_vars => Inv' /\ (next' # next => Less(next, next'))
<1> SUFFICES ASSUME Inv, [Next]_vars
             PROVE  Inv' /\ (next' # next => Less(next, next'))
    OBVIOUS
<1> USE DEF Inv
<1>1. CASE UNCHANGED vars
    BY <1>1 DEF vars, TypeOK, UniqueUids, NothingOverdue
<1>2. ASSUME NEW ev \in Keys, Insert(ev)
      PROVE  Inv' /\ next' = next
  <2>1. next' = next /\ m_list' = m_list \cup {ev} /\ Less(next, ev)
        /\ \A e \in m_list : e.uid # ev.uid
      BY <1>2 DEF Insert
  <2>2. NothingOverdue'
      BY <2>1 DEF NothingOverdue
  <2>3. UniqueUids'
      BY <2>1 DEF UniqueUids
  <2>4. next # ev
      BY <2>1, KeysAreKeys, LessIrreflexive
  <2>5. TypeOK'
      BY <2>1, <2>4 DEF TypeOK
  <2> QED
      BY <2>1, <2>2, <2>3, <2>5
<1>3. CASE RemoveNext
  <2>1. PICK ev \in m_list : /\ PeekNext(ev)
                             /\ next' = ev
                             /\ m_list' = m_list \ {ev}
      BY <1>3 DEF RemoveNext
  <2>2. Less(next, ev)
      BY <2>1 DEF NothingOverdue
  <2>3. NothingOverdue'
      BY <2>1 DEF NothingOverdue, PeekNext, IsEarliest
  <2>4. UniqueUids' /\ TypeOK'
      BY <2>1 DEF UniqueUids, TypeOK
  <2> QED
      BY <2>1, <2>2, <2>3, <2>4
<1>4. ASSUME NEW ev \in m_list, Remove(ev)
      PROVE  Inv' /\ next' = next
    BY <1>4 DEF Remove, TypeOK, UniqueUids, NothingOverdue
<1> QED
    BY <1>1, <1>2, <1>3, <1>4 DEF Next

\* The contract is consistent: in every behaviour of an event list whose user
\* respects Insert's conditions, the list stays well formed, no uid is pending
\* twice and nothing pending is behind the event handed out last.
THEOREM ContractInvariant == Spec => [](TypeOK /\ UniqueUids /\ NothingOverdue)
<1>1. Init => Inv
    BY DEF Init, Inv, TypeOK, UniqueUids, NothingOverdue
<1> QED
    BY <1>1, InvStep, PTL DEF Spec, Inv

\* RemoveNext hands out events in strictly increasing key order (InOrder).
THEOREM RemovalInOrder == Spec => InOrder
<1>1. Init => Inv
    BY DEF Init, Inv, TypeOK, UniqueUids, NothingOverdue
<1>2. Inv /\ [Next]_vars => [next' # next => Less(next, next')]_next
    BY InvStep
<1> QED
    BY <1>1, <1>2, InvStep, PTL DEF Spec, InOrder

-----------------------------------------------------------------------------
(* All schedulers together.                                                *)

\* There is one earliest event.
LEMMA EarliestUnique ==
    ASSUME NEW S \in SUBSET EventKey, NEW a, NEW b, IsEarliest(a, S), IsEarliest(b, S)
    PROVE  a = b
<1>1. a \in S /\ b \in S /\ a \in EventKey /\ b \in EventKey
    BY DEF IsEarliest
<1>2. a # b => Less(a, b) /\ Less(b, a)
    BY <1>1 DEF IsEarliest
<1> QED
    BY <1>1, <1>2, NotLess

\* The contract, with uids allocated in turn, and the same event returned by all.
UserInv == /\ Inv
           /\ m_uid \in Nat /\ m_uid >= 4 /\ next.uid < m_uid
           /\ \A e \in m_list : e.uid < m_uid
           /\ listNext = next /\ heapNext = next /\ calNext = next

\* The list is sorted.
ListInv == /\ m_events \in Seq(EventKey) /\ Sorted(m_events, FALSE)
           /\ Seqs!ToSet(m_events) = m_list

\* The heap is ordered.
HeapInv == /\ m_heap \in Seq(EventKey) /\ HeapOrdered(m_heap) /\ Distinct(m_heap)
           /\ Seqs!ToSet(m_heap) = m_list

\* The calendar is ready, and counts its events.
CalInv == /\ m_reverse \in BOOLEAN /\ Ready(cal, m_reverse) /\ Held(cal) = m_list
          /\ m_qSize \in Nat /\ m_qSize <= MaxSize /\ Full(cal, m_qSize)
          /\ cal.lastPrio <= next.ts

\* The inductive invariant of all schedulers together.
SchedulersInv == UserInv /\ ListInv /\ HeapInv /\ CalInv

\* Types of the contract's state, for the steps of all schedulers.
LEMMA UserFacts ==
    ASSUME UserInv
    PROVE  /\ m_list \subseteq Keys /\ m_list \in SUBSET EventKey /\ next \in EventKey
           /\ next.ts \in Nat /\ next.uid \in Nat
           /\ \A e, f \in m_list : e.uid = f.uid => e = f
<1>1. TypeOK /\ UniqueUids
    BY DEF UserInv, Inv
<1>2. next \in EventKey /\ m_list \subseteq EventKey
    BY <1>1, KeysAreKeys DEF TypeOK
<1> QED
    BY <1>1, <1>2 DEF TypeOK, UniqueUids, EventKey

\* Empty schedulers satisfy the invariant.
LEMMA SchedulersInitInv == SchedulersInit => SchedulersInv
<1> SUFFICES ASSUME SchedulersInit PROVE SchedulersInv
    OBVIOUS
<1>1. /\ m_list = {} /\ next = NoEvent /\ m_uid = 4
      /\ m_events = <<>> /\ listNext = List!NoEvent
      /\ m_heap = <<>> /\ heapNext = Heap!NoEvent
      /\ cal = Calendar!NewCalendar(2, 1, 0) /\ m_reverse \in BOOLEAN /\ m_qSize = 0
      /\ calNext = Calendar!NoEvent
    BY DEF SchedulersInit, Init, List!Init, Heap!Init, Calendar!Init
<1>2. List!NoEvent = NoEvent /\ Heap!NoEvent = NoEvent /\ Calendar!NoEvent = NoEvent
    BY DEF List!NoEvent, Heap!NoEvent, Calendar!NoEvent, NoEvent
<1>3. Inv
    BY <1>1 DEF Inv, TypeOK, UniqueUids, NothingOverdue
<1>4. UserInv
    BY <1>1, <1>2, <1>3 DEF UserInv, NoEvent
<1>5. ListInv
    BY <1>1, EmptyList DEF ListInv
<1>6. HeapInv
  <2>1. 1..0 = {} /\ 2..0 = {}
      OBVIOUS
  <2> QED
      BY <1>1, <2>1, EmptyList DEF HeapInv, HeapOrdered, Distinct
<1>7. CalInv
  <2>1. 2 \in Nat \ {0} /\ 1 \in Nat \ {0} /\ 0 \in Nat
      OBVIOUS
  <2> DEFINE new == Calendar!NewCalendar(2, 1, 0)
  <2>2. Ready(new, m_reverse) /\ Held(new) = {} /\ new.lastPrio = 0
      BY <1>1, <2>1, CalNew
  <2> HIDE DEF new
  <2>3. Full(new, 0)
      BY <2>2, FS_EmptySet DEF Full
  <2>4. cal = new
      BY <1>1 DEF new
  <2>5. 0 <= MaxSize /\ next.ts = 0
      BY <1>1, CallsAssumption DEF NoEvent
  <2> QED
      BY <1>1, <2>1, <2>2, <2>3, <2>4, <2>5 DEF CalInv
<1> QED
    BY <1>4, <1>5, <1>6, <1>7 DEF SchedulersInv

\* Insert adds the same event to every scheduler, and is a step of the contract.
LEMMA InsertAllInv ==
    ASSUME SchedulersInv, NEW delay \in Delays, InsertAll(delay)
    PROVE  SchedulersInv' /\ [Next]_vars
<1> DEFINE ev == [ts |-> next.ts + delay, uid |-> m_uid]
<1>1. UserInv /\ ListInv /\ HeapInv /\ CalInv
    BY DEF SchedulersInv
<1>2. Insert(ev) /\ List!Insert(delay) /\ Heap!Insert(delay) /\ Calendar!Insert(delay)
    BY DEF InsertAll
<1>3. listNext = next /\ heapNext = next /\ calNext = next
    BY <1>1 DEF UserInv
<1>4. /\ m_uid <= MaxUid /\ next.ts + delay <= MaxTs
      /\ m_events' = List!InsertSorted(m_events, ev) /\ m_uid' = m_uid + 1 /\ listNext' = listNext
    BY <1>2, <1>3 DEF List!Insert
<1>5. m_heap' = Heap!Push(m_heap, ev) /\ heapNext' = heapNext
    BY <1>2, <1>3 DEF Heap!Insert
<1>6. /\ m_qSize < MaxSize /\ cal' = Calendar!ResizeUp(Calendar!DoInsert(cal, ev), m_qSize + 1)
      /\ m_qSize' = m_qSize + 1 /\ m_reverse' = m_reverse /\ calNext' = calNext
    BY <1>2, <1>3 DEF Calendar!Insert
<1>7. m_list' = m_list \cup {ev} /\ next' = next
    BY <1>2 DEF Insert
<1>8. delay \in Nat
    BY CallsAssumption
<1>9. /\ m_list \in SUBSET EventKey /\ next.ts \in Nat /\ next.uid \in Nat
      /\ m_uid \in Nat /\ m_uid >= 4 /\ next.uid < m_uid /\ \A e \in m_list : e.uid < m_uid
    BY <1>1, UserFacts DEF UserInv
<1>10. ev \in Keys /\ ev \in EventKey /\ ev.ts = next.ts + delay /\ ev.uid = m_uid
    BY <1>4, <1>8, <1>9, BoundsAssumption DEF Keys, EventKey
<1> HIDE DEF ev
<1>11. ev \notin m_list
  <2>1. ~(m_uid < m_uid)
      BY <1>9
  <2> QED
      BY <1>9, <1>10, <2>1
<1>12. Next
    BY <1>2, <1>10 DEF Next
<1>13. UserInv'
  <2>1. Inv'
      BY <1>1, <1>12, InvStep DEF UserInv
  <2>2. m_uid + 1 \in Nat /\ m_uid + 1 >= 4 /\ next.uid < m_uid + 1 /\ m_uid < m_uid + 1
      BY <1>9
  <2>3. \A e \in m_list : e.uid < m_uid + 1
      BY <1>9 DEF EventKey
  <2> QED
      BY <1>3, <1>4, <1>5, <1>6, <1>7, <1>10, <2>1, <2>2, <2>3 DEF UserInv
<1>14. ListInv'
    BY <1>1, <1>4, <1>7, <1>10, <1>11, ListInsert DEF ListInv
<1>15. HeapInv'
    BY <1>1, <1>5, <1>7, <1>10, <1>11, HeapPush DEF HeapInv
<1>16. CalInv'
  <2>1. /\ m_reverse \in BOOLEAN /\ Ready(cal, m_reverse) /\ Held(cal) = m_list /\ m_qSize \in Nat
        /\ Full(cal, m_qSize) /\ cal.lastPrio <= next.ts
      BY <1>1 DEF CalInv
  <2>2. cal.lastPrio \in Nat
      BY <2>1, CalsFacts DEF Ready
  <2>3. cal.lastPrio <= ev.ts
      BY <1>8, <1>9, <1>10, <2>1, <2>2
  <2>4. /\ Ready(cal', m_reverse) /\ Held(cal') = Held(cal) \cup {ev} /\ Full(cal', m_qSize + 1)
        /\ cal'.lastPrio = cal.lastPrio
      BY <1>6, <1>10, <1>11, <2>1, <2>3, CalInsert
  <2>5. m_qSize + 1 \in Nat /\ m_qSize + 1 <= MaxSize
      BY <1>6, <2>1, CallsAssumption
  <2> QED
      BY <1>6, <1>7, <2>1, <2>4, <2>5 DEF CalInv
<1> QED
    BY <1>12, <1>13, <1>14, <1>15, <1>16 DEF SchedulersInv

\* RemoveNext takes the same event, the earliest, off every scheduler.
LEMMA RemoveNextAllInv ==
    ASSUME SchedulersInv, RemoveNextAll
    PROVE  SchedulersInv' /\ [Next]_vars
<1>1. UserInv /\ ListInv /\ HeapInv /\ CalInv
    BY DEF SchedulersInv
<1>2. RemoveNext /\ List!RemoveNext /\ Heap!RemoveNext /\ Calendar!RemoveNext
    BY DEF RemoveNextAll
<1>3. PICK ev \in m_list : IsEarliest(ev, m_list) /\ next' = ev /\ m_list' = m_list \ {ev}
    BY <1>2 DEF RemoveNext, PeekNext
<1>4. /\ m_events # <<>> /\ listNext' = Head(m_events) /\ m_events' = Tail(m_events)
      /\ m_uid' = m_uid
    BY <1>2 DEF List!RemoveNext
<1>5. Len(m_heap) # 0 /\ heapNext' = m_heap[1] /\ m_heap' = Heap!Extract(m_heap, 1)
    BY <1>2 DEF Heap!RemoveNext, Heap!IsEmpty, Heap!PeekNext, Heap!Root
<1>6. /\ m_qSize # 0 /\ calNext' = Calendar!PeekNext(cal) /\ m_qSize' = m_qSize - 1
      /\ cal' = Calendar!ResizeDown(Calendar!DoRemoveNext(cal), m_qSize - 1)
      /\ m_reverse' = m_reverse
    BY <1>2 DEF Calendar!RemoveNext
<1>7. m_list \in SUBSET EventKey
    BY <1>1, UserFacts
<1>8. Next
    BY <1>2 DEF Next
<1>9. ListInv' /\ listNext' = ev
  <2>1. /\ m_events \in Seq(EventKey) /\ Sorted(m_events, FALSE)
        /\ Seqs!ToSet(m_events) = m_list /\ FALSE \in BOOLEAN
      BY <1>1 DEF ListInv
  <2>2. /\ Tail(m_events) \in Seq(EventKey) /\ Sorted(Tail(m_events), FALSE)
        /\ Head(m_events) \in Seqs!ToSet(m_events) /\ Head(m_events) \in EventKey
        /\ Seqs!ToSet(Tail(m_events)) = Seqs!ToSet(m_events) \ {Head(m_events)}
        /\ \A e \in Seqs!ToSet(m_events) \ {Head(m_events)} : Before(Head(m_events), e, FALSE)
      BY <1>4, <2>1, TailSorted
  <2>3. IsEarliest(Head(m_events), m_list)
      BY <2>1, <2>2 DEF IsEarliest, Before
  <2>4. Head(m_events) = ev
      BY <1>3, <1>7, <2>3, EarliestUnique
  <2> QED
      BY <1>3, <1>4, <2>1, <2>2, <2>4 DEF ListInv
<1>10. HeapInv' /\ heapNext' = ev
  <2>1. m_heap \in Seq(EventKey) /\ HeapOrdered(m_heap) /\ Distinct(m_heap) /\ Seqs!ToSet(m_heap) = m_list
      BY <1>1 DEF HeapInv
  <2>2. m_heap # <<>> /\ 1 \in 1..Len(m_heap)
      BY <1>5, <2>1, EmptyList
  <2>3. IsEarliest(m_heap[1], m_list)
      BY <2>1, <2>2, RootEarliest
  <2>4. m_heap[1] = ev
      BY <1>3, <1>7, <2>3, EarliestUnique
  <2>5. Spared(m_heap, 1)
      BY DEF Spared
  <2>6. LET r == Heap!Extract(m_heap, 1)
        IN  /\ r \in Seq(EventKey) /\ HeapOrdered(r) /\ Distinct(r)
            /\ Seqs!ToSet(r) = Seqs!ToSet(m_heap) \ {m_heap[1]}
      BY <2>1, <2>2, <2>5, HeapExtract
  <2> QED
      BY <1>3, <1>5, <2>1, <2>4, <2>6 DEF HeapInv
<1>11. CalInv' /\ calNext' = ev
  <2>1. /\ m_reverse \in BOOLEAN /\ Ready(cal, m_reverse) /\ Held(cal) = m_list
        /\ m_qSize \in Nat \ {0} /\ Full(cal, m_qSize) /\ m_qSize <= MaxSize
      BY <1>1, <1>6 DEF CalInv
  <2> DEFINE e == Calendar!PeekNext(cal)
  <2>2. /\ e \in EventKey /\ IsEarliest(e, Held(cal))
        /\ Ready(cal', m_reverse) /\ Held(cal') = Held(cal) \ {e} /\ Full(cal', m_qSize - 1)
        /\ cal'.lastPrio = e.ts
      BY <1>6, <2>1, CalRemoveNext
  <2> HIDE DEF e
  <2>3. e = ev
      BY <1>3, <1>7, <2>1, <2>2, EarliestUnique
  <2>4. m_qSize - 1 \in Nat /\ m_qSize - 1 <= MaxSize
      BY <2>1, CallsAssumption
  <2>5. ev.ts <= ev.ts
      BY <1>7 DEF EventKey
  <2> QED
      BY <1>3, <1>6, <2>1, <2>2, <2>3, <2>4, <2>5 DEF CalInv, e
<1>12. UserInv'
  <2>1. Inv'
      BY <1>1, <1>8, InvStep DEF UserInv
  <2>2. m_uid \in Nat /\ m_uid >= 4 /\ \A e \in m_list : e.uid < m_uid
      BY <1>1 DEF UserInv
  <2> QED
      BY <1>3, <1>4, <1>9, <1>10, <1>11, <2>1, <2>2 DEF UserInv
<1> QED
    BY <1>8, <1>9, <1>10, <1>11, <1>12 DEF SchedulersInv

\* HeapScheduler::Remove sifts the last element, which it moves to the place of the
\* removed one, only down.  The step leaves a heap if that element does not have
\* to go up: it does not precede the parent of its new place.
HeapSpared == \A i \in DOMAIN m_heap \ {1} :
                 Heap!Remove(i) => ~Less(m_heap[Len(m_heap)], m_heap[Heap!Parent(i)])

\* Remove takes the same event off every scheduler.
LEMMA RemoveAllInv ==
    ASSUME SchedulersInv, NEW ev \in m_list, RemoveAll(ev), HeapSpared
    PROVE  SchedulersInv' /\ [Next]_vars
<1>1. UserInv /\ ListInv /\ HeapInv /\ CalInv
    BY DEF SchedulersInv
<1>2. Remove(ev) /\ List!Remove(ev)
    BY DEF RemoveAll
<1>3. PICK i \in DOMAIN m_heap : m_heap[i].uid = ev.uid /\ Heap!Remove(i)
    BY DEF RemoveAll
<1> DEFINE b == Calendar!Hash(cal, ev.ts)
<1>4. PICK k \in DOMAIN cal.buckets[b] : cal.buckets[b][k].uid = ev.uid /\ Calendar!Remove(b, k)
    BY DEF RemoveAll
<1>5. m_list' = m_list \ {ev} /\ next' = next
    BY <1>2 DEF Remove
<1>6. /\ m_events' = List!Seqs!RemoveAt(m_events, List!Seqs!SelectInSeq(m_events, LAMBDA e : e.uid = ev.uid))
      /\ m_uid' = m_uid /\ listNext' = listNext
    BY <1>2 DEF List!Remove
<1>7. m_heap' = Heap!Extract(m_heap, i) /\ heapNext' = heapNext
    BY <1>3 DEF Heap!Remove
<1>8. /\ cal' = Calendar!ResizeDown([cal EXCEPT !.buckets[b] = Calendar!Seqs!RemoveAt(@, k)], m_qSize - 1)
      /\ m_qSize' = m_qSize - 1 /\ m_reverse' = m_reverse /\ calNext' = calNext
    BY <1>4 DEF Calendar!Remove
<1>9. m_list \in SUBSET EventKey /\ ev \in EventKey /\ \A e, f \in m_list : e.uid = f.uid => e = f
    BY <1>1, UserFacts
<1>10. Next
    BY <1>2 DEF Next
<1>11. ListInv'
  <2>1. m_events \in Seq(EventKey) /\ Sorted(m_events, FALSE) /\ Seqs!ToSet(m_events) = m_list
      BY <1>1 DEF ListInv
  <2>2. /\ m_events' \in Seq(EventKey) /\ Sorted(m_events', FALSE)
        /\ Seqs!ToSet(m_events') = Seqs!ToSet(m_events) \ {ev}
      BY <1>6, <1>9, <2>1, ListRemove
  <2> QED
      BY <1>5, <2>1, <2>2 DEF ListInv
<1>12. HeapInv'
  <2>1. m_heap \in Seq(EventKey) /\ HeapOrdered(m_heap) /\ Distinct(m_heap) /\ Seqs!ToSet(m_heap) = m_list
      BY <1>1 DEF HeapInv
  <2>2. i \in 1..Len(m_heap)
      BY <2>1
  <2>3. m_heap[i] = ev
      BY <1>3, <1>9, <2>1, <2>2, Members
  <2>4. i # 1 => ~Less(m_heap[Len(m_heap)], m_heap[Heap!Parent(i)])
      BY <1>3 DEF HeapSpared
  <2>5. Spared(m_heap, i)
      BY <2>4 DEF Spared, Heap!Parent
  <2>6. LET r == Heap!Extract(m_heap, i)
        IN  /\ r \in Seq(EventKey) /\ HeapOrdered(r) /\ Distinct(r)
            /\ Seqs!ToSet(r) = Seqs!ToSet(m_heap) \ {m_heap[i]}
      BY <2>1, <2>2, <2>5, HeapExtract
  <2> QED
      BY <1>5, <1>7, <2>1, <2>3, <2>6 DEF HeapInv
<1>13. CalInv'
  <2>1. /\ m_reverse \in BOOLEAN /\ Ready(cal, m_reverse) /\ Held(cal) = m_list
        /\ m_qSize \in Nat /\ Full(cal, m_qSize) /\ m_qSize <= MaxSize /\ cal.lastPrio <= next.ts
      BY <1>1 DEF CalInv
  <2>2. m_qSize # 0
      BY <2>1, FS_EmptySet DEF Full
  <2>3. cal \in Cals /\ ev.ts \in Nat
      BY <1>9, <2>1 DEF Ready, EventKey
  <2>4. b \in Days(cal)
      BY <2>3, HashFacts
  <2>5. cal.buckets[b] \in Seq(EventKey)
      BY <2>3, <2>4, CalsFacts
  <2> HIDE DEF b
  <2>6. k \in 1..Len(cal.buckets[b]) /\ cal.buckets[b][k] \in Seqs!ToSet(cal.buckets[b])
      BY <1>4, <2>5, Members
  <2>7. cal.buckets[b][k] \in m_list
      BY <2>1, <2>4, <2>6, HeldIs
  <2>8. cal.buckets[b][k] = ev
      BY <1>4, <1>9, <2>7
  <2> DEFINE d == Calendar!ResizeDown([cal EXCEPT !.buckets[b] = Calendar!Seqs!RemoveAt(@, k)], m_qSize - 1)
  <2>9. /\ Ready(d, m_reverse) /\ Held(d) = Held(cal) \ {ev} /\ Full(d, m_qSize - 1)
        /\ d.lastPrio = cal.lastPrio
    <3>1. ev \in Held(cal) /\ m_qSize \in Nat \ {0}
        BY <2>1, <2>2
    <3>2. /\ k \in 1..Len(cal.buckets[Calendar!Hash(cal, ev.ts)])
          /\ cal.buckets[Calendar!Hash(cal, ev.ts)][k] = ev
        BY <2>6, <2>8 DEF b
    <3>3. d = Calendar!ResizeDown([cal EXCEPT !.buckets[Calendar!Hash(cal, ev.ts)] =
                                      Calendar!Seqs!RemoveAt(@, k)], m_qSize - 1)
        BY DEF b
    <3> HIDE DEF d
    <3> QED
        BY <2>1, <3>1, <3>2, <3>3, CalRemove, SMTT(60)
  <2> HIDE DEF d
  <2>10. cal' = d
      BY <1>8 DEF d
  <2>11. m_qSize - 1 \in Nat /\ m_qSize - 1 <= MaxSize
      BY <2>1, <2>2, CallsAssumption
  <2> QED
      BY <1>5, <1>8, <2>1, <2>9, <2>10, <2>11 DEF CalInv
<1>14. UserInv'
  <2>1. Inv'
      BY <1>1, <1>10, InvStep DEF UserInv
  <2> QED
      BY <1>1, <1>5, <1>6, <1>7, <1>8, <2>1 DEF UserInv
<1> QED
    BY <1>10, <1>11, <1>12, <1>13, <1>14 DEF SchedulersInv

\* A change of scheduler moves every event.
LEMMA SetSchedulerInv ==
    ASSUME SchedulersInv, SetScheduler
    PROVE  SchedulersInv' /\ [Next]_vars
<1>1. UserInv /\ ListInv /\ HeapInv /\ CalInv
    BY DEF SchedulersInv
<1>2. /\ m_heap' = Heap!Filled(m_events) /\ cal' = Calendar!Filled(Heap!Drained(m_heap))
      /\ m_events' = List!Filled(Calendar!Drained(cal, m_qSize))
      /\ UNCHANGED <<vars, m_uid, listNext, heapNext, m_reverse, m_qSize, calNext>>
    BY DEF SetScheduler
<1>3. /\ m_list' = m_list /\ next' = next /\ m_uid' = m_uid /\ listNext' = listNext /\ heapNext' = heapNext
      /\ m_reverse' = m_reverse /\ m_qSize' = m_qSize /\ calNext' = calNext
    BY <1>2 DEF vars
<1>4. m_events \in Seq(EventKey) /\ Sorted(m_events, FALSE) /\ Seqs!ToSet(m_events) = m_list
    BY <1>1 DEF ListInv
<1>5. m_heap \in Seq(EventKey) /\ HeapOrdered(m_heap) /\ Distinct(m_heap) /\ Seqs!ToSet(m_heap) = m_list
    BY <1>1 DEF HeapInv
<1>6. /\ m_reverse \in BOOLEAN /\ Ready(cal, m_reverse) /\ Held(cal) = m_list
      /\ m_qSize \in Nat /\ Full(cal, m_qSize) /\ m_qSize <= MaxSize
    BY <1>1 DEF CalInv
<1>7. UserInv'
    BY <1>1, <1>3 DEF UserInv, Inv, TypeOK, UniqueUids, NothingOverdue
<1>8. HeapInv'
  <2>1. Distinct(m_events)
      BY <1>4, SortedDistinct
  <2>2. LET r == Heap!Filled(m_events)
        IN  r \in Seq(EventKey) /\ HeapOrdered(r) /\ Distinct(r) /\ Seqs!ToSet(r) = Seqs!ToSet(m_events)
      BY <1>4, <2>1, HeapFilled
  <2> QED
      BY <1>2, <1>3, <1>4, <2>2 DEF HeapInv
<1>9. CalInv'
  <2> DEFINE evs == Heap!Drained(m_heap)
  <2>1. evs \in Seq(EventKey) /\ Distinct(evs) /\ Seqs!ToSet(evs) = m_list
      BY <1>5, HeapDrained
  <2> HIDE DEF evs
  <2> DEFINE d == Calendar!Filled(evs)
  <2>2. Ready(d, m_reverse) /\ Held(d) = Seqs!ToSet(evs) /\ d.lastPrio = 0
      BY <1>6, <2>1, CalFilled
  <2> HIDE DEF d
  <2>3. cal' = d
      BY <1>2 DEF d, evs
  <2>4. Full(d, m_qSize)
      BY <1>6, <2>1, <2>2 DEF Full
  <2>5. 0 <= next.ts
      BY <1>1, UserFacts
  <2> QED
      BY <1>3, <1>6, <2>1, <2>2, <2>3, <2>4, <2>5 DEF CalInv
<1>10. ListInv'
  <2> DEFINE evs == Calendar!Drained(cal, m_qSize)
  <2>1. evs \in Seq(EventKey) /\ Distinct(evs) /\ Seqs!ToSet(evs) = m_list
      BY <1>6, CalDrained
  <2> HIDE DEF evs
  <2>2. m_events' = List!Filled(evs)
      BY <1>2 DEF evs
  <2> QED
      BY <1>3, <2>1, <2>2, ListFilled DEF ListInv
<1> QED
    BY <1>2, <1>7, <1>8, <1>9, <1>10 DEF SchedulersInv

\* Every step of the schedulers together keeps their invariant and is a step of the
\* contract.
LEMMA SchedulersStep ==
    SchedulersInv /\ [SchedulersNext]_allVars /\ [HeapSpared]_allVars => SchedulersInv' /\ [Next]_vars
<1> SUFFICES ASSUME SchedulersInv, [SchedulersNext]_allVars, [HeapSpared]_allVars
             PROVE  SchedulersInv' /\ [Next]_vars
    OBVIOUS
<1>1. CASE UNCHANGED allVars
  <2>1. UNCHANGED vars
      BY <1>1 DEF allVars
  <2>2. /\ m_list' = m_list /\ next' = next /\ m_uid' = m_uid /\ m_events' = m_events
        /\ listNext' = listNext /\ m_heap' = m_heap /\ heapNext' = heapNext /\ cal' = cal
        /\ m_reverse' = m_reverse /\ m_qSize' = m_qSize /\ calNext' = calNext
      BY <1>1 DEF allVars, vars
  <2>3. UserInv'
      BY <2>2 DEF SchedulersInv, UserInv, Inv, TypeOK, UniqueUids, NothingOverdue
  <2>4. ListInv' /\ HeapInv' /\ CalInv'
      BY <2>2 DEF SchedulersInv, ListInv, HeapInv, CalInv
  <2> QED
      BY <2>1, <2>3, <2>4 DEF SchedulersInv
<1>2. CASE SchedulersNext /\ HeapSpared
  <2>1. ASSUME NEW delay \in Delays, InsertAll(delay)
        PROVE  SchedulersInv' /\ [Next]_vars
      BY <2>1, InsertAllInv
  <2>2. CASE RemoveNextAll
      BY <2>2, RemoveNextAllInv
  <2>3. ASSUME NEW ev \in m_list, RemoveAll(ev)
        PROVE  SchedulersInv' /\ [Next]_vars
      BY <1>2, <2>3, RemoveAllInv
  <2>4. CASE SetScheduler
      BY <2>4, SetSchedulerInv
  <2> QED
      BY <1>2, <2>1, <2>2, <2>3, <2>4 DEF SchedulersNext
<1> QED
    BY <1>1, <1>2

\* The order of a heap, as HeapScheduler states it.
LEMMA HeapOrderHolds == SchedulersInv => Heap!HeapOrder
<1> SUFFICES ASSUME SchedulersInv PROVE Heap!HeapOrder
    OBVIOUS
<1>1. m_heap \in Seq(EventKey) /\ HeapOrdered(m_heap)
    BY DEF SchedulersInv, HeapInv
<1>2. \A i \in DOMAIN m_heap \ {1} : i \in 2..Len(m_heap)
    BY <1>1
<1> QED
    BY <1>1, <1>2 DEF HeapOrdered, Heap!HeapOrder, Heap!Root, Heap!Parent, Heap!Less, Less

\* The events of a calendar, as CalendarScheduler states them.
LEMMA ContentIsHeld ==
    ASSUME NEW c \in Cals
    PROVE  Calendar!Content(c) = Held(c)
<1>1. DOMAIN c.buckets = Days(c)
    BY CalsFacts
<1> QED
    BY <1>1 DEF Calendar!Content, Held, Calendar!Seqs!ToSet, Seqs!ToSet

\* The order and the position of a calendar, as CalendarScheduler states them.
LEMMA CalendarOrderHolds == SchedulersInv => Calendar!BucketsOrdered /\ Calendar!Window
<1> SUFFICES ASSUME SchedulersInv PROVE Calendar!BucketsOrdered /\ Calendar!Window
    OBVIOUS
<1>1. /\ m_reverse \in BOOLEAN /\ cal \in Cals /\ Filed(cal, m_reverse) /\ Placed(cal)
      /\ cal.lastPrio <= next.ts
    BY DEF SchedulersInv, CalInv, Ready
<1>2. calNext = next
    BY DEF SchedulersInv, UserInv
<1>3. /\ cal.lastPrio \in Nat /\ DOMAIN cal.buckets = Days(cal)
      /\ \A b \in Days(cal) : cal.buckets[b] \in Seq(EventKey)
    BY <1>1, CalsFacts
<1>4. Calendar!BucketsOrdered
  <2>1. SUFFICES ASSUME NEW b \in Days(cal)
                 PROVE  /\ \A i \in DOMAIN cal.buckets[b] : Calendar!Hash(cal, cal.buckets[b][i].ts) = b
                        /\ \A i, j \in DOMAIN cal.buckets[b] :
                              i < j => Calendar!Order(cal.buckets[b][i], cal.buckets[b][j])
      BY <1>3 DEF Calendar!BucketsOrdered
  <2> DEFINE s == cal.buckets[b]
  <2>2. s \in Seq(EventKey) /\ Sorted(s, m_reverse) /\ \A e \in Seqs!ToSet(s) : Calendar!Hash(cal, e.ts) = b
      BY <1>1, <1>3 DEF Filed
  <2> HIDE DEF s
  <2>3. DOMAIN s = 1..Len(s) /\ \A i \in 1..Len(s) : s[i] \in Seqs!ToSet(s)
      BY <2>2, Members
  <2>4. \A i, j \in 1..Len(s) : i < j => Calendar!Order(s[i], s[j])
      BY <2>2 DEF Sorted, Before, Calendar!Order, Calendar!Less, Less
  <2> QED
      BY <2>2, <2>3, <2>4 DEF s
<1>5. Calendar!Window
  <2>1. \A e \in Held(cal) : cal.lastPrio <= e.ts
      BY <1>1 DEF Placed
  <2>2. \A e \in Held(cal) : e.ts \in Nat
      BY UserFacts DEF SchedulersInv, CalInv, EventKey
  <2>3. \A e \in Calendar!Content(cal) : e.ts >= cal.lastPrio
      BY <1>1, <1>3, <2>1, <2>2, ContentIsHeld
  <2> QED
      BY <1>1, <1>2, <2>3 DEF Placed, Calendar!Window
<1> QED
    BY <1>4, <1>5

\* The schedulers agree, in the terms of the contract and of each scheduler.
LEMMA Agreement ==
    SchedulersInv => /\ SchedulersAgree
                     /\ m_list = List!Seqs!ToSet(m_events) /\ listNext = next
                     /\ m_list = Heap!Seqs!ToSet(m_heap) /\ heapNext = next
                     /\ m_list = Calendar!Content(cal) /\ calNext = next
<1> SUFFICES ASSUME SchedulersInv
             PROVE  /\ SchedulersAgree
                    /\ m_list = List!Seqs!ToSet(m_events) /\ listNext = next
                    /\ m_list = Heap!Seqs!ToSet(m_heap) /\ heapNext = next
                    /\ m_list = Calendar!Content(cal) /\ calNext = next
    OBVIOUS
<1>1. listNext = next /\ heapNext = next /\ calNext = next
    BY DEF SchedulersInv, UserInv
<1>2. Seqs!ToSet(m_events) = m_list /\ Seqs!ToSet(m_heap) = m_list
    BY DEF SchedulersInv, ListInv, HeapInv
<1>3. Calendar!Content(cal) = m_list
    BY ContentIsHeld DEF SchedulersInv, CalInv, Ready
<1> QED
    BY <1>1, <1>2, <1>3 DEF SchedulersAgree, Seqs!ToSet, List!Seqs!ToSet, Heap!Seqs!ToSet

\* While the list holds the events of the contract and has returned the same one,
\* its steps are steps of the contract.
LEMMA ListRefines ==
    ASSUME m_list = List!Seqs!ToSet(m_events), listNext = next,
           (m_list = List!Seqs!ToSet(m_events))', (listNext = next)'
    PROVE  /\ Init => List!Contract!Init
           /\ [Next]_vars => [List!Contract!Next]_(List!Contract!vars)
<1>1. Init => List!Contract!Init
    BY DEF Init, List!Contract!Init, NoEvent, List!Contract!NoEvent
<1>2. ASSUME NEW ev \in Keys, Insert(ev) PROVE List!Contract!Next
  <2>1. Less(next, ev) /\ (\A e \in m_list : e.uid # ev.uid) /\ m_list' = m_list \cup {ev} /\ next' = next
      BY <1>2 DEF Insert
  <2>2. List!Contract!Less(next, ev)
      BY <2>1 DEF Less, List!Contract!Less
  <2>3. List!Contract!Insert(ev)
      BY <2>1, <2>2 DEF List!Contract!Insert
  <2> QED
      BY <2>3 DEF List!Contract!Next, Keys, List!Contract!Keys
<1>3. ASSUME RemoveNext PROVE List!Contract!Next
  <2>1. PICK ev \in m_list : IsEarliest(ev, m_list) /\ next' = ev /\ m_list' = m_list \ {ev}
      BY <1>3 DEF RemoveNext, PeekNext
  <2>2. List!Contract!PeekNext(ev)
      BY <2>1 DEF List!Contract!PeekNext, List!Contract!IsEarliest, List!Contract!Less, IsEarliest, Less
  <2>3. List!Contract!RemoveNext
      BY <2>1, <2>2 DEF List!Contract!RemoveNext
  <2> QED
      BY <2>3 DEF List!Contract!Next
<1>4. ASSUME NEW ev \in m_list, Remove(ev) PROVE List!Contract!Next
    BY <1>4 DEF Remove, List!Contract!Next, List!Contract!Remove
<1>5. UNCHANGED vars => UNCHANGED List!Contract!vars
    BY DEF vars, List!Contract!vars
<1> QED
    BY <1>1, <1>2, <1>3, <1>4, <1>5 DEF Next

\* While the heap holds the events of the contract and has returned the same one,
\* its steps are steps of the contract.
LEMMA HeapRefines ==
    ASSUME m_list = Heap!Seqs!ToSet(m_heap), heapNext = next,
           (m_list = Heap!Seqs!ToSet(m_heap))', (heapNext = next)'
    PROVE  /\ Init => Heap!Contract!Init
           /\ [Next]_vars => [Heap!Contract!Next]_(Heap!Contract!vars)
<1>1. Init => Heap!Contract!Init
    BY DEF Init, Heap!Contract!Init, NoEvent, Heap!Contract!NoEvent
<1>2. ASSUME NEW ev \in Keys, Insert(ev) PROVE Heap!Contract!Next
  <2>1. Less(next, ev) /\ (\A e \in m_list : e.uid # ev.uid) /\ m_list' = m_list \cup {ev} /\ next' = next
      BY <1>2 DEF Insert
  <2>2. Heap!Contract!Less(next, ev)
      BY <2>1 DEF Less, Heap!Contract!Less
  <2>3. Heap!Contract!Insert(ev)
      BY <2>1, <2>2 DEF Heap!Contract!Insert
  <2> QED
      BY <2>3 DEF Heap!Contract!Next, Keys, Heap!Contract!Keys
<1>3. ASSUME RemoveNext PROVE Heap!Contract!Next
  <2>1. PICK ev \in m_list : IsEarliest(ev, m_list) /\ next' = ev /\ m_list' = m_list \ {ev}
      BY <1>3 DEF RemoveNext, PeekNext
  <2>2. Heap!Contract!PeekNext(ev)
      BY <2>1 DEF Heap!Contract!PeekNext, Heap!Contract!IsEarliest, Heap!Contract!Less, IsEarliest, Less
  <2>3. Heap!Contract!RemoveNext
      BY <2>1, <2>2 DEF Heap!Contract!RemoveNext
  <2> QED
      BY <2>3 DEF Heap!Contract!Next
<1>4. ASSUME NEW ev \in m_list, Remove(ev) PROVE Heap!Contract!Next
    BY <1>4 DEF Remove, Heap!Contract!Next, Heap!Contract!Remove
<1>5. UNCHANGED vars => UNCHANGED Heap!Contract!vars
    BY DEF vars, Heap!Contract!vars
<1> QED
    BY <1>1, <1>2, <1>3, <1>4, <1>5 DEF Next

\* While the calendar holds the events of the contract and has returned the same one,
\* its steps are steps of the contract.
LEMMA CalendarRefines ==
    ASSUME m_list = Calendar!Content(cal), calNext = next,
           (m_list = Calendar!Content(cal))', (calNext = next)'
    PROVE  /\ Init => Calendar!Contract!Init
           /\ [Next]_vars => [Calendar!Contract!Next]_(Calendar!Contract!vars)
<1>1. Init => Calendar!Contract!Init
    BY DEF Init, Calendar!Contract!Init, NoEvent, Calendar!Contract!NoEvent
<1>2. ASSUME NEW ev \in Keys, Insert(ev) PROVE Calendar!Contract!Next
  <2>1. Less(next, ev) /\ (\A e \in m_list : e.uid # ev.uid) /\ m_list' = m_list \cup {ev} /\ next' = next
      BY <1>2 DEF Insert
  <2>2. Calendar!Contract!Less(next, ev)
      BY <2>1 DEF Less, Calendar!Contract!Less
  <2>3. Calendar!Contract!Insert(ev)
      BY <2>1, <2>2 DEF Calendar!Contract!Insert
  <2> QED
      BY <2>3 DEF Calendar!Contract!Next, Keys, Calendar!Contract!Keys
<1>3. ASSUME RemoveNext PROVE Calendar!Contract!Next
  <2>1. PICK ev \in m_list : IsEarliest(ev, m_list) /\ next' = ev /\ m_list' = m_list \ {ev}
      BY <1>3 DEF RemoveNext, PeekNext
  <2>2. Calendar!Contract!PeekNext(ev)
      BY <2>1 DEF Calendar!Contract!PeekNext, Calendar!Contract!IsEarliest, Calendar!Contract!Less,
                  IsEarliest, Less
  <2>3. Calendar!Contract!RemoveNext
      BY <2>1, <2>2 DEF Calendar!Contract!RemoveNext
  <2> QED
      BY <2>3 DEF Calendar!Contract!Next
<1>4. ASSUME NEW ev \in m_list, Remove(ev) PROVE Calendar!Contract!Next
    BY <1>4 DEF Remove, Calendar!Contract!Next, Calendar!Contract!Remove
<1>5. UNCHANGED vars => UNCHANGED Calendar!Contract!vars
    BY DEF vars, Calendar!Contract!vars
<1> QED
    BY <1>1, <1>2, <1>3, <1>4, <1>5 DEF Next

\* A sequence of distinct events is as long as the set of its events is large.
LEMMA DistinctLength ==
    ASSUME NEW s \in Seq(EventKey), Distinct(s)
    PROVE  IsFiniteSet(Seqs!ToSet(s)) /\ Cardinality(Seqs!ToSet(s)) = Len(s)
<1> DEFINE T == Seqs!ToSet(s)
<1>1. Len(s) \in Nat /\ DOMAIN s = 1..Len(s) /\ s \in [1..Len(s) -> EventKey]
    OBVIOUS
<1>2. (\A i \in 1..Len(s) : s[i] \in T) /\ \A x \in T : \E i \in 1..Len(s) : x = s[i]
    BY Members
<1> HIDE DEF T
<1>3. s \in [1..Len(s) -> T]
    BY <1>1, <1>2
<1>4. s \in Surjection(1..Len(s), T)
    BY <1>2, <1>3 DEF Surjection
<1>5. s \in Injection(1..Len(s), T)
    BY <1>1, <1>3 DEF Distinct, Injection, IsInjective
<1>6. ExistsBijection(1..Len(s), T)
    BY <1>4, <1>5 DEF ExistsBijection, Bijection
<1>7. IsFiniteSet(1..Len(s)) /\ Cardinality(1..Len(s)) = Len(s)
    BY <1>1, FS_Interval
<1>8. IsFiniteSet(T) /\ Cardinality(T) = Cardinality(1..Len(s))
    BY <1>6, <1>7, FS_Bijection
<1> QED
    BY <1>7, <1>8 DEF T

\* A heap of at most five events has no place from which its last event would
\* have to go up: every other parent is the root or its own.
LEMMA SmallHeapSpared ==
    ASSUME SchedulersInv, MaxSize <= 5
    PROVE  HeapSpared
<1> DEFINE h == m_heap
           n == Len(m_heap)
<1>1. h \in Seq(EventKey) /\ HeapOrdered(h) /\ Distinct(h) /\ Seqs!ToSet(h) = m_list
    BY DEF SchedulersInv, HeapInv
<1>2. n \in Nat /\ n <= 5 /\ DOMAIN h = 1..n
  <2>1. m_qSize \in Nat /\ m_qSize <= MaxSize /\ Cardinality(m_list) = m_qSize
      BY DEF SchedulersInv, CalInv, Full
  <2>2. Cardinality(m_list) = n
      BY <1>1, DistinctLength
  <2> QED
      BY <1>1, <2>1, <2>2, CallsAssumption
<1>3. ASSUME NEW i \in DOMAIN h \ {1}
      PROVE  ~Less(h[n], h[i \div 2])
  <2>1. i \in 2..n /\ n \in 2..5
      BY <1>2
  <2>2. \A j \in 1..n : h[j] \in EventKey
      BY <1>1
  <2>3. i \div 2 = 1 \/ i \div 2 = n \div 2
    <3>1. i \in {2, 3} \/ (i \in {4, 5} /\ n \in {4, 5})
        BY <2>1
    <3>2. 2 \div 2 = 1 /\ 3 \div 2 = 1 /\ 4 \div 2 = 2 /\ 5 \div 2 = 2
        OBVIOUS
    <3> QED
        BY <3>1, <3>2
  <2>4. CASE i \div 2 = 1
    <3>1. 1 \in 1..n /\ n \in 1..n /\ h # <<>>
        BY <1>1, <2>1, EmptySeq
    <3>2. IsEarliest(h[1], Seqs!ToSet(h)) /\ h[n] \in Seqs!ToSet(h)
        BY <1>1, <3>1, RootEarliest, Members
    <3>3. h[n] = h[1] \/ Less(h[1], h[n])
        BY <3>2 DEF IsEarliest
    <3> QED
        BY <2>2, <2>4, <3>1, <3>3, NotLess, LessIrreflexive
  <2>5. CASE i \div 2 = n \div 2
      BY <1>1, <2>1, <2>5 DEF HeapOrdered
  <2> QED
      BY <2>3, <2>4, <2>5
<1> QED
    BY <1>3 DEF HeapSpared, Heap!Parent

\* Every structure is ordered, and all contents are those of the contract, in a
\* behaviour in which no Remove meets the case HeapScheduler does not handle.
LEMMA SchedulersInvariant == SchedulersSpec /\ [][HeapSpared]_allVars => []SchedulersInv
<1>1. SchedulersInv /\ [SchedulersNext]_allVars /\ [HeapSpared]_allVars => SchedulersInv'
    BY SchedulersStep
<1> QED
    BY <1>1, SchedulersInitInv, PTL DEF SchedulersSpec

\* The invariant of every behaviour with at most five pending events.
LEMMA SmallSchedulersInvariant ==
    ASSUME MaxSize <= 5
    PROVE  SchedulersSpec => []SchedulersInv /\ [][HeapSpared]_allVars
<1>1. SchedulersInv => [HeapSpared]_allVars
    BY SmallHeapSpared
<1>2. SchedulersInv /\ [SchedulersNext]_allVars => SchedulersInv'
    BY <1>1, SchedulersStep
<1> QED
    BY <1>1, <1>2, SchedulersInitInv, PTL DEF SchedulersSpec

\* Behind all calls, resizes and changes of scheduler: the heap ordered, the buckets of
\* the calendar sorted and its events in the bucket of their time stamp, its position
\* not ahead of any pending event (StructuresOrdered), as long as no HeapScheduler::Remove
\* moves the last element under a later parent.
THEOREM StructuresStayOrdered == SchedulersSpec /\ [][HeapSpared]_allVars => []StructuresOrdered
<1>1. SchedulersInv => StructuresOrdered
    BY HeapOrderHolds, CalendarOrderHolds DEF StructuresOrdered
<1> QED
    BY <1>1, SchedulersInvariant, PTL

\* Whichever scheduler a simulation uses, and however often it changes it, it runs the
\* same events in the same order (SchedulersAgree), under the same condition.
THEOREM SchedulersAlwaysAgree == SchedulersSpec /\ [][HeapSpared]_allVars => []SchedulersAgree
<1>1. SchedulersInv => SchedulersAgree
    BY Agreement
<1> QED
    BY <1>1, SchedulersInvariant, PTL

\* The steps of every scheduler are steps of the contract.
LEMMA RefinementStep ==
    /\ SchedulersInv /\ SchedulersInit
       => List!Contract!Init /\ Heap!Contract!Init /\ Calendar!Contract!Init
    /\ SchedulersInv /\ SchedulersInv' /\ [SchedulersNext]_allVars /\ [HeapSpared]_allVars
       => /\ [List!Contract!Next]_(List!Contract!vars)
          /\ [Heap!Contract!Next]_(Heap!Contract!vars)
          /\ [Calendar!Contract!Next]_(Calendar!Contract!vars)
<1>1. ASSUME SchedulersInv, SchedulersInit
      PROVE  List!Contract!Init /\ Heap!Contract!Init /\ Calendar!Contract!Init
  <2>1. Init
      BY <1>1 DEF SchedulersInit
  <2> QED
      BY <1>1, <2>1, Agreement DEF Init, NoEvent, List!Contract!Init, List!Contract!NoEvent,
         Heap!Contract!Init, Heap!Contract!NoEvent, Calendar!Contract!Init, Calendar!Contract!NoEvent
<1>2. ASSUME SchedulersInv, SchedulersInv', [SchedulersNext]_allVars, [HeapSpared]_allVars
      PROVE  /\ [List!Contract!Next]_(List!Contract!vars)
             /\ [Heap!Contract!Next]_(Heap!Contract!vars)
             /\ [Calendar!Contract!Next]_(Calendar!Contract!vars)
  <2>1. [Next]_vars
      BY <1>2, SchedulersStep
  <2>2. /\ m_list = List!Seqs!ToSet(m_events) /\ listNext = next
        /\ m_list = Heap!Seqs!ToSet(m_heap) /\ heapNext = next
        /\ m_list = Calendar!Content(cal) /\ calNext = next
      BY <1>2, Agreement
  <2>3. /\ (m_list = List!Seqs!ToSet(m_events))' /\ (listNext = next)'
        /\ (m_list = Heap!Seqs!ToSet(m_heap))' /\ (heapNext = next)'
        /\ (m_list = Calendar!Content(cal))' /\ (calNext = next)'
      BY <1>2, Agreement, PTL
  <2> QED
      BY <2>1, <2>2, <2>3, ListRefines, HeapRefines, CalendarRefines
<1> QED
    BY <1>1, <1>2

\* The sorted list, the heap and the calendar implement the contract of an event list
\* (ImplementEventList), under the same condition: RemoveNext takes the earliest event.
THEOREM SchedulersImplementContract == SchedulersSpec /\ [][HeapSpared]_allVars => ImplementEventList
<1> QED
    BY SchedulersInitInv, SchedulersInvariant, RefinementStep, PTL
    DEF SchedulersSpec, ImplementEventList, List!ImplementsEventList, Heap!ImplementsEventList,
        Calendar!ImplementsEventList, List!Contract!Spec, Heap!Contract!Spec, Calendar!Contract!Spec

\* With at most five events pending all of this holds of every behaviour: the heap
\* has to be larger for a Remove to go wrong.
THEOREM FiveEventsInOrder ==
    ASSUME MaxSize <= 5
    PROVE  SchedulersSpec => []StructuresOrdered /\ []SchedulersAgree /\ ImplementEventList
<1> QED
    BY SmallSchedulersInvariant, StructuresStayOrdered, SchedulersAlwaysAgree,
       SchedulersImplementContract, PTL

\* The part of the contract's invariant that does not depend on the bounds.
WeakInv == /\ m_list \in SUBSET EventKey /\ next \in EventKey /\ m_uid \in Nat
           /\ NothingOverdue

\* Whatever the heap does, the contract's list hands out events in order (InOrder).
THEOREM SchedulersInOrder == SchedulersSpec => InOrder
<1>1. SchedulersInit => WeakInv
    BY DEF SchedulersInit, Init, List!Init, WeakInv, NothingOverdue, NoEvent, EventKey
<1>2. WeakInv /\ [SchedulersNext]_allVars => WeakInv' /\ [next' # next => Less(next, next')]_next
  <2> SUFFICES ASSUME WeakInv, [SchedulersNext]_allVars
               PROVE  WeakInv' /\ (next' # next => Less(next, next'))
      OBVIOUS
  <2>1. CASE UNCHANGED <<m_list, next, m_uid>>
      BY <2>1 DEF WeakInv, NothingOverdue
  <2>2. ASSUME NEW delay \in Delays, InsertAll(delay)
        PROVE  WeakInv' /\ next' = next
    <3> DEFINE ev == [ts |-> next.ts + delay, uid |-> m_uid]
    <3>1. m_uid' = m_uid + 1
        BY <2>2 DEF InsertAll, List!Insert
    <3>2. Less(next, ev) /\ m_list' = m_list \cup {ev} /\ next' = next
        BY <2>2 DEF InsertAll, Insert
    <3>3. ev \in EventKey
        BY CallsAssumption DEF WeakInv, EventKey
    <3> HIDE DEF ev
    <3> QED
        BY <3>1, <3>2, <3>3 DEF WeakInv, NothingOverdue
  <2>3. CASE RemoveNextAll
    <3>1. PICK ev \in m_list : IsEarliest(ev, m_list) /\ next' = ev /\ m_list' = m_list \ {ev}
        BY <2>3 DEF RemoveNextAll, RemoveNext, PeekNext
    <3>2. m_uid' = m_uid
        BY <2>3 DEF RemoveNextAll, List!RemoveNext
    <3> QED
        BY <3>1, <3>2 DEF WeakInv, NothingOverdue, IsEarliest
  <2>4. ASSUME NEW ev \in m_list, RemoveAll(ev)
        PROVE  WeakInv' /\ next' = next
    <3>1. m_list' = m_list \ {ev} /\ next' = next /\ m_uid' = m_uid
        BY <2>4 DEF RemoveAll, Remove, List!Remove
    <3> QED
        BY <3>1 DEF WeakInv, NothingOverdue
  <2>5. SetScheduler => UNCHANGED <<m_list, next, m_uid>>
      BY DEF SetScheduler, vars
  <2>6. UNCHANGED allVars => UNCHANGED <<m_list, next, m_uid>>
      BY DEF allVars, vars
  <2> QED
      BY <2>1, <2>2, <2>3, <2>4, <2>5, <2>6 DEF SchedulersNext
<1> QED
    BY <1>1, <1>2, PTL DEF SchedulersSpec, InOrder

\* What precedes b precedes what is not before b.
LEMMA LessThanLater == \A a, b, x \in EventKey : Less(a, b) /\ ~Less(x, b) => Less(a, x)
BY DEF Less, EventKey

\* TopDown leaves a heap alone whose element at start needs not go down.
LEMMA TopDownStays ==
    ASSUME NEW h \in Seq(EventKey), NEW start,
           Heap!Descend([heap |-> h, index |-> start]) = [heap |-> h, index |-> start]
    PROVE  Heap!TopDown(h, start) = h
<1> DEFINE n == Len(h)
           first == [heap |-> h, index |-> start]
           D == [i \in 0..n |-> {first}]
           E(f) == [i \in 0..n |-> IF i = 0 THEN first ELSE Heap!Descend(f[i - 1])]
           same == [i \in 0..n |-> first]
           after == CHOOSE f : f = E(f)
<1>1. n \in Nat /\ 0 \in 0..n /\ n \in 0..n /\ \A i \in 1..n : i \in 0..n /\ i - 1 \in 0..n /\ i # 0
    OBVIOUS
<1>2. Heap!Descend(first) = first
    OBVIOUS
<1>3. Heap!TopDown(h, start) = after[n].heap
    BY DEF Heap!TopDown
<1>4. first.heap = h
    OBVIOUS
<1> HIDE DEF n, first
<1>5. same = E(same)
  <2>1. \A i \in 0..n : i # 0 => i - 1 \in 0..n
      BY <1>1
  <2>2. \A i \in 0..n : same[i] = first
      OBVIOUS
  <2> HIDE DEF same
  <2>3. \A i \in 0..n : first = IF i = 0 THEN first ELSE Heap!Descend(same[i - 1])
      BY <1>2, <2>1, <2>2
  <2>4. [i \in 0..n |-> first] = [i \in 0..n |-> IF i = 0 THEN first ELSE Heap!Descend(same[i - 1])]
      BY <2>3
  <2> QED
      BY <2>4 DEF same
<1>6. after = E(after)
  <2> HIDE DEF E, same
  <2> QED
      BY <1>5
<1> HIDE DEF after
<1>7. after[0] = first /\ \A i \in 1..n : after[i] = Heap!Descend(after[i - 1])
    BY <1>1, <1>6
<1>8. \A i \in 0..n : D[i] = {first}
    OBVIOUS
<1>9. after[0] \in D[0] /\ \A i \in 1..n : after[i - 1] \in D[i - 1] => after[i] \in D[i]
    BY <1>1, <1>2, <1>7, <1>8
<1> HIDE DEF D
<1>10. \A i \in 0..n : after[i] \in D[i]
    BY <1>1, <1>9, Stays
<1> QED
    BY <1>1, <1>3, <1>4, <1>8, <1>10

\* Where the last element precedes the parent of its new place, it stays there: none of
\* its children precedes it, and its parent is after it.
LEMMA ExtractBreaks ==
    ASSUME NEW h \in Seq(EventKey), HeapOrdered(h), NEW i \in 2..Len(h) - 1,
           Less(h[Len(h)], h[i \div 2])
    PROVE  LET r == Heap!Extract(h, i)
           IN  r \in Seq(EventKey) /\ i \in 2..Len(r) /\ Less(r[i], r[i \div 2])
<1> DEFINE n == Len(h)
           g == Heap!Exch(h, i, n)
           f == Seqs!Front(g)
           r == Heap!Extract(h, i)
<1>1. /\ n \in Nat /\ n \in 1..n /\ i \in 1..n /\ i # n /\ i \in 1..n - 1 /\ i \in 2..n /\ n - 1 \in 0..n
      /\ \A j \in 1..n : h[j] \in EventKey
    OBVIOUS
<1>2. Exchanged(g, h, i, n)
    BY <1>1, HeapExch
<1> HIDE DEF g
<1>3. /\ g \in Seq(EventKey) /\ Len(g) = n /\ g[i] = h[n] /\ g[n] = h[i]
      /\ \A j \in 1..n : j # i /\ j # n => g[j] = h[j]
    BY <1>2 DEF Exchanged
<1>4. f \in Seq(EventKey) /\ Len(f) = n - 1 /\ \A j \in 1..n - 1 : f[j] = g[j]
    BY <1>1, <1>3, Prefix DEF Seqs!Front
<1> HIDE DEF f
<1>5. r = Heap!TopDown(f, i)
    BY DEF Heap!Extract, Heap!Last, Heap!Seqs!Front, f, Seqs!Front, g
<1>6. i \div 2 \in 1..n - 1 /\ i \div 2 \in 1..n /\ i \div 2 # i /\ i \div 2 # n /\ i \in Nat \ {0}
    BY <1>1, Half
<1>7. f[i] = h[n] /\ f[i \div 2] = h[i \div 2]
    BY <1>1, <1>3, <1>4, <1>6
<1> DEFINE first == [heap |-> f, index |-> i]
           c == Heap!Child(f, i)
<1>8. Heap!Descend(first) = first
  <2>1. Heap!Descend(first) = IF i * 2 > Len(f) \/ Less(f[i], f[c])
                              THEN first ELSE [heap |-> Heap!Exch(f, i, c), index |-> c]
      BY DEF Heap!Descend, Heap!LeftChild, Heap!IsBottom, Heap!IsLessStrictly, Heap!Less, Less
  <2>2. ASSUME ~(i * 2 > Len(f)) PROVE Less(f[i], f[c])
    <3>1. LeastChild(f, i, c)
        BY <1>4, <1>6, <2>2, HeapChild
    <3> HIDE DEF c
    <3>2. c \in 2..n - 1 /\ c \div 2 = i
        BY <1>4, <3>1 DEF LeastChild
    <3>3. c \in 1..n - 1 /\ c \in 2..n /\ c \in 1..n /\ c # i /\ c # n
        BY <1>1, <3>2, Half
    <3>4. f[c] = h[c]
        BY <1>3, <1>4, <3>3
    <3>5. ~Less(h[c], h[i]) /\ ~Less(h[i], h[i \div 2])
        BY <1>1, <3>2, <3>3 DEF HeapOrdered
    <3>6. h[c] \in EventKey /\ h[i] \in EventKey /\ h[i \div 2] \in EventKey /\ h[n] \in EventKey
        BY <1>1, <1>6, <3>3
    <3>7. ~Less(h[c], h[i \div 2])
        BY <3>5, <3>6, NotLess
    <3>8. Less(h[n], h[c])
        BY <3>6, <3>7, LessThanLater
    <3> QED
        BY <1>7, <3>4, <3>8
  <2> QED
      BY <2>1, <2>2
<1>9. r = f
    BY <1>4, <1>5, <1>8, TopDownStays
<1> HIDE DEF r
<1>10. i \in 2..Len(f)
    BY <1>1, <1>4
<1> QED
    BY <1>4, <1>7, <1>9, <1>10 DEF r

\* A heap that is ordered after the step was spared.
LEMMA OrderedSpared == SchedulersInv /\ Heap!HeapOrder' => HeapSpared
<1> SUFFICES ASSUME SchedulersInv, Heap!HeapOrder', NEW i \in DOMAIN m_heap \ {1}, Heap!Remove(i)
             PROVE  ~Less(m_heap[Len(m_heap)], m_heap[i \div 2])
    BY DEF HeapSpared, Heap!Parent
<1>1. m_heap \in Seq(EventKey) /\ HeapOrdered(m_heap)
    BY DEF SchedulersInv, HeapInv
<1>2. i \in 2..Len(m_heap) /\ Len(m_heap) \in Nat
    BY <1>1
<1>3. CASE i = Len(m_heap)
    BY <1>1, <1>2, <1>3 DEF HeapOrdered
<1>4. CASE i # Len(m_heap)
  <2>1. SUFFICES ASSUME Less(m_heap[Len(m_heap)], m_heap[i \div 2]) PROVE FALSE
      OBVIOUS
  <2>2. i \in 2..Len(m_heap) - 1
      BY <1>2, <1>4
  <2>3. m_heap' = Heap!Extract(m_heap, i)
      BY DEF Heap!Remove
  <2>4. m_heap' \in Seq(EventKey) /\ i \in 2..Len(m_heap') /\ Less(m_heap'[i], m_heap'[i \div 2])
      BY <1>1, <2>1, <2>2, <2>3, ExtractBreaks
  <2>5. i \in DOMAIN m_heap' \ {1}
      BY <2>4
  <2> QED
      BY <2>4, <2>5 DEF Heap!HeapOrder, Heap!Root, Heap!Parent, Heap!Less, Less
<1> QED
    BY <1>3, <1>4

\* The condition under which the schedulers are right is exactly that the heap stays
\* a heap: a HeapScheduler::Remove that puts the last element under a later parent
\* always leaves a heap out of order, whatever it holds.
THEOREM HeapOrderNeedsSpared == SchedulersSpec => ([]Heap!HeapOrder <=> [][HeapSpared]_allVars)
<1>1. SchedulersInv /\ [SchedulersNext]_allVars /\ Heap!HeapOrder'
      => SchedulersInv' /\ [HeapSpared]_allVars
    BY OrderedSpared, SchedulersStep
<1>2. SchedulersSpec /\ []Heap!HeapOrder => [][HeapSpared]_allVars
    BY <1>1, SchedulersInitInv, PTL DEF SchedulersSpec
<1>3. SchedulersSpec /\ [][HeapSpared]_allVars => []Heap!HeapOrder
    BY SchedulersInvariant, HeapOrderHolds, PTL
<1> QED
    BY <1>2, <1>3, PTL
=============================================================================

---------------------------- MODULE SequenceLemmas ----------------------------
(***************************************************************************)
(* What the operators on sequences do that the lists, stacks and queues of *)
(* the other modules are built from: pushing, popping, removing an element.*)
(***************************************************************************)
EXTENDS Integers, SequencesExt, SequenceTheorems, WellFoundedInduction, TLAPS

LEMMA Pushed ==
  ASSUME NEW S, NEW s \in Seq(S), NEW f \in S, NEW t, t = <<f>> \o s
  PROVE  /\ t \in Seq(S) /\ Len(t) = Len(s) + 1 /\ t[1] = f
         /\ DOMAIN t = 1 .. Len(s) + 1
         /\ \A i \in 2 .. Len(t) : t[i] = s[i - 1]
OBVIOUS

LEMMA Popped ==
  ASSUME NEW S, NEW s \in Seq(S), s # <<>>
  PROVE  /\ Tail(s) \in Seq(S) /\ Len(Tail(s)) = Len(s) - 1 /\ Head(s) = s[1]
         /\ Head(s) \in S /\ 1 \in DOMAIN s /\ DOMAIN s = 1 .. Len(s) /\ Len(s) \in Nat \ {0}
         /\ DOMAIN Tail(s) = 1 .. Len(s) - 1
         /\ \A i \in 1 .. Len(s) - 1 : Tail(s)[i] = s[i + 1]
OBVIOUS

-----------------------------------------------------------------------------
(* Lists that have what is on them once.                                   *)

In(s, n) == \E x \in DOMAIN s : s[x] = n
Once(s) == \A x, y \in DOMAIN s : s[x] = s[y] => x = y

\* What RemoveAt() leaves of a list.
LEMMA RemovedAt ==
  ASSUME NEW S, NEW s \in Seq(S), NEW i \in 1 .. Len(s), NEW t, t = RemoveAt(s, i)
  PROVE  /\ t \in Seq(S) /\ Len(t) = Len(s) - 1
         /\ \A k \in 1 .. Len(t) : k < i => t[k] = s[k]
         /\ \A k \in 1 .. Len(t) : k >= i => t[k] = s[k + 1]
<1> DEFINE p == SubSeq(s, 1, i - 1)
           q == SubSeq(s, i + 1, Len(s))
           n == Len(s)
<1>1. t = p \o q BY DEF RemoveAt
<1>2. p \in Seq(S) /\ Len(p) = i - 1 /\ \A k \in 1 .. i - 1 : p[k] = s[k]
  <2>1. \A k \in 1 .. i - 1 : s[k] \in S OBVIOUS
  <2>2. /\ p \in Seq(S) /\ Len(p) = IF 1 <= i - 1 THEN i - 1 - 1 + 1 ELSE 0
        /\ \A k \in 1 .. i - 1 - 1 + 1 : p[k] = s[1 + k - 1]
    BY <2>1, SubSeqProperties, i \in Int, 1 \in Int, i - 1 \in Int
  <2> QED BY <2>2
<1>3. q \in Seq(S) /\ Len(q) = n - i /\ \A k \in 1 .. n - i : q[k] = s[k + i]
  <2>1. \A k \in i + 1 .. Len(s) : s[k] \in S OBVIOUS
  <2>2. /\ q \in Seq(S) /\ Len(q) = IF i + 1 <= Len(s) THEN Len(s) - (i + 1) + 1 ELSE 0
        /\ \A k \in 1 .. Len(s) - (i + 1) + 1 : q[k] = s[i + 1 + k - 1]
    BY <2>1, SubSeqProperties, i + 1 \in Int, Len(s) \in Int
  <2> QED BY <2>2
<1>4. n \in Nat /\ s \in [1 .. n -> S] /\ i \in 1 .. n OBVIOUS
<1>5. /\ t \in Seq(S) /\ Len(t) = Len(p) + Len(q)
      /\ \A k \in 1 .. Len(p) + Len(q) : t[k] = IF k <= Len(p) THEN p[k] ELSE q[k - Len(p)]
  <2> HIDE DEF p, q
  <2>1. p \in Seq(S) /\ q \in Seq(S) BY <1>2, <1>3
  <2> QED BY <1>1, <2>1, ConcatProperties
<1> HIDE DEF p, q, n
<1>6. Len(p) + Len(q) = n - 1 BY <1>2, <1>3, <1>4
<1>7. /\ t \in Seq(S) /\ Len(t) = n - 1
      /\ \A k \in 1 .. n - 1 : t[k] = IF k <= i - 1 THEN p[k] ELSE q[k - (i - 1)]
  BY <1>2, <1>5, <1>6
<1>8. ASSUME NEW k \in 1 .. n - 1, k < i PROVE t[k] = s[k]
  BY <1>2, <1>4, <1>7, <1>8
<1>9. ASSUME NEW k \in 1 .. n - 1, k >= i PROVE t[k] = s[k + 1]
  <2>1. t[k] = q[k - (i - 1)] BY <1>4, <1>7, <1>9
  <2>2. k - (i - 1) \in 1 .. n - i BY <1>4, <1>9
  <2>3. q[k - (i - 1)] = s[k - (i - 1) + i] BY <1>3, <2>2
  <2> QED BY <1>4, <2>1, <2>3
<1> QED BY <1>7, <1>8, <1>9 DEF n

\* RemoveFirst() is RemoveAt() where the one such element is.
LEMMA RemoveFirstAt ==
  ASSUME NEW S, NEW s \in Seq(S), NEW e, NEW i \in 1 .. Len(s), s[i] = e,
         \A j \in 1 .. Len(s) : s[j] = e => j = i
  PROVE  RemoveFirst(s, e) = RemoveAt(s, i)
<1> DEFINE I == {k \in 1 .. Len(s) : s[k] = e}
<1>1. I = {i} OBVIOUS
<1>2. Min({i}) = i BY DEF Min
<1>3. Min(I) = i BY <1>1, <1>2
<1>4. RemoveFirst(s, e) = RemoveAt(s, IF I # {} THEN Min(I) ELSE 0)
  BY DEF RemoveFirst, SelectInSeq
<1> QED BY <1>1, <1>3, <1>4

LEMMA RemovedFirst ==
  ASSUME NEW S, NEW s \in Seq(S), NEW e, NEW i \in 1 .. Len(s), s[i] = e,
         \A j \in 1 .. Len(s) : s[j] = e => j = i,
         NEW t, t = RemoveFirst(s, e)
  PROVE  /\ t \in Seq(S) /\ Len(t) = Len(s) - 1
         /\ \A k \in 1 .. Len(t) : k < i => t[k] = s[k]
         /\ \A k \in 1 .. Len(t) : k >= i => t[k] = s[k + 1]
<1>1. t = RemoveAt(s, i) BY RemoveFirstAt
<1>2. t \in Seq(S) /\ Len(t) = Len(s) - 1 BY <1>1, RemovedAt
<1>3. \A k \in 1 .. Len(t) : k < i => t[k] = s[k] BY <1>1, RemovedAt
<1>4. \A k \in 1 .. Len(t) : k >= i => t[k] = s[k + 1] BY <1>1, RemovedAt
<1> QED BY <1>2, <1>3, <1>4

\* Taken out of a list that has it once, it is gone, and the others are there once.
LEMMA TakenOut ==
  ASSUME NEW S, NEW s \in Seq(S), Once(s), NEW i \in 1 .. Len(s), NEW t, t = RemoveAt(s, i)
  PROVE  /\ t \in Seq(S) /\ Once(t)
         /\ \A n : In(t, n) <=> In(s, n) /\ n # s[i]
<1>1. /\ t \in Seq(S) /\ Len(t) = Len(s) - 1 /\ Len(s) \in Nat
      /\ DOMAIN t = 1 .. Len(t) /\ DOMAIN s = 1 .. Len(s)
  <2>1. t \in Seq(S) /\ Len(t) = Len(s) - 1 BY RemovedAt
  <2> QED BY <2>1
<1>2. \A k \in 1 .. Len(t) : k < i => t[k] = s[k] BY RemovedAt
<1>3. \A k \in 1 .. Len(t) : k >= i => t[k] = s[k + 1] BY RemovedAt
<1>4. \A x, y \in 1 .. Len(s) : s[x] = s[y] => x = y BY <1>1 DEF Once
<1>5. Once(t) BY <1>1, <1>2, <1>3, <1>4 DEF Once
<1>6. ASSUME NEW n, In(t, n) PROVE In(s, n) /\ n # s[i]
  <2>1. PICK k \in 1 .. Len(t) : t[k] = n BY <1>1, <1>6 DEF In
  <2>2. CASE k < i BY <1>1, <1>2, <1>4, <2>1, <2>2 DEF In
  <2>3. CASE k >= i BY <1>1, <1>3, <1>4, <2>1, <2>3 DEF In
  <2> QED BY <1>1, <2>1, <2>2, <2>3
<1>7. ASSUME NEW n, In(s, n), n # s[i] PROVE In(t, n)
  <2>1. PICK k \in 1 .. Len(s) : s[k] = n BY <1>1, <1>7 DEF In
  <2>2. CASE k < i BY <1>1, <1>2, <2>1, <2>2 DEF In
  <2>3. CASE k > i
    <3>1. k - 1 \in 1 .. Len(t) /\ k - 1 >= i BY <1>1, <2>1, <2>3
    <3>2. t[k - 1] = s[k - 1 + 1] BY <1>3, <3>1
    <3> QED BY <1>1, <2>1, <3>1, <3>2 DEF In
  <2> QED BY <1>7, <2>1, <2>2, <2>3
<1> QED BY <1>1, <1>5, <1>6, <1>7

LEMMA Removed ==
  ASSUME NEW S, NEW s \in Seq(S), Once(s), NEW e
  PROVE  /\ RemoveFirst(s, e) \in Seq(S) /\ Once(RemoveFirst(s, e))
         /\ \A n : In(RemoveFirst(s, e), n) <=> In(s, n) /\ n # e
<1>1. CASE In(s, e)
  <2>1. PICK i \in 1 .. Len(s) : s[i] = e BY <1>1 DEF In
  <2>2. \A j \in 1 .. Len(s) : s[j] = e => j = i BY <2>1 DEF Once
  <2>3. RemoveFirst(s, e) = RemoveAt(s, i) BY <2>1, <2>2, RemoveFirstAt
  <2> QED BY <2>1, <2>3, TakenOut
<1>2. CASE ~In(s, e)
  <2>1. RemoveFirst(s, e) = s BY <1>2 DEF RemoveFirst, In
  <2> QED BY <1>2, <2>1
<1> QED BY <1>1, <1>2

\* A list with something new at its end, or at its front.
LEMMA Appended ==
  ASSUME NEW S, NEW s \in Seq(S), Once(s), NEW e \in S, ~In(s, e)
  PROVE  /\ Append(s, e) \in Seq(S) /\ Once(Append(s, e))
         /\ \A n : In(Append(s, e), n) <=> In(s, n) \/ n = e
<1> DEFINE t == Append(s, e)
<1>1. /\ t \in Seq(S) /\ Len(t) = Len(s) + 1 /\ Len(s) \in Nat /\ DOMAIN s = 1 .. Len(s)
      /\ DOMAIN t = 1 .. Len(t) /\ t[Len(s) + 1] = e /\ \A k \in 1 .. Len(s) : t[k] = s[k]
  OBVIOUS
<1> HIDE DEF t
<1>2. Once(t) BY <1>1 DEF Once, In
<1>3. \A n : In(t, n) <=> In(s, n) \/ n = e BY <1>1 DEF In
<1> QED BY <1>1, <1>2, <1>3 DEF t

LEMMA Fronted ==
  ASSUME NEW S, NEW s \in Seq(S), Once(s), NEW e \in S, ~In(s, e)
  PROVE  /\ <<e>> \o s \in Seq(S) /\ Once(<<e>> \o s) /\ <<e>> \o s # <<>>
         /\ \A n : In(<<e>> \o s, n) <=> In(s, n) \/ n = e
<1> DEFINE t == <<e>> \o s
<1>1. /\ t \in Seq(S) /\ Len(t) = Len(s) + 1 /\ Len(s) \in Nat /\ DOMAIN s = 1 .. Len(s)
      /\ DOMAIN t = 1 .. Len(t) /\ t[1] = e /\ \A k \in 1 .. Len(s) : t[k + 1] = s[k]
  OBVIOUS
<1> HIDE DEF t
<1>2. \A k \in DOMAIN t : k = 1 \/ (k - 1 \in DOMAIN s /\ t[k] = s[k - 1])
  <2> TAKE k \in DOMAIN t
  <2>1. CASE k # 1
    <3>1. k - 1 \in 1 .. Len(s) BY <1>1, <2>1
    <3>2. t[k - 1 + 1] = s[k - 1] BY <1>1, <3>1
    <3> QED BY <1>1, <3>1, <3>2
  <2> QED BY <2>1
<1>3. Once(t) BY <1>1, <1>2 DEF Once, In
<1>4. \A n : In(t, n) <=> In(s, n) \/ n = e
  <2>1. ASSUME NEW n, In(s, n) PROVE In(t, n)
    <3>1. PICK k \in 1 .. Len(s) : s[k] = n BY <1>1, <2>1 DEF In
    <3>2. k + 1 \in DOMAIN t /\ t[k + 1] = n BY <1>1, <3>1
    <3> QED BY <3>2 DEF In
  <2>2. In(t, e) BY <1>1 DEF In
  <2>3. ASSUME NEW n, In(t, n) PROVE In(s, n) \/ n = e BY <1>1, <1>2, <2>3 DEF In
  <2> QED BY <2>1, <2>2, <2>3
<1> QED BY <1>1, <1>3, <1>4 DEF t

\* A set of numbers has a least one.
LEMMA Least ==
  ASSUME NEW T \in SUBSET Nat, T # {}
  PROVE  \E x \in T : \A y \in T : x <= y
<1>1. PICK x \in T : \A y \in T : ~(<<y, x>> \in OpToRel(<, Nat))
  BY WFMin, NatLessThanWellFounded
<1>2. \A y \in T : ~(y < x) BY <1>1 DEF OpToRel
<1> QED BY <1>2

\* A list in two parts: what it has is in one of them, and only in one if it is there
\* once.
Parts(s, k, p, q) ==
  /\ p = SubSeq(s, 1, k) /\ q = SubSeq(s, k + 1, Len(s))
  /\ s = p \o q /\ Len(p) = k /\ Len(q) = Len(s) - k
  /\ \A x \in 1 .. k : p[x] = s[x]
  /\ \A x \in 1 .. Len(s) - k : q[x] = s[x + k]
  /\ \A n : In(s, n) <=> In(p, n) \/ In(q, n)
  /\ Once(s) => Once(p) /\ \A n : ~(In(p, n) /\ In(q, n))
LEMMA SplitParts ==
  ASSUME NEW S, NEW s \in Seq(S), NEW k \in 0 .. Len(s)
  PROVE  \E p \in Seq(S), q \in Seq(S) : Parts(s, k, p, q)
<1>p. PICK p : p = SubSeq(s, 1, k) OBVIOUS
<1>q. PICK q : q = SubSeq(s, k + 1, Len(s)) OBVIOUS
<1>0. PICK m \in Nat : m = Len(s) OBVIOUS
<1>1. k \in 0 .. m /\ k \in Int /\ m \in Int /\ 1 \in Int /\ k + 1 \in Int BY <1>0
<1>2. s = p \o q
  <2>1. /\ 1 \in 1 .. Len(s) + 1 /\ k \in 1 - 1 .. Len(s) /\ Len(s) \in k .. Len(s) OBVIOUS
  <2>2. p \o q = SubSeq(s, 1, Len(s)) BY <1>p, <1>q, <2>1, ConcatAdjacentSubSeq
  <2> QED BY <2>2, SubSeqFull
<1>3. p \in Seq(S) /\ Len(p) = k /\ \A x \in 1 .. k : p[x] = s[x]
  <2>1. \A x \in 1 .. k : s[x] \in S OBVIOUS
  <2>2. /\ p \in Seq(S) /\ Len(p) = IF 1 <= k THEN k - 1 + 1 ELSE 0
        /\ \A x \in 1 .. k - 1 + 1 : p[x] = s[1 + x - 1]
    BY <1>p, <1>1, <2>1, SubSeqProperties
  <2> QED BY <1>1, <2>2
<1>4. q \in Seq(S) /\ Len(q) = m - k /\ \A x \in 1 .. m - k : q[x] = s[x + k]
  <2>1. \A x \in k + 1 .. m : s[x] \in S BY <1>0
  <2>2. /\ q \in Seq(S) /\ Len(q) = IF k + 1 <= m THEN m - (k + 1) + 1 ELSE 0
        /\ \A x \in 1 .. m - (k + 1) + 1 : q[x] = s[k + 1 + x - 1]
    BY <1>q, <1>0, <1>1, <2>1, SubSeqProperties
  <2>3. Len(q) = m - k
    <3>1. CASE k + 1 <= m BY <1>1, <2>2, <3>1
    <3>2. CASE k = m BY <1>1, <2>2, <3>2
    <3> QED BY <1>1, <3>1, <3>2
  <2>4. ASSUME NEW x \in 1 .. m - k PROVE q[x] = s[x + k]
    <3>1. x \in 1 .. m - (k + 1) + 1 /\ k + 1 + x - 1 = x + k BY <1>1
    <3> QED BY <2>2, <3>1
  <2> QED BY <2>2, <2>3, <2>4
<1>5. DOMAIN s = 1 .. m /\ DOMAIN p = 1 .. k /\ DOMAIN q = 1 .. m - k BY <1>0, <1>3, <1>4
<1>6. ASSUME NEW n, In(s, n) PROVE In(p, n) \/ In(q, n)
  <2>1. PICK x \in 1 .. m : s[x] = n BY <1>5, <1>6 DEF In
  <2>2. CASE x <= k BY <1>1, <1>3, <1>5, <2>1, <2>2 DEF In
  <2>3. CASE x > k
    <3>1. x - k \in 1 .. m - k /\ x - k + k = x BY <1>1, <2>1, <2>3
    <3> QED BY <1>4, <1>5, <2>1, <3>1 DEF In
  <2> QED BY <1>1, <2>1, <2>2, <2>3
<1>7. ASSUME NEW n, In(p, n) PROVE In(s, n)
  <2>1. PICK x \in 1 .. k : s[x] = n BY <1>3, <1>5, <1>7 DEF In
  <2> QED BY <1>1, <1>5, <2>1 DEF In
<1>8. ASSUME NEW n, In(q, n) PROVE In(s, n)
  <2>1. PICK x \in 1 .. m - k : s[x + k] = n BY <1>4, <1>5, <1>8 DEF In
  <2>2. x + k \in 1 .. m BY <1>1, <2>1
  <2> QED BY <1>5, <2>1, <2>2 DEF In
<1>9. ASSUME Once(s) PROVE Once(p) /\ \A n : ~(In(p, n) /\ In(q, n))
  <2>1. \A x, y \in 1 .. m : s[x] = s[y] => x = y BY <1>5, <1>9 DEF Once
  <2>2. Once(p) BY <1>1, <1>3, <1>5, <2>1 DEF Once
  <2>3. ASSUME NEW n, In(p, n), In(q, n) PROVE FALSE
    <3>1. PICK x \in 1 .. k : s[x] = n BY <1>3, <1>5, <2>3 DEF In
    <3>2. PICK y \in 1 .. m - k : s[y + k] = n BY <1>4, <1>5, <2>3 DEF In
    <3>3. x \in 1 .. m /\ y + k \in 1 .. m /\ x # y + k BY <1>1, <3>1, <3>2
    <3> QED BY <2>1, <3>1, <3>2, <3>3
  <2> QED BY <2>2, <2>3
<1>10. Parts(s, k, p, q)
  BY <1>p, <1>q, <1>0, <1>2, <1>3, <1>4, <1>6, <1>7, <1>8, <1>9 DEF Parts
<1> QED BY <1>3, <1>4, <1>10

\* A list around one of its elements.
Around(s, i, p, q) ==
  /\ s = p \o (<<s[i]>> \o q) /\ RemoveAt(s, i) = p \o q
  /\ \A m : In(p, m) => In(s, m)
  /\ \A m : In(q, m) => In(s, m)
LEMMA SplitAround ==
  ASSUME NEW S, NEW s \in Seq(S), NEW i \in 1 .. Len(s)
  PROVE  \E p \in Seq(S), q \in Seq(S) : Around(s, i, p, q)
<1>1. i - 1 \in 0 .. Len(s) /\ i \in 0 .. Len(s) /\ i - 1 + 1 = i OBVIOUS
<1>2. PICK p \in Seq(S), r \in Seq(S) : Parts(s, i - 1, p, r) BY <1>1, SplitParts
<1>3. PICK t \in Seq(S), q \in Seq(S) : Parts(s, i, t, q) BY <1>1, SplitParts
<1>4. r = SubSeq(s, i, Len(s)) /\ q = SubSeq(s, i + 1, Len(s)) BY <1>1, <1>2, <1>3 DEF Parts
<1>5. r = <<s[i]>> \o q
  <2>1. Len(s) \in i .. Len(s) OBVIOUS
  <2> QED BY <1>4, <2>1, SubSeqRecursiveFirst
<1>6. RemoveAt(s, i) = p \o q BY <1>2, <1>4 DEF RemoveAt, Parts
<1>7. s = p \o (<<s[i]>> \o q) BY <1>2, <1>5 DEF Parts
<1>8. Around(s, i, p, q) BY <1>2, <1>3, <1>6, <1>7 DEF Around, Parts
<1> QED BY <1>8

=============================================================================

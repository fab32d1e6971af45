--------------------------- MODULE IncubatorProofs ---------------------------
(***************************************************************************)
(* The incubators of Incubator, proved for any of them, whatever their     *)
(* modes and contexts are and however many calls the program makes.         *)
(***************************************************************************)
EXTENDS Incubator, SequenceLemmas, FiniteSetTheorems

-----------------------------------------------------------------------------
(* The inductive invariant.                                                *)

Statuses == {"null", "ready", "loading", "error"}
FrameType ==
  [at : Positions, inc : Incubators, interrupts : BOOLEAN, callback : BOOLEAN,
   recursed : BOOLEAN, waiting : Incubators \cup {NoIncubator}, was : Statuses]

\* Inside of incubate(), with compilationUnit there, and not overtaken by another call.
Within == {"create", "initial", "checked", "finalize", "finish"}
Going(f) == f.at \in Within /\ ~f.recursed

\* What is about to be subtracted from inProgressCreations.
Heavy(f) == f.at \in {"ended", "count"} \/ (f.at = "clear" /\ f.was = "loading")
Weight(frames) == Cardinality({x \in DOMAIN frames : Heavy(frames[x])})
Units == {i \in Incubators : unit[i]}
Clearing(i) == \E x \in DOMAIN stack : stack[x].at = "clear" /\ stack[x].inc = i

\* create() has given an object or errors.
Has(i) == result[i] \/ errors[i]
WillHave(i) == result'[i] \/ errors'[i]

\* Of one frame: where the unit must be there, what has been done, and that nothing is
\* called from where nothing can be.
OneFrame(x) ==
  LET f == stack[x] IN
  /\ f.at \in {"enter", "finish"} => x = 1 /\ ~f.callback /\ ~f.recursed
  /\ Going(f) => unit[f.inc]
  /\ f.at = "checked" /\ ~f.recursed => progress[f.inc] \in {"completing", "completed"}
  /\ f.at = "finish" /\ ~f.interrupts => progress[f.inc] = "completed"
  /\ f.at \in {"initial", "finalize"} /\ ~f.recursed => Has(f.inc)

\* A frame of incubate() or clear() overtakes the others of the same incubator below it.
Overtaken ==
  \A x, y \in DOMAIN stack :
    x < y /\ stack[x].inc = stack[y].inc /\ stack[x].at \in Within \cup {"clear"} =>
      ~Going(stack[y])

\* Of one incubator: the units, the list, who waits, and what is loading.
Listed(i) ==
  /\ owner[i] => exists[i]
  /\ waitingOnMe[i] # NoIncubator => unit[i]
  /\ Mode[i] = "nested" /\ unit[i] /\ async[i] => waitingOnMe[i] # NoIncubator
  /\ In(list, i) => unit[i] /\ exists[i]
  /\ unit[i] /\ async[i] => In(list, i)

\* How far its object is: what is Null has none, what is Ready has been finalized.
Made(i) ==
  /\ status[i] = "null" /\ ~unit[i] => ~result[i] /\ progress[i] = "execute"
  /\ status[i] = "ready" => ~unit[i] /\ finalized[i]
  /\ progress[i] = "completed" /\ ~errors[i] => finalized[i]
  /\ unit[i] /\ progress[i] \in {"completing", "completed"} => Has(i)
OneIncubator(i) ==
  /\ Listed(i) /\ Made(i)
  /\ status[i] = "loading" /\ ~unit[i] =>
       \E x \in DOMAIN stack :
         stack[x].at = "clear" /\ stack[x].inc = i /\ stack[x].was = "loading"

IInv ==
  /\ TypeOK /\ stack \in Seq(FrameType)
  /\ \A x \in DOMAIN stack : OneFrame(x)
  /\ Overtaken
  /\ \A i \in Incubators : OneIncubator(i)
  /\ Once(list)
  /\ creations >= Cardinality(Units) + Weight(stack)

\* While nothing is started again that is being cleared: what is created synchronously
\* has a frame that nothing interrupts and nobody waits for it, and what is waited for
\* is still created, is being cleared, or has failed.
Steady(f) ==
  ~f.recursed /\ ~f.interrupts /\ f.at \in Within \cup {"starting", "enter"}
Failed(w) == ~unit[w] /\ status[w] = "error"
OneSync(i) ==
  /\ status[i] = "null" => ~unit[i]
  /\ In(list, i) => async[i]
  /\ waitingOnMe[i] # NoIncubator =>
       \/ unit[waitingOnMe[i]] /\ async[waitingOnMe[i]]
       \/ Clearing(waitingOnMe[i]) \/ Failed(waitingOnMe[i])
  /\ unit[i] /\ ~async[i] =>
       \E x \in DOMAIN stack : stack[x].inc = i /\ Steady(stack[x])
FrameSync(f) ==
  /\ f.at = "enter" /\ f.interrupts => async[f.inc] \/ ~unit[f.inc]
  /\ f.at = "ended" /\ f.waiting # NoIncubator /\ ~f.recursed =>
       async[f.waiting] \/ ~unit[f.waiting]
SyncInv ==
  /\ \A i \in Incubators : OneSync(i)
  /\ \A x \in DOMAIN stack : FrameSync(stack[x])

-----------------------------------------------------------------------------
(* What the actions do to the stack.                                       *)

\* The frame f after QRecursionWatchers on M, and after that whole stacks.
Kept(f, g, M) ==
  /\ g.at = f.at /\ g.inc = f.inc /\ g.waiting = f.waiting /\ g.was = f.was
  /\ g.interrupts <=> f.interrupts
  /\ g.recursed <=> f.recursed \/ Watched(f) \in M
MarkedBy(s, t, M) ==
  /\ t \in Seq(FrameType) /\ Len(t) = Len(s)
  /\ \A x \in 1 .. Len(s) : Kept(s[x], t[x], M)

\* The stack loses d frames and gets e: f and, below it, g.
Moves(s, t, d, e, f, g, M) ==
  /\ d \in 0 .. 1 /\ d <= Len(s) /\ e \in 0 .. 2
  /\ s \in Seq(FrameType) /\ t \in Seq(FrameType) /\ Len(t) = Len(s) - d + e
  /\ e > 0 => t[1] = f
  /\ e = 2 => t[2] = g
  /\ \A x \in d + 1 .. Len(s) : Kept(s[x], t[x - d + e], M)

LEMMA NewFrame ==
  ASSUME NEW at \in Positions, NEW i \in Incubators, NEW b \in BOOLEAN
  PROVE  /\ Frame(at, i, b) \in FrameType
         /\ Frame(at, i, b).at = at /\ Frame(at, i, b).inc = i
         /\ Frame(at, i, b).interrupts <=> b
         /\ ~Frame(at, i, b).recursed /\ ~Frame(at, i, b).callback
         /\ Frame(at, i, b).waiting = NoIncubator /\ Frame(at, i, b).was = "null"
BY DEF Frame, FrameType, Statuses

LEMMA MarkedNone ==
  ASSUME NEW s \in Seq(FrameType)
  PROVE  MarkedBy(s, s, {})
BY DEF MarkedBy, Kept

LEMMA MarkedOne ==
  ASSUME NEW s \in Seq(FrameType), NEW i
  PROVE  MarkedBy(s, Recurse(i, s), {i})
<1> DEFINE t == Recurse(i, s)
<1>1. DOMAIN s = 1 .. Len(s) /\ Len(s) \in Nat /\ \A x \in 1 .. Len(s) : s[x] \in FrameType
  OBVIOUS
<1>2. t = [x \in 1 .. Len(s) |-> [s[x] EXCEPT !.recursed = @ \/ Watched(s[x]) = i]]
  BY <1>1 DEF Recurse
<1>3. ASSUME NEW x \in 1 .. Len(s) PROVE t[x] \in FrameType /\ Kept(s[x], t[x], {i})
  <2>1. t[x] = [s[x] EXCEPT !.recursed = @ \/ Watched(s[x]) = i] BY <1>2
  <2>2. s[x] \in FrameType BY <1>1
  <2> HIDE DEF t
  <2> QED BY <2>1, <2>2 DEF FrameType, Kept
<1>4. t \in Seq(FrameType) /\ Len(t) = Len(s)
  <2>1. t = [x \in 1 .. Len(s) |-> t[x]] BY <1>2
  <2> HIDE DEF t
  <2> QED BY <1>1, <1>3, <2>1
<1> QED BY <1>3, <1>4 DEF MarkedBy

LEMMA PopMoves ==
  ASSUME NEW s \in Seq(FrameType), s # <<>>
  PROVE  Moves(s, Tail(s), 1, 0, s[1], s[1], {})
<1>1. /\ Tail(s) \in Seq(FrameType) /\ Len(Tail(s)) = Len(s) - 1 /\ Len(s) \in Nat \ {0}
      /\ \A i \in 1 .. Len(s) - 1 : Tail(s)[i] = s[i + 1]
  BY Popped
<1>2. ASSUME NEW x \in 2 .. Len(s) PROVE Kept(s[x], Tail(s)[x - 1], {})
  <2>1. x - 1 \in 1 .. Len(s) - 1 /\ x - 1 + 1 = x BY <1>1
  <2>2. Tail(s)[x - 1] = s[x] BY <1>1, <2>1
  <2> QED BY <2>2 DEF Kept
<1>3. \A x \in 1 + 1 .. Len(s) : Kept(s[x], Tail(s)[x - 1 + 0], {}) BY <1>1, <1>2
<1> QED BY <1>1, <1>3 DEF Moves

LEMMA PushMoves ==
  ASSUME NEW s \in Seq(FrameType), NEW M, NEW r, MarkedBy(s, r, M), NEW f \in FrameType,
         NEW t, t = <<f>> \o r
  PROVE  Moves(s, t, 0, 1, f, f, M)
<1>1. r \in Seq(FrameType) /\ Len(r) = Len(s) /\ Len(s) \in Nat BY DEF MarkedBy
<1>2. /\ t \in Seq(FrameType) /\ Len(t) = Len(r) + 1 /\ t[1] = f
      /\ \A i \in 2 .. Len(t) : t[i] = r[i - 1]
  BY <1>1, Pushed
<1>3. ASSUME NEW x \in 1 .. Len(s) PROVE Kept(s[x], t[x - 0 + 1], M)
  <2>1. t[x + 1] = r[x + 1 - 1] BY <1>1, <1>2
  <2> QED BY <1>1, <2>1 DEF MarkedBy
<1> QED BY <1>1, <1>2, <1>3 DEF Moves

LEMMA ReplaceMoves ==
  ASSUME NEW s \in Seq(FrameType), s # <<>>, NEW M, NEW r, MarkedBy(Tail(s), r, M),
         NEW f \in FrameType, NEW t, t = <<f>> \o r
  PROVE  Moves(s, t, 1, 1, f, f, M)
<1>0. /\ Tail(s) \in Seq(FrameType) /\ Len(Tail(s)) = Len(s) - 1 /\ Len(s) \in Nat \ {0}
      /\ \A i \in 1 .. Len(s) - 1 : Tail(s)[i] = s[i + 1]
  BY Popped
<1>1. r \in Seq(FrameType) /\ Len(r) = Len(s) - 1 BY <1>0 DEF MarkedBy
<1>2. /\ t \in Seq(FrameType) /\ Len(t) = Len(r) + 1 /\ t[1] = f
      /\ \A i \in 2 .. Len(t) : t[i] = r[i - 1]
  BY <1>1, Pushed
<1>3. ASSUME NEW x \in 2 .. Len(s) PROVE Kept(s[x], t[x], M)
  <2>1. t[x] = r[x - 1] BY <1>0, <1>1, <1>2
  <2>2. x - 1 \in 1 .. Len(s) - 1 /\ x - 1 + 1 = x BY <1>0
  <2>3. Tail(s)[x - 1] = s[x] BY <1>0, <2>2
  <2>4. Kept(Tail(s)[x - 1], r[x - 1], M) BY <1>0, <2>2 DEF MarkedBy
  <2> QED BY <2>1, <2>2, <2>3, <2>4
<1>4. ASSUME NEW x \in 1 + 1 .. Len(s) PROVE Kept(s[x], t[x - 1 + 1], M)
  <2>1. x \in 2 .. Len(s) /\ x - 1 + 1 = x BY <1>0
  <2> QED BY <1>3, <2>1
<1>5. Len(t) = Len(s) - 1 + 1 BY <1>0, <1>1, <1>2
<1>6. 1 <= Len(s) /\ t \in Seq(FrameType) /\ t[1] = f BY <1>0, <1>2
<1>7. \A x \in 1 + 1 .. Len(s) : Kept(s[x], t[x - 1 + 1], M) BY <1>4
<1> QED BY <1>5, <1>6, <1>7 DEF Moves

LEMMA TwoMoves ==
  ASSUME NEW s \in Seq(FrameType), s # <<>>, NEW f \in FrameType, NEW g \in FrameType,
         NEW t, t = <<f>> \o (<<g>> \o Tail(s))
  PROVE  Moves(s, t, 1, 2, f, g, {})
<1>1. PICK u : u = <<g>> \o Tail(s) OBVIOUS
<1>2. Tail(s) \in Seq(FrameType) BY Popped
<1>3. MarkedBy(Tail(s), Tail(s), {}) BY <1>2, MarkedNone
<1>4. Moves(s, u, 1, 1, g, g, {}) BY <1>1, <1>3, ReplaceMoves
<1>5. u \in Seq(FrameType) /\ Len(u) = Len(s) /\ u[1] = g BY <1>4 DEF Moves
<1>6. /\ t \in Seq(FrameType) /\ Len(t) = Len(u) + 1 /\ t[1] = f
      /\ \A i \in 2 .. Len(t) : t[i] = u[i - 1]
  BY <1>1, <1>5, Pushed
<1>7. Len(s) \in Nat \ {0} BY Popped
<1>8. ASSUME NEW x \in 2 .. Len(s) PROVE Kept(s[x], t[x - 1 + 2], {})
  <2>1. t[x + 1] = u[x + 1 - 1] BY <1>5, <1>6, <1>7
  <2>2. Kept(s[x], u[x - 1 + 1], {}) BY <1>4, <1>7 DEF Moves
  <2> QED BY <1>7, <2>1, <2>2
<1>9. t[2] = g BY <1>5, <1>6, <1>7
<1> QED BY <1>5, <1>6, <1>7, <1>8, <1>9 DEF Moves

\* Where a frame goes, and where it comes from.
LEMMA Destination ==
  ASSUME NEW s, NEW t, NEW d, NEW e, NEW f, NEW g, NEW M, Moves(s, t, d, e, f, g, M),
         NEW x \in d + 1 .. Len(s)
  PROVE  \E y \in e + 1 .. Len(t) : y - x = e - d /\ Kept(s[x], t[y], M)
<1>1. x - d + e \in e + 1 .. Len(t) /\ (x - d + e) - x = e - d BY DEF Moves
<1>2. Kept(s[x], t[x - d + e], M) BY DEF Moves
<1> QED BY <1>1, <1>2

LEMMA Origin ==
  ASSUME NEW s, NEW t, NEW d, NEW e, NEW f, NEW g, NEW M, Moves(s, t, d, e, f, g, M),
         NEW y \in e + 1 .. Len(t)
  PROVE  \E x \in d + 1 .. Len(s) : y - x = e - d /\ Kept(s[x], t[y], M)
<1>0. d \in Int /\ e \in Int /\ Len(t) = Len(s) - d + e /\ Len(s) \in Nat BY DEF Moves
<1>1. y - e + d \in d + 1 .. Len(s) /\ y - (y - e + d) = e - d BY <1>0
<1>2. Kept(s[y - e + d], t[y - e + d - d + e], M) BY <1>1 DEF Moves
<1>3. y - e + d - d + e = y BY <1>0
<1> QED BY <1>1, <1>2, <1>3

\* What the frames weigh that stay.
LEMMA WeightNat ==
  ASSUME NEW s \in Seq(FrameType)
  PROVE  IsFiniteSet({x \in DOMAIN s : Heavy(s[x])}) /\ Weight(s) \in Nat
<1> DEFINE H == {x \in DOMAIN s : Heavy(s[x])}
<1>1. H \in SUBSET (1 .. Len(s)) /\ Len(s) \in Int OBVIOUS
<1>2. IsFiniteSet(1 .. Len(s)) BY <1>1, FS_Interval, 1 \in Int
<1>3. IsFiniteSet(H) BY <1>1, <1>2, FS_Subset
<1> QED BY <1>3, FS_CardinalityType DEF Weight

Weighs(s, t, d, e, f, g, k) ==
  /\ k \in Nat
  /\ Weight(s) = k + (IF d = 1 /\ Heavy(s[1]) THEN 1 ELSE 0)
  /\ Weight(t) = k + (IF e > 0 /\ Heavy(f) THEN 1 ELSE 0)
                   + (IF e = 2 /\ Heavy(g) THEN 1 ELSE 0)
LEMMA MovesWeigh ==
  ASSUME NEW s, NEW t, NEW d, NEW e, NEW f, NEW g, NEW M, Moves(s, t, d, e, f, g, M)
  PROVE  \E k : Weighs(s, t, d, e, f, g, k)
<1> DEFINE H == {x \in DOMAIN s : Heavy(s[x])}
           I == {y \in DOMAIN t : Heavy(t[y])}
           K == {x \in d + 1 .. Len(s) : Heavy(s[x])}
           J == {y \in e + 1 .. Len(t) : Heavy(t[y])}
<1>0. /\ s \in Seq(FrameType) /\ t \in Seq(FrameType) /\ d \in 0 .. 1 /\ e \in 0 .. 2
      /\ Len(s) \in Nat /\ Len(t) \in Nat /\ d <= Len(s) /\ Len(t) = Len(s) - d + e
      /\ DOMAIN s = 1 .. Len(s) /\ DOMAIN t = 1 .. Len(t)
      /\ e > 0 => t[1] = f
      /\ e = 2 => t[2] = g
  BY DEF Moves
<1>1. IsFiniteSet(H) /\ IsFiniteSet(I) BY <1>0, WeightNat
<1>2. K \in SUBSET H /\ J \in SUBSET I BY <1>0
<1>3. IsFiniteSet(K) /\ IsFiniteSet(J) /\ Cardinality(K) \in Nat /\ Cardinality(J) \in Nat
  BY <1>1, <1>2, FS_Subset, FS_CardinalityType
<1>4. Cardinality(K) = Cardinality(J)
  <2> DEFINE m == [x \in K |-> x - d + e]
  <2>1. ASSUME NEW x \in K PROVE m[x] \in J
    <3>1. Kept(s[x], t[x - d + e], M) /\ x - d + e \in e + 1 .. Len(t) BY <1>0 DEF Moves
    <3>2. Heavy(t[x - d + e]) BY <3>1 DEF Heavy, Kept
    <3> QED BY <3>1, <3>2
  <2>2. ASSUME NEW y \in J PROVE \E x \in K : m[x] = y
    <3>1. PICK x \in d + 1 .. Len(s) : y - x = e - d /\ Kept(s[x], t[y], M) BY Origin
    <3>2. Heavy(s[x]) BY <3>1 DEF Heavy, Kept
    <3> QED BY <1>0, <3>1, <3>2
  <2>3. \A x, y \in K : m[x] = m[y] => x = y BY <1>0
  <2>4. m \in Bijection(K, J)
    <3>1. m \in [K -> J] BY <2>1
    <3> HIDE DEF K, J, m
    <3> QED BY <2>2, <2>3, <3>1 DEF Bijection, Injection, Surjection, IsInjective
  <2>5. ExistsBijection(K, J) BY <2>4 DEF ExistsBijection
  <2> HIDE DEF K, J
  <2> QED BY <1>3, <2>5, FS_Bijection
<1>5. Cardinality(H) = Cardinality(K) + (IF d = 1 /\ Heavy(s[1]) THEN 1 ELSE 0)
  <2>1. CASE d = 1 /\ Heavy(s[1])
    <3>1. H = K \cup {1} /\ 1 \notin K BY <1>0, <2>1
    <3> HIDE DEF H, K
    <3> QED BY <1>3, <2>1, <3>1, FS_AddElement
  <2>2. CASE ~(d = 1 /\ Heavy(s[1]))
    <3>1. H = K BY <1>0, <2>2
    <3> HIDE DEF H, K
    <3> QED BY <1>3, <2>2, <3>1
  <2> QED BY <2>1, <2>2
<1>6. Cardinality(I) = Cardinality(J) + (IF e > 0 /\ Heavy(f) THEN 1 ELSE 0)
                                      + (IF e = 2 /\ Heavy(g) THEN 1 ELSE 0)
  <2> DEFINE A == IF e = 2 /\ Heavy(g) THEN J \cup {2} ELSE J
             B == IF e > 0 /\ Heavy(f) THEN A \cup {1} ELSE A
  <2>1. I = B BY <1>0
  <2>2. 2 \notin J \/ e # 2 BY <1>0
  <2>3. 1 \notin A \/ ~(e > 0) BY <1>0
  <2>4. IsFiniteSet(A) /\ Cardinality(A) \in Nat
        /\ Cardinality(A) = Cardinality(J) + (IF e = 2 /\ Heavy(g) THEN 1 ELSE 0)
    <3> HIDE DEF J
    <3> QED BY <1>3, <2>2, FS_AddElement, FS_CardinalityType
  <2>5. Cardinality(B) = Cardinality(A) + (IF e > 0 /\ Heavy(f) THEN 1 ELSE 0)
    <3> HIDE DEF A
    <3> QED BY <2>3, <2>4, FS_AddElement
  <2> HIDE DEF A, B, I, J
  <2> QED BY <1>3, <2>1, <2>4, <2>5
<1>7. Weighs(s, t, d, e, f, g, Cardinality(K))
  BY <1>3, <1>4, <1>5, <1>6 DEF Weighs, Weight
<1> QED BY <1>7

\* What keeps the invariant of the stack: nothing is put on a call that cannot call, the
\* new frame f is right, it overtakes what is below it, and what stays has its unit.
StackInv ==
  stack \in Seq(FrameType) /\ (\A x \in DOMAIN stack : OneFrame(x)) /\ Overtaken
Overtakes(f) == f.at \in Within \cup {"clear"}
RightFrame(f) ==
  /\ f.at \in {"enter", "finish"} => ~f.callback /\ ~f.recursed
  /\ Going(f) => unit'[f.inc]
  /\ f.at = "checked" /\ ~f.recursed => progress'[f.inc] \in {"completing", "completed"}
  /\ f.at = "finish" /\ ~f.interrupts => progress'[f.inc] = "completed"
  /\ f.at \in {"initial", "finalize"} /\ ~f.recursed => WillHave(f.inc)
Fits(d, e, f, g, M) ==
  /\ Moves(stack, stack', d, e, f, g, M)
  /\ d = 1 \/ stack = <<>> \/ (e > 0 /\ stack[1].at \notin {"enter", "finish"})
  /\ e > 0 => RightFrame(f)
  /\ e > 0 /\ Overtakes(f) =>
       f.inc \in M \/ (d = 1 /\ stack[1].inc = f.inc /\ Overtakes(stack[1]))
  /\ e = 2 => g.at = "count"
  /\ \A x \in d + 1 .. Len(stack) : Going(stack[x]) /\ stack[x].inc \notin M =>
       /\ unit'[stack[x].inc]
       /\ Has(stack[x].inc) => WillHave(stack[x].inc)
       /\ \/ progress'[stack[x].inc] = progress[stack[x].inc]
          \/ progress'[stack[x].inc] \in {"completing", "completed"}

LEMMA KeptGoing ==
  ASSUME NEW f, NEW g, NEW M, Kept(f, g, M), Going(g)
  PROVE  Going(f) /\ f.inc \notin M
BY DEF Kept, Going, Watched, Within

LEMMA FitsKeeps ==
  ASSUME StackInv, NEW d, NEW e, NEW f, NEW g, NEW M, Fits(d, e, f, g, M)
  PROVE  StackInv'
<1> DEFINE t == stack'
<1>m. Moves(stack, t, d, e, f, g, M) BY DEF Fits
<1>0. /\ stack \in Seq(FrameType) /\ t \in Seq(FrameType) /\ d \in 0 .. 1 /\ e \in 0 .. 2
      /\ Len(stack) \in Nat /\ Len(t) \in Nat
      /\ d <= Len(stack) /\ Len(t) = Len(stack) - d + e
      /\ DOMAIN stack = 1 .. Len(stack) /\ DOMAIN t = 1 .. Len(t)
      /\ e > 0 => t[1] = f
      /\ e = 2 => t[2] = g
  BY <1>m DEF Moves
<1> HIDE DEF t
<1>1. ASSUME NEW y \in e + 1 .. Len(t)
      PROVE  t[y].at \notin {"enter", "finish"}
  <2>1. PICK x \in d + 1 .. Len(stack) : y - x = e - d /\ Kept(stack[x], t[y], M)
    BY <1>m, Origin
  <2>2. x # 1 \/ stack[x].at \notin {"enter", "finish"} BY <1>0, <2>1 DEF Fits
  <2>3. OneFrame(x) BY <1>0 DEF StackInv
  <2>4. stack[x].at \notin {"enter", "finish"} BY <2>2, <2>3 DEF OneFrame
  <2> QED BY <2>1, <2>4 DEF Kept
<1>2. ASSUME NEW y \in e + 1 .. Len(t), Going(t[y])
      PROVE  /\ unit'[t[y].inc]
             /\ t[y].at = "checked" => progress'[t[y].inc] \in {"completing", "completed"}
             /\ t[y].at \in {"initial", "finalize"} => WillHave(t[y].inc)
  <2>1. PICK x \in d + 1 .. Len(stack) : y - x = e - d /\ Kept(stack[x], t[y], M)
    BY <1>m, Origin
  <2>2. Going(stack[x]) /\ stack[x].inc \notin M BY <1>2, <2>1, KeptGoing
  <2>3. stack[x].inc = t[y].inc /\ stack[x].at = t[y].at BY <2>1 DEF Kept
  <2>4. OneFrame(x) BY <1>0 DEF StackInv
  <2>5. t[y].at = "checked" => progress[t[y].inc] \in {"completing", "completed"}
    BY <2>2, <2>3, <2>4 DEF OneFrame, Going
  <2>6. t[y].at \in {"initial", "finalize"} => Has(stack[x].inc)
    BY <2>2, <2>3, <2>4 DEF OneFrame, Going
  <2>7. Has(stack[x].inc) => WillHave(stack[x].inc) BY <2>1, <2>2 DEF Fits
  <2>8. WillHave(stack[x].inc) <=> WillHave(t[y].inc) BY <2>3 DEF WillHave
  <2>9. unit'[t[y].inc] BY <2>1, <2>2, <2>3 DEF Fits
  <2>10. t[y].at = "checked" => progress'[t[y].inc] \in {"completing", "completed"}
    BY <2>1, <2>2, <2>3, <2>5 DEF Fits
  <2> QED BY <2>6, <2>7, <2>8, <2>9, <2>10
<1>3. ASSUME NEW y \in DOMAIN t PROVE OneFrame(y)'
  <2>1. CASE y \in e + 1 .. Len(t)
    <3>1. t[y].at \notin {"enter", "finish"} BY <1>1, <2>1
    <3>2. Going(t[y]) =>
            /\ unit'[t[y].inc]
            /\ t[y].at = "checked" => progress'[t[y].inc] \in {"completing", "completed"}
            /\ t[y].at \in {"initial", "finalize"} => WillHave(t[y].inc)
      BY <1>2, <2>1
    <3> QED BY <3>1, <3>2 DEF OneFrame, Going, Within, Has, WillHave, t
  <2>2. CASE y = 1 /\ e > 0
    <3>1. t[y] = f /\ RightFrame(f) BY <1>0, <2>2 DEF Fits
    <3> QED BY <2>2, <3>1 DEF OneFrame, RightFrame, Going, Has, WillHave, t
  <2>3. CASE y = 2 /\ e = 2
    <3>1. t[y].at = "count" BY <1>0, <2>3 DEF Fits
    <3> QED BY <3>1 DEF OneFrame, Going, Within, t
  <2> QED BY <1>0, <2>1, <2>2, <2>3
<1>4. ASSUME NEW v \in DOMAIN t, NEW y \in DOMAIN t, v < y, t[v].inc = t[y].inc,
             Overtakes(t[v]), Going(t[y])
      PROVE  FALSE
  <2>1. y \in e + 1 .. Len(t)
    <3>1. y # 2 \/ e # 2 BY <1>0, <1>4 DEF Fits, Going, Within
    <3> QED BY <1>0, <1>4, <3>1
  <2>2. PICK x \in d + 1 .. Len(stack) : y - x = e - d /\ Kept(stack[x], t[y], M)
    BY <1>m, <2>1, Origin
  <2>3. Going(stack[x]) /\ stack[x].inc \notin M BY <1>4, <2>2, KeptGoing
  <2>4. stack[x].inc = t[y].inc BY <2>2 DEF Kept
  <2>o. \A u \in DOMAIN stack : u < x /\ stack[u].inc = stack[x].inc => ~Overtakes(stack[u])
    BY <1>0, <2>2, <2>3 DEF StackInv, Overtaken, Overtakes
  <2>5. CASE v \in e + 1 .. Len(t)
    <3>1. PICK u \in d + 1 .. Len(stack) : v - u = e - d /\ Kept(stack[u], t[v], M)
      BY <1>m, <2>5, Origin
    <3>2. u < x /\ u \in DOMAIN stack BY <1>0, <1>4, <2>2, <3>1
    <3>3. stack[u].inc = stack[x].inc /\ Overtakes(stack[u])
      BY <1>4, <2>4, <3>1 DEF Kept, Overtakes
    <3> QED BY <2>o, <3>2, <3>3
  <2>6. CASE v = 1 /\ e > 0
    <3>1. t[v] = f BY <1>0, <2>6
    <3>2. d = 1 /\ stack[1].inc = f.inc /\ Overtakes(stack[1])
      BY <1>4, <2>3, <2>4, <2>6, <3>1 DEF Fits
    <3>3. 1 < x /\ 1 \in DOMAIN stack BY <1>0, <2>2, <3>2
    <3> QED BY <1>4, <2>4, <2>o, <3>1, <3>2, <3>3
  <2>7. CASE v = 2 /\ e = 2
    BY <1>0, <1>4, <2>7 DEF Fits, Overtakes, Within
  <2> QED BY <1>0, <2>5, <2>6, <2>7
<1>5. Overtaken' BY <1>4 DEF Overtaken, Overtakes, t
<1>6. \A y \in DOMAIN stack' : OneFrame(y)' BY <1>3 DEF t
<1>7. stack' \in Seq(FrameType) BY <1>0 DEF t
<1> QED BY <1>5, <1>6, <1>7 DEF StackInv

-----------------------------------------------------------------------------
(* The actions that leave units, list and waiting alone.                   *)

Typed ==
  /\ status' \in [Incubators -> Statuses]
  /\ progress' \in [Incubators -> {"execute", "created", "completing", "completed"}]
  /\ errors' \in [Incubators -> BOOLEAN] /\ result' \in [Incubators -> BOOLEAN]
  /\ finalized' \in [Incubators -> BOOLEAN] /\ inside' \in [Incubators -> BOOLEAN]
  /\ calls' \in 0 .. MaxCalls
MadeKept ==
  \A i \in Incubators : (Made(i) => Made(i)') /\ (Has(i) => WillHave(i))
QuietFits(d, e, f, g, M) ==
  /\ Typed /\ MadeKept /\ Fits(d, e, f, g, M)
  /\ UNCHANGED <<unit, async, waitingOnMe, list, creations, owner, exists>>
  /\ e = 2 => ~Heavy(f)
  /\ (d = 1 /\ Heavy(stack[1])) <=> (e > 0 /\ Heavy(f)) \/ e = 2
  /\ d = 1 => stack[1].at # "clear"
  /\ \A i \in Incubators : status'[i] # status[i] => unit[i] /\ status'[i] # "null"
QuietSync(d, e, f, g, M) ==
  /\ \A x \in DOMAIN stack :
       /\ Steady(stack[x]) /\ unit[stack[x].inc] /\ ~async[stack[x].inc]
       /\ x <= d \/ stack[x].inc \in M
       => e > 0 /\ Steady(f) /\ f.inc = stack[x].inc
  /\ e > 0 => FrameSync(f)
Quietly ==
  \E d, e, f, g, M :
    QuietFits(d, e, f, g, M) /\ (SyncInv /\ ClearsOnce => QuietSync(d, e, f, g, M))

LEMMA MadeSame ==
  ASSUME UNCHANGED <<status, progress, errors, unit, result, finalized>>
  PROVE  MadeKept
BY DEF MadeKept, Made, Has, WillHave

LEMMA UnitsFinite ==
  IsFiniteSet(Units) /\ Cardinality(Units) \in Nat
<1>1. Units \in SUBSET Incubators BY DEF Units
<1>2. IsFiniteSet(Units) BY <1>1, IncubatorAssumption, FS_Subset
<1> QED BY <1>2, FS_CardinalityType

\* clear() frames stay, but for the top one where it is dropped.
LEMMA ClearStays ==
  ASSUME NEW d, NEW e, NEW f, NEW g, NEW M, Moves(stack, stack', d, e, f, g, M),
         NEW x \in DOMAIN stack, x > d, stack[x].at = "clear"
  PROVE  \E y \in DOMAIN stack' :
           /\ stack'[y].at = "clear" /\ stack'[y].inc = stack[x].inc
           /\ stack'[y].was = stack[x].was
<1>1. x \in d + 1 .. Len(stack) BY DEF Moves
<1>2. PICK y \in e + 1 .. Len(stack') : y - x = e - d /\ Kept(stack[x], stack'[y], M)
  BY <1>1, Destination
<1>3. y \in DOMAIN stack' BY <1>2 DEF Moves
<1> QED BY <1>2, <1>3 DEF Kept

LEMMA QuietKeeps ==
  ASSUME IInv, Quietly
  PROVE  IInv'
<1>1. PICK d, e, f, g, M : QuietFits(d, e, f, g, M) BY DEF Quietly
<1>2. Moves(stack, stack', d, e, f, g, M) BY <1>1 DEF QuietFits, Fits
<1>3. StackInv' BY <1>1, FitsKeeps DEF QuietFits, IInv, StackInv
<1>4. TypeOK'
  <2>1. \A x \in DOMAIN stack' : stack'[x].at \in Positions /\ stack'[x].inc \in Incubators
    <3>1. \A x \in DOMAIN stack' : stack'[x] \in FrameType BY <1>3 DEF StackInv
    <3> QED BY <3>1 DEF FrameType
  <2> QED BY <1>1, <2>1 DEF QuietFits, Typed, Statuses, IInv, TypeOK
<1>5. creations' >= Cardinality(Units') + Weight(stack')
  <2>1. PICK k : Weighs(stack, stack', d, e, f, g, k) BY <1>2, MovesWeigh
  <2>2. e \in 0 .. 2 /\ d \in 0 .. 1 BY <1>2 DEF Moves
  <2>3. Weight(stack') = Weight(stack)
    <3>1. e = 2 => ~Heavy(f) BY <1>1 DEF QuietFits
    <3>2. Heavy(g) \/ e # 2 BY <1>1 DEF QuietFits, Fits, Heavy
    <3>3. (d = 1 /\ Heavy(stack[1])) <=> (e > 0 /\ Heavy(f)) \/ e = 2
      BY <1>1 DEF QuietFits
    <3> QED BY <2>1, <2>2, <3>1, <3>2, <3>3 DEF Weighs
  <2>4. Units' = Units /\ creations' = creations BY <1>1 DEF QuietFits, Units
  <2> QED BY <2>3, <2>4 DEF IInv
<1>6. ASSUME NEW i \in Incubators PROVE OneIncubator(i)'
  <2>1. OneIncubator(i) BY DEF IInv
  <2>2. status'[i] = "loading" /\ ~unit'[i] =>
          \E y \in DOMAIN stack' :
            stack'[y].at = "clear" /\ stack'[y].inc = i /\ stack'[y].was = "loading"
    <3>1. SUFFICES ASSUME status'[i] = "loading", ~unit'[i]
                   PROVE  \E y \in DOMAIN stack' : /\ stack'[y].at = "clear"
                            /\ stack'[y].inc = i /\ stack'[y].was = "loading"
      OBVIOUS
    <3>2. status[i] = "loading" /\ ~unit[i] BY <1>1, <3>1 DEF QuietFits
    <3>3. PICK x \in DOMAIN stack :
            stack[x].at = "clear" /\ stack[x].inc = i /\ stack[x].was = "loading"
      BY <2>1, <3>2 DEF OneIncubator
    <3>4. x > d
      <4>1. x # 1 \/ d # 1 BY <1>1, <3>3 DEF QuietFits
      <4> QED BY <1>2, <4>1 DEF Moves
    <3> QED BY <1>2, <3>3, <3>4, ClearStays
  <2>3. UNCHANGED <<unit, async, waitingOnMe, list, creations, owner, exists>>
    BY <1>1 DEF QuietFits
  <2>4. Listed(i)' BY <2>1, <2>3 DEF OneIncubator, Listed, In
  <2>5. Made(i)' BY <1>1, <2>1 DEF QuietFits, MadeKept, OneIncubator
  <2> QED BY <2>2, <2>4, <2>5 DEF OneIncubator
<1>7. Once(list)' BY <1>1 DEF QuietFits, IInv, Once
<1> QED BY <1>3, <1>4, <1>5, <1>6, <1>7 DEF IInv, StackInv

LEMMA QuietSyncs ==
  ASSUME IInv, SyncInv, ClearsOnce, Quietly
  PROVE  SyncInv'
<1>1. PICK d, e, f, g, M : QuietFits(d, e, f, g, M) /\ QuietSync(d, e, f, g, M)
  BY DEF Quietly
<1>2. Moves(stack, stack', d, e, f, g, M) BY <1>1 DEF QuietFits, Fits
<1>3. UNCHANGED <<unit, async, waitingOnMe, list, creations, owner, exists>>
  BY <1>1 DEF QuietFits
<1>4. /\ d \in 0 .. 1 /\ e \in 0 .. 2 /\ Len(stack) \in Nat /\ Len(stack') \in Nat
      /\ DOMAIN stack = 1 .. Len(stack) /\ DOMAIN stack' = 1 .. Len(stack')
      /\ Len(stack') = Len(stack) - d + e
      /\ e > 0 => stack'[1] = f
      /\ e = 2 => stack'[2] = g
  BY <1>2 DEF Moves
<1>5. ASSUME NEW i \in Incubators PROVE OneSync(i)'
  <2>1. OneSync(i) BY DEF SyncInv
  <2>2. status'[i] = "null" => ~unit'[i] BY <1>1, <1>3, <2>1 DEF QuietFits, OneSync
  <2>3. Clearing(waitingOnMe[i]) => Clearing(waitingOnMe[i])'
    <3>1. SUFFICES ASSUME Clearing(waitingOnMe[i]) PROVE Clearing(waitingOnMe[i])' OBVIOUS
    <3>2. PICK x \in DOMAIN stack : stack[x].at = "clear" /\ stack[x].inc = waitingOnMe[i]
      BY <3>1 DEF Clearing
    <3>3. x > d
      <4>1. x # 1 \/ d # 1 BY <1>1, <3>2 DEF QuietFits
      <4> QED BY <1>4, <4>1
    <3>4. PICK y \in DOMAIN stack' : stack'[y].at = "clear" /\ stack'[y].inc = stack[x].inc
      BY <1>2, <3>2, <3>3, ClearStays
    <3> QED BY <1>3, <3>2, <3>4 DEF Clearing
  <2>f. waitingOnMe[i] # NoIncubator /\ Failed(waitingOnMe[i]) => Failed(waitingOnMe[i])'
    <3>1. waitingOnMe[i] \in Incubators \cup {NoIncubator} BY DEF IInv, TypeOK
    <3> QED BY <1>1, <1>3, <3>1 DEF QuietFits, Failed
  <2>4. unit'[i] /\ ~async'[i] =>
          \E y \in DOMAIN stack' : stack'[y].inc = i /\ Steady(stack'[y])
    <3>1. SUFFICES ASSUME unit[i], ~async[i]
                   PROVE  \E y \in DOMAIN stack' : stack'[y].inc = i /\ Steady(stack'[y])
      BY <1>3
    <3>2. PICK x \in DOMAIN stack : stack[x].inc = i /\ Steady(stack[x])
      BY <2>1, <3>1 DEF OneSync
    <3>3. CASE x <= d \/ i \in M
      <4>1. e > 0 /\ Steady(f) /\ f.inc = i BY <1>1, <3>1, <3>2, <3>3 DEF QuietSync
      <4>2. 1 \in DOMAIN stack' /\ stack'[1] = f BY <1>2, <1>4, <4>1 DEF Moves
      <4> QED BY <4>1, <4>2
    <3>4. CASE x > d /\ i \notin M
      <4>1. x \in d + 1 .. Len(stack) BY <1>4, <3>4
      <4>2. PICK y \in e + 1 .. Len(stack') : y - x = e - d /\ Kept(stack[x], stack'[y], M)
        BY <1>2, <4>1, Destination
      <4>3. Watched(stack[x]) \notin M BY <3>2, <3>4 DEF Watched, Steady, Within
      <4>4. y \in DOMAIN stack' BY <1>4, <4>2
      <4> QED BY <3>2, <4>2, <4>3, <4>4 DEF Kept, Steady
    <3> QED BY <1>4, <3>3, <3>4
  <2>5. waitingOnMe'[i] # NoIncubator =>
          \/ unit'[waitingOnMe'[i]] /\ async'[waitingOnMe'[i]]
          \/ Clearing(waitingOnMe[i])' \/ Failed(waitingOnMe[i])'
    BY <1>3, <2>1, <2>3, <2>f DEF OneSync
  <2>6. In(list', i) => async'[i] BY <1>3, <2>1 DEF OneSync
  <2> QED BY <2>2, <2>4, <2>5, <2>6 DEF OneSync, In
<1>6. ASSUME NEW y \in DOMAIN stack' PROVE FrameSync(stack[y])'
  <2>1. CASE y \in e + 1 .. Len(stack')
    <3>1. PICK x \in d + 1 .. Len(stack) : y - x = e - d /\ Kept(stack[x], stack'[y], M)
      BY <1>2, <2>1, Origin
    <3>2. FrameSync(stack[x]) BY <1>4, <3>1 DEF SyncInv
    <3> QED BY <1>3, <3>1, <3>2 DEF FrameSync, Kept
  <2>2. CASE y = 1 /\ e > 0
    <3>1. stack'[y] = f /\ FrameSync(f) BY <1>1, <1>4, <2>2 DEF QuietSync
    <3> QED BY <1>3, <3>1 DEF FrameSync
  <2>3. CASE y = 2 /\ e = 2
    <3>1. stack'[y].at = "count" BY <1>1, <1>4, <2>3 DEF QuietFits, Fits
    <3> QED BY <3>1 DEF FrameSync
  <2> QED BY <1>4, <2>1, <2>2, <2>3
<1> QED BY <1>5, <1>6 DEF SyncInv

\* One frame is popped, replaced, or pushed.
Same == UNCHANGED <<unit, async, waitingOnMe, list, creations, owner, exists>>
StatusKept ==
  \A i \in Incubators : status'[i] # status[i] => unit[i] /\ status'[i] # "null"
NotSync(i) == SyncInv /\ ClearsOnce => ~unit[i] \/ async[i]

LEMMA TopFrame ==
  ASSUME IInv, stack # <<>>
  PROVE  /\ stack \in Seq(FrameType) /\ Top = stack[1] /\ Rest = Tail(stack)
         /\ stack[1] \in FrameType /\ stack[1].inc \in Incubators
         /\ 1 \in DOMAIN stack /\ DOMAIN stack = 1 .. Len(stack) /\ Len(stack) \in Nat \ {0}
         /\ Rest \in Seq(FrameType)
         /\ OneFrame(1)
         /\ Overtakes(stack[1]) =>
              \A x \in 2 .. Len(stack) : stack[x].inc = stack[1].inc => ~Going(stack[x])
<1>1. stack \in Seq(FrameType) BY DEF IInv
<1>2. /\ Top = stack[1] /\ 1 \in DOMAIN stack /\ DOMAIN stack = 1 .. Len(stack)
      /\ Len(stack) \in Nat \ {0} /\ Rest \in Seq(FrameType) /\ stack[1] \in FrameType
  BY <1>1, Popped DEF Top, Rest
<1>3. stack[1].inc \in Incubators BY <1>2 DEF FrameType
<1>4. OneFrame(1) BY <1>2 DEF IInv
<1>5. ASSUME Overtakes(stack[1]), NEW x \in 2 .. Len(stack), stack[x].inc = stack[1].inc
      PROVE  ~Going(stack[x])
  BY <1>2, <1>5 DEF IInv, Overtaken, Overtakes
<1> QED BY <1>1, <1>2, <1>3, <1>4, <1>5 DEF Rest

LEMMA PopQuiet ==
  ASSUME IInv, stack # <<>>, stack' = Rest, Typed, Same, StatusKept, MadeKept,
         progress' = progress,
         stack[1].at \notin {"clear", "ended", "count"},
         Steady(stack[1]) => NotSync(stack[1].inc)
  PROVE  Quietly
<1>1. stack \in Seq(FrameType) /\ DOMAIN stack = 1 .. Len(stack) /\ Rest = Tail(stack)
  BY TopFrame
<1> DEFINE f == stack[1]
<1> HIDE DEF f
<1>2. Moves(stack, stack', 1, 0, f, f, {}) BY <1>1, PopMoves DEF f
<1>3. ASSUME NEW x \in 1 + 1 .. Len(stack), Going(stack[x])
      PROVE  /\ unit'[stack[x].inc] /\ progress'[stack[x].inc] = progress[stack[x].inc]
             /\ Has(stack[x].inc) => WillHave(stack[x].inc)
  <2>1. OneFrame(x) BY <1>1 DEF IInv
  <2>2. stack[x].inc \in Incubators BY <1>1 DEF IInv, TypeOK
  <2>3. Has(stack[x].inc) => WillHave(stack[x].inc) BY <2>2 DEF MadeKept
  <2> QED BY <1>3, <2>1, <2>3 DEF OneFrame, Same
<1>4. Fits(1, 0, f, f, {}) BY <1>2, <1>3 DEF Fits
<1>5. QuietFits(1, 0, f, f, {}) BY <1>4 DEF QuietFits, Same, StatusKept, Heavy
<1>6. ASSUME SyncInv, ClearsOnce PROVE QuietSync(1, 0, f, f, {})
  <2>1. ASSUME NEW x \in DOMAIN stack, Steady(stack[x]), unit[stack[x].inc],
               ~async[stack[x].inc], x <= 1
        PROVE  FALSE
    <3>1. x = 1 BY <1>1, <2>1
    <3> QED BY <1>6, <2>1, <3>1 DEF NotSync
  <2> QED BY <2>1 DEF QuietSync
<1> QED BY <1>5, <1>6 DEF Quietly

LEMMA ReplaceQuiet ==
  ASSUME IInv, stack # <<>>, NEW f \in FrameType, NEW M, NEW r, MarkedBy(Rest, r, M),
         stack' = <<f>> \o r, Typed, Same, StatusKept, MadeKept,
         f.inc = stack[1].inc, M \subseteq {f.inc},
         \A i \in Incubators \ {f.inc} : progress'[i] = progress[i],
         Overtakes(stack[1]) \/ f.inc \in M \/ (~Overtakes(f) /\ progress' = progress),
         stack[1].at \notin {"clear", "ended", "count"}, ~Heavy(f), RightFrame(f),
         f.at \notin {"clear", "ended"},
         Steady(stack[1]) \/ M # {} => Steady(f) \/ NotSync(f.inc),
         f.at = "enter" /\ f.interrupts => NotSync(f.inc)
  PROVE  Quietly
<1>1. /\ stack \in Seq(FrameType) /\ DOMAIN stack = 1 .. Len(stack) /\ Len(stack) \in Nat
      /\ Rest = Tail(stack)
      /\ stack[1].inc \in Incubators
      /\ Overtakes(stack[1]) =>
           \A x \in 2 .. Len(stack) : stack[x].inc = stack[1].inc => ~Going(stack[x])
  BY TopFrame
<1>2. Moves(stack, stack', 1, 1, f, f, M) BY <1>1, ReplaceMoves
<1>3. ASSUME NEW x \in 1 + 1 .. Len(stack), Going(stack[x]), stack[x].inc \notin M
      PROVE  /\ unit'[stack[x].inc] /\ progress'[stack[x].inc] = progress[stack[x].inc]
             /\ Has(stack[x].inc) => WillHave(stack[x].inc)
  <2>1. OneFrame(x) BY <1>1 DEF IInv
  <2>2. stack[x].inc \in Incubators
    <3>1. stack[x] \in FrameType BY <1>1
    <3> QED BY <3>1 DEF FrameType
  <2>3. stack[x].inc # f.inc \/ progress' = progress BY <1>1, <1>3
  <2>4. progress'[stack[x].inc] = progress[stack[x].inc] BY <2>2, <2>3
  <2>5. unit'[stack[x].inc] BY <1>3, <2>1 DEF OneFrame, Same
  <2>6. Has(stack[x].inc) => WillHave(stack[x].inc) BY <2>2 DEF MadeKept
  <2> QED BY <2>4, <2>5, <2>6
<1>4. Fits(1, 1, f, f, M)
  <2>1. Overtakes(f) => f.inc \in M \/ (stack[1].inc = f.inc /\ Overtakes(stack[1])) OBVIOUS
  <2> QED BY <1>2, <1>3, <2>1 DEF Fits
<1>5. QuietFits(1, 1, f, f, M) BY <1>4 DEF QuietFits, Same, StatusKept, Heavy
<1>6. ASSUME SyncInv, ClearsOnce PROVE QuietSync(1, 1, f, f, M)
  <2>1. ASSUME NEW x \in DOMAIN stack, Steady(stack[x]), unit[stack[x].inc],
               ~async[stack[x].inc], x <= 1 \/ stack[x].inc \in M
        PROVE  Steady(f) /\ f.inc = stack[x].inc
    <3>1. x = 1 \/ (M # {} /\ stack[x].inc = f.inc) BY <1>1, <2>1
    <3>2. stack[x].inc = f.inc BY <3>1
    <3>3. Steady(f) \/ NotSync(f.inc) BY <2>1, <3>1
    <3> QED BY <1>6, <2>1, <3>2, <3>3 DEF NotSync
  <2>2. FrameSync(f) BY <1>6 DEF FrameSync, NotSync
  <2> QED BY <2>1, <2>2 DEF QuietSync
<1> QED BY <1>5, <1>6 DEF Quietly

LEMMA PushQuiet ==
  ASSUME IInv, NEW f \in FrameType, stack' = <<f>> \o stack, Typed, Same, MadeKept,
         status' = status, progress' = progress,
         stack = <<>> \/ stack[1].at \notin {"enter", "finish"},
         f.at \in {"enter", "force"}, ~f.callback, ~f.recursed,
         f.at = "enter" /\ f.interrupts => NotSync(f.inc)
  PROVE  Quietly
<1>1. stack \in Seq(FrameType) /\ DOMAIN stack = 1 .. Len(stack) BY DEF IInv
<1>2. MarkedBy(stack, stack, {}) BY <1>1, MarkedNone
<1>3. Moves(stack, stack', 0, 1, f, f, {}) BY <1>1, <1>2, PushMoves
<1>4. ASSUME NEW x \in 0 + 1 .. Len(stack), Going(stack[x])
      PROVE  unit'[stack[x].inc] /\ (Has(stack[x].inc) => WillHave(stack[x].inc))
  <2>1. x \in DOMAIN stack BY <1>1
  <2>2. OneFrame(x) BY <2>1 DEF IInv
  <2>3. stack[x].inc \in Incubators BY <2>1 DEF IInv, TypeOK
  <2>4. Has(stack[x].inc) => WillHave(stack[x].inc) BY <2>3 DEF MadeKept
  <2> QED BY <1>4, <2>2, <2>4 DEF OneFrame, Same
<1>5. RightFrame(f) /\ ~Overtakes(f) /\ ~Heavy(f)
  BY DEF RightFrame, Going, Overtakes, Within, Heavy
<1>6. Fits(0, 1, f, f, {}) BY <1>3, <1>4, <1>5 DEF Fits
<1>7. QuietFits(0, 1, f, f, {}) BY <1>5, <1>6 DEF QuietFits, Same, Heavy
<1>8. ASSUME SyncInv, ClearsOnce PROVE QuietSync(0, 1, f, f, {})
  <2>1. \A x \in DOMAIN stack : ~(x <= 0) BY <1>1
  <2>2. FrameSync(f) BY <1>8 DEF FrameSync, NotSync
  <2> QED BY <2>1, <2>2 DEF QuietSync
<1> QED BY <1>7, <1>8 DEF Quietly

\* The quiet actions, one by one.
LEMMA EnterQuiet ==
  ASSUME IInv, Enter
  PROVE  Quietly
<1>0. /\ stack # <<>> /\ Top = stack[1] /\ stack[1].at = "enter" /\ stack[1] \in FrameType
      /\ stack[1].inc \in Incubators /\ OneFrame(1) /\ 1 \in DOMAIN stack
      /\ Rest \in Seq(FrameType)
  BY TopFrame DEF Enter, At
<1>1. Same /\ StatusKept BY DEF Enter, Same, StatusKept
<1>2. ~stack[1].callback /\ ~stack[1].recursed BY <1>0 DEF OneFrame
<1>t. Typed
  <2>1. finalized' \in [Incubators -> BOOLEAN] /\ inside' \in [Incubators -> BOOLEAN]
    <3>1. CASE UNCHANGED contexts BY <3>1 DEF contexts, IInv, TypeOK
    <3>2. CASE Begins(stack[1].inc)
      <4>1. \A j \in Incubators : (inside[j] /\ Parent(j) # stack[1].inc) \in BOOLEAN
        OBVIOUS
      <4> QED BY <1>0, <3>2, <4>1 DEF Begins, IInv, TypeOK
    <3> QED BY <1>0, <3>1, <3>2 DEF Enter
  <2> QED BY <1>0, <2>1 DEF Enter, Typed, IInv, TypeOK, Statuses
<1>m. MadeKept
  <2>0. UNCHANGED <<status, unit>> BY DEF Enter
  <2>1. CASE UNCHANGED <<progress, errors, result, finalized>> BY <2>0, <2>1, MadeSame
  <2>2. CASE /\ unit[stack[1].inc] /\ progress[stack[1].inc] = "execute"
             /\ Begins(stack[1].inc) /\ UNCHANGED <<progress, errors, result>>
    <3>1. /\ \A i \in Incubators \ {stack[1].inc} : finalized'[i] = finalized[i]
      BY <2>2 DEF Begins, IInv, TypeOK
    <3> QED BY <2>0, <2>2, <3>1 DEF MadeKept, Made, Has, WillHave
  <2>3. CASE /\ unit[stack[1].inc] /\ errors' = [errors EXCEPT ![stack[1].inc] = TRUE]
             /\ progress' = [progress EXCEPT ![stack[1].inc] = "completed"]
             /\ finalized' = finalized
             /\ result' = result \/ result' = [result EXCEPT ![stack[1].inc] = FALSE]
    <3>1. /\ errors'[stack[1].inc]
          /\ \A i \in Incubators \ {stack[1].inc} :
               /\ progress'[i] = progress[i] /\ errors'[i] = errors[i]
               /\ result'[i] = result[i]
      BY <1>0, <2>3 DEF IInv, TypeOK
    <3> QED BY <2>0, <2>3, <3>1 DEF MadeKept, Made, Has, WillHave
  <2> QED BY <1>0, <2>1, <2>2, <2>3 DEF Enter, contexts
<1>3. CASE ~unit[stack[1].inc]
  <2>1. stack' = Rest /\ progress' = progress BY <1>0, <1>3 DEF Enter, Return
  <2> QED BY <1>0, <1>1, <1>3, <1>t, <1>m, <2>1, PopQuiet DEF NotSync
<1>4. CASE unit[stack[1].inc]
  <2>1. PICK at \in {"create", "finalize", "finish"} :
          /\ stack' = <<[stack[1] EXCEPT !.at = at]>> \o Recurse(stack[1].inc, Rest)
          /\ \A i \in Incubators \ {stack[1].inc} : progress'[i] = progress[i]
          /\ at = "finish" => progress'[stack[1].inc] = "completed"
          /\ at = "finalize" => progress[stack[1].inc] = "completing"
    <3>1. CASE /\ progress' = progress
               /\ stack' = <<[stack[1] EXCEPT !.at =
                               CASE progress[stack[1].inc] = "execute" -> "create"
                                 [] progress[stack[1].inc] = "created" -> "create"
                                 [] progress[stack[1].inc] = "completing" -> "finalize"
                                 [] OTHER -> "finish"]>> \o Recurse(stack[1].inc, Rest)
      <4>1. progress[stack[1].inc] \in {"execute", "created", "completing", "completed"}
        BY <1>0 DEF IInv, TypeOK
      <4>2. CASE progress[stack[1].inc] \in {"execute", "created"}
        <5>1. stack' = <<[stack[1] EXCEPT !.at = "create"]>> \o Recurse(stack[1].inc, Rest)
          BY <3>1, <4>2
        <5> QED BY <3>1, <5>1
      <4>3. CASE progress[stack[1].inc] = "completing"
        <5>1. stack' = <<[stack[1] EXCEPT !.at = "finalize"]>> \o Recurse(stack[1].inc, Rest)
          BY <3>1, <4>3
        <5> QED BY <3>1, <4>3, <5>1
      <4>4. CASE progress[stack[1].inc] = "completed"
        <5>1. stack' = <<[stack[1] EXCEPT !.at = "finish"]>> \o Recurse(stack[1].inc, Rest)
          BY <3>1, <4>4
        <5> QED BY <3>1, <4>4, <5>1
      <4> QED BY <4>1, <4>2, <4>3, <4>4
    <3>2. CASE /\ progress' = [progress EXCEPT ![stack[1].inc] = "completed"]
               /\ stack' = <<[stack[1] EXCEPT !.at = "finish"]>> \o Recurse(stack[1].inc, Rest)
      <4>2. progress \in [Incubators -> {"execute", "created", "completing", "completed"}]
        BY DEF IInv, TypeOK
      <4>3. progress'[stack[1].inc] = "completed" BY <1>0, <3>2, <4>2
      <4>4. \A i \in Incubators \ {stack[1].inc} : progress'[i] = progress[i]
        BY <1>0, <3>2, <4>2
      <4> QED BY <3>2, <4>3, <4>4
    <3> QED BY <1>0, <1>4, <3>1, <3>2 DEF Enter
  <2>2. PICK f : f = [stack[1] EXCEPT !.at = at] OBVIOUS
  <2>3. /\ f \in FrameType /\ f.at = at /\ f.inc = stack[1].inc
        /\ f.interrupts <=> stack[1].interrupts
        /\ ~f.callback /\ ~f.recursed
    BY <1>0, <1>2, <2>2 DEF FrameType, Positions
  <2>4. PICK r : r = Recurse(stack[1].inc, Rest) OBVIOUS
  <2>5. MarkedBy(Rest, r, {f.inc}) BY <1>0, <2>3, <2>4, MarkedOne
  <2>h. at = "finalize" => WillHave(stack[1].inc)
    <3>1. Made(stack[1].inc) BY <1>0 DEF IInv, OneIncubator
    <3> QED BY <1>0, <1>4, <1>m, <2>1, <3>1 DEF Made, MadeKept
  <2>i. WillHave(f.inc) <=> WillHave(stack[1].inc) BY <2>3 DEF WillHave
  <2>6. RightFrame(f) BY <1>1, <1>4, <2>1, <2>3, <2>h, <2>i DEF RightFrame, Same
  <2>7. ~Heavy(f) BY <2>3 DEF Heavy
  <2>8. Steady(f) \/ NotSync(f.inc)
    <3>1. FrameSync(stack[1]) \/ ~SyncInv BY <1>0 DEF SyncInv
    <3> QED BY <1>0, <2>3, <3>1 DEF Steady, NotSync, FrameSync, Within
  <2>9. \A i \in Incubators \ {f.inc} : progress'[i] = progress[i] BY <2>1, <2>3
  <2>10. stack' = <<f>> \o r BY <2>1, <2>2, <2>4
  <2> QED BY <1>0, <1>1, <1>t, <1>m, <2>3, <2>5, <2>6, <2>7, <2>8, <2>9, <2>10, ReplaceQuiet
<1> QED BY <1>3, <1>4

LEMMA CreateQuiet ==
  ASSUME IInv, Create
  PROVE  Quietly
<1>0. /\ stack # <<>> /\ Top = stack[1] /\ stack[1].at = "create" /\ stack[1] \in FrameType
      /\ stack[1].inc \in Incubators /\ OneFrame(1) /\ Rest \in Seq(FrameType)
  BY TopFrame DEF Create, At
<1>1. Same /\ StatusKept BY DEF Create, Same, StatusKept
<1>t. Typed
  <2>1. UNCHANGED <<status, calls, finalized, inside>> BY DEF Create, contexts
  <2> QED BY <1>0, <2>1 DEF Create, Typed, IInv, TypeOK, Statuses
<1>2. CASE stack[1].recursed
  <2>1. stack' = Rest /\ progress' = progress BY <1>0, <1>2 DEF Create, Return
  <2>2. MadeKept BY <1>0, <1>2, MadeSame DEF Create, contexts
  <2> QED BY <1>0, <1>1, <1>2, <1>t, <2>1, <2>2, PopQuiet DEF Steady
<1>3. CASE ~stack[1].recursed
  <2>u. unit[stack[1].inc] BY <1>0, <1>3 DEF OneFrame, Going, Within
  <2>m. MadeKept /\ (stack'[1].at = "initial" => WillHave(stack[1].inc))
    <3>0. UNCHANGED <<status, unit, finalized>> BY DEF Create, contexts
    <3>1. CASE result' = [result EXCEPT ![stack[1].inc] = TRUE] /\ UNCHANGED <<progress, errors>>
      <4>1. result'[stack[1].inc] /\ \A i \in Incubators \ {stack[1].inc} : result'[i] = result[i]
        BY <1>0, <3>1 DEF IInv, TypeOK
      <4> QED BY <2>u, <3>0, <3>1, <4>1 DEF MadeKept, Made, Has, WillHave
    <3>2. CASE errors' = [errors EXCEPT ![stack[1].inc] = TRUE] /\ UNCHANGED <<progress, result>>
      <4>1. errors'[stack[1].inc] /\ \A i \in Incubators \ {stack[1].inc} : errors'[i] = errors[i]
        BY <1>0, <3>2 DEF IInv, TypeOK
      <4> QED BY <2>u, <3>0, <3>2, <4>1 DEF MadeKept, Made, Has, WillHave
    <3>3. CASE /\ progress' = [progress EXCEPT ![stack[1].inc] = "created"]
               /\ Goto("finish") /\ UNCHANGED <<result, errors>>
      <4>1. /\ progress'[stack[1].inc] = "created"
            /\ \A i \in Incubators \ {stack[1].inc} : progress'[i] = progress[i]
        BY <1>0, <3>3 DEF IInv, TypeOK
      <4>2. stack'[1].at # "initial"
        <5>1. PICK h : h = [stack[1] EXCEPT !.at = "finish", !.callback = FALSE] OBVIOUS
        <5>2. h \in FrameType /\ h.at = "finish" BY <1>0, <5>1 DEF FrameType, Positions
        <5>3. stack' = <<h>> \o Rest BY <1>0, <3>3, <5>1 DEF Goto
        <5> QED BY <1>0, <5>2, <5>3, Pushed
      <4> QED BY <2>u, <3>0, <3>3, <4>1, <4>2 DEF MadeKept, Made, Has, WillHave
    <3> QED BY <1>0, <1>3, <3>1, <3>2, <3>3 DEF Create
  <2>1. PICK f \in {[stack[1] EXCEPT !.at = "initial", !.callback = owner[stack[1].inc]],
                    [stack[1] EXCEPT !.at = "initial", !.callback = FALSE],
                    [stack[1] EXCEPT !.at = "finish", !.callback = FALSE]} :
          /\ stack' = <<f>> \o Rest
          /\ f.at = "finish" => stack[1].interrupts
          /\ \A i \in Incubators \ {stack[1].inc} : progress'[i] = progress[i]
    <3>p. progress \in [Incubators -> {"execute", "created", "completing", "completed"}]
      BY DEF IInv, TypeOK
    <3>1. CASE stack' = <<[stack[1] EXCEPT !.at = "initial",
                                           !.callback = owner[stack[1].inc]]>> \o Rest
               /\ progress' = progress
      <4> DEFINE h == [stack[1] EXCEPT !.at = "initial", !.callback = owner[stack[1].inc]]
      <4>1. h.at = "initial" BY <1>0 DEF FrameType
      <4> QED BY <3>1, <4>1
    <3>2. CASE stack' = <<[stack[1] EXCEPT !.at = "initial", !.callback = FALSE]>> \o Rest
               /\ progress' = progress
      <4> DEFINE h == [stack[1] EXCEPT !.at = "initial", !.callback = FALSE]
      <4>1. h.at = "initial" BY <1>0 DEF FrameType
      <4> QED BY <3>2, <4>1
    <3>3. CASE /\ stack' = <<[stack[1] EXCEPT !.at = "finish", !.callback = FALSE]>> \o Rest
               /\ stack[1].interrupts
               /\ progress' = [progress EXCEPT ![stack[1].inc] = "created"]
      BY <3>p, <3>3
    <3> QED BY <1>0, <1>3, <3>1, <3>2, <3>3 DEF Create, Goto
  <2>2. /\ f \in FrameType /\ f.inc = stack[1].inc /\ f.at \in {"initial", "finish"}
        /\ f.interrupts <=> stack[1].interrupts
        /\ ~f.recursed
        /\ f.at = "finish" => ~f.callback
    <3>1. owner[stack[1].inc] \in BOOLEAN BY <1>0 DEF IInv, TypeOK
    <3> QED BY <1>0, <1>3, <2>1, <3>1 DEF FrameType, Positions
  <2>3. unit[stack[1].inc] BY <1>0, <1>3 DEF OneFrame, Going, Within
  <2>h. f.at = "initial" => WillHave(f.inc)
    <3>1. stack'[1] = f BY <1>0, <2>1, <2>2, Pushed
    <3>2. WillHave(f.inc) <=> WillHave(stack[1].inc) BY <2>2 DEF WillHave
    <3> QED BY <2>m, <3>1, <3>2
  <2>4. RightFrame(f) BY <1>1, <2>1, <2>2, <2>3, <2>h DEF RightFrame, Same
  <2>5. ~Heavy(f) BY <2>2 DEF Heavy
  <2>6. MarkedBy(Rest, Rest, {}) BY <1>0, MarkedNone
  <2>7. Steady(stack[1]) => Steady(f) BY <2>2 DEF Steady, Within
  <2>8. Overtakes(stack[1]) BY <1>0 DEF Overtakes, Within
  <2> QED BY <1>0, <1>1, <1>t, <2>m, <2>1, <2>2, <2>4, <2>5, <2>6, <2>7, <2>8, ReplaceQuiet
<1> QED BY <1>2, <1>3

LEMMA InitializedQuiet ==
  ASSUME IInv, Initialized
  PROVE  Quietly
<1>0. /\ stack # <<>> /\ Top = stack[1] /\ stack[1].at = "initial" /\ stack[1] \in FrameType
      /\ stack[1].inc \in Incubators /\ OneFrame(1) /\ Rest \in Seq(FrameType)
  BY TopFrame DEF Initialized, At
<1>1. Same BY DEF Initialized, Same
<1>2. CASE stack[1].recursed
  <2>1. stack' = Rest /\ UNCHANGED <<status, progress, errors, result, calls>>
    BY <1>0, <1>2 DEF Initialized, Return
  <2>2. Typed /\ StatusKept /\ MadeKept
    <3>1. UNCHANGED <<unit, finalized, inside>> BY DEF Initialized, contexts
    <3> QED BY <2>1, <3>1, MadeSame DEF Typed, StatusKept, IInv, TypeOK, Statuses
  <2> QED BY <1>0, <1>1, <1>2, <2>1, <2>2, PopQuiet DEF Steady
<1>3. CASE ~stack[1].recursed
  <2> DEFINE i == stack[1].inc
  <2>1. PICK failed \in {errors[i], TRUE} :
          /\ errors' = [errors EXCEPT ![i] = failed]
          /\ progress' = [progress EXCEPT ![i] = IF failed THEN "completed" ELSE "completing"]
          /\ ChangeStatus([stack[1] EXCEPT !.at = "checked"],
                          CalculateStatus(i, failed, failed, TRUE), Rest)
    BY <1>0, <1>3 DEF Initialized
  <2>2. PICK h : h = [stack[1] EXCEPT !.at = "checked"] OBVIOUS
  <2>3. /\ h \in FrameType /\ h.at = "checked" /\ h.inc = i /\ ~h.recursed
        /\ h.interrupts <=> stack[1].interrupts
    BY <1>0, <1>3, <2>2 DEF FrameType, Positions
  <2>4. PICK s : s = CalculateStatus(i, failed, failed, TRUE) OBVIOUS
  <2>5. s \in {"error", "ready", "loading"} BY <2>4 DEF CalculateStatus
  <2>6. PICK b \in BOOLEAN : b = (owner[i] /\ s # status[i]) OBVIOUS
  <2>7. PICK f : f = [h EXCEPT !.callback = b] OBVIOUS
  <2>8. status' = [status EXCEPT ![i] = s] /\ stack' = <<f>> \o Rest
    BY <2>1, <2>2, <2>3, <2>4, <2>6, <2>7 DEF ChangeStatus
  <2>9. /\ f \in FrameType /\ f.at = "checked" /\ f.inc = i /\ ~f.recursed
        /\ f.interrupts <=> stack[1].interrupts
    BY <2>3, <2>7 DEF FrameType
  <2>10. unit[i] BY <1>0, <1>3 DEF OneFrame, Going, Within
  <2>11. Typed /\ StatusKept
    <3>1. failed \in BOOLEAN BY <1>0, <2>1 DEF IInv, TypeOK
    <3>2. UNCHANGED <<result, calls, finalized, inside>> BY DEF Initialized, contexts
    <3> QED BY <1>0, <2>1, <2>5, <2>8, <2>10, <3>1, <3>2
        DEF Typed, StatusKept, IInv, TypeOK, Statuses
  <2>12. progress'[i] \in {"completing", "completed"}
         /\ \A j \in Incubators \ {i} : progress'[j] = progress[j]
    BY <1>0, <2>1 DEF IInv, TypeOK
  <2>m. MadeKept
    <3>0. PICK n \in Incubators : n = i BY <1>0
    <3>1. UNCHANGED <<unit, result, finalized>> BY DEF Initialized, contexts
    <3>2. errors'[n] = failed /\ \A j \in Incubators \ {n} : errors'[j] = errors[j]
      BY <2>1, <3>0 DEF IInv, TypeOK
    <3>3. status'[n] = s /\ \A j \in Incubators \ {n} : status'[j] = status[j]
      BY <2>8, <3>0 DEF IInv, TypeOK
    <3>4. progress'[n] = "completed" => failed BY <2>1, <3>0 DEF IInv, TypeOK
    <3>5. Has(n) BY <1>0, <1>3, <3>0 DEF OneFrame
    <3>6. s \notin {"null", "ready"} BY <2>4 DEF CalculateStatus
    <3>7. WillHave(n) /\ (result'[n] \/ errors'[n])
      BY <2>1, <3>0, <3>1, <3>2, <3>5 DEF Has, WillHave
    <3>8. Made(n)' BY <2>10, <3>0, <3>1, <3>2, <3>3, <3>4, <3>6, <3>7 DEF Made, Has
    <3>9. ASSUME NEW j \in Incubators \ {n}
          PROVE  (Made(j) => Made(j)') /\ (Has(j) => WillHave(j))
      BY <2>12, <3>0, <3>1, <3>2, <3>3 DEF Made, Has, WillHave
    <3> QED BY <3>7, <3>8, <3>9 DEF MadeKept
  <2>13. RightFrame(f) BY <1>1, <2>9, <2>10, <2>12 DEF RightFrame, Same
  <2>14. ~Heavy(f) BY <2>9 DEF Heavy
  <2>15. MarkedBy(Rest, Rest, {}) BY <1>0, MarkedNone
  <2>16. Steady(stack[1]) => Steady(f) BY <2>9 DEF Steady, Within
  <2>17. Overtakes(stack[1]) BY <1>0 DEF Overtakes, Within
  <2> QED BY <1>0, <1>1, <2>m, <2>8, <2>9, <2>11, <2>12, <2>13, <2>14, <2>15, <2>16, <2>17,
             ReplaceQuiet
<1> QED BY <1>2, <1>3

LEMMA GotoQuiet ==
  ASSUME IInv, stack # <<>>, stack[1].at \in Within, ~stack[1].recursed,
         NEW at \in {"finalize", "finish"}, Goto(at), Typed, Same, StatusKept, MadeKept,
         at = "finalize" => WillHave(stack[1].inc),
         \A i \in Incubators \ {stack[1].inc} : progress'[i] = progress[i],
         at = "finish" => stack[1].interrupts \/ progress'[stack[1].inc] = "completed"
  PROVE  Quietly
<1>0. /\ Top = stack[1] /\ stack[1] \in FrameType
      /\ stack[1].inc \in Incubators /\ OneFrame(1) /\ Rest \in Seq(FrameType)
  BY TopFrame
<1>1. PICK f : f = [stack[1] EXCEPT !.at = at, !.callback = FALSE] OBVIOUS
<1>2. /\ f \in FrameType /\ f.inc = stack[1].inc /\ f.at = at /\ ~f.callback
      /\ f.interrupts <=> stack[1].interrupts
      /\ ~f.recursed
  BY <1>0, <1>1 DEF FrameType, Positions
<1>3. stack' = <<f>> \o Rest BY <1>0, <1>1 DEF Goto
<1>4. unit[stack[1].inc] BY <1>0 DEF OneFrame, Going
<1>h. WillHave(f.inc) <=> WillHave(stack[1].inc) BY <1>2 DEF WillHave
<1>5. RightFrame(f) BY <1>2, <1>4, <1>h DEF RightFrame, Same
<1>6. MarkedBy(Rest, Rest, {}) BY <1>0, MarkedNone
<1>7. (Steady(stack[1]) => Steady(f)) /\ ~Heavy(f) BY <1>2 DEF Steady, Within, Heavy
<1>8. Overtakes(stack[1]) /\ stack[1].at \notin {"clear", "ended", "count"}
  BY DEF Overtakes, Within
<1> QED BY <1>2, <1>3, <1>5, <1>6, <1>7, <1>8, ReplaceQuiet

LEMMA CheckedQuiet ==
  ASSUME IInv, Checked
  PROVE  Quietly
<1>0. stack # <<>> /\ Top = stack[1] /\ stack[1].at = "checked" /\ OneFrame(1)
  BY TopFrame DEF Checked, At
<1>1. Same /\ StatusKept /\ Typed /\ progress' = progress /\ MadeKept
  BY MadeSame DEF Checked, Same, StatusKept, Typed, incubation, contexts, IInv, TypeOK, Statuses
<1>2. CASE stack[1].recursed
  <2>1. stack' = Rest BY <1>0, <1>2 DEF Checked, Return, Goto
  <2> QED BY <1>0, <1>1, <1>2, <2>1, PopQuiet DEF Steady
<1>3. CASE ~stack[1].recursed
  <2>1. progress[stack[1].inc] \in {"completing", "completed"} BY <1>0, <1>3 DEF OneFrame
  <2>2. PICK at \in {"finalize", "finish"} :
          /\ Goto(at)
          /\ at = "finish" => stack[1].interrupts \/ progress'[stack[1].inc] = "completed"
          /\ at = "finalize" => progress[stack[1].inc] = "completing"
    BY <1>0, <1>1, <1>3, <2>1 DEF Checked
  <2>3. at = "finalize" => WillHave(stack[1].inc)
    <3>1. unit[stack[1].inc] /\ stack[1].inc \in Incubators
      BY <1>0, <1>3, TopFrame DEF OneFrame, Going, Within
    <3>2. Made(stack[1].inc) BY <3>1 DEF IInv, OneIncubator
    <3> QED BY <1>1, <2>2, <3>1, <3>2 DEF Made, MadeKept
  <2> QED BY <1>0, <1>1, <1>3, <2>2, <2>3, GotoQuiet DEF Within
<1> QED BY <1>2, <1>3

LEMMA FinalizeQuiet ==
  ASSUME IInv, Finalize
  PROVE  Quietly
<1>0. /\ stack # <<>> /\ Top = stack[1] /\ stack[1].at = "finalize" /\ stack[1].inc \in Incubators
      /\ OneFrame(1)
  BY TopFrame DEF Finalize, At
<1>1. Same /\ StatusKept /\ Typed
  BY <1>0 DEF Finalize, Same, StatusKept, Typed, IInv, TypeOK, Statuses
<1>2. CASE stack[1].recursed
  <2>1. stack' = Rest /\ UNCHANGED <<status, progress, errors, unit, result, finalized>>
    BY <1>0, <1>2 DEF Finalize, Return
  <2>2. MadeKept BY <2>1, MadeSame
  <2> QED BY <1>0, <1>1, <1>2, <2>1, <2>2, PopQuiet DEF Steady
<1>3. CASE ~stack[1].recursed
  <2>1. progress \in [Incubators -> {"execute", "created", "completing", "completed"}]
    BY DEF IInv, TypeOK
  <2>2. /\ Goto("finish") /\ \A i \in Incubators \ {stack[1].inc} : progress'[i] = progress[i]
        /\ stack[1].interrupts \/ progress'[stack[1].inc] = "completed"
    BY <1>0, <1>3, <2>1 DEF Finalize
  <2>3. MadeKept
    <3>0. UNCHANGED <<status, errors, unit, result>> BY DEF Finalize
    <3>1. CASE UNCHANGED <<progress, finalized>> BY <3>0, <3>1, MadeSame
    <3>2. CASE /\ finalized' = [finalized EXCEPT ![stack[1].inc] = TRUE]
               /\ progress' = [progress EXCEPT ![stack[1].inc] = "completed"]
      <4>1. /\ finalized'[stack[1].inc] /\ progress'[stack[1].inc] = "completed"
            /\ \A i \in Incubators \ {stack[1].inc} :
                 finalized'[i] = finalized[i] /\ progress'[i] = progress[i]
        BY <1>0, <3>2 DEF IInv, TypeOK
      <4>2. Has(stack[1].inc) /\ unit[stack[1].inc]
        BY <1>0, <1>3 DEF OneFrame, Going, Within
      <4> QED BY <3>0, <4>1, <4>2 DEF MadeKept, Made, Has, WillHave
    <3> QED BY <1>0, <1>3, <3>1, <3>2 DEF Finalize
  <2> QED BY <1>0, <1>1, <1>3, <2>2, <2>3, GotoQuiet DEF Within
<1> QED BY <1>2, <1>3

\* incubate() that ends without having completed anything.
FinishWaits ==
  Finish /\ ~(progress[Top.inc] = "completed" /\ WaitingFor(Top.inc) = {})
LEMMA FinishQuiet ==
  ASSUME IInv, FinishWaits
  PROVE  Quietly
<1>0. /\ stack # <<>> /\ Top = stack[1] /\ stack[1].at = "finish" /\ stack[1].inc \in Incubators
      /\ OneFrame(1)
  BY TopFrame DEF FinishWaits, Finish, At
<1>1. stack' = Rest /\ Same /\ StatusKept /\ Typed /\ progress' = progress /\ MadeKept
  BY MadeSame DEF FinishWaits, Finish, Return, Same, StatusKept, Typed, contexts, IInv, TypeOK,
     Statuses
<1>2. ASSUME Steady(stack[1]), SyncInv, ClearsOnce, ~async[stack[1].inc], unit[stack[1].inc]
      PROVE  FALSE
  <2>1. progress[stack[1].inc] = "completed" BY <1>0, <1>2 DEF OneFrame, Steady
  <2>2. PICK j \in Incubators : waitingOnMe[j] = stack[1].inc
    BY <1>0, <2>1 DEF FinishWaits, WaitingFor
  <2>3. Clearing(stack[1].inc)
    BY <1>0, <1>2, <2>2, IncubatorAssumption DEF SyncInv, OneSync, Failed
  <2> QED BY <1>2, <2>3 DEF Clearing, ClearsOnce
<1>3. Steady(stack[1]) => NotSync(stack[1].inc) BY <1>2 DEF NotSync
<1> QED BY <1>0, <1>1, <1>3, PopQuiet

LEMMA StartedQuiet ==
  ASSUME IInv, Started
  PROVE  Quietly
<1>0. /\ stack # <<>> /\ Top = stack[1] /\ stack[1].at = "starting" /\ Rest \in Seq(FrameType)
      /\ stack[1].inc \in Incubators
  BY TopFrame DEF Started, At
<1>1. Same /\ StatusKept /\ Typed /\ progress' = progress /\ MadeKept
  BY MadeSame DEF Started, Same, StatusKept, Typed, incubation, contexts, IInv, TypeOK, Statuses
<1>2. CASE stack[1].recursed
  <2>1. stack' = Rest BY <1>0, <1>2 DEF Started
  <2> QED BY <1>0, <1>1, <1>2, <2>1, PopQuiet DEF Steady
<1>3. CASE ~stack[1].recursed
  <2>1. PICK f : f = Frame("enter", stack[1].inc, FALSE) OBVIOUS
  <2>2. /\ f \in FrameType /\ f.at = "enter" /\ f.inc = stack[1].inc /\ ~f.interrupts
        /\ ~f.callback /\ ~f.recursed
    BY <1>0, <2>1 DEF Frame, FrameType, Statuses, Positions
  <2>3. stack' = <<f>> \o Rest BY <1>0, <1>3, <2>1 DEF Started
  <2>4. RightFrame(f) /\ ~Heavy(f) /\ Steady(f) /\ ~Overtakes(f)
    BY <2>2 DEF RightFrame, Heavy, Steady, Overtakes, Going, Within
  <2>5. MarkedBy(Rest, Rest, {}) BY <1>0, MarkedNone
  <2> QED BY <1>0, <1>1, <2>2, <2>3, <2>4, <2>5, ReplaceQuiet
<1> QED BY <1>2, <1>3

LEMMA ReturnedQuiet ==
  ASSUME IInv, Returned
  PROVE  Quietly
<1>0. stack # <<>> /\ Top = stack[1] /\ stack[1].at \in {"loading", "null"}
  BY TopFrame DEF Returned, At
<1>1. stack' = Rest /\ Same /\ StatusKept /\ Typed /\ progress' = progress /\ MadeKept
  BY MadeSame DEF Returned, Return, Same, StatusKept, Typed, incubation, contexts, IInv,
                  TypeOK, Statuses
<1>2. ~Steady(stack[1]) BY <1>0 DEF Steady, Within
<1> QED BY <1>0, <1>1, <1>2, PopQuiet

LEMMA ForceLoopQuiet ==
  ASSUME IInv, ForceLoop
  PROVE  Quietly
<1>0. /\ stack # <<>> /\ Top = stack[1] /\ stack[1].at = "force" /\ stack[1].inc \in Incubators
  BY TopFrame DEF ForceLoop, At
<1>1. Same /\ StatusKept /\ Typed /\ progress' = progress /\ status' = status /\ MadeKept
  BY MadeSame DEF ForceLoop, Same, StatusKept, Typed, incubation, contexts, IInv, TypeOK, Statuses
<1>2. CASE stack' = Rest
  <2>1. ~Steady(stack[1]) BY <1>0 DEF Steady, Within
  <2> QED BY <1>0, <1>1, <1>2, <2>1, PopQuiet
<1>3. CASE stack' # Rest
  <2>1. PICK at \in {"enter", "force"}, i \in Incubators :
          stack' = <<Frame(at, i, FALSE)>> \o stack
    BY <1>0, <1>3 DEF ForceLoop, Return, WaitingFor
  <2>2. PICK f : f = Frame(at, i, FALSE) OBVIOUS
  <2>3. f \in FrameType /\ f.at = at /\ ~f.interrupts /\ ~f.callback /\ ~f.recursed
    BY <2>2 DEF Frame, FrameType, Statuses, Positions
  <2> QED BY <1>0, <1>1, <2>1, <2>2, <2>3, PushQuiet
<1> QED BY <1>2, <1>3

LEMMA ForceCompletionQuiet ==
  ASSUME IInv, NEW i \in Incubators, ForceCompletion(i)
  PROVE  Quietly
<1>1. Same /\ StatusKept /\ Typed /\ progress' = progress /\ status' = status /\ MadeKept
  BY IncubatorAssumption, MadeSame
  DEF ForceCompletion, Called, Same, StatusKept, Typed, incubation, contexts, IInv, TypeOK,
      Statuses
<1>2. PICK f : f = Frame("force", i, FALSE) OBVIOUS
<1>3. f \in FrameType /\ f.at = "force" /\ ~f.interrupts /\ ~f.callback /\ ~f.recursed
  BY <1>2, NewFrame DEF Positions
<1>4. stack = <<>> \/ stack[1].at \notin {"enter", "finish"}
  BY TopFrame DEF ForceCompletion, MayCall, OneFrame
<1> QED BY <1>1, <1>2, <1>3, <1>4, PushQuiet DEF ForceCompletion

LEMMA IncubateForQuiet ==
  ASSUME IInv, IncubateFor
  PROVE  Quietly
<1>1. Same /\ StatusKept /\ Typed /\ progress' = progress /\ status' = status /\ MadeKept
  BY MadeSame DEF IncubateFor, Same, StatusKept, Typed, incubation, contexts, IInv, TypeOK, Statuses
<1>2. list # <<>> /\ list \in Seq(Incubators) BY DEF IncubateFor, IInv, TypeOK
<1>3. Head(list) \in Incubators /\ In(list, Head(list)) BY <1>2, Popped DEF In
<1>4. PICK f : f = Frame("enter", Head(list), TRUE) OBVIOUS
<1>5. /\ f \in FrameType /\ f.at = "enter" /\ f.inc = Head(list) /\ ~f.callback /\ ~f.recursed
  BY <1>3, <1>4 DEF Frame, FrameType, Statuses, Positions
<1>6. stack = <<>> /\ stack' = <<f>> \o stack BY <1>4 DEF IncubateFor
<1>7. NotSync(f.inc) BY <1>3, <1>5 DEF NotSync, SyncInv, OneSync
<1> QED BY <1>1, <1>5, <1>6, <1>7, PushQuiet

LEMMA EndedQuiet ==
  ASSUME IInv, Ended
  PROVE  Quietly
<1>0. /\ stack # <<>> /\ Top = stack[1] /\ stack[1].at = "ended" /\ Rest \in Seq(FrameType)
      /\ stack[1].inc \in Incubators /\ stack[1] \in FrameType /\ 1 \in DOMAIN stack
      /\ stack \in Seq(FrameType) /\ DOMAIN stack = 1 .. Len(stack) /\ Rest = Tail(stack)
  BY TopFrame DEF Ended, At
<1>1. Same /\ StatusKept /\ Typed /\ progress' = progress /\ MadeKept
  BY MadeSame DEF Ended, Same, StatusKept, Typed, incubation, contexts, IInv, TypeOK, Statuses
<1>2. PICK g : g = [stack[1] EXCEPT !.at = "count", !.callback = FALSE] OBVIOUS
<1>3. g \in FrameType /\ g.at = "count" BY <1>0, <1>2 DEF FrameType, Positions
<1>k. ASSUME NEW x \in 1 + 1 .. Len(stack), Going(stack[x])
      PROVE  unit'[stack[x].inc] /\ (Has(stack[x].inc) => WillHave(stack[x].inc))
  <2>0. x \in DOMAIN stack BY <1>0
  <2>1. OneFrame(x) BY <2>0 DEF IInv
  <2>2. stack[x].inc \in Incubators BY <2>0 DEF IInv, TypeOK
  <2>3. Has(stack[x].inc) => WillHave(stack[x].inc) BY <1>1, <2>2 DEF MadeKept
  <2> QED BY <1>1, <1>k, <2>1, <2>3 DEF OneFrame, Same
<1>4. CASE stack[1].waiting # NoIncubator /\ ~stack[1].recursed
  <2>1. PICK f : f = Frame("enter", stack[1].waiting, stack[1].interrupts) OBVIOUS
  <2>2. stack[1].waiting \in Incubators BY <1>0, <1>4 DEF FrameType
  <2>3. /\ f \in FrameType /\ f.at = "enter" /\ f.inc = stack[1].waiting
        /\ ~f.callback /\ ~f.recursed
    <3>1. stack[1].interrupts \in BOOLEAN BY <1>0 DEF FrameType
    <3> QED BY <2>1, <2>2, <3>1, NewFrame DEF Positions
  <2>4. stack' = <<f>> \o (<<g>> \o Rest)
    <3>1. stack' = <<f>> \o <<g>> \o Rest BY <1>0, <1>2, <1>4, <2>1 DEF Ended
    <3>2. <<f>> \in Seq(FrameType) /\ <<g>> \in Seq(FrameType) BY <1>3, <2>3
    <3> QED BY <1>0, <3>1, <3>2
  <2>5. Moves(stack, stack', 1, 2, f, g, {}) BY <1>0, <1>3, <2>3, <2>4, TwoMoves
  <2>6. RightFrame(f) /\ ~Overtakes(f) /\ ~Heavy(f) /\ Heavy(stack[1])
    BY <1>0, <2>3 DEF RightFrame, Overtakes, Heavy, Going, Within
  <2>7. Fits(1, 2, f, g, {}) BY <1>1, <1>3, <1>k, <2>5, <2>6 DEF Fits
  <2>8. QuietFits(1, 2, f, g, {}) BY <1>0, <1>1, <2>6, <2>7 DEF QuietFits, Same, StatusKept
  <2>9. ASSUME SyncInv PROVE QuietSync(1, 2, f, g, {})
    <3>1. FrameSync(stack[1]) BY <1>0, <2>9 DEF SyncInv
    <3>2. FrameSync(f) BY <1>0, <1>4, <2>3, <3>1 DEF FrameSync
    <3>3. \A x \in DOMAIN stack : x <= 1 => ~Steady(stack[x])
      <4>1. \A x \in DOMAIN stack : x <= 1 => x = 1 BY <1>0
      <4> QED BY <1>0, <4>1 DEF Steady, Within
    <3> QED BY <3>2, <3>3 DEF QuietSync
  <2> QED BY <2>8, <2>9 DEF Quietly
<1>5. CASE ~(stack[1].waiting # NoIncubator /\ ~stack[1].recursed)
  <2>1. stack' = <<g>> \o Rest
    <3>1. stack' = <<>> \o <<g>> \o Rest BY <1>0, <1>2, <1>5 DEF Ended
    <3>2. <<g>> \in Seq(FrameType) BY <1>3
    <3> QED BY <1>0, <3>1, <3>2
  <2>2. MarkedBy(Rest, Rest, {}) BY <1>0, MarkedNone
  <2>3. Moves(stack, stack', 1, 1, g, g, {}) BY <1>0, <1>3, <2>1, <2>2, ReplaceMoves
  <2>4. RightFrame(g) /\ ~Overtakes(g) /\ Heavy(g) /\ Heavy(stack[1])
    BY <1>0, <1>3 DEF RightFrame, Overtakes, Heavy, Going, Within
  <2>5. Fits(1, 1, g, g, {}) BY <1>1, <1>3, <1>k, <2>3, <2>4 DEF Fits
  <2>6. QuietFits(1, 1, g, g, {}) BY <1>0, <1>1, <2>4, <2>5 DEF QuietFits, Same, StatusKept
  <2>7. FrameSync(g) BY <1>3 DEF FrameSync
  <2>8. \A x \in DOMAIN stack : x <= 1 => ~Steady(stack[x])
    <3>1. \A x \in DOMAIN stack : x <= 1 => x = 1 BY <1>0
    <3> QED BY <1>0, <3>1 DEF Steady, Within
  <2>9. QuietSync(1, 1, g, g, {}) BY <2>7, <2>8 DEF QuietSync
  <2> QED BY <2>6, <2>9 DEF Quietly
<1> QED BY <1>4, <1>5

-----------------------------------------------------------------------------
(* What the other actions have in common.                                  *)

LEMMA LetGoDoes ==
  ASSUME IInv, NEW i \in Incubators, LetGo(i)
  PROVE  /\ unit' \in [Incubators -> BOOLEAN] /\ ~unit'[i]
         /\ waitingOnMe' \in [Incubators -> Incubators \cup {NoIncubator}]
         /\ waitingOnMe'[i] = NoIncubator
         /\ \A j \in Incubators \ {i} : (unit'[j] <=> unit[j]) /\ waitingOnMe'[j] = waitingOnMe[j]
         /\ list' \in Seq(Incubators) /\ Once(list')
         /\ \A n : In(list', n) <=> In(list, n) /\ n # i
         /\ Cardinality(Units') = Cardinality(Units) - (IF unit[i] THEN 1 ELSE 0)
<1>1. list \in Seq(Incubators) /\ Once(list) /\ list' = RemoveFirst(list, i)
  BY DEF IInv, TypeOK, LetGo
<1>2. /\ list' \in Seq(Incubators) /\ Once(list')
      /\ \A n : In(list', n) <=> In(list, n) /\ n # i
  BY <1>1, Removed
<1>3. /\ unit' \in [Incubators -> BOOLEAN] /\ ~unit'[i]
      /\ \A j \in Incubators \ {i} : unit'[j] <=> unit[j]
  BY DEF LetGo, IInv, TypeOK
<1>4. /\ waitingOnMe' \in [Incubators -> Incubators \cup {NoIncubator}]
      /\ waitingOnMe'[i] = NoIncubator
      /\ \A j \in Incubators \ {i} : waitingOnMe'[j] = waitingOnMe[j]
  BY DEF LetGo, IInv, TypeOK
<1>5. Cardinality(Units') = Cardinality(Units) - (IF unit[i] THEN 1 ELSE 0)
  <2>1. PICK U : U = Units OBVIOUS
  <2>2. Units' = U \ {i} BY <1>3, <2>1 DEF Units
  <2>3. i \in U <=> unit[i] BY <2>1 DEF Units
  <2>4. IsFiniteSet(U) BY <2>1, UnitsFinite
  <2>5. Cardinality(U \ {i}) = IF i \in U THEN Cardinality(U) - 1 ELSE Cardinality(U)
    BY <2>4, FS_RemoveElement
  <2>6. Cardinality(U) \in Nat BY <2>1, UnitsFinite
  <2> QED BY <2>1, <2>2, <2>3, <2>5, <2>6
<1> QED BY <1>2, <1>3, <1>4, <1>5

LEMMA LetGoListed ==
  ASSUME IInv, NEW i \in Incubators, LetGo(i), owner' = owner, async' = async,
         exists' = exists \/ (~owner[i] /\ exists' = [exists EXCEPT ![i] = FALSE]),
         NEW k \in Incubators
  PROVE  Listed(k)'
<1>1. Listed(k) BY DEF IInv, OneIncubator
<1>2. /\ ~unit'[i] /\ waitingOnMe'[i] = NoIncubator
      /\ k # i => (unit'[k] <=> unit[k]) /\ waitingOnMe'[k] = waitingOnMe[k]
      /\ In(list', k) <=> In(list, k) /\ k # i
  BY LetGoDoes
<1>3. k # i => exists'[k] = exists[k] BY DEF IInv, TypeOK
<1>4. owner'[k] => exists'[k] BY <1>1, <1>3 DEF Listed
<1>5. CASE k = i BY <1>2, <1>4, <1>5 DEF Listed, In
<1>6. CASE k # i BY <1>1, <1>2, <1>3, <1>4, <1>6 DEF Listed, In
<1> QED BY <1>5, <1>6

LEMMA LoadingStays ==
  ASSUME IInv, NEW d, NEW e, NEW f, NEW g, NEW M, Moves(stack, stack', d, e, f, g, M),
         NEW k \in Incubators, status[k] = "loading", ~unit[k],
         d = 1 => stack[1].at # "clear" \/ stack[1].inc # k
  PROVE  \E y \in DOMAIN stack' :
           stack'[y].at = "clear" /\ stack'[y].inc = k /\ stack'[y].was = "loading"
<1>1. PICK x \in DOMAIN stack :
        stack[x].at = "clear" /\ stack[x].inc = k /\ stack[x].was = "loading"
  BY DEF IInv, OneIncubator
<1>2. x > d
  <2>1. d \in 0 .. 1 /\ DOMAIN stack = 1 .. Len(stack) /\ Len(stack) \in Nat BY DEF Moves
  <2> QED BY <1>1, <2>1
<1> QED BY <1>1, <1>2, ClearStays

LEMMA ClearingStays ==
  ASSUME NEW d, NEW e, NEW f, NEW g, NEW M, Moves(stack, stack', d, e, f, g, M),
         NEW k, Clearing(k), d = 1 => stack[1].at # "clear" \/ stack[1].inc # k
  PROVE  Clearing(k)'
<1>1. PICK x \in DOMAIN stack : stack[x].at = "clear" /\ stack[x].inc = k BY DEF Clearing
<1>2. x > d
  <2>1. d \in 0 .. 1 /\ DOMAIN stack = 1 .. Len(stack) /\ Len(stack) \in Nat BY DEF Moves
  <2> QED BY <1>1, <2>1
<1>3. PICK y \in DOMAIN stack' : stack'[y].at = "clear" /\ stack'[y].inc = stack[x].inc
  BY <1>1, <1>2, ClearStays
<1> QED BY <1>1, <1>3 DEF Clearing

LEMMA SteadyStays ==
  ASSUME NEW d, NEW e, NEW f, NEW g, NEW M, Moves(stack, stack', d, e, f, g, M),
         NEW k, k \notin M, d = 1 => ~Steady(stack[1]) \/ stack[1].inc # k,
         \E x \in DOMAIN stack : stack[x].inc = k /\ Steady(stack[x])
  PROVE  \E y \in DOMAIN stack' : stack'[y].inc = k /\ Steady(stack'[y])
<1>1. PICK x \in DOMAIN stack : stack[x].inc = k /\ Steady(stack[x]) OBVIOUS
<1>0. /\ d \in 0 .. 1 /\ e \in 0 .. 2 /\ DOMAIN stack = 1 .. Len(stack) /\ Len(stack) \in Nat
      /\ DOMAIN stack' = 1 .. Len(stack')
  BY DEF Moves
<1>2. x \in d + 1 .. Len(stack) BY <1>0, <1>1
<1>3. PICK y \in e + 1 .. Len(stack') : y - x = e - d /\ Kept(stack[x], stack'[y], M)
  BY <1>2, Destination
<1>4. Watched(stack[x]) \notin M BY <1>1 DEF Watched, Steady, Within
<1>5. y \in DOMAIN stack' BY <1>0, <1>3
<1> QED BY <1>1, <1>3, <1>4, <1>5 DEF Kept, Steady

\* What has lost its unit cannot make a frame wrong.
LEMMA FrameSyncStays ==
  ASSUME IInv, SyncInv, NEW d, NEW e, NEW f, NEW g, NEW M,
         Moves(stack, stack', d, e, f, g, M), async' = async,
         \A j \in Incubators : unit'[j] => unit[j],
         NEW y \in e + 1 .. Len(stack')
  PROVE  FrameSync(stack[y])'
<1>1. PICK x \in d + 1 .. Len(stack) : y - x = e - d /\ Kept(stack[x], stack'[y], M)
  BY Origin
<1>2. x \in DOMAIN stack BY DEF Moves
<1>3. FrameSync(stack[x]) /\ stack[x] \in FrameType BY <1>2 DEF SyncInv, IInv
<1> QED BY <1>1, <1>3 DEF FrameSync, Kept, FrameType

-----------------------------------------------------------------------------
(* clear(): what is cleared has a frame that says so.                      *)

ClearFrame(i) == [Frame("clear", i, FALSE) EXCEPT !.was = status[i]]
BeginsClear(i) ==
  /\ BeginClear(i, stack) /\ status[i] # "null" /\ (status[i] = "loading" => unit[i])
  /\ stack = <<>> \/ stack[1].at \notin {"enter", "finish"}
  /\ UNCHANGED <<status, progress, errors, async, finalized, inside, creations, owner, exists>>
  /\ calls' \in 0 .. MaxCalls

LEMMA BeginsClearFits ==
  ASSUME IInv, NEW i \in Incubators, BeginsClear(i)
  PROVE  \E f \in FrameType :
           /\ f.at = "clear" /\ f.inc = i /\ f.was = status[i]
           /\ Fits(0, 1, f, f, {i})
<1>1. stack \in Seq(FrameType) /\ status[i] \in Statuses BY DEF IInv, TypeOK, Statuses
<1>2. PICK f : f = ClearFrame(i) OBVIOUS
<1>3. f \in FrameType /\ f.at = "clear" /\ f.inc = i /\ f.was = status[i]
  BY <1>1, <1>2 DEF ClearFrame, Frame, FrameType, Positions, Statuses
<1>4. PICK r : r = Recurse(i, stack) OBVIOUS
<1>5. MarkedBy(stack, r, {i}) BY <1>1, <1>4, MarkedOne
<1>6. stack' = <<f>> \o r BY <1>2, <1>4 DEF BeginsClear, BeginClear, ClearFrame
<1>7. Moves(stack, stack', 0, 1, f, f, {i}) BY <1>1, <1>3, <1>5, <1>6, PushMoves
<1>8. RightFrame(f) BY <1>3 DEF RightFrame, Going, Within
<1>9. ASSUME NEW x \in 0 + 1 .. Len(stack), Going(stack[x]), stack[x].inc \notin {i}
      PROVE  unit'[stack[x].inc] /\ (Has(stack[x].inc) => WillHave(stack[x].inc))
  <2>1. x \in DOMAIN stack BY <1>1
  <2>2. OneFrame(x) /\ stack[x] \in FrameType BY <1>1, <2>1 DEF IInv
  <2>3. unit[stack[x].inc] /\ stack[x].inc \in Incubators \ {i}
    BY <1>9, <2>2 DEF OneFrame, FrameType
  <2>4. Has(stack[x].inc) => WillHave(stack[x].inc)
    BY <2>3 DEF Has, WillHave, BeginsClear, BeginClear, IInv, TypeOK
  <2> QED BY <2>3, <2>4, LetGoDoes DEF BeginsClear, BeginClear
<1>10. Fits(0, 1, f, f, {i})
  BY <1>3, <1>7, <1>8, <1>9 DEF Fits, BeginsClear
<1> QED BY <1>3, <1>10

LEMMA BeginsClearKeeps ==
  ASSUME IInv, NEW i \in Incubators, BeginsClear(i)
  PROVE  IInv'
<1>l. LetGo(i) BY DEF BeginsClear, BeginClear
<1>1. PICK f \in FrameType : /\ f.at = "clear" /\ f.inc = i /\ f.was = status[i]
                             /\ Fits(0, 1, f, f, {i})
  BY BeginsClearFits
<1>2. Moves(stack, stack', 0, 1, f, f, {i}) BY <1>1 DEF Fits
<1>3. StackInv' BY <1>1, FitsKeeps DEF IInv, StackInv
<1>4. TypeOK'
  <2>1. \A x \in DOMAIN stack' : stack'[x] \in FrameType BY <1>3 DEF StackInv
  <2>2. result' \in [Incubators -> BOOLEAN] BY DEF BeginsClear, BeginClear, IInv, TypeOK
  <2>3. /\ unit' \in [Incubators -> BOOLEAN] /\ list' \in Seq(Incubators)
        /\ waitingOnMe' \in [Incubators -> Incubators \cup {NoIncubator}]
    BY <1>l, LetGoDoes
  <2>4. \A x \in DOMAIN stack' : stack'[x].at \in Positions /\ stack'[x].inc \in Incubators
    BY <2>1 DEF FrameType
  <2> QED BY <2>2, <2>3, <2>4 DEF BeginsClear, IInv, TypeOK
<1>5. creations' >= Cardinality(Units') + Weight(stack')
  <2>1. PICK k : Weighs(stack, stack', 0, 1, f, f, k) BY <1>2, MovesWeigh
  <2>2. Heavy(f) => unit[i] BY <1>1 DEF Heavy, BeginsClear
  <2>3. Cardinality(Units') = Cardinality(Units) - (IF unit[i] THEN 1 ELSE 0)
    BY <1>l, LetGoDoes
  <2>4. Weight(stack') <= Weight(stack) + (IF unit[i] THEN 1 ELSE 0)
    BY <2>1, <2>2 DEF Weighs
  <2>5. Weight(stack') \in Nat /\ Weight(stack) \in Nat /\ Cardinality(Units) \in Nat
    BY <1>2, WeightNat, UnitsFinite DEF Moves
  <2>6. creations >= Cardinality(Units) + Weight(stack) /\ creations \in Nat
        /\ creations' = creations
    BY DEF IInv, TypeOK, BeginsClear
  <2> QED BY <2>3, <2>4, <2>5, <2>6
<1>6. ASSUME NEW k \in Incubators PROVE OneIncubator(k)'
  <2>1. Listed(k)' BY <1>l, LetGoListed DEF BeginsClear
  <2>2. ASSUME status'[k] = "loading", ~unit'[k]
        PROVE  \E y \in DOMAIN stack' :
                 stack'[y].at = "clear" /\ stack'[y].inc = k /\ stack'[y].was = "loading"
    <3>0. status[k] = "loading" BY <2>2 DEF BeginsClear
    <3>1. CASE k = i
      <4>1. 1 \in DOMAIN stack' /\ stack'[1] = f BY <1>2 DEF Moves
      <4> QED BY <1>1, <3>0, <3>1, <4>1
    <3>2. CASE k # i
      <4>1. ~unit[k] BY <1>l, <2>2, <3>2, LetGoDoes
      <4> QED BY <1>2, <3>0, <4>1, LoadingStays
    <3> QED BY <3>1, <3>2
  <2>3. Made(k)'
    <3>1. Made(k) BY DEF IInv, OneIncubator
    <3>2. /\ ~unit'[i] /\ (k # i => (unit'[k] <=> unit[k]) /\ result'[k] = result[k])
          /\ status[i] # "null" /\ UNCHANGED <<status, progress, errors, finalized>>
      BY <1>l, LetGoDoes DEF BeginsClear, BeginClear, IInv, TypeOK
    <3> QED BY <3>1, <3>2 DEF Made, Has
  <2> QED BY <2>1, <2>2, <2>3 DEF OneIncubator
<1>7. Once(list)' BY <1>l, LetGoDoes DEF Once
<1> QED BY <1>3, <1>4, <1>5, <1>6, <1>7 DEF IInv, StackInv

LEMMA BeginsClearSyncs ==
  ASSUME IInv, SyncInv, NEW i \in Incubators, BeginsClear(i)
  PROVE  SyncInv'
<1>l. LetGo(i) BY DEF BeginsClear, BeginClear
<1>1. PICK f \in FrameType : /\ f.at = "clear" /\ f.inc = i /\ f.was = status[i]
                             /\ Fits(0, 1, f, f, {i})
  BY BeginsClearFits
<1>2. Moves(stack, stack', 0, 1, f, f, {i}) BY <1>1 DEF Fits
<1>3. /\ ~unit'[i] /\ waitingOnMe'[i] = NoIncubator
      /\ \A j \in Incubators \ {i} : (unit'[j] <=> unit[j]) /\ waitingOnMe'[j] = waitingOnMe[j]
      /\ \A n : In(list', n) <=> In(list, n) /\ n # i
  BY <1>l, LetGoDoes
<1>4. status' = status /\ async' = async BY DEF BeginsClear
<1>5. 1 \in DOMAIN stack' /\ stack'[1] = f /\ Len(stack') \in Nat
      /\ DOMAIN stack' = 1 .. Len(stack')
  BY <1>2 DEF Moves
<1>6. ASSUME NEW k \in Incubators PROVE OneSync(k)'
  <2>1. OneSync(k) BY DEF SyncInv
  <2>2. status'[k] = "null" => ~unit'[k] BY <1>3, <1>4, <2>1 DEF OneSync
  <2>3. In(list', k) => async'[k] BY <1>3, <1>4, <2>1 DEF OneSync
  <2>4. ASSUME waitingOnMe'[k] # NoIncubator
        PROVE  \/ unit'[waitingOnMe'[k]] /\ async'[waitingOnMe'[k]]
               \/ Clearing(waitingOnMe[k])' \/ Failed(waitingOnMe[k])'
    <3>1. PICK w : w = waitingOnMe[k] OBVIOUS
    <3>2. k # i /\ waitingOnMe'[k] = w BY <1>3, <2>4, <3>1
    <3>3. w \in Incubators BY <2>4, <3>1, <3>2 DEF IInv, TypeOK
    <3>f. CASE w # i /\ Failed(w) BY <1>3, <1>4, <3>2, <3>3, <3>f DEF Failed
    <3>4. CASE w = i
      <4>1. Clearing(w)' BY <1>1, <1>5, <3>4 DEF Clearing
      <4> QED BY <3>2, <4>1 DEF Clearing
    <3>5. CASE w # i /\ unit[w] /\ async[w] BY <1>3, <1>4, <3>2, <3>3, <3>5
    <3>6. CASE Clearing(w)
      <4>1. Clearing(w)' BY <1>2, <3>6, ClearingStays
      <4> QED BY <3>2, <4>1 DEF Clearing
    <3> QED BY <2>1, <2>4, <3>f, <3>1, <3>2, <3>4, <3>5, <3>6 DEF OneSync
  <2>5. ASSUME unit'[k], ~async'[k]
        PROVE  \E y \in DOMAIN stack' : stack'[y].inc = k /\ Steady(stack'[y])
    <3>1. k \notin {i} /\ unit[k] /\ ~async[k] BY <1>3, <1>4, <2>5
    <3>2. \E x \in DOMAIN stack : stack[x].inc = k /\ Steady(stack[x])
      BY <2>1, <3>1 DEF OneSync
    <3> QED BY <1>2, <3>1, <3>2, SteadyStays
  <2> QED BY <2>2, <2>3, <2>4, <2>5 DEF OneSync, In
<1>7. ASSUME NEW y \in DOMAIN stack' PROVE FrameSync(stack[y])'
  <2>1. CASE y = 1 BY <1>1, <1>5, <2>1 DEF FrameSync
  <2>2. CASE y # 1
    <3>1. y \in 1 + 1 .. Len(stack') BY <1>5, <2>2
    <3>2. \A j \in Incubators : unit'[j] => unit[j] BY <1>3
    <3> QED BY <1>2, <1>4, <3>1, <3>2, FrameSyncStays
  <2> QED BY <2>1, <2>2
<1> QED BY <1>6, <1>7 DEF SyncInv

LEMMA ClearBegins ==
  ASSUME IInv, NEW i \in Incubators, Clear(i)
  PROVE  BeginsClear(i)
<1>1. stack = <<>> \/ stack[1].at \notin {"enter", "finish"}
  BY TopFrame DEF Clear, MayCall, OneFrame
<1>2. calls' \in 0 .. MaxCalls
  BY IncubatorAssumption DEF Clear, Called, IInv, TypeOK
<1> QED BY <1>1, <1>2 DEF Clear, BeginsClear, contexts

LEMMA ClearNextBegins ==
  ASSUME IInv, ClearNext
  PROVE  \E i \in Incubators : BeginsClear(i)
<1>1. stack # <<>> /\ Top = stack[1] /\ stack[1].at = "clear" /\ stack[1].inc \in Incubators
  BY TopFrame DEF ClearNext, At
<1>2. PICK j \in WaitingFor(stack[1].inc) : status[j] # "null" /\ BeginClear(j, stack)
  BY <1>1 DEF ClearNext
<1>3. j \in Incubators /\ waitingOnMe[j] # NoIncubator
  BY <1>1, <1>2, IncubatorAssumption DEF WaitingFor
<1>4. unit[j] BY <1>3 DEF IInv, OneIncubator, Listed
<1>5. UNCHANGED <<status, progress, errors, async, finalized, inside, creations, owner, exists>>
      /\ calls' \in 0 .. MaxCalls
  BY DEF ClearNext, contexts, IInv, TypeOK
<1>6. stack[1].at \notin {"enter", "finish"} BY <1>1
<1>7. BeginsClear(j) BY <1>2, <1>4, <1>5, <1>6 DEF BeginsClear
<1> QED BY <1>3, <1>7

-----------------------------------------------------------------------------
(* incubate() that has completed, and what is left of inProgressCreations. *)

FinishEnds ==
  Finish /\ progress[Top.inc] = "completed" /\ WaitingFor(Top.inc) = {}

LEMMA FinishFits ==
  ASSUME IInv, FinishEnds
  PROVE  \E f \in FrameType, M \in {{}, {waitingOnMe[stack[1].inc]}} :
           /\ f.at = "ended" /\ f.inc = stack[1].inc /\ f.waiting = waitingOnMe[f.inc]
           /\ M # {} => waitingOnMe[f.inc] # NoIncubator
           /\ Fits(1, 1, f, f, M)
           /\ \E s \in {"error", "ready"} :
                status' = [status EXCEPT ![f.inc] = s] /\ (s = "ready" => ~errors[f.inc])
<1>0. /\ stack # <<>> /\ Top = stack[1] /\ stack[1].at = "finish" /\ stack[1].inc \in Incubators
      /\ OneFrame(1) /\ Rest \in Seq(FrameType) /\ Rest = Tail(stack) /\ stack[1] \in FrameType
      /\ stack \in Seq(FrameType) /\ DOMAIN stack = 1 .. Len(stack)
      /\ \A x \in 2 .. Len(stack) : stack[x].inc = stack[1].inc => ~Going(stack[x])
  BY TopFrame DEF FinishEnds, Finish, At, Overtakes, Within
<1> DEFINE i == stack[1].inc
           w == waitingOnMe[i]
<1>w. w \in Incubators \cup {NoIncubator} BY <1>0 DEF IInv, TypeOK
<1>1. /\ LetGo(i) /\ UNCHANGED <<progress, result, errors>> /\ WaitingFor(i) = {}
      /\ ChangeStatus([stack[1] EXCEPT !.at = "ended", !.waiting = w, !.recursed = FALSE],
                      CalculateStatus(i, errors[i], TRUE, FALSE),
                      IF w = NoIncubator THEN Rest ELSE Recurse(w, Rest))
  BY <1>0 DEF FinishEnds, Finish
<1>2. PICK h : h = [stack[1] EXCEPT !.at = "ended", !.waiting = w, !.recursed = FALSE] OBVIOUS
<1>3. h \in FrameType /\ h.at = "ended" /\ h.inc = i /\ h.waiting = w
  BY <1>0, <1>2, <1>w DEF FrameType, Positions
<1>4. PICK s : s = CalculateStatus(i, errors[i], TRUE, FALSE) OBVIOUS
<1>5. s \in {"error", "ready"} /\ (s = "ready" => ~errors[i])
  <2>1. unit[i] /\ progress[i] = "completed"
    BY <1>0 DEF FinishEnds, Finish, OneFrame, Going, Within
  <2>2. Made(i) BY <1>0 DEF IInv, OneIncubator
  <2>3. result[i] \/ errors[i] BY <2>1, <2>2 DEF Made, Has
  <2> QED BY <1>1, <1>4, <2>3 DEF CalculateStatus
<1>6. PICK b \in BOOLEAN : b = (owner[i] /\ s # status[i]) OBVIOUS
<1>7. PICK f : f = [h EXCEPT !.callback = b] OBVIOUS
<1>8. PICK r : r = IF w = NoIncubator THEN Rest ELSE Recurse(w, Rest) OBVIOUS
<1>9. status' = [status EXCEPT ![i] = s] /\ stack' = <<f>> \o r
  BY <1>1, <1>2, <1>3, <1>4, <1>6, <1>7, <1>8 DEF ChangeStatus
<1>10. f \in FrameType /\ f.at = "ended" /\ f.inc = i /\ f.waiting = w
  BY <1>3, <1>7 DEF FrameType
<1>11. PICK M \in {{}, {w}} : MarkedBy(Rest, r, M) /\ (M # {} => w # NoIncubator)
  BY <1>0, <1>8, MarkedNone, MarkedOne
<1>12. Moves(stack, stack', 1, 1, f, f, M) BY <1>0, <1>9, <1>10, <1>11, ReplaceMoves
<1>13. RightFrame(f) /\ ~Overtakes(f) BY <1>10 DEF RightFrame, Going, Overtakes, Within
<1>14. ASSUME NEW x \in 1 + 1 .. Len(stack), Going(stack[x])
       PROVE  unit'[stack[x].inc] /\ (Has(stack[x].inc) => WillHave(stack[x].inc))
  <2>1. x \in DOMAIN stack /\ x \in 2 .. Len(stack) BY <1>0
  <2>2. OneFrame(x) /\ stack[x] \in FrameType BY <1>0, <2>1 DEF IInv
  <2>3. unit[stack[x].inc] /\ stack[x].inc \in Incubators \ {i}
    BY <1>0, <1>14, <2>1, <2>2 DEF OneFrame, FrameType
  <2>4. unit'[stack[x].inc] BY <1>0, <1>1, <2>3, LetGoDoes
  <2> QED BY <1>1, <2>4 DEF Has, WillHave
<1>15. Fits(1, 1, f, f, M) BY <1>1, <1>12, <1>13, <1>14 DEF Fits
<1> QED BY <1>5, <1>9, <1>10, <1>11, <1>15

LEMMA FinishKeeps ==
  ASSUME IInv, FinishEnds
  PROVE  IInv'
<1>0. /\ stack # <<>> /\ Top = stack[1] /\ stack[1].at = "finish" /\ stack[1].inc \in Incubators
      /\ OneFrame(1)
  BY TopFrame DEF FinishEnds, Finish, At
<1> DEFINE i == stack[1].inc
<1>l. LetGo(i) /\ unit[i]
  BY <1>0 DEF FinishEnds, Finish, OneFrame, Going, Within
<1>1. PICK f \in FrameType, M \in {{}, {waitingOnMe[i]}} :
        /\ f.at = "ended" /\ f.inc = i
        /\ Fits(1, 1, f, f, M)
        /\ \E s \in {"error", "ready"} :
             status' = [status EXCEPT ![i] = s] /\ (s = "ready" => ~errors[i])
  BY FinishFits
<1>2. Moves(stack, stack', 1, 1, f, f, M) BY <1>1 DEF Fits
<1>3. StackInv' BY <1>1, FitsKeeps DEF IInv, StackInv
<1>4. PICK s \in {"error", "ready"} :
        status' = [status EXCEPT ![i] = s] /\ (s = "ready" => ~errors[i])
  BY <1>1
<1>5. TypeOK'
  <2>1. \A x \in DOMAIN stack' : stack'[x] \in FrameType BY <1>3 DEF StackInv
  <2>2. status' \in [Incubators -> Statuses] BY <1>0, <1>4 DEF IInv, TypeOK, Statuses
  <2>3. /\ unit' \in [Incubators -> BOOLEAN] /\ list' \in Seq(Incubators)
        /\ waitingOnMe' \in [Incubators -> Incubators \cup {NoIncubator}]
    BY <1>0, <1>l, LetGoDoes
  <2>4. \A x \in DOMAIN stack' : stack'[x].at \in Positions /\ stack'[x].inc \in Incubators
    BY <2>1 DEF FrameType
  <2>5. UNCHANGED <<progress, errors, result, async, finalized, inside, creations, owner, exists,
                    calls>>
    BY DEF FinishEnds, Finish, contexts
  <2> QED BY <2>2, <2>3, <2>4, <2>5 DEF IInv, TypeOK, Statuses
<1>6. creations' >= Cardinality(Units') + Weight(stack')
  <2>1. PICK k : Weighs(stack, stack', 1, 1, f, f, k) BY <1>2, MovesWeigh
  <2>2. ~Heavy(stack[1]) /\ Heavy(f) BY <1>0, <1>1 DEF Heavy
  <2>3. Cardinality(Units') = Cardinality(Units) - 1 BY <1>0, <1>l, LetGoDoes
  <2>4. Weight(stack') = Weight(stack) + 1 BY <2>1, <2>2 DEF Weighs
  <2>5. Weight(stack) \in Nat /\ Cardinality(Units) \in Nat
    BY <1>2, WeightNat, UnitsFinite DEF Moves
  <2>6. creations >= Cardinality(Units) + Weight(stack) /\ creations \in Nat
        /\ creations' = creations
    BY DEF IInv, TypeOK, FinishEnds, Finish
  <2> QED BY <2>3, <2>4, <2>5, <2>6
<1>7. ASSUME NEW k \in Incubators PROVE OneIncubator(k)'
  <2>1. Listed(k)' BY <1>0, <1>l, LetGoListed DEF FinishEnds, Finish
  <2>2. ASSUME status'[k] = "loading", ~unit'[k]
        PROVE  \E y \in DOMAIN stack' :
                 stack'[y].at = "clear" /\ stack'[y].inc = k /\ stack'[y].was = "loading"
    <3>1. k # i /\ status[k] = "loading" BY <1>0, <1>4, <2>2 DEF IInv, TypeOK, Statuses
    <3>2. ~unit[k] BY <1>0, <1>l, <2>2, <3>1, LetGoDoes
    <3>3. stack[1].at # "clear" BY <1>0
    <3> QED BY <1>2, <3>1, <3>2, <3>3, LoadingStays
  <2>3. Made(k)'
    <3>1. Made(k) BY DEF IInv, OneIncubator
    <3>2. /\ ~unit'[i] /\ (k # i => (unit'[k] <=> unit[k]) /\ status'[k] = status[k])
          /\ status'[i] = s /\ progress[i] = "completed"
          /\ UNCHANGED <<progress, errors, result, finalized>>
      BY <1>0, <1>l, <1>4, LetGoDoes DEF FinishEnds, Finish, contexts, IInv, TypeOK
    <3> QED BY <1>4, <3>1, <3>2 DEF Made, Has
  <2> QED BY <2>1, <2>2, <2>3 DEF OneIncubator
<1>8. Once(list)' BY <1>0, <1>l, LetGoDoes DEF Once
<1> QED BY <1>3, <1>5, <1>6, <1>7, <1>8 DEF IInv, StackInv

LEMMA FinishSyncs ==
  ASSUME IInv, SyncInv, ClearsOnce, FinishEnds
  PROVE  SyncInv'
<1>0. /\ stack # <<>> /\ Top = stack[1] /\ stack[1].at = "finish" /\ stack[1].inc \in Incubators
  BY TopFrame DEF FinishEnds, Finish, At
<1> DEFINE i == stack[1].inc
<1>l. LetGo(i) /\ WaitingFor(i) = {} /\ async' = async
  BY <1>0 DEF FinishEnds, Finish
<1>1. PICK f \in FrameType, M \in {{}, {waitingOnMe[i]}} :
        /\ f.at = "ended" /\ f.inc = i /\ f.waiting = waitingOnMe[i]
        /\ M # {} => waitingOnMe[i] # NoIncubator
        /\ Fits(1, 1, f, f, M)
        /\ \E s \in {"error", "ready"} :
             status' = [status EXCEPT ![i] = s] /\ (s = "ready" => ~errors[i])
  BY FinishFits
<1>2. Moves(stack, stack', 1, 1, f, f, M) BY <1>1 DEF Fits
<1>3. /\ ~unit'[i] /\ waitingOnMe'[i] = NoIncubator
      /\ \A j \in Incubators \ {i} : (unit'[j] <=> unit[j]) /\ waitingOnMe'[j] = waitingOnMe[j]
      /\ \A n : In(list', n) <=> In(list, n) /\ n # i
  BY <1>0, <1>l, LetGoDoes
<1>4. 1 \in DOMAIN stack' /\ stack'[1] = f /\ Len(stack') \in Nat
      /\ DOMAIN stack' = 1 .. Len(stack')
  BY <1>2 DEF Moves
<1>5. \A w \in Incubators : w = waitingOnMe[i] => async[w] \/ ~unit[w]
  <2>1. SUFFICES ASSUME NEW w \in Incubators, w = waitingOnMe[i], unit[w] PROVE async[w]
    OBVIOUS
  <2>2. w # NoIncubator BY IncubatorAssumption
  <2>3. ~Clearing(w) /\ ~Failed(w) BY <2>1 DEF ClearsOnce, Clearing, Failed
  <2> QED BY <1>0, <2>1, <2>2, <2>3 DEF SyncInv, OneSync
<1>6. ASSUME NEW k \in Incubators PROVE OneSync(k)'
  <2>1. OneSync(k) BY DEF SyncInv
  <2>2. status'[k] = "null" => ~unit'[k]
    <3>1. k # i => status'[k] = status[k] BY <1>0, <1>1 DEF IInv, TypeOK
    <3> QED BY <1>3, <2>1, <3>1 DEF OneSync
  <2>3. In(list', k) => async'[k] BY <1>l, <1>3, <2>1 DEF OneSync
  <2>4. ASSUME waitingOnMe'[k] # NoIncubator
        PROVE  \/ unit'[waitingOnMe'[k]] /\ async'[waitingOnMe'[k]]
               \/ Clearing(waitingOnMe[k])' \/ Failed(waitingOnMe[k])'
    <3>1. PICK w : w = waitingOnMe[k] OBVIOUS
    <3>2. k # i /\ waitingOnMe'[k] = w BY <1>3, <2>4, <3>1
    <3>3. w \in Incubators BY <2>4, <3>1, <3>2 DEF IInv, TypeOK
    <3>f. CASE Failed(w)
      <4>1. w # i /\ status'[w] = status[w]
        <5>1. w # i BY <1>l, <3>1 DEF WaitingFor
        <5> QED BY <1>0, <1>1, <3>3, <5>1 DEF IInv, TypeOK
      <4> QED BY <1>3, <3>f, <3>2, <3>3, <4>1 DEF Failed
    <3>4. w # i BY <1>l, <3>1 DEF WaitingFor
    <3>5. CASE unit[w] /\ async[w] BY <1>3, <1>l, <3>2, <3>3, <3>4, <3>5
    <3>6. CASE Clearing(w)
      <4>1. Clearing(w)' BY <1>0, <1>2, <3>6, ClearingStays
      <4> QED BY <3>2, <4>1 DEF Clearing
    <3> QED BY <2>1, <2>4, <3>f, <3>1, <3>2, <3>5, <3>6 DEF OneSync
  <2>5. ASSUME unit'[k], ~async'[k]
        PROVE  \E y \in DOMAIN stack' : stack'[y].inc = k /\ Steady(stack'[y])
    <3>1. k # i /\ unit[k] /\ ~async[k] BY <1>l, <1>3, <2>5
    <3>2. \E x \in DOMAIN stack : stack[x].inc = k /\ Steady(stack[x])
      BY <2>1, <3>1 DEF OneSync
    <3>3. k \notin M BY <1>1, <1>5, <3>1
    <3> QED BY <1>2, <3>1, <3>2, <3>3, SteadyStays
  <2> QED BY <2>2, <2>3, <2>4, <2>5 DEF OneSync, In
<1>7. ASSUME NEW y \in DOMAIN stack' PROVE FrameSync(stack[y])'
  <2>u. \A j \in Incubators : unit'[j] => unit[j] BY <1>3
  <2>1. CASE y = 1
    <3>1. f.waiting # NoIncubator => async'[f.waiting] \/ ~unit'[f.waiting]
      <4>1. f.waiting \in Incubators \cup {NoIncubator} BY DEF FrameType
      <4> QED BY <1>1, <1>5, <1>l, <2>u, <4>1
    <3> QED BY <1>1, <1>4, <2>1, <3>1 DEF FrameSync
  <2>2. CASE y # 1
    <3>1. y \in 1 + 1 .. Len(stack') BY <1>4, <2>2
    <3> QED BY <1>2, <1>l, <2>u, <3>1, FrameSyncStays
  <2> QED BY <2>1, <2>2
<1> QED BY <1>6, <1>7 DEF SyncInv

LEMMA CountKeeps ==
  ASSUME IInv, Count
  PROVE  IInv' /\ (SyncInv => SyncInv')
<1>0. /\ stack # <<>> /\ Top = stack[1] /\ stack[1].at = "count" /\ Rest = Tail(stack)
      /\ stack \in Seq(FrameType) /\ DOMAIN stack = 1 .. Len(stack)
  BY TopFrame DEF Count, At
<1> DEFINE f == stack[1]
<1>1. /\ UNCHANGED <<incubation, owner, exists, calls>> /\ creations' = creations - 1
      /\ stack' = Rest
  BY DEF Count, Return
<1>2. Moves(stack, stack', 1, 0, f, f, {}) BY <1>0, <1>1, PopMoves
<1>3. ASSUME NEW x \in 1 + 1 .. Len(stack), Going(stack[x])
      PROVE  unit'[stack[x].inc] /\ (Has(stack[x].inc) => WillHave(stack[x].inc))
  <2>1. OneFrame(x) BY <1>0 DEF IInv
  <2> QED BY <1>1, <1>3, <2>1 DEF OneFrame, Has, WillHave, incubation
<1>4. Fits(1, 0, f, f, {}) BY <1>1, <1>2, <1>3 DEF Fits, incubation
<1>5. StackInv' BY <1>4, FitsKeeps DEF IInv, StackInv
<1>6. creations' >= Cardinality(Units') + Weight(stack') /\ creations' \in Nat
  <2>1. PICK k : Weighs(stack, stack', 1, 0, f, f, k) BY <1>2, MovesWeigh
  <2>2. Heavy(f) BY <1>0 DEF Heavy
  <2>3. Weight(stack) = Weight(stack') + 1 /\ Weight(stack') \in Nat
    BY <2>1, <2>2 DEF Weighs
  <2>4. Units' = Units BY <1>1 DEF Units, incubation
  <2>5. creations >= Cardinality(Units) + Weight(stack) /\ creations \in Nat
    BY DEF IInv, TypeOK
  <2>6. Cardinality(Units) \in Nat BY UnitsFinite
  <2> QED BY <1>1, <2>3, <2>4, <2>5, <2>6
<1>7. TypeOK'
  <2>1. \A x \in DOMAIN stack' : stack'[x] \in FrameType BY <1>5 DEF StackInv
  <2>2. \A x \in DOMAIN stack' : stack'[x].at \in Positions /\ stack'[x].inc \in Incubators
    BY <2>1 DEF FrameType
  <2> QED BY <1>1, <1>6, <2>2 DEF IInv, TypeOK, incubation, contexts
<1>8. ASSUME NEW k \in Incubators PROVE OneIncubator(k)'
  <2>1. OneIncubator(k) BY DEF IInv
  <2>2. ASSUME status[k] = "loading", ~unit[k]
        PROVE  \E y \in DOMAIN stack' :
                 stack'[y].at = "clear" /\ stack'[y].inc = k /\ stack'[y].was = "loading"
    BY <1>0, <1>2, <2>2, LoadingStays
  <2>3. Listed(k)' BY <1>1, <2>1 DEF OneIncubator, Listed, In, incubation
  <2>4. Made(k)' BY <1>1, <2>1 DEF OneIncubator, Made, Has, incubation, contexts
  <2> QED BY <1>1, <2>2, <2>3, <2>4 DEF OneIncubator, incubation
<1>9. Once(list)' BY <1>1 DEF IInv, Once, incubation
<1>10. ASSUME SyncInv PROVE SyncInv'
  <2>1. ASSUME NEW k \in Incubators PROVE OneSync(k)'
    <3>1. OneSync(k) BY <1>10 DEF SyncInv
    <3>2. Clearing(waitingOnMe[k]) => Clearing(waitingOnMe[k])'
      <4>1. PICK w : w = waitingOnMe[k] OBVIOUS
      <4>2. Clearing(w) => Clearing(w)' BY <1>0, <1>2, ClearingStays
      <4> QED BY <1>1, <4>1, <4>2 DEF Clearing, incubation
    <3>3. ~Steady(stack[1]) BY <1>0 DEF Steady, Within
    <3>4. (\E x \in DOMAIN stack : stack[x].inc = k /\ Steady(stack[x])) =>
            (\E y \in DOMAIN stack' : stack'[y].inc = k /\ Steady(stack'[y]))
      BY <1>2, <3>3, SteadyStays
    <3>5. Failed(waitingOnMe[k]) => Failed(waitingOnMe[k])' BY <1>1 DEF Failed, incubation
    <3> QED BY <1>1, <3>1, <3>2, <3>4, <3>5 DEF OneSync, In, incubation
  <2>2. ASSUME NEW y \in DOMAIN stack' PROVE FrameSync(stack[y])'
    <3>1. y \in 0 + 1 .. Len(stack') BY <1>2 DEF Moves
    <3> QED BY <1>1, <1>2, <1>10, <3>1, FrameSyncStays DEF incubation
  <2> QED BY <2>1, <2>2 DEF SyncInv
<1> QED BY <1>5, <1>6, <1>7, <1>8, <1>9, <1>10 DEF IInv, StackInv

-----------------------------------------------------------------------------
(* clear(), at its end.                                                    *)

LEMMA ClearedFits ==
  ASSUME IInv, Cleared
  PROVE  \E f \in FrameType : f.at = "null" /\ Fits(1, 1, f, f, {})
<1>0. /\ stack # <<>> /\ Top = stack[1] /\ stack[1].at = "clear" /\ stack[1].inc \in Incubators
      /\ Rest \in Seq(FrameType) /\ Rest = Tail(stack) /\ stack[1] \in FrameType
      /\ stack \in Seq(FrameType) /\ DOMAIN stack = 1 .. Len(stack)
      /\ \A x \in 2 .. Len(stack) : stack[x].inc = stack[1].inc => ~Going(stack[x])
  BY TopFrame DEF Cleared, At, Overtakes
<1> DEFINE i == stack[1].inc
<1>1. /\ ChangeStatus([stack[1] EXCEPT !.at = "null"], "null", Rest)
      /\ progress' = [progress EXCEPT ![i] = "execute"] /\ unit' = unit
      /\ result' = [result EXCEPT ![i] = FALSE] /\ errors' = [errors EXCEPT ![i] = FALSE]
  BY <1>0 DEF Cleared
<1>2. PICK h : h = [stack[1] EXCEPT !.at = "null"] OBVIOUS
<1>3. h \in FrameType /\ h.at = "null" /\ h.inc = i
  BY <1>0, <1>2 DEF FrameType, Positions
<1>4. PICK b \in BOOLEAN : b = (owner[i] /\ "null" # status[i]) OBVIOUS
<1>5. PICK f : f = [h EXCEPT !.callback = b] OBVIOUS
<1>6. stack' = <<f>> \o Rest BY <1>1, <1>2, <1>3, <1>4, <1>5 DEF ChangeStatus
<1>7. f \in FrameType /\ f.at = "null" BY <1>3, <1>5 DEF FrameType
<1>8. MarkedBy(Rest, Rest, {}) BY <1>0, MarkedNone
<1>9. Moves(stack, stack', 1, 1, f, f, {}) BY <1>0, <1>6, <1>7, <1>8, ReplaceMoves
<1>10. RightFrame(f) /\ ~Overtakes(f) BY <1>7 DEF RightFrame, Going, Overtakes, Within
<1>11. ASSUME NEW x \in 1 + 1 .. Len(stack), Going(stack[x])
       PROVE  /\ unit'[stack[x].inc] /\ progress'[stack[x].inc] = progress[stack[x].inc]
              /\ Has(stack[x].inc) => WillHave(stack[x].inc)
  <2>1. x \in DOMAIN stack /\ x \in 2 .. Len(stack) BY <1>0
  <2>2. OneFrame(x) /\ stack[x] \in FrameType BY <1>0, <2>1 DEF IInv
  <2>3. unit[stack[x].inc] /\ stack[x].inc \in Incubators \ {i}
    BY <1>0, <1>11, <2>1, <2>2 DEF OneFrame, FrameType
  <2> QED BY <1>1, <2>3 DEF Has, WillHave, IInv, TypeOK
<1>12. Fits(1, 1, f, f, {}) BY <1>9, <1>10, <1>11 DEF Fits
<1> QED BY <1>7, <1>12

LEMMA ClearedKeeps ==
  ASSUME IInv, Cleared
  PROVE  IInv' /\ (SyncInv /\ ClearsOnce => SyncInv')
<1>0. /\ stack # <<>> /\ Top = stack[1] /\ stack[1].at = "clear" /\ stack[1].inc \in Incubators
      /\ 1 \in DOMAIN stack /\ stack[1] \in FrameType
  BY TopFrame DEF Cleared, At
<1> DEFINE i == stack[1].inc
<1>1. PICK f \in FrameType : f.at = "null" /\ Fits(1, 1, f, f, {}) BY ClearedFits
<1>2. Moves(stack, stack', 1, 1, f, f, {}) BY <1>1 DEF Fits
<1>3. StackInv' BY <1>1, FitsKeeps DEF IInv, StackInv
<1>4. /\ UNCHANGED <<unit, async, finalized, inside, waitingOnMe, list, owner, exists, calls>>
      /\ status' = [status EXCEPT ![i] = "null"]
      /\ progress' = [progress EXCEPT ![i] = "execute"]
      /\ result' = [result EXCEPT ![i] = FALSE] /\ errors' = [errors EXCEPT ![i] = FALSE]
      /\ creations' = IF stack[1].was = "loading" THEN creations - 1 ELSE creations
      /\ WaitingFor(i) = {}
  <2>1. status' = [status EXCEPT ![[stack[1] EXCEPT !.at = "null"].inc] = "null"]
    BY <1>0 DEF Cleared, ChangeStatus
  <2>2. [stack[1] EXCEPT !.at = "null"].inc = i BY <1>0 DEF FrameType
  <2> QED BY <1>0, <2>1, <2>2 DEF Cleared, IsCounted, contexts
<1>5. creations' >= Cardinality(Units') + Weight(stack') /\ creations' \in Nat
  <2>1. PICK k : Weighs(stack, stack', 1, 1, f, f, k) BY <1>2, MovesWeigh
  <2>2. ~Heavy(f) /\ (Heavy(stack[1]) <=> stack[1].was = "loading") BY <1>0, <1>1 DEF Heavy
  <2>3. Weight(stack) = Weight(stack') + (IF stack[1].was = "loading" THEN 1 ELSE 0)
        /\ Weight(stack') \in Nat
    BY <2>1, <2>2 DEF Weighs
  <2>4. Units' = Units BY <1>4 DEF Units
  <2>5. creations >= Cardinality(Units) + Weight(stack) /\ creations \in Nat
    BY DEF IInv, TypeOK
  <2>6. Cardinality(Units) \in Nat BY UnitsFinite
  <2> QED BY <1>4, <2>3, <2>4, <2>5, <2>6
<1>6. TypeOK'
  <2>1. \A x \in DOMAIN stack' : stack'[x] \in FrameType BY <1>3 DEF StackInv
  <2>2. \A x \in DOMAIN stack' : stack'[x].at \in Positions /\ stack'[x].inc \in Incubators
    BY <2>1 DEF FrameType
  <2> QED BY <1>0, <1>4, <1>5, <2>2 DEF IInv, TypeOK
<1>7. \A k \in Incubators \ {i} : status'[k] = status[k] BY <1>4 DEF IInv, TypeOK
<1>8. status'[i] = "null" BY <1>0, <1>4 DEF IInv, TypeOK
<1>9. ASSUME NEW k \in Incubators PROVE OneIncubator(k)'
  <2>1. OneIncubator(k) BY DEF IInv
  <2>2. ASSUME status'[k] = "loading", ~unit'[k]
        PROVE  \E y \in DOMAIN stack' :
                 stack'[y].at = "clear" /\ stack'[y].inc = k /\ stack'[y].was = "loading"
    <3>1. k # i /\ status[k] = "loading" /\ ~unit[k] BY <1>4, <1>7, <1>8, <2>2
    <3> QED BY <1>2, <3>1, LoadingStays
  <2>3. Listed(k)' BY <1>4, <2>1 DEF OneIncubator, Listed, In
  <2>4. Made(k)'
    <3>1. /\ progress'[i] = "execute" /\ ~result'[i]
          /\ k # i => progress'[k] = progress[k] /\ result'[k] = result[k]
                      /\ errors'[k] = errors[k] /\ status'[k] = status[k]
      BY <1>0, <1>4 DEF IInv, TypeOK
    <3>2. Made(k) BY <2>1 DEF OneIncubator
    <3> QED BY <1>4, <1>8, <3>1, <3>2 DEF Made, Has
  <2> QED BY <2>2, <2>3, <2>4 DEF OneIncubator
<1>10. Once(list)' BY <1>4 DEF IInv, Once
<1>11. ASSUME SyncInv, ClearsOnce PROVE SyncInv'
  <2>0. ~unit[i] BY <1>0, <1>11 DEF ClearsOnce
  <2>1. ASSUME NEW k \in Incubators PROVE OneSync(k)'
    <3>1. OneSync(k) BY <1>11 DEF SyncInv
    <3>2. Clearing(waitingOnMe[k]) => Clearing(waitingOnMe[k])'
      <4>1. PICK w : w = waitingOnMe[k] OBVIOUS
      <4>2. w # i BY <1>4, <4>1 DEF WaitingFor
      <4>3. Clearing(w) => Clearing(w)' BY <1>2, <4>2, ClearingStays
      <4> QED BY <1>4, <4>1, <4>3 DEF Clearing
    <3>3. ~Steady(stack[1]) BY <1>0 DEF Steady, Within
    <3>4. (\E x \in DOMAIN stack : stack[x].inc = k /\ Steady(stack[x])) =>
            (\E y \in DOMAIN stack' : stack'[y].inc = k /\ Steady(stack'[y]))
      BY <1>2, <3>3, SteadyStays
    <3>5. status'[k] = "null" => ~unit'[k] BY <1>4, <1>7, <2>0, <3>1 DEF OneSync
    <3>6. waitingOnMe[k] # NoIncubator /\ Failed(waitingOnMe[k]) => Failed(waitingOnMe[k])'
      <4>1. waitingOnMe[k] # i BY <1>4 DEF WaitingFor
      <4>2. waitingOnMe[k] \in Incubators \cup {NoIncubator} BY DEF IInv, TypeOK
      <4> QED BY <1>4, <1>7, <4>1, <4>2 DEF Failed
    <3> QED BY <1>4, <3>1, <3>2, <3>4, <3>5, <3>6 DEF OneSync, In
  <2>2. ASSUME NEW y \in DOMAIN stack' PROVE FrameSync(stack[y])'
    <3>1. CASE y = 1
      <4>1. stack'[1] = f BY <1>2 DEF Moves
      <4> QED BY <1>1, <3>1, <4>1 DEF FrameSync
    <3>2. CASE y # 1
      <4>1. y \in 1 + 1 .. Len(stack') BY <1>2, <3>2 DEF Moves
      <4> QED BY <1>2, <1>4, <1>11, <4>1, FrameSyncStays
    <3> QED BY <3>1, <3>2
  <2> QED BY <2>1, <2>2 DEF SyncInv
<1> QED BY <1>3, <1>5, <1>6, <1>9, <1>10, <1>11 DEF IInv, StackInv

-----------------------------------------------------------------------------
(* QQmlEnginePrivate::incubate().                                          *)

\* What both of its branches do: the incubator gets a frame, and is listed if it is
\* asynchronous; h is the incubator that it joins, M is what a watcher on it marks.
Starts(i, h, f, M) ==
  /\ Host(i, h) /\ waitingOnMe' = [waitingOnMe EXCEPT ![i] = Joined(i, h)]
  /\ f.at \in {"loading", "starting"} /\ f.inc = i /\ ~f.recursed /\ ~f.interrupts
  /\ Fits(0, 1, f, f, M)
  /\ status' = [status EXCEPT ![i] = "loading"]
  /\ \/ M = {} /\ async' = [async EXCEPT ![i] = TRUE] /\ list' = InFront(i)
        /\ (Mode[i] = "async" \/ h # NoIncubator)
     \/ M = {i} /\ async' = [async EXCEPT ![i] = FALSE] /\ list' = list
        /\ f.at = "starting"

LEMMA StartStarts ==
  ASSUME IInv, NEW i \in Incubators, Start(i)
  PROVE  \E h \in Incubators \cup {NoIncubator}, f \in FrameType, M \in {{}, {i}} :
           Starts(i, h, f, M)
<1>h. PICK h \in Incubators \cup {NoIncubator} :
        /\ Host(i, h) /\ waitingOnMe' = [waitingOnMe EXCEPT ![i] = Joined(i, h)]
        /\ \/ /\ Mode[i] = "async" \/ h # NoIncubator
              /\ async' = [async EXCEPT ![i] = TRUE] /\ list' = InFront(i)
              /\ ChangeStatus(Frame("loading", i, FALSE), "loading", stack)
           \/ /\ ~(Mode[i] = "async" \/ h # NoIncubator)
              /\ async' = [async EXCEPT ![i] = FALSE] /\ list' = list
              /\ ChangeStatus(Frame("starting", i, FALSE), "loading", Recurse(i, stack))
  BY DEF Start
<1>0. stack \in Seq(FrameType) /\ DOMAIN stack = 1 .. Len(stack) BY DEF IInv
<1>1. unit' = [unit EXCEPT ![i] = TRUE] /\ UNCHANGED <<progress, result, errors>>
  BY DEF Start
<1>2. stack = <<>> \/ stack[1].at \notin {"enter", "finish"}
  BY TopFrame DEF Start, MayStart, OneFrame
<1>3. ASSUME NEW at \in {"loading", "starting"}, NEW M \in {{}, {i}}, NEW r,
             MarkedBy(stack, r, M), ChangeStatus(Frame(at, i, FALSE), "loading", r)
      PROVE  \E f \in FrameType :
               /\ f.at = at /\ f.inc = i /\ ~f.recursed /\ ~f.interrupts
               /\ Fits(0, 1, f, f, M) /\ status' = [status EXCEPT ![i] = "loading"]
  <2>1. PICK g : g = Frame(at, i, FALSE) OBVIOUS
  <2>2. g \in FrameType /\ g.at = at /\ g.inc = i /\ ~g.recursed /\ ~g.interrupts
    BY <2>1 DEF Frame, FrameType, Positions, Statuses
  <2>3. PICK b \in BOOLEAN : b = (owner[i] /\ "loading" # status[i]) OBVIOUS
  <2>4. PICK f : f = [g EXCEPT !.callback = b] OBVIOUS
  <2>5. f \in FrameType /\ f.at = at /\ f.inc = i /\ ~f.recursed /\ ~f.interrupts
    BY <2>2, <2>4 DEF FrameType
  <2>6. stack' = <<f>> \o r /\ status' = [status EXCEPT ![i] = "loading"]
    BY <1>3, <2>1, <2>2, <2>3, <2>4 DEF ChangeStatus
  <2>7. Moves(stack, stack', 0, 1, f, f, M) BY <1>0, <1>3, <2>5, <2>6, PushMoves
  <2>8. RightFrame(f) /\ ~Overtakes(f)
    BY <2>5 DEF RightFrame, Going, Overtakes, Within
  <2>9. ASSUME NEW x \in 0 + 1 .. Len(stack), Going(stack[x])
        PROVE  unit'[stack[x].inc] /\ (Has(stack[x].inc) => WillHave(stack[x].inc))
    <3>1. x \in DOMAIN stack BY <1>0
    <3>2. OneFrame(x) /\ stack[x] \in FrameType BY <1>0, <3>1 DEF IInv
    <3>3. unit[stack[x].inc] /\ stack[x].inc \in Incubators
      BY <2>9, <3>2 DEF OneFrame, FrameType
    <3> QED BY <1>1, <3>3 DEF Has, WillHave, IInv, TypeOK
  <2>10. Fits(0, 1, f, f, M) BY <1>1, <1>2, <2>7, <2>8, <2>9 DEF Fits
  <2> QED BY <2>5, <2>6, <2>10
<1>4. CASE /\ Mode[i] = "async" \/ h # NoIncubator
           /\ async' = [async EXCEPT ![i] = TRUE] /\ list' = InFront(i)
           /\ ChangeStatus(Frame("loading", i, FALSE), "loading", stack)
  <2>1. MarkedBy(stack, stack, {}) BY <1>0, MarkedNone
  <2>2. PICK f \in FrameType :
          /\ f.at = "loading" /\ f.inc = i /\ ~f.recursed /\ ~f.interrupts
          /\ Fits(0, 1, f, f, {}) /\ status' = [status EXCEPT ![i] = "loading"]
    BY <1>3, <1>4, <2>1
  <2>3. Starts(i, h, f, {}) BY <1>h, <1>4, <2>2 DEF Starts
  <2> QED BY <2>3
<1>5. CASE /\ ~(Mode[i] = "async" \/ h # NoIncubator)
           /\ async' = [async EXCEPT ![i] = FALSE] /\ list' = list
           /\ ChangeStatus(Frame("starting", i, FALSE), "loading", Recurse(i, stack))
  <2>1. PICK r : r = Recurse(i, stack) OBVIOUS
  <2>2. MarkedBy(stack, r, {i}) BY <1>0, <2>1, MarkedOne
  <2>3. PICK f \in FrameType :
          /\ f.at = "starting" /\ f.inc = i /\ ~f.recursed /\ ~f.interrupts
          /\ Fits(0, 1, f, f, {i}) /\ status' = [status EXCEPT ![i] = "loading"]
    BY <1>3, <1>5, <2>1, <2>2
  <2>4. Starts(i, h, f, {i}) BY <1>h, <1>5, <2>3 DEF Starts
  <2> QED BY <2>4
<1> QED BY <1>h, <1>4, <1>5

LEMMA StartDoes ==
  ASSUME IInv, NEW i \in Incubators, Start(i), NEW h \in Incubators \cup {NoIncubator},
         NEW f, NEW M, Starts(i, h, f, M)
  PROVE  /\ unit' \in [Incubators -> BOOLEAN] /\ unit'[i]
         /\ async' \in [Incubators -> BOOLEAN]
         /\ waitingOnMe' \in [Incubators -> Incubators \cup {NoIncubator}]
         /\ waitingOnMe'[i] = Joined(i, h)
         /\ status' \in [Incubators -> Statuses] /\ status'[i] = "loading"
         /\ \A j \in Incubators \ {i} :
              /\ (unit'[j] <=> unit[j]) /\ (async'[j] <=> async[j])
              /\ waitingOnMe'[j] = waitingOnMe[j] /\ status'[j] = status[j]
         /\ list' \in Seq(Incubators) /\ Once(list')
         /\ \A n : In(list', n) <=> In(list, n) \/ (n = i /\ async'[i])
         /\ Cardinality(Units') <= Cardinality(Units) + 1 /\ Cardinality(Units') \in Nat
<1>0. /\ status \in [Incubators -> Statuses] /\ unit \in [Incubators -> BOOLEAN]
      /\ async \in [Incubators -> BOOLEAN]
      /\ waitingOnMe \in [Incubators -> Incubators \cup {NoIncubator}]
      /\ list \in Seq(Incubators) /\ Once(list)
  BY DEF IInv, TypeOK, Statuses
<1>1. /\ unit' = [unit EXCEPT ![i] = TRUE]
      /\ waitingOnMe' = [waitingOnMe EXCEPT ![i] = Joined(i, h)]
  BY DEF Start, Starts
<1>2. Joined(i, h) \in Incubators \cup {NoIncubator}
  BY <1>0, IncubatorAssumption DEF Joined
<1>3. /\ unit' \in [Incubators -> BOOLEAN] /\ unit'[i]
      /\ waitingOnMe' \in [Incubators -> Incubators \cup {NoIncubator}]
      /\ waitingOnMe'[i] = Joined(i, h)
      /\ \A j \in Incubators \ {i} : (unit'[j] <=> unit[j]) /\ waitingOnMe'[j] = waitingOnMe[j]
  BY <1>0, <1>1, <1>2
<1>4. /\ status' \in [Incubators -> Statuses] /\ status'[i] = "loading"
      /\ \A j \in Incubators \ {i} : status'[j] = status[j]
  BY <1>0 DEF Starts, Statuses
<1>5. /\ async' \in [Incubators -> BOOLEAN]
      /\ \A j \in Incubators \ {i} : async'[j] <=> async[j]
  BY <1>0 DEF Starts
<1>6. /\ list' \in Seq(Incubators) /\ Once(list')
      /\ \A n : In(list', n) <=> In(list, n) \/ (n = i /\ async'[i])
  <2>1. CASE async' = [async EXCEPT ![i] = TRUE] /\ list' = InFront(i)
    <3>1. PICK r : r = RemoveFirst(list, i) OBVIOUS
    <3>2. r \in Seq(Incubators) /\ Once(r) /\ \A n : In(r, n) <=> In(list, n) /\ n # i
      BY <1>0, <3>1, Removed
    <3>3. list' = <<i>> \o r BY <2>1, <3>1 DEF InFront
    <3>4. /\ list' \in Seq(Incubators) /\ Once(list')
          /\ \A n : In(list', n) <=> In(r, n) \/ n = i
      BY <3>2, <3>3, Fronted
    <3>5. async'[i] BY <1>0, <2>1
    <3> QED BY <3>2, <3>4, <3>5
  <2>2. CASE async' = [async EXCEPT ![i] = FALSE] /\ list' = list
    <3>1. ~async'[i] BY <1>0, <2>2
    <3> QED BY <1>0, <2>2, <3>1
  <2> QED BY <2>1, <2>2 DEF Starts
<1>7. Cardinality(Units') <= Cardinality(Units) + 1 /\ Cardinality(Units') \in Nat
  <2>1. PICK U : U = Units OBVIOUS
  <2>2. Units' = U \cup {i} BY <1>3, <2>1 DEF Units
  <2>3. IsFiniteSet(U) /\ Cardinality(U) \in Nat BY <2>1, UnitsFinite
  <2>4. Cardinality(U \cup {i}) = IF i \in U THEN Cardinality(U) ELSE Cardinality(U) + 1
    BY <2>3, FS_AddElement
  <2> QED BY <2>1, <2>2, <2>3, <2>4
<1> QED BY <1>3, <1>4, <1>5, <1>6, <1>7

LEMMA StartKeeps ==
  ASSUME IInv, NEW i \in Incubators, Start(i)
  PROVE  IInv'
<1>1. PICK h \in Incubators \cup {NoIncubator}, f \in FrameType, M \in {{}, {i}} :
        Starts(i, h, f, M)
  BY StartStarts
<1>2. Moves(stack, stack', 0, 1, f, f, M) BY <1>1 DEF Starts, Fits
<1>3. StackInv' BY <1>1, FitsKeeps DEF IInv, StackInv, Starts
<1>4. /\ unit' \in [Incubators -> BOOLEAN] /\ unit'[i]
      /\ async' \in [Incubators -> BOOLEAN]
      /\ waitingOnMe' \in [Incubators -> Incubators \cup {NoIncubator}]
      /\ waitingOnMe'[i] = Joined(i, h)
      /\ status' \in [Incubators -> Statuses]
      /\ \A j \in Incubators \ {i} :
           /\ (unit'[j] <=> unit[j]) /\ (async'[j] <=> async[j])
           /\ waitingOnMe'[j] = waitingOnMe[j] /\ status'[j] = status[j]
      /\ list' \in Seq(Incubators) /\ Once(list')
      /\ \A n : In(list', n) <=> In(list, n) \/ (n = i /\ async'[i])
      /\ Cardinality(Units') <= Cardinality(Units) + 1 /\ Cardinality(Units') \in Nat
  BY <1>1, StartDoes
<1>5. /\ creations' = creations + 1 /\ owner[i] /\ status[i] = "null"
      /\ UNCHANGED <<progress, errors, result, finalized, owner, exists>>
      /\ inside' \in [Incubators -> BOOLEAN]
  BY DEF Start, IInv, TypeOK
<1>6. TypeOK'
  <2>1. \A x \in DOMAIN stack' : stack'[x] \in FrameType BY <1>3 DEF StackInv
  <2>2. \A x \in DOMAIN stack' : stack'[x].at \in Positions /\ stack'[x].inc \in Incubators
    BY <2>1 DEF FrameType
  <2>3. calls' \in 0 .. MaxCalls BY IncubatorAssumption DEF Start, Called, IInv, TypeOK
  <2> QED BY <1>4, <1>5, <2>2, <2>3 DEF IInv, TypeOK, Statuses
<1>7. creations' >= Cardinality(Units') + Weight(stack')
  <2>1. PICK k : Weighs(stack, stack', 0, 1, f, f, k) BY <1>2, MovesWeigh
  <2>2. ~Heavy(f) BY <1>1 DEF Heavy, Starts
  <2>3. Weight(stack') = Weight(stack) /\ Weight(stack) \in Nat BY <2>1, <2>2 DEF Weighs
  <2>4. creations >= Cardinality(Units) + Weight(stack) /\ creations \in Nat
    BY DEF IInv, TypeOK
  <2>5. Cardinality(Units) \in Nat BY UnitsFinite
  <2> QED BY <1>4, <1>5, <2>3, <2>4, <2>5
<1>8. ASSUME NEW k \in Incubators PROVE OneIncubator(k)'
  <2>1. OneIncubator(k) BY DEF IInv
  <2>2. CASE k = i
    <3>1. exists'[i] BY <1>5, <2>1, <2>2 DEF OneIncubator, Listed
    <3>2. async'[i] => Mode[i] = "async" \/ h # NoIncubator BY <1>1 DEF Starts, IInv, TypeOK
    <3>3. Mode[i] = "nested" /\ async'[i] => waitingOnMe'[i] # NoIncubator
      BY <1>4, <3>2 DEF Joined
    <3>4. unit'[i] /\ async'[i] => In(list', i) BY <1>4
    <3>5. Made(i)'
      <4>1. Made(i) /\ status'[i] = "loading"
        BY <1>1, <2>1, <2>2 DEF OneIncubator, Starts, IInv, TypeOK
      <4>2. progress[i] \in {"completing", "completed"} => Has(i)
        BY <1>5, <4>1 DEF Made
      <4> QED BY <1>4, <1>5, <4>1, <4>2 DEF Made, Has
    <3>6. Listed(i)' BY <1>4, <2>2, <3>1, <3>3, <3>4 DEF Listed, In
    <3> QED BY <1>4, <2>2, <3>5, <3>6 DEF OneIncubator
  <2>3. CASE k # i
    <3>1. ASSUME status[k] = "loading", ~unit[k]
          PROVE  \E y \in DOMAIN stack' :
                   stack'[y].at = "clear" /\ stack'[y].inc = k /\ stack'[y].was = "loading"
      BY <1>2, <3>1, LoadingStays
    <3>2. In(list', k) <=> In(list, k) BY <1>4, <2>3
    <3>3. Listed(k)' BY <1>4, <1>5, <2>1, <2>3, <3>2 DEF OneIncubator, Listed, In
    <3>4. Made(k)' BY <1>4, <1>5, <2>1, <2>3 DEF OneIncubator, Made, Has
    <3> QED BY <1>4, <2>1, <2>3, <3>1, <3>3, <3>4 DEF OneIncubator
  <2> QED BY <2>2, <2>3
<1>9. Once(list)' BY <1>4 DEF Once
<1> QED BY <1>3, <1>6, <1>7, <1>8, <1>9 DEF IInv, StackInv

LEMMA StartSyncs ==
  ASSUME IInv, SyncInv, NEW i \in Incubators, Start(i)
  PROVE  SyncInv'
<1>1. PICK h \in Incubators \cup {NoIncubator}, f \in FrameType, M \in {{}, {i}} :
        Starts(i, h, f, M)
  BY StartStarts
<1>2. Moves(stack, stack', 0, 1, f, f, M) BY <1>1 DEF Starts, Fits
<1>3. /\ unit'[i] /\ waitingOnMe'[i] = Joined(i, h) /\ status'[i] = "loading"
      /\ \A j \in Incubators \ {i} :
           /\ (unit'[j] <=> unit[j]) /\ (async'[j] <=> async[j])
           /\ waitingOnMe'[j] = waitingOnMe[j] /\ status'[j] = status[j]
      /\ \A n : In(list', n) <=> In(list, n) \/ (n = i /\ async'[i])
  BY <1>1, StartDoes
<1>4. ~unit[i] /\ ~In(list, i) /\ waitingOnMe[i] = NoIncubator
  BY DEF Start, SyncInv, OneSync, IInv, OneIncubator, Listed
<1>5. 1 \in DOMAIN stack' /\ stack'[1] = f /\ Len(stack') \in Nat
      /\ DOMAIN stack' = 1 .. Len(stack')
  BY <1>2 DEF Moves
<1>6. ASSUME NEW k \in Incubators PROVE OneSync(k)'
  <2>1. OneSync(k) BY DEF SyncInv
  <2>2. status'[k] = "null" => ~unit'[k] BY <1>3, <2>1 DEF OneSync
  <2>3. In(list', k) => async'[k] BY <1>3, <1>4, <2>1 DEF OneSync
  <2>4. ASSUME waitingOnMe'[k] # NoIncubator
        PROVE  \/ unit'[waitingOnMe'[k]] /\ async'[waitingOnMe'[k]]
               \/ Clearing(waitingOnMe[k])' \/ Failed(waitingOnMe[k])'
    <3>1. PICK w : w = waitingOnMe'[k] OBVIOUS
    <3>2. CASE k = i
      <4>0. w = h /\ w \in Incubators
        BY <1>3, <1>4, <2>4, <3>1, <3>2, IncubatorAssumption DEF Joined
      <4>1. Names(w) /\ async[w]
        BY <1>1, <4>0, IncubatorAssumption DEF Starts, Host, Joins
      <4>m. Made(w) /\ status[w] \in Statuses /\ status[i] = "null"
        BY <4>0 DEF Start, IInv, OneIncubator, TypeOK, Statuses
      <4>2. CASE unit[w]
        <5>1. w # i BY <1>4, <4>2
        <5> QED BY <1>3, <3>1, <4>0, <4>1, <4>2, <5>1
      <4>3. CASE ~unit[w]
        <5>1. status[w] \in {"loading", "error"} BY <4>1, <4>m, <4>3 DEF Names, Made, Statuses
        <5>2. w # i BY <4>m, <5>1
        <5>3. CASE status[w] = "error"
          BY <1>3, <3>1, <4>0, <4>3, <5>2, <5>3 DEF Failed
        <5>4. CASE status[w] = "loading"
          <6>1. Clearing(w) BY <4>0, <4>3, <5>4 DEF IInv, OneIncubator, Clearing
          <6>2. Clearing(w)' BY <1>2, <6>1, ClearingStays
          <6> QED BY <3>1, <6>2 DEF Clearing
        <5> QED BY <5>1, <5>3, <5>4
      <4> QED BY <4>2, <4>3
    <3>3. CASE k # i
      <4>1. w = waitingOnMe[k] BY <1>3, <3>1, <3>3
      <4>2. w \in Incubators BY <2>4, <3>1, <4>1 DEF IInv, TypeOK
      <4>3. CASE unit[w] /\ async[w]
        <5>1. w # i BY <1>4, <4>3
        <5> QED BY <1>3, <3>1, <4>2, <4>3, <5>1
      <4>4. CASE Clearing(w)
        <5>1. Clearing(w)' BY <1>2, <4>4, ClearingStays
        <5> QED BY <3>1, <5>1 DEF Clearing
      <4>5. CASE Failed(w)
        <5>1. w # i BY <4>5 DEF Failed, Start
        <5> QED BY <1>3, <3>1, <4>2, <4>5, <5>1 DEF Failed
      <4> QED BY <2>1, <2>4, <3>1, <4>1, <4>3, <4>4, <4>5 DEF OneSync
    <3> QED BY <3>2, <3>3
  <2>5. ASSUME unit'[k], ~async'[k]
        PROVE  \E y \in DOMAIN stack' : stack'[y].inc = k /\ Steady(stack'[y])
    <3>1. CASE k = i
      <4>1. f.at = "starting" BY <1>1, <2>5, <3>1 DEF Starts, IInv, TypeOK
      <4>2. Steady(f) /\ f.inc = i BY <1>1, <4>1 DEF Starts, Steady
      <4> QED BY <1>5, <3>1, <4>2
    <3>2. CASE k # i
      <4>1. k \notin M /\ unit[k] /\ ~async[k] BY <1>3, <2>5, <3>2
      <4>2. \E x \in DOMAIN stack : stack[x].inc = k /\ Steady(stack[x])
        BY <2>1, <4>1 DEF OneSync
      <4> QED BY <1>2, <4>1, <4>2, SteadyStays
    <3> QED BY <3>1, <3>2
  <2> QED BY <2>2, <2>3, <2>4, <2>5 DEF OneSync, In
<1>7. ASSUME NEW y \in DOMAIN stack' PROVE FrameSync(stack[y])'
  <2>1. CASE y = 1 BY <1>1, <1>5, <2>1 DEF FrameSync, Starts
  <2>2. CASE y # 1
    <3>1. y \in 1 + 1 .. Len(stack') BY <1>5, <2>2
    <3>2. PICK x \in 0 + 1 .. Len(stack) : y - x = 1 - 0 /\ Kept(stack[x], stack'[y], M)
      BY <1>2, <3>1, Origin
    <3>3. x \in DOMAIN stack BY <1>2, <3>2 DEF Moves
    <3>4. FrameSync(stack[x]) /\ stack[x] \in FrameType BY <3>3 DEF SyncInv, IInv
    <3>5. stack'[y].at # "enter"
      <4>1. x # 1 \/ stack[x].at # "enter" BY <1>1 DEF Starts, Fits
      <4>2. OneFrame(x) BY <3>3 DEF IInv
      <4> QED BY <3>2, <4>1, <4>2 DEF OneFrame, Kept
    <3>6. ASSUME stack'[y].at = "ended", stack'[y].waiting # NoIncubator, ~stack'[y].recursed
          PROVE  async'[stack'[y].waiting] \/ ~unit'[stack'[y].waiting]
      <4>1. PICK w : w = stack'[y].waiting OBVIOUS
      <4>2. stack[x].at = "ended" /\ stack[x].waiting = w /\ ~stack[x].recursed /\ w \notin M
        BY <3>2, <3>6, <4>1 DEF Kept, Watched
      <4>3. w \in Incubators BY <3>4, <3>6, <4>1, <4>2 DEF FrameType
      <4>4. CASE w = i
        <5>1. async'[i] BY <1>1, <4>2, <4>4 DEF Starts, IInv, TypeOK
        <5> QED BY <4>1, <4>4, <5>1
      <4>5. CASE w # i
        <5>1. async[w] \/ ~unit[w] BY <3>4, <3>6, <4>1, <4>2 DEF FrameSync
        <5> QED BY <1>3, <4>1, <4>3, <4>5, <5>1
      <4> QED BY <4>4, <4>5
    <3> QED BY <3>5, <3>6 DEF FrameSync
  <2> QED BY <2>1, <2>2
<1> QED BY <1>6, <1>7 DEF SyncInv

-----------------------------------------------------------------------------
(* The destructors.                                                        *)

LEMMA ReapKeeps ==
  ASSUME IInv, NEW i \in Incubators, Reap(i)
  PROVE  IInv' /\ (SyncInv => SyncInv')
<1>1. /\ LetGo(i) /\ ~owner[i] /\ WaitingFor(i) = {}
      /\ \A x \in DOMAIN stack : stack[x].inc # i /\ stack[x].waiting # i
      /\ exists' = [exists EXCEPT ![i] = FALSE] /\ status' = [status EXCEPT ![i] = "null"]
      /\ result' = [result EXCEPT ![i] = FALSE]
      /\ progress' = [progress EXCEPT ![i] = "execute"]
      /\ UNCHANGED <<errors, async, finalized, inside, creations, owner, stack, calls>>
  BY DEF Reap, Unreferenced, contexts
<1>2. /\ unit' \in [Incubators -> BOOLEAN] /\ ~unit'[i]
      /\ waitingOnMe' \in [Incubators -> Incubators \cup {NoIncubator}]
      /\ waitingOnMe'[i] = NoIncubator
      /\ \A j \in Incubators \ {i} : (unit'[j] <=> unit[j]) /\ waitingOnMe'[j] = waitingOnMe[j]
      /\ list' \in Seq(Incubators) /\ Once(list')
      /\ \A n : In(list', n) <=> In(list, n) /\ n # i
      /\ Cardinality(Units') = Cardinality(Units) - (IF unit[i] THEN 1 ELSE 0)
  BY <1>1, LetGoDoes
<1>3. /\ status' \in [Incubators -> Statuses] /\ status'[i] = "null"
      /\ \A j \in Incubators \ {i} : status'[j] = status[j]
  BY <1>1 DEF IInv, TypeOK, Statuses
<1>4. TypeOK' BY <1>1, <1>2, <1>3 DEF IInv, TypeOK, Statuses
<1>5. ASSUME NEW x \in DOMAIN stack PROVE OneFrame(x)'
  <2>1. OneFrame(x) /\ stack[x].inc \in Incubators \ {i} BY <1>1 DEF IInv, TypeOK
  <2>2. /\ progress'[stack[x].inc] = progress[stack[x].inc]
        /\ result'[stack[x].inc] = result[stack[x].inc]
    BY <1>1, <2>1 DEF IInv, TypeOK
  <2> QED BY <1>1, <1>2, <2>1, <2>2 DEF OneFrame, Going, Has
<1>6. ASSUME NEW k \in Incubators PROVE OneIncubator(k)'
  <2>1. OneIncubator(k) BY DEF IInv
  <2>2. Listed(k)' BY <1>1, LetGoListed
  <2>3. Made(k)'
    <3>1. /\ progress'[i] = "execute" /\ ~result'[i]
          /\ k # i => progress'[k] = progress[k] /\ result'[k] = result[k]
      BY <1>1 DEF IInv, TypeOK
    <3> QED BY <1>1, <1>2, <1>3, <2>1, <3>1 DEF OneIncubator, Made, Has
  <2> QED BY <1>1, <1>2, <1>3, <2>1, <2>2, <2>3 DEF OneIncubator
<1>7. creations' >= Cardinality(Units') + Weight(stack')
  <2>1. Weight(stack) \in Nat /\ Cardinality(Units) \in Nat
    BY WeightNat, UnitsFinite DEF IInv
  <2>2. creations >= Cardinality(Units) + Weight(stack) /\ creations \in Nat
        /\ creations' = creations
    BY <1>1 DEF IInv, TypeOK
  <2>3. Weight(stack') = Weight(stack) BY <1>1
  <2> QED BY <1>2, <2>1, <2>2, <2>3
<1>8. Overtaken' /\ Once(list)' /\ stack' \in Seq(FrameType)
  <2>1. Overtaken' BY <1>1 DEF IInv, Overtaken, Going
  <2>2. Once(list)' BY <1>2 DEF Once
  <2> QED BY <1>1, <2>1, <2>2 DEF IInv
<1>9. IInv'
  <2>1. \A x \in DOMAIN stack' : OneFrame(x)' BY <1>1, <1>5
  <2> QED BY <1>4, <1>6, <1>7, <1>8, <2>1 DEF IInv
<1>10. ASSUME SyncInv PROVE SyncInv'
  <2>1. ASSUME NEW k \in Incubators PROVE OneSync(k)'
    <3>1. OneSync(k) BY <1>10 DEF SyncInv
    <3>2. CASE k = i BY <1>2, <3>2 DEF OneSync, In
    <3>3. CASE k # i
      <4>1. waitingOnMe[k] # i BY <1>1 DEF WaitingFor
      <4>2. waitingOnMe[k] \in Incubators \cup {NoIncubator} BY DEF IInv, TypeOK
      <4>3. waitingOnMe'[k] # NoIncubator =>
              \/ unit'[waitingOnMe'[k]] /\ async'[waitingOnMe'[k]]
              \/ Clearing(waitingOnMe[k])' \/ Failed(waitingOnMe[k])'
        BY <1>1, <1>2, <1>3, <3>1, <3>3, <4>1, <4>2 DEF OneSync, Clearing, Failed
      <4> QED BY <1>1, <1>2, <1>3, <3>1, <3>3, <4>3 DEF OneSync, In
    <3> QED BY <3>2, <3>3
  <2>2. ASSUME NEW y \in DOMAIN stack PROVE FrameSync(stack[y])'
    <3>1. FrameSync(stack[y]) /\ stack[y] \in FrameType BY <1>10 DEF SyncInv, IInv
    <3>2. \A j \in Incubators : unit'[j] => unit[j] BY <1>2
    <3> QED BY <1>1, <3>1, <3>2 DEF FrameSync, FrameType
  <2>3. \A y \in DOMAIN stack' : FrameSync(stack[y])' BY <1>1, <2>2
  <2> QED BY <2>1, <2>3 DEF SyncInv
<1> QED BY <1>9, <1>10

LEMMA DeleteKeeps ==
  ASSUME IInv, NEW i \in Incubators, Delete(i)
  PROVE  IInv' /\ (SyncInv => SyncInv')
<1>1. /\ owner' = [owner EXCEPT ![i] = FALSE] /\ calls' \in 0 .. MaxCalls
      /\ UNCHANGED <<incubation, creations, exists, stack>>
  BY IncubatorAssumption DEF Delete, Called, IInv, TypeOK
<1>2. TypeOK' BY <1>1 DEF IInv, TypeOK, incubation, contexts
<1>3. \A x \in DOMAIN stack : OneFrame(x)'
  BY <1>1 DEF IInv, OneFrame, Going, Has, incubation
<1>4. ASSUME NEW k \in Incubators PROVE OneIncubator(k)'
  <2>1. OneIncubator(k) BY DEF IInv
  <2>2. owner'[k] => owner[k] BY <1>1 DEF IInv, TypeOK
  <2>3. Listed(k)' BY <1>1, <2>1, <2>2 DEF OneIncubator, Listed, In, incubation
  <2>4. Made(k)' BY <1>1, <2>1 DEF OneIncubator, Made, Has, incubation, contexts
  <2> QED BY <1>1, <2>1, <2>3, <2>4 DEF OneIncubator, incubation
<1>5. creations' >= Cardinality(Units') + Weight(stack')
  BY <1>1 DEF IInv, Units, incubation
<1>6. Overtaken' /\ Once(list)' /\ stack' \in Seq(FrameType)
  BY <1>1 DEF IInv, Overtaken, Once, Going, incubation
<1>7. IInv'
  <2>1. \A x \in DOMAIN stack' : OneFrame(x)' BY <1>1, <1>3
  <2> QED BY <1>2, <1>4, <1>5, <1>6, <2>1 DEF IInv
<1>8. ASSUME SyncInv PROVE SyncInv'
  BY <1>1, <1>8 DEF SyncInv, OneSync, FrameSync, Clearing, Failed, Steady, In, incubation
<1> QED BY <1>7, <1>8

LEMMA StutterKeeps ==
  ASSUME IInv, UNCHANGED vars
  PROVE  IInv' /\ (SyncInv => SyncInv')
<1>1. UNCHANGED <<status, progress, errors, unit, result, async, finalized, inside, waitingOnMe,
                  list, creations, owner, exists, stack, calls>>
  BY DEF vars, incubation, contexts
<1>2. TypeOK' BY <1>1 DEF IInv, TypeOK
<1>3. \A x \in DOMAIN stack' : OneFrame(x)' BY <1>1 DEF IInv, OneFrame, Going, Has
<1>4. \A k \in Incubators : OneIncubator(k)'
  BY <1>1 DEF IInv, OneIncubator, Listed, Made, Has, In
<1>5. creations' >= Cardinality(Units') + Weight(stack') BY <1>1 DEF IInv, Units
<1>6. Overtaken' /\ Once(list)' /\ stack' \in Seq(FrameType)
  BY <1>1 DEF IInv, Overtaken, Once, Going
<1>7. IInv' BY <1>2, <1>3, <1>4, <1>5, <1>6 DEF IInv
<1>8. ASSUME SyncInv PROVE SyncInv'
  BY <1>1, <1>8 DEF SyncInv, OneSync, FrameSync, Clearing, Failed, Steady, In
<1> QED BY <1>7, <1>8

-----------------------------------------------------------------------------
(* The theorems.                                                           *)

LEMMA InitHolds ==
  ASSUME Init
  PROVE  IInv /\ SyncInv
<1>1. Cardinality(Units) = 0 BY FS_EmptySet DEF Init, Units
<1>2. Weight(stack) = 0 BY FS_EmptySet DEF Init, Weight
<1>3. stack = <<>> /\ list = <<>> /\ creations = 0 BY DEF Init
<1>4. TypeOK BY <1>3, IncubatorAssumption DEF Init, TypeOK
<1>5. \A i \in Incubators : OneIncubator(i) BY <1>3 DEF Init, OneIncubator, Listed, Made, In
<1>6. IInv BY <1>1, <1>2, <1>3, <1>4, <1>5 DEF IInv, Overtaken, Once
<1>7. SyncInv BY <1>3 DEF Init, SyncInv, OneSync, In
<1> QED BY <1>6, <1>7

LEMMA NextKeeps ==
  ASSUME IInv, [Next]_vars
  PROVE  IInv' /\ (SyncInv /\ ClearsOnce => SyncInv')
<1>q. ASSUME Quietly PROVE IInv' /\ (SyncInv /\ ClearsOnce => SyncInv')
  BY <1>q, QuietKeeps, QuietSyncs
<1>1. CASE Enter BY <1>1, <1>q, EnterQuiet
<1>2. CASE Create BY <1>2, <1>q, CreateQuiet
<1>3. CASE Initialized BY <1>3, <1>q, InitializedQuiet
<1>4. CASE Checked BY <1>4, <1>q, CheckedQuiet
<1>5. CASE Finalize BY <1>5, <1>q, FinalizeQuiet
<1>6. CASE Finish
  <2>1. CASE FinishWaits BY <1>q, <2>1, FinishQuiet
  <2>2. CASE FinishEnds BY <2>2, FinishKeeps, FinishSyncs
  <2> QED BY <1>6, <2>1, <2>2 DEF FinishWaits, FinishEnds
<1>7. CASE Ended BY <1>7, <1>q, EndedQuiet
<1>8. CASE Count BY <1>8, CountKeeps
<1>9. CASE Started BY <1>9, <1>q, StartedQuiet
<1>10. CASE Returned BY <1>10, <1>q, ReturnedQuiet
<1>11. CASE ForceLoop BY <1>11, <1>q, ForceLoopQuiet
<1>12. CASE ClearNext
  <2>1. PICK i \in Incubators : BeginsClear(i) BY <1>12, ClearNextBegins
  <2> QED BY <2>1, BeginsClearKeeps, BeginsClearSyncs
<1>13. CASE Cleared BY <1>13, ClearedKeeps
<1>14. CASE IncubateFor BY <1>14, <1>q, IncubateForQuiet
<1>15. ASSUME NEW i \in Incubators, Reap(i)
       PROVE  IInv' /\ (SyncInv /\ ClearsOnce => SyncInv')
  BY <1>15, ReapKeeps
<1>16. ASSUME NEW i \in Incubators, Start(i)
       PROVE  IInv' /\ (SyncInv /\ ClearsOnce => SyncInv')
  BY <1>16, StartKeeps, StartSyncs
<1>17. ASSUME NEW i \in Incubators, Clear(i)
       PROVE  IInv' /\ (SyncInv /\ ClearsOnce => SyncInv')
  BY <1>17, ClearBegins, BeginsClearKeeps, BeginsClearSyncs
<1>18. ASSUME NEW i \in Incubators, ForceCompletion(i)
       PROVE  IInv' /\ (SyncInv /\ ClearsOnce => SyncInv')
  BY <1>18, <1>q, ForceCompletionQuiet
<1>19. ASSUME NEW i \in Incubators, Delete(i)
       PROVE  IInv' /\ (SyncInv /\ ClearsOnce => SyncInv')
  BY <1>19, DeleteKeeps
<1>20. CASE UNCHANGED vars BY <1>20, StutterKeeps
<1> QED
  BY <1>1, <1>2, <1>3, <1>4, <1>5, <1>6, <1>7, <1>8, <1>9, <1>10, <1>11, <1>12, <1>13,
     <1>14, <1>15, <1>16, <1>17, <1>18, <1>19, <1>20 DEF Next, Engine, Incubate, Program

\* Whatever the callbacks do: every variable keeps its type, the list holds what has a
\* unit and no private that is gone, what is nested and being created keeps something
\* waiting, what is Ready has been finalized, and every unit is counted in
\* inProgressCreations.
THEOREM Invariance == Spec => []IInv
<1>1. Init => IInv BY InitHolds
<1>2. IInv /\ [Next]_vars => IInv' BY NextKeeps
<1> QED BY <1>1, <1>2, PTL DEF Spec

\* inProgressCreations does not drop below the number of incubators that are loading.
THEOREM CountIsKept == Spec => []NeverUndercounted
<1>1. IInv => NeverUndercounted
  <2>1. SUFFICES ASSUME IInv, stack = <<>>
                 PROVE  creations >= Cardinality({i \in Incubators : status[i] = "loading"})
    BY DEF NeverUndercounted
  <2> DEFINE L == {i \in Incubators : status[i] = "loading"}
  <2>2. L \subseteq Units BY <2>1 DEF Units, IInv, OneIncubator
  <2>3. IsFiniteSet(Units) /\ Cardinality(Units) \in Nat BY UnitsFinite
  <2>4. Cardinality(L) <= Cardinality(Units) /\ Cardinality(L) \in Nat
    <3> HIDE DEF L
    <3> QED BY <2>2, <2>3, FS_Subset, FS_CardinalityType
  <2>5. Weight(stack) \in Nat BY <2>1, WeightNat DEF IInv
  <2>6. creations >= Cardinality(Units) + Weight(stack) /\ creations \in Nat
    BY <2>1 DEF IInv, TypeOK
  <2> QED BY <2>3, <2>4, <2>5, <2>6
<1> QED BY <1>1, Invariance, PTL

\* Whole(i): what ReadyIsWhole says of a step.
Whole(i) ==
  status[i] # "ready" /\ status'[i] = "ready" =>
    result[i] /\ ~errors[i] /\ WaitingFor(i) = {}
    /\ \A j \in Incubators : Mode[j] = "nested" /\ async[j] /\ unit[j] =>
         waitingOnMe[j] \notin {i, NoIncubator}

LEMMA NextWhole ==
  ASSUME IInv, [Next]_vars, NEW i \in Incubators
  PROVE  Whole(i)
<1>t. /\ status \in [Incubators -> Statuses]
      /\ stack # <<>> => /\ Top = stack[1] /\ stack[1].inc \in Incubators
                         /\ stack[1] \in FrameType
  BY TopFrame DEF IInv, TypeOK, Statuses
<1>1. CASE status' = status BY <1>1 DEF Whole
<1>2. ASSUME NEW j \in Incubators, NEW s \in {"null", "loading", "error"},
             status' = [status EXCEPT ![j] = s]
      PROVE  Whole(i)
  BY <1>t, <1>2 DEF Whole
<1>3. CASE Initialized
  <2>1. CASE status' = status BY <2>1, <1>1
  <2>2. CASE status' # status
    <3>0. stack # <<>> BY <1>3 DEF Initialized, At
    <3>1. PICK failed \in {errors[stack[1].inc], TRUE} :
            ChangeStatus([stack[1] EXCEPT !.at = "checked"],
                         CalculateStatus(stack[1].inc, failed, failed, TRUE), Rest)
      BY <1>3, <1>t, <2>2, <3>0 DEF Initialized
    <3>2. [stack[1] EXCEPT !.at = "checked"].inc = stack[1].inc BY <1>t, <3>0 DEF FrameType
    <3>3. PICK s : s = CalculateStatus(stack[1].inc, failed, failed, TRUE) OBVIOUS
    <3>4. s \in {"error", "loading"} BY <3>3 DEF CalculateStatus
    <3>5. status' = [status EXCEPT ![stack[1].inc] = s] BY <3>1, <3>2, <3>3 DEF ChangeStatus
    <3> QED BY <1>2, <1>t, <3>0, <3>4, <3>5
  <2> QED BY <2>1, <2>2
<1>4. CASE FinishEnds
  <2>0. stack # <<>> BY <1>4 DEF FinishEnds, Finish, At
  <2> DEFINE k == stack[1].inc
             h == [stack[1] EXCEPT !.at = "ended", !.waiting = waitingOnMe[k],
                                   !.recursed = FALSE]
  <2>1. PICK s : s = CalculateStatus(k, errors[k], TRUE, FALSE) OBVIOUS
  <2>2. h.inc = k BY <1>t, <2>0 DEF FrameType
  <2>3. status' = [status EXCEPT ![h.inc] = s] /\ WaitingFor(k) = {}
    BY <1>4, <1>t, <2>0, <2>1 DEF FinishEnds, Finish, ChangeStatus
  <2>4. s = "ready" => result[k] /\ ~errors[k] BY <2>1 DEF CalculateStatus
  <2>5. ASSUME NEW j \in Incubators, Mode[j] = "nested", async[j], unit[j]
        PROVE  waitingOnMe[j] \notin {k, NoIncubator}
    <3>1. waitingOnMe[j] # NoIncubator BY <2>5 DEF IInv, OneIncubator, Listed
    <3> QED BY <2>3, <3>1 DEF WaitingFor
  <2>6. status'[i] = (IF i = k THEN s ELSE status[i])
    BY <1>t, <2>0, <2>2, <2>3
  <2>7. CASE i = k BY <2>3, <2>4, <2>5, <2>6, <2>7 DEF Whole
  <2>8. CASE i # k BY <2>6, <2>8 DEF Whole
  <2> QED BY <2>7, <2>8
<1>5. CASE Cleared
  <2>0. stack # <<>> BY <1>5 DEF Cleared, At
  <2>1. status' = [status EXCEPT ![[stack[1] EXCEPT !.at = "null"].inc] = "null"]
    BY <1>5, <1>t, <2>0 DEF Cleared, ChangeStatus
  <2>2. [stack[1] EXCEPT !.at = "null"].inc = stack[1].inc BY <1>t, <2>0 DEF FrameType
  <2> QED BY <1>2, <1>t, <2>0, <2>1, <2>2
<1>6. ASSUME NEW j \in Incubators, Start(j) PROVE Whole(i)
  <2>1. PICK h, f, M : Starts(j, h, f, M) BY <1>6, StartStarts
  <2>2. status' = [status EXCEPT ![j] = "loading"] BY <2>1 DEF Starts
  <2> QED BY <1>2, <2>2
<1>7. ASSUME NEW j \in Incubators, Reap(j) PROVE Whole(i)
  BY <1>2, <1>7 DEF Reap
<1>8. CASE FinishWaits BY <1>1, <1>8 DEF FinishWaits, Finish
<1>9. CASE Enter \/ Create \/ Checked \/ Finalize \/ Ended \/ Count \/ Started \/ Returned
  BY <1>1, <1>9 DEF Enter, Create, Checked, Finalize, Ended, Count, Started, Returned,
                    incubation
<1>10. CASE ForceLoop \/ ClearNext \/ IncubateFor
  BY <1>1, <1>10 DEF ForceLoop, ClearNext, IncubateFor, incubation
<1>11. ASSUME NEW j \in Incubators, Clear(j) \/ ForceCompletion(j) \/ Delete(j) PROVE Whole(i)
  BY <1>1, <1>11 DEF Clear, ForceCompletion, Delete, incubation
<1>12. CASE UNCHANGED vars BY <1>1, <1>12 DEF vars, incubation
<1> QED
  BY <1>3, <1>4, <1>5, <1>6, <1>7, <1>8, <1>9, <1>10, <1>11, <1>12
  DEF Next, Engine, Incubate, Program, FinishWaits, FinishEnds

\* What becomes Ready has an object and no errors and waits for nothing, and nothing that
\* is nested, however deep, and still being created has been left with nobody waiting.
THEOREM ReadyAreWhole == Spec => ReadyIsWhole
<1>1. IInv /\ [Next]_vars =>
        [\A i \in Incubators : status[i] # "ready" /\ status'[i] = "ready" =>
           result[i] /\ ~errors[i] /\ WaitingFor(i) = {}
           /\ \A j \in Incubators : Mode[j] = "nested" /\ async[j] /\ unit[j] =>
                waitingOnMe[j] \notin {i, NoIncubator}]_vars
  BY NextWhole DEF Whole
<1> QED BY <1>1, Invariance, PTL DEF Spec, ReadyIsWhole

\* While what is being cleared is not started again, as the code asserts, the list is
\* exact: it has all that is loading when the event loop is reached, and what waits
\* waits for something that is still incubated, or that failed and was joined since.
THEOREM ListStaysExact == Spec /\ []ClearsOnce => []ListIsExact
<1>1. Init => IInv /\ SyncInv BY InitHolds
<1>2. IInv /\ SyncInv /\ ClearsOnce /\ [Next]_vars => (IInv /\ SyncInv)' BY NextKeeps
<1>3. IInv /\ SyncInv => ListIsExact
  <2>1. SUFFICES ASSUME IInv, SyncInv PROVE ListIsExact OBVIOUS
  <2>2. TypeOK /\ list \in Seq(Incubators) BY <2>1 DEF IInv, TypeOK
  <2>3. \A i : i \in ToSet(list) <=> In(list, i) BY <2>2 DEF ToSet, In
  <2>4. IsInjective(list) BY <2>1 DEF IInv, Once, IsInjective
  <2>5. \A i \in ToSet(list) : i \in Incubators BY <2>2, <2>3 DEF In
  <2>6. \A i \in ToSet(list) : unit[i] /\ async[i] /\ exists[i]
    BY <2>1, <2>3, <2>5 DEF IInv, OneIncubator, Listed, SyncInv, OneSync
  <2>7. \A i \in Incubators : unit[i] /\ async[i] => i \in ToSet(list)
    BY <2>1, <2>3 DEF IInv, OneIncubator, Listed
  <2>8. ASSUME stack = <<>>, NEW i \in Incubators
        PROVE  /\ status[i] = "loading" => i \in ToSet(list)
               /\ waitingOnMe[i] # NoIncubator =>
                    unit[i] /\ (unit[waitingOnMe[i]] \/ status[waitingOnMe[i]] = "error")
    <3>1. OneIncubator(i) /\ OneSync(i) BY <2>1 DEF IInv, SyncInv
    <3>2. status[i] = "loading" => i \in ToSet(list)
      BY <2>7, <2>8, <3>1 DEF OneIncubator, OneSync
    <3>3. waitingOnMe[i] # NoIncubator =>
            unit[i] /\ (unit[waitingOnMe[i]] \/ status[waitingOnMe[i]] = "error")
      BY <2>8, <3>1 DEF OneIncubator, Listed, OneSync, Clearing, Failed
    <3> QED BY <3>2, <3>3
  <2> QED BY <2>2, <2>4, <2>6, <2>7, <2>8 DEF ListIsExact
<1> QED BY <1>1, <1>2, <1>3, PTL DEF Spec

=============================================================================

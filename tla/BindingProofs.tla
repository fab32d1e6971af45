---------------------------- MODULE BindingProofs ----------------------------
(***************************************************************************)
(* What Binding promises, proved for any properties, bindings, handlers    *)
(* and guards, any number of calls and any depth of calls.                 *)
(***************************************************************************)
EXTENDS Binding, SequenceLemmas, FiniteSetTheorems

-----------------------------------------------------------------------------
(* Lists that endpoints are taken out of.                                  *)

\* f[m] is what is left of the first m in the list.
Filters(f, list, S) ==
  f = [m \in 0 .. Len(list) |->
        IF m = 0 THEN <<>>
        ELSE IF list[m] \in S THEN f[m - 1] ELSE Append(f[m - 1], list[m])]

LEMMA FiltersSteps ==
  ASSUME NEW E, NEW list \in Seq(E), NEW S, NEW f, f = [m \in 0 .. Len(list) |-> f[m]],
         f[0] = <<>>,
         \A m \in 1 .. Len(list) :
           f[m] = IF list[m] \in S THEN f[m - 1] ELSE Append(f[m - 1], list[m])
  PROVE  Filters(f, list, S)
<1> DEFINE g == [m \in 0 .. Len(list) |->
                  IF m = 0 THEN <<>>
                  ELSE IF list[m] \in S THEN f[m - 1] ELSE Append(f[m - 1], list[m])]
<1>1. \A m \in 0 .. Len(list) : f[m] = g[m] OBVIOUS
<1>2. g = [m \in 0 .. Len(list) |-> g[m]] OBVIOUS
<1> HIDE DEF g
<1>3. f = g BY <1>1, <1>2
<1> QED BY <1>3 DEF Filters, g

LEMMA FiltersThere ==
  ASSUME NEW E, NEW list \in Seq(E), NEW S
  PROVE  \E f : Filters(f, list, S)
<1> DEFINE P(n, f) ==
             /\ f \in [0 .. n -> Seq(E)] /\ f[0] = <<>>
             /\ \A m \in 1 .. n :
                  f[m] = IF list[m] \in S THEN f[m - 1] ELSE Append(f[m - 1], list[m])
           T == {n \in 0 .. Len(list) : ~\E f : P(n, f)}
<1>0. Len(list) \in Nat /\ list \in [1 .. Len(list) -> E] OBVIOUS
<1>1. CASE T # {}
  <2>2. PICK n \in T : \A k \in T : n <= k
    <3>1. T \in SUBSET Nat BY <1>0
    <3> HIDE DEF T
    <3> QED BY <1>1, <3>1, Least
  <2>3. P(0, [m \in 0 .. 0 |-> <<>>]) OBVIOUS
  <2>4. n # 0
    <3> HIDE DEF P
    <3> QED BY <2>2, <2>3
  <2>5. n \in 1 .. Len(list) /\ n - 1 \in 0 .. Len(list) /\ n - 1 \notin T
    <3> HIDE DEF P
    <3> QED BY <1>0, <2>2, <2>4
  <2>6. PICK f : P(n - 1, f)
    <3> HIDE DEF P
    <3> QED BY <2>5
  <2>7. PICK last \in Seq(E) :
          last = IF list[n] \in S THEN f[n - 1] ELSE Append(f[n - 1], list[n])
    <3>1. PICK prev \in Seq(E), e \in E : prev = f[n - 1] /\ e = list[n]
      BY <1>0, <2>5, <2>6
    <3>2. Append(prev, e) \in Seq(E) OBVIOUS
    <3>3. (IF list[n] \in S THEN prev ELSE Append(prev, e)) \in Seq(E) BY <3>2
    <3> QED BY <3>1, <3>3
  <2> DEFINE g == [m \in 0 .. n |-> IF m = n THEN last ELSE f[m]]
  <2>9. g \in [0 .. n -> Seq(E)]
    <3>1. ASSUME NEW m \in 0 .. n PROVE g[m] \in Seq(E)
      <4>1. CASE m = n BY <2>7, <4>1
      <4>2. CASE m # n
        <5>1. m \in 0 .. n - 1 BY <2>5, <4>2
        <5> QED BY <2>6, <4>2, <5>1
      <4> QED BY <4>1, <4>2
    <3> QED BY <3>1
  <2>10. g[0] = <<>> BY <2>5, <2>6
  <2>11. ASSUME NEW m \in 1 .. n
         PROVE  g[m] = IF list[m] \in S THEN g[m - 1] ELSE Append(g[m - 1], list[m])
    <3>1. CASE m = n
      <4>1. g[m] = last /\ g[m - 1] = f[n - 1] BY <2>5, <3>1
      <4> QED BY <2>7, <3>1, <4>1
    <3>2. CASE m # n
      <4>1. m \in 1 .. n - 1 /\ m - 1 # n /\ m - 1 \in 0 .. n BY <2>5, <3>2
      <4>2. f[m] = IF list[m] \in S THEN f[m - 1] ELSE Append(f[m - 1], list[m])
        BY <2>6, <4>1
      <4>3. g[m] = f[m] /\ g[m - 1] = f[m - 1] BY <3>2, <4>1
      <4> QED BY <4>2, <4>3
    <3> QED BY <3>1, <3>2
  <2>12. P(n, g)
    <3> HIDE DEF g
    <3> QED BY <2>9, <2>10, <2>11
  <2> HIDE DEF P
  <2> QED BY <2>2, <2>12
<1>2. CASE T = {}
  <2>1. PICK f : P(Len(list), f)
    <3>1. Len(list) \notin T BY <1>2
    <3> HIDE DEF P
    <3> QED BY <1>0, <3>1
  <2>2. f = [m \in 0 .. Len(list) |-> f[m]] BY <2>1
  <2> QED BY <2>1, <2>2, FiltersSteps
<1> QED BY <1>1, <1>2

\* What the filter has kept of the first m.
KeptOf(t, list, S, m, E) ==
  /\ t \in Seq(E)
  /\ \A n : In(t, n) <=> n \notin S /\ \E k \in 1 .. m : list[k] = n
  /\ Once(list) => Once(t)

LEMMA FiltersKeep ==
  ASSUME NEW E, NEW list \in Seq(E), NEW S, NEW f, Filters(f, list, S)
  PROVE  \A m \in 0 .. Len(list) : KeptOf(f[m], list, S, m, E)
<1> DEFINE T == {m \in 0 .. Len(list) : ~KeptOf(f[m], list, S, m, E)}
<1>0. Len(list) \in Nat /\ list \in [1 .. Len(list) -> E] /\ DOMAIN list = 1 .. Len(list) OBVIOUS
<1>1. /\ f[0] = <<>>
      /\ \A m \in 1 .. Len(list) :
           f[m] = IF list[m] \in S THEN f[m - 1] ELSE Append(f[m - 1], list[m])
  <2>1. 0 \in 0 .. Len(list) /\ \A m \in 1 .. Len(list) : m \in 0 .. Len(list) /\ m # 0
    BY <1>0
  <2>2. \A m \in 0 .. Len(list) :
          f[m] = IF m = 0 THEN <<>>
                 ELSE IF list[m] \in S THEN f[m - 1] ELSE Append(f[m - 1], list[m])
    BY ZenonT(30) DEF Filters
  <2> QED BY <2>1, <2>2
<1>2. CASE T # {}
  <2>1. PICK m \in T : \A k \in T : m <= k
    <3>1. T \in SUBSET Nat BY <1>0
    <3> HIDE DEF T
    <3> QED BY <1>2, <3>1, Least
  <2>2. m # 0
    <3>1. KeptOf(<<>>, list, S, 0, E) BY DEF KeptOf, In, Once
    <3> QED BY <1>1, <2>1, <3>1
  <2>3. m \in 1 .. Len(list) /\ m - 1 \in 0 .. Len(list) BY <1>0, <2>1, <2>2
  <2>4. KeptOf(f[m - 1], list, S, m - 1, E) BY <1>0, <2>1, <2>3
  <2>5. PICK p, q : p = f[m - 1] /\ q = list[m] /\ q \in E BY <1>0, <2>3
  <2>6. \A k : k \in 1 .. m <=> k \in 1 .. m - 1 \/ k = m BY <2>3
  <2>7. CASE q \in S
    <3>1. f[m] = p BY <1>1, <2>3, <2>5, <2>7
    <3>2. \A n : n \notin S => ((\E k \in 1 .. m : list[k] = n) <=>
                                 \E k \in 1 .. m - 1 : list[k] = n)
      BY <2>5, <2>6, <2>7
    <3>3. KeptOf(p, list, S, m, E) BY <2>4, <2>5, <3>2 DEF KeptOf
    <3> QED BY <2>1, <3>1, <3>3
  <2>8. CASE q \notin S
    <3>1. f[m] = Append(p, q) BY <1>1, <2>3, <2>5, <2>8
    <3>2. p \in Seq(E) BY <2>4, <2>5 DEF KeptOf
    <3>3. PICK t \in Seq(E) : t = Append(p, q)
      <4>1. Append(p, q) \in Seq(E) BY <2>5, <3>2
      <4> QED BY <4>1
    <3>4. /\ DOMAIN p = 1 .. Len(p) /\ DOMAIN t = 1 .. Len(p) + 1 /\ Len(p) \in Nat
          /\ t[Len(p) + 1] = q /\ \A k \in 1 .. Len(p) : t[k] = p[k]
      BY <3>2, <3>3
    <3>5. \A n : In(t, n) <=> In(p, n) \/ n = q BY <3>4 DEF In
    <3>6. \A n : In(p, n) <=> n \notin S /\ \E k \in 1 .. m - 1 : list[k] = n
      BY <2>4, <2>5 DEF KeptOf
    <3>7. \A n : In(t, n) <=> n \notin S /\ \E k \in 1 .. m : list[k] = n
      BY <2>5, <2>6, <2>8, <3>5, <3>6
    <3>8. ASSUME Once(list) PROVE Once(t)
      <4>1. Once(p) BY <2>4, <2>5, <3>8 DEF KeptOf
      <4>2. ~In(p, q)
        <5>1. ASSUME In(p, q) PROVE FALSE
          <6>1. PICK k \in 1 .. m - 1 : list[k] = list[m] BY <2>5, <3>6, <5>1
          <6>2. k \in DOMAIN list /\ m \in DOMAIN list /\ k # m BY <1>0, <2>3
          <6> QED BY <3>8, <6>1, <6>2 DEF Once
        <5> QED BY <5>1
      <4> QED BY <3>2, <3>3, <4>1, <4>2, Appended
    <3>9. KeptOf(t, list, S, m, E) BY <3>7, <3>8 DEF KeptOf
    <3> QED BY <2>1, <3>1, <3>3, <3>9
  <2> QED BY <2>7, <2>8
<1>3. CASE T = {} BY <1>3
<1> QED BY <1>2, <1>3

\* Without() takes out the endpoints and nothing else.
LEMMA WithoutKeeps ==
  ASSUME NEW E, NEW list \in Seq(E), NEW S
  PROVE  /\ Without(list, S) \in Seq(E)
         /\ \A n : In(Without(list, S), n) <=> In(list, n) /\ n \notin S
         /\ Once(list) => Once(Without(list, S))
<1> DEFINE f == CHOOSE g : Filters(g, list, S)
<1>1. Without(list, S) = f[Len(list)] BY DEF Without, Filters
<1>2. Filters(f, list, S) BY FiltersThere
<1> HIDE DEF f
<1>3. PICK m \in Nat : m = Len(list) /\ DOMAIN list = 1 .. m OBVIOUS
<1>4. KeptOf(f[m], list, S, m, E) BY <1>2, <1>3, FiltersKeep
<1> QED BY <1>1, <1>3, <1>4 DEF KeptOf, In

-----------------------------------------------------------------------------
(* The inductive invariant.                                                *)

\* TypeOK in two parts.
NotifierType ==
  /\ endpoints \in [Properties -> Seq(Endpoints)]
  /\ sender \in [Endpoints -> Properties \cup {None}]
  /\ notifying \in [Endpoints -> Nat \X Nat]
  /\ expression \in [Guards -> Bindings \cup {None}] /\ stale \subseteq Guards
ProgramType ==
  /\ active \in [Bindings -> Seq(Guards)]
  /\ binding \in [Bindings -> [exists : BOOLEAN, enabled : BOOLEAN, updating : BOOLEAN,
                               looped : BOOLEAN, read : SUBSET Properties]]
  /\ handler \in [Handlers -> {"there", "later", "gone"}] /\ alive \subseteq Properties
  /\ stack \in Seq(Frames) /\ calls \in Nat

\* A property lists the endpoints that are connected to it; the pool is disconnected.
ListInv ==
  /\ \A p \in Properties : Once(endpoints[p])
  /\ \A p \in Properties : \A e \in Endpoints : In(endpoints[p], e) <=> sender[e] = p
  /\ \A g \in Guards : expression[g] = None => sender[g] = None /\ notifying[g] = NoSlot
  /\ \A g \in stale : sender[g] # None

\* What emitNotify() in frame x has not passed, and what it has not called.
Slot(x, y) == x \in DOMAIN stack /\ stack[x].kind = "emit" /\ y \in 1 .. stack[x].next
EntryAt(x, y) == stack[x].entries[y]
Pending(g, x, y) ==
  /\ Slot(x, y) /\ (stack[x].called => y # stack[x].next)
  /\ EntryAt(x, y).endpoint = g /\ EntryAt(x, y).watch = notifying[g]

\* It watches a slot of its own or of a frame below, each endpoint once, and what it is
\* going to call listens to it and has been told.
SlotInv(x, y) ==
  /\ y <= Len(stack[x].entries)
  /\ EntryAt(x, y).watch[1] \in 1 .. x
  /\ \A z \in 1 .. stack[x].next :
       EntryAt(x, z).endpoint = EntryAt(x, y).endpoint => z = y
  /\ Watched(EntryAt(x, y)) =>
       /\ sender[EntryAt(x, y).endpoint] = stack[x].of
       /\ EntryAt(x, y).endpoint \in Guards => EntryAt(x, y).endpoint \in stale
\* Where senderPtr points to, while it is the senderPtr of a connected endpoint.
PointsTo(e, x, y) ==
  Slot(x, y) /\ EntryAt(x, y).endpoint = e /\ EntryAt(x, y).watch = <<x, y>>
PointInv(e) ==
  notifying[e] # NoSlot =>
    /\ ~Ruthless => sender[e] # None
    /\ sender[e] # None => PointsTo(e, notifying[e][1], notifying[e][2])
\* A call under way is the call of an entry.
CallInv == \A x \in DOMAIN stack : stack[x].kind = "emit" /\ stack[x].called => stack[x].next > 0
EmitInv ==
  /\ CallInv
  /\ \A x, y \in Nat : Slot(x, y) => SlotInv(x, y)
  /\ \A e \in Endpoints : PointInv(e)

\* Each guard in use is on one list: that of its binding, or of an evaluation of it that
\* has not captured it again.
RunKinds == {"evaluate", "write", "done"}
Runs(x, b) == x \in DOMAIN stack /\ stack[x].kind \in RunKinds /\ stack[x].of = b
Evals(x, b) == x \in DOMAIN stack /\ stack[x].kind = "evaluate" /\ stack[x].of = b
RunInv ==
  /\ \A x \in DOMAIN stack : stack[x].kind \in RunKinds => stack[x].of \in Bindings
  /\ \A b \in Bindings, x \in Nat : Runs(x, b) => binding[b].updating
  /\ \A b \in Bindings, x, y \in Nat : Runs(x, b) /\ Runs(y, b) => x = y
EvalInv(x, b) ==
  /\ Once(stack[x].rest)
  /\ \A g \in Guards : In(stack[x].rest, g) => expression[g] = b /\ ~In(active[b], g)
ActiveInv(b) ==
  /\ Once(active[b])
  /\ \A g \in Guards : In(active[b], g) => expression[g] = b
  /\ ~binding[b].exists => active[b] = <<>>
Held(g, b) ==
  In(active[b], g) \/ \E x \in Nat : Evals(x, b) /\ In(stack[x].rest, g)
OwnInv ==
  /\ RunInv
  /\ \A b \in Bindings, x \in Nat : Evals(x, b) => EvalInv(x, b)
  /\ \A b \in Bindings : ActiveInv(b)
  /\ \A g \in Guards, b \in Bindings : expression[g] = b => Held(g, b)

\* What a binding that was not told that it loops has read it listens to, and it is going
\* to be called for what has changed.
ReadsInv(b) ==
  \A p \in Properties : p \in binding[b].read <=> \E g \in Guards : In(active[b], g) /\ sender[g] = p
PendsInv(b) ==
  \A g \in stale : In(active[b], g) => \E x, y \in Nat : Pending(g, x, y)
HearInv == \A b \in Bindings : Listening(b) => ReadsInv(b) /\ PendsInv(b)

IInv == TypeOK /\ ListInv /\ EmitInv /\ OwnInv /\ HearInv

LEMMA Types == TypeOK <=> NotifierType /\ ProgramType
BY DEF TypeOK, NotifierType, ProgramType

LEMMA TypesNext == TypeOK' <=> NotifierType' /\ ProgramType'
BY DEF TypeOK, NotifierType, ProgramType

-----------------------------------------------------------------------------
(* Frames and the stack of them.                                           *)

Owners == Properties \cup Bindings \cup Handlers
EntryType == [endpoint : Endpoints, watch : Nat \X Nat]

LEMMA PlainFrame ==
  ASSUME NEW kind \in Kinds, NEW of \in Owners, NEW h, h = Frame(kind, of)
  PROVE  h \in Frames /\ h.kind = kind /\ h.of = of
<1>1. <<>> \in Seq(EntryType) /\ <<>> \in Seq(Guards) OBVIOUS
<1> QED BY <1>1 DEF Frame, Frames, Owners, EntryType

EvaluationOf(b) == [Frame("evaluate", b) EXCEPT !.rest = active[b]]
LEMMA EvaluateFrame ==
  ASSUME ProgramType, NEW b \in Bindings
  PROVE  /\ EvaluationOf(b) \in Frames /\ EvaluationOf(b).kind = "evaluate"
         /\ EvaluationOf(b).of = b /\ EvaluationOf(b).rest = active[b]
<1>1. <<>> \in Seq(EntryType) /\ "evaluate" \in Kinds BY DEF Kinds
<1>2. PICK r \in Seq(Guards) : r = active[b] BY DEF ProgramType
<1>3. PICK h : h = EvaluationOf(b) OBVIOUS
<1>4. h = [Frame("evaluate", b) EXCEPT !.rest = r] BY <1>2, <1>3 DEF EvaluationOf
<1>5. h \in Frames /\ h.kind = "evaluate" /\ h.of = b /\ h.rest = r
  BY <1>1, <1>4 DEF Frame, Frames, Owners, EntryType
<1> QED BY <1>2, <1>3, <1>5

EmissionOf(p, entries, n) == [Frame("emit", p) EXCEPT !.entries = entries, !.next = n]
LEMMA EmitFrame ==
  ASSUME NEW p \in Properties, NEW entries \in Seq(EntryType), NEW n \in Nat, NEW h,
         h = EmissionOf(p, entries, n)
  PROVE  /\ h \in Frames /\ h.kind = "emit" /\ h.of = p
         /\ h.entries = entries /\ h.next = n /\ ~h.called
<1>1. <<>> \in Seq(Guards) /\ "emit" \in Kinds BY DEF Kinds
<1> QED BY <1>1 DEF EmissionOf, Frame, Frames, Owners, EntryType

\* What becomes of the frame on top.
Passed(f) == [f EXCEPT !.next = @ - 1, !.called = FALSE]
LEMMA PassedFrame ==
  ASSUME NEW f \in Frames, f.next > 0, NEW h, h = Passed(f)
  PROVE  /\ h \in Frames /\ h.kind = f.kind /\ h.of = f.of /\ h.entries = f.entries
         /\ h.next = f.next - 1 /\ ~h.called
<1>1. PICK n : n = f.next - 1 OBVIOUS
<1>2. h = [f EXCEPT !.next = n, !.called = FALSE] BY <1>1 DEF Passed
<1>3. n \in Nat
  <2>1. f.next \in Nat BY DEF Frames
  <2> QED BY <1>1, <2>1
<1>4. /\ h \in Frames /\ h.kind = f.kind /\ h.of = f.of /\ h.entries = f.entries
      /\ h.next = n /\ ~h.called
  BY <1>2, <1>3 DEF Frames
<1> QED BY <1>1, <1>4

InCall(f) == [f EXCEPT !.called = TRUE]
LEMMA CalledFrame ==
  ASSUME NEW f \in Frames, NEW h, h = InCall(f)
  PROVE  /\ h \in Frames /\ h.kind = f.kind /\ h.of = f.of /\ h.entries = f.entries
         /\ h.next = f.next /\ h.called
BY DEF Frames, InCall

Done(f) == [f EXCEPT !.kind = "done"]
LEMMA DoneFrame ==
  ASSUME NEW f \in Frames, NEW h, h = Done(f)
  PROVE  h \in Frames /\ h.kind = "done" /\ h.of = f.of
<1>1. "done" \in Kinds BY DEF Kinds
<1> QED BY <1>1 DEF Frames, Done

ToWrite(f) == [f EXCEPT !.kind = "write", !.rest = <<>>]
LEMMA WriteFrame ==
  ASSUME NEW f \in Frames, NEW h, h = ToWrite(f)
  PROVE  h \in Frames /\ h.kind = "write" /\ h.of = f.of
<1>1. <<>> \in Seq(Guards) /\ "write" \in Kinds BY DEF Kinds
<1> QED BY <1>1 DEF Frames, ToWrite

Left(f, r) == [f EXCEPT !.rest = r]
LEMMA RestFrame ==
  ASSUME NEW f \in Frames, NEW r \in Seq(Guards), NEW h, h = Left(f, r)
  PROVE  h \in Frames /\ h.kind = f.kind /\ h.of = f.of /\ h.rest = r
BY DEF Frames, Left

LEMMA TopIs ==
  ASSUME ProgramType, Depth > 0
  PROVE  /\ Depth \in Nat /\ DOMAIN stack = 1 .. Depth /\ Depth \in DOMAIN stack
         /\ Top \in Frames /\ Top = stack[Depth]
         /\ Rest \in Seq(Frames) /\ Len(Rest) = Depth - 1
         /\ \A x \in 1 .. Depth - 1 : Rest[x] = stack[x]
<1>1. stack \in Seq(Frames) BY DEF ProgramType
<1>2. Len(stack) \in Nat /\ DOMAIN stack = 1 .. Len(stack) BY <1>1
<1>3. \A x \in 1 .. Len(stack) : stack[x] \in Frames BY <1>1
<1>4. 1 \in Int /\ Len(stack) - 1 \in Int /\ \A x \in 1 .. Len(stack) - 1 : stack[x] \in Frames
  BY <1>2, <1>3
<1>5. /\ Rest \in Seq(Frames)
      /\ Len(Rest) = IF 1 <= Len(stack) - 1 THEN Len(stack) - 1 - 1 + 1 ELSE 0
      /\ \A x \in 1 .. Len(stack) - 1 - 1 + 1 : Rest[x] = stack[1 + x - 1]
  BY <1>4, SubSeqProperties DEF Rest, Depth
<1>6. \A x \in 1 .. Len(stack) - 1 : x \in 1 .. Len(stack) - 1 - 1 + 1 /\ 1 + x - 1 = x BY <1>2
<1>7. \A x \in 1 .. Len(stack) - 1 : Rest[x] = stack[x] BY <1>5, <1>6
<1>8. Len(Rest) = Len(stack) - 1
  <2>1. PICK n, m : n \in Nat /\ n = Len(stack) /\ n > 0 /\ m = Len(Rest) BY <1>2 DEF Depth
  <2>2. m = IF 1 <= n - 1 THEN n - 1 - 1 + 1 ELSE 0 BY <1>5, <2>1
  <2> QED BY <2>1, <2>2
<1>9. Len(stack) \in 1 .. Len(stack) BY <1>2 DEF Depth
<1> QED BY <1>2, <1>3, <1>5, <1>7, <1>8, <1>9 DEF Depth, Top

\* A frame above some.
LEMMA Above ==
  ASSUME NEW s \in Seq(Frames), NEW f \in Frames, NEW n \in Nat, n = Len(s), NEW t, t = Append(s, f)
  PROVE  /\ t \in Seq(Frames) /\ Len(t) = n + 1 /\ DOMAIN t = 1 .. n + 1
         /\ t[n + 1] = f /\ \A x \in 1 .. n : t[x] = s[x]
OBVIOUS

LEMMA PopShape ==
  ASSUME ProgramType, Depth > 0, stack' = Rest
  PROVE  /\ stack' \in Seq(Frames) /\ DOMAIN stack' = 1 .. Depth - 1 /\ Len(stack') = Depth - 1
         /\ \A x \in 1 .. Depth - 1 : stack'[x] = stack[x]
BY TopIs

LEMMA ReplaceShape ==
  ASSUME ProgramType, Depth > 0, NEW f \in Frames, stack' = Append(Rest, f)
  PROVE  /\ stack' \in Seq(Frames) /\ DOMAIN stack' = 1 .. Depth /\ Len(stack') = Depth
         /\ stack'[Depth] = f
         /\ \A x \in 1 .. Depth - 1 : stack'[x] = stack[x]
<1>1. PICK r \in Seq(Frames), n \in Nat : r = Rest /\ n = Len(r) /\ n = Depth - 1 BY TopIs
<1>2. PICK t : t = stack' /\ t = Append(r, f) BY <1>1
<1>3. /\ t \in Seq(Frames) /\ Len(t) = n + 1 /\ DOMAIN t = 1 .. n + 1
      /\ t[n + 1] = f /\ \A x \in 1 .. n : t[x] = r[x]
  <2>1. n = Len(r) /\ t = Append(r, f) BY <1>1, <1>2
  <2> QED BY <2>1, Above
<1>4. Depth \in Nat /\ n + 1 = Depth BY <1>1, TopIs
<1> QED BY <1>1, <1>2, <1>3, <1>4, TopIs

LEMMA PushShape ==
  ASSUME ProgramType, NEW f \in Frames, stack' = Append(stack, f)
  PROVE  /\ stack' \in Seq(Frames) /\ DOMAIN stack' = 1 .. Depth + 1 /\ Len(stack') = Depth + 1
         /\ stack'[Depth + 1] = f /\ Depth \in Nat /\ DOMAIN stack = 1 .. Depth
         /\ \A x \in 1 .. Depth : stack'[x] = stack[x]
<1>1. stack \in Seq(Frames) BY DEF ProgramType
<1> QED BY <1>1 DEF Depth

LEMMA ReplacePushShape ==
  ASSUME ProgramType, Depth > 0, NEW f \in Frames, NEW h \in Frames,
         stack' = Append(Append(Rest, f), h)
  PROVE  /\ stack' \in Seq(Frames) /\ DOMAIN stack' = 1 .. Depth + 1 /\ Len(stack') = Depth + 1
         /\ stack'[Depth + 1] = h /\ stack'[Depth] = f
         /\ \A x \in 1 .. Depth - 1 : stack'[x] = stack[x]
<1>1. PICK r \in Seq(Frames), n \in Nat : r = Rest /\ n = Len(r) /\ n = Depth - 1 BY TopIs
<1>2. PICK t : t = Append(r, f) OBVIOUS
<1>3. /\ t \in Seq(Frames) /\ Len(t) = n + 1 /\ DOMAIN t = 1 .. n + 1
      /\ t[n + 1] = f /\ \A x \in 1 .. n : t[x] = r[x]
  <2>1. n = Len(r) /\ t = Append(r, f) BY <1>1, <1>2
  <2> QED BY <2>1, Above
<1>4. Depth \in Nat /\ n + 1 = Depth BY <1>1, TopIs
<1>5. PICK u : u = stack' OBVIOUS
<1>6. u = Append(t, h) BY <1>1, <1>2, <1>5
<1>7. /\ u \in Seq(Frames) /\ Len(u) = n + 1 + 1 /\ DOMAIN u = 1 .. n + 1 + 1
      /\ u[n + 1 + 1] = h /\ \A x \in 1 .. n + 1 : u[x] = t[x]
  BY <1>3, <1>6, Above
<1> QED BY <1>1, <1>3, <1>4, <1>5, <1>7, TopIs

-----------------------------------------------------------------------------
(* What the steps do to the lists of the properties.                       *)

\* disconnect() of S, which deletes D, and cancelNotify() of C.
Drops(S, D, C) ==
  /\ endpoints' = [p \in Properties |-> Without(endpoints[p], S)]
  /\ sender' = [e \in Endpoints |-> IF e \in S THEN None ELSE sender[e]]
  /\ notifying' = [e \in Endpoints |-> IF e \in D \cup C THEN NoSlot ELSE notifying[e]]
  /\ stale' = stale \ (S \cup C)
  /\ expression' = [g \in Guards |-> IF g \in D THEN None ELSE expression[g]]

LEMMA DisconnectDrops ==
  ASSUME NEW S, NEW D, Disconnect(S, D)
  PROVE  Drops(S, D, {})
<1>1. S \cup {} = S /\ D \cup {} = D OBVIOUS
<1> QED BY <1>1 DEF Disconnect, Drops

LEMMA NoSlotType == NoSlot \in Nat \X Nat
BY DEF NoSlot

LEMMA GuardsAreEndpoints ==
  /\ \A g \in Guards : g \in Endpoints
  /\ \A h \in Handlers : h \in Endpoints /\ h \notin Guards
BY BindingAssumption DEF Endpoints

LEMMA DropTypes ==
  ASSUME NotifierType, NEW S, NEW D, NEW C, Drops(S, D, C)
  PROVE  NotifierType'
<1>1. endpoints' \in [Properties -> Seq(Endpoints)]
  <2>1. ASSUME NEW p \in Properties PROVE Without(endpoints[p], S) \in Seq(Endpoints)
    <3>1. endpoints[p] \in Seq(Endpoints) BY DEF NotifierType
    <3> QED BY <3>1, WithoutKeeps
  <2> QED BY <2>1 DEF Drops
<1>2. sender' \in [Endpoints -> Properties \cup {None}] BY DEF NotifierType, Drops
<1>3. notifying' \in [Endpoints -> Nat \X Nat] BY NoSlotType DEF NotifierType, Drops
<1>4. expression' \in [Guards -> Bindings \cup {None}] /\ stale' \subseteq Guards
  BY DEF NotifierType, Drops
<1> QED BY <1>1, <1>2, <1>3, <1>4 DEF NotifierType

LEMMA DropKeeps ==
  ASSUME NotifierType, ListInv, NEW S, NEW D \in SUBSET S, NEW C, Drops(S, D, C)
  PROVE  ListInv'
<1>0. None \notin Properties BY BindingAssumption
<1>1. ASSUME NEW p \in Properties
      PROVE  Once(endpoints[p])' /\ \A e \in Endpoints : In(endpoints[p], e)' <=> sender'[e] = p
  <2>1. endpoints[p] \in Seq(Endpoints) /\ Once(endpoints[p]) BY DEF NotifierType, ListInv
  <2>2. endpoints'[p] = Without(endpoints[p], S) BY DEF Drops
  <2>3. /\ \A n : In(endpoints'[p], n) <=> In(endpoints[p], n) /\ n \notin S
        /\ Once(endpoints'[p])
    BY <2>1, <2>2, WithoutKeeps
  <2>4. \A e \in Endpoints : In(endpoints[p], e) <=> sender[e] = p BY DEF ListInv
  <2>5. \A e \in Endpoints : sender'[e] = p <=> sender[e] = p /\ e \notin S BY <1>0 DEF Drops
  <2>6. \A e \in Endpoints : In(endpoints'[p], e) <=> sender'[e] = p BY <2>3, <2>4, <2>5
  <2> QED BY <2>3, <2>6
<1>2. ASSUME NEW g \in Guards, expression'[g] = None
      PROVE  sender'[g] = None /\ notifying'[g] = NoSlot
  <2>1. g \in Endpoints BY GuardsAreEndpoints
  <2>2. g \in D \/ expression[g] = None BY <1>2 DEF Drops
  <2>3. g \notin D => sender[g] = None /\ notifying[g] = NoSlot BY <2>2 DEF ListInv
  <2> QED BY <2>1, <2>3 DEF Drops
<1>3. ASSUME NEW g \in stale' PROVE sender'[g] # None
  <2>1. g \in stale /\ g \notin S /\ g \in Endpoints
    BY GuardsAreEndpoints DEF Drops, NotifierType
  <2> QED BY <2>1 DEF Drops, ListInv
<1> QED BY <1>1, <1>2, <1>3 DEF ListInv

\* A property with listeners changes.
LEMMA EmitTypes ==
  ASSUME NotifierType, ProgramType, NEW p \in Properties, NEW frames \in Seq(Frames),
         Emit(p, frames), UNCHANGED <<endpoints, sender, expression>>
  PROVE  NotifierType'
<1>1. PICK list \in Seq(Endpoints) : list = endpoints[p] BY DEF NotifierType
<1>2. DOMAIN list \subseteq Nat OBVIOUS
<1>3. PICK n \in Nat : n = Len(frames) OBVIOUS
<1>4. ASSUME NEW e \in Endpoints PROVE notifying'[e] \in Nat \X Nat
  <2>1. CASE notifying[e] = NoSlot /\ e \in ToSet(list)
    <3>1. PICK x \in DOMAIN list : x = CHOOSE y \in DOMAIN list : list[y] = e
      BY <2>1 DEF ToSet
    <3>2. notifying'[e] = <<n + 1, x>> BY <1>1, <1>3, <2>1, <3>1 DEF Emit
    <3> QED BY <1>2, <3>2
  <2>2. CASE ~(notifying[e] = NoSlot /\ e \in ToSet(list))
    <3>1. notifying'[e] = notifying[e] BY <1>1, <2>2 DEF Emit
    <3> QED BY <3>1 DEF NotifierType
  <2> QED BY <2>1, <2>2
<1>5. notifying' \in [Endpoints -> Nat \X Nat]
  <2>1. notifying' = [e \in Endpoints |-> notifying'[e]] BY DEF Emit
  <2> QED BY <1>4, <2>1
<1>6. stale' \subseteq Guards BY DEF Emit, NotifierType
<1> QED BY <1>5, <1>6 DEF NotifierType

\* Where it points to afterwards, and what was told.
Told(p, n, list) ==
  /\ endpoints[p] = list
  /\ \A e \in Endpoints :
       \/ notifying'[e] = notifying[e] /\ (In(list, e) => notifying[e] # NoSlot)
       \/ /\ notifying[e] = NoSlot /\ sender[e] = p
          /\ \E x \in DOMAIN list : list[x] = e /\ notifying'[e] = <<n + 1, x>>
  /\ stale' = stale \cup {g \in Guards : sender[g] = p}

LEMMA EmitTells ==
  ASSUME NotifierType, ListInv, NEW p \in Properties, NEW frames, NEW n, n = Len(frames),
         Emit(p, frames)
  PROVE  \E list \in Seq(Endpoints) : Told(p, n, list)
<1>1. PICK list \in Seq(Endpoints) : list = endpoints[p] BY DEF NotifierType
<1>2. ASSUME NEW e \in Endpoints
      PROVE \/ notifying'[e] = notifying[e] /\ (In(list, e) => notifying[e] # NoSlot)
            \/ /\ notifying[e] = NoSlot /\ sender[e] = p
               /\ \E x \in DOMAIN list : list[x] = e /\ notifying'[e] = <<n + 1, x>>
  <2>0. In(list, e) <=> e \in ToSet(list) BY DEF In, ToSet
  <2>1. CASE notifying[e] = NoSlot /\ e \in ToSet(list)
    <3>1. PICK x \in DOMAIN list : x = CHOOSE y \in DOMAIN list : list[y] = e
      BY <2>1 DEF ToSet
    <3>2. notifying'[e] = <<n + 1, x>> BY <1>1, <2>1, <3>1 DEF Emit
    <3>3. list[x] = e
      <4>1. \E y \in DOMAIN list : list[y] = e BY <2>1 DEF ToSet
      <4> QED BY <3>1, <4>1
    <3>4. sender[e] = p BY <1>1, <2>0, <2>1 DEF ListInv
    <3> QED BY <2>1, <3>2, <3>3, <3>4
  <2>2. CASE ~(notifying[e] = NoSlot /\ e \in ToSet(list))
    <3>1. notifying'[e] = notifying[e] BY <1>1, <2>2 DEF Emit
    <3> QED BY <2>0, <2>2, <3>1
  <2> QED BY <2>1, <2>2
<1>3. stale' = stale \cup {g \in Guards : sender[g] = p} BY DEF Emit
<1> QED BY <1>1, <1>2, <1>3 DEF Told

LEMMA EmitLists ==
  ASSUME NotifierType, ListInv, NEW p \in Properties, NEW n, NEW list \in Seq(Endpoints),
         Told(p, n, list), UNCHANGED <<endpoints, sender, expression>>
  PROVE  ListInv'
<1>1. None \notin Properties BY BindingAssumption
<1>2. ASSUME NEW g \in Guards, expression'[g] = None
      PROVE  sender'[g] = None /\ notifying'[g] = NoSlot
  <2>1. sender[g] = None /\ notifying[g] = NoSlot BY <1>2 DEF ListInv
  <2>2. notifying'[g] = notifying[g] BY <1>1, <2>1, GuardsAreEndpoints DEF Told
  <2> QED BY <2>1, <2>2
<1>3. ASSUME NEW g \in stale' PROVE sender'[g] # None
  BY <1>1 DEF Told, ListInv
<1> QED BY <1>2, <1>3 DEF ListInv

\* A guard is connected.
Connects(g, p, b, S) ==
  /\ endpoints' = [q \in Properties |->
                    LET list == Without(endpoints[q], S)
                    IN IF q = p THEN <<g>> \o list ELSE list]
  /\ sender' = [e \in Endpoints |-> IF e = g THEN p ELSE IF e \in S THEN None ELSE sender[e]]
  /\ notifying' = [e \in Endpoints |-> IF e \in S THEN NoSlot ELSE notifying[e]]
  /\ stale' = stale \ S
  /\ expression' = [h \in Guards |-> IF h = g THEN b ELSE IF h \in S THEN None ELSE expression[h]]

LEMMA ConnectTypes ==
  ASSUME NotifierType, NEW S, NEW p \in Properties, NEW b \in Bindings, NEW g \in Guards,
         Connects(g, p, b, S)
  PROVE  NotifierType'
<1>0. g \in Endpoints BY GuardsAreEndpoints
<1>1. endpoints' \in [Properties -> Seq(Endpoints)]
  <2>1. ASSUME NEW q \in Properties PROVE endpoints'[q] \in Seq(Endpoints)
    <3>1. PICK list \in Seq(Endpoints) : list = Without(endpoints[q], S)
      <4>1. endpoints[q] \in Seq(Endpoints) BY DEF NotifierType
      <4> QED BY <4>1, WithoutKeeps
    <3>2. <<g>> \o list \in Seq(Endpoints) BY <1>0
    <3>3. endpoints'[q] = IF q = p THEN <<g>> \o list ELSE list BY <3>1 DEF Connects
    <3> QED BY <3>2, <3>3
  <2>2. endpoints' = [q \in Properties |-> endpoints'[q]] BY DEF Connects
  <2> QED BY <2>1, <2>2
<1>2. sender' \in [Endpoints -> Properties \cup {None}] BY DEF NotifierType, Connects
<1>3. notifying' \in [Endpoints -> Nat \X Nat] BY NoSlotType DEF NotifierType, Connects
<1>4. expression' \in [Guards -> Bindings \cup {None}] /\ stale' \subseteq Guards
  BY DEF NotifierType, Connects
<1> QED BY <1>1, <1>2, <1>3, <1>4 DEF NotifierType

LEMMA ConnectKeeps ==
  ASSUME NotifierType, ListInv, NEW S, NEW p \in Properties, NEW b \in Bindings,
         NEW g \in Guards, g \in S \/ expression[g] = None, Connects(g, p, b, S)
  PROVE  ListInv'
<1>0. None \notin Properties \cup Bindings /\ g \in Endpoints
  BY BindingAssumption, GuardsAreEndpoints
<1>g. g \in S \/ sender[g] = None BY DEF ListInv
<1>1. ASSUME NEW q \in Properties
      PROVE  Once(endpoints[q])' /\ \A e \in Endpoints : In(endpoints[q], e)' <=> sender'[e] = q
  <2>1. endpoints[q] \in Seq(Endpoints) /\ Once(endpoints[q]) BY DEF NotifierType, ListInv
  <2>2. PICK list \in Seq(Endpoints) :
          /\ list = Without(endpoints[q], S) /\ Once(list)
          /\ \A n : In(list, n) <=> In(endpoints[q], n) /\ n \notin S
    BY <2>1, WithoutKeeps
  <2>3. endpoints'[q] = IF q = p THEN <<g>> \o list ELSE list BY <2>2 DEF Connects
  <2>4. \A e \in Endpoints : In(endpoints[q], e) <=> sender[e] = q BY DEF ListInv
  <2>5. ~In(list, g) BY <1>0, <1>g, <2>2, <2>4
  <2>6. \A e \in Endpoints : e # g => (sender'[e] = q <=> sender[e] = q /\ e \notin S)
    BY <1>0 DEF Connects
  <2>7. sender'[g] = p BY <1>0 DEF Connects
  <2>8. CASE q = p
    <3>1. Once(<<g>> \o list) /\ \A n : In(<<g>> \o list, n) <=> In(list, n) \/ n = g
      BY <1>0, <2>2, <2>5, Fronted
    <3>2. endpoints'[q] = <<g>> \o list BY <2>3, <2>8
    <3>3. Once(endpoints'[q]) /\ \A n : In(endpoints'[q], n) <=> In(list, n) \/ n = g
      BY <3>1, <3>2
    <3> QED BY <2>2, <2>4, <2>6, <2>7, <2>8, <3>3
  <2>9. CASE q # p
    <3>1. endpoints'[q] = list BY <2>3, <2>9
    <3> QED BY <2>2, <2>4, <2>5, <2>6, <2>7, <2>9, <3>1
  <2> QED BY <2>8, <2>9
<1>2. ASSUME NEW h \in Guards, expression'[h] = None
      PROVE  sender'[h] = None /\ notifying'[h] = NoSlot
  <2>1. h \in Endpoints BY GuardsAreEndpoints
  <2>2. h # g /\ (h \in S \/ expression[h] = None) BY <1>0, <1>2 DEF Connects
  <2>3. h \notin S => sender[h] = None /\ notifying[h] = NoSlot BY <2>2 DEF ListInv
  <2> QED BY <2>1, <2>2, <2>3 DEF Connects
<1>3. ASSUME NEW h \in stale' PROVE sender'[h] # None
  <2>1. h \in stale /\ h \notin S /\ h \in Endpoints
    BY GuardsAreEndpoints DEF Connects, NotifierType
  <2> QED BY <1>0, <2>1 DEF Connects, ListInv
<1> QED BY <1>1, <1>2, <1>3 DEF ListInv

-----------------------------------------------------------------------------
(* What the steps do to the notifications under way.                       *)

LEMMA EntryIs ==
  ASSUME ProgramType, NEW x \in Nat, NEW y \in Nat, Slot(x, y), SlotInv(x, y)
  PROVE  /\ EntryAt(x, y).endpoint \in Endpoints /\ EntryAt(x, y).watch \in Nat \X Nat
         /\ stack[x] \in Frames /\ stack[x].next \in Nat
<1>1. x \in DOMAIN stack /\ y \in 1 .. stack[x].next /\ y <= Len(stack[x].entries)
  BY DEF Slot, SlotInv
<1>2. PICK f \in Frames : f = stack[x] BY <1>1 DEF ProgramType
<1>3. f.entries \in Seq(EntryType) /\ f.next \in Nat BY DEF Frames, EntryType
<1>4. y \in 1 .. Len(f.entries) BY <1>1, <1>2, <1>3
<1>5. f.entries[y] \in EntryType BY <1>3, <1>4
<1>6. EntryAt(x, y) \in EntryType BY <1>2, <1>5 DEF EntryAt
<1> QED BY <1>2, <1>3, <1>6 DEF EntryType

\* What a step does to an endpoint while a notification may be about to call it.
Calm(e) ==
  \/ notifying'[e] = NoSlot
  \/ /\ notifying'[e] = notifying[e]
     /\ \/ sender'[e] = sender[e] /\ (e \in stale => e \in stale')
        \/ sender'[e] = None /\ Ruthless
CalmBelow(e) == Calm(e) \/ notifying'[e][1] > Depth

\* A frame of emitNotify() goes on.
GoesOn(x) ==
  /\ x \in DOMAIN stack /\ stack[x].kind = "emit"
  /\ stack'[x].of = stack[x].of /\ stack'[x].entries = stack[x].entries
  /\ stack'[x].next <= stack[x].next

LEMMA CalmSlot ==
  ASSUME ProgramType, ProgramType', \A e \in Endpoints : CalmBelow(e), NEW x \in Nat, NEW y \in Nat,
         GoesOn(x), Slot(x, y)', Slot(x, y) => SlotInv(x, y)
  PROVE  SlotInv(x, y)'
<1>0. /\ x \in DOMAIN stack /\ x \in 1 .. Depth /\ Depth \in Nat
      /\ x \in DOMAIN stack' /\ y \in 1 .. stack'[x].next
  <2>1. stack \in Seq(Frames) BY DEF ProgramType
  <2> QED BY <2>1 DEF Slot, GoesOn, Depth
<1>1. stack[x] \in Frames /\ stack'[x] \in Frames BY <1>0 DEF ProgramType
<1>2. PICK n \in Nat, m \in Nat : n = stack[x].next /\ m = stack'[x].next /\ m <= n
  BY <1>1 DEF Frames, GoesOn
<1>3. Slot(x, y) BY <1>0, <1>2 DEF Slot, GoesOn
<1>4. SlotInv(x, y) BY <1>3
<1>5. PICK e \in Endpoints, w \in Nat \X Nat :
        e = EntryAt(x, y).endpoint /\ w = EntryAt(x, y).watch
  BY <1>3, <1>4, EntryIs
<1>6. \A z : EntryAt(x, z)' = EntryAt(x, z) BY DEF EntryAt, GoesOn
<1>7. /\ y <= Len(stack'[x].entries) /\ w[1] \in 1 .. x
      /\ \A z \in 1 .. m : EntryAt(x, z).endpoint = EntryAt(x, y).endpoint => z = y
  BY <1>2, <1>4, <1>5 DEF SlotInv, GoesOn
<1>8. ASSUME notifying'[e] = w, sender'[e] # None
      PROVE  sender'[e] = stack'[x].of /\ (e \in Guards => e \in stale')
  <2>1. w # NoSlot /\ ~(w[1] > Depth) BY <1>0, <1>7 DEF NoSlot
  <2>2. Calm(e) BY <1>8, <2>1 DEF CalmBelow
  <2>3. notifying[e] = w /\ sender'[e] = sender[e] /\ (e \in stale => e \in stale')
    BY <1>8, <2>1, <2>2 DEF Calm
  <2>4. Watched(EntryAt(x, y)) BY <1>5, <1>8, <2>3 DEF Watched
  <2>5. sender[e] = stack[x].of /\ (e \in Guards => e \in stale) BY <1>4, <1>5, <2>4 DEF SlotInv
  <2> QED BY <2>3, <2>5 DEF GoesOn
<1>9. EntryAt(x, y)'.endpoint = e /\ EntryAt(x, y)'.watch = w BY <1>5, <1>6
<1>10. Watched(EntryAt(x, y))' <=> notifying'[e] = w /\ sender'[e] # None BY <1>9 DEF Watched
<1> QED BY <1>2, <1>6, <1>7, <1>8, <1>9, <1>10 DEF SlotInv

\* Nothing happens to the notifications.
SameEmits ==
  /\ \A x \in DOMAIN stack : stack[x].kind = "emit" /\ stack[x].next > 0 =>
       x \in DOMAIN stack' /\ stack'[x] = stack[x]
  /\ \A x \in DOMAIN stack' : stack'[x].kind = "emit" => x \in DOMAIN stack /\ stack'[x] = stack[x]

LEMMA SlotStays ==
  ASSUME ProgramType, SameEmits, NEW x \in Nat, NEW y \in Nat, Slot(x, y)
  PROVE  Slot(x, y)' /\ stack'[x] = stack[x]
<1>1. x \in DOMAIN stack /\ stack[x].kind = "emit" /\ y \in 1 .. stack[x].next BY DEF Slot
<1>2. stack[x] \in Frames BY <1>1 DEF ProgramType
<1>3. stack[x].next \in Nat BY <1>2 DEF Frames
<1>4. stack[x].next > 0 BY <1>1, <1>3
<1>5. x \in DOMAIN stack' /\ stack'[x] = stack[x] BY <1>1, <1>4 DEF SameEmits
<1> QED BY <1>1, <1>5 DEF Slot

\* The endpoint's pointer is left alone, or it is reset.
LEMMA PointStays ==
  ASSUME NEW e \in Endpoints, PointInv(e), Calm(e),
         notifying'[e] # NoSlot /\ sender'[e] # None =>
           \A x, y \in Nat : notifying[e] = <<x, y>> /\ PointsTo(e, x, y) => PointsTo(e, x, y)',
         notifying[e] \in Nat \X Nat
  PROVE  PointInv(e)'
<1>1. SUFFICES ASSUME notifying'[e] # NoSlot
      PROVE  /\ ~Ruthless => sender'[e] # None
             /\ sender'[e] # None => PointsTo(e, notifying[e][1], notifying[e][2])'
  BY DEF PointInv
<1>2. PICK x \in Nat, y \in Nat : notifying[e] = <<x, y>> OBVIOUS
<1>3. /\ notifying'[e] = notifying[e]
      /\ sender'[e] = sender[e] \/ (sender'[e] = None /\ Ruthless)
  BY <1>1 DEF Calm
<1>4. notifying[e][1] = x /\ notifying[e][2] = y /\ notifying[e] # NoSlot BY <1>1, <1>2, <1>3
<1>5. notifying'[e][1] = x /\ notifying'[e][2] = y BY <1>3, <1>4
<1>6. sender'[e] # None => PointsTo(e, x, y)'
  <2>1. ASSUME sender'[e] # None PROVE PointsTo(e, x, y)'
    <3>1. PointsTo(e, x, y) BY <1>3, <1>4, <2>1 DEF PointInv
    <3> QED BY <1>1, <1>2, <2>1, <3>1
  <2> QED BY <2>1
<1>7. ~Ruthless => sender'[e] # None BY <1>3, <1>4 DEF PointInv
<1>8. PointsTo(e, notifying[e][1], notifying[e][2])' <=> PointsTo(e, x, y)'
  BY <1>5 DEF PointsTo, Slot, EntryAt
<1> QED BY <1>6, <1>7, <1>8

LEMMA QuietEmits ==
  ASSUME TypeOK, ProgramType', EmitInv, SameEmits, \A e \in Endpoints : Calm(e)
  PROVE  EmitInv'
<1>0. ProgramType /\ NotifierType BY Types
<1>1. ASSUME NEW x \in Nat, NEW y \in Nat, Slot(x, y)' PROVE SlotInv(x, y)'
  <2>1. x \in DOMAIN stack /\ stack'[x] = stack[x] /\ stack[x].kind = "emit"
    BY <1>1 DEF SameEmits, Slot
  <2>2. stack[x] \in Frames BY <1>0, <2>1 DEF ProgramType
  <2>3. stack[x].next \in Nat BY <2>2 DEF Frames
  <2>4. GoesOn(x) BY <2>1, <2>3 DEF GoesOn
  <2>5. \A e \in Endpoints : CalmBelow(e) BY DEF CalmBelow
  <2> QED BY <1>0, <1>1, <2>4, <2>5, CalmSlot DEF EmitInv
<1>2. ASSUME NEW e \in Endpoints PROVE PointInv(e)'
  <2>1. ASSUME NEW x \in Nat, NEW y \in Nat, PointsTo(e, x, y) PROVE PointsTo(e, x, y)'
    <3>1. Slot(x, y)' /\ stack'[x] = stack[x] BY <1>0, <2>1, SlotStays DEF PointsTo
    <3> QED BY <2>1, <3>1 DEF PointsTo, EntryAt
  <2>2. PointInv(e) /\ Calm(e) /\ notifying[e] \in Nat \X Nat
    BY <1>0 DEF EmitInv, NotifierType
  <2> QED BY <2>1, <2>2, PointStays
<1>3. CallInv' BY DEF EmitInv, CallInv, SameEmits
<1> QED BY <1>1, <1>2, <1>3 DEF EmitInv

\* The frame on top goes on to its n-th, or calls it.
TopMoves(n, c) ==
  /\ \A x \in 1 .. Depth - 1 : stack'[x] = stack[x]
  /\ stack'[Depth].kind = "emit" /\ stack'[Depth].of = Top.of
  /\ stack'[Depth].entries = Top.entries
  /\ stack'[Depth].next = n /\ (stack'[Depth].called <=> c)
  /\ \/ DOMAIN stack' = 1 .. Depth
     \/ DOMAIN stack' = 1 .. Depth + 1 /\ stack'[Depth + 1].kind # "emit"

LEMMA MovedSlot ==
  ASSUME ProgramType, At("emit"), NEW n \in Nat, NEW c, TopMoves(n, c),
         NEW x \in Nat, NEW y \in Nat, Slot(x, y), x = Depth => y <= n
  PROVE  /\ Slot(x, y)' /\ stack'[x].entries = stack[x].entries
         /\ x # Depth => stack'[x] = stack[x]
<1>1. x \in DOMAIN stack /\ stack[x].kind = "emit" /\ y \in 1 .. stack[x].next BY DEF Slot
<1>2. Depth \in Nat /\ DOMAIN stack = 1 .. Depth /\ Depth > 0 /\ Top = stack[Depth]
  BY TopIs DEF At
<1>3. x \in DOMAIN stack' BY <1>1, <1>2 DEF TopMoves
<1>4. CASE x = Depth
  <2>1. stack'[x].kind = "emit" /\ stack'[x].next = n /\ y \in 1 .. n
    BY <1>1, <1>4 DEF TopMoves
  <2> QED BY <1>2, <1>3, <1>4, <2>1 DEF TopMoves, Slot
<1>5. CASE x # Depth
  <2>1. x \in 1 .. Depth - 1 BY <1>1, <1>2, <1>5
  <2>2. stack'[x] = stack[x] BY <2>1 DEF TopMoves
  <2> QED BY <1>1, <1>3, <2>2 DEF Slot
<1> QED BY <1>4, <1>5

LEMMA MovedEmits ==
  ASSUME TypeOK, ProgramType', EmitInv, At("emit"), NEW n \in Nat, NEW c, TopMoves(n, c),
         \A e \in Endpoints : Calm(e),
         n \in {Top.next, Top.next - 1},
         n = Top.next - 1 =>
           \A e \in Endpoints : notifying'[e] # NoSlot /\ sender'[e] # None /\ PointsTo(e, Depth, Top.next) =>
             notifying[e] # <<Depth, Top.next>>,
         c => n > 0
  PROVE  EmitInv'
<1>0. ProgramType /\ NotifierType BY Types
<1>d. Depth \in Nat /\ DOMAIN stack = 1 .. Depth /\ Depth > 0 /\ Top = stack[Depth] /\ Top \in Frames
  BY <1>0, TopIs DEF At
<1>n. Top.next \in Nat /\ n <= Top.next BY <1>d DEF Frames
<1>1. ASSUME NEW x \in Nat, NEW y \in Nat, Slot(x, y)' PROVE SlotInv(x, y)'
  <2>1. x \in DOMAIN stack' /\ stack'[x].kind = "emit" BY <1>1 DEF Slot
  <2>2. x \in 1 .. Depth
    <3>1. x \in 1 .. Depth \/ (x \in 1 .. Depth + 1 /\ stack'[Depth + 1].kind # "emit")
      BY <2>1 DEF TopMoves
    <3> QED BY <1>d, <2>1, <3>1
  <2>3. GoesOn(x)
    <3>1. CASE x = Depth BY <1>d, <1>n, <2>2, <3>1 DEF GoesOn, TopMoves, At
    <3>2. CASE x # Depth
      <4>1. x \in 1 .. Depth - 1 BY <1>d, <2>2, <3>2
      <4>2. stack'[x] = stack[x] BY <4>1 DEF TopMoves
      <4>3. x \in DOMAIN stack BY <1>d, <2>2
      <4>4. stack[x] \in Frames BY <1>0, <4>3 DEF ProgramType
      <4>5. stack[x].next \in Nat BY <4>4 DEF Frames
      <4> QED BY <2>1, <4>2, <4>3, <4>5 DEF GoesOn
    <3> QED BY <3>1, <3>2
  <2>4. \A e \in Endpoints : CalmBelow(e) BY DEF CalmBelow
  <2> QED BY <1>0, <1>1, <2>3, <2>4, CalmSlot DEF EmitInv
<1>2. ASSUME NEW e \in Endpoints PROVE PointInv(e)'
  <2>1. ASSUME notifying'[e] # NoSlot, sender'[e] # None,
               NEW x \in Nat, NEW y \in Nat, notifying[e] = <<x, y>>, PointsTo(e, x, y)
        PROVE  PointsTo(e, x, y)'
    <3>1. Slot(x, y) BY <2>1 DEF PointsTo
    <3>2. x = Depth => y <= n
      <4>1. ASSUME x = Depth PROVE y <= n
        <5>1. y \in 1 .. Top.next BY <1>d, <3>1, <4>1 DEF Slot
        <5>2. n = Top.next - 1 => y # Top.next
          <6>1. ASSUME n = Top.next - 1, y = Top.next PROVE FALSE
            <7>1. PointsTo(e, Depth, Top.next) /\ notifying[e] = <<Depth, Top.next>>
              BY <2>1, <4>1, <6>1
            <7> QED BY <2>1, <6>1, <7>1
          <6> QED BY <6>1
        <5> QED BY <1>n, <5>1, <5>2
      <4> QED BY <4>1
    <3>3. Slot(x, y)' /\ stack'[x].entries = stack[x].entries BY <1>0, <3>1, <3>2, MovedSlot
    <3> QED BY <2>1, <3>3 DEF PointsTo, EntryAt
  <2>2. PointInv(e) /\ Calm(e) /\ notifying[e] \in Nat \X Nat
    BY <1>0 DEF EmitInv, NotifierType
  <2> QED BY <2>1, <2>2, PointStays
<1>3. CallInv'
  <2>1. ASSUME NEW x \in DOMAIN stack', stack'[x].kind = "emit", stack'[x].called
        PROVE  stack'[x].next > 0
    <3>1. x \in 1 .. Depth - 1 \/ x = Depth BY <1>d, <2>1 DEF TopMoves
    <3>2. CASE x = Depth BY <2>1, <3>2 DEF TopMoves
    <3>3. CASE x \in 1 .. Depth - 1
      <4>1. stack'[x] = stack[x] BY <3>3 DEF TopMoves
      <4>2. x \in DOMAIN stack BY <1>d, <3>3
      <4> QED BY <2>1, <4>1, <4>2 DEF EmitInv, CallInv
    <3> QED BY <3>1, <3>2, <3>3
  <2> QED BY <2>1 DEF CallInv
<1> QED BY <1>1, <1>2, <1>3 DEF EmitInv

\* emitNotify() begins, above frames in which no notification has changed.
EmitsAbove(p, list) ==
  /\ \A x \in 1 .. Depth : /\ x \in DOMAIN stack'
                           /\ stack'[x] = stack[x] \/ ("emit" \notin {stack[x].kind, stack'[x].kind})
  /\ list = <<>> => DOMAIN stack' = 1 .. Depth
  /\ list # <<>> =>
       /\ DOMAIN stack' = 1 .. Depth + 1
       /\ LET f == stack'[Depth + 1] IN
          /\ f.kind = "emit" /\ f.of = p /\ f.next = Len(list) /\ ~f.called
          /\ Len(f.entries) = Len(list)
          /\ \A y \in 1 .. Len(list) :
               /\ f.entries[y].endpoint = list[y]
               /\ f.entries[y].watch =
                    IF notifying[list[y]] = NoSlot THEN <<Depth + 1, y>> ELSE notifying[list[y]]

LEMMA EmitKeeps ==
  ASSUME TypeOK, ProgramType', EmitInv, ListInv, NEW p \in Properties,
         NEW list \in Seq(Endpoints), Told(p, Depth, list), EmitsAbove(p, list),
         sender' = sender
  PROVE  EmitInv'
<1>0. ProgramType /\ NotifierType BY Types
<1>d. Depth \in Nat /\ DOMAIN stack = 1 .. Depth /\ NoSlot[1] = 0 BY <1>0 DEF Depth, ProgramType, NoSlot
<1>l. PICK m \in Nat : m = Len(list) /\ DOMAIN list = 1 .. m /\ (list = <<>> <=> m = 0)
  OBVIOUS
<1>p. /\ list = endpoints[p] /\ Once(list)
      /\ \A e \in Endpoints : In(list, e) <=> sender[e] = p
      /\ None \notin Properties
  BY BindingAssumption DEF Told, ListInv
<1>c. \A e \in Endpoints : CalmBelow(e)
  <2>1. ASSUME NEW e \in Endpoints PROVE CalmBelow(e)
    <3>1. CASE notifying'[e] = notifying[e] BY <3>1 DEF Told, CalmBelow, Calm
    <3>2. CASE notifying'[e] # notifying[e]
      <4>1. PICK x : notifying'[e] = <<Depth + 1, x>> BY <3>2 DEF Told
      <4>2. notifying'[e][1] = Depth + 1 BY <4>1
      <4> QED BY <1>d, <4>2 DEF CalmBelow
    <3> QED BY <3>1, <3>2
  <2> QED BY <2>1
<1>b. ASSUME NEW x \in 1 .. Depth, stack'[x].kind = "emit" \/ stack[x].kind = "emit"
      PROVE  stack'[x] = stack[x] /\ x \in DOMAIN stack' /\ x \in DOMAIN stack /\ stack[x].next \in Nat
  <2>1. x \in DOMAIN stack' /\ x \in DOMAIN stack /\ stack'[x] = stack[x]
    BY <1>b, <1>d DEF EmitsAbove
  <2>2. stack[x] \in Frames BY <1>0, <2>1 DEF ProgramType
  <2>3. stack[x].next \in Nat BY <2>2 DEF Frames
  <2> QED BY <2>1, <2>3
<1>1. ASSUME NEW x \in Nat, NEW y \in Nat, Slot(x, y)' PROVE SlotInv(x, y)'
  <2>1. x \in DOMAIN stack' /\ stack'[x].kind = "emit" /\ y \in 1 .. stack'[x].next
    BY <1>1 DEF Slot
  <2>2. CASE x \in 1 .. Depth
    <3>1. GoesOn(x) BY <1>b, <2>1, <2>2 DEF GoesOn
    <3> QED BY <1>0, <1>1, <1>c, <3>1, CalmSlot DEF EmitInv
  <2>3. CASE x \notin 1 .. Depth
    <3>1. list # <<>> /\ x = Depth + 1
      <4>1. list # <<>> BY <2>1, <2>3 DEF EmitsAbove
      <4>2. DOMAIN stack' = 1 .. Depth + 1 BY <4>1 DEF EmitsAbove
      <4> QED BY <1>d, <2>1, <2>3, <4>1, <4>2
    <3>2. PICK f : f = stack'[x] OBVIOUS
    <3>3. /\ f.of = p /\ f.next = m /\ Len(f.entries) = m
          /\ \A z \in 1 .. m :
               /\ f.entries[z].endpoint = list[z]
               /\ f.entries[z].watch =
                    IF notifying[list[z]] = NoSlot THEN <<x, z>> ELSE notifying[list[z]]
      BY <1>l, <3>1, <3>2 DEF EmitsAbove
    <3>4. PICK e \in Endpoints : e = list[y] /\ y \in 1 .. m /\ In(list, e)
      BY <1>l, <2>1, <3>2, <3>3 DEF In
    <3>5. sender[e] = p /\ sender[e] # None BY <1>p, <3>4
    <3>6. PICK w : w = f.entries[y].watch OBVIOUS
    <3>7. w = IF notifying[e] = NoSlot THEN <<x, y>> ELSE notifying[e] BY <3>3, <3>4, <3>6
    <3>8. w[1] \in 1 .. x
      <4>1. CASE notifying[e] = NoSlot
        <5>1. w = <<x, y>> BY <3>7, <4>1
        <5>2. w[1] = x BY <5>1
        <5> QED BY <1>d, <3>1, <5>2
      <4>2. CASE notifying[e] # NoSlot
        <5>1. PICK i \in Nat, j \in Nat : notifying[e] = <<i, j>>
          <6>1. notifying[e] \in Nat \X Nat BY <1>0 DEF NotifierType
          <6> QED BY <6>1
        <5>2. i = notifying[e][1] BY <5>1
        <5>3. PointInv(e) BY DEF EmitInv
        <5>4. PointsTo(e, notifying[e][1], notifying[e][2]) BY <3>5, <4>2, <5>3 DEF PointInv
        <5>5. i \in 1 .. Depth BY <1>d, <5>2, <5>4 DEF PointsTo, Slot
        <5>6. w[1] = i BY <3>7, <4>2, <5>2
        <5> QED BY <1>d, <3>1, <5>5, <5>6
      <4> QED BY <4>1, <4>2
    <3>9. \A z \in 1 .. m : list[z] = e => z = y BY <1>l, <1>p, <3>4 DEF Once
    <3>10. e \in Guards => e \in stale' BY <3>5 DEF Told
    <3>11. EntryAt(x, y)'.endpoint = e /\ EntryAt(x, y)'.watch = w
           /\ \A z \in 1 .. m : EntryAt(x, z)'.endpoint = list[z]
      BY <3>2, <3>3, <3>4, <3>6 DEF EntryAt
    <3>12. sender'[e] = stack'[x].of BY <3>2, <3>3, <3>5
    <3>13. y <= Len(stack'[x].entries) /\ stack'[x].next = m BY <3>2, <3>3, <3>4
    <3> QED BY <3>8, <3>9, <3>10, <3>11, <3>12, <3>13 DEF SlotInv
  <2> QED BY <2>2, <2>3
<1>2. ASSUME NEW e \in Endpoints PROVE PointInv(e)'
  <2>0. PointInv(e) /\ notifying[e] \in Nat \X Nat BY <1>0 DEF EmitInv, NotifierType
  <2>1. CASE notifying'[e] = notifying[e]
    <3>1. Calm(e) BY <2>1 DEF Calm, Told
    <3>2. ASSUME NEW x \in Nat, NEW y \in Nat, PointsTo(e, x, y) PROVE PointsTo(e, x, y)'
      <4>1. x \in 1 .. Depth /\ stack[x].kind = "emit" /\ y \in 1 .. stack[x].next
        BY <1>d, <3>2 DEF PointsTo, Slot
      <4>2. stack'[x] = stack[x] /\ x \in DOMAIN stack' BY <1>b, <4>1
      <4> QED BY <3>2, <4>1, <4>2 DEF PointsTo, Slot, EntryAt
    <3> QED BY <2>0, <3>1, <3>2, PointStays
  <2>2. CASE notifying'[e] # notifying[e]
    <3>1. PICK y \in DOMAIN list :
            list[y] = e /\ notifying'[e] = <<Depth + 1, y>> /\ notifying[e] = NoSlot /\ sender[e] = p
      BY <2>2 DEF Told
    <3>2. list # <<>> /\ y \in 1 .. m BY <1>l, <3>1
    <3>3. PICK f : f = stack'[Depth + 1] OBVIOUS
    <3>4. /\ Depth + 1 \in DOMAIN stack' /\ f.kind = "emit" /\ y \in 1 .. f.next
          /\ f.entries[y].endpoint = e /\ f.entries[y].watch = <<Depth + 1, y>>
      <4>1. /\ DOMAIN stack' = 1 .. Depth + 1 /\ f.kind = "emit" /\ f.next = m
            /\ \A z \in 1 .. m :
                 /\ f.entries[z].endpoint = list[z]
                 /\ f.entries[z].watch =
                      IF notifying[list[z]] = NoSlot THEN <<Depth + 1, z>> ELSE notifying[list[z]]
        BY <1>l, <3>2, <3>3 DEF EmitsAbove
      <4>2. f.entries[y].watch =
              IF notifying[list[y]] = NoSlot THEN <<Depth + 1, y>> ELSE notifying[list[y]]
        BY <3>2, <4>1
      <4>3. f.entries[y].watch = <<Depth + 1, y>> BY <3>1, <4>2
      <4>4. f.entries[y].endpoint = e BY <3>1, <3>2, <4>1
      <4>5. Depth + 1 \in DOMAIN stack' BY <1>d, <4>1
      <4>6. y \in 1 .. f.next BY <3>2, <4>1
      <4> QED BY <4>1, <4>3, <4>4, <4>5, <4>6
    <3>5. PICK d : d = Depth + 1 OBVIOUS
    <3>6. PointsTo(e, d, y)' BY <3>3, <3>4, <3>5 DEF PointsTo, Slot, EntryAt
    <3>7. notifying'[e][1] = d /\ notifying'[e][2] = y BY <3>1, <3>5
    <3>8. sender'[e] # None BY <1>p, <3>1
    <3>9. PointsTo(e, notifying[e][1], notifying[e][2])'
      BY <3>6, <3>7 DEF PointsTo, Slot, EntryAt
    <3> QED BY <3>8, <3>9 DEF PointInv
  <2> QED BY <2>1, <2>2
<1>3. CallInv'
  <2>1. ASSUME NEW x \in DOMAIN stack', stack'[x].kind = "emit", stack'[x].called
        PROVE  stack'[x].next > 0
    <3>1. CASE x \in 1 .. Depth
      <4>1. stack'[x] = stack[x] /\ x \in DOMAIN stack BY <1>b, <2>1, <3>1
      <4> QED BY <2>1, <4>1 DEF EmitInv, CallInv
    <3>2. CASE x \notin 1 .. Depth
      <4>1. list # <<>> /\ x = Depth + 1 BY <1>d, <2>1, <3>2 DEF EmitsAbove
      <4> QED BY <2>1, <4>1 DEF EmitsAbove
    <3> QED BY <3>1, <3>2
  <2> QED BY <2>1 DEF CallInv
<1> QED BY <1>1, <1>2, <1>3 DEF EmitInv

-----------------------------------------------------------------------------
(* What the steps do to the guards of the bindings.                        *)

\* No binding begins or ends an evaluation or an update.
SameRuns ==
  /\ \A x \in DOMAIN stack' : stack'[x].kind \in RunKinds =>
       x \in DOMAIN stack /\ stack[x].kind \in RunKinds /\ stack'[x].of = stack[x].of
  /\ \A x \in DOMAIN stack' : stack'[x].kind = "evaluate" =>
       x \in DOMAIN stack /\ stack'[x] = stack[x]
  /\ \A x \in DOMAIN stack : stack[x].kind = "evaluate" =>
       x \in DOMAIN stack' /\ stack'[x] = stack[x]

\* Bindings lose their guards, or none does.
Clears(L) ==
  /\ \A b \in Bindings : binding'[b].updating <=> binding[b].updating
  /\ \A b \in Bindings \ L : active'[b] = active[b] /\ (binding'[b].exists <=> binding[b].exists)
  /\ \A b \in L : active'[b] = <<>>
  /\ \A g \in Guards :
       expression'[g] = IF \E b \in L : In(active[b], g) THEN None ELSE expression[g]

LEMMA ClearedOwn ==
  ASSUME TypeOK, OwnInv, SameRuns, NEW L \in SUBSET Bindings, Clears(L)
  PROVE  OwnInv'
<1>0. None \notin Bindings BY BindingAssumption
<1>1. RunInv'
  <2>1. \A x, b : Runs(x, b)' => Runs(x, b) BY DEF SameRuns, Runs
  <2>2. RunInv BY DEF OwnInv
  <2>3. \A x \in DOMAIN stack' : stack'[x].kind \in RunKinds => stack'[x].of \in Bindings
    BY <2>2 DEF RunInv, SameRuns
  <2>4. \A b \in Bindings, x \in Nat : Runs(x, b)' => binding'[b].updating
    BY <2>1, <2>2 DEF RunInv, Clears
  <2>5. \A b \in Bindings, x, y \in Nat : Runs(x, b)' /\ Runs(y, b)' => x = y
    BY <2>1, <2>2 DEF RunInv
  <2> QED BY <2>3, <2>4, <2>5 DEF RunInv
<1>2. ASSUME NEW x \in Nat, NEW b \in Bindings
      PROVE  Evals(x, b)' <=> Evals(x, b)
  BY DEF SameRuns, Evals
<1>3. ASSUME NEW x \in Nat, NEW b \in Bindings, Evals(x, b) PROVE stack'[x] = stack[x]
  BY <1>3 DEF SameRuns, Evals
<1>4. ASSUME NEW g \in Guards, NEW b \in Bindings, expression[g] = b, NEW c \in L, In(active[c], g)
      PROVE  b = c
  <2>1. ActiveInv(c) BY DEF OwnInv
  <2> QED BY <1>4, <2>1 DEF ActiveInv
<1>5. ASSUME NEW x \in Nat, NEW b \in Bindings, Evals(x, b)' PROVE EvalInv(x, b)'
  <2>1. Evals(x, b) BY <1>2, <1>5
  <2>2. stack'[x] = stack[x] BY <1>3, <2>1
  <2>3. EvalInv(x, b) BY <2>1 DEF OwnInv
  <2>4. ASSUME NEW g \in Guards, In(stack[x].rest, g) PROVE expression'[g] = b /\ ~In(active'[b], g)
    <3>1. expression[g] = b /\ ~In(active[b], g) BY <2>3, <2>4 DEF EvalInv
    <3>2. ~\E c \in L : In(active[c], g) BY <1>4, <3>1
    <3>3. ~In(active'[b], g) BY <3>1 DEF Clears, In
    <3> QED BY <3>1, <3>2, <3>3 DEF Clears
  <2> QED BY <2>2, <2>3, <2>4 DEF EvalInv
<1>6. ASSUME NEW b \in Bindings PROVE ActiveInv(b)'
  <2>1. CASE b \in L
    <3>1. active'[b] = <<>> BY <2>1 DEF Clears
    <3> QED BY <3>1 DEF ActiveInv, Once, In
  <2>2. CASE b \notin L
    <3>1. active'[b] = active[b] /\ (binding'[b].exists <=> binding[b].exists) BY <2>2 DEF Clears
    <3>2. ActiveInv(b) BY DEF OwnInv
    <3>3. ASSUME NEW g \in Guards, In(active[b], g) PROVE expression'[g] = b
      <4>1. expression[g] = b BY <3>2, <3>3 DEF ActiveInv
      <4>2. ~\E c \in L : In(active[c], g) BY <1>4, <2>2, <4>1
      <4> QED BY <4>1, <4>2 DEF Clears
    <3> QED BY <3>1, <3>2, <3>3 DEF ActiveInv
  <2> QED BY <2>1, <2>2
<1>7. ASSUME NEW g \in Guards, NEW b \in Bindings, expression'[g] = b PROVE Held(g, b)'
  <2>1. expression[g] = b /\ ~\E c \in L : In(active[c], g) BY <1>0, <1>7 DEF Clears
  <2>2. Held(g, b) BY <2>1 DEF OwnInv
  <2>3. CASE In(active[b], g)
    <3>1. b \notin L BY <2>1, <2>3
    <3> QED BY <2>3, <3>1 DEF Clears, Held
  <2>4. CASE ~In(active[b], g)
    <3>1. PICK x \in Nat : Evals(x, b) /\ In(stack[x].rest, g) BY <2>2, <2>4 DEF Held
    <3> QED BY <1>2, <1>3, <3>1 DEF Held
  <2> QED BY <2>3, <2>4
<1> QED BY <1>1, <1>5, <1>6, <1>7 DEF OwnInv

\* A binding begins to evaluate.
Begins(b) ==
  /\ binding[b].exists /\ ~binding[b].updating
  /\ DOMAIN stack' = 1 .. Depth + 1
  /\ stack'[Depth + 1].kind = "evaluate" /\ stack'[Depth + 1].of = b
  /\ stack'[Depth + 1].rest = active[b]
  /\ \A x \in 1 .. Depth : \/ stack'[x] = stack[x]
                           \/ stack[x].kind \notin RunKinds /\ stack'[x].kind \notin RunKinds
  /\ \A c \in Bindings : /\ binding'[c].exists <=> binding[c].exists
                         /\ c # b => (binding'[c].updating <=> binding[c].updating)
                         /\ active'[c] = IF c = b THEN <<>> ELSE active[c]
  /\ binding'[b].updating
  /\ expression' = expression

LEMMA BegunOwn ==
  ASSUME TypeOK, OwnInv, NEW b \in Bindings, Begins(b)
  PROVE  OwnInv'
<1>d. Depth \in Nat /\ DOMAIN stack = 1 .. Depth BY DEF TypeOK, Depth
<1>r. RunInv BY DEF OwnInv
<1>k. "evaluate" \in RunKinds BY DEF RunKinds
<1>1. ASSUME NEW x \in Nat, NEW c \in Bindings, Runs(x, c)'
      PROVE  (Runs(x, c) /\ x \in 1 .. Depth) \/ (x = Depth + 1 /\ c = b)
  BY <1>1, <1>d DEF Begins, Runs
<1>2. \A x \in Nat : ~Runs(x, b) BY <1>r DEF RunInv, Begins
<1>3. RunInv'
  <2>1. \A x \in DOMAIN stack' : stack'[x].kind \in RunKinds => stack'[x].of \in Bindings
    <3>1. ASSUME NEW x \in DOMAIN stack', stack'[x].kind \in RunKinds
          PROVE  stack'[x].of \in Bindings
      <4>1. CASE x \in 1 .. Depth
        <5>1. stack'[x] = stack[x] BY <3>1, <4>1 DEF Begins
        <5> QED BY <1>d, <1>r, <3>1, <4>1, <5>1 DEF RunInv
      <4>2. CASE x = Depth + 1 BY <4>2 DEF Begins
      <4> QED BY <1>d, <4>1, <4>2 DEF Begins
    <3> QED BY <3>1
  <2>2. ASSUME NEW c \in Bindings, NEW x \in Nat, Runs(x, c)' PROVE binding'[c].updating
    <3>1. CASE c = b BY <3>1 DEF Begins
    <3>2. CASE c # b
      <4>1. Runs(x, c) BY <1>1, <2>2, <3>2
      <4>2. binding[c].updating BY <1>r, <4>1 DEF RunInv
      <4> QED BY <3>2, <4>2 DEF Begins
    <3> QED BY <3>1, <3>2
  <2>3. \A c \in Bindings, x, y \in Nat : Runs(x, c)' /\ Runs(y, c)' => x = y
    BY <1>1, <1>2, <1>r DEF RunInv
  <2> QED BY <2>1, <2>2, <2>3 DEF RunInv
<1>4. ASSUME NEW x \in Nat, NEW c \in Bindings, Evals(x, c)'
      PROVE  \/ Evals(x, c) /\ x \in 1 .. Depth /\ stack'[x] = stack[x] /\ c # b
             \/ x = Depth + 1 /\ c = b
  <2>1. Runs(x, c)' BY <1>4, <1>k DEF Runs, Evals
  <2>2. CASE x = Depth + 1 /\ c = b BY <2>2
  <2>3. CASE Runs(x, c) /\ x \in 1 .. Depth
    <3>1. stack'[x] = stack[x] BY <2>3 DEF Begins, Runs
    <3>2. c # b BY <1>2, <2>3
    <3> QED BY <1>4, <1>d, <2>3, <3>1, <3>2 DEF Evals
  <2> QED BY <1>1, <2>1, <2>2, <2>3
<1>5. ASSUME NEW x \in Nat, NEW c \in Bindings, Evals(x, c)
      PROVE  Evals(x, c)' /\ stack'[x] = stack[x]
  <2>1. x \in 1 .. Depth /\ stack[x].kind = "evaluate" BY <1>5, <1>d DEF Evals
  <2>2. stack'[x] = stack[x] BY <1>k, <2>1 DEF Begins
  <2>3. x \in DOMAIN stack' BY <1>d, <2>1 DEF Begins
  <2> QED BY <1>5, <2>2, <2>3 DEF Evals
<1>6. ActiveInv(b) BY DEF OwnInv
<1>7. ASSUME NEW x \in Nat, NEW c \in Bindings, Evals(x, c)' PROVE EvalInv(x, c)'
  <2>1. CASE Evals(x, c) /\ stack'[x] = stack[x] /\ c # b
    <3>1. EvalInv(x, c) BY <2>1 DEF OwnInv
    <3>2. active'[c] = active[c] /\ (binding'[c].exists <=> binding[c].exists)
      BY <2>1 DEF Begins
    <3> QED BY <2>1, <3>1, <3>2 DEF EvalInv, Begins
  <2>2. CASE x = Depth + 1 /\ c = b
    <3>1. stack'[x].rest = active[b] /\ active'[b] = <<>> /\ binding'[b].exists
          /\ expression' = expression
      BY <2>2 DEF Begins
    <3>2. \A g : ~In(<<>>, g) BY DEF In
    <3> QED BY <1>6, <2>2, <3>1, <3>2 DEF EvalInv, ActiveInv
  <2> QED BY <1>4, <1>7, <2>1, <2>2
<1>8. ASSUME NEW c \in Bindings PROVE ActiveInv(c)'
  <2>1. CASE c = b
    <3>1. active'[c] = <<>> BY <2>1 DEF Begins
    <3> QED BY <3>1 DEF ActiveInv, Once, In
  <2>2. CASE c # b
    <3>1. /\ active'[c] = active[c] /\ (binding'[c].exists <=> binding[c].exists)
          /\ expression' = expression
      BY <2>2 DEF Begins
    <3>2. ActiveInv(c) BY DEF OwnInv
    <3> QED BY <3>1, <3>2 DEF ActiveInv
  <2> QED BY <2>1, <2>2
<1>9. ASSUME NEW g \in Guards, NEW c \in Bindings, expression'[g] = c PROVE Held(g, c)'
  <2>1. Held(g, c) BY <1>9 DEF OwnInv, Begins
  <2>2. CASE \E x \in Nat : Evals(x, c) /\ In(stack[x].rest, g)
    <3>1. PICK x \in Nat : Evals(x, c) /\ In(stack[x].rest, g) BY <2>2
    <3> QED BY <1>5, <3>1 DEF Held
  <2>3. CASE In(active[c], g) /\ c # b
    <3>1. active'[c] = active[c] BY <2>3 DEF Begins
    <3> QED BY <2>3, <3>1 DEF Held
  <2>4. CASE In(active[c], g) /\ c = b
    <3>1. PICK x \in Nat : x = Depth + 1 BY <1>d
    <3>2. Evals(x, c)' /\ stack'[x].rest = active[c] BY <1>d, <2>4, <3>1 DEF Begins, Evals
    <3> QED BY <2>4, <3>2 DEF Held
  <2> QED BY <2>1, <2>2, <2>3, <2>4 DEF Held
<1> QED BY <1>3, <1>7, <1>8, <1>9 DEF OwnInv

\* A binding has evaluated: the guards that it has not captured again go.
LEMMA EvaluatedOwn ==
  ASSUME TypeOK, OwnInv, At("evaluate"), NEW f, f = Top,
         DOMAIN stack' = 1 .. Depth, \A x \in 1 .. Depth - 1 : stack'[x] = stack[x],
         stack'[Depth].kind = "write", stack'[Depth].of = f.of,
         active' = active, binding' = binding,
         \A g \in Guards : expression'[g] = IF In(f.rest, g) THEN None ELSE expression[g]
  PROVE  OwnInv'
<1>0. None \notin Bindings BY BindingAssumption
<1>d. Depth \in Nat /\ DOMAIN stack = 1 .. Depth /\ Depth > 0 /\ f = stack[Depth]
      /\ f.kind = "evaluate"
  BY DEF TypeOK, Depth, At, Top
<1>r. RunInv BY DEF OwnInv
<1>k. "evaluate" \in RunKinds /\ "write" \in RunKinds BY DEF RunKinds
<1>b. PICK b \in Bindings : b = f.of /\ Evals(Depth, b) BY <1>d, <1>k, <1>r DEF RunInv, Evals
<1>1. ASSUME NEW x \in Nat, NEW c, Runs(x, c)' PROVE Runs(x, c)
  BY <1>1, <1>d, <1>k DEF Runs
<1>2. RunInv'
  <2>1. \A x \in DOMAIN stack' : stack'[x].kind \in RunKinds => stack'[x].of \in Bindings
    BY <1>b, <1>d, <1>r DEF RunInv
  <2> QED BY <1>1, <1>r, <2>1 DEF RunInv
<1>3. ASSUME NEW x \in Nat, NEW c, Evals(x, c)'
      PROVE  Evals(x, c) /\ stack'[x] = stack[x] /\ x # Depth
  BY <1>3, <1>d DEF Evals
<1>4. ASSUME NEW x \in Nat, NEW c, Evals(x, c), x # Depth
      PROVE  Evals(x, c)' /\ stack'[x] = stack[x]
  BY <1>4, <1>d DEF Evals
<1>5. EvalInv(Depth, b) BY <1>b, <1>d DEF OwnInv
<1>6. ASSUME NEW g \in Guards, In(f.rest, g) PROVE expression[g] = b /\ ~In(active[b], g)
  BY <1>5, <1>6, <1>d DEF EvalInv
<1>7. ASSUME NEW x \in Nat, NEW c \in Bindings, Evals(x, c)' PROVE EvalInv(x, c)'
  <2>1. Evals(x, c) /\ stack'[x] = stack[x] /\ x # Depth BY <1>3, <1>7
  <2>2. EvalInv(x, c) BY <2>1 DEF OwnInv
  <2>3. c # b
    <3>1. ASSUME c = b PROVE FALSE
      <4>1. Runs(x, b) /\ Runs(Depth, b) BY <1>b, <1>k, <2>1, <3>1 DEF Runs, Evals
      <4> QED BY <1>d, <1>r, <2>1, <4>1 DEF RunInv
    <3> QED BY <3>1
  <2>4. ASSUME NEW g \in Guards, In(stack[x].rest, g)
        PROVE  expression'[g] = c /\ ~In(active'[c], g)
    <3>1. expression[g] = c /\ ~In(active[c], g) BY <2>2, <2>4 DEF EvalInv
    <3>2. ~In(f.rest, g) BY <1>6, <2>3, <3>1
    <3> QED BY <3>1, <3>2
  <2> QED BY <2>1, <2>2, <2>4 DEF EvalInv
<1>8. ASSUME NEW c \in Bindings PROVE ActiveInv(c)'
  <2>1. ActiveInv(c) BY DEF OwnInv
  <2>2. ASSUME NEW g \in Guards, In(active[c], g) PROVE expression'[g] = c
    <3>1. expression[g] = c BY <2>1, <2>2 DEF ActiveInv
    <3>2. ~In(f.rest, g) BY <1>6, <2>2, <3>1
    <3> QED BY <3>1, <3>2
  <2> QED BY <2>1, <2>2 DEF ActiveInv
<1>9. ASSUME NEW g \in Guards, NEW c \in Bindings, expression'[g] = c PROVE Held(g, c)'
  <2>1. expression[g] = c /\ ~In(f.rest, g) BY <1>0, <1>9
  <2>2. Held(g, c) BY <2>1 DEF OwnInv
  <2>3. CASE In(active[c], g) BY <2>3 DEF Held
  <2>4. CASE \E x \in Nat : Evals(x, c) /\ In(stack[x].rest, g)
    <3>1. PICK x \in Nat : Evals(x, c) /\ In(stack[x].rest, g) BY <2>4
    <3>2. x # Depth BY <1>d, <2>1, <3>1
    <3> QED BY <1>4, <3>1, <3>2 DEF Held
  <2> QED BY <2>2, <2>3, <2>4 DEF Held
<1> QED BY <1>2, <1>7, <1>8, <1>9 DEF OwnInv

\* A binding is updated.
LEMMA UpdatedOwn ==
  ASSUME TypeOK, OwnInv, At("done"), NEW b \in Bindings, b = Top.of,
         DOMAIN stack' = 1 .. Depth - 1, \A x \in 1 .. Depth - 1 : stack'[x] = stack[x],
         active' = active, expression' = expression,
         \A c \in Bindings : /\ binding'[c].exists <=> binding[c].exists
                             /\ c # b => (binding'[c].updating <=> binding[c].updating)
  PROVE  OwnInv'
<1>d. Depth \in Nat /\ DOMAIN stack = 1 .. Depth /\ Depth > 0 /\ Top = stack[Depth]
      /\ Top.kind = "done"
  BY DEF TypeOK, Depth, At, Top
<1>r. RunInv BY DEF OwnInv
<1>k. "done" \in RunKinds BY DEF RunKinds
<1>b. Runs(Depth, b) BY <1>d, <1>k DEF Runs
<1>1. ASSUME NEW x \in Nat, NEW c, Runs(x, c)' PROVE Runs(x, c) /\ x # Depth
  BY <1>1, <1>d DEF Runs
<1>2. RunInv'
  <2>1. \A x \in DOMAIN stack' : stack'[x].kind \in RunKinds => stack'[x].of \in Bindings
    BY <1>d, <1>r DEF RunInv
  <2>2. ASSUME NEW c \in Bindings, NEW x \in Nat, Runs(x, c)' PROVE binding'[c].updating
    <3>1. Runs(x, c) /\ x # Depth BY <1>1, <2>2
    <3>2. c # b BY <1>b, <1>d, <1>r, <3>1 DEF RunInv
    <3> QED BY <1>r, <3>1, <3>2 DEF RunInv
  <2> QED BY <1>1, <1>r, <2>1, <2>2 DEF RunInv
<1>3. ASSUME NEW x \in Nat, NEW c PROVE Evals(x, c)' <=> Evals(x, c)
  BY <1>d DEF Evals
<1>4. ASSUME NEW x \in Nat, NEW c, Evals(x, c) PROVE stack'[x] = stack[x]
  BY <1>4, <1>d DEF Evals
<1>5. ASSUME NEW x \in Nat, NEW c \in Bindings, Evals(x, c)' PROVE EvalInv(x, c)'
  <2>1. Evals(x, c) /\ stack'[x] = stack[x] BY <1>3, <1>4, <1>5
  <2>2. EvalInv(x, c) BY <2>1 DEF OwnInv
  <2> QED BY <2>1, <2>2 DEF EvalInv
<1>6. ASSUME NEW c \in Bindings PROVE ActiveInv(c)'
  <2>1. ActiveInv(c) BY DEF OwnInv
  <2> QED BY <2>1 DEF ActiveInv
<1>7. ASSUME NEW g \in Guards, NEW c \in Bindings, expression'[g] = c PROVE Held(g, c)'
  <2>1. Held(g, c) BY <1>7 DEF OwnInv
  <2>2. CASE In(active[c], g) BY <2>2 DEF Held
  <2>3. CASE \E x \in Nat : Evals(x, c) /\ In(stack[x].rest, g)
    BY <1>3, <1>4, <2>3 DEF Held
  <2> QED BY <2>1, <2>2, <2>3 DEF Held
<1> QED BY <1>2, <1>5, <1>6, <1>7 DEF OwnInv

\* The binding on top captures g, drops S and has r left to capture.
Captures(b, g, S, r) ==
  /\ Top.of = b /\ binding[b].exists
  /\ DOMAIN stack' = 1 .. Depth /\ \A x \in 1 .. Depth - 1 : stack'[x] = stack[x]
  /\ stack'[Depth].kind = "evaluate" /\ stack'[Depth].of = b /\ stack'[Depth].rest = r
  /\ In(Top.rest, g) \/ expression[g] = None
  /\ S \subseteq Guards /\ \A h \in S : In(Top.rest, h)
  /\ Once(r) /\ \A h : In(r, h) => In(Top.rest, h) /\ h \notin S /\ h # g
  /\ \A h \in Guards : In(Top.rest, h) => In(r, h) \/ h \in S \/ h = g
  /\ active' = [active EXCEPT ![b] = Append(@, g)]
  /\ \A c \in Bindings : /\ binding'[c].exists <=> binding[c].exists
                         /\ binding'[c].updating <=> binding[c].updating
  /\ \A h \in Guards :
       expression'[h] = IF h = g THEN b ELSE IF h \in S THEN None ELSE expression[h]

LEMMA CapturedList ==
  ASSUME TypeOK, OwnInv, At("evaluate"), NEW b \in Bindings, NEW g \in Guards, NEW S, NEW r,
         Captures(b, g, S, r)
  PROVE  /\ Depth \in Nat /\ Evals(Depth, b) /\ EvalInv(Depth, b)
         /\ \A c \in Bindings : ~In(active[c], g)
         /\ \A c \in Bindings, h \in S : ~In(active[c], h)
         /\ active'[b] = Append(active[b], g) /\ Once(active'[b])
         /\ \A h : In(active'[b], h) <=> In(active[b], h) \/ h = g
         /\ \A c \in Bindings : c # b => active'[c] = active[c]
<1>0. None \notin Bindings BY BindingAssumption
<1>d. Depth \in Nat /\ DOMAIN stack = 1 .. Depth /\ Depth > 0 /\ Top = stack[Depth]
      /\ Top.kind = "evaluate" /\ Top.of = b
  BY DEF TypeOK, Depth, At, Top, Captures
<1>1. Evals(Depth, b) BY <1>d DEF Evals
<1>2. EvalInv(Depth, b) BY <1>1, <1>d DEF OwnInv
<1>3. ASSUME NEW h \in Guards, In(Top.rest, h) PROVE expression[h] = b /\ ~In(active[b], h)
  BY <1>2, <1>3, <1>d DEF EvalInv
<1>4. ASSUME NEW c \in Bindings, NEW h \in Guards, In(Top.rest, h) \/ expression[h] = None
      PROVE  ~In(active[c], h)
  <2>1. In(active[c], h) => expression[h] = c BY DEF OwnInv, ActiveInv
  <2> QED BY <1>0, <1>3, <1>4, <2>1
<1>5. \A c \in Bindings : ~In(active[c], g) BY <1>4 DEF Captures
<1>6. \A c \in Bindings, h \in S : ~In(active[c], h) BY <1>4 DEF Captures
<1>7. active[b] \in Seq(Guards) /\ active'[b] = Append(active[b], g) BY DEF TypeOK, Captures
<1>8. Once(active[b]) BY DEF OwnInv, ActiveInv
<1>9. Once(Append(active[b], g)) /\ \A h : In(Append(active[b], g), h) <=> In(active[b], h) \/ h = g
  BY <1>5, <1>7, <1>8, Appended
<1>10. \A c \in Bindings : c # b => active'[c] = active[c] BY DEF TypeOK, Captures
<1> QED BY <1>1, <1>2, <1>5, <1>6, <1>7, <1>9, <1>10, <1>d

LEMMA CapturedOwn ==
  ASSUME TypeOK, OwnInv, At("evaluate"), NEW b \in Bindings, NEW g \in Guards, NEW S, NEW r,
         Captures(b, g, S, r)
  PROVE  OwnInv'
<1>0. None \notin Bindings BY BindingAssumption
<1>a. /\ Evals(Depth, b) /\ EvalInv(Depth, b)
      /\ \A c \in Bindings : ~In(active[c], g)
      /\ \A c \in Bindings, h \in S : ~In(active[c], h)
      /\ Once(active'[b])
      /\ \A h : In(active'[b], h) <=> In(active[b], h) \/ h = g
      /\ \A c \in Bindings : c # b => active'[c] = active[c]
  BY CapturedList
<1>d. Depth \in Nat /\ DOMAIN stack = 1 .. Depth /\ Depth > 0 /\ Top = stack[Depth]
      /\ Top.kind = "evaluate" /\ Top.of = b
  BY DEF TypeOK, Depth, At, Top, Captures
<1>c. /\ DOMAIN stack' = 1 .. Depth /\ \A x \in 1 .. Depth - 1 : stack'[x] = stack[x]
      /\ stack'[Depth].kind = "evaluate" /\ stack'[Depth].of = b /\ stack'[Depth].rest = r
  BY DEF Captures
<1>r. RunInv BY DEF OwnInv
<1>k. "evaluate" \in RunKinds BY DEF RunKinds
<1>1. ASSUME NEW x \in Nat, NEW c PROVE Runs(x, c)' <=> Runs(x, c)
  BY <1>c, <1>d DEF Runs
<1>2. RunInv'
  <2>1. \A x \in DOMAIN stack' : stack'[x].kind \in RunKinds => stack'[x].of \in Bindings
    BY <1>c, <1>d, <1>r DEF RunInv
  <2>2. \A c \in Bindings : binding'[c].updating <=> binding[c].updating BY DEF Captures
  <2> QED BY <1>1, <1>r, <2>1, <2>2 DEF RunInv
<1>3. ASSUME NEW x \in Nat, NEW c PROVE Evals(x, c)' <=> Evals(x, c)
  BY <1>c, <1>d DEF Evals
<1>4. ASSUME NEW x \in Nat, NEW c, Evals(x, c)
      PROVE  (stack'[x] = stack[x] /\ c # b) \/ (x = Depth /\ c = b)
  <2>1. CASE x = Depth BY <1>4, <1>d, <2>1 DEF Evals
  <2>2. CASE x # Depth
    <3>1. stack'[x] = stack[x] BY <1>4, <1>c, <1>d, <2>2 DEF Evals
    <3>2. ASSUME c = b PROVE FALSE
      <4>1. Runs(x, b) /\ Runs(Depth, b) BY <1>4, <1>a, <1>k, <3>2 DEF Runs, Evals
      <4> QED BY <1>d, <1>r, <2>2, <4>1 DEF RunInv
    <3> QED BY <3>1, <3>2
  <2> QED BY <2>1, <2>2
<1>5. ASSUME NEW h \in Guards, In(Top.rest, h) PROVE expression[h] = b /\ ~In(active[b], h)
  BY <1>5, <1>a, <1>d DEF EvalInv
<1>6. ASSUME NEW h \in Guards, NEW c \in Bindings, expression[h] = c, c # b
      PROVE  expression'[h] = c /\ h # g
  <2>1. h # g /\ h \notin S BY <1>0, <1>5, <1>6 DEF Captures
  <2> QED BY <1>6, <2>1 DEF Captures
<1>7. ASSUME NEW x \in Nat, NEW c \in Bindings, Evals(x, c)' PROVE EvalInv(x, c)'
  <2>1. Evals(x, c) BY <1>3, <1>7
  <2>2. EvalInv(x, c) BY <2>1 DEF OwnInv
  <2>3. binding'[c].exists <=> binding[c].exists BY DEF Captures
  <2>4. CASE stack'[x] = stack[x] /\ c # b
    <3>1. active'[c] = active[c] BY <1>a, <2>4
    <3>2. ASSUME NEW h \in Guards, In(stack[x].rest, h)
          PROVE  expression'[h] = c /\ ~In(active'[c], h)
      <4>1. expression[h] = c /\ ~In(active[c], h) BY <2>2, <3>2 DEF EvalInv
      <4> QED BY <1>6, <2>4, <3>1, <4>1
    <3> QED BY <2>2, <2>3, <2>4, <3>2 DEF EvalInv
  <2>5. CASE x = Depth /\ c = b
    <3>1. stack'[x].rest = r /\ Once(r) BY <1>c, <2>5 DEF Captures
    <3>2. ASSUME NEW h \in Guards, In(r, h) PROVE expression'[h] = b /\ ~In(active'[b], h)
      <4>1. In(Top.rest, h) /\ h \notin S /\ h # g BY <3>2 DEF Captures
      <4>2. expression[h] = b /\ ~In(active[b], h) BY <1>5, <4>1
      <4>3. expression'[h] = b BY <4>1, <4>2 DEF Captures
      <4> QED BY <1>a, <4>1, <4>2, <4>3
    <3> QED BY <2>2, <2>3, <2>5, <3>1, <3>2 DEF EvalInv
  <2> QED BY <1>4, <2>1, <2>4, <2>5
<1>8. ASSUME NEW c \in Bindings PROVE ActiveInv(c)'
  <2>1. ActiveInv(c) /\ (binding'[c].exists <=> binding[c].exists) BY DEF OwnInv, Captures
  <2>2. CASE c # b
    <3>1. active'[c] = active[c] BY <1>a, <2>2
    <3> QED BY <1>6, <2>1, <2>2, <3>1 DEF ActiveInv
  <2>3. CASE c = b
    <3>1. ASSUME NEW h \in Guards, In(active'[b], h) PROVE expression'[h] = b
      <4>1. CASE h = g BY <4>1 DEF Captures
      <4>2. CASE h # g
        <5>1. In(active[b], h) BY <1>a, <3>1, <4>2
        <5>2. h \notin S BY <1>a, <5>1
        <5>3. expression[h] = b BY <2>1, <2>3, <5>1 DEF ActiveInv
        <5> QED BY <4>2, <5>2, <5>3 DEF Captures
      <4> QED BY <4>1, <4>2
    <3>2. binding'[b].exists BY <2>1, <2>3 DEF Captures
    <3> QED BY <1>a, <2>3, <3>1, <3>2 DEF ActiveInv
  <2> QED BY <2>2, <2>3
<1>9. ASSUME NEW h \in Guards, NEW c \in Bindings, expression'[h] = c PROVE Held(h, c)'
  <2>1. CASE h = g
    <3>1. c = b BY <1>9, <2>1 DEF Captures
    <3>2. In(active'[b], h) BY <1>a, <2>1
    <3> QED BY <3>1, <3>2 DEF Held
  <2>2. CASE h # g
    <3>1. expression[h] = c /\ h \notin S BY <1>0, <1>9, <2>2 DEF Captures
    <3>2. Held(h, c) BY <3>1 DEF OwnInv
    <3>3. CASE In(active[c], h)
      <4>1. In(active'[c], h) BY <1>a, <3>3
      <4> QED BY <4>1 DEF Held
    <3>4. CASE \E x \in Nat : Evals(x, c) /\ In(stack[x].rest, h)
      <4>1. PICK x \in Nat : Evals(x, c) /\ In(stack[x].rest, h) BY <3>4
      <4>2. Evals(x, c)' BY <1>3, <4>1
      <4>3. CASE stack'[x] = stack[x] BY <4>1, <4>2, <4>3 DEF Held
      <4>4. CASE x = Depth /\ c = b
        <5>1. In(r, h) BY <1>d, <2>2, <3>1, <4>1, <4>4 DEF Captures
        <5>2. In(stack'[x].rest, h) BY <1>c, <4>4, <5>1
        <5> QED BY <4>2, <5>2 DEF Held
      <4> QED BY <1>4, <4>1, <4>3, <4>4
    <3> QED BY <3>2, <3>3, <3>4 DEF Held
  <2> QED BY <2>1, <2>2
<1> QED BY <1>2, <1>7, <1>8, <1>9 DEF OwnInv

-----------------------------------------------------------------------------
(* What the steps do to what a binding listens to.                         *)

LEMMA PendingStays ==
  ASSUME ProgramType, SameEmits, NEW g, notifying'[g] = notifying[g],
         NEW x \in Nat, NEW y \in Nat, Pending(g, x, y)
  PROVE  Pending(g, x, y)'
<1>1. Slot(x, y)' /\ stack'[x] = stack[x] BY SlotStays DEF Pending
<1> QED BY <1>1 DEF Pending, EntryAt

LEMMA PendingMoves ==
  ASSUME ProgramType, At("emit"), NEW n \in Nat, NEW c, TopMoves(n, c), NEW g,
         notifying'[g] = notifying[g], NEW x \in Nat, NEW y \in Nat, Pending(g, x, y),
         x = Depth => y <= n /\ (c => y # n)
  PROVE  Pending(g, x, y)'
<1>1. /\ Slot(x, y)' /\ stack'[x].entries = stack[x].entries
      /\ x # Depth => stack'[x] = stack[x]
  BY MovedSlot DEF Pending
<1>2. stack'[x].called => y # stack'[x].next
  <2>1. CASE x = Depth BY <2>1 DEF TopMoves
  <2>2. CASE x # Depth BY <1>1, <2>2 DEF Pending
  <2> QED BY <2>1, <2>2
<1> QED BY <1>1, <1>2 DEF Pending, EntryAt

LEMMA HearsOn ==
  ASSUME ProgramType, SameEmits, NEW b \in Bindings, ReadsInv(b), PendsInv(b),
         active'[b] = active[b], binding'[b].read = binding[b].read,
         \A g \in Guards : In(active[b], g) =>
           sender'[g] = sender[g] /\ notifying'[g] = notifying[g] /\ (g \in stale' => g \in stale),
         stale' \subseteq Guards
  PROVE  ReadsInv(b)' /\ PendsInv(b)'
<1>1. ReadsInv(b)' BY DEF ReadsInv
<1>2. ASSUME NEW g \in stale', In(active[b], g) PROVE \E x, y \in Nat : Pending(g, x, y)'
  <2>1. g \in stale /\ notifying'[g] = notifying[g] BY <1>2
  <2>2. PICK x \in Nat, y \in Nat : Pending(g, x, y) BY <1>2, <2>1 DEF PendsInv
  <2>3. Pending(g, x, y)' BY <2>1, <2>2, PendingStays
  <2> QED BY <2>3
<1> QED BY <1>1, <1>2 DEF PendsInv

LEMMA HearsNothing ==
  ASSUME NEW b \in Bindings, active'[b] = <<>>, binding'[b].read = {}
  PROVE  ReadsInv(b)' /\ PendsInv(b)'
<1>1. \A g : ~In(<<>>, g) BY DEF In
<1> QED BY <1>1 DEF ReadsInv, PendsInv

-----------------------------------------------------------------------------
(* The steps.                                                              *)

\* Frames that notify nothing come and go; a binding stops listening, or begins again.
LEMMA QuietRest ==
  ASSUME IInv, ProgramType', UNCHANGED notifierVars, SameEmits,
         \A b \in Bindings : Listening(b)' =>
           \/ /\ Listening(b) /\ active'[b] = active[b]
              /\ binding'[b].read = binding[b].read
           \/ active'[b] = <<>> /\ binding'[b].read = {}
  PROVE  TypeOK' /\ ListInv' /\ EmitInv' /\ HearInv'
<1>0. TypeOK /\ ListInv /\ EmitInv /\ OwnInv /\ HearInv BY DEF IInv
<1>1. NotifierType /\ ProgramType BY <1>0, Types
<1>2. /\ endpoints' = endpoints /\ sender' = sender /\ notifying' = notifying
      /\ stale' = stale /\ expression' = expression
  BY DEF notifierVars
<1>3. NotifierType' BY <1>1, <1>2 DEF NotifierType
<1>4. ListInv' BY <1>0, <1>2 DEF ListInv
<1>5. EmitInv'
  <2>1. \A e \in Endpoints : Calm(e) BY <1>2 DEF Calm
  <2> QED BY <1>0, <2>1, QuietEmits
<1>6. HearInv'
  <2>1. ASSUME NEW b \in Bindings, Listening(b)' PROVE ReadsInv(b)' /\ PendsInv(b)'
    <3>1. CASE active'[b] = <<>> /\ binding'[b].read = {} BY <3>1, HearsNothing
    <3>2. CASE /\ Listening(b) /\ active'[b] = active[b]
               /\ binding'[b].read = binding[b].read
      <4>1. ReadsInv(b) /\ PendsInv(b) BY <1>0, <3>2 DEF HearInv
      <4>2. stale' \subseteq Guards BY <1>3 DEF NotifierType
      <4> QED BY <1>1, <1>2, <3>2, <4>1, <4>2, HearsOn
    <3> QED BY <2>1, <3>1, <3>2
  <2> QED BY <2>1 DEF HearInv
<1>7. TypeOK' BY <1>3, TypesNext
<1> QED BY <1>4, <1>5, <1>6, <1>7

LEMMA QuietKeeps ==
  ASSUME IInv, ProgramType', UNCHANGED notifierVars, UNCHANGED active, SameEmits, SameRuns,
         \A b \in Bindings : /\ binding'[b].exists <=> binding[b].exists
                             /\ binding'[b].updating <=> binding[b].updating
                             /\ Listening(b)' => Listening(b) /\ binding'[b].read = binding[b].read
  PROVE  IInv'
<1>1. TypeOK' /\ ListInv' /\ EmitInv' /\ HearInv' BY QuietRest
<1>2. Clears({}) BY DEF Clears, notifierVars
<1>3. OwnInv' BY <1>2, ClearedOwn DEF IInv
<1> QED BY <1>1, <1>3 DEF IInv

\* Endpoints are disconnected, those of the bindings L and of the properties P.
DropsOf(S, D, L, P) ==
  /\ Drops(S, D, {}) /\ D \subseteq S /\ UNCHANGED stack
  /\ \A g \in Guards : g \in D <=> \E b \in L : In(active[b], g)
  /\ \A e \in Endpoints : sender[e] \in P => e \in S
  /\ \A e \in S \ D : sender[e] \in P /\ (Ruthless \/ notifying[e] = NoSlot)
  /\ \A b \in Bindings : binding'[b].updating <=> binding[b].updating
  /\ \A b \in Bindings \ L :
       active'[b] = active[b] /\ (binding'[b].exists <=> binding[b].exists)
  /\ \A b \in L : active'[b] = <<>>
  /\ \A b \in Bindings : Listening(b)' =>
       Listening(b) /\ b \notin L /\ binding'[b].read = binding[b].read \ P

LEMMA DropStep ==
  ASSUME IInv, ProgramType', NEW S, NEW D, NEW L \in SUBSET Bindings,
         NEW P \in SUBSET Properties, DropsOf(S, D, L, P)
  PROVE  IInv'
<1>a. /\ Drops(S, D, {}) /\ D \subseteq S /\ stack' = stack
      /\ \A g \in Guards : g \in D <=> \E b \in L : In(active[b], g)
      /\ \A e \in Endpoints : sender[e] \in P => e \in S
      /\ \A e \in S \ D : sender[e] \in P /\ (Ruthless \/ notifying[e] = NoSlot)
      /\ \A b \in Bindings : binding'[b].updating <=> binding[b].updating
      /\ \A b \in Bindings \ L :
           active'[b] = active[b] /\ (binding'[b].exists <=> binding[b].exists)
      /\ \A b \in L : active'[b] = <<>>
      /\ \A b \in Bindings : Listening(b)' =>
           Listening(b) /\ b \notin L /\ binding'[b].read = binding[b].read \ P
  BY DEF DropsOf
<1>0. TypeOK /\ ListInv /\ EmitInv /\ OwnInv /\ HearInv BY DEF IInv
<1>1. NotifierType /\ ProgramType BY <1>0, Types
<1>n. None \notin Properties BY BindingAssumption
<1>2. /\ \A e \in Endpoints : sender'[e] = IF e \in S THEN None ELSE sender[e]
      /\ \A e \in Endpoints : notifying'[e] = IF e \in D THEN NoSlot ELSE notifying[e]
      /\ stale' = stale \ S
      /\ \A g \in Guards : expression'[g] = IF g \in D THEN None ELSE expression[g]
  BY <1>a DEF Drops
<1>3. NotifierType' BY <1>1, <1>a, DropTypes
<1>4. ListInv' BY <1>0, <1>1, <1>a, DropKeeps
<1>s. SameEmits /\ SameRuns BY <1>a DEF SameEmits, SameRuns
<1>5. EmitInv'
  <2>1. ASSUME NEW e \in Endpoints PROVE Calm(e)
    <3>1. CASE e \in D BY <1>2, <1>a, <3>1 DEF Calm
    <3>2. CASE e \in S /\ e \notin D BY <1>2, <1>a, <3>2 DEF Calm
    <3>3. CASE e \notin S BY <1>2, <1>a, <3>3 DEF Calm
    <3> QED BY <3>1, <3>2, <3>3
  <2> QED BY <1>0, <1>s, <2>1, QuietEmits
<1>6. OwnInv'
  <2>1. Clears(L) BY <1>2, <1>a DEF Clears
  <2> QED BY <1>0, <1>s, <2>1, ClearedOwn
<1>7. HearInv'
  <2>1. ASSUME NEW b \in Bindings, Listening(b)' PROVE ReadsInv(b)' /\ PendsInv(b)'
    <3>1. Listening(b) /\ b \notin L /\ binding'[b].read = binding[b].read \ P
      BY <1>a, <2>1
    <3>2. ReadsInv(b) /\ PendsInv(b) BY <1>0, <3>1 DEF HearInv
    <3>3. active'[b] = active[b] BY <1>a, <3>1
    <3>4. ASSUME NEW g \in Guards, In(active[b], g) PROVE g \notin D /\ (g \in S <=> sender[g] \in P)
      <4>1. g \in Endpoints BY GuardsAreEndpoints
      <4>2. g \notin D
        <5>1. ASSUME NEW c \in L, In(active[c], g) PROVE FALSE
          <6>1. expression[g] = b /\ expression[g] = c
            BY <1>0, <3>4, <5>1 DEF OwnInv, ActiveInv
          <6> QED BY <3>1, <6>1
        <5> QED BY <1>a, <5>1
      <4> QED BY <1>a, <4>1, <4>2
    <3>5. ASSUME NEW p \in Properties
          PROVE  p \in binding'[b].read <=> \E g \in Guards : In(active'[b], g) /\ sender'[g] = p
      <4>1. p \in binding[b].read <=> \E g \in Guards : In(active[b], g) /\ sender[g] = p
        BY <3>2 DEF ReadsInv
      <4>2. ASSUME NEW g \in Guards, In(active[b], g)
            PROVE  sender'[g] = p <=> sender[g] = p /\ p \notin P
        <5>1. g \in Endpoints BY GuardsAreEndpoints
        <5> QED BY <1>2, <1>n, <3>4, <4>2, <5>1
      <4> QED BY <3>1, <3>3, <4>1, <4>2
    <3>6. ReadsInv(b)' BY <3>5 DEF ReadsInv
    <3>7. ASSUME NEW g \in stale', In(active'[b], g) PROVE \E x, y \in Nat : Pending(g, x, y)'
      <4>1. g \in stale /\ g \in Guards /\ g \in Endpoints
        BY <1>1, <1>2, GuardsAreEndpoints DEF NotifierType
      <4>2. notifying'[g] = notifying[g] BY <1>2, <3>3, <3>4, <3>7, <4>1
      <4>3. PICK x \in Nat, y \in Nat : Pending(g, x, y) BY <3>2, <3>3, <3>7, <4>1 DEF PendsInv
      <4>4. Pending(g, x, y)' BY <1>1, <1>s, <4>2, <4>3, PendingStays
      <4> QED BY <4>4
    <3>8. PendsInv(b)' BY <3>7 DEF PendsInv
    <3> QED BY <3>6, <3>8
  <2> QED BY <2>1 DEF HearInv
<1>8. TypeOK' BY <1>3, TypesNext
<1> QED BY <1>4, <1>5, <1>6, <1>7, <1>8 DEF IInv

\* The stack when emitNotify() has begun.
LEMMA EmitShape ==
  ASSUME NotifierType, ProgramType, NEW p \in Properties, NEW list \in Seq(Endpoints),
         list = endpoints[p], NEW frames \in Seq(Frames), Len(frames) = Depth, Emit(p, frames),
         \A x \in 1 .. Depth :
           frames[x] = stack[x] \/ ("emit" \notin {stack[x].kind, frames[x].kind})
  PROVE  /\ EmitsAbove(p, list) /\ stack' \in Seq(Frames)
         /\ \A x \in 1 .. Depth : x \in DOMAIN stack' /\ stack'[x] = frames[x]
         /\ \/ DOMAIN stack' = 1 .. Depth
            \/ DOMAIN stack' = 1 .. Depth + 1 /\ stack'[Depth + 1].kind = "emit"
<1>d. Depth \in Nat /\ DOMAIN stack = 1 .. Depth BY DEF Depth, ProgramType
<1>m. PICK m \in Nat : m = Len(list) /\ DOMAIN list = 1 .. m /\ (list = <<>> <=> m = 0)
  OBVIOUS
<1>1. CASE list = <<>>
  <2>1. stack' = frames BY <1>1 DEF Emit
  <2>2. DOMAIN stack' = 1 .. Depth BY <1>d, <2>1
  <2>3. EmitsAbove(p, list) BY <1>d, <1>1, <2>1, <2>2 DEF EmitsAbove
  <2> QED BY <2>1, <2>2, <2>3
<1>2. CASE list # <<>>
  <2> DEFINE entries == [x \in DOMAIN list |->
               [endpoint |-> list[x], watch |-> Watch(list[x], <<Len(frames) + 1, x>>)]]
             f == [Frame("emit", p) EXCEPT !.entries = entries, !.next = Len(list)]
  <2>1. stack' = Append(frames, f) BY <1>2 DEF Emit
  <2>2. ASSUME NEW x \in 1 .. m
        PROVE  /\ entries[x].endpoint = list[x]
               /\ entries[x].watch =
                    IF notifying[list[x]] = NoSlot THEN <<Depth + 1, x>> ELSE notifying[list[x]]
               /\ entries[x] \in EntryType
    <3>1. PICK e \in Endpoints : e = list[x] BY <1>m
    <3>2. PICK w \in Nat \X Nat : w = Watch(e, <<Depth + 1, x>>)
      <4>1. notifying[e] \in Nat \X Nat BY DEF NotifierType
      <4>2. <<Depth + 1, x>> \in Nat \X Nat BY <1>d
      <4> QED BY <4>1, <4>2 DEF Watch
    <3>3. entries[x] = [endpoint |-> e, watch |-> w] BY <1>m, <3>1, <3>2
    <3>4. entries[x] \in EntryType /\ entries[x].endpoint = e /\ entries[x].watch = w
      BY <3>3 DEF EntryType
    <3> QED BY <3>1, <3>2, <3>4 DEF Watch
  <2>3. entries \in Seq(EntryType) /\ Len(entries) = m
    <3>1. entries = [x \in 1 .. m |-> entries[x]] BY <1>m
    <3> HIDE DEF entries
    <3>2. entries \in [1 .. m -> EntryType] BY <2>2, <3>1
    <3> QED BY <3>2
  <2> HIDE DEF entries
  <2>4. f \in Frames /\ f.kind = "emit" /\ f.of = p /\ f.entries = entries /\ f.next = m /\ ~f.called
    <3>1. PICK h : h = f OBVIOUS
    <3>2. h = EmissionOf(p, entries, m) BY <1>m, <3>1 DEF EmissionOf
    <3> HIDE DEF f
    <3>3. /\ h \in Frames /\ h.kind = "emit" /\ h.of = p
          /\ h.entries = entries /\ h.next = m /\ ~h.called
      BY <2>3, <3>2, EmitFrame
    <3> QED BY <3>1, <3>3
  <2> HIDE DEF f
  <2>5. /\ stack' \in Seq(Frames) /\ DOMAIN stack' = 1 .. Depth + 1 /\ stack'[Depth + 1] = f
        /\ \A x \in 1 .. Depth : stack'[x] = frames[x]
    <3>1. PICK t : t = stack' /\ t = Append(frames, f) BY <2>1
    <3>2. /\ t \in Seq(Frames) /\ DOMAIN t = 1 .. Depth + 1 /\ t[Depth + 1] = f
          /\ \A x \in 1 .. Depth : t[x] = frames[x]
      BY <1>d, <2>4, <3>1, Above
    <3> QED BY <3>1, <3>2
  <2>6. \A x \in 1 .. Depth : x \in DOMAIN stack' BY <1>d, <2>5
  <2>7. \A y \in 1 .. m :
          /\ f.entries[y].endpoint = list[y]
          /\ f.entries[y].watch =
               IF notifying[list[y]] = NoSlot THEN <<Depth + 1, y>> ELSE notifying[list[y]]
    BY <2>2, <2>4
  <2>8. Len(f.entries) = m BY <2>3, <2>4
  <2>9. EmitsAbove(p, list)
    BY <1>m, <1>2, <2>4, <2>5, <2>6, <2>7, <2>8 DEF EmitsAbove
  <2> QED BY <2>4, <2>5, <2>6, <2>9
<1> QED BY <1>1, <1>2

\* A property changes.
LEMMA EmitStep ==
  ASSUME IInv, ProgramType', UNCHANGED <<endpoints, sender, expression, active, binding>>,
         NEW p \in Properties, NEW frames \in Seq(Frames), Len(frames) = Depth,
         Emit(p, frames), SameRuns,
         \A x \in 1 .. Depth :
           frames[x] = stack[x] \/ ("emit" \notin {stack[x].kind, frames[x].kind})
  PROVE  IInv'
<1>0. TypeOK /\ ListInv /\ EmitInv /\ OwnInv /\ HearInv BY DEF IInv
<1>1. NotifierType /\ ProgramType BY <1>0, Types
<1>d. Depth \in Nat /\ DOMAIN stack = 1 .. Depth BY <1>1 DEF Depth, ProgramType
<1>3. NotifierType' BY <1>1, EmitTypes
<1>l. PICK list \in Seq(Endpoints) : Told(p, Depth, list) BY <1>0, <1>1, EmitTells
<1>m. PICK m \in Nat : m = Len(list) /\ DOMAIN list = 1 .. m /\ (list = <<>> <=> m = 0)
  OBVIOUS
<1>p. /\ list = endpoints[p] /\ Once(list)
      /\ \A e \in Endpoints : In(list, e) <=> sender[e] = p
  BY <1>0, <1>l DEF Told, ListInv
<1>e. EmitsAbove(p, list) BY <1>1, <1>p, EmitShape
<1>4. ListInv' BY <1>0, <1>1, <1>l, EmitLists
<1>5. EmitInv' BY <1>0, <1>e, <1>l, EmitKeeps
<1>6. OwnInv'
  <2>1. Clears({}) BY DEF Clears
  <2> QED BY <1>0, <2>1, ClearedOwn
<1>7. HearInv'
  <2>1. ASSUME NEW b \in Bindings, Listening(b)' PROVE ReadsInv(b)' /\ PendsInv(b)'
    <3>1. ReadsInv(b) /\ PendsInv(b) BY <1>0, <2>1 DEF HearInv, Listening
    <3>2. ReadsInv(b)' BY <3>1 DEF ReadsInv
    <3>3. ASSUME NEW g \in stale', In(active'[b], g) PROVE \E x, y \in Nat : Pending(g, x, y)'
      <4>1. g \in Guards /\ g \in Endpoints BY <1>3, GuardsAreEndpoints DEF NotifierType
      <4>2. CASE sender[g] = p
        <5>1. PICK y \in 1 .. m : list[y] = g BY <1>m, <1>p, <4>1, <4>2 DEF In
        <5>2. PICK f : f = stack'[Depth + 1] OBVIOUS
        <5>3. /\ DOMAIN stack' = 1 .. Depth + 1 /\ f.kind = "emit" /\ f.next = m /\ ~f.called
              /\ \A z \in 1 .. m :
                   /\ f.entries[z].endpoint = list[z]
                   /\ f.entries[z].watch =
                        IF notifying[list[z]] = NoSlot THEN <<Depth + 1, z>> ELSE notifying[list[z]]
          BY <1>e, <1>m, <5>1, <5>2 DEF EmitsAbove
        <5>4. f.entries[y].endpoint = g
              /\ f.entries[y].watch = IF notifying[g] = NoSlot THEN <<Depth + 1, y>> ELSE notifying[g]
          BY <5>1, <5>3
        <5>5. f.entries[y].watch = notifying'[g]
          <6>1. CASE notifying'[g] = notifying[g] /\ (In(list, g) => notifying[g] # NoSlot)
            BY <1>p, <4>1, <4>2, <5>4, <6>1
          <6>2. CASE notifying[g] = NoSlot
                     /\ \E x \in DOMAIN list : list[x] = g /\ notifying'[g] = <<Depth + 1, x>>
            <7>1. PICK x \in DOMAIN list : list[x] = g /\ notifying'[g] = <<Depth + 1, x>> BY <6>2
            <7>2. x = y BY <1>m, <1>p, <5>1, <7>1 DEF Once
            <7> QED BY <5>4, <6>2, <7>1, <7>2
          <6> QED BY <1>l, <4>1, <6>1, <6>2 DEF Told
        <5>6. PICK d \in Nat : d = Depth + 1 BY <1>d
        <5>7. d \in DOMAIN stack' /\ y \in Nat BY <1>d, <5>3, <5>6
        <5>8. Pending(g, d, y)' BY <5>2, <5>3, <5>4, <5>5, <5>6, <5>7 DEF Pending, Slot, EntryAt
        <5> QED BY <5>7, <5>8
      <4>3. CASE sender[g] # p
        <5>1. g \in stale BY <1>l, <4>1, <4>3 DEF Told
        <5>2. PICK x \in Nat, y \in Nat : Pending(g, x, y) BY <3>1, <3>3, <5>1 DEF PendsInv
        <5>3. x \in 1 .. Depth /\ stack[x].kind = "emit" BY <1>d, <5>2 DEF Pending, Slot
        <5>4. x \in DOMAIN stack' /\ stack'[x] = stack[x] BY <1>e, <5>3 DEF EmitsAbove
        <5>5. notifying'[g] = notifying[g] BY <1>l, <4>1, <4>3 DEF Told
        <5>6. Pending(g, x, y)' BY <5>2, <5>4, <5>5 DEF Pending, Slot, EntryAt
        <5> QED BY <5>6
      <4> QED BY <4>2, <4>3
    <3>4. PendsInv(b)' BY <3>3 DEF PendsInv
    <3> QED BY <3>2, <3>4
  <2> QED BY <2>1 DEF HearInv
<1>8. TypeOK' BY <1>3, TypesNext
<1> QED BY <1>4, <1>5, <1>6, <1>7, <1>8 DEF IInv

\* A call has returned.
LEMMA ReturnKeeps ==
  ASSUME IInv, Emitted \/ HandlerReturns
  PROVE  IInv'
<1>1. /\ stack' = Rest /\ Depth > 0 /\ Top.kind \in {"emit", "handle"}
      /\ Top.kind = "emit" => Top.next = 0
      /\ UNCHANGED notifierVars /\ UNCHANGED <<active, binding, handler, alive, calls>>
  BY DEF Emitted, HandlerReturns, At
<1>2. ProgramType BY Types DEF IInv
<1>3. Depth \in Nat /\ DOMAIN stack = 1 .. Depth /\ Top = stack[Depth] BY <1>1, <1>2, TopIs
<1>4. /\ stack' \in Seq(Frames) /\ DOMAIN stack' = 1 .. Depth - 1
      /\ \A x \in 1 .. Depth - 1 : stack'[x] = stack[x]
  BY <1>1, <1>2, PopShape
<1>5. ProgramType' BY <1>1, <1>2, <1>4 DEF ProgramType
<1>6. SameEmits BY <1>1, <1>3, <1>4 DEF SameEmits
<1>7. SameRuns BY <1>1, <1>3, <1>4 DEF SameRuns, RunKinds
<1> QED BY <1>1, <1>5, <1>6, <1>7, QuietKeeps DEF Listening

\* What the binding on top has evaluated is written, or thrown away.
LEMMA WriteKeeps ==
  ASSUME IInv, Write
  PROVE  IInv'
<1>1. /\ Depth > 0 /\ Top.kind = "write"
      /\ UNCHANGED <<endpoints, sender, expression, active, binding, handler, alive, calls>>
  BY DEF Write, At
<1>2. ProgramType /\ NotifierType BY Types DEF IInv
<1>3. /\ Depth \in Nat /\ DOMAIN stack = 1 .. Depth /\ Top = stack[Depth] /\ Top \in Frames
      /\ Rest \in Seq(Frames) /\ Len(Rest) = Depth - 1
      /\ \A x \in 1 .. Depth - 1 : Rest[x] = stack[x]
  BY <1>1, <1>2, TopIs
<1>4. PICK f \in Frames : f = Done(Top) /\ f.kind = "done" /\ f.of = Top.of
  <2>1. PICK h : h = Done(Top) OBVIOUS
  <2>2. PICK t \in Frames : t = Top BY <1>3
  <2>3. h = Done(t) BY <2>1, <2>2
  <2>4. h \in Frames /\ h.kind = "done" /\ h.of = t.of BY <2>3, DoneFrame
  <2> QED BY <2>1, <2>2, <2>4
<1>5. PICK frames : frames = Append(Rest, f) OBVIOUS
<1>6. /\ frames \in Seq(Frames) /\ DOMAIN frames = 1 .. Depth /\ Len(frames) = Depth
      /\ frames[Depth] = f /\ \A x \in 1 .. Depth - 1 : frames[x] = stack[x]
  <2>1. PICK s \in Seq(Frames), n \in Nat :
          s = Rest /\ n = Len(s) /\ n + 1 = Depth /\ n = Depth - 1
    BY <1>1, <1>3
  <2>2. n = Len(s) /\ frames = Append(s, f) BY <1>5, <2>1
  <2>3. /\ frames \in Seq(Frames) /\ Len(frames) = n + 1 /\ DOMAIN frames = 1 .. n + 1
        /\ frames[n + 1] = f /\ \A x \in 1 .. n : frames[x] = s[x]
    BY <2>2, Above
  <2> QED BY <1>3, <2>1, <2>3
<1>7. \A x \in 1 .. Depth :
        \/ frames[x] = stack[x]
        \/ /\ stack[x].kind = "write" /\ frames[x].kind = "done" /\ frames[x].of = stack[x].of
  <2>1. \A x \in 1 .. Depth : x = Depth \/ x \in 1 .. Depth - 1 BY <1>3
  <2> QED BY <1>1, <1>3, <1>4, <1>6, <2>1
<1>8. \/ stack' = frames /\ UNCHANGED <<notifying, stale>>
      \/ Emit(Target[Top.of], frames)
  BY <1>4, <1>5 DEF Write, Done
<1>9. CASE stack' = frames /\ UNCHANGED <<notifying, stale>>
  <2>1. ProgramType' BY <1>1, <1>2, <1>6, <1>9 DEF ProgramType
  <2>2. SameEmits BY <1>3, <1>6, <1>7, <1>9 DEF SameEmits
  <2>3. SameRuns BY <1>3, <1>6, <1>7, <1>9 DEF SameRuns, RunKinds
  <2>4. UNCHANGED notifierVars BY <1>1, <1>9 DEF notifierVars
  <2> QED BY <1>1, <2>1, <2>2, <2>3, <2>4, QuietKeeps DEF Listening
<1>10. CASE Emit(Target[Top.of], frames)
  <2>1. PICK p \in Properties : p = Target[Top.of]
    <3>1. Top.of \in Bindings
      BY <1>1, <1>3 DEF IInv, OwnInv, RunInv, RunKinds
    <3> QED BY <3>1, BindingAssumption
  <2>2. Emit(p, frames) BY <1>10, <2>1
  <2>3. \A x \in 1 .. Depth :
          frames[x] = stack[x] \/ ("emit" \notin {stack[x].kind, frames[x].kind})
    BY <1>7
  <2>4. PICK list \in Seq(Endpoints) : list = endpoints[p] BY <1>2 DEF NotifierType
  <2>5. /\ stack' \in Seq(Frames)
        /\ \A x \in 1 .. Depth : x \in DOMAIN stack' /\ stack'[x] = frames[x]
        /\ \/ DOMAIN stack' = 1 .. Depth
           \/ DOMAIN stack' = 1 .. Depth + 1 /\ stack'[Depth + 1].kind = "emit"
    BY <1>2, <1>6, <2>2, <2>3, <2>4, EmitShape
  <2>6. ProgramType' BY <1>1, <1>2, <2>5 DEF ProgramType
  <2>7. \A x \in DOMAIN stack' : x \in 1 .. Depth \/ stack'[x].kind = "emit"
    BY <1>3, <2>5
  <2>8. SameRuns BY <1>3, <1>7, <2>5, <2>7 DEF SameRuns, RunKinds
  <2> QED BY <1>1, <1>6, <2>2, <2>3, <2>6, <2>8, EmitStep
<1> QED BY <1>8, <1>9, <1>10

\* The program changes a property.
LEMMA ChangeKeeps ==
  ASSUME IInv, NEW p \in Properties, Change(p)
  PROVE  IInv'
<1>1. /\ Emit(p, stack) /\ calls' = calls + 1
      /\ UNCHANGED <<endpoints, sender, expression, active, binding, handler, alive>>
  BY DEF Change, MayRun
<1>2. ProgramType /\ NotifierType BY Types DEF IInv
<1>3. stack \in Seq(Frames) /\ Len(stack) = Depth /\ Depth \in Nat /\ DOMAIN stack = 1 .. Depth
  BY <1>2 DEF ProgramType, Depth
<1>4. PICK list \in Seq(Endpoints) : list = endpoints[p] BY <1>2 DEF NotifierType
<1>5. /\ stack' \in Seq(Frames)
      /\ \A x \in 1 .. Depth : x \in DOMAIN stack' /\ stack'[x] = stack[x]
      /\ \/ DOMAIN stack' = 1 .. Depth
         \/ DOMAIN stack' = 1 .. Depth + 1 /\ stack'[Depth + 1].kind = "emit"
  BY <1>1, <1>2, <1>3, <1>4, EmitShape
<1>6. ProgramType' BY <1>1, <1>2, <1>5 DEF ProgramType
<1>7. \A x \in DOMAIN stack' : x \in 1 .. Depth \/ stack'[x].kind = "emit" BY <1>3, <1>5
<1>8. SameRuns BY <1>3, <1>5, <1>7 DEF SameRuns, RunKinds
<1> QED BY <1>1, <1>3, <1>6, <1>8, EmitStep

\* update() has returned.
LEMMA UpdatedKeeps ==
  ASSUME IInv, Updated
  PROVE  IInv'
<1>1. /\ At("done") /\ stack' = Rest /\ Depth > 0 /\ Top.kind = "done"
      /\ binding' = [binding EXCEPT ![Top.of].updating = FALSE]
      /\ UNCHANGED notifierVars /\ UNCHANGED <<active, handler, alive, calls>>
  BY DEF Updated, At
<1>2. ProgramType /\ TypeOK /\ OwnInv BY Types DEF IInv
<1>3. Depth \in Nat /\ DOMAIN stack = 1 .. Depth /\ Top = stack[Depth] BY <1>1, <1>2, TopIs
<1>4. /\ stack' \in Seq(Frames) /\ DOMAIN stack' = 1 .. Depth - 1
      /\ \A x \in 1 .. Depth - 1 : stack'[x] = stack[x]
  BY <1>1, <1>2, PopShape
<1>b. PICK b \in Bindings : b = Top.of
  BY <1>1, <1>2, <1>3 DEF OwnInv, RunInv, RunKinds
<1>5. /\ binding' \in [Bindings -> [exists : BOOLEAN, enabled : BOOLEAN, updating : BOOLEAN,
                               looped : BOOLEAN, read : SUBSET Properties]]
      /\ \A c \in Bindings : /\ binding'[c].exists <=> binding[c].exists
                             /\ c # b => (binding'[c].updating <=> binding[c].updating)
                             /\ Listening(c)' <=> Listening(c)
                             /\ binding'[c].read = binding[c].read
  BY <1>1, <1>2, <1>b DEF ProgramType, Listening
<1>6. ProgramType' BY <1>1, <1>2, <1>4, <1>5 DEF ProgramType
<1>7. SameEmits BY <1>1, <1>3, <1>4 DEF SameEmits
<1>8. TypeOK' /\ ListInv' /\ EmitInv' /\ HearInv' BY <1>1, <1>5, <1>6, <1>7, QuietRest
<1>9. OwnInv' BY <1>1, <1>2, <1>4, <1>5, <1>b, UpdatedOwn DEF notifierVars
<1> QED BY <1>8, <1>9 DEF IInv

\* The evaluation has returned.
LEMMA EvaluatedKeeps ==
  ASSUME IInv, Evaluated
  PROVE  IInv'
<1>1. /\ At("evaluate") /\ Depth > 0 /\ Top.kind = "evaluate"
      /\ Delete(ToSet(Top.rest)) /\ stack' = Append(Rest, ToWrite(Top))
      /\ UNCHANGED <<active, binding, handler, alive, calls>>
  BY DEF Evaluated, At, NotCaptured, ToWrite
<1>2. /\ ProgramType /\ NotifierType /\ TypeOK /\ ListInv /\ EmitInv /\ OwnInv /\ HearInv
  BY Types DEF IInv
<1>3. /\ Depth \in Nat /\ DOMAIN stack = 1 .. Depth /\ Top = stack[Depth] /\ Top \in Frames
  BY <1>1, <1>2, TopIs
<1>t. PICK t \in Frames : t = Top BY <1>3
<1>4. PICK f \in Frames : f = ToWrite(Top) /\ f.kind = "write" /\ f.of = t.of
  <2>1. PICK h : h = ToWrite(t) OBVIOUS
  <2>2. h \in Frames /\ h.kind = "write" /\ h.of = t.of BY <2>1, WriteFrame
  <2> QED BY <1>t, <2>1, <2>2
<1>5. /\ stack' \in Seq(Frames) /\ DOMAIN stack' = 1 .. Depth /\ stack'[Depth] = f
      /\ \A x \in 1 .. Depth - 1 : stack'[x] = stack[x]
  <2>1. stack' = Append(Rest, f) BY <1>1, <1>4
  <2> QED BY <1>1, <1>2, <2>1, ReplaceShape
<1>6. ProgramType' BY <1>1, <1>2, <1>5 DEF ProgramType
<1> DEFINE S == ToSet(t.rest)
<1>s. \A g : g \in S <=> In(t.rest, g) BY DEF ToSet, In
<1>7. Drops(S, S, {}) BY <1>1, <1>t, DisconnectDrops DEF Delete
<1> HIDE DEF S
<1>8. /\ \A e \in Endpoints : sender'[e] = IF e \in S THEN None ELSE sender[e]
      /\ \A e \in Endpoints : notifying'[e] = IF e \in S THEN NoSlot ELSE notifying[e]
      /\ stale' = stale \ S
      /\ \A g \in Guards : expression'[g] = IF g \in S THEN None ELSE expression[g]
  BY <1>7 DEF Drops
<1>9. NotifierType' BY <1>2, <1>7, DropTypes
<1>10. ListInv' BY <1>2, <1>7, DropKeeps
<1>11. SameEmits BY <1>1, <1>3, <1>4, <1>5 DEF SameEmits
<1>12. EmitInv'
  <2>1. \A e \in Endpoints : Calm(e) BY <1>8 DEF Calm
  <2> QED BY <1>2, <1>6, <1>11, <2>1, QuietEmits
<1>13. OwnInv' BY <1>1, <1>2, <1>4, <1>5, <1>8, <1>s, <1>t, EvaluatedOwn
<1>14. HearInv'
  <2>1. PICK b \in Bindings : b = t.of BY <1>1, <1>2, <1>3, <1>t DEF OwnInv, RunInv, RunKinds
  <2>2. EvalInv(Depth, b)
    <3>1. Evals(Depth, b) BY <1>1, <1>3, <1>t, <2>1 DEF Evals
    <3> QED BY <1>2, <1>3, <3>1 DEF OwnInv
  <2>3. ASSUME NEW c \in Bindings, NEW g \in Guards, In(active[c], g) PROVE g \notin S
    <3>1. expression[g] = c BY <1>2, <2>3 DEF OwnInv, ActiveInv
    <3> QED BY <1>3, <1>s, <1>t, <2>2, <2>3, <3>1 DEF EvalInv
  <2>4. ASSUME NEW c \in Bindings, Listening(c)' PROVE ReadsInv(c)' /\ PendsInv(c)'
    <3>1. ReadsInv(c) /\ PendsInv(c) BY <1>1, <1>2, <2>4 DEF HearInv, Listening
    <3>2. \A g \in Guards : In(active[c], g) =>
            sender'[g] = sender[g] /\ notifying'[g] = notifying[g] /\ (g \in stale' => g \in stale)
      BY <1>8, <2>3, GuardsAreEndpoints
    <3>3. stale' \subseteq Guards BY <1>9 DEF NotifierType
    <3> QED BY <1>1, <1>2, <1>11, <3>1, <3>2, <3>3, HearsOn
  <2> QED BY <2>4 DEF HearInv
<1>15. TypeOK' BY <1>6, <1>9, TypesNext
<1> QED BY <1>10, <1>12, <1>13, <1>14, <1>15 DEF IInv

LEMMA ListenersOf ==
  ASSUME ProgramType, NEW b \in Bindings
  PROVE  /\ \A g : g \in ToSet(active[b]) <=> In(active[b], g)
         /\ ToSet(active[b]) \subseteq Guards
<1>1. active[b] \in Seq(Guards) BY DEF ProgramType
<1>2. \A g : g \in ToSet(active[b]) <=> In(active[b], g) BY DEF ToSet, In
<1>3. \A x \in DOMAIN active[b] : active[b][x] \in Guards BY <1>1
<1> QED BY <1>2, <1>3 DEF In

\* A binding is disabled, or removed.
LEMMA ClearKeeps ==
  ASSUME IInv, NEW b \in Bindings, Disable(b) \/ RemoveBinding(b)
  PROVE  IInv'
<1>1. /\ ClearActiveGuards(b) /\ active' = [active EXCEPT ![b] = <<>>]
      /\ calls' = calls + 1 /\ UNCHANGED <<handler, alive, stack>>
      /\ \/ binding' = [binding EXCEPT ![b].enabled = FALSE]
         \/ binding' = [binding EXCEPT ![b].exists = FALSE]
  BY DEF Disable, RemoveBinding, MayRun
<1>2. ProgramType /\ TypeOK /\ OwnInv BY Types DEF IInv
<1>3. /\ binding' \in [Bindings -> [exists : BOOLEAN, enabled : BOOLEAN, updating : BOOLEAN,
                               looped : BOOLEAN, read : SUBSET Properties]]
      /\ \A c \in Bindings : /\ binding'[c].updating <=> binding[c].updating
                             /\ c # b => binding'[c] = binding[c]
                             /\ ~Listening(b)'
  BY <1>1, <1>2 DEF ProgramType, Listening
<1>4. /\ active' \in [Bindings -> Seq(Guards)] /\ active'[b] = <<>>
      /\ \A c \in Bindings : c # b => active'[c] = active[c]
  <2>1. <<>> \in Seq(Guards) OBVIOUS
  <2> QED BY <1>1, <1>2, <2>1 DEF ProgramType
<1>5. ProgramType' BY <1>1, <1>2, <1>3, <1>4 DEF ProgramType
<1> DEFINE D == ToSet(active[b])
<1>6. Drops(D, D, {}) BY <1>1, DisconnectDrops DEF ClearActiveGuards, Delete
<1>7. (\A g : g \in D <=> In(active[b], g)) /\ D \subseteq Guards BY <1>2, ListenersOf
<1> HIDE DEF D
<1>8. \A g \in Guards : g \in D <=> \E c \in {b} : In(active[c], g) BY <1>7
<1>10. \A c \in Bindings : Listening(c)' =>
         Listening(c) /\ c \notin {b} /\ binding'[c].read = binding[c].read \ {}
  <2>1. ASSUME NEW c \in Bindings, Listening(c)'
        PROVE Listening(c) /\ c \notin {b} /\ binding'[c].read = binding[c].read \ {}
    <3>1. c # b BY <1>3, <2>1
    <3>2. binding'[c] = binding[c] BY <1>3, <3>1
    <3> QED BY <2>1, <3>1, <3>2 DEF Listening
  <2> QED BY <2>1
<1>11. \A c \in Bindings \ {b} :
         active'[c] = active[c] /\ (binding'[c].exists <=> binding[c].exists)
  BY <1>3, <1>4
<1>12. \A c \in {b} : active'[c] = <<>> BY <1>4
<1>13. stack' = stack /\ D \in SUBSET D /\ {b} \in SUBSET Bindings /\ {} \in SUBSET Properties
       /\ (\A e \in Endpoints : sender[e] \in {} => e \in D)
       /\ (\A e \in D \ D : sender[e] \in {} /\ (Ruthless \/ notifying[e] = NoSlot))
       /\ \A c \in Bindings : binding'[c].updating <=> binding[c].updating
  BY <1>1, <1>3
<1>14. DropsOf(D, D, {b}, {}) BY <1>6, <1>8, <1>10, <1>11, <1>12, <1>13 DEF DropsOf
<1>15. {b} \in SUBSET Bindings /\ {} \in SUBSET Properties OBVIOUS
<1> QED BY <1>5, <1>14, <1>15, DropStep

\* A handler is removed: now, or later when it may be running.
LEMMA HandlerKeeps ==
  ASSUME IInv, NEW h \in Handlers, RemoveHandler(h) \/ DeleteLater(h)
  PROVE  IInv'
<1>1. /\ UNCHANGED <<active, binding, alive, stack>> /\ calls' \in {calls, calls + 1}
      /\ \E s \in {"later", "gone"} : handler' = [handler EXCEPT ![h] = s]
      /\ UNCHANGED notifierVars \/ Delete({h})
  BY DEF RemoveHandler, DeleteLater, MayRun
<1>2. ProgramType BY Types DEF IInv
<1>3. ProgramType'
  <2>1. calls' \in Nat BY <1>1, <1>2 DEF ProgramType
  <2> QED BY <1>1, <1>2, <2>1 DEF ProgramType
<1>4. CASE UNCHANGED notifierVars
  <2>1. SameEmits /\ SameRuns BY <1>1 DEF SameEmits, SameRuns
  <2> QED BY <1>1, <1>3, <1>4, <2>1, QuietKeeps DEF Listening
<1>5. CASE Delete({h})
  <2>1. Drops({h}, {h}, {}) BY <1>5, DisconnectDrops DEF Delete
  <2>2. \A g \in Guards : g \in {h} <=> \E c \in {} : In(active[c], g) BY GuardsAreEndpoints
  <2>3. \A c \in Bindings : Listening(c)' =>
          Listening(c) /\ c \notin {} /\ binding'[c].read = binding[c].read \ {}
    BY <1>1 DEF Listening
  <2>4. \A c \in Bindings \ {} :
          active'[c] = active[c] /\ (binding'[c].exists <=> binding[c].exists)
    BY <1>1
  <2>5. \A c \in {} : active'[c] = <<>> OBVIOUS
  <2>6. stack' = stack /\ {h} \in SUBSET {h} /\ {} \in SUBSET Bindings /\ {} \in SUBSET Properties
        /\ (\A e \in Endpoints : sender[e] \in {} => e \in {h})
        /\ (\A e \in {h} \ {h} : sender[e] \in {} /\ (Ruthless \/ notifying[e] = NoSlot))
        /\ \A c \in Bindings : binding'[c].updating <=> binding[c].updating
    BY <1>1
  <2>7. DropsOf({h}, {h}, {}, {}) BY <2>1, <2>2, <2>3, <2>4, <2>5, <2>6 DEF DropsOf
  <2>8. {} \in SUBSET Bindings /\ {} \in SUBSET Properties OBVIOUS
  <2> QED BY <1>3, <2>7, <2>8, DropStep
<1> QED BY <1>1, <1>4, <1>5

\* An object is destroyed, with its bindings.
LEMMA DestroyKeeps ==
  ASSUME IInv, NEW p \in Properties, Destroy(p)
  PROVE  IInv'
<1> DEFINE L == {b \in Bindings : Target[b] = p}
           D == UNION {ToSet(active[b]) : b \in L}
           S == D \cup ToSet(endpoints[p])
<1>1. /\ calls' = calls + 1 /\ alive' = alive \ {p} /\ UNCHANGED <<handler, stack>>
      /\ Ruthless \/ \A e \in ToSet(endpoints[p]) : notifying[e] = NoSlot
      /\ Disconnect(S, D)
      /\ active' = [b \in Bindings |-> IF b \in L THEN <<>> ELSE active[b]]
      /\ binding' = [b \in Bindings |->
                      [binding[b] EXCEPT !.exists = @ /\ b \notin L, !.read = @ \ {p}]]
  BY DEF Destroy, MayRun
<1>2. ProgramType /\ NotifierType /\ TypeOK /\ OwnInv /\ ListInv BY Types DEF IInv
<1>3. /\ binding' \in [Bindings -> [exists : BOOLEAN, enabled : BOOLEAN, updating : BOOLEAN,
                               looped : BOOLEAN, read : SUBSET Properties]]
      /\ \A c \in Bindings : /\ binding'[c].updating <=> binding[c].updating
                             /\ binding'[c].read = binding[c].read \ {p}
                             /\ binding'[c].exists <=> binding[c].exists /\ c \notin L
                             /\ Listening(c)' => Listening(c) /\ c \notin L
  <2>1. ASSUME NEW c \in Bindings
        PROVE  /\ binding'[c] \in [exists : BOOLEAN, enabled : BOOLEAN, updating : BOOLEAN,
                               looped : BOOLEAN, read : SUBSET Properties]
               /\ binding'[c].updating <=> binding[c].updating
               /\ binding'[c].read = binding[c].read \ {p}
               /\ binding'[c].exists <=> binding[c].exists /\ c \notin L
               /\ Listening(c)' => Listening(c) /\ c \notin L
    <3>1. PICK x \in BOOLEAN : x <=> c \notin L OBVIOUS
    <3>2. binding'[c] = [binding[c] EXCEPT !.exists = @ /\ x, !.read = @ \ {p}]
      BY <1>1, <3>1
    <3>3. PICK r \in [exists : BOOLEAN, enabled : BOOLEAN, updating : BOOLEAN,
                               looped : BOOLEAN, read : SUBSET Properties] : r = binding[c]
      BY <1>2 DEF ProgramType
    <3>4. PICK y \in BOOLEAN : y <=> r.exists /\ x OBVIOUS
    <3>5. PICK t : t = binding'[c] OBVIOUS
    <3>6. t = [r EXCEPT !.exists = y, !.read = r.read \ {p}] BY <3>2, <3>3, <3>4, <3>5
    <3>7. /\ t \in [exists : BOOLEAN, enabled : BOOLEAN, updating : BOOLEAN,
                               looped : BOOLEAN, read : SUBSET Properties]
          /\ (t.updating <=> r.updating) /\ t.read = r.read \ {p} /\ (t.exists <=> y)
          /\ (t.enabled <=> r.enabled) /\ (t.looped <=> r.looped)
      BY <3>6
    <3> QED BY <3>1, <3>3, <3>4, <3>5, <3>7 DEF Listening
  <2>2. binding' = [b \in Bindings |-> binding'[b]] BY <1>1
  <2> QED BY <2>1, <2>2
<1>4. /\ active' \in [Bindings -> Seq(Guards)]
      /\ \A c \in Bindings : active'[c] = IF c \in L THEN <<>> ELSE active[c]
  <2>1. <<>> \in Seq(Guards) OBVIOUS
  <2> QED BY <1>1, <1>2, <2>1 DEF ProgramType
<1>5. ProgramType'
  <2>1. calls' = calls + 1 /\ alive' = alive \ {p} /\ handler' = handler /\ stack' = stack
    BY <1>1
  <2>2. /\ active' \in [Bindings -> Seq(Guards)]
        /\ binding' \in [Bindings -> [exists : BOOLEAN, enabled : BOOLEAN, updating : BOOLEAN,
                               looped : BOOLEAN, read : SUBSET Properties]]
    BY <1>3, <1>4
  <2> QED BY <1>2, <2>1, <2>2 DEF ProgramType
<1>6. Drops(S, D, {}) BY <1>1, DisconnectDrops
<1>7. \A g \in Guards : g \in D <=> \E b \in L : In(active[b], g) BY <1>2, ListenersOf
<1>8. \A e : e \in ToSet(endpoints[p]) <=> In(endpoints[p], e) BY DEF ToSet, In
<1>9. \A e \in Endpoints : sender[e] \in {p} <=> In(endpoints[p], e) BY <1>2 DEF ListInv
<1>10. ToSet(endpoints[p]) \subseteq Endpoints
  <2>1. endpoints[p] \in Seq(Endpoints) BY <1>2 DEF NotifierType
  <2>2. \A x \in DOMAIN endpoints[p] : endpoints[p][x] \in Endpoints BY <2>1
  <2> QED BY <1>8, <2>2 DEF In
<1>11. \A e \in Endpoints : sender[e] \in {p} => e \in S BY <1>8, <1>9
<1>12. ASSUME NEW e \in S \ D PROVE sender[e] \in {p} /\ (Ruthless \/ notifying[e] = NoSlot)
  BY <1>1, <1>8, <1>9, <1>10
<1>14. D \in SUBSET S /\ L \in SUBSET Bindings /\ {p} \in SUBSET Properties OBVIOUS
<1> HIDE DEF S, D, L
<1>15. \A b \in L : active'[b] = <<>> BY <1>4, <1>14
<1>16. \A b \in Bindings \ L :
         active'[b] = active[b] /\ (binding'[b].exists <=> binding[b].exists)
  BY <1>3, <1>4
<1>17. \A b \in Bindings : Listening(b)' =>
         Listening(b) /\ b \notin L /\ binding'[b].read = binding[b].read \ {p}
  BY <1>3
<1>18. \A b \in Bindings : binding'[b].updating <=> binding[b].updating BY <1>3
<1>19. stack' = stack BY <1>1
<1>20. DropsOf(S, D, L, {p})
  BY <1>6, <1>7, <1>11, <1>12, <1>14, <1>15, <1>16, <1>17, <1>18, <1>19 DEF DropsOf
<1> QED BY <1>5, <1>14, <1>20, DropStep

\* The flags of a binding when it is told that it loops, or when it begins to evaluate.
LoopedOf(b) == [binding EXCEPT ![b].looped = TRUE]
BegunOf(b) == [binding EXCEPT ![b].updating = TRUE, ![b].looped = FALSE, ![b].read = {}]
EnabledOf(b, s) == [s EXCEPT ![b].enabled = TRUE]
BindingType == [exists : BOOLEAN, enabled : BOOLEAN, updating : BOOLEAN,
                looped : BOOLEAN, read : SUBSET Properties]

LEMMA FlagsOf ==
  ASSUME ProgramType, NEW b \in Bindings, NEW s \in {LoopedOf(b), BegunOf(b)},
         NEW t \in {s, EnabledOf(b, s)}
  PROVE  /\ t \in [Bindings -> BindingType]
         /\ \A c \in Bindings : (t[c].exists <=> binding[c].exists) /\ (c # b => t[c] = binding[c])
         /\ s = LoopedOf(b) => t[b].looped /\ (t[b].updating <=> binding[b].updating)
         /\ s = BegunOf(b) => t[b].updating /\ t[b].read = {}
<1>1. binding \in [Bindings -> BindingType] BY DEF ProgramType, BindingType
<1>2. CASE s = LoopedOf(b) /\ s # BegunOf(b)
  <2>1. s \in [Bindings -> BindingType] BY <1>1, <1>2 DEF LoopedOf, BindingType
  <2>2. \A c \in Bindings : c # b => s[c] = binding[c] BY <1>1, <1>2 DEF LoopedOf
  <2>3. s[b] = [binding[b] EXCEPT !.looped = TRUE] BY <1>1, <1>2 DEF LoopedOf
  <2>4. PICK r \in BindingType : r = binding[b] BY <1>1
  <2>5. /\ (s[b].exists <=> r.exists) /\ s[b].looped /\ (s[b].updating <=> r.updating)
    BY <2>3, <2>4 DEF BindingType
  <2>6. CASE t = s BY <1>2, <2>1, <2>2, <2>4, <2>5, <2>6
  <2>7. CASE t = EnabledOf(b, s)
    <3>1. t \in [Bindings -> BindingType] BY <2>1, <2>7 DEF EnabledOf, BindingType
    <3>2. \A c \in Bindings : c # b => t[c] = s[c] BY <2>1, <2>7 DEF EnabledOf
    <3>3. t[b] = [s[b] EXCEPT !.enabled = TRUE] BY <2>1, <2>7 DEF EnabledOf
    <3>4. PICK q \in BindingType : q = s[b] BY <2>1
    <3>5. /\ (t[b].exists <=> q.exists) /\ (t[b].looped <=> q.looped)
          /\ (t[b].updating <=> q.updating)
      BY <3>3, <3>4 DEF BindingType
    <3> QED BY <1>2, <2>2, <2>4, <2>5, <3>1, <3>2, <3>4, <3>5
  <2> QED BY <2>6, <2>7
<1>3. CASE s = BegunOf(b)
  <2>0. s = [c \in Bindings |-> s[c]] BY <1>1, <1>3 DEF BegunOf
  <2>2. \A c \in Bindings : c # b => s[c] = binding[c] BY <1>1, <1>3 DEF BegunOf
  <2>3. s[b] = [binding[b] EXCEPT !.updating = TRUE, !.looped = FALSE, !.read = {}]
    BY <1>1, <1>3 DEF BegunOf
  <2>4. PICK r \in BindingType : r = binding[b] BY <1>1
  <2>5. /\ (s[b].exists <=> r.exists) /\ ~s[b].looped /\ s[b].updating /\ s[b].read = {}
        /\ s[b] \in BindingType
    BY <2>3, <2>4 DEF BindingType
  <2>1. s \in [Bindings -> BindingType]
    <3>1. \A c \in Bindings : s[c] \in BindingType BY <1>1, <2>2, <2>5
    <3> QED BY <2>0, <3>1
  <2>6. s # LoopedOf(b)
    <3>1. LoopedOf(b)[b] = [binding[b] EXCEPT !.looped = TRUE] BY <1>1 DEF LoopedOf
    <3>2. LoopedOf(b)[b].looped BY <2>4, <3>1 DEF BindingType
    <3> QED BY <2>5, <3>2
  <2>7. CASE t = s BY <2>1, <2>2, <2>4, <2>5, <2>6, <2>7
  <2>8. CASE t = EnabledOf(b, s)
    <3>1. t \in [Bindings -> BindingType] BY <2>1, <2>8 DEF EnabledOf, BindingType
    <3>2. \A c \in Bindings : c # b => t[c] = s[c] BY <2>1, <2>8 DEF EnabledOf
    <3>3. t[b] = [s[b] EXCEPT !.enabled = TRUE] BY <2>1, <2>8 DEF EnabledOf
    <3>4. PICK q \in BindingType : q = s[b] BY <2>1
    <3>5. /\ (t[b].exists <=> q.exists) /\ (t[b].updating <=> q.updating) /\ t[b].read = q.read
      BY <3>3, <3>4 DEF BindingType
    <3> QED BY <2>2, <2>4, <2>5, <2>6, <3>1, <3>2, <3>4, <3>5
  <2> QED BY <2>7, <2>8
<1> QED BY <1>2, <1>3

\* A binding is enabled.
LEMMA EnableKeeps ==
  ASSUME IInv, NEW b \in Bindings, Enable(b)
  PROVE  IInv'
<1>1. /\ calls' \in {calls, calls + 1} /\ UNCHANGED <<handler, alive>> /\ UNCHANGED notifierVars
      /\ binding[b].exists
      /\ \/ /\ binding[b].updating /\ UNCHANGED <<stack, active>>
            /\ binding' = [binding EXCEPT ![b].enabled = TRUE, ![b].looped = TRUE]
         \/ /\ ~binding[b].updating
            /\ binding' = [binding EXCEPT ![b].enabled = TRUE, ![b].updating = TRUE,
                                          ![b].looped = FALSE, ![b].read = {}]
            /\ stack' = Append(stack, EvaluationOf(b))
            /\ active' = [active EXCEPT ![b] = <<>>]
  BY DEF Enable, MayRun, EvaluationOf
<1>2. ProgramType /\ TypeOK /\ OwnInv BY Types DEF IInv
<1>c. calls' \in Nat BY <1>1, <1>2 DEF ProgramType
<1>3. CASE binding[b].updating
  <2>1. UNCHANGED <<stack, active>> BY <1>1, <1>3
  <2>2. /\ binding' \in [Bindings -> BindingType]
        /\ \A c \in Bindings : (binding'[c].exists <=> binding[c].exists)
                               /\ (c # b => binding'[c] = binding[c])
        /\ binding'[b].looped /\ (binding'[b].updating <=> binding[b].updating)
    <3>1. binding' = EnabledOf(b, LoopedOf(b))
      BY <1>1, <1>2, <1>3 DEF EnabledOf, LoopedOf, ProgramType
    <3>2. PICK s, t : s = LoopedOf(b) /\ t = EnabledOf(b, s) OBVIOUS
    <3>3. binding' = t BY <3>1, <3>2
    <3> QED BY <1>2, <3>2, <3>3, FlagsOf
  <2>3. ProgramType' BY <1>1, <1>2, <1>c, <2>1, <2>2 DEF ProgramType, BindingType
  <2>4. SameEmits /\ SameRuns BY <2>1 DEF SameEmits, SameRuns
  <2>5. \A c \in Bindings : /\ binding'[c].exists <=> binding[c].exists
                            /\ binding'[c].updating <=> binding[c].updating
                            /\ Listening(c)' => Listening(c) /\ binding'[c].read = binding[c].read
    BY <2>2 DEF Listening
  <2> QED BY <1>1, <2>1, <2>3, <2>4, <2>5, QuietKeeps
<1>4. CASE ~binding[b].updating
  <2>1. stack' = Append(stack, EvaluationOf(b)) /\ active' = [active EXCEPT ![b] = <<>>]
    BY <1>1, <1>4
  <2>2. /\ binding' \in [Bindings -> BindingType]
        /\ \A c \in Bindings : (binding'[c].exists <=> binding[c].exists)
                               /\ (c # b => binding'[c] = binding[c])
        /\ binding'[b].updating /\ binding'[b].read = {}
    <3>1. binding' = EnabledOf(b, BegunOf(b))
      BY <1>1, <1>2, <1>4 DEF EnabledOf, BegunOf, ProgramType
    <3>2. PICK s, t : s = BegunOf(b) /\ t = EnabledOf(b, s) OBVIOUS
    <3>3. binding' = t BY <3>1, <3>2
    <3> QED BY <1>2, <3>2, <3>3, FlagsOf
  <2>3. PICK f \in Frames : /\ f = EvaluationOf(b) /\ f.kind = "evaluate" /\ f.of = b
                            /\ f.rest = active[b]
    BY <1>2, EvaluateFrame
  <2>4. /\ stack' \in Seq(Frames) /\ DOMAIN stack' = 1 .. Depth + 1
        /\ stack'[Depth + 1] = f /\ Depth \in Nat /\ DOMAIN stack = 1 .. Depth
        /\ \A x \in 1 .. Depth : stack'[x] = stack[x]
    <3>1. stack' = Append(stack, f) BY <2>1, <2>3
    <3> QED BY <1>2, <3>1, PushShape
  <2>5. active' \in [Bindings -> Seq(Guards)]
        /\ \A c \in Bindings : active'[c] = IF c = b THEN <<>> ELSE active[c]
    <3>1. <<>> \in Seq(Guards) OBVIOUS
    <3> QED BY <1>2, <2>1, <3>1 DEF ProgramType
  <2>6. ProgramType' BY <1>1, <1>2, <1>c, <2>2, <2>4, <2>5 DEF ProgramType, BindingType
  <2>7. SameEmits BY <2>3, <2>4 DEF SameEmits
  <2>8. \A c \in Bindings : Listening(c)' =>
           \/ Listening(c) /\ active'[c] = active[c] /\ binding'[c].read = binding[c].read
           \/ active'[c] = <<>> /\ binding'[c].read = {}
    BY <2>2, <2>5 DEF Listening
  <2>9. TypeOK' /\ ListInv' /\ EmitInv' /\ HearInv' BY <1>1, <2>6, <2>7, <2>8, QuietRest
  <2>10. Begins(b) BY <1>1, <1>4, <2>2, <2>3, <2>4, <2>5 DEF Begins, notifierVars
  <2>11. OwnInv' BY <1>2, <2>10, BegunOwn
  <2> QED BY <2>9, <2>11 DEF IInv
<1> QED BY <1>3, <1>4

\* No listener of the binding loses its turn when the frame on top goes on.
KeepsTurns(b, n, c) ==
  \A g \in stale : In(active[b], g) =>
    /\ notifying'[g] = notifying[g]
    /\ \A y \in Nat : Pending(g, Depth, y) => y <= n /\ (c => y # n)
HearsStill(b, n, c) ==
  \/ active'[b] = <<>> /\ binding'[b].read = {}
  \/ /\ Listening(b) /\ active'[b] = active[b] /\ binding'[b].read = binding[b].read
     /\ KeepsTurns(b, n, c)

LEMMA MovedHears ==
  ASSUME IInv, At("emit"), NEW n \in Nat, NEW c, TopMoves(n, c), UNCHANGED <<sender, stale>>,
         \A b \in Bindings : Listening(b)' => HearsStill(b, n, c)
  PROVE  HearInv'
<1>0. ProgramType /\ HearInv BY Types DEF IInv
<1>1. ASSUME NEW b \in Bindings, Listening(b)' PROVE ReadsInv(b)' /\ PendsInv(b)'
  <2>1. CASE active'[b] = <<>> /\ binding'[b].read = {} BY <2>1, HearsNothing
  <2>2. CASE /\ Listening(b) /\ active'[b] = active[b] /\ binding'[b].read = binding[b].read
             /\ KeepsTurns(b, n, c)
    <3>1. ReadsInv(b) /\ PendsInv(b) BY <1>0, <2>2 DEF HearInv
    <3>2. ReadsInv(b)' BY <2>2, <3>1 DEF ReadsInv
    <3>3. ASSUME NEW g \in stale', In(active'[b], g) PROVE \E x, y \in Nat : Pending(g, x, y)'
      <4>1. g \in stale /\ In(active[b], g) BY <2>2, <3>3
      <4>2. PICK x \in Nat, y \in Nat : Pending(g, x, y) BY <3>1, <4>1 DEF PendsInv
      <4>3. notifying'[g] = notifying[g] /\ (x = Depth => y <= n /\ (c => y # n))
        BY <2>2, <4>1, <4>2 DEF KeepsTurns
      <4>4. Pending(g, x, y)' BY <1>0, <4>2, <4>3, PendingMoves
      <4> QED BY <4>4
    <3>4. PendsInv(b)' BY <3>3 DEF PendsInv
    <3> QED BY <3>2, <3>4
  <2> QED BY <1>1, <2>1, <2>2 DEF HearsStill
<1> QED BY <1>1 DEF HearInv

LEMMA SameNotifiers ==
  ASSUME NotifierType, ListInv, UNCHANGED notifierVars
  PROVE  /\ NotifierType' /\ ListInv' /\ \A e \in Endpoints : Calm(e)
         /\ UNCHANGED <<endpoints, sender, notifying, stale, expression>>
<1>1. /\ endpoints' = endpoints /\ sender' = sender /\ notifying' = notifying
      /\ stale' = stale /\ expression' = expression
  BY DEF notifierVars
<1> QED BY <1>1 DEF NotifierType, ListInv, Calm

\* The top of the stack at a call of emitNotify().
LEMMA EntryOnTop ==
  ASSUME IInv, At("emit"), Top.next > 0
  PROVE  /\ ProgramType /\ Depth \in Nat /\ Depth > 0 /\ DOMAIN stack = 1 .. Depth
         /\ Top = stack[Depth] /\ Top \in Frames /\ Top.kind = "emit" /\ Top.next \in Nat
         /\ Slot(Depth, Top.next) /\ SlotInv(Depth, Top.next) /\ Entry = EntryAt(Depth, Top.next)
         /\ Entry.endpoint \in Endpoints /\ Entry.watch \in Nat \X Nat
<1>1. ProgramType /\ EmitInv BY Types DEF IInv
<1>2. /\ Depth > 0 /\ Top.kind = "emit" /\ Depth \in Nat /\ DOMAIN stack = 1 .. Depth
      /\ Depth \in DOMAIN stack /\ Top = stack[Depth] /\ Top \in Frames
  BY <1>1, TopIs DEF At
<1>3. Top.next \in Nat /\ Top.next \in 1 .. Top.next
  <2>1. Top.next \in Nat BY <1>2 DEF Frames
  <2> QED BY <2>1
<1>4. Slot(Depth, Top.next) BY <1>2, <1>3 DEF Slot
<1>5. SlotInv(Depth, Top.next) BY <1>1, <1>2, <1>3, <1>4 DEF EmitInv
<1>6. Entry = EntryAt(Depth, Top.next) BY <1>2 DEF Entry, EntryAt
<1>7. Entry.endpoint \in Endpoints /\ Entry.watch \in Nat \X Nat
  BY <1>1, <1>2, <1>3, <1>4, <1>5, <1>6, EntryIs
<1> QED BY <1>1, <1>2, <1>3, <1>4, <1>5, <1>6, <1>7

\* The entry on top has been called, or is skipped.
LEMMA NextKeepsIt ==
  ASSUME IInv, Skip \/ Called
  PROVE  IInv'
<1>0. TypeOK /\ ListInv /\ EmitInv /\ OwnInv /\ HearInv BY DEF IInv
<1>1. NotifierType /\ ProgramType BY <1>0, Types
<1>2. At("emit") BY DEF Skip, Called
<1>3. Top.next > 0
  <2>1. Depth \in DOMAIN stack /\ Top = stack[Depth] /\ Top.kind = "emit"
    BY <1>1, <1>2, TopIs DEF At
  <2>2. Top.called \/ Top.next > 0 BY DEF Skip, Called
  <2> QED BY <1>0, <2>1, <2>2 DEF EmitInv, CallInv
<1>4. /\ Depth \in Nat /\ Depth > 0 /\ DOMAIN stack = 1 .. Depth
      /\ Top = stack[Depth] /\ Top \in Frames /\ Top.kind = "emit" /\ Top.next \in Nat
      /\ Slot(Depth, Top.next) /\ SlotInv(Depth, Top.next) /\ Entry = EntryAt(Depth, Top.next)
      /\ Entry.endpoint \in Endpoints /\ Entry.watch \in Nat \X Nat
  BY <1>2, <1>3, EntryOnTop
<1>5. /\ stack' = Next1
      /\ UNCHANGED <<endpoints, sender, stale, expression, active, binding, handler, alive, calls>>
      /\ \/ ~Watched(Entry) /\ notifying' = notifying
         \/ Top.called /\ notifying' = Stopped
  BY DEF Skip, Called, notifierVars
<1>6. PICK f \in Frames : /\ f = Passed(Top) /\ f.kind = "emit" /\ f.of = Top.of
                          /\ f.entries = Top.entries /\ f.next = Top.next - 1 /\ ~f.called
  <2>1. PICK t \in Frames : t = Top BY <1>4
  <2>2. PICK h : h = Passed(t) OBVIOUS
  <2>3. /\ h \in Frames /\ h.kind = t.kind /\ h.of = t.of /\ h.entries = t.entries
        /\ h.next = t.next - 1 /\ ~h.called
    BY <1>3, <2>1, <2>2, PassedFrame
  <2> QED BY <1>4, <2>1, <2>2, <2>3
<1>7. /\ stack' \in Seq(Frames) /\ DOMAIN stack' = 1 .. Depth /\ stack'[Depth] = f
      /\ \A x \in 1 .. Depth - 1 : stack'[x] = stack[x]
  <2>1. stack' = Append(Rest, f) BY <1>5, <1>6 DEF Next1, Passed
  <2> QED BY <1>1, <1>4, <2>1, ReplaceShape
<1>8. ProgramType' BY <1>1, <1>5, <1>7 DEF ProgramType
<1>n. PICK n \in Nat : n = Top.next - 1 BY <1>3, <1>4
<1>9. TopMoves(n, FALSE) BY <1>6, <1>7, <1>n DEF TopMoves
<1>e. PICK e \in Endpoints : e = Entry.endpoint BY <1>4
\* stopNotifying() is for the endpoint of the entry, when it points here.
<1>10. ASSUME NEW d \in Endpoints
       PROVE  \/ notifying'[d] = notifying[d]
              \/ /\ notifying'[d] = NoSlot /\ d = e /\ Top.called
                 /\ notifying[d] = <<Depth, Top.next>> /\ Entry.watch = <<Depth, Top.next>>
  <2>1. CASE notifying' = notifying BY <2>1
  <2>2. CASE notifying' # notifying
    <3>1. /\ Top.called /\ Entry.watch = <<Depth, Top.next>> /\ Watched(Entry)
          /\ notifying' = [notifying EXCEPT ![Entry.endpoint] = NoSlot]
      BY <1>5, <2>2 DEF Stopped
    <3>2. notifying[e] = <<Depth, Top.next>> BY <1>e, <3>1 DEF Watched
    <3>3. notifying' = [notifying EXCEPT ![e] = NoSlot] BY <1>e, <3>1
    <3>4. notifying'[d] = IF d = e THEN NoSlot ELSE notifying[d] BY <1>1, <3>3 DEF NotifierType
    <3> QED BY <3>1, <3>2, <3>4
  <2> QED BY <2>1, <2>2
<1>11. notifying' \in [Endpoints -> Nat \X Nat]
  <2>1. \A d \in Endpoints : notifying'[d] \in Nat \X Nat BY <1>1, <1>10, NoSlotType DEF NotifierType
  <2>2. notifying' = [d \in Endpoints |-> notifying'[d]] BY <1>1, <1>5 DEF NotifierType, Stopped
  <2> QED BY <2>1, <2>2
<1>12. NotifierType' BY <1>1, <1>5, <1>11 DEF NotifierType
<1>13. ListInv'
  <2>1. ASSUME NEW g \in Guards, expression'[g] = None
        PROVE  sender'[g] = None /\ notifying'[g] = NoSlot
    <3>1. g \in Endpoints BY GuardsAreEndpoints
    <3>2. sender[g] = None /\ notifying[g] = NoSlot BY <1>0, <1>5, <2>1 DEF ListInv
    <3> QED BY <1>5, <1>10, <3>1, <3>2
  <2> QED BY <1>0, <1>5, <2>1 DEF ListInv
<1>14. EmitInv'
  <2>1. \A d \in Endpoints : Calm(d) BY <1>5, <1>10 DEF Calm
  <2>2. ASSUME NEW d \in Endpoints, notifying'[d] # NoSlot, sender'[d] # None,
               PointsTo(d, Depth, Top.next)
        PROVE  notifying[d] # <<Depth, Top.next>>
    <3>1. ASSUME notifying[d] = <<Depth, Top.next>> PROVE FALSE
      <4>1. Entry.endpoint = d /\ Entry.watch = <<Depth, Top.next>> BY <1>4, <2>2 DEF PointsTo
      <4>2. Watched(Entry) BY <1>5, <2>2, <3>1, <4>1 DEF Watched
      <4>3. notifying' = [notifying EXCEPT ![d] = NoSlot] BY <1>5, <4>1, <4>2 DEF Stopped
      <4>4. notifying'[d] = NoSlot BY <1>1, <4>3 DEF NotifierType
      <4> QED BY <2>2, <4>4
    <3> QED BY <3>1
  <2>3. n \in {Top.next, Top.next - 1} BY <1>n
  <2> QED BY <1>0, <1>2, <1>8, <1>9, <2>1, <2>2, <2>3, MovedEmits
<1>15. OwnInv'
  <2>1. SameRuns BY <1>4, <1>6, <1>7 DEF SameRuns, RunKinds
  <2>2. Clears({}) BY <1>5 DEF Clears
  <2> QED BY <1>0, <2>1, <2>2, ClearedOwn
<1>16. HearInv'
  <2>1. ASSUME NEW b \in Bindings, Listening(b)' PROVE HearsStill(b, n, FALSE)
    <3>1. Listening(b) /\ active' = active /\ binding' = binding BY <1>5, <2>1 DEF Listening
    <3>2. ASSUME NEW g \in stale, In(active[b], g) PROVE notifying'[g] = notifying[g]
      <4>1. g \in Endpoints BY <1>1, GuardsAreEndpoints DEF NotifierType
      <4>2. PICK x \in Nat, y \in Nat : Pending(g, x, y)
        BY <1>0, <3>1, <3>2 DEF HearInv, PendsInv
      <4>3. ASSUME g = e, Top.called, notifying[g] = <<Depth, Top.next>>,
                   Entry.watch = <<Depth, Top.next>>
            PROVE  FALSE
        <5>1. Slot(x, y) /\ x \in 1 .. Depth /\ y \in 1 .. stack[x].next
              /\ EntryAt(x, y).endpoint = g /\ EntryAt(x, y).watch = notifying[g]
          BY <1>4, <4>2 DEF Pending, Slot
        <5>2. EntryAt(x, y).watch = <<Depth, Top.next>> BY <4>3, <5>1
        <5>3. EntryAt(x, y).watch[1] = Depth BY <5>2
        <5>4. SlotInv(x, y) BY <1>0, <5>1 DEF EmitInv
        <5>5. x = Depth BY <1>4, <5>1, <5>3, <5>4 DEF SlotInv
        <5>6. y = Top.next BY <1>4, <1>e, <4>3, <5>1, <5>5 DEF SlotInv
        <5> QED BY <1>4, <4>2, <4>3, <5>5, <5>6 DEF Pending
      <4> QED BY <1>10, <4>1, <4>3
    <3>3. ASSUME NEW g \in stale, In(active[b], g), NEW y \in Nat, Pending(g, Depth, y)
          PROVE  y <= n
      <4>1. y \in 1 .. Top.next BY <1>4, <3>3 DEF Pending, Slot
      <4>2. y # Top.next
        <5>1. ASSUME y = Top.next PROVE FALSE
          <6>1. ~Top.called /\ Entry.endpoint = g /\ Entry.watch = notifying[g]
            BY <1>4, <3>3, <5>1 DEF Pending
          <6>2. sender[g] # None BY <1>0 DEF ListInv
          <6> QED BY <1>5, <6>1, <6>2 DEF Watched
        <5> QED BY <5>1
      <4> QED BY <1>4, <1>n, <4>1, <4>2
    <3>4. KeepsTurns(b, n, FALSE) BY <3>2, <3>3 DEF KeepsTurns
    <3> QED BY <3>1, <3>4 DEF HearsStill
  <2> QED BY <1>2, <1>5, <1>9, <2>1, MovedHears
<1>17. TypeOK' BY <1>8, <1>12, TypesNext
<1> QED BY <1>13, <1>14, <1>15, <1>16, <1>17 DEF IInv

\* The entry on top is called.
LEMMA CallShape ==
  ASSUME IInv, At("emit"), Top.next > 0, NEW h \in Frames, h.kind # "emit",
         stack' = Calling \/ stack' = Append(Calling, h)
  PROVE  /\ stack' \in Seq(Frames) /\ TopMoves(Top.next, TRUE)
         /\ \A x \in 1 .. Depth - 1 : stack'[x] = stack[x]
         /\ Depth \in DOMAIN stack' /\ stack'[Depth].kind = "emit"
         /\ stack' = Calling => DOMAIN stack' = 1 .. Depth
         /\ stack' # Calling => DOMAIN stack' = 1 .. Depth + 1 /\ stack'[Depth + 1] = h
<1>1. /\ ProgramType /\ Depth \in Nat /\ Depth > 0 /\ DOMAIN stack = 1 .. Depth
      /\ Top = stack[Depth] /\ Top \in Frames /\ Top.kind = "emit" /\ Top.next \in Nat
  BY EntryOnTop
<1>2. PICK f \in Frames : /\ f = InCall(Top) /\ f.kind = "emit" /\ f.of = Top.of
                          /\ f.entries = Top.entries /\ f.next = Top.next /\ f.called
  <2>1. PICK t \in Frames : t = Top BY <1>1
  <2>2. PICK k : k = InCall(t) OBVIOUS
  <2>3. /\ k \in Frames /\ k.kind = t.kind /\ k.of = t.of /\ k.entries = t.entries
        /\ k.next = t.next /\ k.called
    BY <2>2, CalledFrame
  <2> QED BY <1>1, <2>1, <2>2, <2>3
<1>3. Calling = Append(Rest, f) BY <1>2 DEF Calling, InCall
<1>4. CASE stack' = Calling
  <2>1. /\ stack' \in Seq(Frames) /\ DOMAIN stack' = 1 .. Depth /\ stack'[Depth] = f
        /\ \A x \in 1 .. Depth - 1 : stack'[x] = stack[x]
    <3>1. stack' = Append(Rest, f) BY <1>3, <1>4
    <3> QED BY <1>1, <3>1, ReplaceShape
  <2>2. Depth \in DOMAIN stack' BY <1>1, <2>1
  <2> QED BY <1>2, <1>4, <2>1, <2>2 DEF TopMoves
<1>5. CASE stack' # Calling
  <2>1. /\ stack' \in Seq(Frames) /\ DOMAIN stack' = 1 .. Depth + 1
        /\ stack'[Depth + 1] = h /\ stack'[Depth] = f
        /\ \A x \in 1 .. Depth - 1 : stack'[x] = stack[x]
    <3>1. stack' = Append(Append(Rest, f), h) BY <1>3, <1>5
    <3> QED BY <1>1, <3>1, ReplacePushShape
  <2>2. Depth \in DOMAIN stack' BY <1>1, <2>1
  <2> QED BY <1>2, <1>5, <2>1, <2>2 DEF TopMoves
<1> QED BY <1>4, <1>5

LEMMA CallStep ==
  ASSUME IInv, At("emit"), Top.next > 0, ProgramType', UNCHANGED notifierVars,
         TopMoves(Top.next, TRUE), OwnInv',
         \A b \in Bindings : Listening(b)' => HearsStill(b, Top.next, TRUE)
  PROVE  IInv'
<1>0. TypeOK /\ ListInv /\ EmitInv /\ NotifierType BY Types DEF IInv
<1>1. /\ NotifierType' /\ ListInv' /\ \A e \in Endpoints : Calm(e)
      /\ UNCHANGED <<endpoints, sender, notifying, stale, expression>>
  BY <1>0, SameNotifiers
<1>2. PICK n \in Nat : n = Top.next BY EntryOnTop
<1>3. TopMoves(n, TRUE) /\ \A b \in Bindings : Listening(b)' => HearsStill(b, n, TRUE) BY <1>2
<1>4. EmitInv'
  <2>1. n \in {Top.next, Top.next - 1} /\ n > 0 /\ n # Top.next - 1 BY <1>2
  <2> QED BY <1>0, <1>1, <1>3, <2>1, MovedEmits
<1>5. HearInv' BY <1>1, <1>3, MovedHears
<1>6. TypeOK' BY <1>1, TypesNext
<1> QED BY <1>1, <1>4, <1>5, <1>6 DEF IInv

\* Whoever is not called keeps its turn.
LEMMA OthersTurns ==
  ASSUME IInv, At("emit"), Top.next > 0, notifying' = notifying, NEW b \in Bindings,
         ~In(active[b], Entry.endpoint)
  PROVE  KeepsTurns(b, Top.next, TRUE)
<1>1. Depth \in Nat /\ Top = stack[Depth] /\ Entry = EntryAt(Depth, Top.next) /\ Top.next \in Nat
  BY EntryOnTop
<1>2. ASSUME NEW g \in stale, In(active[b], g), NEW y \in Nat, Pending(g, Depth, y)
      PROVE  y <= Top.next /\ y # Top.next
  <2>1. y \in 1 .. Top.next /\ EntryAt(Depth, y).endpoint = g BY <1>1, <1>2 DEF Pending, Slot
  <2>2. y # Top.next BY <1>1, <1>2, <2>1
  <2> QED BY <1>1, <2>1, <2>2
<1> QED BY <1>2 DEF KeepsTurns

LEMMA CallHandlerKeeps ==
  ASSUME IInv, CallHandler
  PROVE  IInv'
<1>1. /\ At("emit") /\ Top.next > 0 /\ Entry.endpoint \in Handlers
      /\ stack' = Append(Calling, Frame("handle", Entry.endpoint))
      /\ UNCHANGED notifierVars /\ UNCHANGED <<active, binding, handler, alive, calls>>
  BY DEF CallHandler
<1>2. ProgramType /\ OwnInv /\ TypeOK BY Types DEF IInv
<1>3. PICK h \in Frames : h = Frame("handle", Entry.endpoint) /\ h.kind = "handle"
  <2>1. PICK e, k : e = Entry.endpoint /\ e \in Owners /\ k = "handle" /\ k \in Kinds
    BY <1>1 DEF Owners, Kinds
  <2>2. PICK h : h = Frame(k, e) OBVIOUS
  <2>3. h \in Frames /\ h.kind = k BY <2>1, <2>2, PlainFrame
  <2> QED BY <2>1, <2>2, <2>3
<1>4. h.kind # "emit" BY <1>3
<1>5. /\ stack' \in Seq(Frames) /\ TopMoves(Top.next, TRUE)
      /\ \A x \in 1 .. Depth - 1 : stack'[x] = stack[x]
      /\ Depth \in DOMAIN stack' /\ stack'[Depth].kind = "emit"
      /\ stack' = Calling => DOMAIN stack' = 1 .. Depth
      /\ stack' # Calling => DOMAIN stack' = 1 .. Depth + 1 /\ stack'[Depth + 1] = h
  <2>1. stack' = Calling \/ stack' = Append(Calling, h) BY <1>1, <1>3
  <2> QED BY <1>1, <1>4, <2>1, CallShape
<1>6. ProgramType' BY <1>1, <1>2, <1>5 DEF ProgramType
<1>7. /\ Depth \in Nat /\ Depth > 0 /\ DOMAIN stack = 1 .. Depth /\ Top = stack[Depth]
      /\ Top.kind = "emit"
  BY <1>1, EntryOnTop
<1>8. SameRuns
  <2>1. \A x \in DOMAIN stack' : x \in 1 .. Depth - 1 \/ stack'[x].kind \in {"emit", "handle"}
    BY <1>3, <1>5, <1>7
  <2>2. \A x \in 1 .. Depth - 1 : x \in DOMAIN stack /\ x \in DOMAIN stack' /\ stack'[x] = stack[x]
    BY <1>5, <1>7
  <2>3. \A x \in DOMAIN stack : x \in 1 .. Depth - 1 \/ stack[x].kind = "emit" BY <1>7
  <2> QED BY <2>1, <2>2, <2>3 DEF SameRuns, RunKinds
<1>9. OwnInv'
  <2>1. Clears({}) BY <1>1 DEF Clears, notifierVars
  <2> QED BY <1>2, <1>8, <2>1, ClearedOwn
<1>10. ASSUME NEW b \in Bindings, Listening(b)' PROVE HearsStill(b, Top.next, TRUE)
  <2>1. Listening(b) BY <1>1, <1>10 DEF Listening
  <2>2. ~In(active[b], Entry.endpoint)
    <3>1. active[b] \in Seq(Guards) BY <1>2 DEF ProgramType
    <3>2. \A x \in DOMAIN active[b] : active[b][x] \in Guards BY <3>1
    <3> QED BY <1>1, <3>2, GuardsAreEndpoints DEF In
  <2>3. notifying' = notifying BY <1>1 DEF notifierVars
  <2>4. KeepsTurns(b, Top.next, TRUE) BY <1>1, <2>2, <2>3, OthersTurns
  <2> QED BY <1>1, <2>1, <2>4 DEF HearsStill
<1> QED BY <1>1, <1>5, <1>6, <1>9, <1>10, CallStep

\* A guard calls update() of its binding.
LEMMA CallGuardKeeps ==
  ASSUME IInv, CallGuard
  PROVE  IInv'
<1>1. /\ At("emit") /\ Top.next > 0 /\ Entry.endpoint \in Guards /\ Watched(Entry)
      /\ Update(expression[Entry.endpoint], Calling)
      /\ UNCHANGED notifierVars /\ UNCHANGED <<handler, alive, calls>>
  BY DEF CallGuard
<1>2. ProgramType /\ NotifierType /\ OwnInv /\ TypeOK /\ ListInv BY Types DEF IInv
<1>g. PICK g \in Guards : g = Entry.endpoint BY <1>1
<1>b. PICK b \in Bindings : b = expression[g]
  <2>1. expression[g] # None BY <1>1, <1>2, <1>g DEF Watched, ListInv
  <2>2. expression[g] \in Bindings \cup {None} BY <1>2 DEF NotifierType
  <2> QED BY <2>1, <2>2
<1>3. \A c \in Bindings : In(active[c], g) => c = b BY <1>2, <1>b DEF OwnInv, ActiveInv
<1>4. ASSUME NEW c \in Bindings, c # b PROVE KeepsTurns(c, Top.next, TRUE)
  <2>1. ~In(active[c], Entry.endpoint) BY <1>3, <1>4, <1>g
  <2>2. notifying' = notifying BY <1>1 DEF notifierVars
  <2> QED BY <1>1, <2>1, <2>2, OthersTurns
<1>5. /\ Depth \in Nat /\ Depth > 0 /\ DOMAIN stack = 1 .. Depth /\ Top = stack[Depth]
      /\ Top.kind = "emit"
  BY <1>1, EntryOnTop
<1>f. PICK f \in Frames : /\ f = EvaluationOf(b) /\ f.kind = "evaluate" /\ f.of = b
                          /\ f.rest = active[b]
  BY <1>2, EvaluateFrame
<1>6. \/ /\ stack' = Calling /\ active' = active
         /\ \/ ~(binding[b].exists /\ binding[b].enabled) /\ binding' = binding
            \/ binding' = LoopedOf(b)
      \/ /\ binding[b].exists /\ ~binding[b].updating
         /\ stack' = Append(Calling, f) /\ binding' = BegunOf(b)
         /\ active' = [active EXCEPT ![b] = <<>>]
  BY <1>1, <1>b, <1>f, <1>g DEF Update, LoopedOf, BegunOf, EvaluationOf
<1>7. /\ stack' \in Seq(Frames) /\ TopMoves(Top.next, TRUE)
      /\ \A x \in 1 .. Depth - 1 : stack'[x] = stack[x]
      /\ Depth \in DOMAIN stack' /\ stack'[Depth].kind = "emit"
      /\ stack' = Calling => DOMAIN stack' = 1 .. Depth
      /\ stack' # Calling => DOMAIN stack' = 1 .. Depth + 1 /\ stack'[Depth + 1] = f
  <2>1. f.kind # "emit" BY <1>f
  <2>2. stack' = Calling \/ stack' = Append(Calling, f) BY <1>6
  <2> QED BY <1>1, <2>1, <2>2, CallShape
<1>8. CASE /\ stack' = Calling /\ active' = active
           /\ \/ ~(binding[b].exists /\ binding[b].enabled) /\ binding' = binding
              \/ binding' = LoopedOf(b)
  <2>1. /\ binding' \in [Bindings -> BindingType] /\ ~Listening(b)'
        /\ \A c \in Bindings : /\ (binding'[c].exists <=> binding[c].exists)
                               /\ (binding'[c].updating <=> binding[c].updating)
                               /\ (c # b => binding'[c] = binding[c])
    <3>1. CASE ~(binding[b].exists /\ binding[b].enabled) /\ binding' = binding
      BY <1>2, <3>1 DEF ProgramType, BindingType, Listening
    <3>2. CASE binding' = LoopedOf(b)
      <4>1. PICK s : s = LoopedOf(b) OBVIOUS
      <4>2. /\ s \in [Bindings -> BindingType]
            /\ \A c \in Bindings : (s[c].exists <=> binding[c].exists) /\ (c # b => s[c] = binding[c])
            /\ s[b].looped /\ (s[b].updating <=> binding[b].updating)
        BY <1>2, <4>1, FlagsOf
      <4> QED BY <3>2, <4>1, <4>2 DEF Listening
    <3> QED BY <1>8, <3>1, <3>2
  <2>2. ProgramType' BY <1>1, <1>2, <1>7, <1>8, <2>1 DEF ProgramType, BindingType
  <2>3. SameRuns
    <3>1. \A x \in DOMAIN stack' : x \in 1 .. Depth - 1 \/ stack'[x].kind = "emit"
      BY <1>5, <1>7, <1>8
    <3>2. \A x \in 1 .. Depth - 1 : x \in DOMAIN stack /\ x \in DOMAIN stack' /\ stack'[x] = stack[x]
      BY <1>5, <1>7, <1>8
    <3>3. \A x \in DOMAIN stack : x \in 1 .. Depth - 1 \/ stack[x].kind = "emit" BY <1>5
    <3> QED BY <3>1, <3>2, <3>3 DEF SameRuns, RunKinds
  <2>4. OwnInv'
    <3>1. Clears({}) BY <1>1, <1>8, <2>1 DEF Clears, notifierVars
    <3> QED BY <1>2, <2>3, <3>1, ClearedOwn
  <2>5. ASSUME NEW c \in Bindings, Listening(c)' PROVE HearsStill(c, Top.next, TRUE)
    <3>1. c # b /\ binding'[c] = binding[c] BY <2>1, <2>5
    <3>2. Listening(c) BY <2>5, <3>1 DEF Listening
    <3> QED BY <1>4, <1>8, <3>1, <3>2 DEF HearsStill
  <2> QED BY <1>1, <1>7, <2>2, <2>4, <2>5, CallStep
<1>9. CASE /\ binding[b].exists /\ ~binding[b].updating
           /\ stack' = Append(Calling, f) /\ binding' = BegunOf(b)
           /\ active' = [active EXCEPT ![b] = <<>>]
  <2>1. DOMAIN stack' = 1 .. Depth + 1 /\ stack'[Depth + 1] = f
    <3>1. stack' # Calling
      <4>1. PICK s, u, k, v : s = Rest /\ k = InCall(Top) /\ u = Append(s, k) /\ v = Append(u, f)
        OBVIOUS
      <4>2. s \in Seq(Frames) BY <1>2, <1>5, <4>1, TopIs
      <4>3. Len(u) = Len(s) + 1 /\ Len(v) = Len(u) + 1 /\ Len(s) \in Nat BY <4>1, <4>2
      <4>4. u # v BY <4>3
      <4> QED BY <1>9, <4>1, <4>4 DEF Calling, InCall
    <3> QED BY <1>7, <3>1
  <2>2. /\ binding' \in [Bindings -> BindingType]
        /\ \A c \in Bindings : (binding'[c].exists <=> binding[c].exists)
                               /\ (c # b => binding'[c] = binding[c])
        /\ binding'[b].updating /\ binding'[b].read = {}
    <3>1. PICK s : s = BegunOf(b) OBVIOUS
    <3> QED BY <1>2, <1>9, <3>1, FlagsOf
  <2>3. active' \in [Bindings -> Seq(Guards)]
        /\ \A c \in Bindings : active'[c] = IF c = b THEN <<>> ELSE active[c]
    <3>1. <<>> \in Seq(Guards) OBVIOUS
    <3> QED BY <1>2, <1>9, <3>1 DEF ProgramType
  <2>4. ProgramType' BY <1>1, <1>2, <1>7, <2>2, <2>3 DEF ProgramType, BindingType
  <2>5. Begins(b)
    <3>1. \A x \in 1 .. Depth : \/ stack'[x] = stack[x]
                                \/ stack[x].kind \notin RunKinds /\ stack'[x].kind \notin RunKinds
      <4>1. \A x \in 1 .. Depth : x \in 1 .. Depth - 1 \/ x = Depth BY <1>5
      <4> QED BY <1>5, <1>7, <4>1 DEF RunKinds
    <3> QED BY <1>1, <1>9, <1>f, <2>1, <2>2, <2>3, <3>1 DEF Begins, notifierVars
  <2>6. OwnInv' BY <1>2, <2>5, BegunOwn
  <2>7. ASSUME NEW c \in Bindings, Listening(c)' PROVE HearsStill(c, Top.next, TRUE)
    <3>1. CASE c = b BY <2>2, <2>3, <3>1 DEF HearsStill
    <3>2. CASE c # b
      <4>1. binding'[c] = binding[c] /\ active'[c] = active[c] BY <2>2, <2>3, <3>2
      <4>2. Listening(c) BY <2>7, <4>1 DEF Listening
      <4> QED BY <1>4, <3>2, <4>1, <4>2 DEF HearsStill
    <3> QED BY <3>1, <3>2
  <2> QED BY <1>1, <1>7, <2>4, <2>6, <2>7, CallStep
<1> QED BY <1>6, <1>8, <1>9

\* What capturing p with the guard g does, when the guards S go.
CaptureEffect(p, b, g, S) ==
  /\ \A e \in Endpoints : sender'[e] = IF e = g THEN p ELSE IF e \in S THEN None ELSE sender[e]
  /\ \A e \in Endpoints : notifying'[e] = IF e \in S \cup {g} THEN NoSlot ELSE notifying[e]
  /\ stale' = stale \ (S \cup {g})
  /\ binding' = [binding EXCEPT ![b].read = @ \cup {p}]
  /\ UNCHANGED <<handler, alive, calls>>

LEMMA ReadMore ==
  ASSUME ProgramType, NEW b \in Bindings, NEW p \in Properties,
         binding' = [binding EXCEPT ![b].read = @ \cup {p}]
  PROVE  /\ binding' \in [Bindings -> BindingType]
         /\ \A c \in Bindings : /\ (binding'[c].exists <=> binding[c].exists)
                                /\ (binding'[c].updating <=> binding[c].updating)
                                /\ (Listening(c)' <=> Listening(c))
                                /\ c # b => binding'[c] = binding[c]
         /\ binding'[b].read = binding[b].read \cup {p}
<1>1. PICK r \in BindingType : r = binding[b] BY DEF ProgramType, BindingType
<1>2. PICK t : t = [r EXCEPT !.read = r.read \cup {p}] OBVIOUS
<1>3. /\ t \in BindingType /\ t.read = r.read \cup {p}
      /\ (t.exists <=> r.exists) /\ (t.updating <=> r.updating)
      /\ (t.enabled <=> r.enabled) /\ (t.looped <=> r.looped)
  BY <1>2 DEF BindingType
<1>4. binding' = [binding EXCEPT ![b] = t] BY <1>1, <1>2 DEF ProgramType
<1>5. binding'[b] = t /\ \A c \in Bindings : c # b => binding'[c] = binding[c]
  BY <1>4 DEF ProgramType
<1>6. binding' \in [Bindings -> BindingType] BY <1>3, <1>4 DEF ProgramType, BindingType
<1>7. \A c \in Bindings : /\ (binding'[c].exists <=> binding[c].exists)
                          /\ (binding'[c].updating <=> binding[c].updating)
                          /\ (Listening(c)' <=> Listening(c))
  BY <1>1, <1>3, <1>5 DEF Listening
<1> QED BY <1>1, <1>3, <1>5, <1>6, <1>7

LEMMA CaptureStep ==
  ASSUME IInv, At("evaluate"), NEW p \in Properties, NEW b \in Bindings, NEW g \in Guards, NEW S,
         NEW r \in Seq(Guards), NotifierType', ListInv',
         stack' = Append(Rest, Left(Top, r)), Captures(b, g, S, r), CaptureEffect(p, b, g, S)
  PROVE  IInv'
<1>0. TypeOK /\ ListInv /\ EmitInv /\ OwnInv /\ HearInv BY DEF IInv
<1>1. NotifierType /\ ProgramType BY <1>0, Types
<1>n. None \notin Properties /\ g \in Endpoints BY BindingAssumption, GuardsAreEndpoints
<1>2. /\ Depth \in Nat /\ Depth > 0 /\ DOMAIN stack = 1 .. Depth /\ Top = stack[Depth]
      /\ Top \in Frames /\ Top.kind = "evaluate"
  BY <1>1, TopIs DEF At
<1>3. /\ \A e \in Endpoints : sender'[e] = IF e = g THEN p ELSE IF e \in S THEN None ELSE sender[e]
      /\ \A e \in Endpoints : notifying'[e] = IF e \in S \cup {g} THEN NoSlot ELSE notifying[e]
      /\ stale' = stale \ (S \cup {g})
      /\ binding' = [binding EXCEPT ![b].read = @ \cup {p}]
      /\ UNCHANGED <<handler, alive, calls>>
  BY DEF CaptureEffect
<1>4. /\ DOMAIN stack' = 1 .. Depth /\ \A x \in 1 .. Depth - 1 : stack'[x] = stack[x]
      /\ stack'[Depth].kind = "evaluate" /\ active' = [active EXCEPT ![b] = Append(@, g)]
  BY DEF Captures
<1>5. stack' \in Seq(Frames)
  <2>1. PICK f \in Frames : f = Left(Top, r)
    <3>1. PICK t \in Frames : t = Top BY <1>2
    <3>2. PICK h : h = Left(t, r) OBVIOUS
    <3>3. h \in Frames BY <3>2, RestFrame
    <3> QED BY <3>1, <3>2, <3>3
  <2>2. stack' = Append(Rest, f) BY <2>1
  <2> QED BY <1>1, <1>2, <2>2, ReplaceShape
<1>6. active' \in [Bindings -> Seq(Guards)]
  <2>1. PICK s \in Seq(Guards) : s = active[b] BY <1>1 DEF ProgramType
  <2>2. Append(s, g) \in Seq(Guards) OBVIOUS
  <2>3. active' = [active EXCEPT ![b] = Append(s, g)] BY <1>1, <1>4, <2>1 DEF ProgramType
  <2> QED BY <1>1, <2>2, <2>3 DEF ProgramType
<1>7. /\ binding' \in [Bindings -> BindingType]
      /\ \A c \in Bindings : (Listening(c)' <=> Listening(c)) /\ (c # b => binding'[c] = binding[c])
      /\ binding'[b].read = binding[b].read \cup {p}
  BY <1>1, <1>3, ReadMore
<1>8. ProgramType' BY <1>1, <1>3, <1>5, <1>6, <1>7 DEF ProgramType, BindingType
<1>9. SameEmits
  <2>1. \A x \in 1 .. Depth : x \in 1 .. Depth - 1 \/ x = Depth BY <1>2
  <2> QED BY <1>2, <1>4, <2>1 DEF SameEmits
<1>10. EmitInv'
  <2>1. ASSUME NEW e \in Endpoints PROVE Calm(e)
    <3>1. CASE e \in S \cup {g} BY <1>3, <3>1 DEF Calm
    <3>2. CASE e \notin S \cup {g} BY <1>3, <3>2 DEF Calm
    <3> QED BY <3>1, <3>2
  <2> QED BY <1>0, <1>8, <1>9, <2>1, QuietEmits
<1>11. OwnInv' BY <1>0, CapturedOwn
<1>12. /\ \A c \in Bindings : ~In(active[c], g)
       /\ \A c \in Bindings, h \in S : ~In(active[c], h)
       /\ \A h : In(active'[b], h) <=> In(active[b], h) \/ h = g
       /\ \A c \in Bindings : c # b => active'[c] = active[c]
  BY <1>0, CapturedList
<1>13. ASSUME NEW c \in Bindings, NEW h \in Guards, In(active[c], h)
       PROVE  /\ sender'[h] = sender[h] /\ notifying'[h] = notifying[h]
              /\ h \in stale' => h \in stale
  BY <1>3, <1>12, <1>13, GuardsAreEndpoints
<1>14. HearInv'
  <2>1. ASSUME NEW c \in Bindings, Listening(c)' PROVE ReadsInv(c)' /\ PendsInv(c)'
    <3>1. ReadsInv(c) /\ PendsInv(c) BY <1>0, <1>7, <2>1 DEF HearInv
    <3>2. stale' \subseteq Guards BY DEF NotifierType
    <3>3. CASE c # b
      <4>1. active'[c] = active[c] /\ binding'[c].read = binding[c].read BY <1>7, <1>12, <3>3
      <4> QED BY <1>1, <1>9, <1>13, <3>1, <3>2, <4>1, HearsOn
    <3>4. CASE c = b
      <4>1. ASSUME NEW q \in Properties
            PROVE  q \in binding'[b].read <=> \E h \in Guards : In(active'[b], h) /\ sender'[h] = q
        <5>1. q \in binding[b].read <=> \E h \in Guards : In(active[b], h) /\ sender[h] = q
          BY <3>1, <3>4 DEF ReadsInv
        <5>2. sender'[g] = p BY <1>3, <1>n
        <5> QED BY <1>7, <1>12, <1>13, <5>1, <5>2
      <4>2. ASSUME NEW h \in stale', In(active'[b], h) PROVE \E x, y \in Nat : Pending(h, x, y)'
        <5>1. h \in stale /\ h \in Guards /\ In(active[b], h) BY <1>1, <1>3, <1>12, <4>2 DEF NotifierType
        <5>2. PICK x \in Nat, y \in Nat : Pending(h, x, y) BY <3>1, <3>4, <5>1 DEF PendsInv
        <5>3. notifying'[h] = notifying[h] BY <1>13, <5>1
        <5>4. Pending(h, x, y)' BY <1>1, <1>9, <5>2, <5>3, PendingStays
        <5> QED BY <5>4
      <4>3. ReadsInv(b)' BY <4>1 DEF ReadsInv
      <4>4. PendsInv(b)' BY <4>2 DEF PendsInv
      <4> QED BY <3>4, <4>3, <4>4
    <3> QED BY <3>3, <3>4
  <2> QED BY <2>1 DEF HearInv
<1>15. TypeOK' BY <1>8, TypesNext
<1> QED BY <1>10, <1>11, <1>14, <1>15 DEF IInv

\* captureProperty(), the guards of the last evaluation up to the one it finds taken off.
RestOf == Top.rest
ConnectedTo(p) == {x \in DOMAIN RestOf : sender[RestOf[x]] = p}
PassedBy(p) == {x \in DOMAIN RestOf : \A y \in ConnectedTo(p) : x < y}
DroppedBy(p) == {RestOf[x] : x \in PassedBy(p)}

\* The next guard that is connected is captured, and those before it go.
CapturesNext(p, x) ==
  /\ x \in ConnectedTo(p) /\ \A y \in ConnectedTo(p) : x <= y
  /\ active' = [active EXCEPT ![Top.of] = Append(@, RestOf[x])]
  /\ stack' = Append(Rest, Left(Top, SubSeq(RestOf, x + 1, Len(RestOf))))
  /\ Drops(DroppedBy(p), DroppedBy(p), {RestOf[x]})
\* Or none is, they all go, and one of those or of the pool is connected.
CapturesNew(p, g) ==
  /\ ConnectedTo(p) = {} /\ g \in {h \in Guards : h \in DroppedBy(p) \/ expression[h] = None}
  /\ active' = [active EXCEPT ![Top.of] = Append(@, g)]
  /\ stack' = Append(Rest, Left(Top, <<>>))
  /\ Connects(g, p, Top.of, DroppedBy(p))

LEMMA ReadIs ==
  ASSUME NEW p \in Properties, Read(p)
  PROVE  /\ At("evaluate") /\ binding[Top.of].exists
         /\ binding' = [binding EXCEPT ![Top.of].read = @ \cup {p}]
         /\ UNCHANGED <<handler, alive, calls>>
         /\ \/ \E x : CapturesNext(p, x)
            \/ \E g : CapturesNew(p, g)
<1>1. /\ At("evaluate") /\ binding[Top.of].exists /\ Capture(p)
      /\ UNCHANGED <<handler, alive, calls>>
  BY DEF Read
<1>2. binding' = [binding EXCEPT ![Top.of].read = @ \cup {p}] BY <1>1 DEF Capture
<1>3. \/ \E x \in ConnectedTo(p) : CapturesNext(p, x)
      \/ \E g \in {h \in Guards : h \in DroppedBy(p) \/ expression[h] = None} : CapturesNew(p, g)
  BY <1>1, ZenonT(60)
     DEF Capture, CapturesNext, CapturesNew, RestOf, ConnectedTo, PassedBy, DroppedBy, Drops,
         Connects, Left, Cancelled, AddNotify
<1>4. \/ \E x : CapturesNext(p, x)
      \/ \E g : CapturesNew(p, g)
  BY <1>3
<1> QED BY <1>1, <1>2, <1>4

\* What is left of the list after its x-th.
After(s, x) == SubSeq(s, x + 1, Len(s))
LEMMA AfterIt ==
  ASSUME NEW S, NEW s \in Seq(S), Once(s), NEW x \in DOMAIN s, NEW r,
         r = After(s, x)
  PROVE  /\ r \in Seq(S) /\ Once(r)
         /\ \A h : In(r, h) <=> \E z \in DOMAIN s : z > x /\ s[z] = h
<1>1. x \in 0 .. Len(s) /\ x \in Nat /\ Len(s) \in Nat /\ DOMAIN s = 1 .. Len(s) OBVIOUS
<1>2. PICK p \in Seq(S), q \in Seq(S) : Parts(s, x, p, q) BY <1>1, SplitParts
<1>3. /\ r = q /\ Len(r) = Len(s) - x /\ DOMAIN r = 1 .. Len(s) - x
      /\ \A z \in 1 .. Len(s) - x : r[z] = s[z + x]
  <2>1. r = q /\ Len(q) = Len(s) - x /\ \A z \in 1 .. Len(s) - x : q[z] = s[z + x]
    BY <1>2 DEF Parts, After
  <2> QED BY <1>2, <2>1
<1>4. Once(r)
  <2>1. ASSUME NEW i \in DOMAIN r, NEW j \in DOMAIN r, r[i] = r[j] PROVE i = j
    <3>0. r[i] = s[i + x] /\ r[j] = s[j + x] BY <1>3
    <3>1. i + x \in DOMAIN s /\ j + x \in DOMAIN s BY <1>1, <1>3
    <3>2. i + x = j + x BY <2>1, <3>0, <3>1 DEF Once
    <3> QED BY <1>1, <1>3, <3>2
  <2> QED BY <2>1 DEF Once
<1>5. ASSUME NEW h PROVE In(r, h) <=> \E z \in DOMAIN s : z > x /\ s[z] = h
  <2>1. ASSUME NEW i \in DOMAIN r, r[i] = h PROVE \E z \in DOMAIN s : z > x /\ s[z] = h
    <3>1. i + x \in DOMAIN s /\ i + x > x /\ s[i + x] = h BY <1>1, <1>3, <2>1
    <3> QED BY <3>1
  <2>2. ASSUME NEW z \in DOMAIN s, z > x, s[z] = h PROVE \E i \in DOMAIN r : r[i] = h
    <3>1. z - x \in 1 .. Len(s) - x /\ z - x + x = z BY <1>1, <2>2
    <3>2. r[z - x] = h BY <1>3, <2>2, <3>1
    <3> QED BY <1>3, <3>1, <3>2
  <2> QED BY <2>1, <2>2 DEF In
<1> QED BY <1>2, <1>3, <1>4, <1>5

\* The binding on top, and what it has not captured again.
LEMMA RestIs ==
  ASSUME IInv, At("evaluate"), NEW p \in Properties
  PROVE  /\ ProgramType /\ NotifierType /\ ListInv /\ Top.of \in Bindings
         /\ RestOf \in Seq(Guards) /\ Once(RestOf) /\ Top \in Frames /\ Depth > 0
         /\ \A h \in Guards : In(RestOf, h) => expression[h] = Top.of
         /\ DroppedBy(p) \subseteq Guards /\ \A h \in DroppedBy(p) : In(RestOf, h)
<1>0. TypeOK /\ ListInv /\ OwnInv BY DEF IInv
<1>1. NotifierType /\ ProgramType BY <1>0, Types
<1>2. /\ Depth \in Nat /\ Depth > 0 /\ DOMAIN stack = 1 .. Depth /\ Depth \in DOMAIN stack
      /\ Top = stack[Depth] /\ Top \in Frames /\ Top.kind = "evaluate"
  BY <1>1, TopIs DEF At
<1>3. PICK b \in Bindings : b = Top.of
  <2>1. Top.of \in Bindings BY <1>0, <1>2 DEF OwnInv, RunInv, RunKinds
  <2> QED BY <2>1
<1>4. EvalInv(Depth, b)
  <2>1. Evals(Depth, b) BY <1>2, <1>3 DEF Evals
  <2> QED BY <1>0, <1>2, <2>1 DEF OwnInv
<1>5. RestOf = stack[Depth].rest BY <1>2 DEF RestOf
<1>6. RestOf \in Seq(Guards) BY <1>2 DEF RestOf, Frames
<1>7. Once(RestOf) /\ \A h \in Guards : In(RestOf, h) => expression[h] = b
  BY <1>4, <1>5 DEF EvalInv
<1>8. \A x \in DOMAIN RestOf : RestOf[x] \in Guards BY <1>6
<1>9. \A h \in DroppedBy(p) : h \in Guards /\ In(RestOf, h)
  BY <1>8 DEF DroppedBy, PassedBy, In
<1> QED BY <1>0, <1>1, <1>2, <1>3, <1>6, <1>7, <1>9

\* An evaluation reads a property.
LEMMA ReadKeeps ==
  ASSUME IInv, NEW p \in Properties, Read(p)
  PROVE  IInv'
<1>b. PICK b : b = Top.of OBVIOUS
<1>1. /\ At("evaluate") /\ binding[b].exists
      /\ binding' = [binding EXCEPT ![b].read = @ \cup {p}]
      /\ UNCHANGED <<handler, alive, calls>>
      /\ \/ \E x : CapturesNext(p, x)
         \/ \E g : CapturesNew(p, g)
  BY <1>b, ReadIs
<1>2. /\ ProgramType /\ NotifierType /\ ListInv /\ b \in Bindings
      /\ RestOf \in Seq(Guards) /\ Once(RestOf) /\ Top \in Frames /\ Depth > 0
      /\ \A h \in Guards : In(RestOf, h) => expression[h] = b
      /\ DroppedBy(p) \subseteq Guards /\ \A h \in DroppedBy(p) : In(RestOf, h)
  BY <1>1, <1>b, RestIs
<1>3. PICK R \in Seq(Guards) : R = RestOf BY <1>2
<1>4. PICK S \in SUBSET Guards : S = DroppedBy(p) BY <1>2
<1>n. None \notin Properties \cup Bindings BY BindingAssumption
<1>5. \A c \in Bindings : /\ (binding'[c].exists <=> binding[c].exists)
                          /\ (binding'[c].updating <=> binding[c].updating)
  BY <1>1, <1>2, ReadMore
\* The stack, whatever is left to capture.
<1>6. ASSUME NEW r \in Seq(Guards), stack' = Append(Rest, Left(Top, r))
      PROVE  /\ DOMAIN stack' = 1 .. Depth /\ \A x \in 1 .. Depth - 1 : stack'[x] = stack[x]
             /\ stack'[Depth].kind = "evaluate" /\ stack'[Depth].of = b /\ stack'[Depth].rest = r
  <2>1. PICK t \in Frames : t = Top /\ t.kind = "evaluate" /\ t.of = b BY <1>1, <1>2, <1>b DEF At
  <2>2. PICK h : h = Left(t, r) OBVIOUS
  <2>3. h \in Frames /\ h.kind = t.kind /\ h.of = t.of /\ h.rest = r BY <2>2, RestFrame
  <2>4. stack' = Append(Rest, h) BY <1>6, <2>1, <2>2
  <2>5. /\ DOMAIN stack' = 1 .. Depth /\ stack'[Depth] = h
        /\ \A x \in 1 .. Depth - 1 : stack'[x] = stack[x]
    BY <1>2, <2>3, <2>4, ReplaceShape
  <2> QED BY <2>1, <2>3, <2>5
<1>7. ASSUME NEW x, CapturesNext(p, x) PROVE IInv'
  <2>1. /\ x \in DOMAIN R /\ sender[R[x]] = p
        /\ \A y \in ConnectedTo(p) : x <= y
        /\ x \in ConnectedTo(p)
    BY <1>3, <1>7 DEF CapturesNext, ConnectedTo
  <2>2. PICK g \in Guards : g = R[x] BY <2>1
  <2>3. PICK r : r = After(R, x) OBVIOUS
  <2>9. Once(R) BY <1>2, <1>3
  <2>4. /\ active' = [active EXCEPT ![b] = Append(@, g)]
        /\ stack' = Append(Rest, Left(Top, r)) /\ Drops(S, S, {g})
    BY <1>3, <1>4, <1>7, <1>b, <2>2, <2>3 DEF CapturesNext, After
  <2>5. /\ r \in Seq(Guards) /\ Once(r)
        /\ \A h : In(r, h) <=> \E z \in DOMAIN R : z > x /\ R[z] = h
    <3>1. x \in DOMAIN R BY <2>1
    <3> QED BY <2>3, <2>9, <3>1, AfterIt
  <2>6. DOMAIN R \subseteq Nat OBVIOUS
  <2>7. \A z : z \in PassedBy(p) <=> z \in DOMAIN R /\ z < x
    <3>1. ASSUME NEW z \in DOMAIN R, z < x, NEW y \in ConnectedTo(p) PROVE z < y
      <4>1. x <= y /\ y \in DOMAIN R BY <1>3, <2>1, <3>1 DEF ConnectedTo
      <4> QED BY <2>1, <2>6, <3>1, <4>1
    <3>2. \A z \in PassedBy(p) : z \in DOMAIN R /\ z < x BY <1>3, <2>1 DEF PassedBy
    <3> QED BY <1>3, <3>1, <3>2 DEF PassedBy
  <2>8. \A h : h \in S <=> \E z \in DOMAIN R : z < x /\ R[z] = h
    BY <1>3, <1>4, <2>7 DEF DroppedBy
  <2>10. g \notin S
    <3>1. ASSUME NEW z \in DOMAIN R, z < x, R[z] = g PROVE FALSE
      <4>1. z = x BY <2>1, <2>2, <2>9, <3>1 DEF Once
      <4> QED BY <2>1, <2>6, <3>1, <4>1
    <3> QED BY <2>8, <3>1
  <2>11. \A h : In(r, h) => In(R, h) /\ h \notin S /\ h # g
    <3>1. ASSUME NEW h, In(r, h) PROVE In(R, h) /\ h \notin S /\ h # g
      <4>1. PICK z \in DOMAIN R : z > x /\ R[z] = h BY <2>5, <3>1
      <4>2. In(R, h) BY <4>1 DEF In
      <4>3. ASSUME NEW y \in DOMAIN R, y <= x, R[y] = h PROVE FALSE
        <5>1. y = z BY <2>9, <4>1, <4>3 DEF Once
        <5> QED BY <2>1, <2>6, <4>1, <4>3, <5>1
      <4>4. h # g BY <2>1, <2>2, <2>6, <4>3
      <4>5. h \notin S BY <2>1, <2>6, <2>8, <4>3
      <4> QED BY <4>2, <4>4, <4>5
    <3> QED BY <3>1
  <2>12. \A h : In(R, h) => In(r, h) \/ h \in S \/ h = g
    <3>1. ASSUME NEW h, In(R, h) PROVE In(r, h) \/ h \in S \/ h = g
      <4>1. PICK z \in DOMAIN R : R[z] = h BY <3>1 DEF In
      <4>2. z > x \/ z < x \/ z = x BY <2>1, <2>6, <4>1
      <4> QED BY <2>2, <2>5, <2>8, <4>1, <4>2
    <3> QED BY <3>1
  <2>13. /\ \A e \in Endpoints : sender'[e] = IF e \in S THEN None ELSE sender[e]
         /\ \A e \in Endpoints : notifying'[e] = IF e \in S \cup {g} THEN NoSlot ELSE notifying[e]
         /\ stale' = stale \ (S \cup {g})
         /\ \A h \in Guards : expression'[h] = IF h \in S THEN None ELSE expression[h]
    BY <2>4 DEF Drops
  <2>14. In(R, g) /\ expression[g] = b
    <3>1. In(R, g) BY <2>1, <2>2 DEF In
    <3> QED BY <1>2, <1>3, <3>1
  <2>15. \A h \in Guards :
           expression'[h] = IF h = g THEN b ELSE IF h \in S THEN None ELSE expression[h]
    BY <2>10, <2>13, <2>14
  <2>16. Captures(b, g, S, r)
    <3>1. Top.rest = R BY <1>3 DEF RestOf
    <3>2. /\ DOMAIN stack' = 1 .. Depth /\ \A z \in 1 .. Depth - 1 : stack'[z] = stack[z]
          /\ stack'[Depth].kind = "evaluate" /\ stack'[Depth].of = b /\ stack'[Depth].rest = r
      BY <1>6, <2>4, <2>5
    <3>3. \A h \in S : In(R, h) BY <1>2, <1>3, <1>4
    <3> QED BY <1>1, <1>5, <1>b, <2>4, <2>5, <2>11, <2>12, <2>14, <2>15, <3>1, <3>2, <3>3
        DEF Captures
  <2>17. CaptureEffect(p, b, g, S)
    <3>1. \A e \in Endpoints : sender'[e] = IF e = g THEN p ELSE IF e \in S THEN None ELSE sender[e]
      BY <2>1, <2>2, <2>10, <2>13
    <3> QED BY <1>1, <2>13, <3>1 DEF CaptureEffect
  <2>18. NotifierType' /\ ListInv'
    <3>1. NotifierType' BY <1>2, <2>4, DropTypes
    <3>2. S \in SUBSET S OBVIOUS
    <3>3. ListInv' BY <1>2, <2>4, <3>2, DropKeeps
    <3> QED BY <3>1, <3>3
  <2> QED BY <1>1, <1>2, <2>4, <2>5, <2>16, <2>17, <2>18, CaptureStep
<1>8. ASSUME NEW g, CapturesNew(p, g) PROVE IInv'
  <2>1. /\ ConnectedTo(p) = {} /\ g \in Guards /\ (g \in S \/ expression[g] = None)
        /\ active' = [active EXCEPT ![b] = Append(@, g)]
        /\ stack' = Append(Rest, Left(Top, <<>>))
        /\ Connects(g, p, b, S)
    BY <1>4, <1>8, <1>b DEF CapturesNew
  <2>2. PICK r \in Seq(Guards) : r = <<>>
    <3>1. <<>> \in Seq(Guards) OBVIOUS
    <3> QED BY <3>1
  <2>3. Once(r) /\ \A h : ~In(r, h) BY <2>2 DEF Once, In
  <2>4. \A h : h \in S <=> In(R, h) BY <1>3, <1>4, <2>1 DEF DroppedBy, PassedBy, In
  <2>5. /\ \A e \in Endpoints : sender'[e] = IF e = g THEN p ELSE IF e \in S THEN None ELSE sender[e]
        /\ \A e \in Endpoints : notifying'[e] = IF e \in S THEN NoSlot ELSE notifying[e]
        /\ stale' = stale \ S
        /\ \A h \in Guards :
             expression'[h] = IF h = g THEN b ELSE IF h \in S THEN None ELSE expression[h]
    BY <2>1 DEF Connects
  <2>6. g \in S \/ (notifying[g] = NoSlot /\ g \notin stale)
    <3>1. g \in S \/ (notifying[g] = NoSlot /\ sender[g] = None) BY <1>2, <2>1 DEF ListInv
    <3> QED BY <1>2, <3>1 DEF ListInv
  <2>7. Captures(b, g, S, r)
    <3>1. Top.rest = R BY <1>3 DEF RestOf
    <3>2. /\ DOMAIN stack' = 1 .. Depth /\ \A z \in 1 .. Depth - 1 : stack'[z] = stack[z]
          /\ stack'[Depth].kind = "evaluate" /\ stack'[Depth].of = b /\ stack'[Depth].rest = r
      BY <1>6, <2>1, <2>2
    <3> QED BY <1>1, <1>5, <1>b, <2>1, <2>3, <2>4, <2>5, <3>1, <3>2 DEF Captures
  <2>8. CaptureEffect(p, b, g, S)
    <3>1. \A e \in Endpoints : notifying'[e] = IF e \in S \cup {g} THEN NoSlot ELSE notifying[e]
      BY <2>5, <2>6
    <3>2. stale' = stale \ (S \cup {g}) BY <2>5, <2>6
    <3> QED BY <1>1, <2>5, <3>1, <3>2 DEF CaptureEffect
  <2>9. NotifierType' /\ ListInv'
    <3>1. NotifierType' BY <1>2, <2>1, ConnectTypes
    <3>2. ListInv' BY <1>2, <2>1, ConnectKeeps
    <3> QED BY <3>1, <3>2
  <2>10. stack' = Append(Rest, Left(Top, r)) /\ g \in Guards BY <2>1, <2>2
  <2> QED BY <1>1, <1>2, <2>7, <2>8, <2>9, <2>10, CaptureStep
<1> QED BY <1>1, <1>7, <1>8

-----------------------------------------------------------------------------
(* Any behaviour.                                                          *)

\* The list of a finite set.
LEMMA ListOfSet ==
  ASSUME NEW S, IsFiniteSet(S)
  PROVE  /\ SetToSeq(S) \in Seq(S) /\ Once(SetToSeq(S))
         /\ \A e : In(SetToSeq(S), e) <=> e \in S
<1>1. PICK n \in Nat : n = Cardinality(S) BY FS_CardinalityType
<1>2. PICK q : q = SetToSeq(S) OBVIOUS
<1>3. \E f \in [1 .. n -> S] : IsInjective(f)
  <2>1. ExistsBijection(1 .. n, S) BY <1>1, FS_CardinalityType
  <2> QED BY <2>1 DEF ExistsBijection, Bijection, Injection
<1>4. q \in [1 .. n -> S] /\ IsInjective(q)
  <2>1. q = CHOOSE f \in [1 .. n -> S] : IsInjective(f) BY <1>1, <1>2 DEF SetToSeq
  <2> QED BY <1>3, <2>1
<1>5. q \in Seq(S) BY <1>4
<1>6. Once(q) BY <1>4 DEF Once, IsInjective
<1>7. q \in Surjection(1 .. n, S)
  <2>1. q \in Injection(1 .. n, S) BY <1>4 DEF Injection
  <2>2. Cardinality(1 .. n) = n
    <3>1. 1 \in Int /\ n \in Int OBVIOUS
    <3>2. Cardinality(1 .. n) = IF 1 > n THEN 0 ELSE n - 1 + 1 BY <3>1, FS_Interval
    <3> QED BY <3>2
  <2>3. Cardinality(1 .. n) = Cardinality(S) BY <1>1, <2>2
  <2> QED BY <2>1, <2>3, FS_Injection
<1>8. \A e : In(q, e) <=> e \in S
  <2>1. \A e \in S : \E x \in 1 .. n : q[x] = e BY <1>7 DEF Surjection
  <2>2. DOMAIN q = 1 .. n /\ \A x \in 1 .. n : q[x] \in S BY <1>4
  <2> QED BY <2>1, <2>2 DEF In
<1> QED BY <1>2, <1>5, <1>6, <1>8

LEMMA InitHolds ==
  ASSUME Init
  PROVE  IInv
<1>n. None \notin Properties \cup Bindings BY BindingAssumption
<1>1. /\ endpoints = [p \in Properties |-> SetToSeq({h \in Handlers : Signal[h] = p})]
      /\ sender = [e \in Endpoints |-> IF e \in Handlers THEN Signal[e] ELSE None]
      /\ notifying = [e \in Endpoints |-> NoSlot]
      /\ expression = [g \in Guards |-> None] /\ stale = {}
      /\ active = [b \in Bindings |-> <<>>]
      /\ binding = [b \in Bindings |-> [exists |-> TRUE, enabled |-> FALSE, updating |-> FALSE,
                                        looped |-> FALSE, read |-> {}]]
      /\ handler = [h \in Handlers |-> "there"]
      /\ alive = Properties /\ stack = <<>> /\ calls = 0
  BY DEF Init
<1>2. ASSUME NEW p \in Properties
      PROVE  /\ endpoints[p] \in Seq(Endpoints) /\ Once(endpoints[p])
             /\ \A e : In(endpoints[p], e) <=> e \in Handlers /\ Signal[e] = p
  <2>1. PICK S : S = {h \in Handlers : Signal[h] = p} OBVIOUS
  <2>2. IsFiniteSet(S)
    <3>1. IsFiniteSet(Handlers) /\ S \in SUBSET Handlers BY <2>1, BindingAssumption
    <3> QED BY <3>1, FS_Subset
  <2>3. PICK q : q = SetToSeq(S) OBVIOUS
  <2>4. q \in Seq(S) /\ Once(q) /\ \A e : In(q, e) <=> e \in S BY <2>2, <2>3, ListOfSet
  <2>5. endpoints[p] = q BY <1>1, <2>1, <2>3
  <2>6. q \in Seq(Endpoints)
    <3>1. \A e \in S : e \in Endpoints BY <2>1 DEF Endpoints
    <3> QED BY <2>4, <3>1
  <2> QED BY <2>1, <2>4, <2>5, <2>6
<1>3. NotifierType
  <2>1. endpoints \in [Properties -> Seq(Endpoints)] BY <1>1, <1>2
  <2>2. sender \in [Endpoints -> Properties \cup {None}] BY <1>1, BindingAssumption
  <2>3. notifying \in [Endpoints -> Nat \X Nat] BY <1>1, NoSlotType
  <2>4. expression \in [Guards -> Bindings \cup {None}] /\ stale \subseteq Guards BY <1>1
  <2> QED BY <2>1, <2>2, <2>3, <2>4 DEF NotifierType
<1>4. ProgramType
  <2>1. <<>> \in Seq(Guards) /\ <<>> \in Seq(Frames) OBVIOUS
  <2>2. active \in [Bindings -> Seq(Guards)] /\ stack \in Seq(Frames) /\ calls \in Nat
    BY <1>1, <2>1
  <2>3. binding \in [Bindings -> [exists : BOOLEAN, enabled : BOOLEAN, updating : BOOLEAN,
                               looped : BOOLEAN, read : SUBSET Properties]]
    BY <1>1
  <2>4. handler \in [Handlers -> {"there", "later", "gone"}] /\ alive \subseteq Properties
    BY <1>1
  <2> QED BY <2>2, <2>3, <2>4 DEF ProgramType
<1>5. ListInv
  <2>1. ASSUME NEW p \in Properties, NEW e \in Endpoints
        PROVE  In(endpoints[p], e) <=> sender[e] = p
    BY <1>1, <1>2, <1>n
  <2>2. \A g \in Guards : sender[g] = None /\ notifying[g] = NoSlot
    BY <1>1, GuardsAreEndpoints, BindingAssumption
  <2> QED BY <1>1, <1>2, <2>1, <2>2 DEF ListInv
<1>s. DOMAIN stack = {} BY <1>1
<1>6. EmitInv
  <2>1. \A x, y \in Nat : ~Slot(x, y) BY <1>s DEF Slot
  <2>2. \A e \in Endpoints : notifying[e] = NoSlot BY <1>1
  <2> QED BY <1>s, <2>1, <2>2 DEF EmitInv, CallInv, PointInv
<1>7. OwnInv
  <2>1. \A x, b : ~Runs(x, b) /\ ~Evals(x, b) BY <1>s DEF Runs, Evals
  <2>2. RunInv BY <1>s, <2>1 DEF RunInv
  <2>3. \A b \in Bindings : active[b] = <<>> BY <1>1
  <2>4. \A b \in Bindings : ActiveInv(b) BY <2>3 DEF ActiveInv, Once, In
  <2>5. \A g \in Guards, b \in Bindings : expression[g] # b BY <1>1, <1>n
  <2> QED BY <2>1, <2>2, <2>4, <2>5 DEF OwnInv
<1>8. HearInv
  <2>1. \A b \in Bindings : ~Listening(b) BY <1>1 DEF Listening
  <2> QED BY <2>1 DEF HearInv
<1> QED BY <1>3, <1>4, <1>5, <1>6, <1>7, <1>8, Types DEF IInv

LEMMA StutterKeeps ==
  ASSUME IInv, UNCHANGED vars
  PROVE  IInv'
<1>1. /\ UNCHANGED notifierVars
      /\ active' = active /\ binding' = binding /\ handler' = handler /\ alive' = alive
      /\ stack' = stack /\ calls' = calls
  BY DEF vars
<1>2. ProgramType BY Types DEF IInv
<1>3. ProgramType' BY <1>1, <1>2 DEF ProgramType
<1>4. SameEmits /\ SameRuns BY <1>1 DEF SameEmits, SameRuns
<1>5. \A b \in Bindings : /\ binding'[b].exists <=> binding[b].exists
                          /\ binding'[b].updating <=> binding[b].updating
                          /\ Listening(b)' => Listening(b) /\ binding'[b].read = binding[b].read
  BY <1>1 DEF Listening
<1> QED BY <1>1, <1>3, <1>4, <1>5, QuietKeeps

LEMMA NextKeeps ==
  ASSUME IInv, [Next]_vars
  PROVE  IInv'
<1>1. CASE Next
  <2>1. ASSUME NEW p \in Properties, Read(p) PROVE IInv' BY <2>1, ReadKeeps
  <2>2. CASE Evaluated BY <2>2, EvaluatedKeeps
  <2>3. CASE Write BY <2>3, WriteKeeps
  <2>4. CASE Updated BY <2>4, UpdatedKeeps
  <2>5. CASE CallGuard BY <2>5, CallGuardKeeps
  <2>6. CASE CallHandler BY <2>6, CallHandlerKeeps
  <2>7. CASE Skip \/ Called BY <2>7, NextKeepsIt
  <2>8. CASE Emitted \/ HandlerReturns BY <2>8, ReturnKeeps
  <2>9. ASSUME NEW p \in Properties, Change(p) PROVE IInv' BY <2>9, ChangeKeeps
  <2>10. ASSUME NEW p \in Properties, Destroy(p) PROVE IInv' BY <2>10, DestroyKeeps
  <2>11. ASSUME NEW b \in Bindings, Enable(b) PROVE IInv' BY <2>11, EnableKeeps
  <2>12. ASSUME NEW b \in Bindings, Disable(b) \/ RemoveBinding(b) PROVE IInv'
    BY <2>12, ClearKeeps
  <2>13. ASSUME NEW h \in Handlers, RemoveHandler(h) \/ DeleteLater(h) PROVE IInv'
    BY <2>13, HandlerKeeps
  <2>14. Engine => IInv'
    BY <2>1, <2>2, <2>3, <2>4, <2>5, <2>6, <2>7, <2>8 DEF Engine
  <2>15. Program => IInv' BY <2>9, <2>10, <2>11, <2>12, <2>13 DEF Program
  <2> QED BY <1>1, <2>14, <2>15 DEF Next
<1>2. CASE UNCHANGED vars BY <1>2, StutterKeeps
<1> QED BY <1>1, <1>2

\* The inductive invariant: who is on which list, what the frames of emitNotify() have
\* still to call and where senderPtr points to, whose guards are whose, and that each
\* binding hears of all that it has read.
THEOREM Invariance == Spec => []IInv
<1>1. Init => IInv BY InitHolds
<1>2. IInv /\ [Next]_vars => IInv' BY NextKeeps
<1> QED BY <1>1, <1>2, PTL DEF Spec

\* Type correctness: every variable keeps its type.
THEOREM TypeCorrect == Spec => []TypeOK
<1>1. IInv => TypeOK BY DEF IInv
<1> QED BY <1>1, Invariance, PTL

\* startNotifying(): a pointer that an endpoint has into the stack of emitNotify() is never
\* stale, however the calls are nested, as long as what notifies is not destroyed meanwhile.
THEOREM PointersAreLive == ASSUME ~Ruthless PROVE Spec => []NotifyingIsLive
<1>1. ASSUME IInv, NEW e \in Endpoints, notifying[e] # NoSlot
      PROVE  /\ notifying[e][1] \in DOMAIN stack
             /\ LET f == stack[notifying[e][1]] IN
                  f.kind = "emit" /\ notifying[e][2] \in 1 .. f.next
                  /\ f.entries[notifying[e][2]].endpoint = e
  <2>1. PointInv(e) BY <1>1 DEF IInv, EmitInv
  <2>2. PointsTo(e, notifying[e][1], notifying[e][2]) BY <1>1, <2>1 DEF PointInv
  <2> QED BY <2>2 DEF PointsTo, Slot, EntryAt
<1>2. IInv => NotifyingIsLive BY <1>1 DEF NotifyingIsLive
<1> QED BY <1>2, Invariance, PTL

\* disconnectWatch: what any of the nested emitNotify() is going to call is connected to
\* what has changed, whatever the calls before it have disconnected, deleted and captured.
THEOREM CallsTheConnected == Spec => []WatchesAgree
<1>1. ASSUME IInv, NEW x \in DOMAIN stack, stack[x].kind = "emit", NEW y \in 1 .. stack[x].next,
             Watched(stack[x].entries[y])
      PROVE  stack[x].entries[y].endpoint \in ToSet(endpoints[stack[x].of])
  <2>1. ProgramType /\ NotifierType /\ ListInv /\ EmitInv BY <1>1, Types DEF IInv
  <2>2. x \in Nat /\ y \in Nat
    <3>1. stack \in Seq(Frames) BY <2>1 DEF ProgramType
    <3>2. stack[x] \in Frames BY <1>1, <3>1
    <3>3. stack[x].next \in Nat BY <3>2 DEF Frames
    <3> QED BY <3>1, <3>3
  <2>3. Slot(x, y) /\ EntryAt(x, y) = stack[x].entries[y] BY <1>1 DEF Slot, EntryAt
  <2>4. SlotInv(x, y) BY <2>1, <2>2, <2>3 DEF EmitInv
  <2>5. PICK e \in Endpoints : e = EntryAt(x, y).endpoint BY <2>1, <2>2, <2>3, <2>4, EntryIs
  <2>6. sender[e] = stack[x].of /\ sender[e] # None
    BY <1>1, <2>3, <2>4, <2>5 DEF SlotInv, Watched
  <2>7. PICK p \in Properties : p = sender[e] BY <2>1, <2>6 DEF NotifierType
  <2>8. In(endpoints[p], e) BY <2>1, <2>7 DEF ListInv
  <2>9. e \in ToSet(endpoints[p]) BY <2>8 DEF In, ToSet
  <2> QED BY <2>3, <2>5, <2>6, <2>7, <2>9
<1>2. IInv => WatchesAgree BY <1>1 DEF WatchesAgree, IInv
<1> QED BY <1>2, Invariance, PTL

\* QQmlJavaScriptExpressionGuard_callback(): the guard that is called is in use, and its
\* binding exists, or the binding was deleted in its own evaluation, which is still under
\* way and has the guard left over from the evaluation before it.
THEOREM CallbacksAreLive == Spec => []CallbackIsLive
<1>1. ASSUME IInv, At("emit"), Top.next > 0, Watched(Entry), Entry.endpoint \in Guards
      PROVE  /\ expression[Entry.endpoint] # None
             /\ binding[expression[Entry.endpoint]].exists \/ LeftOver(Entry.endpoint)
  <2>1. ProgramType /\ NotifierType /\ ListInv /\ OwnInv BY <1>1, Types DEF IInv
  <2>2. PICK g \in Guards : g = Entry.endpoint BY <1>1
  <2>3. expression[g] # None BY <1>1, <2>1, <2>2 DEF Watched, ListInv
  <2>4. PICK b \in Bindings : b = expression[g] BY <2>1, <2>3 DEF NotifierType
  <2>5. Held(g, b) BY <2>1, <2>4 DEF OwnInv
  <2>6. CASE In(active[b], g)
    <3>1. active[b] # <<>> BY <2>6 DEF In
    <3>2. binding[b].exists BY <2>1, <3>1 DEF OwnInv, ActiveInv
    <3> QED BY <2>2, <2>3, <2>4, <3>2
  <2>7. CASE \E x \in Nat : Evals(x, b) /\ In(stack[x].rest, g)
    <3>1. PICK x \in Nat : Evals(x, b) /\ In(stack[x].rest, g) BY <2>7
    <3>2. g \in ToSet(stack[x].rest) BY <3>1 DEF In, ToSet
    <3>3. ~binding[b].exists => LeftOver(g) BY <2>4, <3>1, <3>2 DEF LeftOver, Evals
    <3> QED BY <2>2, <2>3, <2>4, <3>3
  <2> QED BY <2>5, <2>6, <2>7 DEF Held
<1>2. IInv => CallbackIsLive BY <1>1 DEF CallbackIsLive
<1> QED BY <1>2, Invariance, PTL

\* captureProperty(): at rest a binding listens to what it has read last and to nothing
\* else, and no guard is lost.
THEOREM ListensToWhatItReads == Spec => []GuardsExact
<1>1. ASSUME IInv, Depth = 0 PROVE \A x, b : ~Evals(x, b)
  <2>1. stack \in Seq(Frames) BY <1>1, Types DEF IInv, ProgramType
  <2>2. DOMAIN stack = {} BY <1>1, <2>1 DEF Depth
  <2> QED BY <2>2 DEF Evals
<1>2. ASSUME IInv, Depth = 0, NEW b \in Bindings, NEW g \in ToSet(active[b])
      PROVE  expression[g] = b /\ g \in Guards /\ In(active[b], g)
  <2>1. ProgramType /\ OwnInv BY <1>2, Types DEF IInv
  <2>2. g \in Guards /\ In(active[b], g) BY <1>2, <2>1, ListenersOf
  <2> QED BY <2>1, <2>2 DEF OwnInv, ActiveInv
<1>3. ASSUME IInv, Depth = 0, NEW b \in Bindings, Listening(b)
      PROVE  {sender[g] : g \in ToSet(active[b])} \ {None} = binding[b].read
  <2>1. ProgramType /\ NotifierType BY <1>3, Types DEF IInv
  <2>2. ReadsInv(b) BY <1>3 DEF IInv, HearInv
  <2>3. binding[b].read \subseteq Properties BY <2>1 DEF ProgramType
  <2>4. \A g : g \in ToSet(active[b]) <=> g \in Guards /\ In(active[b], g)
    BY <2>1, ListenersOf
  <2>5. \A g \in Guards : sender[g] \in Properties \cup {None}
    BY <2>1, GuardsAreEndpoints DEF NotifierType
  <2>6. None \notin Properties BY BindingAssumption
  <2>7. \A p : p \in {sender[g] : g \in ToSet(active[b])} \ {None} <=>
                 p \in Properties /\ \E g \in Guards : In(active[b], g) /\ sender[g] = p
    BY <2>4, <2>5, <2>6
  <2> QED BY <2>2, <2>3, <2>7 DEF ReadsInv
<1>4. ASSUME IInv, Depth = 0, NEW g \in Guards, expression[g] # None
      PROVE  binding[expression[g]].exists /\ g \in ToSet(active[expression[g]])
  <2>1. ProgramType /\ NotifierType /\ OwnInv BY <1>4, Types DEF IInv
  <2>2. PICK b \in Bindings : b = expression[g] BY <1>4, <2>1 DEF NotifierType
  <2>3. Held(g, b) BY <2>1, <2>2 DEF OwnInv
  <2>4. In(active[b], g) BY <1>1, <1>4, <2>3 DEF Held
  <2>5. active[b] # <<>> BY <2>4 DEF In
  <2>6. binding[b].exists BY <2>1, <2>5 DEF OwnInv, ActiveInv
  <2>7. g \in ToSet(active[b]) BY <2>1, <2>4, ListenersOf
  <2> QED BY <2>2, <2>6, <2>7
<1>5. IInv => GuardsExact BY <1>2, <1>3, <1>4 DEF GuardsExact
<1> QED BY <1>5, Invariance, PTL

\* At rest a binding has been evaluated since the last change of anything that it has read.
THEOREM IsUpToDate == Spec => []UpToDate
<1>1. ASSUME IInv, Depth = 0, NEW b \in Bindings, Listening(b)
      PROVE  ToSet(active[b]) \cap stale = {}
  <2>1. stack \in Seq(Frames) /\ ProgramType BY <1>1, Types DEF IInv, ProgramType
  <2>2. DOMAIN stack = {} BY <1>1, <2>1 DEF Depth
  <2>3. PendsInv(b) BY <1>1 DEF IInv, HearInv
  <2>4. \A g \in stale : ~In(active[b], g) BY <2>2, <2>3 DEF PendsInv, Pending, Slot
  <2> QED BY <2>1, <2>4, ListenersOf
<1>2. IInv => UpToDate BY <1>1 DEF UpToDate
<1> QED BY <1>2, Invariance, PTL

\* cancelNotify(): the guard that is called has not been captured since the change, so no
\* binding is evaluated once more for a change that it has seen.
THEOREM UpdatesAreNeeded == Spec => NoNeedlessUpdate
<1>1. ASSUME IInv, CallGuard PROVE Entry.endpoint \in stale
  <2>1. At("emit") /\ Top.next > 0 /\ Watched(Entry) /\ Entry.endpoint \in Guards
    BY <1>1 DEF CallGuard
  <2>2. SlotInv(Depth, Top.next) /\ Entry = EntryAt(Depth, Top.next) BY <1>1, <2>1, EntryOnTop
  <2> QED BY <2>1, <2>2 DEF SlotInv
<1>2. IInv /\ [Next]_vars => [CallGuard /\ Len(stack') > Depth => Entry.endpoint \in stale]_vars
  BY <1>1
<1> QED BY <1>2, Invariance, PTL DEF Spec, NoNeedlessUpdate

\* Whatever is destroyed meanwhile, the pointer of an endpoint that is still connected points
\* to an entry of its own that emitNotify() has not passed.
THEOREM ConnectedPointersAreLive ==
  Spec => [](\A e \in Endpoints : notifying[e] # NoSlot /\ sender[e] # None =>
               PointsTo(e, notifying[e][1], notifying[e][2]))
<1>1. IInv => \A e \in Endpoints : notifying[e] # NoSlot /\ sender[e] # None =>
                PointsTo(e, notifying[e][1], notifying[e][2])
  BY DEF IInv, EmitInv, PointInv
<1> QED BY <1>1, Invariance, PTL

=============================================================================

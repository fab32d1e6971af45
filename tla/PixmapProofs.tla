---------------------------- MODULE PixmapProofs ----------------------------
(***************************************************************************)
(* The pixmap cache of PixmapCache, proved for any images, pixmaps, kinds  *)
(* and costs: no pointer between a QQuickPixmapData and its reply outlives *)
(* what it points to, and the store counts, lists, pays and finds exactly  *)
(* the pixmaps that are there.                                             *)
(***************************************************************************)
EXTENDS PixmapCache, SequenceLemmas, FiniteSetTheorems

-----------------------------------------------------------------------------
(* The inductive invariant.                                                *)

\* What is said of the store is said of a list u of unreferenced pixmaps, pixmaps d and
\* a cache c, since release() changes the pixmaps before the list shrinks.
UsersIn(img, n) == {i \in Images : img[i].pix = n}
DataType ==
  [Ids -> [live : BOOLEAN, key : Keys \cup {NoId}, ref : 0 .. Cardinality(Images),
           status : Statuses, inCache : BOOLEAN, reply : BOOLEAN, orphan : BOOLEAN]]

\* A pixmap that is referred to, kept or awaited is there, and its users are counted.
OneData(d, u, img, n) ==
  /\ d[n].ref = Cardinality(UsersIn(img, n))
  /\ In(u, n) <=> d[n].live /\ d[n].ref = 0
  /\ ~d[n].live => d[n] = NoData
  /\ d[n].live => d[n].key \in Keys
  /\ In(u, n) => d[n].status = "ready" /\ d[n].inCache
  /\ d[n].reply => d[n].status = "loading"
DataInv(d, u, img) == Once(u) /\ \A n \in Ids : OneData(d, u, img, n)

CachedInv(d, c) ==
  /\ \A n \in Ids : d[n].inCache => c[d[n].key] = n
  /\ \A k \in Keys : c[k] # NoId =>
       d[c[k]].live /\ d[c[k]].inCache /\ d[c[k]].key = k /\ d[c[k]].status # "error"

StoreInv ==
  /\ DataInv(data, unref, image) /\ CachedInv(data, cache)
  /\ cost = TotalCost(unref, data) /\ cost <= CacheLimit
  /\ unref # <<>> => timer
  /\ loading # Nobody => image[loading.image].pix = NoId

\* The two pointers, of the pixmap to its reply and of the reply to its pixmap.
PairInv(n) ==
  /\ data[n].reply /\ ~data[n].orphan =>
       reply[n].live /\ reply[n].data /\ frame.reply # n
  /\ reply[n].live /\ reply[n].data /\ frame.reply # n => data[n].live /\ data[n].reply
  /\ data[n].reply /\ data[n].orphan => reader \in {"dying", "gone"}

\* A reply is queued, loads, has an answer posted, emits finished() or waits to be
\* deleted: one at a time.
OneReply(n) ==
  /\ ~reply[n].live => /\ ~reply[n].data /\ ~reply[n].loading
                        /\ reply[n].event = "none" /\ ~reply[n].deleteLater
  /\ In(jobs, n) => /\ reply[n].live /\ reply[n].data /\ ~reply[n].loading
                    /\ reply[n].event = "none" /\ ~reply[n].deleteLater /\ frame.reply # n
  /\ n \in cancelled => /\ reply[n].live /\ ~reply[n].data /\ reply[n].loading
                        /\ ~reply[n].deleteLater
  /\ n \in underWay \cup {current} =>
       reply[n].live /\ reply[n].loading /\ ~reply[n].deleteLater
  /\ reply[n].event # "none" => ~reply[n].loading /\ ~reply[n].deleteLater /\ frame.reply # n
  /\ reply[n].deleteLater => ~reply[n].data
  /\ frame.reply = n => reply[n].live /\ ~reply[n].loading /\ ~data[n].reply

ReplyInv ==
  /\ \A n \in Ids : PairInv(n) /\ OneReply(n)
  /\ Once(jobs)
  /\ current \notin underWay
  /\ current = NoId <=> pc \notin {"process", "answer"}
  /\ frame.reply = NoId => frame = NoFrame
  /\ reader # "there" => jobs = <<>>

IInv == TypeOK /\ StoreInv /\ ReplyInv

-----------------------------------------------------------------------------
(* Sums.                                                                   *)

\* f adds up the numbers of w.
Adds(f, w) == f = [m \in 0 .. Len(w) |-> IF m = 0 THEN 0 ELSE f[m - 1] + w[m]]

LEMMA AddsSteps ==
  ASSUME NEW w \in Seq(Nat), NEW f, f = [m \in 0 .. Len(w) |-> f[m]], f[0] = 0,
         \A m \in 1 .. Len(w) : f[m] = f[m - 1] + w[m]
  PROVE  Adds(f, w)
<1> DEFINE g == [m \in 0 .. Len(w) |-> IF m = 0 THEN 0 ELSE f[m - 1] + w[m]]
<1>1. \A m \in 0 .. Len(w) : f[m] = g[m] OBVIOUS
<1>2. g = [m \in 0 .. Len(w) |-> g[m]] OBVIOUS
<1> HIDE DEF g
<1>3. f = g BY <1>1, <1>2
<1> QED BY <1>3 DEF Adds, g

LEMMA AddsOnce ==
  ASSUME NEW w \in Seq(Nat), NEW f, NEW g, Adds(f, w), Adds(g, w)
  PROVE  f = g
<1> DEFINE T == {m \in 0 .. Len(w) : f[m] # g[m]}
<1>0. Len(w) \in Nat OBVIOUS
<1>1. /\ f = [m \in 0 .. Len(w) |-> f[m]] /\ g = [m \in 0 .. Len(w) |-> g[m]]
      /\ f[0] = 0 /\ g[0] = 0
      /\ \A m \in 1 .. Len(w) : f[m] = f[m - 1] + w[m] /\ g[m] = g[m - 1] + w[m]
  BY <1>0 DEF Adds
<1>2. CASE T # {}
  <2>1. PICK m \in T : \A k \in T : m <= k
    <3>1. T \in SUBSET Nat BY <1>0
    <3> HIDE DEF T
    <3> QED BY <1>2, <3>1, Least
  <2>2. m # 0 BY <1>1, <2>1
  <2>3. m \in 1 .. Len(w) /\ m - 1 \in 0 .. Len(w) BY <1>0, <2>1, <2>2
  <2>4. f[m - 1] = g[m - 1] BY <1>0, <2>1, <2>3
  <2> QED BY <1>1, <2>1, <2>3, <2>4
<1>3. CASE T = {} BY <1>1, <1>3
<1> QED BY <1>2, <1>3

LEMMA AddsThere ==
  ASSUME NEW w \in Seq(Nat)
  PROVE  \E f \in [0 .. Len(w) -> Nat] : Adds(f, w)
<1> DEFINE P(n, f) == /\ f \in [0 .. n -> Nat] /\ f[0] = 0
                      /\ \A m \in 1 .. n : f[m] = f[m - 1] + w[m]
           T == {n \in 0 .. Len(w) : ~\E f : P(n, f)}
<1>0. Len(w) \in Nat /\ w \in [1 .. Len(w) -> Nat] OBVIOUS
<1>1. CASE T # {}
  <2>2. PICK n \in T : \A k \in T : n <= k
    <3>1. T \in SUBSET Nat BY <1>0
    <3> HIDE DEF T
    <3> QED BY <1>1, <3>1, Least
  <2>3. P(0, [m \in 0 .. 0 |-> 0]) OBVIOUS
  <2>4. n # 0
    <3> HIDE DEF P
    <3> QED BY <2>2, <2>3
  <2>5. n \in 1 .. Len(w) /\ n - 1 \in 0 .. Len(w) /\ n - 1 \notin T
    <3> HIDE DEF P
    <3> QED BY <1>0, <2>2, <2>4
  <2>6. PICK f : P(n - 1, f)
    <3> HIDE DEF P
    <3> QED BY <2>5
  <2> DEFINE g == [m \in 0 .. n |-> IF m = n THEN f[n - 1] + w[n] ELSE f[m]]
  <2>7. w[n] \in Nat BY <1>0, <2>5
  <2>8. f[n - 1] \in Nat BY <2>5, <2>6
  <2>9. g \in [0 .. n -> Nat]
    <3>1. ASSUME NEW m \in 0 .. n PROVE g[m] \in Nat
      <4>1. CASE m = n BY <2>7, <2>8, <4>1
      <4>2. CASE m # n
        <5>1. m \in 0 .. n - 1 BY <2>5, <4>2
        <5> QED BY <2>6, <4>2, <5>1
      <4> QED BY <4>1, <4>2
    <3> QED BY <3>1
  <2>10. g[0] = 0 BY <2>5, <2>6
  <2>11. ASSUME NEW m \in 1 .. n PROVE g[m] = g[m - 1] + w[m]
    <3>1. CASE m = n BY <2>5, <3>1
    <3>2. CASE m # n
      <4>1. m \in 1 .. n - 1 /\ m - 1 # n /\ m - 1 \in 0 .. n BY <2>5, <3>2
      <4>2. f[m] = f[m - 1] + w[m] BY <2>6, <4>1
      <4> QED BY <3>2, <4>1, <4>2
    <3> QED BY <3>1, <3>2
  <2>12. P(n, g) BY <2>9, <2>10, <2>11
  <2> HIDE DEF P
  <2> QED BY <2>2, <2>12
<1>2. CASE T = {}
  <2>1. PICK f : P(Len(w), f)
    <3>1. Len(w) \notin T BY <1>2
    <3> HIDE DEF P
    <3> QED BY <1>0, <3>1
  <2>2. f = [m \in 0 .. Len(w) |-> f[m]] BY <2>1
  <2> QED BY <2>1, <2>2, AddsSteps
<1> QED BY <1>1, <1>2

LEMMA SumIs ==
  ASSUME NEW w \in Seq(Nat), NEW f, Adds(f, w)
  PROVE  SumOf(w) = f[Len(w)] /\ SumOf(w) \in Nat
<1> DEFINE s == CHOOSE g : Adds(g, w)
<1>1. SumOf(w) = s[Len(w)] BY DEF SumOf, Adds
<1>2. Adds(s, w) OBVIOUS
<1> HIDE DEF s
<1>3. s = f BY <1>2, AddsOnce
<1>4. PICK g \in [0 .. Len(w) -> Nat] : Adds(g, w) BY AddsThere
<1>5. g = f BY <1>4, AddsOnce
<1> QED BY <1>1, <1>3, <1>5

LEMMA AddsFacts ==
  ASSUME NEW w \in Seq(Nat), NEW n \in Nat, n = Len(w), NEW f \in [0 .. n -> Nat], Adds(f, w)
  PROVE  f[0] = 0 /\ \A m \in 1 .. n : f[m] = f[m - 1] + w[m]
BY DEF Adds

LEMMA SumConcat ==
  ASSUME NEW v \in Seq(Nat), NEW w \in Seq(Nat)
  PROVE  SumOf(v \o w) = SumOf(v) + SumOf(w)
<1> DEFINE u == v \o w
<1>0. PICK p \in Nat, q \in Nat : p = Len(v) /\ q = Len(w) OBVIOUS
<1>1. PICK f \in [0 .. p -> Nat] : Adds(f, v) BY <1>0, AddsThere
<1>2. PICK g \in [0 .. q -> Nat] : Adds(g, w) BY <1>0, AddsThere
<1>3. f[0] = 0 /\ \A m \in 1 .. p : f[m] = f[m - 1] + v[m] BY <1>0, <1>1, AddsFacts
<1>4. g[0] = 0 /\ \A m \in 1 .. q : g[m] = g[m - 1] + w[m] BY <1>0, <1>2, AddsFacts
<1>5. /\ u \in Seq(Nat) /\ Len(u) = p + q
      /\ \A k \in 1 .. p + q : u[k] = IF k <= p THEN v[k] ELSE w[k - p]
  BY <1>0, ConcatProperties
<1>6. w \in [1 .. q -> Nat] BY <1>0
<1> HIDE DEF u
<1> DEFINE h == [m \in 0 .. p + q |-> IF m <= p THEN f[m] ELSE f[p] + g[m - p]]
<1>7. h = [m \in 0 .. p + q |-> h[m]] /\ h[0] = 0 BY <1>3
<1>8. ASSUME NEW m \in 1 .. p + q PROVE h[m] = h[m - 1] + u[m]
  <2>1. CASE m <= p
    <3>1. m \in 1 .. p /\ u[m] = v[m] BY <1>5, <2>1
    <3>2. h[m] = f[m] /\ h[m - 1] = f[m - 1] BY <2>1, <3>1
    <3> QED BY <1>3, <3>1, <3>2
  <2>2. CASE m > p
    <3>0. PICK k \in 1 .. q : k = m - p BY <2>2
    <3>1. u[m] = w[k] /\ k - 1 \in 0 .. q BY <1>5, <2>2, <3>0
    <3>2. g[k] = g[k - 1] + w[k] /\ g[k - 1] \in Nat /\ w[k] \in Nat /\ g[k] \in Nat
      BY <1>4, <1>6, <3>1
    <3>3. h[m] = f[p] + g[k] BY <2>2, <3>0
    <3>4. h[m - 1] = f[p] + g[k - 1]
      <4>1. CASE k = 1
        <5>1. m - 1 = p /\ k - 1 = 0 BY <3>0, <4>1
        <5>2. h[m - 1] = f[p] /\ g[k - 1] = 0 BY <1>4, <5>1
        <5> QED BY <5>2
      <4>2. CASE k # 1
        <5>1. m - 1 > p /\ m - 1 \in 0 .. p + q /\ m - 1 - p = k - 1 BY <3>0, <4>2
        <5> QED BY <5>1
      <4> QED BY <4>1, <4>2
    <3>5. f[p] \in Nat OBVIOUS
    <3> HIDE DEF h
    <3> QED BY <3>1, <3>2, <3>3, <3>4, <3>5
  <2> QED BY <2>1, <2>2
<1>9. Adds(h, u)
  <2> HIDE DEF h
  <2> QED BY <1>5, <1>7, <1>8, AddsSteps
<1>10. SumOf(u) = h[p + q]
  <2> HIDE DEF h
  <2> QED BY <1>5, <1>9, SumIs
<1>11. h[p + q] = f[p] + g[q]
  <2>1. CASE q = 0 BY <1>4, <2>1
  <2>2. CASE q # 0
    <3>1. ~(p + q <= p) /\ p + q \in 0 .. p + q /\ p + q - p = q BY <2>2
    <3> QED BY <3>1
  <2> QED BY <2>1, <2>2
<1>12. SumOf(v) = f[p] /\ SumOf(w) = g[q] BY <1>0, <1>1, <1>2, SumIs
<1> QED BY <1>10, <1>11, <1>12 DEF u

LEMMA SumSmall ==
  /\ SumOf(<<>>) = 0
  /\ \A n \in Nat : SumOf(<<n>>) = n
<1>1. SumOf(<<>>) = 0
  <2> DEFINE f == [m \in 0 .. 0 |-> 0]
  <2>1. Adds(f, <<>>) BY DEF Adds
  <2>2. <<>> \in Seq(Nat) /\ Len(<<>>) = 0 /\ f[0] = 0 OBVIOUS
  <2> HIDE DEF f
  <2> QED BY <2>1, <2>2, SumIs
<1>2. ASSUME NEW n \in Nat PROVE SumOf(<<n>>) = n
  <2> DEFINE f == [m \in 0 .. 1 |-> IF m = 0 THEN 0 ELSE n]
             w == <<n>>
  <2>1. w \in Seq(Nat) /\ Len(w) = 1 /\ w[1] = n OBVIOUS
  <2>2. f = [m \in 0 .. 1 |-> f[m]] /\ f[0] = 0 /\ f[1] = n OBVIOUS
  <2> HIDE DEF f, w
  <2>3. \A m \in 1 .. Len(w) : f[m] = f[m - 1] + w[m] BY <2>1, <2>2
  <2>4. Adds(f, w) BY <2>1, <2>2, <2>3, AddsSteps
  <2>5. SumOf(w) = f[Len(w)] BY <2>1, <2>4, SumIs
  <2> QED BY <2>1, <2>2, <2>5 DEF w
<1> QED BY <1>1, <1>2

\* The costs of pixmaps that have a key.
Keyed(u, d) == \A x \in 1 .. Len(u) : d[u[x]].key \in Keys
Costs(u, d) == [x \in 1 .. Len(u) |-> Cost[d[u[x]].key]]

LEMMA CostsAre ==
  ASSUME NEW u \in Seq(Ids), NEW d, Keyed(u, d)
  PROVE  /\ Costs(u, d) \in Seq(Nat) /\ Len(Costs(u, d)) = Len(u)
         /\ TotalCost(u, d) = SumOf(Costs(u, d)) /\ TotalCost(u, d) \in Nat
<1>1. \A x \in 1 .. Len(u) : Cost[d[u[x]].key] \in Nat BY PixmapAssumption DEF Keyed
<1>2. Costs(u, d) \in Seq(Nat) /\ Len(Costs(u, d)) = Len(u)
  BY <1>1, Len(u) \in Nat DEF Costs
<1>3. TotalCost(u, d) = SumOf(Costs(u, d)) BY DEF TotalCost, Costs
<1>4. PICK f : Adds(f, Costs(u, d)) BY <1>2, AddsThere
<1>5. SumOf(Costs(u, d)) \in Nat BY <1>2, <1>4, SumIs
<1> QED BY <1>2, <1>3, <1>5

LEMMA TotalConcat ==
  ASSUME NEW s \in Seq(Ids), NEW t \in Seq(Ids), NEW d, Keyed(s, d), Keyed(t, d)
  PROVE  Keyed(s \o t, d) /\ TotalCost(s \o t, d) = TotalCost(s, d) + TotalCost(t, d)
<1> DEFINE u == s \o t
<1>0. PICK p \in Nat, q \in Nat : p = Len(s) /\ q = Len(t) OBVIOUS
<1>1. /\ u \in Seq(Ids) /\ Len(u) = p + q
      /\ \A k \in 1 .. p + q : u[k] = IF k <= p THEN s[k] ELSE t[k - p]
  BY <1>0, ConcatProperties
<1> HIDE DEF u
<1>2. ASSUME NEW k \in 1 .. p + q, k > p PROVE k - p \in 1 .. q /\ u[k] = t[k - p]
  BY <1>1, <1>2
<1>3. Keyed(u, d)
  <2>1. ASSUME NEW k \in 1 .. p + q PROVE d[u[k]].key \in Keys
    <3>1. CASE k <= p
      <4>1. k \in 1 .. Len(s) /\ u[k] = s[k] BY <1>0, <1>1, <3>1
      <4> QED BY <4>1 DEF Keyed
    <3>2. CASE k > p
      <4>1. k - p \in 1 .. Len(t) /\ u[k] = t[k - p] BY <1>0, <1>2, <3>2
      <4> QED BY <4>1 DEF Keyed
    <3> QED BY <3>1, <3>2
  <2> QED BY <1>1, <2>1 DEF Keyed
<1> DEFINE a == Costs(s, d)
           b == Costs(t, d)
<1>4. a \in Seq(Nat) /\ b \in Seq(Nat) /\ Len(a) = p /\ Len(b) = q BY <1>0, CostsAre
<1>5. \A k \in 1 .. p : a[k] = Cost[d[s[k]].key] BY <1>0 DEF Costs
<1>6. \A k \in 1 .. q : b[k] = Cost[d[t[k]].key] BY <1>0 DEF Costs
<1> HIDE DEF a, b
<1> DEFINE c == Costs(u, d)
           e == a \o b
<1>7. /\ e \in Seq(Nat) /\ Len(e) = p + q
      /\ \A k \in 1 .. p + q : e[k] = IF k <= p THEN a[k] ELSE b[k - p]
  BY <1>4, ConcatProperties
<1>8. c \in Seq(Nat) /\ Len(c) = p + q BY <1>1, <1>3, CostsAre
<1>9. \A k \in 1 .. p + q : c[k] = Cost[d[u[k]].key] BY <1>1 DEF Costs
<1> HIDE DEF c, e
<1>10. ASSUME NEW k \in 1 .. p + q PROVE c[k] = e[k]
  <2>1. CASE k <= p
    <3>1. k \in 1 .. p /\ u[k] = s[k] /\ e[k] = a[k] BY <1>1, <1>7, <2>1
    <3> QED BY <1>5, <1>9, <3>1
  <2>2. CASE k > p
    <3>1. k - p \in 1 .. q /\ u[k] = t[k - p] /\ e[k] = b[k - p] BY <1>2, <1>7, <2>2
    <3> QED BY <1>6, <1>9, <3>1
  <2> QED BY <2>1, <2>2
<1>11. c = e BY <1>7, <1>8, <1>10, SeqEqual
<1>12. SumOf(e) = SumOf(a) + SumOf(b) BY <1>4, SumConcat DEF e
<1>13. TotalCost(u, d) = SumOf(c) BY <1>1, <1>3, CostsAre DEF c
<1>14. TotalCost(s, d) = SumOf(a) /\ TotalCost(t, d) = SumOf(b) BY CostsAre DEF a, b
<1> QED BY <1>3, <1>11, <1>12, <1>13, <1>14 DEF u

LEMMA TotalSmall ==
  ASSUME NEW n \in Ids, NEW d, d[n].key \in Keys
  PROVE  /\ TotalCost(<<>>, d) = 0
         /\ Keyed(<<n>>, d) /\ TotalCost(<<n>>, d) = Cost[d[n].key]
<1>1. Costs(<<>>, d) = <<>> BY DEF Costs
<1>2. Costs(<<n>>, d) = <<Cost[d[n].key]>> BY DEF Costs
<1>3. Keyed(<<>>, d) /\ Keyed(<<n>>, d) BY DEF Keyed
<1>4. Cost[d[n].key] \in Nat BY PixmapAssumption
<1>5. <<>> \in Seq(Ids) /\ <<n>> \in Seq(Ids) OBVIOUS
<1>6. TotalCost(<<>>, d) = 0 BY <1>1, <1>3, <1>5, CostsAre, SumSmall
<1>7. TotalCost(<<n>>, d) = Cost[d[n].key] BY <1>2, <1>3, <1>4, <1>5, CostsAre, SumSmall
<1> QED BY <1>3, <1>6, <1>7

LEMMA TotalSame ==
  ASSUME NEW u \in Seq(Ids), NEW d, NEW e, \A n \in Ids : In(u, n) => d[n].key = e[n].key
  PROVE  TotalCost(u, d) = TotalCost(u, e)
<1>1. \A x \in 1 .. Len(u) : d[u[x]].key = e[u[x]].key BY DEF In
<1>2. [x \in 1 .. Len(u) |-> Cost[d[u[x]].key]] = [x \in 1 .. Len(u) |-> Cost[e[u[x]].key]]
  BY <1>1
<1> QED BY <1>2 DEF TotalCost

-----------------------------------------------------------------------------
(* The list of unreferenced pixmaps.                                       *)

\* referencePixmap() gives back what the pixmap costs.
LEMMA RemovalPays ==
  ASSUME NEW u \in Seq(Ids), Once(u), NEW d, Keyed(u, d), NEW n, In(u, n)
  PROVE  TotalCost(RemoveFirst(u, n), d) = TotalCost(u, d) - Cost[d[n].key]
<1>1. PICK i \in 1 .. Len(u) : u[i] = n BY DEF In
<1>2. \A j \in 1 .. Len(u) : u[j] = n => j = i BY <1>1 DEF Once
<1>3. RemoveFirst(u, n) = RemoveAt(u, i) BY <1>1, <1>2, RemoveFirstAt
<1>4. PICK p \in Seq(Ids), q \in Seq(Ids) : Around(u, i, p, q) BY SplitAround
<1>5. n \in Ids BY <1>1
<1>o. PICK o \in Seq(Ids) : o = <<n>> BY <1>5, <<n>> \in Seq(Ids)
<1>6. u = p \o (o \o q) /\ RemoveAt(u, i) = p \o q BY <1>1, <1>4, <1>o DEF Around
<1>i. PICK w \in Seq(Ids) : w = o \o q BY o \o q \in Seq(Ids)
<1>7. \A m : In(u, m) => d[m].key \in Keys BY DEF In, Keyed
<1>8. n \in Ids /\ d[n].key \in Keys BY <1>1, <1>7 DEF In
<1>9. Keyed(p, d)
  <2>1. \A x \in 1 .. Len(p) : In(p, p[x]) BY DOMAIN p = 1 .. Len(p) DEF In
  <2> QED BY <1>4, <1>7, <2>1 DEF Keyed, Around
<1>10. Keyed(q, d)
  <2>1. \A x \in 1 .. Len(q) : In(q, q[x]) BY DOMAIN q = 1 .. Len(q) DEF In
  <2> QED BY <1>4, <1>7, <2>1 DEF Keyed, Around
<1>11. Keyed(o, d) /\ TotalCost(o, d) = Cost[d[n].key] BY <1>o, <1>8, TotalSmall
<1>12. Keyed(w, d) /\ TotalCost(w, d) = TotalCost(o, d) + TotalCost(q, d)
  BY <1>10, <1>11, <1>i, TotalConcat
<1>13. TotalCost(u, d) = TotalCost(p, d) + TotalCost(w, d)
  <2>1. u = p \o w BY <1>6, <1>i
  <2>2. TotalCost(p \o w, d) = TotalCost(p, d) + TotalCost(w, d)
    BY <1>9, <1>12, TotalConcat
  <2> QED BY <2>1, <2>2
<1>14. TotalCost(RemoveFirst(u, n), d) = TotalCost(p, d) + TotalCost(q, d)
  <2>1. TotalCost(p \o q, d) = TotalCost(p, d) + TotalCost(q, d)
    BY <1>9, <1>10, TotalConcat
  <2> QED BY <1>3, <1>6, <2>1
<1>15. TotalCost(p, d) \in Nat /\ TotalCost(q, d) \in Nat BY <1>9, <1>10, CostsAre
<1>16. Cost[d[n].key] \in Nat BY <1>8, PixmapAssumption
<1> QED BY <1>11, <1>12, <1>13, <1>14, <1>15, <1>16

\* shrinkCache() removes as many as it must, or all.
LEMMA RemovalsAre ==
  ASSUME NEW u \in Seq(Ids), NEW total, NEW remove, NEW d,
         NEW c, c = Removals(u, total, remove, d)
  PROVE  /\ c \in 0 .. Len(u)
         /\ \/ c = Len(u)
            \/ total - TotalCost(SubSeq(u, Len(u) - c + 1, Len(u)), d) <= CacheLimit
<1> DEFINE gone(m) == TotalCost(SubSeq(u, Len(u) - m + 1, Len(u)), d)
           enough(m) == m = Len(u) \/ (remove <= gone(m) /\ total - gone(m) <= CacheLimit)
           T == {m \in 0 .. Len(u) : enough(m)}
<1>1. Len(u) \in Nat OBVIOUS
<1>2. Len(u) \in T BY <1>1
<1>3. c = CHOOSE x \in 0 .. Len(u) : enough(x) /\ \A m \in 0 .. x - 1 : ~enough(m)
  BY DEF Removals
<1> HIDE DEF gone
<1>4. \E x \in 0 .. Len(u) : enough(x) /\ \A m \in 0 .. x - 1 : ~enough(m)
  <2>1. PICK x \in T : \A y \in T : x <= y
    <3>1. T \in SUBSET Nat /\ T # {} BY <1>1, <1>2
    <3> HIDE DEF T
    <3> QED BY <3>1, Least
  <2> HIDE DEF enough
  <2>2. \A m \in 0 .. x - 1 : m \notin T BY <1>1, <2>1
  <2> QED BY <1>1, <2>1, <2>2
<1>5. c \in 0 .. Len(u) /\ enough(c)
  <2> HIDE DEF enough
  <2> QED BY <1>3, <1>4
<1> QED BY <1>5 DEF gone

-----------------------------------------------------------------------------
(* Shrinking the cache.                                                    *)

LEMMA UsersCounted ==
  ASSUME NEW img, NEW n
  PROVE  /\ IsFiniteSet(UsersIn(img, n)) /\ Cardinality(UsersIn(img, n)) \in Nat
         /\ Cardinality(UsersIn(img, n)) <= Cardinality(Images)
         /\ Cardinality(UsersIn(img, n)) = 0 <=> UsersIn(img, n) = {}
<1>1. UsersIn(img, n) \in SUBSET Images BY DEF UsersIn
<1>2. /\ IsFiniteSet(UsersIn(img, n))
      /\ Cardinality(UsersIn(img, n)) <= Cardinality(Images)
  BY <1>1, PixmapAssumption, FS_Subset
<1> QED BY <1>2, FS_CardinalityType, FS_EmptySet

\* What is on the list has a key.
LEMMA ListedKeyed ==
  ASSUME NEW d, NEW u \in Seq(Ids), NEW img, DataInv(d, u, img)
  PROVE  Keyed(u, d)
<1>1. \A n \in Ids : In(u, n) => d[n].key \in Keys BY DEF DataInv, OneData
<1>2. DOMAIN u = 1 .. Len(u) /\ \A x \in 1 .. Len(u) : u[x] \in Ids OBVIOUS
<1> QED BY <1>1, <1>2 DEF Keyed, In

\* The end of the list goes, with its part of the cost and of the cache; what is loading
\* is not on the list.
LEMMA Shrinks ==
  ASSUME NEW d \in DataType, NEW u \in Seq(Ids), NEW img, NEW total, NEW remove,
         cache \in [Keys -> Ids \cup {NoId}],
         DataInv(d, u, img), CachedInv(d, cache), total = TotalCost(u, d),
         ShrinkCache(u, total, remove, d)
  PROVE  /\ data' \in DataType /\ unref' \in Seq(Ids) /\ cache' \in [Keys -> Ids \cup {NoId}]
         /\ DataInv(data', unref', img) /\ CachedInv(data', cache')
         /\ cost' = TotalCost(unref', data') /\ cost' \in Nat /\ cost' <= CacheLimit
         /\ \A n \in Ids : d[n].reply => data'[n] = d[n]
         /\ \A n \in Ids : data'[n].reply => data'[n] = d[n]
<1>1. PICK c : c = Removals(u, total, remove, d) OBVIOUS
<1>2. /\ c \in 0 .. Len(u)
      /\ \/ c = Len(u)
         \/ total - TotalCost(SubSeq(u, Len(u) - c + 1, Len(u)), d) <= CacheLimit
  BY <1>1, RemovalsAre
<1>3. PICK k \in 0 .. Len(u) : k = Len(u) - c
  <2>1. Len(u) - c \in 0 .. Len(u) BY <1>2, Len(u) \in Nat
  <2> QED BY <2>1
<1>7. Once(u) BY DEF DataInv
<1>4. PICK p \in Seq(Ids), q \in Seq(Ids) : Parts(u, k, p, q) BY SplitParts
<1>5. p = SubSeq(u, 1, k) /\ q = SubSeq(u, k + 1, Len(u)) BY <1>4 DEF Parts
<1>6. u = p \o q /\ Len(p) = k /\ Len(q) = Len(u) - k BY <1>4 DEF Parts
<1>8. /\ Once(p)
      /\ \A n : In(u, n) <=> In(p, n) \/ In(q, n)
      /\ \A n : ~(In(p, n) /\ In(q, n))
  BY <1>4, <1>7 DEF Parts
<1>9. \A n : n \in ToSet(q) <=> In(q, n) BY DEF ToSet, In
<1>10. /\ unref' = p /\ cost' = total - TotalCost(q, d)
       /\ data' = [n \in Ids |-> IF n \in ToSet(q) THEN NoData ELSE d[n]]
       /\ cache' = [x \in Keys |-> IF cache[x] \in ToSet(q) THEN NoId ELSE cache[x]]
  BY <1>1, <1>3, <1>5 DEF ShrinkCache
<1>11. \A n \in Ids : data'[n] = IF In(q, n) THEN NoData ELSE d[n] BY <1>9, <1>10
<1>12. \A x \in Keys : cache'[x] = IF In(q, cache[x]) THEN NoId ELSE cache[x] BY <1>9, <1>10
<1>13. data' \in DataType
  <2>1. NoData \in [live : BOOLEAN, key : Keys \cup {NoId}, ref : 0 .. Cardinality(Images),
                    status : Statuses, inCache : BOOLEAN, reply : BOOLEAN, orphan : BOOLEAN]
    BY PixmapAssumption, FS_CardinalityType DEF NoData, Statuses
  <2> QED BY <1>10, <2>1 DEF DataType
<1>14. cache' \in [Keys -> Ids \cup {NoId}] BY <1>10
<1>15. ASSUME NEW n \in Ids PROVE OneData(data', p, img, n)
  <2>1. OneData(d, u, img, n) BY DEF DataInv
  <2>2. CASE In(q, n)
    <3>1. data'[n] = NoData /\ d[n].ref = 0 /\ ~In(p, n) BY <1>8, <1>11, <2>1, <2>2 DEF OneData
    <3> QED BY <2>1, <3>1 DEF OneData, NoData
  <2>3. CASE ~In(q, n)
    <3>1. data'[n] = d[n] /\ (In(p, n) <=> In(u, n)) BY <1>8, <1>11, <2>3
    <3> QED BY <2>1, <3>1 DEF OneData
  <2> QED BY <2>2, <2>3
<1>16. DataInv(data', unref', img) BY <1>8, <1>10, <1>15 DEF DataInv
<1>17. CachedInv(data', cache')
  <2>1. ASSUME NEW n \in Ids, data'[n].inCache PROVE cache'[data'[n].key] = n
    <3>1. ~In(q, n) /\ data'[n] = d[n] BY <1>11, <2>1 DEF NoData
    <3>2. d[n].key \in Keys /\ cache[d[n].key] = n
      BY <2>1, <3>1 DEF CachedInv, DataInv, OneData, NoData
    <3> QED BY <1>12, <3>1, <3>2
  <2>2. ASSUME NEW x \in Keys, cache'[x] # NoId
        PROVE  /\ data'[cache'[x]].live /\ data'[cache'[x]].inCache
               /\ data'[cache'[x]].key = x /\ data'[cache'[x]].status # "error"
    <3>1. cache'[x] = cache[x] /\ ~In(q, cache[x]) /\ cache[x] \in Ids
      BY <1>12, <2>2
    <3>2. data'[cache[x]] = d[cache[x]] BY <1>11, <3>1
    <3> QED BY <2>2, <3>1, <3>2 DEF CachedInv
  <2> QED BY <2>1, <2>2 DEF CachedInv
<1>18. cost' = TotalCost(unref', data') /\ cost' \in Nat /\ cost' <= CacheLimit
  <2>1. Keyed(u, d) BY ListedKeyed
  <2>2. \A n : In(u, n) => d[n].key \in Keys BY <2>1 DEF Keyed, In
  <2>3. Keyed(p, d)
    <3>1. \A x \in 1 .. Len(p) : In(p, p[x]) BY <1>6, DOMAIN p = 1 .. Len(p) DEF In
    <3> QED BY <1>8, <2>2, <3>1 DEF Keyed
  <2>4. Keyed(q, d)
    <3>1. \A x \in 1 .. Len(q) : In(q, q[x]) BY <1>6, DOMAIN q = 1 .. Len(q) DEF In
    <3> QED BY <1>8, <2>2, <3>1 DEF Keyed
  <2>5. TotalCost(p \o q, d) = TotalCost(p, d) + TotalCost(q, d)
    BY <1>6, <2>3, <2>4, TotalConcat
  <2>6. TotalCost(p, d) \in Nat /\ TotalCost(q, d) \in Nat BY <1>6, <2>3, <2>4, CostsAre
  <2>7. cost' = TotalCost(p, d)
    <3>1. total = TotalCost(p, d) + TotalCost(q, d) BY <1>6, <2>5
    <3> QED BY <1>10, <2>6, <3>1
  <2>8. TotalCost(p, data') = TotalCost(p, d)
    <3>1. \A n \in Ids : In(p, n) => data'[n].key = d[n].key BY <1>8, <1>11
    <3> QED BY <1>6, <3>1, TotalSame
  <2>9. cost' <= CacheLimit
    <3>1. CASE c = Len(u)
      <4>1. p = <<>> BY <1>2, <1>3, <1>6, <3>1
      <4>2. TotalCost(<<>>, d) = 0
        <5>1. Costs(<<>>, d) = <<>> /\ Keyed(<<>>, d) /\ <<>> \in Seq(Ids) BY DEF Costs, Keyed
        <5> QED BY <5>1, CostsAre, SumSmall
      <4> QED BY <2>7, <4>1, <4>2, PixmapAssumption
    <3>2. CASE total - TotalCost(SubSeq(u, Len(u) - c + 1, Len(u)), d) <= CacheLimit
      BY <1>3, <1>5, <1>10, <3>2
    <3> QED BY <1>2, <3>1, <3>2
  <2> QED BY <1>10, <2>6, <2>7, <2>8, <2>9
<1>19. \A n \in Ids : d[n].reply => data'[n] = d[n]
  <2>1. \A n \in Ids : In(u, n) => ~d[n].reply BY DEF DataInv, OneData
  <2> QED BY <1>8, <1>11, <2>1
<1>20. \A n \in Ids : data'[n].reply => data'[n] = d[n] BY <1>11 DEF NoData
<1>21. unref' \in Seq(Ids) BY <1>6, <1>10
<1> QED BY <1>13, <1>14, <1>16, <1>17, <1>18, <1>19, <1>20, <1>21

-----------------------------------------------------------------------------
(* Who uses a pixmap.                                                      *)

\* The image i, that had no pixmap in a, has n in b.
Joined(a, b, i, n) ==
  /\ a[i].pix = NoId /\ b[i].pix = n
  /\ \A j \in Images : j # i => a[j].pix = b[j].pix
LEMMA OneMoreUser ==
  ASSUME NEW a, NEW b, NEW i \in Images, NEW n \in Ids, Joined(a, b, i, n)
  PROVE  /\ Cardinality(UsersIn(b, n)) = Cardinality(UsersIn(a, n)) + 1
         /\ \A m \in Ids : m # n => UsersIn(b, m) = UsersIn(a, m)
<1>1. NoId # n BY PixmapAssumption
<1>2. UsersIn(b, n) = UsersIn(a, n) \cup {i} /\ i \notin UsersIn(a, n)
  BY <1>1 DEF UsersIn, Joined
<1>3. IsFiniteSet(UsersIn(a, n)) BY UsersCounted
<1>4. Cardinality(UsersIn(b, n)) = Cardinality(UsersIn(a, n)) + 1
  BY <1>2, <1>3, FS_AddElement
<1>5. \A m \in Ids : m # NoId BY PixmapAssumption
<1>6. \A m \in Ids : m # n => UsersIn(b, m) = UsersIn(a, m) BY <1>5 DEF UsersIn, Joined
<1> QED BY <1>4, <1>6

\* release(): an image less uses n, and what nobody uses is on the list, or gone.
LEMMA ReleaseStore ==
  ASSUME TypeOK, StoreInv, NEW i \in Images, NEW n \in Ids, NEW img,
         Joined(img, image, i, n), NEW r, Release(n, r)
  PROVE  /\ data' \in DataType /\ unref' \in Seq(Ids) /\ cache' \in [Keys -> Ids \cup {NoId}]
         /\ timer' \in BOOLEAN /\ cost' \in Nat
         /\ DataInv(data', unref', img) /\ CachedInv(data', cache')
         /\ cost' = TotalCost(unref', data') /\ cost' <= CacheLimit
         /\ unref' # <<>> => timer'
         /\ \A m \in Ids :
              data'[m].reply <=> data[m].reply /\ ~(m = n /\ data[n].ref = 1)
<1> DEFINE last == data[n].ref = 1
           kept == data[n].status = "ready" /\ data[n].inCache
           released == [data EXCEPT ![n].ref = @ - 1, ![n].reply = @ /\ ~last]
<1>1. /\ data \in DataType /\ unref \in Seq(Ids) /\ cache \in [Keys -> Ids \cup {NoId}]
      /\ timer \in BOOLEAN /\ cost \in Nat
      /\ DataInv(data, unref, image) /\ CachedInv(data, cache)
      /\ cost = TotalCost(unref, data) /\ cost <= CacheLimit /\ (unref # <<>> => timer)
  BY DEF TypeOK, StoreInv, DataType
<1>2. /\ Cardinality(UsersIn(image, n)) = Cardinality(UsersIn(img, n)) + 1
      /\ \A m \in Ids : m # n => UsersIn(image, m) = UsersIn(img, m)
      /\ Cardinality(UsersIn(img, n)) \in Nat
  BY OneMoreUser, UsersCounted
<1>3. Once(unref) /\ \A m \in Ids : OneData(data, unref, image, m) BY <1>1 DEF DataInv
<1>4. /\ data[n].ref \in Nat \ {0} /\ data[n].live /\ data[n].key \in Keys /\ ~In(unref, n)
      /\ data[n].ref = Cardinality(UsersIn(img, n)) + 1
  BY <1>2, <1>3 DEF OneData, NoData
<1> DEFINE e == [data[n] EXCEPT !.ref = @ - 1, !.reply = @ /\ ~last]
           D == [live : BOOLEAN, key : Keys \cup {NoId}, ref : 0 .. Cardinality(Images),
                 status : Statuses, inCache : BOOLEAN, reply : BOOLEAN, orphan : BOOLEAN]
<1>d. data \in [Ids -> D] BY <1>1 DEF DataType
<1>e. /\ e \in D
      /\ e.ref = data[n].ref - 1 /\ (e.reply <=> data[n].reply /\ ~last)
      /\ e.live = data[n].live /\ e.key = data[n].key
      /\ e.status = data[n].status /\ e.inCache = data[n].inCache
  <2>1. data[n] \in D BY <1>d
  <2>2. data[n].ref - 1 \in 0 .. Cardinality(Images)
    BY <1>4, <2>1, PixmapAssumption, FS_CardinalityType
  <2> QED BY <2>1, <2>2
<1> HIDE DEF D
<1>r. released = [data EXCEPT ![n] = e] BY <1>d
<1> HIDE DEF e, released
<1>5. released \in DataType
  <2>1. released \in [Ids -> D] BY <1>d, <1>e, <1>r
  <2> QED BY <2>1 DEF DataType, D
<1>6. /\ \A m \in Ids : m # n => released[m] = data[m]
      /\ released[n].ref = data[n].ref - 1 /\ (released[n].reply <=> data[n].reply /\ ~last)
      /\ released[n].live = data[n].live /\ released[n].key = data[n].key
      /\ released[n].status = data[n].status /\ released[n].inCache = data[n].inCache
  BY <1>d, <1>e, <1>r
<1>7. \/ ~last /\ data' = released /\ UNCHANGED storeVars
      \/ last /\ kept /\ UnreferencePixmap(n, released)
      \/ /\ last /\ ~kept
         /\ data' = [data EXCEPT ![n] = NoData] /\ cache' = Uncached(n)
         /\ UNCHANGED <<unref, cost, timer>>
  BY DEF Release, released, e
<1>8. CachedInv(released, cache) BY <1>1, <1>6 DEF CachedInv
<1>9. ASSUME NEW m \in Ids, m # n, NEW u, In(u, m) <=> In(unref, m)
      PROVE  OneData(released, u, img, m)
  BY <1>2, <1>3, <1>6, <1>9 DEF OneData
<1>10. TotalCost(unref, released) = TotalCost(unref, data)
  <2>1. \A m \in Ids : In(unref, m) => released[m].key = data[m].key BY <1>6
  <2> QED BY <1>1, <2>1, TotalSame
<1>11. CASE ~last /\ data' = released /\ UNCHANGED storeVars
  <2>1. OneData(released, unref, img, n) BY <1>2, <1>3, <1>4, <1>6, <1>11 DEF OneData
  <2>2. DataInv(released, unref, img) BY <1>3, <1>9, <2>1 DEF DataInv
  <2>3. /\ unref' = unref /\ cache' = cache /\ cost' = cost /\ timer' = timer
        /\ data' = released
    BY <1>11 DEF storeVars
  <2> QED BY <1>1, <1>5, <1>6, <1>8, <1>10, <1>11, <2>2, <2>3
<1>12. CASE last /\ kept /\ UnreferencePixmap(n, released)
  <2>1. PICK o \in Seq(Ids) : o = <<n>> BY <<n>> \in Seq(Ids)
  <2>2. PICK u : u = <<n>> \o unref OBVIOUS
  <2>3. /\ u \in Seq(Ids) /\ Once(u) /\ \A m : In(u, m) <=> In(unref, m) \/ m = n
    BY <1>1, <1>3, <1>4, <2>2, Fronted
  <2>4. OneData(released, u, img, n) BY <1>2, <1>3, <1>4, <1>6, <1>12, <2>3 DEF OneData
  <2>5. \A m \in Ids : m # n => OneData(released, u, img, m) BY <1>9, <2>3
  <2>6. DataInv(released, u, img) BY <2>3, <2>4, <2>5 DEF DataInv
  <2>7. Keyed(unref, released) /\ Keyed(o, released)
        /\ TotalCost(o, released) = Cost[data[n].key]
    <3>1. \A m \in Ids : In(unref, m) => released[m].key \in Keys
      BY <2>3, <2>6 DEF DataInv, OneData
    <3>2. \A x \in 1 .. Len(unref) : unref[x] \in Ids /\ In(unref, unref[x])
      BY <1>1, DOMAIN unref = 1 .. Len(unref) DEF In
    <3>3. Keyed(unref, released) BY <3>1, <3>2 DEF Keyed
    <3>4. released[n].key \in Keys BY <1>4, <1>6
    <3> QED BY <1>6, <2>1, <3>3, <3>4, TotalSmall
  <2>8. TotalCost(u, released) = cost + Cost[data[n].key]
    <3>1. TotalCost(o \o unref, released) = TotalCost(o, released) + TotalCost(unref, released)
      BY <1>1, <2>7, TotalConcat
    <3>2. Cost[data[n].key] \in Nat BY <1>4, PixmapAssumption
    <3> QED BY <1>1, <1>10, <2>1, <2>2, <2>7, <3>1, <3>2
  <2>9. PICK t : t = cost + Cost[data[n].key] OBVIOUS
  <2>10. ShrinkCache(u, t, -1, released) /\ timer' = (timer \/ unref' # <<>>)
    BY <1>6, <1>12, <2>2, <2>9 DEF UnreferencePixmap
  <2>11. t = TotalCost(u, released) BY <2>8, <2>9
  <2>12. /\ data' \in DataType /\ unref' \in Seq(Ids) /\ cache' \in [Keys -> Ids \cup {NoId}]
         /\ DataInv(data', unref', img) /\ CachedInv(data', cache')
         /\ cost' = TotalCost(unref', data') /\ cost' \in Nat /\ cost' <= CacheLimit
         /\ \A m \in Ids : released[m].reply => data'[m] = released[m]
         /\ \A m \in Ids : data'[m].reply => data'[m] = released[m]
    BY <1>1, <1>5, <1>8, <2>3, <2>6, <2>10, <2>11, Shrinks
  <2>13. ASSUME NEW m \in Ids
         PROVE data'[m].reply <=> data[m].reply /\ ~(m = n /\ data[n].ref = 1)
    <3>1. data'[m].reply <=> released[m].reply BY <2>12
    <3> QED BY <1>6, <3>1
  <2>14. timer' \in BOOLEAN /\ (unref' # <<>> => timer') BY <1>1, <2>10
  <2> QED BY <2>12, <2>13, <2>14
<1>13. CASE /\ last /\ ~kept
            /\ data' = [data EXCEPT ![n] = NoData] /\ cache' = Uncached(n)
            /\ UNCHANGED <<unref, cost, timer>>
  <2>1. data' \in DataType
    <3>1. NoData \in [live : BOOLEAN, key : Keys \cup {NoId}, ref : 0 .. Cardinality(Images),
                      status : Statuses, inCache : BOOLEAN, reply : BOOLEAN, orphan : BOOLEAN]
      BY PixmapAssumption, FS_CardinalityType DEF NoData, Statuses
    <3> QED BY <1>1, <1>13, <3>1 DEF DataType
  <2>2. data'[n] = NoData /\ \A m \in Ids : m # n => data'[m] = data[m]
    BY <1>1, <1>13 DEF DataType
  <2>3. ASSUME NEW m \in Ids, m # n PROVE OneData(data', unref, img, m)
    BY <1>2, <1>3, <2>2, <2>3 DEF OneData
  <2>4. OneData(data', unref, img, n) BY <1>2, <1>3, <1>4, <1>13, <2>2 DEF OneData, NoData
  <2>5. DataInv(data', unref', img) BY <1>3, <1>13, <2>3, <2>4 DEF DataInv
  <2>6. \A k \in Keys : cache'[k] = IF data[n].inCache /\ k = data[n].key THEN NoId ELSE cache[k]
    BY <1>1, <1>4, <1>13 DEF Uncached
  <2>7. cache' \in [Keys -> Ids \cup {NoId}] BY <1>1, <1>13 DEF Uncached
  <2>8. CachedInv(data', cache')
    <3>1. ASSUME NEW m \in Ids, data'[m].inCache PROVE cache'[data'[m].key] = m
      <4>1. m # n /\ data'[m] = data[m] BY <2>2, <3>1 DEF NoData
      <4>2. data[m].key \in Keys /\ cache[data[m].key] = m
        BY <1>1, <1>3, <3>1, <4>1 DEF CachedInv, OneData, NoData
      <4>3. data[n].inCache => cache[data[n].key] = n BY <1>1 DEF CachedInv
      <4> QED BY <2>6, <4>1, <4>2, <4>3
    <3>2. ASSUME NEW k \in Keys, cache'[k] # NoId
          PROVE  /\ data'[cache'[k]].live /\ data'[cache'[k]].inCache
                 /\ data'[cache'[k]].key = k /\ data'[cache'[k]].status # "error"
      <4>1. cache'[k] = cache[k] /\ cache[k] \in Ids /\ ~(data[n].inCache /\ k = data[n].key)
        BY <1>1, <2>6, <3>2
      <4>2. /\ data[cache[k]].live /\ data[cache[k]].inCache
            /\ data[cache[k]].key = k /\ data[cache[k]].status # "error"
        BY <1>1, <3>2, <4>1 DEF CachedInv
      <4>3. data'[cache[k]] = data[cache[k]] BY <2>2, <4>1, <4>2
      <4> QED BY <4>1, <4>2, <4>3
    <3> QED BY <3>1, <3>2 DEF CachedInv
  <2>9. TotalCost(unref, data') = TotalCost(unref, data)
    <3>1. \A m \in Ids : In(unref, m) => data'[m].key = data[m].key BY <1>4, <2>2
    <3> QED BY <1>1, <3>1, TotalSame
  <2>10. \A m \in Ids : data'[m].reply <=> data[m].reply /\ ~(m = n /\ data[n].ref = 1)
    BY <1>1, <1>13, <2>2 DEF NoData, DataType
  <2> QED BY <1>1, <1>13, <2>1, <2>5, <2>7, <2>8, <2>9, <2>10
<1> QED BY <1>7, <1>11, <1>12, <1>13

-----------------------------------------------------------------------------
(* Replies.                                                                *)

ReplyRecord ==
  [live : BOOLEAN, key : Keys \cup {NoId}, data : BOOLEAN, loading : BOOLEAN,
   event : {"none", "ready", "error"}, deleteLater : BOOLEAN, connected : SUBSET Images]

\* Replies that differ only in who listens.
Alike(a, b) ==
  /\ a.live = b.live /\ a.key = b.key /\ a.data = b.data /\ a.loading = b.loading
  /\ a.event = b.event /\ a.deleteLater = b.deleteLater

LEMMA NoReplyType == NoReply \in ReplyRecord
BY DEF NoReply, ReplyRecord

LEMMA ReplyTypes ==
  ASSUME TypeOK
  PROVE  /\ reply \in [Ids -> ReplyRecord] /\ jobs \in Seq(Ids) /\ cancelled \subseteq Ids
         /\ posted \in BOOLEAN /\ underWay \subseteq Ids /\ current \in Ids \cup {NoId}
         /\ data \in DataType
BY DEF TypeOK, ReplyRecord, DataType

\* A pixmap that waits for its reply is there.
LEMMA AwaitedLives ==
  ASSUME NEW d, NEW u, NEW img, DataInv(d, u, img), NEW m \in Ids, d[m].reply
  PROVE  d[m].live
BY DEF DataInv, OneData, NoData

\* A pixmap that still has its pointer to a reply is an orphan if it was one.
LEMMA OrphansStay ==
  ASSUME TypeOK, NEW n \in Ids, NEW r, Release(n, r), NEW m \in Ids, data'[m].reply
  PROVE  data'[m].orphan = data[m].orphan
<1> DEFINE released == [data EXCEPT ![n].ref = @ - 1,
                                    ![n].reply = @ /\ ~(data[n].ref = 1)]
<1>1. data \in DataType BY DEF TypeOK, DataType
<1>2. released[m].orphan = data[m].orphan BY <1>1 DEF DataType
<1>3. \/ data' = released
      \/ UnreferencePixmap(n, released)
      \/ data' = [data EXCEPT ![n] = NoData]
  BY DEF Release
<1> HIDE DEF released
<1>4. CASE data' = released BY <1>2, <1>4
<1>5. CASE UnreferencePixmap(n, released)
  <2>1. data'[m] = NoData \/ data'[m] = released[m]
    BY <1>5 DEF UnreferencePixmap, ShrinkCache
  <2> QED BY <1>2, <2>1 DEF NoData
<1>6. CASE data' = [data EXCEPT ![n] = NoData]
  <2>1. data'[m] = NoData \/ data'[m] = data[m] BY <1>1, <1>6 DEF DataType
  <2> QED BY <2>1 DEF NoData
<1> QED BY <1>3, <1>4, <1>5, <1>6

\* release(): the last user of a pixmap cancels its reply, and no other reply changes.
LEMMA ReleaseReply ==
  ASSUME TypeOK, StoreInv, ReplyInv, NEW i \in Images, NEW n \in Ids, NEW img,
         Joined(img, image, i, n),
         NEW r \in [Ids -> ReplyRecord], \A m \in Ids : Alike(r[m], reply[m]),
         Release(n, r),
         reader # "dying" \/ ~data[n].reply,
         frame'.reply = frame.reply, frame'.reply = NoId => frame' = NoFrame,
         UNCHANGED <<threadVars, reader>>
  PROVE  /\ reply' \in [Ids -> ReplyRecord] /\ jobs' \in Seq(Ids) /\ cancelled' \subseteq Ids
         /\ posted' \in BOOLEAN
         /\ ReplyInv'
<1> DEFINE last == data[n].ref = 1
<1>1. /\ reply \in [Ids -> ReplyRecord] /\ jobs \in Seq(Ids) /\ cancelled \subseteq Ids
      /\ posted \in BOOLEAN
  BY ReplyTypes
<1>2. /\ underWay' = underWay /\ pc' = pc /\ current' = current /\ reader' = reader
  BY DEF threadVars
<1>3. /\ \A m \in Ids : PairInv(m)
      /\ \A m \in Ids : OneReply(m)
      /\ Once(jobs) /\ current \notin underWay
      /\ (reader # "there" => jobs = <<>>)
  BY DEF ReplyInv
<1>4. \A m \in Ids : data'[m].reply <=> data[m].reply /\ ~(m = n /\ last) BY ReleaseStore
<1>o. \A m \in Ids : data'[m].reply => data'[m].orphan = data[m].orphan BY OrphansStay
<1>5. \A m \in Ids : data'[m].reply => data'[m].live
  <2>1. DataInv(data', unref', img) BY ReleaseStore
  <2> QED BY <2>1, AwaitedLives
<1>6. \/ /\ last /\ data[n].reply /\ reader = "there" /\ reply[n].loading
         /\ cancelled' = cancelled \cup {n} /\ reply' = [r EXCEPT ![n].data = FALSE]
         /\ PostProcessJobs /\ UNCHANGED jobs
      \/ /\ last /\ data[n].reply /\ reader = "there" /\ ~reply[n].loading
         /\ jobs' = RemoveFirst(jobs, n) /\ reply' = [r EXCEPT ![n] = NoReply]
         /\ UNCHANGED <<cancelled, posted>>
      \/ /\ last /\ data[n].reply /\ reader # "there"
         /\ reply' = [r EXCEPT ![n].data = FALSE]
         /\ UNCHANGED <<jobs, cancelled, posted>>
      \/ /\ ~(last /\ data[n].reply)
         /\ reply' = r /\ UNCHANGED <<jobs, cancelled, posted>>
  BY DEF Release, Cancel, Alike
<1>r. /\ [r EXCEPT ![n].data = FALSE] \in [Ids -> ReplyRecord]
      /\ [r EXCEPT ![n] = NoReply] \in [Ids -> ReplyRecord]
  <2>1. r[n] \in ReplyRecord OBVIOUS
  <2>2. [r[n] EXCEPT !.data = FALSE] \in ReplyRecord BY <2>1 DEF ReplyRecord
  <2> QED BY <2>2, NoReplyType
<1>7. ReplyInv'
  <2>0. SUFFICES /\ \A m \in Ids : PairInv(m)'
                 /\ \A m \in Ids : OneReply(m)'
                 /\ Once(jobs)'
                 /\ reader' # "there" => jobs' = <<>>
    <3>1. /\ current' \notin underWay'
          /\ current' = NoId <=> pc' \notin {"process", "answer"}
          /\ frame'.reply = NoId => frame' = NoFrame
      BY <1>2 DEF ReplyInv
    <3> QED BY <3>1 DEF ReplyInv
  <2>1. CASE /\ last /\ data[n].reply /\ reader = "there" /\ reply[n].loading
             /\ cancelled' = cancelled \cup {n} /\ reply' = [r EXCEPT ![n].data = FALSE]
             /\ PostProcessJobs /\ UNCHANGED jobs
    <3>1. /\ \A m \in Ids \ {n} : Alike(reply'[m], reply[m])
          /\ reply'[n].live = reply[n].live /\ ~reply'[n].data
          /\ reply'[n].loading = reply[n].loading /\ reply'[n].event = reply[n].event
          /\ reply'[n].deleteLater = reply[n].deleteLater
      <4>1. r[n] \in ReplyRecord /\ Alike(r[n], reply[n]) OBVIOUS
      <4>2. reply'[n] = [r[n] EXCEPT !.data = FALSE] BY <2>1
      <4> QED BY <2>1, <4>1, <4>2 DEF Alike, ReplyRecord
    <3>2. \A m \in Ids : PairInv(m)'
      BY <1>2, <1>3, <1>4, <1>5, <1>o, <2>1, <3>1 DEF PairInv, Alike
    <3>3. \A m \in Ids \ {n} : OneReply(m)'
      BY <1>2, <1>3, <1>4, <2>1, <3>1 DEF OneReply, Alike
    <3>4. OneReply(n)'
      BY <1>2, <1>3, <1>4, <2>1, <3>1 DEF OneReply, PairInv
    <3> QED BY <1>2, <1>3, <2>1, <3>2, <3>3, <3>4
  <2>2. CASE /\ last /\ data[n].reply /\ reader = "there" /\ ~reply[n].loading
             /\ jobs' = RemoveFirst(jobs, n) /\ reply' = [r EXCEPT ![n] = NoReply]
             /\ UNCHANGED <<cancelled, posted>>
    <3>1. /\ \A m \in Ids \ {n} : Alike(reply'[m], reply[m])
          /\ reply'[n] = NoReply
      BY <2>2
    <3>j. /\ Once(jobs') /\ \A m : In(jobs', m) <=> In(jobs, m) /\ m # n
      BY <1>1, <1>3, <2>2, Removed
    <3>2. \A m \in Ids : PairInv(m)'
      BY <1>2, <1>3, <1>4, <1>5, <1>o, <2>2, <3>1 DEF PairInv, Alike, NoReply
    <3>3. \A m \in Ids \ {n} : OneReply(m)'
      BY <1>2, <1>3, <1>4, <2>2, <3>1, <3>j DEF OneReply, Alike
    <3>4. OneReply(n)'
      BY <1>2, <1>3, <1>4, <2>2, <3>1, <3>j DEF OneReply, PairInv, NoReply
    <3> QED BY <1>2, <2>2, <3>2, <3>3, <3>4, <3>j
  <2>3. CASE /\ last /\ data[n].reply /\ reader # "there"
             /\ reply' = [r EXCEPT ![n].data = FALSE]
             /\ UNCHANGED <<jobs, cancelled, posted>>
    <3>1. /\ \A m \in Ids \ {n} : Alike(reply'[m], reply[m])
          /\ reply'[n].live = reply[n].live /\ ~reply'[n].data
          /\ reply'[n].loading = reply[n].loading /\ reply'[n].event = reply[n].event
          /\ reply'[n].deleteLater = reply[n].deleteLater
      <4>1. r[n] \in ReplyRecord /\ Alike(r[n], reply[n]) OBVIOUS
      <4>2. reply'[n] = [r[n] EXCEPT !.data = FALSE] BY <2>3
      <4> QED BY <2>3, <4>1, <4>2 DEF Alike, ReplyRecord
    <3>2. \A m \in Ids : PairInv(m)'
      BY <1>2, <1>3, <1>4, <1>5, <1>o, <2>3, <3>1 DEF PairInv, Alike
    <3>j. \A m : ~In(jobs, m) BY <1>3, <2>3 DEF In
    <3>3. \A m \in Ids \ {n} : OneReply(m)'
      BY <1>2, <1>3, <1>4, <2>3, <3>1 DEF OneReply, Alike
    <3>4. OneReply(n)'
      BY <1>2, <1>3, <1>4, <2>3, <3>1, <3>j DEF OneReply
    <3> QED BY <1>2, <1>3, <2>3, <3>2, <3>3, <3>4
  <2>4. CASE /\ ~(last /\ data[n].reply)
             /\ reply' = r /\ UNCHANGED <<jobs, cancelled, posted>>
    <3>1. \A m \in Ids : Alike(reply'[m], reply[m]) BY <2>4
    <3>0. \A m \in Ids : data'[m].reply <=> data[m].reply BY <1>4, <2>4
    <3>2. \A m \in Ids : PairInv(m)'
      BY <1>2, <1>3, <1>5, <1>o, <2>4, <3>0, <3>1 DEF PairInv, Alike
    <3>3. \A m \in Ids : OneReply(m)'
      BY <1>2, <1>3, <2>4, <3>0, <3>1 DEF OneReply, Alike
    <3> QED BY <1>2, <1>3, <2>4, <3>2, <3>3
  <2> QED BY <1>6, <2>1, <2>2, <2>3, <2>4
<1>8. reply' \in [Ids -> ReplyRecord] BY <1>6, <1>r
<1>9. jobs' \in Seq(Ids) BY <1>1, <1>3, <1>6, Removed
<1>10. cancelled' \subseteq Ids /\ posted' \in BOOLEAN BY <1>1, <1>6 DEF PostProcessJobs
<1> QED BY <1>7, <1>8, <1>9, <1>10

\* TypeOK, one group of variables after the other.
StoreType ==
  /\ data \in DataType /\ unref \in Seq(Ids) /\ cache \in [Keys -> Ids \cup {NoId}]
  /\ timer \in BOOLEAN /\ cost \in Nat
ReplyType ==
  /\ reply \in [Ids -> ReplyRecord] /\ jobs \in Seq(Ids) /\ cancelled \subseteq Ids
  /\ posted \in BOOLEAN
GuiType ==
  /\ image \in [Images -> [pix : Ids \cup {NoId}, status : Statuses]]
  /\ loading \in {Nobody} \cup [image : Images, key : Keys, async : BOOLEAN, cache : BOOLEAN]
  /\ frame \in [reply : Ids \cup {NoId}, left : SUBSET Images, handling : BOOLEAN]
  /\ loads \in 0 .. MaxLoads
ThreadType ==
  /\ underWay \subseteq Ids /\ current \in Ids \cup {NoId}
  /\ pc \in {"start", "idle", "jobs", "process", "answer", "done"}
  /\ reader \in {"none", "there", "dying", "gone"}

LEMMA TypeGroups == TypeOK <=> StoreType /\ ReplyType /\ GuiType /\ ThreadType
BY DEF TypeOK, StoreType, ReplyType, GuiType, ThreadType, DataType, ReplyRecord

LEMMA TypeGroupsNext ==
  TypeOK' <=> StoreType' /\ ReplyType' /\ GuiType' /\ ThreadType'
BY DEF TypeOK, StoreType, ReplyType, GuiType, ThreadType, DataType, ReplyRecord

\* clear() of an image that has a pixmap, or has none: the same of every caller.
LEMMA ClearKeeps ==
  ASSUME IInv, NEW i \in Images,
         image'[i].pix = NoId, \A j \in Images : j # i => image'[j].pix = image[j].pix,
         GuiType',
         NEW r \in [Ids -> ReplyRecord], \A m \in Ids : Alike(r[m], reply[m]),
         Clear(i, r),
         image[i].pix = NoId \/ reader # "dying" \/ ~data[image[i].pix].reply,
         loading' # Nobody => image'[loading'.image].pix = NoId,
         frame'.reply = frame.reply, frame'.reply = NoId => frame' = NoFrame,
         UNCHANGED <<threadVars, reader>>
  PROVE  IInv'
<1>1. /\ TypeOK /\ StoreInv /\ ReplyInv
      /\ StoreType /\ ReplyType /\ GuiType /\ ThreadType
  BY TypeGroups DEF IInv
<1>2. ThreadType' BY <1>1 DEF ThreadType, threadVars
<1>3. SUFFICES StoreType' /\ ReplyType' /\ StoreInv' /\ ReplyInv'
  BY <1>2, TypeGroupsNext DEF IInv
<1>4. CASE image[i].pix # NoId
  <2>1. PICK n \in Ids : n = image[i].pix BY <1>1, <1>4 DEF GuiType
  <2>2. PICK img : img = image' OBVIOUS
  <2>3. Joined(img, image, i, n) BY <2>1, <2>2 DEF Joined
  <2>4. Release(n, r) BY <1>4, <2>1 DEF Clear
  <2>5. /\ data' \in DataType /\ unref' \in Seq(Ids) /\ cache' \in [Keys -> Ids \cup {NoId}]
        /\ timer' \in BOOLEAN /\ cost' \in Nat
        /\ DataInv(data', unref', img) /\ CachedInv(data', cache')
        /\ cost' = TotalCost(unref', data') /\ cost' <= CacheLimit
        /\ unref' # <<>> => timer'
    BY <1>1, <2>3, <2>4, ReleaseStore
  <2>6. /\ reply' \in [Ids -> ReplyRecord] /\ jobs' \in Seq(Ids) /\ cancelled' \subseteq Ids
        /\ posted' \in BOOLEAN
        /\ ReplyInv'
    BY <1>1, <1>4, <2>1, <2>3, <2>4, ReleaseReply
  <2>7. StoreInv' BY <2>2, <2>5 DEF StoreInv
  <2>8. StoreType' /\ ReplyType' BY <2>5, <2>6 DEF StoreType, ReplyType
  <2> QED BY <2>6, <2>7, <2>8
<1>5. CASE image[i].pix = NoId
  <2>1. reply' = r /\ UNCHANGED <<data, storeVars, jobs, cancelled, posted>>
    BY <1>5 DEF Clear
  <2>2. /\ data' = data /\ cache' = cache /\ unref' = unref /\ cost' = cost /\ timer' = timer
        /\ jobs' = jobs /\ cancelled' = cancelled /\ posted' = posted
        /\ underWay' = underWay /\ pc' = pc /\ current' = current /\ reader' = reader
    BY <2>1 DEF storeVars, threadVars
  <2>3. StoreType' /\ ReplyType' BY <1>1, <2>1, <2>2 DEF StoreType, ReplyType
  <2>4. DataInv(data, unref, image')
    <3>1. \A m \in Ids : UsersIn(image', m) = UsersIn(image, m) BY <1>5 DEF UsersIn
    <3>2. DataInv(data, unref, image) BY <1>1 DEF StoreInv
    <3> QED BY <3>1, <3>2 DEF DataInv, OneData
  <2>5. StoreInv' BY <1>1, <2>2, <2>4 DEF StoreInv
  <2>6. \A m \in Ids : Alike(reply'[m], reply[m]) BY <2>1
  <2>7. \A m \in Ids : PairInv(m)'
    <3>1. \A m \in Ids : PairInv(m) BY <1>1 DEF ReplyInv
    <3> QED BY <2>2, <2>6, <3>1 DEF PairInv, Alike
  <2>8. \A m \in Ids : OneReply(m)'
    <3>1. \A m \in Ids : OneReply(m) BY <1>1 DEF ReplyInv
    <3> QED BY <2>2, <2>6, <3>1 DEF OneReply, Alike
  <2>9. ReplyInv' BY <1>1, <2>2, <2>7, <2>8 DEF ReplyInv
  <2> QED BY <2>3, <2>5, <2>9
<1> QED BY <1>4, <1>5

-----------------------------------------------------------------------------
(* The steps that clear a pixmap.                                          *)

LEMMA Disconnects ==
  ASSUME TypeOK, NEW i \in Images
  PROVE  /\ Disconnected(i) \in [Ids -> ReplyRecord]
         /\ \A m \in Ids : Alike(Disconnected(i)[m], reply[m])
         /\ [n \in Ids |-> [reply[n] EXCEPT !.connected = @ \ {i}]] \in [Ids -> ReplyRecord]
         /\ \A m \in Ids :
              Alike([n \in Ids |-> [reply[n] EXCEPT !.connected = @ \ {i}]][m], reply[m])
<1>1. ASSUME NEW m \in Ids
      PROVE  /\ reply[m] \in ReplyRecord
             /\ [reply[m] EXCEPT !.connected = @ \ {i}] \in ReplyRecord
             /\ Alike([reply[m] EXCEPT !.connected = @ \ {i}], reply[m])
             /\ Alike(reply[m], reply[m])
  <2>1. reply[m] \in ReplyRecord BY ReplyTypes
  <2> QED BY <2>1 DEF ReplyRecord, Alike
<1> QED BY <1>1 DEF Disconnected

LEMMA SetSourceKeeps ==
  ASSUME IInv, NEW i \in Images, NEW k \in Keys, NEW async \in BOOLEAN, NEW cached \in BOOLEAN,
         SetSource(i, k, async, cached)
  PROVE  IInv'
<1>1. TypeOK /\ ReplyInv /\ GuiType /\ loads \in Nat BY TypeGroups, PixmapAssumption DEF IInv, GuiType
<1>2. /\ reader # "dying" /\ loads < MaxLoads
      /\ loading' = [image |-> i, key |-> k, async |-> async, cache |-> cached]
      /\ loads' = loads + 1 /\ Clear(i, Disconnected(i))
      /\ image' = [image EXCEPT ![i].pix = NoId] /\ frame' = frame
      /\ UNCHANGED <<threadVars, reader>>
  BY DEF SetSource, Free
<1>3. /\ image'[i].pix = NoId /\ \A j \in Images : j # i => image'[j].pix = image[j].pix
      /\ image' \in [Images -> [pix : Ids \cup {NoId}, status : Statuses]]
  BY <1>1, <1>2 DEF GuiType
<1>4. GuiType'
  <2>1. loads' \in 0 .. MaxLoads BY <1>1, <1>2, PixmapAssumption
  <2>2. loading' \in [image : Images, key : Keys, async : BOOLEAN, cache : BOOLEAN] BY <1>2
  <2>3. frame' \in [reply : Ids \cup {NoId}, left : SUBSET Images, handling : BOOLEAN]
    BY <1>1, <1>2 DEF GuiType
  <2> QED BY <1>3, <2>1, <2>2, <2>3 DEF GuiType
<1>5. loading'.image = i BY <1>2
<1>6. frame'.reply = frame.reply /\ (frame'.reply = NoId => frame' = NoFrame)
  BY <1>1, <1>2 DEF ReplyInv
<1>7. PICK r \in [Ids -> ReplyRecord] :
        r = Disconnected(i) /\ \A m \in Ids : Alike(r[m], reply[m])
  BY <1>1, Disconnects
<1> QED BY <1>2, <1>3, <1>4, <1>5, <1>6, <1>7, ClearKeeps

LEMMA LeaveKeeps ==
  ASSUME IInv, NEW i \in Images, LoadEmptyUrl(i) \/ DestroyImage(i)
  PROVE  IInv'
<1>1. TypeOK /\ ReplyInv /\ GuiType BY TypeGroups DEF IInv
<1>2. PICK r \in [Ids -> ReplyRecord] :
        Clear(i, r) /\ \A m \in Ids : Alike(r[m], reply[m])
  <2>1. CASE LoadEmptyUrl(i) BY <1>1, <2>1, Disconnects DEF LoadEmptyUrl
  <2>2. CASE DestroyImage(i) BY <1>1, <2>2, Disconnects DEF DestroyImage
  <2> QED BY <2>1, <2>2
<1>3. /\ reader # "dying" /\ loading = Nobody
      /\ image' = [image EXCEPT ![i] = [pix |-> NoId, status |-> "null"]]
      /\ loading' = loading /\ frame' = frame /\ loads' = loads
      /\ UNCHANGED <<threadVars, reader>>
  BY DEF LoadEmptyUrl, DestroyImage, Free
<1>4. /\ image'[i].pix = NoId /\ \A j \in Images : j # i => image'[j].pix = image[j].pix
      /\ image' \in [Images -> [pix : Ids \cup {NoId}, status : Statuses]]
  BY <1>1, <1>3 DEF GuiType, Statuses
<1>5. GuiType' BY <1>1, <1>3, <1>4 DEF GuiType
<1>6. frame'.reply = frame.reply /\ (frame'.reply = NoId => frame' = NoFrame)
  BY <1>1, <1>3 DEF ReplyInv
<1> QED BY <1>2, <1>3, <1>4, <1>5, <1>6, ClearKeeps

\* A step that leaves the store, and what the images use.
LEMMA StoreKeeps ==
  ASSUME GuiType, StoreInv, UNCHANGED <<data, storeVars>>,
         \A i \in Images : image'[i].pix = image[i].pix,
         loading' = loading \/ loading' = Nobody
  PROVE  StoreInv'
<1>1. /\ data' = data /\ cache' = cache /\ unref' = unref /\ cost' = cost /\ timer' = timer
  BY DEF storeVars
<1>2. DataInv(data, unref, image')
  <2>1. \A m \in Ids : UsersIn(image', m) = UsersIn(image, m) BY DEF UsersIn
  <2> QED BY <2>1 DEF StoreInv, DataInv, OneData
<1>3. loading' # Nobody => image'[loading'.image].pix = NoId
  <2>1. CASE loading' = loading /\ loading # Nobody
    <3>1. image[loading.image].pix = NoId BY <2>1 DEF StoreInv
    <3>2. loading.image \in Images BY <2>1 DEF GuiType
    <3> QED BY <2>1, <3>1, <3>2
  <2> QED BY <2>1
<1> QED BY <1>1, <1>2, <1>3 DEF StoreInv

LEMMA EmitKeeps ==
  ASSUME IInv, NEW i \in Images, EmitFinished(i)
  PROVE  IInv'
<1>1. /\ TypeOK /\ StoreInv /\ ReplyInv
      /\ StoreType /\ ReplyType /\ GuiType /\ ThreadType
  BY TypeGroups DEF IInv
<1>2. /\ frame # NoFrame /\ loading = Nobody
      /\ frame' = [frame EXCEPT !.left = @ \ {i}, !.handling = TRUE]
      /\ loading' = loading /\ loads' = loads /\ RequestFinished(i)
      /\ UNCHANGED <<threadVars, reader>>
  BY DEF EmitFinished, Emitting
<1>3. /\ frame'.reply = frame.reply /\ frame.reply # NoId
      /\ frame' \in [reply : Ids \cup {NoId}, left : SUBSET Images, handling : BOOLEAN]
  <2>1. frame \in [reply : Ids \cup {NoId}, left : SUBSET Images, handling : BOOLEAN]
    BY <1>1 DEF GuiType
  <2>2. frame.reply # NoId BY <1>1, <1>2 DEF ReplyInv
  <2> QED BY <1>2, <2>1, <2>2
<1>4. CASE image[i].pix # NoId /\ data[image[i].pix].status = "error"
  <2>1. /\ Clear(i, Disconnected(i))
        /\ image' = [image EXCEPT ![i] = [pix |-> NoId, status |-> "error"]]
    BY <1>2, <1>4 DEF RequestFinished
  <2>2. /\ image'[i].pix = NoId /\ \A j \in Images : j # i => image'[j].pix = image[j].pix
        /\ image' \in [Images -> [pix : Ids \cup {NoId}, status : Statuses]]
    BY <1>1, <2>1 DEF GuiType, Statuses
  <2>3. GuiType' BY <1>1, <1>2, <1>3, <2>2 DEF GuiType
  <2>4. ~data[image[i].pix].reply
    <3>1. image[i].pix \in Ids BY <1>1, <1>4 DEF GuiType
    <3> QED BY <1>1, <1>4, <3>1 DEF StoreInv, DataInv, OneData
  <2>5. PICK r \in [Ids -> ReplyRecord] :
          r = Disconnected(i) /\ \A m \in Ids : Alike(r[m], reply[m])
    BY <1>1, Disconnects
  <2> QED BY <1>2, <1>3, <2>1, <2>2, <2>3, <2>4, <2>5, ClearKeeps
<1>5. CASE ~(image[i].pix # NoId /\ data[image[i].pix].status = "error")
  <2>1. /\ image' = [image EXCEPT ![i].status = "ready"]
        /\ UNCHANGED <<data, storeVars, readerVars>>
    BY <1>2, <1>5 DEF RequestFinished
  <2>2. /\ \A j \in Images : image'[j].pix = image[j].pix
        /\ image' \in [Images -> [pix : Ids \cup {NoId}, status : Statuses]]
    <3>1. image \in [Images -> [pix : Ids \cup {NoId}, status : Statuses]] BY <1>1 DEF GuiType
    <3>2. image'[i] = [image[i] EXCEPT !.status = "ready"] BY <2>1, <3>1
    <3>3. \A j \in Images : j # i => image'[j] = image[j] BY <2>1, <3>1
    <3>4. [image[i] EXCEPT !.status = "ready"] \in [pix : Ids \cup {NoId}, status : Statuses]
      BY <3>1 DEF Statuses
    <3> QED BY <2>1, <3>1, <3>2, <3>3, <3>4
  <2>3. /\ data' = data /\ cache' = cache /\ unref' = unref /\ cost' = cost /\ timer' = timer
        /\ jobs' = jobs /\ cancelled' = cancelled /\ posted' = posted /\ reply' = reply
        /\ underWay' = underWay /\ pc' = pc /\ current' = current /\ reader' = reader
    BY <1>2, <2>1 DEF storeVars, threadVars, readerVars
  <2>4. TypeOK'
    <3>1. GuiType' BY <1>1, <1>2, <1>3, <2>2 DEF GuiType
    <3>2. StoreType' /\ ReplyType' /\ ThreadType'
      BY <1>1, <2>3 DEF StoreType, ReplyType, ThreadType
    <3> QED BY <3>1, <3>2, TypeGroupsNext
  <2>5. StoreInv' BY <1>1, <1>2, <2>1, <2>2, StoreKeeps
  <2>6. \A m \in Ids : PairInv(m)' /\ OneReply(m)'
    <3>1. \A m \in Ids : PairInv(m)' BY <1>1, <1>3, <2>3 DEF ReplyInv, PairInv
    <3>2. \A m \in Ids : OneReply(m)' BY <1>1, <1>3, <2>3 DEF ReplyInv, OneReply
    <3> QED BY <3>1, <3>2
  <2>7. ReplyInv' BY <1>1, <1>3, <2>3, <2>6 DEF ReplyInv
  <2> QED BY <2>4, <2>5, <2>7 DEF IInv
<1> QED BY <1>4, <1>5

-----------------------------------------------------------------------------
(* The steps of the store.                                                 *)

\* The timer, and purgeCache().
LEMMA ShrinkKeeps ==
  ASSUME IInv, NEW remove, ShrinkCache(unref, cost, remove, data),
         timer' \in BOOLEAN, unref' # <<>> => timer',
         UNCHANGED <<guiVars, readerVars, threadVars, reader>>
  PROVE  IInv'
<1>1. /\ TypeOK /\ StoreInv /\ ReplyInv
      /\ StoreType /\ ReplyType /\ GuiType /\ ThreadType
  BY TypeGroups DEF IInv
<1>2. /\ image' = image /\ loading' = loading /\ frame' = frame /\ loads' = loads
      /\ jobs' = jobs /\ cancelled' = cancelled /\ posted' = posted /\ reply' = reply
      /\ underWay' = underWay /\ pc' = pc /\ current' = current /\ reader' = reader
  BY DEF guiVars, threadVars, readerVars
<1>3. /\ data' \in DataType /\ unref' \in Seq(Ids) /\ cache' \in [Keys -> Ids \cup {NoId}]
      /\ DataInv(data', unref', image) /\ CachedInv(data', cache')
      /\ cost' = TotalCost(unref', data') /\ cost' \in Nat /\ cost' <= CacheLimit
      /\ \A n \in Ids : data[n].reply => data'[n] = data[n]
      /\ \A n \in Ids : data'[n].reply => data'[n] = data[n]
  BY <1>1, Shrinks DEF StoreInv, StoreType
<1>4. TypeOK'
  <2>1. StoreType' BY <1>3 DEF StoreType
  <2>2. ReplyType' /\ GuiType' /\ ThreadType' BY <1>1, <1>2 DEF ReplyType, GuiType, ThreadType
  <2> QED BY <2>1, <2>2, TypeGroupsNext
<1>5. StoreInv' BY <1>1, <1>2, <1>3 DEF StoreInv
<1>6. ReplyInv'
  <2>1. \A m \in Ids : PairInv(m)' BY <1>1, <1>2, <1>3 DEF ReplyInv, PairInv
  <2>2. \A m \in Ids : OneReply(m)' BY <1>1, <1>2, <1>3 DEF ReplyInv, OneReply
  <2> QED BY <1>1, <1>2, <2>1, <2>2 DEF ReplyInv
<1> QED BY <1>4, <1>5, <1>6 DEF IInv

LEMMA ExpiryKeeps ==
  ASSUME IInv, TimerEvent \/ PurgeCache
  PROVE  IInv'
<1>1. StoreInv /\ timer \in BOOLEAN BY DEF IInv, TypeOK
<1>2. CASE TimerEvent BY <1>2, ShrinkKeeps DEF TimerEvent
<1>3. CASE PurgeCache BY <1>1, <1>3, ShrinkKeeps DEF PurgeCache, StoreInv
<1> QED BY <1>2, <1>3

-----------------------------------------------------------------------------
(* The steps that load.                                                    *)

\* The image that load() is called for has no pixmap, and what is found is there.
LEMMA LoadStarts ==
  ASSUME IInv, Load
  PROVE  /\ loading.image \in Images /\ loading.key \in Keys
         /\ loading.async \in BOOLEAN /\ loading.cache \in BOOLEAN
         /\ image[loading.image].pix = NoId /\ loading' = Nobody
         /\ Found \in Ids \cup {NoId}
         /\ Found # NoId => data[Found].live /\ data[Found].inCache
         /\ Found = NoId /\ loading.cache => cache[loading.key] = NoId
<1>1. loading # Nobody /\ loading' = Nobody BY DEF Load
<1>2. GuiType /\ StoreType /\ StoreInv BY TypeGroups DEF IInv
<1>3. loading \in [image : Images, key : Keys, async : BOOLEAN, cache : BOOLEAN]
  BY <1>1, <1>2 DEF GuiType
<1>4. Found \in Ids \cup {NoId} BY <1>2, <1>3 DEF StoreType, Found
<1>5. Found # NoId => data[Found].live /\ data[Found].inCache
  BY <1>2, <1>3 DEF StoreInv, CachedInv, Found
<1> QED BY <1>1, <1>2, <1>3, <1>4, <1>5 DEF StoreInv, Found

\* The image shares what is cached, and takes it off the list.
LEMMA LoadCachedKeeps ==
  ASSUME IInv, LoadCached
  PROVE  IInv'
<1>1. /\ TypeOK /\ StoreInv /\ ReplyInv
      /\ StoreType /\ ReplyType /\ GuiType /\ ThreadType
  BY TypeGroups DEF IInv
<1>l. PICK i \in Images : i = loading.image BY LoadStarts DEF LoadCached
<1>f. PICK n \in Ids : n = Found BY LoadStarts DEF LoadCached
<1>2. /\ image[i].pix = NoId /\ loading' = Nobody /\ data[n].live /\ data[n].inCache
  BY <1>l, <1>f, LoadStarts DEF LoadCached
<1>3. /\ data' = [data EXCEPT ![n].ref = @ + 1]
      /\ ReferencePixmap(n)
      /\ image' = [image EXCEPT ![i] = [pix |-> n, status |-> data[n].status]]
      /\ reply' = IF data[n].status = "loading" /\ data[n].reply
                  THEN [reply EXCEPT ![n].connected = @ \cup {i}] ELSE reply
      /\ UNCHANGED <<cache, timer, frame, loads, jobs, cancelled, posted, threadVars, reader>>
  BY <1>l, <1>f DEF LoadCached
<1>4. PICK img : img = image' OBVIOUS
<1>5. data \in DataType /\ Once(unref) /\ \A m \in Ids : OneData(data, unref, image, m)
  BY <1>1 DEF StoreInv, DataInv, StoreType
<1> DEFINE e == [data[n] EXCEPT !.ref = @ + 1]
           D == [live : BOOLEAN, key : Keys \cup {NoId}, ref : 0 .. Cardinality(Images),
                 status : Statuses, inCache : BOOLEAN, reply : BOOLEAN, orphan : BOOLEAN]
<1>d. data \in [Ids -> D] BY <1>5 DEF DataType
<1>6. Joined(image, img, i, n) /\ img \in [Images -> [pix : Ids \cup {NoId}, status : Statuses]]
  <2>1. data[n] \in D BY <1>d
  <2> QED BY <1>1, <1>2, <1>3, <1>4, <2>1 DEF Joined, GuiType
<1>7. /\ Cardinality(UsersIn(img, n)) = Cardinality(UsersIn(image, n)) + 1
      /\ \A m \in Ids : m # n => UsersIn(img, m) = UsersIn(image, m)
      /\ Cardinality(UsersIn(image, n)) \in Nat
      /\ Cardinality(UsersIn(img, n)) <= Cardinality(Images)
  BY <1>6, OneMoreUser, UsersCounted
<1>8. data[n].ref = Cardinality(UsersIn(image, n)) BY <1>5 DEF OneData
<1>e. /\ e \in D /\ e.ref = data[n].ref + 1
      /\ e.live = data[n].live /\ e.key = data[n].key /\ e.status = data[n].status
      /\ e.inCache = data[n].inCache /\ e.reply = data[n].reply /\ e.orphan = data[n].orphan
  <2>1. data[n] \in D BY <1>d
  <2>2. data[n].ref + 1 \in 0 .. Cardinality(Images)
    BY <1>7, <1>8, PixmapAssumption, FS_CardinalityType
  <2> QED BY <2>1, <2>2
<1> HIDE DEF D
<1>9. data' = [data EXCEPT ![n] = e] BY <1>3, <1>d
<1> HIDE DEF e
<1>10. data'[n] = e /\ (\A m \in Ids : m # n => data'[m] = data[m]) /\ data' \in DataType
  <2>1. data' \in [Ids -> D] BY <1>d, <1>e, <1>9
  <2> QED BY <1>9, <1>d, <2>1 DEF DataType, D
<1>11. /\ unref' = RemoveFirst(unref, n) /\ unref' \in Seq(Ids) /\ Once(unref')
       /\ \A m : In(unref', m) <=> In(unref, m) /\ m # n
  BY <1>1, <1>3, <1>5, Removed DEF ReferencePixmap, StoreType
<1>12. DataInv(data', unref', img)
  <2>1. ASSUME NEW m \in Ids, m # n PROVE OneData(data', unref', img, m)
    BY <1>5, <1>7, <1>10, <1>11, <2>1 DEF OneData
  <2>2. OneData(data', unref', img, n)
    <3>1. e.ref = Cardinality(UsersIn(img, n)) /\ e.ref # 0 BY <1>7, <1>8, <1>e
    <3>2. OneData(data, unref, image, n) BY <1>5
    <3> QED BY <1>2, <1>e, <1>10, <1>11, <3>1, <3>2 DEF OneData
  <2> QED BY <1>11, <2>1, <2>2 DEF DataInv
<1>13. CachedInv(data', cache')
  BY <1>1, <1>3, <1>e, <1>10 DEF StoreInv, StoreType, CachedInv
<1>14. /\ cost' \in Nat /\ cost' = TotalCost(unref', data') /\ cost' <= CacheLimit
  <2>1. Keyed(unref, data) /\ cost = TotalCost(unref, data) /\ cost <= CacheLimit /\ cost \in Nat
    BY <1>1, ListedKeyed DEF StoreInv, StoreType
  <2>2. TotalCost(unref', data') = TotalCost(unref', data)
    <3>1. \A m \in Ids : In(unref', m) => data'[m].key = data[m].key BY <1>10, <1>11
    <3> QED BY <1>11, <3>1, TotalSame
  <2>3. In(unref, n) <=> n \in ToSet(unref) BY DEF In, ToSet
  <2>4. CASE In(unref, n)
    <3>1. TotalCost(unref', data) = cost - Cost[data[n].key]
      BY <1>1, <1>5, <1>11, <2>1, <2>4, RemovalPays DEF StoreType
    <3>2. cost' = cost - Cost[data[n].key] BY <1>3, <2>3, <2>4 DEF ReferencePixmap
    <3>3. Keyed(unref', data)
      <4>1. \A m \in Ids : In(unref, m) => data[m].key \in Keys BY <1>5 DEF OneData
      <4>2. \A x \in 1 .. Len(unref') : unref'[x] \in Ids /\ In(unref', unref'[x])
        BY <1>11, DOMAIN unref' = 1 .. Len(unref') DEF In
      <4> QED BY <1>11, <4>1, <4>2 DEF Keyed
    <3>4. TotalCost(unref', data) \in Nat BY <1>11, <3>3, CostsAre
    <3>5. Cost[data[n].key] \in Nat BY <1>2, <1>5, PixmapAssumption DEF OneData
    <3>6. CacheLimit \in Nat BY PixmapAssumption
    <3> QED BY <2>1, <2>2, <3>1, <3>2, <3>4, <3>5, <3>6
  <2>5. CASE ~In(unref, n)
    <3>1. unref' = unref BY <1>11, <2>5 DEF RemoveFirst, In
    <3>2. cost' = cost BY <1>3, <2>3, <2>5 DEF ReferencePixmap
    <3> QED BY <2>1, <2>2, <3>1, <3>2
  <2> QED BY <2>4, <2>5
<1>15. unref' # <<>> => timer'
  <2>1. unref' # <<>> => unref # <<>>
    <3>1. ASSUME unref' # <<>> PROVE \E m : In(unref', m)
      <4>1. 1 \in DOMAIN unref' BY <1>11, <3>1
      <4> QED BY <4>1 DEF In
    <3> QED BY <1>11, <3>1 DEF In
  <2> QED BY <1>1, <1>3, <2>1 DEF StoreInv
<1>16. StoreInv' BY <1>2, <1>4, <1>12, <1>13, <1>14, <1>15 DEF StoreInv
<1>17. /\ reply' \in [Ids -> ReplyRecord] /\ \A m \in Ids : Alike(reply'[m], reply[m])
  <2>1. reply \in [Ids -> ReplyRecord] BY <1>1 DEF ReplyType
  <2>2. reply[n] \in ReplyRecord BY <2>1
  <2>3. [reply[n] EXCEPT !.connected = @ \cup {i}] \in ReplyRecord BY <2>2 DEF ReplyRecord
  <2>4. Alike([reply[n] EXCEPT !.connected = @ \cup {i}], reply[n])
    BY <2>2 DEF ReplyRecord, Alike
  <2>5. \A m \in Ids : Alike(reply[m], reply[m]) BY DEF Alike
  <2> QED BY <1>3, <2>1, <2>3, <2>4, <2>5
<1>18. TypeOK'
  <2>1. StoreType' BY <1>1, <1>3, <1>10, <1>11, <1>14 DEF StoreType
  <2>2. ReplyType' BY <1>1, <1>3, <1>17 DEF ReplyType
  <2>3. GuiType' BY <1>1, <1>2, <1>3, <1>4, <1>6 DEF GuiType
  <2>4. ThreadType' BY <1>1, <1>3 DEF ThreadType, threadVars
  <2> QED BY <2>1, <2>2, <2>3, <2>4, TypeGroupsNext
<1>19. ReplyInv'
  <2>1. /\ frame' = frame /\ jobs' = jobs /\ cancelled' = cancelled /\ reader' = reader
        /\ underWay' = underWay /\ pc' = pc /\ current' = current
        /\ \A m \in Ids : /\ data'[m].live = data[m].live /\ data'[m].reply = data[m].reply
                           /\ data'[m].orphan = data[m].orphan
    BY <1>3, <1>e, <1>10 DEF threadVars
  <2>2. \A m \in Ids : PairInv(m)' BY <1>1, <1>17, <2>1 DEF ReplyInv, PairInv, Alike
  <2>3. \A m \in Ids : OneReply(m)' BY <1>1, <1>17, <2>1 DEF ReplyInv, OneReply, Alike
  <2> QED BY <1>1, <2>1, <2>2, <2>3 DEF ReplyInv
<1> QED BY <1>16, <1>18, <1>19 DEF IInv

\* A pixmap of its own, inserted in the cache if the image asks for that.
LEMMA NewDataKeeps ==
  ASSUME IInv, Load, Found = NoId, NEW n \in Ids, Unused(n),
         NEW status \in {"ready", "loading"},
         data' = [data EXCEPT ![n] = NewData(n, status)],
         Insert(n),
         image' = [image EXCEPT ![loading.image] = [pix |-> n, status |-> status]],
         UNCHANGED <<unref, cost, timer, frame, loads>>
  PROVE  /\ StoreInv' /\ StoreType' /\ GuiType'
         /\ \A m \in Ids : m # n => data'[m] = data[m]
         /\ data'[n].live /\ (data'[n].reply <=> status = "loading")
<1>1. /\ TypeOK /\ StoreInv /\ ReplyInv
      /\ StoreType /\ ReplyType /\ GuiType /\ ThreadType
  BY TypeGroups DEF IInv
<1>l. PICK i \in Images : i = loading.image BY LoadStarts
<1>k. PICK k \in Keys : k = loading.key BY LoadStarts
<1>c. PICK b \in BOOLEAN : b = loading.cache BY LoadStarts
<1>2. /\ image[i].pix = NoId /\ loading' = Nobody /\ (b => cache[k] = NoId)
  BY <1>l, <1>k, <1>c, LoadStarts
<1>3. /\ data' = [data EXCEPT ![n] = NewData(n, status)]
      /\ cache' = IF b THEN [cache EXCEPT ![k] = n] ELSE cache
      /\ image' = [image EXCEPT ![i] = [pix |-> n, status |-> status]]
  BY <1>l, <1>k, <1>c DEF Insert
<1>4. PICK img : img = image' OBVIOUS
<1>5. data \in DataType /\ Once(unref) /\ \A m \in Ids : OneData(data, unref, image, m)
  BY <1>1 DEF StoreInv, DataInv, StoreType
<1> DEFINE e == NewData(n, status)
           D == [live : BOOLEAN, key : Keys \cup {NoId}, ref : 0 .. Cardinality(Images),
                 status : Statuses, inCache : BOOLEAN, reply : BOOLEAN, orphan : BOOLEAN]
<1>d. data \in [Ids -> D] BY <1>5 DEF DataType
<1>6. Joined(image, img, i, n) /\ img \in [Images -> [pix : Ids \cup {NoId}, status : Statuses]]
  BY <1>1, <1>2, <1>3, <1>4 DEF Joined, GuiType, Statuses
<1>7. /\ Cardinality(UsersIn(img, n)) = Cardinality(UsersIn(image, n)) + 1
      /\ \A m \in Ids : m # n => UsersIn(img, m) = UsersIn(image, m)
      /\ Cardinality(UsersIn(image, n)) \in Nat
      /\ Cardinality(UsersIn(img, n)) \in Nat
      /\ Cardinality(UsersIn(img, n)) <= Cardinality(Images)
  BY <1>6, OneMoreUser, UsersCounted
<1>8. /\ ~data[n].live /\ data[n] = NoData /\ ~In(unref, n)
      /\ Cardinality(UsersIn(image, n)) = 0
  <2>1. ~data[n].live BY DEF Unused
  <2>2. data[n] = NoData BY <1>5, <2>1 DEF OneData
  <2>3. data[n].ref = 0 /\ ~NoData.live BY <2>2 DEF NoData
  <2> QED BY <1>5, <2>1, <2>2, <2>3 DEF OneData
<1>e. /\ e \in D /\ e.ref = 1 /\ e.live /\ e.key = k /\ e.status = status
      /\ e.inCache = b /\ (e.reply <=> status = "loading")
  <2>1. 1 \in 0 .. Cardinality(Images) BY <1>7, <1>8, PixmapAssumption, FS_CardinalityType
  <2> QED BY <1>k, <1>c, <2>1 DEF NewData, Statuses
<1> HIDE DEF D, e
<1>9. data' = [data EXCEPT ![n] = e] BY <1>3 DEF e
<1>10. data'[n] = e /\ (\A m \in Ids : m # n => data'[m] = data[m]) /\ data' \in DataType
  <2>1. data' \in [Ids -> D] BY <1>d, <1>e, <1>9
  <2> QED BY <1>9, <1>d, <2>1 DEF DataType, D
<1>12. DataInv(data', unref', img)
  <2>1. ASSUME NEW m \in Ids, m # n PROVE OneData(data', unref, img, m)
    BY <1>5, <1>7, <1>10, <2>1 DEF OneData
  <2>2. OneData(data', unref, img, n)
    BY <1>7, <1>8, <1>e, <1>10 DEF OneData
  <2> QED BY <1>5, <2>1, <2>2 DEF DataInv
<1>13. CachedInv(data', cache') /\ cache' \in [Keys -> Ids \cup {NoId}]
  <2>0. cache \in [Keys -> Ids \cup {NoId}] /\ CachedInv(data, cache)
    BY <1>1 DEF StoreInv, StoreType
  <2>1. cache' \in [Keys -> Ids \cup {NoId}] BY <1>3, <2>0
  <2>2. \A x \in Keys : cache'[x] = IF b /\ x = k THEN n ELSE cache[x] BY <1>3, <2>0
  <2>3. ASSUME NEW m \in Ids, data'[m].inCache PROVE cache'[data'[m].key] = m
    <3>1. CASE m = n BY <1>e, <1>10, <2>2, <2>3, <3>1
    <3>2. CASE m # n
      <4>1. data'[m] = data[m] /\ data[m].inCache BY <1>10, <2>3, <3>2
      <4>2. data[m].key \in Keys /\ cache[data[m].key] = m
        BY <1>5, <2>0, <4>1 DEF CachedInv, OneData, NoData
      <4>3. NoId # m BY PixmapAssumption
      <4> QED BY <1>2, <2>2, <4>1, <4>2, <4>3
    <3> QED BY <3>1, <3>2
  <2>4. ASSUME NEW x \in Keys, cache'[x] # NoId
        PROVE  /\ data'[cache'[x]].live /\ data'[cache'[x]].inCache
               /\ data'[cache'[x]].key = x /\ data'[cache'[x]].status # "error"
    <3>1. CASE b /\ x = k BY <1>e, <1>10, <2>2, <3>1
    <3>2. CASE ~(b /\ x = k)
      <4>1. /\ cache'[x] = cache[x] /\ cache[x] \in Ids
            /\ data[cache[x]].live /\ data[cache[x]].inCache
            /\ data[cache[x]].key = x /\ data[cache[x]].status # "error"
        BY <2>0, <2>2, <2>4, <3>2 DEF CachedInv
      <4>2. data'[cache[x]] = data[cache[x]] BY <1>8, <1>10, <4>1
      <4> QED BY <4>1, <4>2
    <3> QED BY <3>1, <3>2
  <2> QED BY <2>1, <2>3, <2>4 DEF CachedInv
<1>14. TotalCost(unref, data') = TotalCost(unref, data)
  <2>1. \A m \in Ids : In(unref, m) => data'[m].key = data[m].key BY <1>8, <1>10
  <2> QED BY <1>1, <2>1, TotalSame DEF StoreType
<1>16. StoreInv' BY <1>1, <1>2, <1>4, <1>12, <1>13, <1>14 DEF StoreInv
<1>17. StoreType' BY <1>1, <1>10, <1>13 DEF StoreType
<1>18. GuiType' BY <1>1, <1>2, <1>4, <1>6 DEF GuiType
<1> QED BY <1>e, <1>10, <1>16, <1>17, <1>18

LEMMA LoadSyncKeeps ==
  ASSUME IInv, NEW n \in Ids, LoadSync(n)
  PROVE  IInv'
<1>1. /\ TypeOK /\ StoreInv /\ ReplyInv
      /\ StoreType /\ ReplyType /\ GuiType /\ ThreadType
  BY TypeGroups DEF IInv
<1>2. /\ Load /\ Found = NoId /\ Unused(n)
      /\ UNCHANGED <<unref, cost, timer, frame, loads, readerVars, threadVars, reader>>
  BY DEF LoadSync
<1>3. /\ frame' = frame /\ jobs' = jobs /\ cancelled' = cancelled /\ posted' = posted
      /\ reply' = reply /\ underWay' = underWay /\ pc' = pc /\ current' = current
      /\ reader' = reader /\ loads' = loads
  BY <1>2 DEF readerVars, threadVars
<1>4. ReplyType' /\ ThreadType' BY <1>1, <1>3 DEF ReplyType, ThreadType
<1>5. CASE /\ data' = [data EXCEPT ![n] = NewData(n, "ready")]
           /\ Insert(n)
           /\ image' = [image EXCEPT ![loading.image] = [pix |-> n, status |-> "ready"]]
  <2>1. /\ StoreInv' /\ StoreType' /\ GuiType'
        /\ \A m \in Ids : m # n => data'[m] = data[m]
        /\ data'[n].live /\ (data'[n].reply <=> "ready" = "loading")
    BY <1>2, <1>5, NewDataKeeps
  <2>2. /\ \A m \in Ids : PairInv(m)
        /\ \A m \in Ids : OneReply(m)
    BY <1>1 DEF ReplyInv
  <2>3. /\ ~reply[n].live /\ frame.reply # n BY <1>2 DEF Unused
  <2>4. \A m \in Ids : PairInv(m)' BY <1>3, <2>1, <2>2, <2>3 DEF PairInv
  <2>5. \A m \in Ids : OneReply(m)' BY <1>3, <2>1, <2>2, <2>3 DEF OneReply
  <2>6. ReplyInv' BY <1>1, <1>3, <2>4, <2>5 DEF ReplyInv
  <2> QED BY <1>4, <2>1, <2>6, TypeGroupsNext DEF IInv
<1>6. CASE /\ image' = [image EXCEPT ![loading.image].status = "error"]
           /\ UNCHANGED <<data, cache>>
  <2>1. /\ loading' = Nobody /\ loading.image \in Images BY <1>2, LoadStarts
  <2>2. /\ \A j \in Images : image'[j].pix = image[j].pix
        /\ image' \in [Images -> [pix : Ids \cup {NoId}, status : Statuses]]
    BY <1>1, <1>6, <2>1 DEF GuiType, Statuses
  <2>3. StoreInv'
    <3>1. UNCHANGED <<data, storeVars>> BY <1>2, <1>6 DEF storeVars
    <3> QED BY <1>1, <2>1, <2>2, <3>1, StoreKeeps
  <2>4. GuiType' /\ StoreType'
    BY <1>1, <1>2, <1>3, <1>6, <2>1, <2>2 DEF GuiType, StoreType
  <2>5. \A m \in Ids : PairInv(m)' BY <1>1, <1>3, <1>6 DEF ReplyInv, PairInv
  <2>6. \A m \in Ids : OneReply(m)' BY <1>1, <1>3, <1>6 DEF ReplyInv, OneReply
  <2>7. ReplyInv' BY <1>1, <1>3, <2>5, <2>6 DEF ReplyInv
  <2> QED BY <1>4, <2>3, <2>4, <2>7, TypeGroupsNext DEF IInv
<1> QED BY <1>5, <1>6 DEF LoadSync

LEMMA LoadWithoutEngineKeeps ==
  ASSUME IInv, LoadWithoutEngine
  PROVE  IInv'
<1>1. /\ TypeOK /\ StoreInv /\ ReplyInv
      /\ StoreType /\ ReplyType /\ GuiType /\ ThreadType
  BY TypeGroups DEF IInv
<1>2. /\ Load /\ image' = [image EXCEPT ![loading.image].status = "ready"]
      /\ UNCHANGED <<data, storeVars, frame, loads, readerVars, threadVars, reader>>
  BY DEF LoadWithoutEngine
<1>3. /\ frame' = frame /\ jobs' = jobs /\ cancelled' = cancelled /\ posted' = posted
      /\ reply' = reply /\ underWay' = underWay /\ pc' = pc /\ current' = current
      /\ reader' = reader /\ loads' = loads /\ data' = data
      /\ cache' = cache /\ unref' = unref /\ cost' = cost /\ timer' = timer
  BY <1>2 DEF readerVars, threadVars, storeVars
<1>4. /\ loading' = Nobody /\ loading.image \in Images BY <1>2, LoadStarts
<1>5. /\ \A j \in Images : image'[j].pix = image[j].pix
      /\ image' \in [Images -> [pix : Ids \cup {NoId}, status : Statuses]]
  BY <1>1, <1>2, <1>4 DEF GuiType, Statuses
<1>6. StoreInv' BY <1>1, <1>2, <1>4, <1>5, StoreKeeps
<1>7. GuiType' /\ StoreType' /\ ReplyType' /\ ThreadType'
  BY <1>1, <1>3, <1>4, <1>5 DEF GuiType, StoreType, ReplyType, ThreadType
<1>8. \A m \in Ids : PairInv(m)' BY <1>1, <1>3 DEF ReplyInv, PairInv
<1>9. \A m \in Ids : OneReply(m)' BY <1>1, <1>3 DEF ReplyInv, OneReply
<1>10. ReplyInv' BY <1>1, <1>3, <1>8, <1>9 DEF ReplyInv
<1> QED BY <1>6, <1>7, <1>10, TypeGroupsNext DEF IInv

LEMMA LoadAsyncKeeps ==
  ASSUME IInv, NEW n \in Ids, LoadAsync(n)
  PROVE  IInv'
<1>1. /\ TypeOK /\ StoreInv /\ ReplyInv
      /\ StoreType /\ ReplyType /\ GuiType /\ ThreadType
  BY TypeGroups DEF IInv
<1>2. /\ Load /\ Found = NoId /\ Unused(n) /\ reader \in {"none", "there"}
      /\ data' = [data EXCEPT ![n] = NewData(n, "loading")]
      /\ Insert(n)
      /\ image' = [image EXCEPT ![loading.image] = [pix |-> n, status |-> "loading"]]
      /\ GetImage(n, loading.key, loading.image)
      /\ UNCHANGED <<unref, cost, timer, frame, loads, cancelled, threadVars>>
  BY DEF LoadAsync
<1>3. /\ frame' = frame /\ cancelled' = cancelled
      /\ underWay' = underWay /\ pc' = pc /\ current' = current
  BY <1>2 DEF threadVars
<1>l. PICK i \in Images : i = loading.image BY <1>2, LoadStarts
<1>k. PICK k \in Keys : k = loading.key BY <1>2, LoadStarts
<1> DEFINE e == [NoReply EXCEPT !.live = TRUE, !.key = k, !.data = TRUE, !.connected = {i}]
<1>4. /\ reply' = [reply EXCEPT ![n] = e]
      /\ jobs' = Append(jobs, n) /\ reader' = "there" /\ PostProcessJobs
  BY <1>2, <1>l, <1>k DEF GetImage
<1>e. /\ e \in ReplyRecord /\ e.live /\ e.data /\ ~e.loading /\ e.event = "none"
      /\ ~e.deleteLater
  BY DEF NoReply, ReplyRecord
<1> HIDE DEF e
<1>5. /\ StoreInv' /\ StoreType' /\ GuiType'
      /\ \A m \in Ids : m # n => data'[m] = data[m]
      /\ data'[n].live /\ (data'[n].reply <=> "loading" = "loading")
  BY <1>2, NewDataKeeps
<1>6. /\ \A m \in Ids : PairInv(m)
      /\ \A m \in Ids : OneReply(m)
      /\ Once(jobs)
  BY <1>1 DEF ReplyInv
<1>7. /\ ~reply[n].live /\ frame.reply # n /\ ~In(jobs, n)
      /\ n \notin cancelled \cup underWay \cup {current}
  BY <1>2 DEF Unused, In, ToSet
<1>8. reply'[n] = e /\ \A m \in Ids : m # n => reply'[m] = reply[m]
  BY <1>1, <1>4 DEF ReplyType
<1>9. /\ jobs' \in Seq(Ids) /\ Once(jobs') /\ \A m : In(jobs', m) <=> In(jobs, m) \/ m = n
  BY <1>1, <1>4, <1>6, <1>7, Appended DEF ReplyType
<1>10. \A m \in Ids : PairInv(m)'
  <2>1. ASSUME NEW m \in Ids, m # n PROVE PairInv(m)'
    BY <1>2, <1>3, <1>4, <1>5, <1>6, <1>8, <2>1 DEF PairInv
  <2>2. ~data'[n].orphan
    <3>1. data \in DataType /\ data'[n] = NewData(n, "loading")
      BY <1>1, <1>2 DEF StoreType, DataType
    <3> QED BY <3>1 DEF NewData
  <2>3. PairInv(n)' BY <1>3, <1>e, <1>5, <1>7, <1>8, <2>2 DEF PairInv
  <2> QED BY <2>1, <2>3
<1>11. \A m \in Ids : OneReply(m)'
  <2>1. ASSUME NEW m \in Ids, m # n PROVE OneReply(m)'
    BY <1>3, <1>5, <1>6, <1>8, <1>9, <2>1 DEF OneReply
  <2>2. OneReply(n)' BY <1>3, <1>e, <1>7, <1>8, <1>9 DEF OneReply
  <2> QED BY <2>1, <2>2
<1>12. ReplyInv' BY <1>1, <1>3, <1>4, <1>9, <1>10, <1>11 DEF ReplyInv
<1>13. ReplyType' /\ ThreadType'
  <2>1. reply' \in [Ids -> ReplyRecord] BY <1>1, <1>4, <1>e DEF ReplyType
  <2> QED BY <1>1, <1>3, <1>4, <1>9, <2>1 DEF ReplyType, ThreadType, PostProcessJobs
<1> QED BY <1>5, <1>12, <1>13, TypeGroupsNext DEF IInv

-----------------------------------------------------------------------------
(* The steps of the replies.                                               *)

\* A reply that is deleted in the event loop: what was cancelled, or answered to nobody.
LEMMA DeleteKeeps ==
  ASSUME IInv, NEW n \in Ids, DropAnswer(n) \/ DeleteLater(n)
  PROVE  IInv'
<1>1. /\ TypeOK /\ StoreInv /\ ReplyInv
      /\ StoreType /\ ReplyType /\ GuiType /\ ThreadType
  BY TypeGroups DEF IInv
<1>2. /\ frame = NoFrame /\ reply' = [reply EXCEPT ![n] = NoReply]
      /\ UNCHANGED <<data, storeVars, guiVars, jobs, cancelled, posted, threadVars, reader>>
  BY DEF DropAnswer, DeleteLater, EventLoop
<1>3. /\ frame' = frame /\ jobs' = jobs /\ cancelled' = cancelled /\ posted' = posted
      /\ underWay' = underWay /\ pc' = pc /\ current' = current
      /\ reader' = reader /\ loads' = loads /\ data' = data /\ image' = image
      /\ cache' = cache /\ unref' = unref /\ cost' = cost /\ timer' = timer
      /\ loading' = loading
  BY <1>2 DEF guiVars, threadVars, storeVars
<1>4. /\ \A m \in Ids : PairInv(m)
      /\ \A m \in Ids : OneReply(m)
  BY <1>1 DEF ReplyInv
<1>5. /\ ~reply[n].data /\ ~In(jobs, n) /\ n \notin cancelled \cup underWay \cup {current}
  BY <1>4 DEF DropAnswer, DeleteLater, OneReply
<1>6. frame.reply # n BY <1>2, PixmapAssumption DEF NoFrame
<1>7. reply'[n] = NoReply /\ \A m \in Ids : m # n => reply'[m] = reply[m]
  BY <1>1, <1>2 DEF ReplyType
<1>8. \A m \in Ids : PairInv(m)' BY <1>3, <1>4, <1>5, <1>7 DEF PairInv, NoReply
<1>9. \A m \in Ids : OneReply(m)'
  <2>1. \A m \in Ids : m # n => OneReply(m)' BY <1>3, <1>4, <1>7 DEF OneReply
  <2>2. OneReply(n)' BY <1>3, <1>5, <1>6, <1>7 DEF OneReply, NoReply
  <2> QED BY <2>1, <2>2
<1>10. ReplyInv' BY <1>1, <1>3, <1>8, <1>9 DEF ReplyInv
<1>11. StoreInv' BY <1>1, <1>2, <1>3, StoreKeeps
<1>12. GuiType' /\ StoreType' /\ ReplyType' /\ ThreadType'
  BY <1>1, <1>2, <1>3, NoReplyType DEF GuiType, StoreType, ReplyType, ThreadType
<1> QED BY <1>10, <1>11, <1>12, TypeGroupsNext DEF IInv

\* event(): the pixmap has what the reader posted, and finished() is emitted.
LEMMA AnswerKeeps ==
  ASSUME IInv, NEW n \in Ids, Answer(n)
  PROVE  IInv'
<1>1. /\ TypeOK /\ StoreInv /\ ReplyInv
      /\ StoreType /\ ReplyType /\ GuiType /\ ThreadType
  BY TypeGroups DEF IInv
<1>2. /\ frame = NoFrame /\ loading = Nobody
      /\ reply[n].event # "none" /\ reply[n].data
      /\ data' = [data EXCEPT ![n].status = reply[n].event, ![n].reply = FALSE,
                              ![n].inCache = @ /\ reply[n].event = "ready"]
      /\ cache' = IF reply[n].event = "error" THEN Uncached(n) ELSE cache
      /\ reply' = [reply EXCEPT ![n].event = "none"]
      /\ frame' = [reply |-> n, left |-> reply[n].connected, handling |-> FALSE]
      /\ UNCHANGED <<unref, cost, timer, image, loading, loads, jobs, cancelled, posted,
                     threadVars, reader>>
  BY DEF Answer, EventLoop
<1>3. /\ jobs' = jobs /\ cancelled' = cancelled /\ posted' = posted
      /\ underWay' = underWay /\ pc' = pc /\ current' = current
      /\ reader' = reader /\ loads' = loads /\ image' = image
      /\ unref' = unref /\ cost' = cost /\ timer' = timer /\ loading' = loading
  BY <1>2 DEF threadVars
<1>4. /\ \A m \in Ids : PairInv(m)
      /\ \A m \in Ids : OneReply(m)
  BY <1>1 DEF ReplyInv
<1>5. frame.reply = NoId /\ frame.reply \notin Ids BY <1>2, PixmapAssumption DEF NoFrame
<1>6. /\ reply[n].live /\ ~reply[n].loading /\ ~reply[n].deleteLater /\ ~In(jobs, n)
      /\ n \notin cancelled \cup underWay \cup {current}
  BY <1>2, <1>4 DEF OneReply
<1>7. /\ data[n].live /\ data[n].reply BY <1>2, <1>4, <1>5, <1>6 DEF PairInv
<1>8. data \in DataType /\ Once(unref) /\ \A m \in Ids : OneData(data, unref, image, m)
  BY <1>1 DEF StoreInv, DataInv, StoreType
<1>9. data[n].status = "loading" /\ data[n].key \in Keys /\ ~In(unref, n) /\ data[n].ref # 0
  BY <1>7, <1>8 DEF OneData
<1>10. PICK s \in {"ready", "error"} : s = reply[n].event
  BY <1>1, <1>2 DEF ReplyType, ReplyRecord
<1> DEFINE e == [data[n] EXCEPT !.status = s, !.reply = FALSE, !.inCache = @ /\ s = "ready"]
           D == [live : BOOLEAN, key : Keys \cup {NoId}, ref : 0 .. Cardinality(Images),
                 status : Statuses, inCache : BOOLEAN, reply : BOOLEAN, orphan : BOOLEAN]
<1>d. data \in [Ids -> D] BY <1>8 DEF DataType
<1>e. /\ e \in D /\ e.ref = data[n].ref /\ e.live = data[n].live /\ e.key = data[n].key
      /\ e.status = s /\ (e.inCache <=> data[n].inCache /\ s = "ready") /\ ~e.reply
  <2>1. data[n] \in D BY <1>d
  <2> QED BY <2>1 DEF Statuses
<1> HIDE DEF D
<1>11. data' = [data EXCEPT ![n] = e] BY <1>2, <1>d, <1>10
<1> HIDE DEF e
<1>12. data'[n] = e /\ (\A m \in Ids : m # n => data'[m] = data[m]) /\ data' \in DataType
  <2>1. data' \in [Ids -> D] BY <1>d, <1>e, <1>11
  <2> QED BY <1>11, <1>d, <2>1 DEF DataType, D
<1>13. DataInv(data', unref', image')
  <2>1. ASSUME NEW m \in Ids, m # n PROVE OneData(data', unref, image, m)
    BY <1>8, <1>12, <2>1 DEF OneData
  <2>2. OneData(data', unref, image, n)
    <3>1. data[n].ref = Cardinality(UsersIn(image, n)) BY <1>8 DEF OneData
    <3> QED BY <1>7, <1>9, <1>e, <1>12, <3>1 DEF OneData
  <2> QED BY <1>3, <1>8, <2>1, <2>2 DEF DataInv
<1>14. CachedInv(data', cache') /\ cache' \in [Keys -> Ids \cup {NoId}]
  <2>0. cache \in [Keys -> Ids \cup {NoId}] /\ CachedInv(data, cache)
    BY <1>1 DEF StoreInv, StoreType
  <2>1. cache' = IF s = "error" /\ data[n].inCache
                 THEN [cache EXCEPT ![data[n].key] = NoId] ELSE cache
    BY <1>2, <1>10 DEF Uncached
  <2>2. cache' \in [Keys -> Ids \cup {NoId}] BY <2>0, <2>1
  <2>3. \A x \in Keys : cache'[x] = IF s = "error" /\ data[n].inCache /\ x = data[n].key
                                    THEN NoId ELSE cache[x]
    BY <2>0, <2>1
  <2>4. data[n].inCache => cache[data[n].key] = n BY <2>0 DEF CachedInv
  <2>5. ASSUME NEW m \in Ids, data'[m].inCache PROVE cache'[data'[m].key] = m
    <3>1. CASE m = n BY <1>9, <1>e, <1>12, <2>3, <2>4, <2>5, <3>1
    <3>2. CASE m # n
      <4>1. data'[m] = data[m] /\ data[m].inCache BY <1>12, <2>5, <3>2
      <4>2. data[m].key \in Keys /\ cache[data[m].key] = m
        BY <1>8, <2>0, <4>1 DEF CachedInv, OneData, NoData
      <4> QED BY <2>3, <2>4, <3>2, <4>1, <4>2
    <3> QED BY <3>1, <3>2
  <2>6. ASSUME NEW x \in Keys, cache'[x] # NoId
        PROVE  /\ data'[cache'[x]].live /\ data'[cache'[x]].inCache
               /\ data'[cache'[x]].key = x /\ data'[cache'[x]].status # "error"
    <3>1. /\ cache'[x] = cache[x] /\ cache[x] \in Ids
          /\ ~(s = "error" /\ data[n].inCache /\ x = data[n].key)
      BY <2>0, <2>3, <2>6
    <3>2. /\ data[cache[x]].live /\ data[cache[x]].inCache
          /\ data[cache[x]].key = x /\ data[cache[x]].status # "error"
      BY <2>0, <2>6, <3>1 DEF CachedInv
    <3>3. CASE cache[x] = n BY <1>10, <1>e, <1>12, <3>1, <3>2, <3>3
    <3>4. CASE cache[x] # n BY <1>12, <3>1, <3>2, <3>4
    <3> QED BY <3>3, <3>4
  <2> QED BY <2>2, <2>5, <2>6 DEF CachedInv
<1>15. TotalCost(unref, data') = TotalCost(unref, data)
  <2>1. \A m \in Ids : In(unref, m) => data'[m].key = data[m].key BY <1>9, <1>12
  <2> QED BY <1>1, <2>1, TotalSame DEF StoreType
<1>16. StoreInv'
  BY <1>1, <1>2, <1>3, <1>13, <1>14, <1>15 DEF StoreInv
<1>17. /\ reply' \in [Ids -> ReplyRecord]
       /\ \A m \in Ids : m # n => reply'[m] = reply[m]
       /\ reply'[n].live /\ reply'[n].data /\ ~reply'[n].loading
       /\ reply'[n].event = "none" /\ ~reply'[n].deleteLater
  <2>1. reply \in [Ids -> ReplyRecord] /\ reply[n] \in ReplyRecord BY <1>1 DEF ReplyType
  <2>2. [reply[n] EXCEPT !.event = "none"] \in ReplyRecord BY <2>1 DEF ReplyRecord
  <2>3. reply'[n] = [reply[n] EXCEPT !.event = "none"] BY <1>2, <2>1
  <2>4. /\ reply'[n].live = reply[n].live /\ reply'[n].data = reply[n].data
        /\ reply'[n].loading = reply[n].loading /\ reply'[n].event = "none"
        /\ reply'[n].deleteLater = reply[n].deleteLater
    BY <2>1, <2>3 DEF ReplyRecord
  <2> QED BY <1>2, <1>6, <2>1, <2>2, <2>4
<1>18. frame'.reply = n /\ frame' # NoFrame
       /\ frame' \in [reply : Ids \cup {NoId}, left : SUBSET Images, handling : BOOLEAN]
  <2>1. reply[n].connected \subseteq Images BY <1>1 DEF ReplyType, ReplyRecord
  <2> QED BY <1>2, <1>5, <2>1
<1>19. \A m \in Ids : PairInv(m)'
  <2>1. ASSUME NEW m \in Ids, m # n PROVE PairInv(m)'
    BY <1>3, <1>4, <1>5, <1>12, <1>17, <1>18, <2>1 DEF PairInv
  <2>2. PairInv(n)' BY <1>e, <1>12, <1>18 DEF PairInv
  <2> QED BY <2>1, <2>2
<1>20. \A m \in Ids : OneReply(m)'
  <2>1. ASSUME NEW m \in Ids, m # n PROVE OneReply(m)'
    BY <1>3, <1>4, <1>12, <1>17, <1>18, <2>1 DEF OneReply
  <2>2. OneReply(n)' BY <1>3, <1>6, <1>e, <1>12, <1>17, <1>18 DEF OneReply
  <2> QED BY <2>1, <2>2
<1>21. ReplyInv'
  <2>1. frame'.reply # NoId BY <1>18, PixmapAssumption
  <2> QED BY <1>1, <1>3, <1>19, <1>20, <2>1 DEF ReplyInv
<1>22. GuiType' /\ StoreType' /\ ReplyType' /\ ThreadType'
  BY <1>1, <1>3, <1>12, <1>14, <1>17, <1>18 DEF GuiType, StoreType, ReplyType, ThreadType
<1> QED BY <1>16, <1>21, <1>22, TypeGroupsNext DEF IInv

LEMMA EmittedKeeps ==
  ASSUME IInv, Emitted
  PROVE  IInv'
<1>1. /\ TypeOK /\ StoreInv /\ ReplyInv
      /\ StoreType /\ ReplyType /\ GuiType /\ ThreadType
  BY TypeGroups DEF IInv
<1>2. /\ frame # NoFrame /\ frame' = NoFrame
      /\ reply' = [reply EXCEPT ![frame.reply] = NoReply]
      /\ UNCHANGED <<data, storeVars, image, loading, loads, jobs, cancelled, posted,
                     threadVars, reader>>
  BY DEF Emitted, Emitting
<1>3. /\ jobs' = jobs /\ cancelled' = cancelled /\ posted' = posted
      /\ underWay' = underWay /\ pc' = pc /\ current' = current
      /\ reader' = reader /\ loads' = loads /\ data' = data /\ image' = image
      /\ cache' = cache /\ unref' = unref /\ cost' = cost /\ timer' = timer
      /\ loading' = loading
  BY <1>2 DEF threadVars, storeVars
<1>4. /\ \A m \in Ids : PairInv(m)
      /\ \A m \in Ids : OneReply(m)
      /\ frame.reply = NoId => frame = NoFrame
  BY <1>1 DEF ReplyInv
<1>5. PICK n \in Ids : n = frame.reply BY <1>1, <1>2, <1>4 DEF GuiType
<1>6. /\ reply[n].live /\ ~reply[n].loading /\ ~data[n].reply /\ ~In(jobs, n)
      /\ n \notin cancelled \cup underWay \cup {current}
  BY <1>4, <1>5 DEF OneReply
<1>7. reply'[n] = NoReply /\ \A m \in Ids : m # n => reply'[m] = reply[m]
  BY <1>1, <1>2, <1>5 DEF ReplyType
<1>8. frame'.reply = NoId /\ NoId \notin Ids BY <1>2, PixmapAssumption DEF NoFrame
<1>9. \A m \in Ids : PairInv(m)'
  <2>1. ASSUME NEW m \in Ids, m # n PROVE PairInv(m)'
    BY <1>3, <1>4, <1>5, <1>7, <1>8, <2>1 DEF PairInv
  <2>2. PairInv(n)' BY <1>3, <1>6, <1>7 DEF PairInv, NoReply
  <2> QED BY <2>1, <2>2
<1>10. \A m \in Ids : OneReply(m)'
  <2>1. ASSUME NEW m \in Ids, m # n PROVE OneReply(m)'
    BY <1>3, <1>4, <1>7, <1>8, <2>1 DEF OneReply
  <2>2. OneReply(n)' BY <1>3, <1>6, <1>7, <1>8 DEF OneReply, NoReply
  <2> QED BY <2>1, <2>2
<1>11. ReplyInv' BY <1>1, <1>2, <1>3, <1>9, <1>10 DEF ReplyInv
<1>12. StoreInv' BY <1>1, <1>2, <1>3, StoreKeeps
<1>13. frame' \in [reply : Ids \cup {NoId}, left : SUBSET Images, handling : BOOLEAN]
  BY <1>2 DEF NoFrame
<1>14. GuiType' /\ StoreType' /\ ReplyType' /\ ThreadType'
  BY <1>1, <1>2, <1>3, <1>13, NoReplyType DEF GuiType, StoreType, ReplyType, ThreadType
<1> QED BY <1>11, <1>12, <1>14, TypeGroupsNext DEF IInv

\* ~QQuickPixmapReader(): queued replies are deleted, and their pixmaps wait no more;
\* those under way are cancelled.
LEMMA DestroyReaderKeeps ==
  ASSUME IInv, DestroyReader
  PROVE  IInv'
<1>1. /\ TypeOK /\ StoreInv /\ ReplyInv
      /\ StoreType /\ ReplyType /\ GuiType /\ ThreadType
  BY TypeGroups DEF IInv
<1> DEFINE under == {n \in underWay : reply[n].loading}
<1>2. /\ frame = NoFrame /\ reader' = "dying" /\ jobs' = <<>>
      /\ cancelled' = cancelled \cup under
      /\ reply' = [n \in Ids |->
           IF n \in ToSet(jobs) THEN NoReply
           ELSE [reply[n] EXCEPT !.data = @ /\ n \notin under]]
      /\ data' = [n \in Ids |-> [data[n] EXCEPT !.reply = @ /\ n \notin ToSet(jobs),
                                     !.orphan = @ \/ (data[n].reply /\ n \in under)]]
      /\ PostProcessJobs /\ UNCHANGED <<storeVars, guiVars, threadVars>>
  BY DEF DestroyReader, EventLoop
<1>3. /\ frame' = frame /\ loads' = loads /\ image' = image /\ loading' = loading
      /\ underWay' = underWay /\ pc' = pc /\ current' = current
      /\ cache' = cache /\ unref' = unref /\ cost' = cost /\ timer' = timer
  BY <1>2 DEF guiVars, threadVars, storeVars
<1>4. /\ \A m \in Ids : PairInv(m)
      /\ \A m \in Ids : OneReply(m)
  BY <1>1 DEF ReplyInv
<1>5. \A m : m \in ToSet(jobs) <=> In(jobs, m) BY DEF ToSet, In
<1> DEFINE D == [live : BOOLEAN, key : Keys \cup {NoId}, ref : 0 .. Cardinality(Images),
                 status : Statuses, inCache : BOOLEAN, reply : BOOLEAN, orphan : BOOLEAN]
<1>6. ASSUME NEW m \in Ids
      PROVE  /\ data'[m] \in D
             /\ data'[m].live = data[m].live /\ data'[m].key = data[m].key
             /\ data'[m].ref = data[m].ref /\ data'[m].status = data[m].status
             /\ data'[m].inCache = data[m].inCache
             /\ (data'[m].reply <=> data[m].reply /\ ~In(jobs, m))
             /\ (data'[m].orphan <=> data[m].orphan \/ (data[m].reply /\ m \in under))
  <2>1. data[m] \in D BY <1>1 DEF StoreType, DataType
  <2>2. data'[m] = [data[m] EXCEPT !.reply = @ /\ m \notin ToSet(jobs),
                                   !.orphan = @ \/ (data[m].reply /\ m \in under)] BY <1>2
  <2> QED BY <1>5, <2>1, <2>2
<1>7. ASSUME NEW m \in Ids, ~data[m].live PROVE data'[m] = NoData
  <2>1. data[m] = NoData BY <1>1, <1>7 DEF StoreInv, DataInv, OneData
  <2>2. data'[m] = [data[m] EXCEPT !.reply = data[m].reply /\ m \notin ToSet(jobs),
                                   !.orphan = @ \/ (data[m].reply /\ m \in under)] BY <1>2
  <2>3. /\ (data[m].reply /\ m \notin ToSet(jobs)) = FALSE
        /\ (data[m].orphan \/ (data[m].reply /\ m \in under)) = FALSE
    BY <2>1 DEF NoData
  <2>4. data'[m] = [NoData EXCEPT !.reply = FALSE, !.orphan = FALSE] BY <2>1, <2>2, <2>3
  <2> QED BY <2>4 DEF NoData
<1>8. ASSUME NEW m \in Ids, In(jobs, m) PROVE reply'[m] = NoReply
  BY <1>2, <1>5, <1>8
<1>9. ASSUME NEW m \in Ids, ~In(jobs, m)
      PROVE  /\ reply'[m] \in ReplyRecord
             /\ reply'[m].live = reply[m].live /\ reply'[m].loading = reply[m].loading
             /\ reply'[m].event = reply[m].event
             /\ reply'[m].deleteLater = reply[m].deleteLater
             /\ (reply'[m].data <=> reply[m].data /\ m \notin under)
  <2>1. reply[m] \in ReplyRecord BY <1>1 DEF ReplyType
  <2>2. reply'[m] = [reply[m] EXCEPT !.data = @ /\ m \notin under] BY <1>2, <1>5, <1>9
  <2> QED BY <2>1, <2>2 DEF ReplyRecord
<1>j. jobs' = <<>> BY <1>2
<1>10. \A m : ~In(jobs', m) BY <1>j DEF In
<1>u. \A m : m \in under <=> m \in underWay /\ reply[m].loading OBVIOUS
<1> HIDE DEF D, under
<1>11. DataInv(data', unref', image')
  <2>1. ASSUME NEW m \in Ids PROVE OneData(data', unref, image, m)
    <3>1. OneData(data, unref, image, m) BY <1>1 DEF StoreInv, DataInv
    <3> QED BY <1>6, <1>7, <3>1 DEF OneData
  <2> QED BY <1>1, <1>3, <2>1 DEF StoreInv, DataInv
<1>12. CachedInv(data', cache') BY <1>1, <1>3, <1>6 DEF StoreInv, StoreType, CachedInv
<1>13. TotalCost(unref, data') = TotalCost(unref, data)
  <2>1. \A m \in Ids : In(unref, m) => data'[m].key = data[m].key BY <1>6
  <2> QED BY <1>1, <2>1, TotalSame DEF StoreType
<1>14. StoreInv' BY <1>1, <1>3, <1>11, <1>12, <1>13 DEF StoreInv
<1>15. \A m \in Ids : PairInv(m)'
  <2>1. ASSUME NEW m \in Ids, In(jobs, m) PROVE PairInv(m)'
    BY <1>6, <1>8, <2>1 DEF PairInv, NoReply
  <2>2. ASSUME NEW m \in Ids, ~In(jobs, m) PROVE PairInv(m)'
    <3>1. PairInv(m) /\ reader' = "dying" BY <1>2, <1>4
    <3>2. /\ data'[m].live = data[m].live /\ (data'[m].reply <=> data[m].reply)
          /\ (data'[m].orphan <=> data[m].orphan \/ (data[m].reply /\ m \in under))
      BY <1>6, <2>2
    <3>3. reply'[m].live = reply[m].live /\ (reply'[m].data <=> reply[m].data /\ m \notin under)
      BY <1>9, <2>2
    <3> QED BY <1>3, <3>1, <3>2, <3>3 DEF PairInv
  <2> QED BY <2>1, <2>2
<1>16. \A m \in Ids : OneReply(m)'
  <2>1. ASSUME NEW m \in Ids, In(jobs, m) PROVE OneReply(m)'
    <3>1. /\ ~reply[m].loading /\ frame.reply # m
          /\ m \notin cancelled \cup underWay \cup {current}
      BY <1>4, <2>1 DEF OneReply
    <3> QED BY <1>2, <1>3, <1>u, <1>8, <1>10, <2>1, <3>1 DEF OneReply, NoReply
  <2>2. ASSUME NEW m \in Ids, ~In(jobs, m) PROVE OneReply(m)'
    <3>1. OneReply(m) /\ cancelled' = cancelled \cup under BY <1>2, <1>4
    <3>2. data'[m].reply => data[m].reply BY <1>6
    <3>3. /\ reply'[m].live = reply[m].live /\ reply'[m].loading = reply[m].loading
          /\ reply'[m].event = reply[m].event /\ reply'[m].deleteLater = reply[m].deleteLater
          /\ (reply'[m].data <=> reply[m].data /\ m \notin under)
      BY <1>9, <2>2
    <3> QED BY <1>3, <1>10, <1>u, <3>1, <3>2, <3>3 DEF OneReply
  <2> QED BY <2>1, <2>2
<1>17. ReplyInv'
  <2>1. Once(jobs') BY <1>j DEF Once
  <2> QED BY <1>1, <1>2, <1>3, <1>15, <1>16, <2>1 DEF ReplyInv
<1>18. GuiType' /\ StoreType' /\ ReplyType' /\ ThreadType'
  <2>1. GuiType' /\ ThreadType' BY <1>1, <1>2, <1>3 DEF GuiType, ThreadType
  <2>2. data' \in DataType
    <3>1. data' = [n \in Ids |-> data'[n]] BY <1>2
    <3>2. data' \in [Ids -> D] BY <1>6, <3>1
    <3> QED BY <3>2 DEF DataType, D
  <2>3. reply' \in [Ids -> ReplyRecord]
    <3>1. reply' = [n \in Ids |-> reply'[n]] BY <1>2
    <3> QED BY <1>8, <1>9, <3>1, NoReplyType
  <2>4. cancelled' \subseteq Ids BY <1>1, <1>2, <1>u DEF ReplyType, ThreadType
  <2>5. posted' \in BOOLEAN BY <1>1, <1>2 DEF ReplyType, PostProcessJobs
  <2>6. jobs' \in Seq(Ids) BY <1>j
  <2>7. StoreType' BY <1>1, <1>3, <2>2 DEF StoreType
  <2>8. ReplyType' BY <2>3, <2>4, <2>5, <2>6 DEF ReplyType
  <2> QED BY <2>1, <2>7, <2>8
<1> QED BY <1>14, <1>17, <1>18, TypeGroupsNext DEF IInv

-----------------------------------------------------------------------------
(* The steps of the reader thread.                                         *)

LEMMA ThreadKeeps ==
  ASSUME IInv, UNCHANGED guiThreadVars, ReplyType', ThreadType', ReplyInv'
  PROVE  IInv'
<1>1. TypeOK /\ StoreInv /\ StoreType /\ GuiType BY TypeGroups DEF IInv
<1>2. /\ frame' = frame /\ loads' = loads /\ image' = image /\ loading' = loading
      /\ data' = data /\ cache' = cache /\ unref' = unref /\ cost' = cost /\ timer' = timer
      /\ UNCHANGED <<data, storeVars>>
  BY DEF guiThreadVars, guiVars, storeVars
<1>3. StoreInv' BY <1>1, <1>2, StoreKeeps
<1>4. GuiType' /\ StoreType' BY <1>1, <1>2 DEF GuiType, StoreType
<1> QED BY <1>3, <1>4, TypeGroupsNext DEF IInv

\* The steps that leave the replies and what is queued and cancelled.
LEMMA QuietKeeps ==
  ASSUME IInv, Run \/ Event \/ ProcessJob \/ Quit \/ (\E n \in Ids : RequestDone(n))
  PROVE  IInv'
<1>1. TypeOK /\ StoreInv /\ ReplyInv /\ ReplyType /\ ThreadType BY TypeGroups DEF IInv
<1>2. /\ UNCHANGED guiThreadVars
      /\ reply' = reply /\ jobs' = jobs /\ cancelled' = cancelled
      /\ posted' = posted \/ posted' = FALSE
      /\ data' = data /\ frame' = frame
  BY DEF Run, Event, ProcessJob, Quit, RequestDone, readerVars, guiThreadVars, guiVars
<1>3. /\ \A m \in Ids : PairInv(m)
      /\ \A m \in Ids : OneReply(m)
      /\ Once(jobs) /\ current \notin underWay
      /\ (current = NoId <=> pc \notin {"process", "answer"})
      /\ (frame.reply = NoId => frame = NoFrame)
      /\ (reader # "there" => jobs = <<>>)
  BY <1>1 DEF ReplyInv
<1>4. /\ reader' = reader \/ (reader = "dying" /\ reader' = "gone")
      /\ underWay' \subseteq Ids /\ current' \in Ids \cup {NoId}
      /\ pc' \in {"start", "idle", "jobs", "process", "answer", "done"}
      /\ \A m \in Ids : m \in underWay' \cup {current'} => m \in underWay \cup {current}
      /\ current' \notin underWay'
      /\ current' = NoId <=> pc' \notin {"process", "answer"}
  <2>0. NoId \notin Ids /\ underWay \subseteq Ids /\ current \in Ids \cup {NoId}
    BY <1>1, PixmapAssumption DEF ThreadType
  <2>1. CASE Run BY <1>3, <2>0, <2>1 DEF Run
  <2>2. CASE Event BY <1>3, <2>0, <2>2 DEF Event
  <2>3. CASE ProcessJob BY <1>3, <2>0, <2>3 DEF ProcessJob
  <2>4. CASE Quit BY <1>3, <2>0, <2>4 DEF Quit
  <2>5. ASSUME NEW n \in Ids, RequestDone(n)
        PROVE  /\ reader' = reader
               /\ underWay' \subseteq Ids /\ current' \in Ids \cup {NoId}
               /\ pc' \in {"start", "idle", "jobs", "process", "answer", "done"}
               /\ \A m \in Ids : m \in underWay' \cup {current'} => m \in underWay \cup {current}
               /\ current' \notin underWay'
               /\ current' = NoId <=> pc' \notin {"process", "answer"}
    BY <1>3, <2>0, <2>5 DEF RequestDone
  <2> QED BY <2>1, <2>2, <2>3, <2>4, <2>5
<1>5. \A m \in Ids : PairInv(m)' BY <1>2, <1>3, <1>4 DEF PairInv
<1>6. \A m \in Ids : OneReply(m)' BY <1>2, <1>3, <1>4 DEF OneReply
<1>7. ReplyInv' BY <1>2, <1>3, <1>4, <1>5, <1>6 DEF ReplyInv
<1>8. ReplyType' BY <1>1, <1>2 DEF ReplyType
<1>9. ThreadType' BY <1>1, <1>4 DEF ThreadType
<1> QED BY <1>2, <1>7, <1>8, <1>9, ThreadKeeps

\* postReply(): a job that was not cancelled has its answer.
LEMMA PostReplyKeeps ==
  ASSUME IInv, PostReply
  PROVE  IInv'
<1>1. TypeOK /\ StoreInv /\ ReplyInv /\ ReplyType /\ ThreadType BY TypeGroups DEF IInv
<1>2. PICK e \in {"ready", "error"} :
        reply' = IF current \in cancelled THEN reply
                 ELSE [reply EXCEPT ![current].loading = FALSE, ![current].event = e]
  BY DEF PostReply
<1>3. /\ UNCHANGED guiThreadVars /\ data' = data /\ frame' = frame
      /\ jobs' = jobs /\ cancelled' = cancelled /\ underWay' = underWay /\ reader' = reader
      /\ pc = "answer" /\ current' = NoId /\ pc' \in {"jobs", "idle"}
      /\ posted' \in {posted, TRUE}
  BY DEF PostReply, guiThreadVars, guiVars
<1>4. /\ \A m \in Ids : PairInv(m)
      /\ \A m \in Ids : OneReply(m)
      /\ Once(jobs) /\ current \notin underWay
      /\ (current = NoId <=> pc \notin {"process", "answer"})
      /\ (frame.reply = NoId => frame = NoFrame)
      /\ (reader # "there" => jobs = <<>>)
  BY <1>1 DEF ReplyInv
<1>5. PICK n \in Ids : n = current BY <1>1, <1>3, <1>4 DEF ThreadType
<1>6. NoId \notin Ids /\ underWay \subseteq Ids BY <1>1, PixmapAssumption DEF ThreadType
<1>7. /\ \A m \in Ids : m # n => reply'[m] = reply[m]
      /\ reply' \in [Ids -> ReplyRecord]
      /\ reply'[n].live = reply[n].live /\ reply'[n].data = reply[n].data
      /\ reply'[n].deleteLater = reply[n].deleteLater
      /\ \/ n \in cancelled /\ reply'[n] = reply[n]
         \/ n \notin cancelled /\ ~reply'[n].loading
  <2>1. reply \in [Ids -> ReplyRecord] /\ reply[n] \in ReplyRecord BY <1>1 DEF ReplyType
  <2>2. [reply[n] EXCEPT !.loading = FALSE, !.event = e] \in ReplyRecord
    BY <2>1 DEF ReplyRecord
  <2>3. CASE n \in cancelled BY <1>2, <1>5, <2>1, <2>3
  <2>4. CASE n \notin cancelled
    <3>1. reply' = [reply EXCEPT ![n] = [reply[n] EXCEPT !.loading = FALSE, !.event = e]]
      BY <1>2, <1>5, <2>1, <2>4
    <3>2. reply'[n] = [reply[n] EXCEPT !.loading = FALSE, !.event = e] BY <2>1, <3>1
    <3>3. /\ reply'[n].live = reply[n].live /\ reply'[n].data = reply[n].data
          /\ reply'[n].deleteLater = reply[n].deleteLater /\ ~reply'[n].loading
      BY <2>1, <3>2 DEF ReplyRecord
    <3> QED BY <2>1, <2>2, <2>4, <3>1, <3>3
  <2> QED BY <2>3, <2>4
<1>8. \A m \in Ids : PairInv(m)'
  <2>1. \A m \in Ids : reply'[m].live = reply[m].live /\ reply'[m].data = reply[m].data
    BY <1>7
  <2> QED BY <1>3, <1>4, <2>1 DEF PairInv
<1>9. \A m \in Ids : OneReply(m)'
  <2>1. ASSUME NEW m \in Ids, m # n PROVE OneReply(m)'
    BY <1>3, <1>4, <1>6, <1>7, <2>1 DEF OneReply
  <2>2. OneReply(n)'
    <3>1. /\ reply[n].live /\ reply[n].loading /\ ~reply[n].deleteLater
          /\ ~In(jobs, n) /\ frame.reply # n /\ n \notin underWay
          /\ (n \in cancelled => ~reply[n].data) /\ reply[n].event = "none"
      BY <1>4, <1>5 DEF OneReply
    <3> QED BY <1>3, <1>6, <1>7, <3>1 DEF OneReply
  <2> QED BY <2>1, <2>2
<1>10. ReplyInv' BY <1>3, <1>4, <1>6, <1>8, <1>9 DEF ReplyInv
<1>11. ReplyType' BY <1>1, <1>3, <1>7 DEF ReplyType
<1>12. ThreadType' BY <1>1, <1>3 DEF ThreadType
<1> QED BY <1>3, <1>10, <1>11, <1>12, ThreadKeeps

\* processJobs(): what was cancelled waits to be deleted, and one job leaves the queue.
LEMMA ProcessJobsKeeps ==
  ASSUME IInv, ProcessJobs
  PROVE  IInv'
<1>1. TypeOK /\ StoreInv /\ ReplyInv /\ ReplyType /\ ThreadType BY TypeGroups DEF IInv
<1> DEFINE dropped == [n \in Ids |-> [reply[n] EXCEPT !.deleteLater = @ \/ n \in cancelled]]
           usable == {x \in DOMAIN jobs : Usable(jobs[x])}
<1>2. /\ UNCHANGED guiThreadVars /\ data' = data /\ frame' = frame
      /\ posted' = posted /\ reader' = reader
      /\ pc = "jobs" /\ cancelled' = {} /\ underWay' = underWay \ cancelled
  BY DEF ProcessJobs, guiThreadVars, guiVars
<1>3. \/ pc' = "idle" /\ reply' = dropped /\ UNCHANGED <<jobs, current>>
      \/ \E x \in usable :
           /\ current' = jobs[x] /\ jobs' = RemoveAt(jobs, x) /\ pc' = "process"
           /\ reply' = [dropped EXCEPT ![jobs[x]].loading = TRUE]
  BY DEF ProcessJobs
<1>4. /\ \A m \in Ids : PairInv(m)
      /\ \A m \in Ids : OneReply(m)
      /\ Once(jobs) /\ current = NoId
      /\ (frame.reply = NoId => frame = NoFrame)
      /\ (reader # "there" => jobs = <<>>)
  BY <1>1, <1>2 DEF ReplyInv
<1>5. NoId \notin Ids /\ underWay \subseteq Ids /\ jobs \in Seq(Ids)
  BY <1>1, PixmapAssumption DEF ThreadType, ReplyType
<1>6. dropped \in [Ids -> ReplyRecord]
      /\ \A m \in Ids :
           /\ dropped[m].live = reply[m].live /\ dropped[m].data = reply[m].data
           /\ dropped[m].loading = reply[m].loading /\ dropped[m].event = reply[m].event
           /\ (dropped[m].deleteLater <=> reply[m].deleteLater \/ m \in cancelled)
  <2>1. ASSUME NEW m \in Ids
        PROVE  /\ dropped[m] \in ReplyRecord
               /\ dropped[m].live = reply[m].live /\ dropped[m].data = reply[m].data
               /\ dropped[m].loading = reply[m].loading /\ dropped[m].event = reply[m].event
               /\ (dropped[m].deleteLater <=> reply[m].deleteLater \/ m \in cancelled)
    <3>1. reply[m] \in ReplyRecord BY <1>1 DEF ReplyType
    <3>2. dropped[m] = [reply[m] EXCEPT !.deleteLater = @ \/ m \in cancelled] OBVIOUS
    <3> HIDE DEF dropped
    <3> QED BY <3>1, <3>2 DEF ReplyRecord
  <2> QED BY <2>1
<1>s. usable \subseteq 1 .. Len(jobs) BY <1>5
<1> HIDE DEF dropped, usable
<1>7. CASE pc' = "idle" /\ reply' = dropped /\ UNCHANGED <<jobs, current>>
  <2>1. \A m \in Ids : PairInv(m)' BY <1>2, <1>4, <1>6, <1>7 DEF PairInv
  <2>2. \A m \in Ids : OneReply(m)' BY <1>2, <1>4, <1>5, <1>6, <1>7 DEF OneReply
  <2>3. ReplyInv' BY <1>2, <1>4, <1>5, <1>7, <2>1, <2>2 DEF ReplyInv
  <2>4. ReplyType' /\ ThreadType' BY <1>1, <1>2, <1>6, <1>7 DEF ReplyType, ThreadType
  <2> QED BY <1>2, <2>3, <2>4, ThreadKeeps
<1>8. CASE \E x \in usable :
             /\ current' = jobs[x] /\ jobs' = RemoveAt(jobs, x) /\ pc' = "process"
             /\ reply' = [dropped EXCEPT ![jobs[x]].loading = TRUE]
  <2>1. PICK x \in 1 .. Len(jobs) :
          /\ current' = jobs[x] /\ jobs' = RemoveAt(jobs, x) /\ pc' = "process"
          /\ reply' = [dropped EXCEPT ![jobs[x]].loading = TRUE]
    BY <1>s, <1>8
  <2>2. PICK n \in Ids : n = jobs[x] BY <1>5, <2>1
  <2>3. In(jobs, n) BY <1>5, <2>1, <2>2 DEF In
  <2>4. /\ jobs' \in Seq(Ids) /\ Once(jobs')
        /\ \A m : In(jobs', m) <=> In(jobs, m) /\ m # n
    BY <1>4, <1>5, <2>1, <2>2, TakenOut
  <2>5. /\ reply[n].live /\ reply[n].data /\ ~reply[n].loading /\ reply[n].event = "none"
        /\ ~reply[n].deleteLater /\ frame.reply # n /\ n \notin cancelled /\ n \notin underWay
    BY <1>4, <2>3 DEF OneReply
  <2>6. /\ reply' \in [Ids -> ReplyRecord]
        /\ \A m \in Ids : m # n => reply'[m] = dropped[m]
        /\ reply'[n].live /\ reply'[n].data /\ reply'[n].loading
        /\ reply'[n].event = "none" /\ ~reply'[n].deleteLater
    <3>1. dropped[n] \in ReplyRecord BY <1>6
    <3>2. [dropped[n] EXCEPT !.loading = TRUE] \in ReplyRecord BY <3>1 DEF ReplyRecord
    <3>3. reply' = [dropped EXCEPT ![n] = [dropped[n] EXCEPT !.loading = TRUE]]
      BY <1>6, <2>1, <2>2
    <3>4. reply'[n] = [dropped[n] EXCEPT !.loading = TRUE] BY <1>6, <3>3
    <3>5. /\ reply'[n].live = dropped[n].live /\ reply'[n].data = dropped[n].data
          /\ reply'[n].loading /\ reply'[n].event = dropped[n].event
          /\ reply'[n].deleteLater = dropped[n].deleteLater
      BY <3>1, <3>4 DEF ReplyRecord
    <3>6. dropped[n].live /\ dropped[n].data /\ dropped[n].event = "none"
          /\ ~dropped[n].deleteLater
      BY <1>6, <2>5
    <3> QED BY <1>6, <3>2, <3>3, <3>5, <3>6
  <2>7. \A m \in Ids : PairInv(m)'
    <3>1. ASSUME NEW m \in Ids, m # n PROVE PairInv(m)'
      BY <1>2, <1>4, <1>6, <2>6, <3>1 DEF PairInv
    <3>2. PairInv(n)' BY <1>2, <1>4, <2>5, <2>6 DEF PairInv
    <3> QED BY <3>1, <3>2
  <2>8. \A m \in Ids : OneReply(m)'
    <3>1. ASSUME NEW m \in Ids, m # n PROVE OneReply(m)'
      BY <1>2, <1>4, <1>5, <1>6, <2>1, <2>2, <2>4, <2>6, <3>1 DEF OneReply
    <3>2. OneReply(n)' BY <1>2, <1>5, <2>1, <2>4, <2>5, <2>6 DEF OneReply
    <3> QED BY <3>1, <3>2
  <2>9. ReplyInv'
    <3>1. reader # "there" => jobs' = <<>> BY <1>4, <1>5, <2>1
    <3> QED BY <1>2, <1>4, <1>5, <2>1, <2>2, <2>4, <2>5, <2>7, <2>8, <3>1 DEF ReplyInv
  <2>10. ReplyType' /\ ThreadType'
    BY <1>1, <1>2, <2>1, <2>2, <2>4, <2>6 DEF ReplyType, ThreadType
  <2> QED BY <1>2, <2>9, <2>10, ThreadKeeps
<1> QED BY <1>3, <1>7, <1>8

-----------------------------------------------------------------------------
(* The theorems.                                                           *)

LEMMA InitHolds == ASSUME Init PROVE IInv
<1>1. /\ data = [n \in Ids |-> NoData] /\ reply = [n \in Ids |-> NoReply]
      /\ cache = [k \in Keys |-> NoId] /\ unref = <<>> /\ cost = 0 /\ timer = FALSE
      /\ image = [i \in Images |-> [pix |-> NoId, status |-> "null"]]
      /\ loading = Nobody /\ frame = NoFrame /\ loads = 0
      /\ reader = "none" /\ jobs = <<>> /\ cancelled = {}
      /\ underWay = {} /\ pc = "start" /\ current = NoId /\ posted = FALSE
  BY DEF Init
<1>2. NoId \notin Ids /\ CacheLimit \in Nat /\ MaxLoads \in Nat BY PixmapAssumption
<1>3. <<>> \in Seq(Ids) /\ \A n : ~In(<<>>, n) BY DEF In
<1>4. data \in DataType
  <2>1. NoData \in [live : BOOLEAN, key : Keys \cup {NoId}, ref : 0 .. Cardinality(Images),
                    status : Statuses, inCache : BOOLEAN, reply : BOOLEAN, orphan : BOOLEAN]
    BY PixmapAssumption, FS_CardinalityType DEF NoData, Statuses
  <2> QED BY <1>1, <2>1 DEF DataType
<1>5. StoreType BY <1>1, <1>3, <1>4 DEF StoreType
<1>6. ReplyType BY <1>1, <1>3, NoReplyType DEF ReplyType
<1>7. GuiType
  <2>1. frame \in [reply : Ids \cup {NoId}, left : SUBSET Images, handling : BOOLEAN]
    BY <1>1 DEF NoFrame
  <2>2. image \in [Images -> [pix : Ids \cup {NoId}, status : Statuses]]
    BY <1>1 DEF Statuses
  <2> QED BY <1>1, <1>2, <2>1, <2>2 DEF GuiType
<1>8. ThreadType BY <1>1 DEF ThreadType
<1>9. DataInv(data, unref, image)
  <2>1. ASSUME NEW n \in Ids PROVE OneData(data, unref, image, n)
    <3>1. UsersIn(image, n) = {} BY <1>1, <1>2 DEF UsersIn
    <3>2. Cardinality(UsersIn(image, n)) = 0 BY <3>1, FS_EmptySet
    <3>3. data[n] = NoData BY <1>1
    <3> QED BY <1>1, <1>3, <3>2, <3>3 DEF OneData, NoData
  <2> QED BY <1>1, <2>1 DEF DataInv, Once
<1>10. CachedInv(data, cache) BY <1>1 DEF CachedInv, NoData
<1>11. cost = TotalCost(unref, data) /\ cost <= CacheLimit
  <2>1. Costs(<<>>, data) = <<>> /\ Keyed(<<>>, data) BY DEF Costs, Keyed
  <2>2. TotalCost(<<>>, data) = 0 BY <1>3, <2>1, CostsAre, SumSmall
  <2> QED BY <1>1, <1>2, <2>2
<1>12. StoreInv BY <1>1, <1>9, <1>10, <1>11 DEF StoreInv
<1>13. \A n \in Ids : PairInv(n) BY <1>1 DEF PairInv, NoReply, NoData
<1>14. \A n \in Ids : OneReply(n) BY <1>1, <1>2, <1>3 DEF OneReply, NoReply, NoFrame
<1>15. ReplyInv BY <1>1, <1>13, <1>14 DEF ReplyInv, Once
<1> QED BY <1>5, <1>6, <1>7, <1>8, <1>12, <1>15, TypeGroups DEF IInv

LEMMA StutterKeeps == ASSUME IInv, UNCHANGED vars PROVE IInv'
<1>1. TypeOK /\ StoreInv /\ ReplyInv BY DEF IInv
<1>2. /\ UNCHANGED guiThreadVars /\ data' = data /\ frame' = frame
      /\ reply' = reply /\ jobs' = jobs /\ cancelled' = cancelled /\ posted' = posted
      /\ underWay' = underWay /\ pc' = pc /\ current' = current /\ reader' = reader
  BY DEF vars, readerVars, threadVars, guiThreadVars, guiVars
<1>3. ReplyType' /\ ThreadType' BY <1>1, <1>2, TypeGroups DEF ReplyType, ThreadType
<1>4. \A m \in Ids : PairInv(m)' BY <1>1, <1>2 DEF ReplyInv, PairInv
<1>5. \A m \in Ids : OneReply(m)' BY <1>1, <1>2 DEF ReplyInv, OneReply
<1>6. ReplyInv' BY <1>1, <1>2, <1>4, <1>5 DEF ReplyInv
<1> QED BY <1>2, <1>3, <1>6, ThreadKeeps

\* One step per action.
LEMMA NextKeeps == ASSUME IInv, [Next]_vars PROVE IInv'
<1>1. CASE ReaderStep
  BY <1>1, QuietKeeps, ProcessJobsKeeps, PostReplyKeeps DEF ReaderStep
<1>2. CASE GuiStep
  BY <1>2, LoadCachedKeeps, LoadWithoutEngineKeeps, EmittedKeeps, LoadSyncKeeps,
     LoadAsyncKeeps, DeleteKeeps, AnswerKeeps, EmitKeeps DEF GuiStep
<1>3. CASE Program
  <2>1. CASE \E i \in Images : LoadEmptyUrl(i) \/ DestroyImage(i) BY <2>1, LeaveKeeps
  <2>2. CASE \E i \in Images, k \in Keys, async, cached \in BOOLEAN :
               SetSource(i, k, async, cached)
    BY <2>2, SetSourceKeeps
  <2>3. CASE PurgeCache BY <2>3, ExpiryKeeps
  <2>4. CASE DestroyReader BY <2>4, DestroyReaderKeeps
  <2> QED BY <1>3, <2>1, <2>2, <2>3, <2>4 DEF Program
<1>4. CASE TimerEvent BY <1>4, ExpiryKeeps
<1>5. CASE \E n \in Ids : RequestDone(n) BY <1>5, QuietKeeps
<1>6. CASE UNCHANGED vars BY <1>6, StutterKeeps
<1> QED BY <1>1, <1>2, <1>3, <1>4, <1>5, <1>6 DEF Next

\* The inductive invariant holds in every state of the pixmap cache.
THEOREM Invariance == Spec => []IInv
<1>1. Init => IInv BY InitHolds
<1>2. IInv /\ [Next]_vars => IInv' BY NextKeeps
<1> QED BY <1>1, <1>2, PTL DEF Spec

\* QQuickPixmapData::reply and QQuickPixmapReply::data point to what is there, and the
\* reader's jobs, cancelled, networkJobs and asyncResponses hold no reply that the GUI
\* thread has deleted, in whatever order the two threads load, cancel, answer and quit,
\* but for data->reply of a pixmap whose load was under way when the reader went.
THEOREM PointersStayLive == Spec => []PointersAreLive
<1>1. ASSUME IInv PROVE PointersAreLive
  <2>1. \A n \in Ids : PairInv(n) /\ OneReply(n) BY <1>1 DEF IInv, ReplyInv
  <2>2. jobs \in Seq(Ids) /\ cancelled \subseteq Ids /\ underWay \subseteq Ids
        /\ current \in Ids \cup {NoId}
    BY <1>1 DEF IInv, TypeOK
  <2>3. \A n : n \in ToSet(jobs) <=> In(jobs, n) BY DEF ToSet, In
  <2>4. \A n \in ToSet(jobs) : n \in Ids BY <2>2 DEF ToSet
  <2>5. \A n \in Ids :
          /\ data[n].reply /\ ~data[n].orphan => reply[n].live /\ reply[n].data
          /\ reply[n].live /\ reply[n].data /\ frame.reply # n => data[n].live /\ data[n].reply
    BY <2>1 DEF PairInv
  <2>6. ASSUME NEW n \in ToSet(jobs) \cup cancelled \cup underWay \cup {current}, n # NoId
        PROVE  reply[n].live /\ ~reply[n].deleteLater
    BY <2>1, <2>2, <2>3, <2>4, <2>6 DEF OneReply
  <2> QED BY <2>5, <2>6 DEF PointersAreLive
<1> QED BY <1>1, Invariance, PTL

\* The store counts the users of every pixmap, lists each that has none once, pays for
\* the list within the limit while the timer runs, and finds what is cached.
THEOREM CacheStaysExact == Spec => []CacheIsExact
<1>1. ASSUME IInv PROVE CacheIsExact
  <2>1. /\ TypeOK /\ DataInv(data, unref, image) /\ CachedInv(data, cache)
        /\ cost = TotalCost(unref, data) /\ cost <= CacheLimit
        /\ unref # <<>> => timer
    BY <1>1 DEF IInv, StoreInv
  <2>2. Once(unref) /\ \A n \in Ids : OneData(data, unref, image, n) BY <2>1 DEF DataInv
  <2>3. \A n : n \in ToSet(unref) <=> In(unref, n) BY DEF ToSet, In
  <2>4. ReferencesAreCounted
    <3>1. \A n \in Ids : Users(n) = UsersIn(image, n) BY DEF Users, UsersIn
    <3>2. ASSUME NEW n \in Ids
          PROVE  /\ data[n].ref = Cardinality(Users(n))
                 /\ (n \in ToSet(unref)) = (data[n].live /\ data[n].ref = 0)
      BY <2>2, <2>3, <3>1 DEF OneData
    <3> QED BY <3>2 DEF ReferencesAreCounted
  <2>5. UnreferencedIsPaid BY <2>1, <2>2 DEF UnreferencedIsPaid, IsInjective, Once
  <2>6. CachedIsFound BY <2>1 DEF CachedIsFound, CachedInv
  <2> QED BY <2>1, <2>4, <2>5, <2>6 DEF CacheIsExact
<1> QED BY <1>1, Invariance, PTL
=============================================================================

---------------------------- MODULE LoaderProofs ----------------------------
(***************************************************************************)
(* LoaderThread proved for any loads: the types, that a synchronous call   *)
(* into the main thread blocks the loader thread, and that a synchronous   *)
(* call into the loader thread returns only with the load processed.       *)
(***************************************************************************)
EXTENDS LoaderThread, SequenceTheorems, TLAPS

\* What initializeEngine() calls does not wait for the loader thread, which waits for
\* it: callMethodInThread() asserts it, and LoaderThread violates it without this.
NoNestedWait == "initLoads" \in Calls => Calls \cap {"sync", "await"} = {}

-----------------------------------------------------------------------------
(* The inductive invariant.                                                *)

\* Calls of completed() lie on mainEvent().
Ordered(s) ==
  \A i \in 1 .. Len(s) : s[i].at = "handler" =>
    ~s[i].sync /\ i < Len(s) /\ s[i + 1].at = "event"

\* A synchronous message is the innermost call of the main thread, and mainSync.
SyncOn(s) == s # <<>> /\ Head(s).at = "handler" /\ Head(s).sync
StackOk(s, sync) ==
  /\ SyncOn(s) => /\ Tail(s) # <<>> /\ Ordered(Tail(s))
                  /\ sync = Head(s).load /\ sync # NoLoad
  /\ ~SyncOn(s) => Ordered(s)
StackInv == StackOk(main, mainSync)

\* The loader thread sleeps nowhere but in callMethodInMain(), and it does while its
\* message is there.
SyncInv ==
  /\ "loader" \in asleep => loader = "callMain"
  /\ mainSync # NoLoad => loader = "callMain" /\ "loader" \in asleep

\* The message that is called stays at the head of the list, whose load it is about.
Busy == {"data", "callMain", "resumed", "complete", "finish"}
LoaderInv ==
  /\ loader = "load" => threadList # <<>>
  /\ loader \in Busy =>
       cur \in Loads /\ (~reply => threadList # <<>> /\ cur = Head(threadList))
  /\ reply => loader \in Busy
  /\ loader \in {"complete", "finish"} => status[cur] \in {"network", "done"}

\* A load that has not been processed is in the list, and callers wait for loads that
\* were asked for.
Listed(l) == \E i \in 1 .. Len(threadList) : threadList[i] = l
Awaits(s, l) == \E i \in 1 .. Len(s) : s[i].at = "call" /\ s[i].load = l
CallInv ==
  /\ \A l \in Loads : status[l] = "loading" => Listed(l)
  /\ \A l \in Loads : Awaits(main, l) => status[l] # "new"

IInv == TypeOK /\ StackInv /\ SyncInv /\ LoaderInv /\ CallInv

-----------------------------------------------------------------------------
(* Stacks.                                                                 *)

\* A frame pushed on a stack.
LEMMA Push ==
  ASSUME NEW s \in Seq(Frames), NEW f \in Frames
  PROVE  /\ <<f>> \o s \in Seq(Frames) /\ <<f>> \o s # <<>>
         /\ Head(<<f>> \o s) = f /\ Tail(<<f>> \o s) = s
         /\ f.at # "handler" /\ Ordered(s) => Ordered(<<f>> \o s)
         /\ \A l : Awaits(<<f>> \o s, l) <=> Awaits(s, l) \/ (f.at = "call" /\ f.load = l)
<1> DEFINE t == <<f>> \o s
<1>1. /\ t \in Seq(Frames) /\ Len(t) = Len(s) + 1 /\ Len(s) \in Nat
      /\ t[1] = f /\ \A i \in 1 .. Len(s) : t[i + 1] = s[i]
  BY ConcatProperties DEF Frames
<1>2. \A i \in 1 .. Len(t) : i = 1 \/ (i - 1 \in 1 .. Len(s) /\ t[i] = s[i - 1])
  BY <1>1
<1>3. t # <<>> /\ Head(t) = f BY <1>1
<1>4. Tail(t) = s
  <2>1. /\ Tail(t) \in Seq(Frames) /\ Len(Tail(t)) = Len(s)
        /\ \A i \in 1 .. Len(s) : Tail(t)[i] = s[i]
    BY <1>1, <1>3, HeadTailProperties
  <2> QED BY <2>1, SeqEqual
<1>5. ASSUME f.at # "handler", Ordered(s) PROVE Ordered(t)
  BY <1>1, <1>2, <1>5 DEF Ordered
<1>6. \A l : Awaits(t, l) <=> Awaits(s, l) \/ (f.at = "call" /\ f.load = l)
  <2> TAKE l
  <2>1. ASSUME Awaits(t, l) PROVE Awaits(s, l) \/ (f.at = "call" /\ f.load = l)
    BY <1>1, <1>2, <2>1 DEF Awaits
  <2>2. ASSUME Awaits(s, l) PROVE Awaits(t, l)
    <3>1. PICK i \in 1 .. Len(s) : s[i].at = "call" /\ s[i].load = l BY <2>2 DEF Awaits
    <3>2. i + 1 \in 1 .. Len(t) /\ t[i + 1] = s[i] BY <1>1
    <3> HIDE DEF t
    <3> QED BY <3>1, <3>2 DEF Awaits
  <2>3. ASSUME f.at = "call", f.load = l PROVE Awaits(t, l)
    <3>1. 1 \in 1 .. Len(t) /\ t[1] = f BY <1>1
    <3> HIDE DEF t
    <3> QED BY <3>1, <2>3 DEF Awaits
  <2> QED BY <2>1, <2>2, <2>3
<1> QED BY <1>1, <1>3, <1>4, <1>5, <1>6, Zenon

\* completed() called by mainEvent().
LEMMA PushCompleted ==
  ASSUME NEW s \in Seq(Frames), NEW f \in Frames, NEW g \in Frames,
         f.at = "handler", ~f.sync, g.at = "event", Ordered(s)
  PROVE  Ordered(<<f>> \o (<<g>> \o s))
<1> DEFINE u == <<g>> \o s
           t == <<f>> \o u
<1>1. u \in Seq(Frames) /\ Ordered(u) /\ Len(u) = Len(s) + 1 /\ u[1] = g /\ Len(s) \in Nat
  BY Push, ConcatProperties
<1>2. /\ Len(t) = Len(u) + 1 /\ t[1] = f /\ \A i \in 1 .. Len(u) : t[i + 1] = u[i]
  BY <1>1, ConcatProperties
<1>3. \A i \in 1 .. Len(t) : i = 1 \/ (i - 1 \in 1 .. Len(u) /\ t[i] = u[i - 1])
  BY <1>1, <1>2
<1>4. t[2] = g BY <1>1, <1>2
<1> HIDE DEF u, t
<1>5. Ordered(t)
  <2> SUFFICES ASSUME NEW i \in 1 .. Len(t), t[i].at = "handler"
               PROVE  ~t[i].sync /\ i < Len(t) /\ t[i + 1].at = "event"
    BY DEF Ordered
  <2>1. CASE i = 1 BY <1>1, <1>2, <1>4, <2>1
  <2>2. CASE i # 1
    <3>1. /\ i - 1 \in 1 .. Len(u) /\ ~u[i - 1].sync /\ i - 1 < Len(u)
          /\ u[i].at = "event" /\ i \in 1 .. Len(u)
      BY <1>1, <1>2, <1>3, <2>2 DEF Ordered
    <3> QED BY <1>1, <1>2, <1>3, <3>1
  <2> QED BY <2>1, <2>2
<1> QED BY <1>5 DEF t, u

\* Two frames at once are two pushes.
LEMMA PushTwo ==
  ASSUME NEW s \in Seq(Frames), NEW f \in Frames, NEW g \in Frames
  PROVE  <<f, g>> \o s = <<f>> \o (<<g>> \o s)
<1>1. /\ <<f>> \in Seq(Frames) /\ <<g>> \in Seq(Frames) /\ <<f, g>> \in Seq(Frames)
      /\ Len(<<f>>) = 1 /\ Len(<<g>>) = 1 /\ Len(<<f, g>>) = 2
      /\ <<f, g>>[1] = f /\ <<f, g>>[2] = g /\ <<f>>[1] = f /\ <<g>>[1] = g
  OBVIOUS
<1>2. /\ <<f>> \o <<g>> \in Seq(Frames) /\ Len(<<f>> \o <<g>>) = 2
      /\ (<<f>> \o <<g>>)[1] = f /\ (<<f>> \o <<g>>)[2] = g
  BY <1>1, ConcatProperties
<1>3. <<f, g>> = <<f>> \o <<g>>
  <2>1. \A i \in 1 .. 2 : <<f, g>>[i] = (<<f>> \o <<g>>)[i] BY <1>1, <1>2
  <2> HIDE DEF Frames
  <2> QED BY <1>1, <1>2, <2>1, SeqEqual, Zenon
<1> QED BY <1>1, <1>3, ConcatAssociative

\* A frame popped.
LEMMA Pop ==
  ASSUME NEW s \in Seq(Frames), s # <<>>
  PROVE  /\ Tail(s) \in Seq(Frames) /\ Head(s) \in Frames
         /\ Ordered(s) => Ordered(Tail(s))
         /\ \A l : Awaits(s, l) <=>
                  Awaits(Tail(s), l) \/ (Head(s).at = "call" /\ Head(s).load = l)
<1>1. /\ Tail(s) \in Seq(Frames) /\ Head(s) \in Frames /\ Len(Tail(s)) = Len(s) - 1
      /\ Len(s) \in Nat \ {0} /\ \A i \in 1 .. Len(Tail(s)) : Tail(s)[i] = s[i + 1]
      /\ Head(s) = s[1]
  BY HeadTailProperties, EmptySeq
<1>2. s = <<Head(s)>> \o Tail(s)
  <2>1. /\ <<Head(s)>> \o Tail(s) \in Seq(Frames) /\ Len(<<Head(s)>> \o Tail(s)) = Len(s)
        /\ \A i \in 1 .. Len(s) : (<<Head(s)>> \o Tail(s))[i] = s[i]
    BY <1>1, ConcatProperties
  <2> QED BY <2>1, SeqEqual
<1>3. Ordered(s) => Ordered(Tail(s)) BY <1>1 DEF Ordered
<1>4. \A l : Awaits(s, l) <=> Awaits(Tail(s), l) \/ (Head(s).at = "call" /\ Head(s).load = l)
  <2> DEFINE u == Tail(s)
             h == Head(s)
  <2>1. u \in Seq(Frames) /\ h \in Frames /\ s = <<h>> \o u BY <1>1, <1>2
  <2> HIDE DEF u, h
  <2>2. \A l : Awaits(<<h>> \o u, l) <=> Awaits(u, l) \/ (h.at = "call" /\ h.load = l)
    BY <2>1, Push
  <2>3. \A l : Awaits(s, l) <=> Awaits(u, l) \/ (h.at = "call" /\ h.load = l)
    BY <2>1, <2>2
  <2> QED BY <2>3 DEF u, h
<1> QED BY <1>1, <1>3, <1>4, Zenon

\* A stack without a synchronous message on top.
LEMMA OrderedOk ==
  ASSUME NEW s \in Seq(Frames), Ordered(s), NEW sync
  PROVE  ~SyncOn(s) /\ StackOk(s, sync)
<1>1. s # <<>> => Head(s) = s[1] /\ 1 \in 1 .. Len(s) BY EmptySeq
<1>2. ~SyncOn(s) BY <1>1 DEF SyncOn, Ordered
<1> QED BY <1>2 DEF StackOk

\* A frame that is no message.
LEMMA PushOk ==
  ASSUME NEW s \in Seq(Frames), NEW f \in Frames, f.at # "handler", Ordered(s), NEW sync
  PROVE  Ordered(<<f>> \o s) /\ StackOk(<<f>> \o s, sync)
  BY Push, OrderedOk

\* The message of a synchronous call, on the frame of a loop.
LEMMA PushSyncOk ==
  ASSUME NEW s \in Seq(Frames), NEW g \in Frames, g.at # "handler", Ordered(s),
         NEW l \in Loads
  PROVE  /\ <<Frame("handler", l, TRUE), g>> \o s \in Seq(Frames)
         /\ StackOk(<<Frame("handler", l, TRUE), g>> \o s, l)
         /\ \A k : Awaits(<<Frame("handler", l, TRUE), g>> \o s, k) <=>
                  Awaits(s, k) \/ (g.at = "call" /\ g.load = k)
<1> DEFINE f == Frame("handler", l, TRUE)
           u == <<g>> \o s
<1>1. f \in Frames /\ f.at = "handler" /\ f.sync /\ f.load = l
  BY DEF Frame, Frames, FrameKinds
<1> HIDE DEF f
<1>2. u \in Seq(Frames) /\ u # <<>> /\ Ordered(u) BY Push
<1>3. \A k : Awaits(u, k) <=> Awaits(s, k) \/ (g.at = "call" /\ g.load = k) BY Push
<1>4. <<f, g>> \o s = <<f>> \o u BY <1>1, PushTwo
<1> HIDE DEF u
<1>5. /\ <<f>> \o u \in Seq(Frames) /\ <<f>> \o u # <<>>
      /\ Head(<<f>> \o u) = f /\ Tail(<<f>> \o u) = u
  BY <1>1, <1>2, Push
<1>6. \A k : Awaits(<<f>> \o u, k) <=> Awaits(u, k) BY <1>1, <1>2, Push
<1>7. StackOk(<<f>> \o u, l)
  BY <1>1, <1>2, <1>5, LoaderAssumption DEF StackOk, SyncOn
<1>8. /\ <<f, g>> \o s \in Seq(Frames) /\ StackOk(<<f, g>> \o s, l)
      /\ \A k : Awaits(<<f, g>> \o s, k) <=> Awaits(s, k) \/ (g.at = "call" /\ g.load = k)
  <2> DEFINE t == <<f, g>> \o s
  <2>1. t = <<f>> \o u BY <1>4
  <2> HIDE DEF t
  <2>2. t \in Seq(Frames) /\ StackOk(t, l) BY <2>1, <1>5, <1>7
  <2>3. \A k : Awaits(t, k) <=> Awaits(u, k) BY <2>1, <1>6
  <2> QED BY <1>3, <2>2, <2>3 DEF t
<1> QED BY <1>8 DEF f

\* completed(), on mainEvent().
LEMMA PushCompletedOk ==
  ASSUME NEW s \in Seq(Frames), Ordered(s), NEW l \in Loads, NEW sync
  PROVE  /\ <<Frame("handler", l, FALSE), Plain("event")>> \o s \in Seq(Frames)
         /\ Ordered(<<Frame("handler", l, FALSE), Plain("event")>> \o s)
         /\ StackOk(<<Frame("handler", l, FALSE), Plain("event")>> \o s, sync)
         /\ \A k : Awaits(<<Frame("handler", l, FALSE), Plain("event")>> \o s, k) <=>
                  Awaits(s, k)
<1> DEFINE f == Frame("handler", l, FALSE)
           g == Plain("event")
           u == <<g>> \o s
           t == <<f>> \o u
<1>1. /\ f \in Frames /\ f.at = "handler" /\ ~f.sync
      /\ g \in Frames /\ g.at = "event"
  BY DEF Frame, Frames, FrameKinds, Plain
<1> HIDE DEF f, g
<1>2. u \in Seq(Frames) /\ \A k : Awaits(u, k) <=> Awaits(s, k) BY <1>1, Push
<1>3. Ordered(t) BY <1>1, PushCompleted
<1>4. <<f, g>> \o s = t BY <1>1, PushTwo
<1> HIDE DEF u
<1>5. t \in Seq(Frames) /\ \A k : Awaits(t, k) <=> Awaits(u, k) BY <1>1, <1>2, Push
<1> HIDE DEF t
<1>6. StackOk(t, sync) BY <1>3, <1>5, OrderedOk
<1>7. /\ <<f, g>> \o s \in Seq(Frames) /\ Ordered(<<f, g>> \o s)
      /\ StackOk(<<f, g>> \o s, sync)
      /\ \A k : Awaits(<<f, g>> \o s, k) <=> Awaits(s, k)
  <2> DEFINE v == <<f, g>> \o s
  <2>1. v = t BY <1>4
  <2> HIDE DEF v
  <2> QED BY <1>2, <1>3, <1>5, <1>6, <2>1 DEF v
<1> QED BY <1>7 DEF f, g

-----------------------------------------------------------------------------
(* The loops of the main thread.                                           *)

\* mainEvent() leaves a well-formed stack, on which the same calls wait.
LEMMA MainLoopOk ==
  ASSUME NEW rest \in Seq(Frames), Ordered(rest), NEW sync \in Loads \cup {NoLoad},
         mainList \in Seq(Loads), NEW processing \in BOOLEAN,
         MainLoop(rest, sync, processing)
  PROVE  /\ main' \in Seq(Frames) /\ StackOk(main', sync)
         /\ \A k : Awaits(main', k) <=> Awaits(rest, k)
         /\ mainList' \in Seq(Loads) /\ mainProcessing' \in BOOLEAN
<1>1. CASE sync # NoLoad /\ main' = <<Frame("handler", sync, TRUE), Plain("event")>> \o rest
             /\ mainProcessing' = processing /\ UNCHANGED mainList
  <2>1. Plain("event") \in Frames /\ Plain("event").at = "event"
    BY DEF Plain, Frame, Frames, FrameKinds
  <2>2. sync \in Loads BY <1>1
  <2> QED BY <1>1, <2>1, <2>2, PushSyncOk
<1>2. CASE mainList # <<>>
             /\ main' = <<Frame("handler", Head(mainList), FALSE), Plain("event")>> \o rest
             /\ mainProcessing' = processing /\ mainList' = Tail(mainList)
  <2>1. Head(mainList) \in Loads /\ Tail(mainList) \in Seq(Loads)
    BY <1>2, HeadTailProperties
  <2> QED BY <1>2, <2>1, PushCompletedOk
<1>3. CASE main' = rest /\ mainProcessing' = FALSE /\ UNCHANGED mainList
  BY <1>3, OrderedOk
<1> QED BY <1>1, <1>2, <1>3 DEF MainLoop

\* callMethodInThread() keeps its frame unless there is nothing left to do.
LEMMA CallLoopOk ==
  ASSUME NEW rest \in Seq(Frames), Ordered(rest), NEW sync \in Loads \cup {NoLoad},
         NEW frame \in Frames, frame.at = "call",
         NEW list, NEW sleepers, NEW waiting \in BOOLEAN,
         CallLoop(frame, rest, sync, list, sleepers, waiting)
  PROVE  /\ main' \in Seq(Frames) /\ StackOk(main', sync)
         /\ asleep' \in {sleepers, sleepers \cup {"main"}} /\ mainThreadWaiting' \in BOOLEAN
         /\ \A k : Awaits(main', k) =>
                  Awaits(rest, k) \/ (k = frame.load /\ (sync # NoLoad \/ list # <<>>))
         /\ \A k : Awaits(rest, k) => Awaits(main', k)
         /\ sync # NoLoad \/ list # <<>> => Awaits(main', frame.load)
         /\ UNCHANGED <<shutdown, threadProcessing, mainProcessing, mainList>>
<1>0. UNCHANGED <<shutdown, threadProcessing, mainProcessing, mainList>> BY DEF CallLoop
<1>1. CASE sync # NoLoad /\ main' = <<Frame("handler", sync, TRUE), frame>> \o rest
             /\ mainThreadWaiting' = waiting /\ asleep' = sleepers
  <2>1. sync \in Loads BY <1>1
  <2>2. /\ main' \in Seq(Frames) /\ StackOk(main', sync)
        /\ \A k : Awaits(main', k) <=> Awaits(rest, k) \/ frame.load = k
    BY <1>1, <2>1, PushSyncOk
  <2> QED BY <1>0, <1>1, <2>2
<1>2. CASE sync = NoLoad /\ list # <<>> /\ main' = <<frame>> \o rest
             /\ mainThreadWaiting' = waiting /\ asleep' = sleepers \cup {"main"}
  <2>1. /\ main' \in Seq(Frames) /\ StackOk(main', sync)
        /\ \A k : Awaits(main', k) <=> Awaits(rest, k) \/ frame.load = k
    BY <1>2, Push, PushOk
  <2> QED BY <1>0, <1>2, <2>1
<1>3. CASE sync = NoLoad /\ list = <<>>
             /\ main' = (IF frame.sync THEN <<Frame("await", frame.load, FALSE)>> \o rest
                         ELSE rest)
             /\ mainThreadWaiting' = FALSE /\ asleep' = sleepers
  <2>1. /\ Frame("await", frame.load, FALSE) \in Frames
        /\ Frame("await", frame.load, FALSE).at = "await"
    BY DEF Frame, Frames, FrameKinds
  <2>2. /\ main' \in Seq(Frames) /\ StackOk(main', sync)
        /\ \A k : Awaits(main', k) <=> Awaits(rest, k)
    <3>1. CASE frame.sync BY <1>3, <2>1, <3>1, Push, PushOk
    <3>2. CASE ~frame.sync BY <1>3, <3>2, OrderedOk
    <3> QED BY <3>1, <3>2
  <2> QED BY <1>0, <1>3, <2>2
<1> QED BY <1>0, <1>1, <1>2, <1>3 DEF CallLoop

\* shutdown()'s loop.
LEMMA ShutdownLoopOk ==
  ASSUME NEW rest \in Seq(Frames), Ordered(rest), ShutdownLoop(rest),
         asleep \subseteq Threads, threadEvents \in Nat, exiting \in BOOLEAN
  PROVE  /\ main' \in Seq(Frames) /\ Ordered(main')
         /\ \A k : Awaits(main', k) <=> Awaits(rest, k)
         /\ asleep' \in {asleep, asleep \cup {"main"}}
         /\ threadEvents' \in Nat /\ exiting' \in BOOLEAN
<1>0. /\ asleep' \in {asleep, asleep \cup {"main"}}
      /\ threadEvents' \in Nat /\ exiting' \in BOOLEAN
  <2>1. asleep' = asleep \/ asleep' = asleep \cup {"main"} BY DEF ShutdownLoop
  <2>2. threadEvents' = threadEvents \/ threadEvents' = threadEvents + 1
    BY DEF ShutdownLoop, TriggerThreadEvent
  <2>3. exiting' \in BOOLEAN BY DEF ShutdownLoop
  <2> QED BY <2>1, <2>2, <2>3
<1>1. \A at \in {"event", "shutdown", "join"} :
        Plain(at) \in Frames /\ Plain(at).at = at
  BY DEF Plain, Frame, Frames, FrameKinds
<1>2. \A at \in {"event", "shutdown", "join"}, u \in Seq(Frames) : Ordered(u) =>
        /\ <<Plain(at)>> \o u \in Seq(Frames) /\ Ordered(<<Plain(at)>> \o u)
        /\ \A k : Awaits(<<Plain(at)>> \o u, k) <=> Awaits(u, k)
  <2> TAKE at \in {"event", "shutdown", "join"}, u \in Seq(Frames)
  <2> DEFINE f == Plain(at)
  <2>1. f \in Frames /\ f.at # "handler" /\ f.at # "call" BY <1>1
  <2> HIDE DEF f
  <2>2. Ordered(u) =>
          /\ <<f>> \o u \in Seq(Frames) /\ Ordered(<<f>> \o u)
          /\ \A k : Awaits(<<f>> \o u, k) <=> Awaits(u, k)
    BY <2>1, Push
  <2> QED BY <2>2 DEF f
<1>3. <<Plain("event"), Plain("shutdown")>> \o rest
        = <<Plain("event")>> \o (<<Plain("shutdown")>> \o rest)
  <2>1. Plain("event") \in Frames /\ Plain("shutdown") \in Frames BY <1>1
  <2> HIDE DEF Plain
  <2> QED BY <2>1, PushTwo
<1>4. \/ main' = <<Plain("event")>> \o (<<Plain("shutdown")>> \o rest)
      \/ main' = <<Plain("shutdown")>> \o rest
      \/ main' = <<Plain("join")>> \o rest
  BY <1>3 DEF ShutdownLoop
<1> HIDE DEF Plain
<1>5. main' \in Seq(Frames) /\ Ordered(main') /\ \A k : Awaits(main', k) <=> Awaits(rest, k)
  <2>1. CASE main' = <<Plain("event")>> \o (<<Plain("shutdown")>> \o rest)
    <3>1. /\ <<Plain("shutdown")>> \o rest \in Seq(Frames)
          /\ Ordered(<<Plain("shutdown")>> \o rest)
          /\ \A k : Awaits(<<Plain("shutdown")>> \o rest, k) <=> Awaits(rest, k)
      BY <1>2
    <3> DEFINE u == <<Plain("shutdown")>> \o rest
    <3>2. u \in Seq(Frames) /\ Ordered(u) /\ \A k : Awaits(u, k) <=> Awaits(rest, k)
      BY <3>1
    <3>3. main' = <<Plain("event")>> \o u BY <2>1
    <3> HIDE DEF u
    <3> QED BY <1>2, <3>2, <3>3
  <2>2. CASE main' = <<Plain("shutdown")>> \o rest BY <1>2, <2>2
  <2>3. CASE main' = <<Plain("join")>> \o rest BY <1>2, <2>3
  <2> QED BY <1>4, <2>1, <2>2, <2>3
<1> QED BY <1>0, <1>5

-----------------------------------------------------------------------------
(* Steps.                                                                  *)

\* callMethodInThread() returns to its caller only with the load processed.
CallStep ==
  \A l \in Loads : Awaits(main, l) /\ ~Awaits(main, l)' => status'[l] \in {"network", "done"}

\* What a step preserves that leaves the variables of a part alone.
LEMMA Kept ==
  /\ StackInv /\ UNCHANGED <<main, mainSync>> => StackInv'
  /\ SyncInv /\ UNCHANGED <<loader, mainSync>> /\ ("loader" \in asleep <=> "loader" \in asleep')
       => SyncInv'
  /\ LoaderInv /\ UNCHANGED <<loader, threadList, cur, reply, status>> => LoaderInv'
  /\ CallInv /\ UNCHANGED <<main, threadList, status>> => CallInv'
  /\ UNCHANGED main => CallStep
<1>1. StackInv /\ UNCHANGED <<main, mainSync>> => StackInv'
  BY DEF StackInv, StackOk, SyncOn, Ordered
<1>2. SyncInv /\ UNCHANGED <<loader, mainSync>> /\ ("loader" \in asleep <=> "loader" \in asleep')
        => SyncInv'
  BY DEF SyncInv
<1>3. LoaderInv /\ UNCHANGED <<loader, threadList, cur, reply, status>> => LoaderInv'
  BY DEF LoaderInv
<1>4. ASSUME CallInv, UNCHANGED <<main, threadList, status>> PROVE CallInv'
  BY <1>4 DEF CallInv, Listed, Awaits
<1>5. UNCHANGED main => CallStep BY DEF CallStep, Awaits
<1> QED BY <1>1, <1>2, <1>3, <1>4, <1>5

\* Whoever is woken, nobody falls asleep.
LEMMA WakeOneOk ==
  ASSUME NEW S \in SUBSET Threads, NEW T \in WakeOne(S)
  PROVE  T \subseteq S
  BY DEF WakeOne

\* A message appended to the list of the loader thread.
LEMMA AppendOk ==
  ASSUME TypeOK, NEW l \in Loads, AppendToThread(l)
  PROVE  /\ threadList' \in Seq(Loads) /\ threadList' # <<>> /\ threadEvents' \in Nat
         /\ threadList # <<>> => Head(threadList') = Head(threadList)
         /\ Listed(l)' /\ \A k : Listed(k) => Listed(k)'
<1>1. threadList \in Seq(Loads) /\ threadList' = Append(threadList, l)
  BY DEF TypeOK, AppendToThread
<1>2. threadEvents' \in Nat
  BY DEF TypeOK, AppendToThread, TriggerUnlessBusy, TriggerThreadEvent
<1>3. /\ threadList' \in Seq(Loads) /\ threadList' # <<>>
      /\ Len(threadList') = Len(threadList) + 1 /\ Len(threadList) \in Nat
      /\ threadList'[Len(threadList) + 1] = l
      /\ \A i \in 1 .. Len(threadList) : threadList'[i] = threadList[i]
  BY <1>1, AppendProperties
<1>4. threadList # <<>> => Head(threadList') = Head(threadList)
  BY <1>1, HeadTailAppend
<1>5. Listed(l)' /\ \A k : Listed(k) => Listed(k)' BY <1>3 DEF Listed
<1> QED BY <1>2, <1>3, <1>4, <1>5

\* What may wait for the loader thread calls it from an ordered stack.
LEMMA CallerOrdered ==
  ASSUME StackInv, NoNestedWait, CanCall, Calls \cap {"sync", "await"} # {}
  PROVE  Ordered(main)
  BY DEF StackInv, StackOk, SyncOn, NoNestedWait, CanCall, Idle, InCompleted, InInitialize,
         MainRuns

\* The main thread starts a load.
LEMMA StartStep ==
  ASSUME IInv, NoNestedWait, NEW l \in Loads,
         LoadAsync(l) \/ \E waits \in BOOLEAN : LoadSync(l, waits)
  PROVE  IInv' /\ CallStep
<1>1. /\ status[l] = "new" /\ status' = [status EXCEPT ![l] = "loading"]
      /\ AppendToThread(l)
      /\ UNCHANGED <<cur, reply, initialized, reported, loader, mainSync, mainEvents, exiting,
                     mainList, shutdown, threadProcessing, mainProcessing>>
  BY DEF LoadAsync, LoadSync, StartLoading, PostMethodToThread, CallMethodInThread, CallLoop,
         flagVars
<1>2. /\ TypeOK /\ StackInv /\ SyncInv /\ LoaderInv /\ CallInv BY DEF IInv
<1>3. /\ threadList' \in Seq(Loads) /\ threadList' # <<>> /\ threadEvents' \in Nat
      /\ threadList # <<>> => Head(threadList') = Head(threadList)
      /\ Listed(l)' /\ \A k : Listed(k) => Listed(k)'
  BY <1>1, <1>2, AppendOk
<1>4. /\ status' \in [Loads -> {"new", "loading", "network", "done"}]
      /\ status'[l] = "loading" /\ \A k \in Loads \ {l} : status'[k] = status[k]
  BY <1>1, <1>2 DEF TypeOK
<1>5. LoaderInv' BY <1>1, <1>2, <1>3, <1>4 DEF LoaderInv, Busy
<1>6. \A k \in Loads : status'[k] = "loading" => Listed(k)'
  BY <1>2, <1>3, <1>4 DEF CallInv
<1>7. CASE LoadAsync(l)
  <2>1. UNCHANGED <<flagVars, main, asleep>> BY <1>7 DEF LoadAsync, PostMethodToThread
  <2>2. StackInv' /\ SyncInv' /\ CallStep BY <1>1, <1>2, <2>1, Kept
  <2>3. \A k \in Loads : Awaits(main', k) => status'[k] # "new"
    BY <1>2, <1>4, <2>1 DEF CallInv
  <2>4. TypeOK' BY <1>1, <1>2, <1>3, <1>4, <2>1 DEF TypeOK, flagVars
  <2>5. CallInv' BY <1>6, <2>3 DEF CallInv
  <2> QED BY <1>5, <2>2, <2>4, <2>5 DEF IInv
<1>8. ASSUME NEW waits \in BOOLEAN, LoadSync(l, waits) PROVE IInv' /\ CallStep
  <2> DEFINE frame == Frame("call", l, waits)
  <2>1. /\ CallLoop(frame, main, mainSync, threadList', asleep, TRUE) /\ "sync" \in Calls
        /\ CanCall
    BY <1>8 DEF LoadSync, CallMethodInThread, StartLoading
  <2>2. frame \in Frames /\ frame.at = "call" /\ frame.load = l
    BY DEF Frame, Frames, FrameKinds
  <2>3. Ordered(main) BY <1>2, <2>1, CallerOrdered
  <2>4. main \in Seq(Frames) /\ mainSync \in Loads \cup {NoLoad} BY <1>2 DEF TypeOK
  <2> HIDE DEF frame
  <2>5. /\ main' \in Seq(Frames) /\ StackOk(main', mainSync)
        /\ asleep' \in {asleep, asleep \cup {"main"}} /\ mainThreadWaiting' \in BOOLEAN
        /\ \A k : Awaits(main', k) => Awaits(main, k) \/ k = l
        /\ \A k : Awaits(main, k) => Awaits(main', k)
    <3> HIDE DEF Frames
    <3> QED BY <2>1, <2>2, <2>3, <2>4, CallLoopOk
  <2>6. TypeOK' BY <1>1, <1>2, <1>3, <1>4, <2>5 DEF TypeOK, Threads
  <2>7. StackInv' BY <1>1, <2>5 DEF StackInv
  <2>8. SyncInv' BY <1>1, <1>2, <2>5, Kept
  <2>9. CallInv' BY <1>2, <1>4, <1>6, <2>5 DEF CallInv
  <2>10. CallStep BY <2>5 DEF CallStep
  <2> QED BY <1>5, <2>6, <2>7, <2>8, <2>9, <2>10 DEF IInv
<1> QED BY <1>7, <1>8

\* The other steps of the main thread move its stack and leave the loads alone; a call
\* returns when the list is empty.
LEMMA MainStepOk ==
  ASSUME IInv,
         main' \in Seq(Frames), StackOk(main', mainSync'), mainSync' \in {mainSync, NoLoad},
         asleep' \subseteq Threads, "loader" \in asleep' => "loader" \in asleep,
         mainSync' # NoLoad => "loader" \in asleep',
         threadProcessing' \in BOOLEAN, mainProcessing' \in BOOLEAN,
         shutdown' \in BOOLEAN, mainThreadWaiting' \in BOOLEAN, exiting' \in BOOLEAN,
         threadEvents' \in Nat, mainEvents' \in Nat, mainList' \in Seq(Loads),
         reported' \in [Loads -> Nat],
         UNCHANGED <<loader, threadList, status, cur, reply, initialized>>,
         \A k \in Loads : Awaits(main', k) => Awaits(main, k),
         \A k \in Loads : Awaits(main, k) => Awaits(main', k) \/ threadList = <<>>
  PROVE  IInv' /\ CallStep
<1>1. TypeOK /\ SyncInv /\ LoaderInv /\ CallInv BY DEF IInv
<1>2. TypeOK' BY <1>1 DEF TypeOK
<1>3. SyncInv' BY <1>1 DEF SyncInv
<1>4. LoaderInv' BY <1>1, Kept
<1>5. \A l : Listed(l)' <=> Listed(l) BY DEF Listed
<1>6. CallInv' BY <1>1, <1>5 DEF CallInv
<1>7. CallStep
  <2> SUFFICES ASSUME NEW l \in Loads, Awaits(main, l), ~Awaits(main', l)
               PROVE  status[l] \in {"network", "done"}
    BY DEF CallStep
  <2>1. threadList = <<>> OBVIOUS
  <2>2. ~Listed(l) BY <2>1 DEF Listed
  <2> QED BY <1>1, <2>2 DEF CallInv, TypeOK
<1> QED BY <1>2, <1>3, <1>4, <1>6, <1>7 DEF IInv, StackInv

\* The frames of the main thread's own calls, and what is left when one returns.
LEMMA TopOk ==
  ASSUME TypeOK, StackInv, NEW at \in FrameKinds \ {"handler"}, MainRuns(at)
  PROVE  /\ main \in Seq(Frames) /\ Head(main) \in Frames /\ Head(main).at = at
         /\ Tail(main) \in Seq(Frames) /\ Ordered(main) /\ Ordered(Tail(main))
         /\ \A k : Awaits(main, k) <=>
                  Awaits(Tail(main), k) \/ (at = "call" /\ Head(main).load = k)
<1>1. main # <<>> /\ Head(main).at = at /\ main \in Seq(Frames) BY DEF MainRuns, TypeOK
<1>2. Ordered(main) BY <1>1 DEF StackInv, StackOk, SyncOn
<1> QED BY <1>1, <1>2, Pop

\* await() and the waiting loop of doLoad().
LEMMA AwaitStep ==
  ASSUME IInv, NoNestedWait, (\E l \in Loads : Await(l)) \/ AwaitTest
  PROVE  IInv' /\ CallStep
<1>1. TypeOK /\ StackInv /\ SyncInv BY DEF IInv
<1>2. UNCHANGED <<flagVars, listVars, eventVars, asleep, exiting, loader, loadVars>>
  BY DEF Await, AwaitTest
<1>3. /\ main' \in Seq(Frames) /\ StackOk(main', mainSync)
      /\ \A k : Awaits(main', k) <=> Awaits(main, k)
  <2>1. ASSUME NEW l \in Loads, Await(l)
        PROVE  /\ main' \in Seq(Frames) /\ StackOk(main', mainSync)
               /\ \A k : Awaits(main', k) <=> Awaits(main, k)
    <3>1. Ordered(main) /\ main \in Seq(Frames)
      BY <1>1, <2>1, CallerOrdered DEF Await, TypeOK
    <3> DEFINE f == Frame("await", l, FALSE)
    <3>2. f \in Frames /\ f.at = "await" BY DEF Frame, Frames, FrameKinds
    <3>3. main' = <<f>> \o main BY <2>1 DEF Await
    <3> HIDE DEF f
    <3> QED BY <3>1, <3>2, <3>3, Push, PushOk
  <2>2. CASE AwaitTest
    <3>1. MainRuns("await") BY <2>2 DEF AwaitTest
    <3>2. /\ Head(main) \in Frames /\ Tail(main) \in Seq(Frames) /\ Ordered(Tail(main))
          /\ \A k : Awaits(main, k) <=> Awaits(Tail(main), k)
      BY <1>1, <3>1, TopOk DEF FrameKinds
    <3> DEFINE f == Frame("enter", Head(main).load, FALSE)
    <3>3. f \in Frames /\ f.at = "enter" BY <3>2 DEF Frame, Frames, FrameKinds
    <3>4. main' = Tail(main) \/ main' = <<f>> \o Tail(main) BY <2>2 DEF AwaitTest
    <3> HIDE DEF f
    <3>5. CASE main' = Tail(main) BY <3>2, <3>5, OrderedOk
    <3>6. CASE main' = <<f>> \o Tail(main)
      BY <3>2, <3>3, <3>6, Push, PushOk
    <3> QED BY <3>4, <3>5, <3>6
  <2> QED BY <2>1, <2>2
<1> HIDE DEF Frames
<1> QED BY <1>1, <1>2, <1>3, MainStepOk
     DEF TypeOK, SyncInv, flagVars, listVars, eventVars, loadVars

\* One frame of the main thread's own calls in place of another, or of none.
LEMMA ReplaceOk ==
  ASSUME TypeOK, NEW rest \in Seq(Frames), Ordered(rest),
         main' = rest \/ \E f \in Frames : f.at \notin {"handler", "call"} /\ main' = <<f>> \o rest
  PROVE  /\ main' \in Seq(Frames) /\ Ordered(main') /\ \A sync : StackOk(main', sync)
         /\ \A k : Awaits(main', k) <=> Awaits(rest, k)
<1>1. CASE main' = rest BY <1>1, OrderedOk
<1>2. ASSUME NEW f \in Frames, f.at \notin {"handler", "call"}, main' = <<f>> \o rest
      PROVE  /\ main' \in Seq(Frames) /\ Ordered(main') /\ \A sync : StackOk(main', sync)
             /\ \A k : Awaits(main', k) <=> Awaits(rest, k)
  BY <1>2, Push, PushOk
<1> QED BY <1>1, <1>2

\* startup() returns, the wait in doLoad() ends, shutdown() joins the thread.
LEMMA PopStep ==
  ASSUME IInv, StartupReturns \/ WaitResumes \/ Join, UNCHANGED loadVars
  PROVE  IInv' /\ CallStep
<1>1. TypeOK /\ StackInv /\ SyncInv BY DEF IInv
<1>2. PICK at \in {"startup", "next", "join"} : MainRuns(at)
  BY DEF StartupReturns, WaitResumes, Join
<1>3. /\ Head(main) \in Frames /\ Tail(main) \in Seq(Frames) /\ Ordered(Tail(main))
      /\ \A k : Awaits(main, k) <=> Awaits(Tail(main), k)
  BY <1>1, <1>2, TopOk DEF FrameKinds
<1>4. \/ main' = Tail(main)
      \/ \E f \in Frames : f.at \notin {"handler", "call"} /\ main' = <<f>> \o Tail(main)
  <2> DEFINE f == Frame("await", Head(main).load, FALSE)
  <2>1. f \in Frames /\ f.at = "await" BY <1>3 DEF Frame, Frames, FrameKinds
  <2>2. main' = Tail(main) \/ main' = <<f>> \o Tail(main)
    BY DEF StartupReturns, WaitResumes, Join
  <2> HIDE DEF f
  <2> QED BY <2>1, <2>2
<1>5. /\ main' \in Seq(Frames) /\ StackOk(main', mainSync)
      /\ \A k : Awaits(main', k) <=> Awaits(main, k)
  BY <1>1, <1>3, <1>4, ReplaceOk
<1>6. /\ UNCHANGED <<shutdown, threadProcessing, mainProcessing, listVars, eventVars,
                     asleep, exiting, loader, loadVars>>
      /\ mainThreadWaiting' \in BOOLEAN
  BY <1>1 DEF StartupReturns, WaitResumes, Join, flagVars, TypeOK
<1> HIDE DEF Frames
<1> QED BY <1>1, <1>5, <1>6, MainStepOk
     DEF TypeOK, SyncInv, flagVars, listVars, eventVars, loadVars

\* mainEvent() takes the next message.
LEMMA EventStep ==
  ASSUME IInv, MainEvent, UNCHANGED loadVars
  PROVE  IInv' /\ CallStep
<1>1. TypeOK /\ StackInv /\ SyncInv BY DEF IInv
<1>2. /\ Tail(main) \in Seq(Frames) /\ Ordered(Tail(main))
      /\ \A k : Awaits(main, k) <=> Awaits(Tail(main), k)
  BY <1>1, TopOk DEF FrameKinds, MainEvent
<1>3. /\ MainLoop(Tail(main), mainSync, TRUE)
      /\ UNCHANGED <<shutdown, threadProcessing, mainThreadWaiting, threadList, mainSync,
                     eventVars, asleep, exiting, loader>>
  BY DEF MainEvent, MainLoop
<1>4. mainList \in Seq(Loads) /\ mainSync \in Loads \cup {NoLoad} BY <1>1 DEF TypeOK
<1> HIDE DEF Frames
<1>5. /\ main' \in Seq(Frames) /\ StackOk(main', mainSync)
      /\ \A k : Awaits(main', k) <=> Awaits(Tail(main), k)
      /\ mainList' \in Seq(Loads) /\ mainProcessing' \in BOOLEAN
  BY <1>2, <1>3, <1>4, MainLoopOk
<1> QED BY <1>1, <1>2, <1>3, <1>5, MainStepOk
     DEF TypeOK, SyncInv, eventVars, loadVars

\* callMethodInThread() goes on.
LEMMA CallStepOk ==
  ASSUME IInv, CallResumes, UNCHANGED loadVars
  PROVE  IInv' /\ CallStep
<1>1. TypeOK /\ StackInv /\ SyncInv BY DEF IInv
<1> DEFINE frame == Head(main)
           rest == Tail(main)
<1>2. /\ frame \in Frames /\ frame.at = "call" /\ rest \in Seq(Frames) /\ Ordered(rest)
      /\ \A k : Awaits(main, k) <=> Awaits(rest, k) \/ frame.load = k
  BY <1>1, TopOk DEF FrameKinds, CallResumes
<1>3. /\ CallLoop(frame, rest, mainSync, threadList, asleep, mainThreadWaiting)
      /\ UNCHANGED <<threadList, mainSync, eventVars, exiting, loader>>
  BY DEF CallResumes
<1> HIDE DEF frame, rest, Frames
<1>4. mainSync \in Loads \cup {NoLoad} /\ mainThreadWaiting \in BOOLEAN BY <1>1 DEF TypeOK
<1>5. /\ main' \in Seq(Frames) /\ StackOk(main', mainSync)
      /\ asleep' \in {asleep, asleep \cup {"main"}} /\ mainThreadWaiting' \in BOOLEAN
      /\ \A k : Awaits(main', k) =>
               Awaits(rest, k) \/ (k = frame.load /\ (mainSync # NoLoad \/ threadList # <<>>))
      /\ \A k : Awaits(rest, k) => Awaits(main', k)
      /\ mainSync # NoLoad \/ threadList # <<>> => Awaits(main', frame.load)
      /\ UNCHANGED <<shutdown, threadProcessing, mainProcessing, mainList>>
  BY <1>2, <1>3, <1>4, CallLoopOk
<1>6. \A k \in Loads : Awaits(main', k) => Awaits(main, k) BY <1>2, <1>5
<1>7. \A k \in Loads : Awaits(main, k) => Awaits(main', k) \/ threadList = <<>>
  BY <1>2, <1>5
<1> QED BY <1>1, <1>3, <1>5, <1>6, <1>7, MainStepOk
     DEF TypeOK, SyncInv, eventVars, loadVars, Threads

\* waitForNextMessage().
LEMMA EnterStep ==
  ASSUME IInv, EnterWait, UNCHANGED loadVars
  PROVE  IInv' /\ CallStep
<1>1. TypeOK /\ StackInv /\ SyncInv BY DEF IInv
<1> DEFINE rest == Tail(main)
           f == Frame("next", Head(main).load, FALSE)
           g == Frame("await", Head(main).load, FALSE)
<1>2. /\ rest \in Seq(Frames) /\ Ordered(rest) /\ Head(main) \in Frames
      /\ \A k : Awaits(main, k) <=> Awaits(rest, k)
  BY <1>1, TopOk DEF FrameKinds, EnterWait
<1>3. /\ f \in Frames /\ f.at = "next" /\ g \in Frames /\ g.at = "await"
  BY <1>2 DEF Frame, Frames, FrameKinds
<1>4. /\ \/ mainSync # NoLoad /\ main' = <<Frame("handler", mainSync, TRUE), f>> \o rest
         \/ main' = <<f>> \o rest
         \/ main' = <<g>> \o rest
      /\ UNCHANGED <<shutdown, threadProcessing, mainProcessing, listVars, eventVars,
                     exiting, loader>>
      /\ mainThreadWaiting' \in BOOLEAN /\ asleep' \in {asleep, asleep \cup {"main"}}
  BY DEF EnterWait
<1> HIDE DEF rest, f, g, Frames
<1>5. /\ main' \in Seq(Frames) /\ StackOk(main', mainSync)
      /\ \A k : Awaits(main', k) <=> Awaits(main, k)
  <2>1. CASE mainSync # NoLoad /\ main' = <<Frame("handler", mainSync, TRUE), f>> \o rest
    <3>1. mainSync \in Loads BY <1>1, <2>1 DEF TypeOK
    <3>2. /\ main' \in Seq(Frames) /\ StackOk(main', mainSync)
          /\ \A k : Awaits(main', k) <=> Awaits(rest, k)
      BY <1>2, <1>3, <2>1, <3>1, PushSyncOk
    <3> QED BY <1>2, <3>2
  <2>2. CASE main' = <<f>> \o rest BY <1>1, <1>2, <1>3, <2>2, ReplaceOk
  <2>3. CASE main' = <<g>> \o rest BY <1>1, <1>2, <1>3, <2>3, ReplaceOk
  <2> QED BY <1>4, <2>1, <2>2, <2>3
<1> QED BY <1>1, <1>4, <1>5, MainStepOk
     DEF TypeOK, SyncInv, listVars, eventVars, loadVars, Threads

\* shutdown(), at first and when it goes on.
LEMMA ShutdownStep ==
  ASSUME IInv, ShutdownResumes \/ (Idle /\ Shutdown), UNCHANGED loadVars
  PROVE  IInv' /\ CallStep
<1>1. TypeOK /\ StackInv /\ SyncInv BY DEF IInv
<1>2. PICK rest \in Seq(Frames) :
        /\ Ordered(rest) /\ ShutdownLoop(rest)
        /\ \A k : Awaits(main, k) <=> Awaits(rest, k)
  <2>1. CASE ShutdownResumes
    <3>1. /\ Tail(main) \in Seq(Frames) /\ Ordered(Tail(main))
          /\ \A k : Awaits(main, k) <=> Awaits(Tail(main), k)
      BY <1>1, <2>1, TopOk DEF FrameKinds, ShutdownResumes
    <3> QED BY <2>1, <3>1 DEF ShutdownResumes
  <2>2. CASE Idle /\ Shutdown
    <3>1. main \in Seq(Frames) /\ Ordered(main) BY <1>1, <2>2 DEF Idle, Ordered, TypeOK
    <3> QED BY <2>2, <3>1 DEF Shutdown
  <2> QED BY <2>1, <2>2
<1>3. /\ UNCHANGED <<threadProcessing, mainProcessing, mainThreadWaiting, listVars,
                     mainEvents, loader>>
      /\ shutdown' \in BOOLEAN
  BY <1>1 DEF ShutdownResumes, Shutdown, flagVars, TypeOK
<1>4. asleep \subseteq Threads /\ threadEvents \in Nat /\ exiting \in BOOLEAN
  BY <1>1 DEF TypeOK
<1> HIDE DEF Frames
<1>5. /\ main' \in Seq(Frames) /\ Ordered(main')
      /\ \A k : Awaits(main', k) <=> Awaits(rest, k)
      /\ asleep' \in {asleep, asleep \cup {"main"}}
      /\ threadEvents' \in Nat /\ exiting' \in BOOLEAN
  BY <1>2, <1>4, ShutdownLoopOk
<1>6. StackOk(main', mainSync) BY <1>5, OrderedOk
<1> QED BY <1>1, <1>2, <1>3, <1>5, <1>6, MainStepOk
     DEF TypeOK, SyncInv, listVars, loadVars, Threads

\* The event loop, of the engine's thread or in a completed() callback.
LEMMA LoopStep ==
  ASSUME IInv, EventLoopMain
  PROVE  IInv' /\ CallStep
<1>1. TypeOK /\ StackInv /\ SyncInv BY DEF IInv
<1>2. main \in Seq(Frames) /\ Ordered(main)
  BY <1>1 DEF EventLoopMain, Idle, InCompleted, MainRuns, StackInv, StackOk, SyncOn, TypeOK
<1> DEFINE f == Plain("event")
<1>3. f \in Frames /\ f.at = "event" BY DEF Plain, Frame, Frames, FrameKinds
<1>4. /\ main' = <<f>> \o main /\ mainEvents > 0 /\ mainEvents' = mainEvents - 1
      /\ UNCHANGED <<flagVars, listVars, threadEvents, asleep, exiting, loader, loadVars>>
  BY DEF EventLoopMain, DeliverMainEvent
<1> HIDE DEF f, Frames
<1>5. /\ main' \in Seq(Frames) /\ StackOk(main', mainSync)
      /\ \A k : Awaits(main', k) <=> Awaits(main, k)
  BY <1>1, <1>2, <1>3, <1>4, ReplaceOk
<1>6. mainEvents' \in Nat BY <1>1, <1>4 DEF TypeOK
<1> QED BY <1>1, <1>4, <1>5, <1>6, MainStepOk
     DEF TypeOK, SyncInv, flagVars, listVars, loadVars

\* completed() returns to mainEvent().
LEMMA CompletedStep ==
  ASSUME IInv, HandlerReturns, ~Head(main).sync
  PROVE  IInv' /\ CallStep
<1>1. TypeOK /\ StackInv /\ SyncInv BY DEF IInv
<1>2. MainRuns("handler") /\ main \in Seq(Frames) /\ main # <<>>
  BY <1>1 DEF HandlerReturns, MessageReturns, MainRuns, TypeOK
<1>3. Ordered(main) BY <1>1, <1>2 DEF StackInv, StackOk, SyncOn
<1> DEFINE u == Tail(main)
<1>4. /\ u \in Seq(Frames) /\ Ordered(u) /\ \A k : Awaits(main, k) <=> Awaits(u, k)
  BY <1>2, <1>3, Pop DEF MainRuns
<1>5. u # <<>> /\ Head(u).at = "event"
  <2>1. /\ Head(main) = main[1] /\ Len(u) = Len(main) - 1 /\ Len(main) \in Nat \ {0}
        /\ \A i \in 1 .. Len(u) : u[i] = main[i + 1]
    BY <1>2, HeadTailProperties, EmptySeq
  <2>2. 1 < Len(main) /\ main[2].at = "event" BY <1>2, <1>3, <2>1 DEF Ordered, MainRuns
  <2>3. Len(u) # 0 /\ u[1] = main[2] BY <2>1, <2>2
  <2> HIDE DEF u
  <2> QED BY <1>4, <2>2, <2>3
<1>6. /\ Tail(u) \in Seq(Frames) /\ Ordered(Tail(u))
      /\ \A k : Awaits(u, k) <=> Awaits(Tail(u), k)
  <2> HIDE DEF u
  <2> QED BY <1>4, <1>5, Pop
<1>7. /\ MainLoop(Tail(u), mainSync, mainProcessing)
      /\ UNCHANGED <<shutdown, threadProcessing, mainThreadWaiting, threadList, mainSync,
                     asleep, eventVars, exiting, loader, status, cur, reply, initialized>>
  BY DEF HandlerReturns, MessageReturns, MainLoop
<1>8. reported' \in [Loads -> Nat]
  <2>1. \A l : [reported EXCEPT ![l] = @ + 1] \in [Loads -> Nat]
    <3> TAKE l
    <3>1. CASE l \in Loads BY <1>1, <3>1 DEF TypeOK
    <3>2. CASE l \notin Loads BY <1>1, <3>2 DEF TypeOK
    <3> QED BY <3>1, <3>2
  <2> QED BY <2>1 DEF HandlerReturns
<1>9. /\ mainList \in Seq(Loads) /\ mainSync \in Loads \cup {NoLoad}
      /\ mainProcessing \in BOOLEAN
  BY <1>1 DEF TypeOK
<1> HIDE DEF Frames, u
<1>10. /\ main' \in Seq(Frames) /\ StackOk(main', mainSync)
       /\ \A k : Awaits(main', k) <=> Awaits(Tail(u), k)
       /\ mainList' \in Seq(Loads) /\ mainProcessing' \in BOOLEAN
  BY <1>6, <1>7, <1>9, MainLoopOk
<1> QED BY <1>1, <1>4, <1>6, <1>7, <1>8, <1>10, MainStepOk
     DEF TypeOK, SyncInv, eventVars

\* initializeEngine() returns, to whichever loop called it.
LEMMA InitializeStep ==
  ASSUME IInv, HandlerReturns, Head(main).sync
  PROVE  IInv' /\ CallStep
<1>1. TypeOK /\ StackInv /\ SyncInv BY DEF IInv
<1>2. MainRuns("handler") /\ main \in Seq(Frames) /\ main # <<>>
  BY <1>1 DEF HandlerReturns, MessageReturns, MainRuns, TypeOK
<1> DEFINE u == Tail(main)
           frame == Head(u)
           rest == Tail(u)
<1>3. u # <<>> /\ Ordered(u) BY <1>1, <1>2 DEF StackInv, StackOk, SyncOn, MainRuns
<1>4. u \in Seq(Frames) /\ \A k : Awaits(main, k) <=> Awaits(u, k)
  BY <1>2, Pop DEF MainRuns
<1>5. main[2] = frame
  <2>1. /\ Len(u) = Len(main) - 1 /\ Len(main) \in Nat \ {0}
        /\ \A i \in 1 .. Len(u) : u[i] = main[i + 1]
    BY <1>2, HeadTailProperties, EmptySeq
  <2>2. Len(u) \in Nat \ {0} /\ frame = u[1]
    <3> HIDE DEF u
    <3> QED BY <1>3, <1>4, EmptySeq
  <2> QED BY <2>1, <2>2
<1>6. /\ rest \in Seq(Frames) /\ frame \in Frames /\ Ordered(rest)
      /\ \A k : Awaits(u, k) <=> Awaits(rest, k) \/ (frame.at = "call" /\ frame.load = k)
  <2> HIDE DEF u
  <2> QED BY <1>3, <1>4, Pop
<1>7. /\ mainSync' = NoLoad
      /\ \E sleepers \in WakeOne(asleep) :
             \/ /\ frame.at = "event"
                /\ MainLoop(rest, NoLoad, mainProcessing) /\ asleep' = sleepers
             \/ /\ frame.at = "call"
                /\ CallLoop(frame, rest, NoLoad, threadList, sleepers, mainThreadWaiting)
                /\ UNCHANGED threadList
             \/ /\ frame.at = "next"
                /\ main' = <<Frame("await", frame.load, FALSE)>> \o rest
                /\ mainThreadWaiting' = FALSE /\ asleep' = sleepers
                /\ UNCHANGED <<shutdown, threadProcessing, mainProcessing,
                               threadList, mainList>>
      /\ UNCHANGED <<eventVars, exiting, loader, status, cur, reply, initialized>>
  BY <1>5 DEF HandlerReturns, MessageReturns
<1>8. reported' \in [Loads -> Nat] BY <1>1 DEF HandlerReturns, TypeOK
<1>9. /\ mainList \in Seq(Loads) /\ NoLoad \in Loads \cup {NoLoad}
      /\ mainThreadWaiting \in BOOLEAN /\ mainProcessing \in BOOLEAN
      /\ asleep \in SUBSET Threads
  BY <1>1 DEF TypeOK
<1> HIDE DEF rest, frame, u, Frames
<1>10. PICK sleepers \in WakeOne(asleep) :
             \/ /\ frame.at = "event"
                /\ MainLoop(rest, NoLoad, mainProcessing) /\ asleep' = sleepers
             \/ /\ frame.at = "call"
                /\ CallLoop(frame, rest, NoLoad, threadList, sleepers, mainThreadWaiting)
                /\ UNCHANGED threadList
             \/ /\ frame.at = "next"
                /\ main' = <<Frame("await", frame.load, FALSE)>> \o rest
                /\ mainThreadWaiting' = FALSE /\ asleep' = sleepers
                /\ UNCHANGED <<shutdown, threadProcessing, mainProcessing,
                               threadList, mainList>>
  BY <1>7
<1>11. sleepers \subseteq asleep BY <1>9, <1>10, WakeOneOk
<1> DEFINE Goal ==
             /\ main' \in Seq(Frames) /\ StackOk(main', NoLoad)
             /\ asleep' \in {sleepers, sleepers \cup {"main"}}
             /\ threadProcessing' \in BOOLEAN /\ mainProcessing' \in BOOLEAN
             /\ shutdown' \in BOOLEAN /\ mainThreadWaiting' \in BOOLEAN
             /\ mainList' \in Seq(Loads) /\ threadList' = threadList
             /\ \A k \in Loads : Awaits(main', k) => Awaits(main, k)
             /\ \A k \in Loads : Awaits(main, k) => Awaits(main', k) \/ threadList = <<>>
<1>12. Goal
  <2>1. CASE frame.at = "event" /\ MainLoop(rest, NoLoad, mainProcessing) /\ asleep' = sleepers
    <3>1. /\ main' \in Seq(Frames) /\ StackOk(main', NoLoad)
          /\ \A k : Awaits(main', k) <=> Awaits(rest, k)
          /\ mainList' \in Seq(Loads) /\ mainProcessing' \in BOOLEAN
      BY <1>6, <1>9, <2>1, MainLoopOk
    <3>2. UNCHANGED <<shutdown, threadProcessing, mainThreadWaiting, threadList>>
      BY <2>1 DEF MainLoop
    <3> QED BY <1>1, <1>4, <1>6, <2>1, <3>1, <3>2 DEF TypeOK
  <2>2. CASE /\ frame.at = "call"
             /\ CallLoop(frame, rest, NoLoad, threadList, sleepers, mainThreadWaiting)
             /\ UNCHANGED threadList
    <3>1. CallLoop(frame, rest, NoLoad, threadList, sleepers, mainThreadWaiting) BY <2>2
    <3>2. /\ main' \in Seq(Frames) /\ StackOk(main', NoLoad)
          /\ asleep' \in {sleepers, sleepers \cup {"main"}} /\ mainThreadWaiting' \in BOOLEAN
          /\ \A k : Awaits(main', k) =>
                   Awaits(rest, k)
                   \/ (k = frame.load /\ (NoLoad # NoLoad \/ threadList # <<>>))
          /\ \A k : Awaits(rest, k) => Awaits(main', k)
          /\ NoLoad # NoLoad \/ threadList # <<>> => Awaits(main', frame.load)
          /\ UNCHANGED <<shutdown, threadProcessing, mainProcessing, mainList>>
      BY <1>6, <1>9, <2>2, <3>1, CallLoopOk
    <3> QED BY <1>1, <1>4, <1>6, <2>2, <3>2 DEF TypeOK
  <2>3. CASE /\ frame.at = "next"
             /\ main' = <<Frame("await", frame.load, FALSE)>> \o rest
             /\ mainThreadWaiting' = FALSE /\ asleep' = sleepers
             /\ UNCHANGED <<shutdown, threadProcessing, mainProcessing,
                            threadList, mainList>>
    <3> DEFINE f == Frame("await", frame.load, FALSE)
    <3>1. f \in Frames /\ f.at = "await" BY <1>6 DEF Frame, Frames, FrameKinds
    <3>2. main' = <<f>> \o rest BY <2>3
    <3> HIDE DEF f
    <3>3. /\ main' \in Seq(Frames) /\ StackOk(main', NoLoad)
          /\ \A k : Awaits(main', k) <=> Awaits(rest, k)
      BY <1>1, <1>6, <3>1, <3>2, ReplaceOk
    <3> QED BY <1>1, <1>4, <1>6, <2>3, <3>3 DEF TypeOK
  <2> QED BY <1>10, <2>1, <2>2, <2>3
<1>13. asleep' \subseteq Threads /\ ("loader" \in asleep' => "loader" \in asleep)
  BY <1>9, <1>11, <1>12 DEF Threads
<1>14. mainSync' = NoLoad /\ UNCHANGED <<eventVars, exiting, loader, status, cur, reply, initialized>>
  BY <1>7
<1>15. StackOk(main', mainSync') BY <1>12, <1>14
<1>16. threadEvents' \in Nat /\ mainEvents' \in Nat /\ exiting' \in BOOLEAN
  BY <1>1, <1>14 DEF TypeOK, eventVars
<1>17. /\ UNCHANGED <<loader, threadList, status, cur, reply, initialized>>
       /\ \A k \in Loads : Awaits(main', k) => Awaits(main, k)
       /\ \A k \in Loads : Awaits(main, k) => Awaits(main', k) \/ threadList = <<>>
  BY <1>12, <1>14
<1>18. /\ main' \in Seq(Frames) /\ mainList' \in Seq(Loads)
       /\ threadProcessing' \in BOOLEAN /\ mainProcessing' \in BOOLEAN
       /\ shutdown' \in BOOLEAN /\ mainThreadWaiting' \in BOOLEAN
  BY <1>12
<1> HIDE DEF Goal
<1> QED BY <1>8, <1>13, <1>14, <1>15, <1>16, <1>17, <1>18, MainStepOk

\* The loader thread moves, with no message of its own in the main thread.
LEMMA LoaderStepOk ==
  ASSUME IInv, loader # "callMain", UNCHANGED <<main, mainSync>>, asleep' \subseteq asleep,
         TypeOK', LoaderInv', CallInv'
  PROVE  IInv' /\ CallStep
<1>1. StackInv /\ SyncInv BY DEF IInv
<1>2. StackInv' /\ CallStep BY <1>1, Kept
<1>3. SyncInv' BY <1>1 DEF SyncInv
<1> QED BY <1>2, <1>3 DEF IInv

\* threadEvent() takes the next message, or there is none.
LEMMA ThreadLoopOk ==
  ASSUME TypeOK, NEW list \in Seq(Loads), ThreadLoop(list)
  PROVE  /\ threadList' = list /\ threadProcessing' \in BOOLEAN /\ exiting' \in BOOLEAN
         /\ asleep' \subseteq asleep
         /\ loader' = "loop" \/ (loader' = "load" /\ list # <<>>)
         /\ UNCHANGED <<mainProcessing, shutdown, mainThreadWaiting, mainList, mainSync,
                        eventVars, main>>
  BY WakeOneOk DEF TypeOK, ThreadLoop

\* The loader thread starts, takes a message, or leaves.
LEMMA LoaderLoopStep ==
  ASSUME IInv, RunStart \/ ThreadEvent \/ LeaveExec \/ DeliverThreadEvent, UNCHANGED loadVars
  PROVE  IInv' /\ CallStep
<1>1. TypeOK /\ LoaderInv /\ CallInv BY DEF IInv
<1>2. /\ loader \in {"start", "event", "loop"} /\ asleep' \subseteq asleep
      /\ threadProcessing' \in BOOLEAN /\ exiting' \in BOOLEAN /\ threadEvents' \in Nat
      /\ loader' \in {"loop", "event", "finished", "load"}
      /\ loader' = "load" => threadList # <<>>
      /\ UNCHANGED <<threadList, mainProcessing, shutdown, mainThreadWaiting, mainList, mainSync,
                     mainEvents, main>>
  <2>1. CASE RunStart
    BY <1>1, <2>1, WakeOneOk DEF RunStart, TypeOK, flagVars, listVars, eventVars
  <2>2. CASE ThreadEvent
    <3>1. loader = "event" /\ ThreadLoop(threadList) /\ threadList \in Seq(Loads)
      BY <1>1, <2>2 DEF ThreadEvent, TypeOK
    <3> QED BY <1>1, <3>1, ThreadLoopOk DEF TypeOK, eventVars
  <2>3. CASE LeaveExec BY <1>1, <2>3 DEF LeaveExec, TypeOK, flagVars, listVars, eventVars
  <2>4. CASE DeliverThreadEvent
    BY <1>1, <2>4 DEF DeliverThreadEvent, TypeOK, flagVars, listVars
  <2> QED BY <2>1, <2>2, <2>3, <2>4
<1>3. TypeOK' BY <1>1, <1>2 DEF TypeOK, LoaderPcs, loadVars
<1>4. LoaderInv' BY <1>1, <1>2 DEF LoaderInv, Busy, loadVars
<1>5. CallInv' BY <1>1, <1>2, Kept DEF loadVars
<1> QED BY <1>2, <1>3, <1>4, <1>5, LoaderStepOk

\* loadThread() and setData(), of a message or of a network reply.
LEMMA LoadStep ==
  ASSUME IInv, LoadThread \/ SetData \/ \E l \in Loads : NetworkReplyFinished(l)
  PROVE  IInv' /\ CallStep
<1>1. TypeOK /\ LoaderInv /\ CallInv BY DEF IInv
<1>2. loader = "load" => Head(threadList) \in Loads
  <2>1. threadList \in Seq(Loads) BY <1>1 DEF TypeOK
  <2> QED BY <1>1, <2>1, HeadTailProperties DEF LoaderInv
<1>3. /\ loader \in {"load", "data", "resumed", "loop"}
      /\ loader' \in {"data", "complete", "finish"}
      /\ cur' \in Loads /\ reply' \in BOOLEAN
      /\ ~reply' => threadList # <<>> /\ cur' = Head(threadList)
      /\ \/ UNCHANGED status /\ loader' = "data"
         \/ /\ loader' \in {"complete", "finish"}
            /\ status' = [status EXCEPT ![cur'] = "done"]
               \/ status' = [status EXCEPT ![cur'] = "network"]
      /\ UNCHANGED <<initialized, reported, flagVars, listVars, eventVars, asleep, exiting, main>>
  <2>1. CASE LoadThread
    BY <1>1, <1>2, <2>1 DEF LoadThread, LoaderInv, Busy, TypeOK
  <2>2. CASE SetData BY <1>1, <2>2 DEF SetData, LoaderInv, Busy, TypeOK
  <2>3. CASE \E l \in Loads : NetworkReplyFinished(l)
    BY <1>1, <2>3 DEF NetworkReplyFinished, LoaderInv, Busy, TypeOK
  <2> QED BY <2>1, <2>2, <2>3
<1>4. /\ status' \in [Loads -> {"new", "loading", "network", "done"}]
      /\ \A l \in Loads : status'[l] = status[l] \/ status'[l] \in {"network", "done"}
      /\ loader' \in {"complete", "finish"} => status'[cur'] \in {"network", "done"}
  BY <1>1, <1>3 DEF TypeOK
<1>5. TypeOK' BY <1>1, <1>3, <1>4 DEF TypeOK, LoaderPcs, flagVars, listVars, eventVars
<1>6. LoaderInv' BY <1>3, <1>4 DEF LoaderInv, Busy, listVars
<1>7. CallInv'
  <2>1. UNCHANGED <<main, threadList>> BY <1>3 DEF listVars
  <2>2. \A l \in Loads : status'[l] = "loading" => Listed(l)'
    BY <1>1, <1>4, <2>1 DEF CallInv, Listed
  <2>3. \A l \in Loads : Awaits(main', l) => status'[l] # "new"
    BY <1>1, <1>4, <2>1 DEF CallInv
  <2> QED BY <2>2, <2>3 DEF CallInv
<1>8. loader # "callMain" /\ UNCHANGED <<main, mainSync, asleep>> BY <1>3 DEF listVars
<1> QED BY <1>5, <1>6, <1>7, <1>8, LoaderStepOk

\* callCompletedMain() is posted; a network reply has been handled.
LEMMA FinishStep ==
  ASSUME IInv, CallCompleted \/ ReplyDone
  PROVE  IInv' /\ CallStep
<1>1. TypeOK /\ LoaderInv /\ CallInv BY DEF IInv
<1>2. /\ loader \in {"complete", "finish"} /\ loader' \in {"finish", "loop"}
      /\ reply' \in {reply, FALSE} /\ (loader' = "finish" => reply' = reply)
      /\ loader' = "loop" => reply' = FALSE
      /\ UNCHANGED <<status, cur, initialized, reported, flagVars, threadList, mainSync,
                     threadEvents, asleep, exiting, main>>
  BY DEF CallCompleted, ReplyDone, PostMethodToMain, loadVars, listVars, eventVars
<1>3. mainList' \in Seq(Loads) /\ mainEvents' \in Nat
  <2>1. CASE CallCompleted
    <3>1. cur \in Loads BY <1>1, <2>1 DEF CallCompleted, LoaderInv, Busy
    <3>2. mainList' = Append(mainList, cur) /\ mainList \in Seq(Loads)
      BY <1>1, <2>1 DEF CallCompleted, PostMethodToMain, TypeOK
    <3>3. mainEvents' \in Nat
      BY <1>1, <2>1 DEF CallCompleted, PostMethodToMain, TriggerMainEvent, TypeOK
    <3> QED BY <3>1, <3>2, <3>3, AppendProperties
  <2>2. CASE ReplyDone BY <1>1, <2>2 DEF ReplyDone, listVars, eventVars, TypeOK
  <2> QED BY <2>1, <2>2
<1>4. TypeOK' BY <1>1, <1>2, <1>3 DEF TypeOK, LoaderPcs, flagVars
<1>5. LoaderInv' BY <1>1, <1>2 DEF LoaderInv, Busy
<1>6. CallInv' BY <1>1, <1>2, Kept
<1> QED BY <1>2, <1>4, <1>5, <1>6, LoaderStepOk

\* The message that was called leaves the list, and its load has been processed.
LEMMA DoneStep ==
  ASSUME IInv, MessageDone
  PROVE  IInv' /\ CallStep
<1>1. TypeOK /\ LoaderInv /\ CallInv BY DEF IInv
<1>2. /\ loader = "finish" /\ ~reply /\ ThreadLoop(Tail(threadList)) /\ UNCHANGED loadVars
  BY DEF MessageDone
<1>3. /\ threadList # <<>> /\ cur = Head(threadList) /\ threadList \in Seq(Loads)
      /\ status[cur] \in {"network", "done"}
  BY <1>1, <1>2 DEF LoaderInv, Busy, TypeOK
<1>4. /\ Tail(threadList) \in Seq(Loads) /\ Head(threadList) = threadList[1]
      /\ Len(Tail(threadList)) = Len(threadList) - 1 /\ Len(threadList) \in Nat \ {0}
      /\ \A i \in 1 .. Len(Tail(threadList)) : Tail(threadList)[i] = threadList[i + 1]
  BY <1>3, HeadTailProperties, EmptySeq
<1>5. /\ threadList' = Tail(threadList) /\ threadProcessing' \in BOOLEAN /\ exiting' \in BOOLEAN
      /\ asleep' \subseteq asleep
      /\ loader' = "loop" \/ (loader' = "load" /\ threadList' # <<>>)
      /\ UNCHANGED <<mainProcessing, shutdown, mainThreadWaiting, mainList, mainSync,
                     eventVars, main>>
  BY <1>1, <1>2, <1>4, ThreadLoopOk
<1>6. TypeOK' BY <1>1, <1>2, <1>4, <1>5 DEF TypeOK, LoaderPcs, eventVars, loadVars
<1>7. LoaderInv' BY <1>2, <1>5 DEF LoaderInv, Busy, loadVars
<1>8. CallInv'
  <2>1. ASSUME NEW l \in Loads, status[l] = "loading" PROVE Listed(l)'
    <3>1. l # cur BY <1>3, <2>1
    <3>2. PICK i \in 1 .. Len(threadList) : threadList[i] = l
      BY <1>1, <2>1 DEF CallInv, Listed
    <3>3. i - 1 \in 1 .. Len(Tail(threadList)) /\ Tail(threadList)[i - 1] = l
      BY <1>3, <1>4, <3>1, <3>2
    <3> QED BY <1>5, <3>3 DEF Listed
  <2>2. UNCHANGED <<main, status>> BY <1>2, <1>5 DEF loadVars
  <2> QED BY <1>1, <2>1, <2>2 DEF CallInv, Awaits
<1>9. loader # "callMain" /\ UNCHANGED <<main, mainSync>> BY <1>2, <1>5
<1> QED BY <1>5, <1>6, <1>7, <1>8, <1>9, LoaderStepOk

\* callMethodInMain() leaves its message, sleeps, and goes on when it has been run.
LEMMA CallMainStep ==
  ASSUME IInv, InitializeEngine \/ (CallMainResumes /\ UNCHANGED loadVars)
  PROVE  IInv' /\ CallStep
<1>1. TypeOK /\ StackInv /\ SyncInv /\ LoaderInv /\ CallInv BY DEF IInv
<1>2. ~SyncOn(main) /\ Ordered(main) /\ main \in Seq(Frames) /\ mainSync = NoLoad
  <2>1. mainSync = NoLoad
    BY <1>1 DEF SyncInv, InitializeEngine, CallMainResumes
  <2> QED BY <1>1, <2>1 DEF StackInv, StackOk, TypeOK
<1>3. /\ loader \in {"data", "callMain"} /\ loader' \in {"callMain", "resumed"}
      /\ mainSync' # NoLoad => loader' = "callMain" /\ "loader" \in asleep'
      /\ "loader" \in asleep' => loader' = "callMain"
      /\ mainSync' \in Loads \cup {NoLoad} /\ asleep' \subseteq Threads /\ mainEvents' \in Nat
      /\ initialized' \subseteq Loads
      /\ UNCHANGED <<status, cur, reply, reported, flagVars, threadList, mainList,
                     threadEvents, exiting, main>>
  <2>1. CASE InitializeEngine
    <3>1. cur \in Loads /\ loader = "data" /\ "loader" \notin asleep
      BY <1>1, <2>1 DEF InitializeEngine, LoaderInv, Busy, SyncInv
    <3>2. CallMethodInMain(cur) /\ initialized' = initialized \cup {cur}
          /\ UNCHANGED <<status, cur, reply, reported>>
      BY <2>1 DEF InitializeEngine
    <3>3. asleep \in SUBSET Threads /\ mainEvents \in Nat /\ initialized \subseteq Loads
      BY <1>1 DEF TypeOK
    <3>4. mainEvents' \in Nat
      BY <3>2, <3>3 DEF CallMethodInMain, NotifyMain, TriggerMainEvent
    <3>5. CASE ~shutdown /\ mainSync' = cur /\ NotifyMain /\ loader' = "callMain"
      <4>1. "loader" \in asleep' /\ asleep' \subseteq Threads
        BY <3>3, <3>5, WakeOneOk DEF NotifyMain, Threads
      <4> QED BY <3>1, <3>2, <3>3, <3>4, <3>5, <4>1 DEF CallMethodInMain
    <3>6. CASE /\ loader' = "resumed" /\ UNCHANGED mainSync
               /\ \E s \in WakeOne(asleep) : asleep' = IF mainThreadWaiting THEN s ELSE asleep
      <4>1. asleep' \subseteq asleep BY <3>3, <3>6, WakeOneOk
      <4> QED BY <1>2, <3>1, <3>2, <3>3, <3>4, <3>6, <4>1 DEF CallMethodInMain
    <3> QED BY <3>2, <3>5, <3>6 DEF CallMethodInMain
  <2>2. CASE CallMainResumes /\ UNCHANGED loadVars
    BY <1>1, <1>2, <2>2 DEF CallMainResumes, loadVars, eventVars, TypeOK
  <2> QED BY <2>1, <2>2
<1>4. TypeOK' BY <1>1, <1>3 DEF TypeOK, LoaderPcs, flagVars
<1>5. StackInv'
  <2>1. StackOk(main, mainSync') /\ main' = main BY <1>2, <1>3, OrderedOk
  <2> QED BY <2>1 DEF StackInv
<1>6. SyncInv' BY <1>3 DEF SyncInv
<1>7. LoaderInv' BY <1>1, <1>3 DEF LoaderInv, Busy
<1>8. CallInv' /\ CallStep BY <1>1, <1>3, Kept
<1> QED BY <1>4, <1>5, <1>6, <1>7, <1>8 DEF IInv

-----------------------------------------------------------------------------
(* The theorems.                                                           *)

LEMMA InitInv == Init => IInv
<1> SUFFICES ASSUME Init PROVE IInv OBVIOUS
<1> DEFINE f == Plain("startup")
<1>1. f \in Frames /\ f.at = "startup" BY DEF Plain, Frame, Frames, FrameKinds
<1>2. /\ main = <<f>> /\ loader = "start" /\ asleep = {"main"} /\ mainSync = NoLoad
      /\ threadList = <<>> /\ reply = FALSE /\ status = [l \in Loads |-> "new"]
  BY DEF Init
<1> HIDE DEF f
<1>3. /\ main \in Seq(Frames) /\ Len(main) = 1 /\ main[1] = f BY <1>1, <1>2
<1>4. TypeOK
  <2>1. /\ threadList \in Seq(Loads) /\ mainList \in Seq(Loads)
        /\ mainSync \in Loads \cup {NoLoad}
        /\ threadProcessing \in BOOLEAN /\ mainProcessing \in BOOLEAN
        /\ shutdown \in BOOLEAN /\ mainThreadWaiting \in BOOLEAN
        /\ threadEvents \in Nat /\ mainEvents \in Nat
        /\ asleep \subseteq Threads /\ exiting \in BOOLEAN /\ loader \in LoaderPcs
    <3>1. /\ threadList = <<>> /\ mainList = <<>> /\ mainSync = NoLoad
          /\ threadProcessing = FALSE /\ mainProcessing = FALSE
          /\ shutdown = FALSE /\ mainThreadWaiting = FALSE
          /\ threadEvents = 0 /\ mainEvents = 0
          /\ asleep = {"main"} /\ exiting = FALSE /\ loader = "start"
      BY DEF Init
    <3>2. <<>> \in Seq(Loads) OBVIOUS
    <3> QED BY <3>1, <3>2 DEF Threads, LoaderPcs
  <2>2. /\ status \in [Loads -> {"new", "loading", "network", "done"}]
        /\ cur \in Loads \cup {NoLoad} /\ reply \in BOOLEAN
        /\ initialized \subseteq Loads /\ reported \in [Loads -> Nat]
    BY DEF Init
  <2> HIDE DEF Frames
  <2> QED BY <1>3, <2>1, <2>2 DEF TypeOK
<1>5. Ordered(main) /\ \A l : ~Awaits(main, l) BY <1>1, <1>3 DEF Ordered, Awaits
<1>6. StackInv BY <1>3, <1>5, OrderedOk DEF StackInv
<1>7. SyncInv /\ LoaderInv BY <1>2 DEF SyncInv, LoaderInv, Busy
<1>8. CallInv BY <1>2, <1>5 DEF CallInv
<1> QED BY <1>4, <1>6, <1>7, <1>8 DEF IInv

LEMMA NextInv ==
  ASSUME NoNestedWait, IInv, [Next]_vars
  PROVE  IInv' /\ CallStep
<1>1. CASE MainCall
  <2>1. CASE \E l \in Loads : LoadAsync(l) \/ \E waits \in BOOLEAN : LoadSync(l, waits)
    BY <2>1, StartStep
  <2>2. CASE \E l \in Loads : Await(l) BY <2>2, AwaitStep
  <2>3. CASE Close BY <2>3, ShutdownStep DEF Close
  <2> QED BY <1>1, <2>1, <2>2, <2>3 DEF MainCall
<1>2. CASE MainProgress
  <2>1. CASE CallResumes /\ UNCHANGED loadVars BY <2>1, CallStepOk
  <2>2. CASE EnterWait /\ UNCHANGED loadVars BY <2>2, EnterStep
  <2>3. CASE (StartupReturns \/ WaitResumes \/ Join) /\ UNCHANGED loadVars BY <2>3, PopStep
  <2>4. CASE MainEvent /\ UNCHANGED loadVars BY <2>4, EventStep
  <2>5. CASE ShutdownResumes /\ UNCHANGED loadVars BY <2>5, ShutdownStep
  <2>6. CASE AwaitTest BY <2>6, AwaitStep
  <2>7. CASE HandlerReturns BY <2>7, CompletedStep, InitializeStep
  <2> QED BY <1>2, <2>1, <2>2, <2>3, <2>4, <2>5, <2>6, <2>7 DEF MainProgress
<1>3. CASE EventLoopMain BY <1>3, LoopStep
<1>4. CASE LoaderProgress \/ EventLoopLoader
  <2>1. CASE (RunStart \/ ThreadEvent \/ LeaveExec \/ DeliverThreadEvent) /\ UNCHANGED loadVars
    BY <2>1, LoaderLoopStep
  <2>2. CASE InitializeEngine \/ (CallMainResumes /\ UNCHANGED loadVars)
    BY <2>2, CallMainStep
  <2>3. CASE LoadThread \/ SetData BY <2>3, LoadStep
  <2>4. CASE CallCompleted \/ ReplyDone BY <2>4, FinishStep
  <2>5. CASE MessageDone BY <2>5, DoneStep
  <2> QED BY <1>4, <2>1, <2>2, <2>3, <2>4, <2>5 DEF LoaderProgress, EventLoopLoader
<1>5. CASE \E l \in Loads : NetworkReplyFinished(l) BY <1>5, LoadStep
<1>6. CASE UNCHANGED vars
  <2>1. UNCHANGED <<threadList, mainList, mainSync, threadProcessing, mainProcessing, shutdown,
                    mainThreadWaiting, threadEvents, mainEvents, asleep, exiting, main, loader,
                    status, cur, reply, initialized, reported>>
    BY <1>6 DEF vars, threadVars, flagVars, listVars, eventVars, loadVars
  <2>2. TypeOK /\ StackInv /\ SyncInv /\ LoaderInv /\ CallInv BY DEF IInv
  <2>3. TypeOK' BY <2>1, <2>2 DEF TypeOK
  <2>4. StackInv' /\ SyncInv' /\ LoaderInv' /\ CallInv' /\ CallStep BY <2>1, <2>2, Kept
  <2> QED BY <2>3, <2>4 DEF IInv
<1> QED BY <1>1, <1>2, <1>3, <1>4, <1>5, <1>6 DEF Next

THEOREM Invariance == ASSUME NoNestedWait PROVE Spec => []IInv
<1>1. IInv /\ [Next]_vars => IInv' BY NextInv
<1> QED BY InitInv, <1>1, PTL DEF Spec

\* Every variable keeps its type, and while a synchronous message runs in the main thread
\* the loader thread sleeps in the call that sent it and the message is alive, for any
\* loads, plugins and network replies: QQmlThread::callMethodInMain().
THEOREM SyncCallTheorem ==
  ASSUME NoNestedWait PROVE Spec => []SyncCallBlocksLoader
<1>1. ASSUME IInv PROVE SyncCallBlocksLoader
  <2>1. TypeOK /\ StackInv /\ SyncInv /\ main \in Seq(Frames) BY <1>1 DEF IInv, TypeOK
  <2>2. CASE SyncOn(main)
    <3>1. /\ main # <<>> /\ Ordered(Tail(main)) /\ mainSync = Head(main).load
          /\ loader = "callMain" /\ "loader" \in asleep
      BY <2>1, <2>2 DEF StackInv, StackOk, SyncOn, SyncInv
    <3>2. /\ Head(main) = main[1] /\ Len(Tail(main)) = Len(main) - 1
          /\ Len(main) \in Nat \ {0}
          /\ \A i \in 1 .. Len(Tail(main)) : Tail(main)[i] = main[i + 1]
      BY <2>1, <3>1, HeadTailProperties, EmptySeq
    <3>3. \A i \in 1 .. Len(main) : main[i].at = "handler" /\ main[i].sync => i = 1
      <4> SUFFICES ASSUME NEW i \in 1 .. Len(main), main[i].at = "handler", main[i].sync,
                          i # 1
                   PROVE  FALSE
        OBVIOUS
      <4>1. i - 1 \in 1 .. Len(Tail(main)) /\ Tail(main)[i - 1] = main[i] BY <3>2
      <4> QED BY <3>1, <4>1 DEF Ordered
    <3> QED BY <2>1, <3>1, <3>2, <3>3 DEF SyncCallBlocksLoader
  <2>3. CASE ~SyncOn(main)
    <3>1. Ordered(main) BY <2>1, <2>3 DEF StackInv, StackOk
    <3> QED BY <2>1, <3>1 DEF SyncCallBlocksLoader, Ordered
  <2> QED BY <2>2, <2>3
<1> QED BY <1>1, Invariance, PTL

\* callMethodInThread() returns only when its load has been processed, whatever wakes the
\* main thread and whatever it runs while it waits.
THEOREM CallReturnsTheorem ==
  ASSUME NoNestedWait PROVE Spec => CallReturnsLoaded
<1>1. ASSUME IInv, [Next]_vars
      PROVE  [\A l \in Loads :
                Calling(l) /\ ~Calling(l)' => status'[l] \in {"network", "done"}]_vars
  <2>1. CallStep BY <1>1, NextInv
  <2> QED BY <2>1 DEF CallStep, Calling, Awaits
<1> QED BY <1>1, Invariance, PTL DEF Spec, CallReturnsLoaded
=============================================================================

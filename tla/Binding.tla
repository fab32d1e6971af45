------------------------------- MODULE Binding -------------------------------
(***************************************************************************)
(* Bindings and signal handlers: what the change of a property calls,      *)
(* while the calls change properties, connect, disconnect and delete.      *)
(*                                                                         *)
(* Source: qml/qml/qqmlnotifier.cpp, qqmljavascriptexpression.cpp and      *)
(* qqmlbinding.cpp.  One thread, whose calls are the frames of a stack,    *)
(* the outermost first.                                                    *)
(***************************************************************************)
EXTENDS Integers, FiniteSets, SequencesExt

CONSTANTS
  Properties, None,
  Bindings, Target, Reads,  \* the property a binding writes, those it may read
  Handlers, Signal,         \* QQmlBoundSignals, and whose change signal they handle
  Guards,                   \* QQmlJavaScriptExpressionGuards of the pool
  Ruthless,                 \* the object may be deleted whose signal is notified
  MaxReads,                 \* bound: reads of an evaluation
  MaxCalls                  \* bound: what the program does but for enabling bindings at rest

ASSUME BindingAssumption ==
  /\ None \notin Properties \cup Bindings
  /\ Guards \cap Handlers = {} /\ IsFiniteSet(Guards) /\ IsFiniteSet(Handlers)
  /\ Target \in [Bindings -> Properties] /\ Reads \in [Bindings -> SUBSET Properties]
  /\ Signal \in [Handlers -> Properties]
  /\ Ruthless \in BOOLEAN /\ MaxReads \in Nat /\ MaxCalls \in Nat

Endpoints == Guards \cup Handlers
NoSlot == <<0, 0>>

VARIABLES
  endpoints,  \* of a property, the one connected last first
  sender,     \* sender() of an endpoint
  notifying,  \* where its senderPtr points to: a frame and an entry in it, or NoSlot
  expression, \* of a guard: its binding, or None while it is in the pool
  stale,      \* guards whose property has changed since they were captured
  active,     \* activeGuards of a binding, the one captured first first
  binding,    \* whether a binding exists, its flags, whether a loop was reported since
              \* it was updated, what it has read
  handler,    \* "there", "later" (deleteLater) or "gone"
  alive,      \* properties whose object exists
  stack, calls

notifierVars == <<endpoints, sender, notifying, stale, expression>>
vars == <<notifierVars, active, binding, handler, alive, stack, calls>>

Init ==
  /\ endpoints = [p \in Properties |-> SetToSeq({h \in Handlers : Signal[h] = p})]
  /\ sender = [e \in Endpoints |-> IF e \in Handlers THEN Signal[e] ELSE None]
  /\ notifying = [e \in Endpoints |-> NoSlot]
  /\ expression = [g \in Guards |-> None] /\ stale = {}
  /\ active = [b \in Bindings |-> <<>>]
  /\ binding = [b \in Bindings |-> [exists |-> TRUE, enabled |-> FALSE, updating |-> FALSE,
                                    looped |-> FALSE, read |-> {}]]
  /\ handler = [h \in Handlers |-> "there"]
  /\ alive = Properties /\ stack = <<>> /\ calls = 0

(* Frames: emitNotify(), a handler, and update() of a binding, which       *)
(* evaluates, writes and is done.                                          *)
Kinds == {"emit", "handle", "evaluate", "write", "done"}
Frame(kind, of) ==
  [kind |-> kind, of |-> of,
   entries |-> <<>>, next |-> 0,  \* NotifyListTraversalData, and the one to call
   called |-> FALSE,
   rest |-> <<>>]                 \* guards of the last evaluation not captured so far
Frames ==
  [kind : Kinds, of : Properties \cup Bindings \cup Handlers,
   entries : Seq([endpoint : Endpoints, watch : Nat \X Nat]), next : Nat, called : BOOLEAN,
   rest : Seq(Guards)]
Depth == Len(stack)
Top == stack[Depth]
Rest == SubSeq(stack, 1, Depth - 1)
At(kind) == Depth > 0 /\ Top.kind = kind

-----------------------------------------------------------------------------
(* QQmlNotifier and QQmlNotifierEndpoint.                                  *)

\* disconnectWatch of an entry at the slot.
Watch(e, slot) == IF notifying[e] = NoSlot THEN slot ELSE notifying[e]

\* emitNotify(), up to its first call, above the frames.
Emit(p, frames) ==
  LET list == endpoints[p]
      slot(x) == <<Len(frames) + 1, x>>
      entries == [x \in DOMAIN list |-> [endpoint |-> list[x], watch |-> Watch(list[x], slot(x))]]
  IN /\ stack' = IF list = <<>> THEN frames
                 ELSE Append(frames, [Frame("emit", p) EXCEPT !.entries = entries,
                                                              !.next = Len(list)])
     /\ notifying' = [e \in Endpoints |->
          IF notifying[e] = NoSlot /\ e \in ToSet(list)
          THEN slot(CHOOSE x \in DOMAIN list : list[x] = e) ELSE notifying[e]]
     /\ stale' = stale \cup {g \in Guards : sender[g] = p}

Entry == Top.entries[Top.next]
\* *disconnectWatch
Watched(entry) == notifying[entry.endpoint] = entry.watch /\ sender[entry.endpoint] # None

\* A list that the endpoints S have been taken out of.
Without(list, S) ==
  LET kept[m \in 0 .. Len(list)] ==
        IF m = 0 THEN <<>>
        ELSE IF list[m] \in S THEN kept[m - 1] ELSE Append(kept[m - 1], list[m])
  IN kept[Len(list)]

\* The endpoints S are disconnected, and deleted those in D.
DisconnectSilently(S, D) ==                \* mutant: the sender is not reset
  /\ endpoints' = [p \in Properties |-> Without(endpoints[p], S)]
  /\ stale' = stale \ S /\ UNCHANGED <<sender, notifying>>
  /\ expression' = [g \in Guards |-> IF g \in D THEN None ELSE expression[g]]
Disconnect(S, D) ==
  /\ endpoints' = [p \in Properties |-> Without(endpoints[p], S)]
  /\ sender' = [e \in Endpoints |-> IF e \in S THEN None ELSE sender[e]]
  /\ notifying' = [e \in Endpoints |-> IF e \in D THEN NoSlot ELSE notifying[e]]
  /\ stale' = stale \ S
  /\ expression' = [g \in Guards |-> IF g \in D THEN None ELSE expression[g]]
Delete(S) == Disconnect(S, S)

\* cancelNotify() of a guard that is captured once more.
CancelsNothing(g) == {}                    \* mutant: not called
Cancelled(g) == {g}

\* clearActiveGuards()
LeavesGuards(b) == UNCHANGED notifierVars  \* mutant: not called
ClearActiveGuards(b) == Delete(ToSet(active[b]))

-----------------------------------------------------------------------------
(* QQmlBinding::update()                                                   *)

Update(b, frames) ==
  LET now == binding[b] IN
  \/ /\ ~(now.exists /\ now.enabled)
     /\ stack' = frames /\ UNCHANGED <<active, binding>>
  \/ /\ now.exists /\ now.enabled /\ now.updating
     /\ stack' = frames /\ binding' = [binding EXCEPT ![b].looped = TRUE]
     /\ UNCHANGED active
  \/ /\ now.exists /\ now.enabled /\ ~now.updating
     /\ stack' = Append(frames, [Frame("evaluate", b) EXCEPT !.rest = active[b]])
     /\ binding' = [binding EXCEPT ![b].updating = TRUE, ![b].looped = FALSE, ![b].read = {}]
     /\ active' = [active EXCEPT ![b] = <<>>]

NotAdded(g, list) == list                  \* mutant: connected, and not listed
AddNotify(g, list) == <<g>> \o list

\* captureProperty(): the next guard if it is connected to p, or a new one.
Capture(p) ==
  LET b == Top.of
      connected == {x \in DOMAIN Top.rest : sender[Top.rest[x]] = p}
      passed == {x \in DOMAIN Top.rest : \A y \in connected : x < y}
      dropped == {Top.rest[x] : x \in passed}
      left(n) == SubSeq(Top.rest, n, Len(Top.rest))
      captured(g, rest) ==
        /\ active' = [active EXCEPT ![b] = Append(@, g)]
        /\ stack' = Append(Rest, [Top EXCEPT !.rest = rest])
  IN /\ binding' = [binding EXCEPT ![b].read = @ \cup {p}]
     /\ \/ \E x \in connected :
             LET g == Top.rest[x] IN
             /\ \A y \in connected : x <= y
             /\ captured(g, left(x + 1))
             /\ endpoints' = [q \in Properties |-> Without(endpoints[q], dropped)]
             /\ sender' = [e \in Endpoints |-> IF e \in dropped THEN None ELSE sender[e]]
             /\ notifying' = [e \in Endpoints |->
                  IF e \in dropped \cup Cancelled(g) THEN NoSlot ELSE notifying[e]]
             /\ stale' = stale \ (dropped \cup {g})
             /\ expression' = [h \in Guards |-> IF h \in dropped THEN None ELSE expression[h]]
        \/ /\ connected = {}
           /\ \E g \in {h \in Guards : h \in dropped \/ expression[h] = None} :
                /\ captured(g, <<>>)
                /\ endpoints' = [q \in Properties |->
                     LET list == Without(endpoints[q], dropped)
                     IN IF q = p THEN AddNotify(g, list) ELSE list]
                /\ sender' = [e \in Endpoints |->
                     IF e = g THEN p ELSE IF e \in dropped THEN None ELSE sender[e]]
                /\ notifying' = [e \in Endpoints |-> IF e \in dropped THEN NoSlot
                                                     ELSE notifying[e]]
                /\ stale' = stale \ dropped
                /\ expression' = [h \in Guards |->
                     IF h = g THEN b ELSE IF h \in dropped THEN None ELSE expression[h]]

Read(p) ==
  /\ At("evaluate") /\ binding[Top.of].exists
  /\ p \in Reads[Top.of] \cap alive /\ Len(active[Top.of]) < MaxReads
  /\ Capture(p)
  /\ UNCHANGED <<handler, alive, calls>>

\* The evaluation has returned, or thrown: what was not captured again goes.
Kept == {}                                 \* mutant: nothing goes
NotCaptured == ToSet(Top.rest)
Evaluated ==
  /\ At("evaluate")
  /\ Delete(NotCaptured)
  /\ stack' = Append(Rest, [Top EXCEPT !.kind = "write", !.rest = <<>>])
  /\ UNCHANGED <<active, binding, handler, alive, calls>>
Write ==
  /\ At("write")
  /\ LET done == Append(Rest, [Top EXCEPT !.kind = "done"]) IN
     \/ stack' = done /\ UNCHANGED <<notifying, stale>>
     \/ binding[Top.of].exists /\ Emit(Target[Top.of], done)
  /\ UNCHANGED <<endpoints, sender, expression, active, binding, handler, alive, calls>>
Updated ==
  /\ At("done") /\ stack' = Rest
  /\ binding' = [binding EXCEPT ![Top.of].updating = FALSE]
  /\ UNCHANGED <<notifierVars, active, handler, alive, calls>>

-----------------------------------------------------------------------------
(* emitNotify(), from its first call on.                                   *)

Calling == Append(Rest, [Top EXCEPT !.called = TRUE])
Next1 == Append(Rest, [Top EXCEPT !.next = @ - 1, !.called = FALSE])

\* Of a guard whose binding is deleted (LeftOver) the expression is freed memory: the
\* program ends here, or finds the enabled flag that removeOldBinding() has taken back.
CallGuard ==
  /\ At("emit") /\ ~Top.called /\ Top.next > 0 /\ Watched(Entry) /\ Entry.endpoint \in Guards
  /\ Update(expression[Entry.endpoint], Calling)
  /\ UNCHANGED <<notifierVars, handler, alive, calls>>
CallHandler ==
  /\ At("emit") /\ ~Top.called /\ Top.next > 0 /\ Watched(Entry) /\ Entry.endpoint \in Handlers
  /\ stack' = Append(Calling, Frame("handle", Entry.endpoint))
  /\ UNCHANGED <<notifierVars, active, binding, handler, alive, calls>>
Skip ==
  /\ At("emit") /\ ~Top.called /\ Top.next > 0 /\ ~Watched(Entry)
  /\ stack' = Next1
  /\ UNCHANGED <<notifierVars, active, binding, handler, alive, calls>>
\* stopNotifying(), in the frame that has started it.
NotifiesOn == notifying                    \* mutant: not called
Stopped ==
  IF Entry.watch = <<Depth, Top.next>> /\ Watched(Entry)
  THEN [notifying EXCEPT ![Entry.endpoint] = NoSlot] ELSE notifying
Called ==
  /\ At("emit") /\ Top.called
  /\ stack' = Next1
  /\ notifying' = Stopped
  /\ UNCHANGED <<endpoints, sender, stale, expression, active, binding, handler, alive, calls>>
Emitted ==
  /\ At("emit") /\ Top.next = 0 /\ stack' = Rest
  /\ UNCHANGED <<notifierVars, active, binding, handler, alive, calls>>
HandlerReturns ==
  /\ At("handle") /\ stack' = Rest
  /\ UNCHANGED <<notifierVars, active, binding, handler, alive, calls>>

-----------------------------------------------------------------------------
(* The program, in its event loop, in a handler or in what a binding       *)
(* evaluates.                                                              *)

MayRun ==
  /\ Depth > 0 => Top.kind \in {"handle", "evaluate"}
  /\ calls < MaxCalls /\ calls' = calls + 1

Change(p) ==
  /\ MayRun /\ p \in alive /\ endpoints[p] # <<>>
  /\ Emit(p, stack)
  /\ UNCHANGED <<endpoints, sender, expression, active, binding, handler, alive>>

\* QQmlBinding::setEnabled(), when the binding is added, and in changes of state.
Enable(b) ==
  /\ IF Depth = 0 THEN UNCHANGED calls ELSE MayRun
  /\ binding[b].exists /\ ~binding[b].enabled
  /\ IF binding[b].updating
     THEN /\ binding' = [binding EXCEPT ![b].enabled = TRUE, ![b].looped = TRUE]
          /\ UNCHANGED <<stack, active>>
     ELSE /\ binding' = [binding EXCEPT ![b].enabled = TRUE, ![b].updating = TRUE,
                                        ![b].looped = FALSE, ![b].read = {}]
          /\ stack' = Append(stack, [Frame("evaluate", b) EXCEPT !.rest = active[b]])
          /\ active' = [active EXCEPT ![b] = <<>>]
  /\ UNCHANGED <<notifierVars, handler, alive>>
Disable(b) ==
  /\ MayRun /\ binding[b].exists /\ binding[b].enabled
  /\ ClearActiveGuards(b)
  /\ active' = [active EXCEPT ![b] = <<>>]
  /\ binding' = [binding EXCEPT ![b].enabled = FALSE]
  /\ UNCHANGED <<handler, alive, stack>>

\* What is assigned to a property takes the place of its binding, which is deleted, in
\* its own evaluation too: the DeleteWatchers of update() and of the capture see to it
\* that it captures and writes nothing more.
RemoveBinding(b) ==
  /\ MayRun /\ binding[b].exists
  /\ ClearActiveGuards(b)
  /\ active' = [active EXCEPT ![b] = <<>>]
  /\ binding' = [binding EXCEPT ![b].exists = FALSE]
  /\ UNCHANGED <<handler, alive, stack>>

\* QQmlConnections::setTarget()
RemoveHandler(h) ==
  /\ MayRun /\ handler[h] = "there"
  /\ IF notifying[h] # NoSlot
     THEN /\ handler' = [handler EXCEPT ![h] = "later"]
          /\ UNCHANGED notifierVars
     ELSE /\ handler' = [handler EXCEPT ![h] = "gone"]
          /\ Delete({h})
  /\ UNCHANGED <<active, binding, alive, stack>>
DeleteLater(h) ==
  /\ Depth = 0 /\ handler[h] = "later"
  /\ handler' = [handler EXCEPT ![h] = "gone"]
  /\ Delete({h})
  /\ UNCHANGED <<active, binding, alive, stack, calls>>

\* QQmlData::destroyed() of the object that has p.
Destroy(p) ==
  LET lost == {b \in Bindings : Target[b] = p}
      guards == UNION {ToSet(active[b]) : b \in lost}
  IN /\ MayRun /\ p \in alive /\ alive' = alive \ {p}
     /\ Ruthless \/ \A e \in ToSet(endpoints[p]) : notifying[e] = NoSlot
     /\ Disconnect(guards \cup ToSet(endpoints[p]), guards)
     /\ active' = [b \in Bindings |-> IF b \in lost THEN <<>> ELSE active[b]]
     /\ binding' = [b \in Bindings |->
                     [binding[b] EXCEPT !.exists = @ /\ b \notin lost, !.read = @ \ {p}]]
     /\ UNCHANGED <<handler, stack>>

-----------------------------------------------------------------------------
Engine ==
  \/ \E p \in Properties : Read(p)
  \/ Evaluated \/ Write \/ Updated
  \/ CallGuard \/ CallHandler \/ Skip \/ Called \/ Emitted \/ HandlerReturns
Program ==
  \/ \E p \in Properties : Change(p) \/ Destroy(p)
  \/ \E b \in Bindings : Enable(b) \/ Disable(b) \/ RemoveBinding(b)
  \/ \E h \in Handlers : RemoveHandler(h) \/ DeleteLater(h)
Next == Engine \/ Program
Spec == Init /\ [][Next]_vars

-----------------------------------------------------------------------------
\* Type invariant: what each variable may hold.
TypeOK ==
  /\ endpoints \in [Properties -> Seq(Endpoints)]
  /\ sender \in [Endpoints -> Properties \cup {None}]
  /\ notifying \in [Endpoints -> Nat \X Nat]
  /\ expression \in [Guards -> Bindings \cup {None}] /\ stale \subseteq Guards
  /\ active \in [Bindings -> Seq(Guards)]
  /\ binding \in [Bindings -> [exists : BOOLEAN, enabled : BOOLEAN, updating : BOOLEAN,
                               looped : BOOLEAN, read : SUBSET Properties]]
  /\ handler \in [Handlers -> {"there", "later", "gone"}] /\ alive \subseteq Properties
  /\ stack \in Seq(Frames) /\ calls \in Nat

\* startNotifying() makes senderPtr a pointer into the stack of emitNotify(): it points
\* into a frame that has not returned, to the entry of its endpoint, not passed so far,
\* however many notifications of the same endpoint are nested.
NotifyingIsLive ==
  \A e \in Endpoints : notifying[e] # NoSlot =>
    /\ notifying[e][1] \in DOMAIN stack
    /\ LET f == stack[notifying[e][1]] IN
         f.kind = "emit" /\ notifying[e][2] \in 1 .. f.next
         /\ f.entries[notifying[e][2]].endpoint = e

\* Every variable keeps its type.  disconnectWatch: what any of the nested emitNotify()
\* is going to call is still connected to what has changed, although callbacks have
\* disconnected, deleted and captured endpoints since it took the list.
WatchesAgree ==
  /\ TypeOK
  /\ \A x \in DOMAIN stack : stack[x].kind = "emit" =>
       \A y \in 1 .. stack[x].next :
         LET entry == stack[x].entries[y] IN
         Watched(entry) => entry.endpoint \in ToSet(endpoints[stack[x].of])

\* A guard that the evaluation of a binding has not captured again when the binding was
\* deleted: capture.guards has it until the evaluation returns.
LeftOver(g) ==
  \E x \in DOMAIN stack :
    /\ stack[x].kind = "evaluate" /\ stack[x].of = expression[g] /\ g \in ToSet(stack[x].rest)
    /\ ~binding[expression[g]].exists

\* QQmlJavaScriptExpressionGuard_callback() does not look whether the guard has an
\* expression, nor whether that is deleted: the guard that is called is in use, and its
\* binding exists, but in one case, where the code uses what it has freed: the binding
\* was deleted in its own evaluation, and that evaluation has not returned.
CallbackIsLive ==
  At("emit") /\ ~Top.called /\ Top.next > 0 /\ Watched(Entry) /\ Entry.endpoint \in Guards =>
    /\ expression[Entry.endpoint] # None
    /\ binding[expression[Entry.endpoint]].exists \/ LeftOver(Entry.endpoint)

\* captureProperty() uses the guards of the last evaluation again: at rest a binding
\* that is enabled listens to all that it has read last and to nothing else, unless it
\* was told that it loops; and no guard of the pool is lost.
Listening(b) == binding[b].exists /\ binding[b].enabled /\ ~binding[b].looped
GuardsExact ==
  Depth = 0 =>
    /\ \A b \in Bindings :
         /\ \A g \in ToSet(active[b]) : expression[g] = b
         /\ Listening(b) => {sender[g] : g \in ToSet(active[b])} \ {None} = binding[b].read
    /\ \A g \in Guards : expression[g] # None =>
         binding[expression[g]].exists /\ g \in ToSet(active[expression[g]])

\* At rest a binding has been evaluated since the last change of anything it has read,
\* unless it was told that it loops, although a notification that it was owed may have
\* been cancelled, skipped or nested in another.
UpToDate ==
  Depth = 0 => \A b \in Bindings : Listening(b) => ToSet(active[b]) \cap stale = {}

\* cancelNotify(): a binding that has been evaluated since the change is not evaluated
\* once more when its turn in the notification of that change comes.
NoNeedlessUpdate ==
  [][CallGuard /\ Len(stack') > Depth => Entry.endpoint \in stale]_vars
=============================================================================

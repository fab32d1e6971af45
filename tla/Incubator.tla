------------------------------ MODULE Incubator ------------------------------
(***************************************************************************)
(* QQmlIncubator: objects created a bit at a time, in one another's        *)
(* creation, forced, cleared and deleted from the callbacks they make.     *)
(*                                                                         *)
(* Source: qml/qml/qqmlincubator.cpp and its callers in qqmlcomponent.cpp. *)
(* One thread, whose calls are the frames of a stack.                      *)
(***************************************************************************)
EXTENDS Integers, FiniteSets, SequencesExt

CONSTANTS
  Incubators, NoIncubator,
  Mode,        \* Incubators -> "async", "nested" (AsynchronousIfNested) or "sync"
  Contexts,    \* in whose objects an incubator's context is, the innermost first
  Deleted,     \* incubators that the program deletes
  MaxCalls     \* bound: calls the program makes

ASSUME IncubatorAssumption ==
  /\ NoIncubator \notin Incubators /\ IsFiniteSet(Incubators)
  /\ Mode \in [Incubators -> {"async", "nested", "sync"}]
  /\ Contexts \in [Incubators -> Seq(Incubators)]
  /\ \A i \in Incubators :
       Contexts[i] # <<>> => Contexts[Head(Contexts[i])] = Tail(Contexts[i])
  /\ Deleted \subseteq Incubators /\ MaxCalls \in Nat

VARIABLES
  status, progress,
  errors,       \* errors is not empty
  unit,         \* compilationUnit and creator are there
  result,
  async,        \* isAsynchronous
  finalized,    \* finalize() has ended: rootContext has been set for the object
  inside,       \* it was started in the object that its parent has now
  waitingOnMe,  \* who waits on it; the other's waitingFor is the inverse
  list,         \* incubatorList, its first element first
  creations,    \* inProgressCreations
  owner,        \* the QQmlIncubator, q, exists
  exists,       \* the QQmlIncubatorPrivate does
  stack, calls

contexts == <<finalized, inside>>
incubation ==
  <<status, progress, errors, unit, result, async, contexts, waitingOnMe, list>>
vars == <<incubation, creations, owner, exists, stack, calls>>

Parent(i) == IF Contexts[i] = <<>> THEN NoIncubator ELSE Head(Contexts[i])
WaitingFor(i) == {j \in Incubators : waitingOnMe[j] = i}

Init ==
  /\ status = [i \in Incubators |-> "null"] /\ progress = [i \in Incubators |-> "execute"]
  /\ errors = [i \in Incubators |-> FALSE] /\ unit = [i \in Incubators |-> FALSE]
  /\ result = [i \in Incubators |-> FALSE] /\ async = [i \in Incubators |-> FALSE]
  /\ finalized = [i \in Incubators |-> FALSE] /\ inside = [i \in Incubators |-> FALSE]
  /\ waitingOnMe = [i \in Incubators |-> NoIncubator]
  /\ list = <<>> /\ creations = 0
  /\ owner = [i \in Incubators |-> TRUE] /\ exists = [i \in Incubators |-> TRUE]
  /\ stack = <<>> /\ calls = 0

(* Frames.  incubate(): enter, create, initial (in setInitialState()),     *)
(* checked (in statusChanged()), finalize, finish, ended (in               *)
(* statusChanged()) and count.  QQmlEnginePrivate::incubate(): starting,   *)
(* loading.  QQmlIncubator::clear(): clear, null.  forceCompletion():      *)
(* force.                                                                  *)
Positions == {"enter", "create", "initial", "checked", "finalize", "finish", "ended", "count",
              "starting", "loading", "clear", "null", "force"}
Frame(at, i, interrupts) ==
  [at |-> at, inc |-> i,
   interrupts |-> interrupts,   \* shouldInterrupt() may be true
   callback |-> FALSE,          \* in a virtual function of q
   recursed |-> FALSE,          \* what the QRecursionWatcher of the frame has seen
   waiting |-> NoIncubator,     \* isWaiting
   was |-> "null"]              \* the status that clear() has found
Top == Head(stack)
Rest == Tail(stack)

\* The last reference is gone: the private is deleted before anything else is done.
Unreferenced(i) ==
  /\ exists[i] /\ ~owner[i] /\ WaitingFor(i) = {}
  /\ \A x \in DOMAIN stack : stack[x].inc # i /\ stack[x].waiting # i
Settled == \A i \in Incubators : ~Unreferenced(i)
At(at) == Settled /\ stack # <<>> /\ Top.at = at

\* A new QRecursionWatcher on i is seen by those there are.
Watched(f) == IF f.at = "ended" THEN f.waiting ELSE f.inc
Recurse(i, frames) ==
  [x \in DOMAIN frames |-> [frames[x] EXCEPT !.recursed = @ \/ Watched(frames[x]) = i]]

\* changeStatus(s) in the frame f of f.inc.
ChangeStatus(f, s, frames) ==
  /\ status' = [status EXCEPT ![f.inc] = s]
  /\ stack' = <<[f EXCEPT !.callback = owner[f.inc] /\ s # status[f.inc]]>> \o frames

CalculateStatus(i, failed, done, there) ==
  CASE failed -> "error"
    [] ~failed /\ result[i] /\ done /\ WaitingFor(i) = {} -> "ready"
    [] OTHER -> IF there THEN "loading" ELSE "null"

\* QQmlIncubatorPrivate::clear(), but for those it waits for.
StaysListed(i) ==                           \* mutant: not taken off the list
  /\ unit' = [unit EXCEPT ![i] = FALSE] /\ UNCHANGED list
  /\ waitingOnMe' = [waitingOnMe EXCEPT ![i] = NoIncubator]
LetGo(i) ==
  /\ unit' = [unit EXCEPT ![i] = FALSE]
  /\ list' = RemoveFirst(list, i)
  /\ waitingOnMe' = [waitingOnMe EXCEPT ![i] = NoIncubator]

-----------------------------------------------------------------------------
(* The program, in its event loop or in a callback.                        *)

Called == Settled /\ calls < MaxCalls /\ calls' = calls + 1
Making(i) == \E x \in DOMAIN stack : stack[x].at = "create" /\ stack[x].inc = i
Constructing == \E i \in Incubators : Making(i)

\* The object is there, finished or not; what clear() is to delete later is gone.
Alive(i) == result[i] \/ progress[i] = "created" \/ Making(i)

\* What runs inside a creation starts what belongs to it, and nothing else.
MayStart(i) ==
  stack # <<>> =>
    Top.callback \/ (Top.at \in {"create", "finalize"} /\ Top.inc = Parent(i))
MayCall == (stack # <<>> => Top.callback) /\ ~Constructing

\* context->incubator(): clear() resets it only where rootContext was set.
Names(i) ==
  IF unit[i] THEN Alive(i) ELSE ~finalized[i] /\ (result[i] \/ progress[i] = "created")

\* QQmlComponent::create(), QQmlEnginePrivate::incubate().
\* The first context from inside that names an incubator names h.
Joins(i, h) ==
  /\ Mode[i] = "nested"
  /\ \E x \in DOMAIN Contexts[i] :
       /\ h = Contexts[i][x] /\ Names(h) /\ async[h]
       /\ \A y \in 1 .. x - 1 : ~Names(Contexts[i][y]) /\ inside[Contexts[i][y]]
Host(i, h) ==
  Joins(i, h) \/ (h = NoIncubator /\ \A g \in Incubators : ~Joins(i, g))
JoinsNobody(i, h) == waitingOnMe[i]         \* mutant: nothing waits for it
Joined(i, h) == IF h # NoIncubator THEN h ELSE waitingOnMe[i]
AtBack(i) == Append(list, i)                \* mutant: after those that wait for it
\* QIntrusiveList::insert(), which takes it off first.
InFront(i) == <<i>> \o RemoveFirst(list, i)
Start(i) ==
  /\ MayStart(i) /\ Called /\ owner[i] /\ status[i] = "null"
  /\ Parent(i) # NoIncubator => Alive(Parent(i))
  /\ unit' = [unit EXCEPT ![i] = TRUE]
  /\ inside' = [inside EXCEPT ![i] = TRUE]
  /\ creations' = creations + 1
  /\ \E h \in Incubators \cup {NoIncubator} :
       /\ Host(i, h)
       /\ waitingOnMe' = [waitingOnMe EXCEPT ![i] = Joined(i, h)]
       /\ \/ /\ Mode[i] = "async" \/ h # NoIncubator
             /\ async' = [async EXCEPT ![i] = TRUE]
             /\ list' = InFront(i)
             /\ ChangeStatus(Frame("loading", i, FALSE), "loading", stack)
          \/ /\ ~(Mode[i] = "async" \/ h # NoIncubator)
             /\ async' = [async EXCEPT ![i] = FALSE]
             /\ ChangeStatus(Frame("starting", i, FALSE), "loading", Recurse(i, stack))
             /\ UNCHANGED list
  /\ UNCHANGED <<progress, errors, result, finalized, owner, exists>>

\* QQmlIncubator::clear(), above the frames; i is neither null nor deleted.
BeginClear(i, frames) ==
  /\ LetGo(i)
  /\ result' = IF status[i] = "loading" THEN [result EXCEPT ![i] = FALSE] ELSE result
  /\ stack' = <<[Frame("clear", i, FALSE) EXCEPT !.was = status[i]]>> \o Recurse(i, frames)
Clear(i) ==
  /\ MayCall /\ Called /\ owner[i] /\ status[i] # "null"
  /\ status[i] = "loading" => unit[i]      \* Q_ASSERT: it is not being cleared
  /\ BeginClear(i, stack)
  /\ UNCHANGED <<status, progress, errors, async, contexts, creations, owner, exists>>

ForceCompletion(i) ==
  /\ MayCall /\ Called /\ owner[i] /\ status[i] = "loading"
  /\ stack' = <<Frame("force", i, FALSE)>> \o stack
  /\ UNCHANGED <<incubation, creations, owner, exists>>

\* ~QQmlIncubator()
Delete(i) ==
  /\ MayCall /\ Called /\ owner[i] /\ i \in Deleted
  /\ owner' = [owner EXCEPT ![i] = FALSE]
  /\ UNCHANGED <<incubation, creations, exists, stack>>

\* QQmlIncubationController::incubateFor(), one turn of its loop.
IncubateFor ==
  /\ Settled /\ stack = <<>> /\ list # <<>>
  /\ stack' = <<Frame("enter", Head(list), TRUE)>>
  /\ UNCHANGED <<incubation, creations, owner, exists, calls>>

-----------------------------------------------------------------------------
(* QQmlIncubatorPrivate::incubate().                                       *)

Return == stack' = Rest
Goto(at) == stack' = <<[Top EXCEPT !.at = at, !.callback = FALSE]>> \o Rest

\* vmeGuard guards the objects and the context of what is not being incubated.
Guarded(i) ==
  async[i] /\ \A x \in DOMAIN Rest : Rest[x].inc = i => Rest[x].at \in {"force", "loading"}

\* Its object, when it begins, is another one, and nothing has been started in it yet.
Begins(i) ==
  /\ finalized' = [finalized EXCEPT ![i] = FALSE]
  /\ inside' = [j \in Incubators |-> inside[j] /\ Parent(j) # i]

Enter ==
  /\ At("enter")
  /\ \/ ~unit[Top.inc] /\ Return /\ UNCHANGED <<progress, errors, result, contexts>>
     \/ /\ unit[Top.inc]
        /\ stack' = <<[Top EXCEPT !.at = CASE progress[Top.inc] = "execute" -> "create"
                                           [] progress[Top.inc] = "created" -> "create"
                                           [] progress[Top.inc] = "completing" -> "finalize"
                                           [] OTHER -> "finish"]>> \o Recurse(Top.inc, Rest)
        /\ IF progress[Top.inc] = "execute" THEN Begins(Top.inc) ELSE UNCHANGED contexts
        /\ UNCHANGED <<progress, errors, result>>
     \/ /\ unit[Top.inc]
        /\ \/ UNCHANGED result                    \* "Maximum call stack size exceeded."
           \/ /\ Guarded(Top.inc)                  \* "Object or context destroyed ..."
              /\ result' = [result EXCEPT ![Top.inc] = FALSE]
        /\ errors' = [errors EXCEPT ![Top.inc] = TRUE]
        /\ progress' = [progress EXCEPT ![Top.inc] = "completed"]
        /\ stack' = <<[Top EXCEPT !.at = "finish"]>> \o Recurse(Top.inc, Rest)
        /\ UNCHANGED contexts
  /\ UNCHANGED <<status, unit, async, waitingOnMe, list, creations, owner, exists, calls>>

\* creator->create() returns an object, nothing but errors or, after its first half,
\* nothing for now.
Create ==
  /\ At("create")
  /\ IF Top.recursed THEN Return /\ UNCHANGED <<progress, result, errors>>
     ELSE \/ /\ result' = [result EXCEPT ![Top.inc] = TRUE]
             /\ stack' = <<[Top EXCEPT !.at = "initial", !.callback = owner[Top.inc]]>> \o Rest
             /\ UNCHANGED <<progress, errors>>
          \/ /\ Top.interrupts /\ progress[Top.inc] = "execute"
             /\ progress' = [progress EXCEPT ![Top.inc] = "created"]
             /\ Goto("finish") /\ UNCHANGED <<result, errors>>
          \/ /\ progress[Top.inc] = "execute"
             /\ errors' = [errors EXCEPT ![Top.inc] = TRUE]
             /\ Goto("initial") /\ UNCHANGED <<progress, result>>
  /\ UNCHANGED <<status, unit, async, contexts, waitingOnMe, list, creations, owner, exists,
                 calls>>

\* Required properties may be missing.
Initialized ==
  /\ At("initial")
  /\ \/ Top.recursed /\ Return /\ UNCHANGED <<status, progress, errors>>
     \/ /\ ~Top.recursed
        /\ \E failed \in {errors[Top.inc], TRUE} :
             /\ errors' = [errors EXCEPT ![Top.inc] = failed]
             /\ progress' = [progress EXCEPT ![Top.inc] =
                  IF failed THEN "completed" ELSE "completing"]
             /\ ChangeStatus([Top EXCEPT !.at = "checked"],
                             CalculateStatus(Top.inc, failed, failed, TRUE), Rest)
  /\ UNCHANGED <<unit, result, async, contexts, waitingOnMe, list, creations, owner, exists,
                 calls>>

Checked ==
  /\ At("checked")
  /\ \/ Top.recursed /\ Return
     \/ ~Top.recursed /\ Top.interrupts /\ Goto("finish")
     \/ /\ ~Top.recursed
        /\ Goto(IF progress[Top.inc] = "completing" THEN "finalize" ELSE "finish")
  /\ UNCHANGED <<incubation, creations, owner, exists, calls>>

FinalizeAgain ==                            \* mutant: never completed
  /\ At("finalize")
  /\ IF Top.recursed THEN Return ELSE Goto("finish")
  /\ UNCHANGED <<incubation, creations, owner, exists, calls>>
Finalize ==
  /\ At("finalize")
  /\ \/ Top.recursed /\ Return /\ UNCHANGED <<progress, finalized>>
     \/ ~Top.recursed /\ Top.interrupts /\ Goto("finish") /\ UNCHANGED <<progress, finalized>>
     \/ /\ ~Top.recursed /\ Goto("finish")
        /\ finalized' = [finalized EXCEPT ![Top.inc] = TRUE]
        /\ progress' = [progress EXCEPT ![Top.inc] = "completed"]
  /\ UNCHANGED <<status, errors, unit, result, async, inside, waitingOnMe, list, creations,
                 owner, exists, calls>>

\* finishIncubate:
Finish ==
  /\ At("finish")
  /\ \/ /\ progress[Top.inc] = "completed" /\ WaitingFor(Top.inc) = {}
        /\ LetGo(Top.inc)
        /\ LET i == Top.inc IN
           ChangeStatus([Top EXCEPT !.at = "ended", !.waiting = waitingOnMe[i],
                                    !.recursed = FALSE],
                        CalculateStatus(i, errors[i], TRUE, FALSE),
                        IF waitingOnMe[i] = NoIncubator THEN Rest
                        ELSE Recurse(waitingOnMe[i], Rest))
     \/ /\ ~(progress[Top.inc] = "completed" /\ WaitingFor(Top.inc) = {})
        /\ Return /\ UNCHANGED <<status, unit, list, waitingOnMe>>
  /\ UNCHANGED <<progress, errors, result, async, contexts, creations, owner, exists, calls>>

\* Who waits goes on, unless the callback has seen to it.
Ended ==
  /\ At("ended")
  /\ stack' = (IF Top.waiting # NoIncubator /\ ~Top.recursed
               THEN <<Frame("enter", Top.waiting, Top.interrupts)>> ELSE <<>>)
              \o <<[Top EXCEPT !.at = "count", !.callback = FALSE]>> \o Rest
  /\ UNCHANGED <<incubation, creations, owner, exists, calls>>
Count ==
  /\ At("count") /\ Return /\ creations' = creations - 1
  /\ UNCHANGED <<incubation, owner, exists, calls>>

-----------------------------------------------------------------------------
(* The other functions.                                                    *)

\* QQmlEnginePrivate::incubate(), synchronously: at once, unless cleared.
Started ==
  /\ At("starting")
  /\ stack' = IF Top.recursed THEN Rest ELSE <<Frame("enter", Top.inc, FALSE)>> \o Rest
  /\ UNCHANGED <<incubation, creations, owner, exists, calls>>
Returned ==
  /\ (At("loading") \/ At("null")) /\ Return
  /\ UNCHANGED <<incubation, creations, owner, exists, calls>>

ForceLoop ==
  /\ At("force")
  /\ \/ status[Top.inc] # "loading" /\ Return
     \/ /\ status[Top.inc] = "loading"
        /\ \E j \in WaitingFor(Top.inc) : stack' = <<Frame("force", j, FALSE)>> \o stack
     \/ /\ status[Top.inc] = "loading" /\ WaitingFor(Top.inc) = {}
        /\ stack' = <<Frame("enter", Top.inc, FALSE)>> \o stack
  /\ UNCHANGED <<incubation, creations, owner, exists, calls>>

\* Those it waits for are cleared one after the other, by their owners.
ClearNext ==
  /\ At("clear")
  /\ \E j \in WaitingFor(Top.inc) :
       owner[j] /\ status[j] # "null" /\ BeginClear(j, stack)
  /\ UNCHANGED <<status, progress, errors, async, contexts, creations, owner, exists, calls>>
CountsTwice(was) == was # "null"            \* mutant: finished and cleared
IsCounted(was) == was = "loading"
Cleared ==
  /\ At("clear") /\ WaitingFor(Top.inc) = {}
  /\ errors' = [errors EXCEPT ![Top.inc] = FALSE]
  /\ progress' = [progress EXCEPT ![Top.inc] = "execute"]
  /\ result' = [result EXCEPT ![Top.inc] = FALSE]
  /\ creations' = IF IsCounted(Top.was) THEN creations - 1 ELSE creations
  /\ ChangeStatus([Top EXCEPT !.at = "null"], "null", Rest)
  /\ UNCHANGED <<unit, async, contexts, waitingOnMe, list, owner, exists, calls>>

\* ~QQmlIncubatorPrivate()
Reap(i) ==
  /\ Unreferenced(i)
  /\ exists' = [exists EXCEPT ![i] = FALSE]
  /\ LetGo(i)
  /\ status' = [status EXCEPT ![i] = "null"] /\ result' = [result EXCEPT ![i] = FALSE]
  /\ progress' = [progress EXCEPT ![i] = "execute"]
  /\ UNCHANGED <<errors, async, contexts, creations, owner, stack, calls>>

-----------------------------------------------------------------------------
Incubate == Enter \/ Create \/ Initialized \/ Checked \/ Finalize \/ Finish \/ Ended \/ Count
Engine == Incubate \/ Started \/ Returned \/ ForceLoop \/ ClearNext \/ Cleared
Program == \E i \in Incubators : Start(i) \/ Clear(i) \/ ForceCompletion(i) \/ Delete(i)
Next ==
  \/ \E i \in Incubators : Reap(i)
  \/ Engine \/ Program \/ IncubateFor
Spec == Init /\ [][Next]_vars

\* Calls return, and the controller goes on while there is something to incubate.
FairSpec ==
  /\ Spec
  /\ WF_vars(\E i \in Incubators : Reap(i)) /\ WF_vars(Engine) /\ WF_vars(IncubateFor)
  /\ SF_vars(Finalize /\ progress' # progress)

-----------------------------------------------------------------------------
\* Type invariant: what each variable may hold.
TypeOK ==
  /\ status \in [Incubators -> {"null", "ready", "loading", "error"}]
  /\ progress \in [Incubators -> {"execute", "created", "completing", "completed"}]
  /\ errors \in [Incubators -> BOOLEAN] /\ unit \in [Incubators -> BOOLEAN]
  /\ result \in [Incubators -> BOOLEAN] /\ async \in [Incubators -> BOOLEAN]
  /\ finalized \in [Incubators -> BOOLEAN] /\ inside \in [Incubators -> BOOLEAN]
  /\ waitingOnMe \in [Incubators -> Incubators \cup {NoIncubator}]
  /\ list \in Seq(Incubators) /\ creations \in Nat /\ calls \in 0 .. MaxCalls
  /\ owner \in [Incubators -> BOOLEAN] /\ exists \in [Incubators -> BOOLEAN]
  /\ \A x \in DOMAIN stack : stack[x].at \in Positions /\ stack[x].inc \in Incubators

\* Every variable keeps its type.  Only what is being incubated is in the list that
\* the controller works off, once; and in the event loop all that is loading is there,
\* and nobody waits for what is not being incubated any more, whatever the callbacks
\* have cleared, forced and deleted; unless that has failed and its context, which still
\* names it, has been joined since.
ListIsExact ==
  /\ TypeOK /\ IsInjective(list)
  /\ \A i \in ToSet(list) : unit[i] /\ async[i] /\ exists[i]
  /\ \A i \in Incubators : unit[i] /\ async[i] => i \in ToSet(list)
  /\ stack = <<>> => \A i \in Incubators :
       /\ status[i] = "loading" => i \in ToSet(list)
       /\ waitingOnMe[i] # NoIncubator =>
            unit[i] /\ (unit[waitingOnMe[i]] \/ status[waitingOnMe[i]] = "error")

\* Q_ASSERT(d->compilationUnit.isNull()): what is being cleared is not started again
\* before it is cleared, although those it waits for call back into the program.
ClearsOnce ==
  \A x \in DOMAIN stack : stack[x].at = "clear" => ~unit[stack[x].inc]

\* inProgressCreations: the errors of bindings are held back while anything is being
\* created, so what is loading is counted, though it may be finished, cleared, or
\* cleared while it finishes.
NeverUndercounted ==
  stack = <<>> => creations >= Cardinality({i \in Incubators : status[i] = "loading"})

\* waitingFor and calculateStatus(): what becomes Ready has an object, no errors, and
\* waits for nothing; and what is nested, however deep, and still being created keeps
\* something else waiting: it has not been forgotten on the way.
ReadyIsWhole ==
  [][\A i \in Incubators : status[i] # "ready" /\ status'[i] = "ready" =>
       result[i] /\ ~errors[i] /\ WaitingFor(i) = {}
       /\ \A j \in Incubators : Mode[j] = "nested" /\ async[j] /\ unit[j] =>
            waitingOnMe[j] \notin {i, NoIncubator}]_vars

\* forceCompletion() waits for what is no longer loading, or tries to go on with what
\* is being cleared.
ForceHangs ==
  /\ At("force") /\ status[Top.inc] = "loading"
  /\ \/ \E j \in WaitingFor(Top.inc) : status[j] # "loading"
     \/ WaitingFor(Top.inc) = {} /\ ~unit[Top.inc]

\* clear() goes round its loop for one that it waits for and that has no QQmlIncubator
\* any more to clear it, its private being kept by what is nested in it in turn.
ClearHangs == At("clear") /\ \E j \in WaitingFor(Top.inc) : ~owner[j]
Hangs == ForceHangs \/ ClearHangs

\* Every call of the program and of the controller returns, whatever callbacks it makes,
\* but for the loops of forceCompletion() and of clear() that have nothing to end them.
CallsReturn == stack # <<>> ~> stack = <<>> \/ Hangs

\* What is incubated is sooner or later ready, in error or cleared: the controller
\* always finds something that can go on, unless one of those loops is never left.
Completes == \A i \in Incubators : status[i] = "loading" ~> status[i] # "loading" \/ Hangs

\* forceCompletion(): "Once this call returns, the incubator will not be in the
\* Loading state": it returns.
ForceReturns == At("force") ~> stack = <<>>
=============================================================================

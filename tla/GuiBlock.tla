------------------------------ MODULE GuiBlock ------------------------------
(***************************************************************************)
(* What the threaded render loop's blocking calls promise, without events, *)
(* queues, mutexes or frames: the data a window shares between the GUI     *)
(* thread and its render thread changes hands.  The GUI thread owns the    *)
(* data of all windows until it asks the thread of one window for          *)
(* something; then only that thread touches that window's data, until it   *)
(* answers; then the GUI thread goes on and owns everything again.         *)
(*                                                                         *)
(* This is the "clear blocking paradigm" of the design comment at the top  *)
(* of quick/scenegraph/qsgthreadedrenderloop.cpp.                          *)
(***************************************************************************)
CONSTANTS Windows, Data, NoWindow

VARIABLES
  gui,      \* the GUI thread: owns, asked or answered
  holder,   \* the window whose thread it asked, or NoWindow
  shared    \* the data of every window

vars == <<gui, holder, shared>>

Init ==
  /\ gui = "owns" /\ holder = NoWindow
  /\ shared \in [Windows -> Data]

Edit(w) ==
  /\ gui = "owns"
  /\ \E d \in Data : shared' = [shared EXCEPT ![w] = d]
  /\ UNCHANGED <<gui, holder>>

Ask(w) ==
  /\ gui = "owns"
  /\ gui' = "asked" /\ holder' = w
  /\ UNCHANGED shared

Work(w) ==
  /\ gui = "asked" /\ holder = w
  /\ \E d \in Data : shared' = [shared EXCEPT ![w] = d]
  /\ UNCHANGED <<gui, holder>>

Answer(w) ==
  /\ gui = "asked" /\ holder = w
  /\ gui' = "answered"
  /\ \E d \in Data : shared' = [shared EXCEPT ![w] = d]
  /\ UNCHANGED holder

TakeBack ==
  /\ gui = "answered"
  /\ gui' = "owns" /\ holder' = NoWindow
  /\ UNCHANGED shared

Next == TakeBack \/ \E w \in Windows : Edit(w) \/ Ask(w) \/ Work(w) \/ Answer(w)

Spec == Init /\ [][Next]_vars

=============================================================================

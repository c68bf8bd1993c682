-------------------------------- MODULE Touch --------------------------------
(***************************************************************************)
(* Touch.cpp and its C interface: an open touchscreen.  The kernel queues  *)
(* packets of what the fingers do; the device's thread reads batches,      *)
(* keeps each finger's slot, and tells the program every packet that       *)
(* changed something as Pressed, Moved or Released with all points.        *)
(*                                                                         *)
(* A point is a place on one axis.  A screen either numbers its fingers    *)
(* (slots) or knows one touch only.  The destructor is not called in the   *)
(* callback: the thread would wait for itself.  CurrentPoints is left out: *)
(* it gives no point, whatever is down (Touch.cpp:170-180).                *)
(***************************************************************************)
EXTENDS Integers, Sequences, FiniteSets

CONSTANTS
  MaxPoints,    \* slots that the library keeps, 10 in the code
  Fingers,      \* slots of the screen
  Batch,        \* events that one read gives, 64 in the code
  MaxTouches    \* bound: things the fingers do

VARIABLES
  kind,         \* "slots" or "single"
  fingers,      \* slot -> [down, x]: its finger, and where it is or was
  kernelSlot,   \* the slot that the kernel named last
  touches,
  fresh,        \* nobody had touched the screen when it was opened
  alive,
  queue,
  opened,       \* "new", "open", "closing", "closed"
  slots,        \* the library's fingers
  slot,
  single,       \* [down, x]: the only touch
  changed,      \* somethingChanged
  previous,     \* previousPointCount
  cut,          \* a read ended amid a packet that had changed something, since the
                \* program was last told (history)
  reader,       \* the thread: "none", "poll", "handle", "call", "gone", "ended"
  batch,
  told,         \* the last that the program was told
  connected

touchVars == <<kind, fingers, kernelSlot, touches, fresh, alive, queue, opened, slots, slot, single,
               changed, previous, cut, reader, batch, told, connected>>
screen == <<kind, fingers, kernelSlot, touches, fresh, alive>>
library == <<slots, slot, single, changed, previous, cut, told, connected>>

NoFinger == [down |-> FALSE, x |-> 0]
Down(f) == {s \in DOMAIN f : f[s].down}

Init ==
  /\ kind \in {"slots", "single"}
  /\ fingers = [s \in (IF kind = "slots" THEN Fingers ELSE {0}) |-> NoFinger]
  /\ kernelSlot = 0 /\ touches = 0 /\ fresh = TRUE /\ alive = TRUE
  /\ queue = <<>> /\ opened = "new"
  /\ slots = [s \in 0..MaxPoints - 1 |-> NoFinger] /\ slot = 0 /\ single = NoFinger
  /\ changed = FALSE /\ previous = 0 /\ cut = FALSE
  /\ reader = "none" /\ batch = <<>>
  /\ told = [event |-> "none", points |-> {}] /\ connected = TRUE

Event(code, value) == [code |-> code, value |-> value]

-----------------------------------------------------------------------------
\* The screen: a finger lands, moves or lifts.  The packet leaves out what the
\* kernel said before: the slot, and a place that is the slot's already.
Said(old, new, event) == IF old = new THEN <<>> ELSE <<event>>

Finger(s, f) ==
  /\ alive /\ touches < MaxTouches /\ touches' = touches + 1
  /\ fingers' = [fingers EXCEPT ![s] = f]
  /\ kernelSlot' = s
  /\ queue' = IF opened = "new" THEN queue
              ELSE queue \o Said(kernelSlot, s, Event("SLOT", s))
                         \o Said(fingers[s].down, f.down,
                                 Event(IF kind = "slots" THEN "ID" ELSE "TOUCH",
                                       IF f.down THEN 1 ELSE 0))
                         \o Said(fingers[s].x, f.x,
                                 Event(IF kind = "slots" THEN "X" ELSE "SINGLE_X", f.x))
                         \o <<Event("SYN", 0)>>
  /\ UNCHANGED <<kind, fresh, alive, opened, library, reader, batch>>

Lands(s, x) == ~fingers[s].down /\ Finger(s, [down |-> TRUE, x |-> x])
Moves(s, x) == fingers[s].down /\ fingers[s].x # x /\ Finger(s, [down |-> TRUE, x |-> x])
Lifts(s) == fingers[s].down /\ Finger(s, [fingers[s] EXCEPT !.down = FALSE])

Unplug ==
  /\ alive /\ alive' = FALSE
  /\ UNCHANGED <<kind, fingers, kernelSlot, touches, fresh, queue, opened, library, reader, batch>>

-----------------------------------------------------------------------------
\* The constructor: the file of a touchscreen, and the thread.  The library
\* takes it to be untouched and the kernel's slot to be 0.
Open ==
  /\ opened = "new" /\ alive
  /\ opened' = "open" /\ reader' = "poll"
  /\ fresh' = (touches = 0)
  /\ UNCHANGED <<kind, fingers, kernelSlot, touches, alive, queue, library, batch>>

\* poll and read; an unplugged screen ends both, whatever is unread
Read ==
  /\ reader = "poll" /\ opened = "open" /\ alive /\ queue # <<>>
  /\ LET n == IF Len(queue) < Batch THEN Len(queue) ELSE Batch IN
       batch' = SubSeq(queue, 1, n) /\ queue' = SubSeq(queue, n + 1, Len(queue))
  /\ changed' = FALSE
  /\ reader' = "handle"
  /\ UNCHANGED <<screen, opened, slots, slot, single, previous, cut, told, connected>>

Tells(event, points) == told' = [event |-> event, points |-> points]

ReadGone ==
  /\ reader = "poll" /\ opened = "open" /\ ~alive
  /\ connected' = FALSE /\ Tells("Released", {})
  /\ reader' = "gone"
  /\ UNCHANGED <<screen, queue, opened, slots, slot, single, changed, previous, cut, batch>>

\* An event of a slot, or of the only touch
Takes(e) ==
  /\ slot' = IF e.code = "SLOT" /\ e.value < MaxPoints THEN e.value ELSE slot
  /\ slots' = CASE e.code = "ID" -> [slots EXCEPT ![slot].down = (e.value # 0)]
                [] e.code = "X" -> [slots EXCEPT ![slot].x = e.value]
                [] OTHER -> slots
  /\ single' = CASE e.code = "TOUCH" -> [single EXCEPT !.down = (e.value # 0)]
                 [] e.code = "SINGLE_X" -> [single EXCEPT !.x = e.value]
                 [] OTHER -> single
  /\ changed' = (changed \/ e.code \in {"ID", "X", "TOUCH"})

HandleNext ==
  /\ reader = "handle" /\ batch # <<>> /\ Head(batch).code # "SYN"
  /\ Takes(Head(batch)) /\ batch' = Tail(batch)
  /\ UNCHANGED <<screen, queue, opened, previous, cut, told, connected, reader>>

\* The points at the end of a packet, and what is said of them
Points ==
  IF kind = "slots" THEN {<<s, slots[s].x>> : s \in Down(slots)}
  ELSE IF single.down THEN {<<0, single.x>>} ELSE {}

EventType(count) ==
  IF count > 0 /\ previous = 0 THEN "Pressed"
  ELSE IF count = 0 /\ previous > 0 THEN "Released" ELSE "Moved"

SynReport ==
  /\ reader = "handle" /\ batch # <<>> /\ Head(batch).code = "SYN"
  /\ batch' = Tail(batch) /\ changed' = FALSE
  /\ IF changed
     THEN /\ Tells(EventType(Cardinality(Points)), Points)
          /\ previous' = Cardinality(Points) /\ cut' = FALSE
          /\ reader' = "call"
     ELSE UNCHANGED <<told, previous, cut, reader>>
  /\ UNCHANGED <<screen, queue, opened, slots, slot, single, connected>>

CallbackReturns ==
  /\ reader \in {"call", "gone"}
  /\ reader' = IF reader = "call" THEN "handle" ELSE "ended"
  /\ UNCHANGED <<screen, queue, opened, library, batch>>

Handled ==
  /\ reader = "handle" /\ batch = <<>>
  /\ reader' = "poll" /\ cut' = (cut \/ changed)
  /\ UNCHANGED <<screen, queue, opened, slots, slot, single, changed, previous, told, connected,
                 batch>>

\* The destructor wakes the thread, which ends when its batch is handled, and
\* waits for it
Close ==
  /\ opened = "open" /\ opened' = "closing"
  /\ UNCHANGED <<screen, queue, library, reader, batch>>

Woken ==
  /\ reader = "poll" /\ opened = "closing"
  /\ reader' = "ended"
  /\ UNCHANGED <<screen, queue, opened, library, batch>>

\* Mutant: without waiting
ClosedEarly ==
  /\ opened = "closing"
  /\ opened' = "closed"
  /\ UNCHANGED <<screen, queue, library, reader, batch>>

Closed ==
  /\ opened = "closing" /\ reader = "ended"
  /\ opened' = "closed"
  /\ UNCHANGED <<screen, queue, library, reader, batch>>

ReaderStep ==
  Read \/ ReadGone \/ HandleNext \/ SynReport \/ CallbackReturns \/ Handled \/ Woken

Next ==
  \/ \E s \in DOMAIN fingers :
       \/ \E x \in 0..1 : Lands(s, x) \/ Moves(s, x)
       \/ Lifts(s)
  \/ Unplug
  \/ ReaderStep
  \/ Open \/ Close \/ Closed

\* The thread runs on and the callback returns.
Fairness == WF_touchVars(ReaderStep) /\ WF_touchVars(Closed)

Spec == Init /\ [][Next]_touchVars /\ Fairness

-----------------------------------------------------------------------------
\* The screen, the library's slots and the thread have their types.
TypeOK ==
  /\ kind \in {"slots", "single"} /\ alive \in BOOLEAN
  /\ opened \in {"new", "open", "closing", "closed"}
  /\ slot \in 0..MaxPoints - 1 /\ previous \in 0..MaxPoints
  /\ changed \in BOOLEAN /\ cut \in BOOLEAN /\ connected \in BOOLEAN
  /\ reader \in {"none", "poll", "handle", "call", "gone", "ended"}

AllRead == reader = "poll" /\ opened = "open" /\ alive /\ queue = <<>> /\ fresh

\* When all is read, the library has the fingers where they are, on a screen
\* that was not touched before it was opened: the library does not ask.
StateIsDevice ==
  AllRead => IF kind = "slots" THEN \A s \in Fingers : slots[s] = fingers[s]
             ELSE single = fingers[0]

\* ... and the last that the program was told has the fingers that are down, each
\* where it is, unless a read ended in the midst of a packet (Touch.cpp:232 forgets
\* that its first part changed something).  Of the only touch the program is told where it
\* landed: a move of it changes nothing (Touch.cpp:255-258).
ToldIsState ==
  AllRead /\ ~cut =>
    /\ {p[1] : p \in told.points} = Down(fingers)
    /\ kind = "slots" => \A p \in told.points : p[2] = fingers[p[1]].x

\* Once the destructor is through, the callback does not run any more.
NoCallAfterClose == opened = "closed" => reader = "ended"

\* A screen that is pulled out is told as Released, unless the program closes it.
UnpluggedIsTold == (~alive /\ opened = "open") ~> ((told.points = {} /\ ~connected) \/ opened # "open")

\* When the last finger has left the screen and all is read, the program was
\* told of Released, "last finger up".
ReleasedIsTold == AllRead /\ Down(fingers) = {} => told.points = {}

=============================================================================

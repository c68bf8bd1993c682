-------------------------------- MODULE Input -------------------------------
(***************************************************************************)
(* Input.cpp: an open keyboard, mouse or joystick.  The kernel queues what *)
(* the device does; the device's thread reads a batch under the lock into  *)
(* the state that the program's threads read, and tells the program each   *)
(* change without the lock, so the program may be told of one while it     *)
(* moves the cursor itself or closes the device.                           *)
(*                                                                         *)
(* One stick or cursor axis and two or three keys stand for the device's:  *)
(* a joystick has one button and a hat.  A mouse's scale is counted in     *)
(* halves.  Character tables are left out.                                 *)
(***************************************************************************)
EXTENDS Integers, Sequences, FiniteSets

CONSTANTS
  Threads,
  Bounds,       \* the <<lo, hi>> that the program gives the cursor
  Batch,        \* events that one read gives, 64 in the code
  MaxEvents,    \* bound: things the device does, and moves and scales of the program
  None

VARIABLES
  kind,
  held,         \* the keys or buttons that are down, on the device itself
  place,        \* where its stick is
  unseen,       \* hat buttons down since before it was open (history): the code does not ask
  turns,        \* how often its wheel went up and down since the file is open
  done,         \* counts what the device and the program did to it
  alive,        \* "plugged", "released" (its keys), "dead"
  queue,        \* the file's events, once it is open
  opened,       \* "new", "file", "open", "closing", "closed"
  closer,
  s,            \* State: what the library says of the device
  reader,       \* its thread
  batch,        \* what it has read and not handled yet
  out,          \* what it has still to tell
  stop, connected,
  told,         \* what the program was told
  overtaken     \* the program moved the cursor while a move was being told

inputVars == <<kind, held, place, unseen, turns, done, alive, queue, opened, closer, s, reader,
               batch, out, stop, connected, told, overtaken>>
device == <<kind, held, place, unseen, turns, done, alive>>
life == <<opened, closer, stop>>

Keys == CASE kind = "keyboard" -> {"A", "CapsLock"}
          [] kind = "mouse" -> {"Left", "Right"}
          [] OTHER -> {"Trigger", "Up", "Down"}
Dpad == {"Up", "Down"}

Clamp(n, b) == IF n < b[1] THEN b[1] ELSE IF n > b[2] THEN b[2] ELSE n

\* (int) of a number of halves
Whole(halves) == IF halves >= 0 THEN halves \div 2 ELSE -((-halves) \div 2)

\* A stick at 0..2 on the program's scale
Scale(value, b) == b[1] + (value * (b[2] - b[1])) \div 2

\* The hat's direction from its buttons, which may both be down
Direction(dpad) ==
  IF dpad = {"Up"} THEN "Up" ELSE IF dpad = {"Down"} THEN "Down" ELSE "None"

Fresh == [down |-> {}, caps |-> FALSE, x |-> 0, bounds |-> <<0, 2>>, scale |-> 2, restX |-> 0,
          wheel |-> 0, restWheel |-> 0, movedX |-> 0, movedWheel |-> 0, changed |-> <<>>,
          axis |-> 0, joystick |-> {}, dpad |-> {}, hat |-> "None", out |-> <<>>]

Init ==
  /\ kind \in {"keyboard", "mouse", "joystick"}
  /\ held \in {h \in SUBSET Keys : Cardinality(h) <= 1}
  /\ place = IF kind = "joystick" THEN 1 ELSE 0
  /\ turns = <<0, 0>> /\ unseen = {} /\ done = 0 /\ alive = "plugged"
  /\ queue = <<>> /\ opened = "new" /\ closer = None
  /\ s = Fresh /\ reader = "none" /\ batch = <<>> /\ out = <<>> /\ stop = FALSE /\ connected = TRUE
  /\ told = [down |-> {}, x |-> 0, wheel |-> 0, hat |-> "None", gone |-> FALSE]
  /\ overtaken = FALSE

-----------------------------------------------------------------------------
\* The device and its driver: each thing it does while the file is open is one
\* packet in it; what it did before is where Init has it.
Event(type, code, value) == [type |-> type, code |-> code, value |-> value]
Syn == Event("syn", "REPORT", 0)

Queues(events) ==
  /\ alive = "plugged" /\ opened \notin {"new", "closed"} /\ done < MaxEvents
  /\ done' = done + 1 /\ queue' = queue \o events
  /\ UNCHANGED <<kind, alive, batch, life, s, reader, out, connected, told, overtaken>>

Press(k) ==
  /\ k \in Keys \ held /\ held' = held \cup {k}
  /\ Queues(<<Event("key", k, 1), Syn>>)
  /\ UNCHANGED <<place, unseen, turns>>

Release(k) ==
  /\ k \in held /\ held' = held \ {k}
  /\ Queues(<<Event("key", k, 0), Syn>>)
  /\ unseen' = unseen \ {k}
  /\ UNCHANGED <<place, turns>>

Repeats(k) ==
  /\ k \in held /\ kind = "keyboard"
  /\ Queues(<<Event("key", k, 2), Syn>>)
  /\ UNCHANGED <<held, place, unseen, turns>>

Moves(by) ==
  /\ kind = "mouse"
  /\ Queues(<<Event("rel", "X", by), Syn>>)
  /\ UNCHANGED <<held, place, unseen, turns>>

Turns(by) ==
  /\ kind = "mouse"
  /\ Queues(<<Event("rel", "WHEEL", by), Syn>>)
  /\ turns' = [turns EXCEPT ![IF by > 0 THEN 1 ELSE 2] = @ + 1]
  /\ UNCHANGED <<held, place, unseen>>

Tilts(to) ==
  /\ kind = "joystick" /\ to # place /\ place' = to
  /\ Queues(<<Event("abs", "X", to), Syn>>)
  /\ UNCHANGED <<held, unseen, turns>>

\* Pulled out: the kernel releases the keys still held, one after the other, then
\* ends the device; what was not read by then is lost
Unplug ==
  \/ /\ alive = "plugged" /\ opened # "closed" /\ alive' = "released"
     /\ \E order \in [1..Cardinality(held) -> held] :
          /\ {order[i] : i \in DOMAIN order} = held
          /\ queue' = IF opened = "new" THEN queue
                      ELSE queue \o [i \in DOMAIN order |-> Event("key", order[i], 0)]
                                 \o <<Syn>>
     /\ held' = {} /\ unseen' = {}
     /\ UNCHANGED <<kind, place, turns, done, batch, life, s, reader, out, connected, told, overtaken>>
  \/ /\ alive = "released" /\ opened # "closed" /\ alive' = "dead"
     /\ queue' = <<>>
     /\ UNCHANGED <<kind, held, place, unseen, turns, done, batch, life, s, reader, out,
                    connected, told, overtaken>>

-----------------------------------------------------------------------------
\* The constructor: the file, then what the device is at.  EVIOCGKEY gives the
\* keys and takes their events out of the file; the others keep their order.
\* A hat of buttons is taken to be at rest.
OpenFile ==
  /\ opened = "new" /\ alive = "plugged" /\ opened' = "file"
  /\ UNCHANGED <<device, queue, batch, closer, stop, s, reader, out, connected, told, overtaken>>

Open ==
  /\ opened = "file" /\ alive = "plugged" /\ opened' = "open"
  /\ \E n \in 0..Len(queue) : \E order \in [1..n -> 1..Len(queue)] :
       /\ \A i, j \in 1..n : i < j => order[i] < order[j]
       /\ {order[i] : i \in 1..n} = {i \in 1..Len(queue) : queue[i].type # "key"}
       /\ queue' = [i \in 1..n |-> queue[order[i]]]
  /\ s' = CASE kind = "keyboard" -> [Fresh EXCEPT !.down = held]
            [] kind = "mouse" -> [Fresh EXCEPT !.down = held]
            [] OTHER -> [Fresh EXCEPT !.down = held \ Dpad, !.joystick = held \ Dpad,
                                      !.axis = place, !.x = Scale(place, Fresh.bounds)]
  /\ told' = [told EXCEPT !.down = s'.down, !.x = s'.x]
  /\ unseen' = IF kind = "joystick" THEN held \cap Dpad ELSE {}
  /\ reader' = "poll"
  /\ UNCHANGED <<kind, held, place, turns, done, alive, batch, closer, stop, out, connected, overtaken>>

-----------------------------------------------------------------------------
\* Handle: one event
Tell(event, what, value) == [event |-> event, what |-> what, value |-> value]
Changed(set, what, value) == IF value # 0 THEN set \cup {what} ELSE set \ {what}

\* Mutant: a key that repeats is told each time
HandleKeyboardRepeats(st, e) ==
  IF e.type # "key" THEN st
  ELSE [st EXCEPT !.down = Changed(@, e.code, e.value),
                  !.out = Append(@, Tell("key", e.code, e.value))]

HandleKeyboard(st, e) ==
  IF e.type # "key" \/ e.value = 2 THEN st
  ELSE [st EXCEPT !.down = Changed(@, e.code, e.value),
                  !.caps = IF e.code = "CapsLock" /\ e.value # 0 THEN ~@ ELSE @,
                  !.out = Append(@, Tell("key", e.code, e.value))]

\* As TinyCLR: the wheel, the cursor, then the buttons
Wheel(st) ==
  LET rest == st.restWheel + st.movedWheel * st.scale
      step == Whole(rest) IN
  [st EXCEPT !.restWheel = rest - 2 * step, !.wheel = @ + step,
             !.out = IF step # 0 THEN Append(@, Tell("wheel", "", st.wheel + step)) ELSE @]

Cursor(st) ==
  LET rest == st.restX + st.movedX * st.scale
      x == Clamp(st.x + Whole(rest), st.bounds) IN
  [st EXCEPT !.restX = rest - 2 * Whole(rest), !.x = x,
             !.out = IF x # st.x THEN Append(@, Tell("cursor", "", x)) ELSE @]

Button(st, change) ==
  IF (change[1] \in st.down) = (change[2] # 0) THEN st
  ELSE [st EXCEPT !.down = Changed(@, change[1], change[2]),
                  !.out = Append(@, Tell("button", change[1], change[2]))]

\* The end of a packet: the moves, and the next of the buttons that changed
Packet(st) ==
  LET moved == [Cursor(Wheel(st)) EXCEPT !.movedX = 0, !.movedWheel = 0] IN
  IF st.changed = <<>> THEN moved
  ELSE [Button(moved, Head(st.changed)) EXCEPT !.changed = Tail(@)]

HandleMouse(st, e) ==
  CASE e.type = "rel" /\ e.code = "X" -> [st EXCEPT !.movedX = @ + e.value]
    [] e.type = "rel" /\ e.code = "WHEEL" -> [st EXCEPT !.movedWheel = @ + e.value]
    [] e.type = "key" -> [st EXCEPT !.changed = Append(@, <<e.code, e.value>>)]
    [] OTHER -> Packet(st)

Report(st) ==
  LET x == Scale(st.axis, st.bounds)
      hat == Direction(st.dpad)
      pressed == IF "Trigger" \in st.joystick THEN 1 ELSE 0 IN
  [st EXCEPT !.x = x, !.hat = hat, !.down = st.joystick,
     !.out = @ \o (IF x # st.x THEN <<Tell("cursor", "", x)>> ELSE <<>>)
               \o (IF hat # st.hat THEN <<Tell("hat", hat, 0)>> ELSE <<>>)
               \o (IF st.joystick # st.down THEN <<Tell("button", "Trigger", pressed)>>
                   ELSE <<>>)]

HandleJoystick(st, e) ==
  CASE e.type = "abs" -> [st EXCEPT !.axis = e.value]
    [] e.type = "key" /\ e.code \in Dpad -> [st EXCEPT !.dpad = Changed(@, e.code, e.value)]
    [] e.type = "key" /\ e.code \notin Dpad ->
         [st EXCEPT !.joystick = Changed(@, e.code, e.value)]
    [] OTHER -> Report(st)

Handle(st, e) ==
  CASE kind = "keyboard" -> HandleKeyboard(st, e)
    [] kind = "mouse" -> HandleMouse(st, e)
    [] OTHER -> HandleJoystick(st, e)

-----------------------------------------------------------------------------
\* Run
Polled ==
  /\ reader = "poll" /\ (stop \/ queue # <<>> \/ alive = "dead")
  /\ reader' = IF stop THEN "ended" ELSE "read"
  /\ UNCHANGED <<device, queue, batch, life, s, out, connected, told, overtaken>>

Read ==
  /\ reader = "read" /\ alive # "dead"
  /\ LET n == IF Len(queue) < Batch THEN Len(queue) ELSE Batch IN
       batch' = SubSeq(queue, 1, n) /\ queue' = SubSeq(queue, n + 1, Len(queue))
  /\ reader' = "handle"
  /\ UNCHANGED <<device, life, s, out, connected, told, overtaken>>

\* The lock is held over the batch: the program's calls wait.  The end of a mouse's
\* packet is left in it until the buttons that changed are through, one a step.
HandleNext ==
  /\ reader = "handle" /\ batch # <<>>
  /\ s' = Handle(s, Head(batch))
  /\ batch' = IF kind = "mouse" /\ Head(batch).type = "syn" /\ s'.changed # <<>> THEN batch
              ELSE Tail(batch)
  /\ UNCHANGED <<device, queue, life, reader, out, connected, told, overtaken>>

Handled ==
  /\ reader = "handle" /\ batch = <<>>
  /\ out' = s.out /\ s' = [s EXCEPT !.out = <<>>]
  /\ reader' = "tell"
  /\ UNCHANGED <<device, queue, batch, life, connected, told, overtaken>>

ReadGone ==
  /\ reader = "read" /\ alive = "dead"
  /\ connected' = FALSE /\ out' = <<Tell("disconnected", "", 0)>>
  /\ reader' = "tell"
  /\ UNCHANGED <<device, queue, batch, life, s, told, overtaken>>

\* What the classes of UsbHost.h make of an event for the program
HearsMouse(o) ==
  CASE o.event = "button" -> [told EXCEPT !.down = Changed(@, o.what, o.value)]
    [] o.event = "wheel" -> [told EXCEPT !.wheel = o.value]
    [] o.event = "cursor" -> [told EXCEPT !.x = o.value]

HearsKeyboard(o) == [told EXCEPT !.down = Changed(@, o.what, o.value)]

HearsJoystick(o) ==
  CASE o.event = "button" -> [told EXCEPT !.down = Changed(@, o.what, o.value)]
    [] o.event = "cursor" -> [told EXCEPT !.x = o.value]
    [] o.event = "hat" -> [told EXCEPT !.hat = o.what]

Hears(o) ==
  CASE o.event = "disconnected" -> [told EXCEPT !.gone = TRUE]
    [] o.event # "disconnected" /\ kind = "mouse" -> HearsMouse(o)
    [] o.event # "disconnected" /\ kind = "keyboard" -> HearsKeyboard(o)
    [] OTHER -> HearsJoystick(o)

Tells ==
  /\ reader = "tell" /\ out # <<>> /\ ~stop
  /\ told' = Hears(Head(out)) /\ out' = Tail(out)
  /\ reader' = "call"
  /\ UNCHANGED <<device, queue, batch, life, s, connected, overtaken>>

CallbackReturns ==
  /\ reader = "call" /\ (closer = "reader" => opened = "closed")
  /\ reader' = "tell"
  /\ UNCHANGED <<device, queue, batch, life, s, out, connected, told, overtaken>>

AllTold ==
  /\ reader = "tell" /\ (out = <<>> \/ stop)
  /\ out' = <<>>
  /\ reader' = IF ~connected \/ stop THEN "ended" ELSE "poll"
  /\ UNCHANGED <<device, queue, batch, life, s, connected, told, overtaken>>

-----------------------------------------------------------------------------
\* The program moves the cursor, bounds it, or scales the moves
SetCursor(st) ==
  /\ opened = "open" /\ reader # "handle" /\ s' = st /\ s' # s
  /\ done < MaxEvents /\ done' = done + 1
  /\ told' = [told EXCEPT !.x = st.x]
  /\ overtaken' = (overtaken \/ (\E i \in 1..Len(out) : out[i].event = "cursor"))
  /\ UNCHANGED <<kind, held, place, unseen, turns, alive, queue, batch, life, reader, out, connected>>

SetCursorBounds(b) ==
  /\ kind # "keyboard"
  /\ SetCursor([s EXCEPT !.bounds = b,
                         !.x = IF kind = "mouse" THEN Clamp(@, b) ELSE Scale(s.axis, b)])

SetCursorPosition(x) == kind = "mouse" /\ SetCursor([s EXCEPT !.x = Clamp(x, s.bounds)])

SetScale(halves) ==
  /\ kind = "mouse" /\ opened = "open" /\ reader # "handle" /\ halves # s.scale
  /\ s' = [s EXCEPT !.scale = halves]
  /\ done < MaxEvents /\ done' = done + 1
  /\ UNCHANGED <<kind, held, place, unseen, turns, alive, queue, batch, life, reader, out, connected,
                 told, overtaken>>

\* The destructor, on a thread or in the callback, and its end
Close(c) ==
  /\ opened = "open" /\ (c = "reader" => reader = "call")
  /\ opened' = "closing" /\ closer' = c /\ stop' = TRUE
  /\ UNCHANGED <<device, queue, batch, s, reader, out, connected, told, overtaken>>

Closed ==
  /\ opened = "closing" /\ (closer # "reader" => reader = "ended")
  /\ opened' = "closed"
  /\ UNCHANGED <<device, queue, batch, closer, stop, s, reader, out, connected, told, overtaken>>

ReaderStep ==
  \/ Polled \/ Read \/ ReadGone \/ HandleNext \/ Handled
  \/ Tells \/ CallbackReturns \/ AllTold

Next ==
  \/ \E k \in {"A", "CapsLock", "Left", "Right", "Trigger"} \cup Dpad :
       Press(k) \/ Release(k) \/ Repeats(k)
  \/ \E by \in {-1, 1} : Moves(by) \/ Turns(by)
  \/ \E to \in 0..2 : Tilts(to)
  \/ Unplug
  \/ OpenFile \/ Open
  \/ ReaderStep
  \/ \E b \in Bounds : SetCursorBounds(b)
  \/ SetCursorPosition(1)
  \/ \E halves \in {1, 2} : SetScale(halves)
  \/ \E c \in Threads \cup {"reader"} : Close(c)
  \/ Closed

\* The device's thread runs on, the callback returns, and a device that was
\* pulled out is ended by the kernel.
Fairness ==
  /\ WF_inputVars(ReaderStep) /\ WF_inputVars(Closed)
  /\ WF_inputVars(alive = "released" /\ Unplug)

Spec == Init /\ [][Next]_inputVars /\ Fairness

-----------------------------------------------------------------------------
\* The device, its thread and what the program was told have their types.
TypeOK ==
  /\ alive \in {"plugged", "released", "dead"}
  /\ opened \in {"new", "file", "open", "closing", "closed"}
  /\ closer \in Threads \cup {"reader", None}
  /\ reader \in {"none", "poll", "read", "handle", "tell", "call", "ended"}
  /\ s.down \subseteq Keys /\ told.down \subseteq Keys
  /\ stop \in BOOLEAN /\ connected \in BOOLEAN /\ overtaken \in BOOLEAN

Idle == reader = "poll" /\ ~stop
AllRead == Idle /\ alive = "plugged" /\ queue = <<>>

\* When all is read, the state that the library gives is the device's: the keys
\* and buttons that are down, whatever was pressed while the file was opened,
\* the hat, but for its buttons down before the device was open (Input.cpp:427-499
\* asks for no buttons of a hat), and every turn of the wheel, however the scale
\* changed between them.
StateIsDevice ==
  AllRead =>
    /\ s.down = (IF kind = "joystick" THEN held \ Dpad ELSE held)
    /\ kind = "joystick" =>
         s.x = Scale(place, s.bounds) /\ s.hat = Direction((held \cap Dpad) \ unseen)
    /\ LET sum == 2 * s.wheel + s.restWheel IN
         turns[1] - 2 * turns[2] <= sum /\ sum <= 2 * turns[1] - turns[2]
    /\ s.restWheel \in -1..1

\* The changes that the program was told add up to the state, unless the
\* program itself moved the cursor while a move was on its way to it.
ToldIsState ==
  Idle => /\ told.down = s.down /\ told.wheel = s.wheel /\ told.hat = s.hat
          /\ told.x = s.x \/ overtaken

\* A call tells the program something it did not know: never a key that is
\* down as pressed, a release that it had, or a second Disconnected.
TellsNews == [][reader = "tell" /\ reader' = "call" /\ ~overtaken => told' # told]_inputVars

\* Disconnected is the last the program hears, and it hears nothing once the
\* destructor is through, unless it was called by the callback itself.
LastCall ==
  /\ told.gone /\ reader # "call" => out = <<>> /\ reader \in {"tell", "ended"}
  /\ opened = "closed" => reader = "ended" \/ closer = "reader"

\* A device that is pulled out is told to be, unless the program closes it.
UnpluggedIsTold == (alive # "plugged" /\ opened = "open") ~> (told.gone \/ opened # "open")

=============================================================================

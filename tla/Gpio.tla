-------------------------------- MODULE Gpio --------------------------------
(***************************************************************************)
(* GpioControllerImpl: one controller, the threads that call it and the    *)
(* watcher thread that polls the lines and runs the callbacks.             *)
(*                                                                         *)
(* The controller's gate is held for a whole call, so a call is one step;  *)
(* WaitForEvent gives the gate up while it waits and ClosePin before its   *)
(* Wake.  Watch holds it for the snapshot of the lines (one step) and      *)
(* while it reads the lines that poll reported: pc "loop", the only place  *)
(* where a thread can block with the gate held.                            *)
(*                                                                         *)
(* A line is a file of the kernel's, and a closed file's number is given   *)
(* to the next one.  A call that throws before it changes anything (a pin  *)
(* not open, an output for events) has no action; reservations are in      *)
(* PeripheralPins.                                                         *)
(***************************************************************************)
EXTENDS Integers, FiniteSets, Sequences

CONSTANTS
  Pins,        \* pin numbers
  Fds,         \* file numbers the kernel may give to lines
  Changes,     \* Rising, Falling
  Threads,     \* the program's threads
  MaxId,       \* bound: callbacks ever added
  MaxChanges,  \* bound: pin changes in a behaviour
  MaxQueue,    \* the kernel's queue of a line's changes
  None,        \* no change happened yet
  NoFd         \* the file of a line that is not open

ASSUME PinsAssumption == Pins \subseteq Int /\ IsFiniteSet(Pins)
ASSUME BoundsAssumption == MaxId \in Nat /\ MaxChanges \in Nat /\ MaxQueue \in Nat \ {0}
ASSUME NamesAssumption == None \notin Changes /\ NoFd \notin Fds

VARIABLES
  lines,      \* pin -> its line
  events,     \* file -> changes the kernel has queued
  callbacks,  \* the registered ones
  nextId,
  thread,     \* what each thread is in the middle of: WaitForEvent, ClosePin
  control,    \* running, stopping (the destructor), joining, disposed
  wake,       \* the eventfd's counter is not zero
  watcher,    \* the watcher thread
  changed     \* pin changes so far

vars == <<lines, events, callbacks, nextId, thread, control, wake, watcher, changed>>

-----------------------------------------------------------------------------
\* A line's mode is an input's or Output; one that is not set yet (-1) counts
\* as an input, and UpdateEdges makes it one.
Closed == [fd |-> NoFd, mode |-> "input", edges |-> {}]
IsOpen(p) == lines[p] # Closed
FreeFds == Fds \ {lines[p].fd : p \in Pins}

Idle == [pc |-> "idle", pin |-> 0, types |-> {}, happened |-> None, timed |-> FALSE]
NoWatcher == [pc |-> "none", watched |-> {}, attached |-> {}, ready |-> {}, woken |-> FALSE,
              calls |-> <<>>]

Init ==
  /\ lines = [p \in Pins |-> Closed]
  /\ events = [f \in Fds |-> <<>>]
  /\ callbacks = {}
  /\ nextId = 1
  /\ thread = [t \in Threads |-> Idle]
  /\ control = "running"
  /\ wake = FALSE
  /\ watcher = NoWatcher
  /\ changed = 0

GateFree == watcher.pc # "loop"
MayCall == GateFree /\ control = "running"

\* What the callbacks cbs and the waiters among thr want to hear of pin p
WantedEdges(p, cbs, thr) ==
  (UNION {c.types : c \in {d \in cbs : d.pin = p}}) \cup
  (UNION {thr[t].types : t \in {u \in Threads : thr[u].pc = "waiting" /\ thr[u].pin = p}})

\* Mutant: the watcher is not told that it has another line to poll.
ConfigureSilently(p, mode, edges) ==
  /\ lines' = [lines EXCEPT ![p].mode = mode, ![p].edges = IF mode = "output" THEN {} ELSE edges]
  /\ wake' = wake

\* Configure and its callers' Wake: an output reports no changes
Configure(p, mode, edges) ==
  /\ lines' = [lines EXCEPT ![p].mode = mode, ![p].edges = IF mode = "output" THEN {} ELSE edges]
  /\ wake' = TRUE

\* UpdateEdges throws for an output that should report changes
UpdateThrows(p, wanted) == IsOpen(p) /\ wanted # {} /\ lines[p].mode = "output"

UpdateEdges(p, wanted) ==
  IF ~IsOpen(p) \/ wanted = lines[p].edges
  THEN UNCHANGED <<lines, wake>>
  ELSE Configure(p, lines[p].mode, wanted)

\* watcher = std::thread(Watch), with the first callback or waiter
StartWatcher ==
  watcher' = IF watcher.pc = "none" THEN [watcher EXCEPT !.pc = "snapshot"] ELSE watcher

-----------------------------------------------------------------------------
\* OpenPin; the kernel gives the line any file number that is free
OpenPin(p) ==
  /\ MayCall
  /\ ~IsOpen(p)
  /\ \E f \in FreeFds : lines' = [lines EXCEPT ![p] = [fd |-> f, mode |-> "input", edges |-> {}]]
  /\ UNCHANGED <<events, callbacks, nextId, thread, control, wake, watcher, changed>>

SetPinMode(p, mode) ==
  /\ MayCall
  /\ IsOpen(p)
  /\ Configure(p, mode, WantedEdges(p, callbacks, thread))
  /\ UNCHANGED <<events, callbacks, nextId, thread, control, watcher, changed>>

\* Mutant: the line's record outlives its file.
CloseFileOnly(p) == lines' = [lines EXCEPT ![p].fd = NoFd]

CloseLine(p) == lines' = [lines EXCEPT ![p] = Closed]

\* Closing a file takes it out of a poll under way: poll looks files up by
\* number again before it returns.
ClosePin(t, p) ==
  /\ MayCall
  /\ thread[t] = Idle
  /\ IsOpen(p)
  /\ callbacks' = {c \in callbacks : c.pin # p}
  /\ events' = [events EXCEPT ![lines[p].fd] = <<>>]
  /\ watcher' = [watcher EXCEPT !.attached = @ \ {lines[p].fd}]
  /\ CloseLine(p)
  /\ thread' = [thread EXCEPT ![t] = [Idle EXCEPT !.pc = "closing"]]
  /\ UNCHANGED <<nextId, control, wake, changed>>

ClosePinWakes(t) ==
  /\ thread[t].pc = "closing"
  /\ wake' = TRUE
  /\ thread' = [thread EXCEPT ![t] = Idle]
  /\ UNCHANGED <<lines, events, callbacks, nextId, control, watcher, changed>>

AddCallback(p, types) ==
  LET cbs == callbacks \cup {[id |-> nextId, pin |-> p, types |-> types]}
      wanted == WantedEdges(p, cbs, thread)
  IN  /\ MayCall
      /\ nextId <= MaxId
      /\ IsOpen(p)
      /\ ~UpdateThrows(p, wanted)
      /\ UpdateEdges(p, wanted)
      /\ callbacks' = cbs
      /\ nextId' = nextId + 1
      /\ StartWatcher
      /\ UNCHANGED <<events, thread, control, changed>>

\* The callback is gone even when UpdateEdges throws (an output with another
\* callback, or the kernel refuses the new edges).
RemoveCallback(c) ==
  LET cbs == callbacks \ {c}
      wanted == WantedEdges(c.pin, cbs, thread)
  IN  /\ MayCall
      /\ callbacks' = cbs
      /\ \/ ~UpdateThrows(c.pin, wanted) /\ UpdateEdges(c.pin, wanted)
         \/ UNCHANGED <<lines, wake>>
      /\ UNCHANGED <<events, nextId, thread, control, watcher, changed>>

WaitBegin(t, p, types, timed) ==
  LET thr == [thread EXCEPT ![t] =
                [pc |-> "waiting", pin |-> p, types |-> types, happened |-> None, timed |-> timed]]
      wanted == WantedEdges(p, callbacks, thr)
  IN  /\ MayCall
      /\ thread[t] = Idle
      /\ IsOpen(p)
      /\ ~UpdateThrows(p, wanted)
      /\ UpdateEdges(p, wanted)
      /\ thread' = thr
      /\ StartWatcher
      /\ UNCHANGED <<events, callbacks, nextId, control, changed>>

\* The change came, or the time is up.  An error of UpdateEdges is dropped.
WaitEnd(t) ==
  LET p == thread[t].pin
      thr == [thread EXCEPT ![t] = Idle]
      wanted == WantedEdges(p, callbacks, thr)
  IN  /\ GateFree
      /\ thread[t].pc = "waiting"
      /\ thread[t].happened # None \/ thread[t].timed
      /\ thread' = thr
      /\ \/ ~UpdateThrows(p, wanted) /\ UpdateEdges(p, wanted)
         \/ UNCHANGED <<lines, wake>>
      /\ UNCHANGED <<events, callbacks, nextId, control, watcher, changed>>

\* The destructor.  The program destroys a controller that no thread is in.
Dispose ==
  /\ MayCall
  /\ \A t \in Threads : thread[t] = Idle
  /\ control' = "stopping"
  /\ UNCHANGED <<lines, events, callbacks, nextId, thread, wake, watcher, changed>>

\* Mutant: the destructor joins a watcher that still sleeps.
DisposeForgetsWake ==
  /\ control = "stopping"
  /\ control' = "joining"
  /\ UNCHANGED <<lines, events, callbacks, nextId, thread, wake, watcher, changed>>

DisposeWakes ==
  /\ control = "stopping"
  /\ control' = "joining"
  /\ wake' = TRUE
  /\ UNCHANGED <<lines, events, callbacks, nextId, thread, watcher, changed>>

DisposeJoined ==
  /\ control = "joining"
  /\ watcher.pc \in {"none", "exited"}
  /\ control' = "disposed"
  /\ lines' = [p \in Pins |-> Closed]
  /\ events' = [f \in Fds |-> <<>>]
  /\ UNCHANGED <<callbacks, nextId, thread, wake, watcher, changed>>

-----------------------------------------------------------------------------
\* Watch, first gate: the lines to poll, or the end
Snapshot ==
  /\ watcher.pc = "snapshot"
  /\ watcher' =
       IF control \in {"stopping", "joining"}
       THEN [NoWatcher EXCEPT !.pc = "exited"]
       ELSE [watcher EXCEPT
               !.pc = "enter",
               !.watched = {<<p, lines[p].fd>> : p \in {q \in Pins : lines[q].edges # {}}}]
  /\ UNCHANGED <<lines, events, callbacks, nextId, thread, control, wake, changed>>

OpenFds == {lines[p].fd : p \in Pins} \ {NoFd}
Readable == {x \in watcher.watched : x[2] \in OpenFds /\ events[x[2]] # <<>>}

\* poll, when it has something to report: it looks the files up by number
PollReports ==
  watcher' = [watcher EXCEPT !.pc = "drain", !.ready = Readable, !.woken = wake,
                             !.watched = {}, !.attached = {}]

PollEnter ==
  /\ watcher.pc = "enter"
  /\ IF wake \/ Readable # {} \/ \E x \in watcher.watched : x[2] \notin OpenFds
     THEN PollReports
     ELSE watcher' = [watcher EXCEPT !.pc = "poll", !.attached = {x[2] : x \in watcher.watched}]
  /\ UNCHANGED <<lines, events, callbacks, nextId, thread, control, wake, changed>>

PollReturns ==
  /\ watcher.pc = "poll"
  /\ wake \/ \E f \in watcher.attached : events[f] # <<>>
  /\ PollReports
  /\ UNCHANGED <<lines, events, callbacks, nextId, thread, control, wake, changed>>

Drain ==
  /\ watcher.pc = "drain"
  /\ wake' = (wake /\ ~watcher.woken)
  /\ watcher' = [watcher EXCEPT !.pc = "lock", !.woken = FALSE]
  /\ UNCHANGED <<lines, events, callbacks, nextId, thread, control, changed>>

LoopBegin ==
  /\ watcher.pc = "lock"
  /\ watcher' = [watcher EXCEPT !.pc = "loop"]
  /\ UNCHANGED <<lines, events, callbacks, nextId, thread, control, wake, changed>>

NextReady == CHOOSE x \in watcher.ready : \A y \in watcher.ready : x[1] <= y[1]
\* The open lines, by now, that have the number of the file that was polled
Matching == {p \in Pins : lines[p].fd = NextReady[2] /\ lines[p].edges # {}}
Matches == watcher.ready # {} /\ Matching # {}

LoopSkip ==
  /\ watcher.pc = "loop"
  /\ watcher.ready # {}
  /\ Matching = {}
  /\ watcher' = [watcher EXCEPT !.ready = @ \ {NextReady}]
  /\ UNCHANGED <<lines, events, callbacks, nextId, thread, control, wake, changed>>

\* The callbacks that hear the change, in the order they were added
CallsFor(p, change) ==
  LET heard == {c \in callbacks : c.pin = p /\ change \in c.types}
  IN  {s \in [1..Cardinality(heard) -> heard] :
         \A i, j \in DOMAIN s : i < j => s[i].id < s[j].id}

\* read: it blocks until the file has a change
LoopRead ==
  /\ watcher.pc = "loop"
  /\ watcher.ready # {}
  /\ \E p \in Matching :
       LET f == NextReady[2]
           change == Head(events[f])
       IN  /\ events[f] # <<>>
           /\ events' = [events EXCEPT ![f] = Tail(@)]
           /\ \E calls \in CallsFor(p, change) :
                watcher' = [watcher EXCEPT !.ready = @ \ {NextReady}, !.calls = @ \o calls]
           /\ thread' = [t \in Threads |->
                IF /\ thread[t].pc = "waiting" /\ thread[t].pin = p
                   /\ change \in thread[t].types /\ thread[t].happened = None
                THEN [thread[t] EXCEPT !.happened = change] ELSE thread[t]]
  /\ UNCHANGED <<lines, callbacks, nextId, control, wake, changed>>

\* The gate is free, and the waiters are notified
LoopEnd ==
  /\ watcher.pc = "loop"
  /\ watcher.ready = {}
  /\ watcher' = [watcher EXCEPT !.pc = "call"]
  /\ UNCHANGED <<lines, events, callbacks, nextId, thread, control, wake, changed>>

CallNext ==
  /\ watcher.pc = "call"
  /\ watcher.calls # <<>>
  /\ watcher' = [watcher EXCEPT !.calls = Tail(@)]
  /\ UNCHANGED <<lines, events, callbacks, nextId, thread, control, wake, changed>>

CallsDone ==
  /\ watcher.pc = "call"
  /\ watcher.calls = <<>>
  /\ watcher' = [watcher EXCEPT !.pc = "snapshot"]
  /\ UNCHANGED <<lines, events, callbacks, nextId, thread, control, wake, changed>>

\* The kernel queues a change that the line reports; a full queue drops its oldest
PinChanges(p, change) ==
  LET f == lines[p].fd
      queue == Append(events[f], change)
  IN  /\ changed < MaxChanges
      /\ change \in lines[p].edges
      /\ changed' = changed + 1
      /\ events' = [events EXCEPT ![f] = IF Len(queue) > MaxQueue THEN Tail(queue) ELSE queue]
      /\ UNCHANGED <<lines, callbacks, nextId, thread, control, wake, watcher>>

-----------------------------------------------------------------------------
Types == SUBSET Changes \ {{}}

Calls ==
  \/ \E c \in callbacks : RemoveCallback(c)
  \/ \E p \in Pins :
       \/ OpenPin(p)
       \/ \E mode \in {"input", "output"} : SetPinMode(p, mode)
       \/ \E types \in Types : AddCallback(p, types)
       \/ \E t \in Threads : ClosePin(t, p)
       \/ \E t \in Threads, types \in Types, timed \in BOOLEAN : WaitBegin(t, p, types, timed)
  \/ Dispose

WatchNext ==
  \/ Snapshot \/ PollEnter \/ PollReturns \/ Drain \/ LoopBegin
  \/ LoopSkip \/ LoopRead \/ LoopEnd \/ CallNext \/ CallsDone

DisposeNext == DisposeWakes \/ DisposeJoined

Next ==
  \/ Calls
  \/ \E t \in Threads : ClosePinWakes(t) \/ WaitEnd(t)
  \/ DisposeNext
  \/ WatchNext
  \/ \E p \in Pins, change \in Changes : PinChanges(p, change)

\* The watcher runs, a destructor goes on, ClosePin gets to its Wake, and a
\* thread whose wait is over gets the gate if it keeps being free.
Fairness ==
  /\ WF_vars(WatchNext)
  /\ WF_vars(DisposeNext)
  /\ \A t \in Threads : WF_vars(ClosePinWakes(t)) /\ SF_vars(WaitEnd(t))

Spec == Init /\ [][Next]_vars /\ Fairness

-----------------------------------------------------------------------------
Line == [fd : Fds, mode : {"input", "output"}, edges : SUBSET Changes] \cup {Closed}
CallbackType == [id : 1..MaxId, pin : Pins, types : SUBSET Changes]
WatcherPc == {"none", "snapshot", "enter", "poll", "drain", "lock", "loop", "call", "exited"}

TypeOK ==
  /\ lines \in [Pins -> Line]
  /\ events \in [Fds -> Seq(Changes)]
  /\ callbacks \subseteq CallbackType
  /\ nextId \in 1..(MaxId + 1)
  /\ thread \in [Threads -> [pc : {"idle", "waiting", "closing"}, pin : Pins \cup {0},
                             types : SUBSET Changes, happened : Changes \cup {None},
                             timed : BOOLEAN]]
  /\ control \in {"running", "stopping", "joining", "disposed"}
  /\ wake \in BOOLEAN
  /\ watcher \in [pc : WatcherPc, watched : SUBSET (Pins \X Fds), attached : SUBSET Fds,
                  ready : SUBSET (Pins \X Fds), woken : BOOLEAN, calls : Seq(CallbackType)]
  /\ changed \in Nat

\* The watcher sleeps in read with the gate held.
WatcherBlocks == watcher.pc = "loop" /\ Matches /\ events[NextReady[2]] = <<>>

\* A callback is never deaf, whatever is opened, closed, reconfigured or
\* removed around it (Gpio.cpp:136, 178 and 341): while it is registered its
\* pin is open and a watcher exists, an input reports the changes it asked
\* for, and poll does not sleep on without that line.
CallbackHeard(c) ==
  /\ lines[c.pin] # Closed
  /\ watcher.pc # "none"
  /\ lines[c.pin].mode # "output" => c.types \subseteq lines[c.pin].edges
  /\ watcher.pc = "poll" /\ ~wake /\ lines[c.pin].edges # {} =>
       lines[c.pin].fd \in watcher.attached

CallbacksHeard == control # "disposed" => \A c \in callbacks : CallbackHeard(c)

\* A change of a line that is being watched is read, unless the line is closed
\* or reconfigured first, or the watcher blocks (run gpio_timeout).
Pending(p) == lines[p].edges # {} /\ lines[p].fd \in Fds /\ events[lines[p].fd] # <<>>

EveryChangeRead == \A p \in Pins : Pending(p) ~> (~Pending(p) \/ WatcherBlocks)

\* The destructor comes back: the watcher sees that it must stop (Gpio.cpp:52).
DisposeReturns == control = "stopping" ~> (control = "disposed" \/ WatcherBlocks)

\* "Waits for a pin change, at most timeout" (Gpio.h:149).
WaitTimesOut ==
  \A t \in Threads : (thread[t].pc = "waiting" /\ thread[t].timed) ~> thread[t].pc # "waiting"

=============================================================================
